---------------------------- MODULE BlockingPool ----------------------------
(***************************************************************************)
(* tokio's pool of blocking threads, to which the scan adapters give every *)
(* synchronous call: jobs wait in one queue, oldest first, for one of at   *)
(* most Threads threads, and a job that has one keeps it until it ends,    *)
(* also while it is blocked.  External: this is what the adapters rely on. *)
(***************************************************************************)
EXTENDS Naturals, Sequences, FiniteSets

CONSTANT Threads

ASSUME ThreadsAssumption == Threads \in Nat \ {0}

VARIABLES
    queue,  \* the jobs that have no thread yet
    busy    \* the jobs that have one

pool == <<queue, busy>>

PoolInit == queue = <<>> /\ busy = {}

\* spawn_blocking(job)
Spawn(job) == queue' = Append(queue, job) /\ UNCHANGED busy

\* A thread takes the oldest job.
TakeJob(job) ==
    /\ queue # <<>> /\ Head(queue) = job
    /\ Cardinality(busy) < Threads
    /\ queue' = Tail(queue)
    /\ busy' = busy \cup {job}

\* The closure returns, or panics; its result is with the JoinHandle.
EndJob(job) == busy' = busy \ {job} /\ UNCHANGED queue
=============================================================================
