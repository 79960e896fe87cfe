----------------------------- MODULE DuckDbRun ------------------------------
(***************************************************************************)
(* One DuckDbAdapter and its callers: Readers call execute, Setups call    *)
(* execute_setup with a batch of Statements statements.  Every call is one *)
(* job on a blocking thread, which locks the mutex of the connection, and  *)
(* keeps the lock until its closure ends, by `?`, by a panic or by a       *)
(* result.  A panic under the lock poisons the mutex for good.             *)
(*                                                                         *)
(* DuckDB is external: a statement outside a transaction commits by        *)
(* itself, and a SELECT reads one state of the database.                   *)
(***************************************************************************)
EXTENDS AdapterCalls

CONSTANTS
    Readers, Setups,
    Statements  \* in the batch of a setup call

ASSUME DuckAssumption ==
    /\ Readers \cap Setups = {}
    /\ Statements \in Nat
    /\ None \notin [Setups -> 0 .. Statements]

VARIABLES
    holder,    \* the call that has the mutex, or None
    poisoned,
    applied    \* the database: how much of each batch has been executed

duckdb == <<holder, poisoned, applied>>

DuckInit ==
    /\ holder = None
    /\ poisoned = FALSE
    /\ applied = [s \in Setups |-> 0]

DuckCall(c) ==
    /\ Idle(c)
    /\ Spawn(c)
    /\ Goto(c, "queued")
    /\ UNCHANGED <<seen, duckdb>>

DuckThread(c) ==
    /\ pc[c] = "queued"
    /\ TakeJob(c)
    /\ Goto(c, "waiting")
    /\ UNCHANGED <<seen, duckdb>>

\* Plausible bug: lock().unwrap_or_else(PoisonError::into_inner).
PoisonIgnored == FALSE

Refused == poisoned

Lock(c) ==
    /\ pc[c] = "waiting"
    /\ holder = None
    /\ IF Refused
         THEN Return(c, "connection") /\ EndJob(c) /\ UNCHANGED holder
         ELSE Goto(c, "locked") /\ holder' = c /\ UNCHANGED pool
    /\ UNCHANGED <<seen, poisoned, applied>>

\* prepare, query_arrow and collect: all batches are in memory when the lock is let
\* go.
Select(r) ==
    /\ pc[r] = "locked"
    /\ seen' = [seen EXCEPT ![r] = applied]
    /\ Goto(r, "collected")
    /\ UNCHANGED <<pool, duckdb>>

\* One statement of execute_batch.
ExecuteNext(s) ==
    /\ pc[s] = "locked"
    /\ applied[s] < Statements
    /\ applied' = [applied EXCEPT ![s] = @ + 1]
    /\ UNCHANGED <<calls, pool, holder, poisoned>>

\* The closure of a setup call ends.
SetupDone(s) ==
    /\ pc[s] = "locked"
    /\ applied[s] = Statements
    /\ Return(s, "ok")
    /\ EndJob(s)
    /\ holder' = None
    /\ UNCHANGED <<seen, poisoned, applied>>

\* The closure of execute ends, and evaluate runs on its batches without the lock.
Evaluate(r) ==
    /\ pc[r] = "collected"
    /\ Return(r, "ok")
    /\ EndJob(r)
    /\ holder' = None
    /\ UNCHANGED <<seen, poisoned, applied>>

\* Plausible bug: the lock is not released on the way out of a failure.
HolderKept == holder

HolderAfterFailure == None

\* `?` under the lock: of prepare or query_arrow, or of a statement of the batch,
\* whose predecessors stay in the database.
DuckFails(c) ==
    /\ pc[c] = "locked"
    /\ c \in Setups => applied[c] < Statements
    /\ ReturnHarmed(c, "query")
    /\ EndJob(c)
    /\ holder' = HolderAfterFailure
    /\ UNCHANGED <<seen, poisoned, applied>>

\* A panic under the lock: the caller is told by the JoinHandle.
DuckPanics(c) ==
    /\ pc[c] = "locked"
    /\ ReturnHarmed(c, "connection")
    /\ EndJob(c)
    /\ holder' = HolderAfterFailure
    /\ poisoned' = TRUE
    /\ UNCHANGED <<seen, applied>>

DuckStep(c) ==
    \/ DuckThread(c)
    \/ Lock(c)
    \/ DuckFails(c)
    \/ DuckPanics(c)
    \/ c \in Readers /\ (Select(c) \/ Evaluate(c))
    \/ c \in Setups /\ (ExecuteNext(c) \/ SetupDone(c))

DuckNext == \E c \in Readers \cup Setups : DuckCall(c) \/ DuckStep(c)

-----------------------------------------------------------------------------
\* An Ok is about whole batches: of each one the table has everything or nothing,
\* unless its own caller was told by a query error that it stopped half way.  A batch
\* that a panic cut short has no such answer; the poisoned mutex hides it for good.
NoTornBatch ==
    \A r \in Readers, s \in Setups :
        answer[r] = "ok" => seen[r][s] \in {0, Statements} \/ answer[s] = "query"
=============================================================================
