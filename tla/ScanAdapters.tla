---------------------------- MODULE ScanAdapters ----------------------------
(***************************************************************************)
(* Calls of the DuckDB, Parquet and S3 Parquet adapters at the same time   *)
(* on one tokio runtime.  They share nothing but its blocking threads.     *)
(***************************************************************************)
EXTENDS DuckDbRun, ParquetRun

CONSTANT Failed

ASSUME CallersAssumption ==
    /\ Callers = Readers \cup Setups \cup LocalCalls \cup RemoteCalls
    /\ (Readers \cup Setups) \cap (LocalCalls \cup RemoteCalls) = {}

vars == <<pool, calls, duckdb, parquet>>

Init == PoolInit /\ CallsInit /\ DuckInit /\ ParquetInit

Terminated ==
    /\ Cardinality({c \in Callers : pc[c] = "done"}) = MaxCalls
    /\ UNCHANGED vars

Next ==
    \/ DuckNext /\ UNCHANGED parquet
    \/ ParquetNext /\ UNCHANGED duckdb
    \/ Terminated

Spec == Init /\ [][Next]_vars

Step(c) ==
    \/ c \in Readers \cup Setups /\ DuckStep(c) /\ UNCHANGED parquet
    \/ c \in ParquetCalls /\ ParquetStep(c) /\ UNCHANGED duckdb

\* The runtime polls what is ready, and what a blocking thread was given ends: DuckDB
\* and the file system answer, be it with an error.  Nobody has to call.
FairSpec == Spec /\ \A c \in Callers : WF_vars(Step(c))

-----------------------------------------------------------------------------
(* Correctness.                                                            *)

\* What the row groups of a call are, taken together.
Judged(c) == IF read[c] = [g \in 1 .. NumGroups |-> seen[c]] THEN seen[c] ELSE Partial

Executes == Callers \ Setups

Contract == INSTANCE DataAdapterContract WITH
    Callers <- Executes,
    seen <- [c \in Executes |-> seen[c]],
    current <- [c \in Executes |->
                  CASE c \in Readers -> applied
                    [] c \in RemoteCalls -> object
                    [] c \in LocalCalls -> AtPath(c)],
    answer <- [c \in Executes |->
                 CASE answer[c] = "none" -> None
                   [] answer[c] \in {"connection", "query"} -> Failed
                   [] answer[c] = "ok" /\ c \in ParquetCalls /\ seen[c] # Spoiled -> Judged(c)
                   [] OTHER -> seen[c]]

\* Every adapter keeps the promise of DataAdapter::execute: an Ok is about one
\* version of the table, current at some moment of the call, although a file is
\* validated, opened and read in separate steps and an object is copied first.
ImplementsContract == Contract!Spec

\* The adapters invent no failure: an Err was caused by the network, the disk, the
\* data or the engine, or by a panic of another call that poisoned the connection.  A
\* temporary file that is read before it is written, or after it is gone, would be
\* one.
ErrHasACause ==
    \A c \in Callers :
        answer[c] \in {"connection", "query"} =>
            c \in harmed \/ (c \in Readers \cup Setups /\ poisoned)

\* Every call is answered, and its temporary file gone, whatever failed or panicked
\* in the others and however few threads there are: a job that waits for the mutex
\* keeps its thread, and must not keep the one that would let it go.
EveryCallEnds ==
    \A c \in Callers :
        pc[c] # "idle" ~> pc[c] = "done" /\ (c \in RemoteCalls => tmp[c] = Gone)
=============================================================================
