------------------------------- MODULE CliRun -------------------------------
(***************************************************************************)
(* `ematix-probe run FILE`, several at once, with --run-history-db PATH of *)
(* the same history or without: _cmd_run imports the file, executes the    *)
(* probes it finds there one after the other, and records each report with *)
(* RunHistory before it prints it.                                         *)
(*                                                                         *)
(* SQLite is external.  db is what is on disk; the first INSERT of record  *)
(* opens a transaction, with the write lock, in which txn is the database  *)
(* its writer sees; commit makes it the one on disk, and the death of the  *)
(* writer rolls it back.  One writer holds the lock at a time, the others  *)
(* wait and are told "database is locked" when they wait too long.         *)
(*                                                                         *)
(* A report is the sequence of the verdicts of its assertions; an adapter  *)
(* error is an exception of p.run(), which nothing catches.                *)
(***************************************************************************)
EXTENDS Integers, Sequences, Verdicts

CONSTANTS
    Runners,    \* the processes
    NumProbes,  \* how many probes a file has, if it has any, in discovery order
    Reports,    \* the reports a probe may return
    MayRaise,   \* whether an adapter may fail
    NoOne

ASSUME RunnersAssumption == NoOne \notin Runners
ASSUME ProbesAssumption ==
    NumProbes \in Nat \ {0} /\ Reports \subseteq Seq(Verdict) /\ MayRaise \in BOOLEAN

VARIABLES
    recording, \* args.run_history_db is given
    pc,        \* "import", "open", "run", "record", "assertions", "commit", "print";
               \*   "exited" (main returned), "raised" (exception), "killed"
    found,     \* how many probes were discovered
    executed,  \* history: the reports p.run() returned to each process
    printed,   \* how many reports each process has printed
    any_fail,
    code,      \* exit code, once the process has ended
    run_id,    \* cur.lastrowid
    writer,    \* the holder of the write lock
    db, txn    \* [runs, assertions]: a run's id is its position

process  == <<recording, pc, found, executed, printed, any_fail, code, run_id>>
database == <<writer, db, txn>>
vars == <<process, database>>

Init ==
    /\ recording \in [Runners -> BOOLEAN]
    /\ pc = [r \in Runners |-> "import"]
    /\ found = [r \in Runners |-> 0]
    /\ executed = [r \in Runners |-> <<>>]
    /\ printed = [r \in Runners |-> 0]
    /\ any_fail = [r \in Runners |-> FALSE]
    /\ code = [r \in Runners |-> 0]
    /\ run_id = [r \in Runners |-> 0]
    /\ writer = NoOne
    /\ db = [runs |-> <<>>, assertions |-> {}]
    /\ txn = db

Report(r) == executed[r][Len(executed[r])]

Goto(r, label) == pc' = [pc EXCEPT ![r] = label]

Exit(r, c) ==
    /\ Goto(r, "exited")
    /\ code' = [code EXCEPT ![r] = c]

\* An exception that reaches the interpreter: a traceback, and exit code 1.
Uncaught(r) ==
    /\ Goto(r, "raised")
    /\ code' = [code EXCEPT ![r] = 1]

-----------------------------------------------------------------------------
(* Import and discovery.                                                   *)

Discover(r) ==
    /\ pc[r] = "import"
    /\ found' = [found EXCEPT ![r] = NumProbes]
    /\ Goto(r, IF recording[r] THEN "open" ELSE "run")
    /\ UNCHANGED <<recording, executed, printed, any_fail, code, run_id, database>>

NoProbes(r) ==
    /\ pc[r] = "import"
    /\ Exit(r, 0)
    /\ UNCHANGED <<recording, found, executed, printed, any_fail, run_id, database>>

\* A FileNotFoundError or an ImportError, of the file or of its own code, is
\* answered with exit code 2; another exception of its code is not caught.
ImportFails(r) ==
    /\ pc[r] = "import"
    /\ Exit(r, 2) \/ Uncaught(r)
    /\ UNCHANGED <<recording, found, executed, printed, any_fail, run_id, database>>

-----------------------------------------------------------------------------
(* The loop of _cmd_run.                                                   *)

\* Plausible bug: a probe in error does not count.
NotPassedIfFailed(report) == Reduce(report) = "Fail"

NotPassed(report) == Reduce(report) # "Pass"

\* The top of the loop, when k probes are behind.
Continue(r, k, fail) ==
    IF k < found[r]
      THEN Goto(r, "run") /\ UNCHANGED code
      ELSE Exit(r, IF fail THEN 1 ELSE 0)

\* RunHistory(path): the schema is created if it is not there, and its version set.
OpenHistory(r) ==
    /\ pc[r] = "open"
    /\ writer = NoOne
    /\ Continue(r, 0, FALSE)
    /\ UNCHANGED <<recording, found, executed, printed, any_fail, run_id, database>>

RunProbe(r) ==
    /\ pc[r] = "run"
    /\ \E report \in Reports : executed' = [executed EXCEPT ![r] = Append(@, report)]
    /\ Goto(r, IF recording[r] THEN "record" ELSE "print")
    /\ UNCHANGED <<recording, found, printed, any_fail, code, run_id, database>>

ProbeRaises(r) ==
    /\ MayRaise
    /\ pc[r] = "run"
    /\ Uncaught(r)
    /\ UNCHANGED <<recording, found, executed, printed, any_fail, run_id, database>>

PrintReport(r) ==
    LET fail == any_fail[r] \/ NotPassed(Report(r)) IN
    /\ pc[r] = "print"
    /\ printed' = [printed EXCEPT ![r] = @ + 1]
    /\ any_fail' = [any_fail EXCEPT ![r] = fail]
    /\ Continue(r, Len(executed[r]), fail)
    /\ UNCHANGED <<recording, found, executed, run_id, database>>

-----------------------------------------------------------------------------
(* RunHistory.record.                                                      *)

\* Plausible bug: the last run of a probe is replaced.
InsertOrReplace(runs, row) == Append(SelectSeq(runs, LAMBDA x : x.probe # row.probe), row)

InsertInto(runs, row) == Append(runs, row)

\* Plausible bug: every statement commits.
Autocommitted(t) == t

\* What a statement inside the transaction leaves on disk.
OnDisk(t) == db

InsertRun(r) ==
    /\ pc[r] = "record"
    /\ writer = NoOne
    /\ writer' = r
    /\ txn' = [db EXCEPT !.runs = InsertInto(@,
                 [by |-> r, probe |-> Len(executed[r]), verdict |-> Reduce(Report(r))])]
    /\ run_id' = [run_id EXCEPT ![r] = Len(txn'.runs)]
    /\ db' = OnDisk(txn')
    /\ Goto(r, "assertions")
    /\ UNCHANGED <<recording, found, executed, printed, any_fail, code>>

InsertAssertions(r) ==
    /\ pc[r] = "assertions"
    /\ txn' = [txn EXCEPT !.assertions = @ \cup
                 {[run_id |-> run_id[r], assertion_index |-> i, verdict |-> Report(r)[i]] :
                    i \in DOMAIN Report(r)}]
    /\ Goto(r, "commit")
    /\ UNCHANGED <<recording, found, executed, printed, any_fail, code, run_id, writer, db>>

\* Plausible bug: the connection is closed without a commit.
CommitForgotten(t) == db

Committed(t) == t

\* Plausible bug: the connection stays open, in its transaction.
HolderAfterLeak(r) == r

HolderAfter(r) == NoOne

Commit(r) ==
    /\ pc[r] = "commit"
    /\ db' = Committed(txn)
    /\ txn' = Committed(txn)
    /\ writer' = HolderAfter(r)
    /\ Goto(r, "print")
    /\ UNCHANGED <<recording, found, executed, printed, any_fail, code, run_id>>

\* "database is locked": of the schema's creation, or of the first INSERT.
Locked(r) ==
    /\ pc[r] \in {"open", "record"}
    /\ writer # NoOne
    /\ Uncaught(r)
    /\ UNCHANGED <<recording, found, executed, printed, any_fail, run_id, database>>

-----------------------------------------------------------------------------
Alive(r) == pc[r] \notin {"exited", "raised", "killed"}

\* The process dies; a transaction of its own is rolled back.
Kill(r) ==
    /\ Alive(r)
    /\ Goto(r, "killed")
    /\ writer' = IF writer = r THEN NoOne ELSE writer
    /\ txn' = IF writer = r THEN db ELSE txn
    /\ UNCHANGED <<recording, found, executed, printed, any_fail, code, run_id, db>>

Terminated == (\A r \in Runners : ~Alive(r)) /\ UNCHANGED vars

Step(r) ==
    \/ Discover(r)
    \/ NoProbes(r)
    \/ ImportFails(r)
    \/ OpenHistory(r)
    \/ RunProbe(r)
    \/ ProbeRaises(r)
    \/ InsertRun(r)
    \/ InsertAssertions(r)
    \/ Commit(r)
    \/ Locked(r)
    \/ PrintReport(r)
    \/ Kill(r)

Next == (\E r \in Runners : Step(r)) \/ Terminated

Spec == Init /\ [][Next]_vars

-----------------------------------------------------------------------------
(* Correctness.                                                            *)

\* The lock is held exactly inside record's transaction, nothing is uncommitted
\* outside it, and a process has printed no more than it executed.
TypeOK ==
    /\ \A r \in Runners : writer = r <=> pc[r] \in {"assertions", "commit"}
    /\ writer = NoOne => txn = db
    /\ \A r \in Runners : printed[r] <= Len(executed[r]) /\ Len(executed[r]) <= found[r]
    /\ found \in [Runners -> {0, NumProbes}]
    /\ code \in [Runners -> {0, 1, 2}]

\* The rows of a run in the history.
AssertionsOf(id) == {a \in db.assertions : a.run_id = id}

\* At any moment, whoever was killed wherever, each run in the history is there with
\* exactly the assertion results of the report it records, those of no other run, and
\* the verdict that they reduce to; no assertion row is without its run.
RunsAreWhole ==
    /\ \A id \in DOMAIN db.runs :
         LET run == db.runs[id]
             report == executed[run.by][run.probe]
         IN  /\ run.verdict = Reduce(report)
             /\ AssertionsOf(id) =
                  {[run_id |-> id, assertion_index |-> i, verdict |-> report[i]] : i \in DOMAIN report}
    /\ \A a \in db.assertions : a.run_id \in DOMAIN db.runs

RecordsOf(r, k) == {id \in DOMAIN db.runs : db.runs[id].by = r /\ db.runs[id].probe = k}

\* What a process with a history has printed is in it, once; what it has not
\* executed, or was to run without a history, is not: a reader of the history misses
\* at most the probe at hand.
PrintedIsRecorded ==
    \A r \in Runners, k \in 1 .. NumProbes :
        /\ recording[r] /\ k <= printed[r] => \E id \in DOMAIN db.runs : RecordsOf(r, k) = {id}
        /\ ~recording[r] \/ k > Len(executed[r]) => RecordsOf(r, k) = {}

\* Exit code 0 is a promise: every probe that was found was executed, its report
\* passed, and it is in the history if there is to be one.
ExitZeroIsHonest ==
    \A r \in Runners :
        pc[r] = "exited" /\ code[r] = 0 =>
            /\ Len(executed[r]) = found[r]
            /\ \A k \in 1 .. found[r] :
                 /\ Reduce(executed[r][k]) = "Pass"
                 /\ recording[r] => RecordsOf(r, k) # {}

\* "Append-only persister": the rows on disk stay as they are, and a run keeps its id.
AppendOnly ==
    [][ /\ Len(db.runs) <= Len(db'.runs)
        /\ \A id \in DOMAIN db.runs : db'.runs[id] = db.runs[id]
        /\ db.assertions \subseteq db'.assertions ]_vars

-----------------------------------------------------------------------------
(* A claim of the documentation that the code does not keep.               *)

\* "The engine maps Err(AdapterError) to a run-level Verdict::Error so callers can
\* distinguish a failed assertion from a failed probe": a run that was not killed has
\* a verdict for every probe, those of a failed adapter included.
EveryProbeHasAVerdict ==
    \A r \in Runners :
        pc[r] \in {"exited", "raised"} => Len(executed[r]) = found[r]
=============================================================================
