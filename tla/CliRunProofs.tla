---------------------------- MODULE CliRunProofs ----------------------------
(***************************************************************************)
(* Theorems about `ematix-probe run` and its history database, for every   *)
(* number of processes and of probes, every set of reports, and whichever  *)
(* processes are killed wherever.                                          *)
(***************************************************************************)
EXTENDS CliRun, SequenceTheorems, TLAPS

Labels ==
    {"import", "open", "run", "record", "assertions", "commit", "print", "exited", "raised", "killed"}

RunRow == [by : Runners, probe : Nat, verdict : Verdict]
AssertionRow == [run_id : Nat, assertion_index : Nat, verdict : Verdict]
Database == [runs : Seq(RunRow), assertions : SUBSET AssertionRow]

ProcessType ==
    /\ recording \in [Runners -> BOOLEAN]
    /\ pc \in [Runners -> Labels]
    /\ found \in [Runners -> {0, NumProbes}]
    /\ executed \in [Runners -> Seq(Reports)]
    /\ printed \in [Runners -> Nat]
    /\ any_fail \in [Runners -> BOOLEAN]
    /\ code \in [Runners -> {0, 1, 2}]
    /\ run_id \in [Runners -> Nat]

DatabaseType ==
    /\ writer \in Runners \cup {NoOne}
    /\ db \in Database
    /\ txn \in Database

\* SQLite's part: the lock is held inside record's transaction, and nothing is
\* uncommitted outside it.
LockInv ==
    /\ \A r \in Runners : writer = r <=> pc[r] \in {"assertions", "commit"}
    /\ writer = NoOne => txn = db

\* The loop of _cmd_run: how much has been executed and printed at each label, what
\* any_fail remembers, and what it takes to exit with 0.
LoopInv(r) ==
    /\ printed[r] <= Len(executed[r])
    /\ Len(executed[r]) <= found[r]
    /\ pc[r] = "import" => found[r] = 0
    /\ pc[r] \in {"import", "open"} => executed[r] = <<>> /\ ~any_fail[r]
    /\ pc[r] = "run" => printed[r] = Len(executed[r]) /\ Len(executed[r]) < found[r]
    /\ pc[r] \in {"record", "assertions", "commit", "print"} => Len(executed[r]) = printed[r] + 1
    /\ pc[r] \in {"open", "record", "assertions", "commit"} => recording[r]
    /\ any_fail[r] <=> \E k \in 1 .. printed[r] : NotPassed(executed[r][k])
    /\ pc[r] = "exited" /\ code[r] = 0 => printed[r] = found[r] /\ ~any_fail[r]

RowOf(r) == [by |-> r, probe |-> Len(executed[r]), verdict |-> Reduce(Report(r))]
ResultsOf(id, report) ==
    {[run_id |-> id, assertion_index |-> i, verdict |-> report[i]] : i \in DOMAIN report}

\* The open transaction: the database on disk, the run at hand, and its results once
\* they are inserted.
TxnInv(r) ==
    pc[r] \in {"assertions", "commit"} =>
        /\ run_id[r] = Len(db.runs) + 1
        /\ txn.runs = Append(db.runs, RowOf(r))
        /\ txn.assertions = IF pc[r] = "assertions" THEN db.assertions
                            ELSE db.assertions \cup ResultsOf(run_id[r], Report(r))

\* Every run on disk is of a report that was executed, by a process with a history,
\* and no report is there twice.
RunsInv ==
    /\ \A id \in DOMAIN db.runs :
         LET run == db.runs[id] IN
         /\ recording[run.by]
         /\ run.probe \in 1 .. Len(executed[run.by])
         /\ run.verdict = Reduce(executed[run.by][run.probe])
    /\ \A id, other \in DOMAIN db.runs :
         db.runs[id].by = db.runs[other].by /\ db.runs[id].probe = db.runs[other].probe => id = other

\* The assertion rows on disk are those of the runs on disk.
ResultsInv ==
    /\ \A id \in DOMAIN db.runs :
         AssertionsOf(id) = ResultsOf(id, executed[db.runs[id].by][db.runs[id].probe])
    /\ \A a \in db.assertions : a.run_id \in DOMAIN db.runs

Recorded(r, k) == \E id \in DOMAIN db.runs : db.runs[id].by = r /\ db.runs[id].probe = k

\* What has been printed is on disk, the report at hand from its commit on and not
\* before.
RecordedInv(r) ==
    /\ recording[r] =>
         \A k \in 1 .. Len(executed[r]) : k <= printed[r] \/ pc[r] = "print" => Recorded(r, k)
    /\ pc[r] \in {"record", "assertions", "commit"} => ~Recorded(r, Len(executed[r]))

IInv ==
    /\ ProcessType
    /\ DatabaseType
    /\ LockInv
    /\ \A r \in Runners : LoopInv(r)
    /\ \A r \in Runners : TxnInv(r)
    /\ RunsInv
    /\ ResultsInv
    /\ \A r \in Runners : RecordedInv(r)
-----------------------------------------------------------------------------
(* What a step of one process may change.                                  *)

\* The lengths of reports: while a report is at hand there is one.
LEMMA ReportAtHand ==
    ASSUME ProcessType, NEW r \in Runners, LoopInv(r),
           pc[r] \in {"record", "assertions", "commit", "print"}
    PROVE  /\ Len(executed[r]) \in Nat \ {0}
           /\ Report(r) = executed[r][Len(executed[r])]
           /\ Report(r) \in Reports /\ Report(r) \in Seq(Verdict)
<1>1. executed[r] \in Seq(Reports) /\ printed[r] \in Nat
  BY DEF ProcessType
<1>2. Len(executed[r]) = printed[r] + 1
  BY DEF LoopInv
<1>3. Len(executed[r]) \in 1 .. Len(executed[r]) /\ Len(executed[r]) \in Nat \ {0}
  BY <1>1, <1>2
<1>4. executed[r][Len(executed[r])] \in Reports
  BY <1>1, <1>3, ElementOfSeq
<1> QED BY <1>3, <1>4, ProbesAssumption DEF Report

LEMMA RowTypes ==
    /\ \A report : Reduce(report) \in Verdict
    /\ \A id \in Nat, report \in Seq(Verdict) : ResultsOf(id, report) \subseteq AssertionRow
<1>1. ASSUME NEW report PROVE Reduce(report) \in Verdict
  BY DEF Reduce, Verdict
<1>2. ASSUME NEW id \in Nat, NEW report \in Seq(Verdict)
      PROVE  ResultsOf(id, report) \subseteq AssertionRow
  <2>1. \A i \in DOMAIN report : i \in Nat /\ report[i] \in Verdict
    OBVIOUS
  <2> QED BY <2>1 DEF ResultsOf, AssertionRow
<1> QED BY <1>1, <1>2

\* The processes share nothing but the database.
LEMMA OthersKeep ==
    ASSUME ProcessType, NEW r \in Runners, Step(r), NEW p \in Runners, p # r
    PROVE  /\ pc'[p] = pc[p] /\ found'[p] = found[p] /\ executed'[p] = executed[p]
           /\ printed'[p] = printed[p] /\ any_fail'[p] = any_fail[p] /\ code'[p] = code[p]
           /\ run_id'[p] = run_id[p]
<1> USE DEF ProcessType, Goto, Exit, Uncaught, Continue, database
<1>1. CASE Discover(r)
  BY <1>1 DEF Discover
<1>2. CASE NoProbes(r)
  BY <1>2 DEF NoProbes
<1>3. CASE ImportFails(r)
  BY <1>3 DEF ImportFails
<1>4. CASE OpenHistory(r)
  BY <1>4 DEF OpenHistory
<1>5. CASE RunProbe(r)
  BY <1>5 DEF RunProbe
<1>6. CASE ProbeRaises(r)
  BY <1>6 DEF ProbeRaises
<1>7. CASE InsertRun(r)
  BY <1>7 DEF InsertRun
<1>8. CASE InsertAssertions(r)
  BY <1>8 DEF InsertAssertions
<1>9. CASE Commit(r)
  BY <1>9 DEF Commit
<1>10. CASE Locked(r)
  BY <1>10 DEF Locked
<1>11. CASE PrintReport(r)
  BY <1>11 DEF PrintReport
<1>12. CASE Kill(r)
  BY <1>12 DEF Kill
<1> QED BY <1>1, <1>2, <1>3, <1>4, <1>5, <1>6, <1>7, <1>8, <1>9, <1>10, <1>11, <1>12 DEF Step

\* What was executed stays so, and only a commit changes what is on disk.
LEMMA HistoryGrows ==
    ASSUME ProcessType, NEW r \in Runners, Step(r)
    PROVE  /\ recording' = recording
           /\ \A p \in Runners : \A k \in 1 .. Len(executed[p]) :
                k \in 1 .. Len(executed'[p]) /\ executed'[p][k] = executed[p][k]
           /\ db' = db \/ Commit(r)
<1>1. recording' = recording /\ (db' = db \/ Commit(r))
  BY DEF Step, Discover, NoProbes, ImportFails, OpenHistory, RunProbe, ProbeRaises, InsertRun,
         InsertAssertions, Commit, Locked, PrintReport, Kill, database, OnDisk
<1>2. CASE RunProbe(r)
  <2>1. PICK report \in Reports : executed' = [executed EXCEPT ![r] = Append(@, report)]
    BY <1>2 DEF RunProbe
  <2>2. ASSUME NEW p \in Runners, NEW k \in 1 .. Len(executed[p])
        PROVE  k \in 1 .. Len(executed'[p]) /\ executed'[p][k] = executed[p][k]
    <3>1. executed[p] \in Seq(Reports)
      BY DEF ProcessType
    <3>2. CASE p = r
      <4>1. executed'[p] = Append(executed[p], report)
        BY <2>1, <3>2 DEF ProcessType
      <4> QED BY <3>1, <4>1
    <3>3. CASE p # r
      BY <2>1, <3>3 DEF ProcessType
    <3> QED BY <3>2, <3>3
  <2> QED BY <1>1, <2>2
<1>3. CASE ~RunProbe(r)
  <2>1. executed' = executed
    BY <1>3 DEF Step, Discover, NoProbes, ImportFails, OpenHistory, ProbeRaises, InsertRun,
         InsertAssertions, Commit, Locked, PrintReport, Kill
  <2> QED BY <1>1, <2>1
<1> QED BY <1>2, <1>3

-----------------------------------------------------------------------------
(* Types.                                                                  *)

LEMMA ProcessTypeStep ==
    ASSUME ProcessType, DatabaseType, NEW r \in Runners, Step(r)
    PROVE  ProcessType'
<1> USE ProbesAssumption DEF Goto, Exit, Uncaught, Continue, database
<1>0. DOMAIN pc = Runners
  BY DEF ProcessType
<1>1. CASE Discover(r)
  BY <1>1 DEF ProcessType, Labels, Discover
<1>2. CASE NoProbes(r)
  BY <1>2 DEF ProcessType, Labels, NoProbes
<1>3. CASE ImportFails(r)
  BY <1>3 DEF ProcessType, Labels, ImportFails
<1>4. CASE OpenHistory(r)
  BY <1>4 DEF ProcessType, Labels, OpenHistory
<1>5. CASE RunProbe(r)
  <2>1. PICK report \in Reports : executed' = [executed EXCEPT ![r] = Append(@, report)]
    BY <1>5 DEF RunProbe
  <2>2. Append(executed[r], report) \in Seq(Reports)
    BY DEF ProcessType
  <2> QED BY <1>5, <2>1, <2>2 DEF ProcessType, Labels, RunProbe
<1>6. CASE ProbeRaises(r)
  BY <1>6 DEF ProcessType, Labels, ProbeRaises
<1>7. CASE InsertRun(r)
  <2>1. run_id'[r] \in Nat
    <3>1. txn'.runs = Append(db.runs, RowOf(r))
      BY <1>7 DEF InsertRun, InsertInto, RowOf, DatabaseType, Database
    <3>2. Len(txn'.runs) = Len(db.runs) + 1 /\ Len(db.runs) \in Nat
      BY <3>1 DEF DatabaseType, Database
    <3> QED BY <1>7, <3>2 DEF InsertRun, ProcessType
  <2> QED BY <1>7, <2>1 DEF ProcessType, Labels, InsertRun
<1>8. CASE InsertAssertions(r)
  BY <1>8 DEF ProcessType, Labels, InsertAssertions
<1>9. CASE Commit(r)
  BY <1>9 DEF ProcessType, Labels, Commit
<1>10. CASE Locked(r)
  BY <1>10 DEF ProcessType, Labels, Locked
<1>11. CASE PrintReport(r)
  <2> DEFINE fail == any_fail[r] \/ NotPassed(Report(r))
  <2>1. any_fail' = [any_fail EXCEPT ![r] = fail]
    BY <1>11 DEF PrintReport
  <2>2. any_fail' \in [Runners -> BOOLEAN]
    <3>1. fail \in BOOLEAN
      OBVIOUS
    <3> HIDE DEF fail
    <3> QED BY <2>1, <3>1 DEF ProcessType
  <2>3. \/ pc' = [pc EXCEPT ![r] = "run"] /\ code' = code
        \/ pc' = [pc EXCEPT ![r] = "exited"] /\ code' = [code EXCEPT ![r] = 0]
        \/ pc' = [pc EXCEPT ![r] = "exited"] /\ code' = [code EXCEPT ![r] = 1]
    BY <1>11 DEF PrintReport
  <2>4. pc' \in [Runners -> Labels] /\ code' \in [Runners -> {0, 1, 2}]
    BY <2>3 DEF ProcessType, Labels
  <2>5. printed' = [printed EXCEPT ![r] = @ + 1] /\ UNCHANGED <<recording, found, executed, run_id>>
    BY <1>11 DEF PrintReport
  <2> QED BY <2>2, <2>4, <2>5 DEF ProcessType
<1>12. CASE Kill(r)
  BY <1>12 DEF ProcessType, Labels, Kill
<1> QED BY <1>1, <1>2, <1>3, <1>4, <1>5, <1>6, <1>7, <1>8, <1>9, <1>10, <1>11, <1>12 DEF Step

LEMMA DatabaseTypeStep ==
    ASSUME ProcessType, DatabaseType, NEW r \in Runners, LoopInv(r), Step(r)
    PROVE  DatabaseType'
<1>1. CASE InsertRun(r)
  <2>1. RowOf(r) \in RunRow
    BY <1>1, ReportAtHand, RowTypes DEF InsertRun, RowOf, RunRow
  <2>2. txn' = [db EXCEPT !.runs = Append(@, RowOf(r))]
    BY <1>1 DEF InsertRun, InsertInto, RowOf
  <2>3. Append(db.runs, RowOf(r)) \in Seq(RunRow)
    BY <2>1 DEF DatabaseType, Database
  <2>4. txn' \in Database
    BY <2>2, <2>3 DEF DatabaseType, Database
  <2> QED BY <1>1, <2>4 DEF InsertRun, OnDisk, DatabaseType
<1>2. CASE InsertAssertions(r)
  <2>1. ResultsOf(run_id[r], Report(r)) \subseteq AssertionRow
    BY <1>2, ReportAtHand, RowTypes DEF InsertAssertions, ProcessType
  <2>2. txn' = [txn EXCEPT !.assertions = @ \cup ResultsOf(run_id[r], Report(r))]
    BY <1>2 DEF InsertAssertions, ResultsOf
  <2>3. txn' \in Database
    BY <2>1, <2>2 DEF DatabaseType, Database
  <2> QED BY <1>2, <2>3 DEF InsertAssertions, DatabaseType
<1>3. CASE Commit(r)
  BY <1>3 DEF Commit, Committed, HolderAfter, DatabaseType
<1>4. CASE Kill(r)
  BY <1>4 DEF Kill, DatabaseType
<1>5. CASE UNCHANGED database
  BY <1>5 DEF database, DatabaseType
<1> QED BY <1>1, <1>2, <1>3, <1>4, <1>5
        DEF Step, Discover, NoProbes, ImportFails, OpenHistory, RunProbe, ProbeRaises, Locked,
            PrintReport

-----------------------------------------------------------------------------
(* The lock and the loop.                                                  *)

LEMMA LockStep ==
    ASSUME ProcessType, ProcessType', DatabaseType, LockInv, NEW r \in Runners, Step(r)
    PROVE  LockInv'
<1> USE RunnersAssumption DEF Goto, Exit, Uncaught, Continue
<1>0. \A p \in Runners : p # r => pc'[p] = pc[p]
  BY OthersKeep
<1>1. CASE InsertRun(r)
  BY <1>0, <1>1 DEF InsertRun, LockInv, ProcessType
<1>2. CASE InsertAssertions(r)
  BY <1>0, <1>2 DEF InsertAssertions, LockInv, ProcessType
<1>3. CASE Commit(r)
  BY <1>0, <1>3 DEF Commit, Committed, HolderAfter, LockInv, ProcessType
<1>4. CASE Kill(r)
  BY <1>0, <1>4 DEF Kill, LockInv, ProcessType
<1>5. CASE /\ UNCHANGED database
           /\ pc[r] \notin {"assertions", "commit"} /\ pc'[r] \notin {"assertions", "commit"}
  BY <1>0, <1>5 DEF database, LockInv
<1>6. \/ InsertRun(r) \/ InsertAssertions(r) \/ Commit(r) \/ Kill(r)
      \/ /\ UNCHANGED database
         /\ pc[r] \notin {"assertions", "commit"} /\ pc'[r] \notin {"assertions", "commit"}
  BY DEF Step, ProcessType, Discover, NoProbes, ImportFails, OpenHistory, RunProbe, ProbeRaises,
         Locked, PrintReport
<1> QED BY <1>1, <1>2, <1>3, <1>4, <1>5, <1>6

\* The loop condition, when the first k reports are behind.
LEMMA LoopStep ==
    ASSUME ProcessType, ProcessType', NEW r \in Runners, LoopInv(r), Step(r)
    PROVE  LoopInv(r)'
<1> USE ProbesAssumption DEF Goto, Exit, Uncaught, Continue
<1>0. /\ executed[r] \in Seq(Reports) /\ Len(executed[r]) \in Nat /\ printed[r] \in Nat
      /\ found[r] \in Nat /\ any_fail[r] \in BOOLEAN
      /\ Len(<<>>) = 0
  BY DEF ProcessType
<1>1. CASE Discover(r)
  BY <1>0, <1>1 DEF Discover, LoopInv, ProcessType
<1>2. CASE NoProbes(r)
  BY <1>0, <1>2 DEF NoProbes, LoopInv, ProcessType
<1>3. CASE ImportFails(r)
  BY <1>0, <1>3 DEF ImportFails, LoopInv, ProcessType
<1>4. CASE OpenHistory(r)
  BY <1>0, <1>4 DEF OpenHistory, LoopInv, ProcessType
<1>5. CASE RunProbe(r)
  <2>1. PICK report \in Reports : executed' = [executed EXCEPT ![r] = Append(@, report)]
    BY <1>5 DEF RunProbe
  <2>2. Len(executed'[r]) = Len(executed[r]) + 1
    BY <1>0, <2>1 DEF ProcessType
  <2>3. any_fail'[r] <=> \E k \in 1 .. printed'[r] : NotPassed(executed'[r][k])
    <3>1. \A k \in 1 .. printed[r] : executed'[r][k] = executed[r][k]
      BY <1>0, HistoryGrows DEF LoopInv
    <3> QED BY <1>5, <3>1 DEF RunProbe, LoopInv
  <2> QED BY <1>0, <1>5, <2>2, <2>3 DEF RunProbe, LoopInv, ProcessType
<1>6. CASE ProbeRaises(r)
  BY <1>0, <1>6 DEF ProbeRaises, LoopInv, ProcessType
<1>7. CASE InsertRun(r)
  BY <1>0, <1>7 DEF InsertRun, LoopInv, ProcessType
<1>8. CASE InsertAssertions(r)
  BY <1>0, <1>8 DEF InsertAssertions, LoopInv, ProcessType
<1>9. CASE Commit(r)
  BY <1>0, <1>9 DEF Commit, LoopInv, ProcessType
<1>10. CASE Locked(r)
  BY <1>0, <1>10 DEF Locked, LoopInv, ProcessType
<1>11. CASE PrintReport(r)
  <2>1. /\ executed'[r] = executed[r] /\ printed'[r] = printed[r] + 1
        /\ any_fail'[r] = (any_fail[r] \/ NotPassed(Report(r)))
        /\ found'[r] = found[r] /\ recording'[r] = recording[r]
    BY <1>11 DEF PrintReport, ProcessType
  <2>2. Report(r) = executed[r][printed[r] + 1] /\ Len(executed[r]) = printed[r] + 1
    BY <1>11, ReportAtHand DEF PrintReport, LoopInv
  <2>3. any_fail'[r] <=> \E k \in 1 .. printed'[r] : NotPassed(executed'[r][k])
    <3>1. any_fail'[r] <=> \/ \E k \in 1 .. printed[r] : NotPassed(executed[r][k])
                           \/ NotPassed(executed[r][printed[r] + 1])
      BY <2>1, <2>2 DEF LoopInv
    <3>2. \A k : k \in 1 .. printed[r] + 1 <=> k \in 1 .. printed[r] \/ k = printed[r] + 1
      BY <1>0
    <3> QED BY <2>1, <3>1, <3>2
  <2>4. \/ pc'[r] = "run" /\ Len(executed[r]) < found[r]
        \/ /\ pc'[r] = "exited" /\ ~(Len(executed[r]) < found[r])
           /\ code'[r] = IF any_fail'[r] THEN 1 ELSE 0
    <3> DEFINE fail == any_fail[r] \/ NotPassed(Report(r))
    <3>1. Continue(r, Len(executed[r]), fail) /\ any_fail'[r] = fail
      BY <1>11, <2>1 DEF PrintReport
    <3> HIDE DEF fail
    <3>2. CASE Len(executed[r]) < found[r]
      BY <3>1, <3>2, <1>0 DEF ProcessType
    <3>3. CASE ~(Len(executed[r]) < found[r])
      BY <3>1, <3>3, <1>0 DEF ProcessType
    <3> QED BY <3>2, <3>3
  <2> QED BY <1>0, <1>11, <2>1, <2>2, <2>3, <2>4 DEF LoopInv, PrintReport
<1>12. CASE Kill(r)
  BY <1>0, <1>12 DEF Kill, LoopInv, ProcessType
<1> QED BY <1>1, <1>2, <1>3, <1>4, <1>5, <1>6, <1>7, <1>8, <1>9, <1>10, <1>11, <1>12 DEF Step
-----------------------------------------------------------------------------
(* The database.                                                           *)

\* At most one process is inside record's transaction.
LEMMA OneWriter ==
    ASSUME LockInv, NEW r \in Runners, NEW p \in Runners,
           pc[r] \in {"assertions", "commit"}, pc[p] \in {"assertions", "commit"}
    PROVE  r = p
BY DEF LockInv

LEMMA TxnStep ==
    ASSUME IInv, NEW r \in Runners, Step(r), NEW p \in Runners
    PROVE  TxnInv(p)'
<1> USE DEF Goto, Exit, Uncaught, Continue
<1>0. /\ ProcessType /\ DatabaseType /\ LockInv /\ LoopInv(r) /\ TxnInv(p) /\ TxnInv(r)
      /\ db.runs \in Seq(RunRow)
  BY DEF IInv, DatabaseType, Database
<1>1. CASE p # r
  <2>1. UNCHANGED <<pc[p], executed[p], run_id[p]>>
    BY <1>0, <1>1, OthersKeep
  <2>2. CASE pc[p] \in {"assertions", "commit"}
    <3>1. writer = p /\ pc[r] \notin {"assertions", "commit"} /\ writer # NoOne /\ writer # r
      BY <1>0, <1>1, <2>2, OneWriter, RunnersAssumption DEF LockInv
    <3>2. UNCHANGED database
      BY <3>1 DEF database, Step, Discover, NoProbes, ImportFails, OpenHistory, RunProbe,
                  ProbeRaises, InsertRun, InsertAssertions, Commit, Locked, PrintReport, Kill
    <3> QED BY <1>0, <2>1, <3>2 DEF TxnInv, database, RowOf, Report
  <2> QED BY <2>1, <2>2 DEF TxnInv
<1>2. CASE p = r
  <2>1. CASE InsertRun(r)
    <3>1. /\ txn' = [db EXCEPT !.runs = Append(@, RowOf(r))]
          /\ run_id' = [run_id EXCEPT ![r] = Len(txn'.runs)]
          /\ db' = db /\ pc'[r] = "assertions" /\ executed' = executed
      BY <1>0, <2>1 DEF InsertRun, InsertInto, RowOf, OnDisk, ProcessType
    <3>2. txn'.runs = Append(db.runs, RowOf(r)) /\ txn'.assertions = db.assertions
      BY <1>0, <3>1 DEF DatabaseType, Database
    <3>3. Len(txn'.runs) = Len(db.runs) + 1
      BY <1>0, <3>2
    <3>4. RowOf(r)' = RowOf(r)
      BY <3>1 DEF RowOf, Report
    <3> QED BY <1>0, <1>2, <3>1, <3>2, <3>3, <3>4 DEF TxnInv, ProcessType
  <2>2. CASE InsertAssertions(r)
    <3>1. /\ txn' = [txn EXCEPT !.assertions = @ \cup ResultsOf(run_id[r], Report(r))]
          /\ db' = db /\ pc'[r] = "commit" /\ UNCHANGED <<executed, run_id>>
      BY <1>0, <2>2 DEF InsertAssertions, ResultsOf, ProcessType
    <3>2. /\ txn'.runs = txn.runs
          /\ txn'.assertions = txn.assertions \cup ResultsOf(run_id[r], Report(r))
      BY <1>0, <3>1 DEF DatabaseType, Database
    <3>3. pc[r] = "assertions" /\ RowOf(r)' = RowOf(r) /\ Report(r)' = Report(r)
      BY <2>2, <3>1 DEF InsertAssertions, RowOf, Report
    <3> QED BY <1>0, <1>2, <3>1, <3>2, <3>3 DEF TxnInv
  <2>3. CASE ~InsertRun(r) /\ ~InsertAssertions(r)
    <3>1. pc'[r] \notin {"assertions", "commit"}
      BY <1>0, <2>3 DEF ProcessType, Step, Discover, NoProbes, ImportFails, OpenHistory, RunProbe,
                        ProbeRaises, Commit, Locked, PrintReport, Kill
    <3> QED BY <1>2, <3>1 DEF TxnInv
  <2> QED BY <2>1, <2>2, <2>3
<1> QED BY <1>1, <1>2

\* A commit adds the run at hand, and its results, to what is on disk.
LEMMA CommitAdds ==
    ASSUME IInv, NEW r \in Runners, Commit(r)
    PROVE  /\ Len(db.runs) \in Nat /\ DOMAIN db.runs = 1 .. Len(db.runs)
           /\ DOMAIN db'.runs = 1 .. Len(db.runs) + 1
           /\ \A id \in DOMAIN db.runs : db'.runs[id] = db.runs[id]
           /\ db'.runs[Len(db.runs) + 1] = RowOf(r)
           /\ db'.assertions = db.assertions \cup ResultsOf(Len(db.runs) + 1, Report(r))
           /\ UNCHANGED <<recording, executed>>
<1>1. db.runs \in Seq(RunRow) /\ TxnInv(r) /\ pc[r] = "commit" /\ RowOf(r) \in RunRow
  <2>1. Len(executed[r]) \in Nat
    BY ReportAtHand DEF IInv, Commit
  <2> QED BY <2>1, RowTypes DEF IInv, DatabaseType, Database, Commit, RowOf, RunRow
<1>2. db' = txn /\ UNCHANGED <<recording, executed>>
  BY DEF Commit, Committed
<1>3. /\ db'.runs = Append(db.runs, RowOf(r))
      /\ db'.assertions = db.assertions \cup ResultsOf(Len(db.runs) + 1, Report(r))
  BY <1>1, <1>2 DEF TxnInv
<1>4. /\ Len(Append(db.runs, RowOf(r))) = Len(db.runs) + 1
      /\ DOMAIN Append(db.runs, RowOf(r)) = 1 .. Len(db.runs) + 1
      /\ \A id \in 1 .. Len(db.runs) : Append(db.runs, RowOf(r))[id] = db.runs[id]
      /\ Append(db.runs, RowOf(r))[Len(db.runs) + 1] = RowOf(r)
  BY <1>1
<1>5. Len(db.runs) \in Nat /\ DOMAIN db.runs = 1 .. Len(db.runs)
  BY <1>1
<1> HIDE DEF RowOf
<1> QED BY <1>2, <1>3, <1>4, <1>5

\* The same, as sets: there is one more run, that of the report at hand.
LEMMA CommitAddsRun ==
    ASSUME IInv, NEW r \in Runners, Commit(r)
    PROVE  \E new \in Nat :
             /\ DOMAIN db'.runs = DOMAIN db.runs \cup {new}
             /\ \A id \in DOMAIN db.runs : db'.runs[id] = db.runs[id]
             /\ db'.runs[new].by = r
             /\ db'.runs[new].probe = Len(executed[r])
<1>1. PICK new \in Nat : new = Len(db.runs) + 1
  BY CommitAdds
<1>2. DOMAIN db'.runs = DOMAIN db.runs \cup {new}
  <2>1. Len(db.runs) \in Nat /\ DOMAIN db.runs = 1 .. Len(db.runs) /\ DOMAIN db'.runs = 1 .. new
    BY <1>1, CommitAdds
  <2> QED BY <1>1, <2>1
<1>3. db'.runs[new] = RowOf(r) /\ \A id \in DOMAIN db.runs : db'.runs[id] = db.runs[id]
  BY <1>1, CommitAdds
<1>4. RowOf(r).by = r /\ RowOf(r).probe = Len(executed[r])
  BY DEF RowOf
<1> QED BY <1>2, <1>3, <1>4

LEMMA RunRows ==
    ASSUME DatabaseType, NEW id \in DOMAIN db.runs
    PROVE  db.runs[id].by \in Runners /\ db.runs[id].probe \in Nat
<1>1. db.runs \in Seq(RunRow) /\ id \in 1 .. Len(db.runs)
  BY DEF DatabaseType, Database
<1>2. db.runs[id] \in RunRow
  BY <1>1, ElementOfSeq
<1> QED BY <1>2 DEF RunRow

LEMMA RunsStep ==
    ASSUME IInv, NEW r \in Runners, Step(r)
    PROVE  RunsInv'
<1>0. ProcessType /\ DatabaseType /\ LoopInv(r) /\ RunsInv /\ RecordedInv(r)
  BY DEF IInv
<1>1. \A id \in DOMAIN db.runs : db.runs[id].by \in Runners
  BY <1>0, RunRows
<1>2. ASSUME NEW id \in DOMAIN db.runs
      PROVE  /\ recording'[db.runs[id].by]
             /\ db.runs[id].probe \in 1 .. Len(executed'[db.runs[id].by])
             /\ db.runs[id].verdict = Reduce(executed'[db.runs[id].by][db.runs[id].probe])
  BY <1>0, <1>1, HistoryGrows DEF RunsInv
<1>3. CASE db' = db
  BY <1>0, <1>2, <1>3 DEF RunsInv
<1>4. CASE Commit(r)
  <2> DEFINE new == Len(db.runs) + 1
  <2>1. \A id \in DOMAIN db'.runs : (id \in DOMAIN db.runs /\ id # new) \/ id = new
    BY <1>4, CommitAdds
  <2>2. /\ recording'[r]
        /\ Len(executed[r]) \in 1 .. Len(executed'[r])
        /\ RowOf(r).verdict = Reduce(executed'[r][Len(executed[r])])
    BY <1>0, <1>4, ReportAtHand, CommitAdds DEF Commit, LoopInv, RowOf
  <2>3. ASSUME NEW id \in DOMAIN db.runs, db.runs[id].by = r PROVE db.runs[id].probe # Len(executed[r])
    BY <1>0, <1>4, <2>3 DEF RecordedInv, Recorded, Commit
  <2>4. db'.runs[new] = RowOf(r) /\ RowOf(r).by = r /\ RowOf(r).probe = Len(executed[r])
    BY <1>4, CommitAdds DEF RowOf
  <2>5. \A id \in DOMAIN db.runs : db'.runs[id] = db.runs[id]
    BY <1>4, CommitAdds
  <2>6. ASSUME NEW id \in DOMAIN db'.runs
        PROVE  LET run == db'.runs[id] IN
               /\ recording'[run.by]
               /\ run.probe \in 1 .. Len(executed'[run.by])
               /\ run.verdict = Reduce(executed'[run.by][run.probe])
    BY <1>2, <2>1, <2>2, <2>4, <2>5
  <2>7. ASSUME NEW id \in DOMAIN db'.runs, NEW other \in DOMAIN db'.runs,
               db'.runs[id].by = db'.runs[other].by, db'.runs[id].probe = db'.runs[other].probe
        PROVE  id = other
    BY <1>0, <2>1, <2>3, <2>4, <2>5, <2>7 DEF RunsInv
  <2> QED BY <2>6, <2>7 DEF RunsInv
<1> QED BY <1>0, <1>3, <1>4, HistoryGrows

LEMMA ResultsStep ==
    ASSUME IInv, NEW r \in Runners, Step(r)
    PROVE  ResultsInv'
<1>0. ProcessType /\ DatabaseType /\ LoopInv(r) /\ RunsInv /\ ResultsInv
  BY DEF IInv
<1>1. ASSUME NEW id \in DOMAIN db.runs
      PROVE  executed'[db.runs[id].by][db.runs[id].probe] = executed[db.runs[id].by][db.runs[id].probe]
  <2>1. db.runs[id].by \in Runners
    BY <1>0, RunRows
  <2> QED BY <1>0, <2>1, HistoryGrows DEF RunsInv
<1>2. CASE db' = db
  BY <1>0, <1>1, <1>2 DEF ResultsInv, AssertionsOf
<1>3. CASE Commit(r)
  <2>0. PICK new \in Nat : new = Len(db.runs) + 1
    BY <1>3, CommitAdds
  <2>1. /\ \A id \in DOMAIN db'.runs : (id \in DOMAIN db.runs /\ id # new) \/ id = new
        /\ DOMAIN db.runs \subseteq DOMAIN db'.runs /\ new \in DOMAIN db'.runs
        /\ new \notin DOMAIN db.runs
    BY <1>3, <2>0, CommitAdds
  <2>2. /\ \A id \in DOMAIN db.runs : db'.runs[id] = db.runs[id]
        /\ db'.runs[new] = RowOf(r)
        /\ db'.assertions = db.assertions \cup ResultsOf(new, Report(r))
    BY <1>3, <2>0, CommitAdds
  <2>3. \A a \in ResultsOf(new, Report(r)) : a.run_id = new
    BY DEF ResultsOf
  <2>4. ASSUME NEW id \in DOMAIN db.runs
        PROVE  AssertionsOf(id)' = ResultsOf(id, executed'[db'.runs[id].by][db'.runs[id].probe])
    <3>1. AssertionsOf(id)' = AssertionsOf(id)
      BY <2>1, <2>2, <2>3 DEF AssertionsOf
    <3> QED BY <1>0, <1>1, <2>2, <3>1 DEF ResultsInv
  <2>5. AssertionsOf(new)' = ResultsOf(new, executed'[db'.runs[new].by][db'.runs[new].probe])
    <3>1. AssertionsOf(new)' = ResultsOf(new, Report(r))
      <4>1. \A a \in db.assertions : a.run_id # new
        BY <1>0, <2>1 DEF ResultsInv
      <4> QED BY <2>2, <2>3, <4>1 DEF AssertionsOf
    <3>2. Report(r) = executed'[db'.runs[new].by][db'.runs[new].probe]
      BY <1>3, <2>2, CommitAdds DEF RowOf, Report
    <3> QED BY <3>1, <3>2
  <2>6. \A a \in db'.assertions : a.run_id \in DOMAIN db'.runs
    BY <1>0, <2>1, <2>2, <2>3 DEF ResultsInv
  <2>7. ASSUME NEW id \in DOMAIN db'.runs
        PROVE  AssertionsOf(id)' = ResultsOf(id, executed'[db'.runs[id].by][db'.runs[id].probe])
    BY <2>1, <2>4, <2>5
  <2> QED BY <2>6, <2>7 DEF ResultsInv
<1> QED BY <1>0, <1>2, <1>3, HistoryGrows
LEMMA RecordedStep ==
    ASSUME IInv, NEW r \in Runners, Step(r), NEW p \in Runners
    PROVE  RecordedInv(p)'
<1> USE DEF Goto, Exit, Uncaught, Continue
<1>0. /\ ProcessType /\ DatabaseType /\ LoopInv(r) /\ RunsInv /\ RecordedInv(p)
      /\ recording' = recording
      /\ executed[r] \in Seq(Reports) /\ Len(executed[r]) \in Nat /\ printed[r] \in Nat
  BY HistoryGrows DEF IInv, ProcessType
<1>1. CASE p # r
  <2>1. UNCHANGED <<pc[p], executed[p], printed[p], recording[p]>>
    BY <1>0, <1>1, OthersKeep
  <2>2. ASSUME NEW k PROVE Recorded(p, k)' <=> Recorded(p, k)
    <3>1. CASE db' = db
      BY <3>1 DEF Recorded
    <3>2. CASE Commit(r)
      <4>1. PICK new \in Nat :
              /\ DOMAIN db'.runs = DOMAIN db.runs \cup {new}
              /\ \A id \in DOMAIN db.runs : db'.runs[id] = db.runs[id]
              /\ db'.runs[new].by = r
        BY <3>2, CommitAddsRun
      <4> QED BY <1>1, <4>1 DEF Recorded
    <3> QED BY <1>0, <3>1, <3>2, HistoryGrows
  <2> QED BY <1>0, <2>1, <2>2 DEF RecordedInv
<1>2. CASE p = r /\ RunProbe(r)
  <2>1. PICK report \in Reports : executed' = [executed EXCEPT ![r] = Append(@, report)]
    BY <1>2 DEF RunProbe
  <2>2. Len(executed'[r]) = Len(executed[r]) + 1
    BY <1>0, <2>1 DEF ProcessType
  <2>3. /\ printed[r] = Len(executed[r]) /\ printed'[r] = printed[r] /\ db' = db
        /\ pc'[r] = IF recording[r] THEN "record" ELSE "print"
    BY <1>0, <1>2 DEF RunProbe, LoopInv, database, ProcessType
  <2>4. \A k : Recorded(r, k)' <=> Recorded(r, k)
    BY <2>3 DEF Recorded
  <2>5. ~Recorded(r, Len(executed[r]) + 1)
    BY <1>0 DEF Recorded, RunsInv
  <2>6. ASSUME recording[r], NEW k \in 1 .. Len(executed'[r]), k <= printed[r]
        PROVE  Recorded(r, k)
    BY <1>0, <1>2, <2>3, <2>6 DEF RecordedInv
  <2> QED BY <1>0, <1>2, <2>2, <2>3, <2>4, <2>5, <2>6 DEF RecordedInv
<1>3. CASE p = r /\ Commit(r)
  <2>1. PICK new \in Nat :
          /\ DOMAIN db'.runs = DOMAIN db.runs \cup {new}
          /\ \A id \in DOMAIN db.runs : db'.runs[id] = db.runs[id]
          /\ db'.runs[new].by = r
          /\ db'.runs[new].probe = Len(executed[r])
    BY <1>3, CommitAddsRun
  <2>2. /\ pc'[r] = "print" /\ executed' = executed /\ printed' = printed
        /\ Len(executed[r]) = printed[r] + 1
    BY <1>0, <1>3 DEF Commit, LoopInv, ProcessType
  <2>3. ASSUME recording[r], NEW k \in 1 .. Len(executed[r]) PROVE Recorded(r, k)'
    <3>1. CASE k <= printed[r]
      BY <1>0, <1>3, <2>1, <2>3, <3>1 DEF RecordedInv, Recorded
    <3>2. CASE k = Len(executed[r])
      BY <2>1, <3>2 DEF Recorded
    <3> QED BY <1>0, <2>2, <3>1, <3>2
  <2> QED BY <1>0, <1>3, <2>2, <2>3 DEF RecordedInv
<1>4. CASE p = r /\ PrintReport(r)
  <2>1. /\ executed' = executed /\ db' = db /\ pc[r] = "print"
        /\ pc'[r] \in {"run", "exited"}
    BY <1>0, <1>4 DEF PrintReport, database, ProcessType
  <2> QED BY <1>0, <1>4, <2>1 DEF RecordedInv, Recorded
<1>5. CASE p = r /\ ~RunProbe(r) /\ ~Commit(r) /\ ~PrintReport(r)
  <2>1. UNCHANGED <<executed, printed, db>>
    BY <1>0, <1>5, HistoryGrows
       DEF Step, Discover, NoProbes, ImportFails, OpenHistory, ProbeRaises, InsertRun,
           InsertAssertions, Locked, Kill
  <2>2. /\ pc'[r] # "print"
        /\ pc'[r] \in {"record", "assertions", "commit"} => pc[r] \in {"record", "assertions", "commit"}
    BY <1>0, <1>5
       DEF Step, Discover, NoProbes, ImportFails, OpenHistory, ProbeRaises, InsertRun,
           InsertAssertions, Locked, Kill, ProcessType
  <2> QED BY <1>0, <1>5, <2>1, <2>2 DEF RecordedInv, Recorded
<1> QED BY <1>1, <1>2, <1>3, <1>4, <1>5

-----------------------------------------------------------------------------
LEMMA Initially == Init => IInv
<1> SUFFICES ASSUME Init PROVE IInv
  OBVIOUS
<1>1. ProcessType /\ DatabaseType /\ LockInv
  BY RunnersAssumption
     DEF Init, ProcessType, Labels, DatabaseType, Database, LockInv
<1>2. db.runs = <<>> /\ db.assertions = {} /\ DOMAIN db.runs = {}
  BY DEF Init
<1>3. \A r \in Runners : LoopInv(r) /\ TxnInv(r) /\ RecordedInv(r)
  BY <1>2 DEF Init, LoopInv, TxnInv, RecordedInv
<1>4. RunsInv /\ ResultsInv
  BY <1>2 DEF RunsInv, ResultsInv
<1> QED BY <1>1, <1>3, <1>4 DEF IInv

LEMMA Inductive == IInv /\ [Next]_vars => IInv'
<1> SUFFICES ASSUME IInv, [Next]_vars PROVE IInv'
  OBVIOUS
<1>1. ASSUME NEW r \in Runners, Step(r) PROVE IInv'
  <2>0. ProcessType /\ DatabaseType /\ LockInv /\ LoopInv(r)
    BY DEF IInv
  <2>1. ProcessType' /\ DatabaseType'
    BY <1>1, <2>0, ProcessTypeStep, DatabaseTypeStep
  <2>2. LockInv'
    BY <1>1, <2>0, <2>1, LockStep
  <2>3. ASSUME NEW p \in Runners PROVE LoopInv(p)'
    <3>1. CASE p = r
      BY <1>1, <2>0, <2>1, <3>1, LoopStep
    <3>2. CASE p # r
      <4>1. LoopInv(p) /\ recording' = recording
        BY <1>1, <2>0, HistoryGrows DEF IInv
      <4> QED BY <1>1, <2>0, <3>2, <4>1, OthersKeep DEF LoopInv
    <3> QED BY <3>1, <3>2
  <2>4. \A p \in Runners : TxnInv(p)' /\ RecordedInv(p)'
    BY <1>1, TxnStep, RecordedStep
  <2>5. RunsInv' /\ ResultsInv'
    BY <1>1, RunsStep, ResultsStep
  <2> QED BY <2>1, <2>2, <2>3, <2>4, <2>5 DEF IInv
<1>2. CASE UNCHANGED vars
  <2>1. UNCHANGED <<recording, pc, found, executed, printed, any_fail, code, run_id, writer, db, txn>>
    BY <1>2 DEF vars, process, database
  <2>2. ProcessType' /\ DatabaseType' /\ LockInv'
    BY <2>1 DEF IInv, ProcessType, DatabaseType, LockInv
  <2>3. ASSUME NEW r \in Runners PROVE LoopInv(r)' /\ TxnInv(r)' /\ RecordedInv(r)'
    <3>1. LoopInv(r) /\ TxnInv(r) /\ RecordedInv(r)
      BY DEF IInv
    <3>2. LoopInv(r)'
      BY <2>1, <3>1 DEF LoopInv
    <3>3. TxnInv(r)'
      BY <2>1, <3>1 DEF TxnInv, RowOf, Report
    <3>4. RecordedInv(r)'
      BY <2>1, <3>1 DEF RecordedInv, Recorded
    <3> QED BY <3>2, <3>3, <3>4
  <2>4. RunsInv' /\ ResultsInv'
    BY <2>1 DEF IInv, RunsInv, ResultsInv, AssertionsOf
  <2> QED BY <2>2, <2>3, <2>4 DEF IInv
<1> QED BY <1>1, <1>2 DEF Next, Terminated

LEMMA Invariant == Spec => []IInv
BY Initially, Inductive, PTL DEF Spec

-----------------------------------------------------------------------------
(* The results.                                                            *)

\* The write lock and the loop counters keep their places, whichever processes wait,
\* fail or die.
THEOREM TypeCorrect == Spec => []TypeOK
<1>1. IInv => TypeOK
  BY DEF IInv, ProcessType, LockInv, LoopInv, TypeOK
<1> QED BY <1>1, Invariant, PTL

\* Each run on disk is whole, and each result row belongs to one, at every moment,
\* whichever process is killed between which two statements.
THEOREM RunsStayWhole == Spec => []RunsAreWhole
<1>1. IInv => RunsAreWhole
  BY DEF IInv, RunsInv, ResultsInv, ResultsOf, RunsAreWhole
<1> QED BY <1>1, Invariant, PTL

LEMMA InvImpliesPrintedIsRecorded == IInv => PrintedIsRecorded
<1> SUFFICES ASSUME IInv, NEW r \in Runners, NEW k \in 1 .. NumProbes
             PROVE  /\ recording[r] /\ k <= printed[r] => \E id \in DOMAIN db.runs : RecordsOf(r, k) = {id}
                    /\ ~recording[r] \/ k > Len(executed[r]) => RecordsOf(r, k) = {}
  BY DEF PrintedIsRecorded
<1>1. /\ printed[r] \in Nat /\ executed[r] \in Seq(Reports) /\ Len(executed[r]) \in Nat
      /\ printed[r] <= Len(executed[r])
      /\ RecordedInv(r) /\ RunsInv /\ NumProbes \in Nat
  BY ProbesAssumption DEF IInv, ProcessType, LoopInv
<1>2. ASSUME recording[r], k <= printed[r]
      PROVE  \E id \in DOMAIN db.runs : RecordsOf(r, k) = {id}
  <2>1. k \in 1 .. Len(executed[r])
    BY <1>1, <1>2
  <2>2. PICK id \in DOMAIN db.runs : db.runs[id].by = r /\ db.runs[id].probe = k
    BY <1>1, <1>2, <2>1 DEF RecordedInv, Recorded
  <2>3. RecordsOf(r, k) = {id}
    BY <1>1, <2>2 DEF RecordsOf, RunsInv
  <2> QED BY <2>3
<1>3. ASSUME ~recording[r] \/ k > Len(executed[r]) PROVE RecordsOf(r, k) = {}
  <2>1. ASSUME NEW id \in RecordsOf(r, k) PROVE FALSE
    BY <1>1, <1>3, <2>1 DEF RecordsOf, RunsInv
  <2> QED BY <2>1
<1> QED BY <1>2, <1>3

\* A reader of the history misses at most the probe at hand of each process, and finds
\* nothing twice.
THEOREM PrintedStaysRecorded == Spec => []PrintedIsRecorded
BY Invariant, InvImpliesPrintedIsRecorded, PTL

LEMMA InvImpliesExitZero == IInv => ExitZeroIsHonest
<1> SUFFICES ASSUME IInv, NEW r \in Runners, pc[r] = "exited", code[r] = 0
             PROVE  /\ Len(executed[r]) = found[r]
                    /\ \A k \in 1 .. found[r] :
                         /\ Reduce(executed[r][k]) = "Pass"
                         /\ recording[r] => RecordsOf(r, k) # {}
  BY DEF ExitZeroIsHonest
<1>1. /\ printed[r] \in Nat /\ Len(executed[r]) \in Nat /\ found[r] \in Nat
      /\ LoopInv(r) /\ RecordedInv(r)
  <2>1. executed[r] \in Seq(Reports) /\ found[r] \in {0, NumProbes} /\ printed[r] \in Nat
    BY DEF IInv, ProcessType
  <2> QED BY <2>1, ProbesAssumption DEF IInv
<1>2. Len(executed[r]) = found[r] /\ printed[r] = found[r] /\ ~any_fail[r]
  BY <1>1 DEF LoopInv
<1>3. ASSUME NEW k \in 1 .. found[r] PROVE Reduce(executed[r][k]) = "Pass"
  BY <1>1, <1>2 DEF LoopInv, NotPassed
<1>4. ASSUME NEW k \in 1 .. found[r], recording[r] PROVE RecordsOf(r, k) # {}
  BY <1>1, <1>2, <1>4 DEF RecordedInv, Recorded, RecordsOf
<1> QED BY <1>2, <1>3, <1>4

\* Exit code 0 is only given to a run in which everything passed and is recorded.
THEOREM ExitZeroIsEarned == Spec => []ExitZeroIsHonest
BY Invariant, InvImpliesExitZero, PTL

\* No step of any process, and no death of one, changes or takes away a row on disk.
THEOREM HistoryIsAppendOnly == Spec => AppendOnly
<1> DEFINE Kept == /\ Len(db.runs) <= Len(db'.runs)
                   /\ \A id \in DOMAIN db.runs : db'.runs[id] = db.runs[id]
                   /\ db.assertions \subseteq db'.assertions
<1>1. ASSUME IInv, [Next]_vars PROVE [Kept]_vars
  <2>1. db.runs \in Seq(RunRow) /\ Len(db.runs) \in Nat
    BY <1>1 DEF IInv, DatabaseType, Database
  <2>2. CASE db' = db
    BY <2>1, <2>2
  <2>3. ASSUME NEW r \in Runners, Commit(r) PROVE Kept
    <3>1. db'.runs \in Seq(RunRow)
      BY <1>1, <2>3 DEF Commit, Committed, IInv, DatabaseType, Database
    <3>2. DOMAIN db'.runs = 1 .. Len(db.runs) + 1 /\ Len(db'.runs) = Len(db.runs) + 1
      BY <1>1, <2>1, <2>3, <3>1, CommitAdds
    <3> QED BY <1>1, <2>1, <2>3, <3>2, CommitAdds
  <2>4. db' = db \/ \E r \in Runners : Commit(r)
    BY <1>1, HistoryGrows DEF Next, Terminated, IInv, vars, database
  <2> QED BY <2>2, <2>3, <2>4
<1> QED BY <1>1, Invariant, PTL DEF Spec, AppendOnly
=============================================================================
