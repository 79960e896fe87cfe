------------------------- MODULE ScanAdaptersProofs -------------------------
(***************************************************************************)
(* Theorems about the DuckDB, Parquet and S3 Parquet adapters on one       *)
(* runtime, for any number of calls of each kind, of threads, of           *)
(* statements in a batch and of row groups in a file.                      *)
(***************************************************************************)
EXTENDS ScanAdapters, SequenceTheorems, TLAPS

DuckCalls == Readers \cup Setups

DuckLabels == {"idle", "queued", "waiting", "locked", "collected", "done"}
LocalLabels == {"idle", "opening", "reading", "done"}
RemoteLabels == {"idle", "downloaded", "writing", "opening", "reading", "done"}

Contents == Nat \cup {Gone, Partial}

CallsType ==
    /\ pc \in [Callers -> DuckLabels \cup LocalLabels \cup RemoteLabels]
    /\ answer \in [Callers -> {"none", "ok", "connection", "query"}]
    /\ DOMAIN seen = Callers
    /\ \A c \in Callers : pc[c] = "done" <=> answer[c] # "none"

PoolType == queue \in Seq(Callers) /\ busy \subseteq Callers

DuckType ==
    /\ holder \in DuckCalls \cup {None}
    /\ poisoned \in BOOLEAN
    /\ applied \in [Setups -> 0 .. Statements]

ParquetType ==
    /\ object \in Nat
    /\ version \in 1 .. MaxVersion
    /\ file \in {Gone} \cup 1 .. version
    /\ content \in [1 .. MaxVersion -> Contents]
    /\ Overwriting => version < MaxVersion
    /\ tmp \in [RemoteCalls -> Contents]
    /\ handle \in [LocalCalls -> {None} \cup 1 .. version]
    /\ read \in [ParquetCalls -> Seq(Contents)]

-----------------------------------------------------------------------------
(* DuckDB.                                                                 *)

\* The mutex: one call has it, from its lock to its answer, and whoever has it found
\* it healthy.
MutexInv(c) ==
    /\ pc[c] \in DuckLabels
    /\ holder = c <=> pc[c] \in {"locked", "collected"}
    /\ pc[c] \in {"locked", "collected"} => ~poisoned

\* A batch that has been executed in part is still being executed, or was answered
\* with an error, or has poisoned the mutex.
BatchInv(s) ==
    /\ pc[s] \in {"idle", "queued", "waiting"} => applied[s] = 0
    /\ applied[s] \in {0, Statements} \/ pc[s] = "locked" \/ answer[s] = "query" \/ poisoned

Whole(look) ==
    /\ look \in [Setups -> 0 .. Statements]
    /\ \A s \in Setups : look[s] \in {0, Statements} \/ answer[s] = "query"

ReaderInv(r) ==
    /\ pc[r] \in {"idle", "queued", "waiting", "locked"} => seen[r] = None
    /\ pc[r] = "collected" \/ answer[r] = "ok" => Whole(seen[r])

-----------------------------------------------------------------------------
(* Parquet.                                                                *)

InPool(c) == c \in busy \/ \E i \in DOMAIN queue : queue[i] = c

\* What a call has pulled is all of the version it has looked at.
OneVersion(c) == \A g \in DOMAIN read[c] : read[c][g] = seen[c]

\* A local call keeps to the inode it opened: what that holds is what the call saw,
\* unless the file is overwritten under it.
LocalInv(c) ==
    /\ pc[c] \in LocalLabels
    /\ pc[c] \in {"idle", "opening"} => seen[c] = None /\ handle[c] = None /\ read[c] = <<>>
    /\ pc[c] = "reading" =>
         /\ handle[c] # None
         /\ \/ seen[c] = Spoiled
            \/ seen[c] \in Nat /\ content[handle[c]] = seen[c] /\ OneVersion(c)

\* A remote call has its temporary file for itself: it is complete once the write has
\* left the pool, and holds what was downloaded until the answer.
RemoteInv(c) ==
    /\ pc[c] \in RemoteLabels
    /\ pc[c] = "idle" => seen[c] = None
    /\ pc[c] \in {"downloaded", "writing", "opening", "reading"} => seen[c] \in Nat
    /\ pc[c] = "writing" => tmp[c] = seen[c] \/ (tmp[c] = Partial /\ InPool(c))
    /\ pc[c] \in {"opening", "reading"} => tmp[c] = seen[c]
    /\ pc[c] \in {"idle", "downloaded", "writing", "opening"} => read[c] = <<>>
    /\ pc[c] = "reading" => OneVersion(c)

Caused(c) ==
    answer[c] \in {"connection", "query"} => c \in harmed \/ (c \in DuckCalls /\ poisoned)

IInv ==
    /\ CallsType /\ PoolType /\ DuckType /\ ParquetType
    /\ \A c \in DuckCalls : MutexInv(c)
    /\ \A s \in Setups : BatchInv(s)
    /\ \A r \in Readers : ReaderInv(r)
    /\ \A c \in LocalCalls : LocalInv(c)
    /\ \A c \in RemoteCalls : RemoteInv(c)
    /\ \A c \in Callers : Caused(c)
-----------------------------------------------------------------------------
(* The steps, by whose they are, and what they leave alone.                *)

DuckAct(c) == (DuckCall(c) \/ DuckStep(c)) /\ UNCHANGED parquet
LocalAct(c) == (Open(c) \/ Scan(c)) /\ UNCHANGED duckdb
RemoteAct(c) == (Get(c) \/ GetFails(c) \/ Download(c) \/ Open(c) \/ Scan(c)) /\ UNCHANGED duckdb
OthersAct ==
    /\ PutObject \/ ReplaceFile \/ RemoveFile \/ BeginOverwrite \/ EndOverwrite
    /\ UNCHANGED duckdb

CallAct(c) ==
    \/ c \in DuckCalls /\ DuckAct(c)
    \/ c \in LocalCalls /\ LocalAct(c)
    \/ c \in RemoteCalls /\ RemoteAct(c)

LEMMA Steps == [Next]_vars => (\E c \in Callers : CallAct(c)) \/ OthersAct \/ UNCHANGED vars
BY CallersAssumption
   DEF Next, Terminated, DuckNext, ParquetNext, ParquetStep, ParquetCalls, DuckCalls,
       CallAct, DuckAct, LocalAct, RemoteAct, OthersAct

LEMMA Kinds ==
    /\ DuckCalls \subseteq Callers /\ LocalCalls \subseteq Callers /\ RemoteCalls \subseteq Callers
    /\ Callers = DuckCalls \cup LocalCalls \cup RemoteCalls
    /\ \A c \in DuckCalls : c \notin LocalCalls /\ c \notin RemoteCalls
    /\ \A c \in LocalCalls : c \notin RemoteCalls
    /\ \A c \in Readers : c \notin Setups
BY CallersAssumption, DuckAssumption, ParquetAssumption DEF DuckCalls

\* What a thread pool does for one job leaves the other jobs where they are.
PoolOp(c) == Spawn(c) \/ TakeJob(c) \/ EndJob(c) \/ Respawn(c) \/ UNCHANGED pool

LEMMA PoolFrame ==
    ASSUME PoolType, NEW c \in Callers, PoolOp(c)
    PROVE  /\ PoolType'
           /\ \A d \in Callers : d # c /\ InPool(d) => InPool(d)'
<1>0. queue \in Seq(Callers) /\ Len(queue) \in Nat /\ DOMAIN queue = 1 .. Len(queue)
  BY DEF PoolType
<1>1. ASSUME queue' = Append(queue, c), busy' \subseteq busy, \A d \in busy : d # c => d \in busy'
      PROVE  PoolType' /\ \A d \in Callers : d # c /\ InPool(d) => InPool(d)'
  <2>1. /\ queue' \in Seq(Callers) /\ DOMAIN queue' = 1 .. Len(queue) + 1
        /\ \A i \in 1 .. Len(queue) : queue'[i] = queue[i]
    BY <1>0, <1>1
  <2> QED BY <1>0, <1>1, <2>1 DEF PoolType, InPool
<1>2. CASE TakeJob(c)
  <2>1. /\ queue' = Tail(queue) /\ queue # <<>> /\ Head(queue) = c /\ busy' = busy \cup {c}
    BY <1>2 DEF TakeJob
  <2>2. /\ queue' \in Seq(Callers) /\ Len(queue') = Len(queue) - 1 /\ queue[1] = c
        /\ DOMAIN queue' = 1 .. Len(queue) - 1
        /\ \A i \in 1 .. Len(queue') : queue'[i] = queue[i + 1]
    BY <1>0, <2>1, HeadTailProperties
  <2>3. ASSUME NEW d \in Callers, d # c, NEW i \in DOMAIN queue, queue[i] = d
        PROVE  i - 1 \in DOMAIN queue' /\ queue'[i - 1] = d
    <3>1. i \in 1 .. Len(queue) /\ i # 1
      BY <1>0, <2>2, <2>3
    <3>2. i - 1 \in 1 .. Len(queue) - 1 /\ (i - 1) + 1 = i
      BY <1>0, <3>1
    <3> QED BY <2>2, <2>3, <3>2
  <2> QED BY <2>1, <2>2, <2>3 DEF PoolType, InPool
<1>3. CASE EndJob(c)
  BY <1>3 DEF EndJob, PoolType, InPool
<1>4. CASE UNCHANGED pool
  BY <1>4 DEF pool, PoolType, InPool
<1> QED BY <1>1, <1>2, <1>3, <1>4 DEF PoolOp, Spawn, Respawn

\* A step of one call leaves the others alone, and a call steps no more once it has
\* its answer.
LEMMA CallFrame ==
    ASSUME CallsType, NEW c \in Callers, CallAct(c)
    PROVE  /\ CallsType' /\ PoolOp(c)
           /\ pc[c] # "done" /\ answer[c] = "none"
           /\ \A d \in Callers : d # c => pc'[d] = pc[d] /\ answer'[d] = answer[d] /\ seen'[d] = seen[d]
           /\ harmed \subseteq harmed'
<1> USE DEF PoolOp, CallsType, Return, ReturnHarmed, AnswerWith, Goto, Idle, calls,
            DuckLabels, LocalLabels, RemoteLabels
<1>1. CASE c \in DuckCalls /\ DuckAct(c)
  <2>1. CASE DuckCall(c)
    BY <2>1 DEF DuckCall
  <2>2. CASE DuckThread(c)
    BY <2>2 DEF DuckThread
  <2>3. CASE Lock(c)
    BY <2>3 DEF Lock
  <2>4. CASE Select(c)
    BY <2>4 DEF Select
  <2>5. CASE ExecuteNext(c)
    BY <2>5 DEF ExecuteNext
  <2>6. CASE SetupDone(c)
    BY <2>6 DEF SetupDone
  <2>7. CASE Evaluate(c)
    BY <2>7 DEF Evaluate
  <2>8. CASE DuckFails(c)
    BY <2>8 DEF DuckFails
  <2>9. CASE DuckPanics(c)
    BY <2>9 DEF DuckPanics
  <2> QED BY <1>1, <2>1, <2>2, <2>3, <2>4, <2>5, <2>6, <2>7, <2>8, <2>9 DEF DuckAct, DuckStep
<1>2. CASE LocalAct(c) \/ RemoteAct(c)
  <2>1. CASE Get(c)
    BY <2>1 DEF Get
  <2>2. CASE GetFails(c)
    BY <2>2 DEF GetFails
  <2>3. CASE StoreTemp(c)
    BY <2>3 DEF StoreTemp
  <2>4. CASE StoreTempFails(c)
    BY <2>4 DEF StoreTempFails
  <2>5. CASE WriteEnds(c)
    BY <2>5 DEF WriteEnds
  <2>6. CASE WriteFails(c)
    BY <2>6 DEF WriteFails
  <2>7. CASE Validate(c)
    BY <2>7 DEF Validate, AtOpen, CannotOpen
  <2>8. CASE NotParquet(c)
    BY <2>8 DEF NotParquet, AtOpen
  <2>9. CASE ParquetThread(c)
    BY <2>9 DEF ParquetThread
  <2>10. CASE OpenReader(c)
    <3>1. CASE CannotOpen(c) /\ EndJob(c) /\ UNCHANGED <<seen, handle>>
      BY <2>10, <3>1 DEF OpenReader, CannotOpen
    <3>2. CASE Respawn(c) /\ Goto(c, "reading")
      <4>1. UNCHANGED seen \/ seen' = [seen EXCEPT ![c] = content[file]]
        BY <2>10, <3>2 DEF OpenReader, CannotOpen
      <4> QED BY <2>10, <3>2, <4>1 DEF OpenReader
    <3> QED BY <2>10, <3>1, <3>2 DEF OpenReader
  <2>11. CASE NextBatch(c)
    BY <2>11 DEF NextBatch
  <2>12. CASE EndOfFile(c)
    BY <2>12 DEF EndOfFile
  <2>13. CASE JobFails(c)
    BY <2>13 DEF JobFails
  <2> QED BY <1>2, <2>1, <2>2, <2>3, <2>4, <2>5, <2>6, <2>7, <2>8, <2>9, <2>10, <2>11, <2>12, <2>13
          DEF RemoteAct, LocalAct, Download, Open, Scan
<1> QED BY <1>1, <1>2 DEF CallAct
-----------------------------------------------------------------------------
(* DuckDB keeps its invariant.                                             *)

DuckInv ==
    /\ DuckType
    /\ \A c \in DuckCalls : MutexInv(c)
    /\ \A s \in Setups : BatchInv(s)
    /\ \A r \in Readers : ReaderInv(r)

LEMMA DuckTypeStep ==
    ASSUME DuckType, NEW c \in DuckCalls, DuckAct(c)
    PROVE  DuckType'
<1> USE DEF DuckType, HolderAfterFailure, duckdb
<1>1. CASE Lock(c)
  BY <1>1 DEF Lock
<1>2. CASE c \in Setups /\ ExecuteNext(c)
  BY <1>2, DuckAssumption DEF ExecuteNext
<1>3. CASE ~Lock(c) /\ ~(c \in Setups /\ ExecuteNext(c))
  BY <1>3
     DEF DuckAct, DuckStep, DuckCall, DuckThread, Select, Evaluate, SetupDone, DuckFails, DuckPanics
<1> QED BY <1>1, <1>2, <1>3

\* What one DuckDB call does to the mutex.
LEMMA MutexMoves ==
    ASSUME CallsType, DuckInv, NEW c \in DuckCalls, DuckAct(c)
    PROVE  /\ pc'[c] \in DuckLabels
           /\ \/ /\ pc'[c] = pc[c] \/ {pc[c], pc'[c]} \subseteq {"locked", "collected"}
                    \/ {pc[c], pc'[c]} \cap {"locked", "collected"} = {}
                 /\ holder' = holder /\ poisoned' = poisoned
              \/ /\ pc'[c] = "locked" /\ holder = None /\ holder' = c /\ ~poisoned /\ poisoned' = poisoned
              \/ /\ pc[c] \in {"locked", "collected"} /\ pc'[c] = "done" /\ holder' = None
                 /\ poisoned => poisoned'
<1> USE Kinds DEF CallsType, DuckLabels, Goto, Return, ReturnHarmed, AnswerWith, duckdb,
                  HolderAfterFailure
<1>0. c \in Callers /\ pc[c] \in DuckLabels
  BY DEF DuckInv, MutexInv
<1>1. CASE DuckCall(c)
  BY <1>0, <1>1 DEF DuckCall, Idle
<1>2. CASE DuckThread(c)
  BY <1>0, <1>2 DEF DuckThread
<1>3. CASE Lock(c)
  BY <1>0, <1>3 DEF Lock, Refused
<1>4. CASE Select(c)
  BY <1>0, <1>4 DEF Select
<1>5. CASE ExecuteNext(c)
  BY <1>0, <1>5 DEF ExecuteNext, calls
<1>6. CASE SetupDone(c) \/ Evaluate(c)
  BY <1>0, <1>6 DEF SetupDone, Evaluate
<1>7. CASE DuckFails(c) \/ DuckPanics(c)
  BY <1>0, <1>7 DEF DuckFails, DuckPanics
<1> QED BY <1>1, <1>2, <1>3, <1>4, <1>5, <1>6, <1>7 DEF DuckAct, DuckStep

LEMMA MutexStep ==
    ASSUME CallsType, DuckInv, NEW c \in DuckCalls, DuckAct(c), NEW d \in DuckCalls
    PROVE  MutexInv(d)'
<1>0. c \in Callers /\ d \in Callers /\ MutexInv(c) /\ MutexInv(d) /\ c # None /\ d # None
  BY Kinds, NoneAssumption DEF DuckInv
<1>1. CASE d = c
  BY <1>0, <1>1, MutexMoves DEF MutexInv
<1>2. CASE d # c
  <2>1. pc'[d] = pc[d]
    BY <1>0, <1>2, CallFrame DEF CallAct
  <2> QED BY <1>0, <1>2, <2>1, MutexMoves DEF MutexInv
<1> QED BY <1>1, <1>2

LEMMA BatchStep ==
    ASSUME CallsType, DuckInv, NEW c \in DuckCalls, DuckAct(c), NEW s \in Setups
    PROVE  BatchInv(s)'
<1>0. /\ c \in Callers /\ s \in Callers /\ s \in DuckCalls /\ BatchInv(s)
      /\ applied \in [Setups -> 0 .. Statements] /\ Statements \in Nat
      /\ poisoned => poisoned'
      /\ pc[c] \in DuckLabels
  BY Kinds, MutexMoves, DuckAssumption DEF DuckInv, DuckCalls, DuckType, MutexInv
<1>1. CASE s # c
  <2>1. pc'[s] = pc[s] /\ answer'[s] = answer[s]
    BY <1>0, <1>1, CallFrame DEF CallAct
  <2>2. applied'[s] = applied[s]
    BY <1>0, <1>1
       DEF DuckAct, DuckStep, DuckCall, DuckThread, Lock, Select, Evaluate, ExecuteNext, SetupDone,
           DuckFails, DuckPanics, duckdb
  <2> QED BY <1>0, <2>1, <2>2 DEF BatchInv
<1>2. CASE s = c
  <2> USE DEF CallsType, DuckLabels, Goto, Return, ReturnHarmed, AnswerWith, duckdb, calls
  <2>1. CASE DuckCall(c)
    BY <1>0, <1>2, <2>1 DEF DuckCall, Idle, BatchInv
  <2>2. CASE DuckThread(c)
    BY <1>0, <1>2, <2>2 DEF DuckThread, BatchInv
  <2>3. CASE Lock(c)
    BY <1>0, <1>2, <2>3 DEF Lock, BatchInv
  <2>4. CASE ExecuteNext(c)
    BY <1>0, <1>2, <2>4 DEF ExecuteNext, BatchInv
  <2>5. CASE SetupDone(c)
    BY <1>0, <1>2, <2>5 DEF SetupDone, BatchInv
  <2>6. CASE DuckFails(c)
    BY <1>0, <1>2, <2>6 DEF DuckFails, BatchInv
  <2>7. CASE DuckPanics(c)
    BY <1>0, <1>2, <2>7 DEF DuckPanics, BatchInv
  <2> QED BY <1>0, <1>2, <2>1, <2>2, <2>3, <2>4, <2>5, <2>6, <2>7, Kinds DEF DuckAct, DuckStep
<1> QED BY <1>1, <1>2

\* A look that is whole stays so: answers are not taken back.
LEMMA WholeStays ==
    ASSUME CallsType, NEW c \in Callers, CallAct(c), NEW look, Whole(look)
    PROVE  Whole(look)'
<1>1. \A s \in Setups : s \in Callers /\ (answer[s] = "query" => answer'[s] = "query")
  BY CallFrame, Kinds DEF DuckCalls
<1> QED BY <1>1 DEF Whole

LEMMA ReaderStep ==
    ASSUME CallsType, DuckInv, NEW c \in DuckCalls, DuckAct(c), NEW r \in Readers
    PROVE  ReaderInv(r)'
<1>0. /\ c \in Callers /\ r \in Callers /\ r \in DuckCalls /\ r \notin Setups
      /\ ReaderInv(r) /\ MutexInv(r) /\ CallAct(c)
      /\ pc[c] # "done" /\ answer[c] = "none"
  BY Kinds, CallFrame DEF DuckInv, DuckCalls, CallAct
<1>1. CASE r # c
  <2>1. pc'[r] = pc[r] /\ answer'[r] = answer[r] /\ seen'[r] = seen[r]
    BY <1>0, <1>1, CallFrame
  <2> QED BY <1>0, <2>1, WholeStays DEF ReaderInv
<1>2. CASE r = c
  <2> USE DEF CallsType, DuckLabels, Goto, Return, ReturnHarmed, AnswerWith, duckdb
  <2>1. CASE DuckCall(c)
    BY <1>0, <1>2, <2>1 DEF DuckCall, Idle, ReaderInv
  <2>2. CASE DuckThread(c)
    BY <1>0, <1>2, <2>2 DEF DuckThread, ReaderInv
  <2>3. CASE Lock(c)
    BY <1>0, <1>2, <2>3 DEF Lock, ReaderInv
  <2>4. CASE Select(c)
    <3>1. pc[r] = "locked" /\ holder = r /\ ~poisoned
      BY <1>0, <1>2, <2>4 DEF Select, MutexInv
    <3>2. ASSUME NEW s \in Setups PROVE applied[s] \in {0, Statements} \/ answer[s] = "query"
      <4>1. s \in DuckCalls /\ s # r /\ MutexInv(s) /\ BatchInv(s)
        BY <1>0 DEF DuckInv, DuckCalls
      <4> QED BY <3>1, <4>1 DEF MutexInv, BatchInv
    <3>3. PICK look : look = applied /\ Whole(look)
      BY <3>2 DEF Whole, DuckInv, DuckType
    <3>4. seen' = [seen EXCEPT ![r] = applied] /\ pc'[r] = "collected" /\ answer' = answer
      BY <1>0, <1>2, <2>4 DEF Select
    <3>5. seen'[r] = look
      BY <1>0, <3>3, <3>4
    <3>6. Whole(look)'
      BY <3>3, <3>4 DEF Whole
    <3> QED BY <3>4, <3>5, <3>6 DEF ReaderInv
  <2>5. CASE Evaluate(c)
    <3>1. seen' = seen /\ pc[r] = "collected" /\ pc'[r] = "done"
      BY <1>0, <1>2, <2>5 DEF Evaluate
    <3> QED BY <1>0, <3>1, WholeStays DEF ReaderInv
  <2>6. CASE DuckFails(c)
    BY <1>0, <1>2, <2>6 DEF DuckFails, ReaderInv
  <2>7. CASE DuckPanics(c)
    BY <1>0, <1>2, <2>7 DEF DuckPanics, ReaderInv
  <2> QED BY <1>0, <1>2, <2>1, <2>2, <2>3, <2>4, <2>5, <2>6, <2>7 DEF DuckAct, DuckStep
<1> QED BY <1>1, <1>2

\* Only the adapter's own calls touch its state.
LEMMA DuckInvStep ==
    ASSUME CallsType, DuckInv, [Next]_vars
    PROVE  DuckInv'
<1>1. ASSUME NEW c \in DuckCalls, DuckAct(c) PROVE DuckInv'
  BY <1>1, DuckTypeStep, MutexStep, BatchStep, ReaderStep DEF DuckInv
<1>2. ASSUME UNCHANGED duckdb,
             \A d \in DuckCalls : pc'[d] = pc[d] /\ answer'[d] = answer[d] /\ seen'[d] = seen[d]
      PROVE  DuckInv'
  <2>1. \A s \in Setups : s \in DuckCalls
    BY DEF DuckCalls
  <2>2. \A r \in Readers : r \in DuckCalls
    BY DEF DuckCalls
  <2>3. \A r \in Readers : Whole(seen[r]) => Whole(seen[r])'
    BY <1>2, <2>1, <2>2 DEF Whole
  <2> QED BY <1>2, <2>1, <2>2, <2>3
          DEF DuckInv, DuckType, MutexInv, BatchInv, ReaderInv, duckdb
<1>3. ASSUME NEW c \in LocalCalls \cup RemoteCalls, LocalAct(c) \/ RemoteAct(c), CallAct(c)
      PROVE  DuckInv'
  <2>1. UNCHANGED duckdb /\ \A d \in DuckCalls : d \in Callers /\ d # c
    BY <1>3, Kinds DEF LocalAct, RemoteAct
  <2> QED BY <1>2, <1>3, <2>1, CallFrame, Kinds
<1>4. CASE OthersAct
  <2>1. UNCHANGED duckdb /\ UNCHANGED <<pc, answer>>
    BY <1>4 DEF OthersAct, PutObject, ReplaceFile, RemoveFile, BeginOverwrite, EndOverwrite, calls
  <2>2. \A d \in DuckCalls : seen'[d] = seen[d]
    BY <1>4, Kinds
       DEF OthersAct, PutObject, ReplaceFile, RemoveFile, BeginOverwrite, EndOverwrite, calls
  <2> QED BY <1>2, <2>1, <2>2
<1>5. CASE UNCHANGED vars
  BY <1>2, <1>5 DEF vars, calls
<1> QED BY <1>1, <1>3, <1>4, <1>5, Steps, Kinds DEF CallAct
-----------------------------------------------------------------------------
(* The Parquet adapters keep theirs.                                       *)

ParquetInv ==
    /\ PoolType
    /\ ParquetType
    /\ \A c \in LocalCalls : LocalInv(c)
    /\ \A c \in RemoteCalls : RemoteInv(c)

ParquetAct(c) == (c \in LocalCalls /\ LocalAct(c)) \/ (c \in RemoteCalls /\ RemoteAct(c))

\* A call touches neither the sources nor what another call keeps.
LEMMA ParquetFrame ==
    ASSUME ParquetType, NEW c \in ParquetCalls, ParquetAct(c)
    PROVE  /\ UNCHANGED source
           /\ \A d \in RemoteCalls : d # c => tmp'[d] = tmp[d]
           /\ \A d \in LocalCalls : d # c => handle'[d] = handle[d]
           /\ \A d \in ParquetCalls : d # c => read'[d] = read[d]
<1> USE DEF ParquetType, source, parquet, Unlinked
<1>1. CASE Get(c) \/ GetFails(c)
  BY <1>1 DEF Get, GetFails
<1>2. CASE StoreTemp(c) \/ StoreTempFails(c) \/ WriteEnds(c) \/ WriteFails(c)
  BY <1>2 DEF StoreTemp, StoreTempFails, WriteEnds, WriteFails
<1>3. CASE Validate(c) \/ NotParquet(c)
  BY <1>3 DEF Validate, NotParquet, CannotOpen
<1>4. CASE ParquetThread(c) \/ NextBatch(c)
  BY <1>4 DEF ParquetThread, NextBatch
<1>5. CASE OpenReader(c)
  BY <1>5 DEF OpenReader, CannotOpen
<1>6. CASE EndOfFile(c) \/ JobFails(c)
  BY <1>6 DEF EndOfFile, JobFails
<1> QED BY <1>1, <1>2, <1>3, <1>4, <1>5, <1>6
        DEF ParquetAct, LocalAct, RemoteAct, Download, Open, Scan

LEMMA TmpStep ==
    ASSUME ParquetType, NEW c \in RemoteCalls, RemoteAct(c), RemoteInv(c)
    PROVE  /\ tmp' \in [RemoteCalls -> Contents]
           /\ handle' = handle
<1> USE Kinds DEF ParquetType, source, parquet, Unlinked, Contents
<1>1. CASE Get(c) \/ GetFails(c)
  BY <1>1 DEF Get, GetFails
<1>2. CASE StoreTemp(c) \/ StoreTempFails(c) \/ WriteEnds(c) \/ WriteFails(c)
  BY <1>2 DEF StoreTemp, StoreTempFails, WriteEnds, WriteFails, RemoteInv
<1>3. CASE Validate(c) \/ NotParquet(c)
  BY <1>3 DEF Validate, NotParquet, CannotOpen
<1>4. CASE ParquetThread(c) \/ NextBatch(c)
  BY <1>4 DEF ParquetThread, NextBatch
<1>5. CASE OpenReader(c)
  BY <1>5 DEF OpenReader, CannotOpen
<1>6. CASE EndOfFile(c) \/ JobFails(c)
  BY <1>6 DEF EndOfFile, JobFails
<1> QED BY <1>1, <1>2, <1>3, <1>4, <1>5, <1>6
        DEF RemoteAct, Download, Open, Scan

LEMMA HandleStep ==
    ASSUME ParquetType, NEW c \in LocalCalls, LocalAct(c)
    PROVE  /\ handle' \in [LocalCalls -> {None} \cup 1 .. version]
           /\ tmp' = tmp
<1> USE Kinds DEF ParquetType, source, parquet, Unlinked
<1>1. CASE Validate(c) \/ NotParquet(c)
  BY <1>1 DEF Validate, NotParquet, CannotOpen
<1>2. CASE ParquetThread(c) \/ NextBatch(c)
  BY <1>2 DEF ParquetThread, NextBatch
<1>3. CASE OpenReader(c)
  <2>1. tmp' = tmp /\ (handle' = handle \/ (handle' = [handle EXCEPT ![c] = file] /\ AtPath(c) # Gone))
    BY <1>3 DEF OpenReader, CannotOpen
  <2>2. AtPath(c) # Gone => file \in 1 .. version
    BY DEF AtPath
  <2> QED BY <2>1, <2>2
<1>4. CASE EndOfFile(c) \/ JobFails(c)
  BY <1>4 DEF EndOfFile, JobFails
<1> QED BY <1>1, <1>2, <1>3, <1>4 DEF LocalAct, Open, Scan

\* What NextBatch pulls: the next row group of the version the call has looked at.
LEMMA Pulled ==
    ASSUME CallsType, ParquetInv, NEW c \in ParquetCalls, ParquetAct(c)
    PROVE  /\ read' \in [ParquetCalls -> Seq(Contents)]
           /\ \/ read' = read
              \/ /\ pc[c] = "reading" /\ pc' = pc /\ seen' = seen
                 /\ read'[c] = Append(read[c], RowGroup(c))
<1>0. ParquetType /\ read[c] \in Seq(Contents)
  BY DEF ParquetInv, ParquetType
<1>1. CASE NextBatch(c)
  <2>1. RowGroup(c) \in Contents
    <3>1. CASE c \in LocalCalls
      <4>1. handle[c] \in 1 .. MaxVersion
        BY <1>0, <1>1, <3>1, ParquetAssumption DEF NextBatch, ParquetInv, LocalInv, ParquetType
      <4> QED BY <1>0, <3>1, <4>1 DEF RowGroup, ParquetType
    <3>2. CASE c \notin LocalCalls
      BY <1>0, <3>2 DEF RowGroup, ParquetType, ParquetCalls
    <3> QED BY <3>1, <3>2
  <2>2. Append(read[c], RowGroup(c)) \in Seq(Contents)
    BY <1>0, <2>1
  <2>3. /\ read' = [read EXCEPT ![c] = Append(@, RowGroup(c))]
        /\ pc[c] = "reading" /\ pc' = pc /\ seen' = seen
    BY <1>1 DEF NextBatch, calls
  <2> QED BY <1>0, <2>2, <2>3 DEF ParquetType
<1>2. CASE ~NextBatch(c)
  <2>1. read' = read
    BY <1>2 DEF ParquetAct, LocalAct, RemoteAct, Download, Open, Scan, Get, GetFails, StoreTemp,
                StoreTempFails, WriteEnds, WriteFails, Validate, NotParquet, ParquetThread, OpenReader,
                EndOfFile, JobFails, parquet
  <2> QED BY <1>0, <2>1 DEF ParquetType
<1> QED BY <1>1, <1>2

LEMMA ParquetTypeStep ==
    ASSUME CallsType, ParquetInv, NEW c \in ParquetCalls, ParquetAct(c)
    PROVE  ParquetType'
<1>0. ParquetType /\ UNCHANGED <<object, version, file, content>>
  BY ParquetFrame DEF ParquetInv, source
<1>1. read' \in [ParquetCalls -> Seq(Contents)]
  BY Pulled
<1>2. tmp' \in [RemoteCalls -> Contents] /\ handle' \in [LocalCalls -> {None} \cup 1 .. version]
  <2>1. CASE c \in LocalCalls /\ LocalAct(c)
    BY <1>0, <2>1, HandleStep DEF ParquetType
  <2>2. CASE c \in RemoteCalls /\ RemoteAct(c)
    BY <1>0, <2>2, TmpStep DEF ParquetType, ParquetInv
  <2> QED BY <2>1, <2>2 DEF ParquetAct
<1>3. Overwriting' = Overwriting
  BY <1>0 DEF Overwriting
<1> QED BY <1>0, <1>1, <1>2, <1>3 DEF ParquetType

LEMMA OneVersionStays ==
    ASSUME NEW c, NEW v, NEW x \in Seq(Contents), NEW y \in Contents,
           \A g \in DOMAIN x : x[g] = v, y = v
    PROVE  \A g \in DOMAIN Append(x, y) : Append(x, y)[g] = v
OBVIOUS

LEMMA LocalStep ==
    ASSUME CallsType, ParquetInv, NEW c \in LocalCalls, LocalAct(c)
    PROVE  LocalInv(c)'
<1>0. /\ c \in Callers /\ c \notin RemoteCalls /\ c \in ParquetCalls
      /\ LocalInv(c) /\ ParquetType
      /\ read[c] \in Seq(Contents)
      /\ UNCHANGED <<object, version, file, content>>
  BY Kinds, ParquetFrame DEF ParquetInv, ParquetType, ParquetCalls, ParquetAct, source
<1> USE DEF CallsType, LocalLabels, Return, ReturnHarmed, AnswerWith, Goto
<1>1. CASE Validate(c)
  <2>1. pc[c] = "idle" /\ pc'[c] \in {"opening", "done"} /\ UNCHANGED <<seen, handle, read>>
    BY <1>0, <1>1 DEF Validate, AtOpen, Idle, CannotOpen
  <2> QED BY <1>0, <2>1 DEF LocalInv
<1>2. CASE NotParquet(c) \/ EndOfFile(c) \/ JobFails(c)
  <2>1. pc'[c] = "done"
    BY <1>0, <1>2 DEF NotParquet, EndOfFile, JobFails
  <2> QED BY <2>1 DEF LocalInv
<1>3. CASE ParquetThread(c)
  BY <1>0, <1>3 DEF ParquetThread, calls, parquet, LocalInv, OneVersion
<1>4. CASE OpenReader(c)
  <2>1. CASE CannotOpen(c)
    BY <1>0, <2>1 DEF CannotOpen, LocalInv
  <2>2. CASE ~CannotOpen(c)
    <3>1. /\ pc[c] = "opening" /\ pc'[c] = "reading" /\ read' = read
          /\ AtPath(c) \notin {Gone, Partial}
          /\ handle' = [handle EXCEPT ![c] = file] /\ seen' = [seen EXCEPT ![c] = content[file]]
      BY <1>0, <1>4, <2>2 DEF OpenReader
    <3>2. file # Gone /\ file \in 1 .. version /\ content[file] \notin {Gone, Partial}
      BY <1>0, <3>1 DEF AtPath, ParquetType
    <3>3. file \in 1 .. MaxVersion /\ content[file] \in Nat /\ file # None
      <4>1. file \in 1 .. MaxVersion
        BY <1>0, <3>2, ParquetAssumption DEF ParquetType
      <4>2. content[file] \in Contents
        BY <1>0, <4>1 DEF ParquetType
      <4>3. None \notin Nat
        BY SentinelsAssumption
      <4> QED BY <3>2, <4>1, <4>2, <4>3 DEF Contents
    <3>4. handle'[c] = file /\ seen'[c] = content[file] /\ read'[c] = <<>> /\ content' = content
      BY <1>0, <3>1 DEF ParquetType, LocalInv
    <3> QED BY <3>1, <3>3, <3>4 DEF LocalInv, OneVersion
  <2> QED BY <2>1, <2>2
<1>5. CASE NextBatch(c)
  <2>1. /\ pc[c] = "reading" /\ UNCHANGED <<pc, seen, handle>>
        /\ read'[c] = Append(read[c], RowGroup(c)) /\ RowGroup(c) = content[handle[c]]
    BY <1>0, <1>5 DEF NextBatch, calls, RowGroup, ParquetType
  <2>2. CASE seen[c] = Spoiled
    BY <1>0, <2>1, <2>2 DEF LocalInv
  <2>3. CASE seen[c] # Spoiled
    <3>1. seen[c] \in Nat /\ content[handle[c]] = seen[c] /\ OneVersion(c) /\ handle[c] # None
      BY <1>0, <2>1, <2>3 DEF LocalInv
    <3>2. \A g \in DOMAIN Append(read[c], RowGroup(c)) : Append(read[c], RowGroup(c))[g] = seen[c]
      BY <1>0, <2>1, <3>1, OneVersionStays DEF OneVersion, Contents
    <3> QED BY <1>0, <2>1, <3>1, <3>2 DEF LocalInv, OneVersion
  <2> QED BY <2>2, <2>3
<1> QED BY <1>1, <1>2, <1>3, <1>4, <1>5 DEF LocalAct, Open, Scan

LEMMA RemoteStep ==
    ASSUME CallsType, ParquetInv, NEW c \in RemoteCalls, RemoteAct(c)
    PROVE  RemoteInv(c)'
<1>0. /\ c \in Callers /\ c \notin LocalCalls /\ c \in ParquetCalls
      /\ RemoteInv(c) /\ ParquetType
      /\ read[c] \in Seq(Contents)
  BY Kinds DEF ParquetInv, ParquetType, ParquetCalls
<1> USE DEF CallsType, RemoteLabels, Return, ReturnHarmed, AnswerWith, Goto
<1>1. CASE Get(c)
  BY <1>0, <1>1 DEF Get, Idle, RemoteInv, ParquetType, parquet, source
<1>2. CASE GetFails(c) \/ StoreTempFails(c) \/ WriteFails(c) \/ NotParquet(c) \/ EndOfFile(c) \/ JobFails(c)
  <2>1. pc'[c] = "done"
    BY <1>0, <1>2 DEF GetFails, StoreTempFails, WriteFails, NotParquet, EndOfFile, JobFails
  <2> QED BY <2>1 DEF RemoteInv
<1>3. CASE StoreTemp(c)
  <2>1. /\ pc[c] = "downloaded" /\ pc'[c] = "writing" /\ UNCHANGED <<seen, read>>
        /\ tmp'[c] = Partial /\ queue' = Append(queue, c)
    BY <1>0, <1>3 DEF StoreTemp, Spawn, ParquetType
  <2>2. InPool(c)'
    <3>1. queue \in Seq(Callers)
      BY DEF ParquetInv, PoolType
    <3>2. Len(queue) + 1 \in DOMAIN queue' /\ queue'[Len(queue) + 1] = c
      BY <1>0, <2>1, <3>1
    <3> QED BY <3>2 DEF InPool
  <2> QED BY <1>0, <2>1, <2>2 DEF RemoteInv
<1>4. CASE WriteEnds(c)
  <2>1. pc[c] = "writing" /\ pc'[c] = "writing" /\ UNCHANGED <<seen, read>> /\ tmp'[c] = seen[c]
    BY <1>0, <1>4 DEF WriteEnds, calls, ParquetType
  <2> QED BY <1>0, <2>1 DEF RemoteInv
<1>5. CASE Validate(c)
  <2>1. pc[c] = "writing" /\ Flushed(c) /\ pc'[c] \in {"opening", "done"} /\ UNCHANGED <<seen, read>>
    BY <1>0, <1>5 DEF Validate, AtOpen, CannotOpen
  <2>2. tmp[c] = seen[c]
    BY <1>0, <2>1 DEF RemoteInv, Flushed, InPool
  <2>3. pc'[c] = "opening" => tmp'[c] = tmp[c]
    BY <1>0, <1>5 DEF Validate, CannotOpen
  <2> QED BY <1>0, <2>1, <2>2, <2>3 DEF RemoteInv
<1>6. CASE ParquetThread(c)
  <2>1. UNCHANGED <<pc, seen, tmp, read>> /\ pc[c] \in {"writing", "opening", "reading"} /\ c \in busy'
    BY <1>6 DEF ParquetThread, calls, parquet, TakeJob
  <2>2. InPool(c)'
    BY <2>1 DEF InPool
  <2> QED BY <1>0, <2>1, <2>2 DEF RemoteInv, OneVersion
<1>7. CASE OpenReader(c)
  <2>1. CASE CannotOpen(c)
    BY <1>0, <2>1 DEF CannotOpen, RemoteInv
  <2>2. CASE ~CannotOpen(c)
    <3>1. pc[c] = "opening" /\ pc'[c] = "reading" /\ UNCHANGED <<seen, tmp, read>>
      BY <1>0, <1>7, <2>2 DEF OpenReader
    <3> QED BY <1>0, <3>1 DEF RemoteInv, OneVersion
  <2> QED BY <2>1, <2>2
<1>8. CASE NextBatch(c)
  <2>1. /\ pc[c] = "reading" /\ UNCHANGED <<pc, seen, tmp>>
        /\ read'[c] = Append(read[c], RowGroup(c)) /\ RowGroup(c) = tmp[c]
    BY <1>0, <1>8 DEF NextBatch, calls, RowGroup, ParquetType
  <2>2. seen[c] \in Nat /\ tmp[c] = seen[c] /\ OneVersion(c)
    BY <1>0, <2>1 DEF RemoteInv
  <2>3. \A g \in DOMAIN Append(read[c], RowGroup(c)) : Append(read[c], RowGroup(c))[g] = seen[c]
    BY <1>0, <2>1, <2>2, OneVersionStays DEF OneVersion, Contents
  <2> QED BY <1>0, <2>1, <2>2, <2>3 DEF RemoteInv, OneVersion
<1> QED BY <1>1, <1>2, <1>3, <1>4, <1>5, <1>6, <1>7, <1>8 DEF RemoteAct, Download, Open, Scan

\* What the others do to the sources: a version that is new has a number no inode had.
LEMMA OthersTypeStep ==
    ASSUME ParquetType, OthersAct
    PROVE  ParquetType'
<1>0. /\ version \in Nat /\ version \in 1 .. MaxVersion /\ MaxVersion \in Nat
      /\ Partial \notin Nat /\ Gone \notin Nat
      /\ content \in [1 .. MaxVersion -> Contents]
      /\ UNCHANGED <<tmp, handle, read>>
  BY ParquetAssumption, SentinelsAssumption
     DEF ParquetType, OthersAct, PutObject, ReplaceFile, RemoveFile, BeginOverwrite, EndOverwrite
<1>1. CASE PutObject
  BY <1>0, <1>1 DEF PutObject, ParquetType, Overwriting
<1>2. CASE ReplaceFile
  <2>0. PICK new \in Nat : new = version + 1
    BY <1>0
  <2>1. /\ version' = new /\ file' = new /\ content' = [content EXCEPT ![new] = new] /\ object' = object
        /\ new \in 1 .. MaxVersion
    BY <1>0, <1>2, <2>0 DEF ReplaceFile
  <2>2. content' \in [1 .. MaxVersion -> Contents] /\ content'[new] = new
    BY <1>0, <2>1 DEF Contents
  <2>3. ~Overwriting'
    BY <1>0, <2>1, <2>2 DEF Overwriting
  <2>4. handle \in [LocalCalls -> {None} \cup 1 .. new]
    BY <1>0, <2>0 DEF ParquetType
  <2> QED BY <1>0, <2>1, <2>2, <2>3, <2>4 DEF ParquetType
<1>3. CASE RemoveFile
  BY <1>0, <1>3 DEF RemoveFile, ParquetType, Overwriting
<1>4. CASE BeginOverwrite
  <2>1. /\ content' = [content EXCEPT ![file] = Partial] /\ version' = version /\ file' = file
        /\ object' = object /\ version < MaxVersion
    BY <1>4 DEF BeginOverwrite
  <2>2. content' \in [1 .. MaxVersion -> Contents]
    BY <1>0, <2>1 DEF Contents
  <2> QED BY <1>0, <2>1, <2>2 DEF ParquetType
<1>5. CASE EndOverwrite
  <2>0. PICK new \in Nat : new = version + 1
    BY <1>0
  <2>1. /\ version' = new /\ file' = file /\ content' = [content EXCEPT ![file] = new]
        /\ object' = object /\ Overwriting
    BY <1>5, <2>0 DEF EndOverwrite
  <2>2. new \in 1 .. MaxVersion /\ file \in 1 .. MaxVersion
    BY <1>0, <2>0, <2>1 DEF ParquetType, Overwriting
  <2>3. content' \in [1 .. MaxVersion -> Contents] /\ content'[file] = new
    BY <1>0, <2>1, <2>2 DEF Contents
  <2>4. ~Overwriting'
    BY <1>0, <2>1, <2>3 DEF Overwriting
  <2>5. handle \in [LocalCalls -> {None} \cup 1 .. new] /\ file \in {Gone} \cup 1 .. new
    BY <1>0, <2>0 DEF ParquetType
  <2> QED BY <1>0, <2>1, <2>2, <2>3, <2>4, <2>5 DEF ParquetType
<1> QED BY <1>1, <1>2, <1>3, <1>4, <1>5 DEF OthersAct

\* A reader that is not spoiled reads an inode no other step touches.
LEMMA OthersLocalStep ==
    ASSUME CallsType, ParquetInv, OthersAct, NEW c \in LocalCalls
    PROVE  LocalInv(c)'
<1>0. /\ c \in Callers /\ LocalInv(c)
      /\ handle[c] \in {None} \cup 1 .. version /\ version \in 1 .. MaxVersion
      /\ file \in {Gone} \cup 1 .. version
      /\ content \in [1 .. MaxVersion -> Contents] /\ MaxVersion \in Nat
      /\ None \notin Nat /\ Partial \notin Nat /\ Gone # None
      /\ UNCHANGED <<pc, handle, read>>
  BY Kinds, ParquetAssumption, SentinelsAssumption
     DEF ParquetInv, ParquetType, OthersAct, PutObject, ReplaceFile, RemoveFile, BeginOverwrite,
         EndOverwrite, calls
<1>1. CASE seen'[c] = seen[c] /\ (seen[c] \in Nat /\ pc[c] = "reading" /\ content[handle[c]] = seen[c]
                                    => content'[handle[c]] = content[handle[c]])
  BY <1>0, <1>1 DEF LocalInv, OneVersion
<1>2. CASE PutObject \/ RemoveFile
  BY <1>0, <1>1, <1>2 DEF PutObject, RemoveFile, calls
<1>3. CASE ReplaceFile
  <2>1. seen' = seen /\ content' = [content EXCEPT ![version + 1] = version + 1]
    BY <1>3 DEF ReplaceFile, calls
  <2>2. pc[c] = "reading" => handle[c] \in 1 .. MaxVersion /\ handle[c] # version + 1
    BY <1>0 DEF LocalInv
  <2> QED BY <1>0, <1>1, <2>1, <2>2
<1>4. CASE BeginOverwrite
  <2>1. /\ file # Gone /\ content' = [content EXCEPT ![file] = Partial]
        /\ seen'[c] = IF handle[c] = file /\ pc[c] # "done" THEN Spoiled ELSE seen[c]
    BY <1>0, <1>4 DEF BeginOverwrite
  <2>2. file # None /\ file \in 1 .. MaxVersion
    BY <1>0, <2>1
  <2>3. CASE handle[c] = file /\ pc[c] # "done"
    <3>1. handle[c] # None /\ seen'[c] = Spoiled
      BY <2>1, <2>2, <2>3
    <3> QED BY <1>0, <3>1 DEF LocalInv
  <2>4. CASE ~(handle[c] = file /\ pc[c] # "done")
    <3>1. pc[c] = "reading" => handle[c] # file /\ handle[c] \in 1 .. MaxVersion
      BY <1>0, <2>4 DEF LocalInv
    <3> QED BY <1>0, <1>1, <2>1, <2>2, <2>4, <3>1
  <2> QED BY <2>3, <2>4
<1>5. CASE EndOverwrite
  <2>1. /\ seen' = seen /\ content' = [content EXCEPT ![file] = version + 1]
        /\ content[file] = Partial /\ file # Gone
    BY <1>5 DEF EndOverwrite, calls, Overwriting
  <2>2. pc[c] = "reading" => handle[c] \in 1 .. MaxVersion
    BY <1>0 DEF LocalInv
  <2> QED BY <1>0, <1>1, <2>1, <2>2
<1> QED BY <1>2, <1>3, <1>4, <1>5 DEF OthersAct

LEMMA OthersRemoteStep ==
    ASSUME OthersAct, NEW c \in RemoteCalls, RemoteInv(c)
    PROVE  RemoteInv(c)'
<1>1. UNCHANGED <<pc, queue, busy, tmp, read>> /\ seen'[c] = seen[c]
  BY Kinds DEF OthersAct, PutObject, ReplaceFile, RemoveFile, BeginOverwrite, EndOverwrite, calls, pool
<1> QED BY <1>1 DEF RemoteInv, OneVersion, InPool

LEMMA ParquetInvStep ==
    ASSUME CallsType, ParquetInv, [Next]_vars
    PROVE  ParquetInv'
<1>1. ASSUME NEW c \in ParquetCalls, ParquetAct(c) PROVE ParquetInv'
  <2>1. c \in Callers /\ CallAct(c) /\ PoolType /\ ParquetType
    BY <1>1, Kinds DEF ParquetAct, CallAct, ParquetInv
  <2>2. PoolType' /\ \A d \in Callers : d # c /\ InPool(d) => InPool(d)'
    BY <2>1, CallFrame, PoolFrame
  <2>3. ASSUME NEW d \in LocalCalls, d # c PROVE LocalInv(d)'
    <3>1. d \in Callers /\ d \in ParquetCalls /\ LocalInv(d)
      BY Kinds DEF ParquetCalls, ParquetInv
    <3>2. /\ pc'[d] = pc[d] /\ seen'[d] = seen[d] /\ handle'[d] = handle[d] /\ read'[d] = read[d]
          /\ content' = content
      BY <1>1, <2>1, <2>3, <3>1, CallFrame, ParquetFrame DEF source
    <3> QED BY <3>1, <3>2 DEF LocalInv, OneVersion
  <2>4. ASSUME NEW d \in RemoteCalls, d # c PROVE RemoteInv(d)'
    <3>1. d \in Callers /\ d \in ParquetCalls /\ RemoteInv(d)
      BY Kinds DEF ParquetCalls, ParquetInv
    <3>2. /\ pc'[d] = pc[d] /\ seen'[d] = seen[d] /\ tmp'[d] = tmp[d] /\ read'[d] = read[d]
          /\ InPool(d) => InPool(d)'
      BY <1>1, <2>1, <2>2, <2>4, <3>1, CallFrame, ParquetFrame
    <3> QED BY <3>1, <3>2 DEF RemoteInv, OneVersion
  <2> QED BY <1>1, <2>2, <2>3, <2>4, ParquetTypeStep, LocalStep, RemoteStep, Kinds
          DEF ParquetInv, ParquetAct
<1>2. ASSUME UNCHANGED parquet, PoolType', \A d \in ParquetCalls : InPool(d) => InPool(d)',
             \A d \in ParquetCalls : pc'[d] = pc[d] /\ seen'[d] = seen[d]
      PROVE  ParquetInv'
  BY <1>2 DEF ParquetInv, ParquetType, LocalInv, RemoteInv, OneVersion, Overwriting, ParquetCalls,
              parquet, source
<1>3. ASSUME NEW c \in DuckCalls, DuckAct(c), CallAct(c) PROVE ParquetInv'
  <2>1. c \in Callers /\ UNCHANGED parquet /\ \A d \in ParquetCalls : d \in Callers /\ d # c
    BY <1>3, Kinds DEF DuckAct, ParquetCalls
  <2>2. PoolType' /\ \A d \in Callers : d # c /\ InPool(d) => InPool(d)'
    BY <1>3, <2>1, CallFrame, PoolFrame DEF ParquetInv
  <2> QED BY <1>2, <1>3, <2>1, <2>2, CallFrame
<1>4. CASE OthersAct
  <2>1. UNCHANGED pool
    BY <1>4 DEF OthersAct, PutObject, ReplaceFile, RemoveFile, BeginOverwrite, EndOverwrite
  <2> QED BY <1>4, <2>1, OthersTypeStep, OthersLocalStep, OthersRemoteStep DEF ParquetInv, PoolType, pool
<1>5. CASE UNCHANGED vars
  BY <1>2, <1>5 DEF vars, calls, pool, PoolType, InPool, ParquetInv
<1> QED BY <1>1, <1>3, <1>4, <1>5, Steps, Kinds DEF CallAct, ParquetAct, ParquetCalls

LEMMA CallsTypeStep ==
    ASSUME CallsType, [Next]_vars
    PROVE  CallsType'
<1>1. ASSUME NEW c \in Callers, CallAct(c) PROVE CallsType'
  BY <1>1, CallFrame
<1>2. CASE OthersAct \/ UNCHANGED vars
  <2>1. UNCHANGED <<pc, answer>> /\ DOMAIN seen' = Callers
    BY <1>2 DEF OthersAct, PutObject, ReplaceFile, RemoveFile, BeginOverwrite, EndOverwrite, calls,
                vars, CallsType
  <2> QED BY <2>1 DEF CallsType
<1> QED BY <1>1, <1>2, Steps
-----------------------------------------------------------------------------
(* Why a call fails.                                                       *)

\* The code an adapter makes up an error in is the one that finds its file unusable,
\* and a remote call never does.
LEMMA CausedStep ==
    ASSUME IInv, NEW c \in Callers, CallAct(c)
    PROVE  Caused(c)'
<1>0. CallsType /\ answer[c] = "none"
  BY CallFrame DEF IInv
<1> USE DEF CallsType, Goto, Return, ReturnHarmed, AnswerWith, calls
<1>1. CASE c \in DuckCalls /\ DuckAct(c)
  <2>1. CASE Lock(c)
    BY <1>0, <1>1, <2>1 DEF Lock, Refused, Caused
  <2>2. CASE DuckFails(c) \/ DuckPanics(c)
    BY <1>0, <2>2 DEF DuckFails, DuckPanics, Caused
  <2>3. CASE SetupDone(c) \/ Evaluate(c)
    BY <1>0, <2>3 DEF SetupDone, Evaluate, Caused
  <2>4. CASE DuckCall(c) \/ DuckThread(c) \/ Select(c) \/ ExecuteNext(c)
    BY <1>0, <2>4 DEF DuckCall, DuckThread, Select, ExecuteNext, Caused
  <2> QED BY <1>1, <2>1, <2>2, <2>3, <2>4 DEF DuckAct, DuckStep
<1>2. CASE c \in ParquetCalls /\ ParquetAct(c)
  <2>1. ASSUME CannotOpen(c), AtOpen(c) \/ pc[c] = "opening" PROVE c \in LocalCalls
    <3>1. SUFFICES ASSUME c \in RemoteCalls PROVE FALSE
      BY <1>2 DEF ParquetCalls
    <3>2. RemoteInv(c) /\ tmp[c] \in {Gone, Partial} /\ c \notin LocalCalls
      BY <2>1, <3>1, Kinds DEF IInv, CannotOpen, AtPath
    <3>3. tmp[c] = seen[c] /\ seen[c] \in Nat
      BY <2>1, <3>2 DEF RemoteInv, AtOpen, Flushed, InPool
    <3> QED BY <3>2, <3>3, SentinelsAssumption
  <2>2. CASE Validate(c) \/ OpenReader(c)
    <3>1. CASE CannotOpen(c)
      <4>1. c \in LocalCalls
        BY <2>1, <2>2, <3>1 DEF Validate, OpenReader
      <4> QED BY <3>1, <4>1 DEF CannotOpen, Caused
    <3>2. CASE ~CannotOpen(c)
      <4>1. answer' = answer
        BY <2>2, <3>2 DEF Validate, OpenReader
      <4> QED BY <1>0, <4>1 DEF Caused
    <3> QED BY <3>1, <3>2
  <2>3. CASE GetFails(c) \/ StoreTempFails(c) \/ WriteFails(c) \/ NotParquet(c) \/ JobFails(c)
    BY <1>0, <2>3 DEF GetFails, StoreTempFails, WriteFails, NotParquet, JobFails, Caused
  <2>4. CASE EndOfFile(c)
    BY <1>0, <2>4 DEF EndOfFile, Caused
  <2>5. CASE Get(c) \/ StoreTemp(c) \/ WriteEnds(c) \/ ParquetThread(c) \/ NextBatch(c)
    BY <1>0, <2>5 DEF Get, StoreTemp, WriteEnds, ParquetThread, NextBatch, Caused
  <2> QED BY <1>2, <2>2, <2>3, <2>4, <2>5
          DEF ParquetAct, LocalAct, RemoteAct, Download, Open, Scan
<1> QED BY <1>1, <1>2 DEF CallAct, ParquetAct, ParquetCalls

LEMMA PoisonStays ==
    ASSUME IInv, [Next]_vars, poisoned
    PROVE  poisoned'
<1>1. CallsType /\ DuckInv
  BY DEF IInv, DuckInv
<1>2. ASSUME NEW c \in DuckCalls, DuckAct(c) PROVE poisoned'
  BY <1>1, <1>2, MutexMoves
<1>3. CASE UNCHANGED duckdb \/ UNCHANGED vars
  BY <1>3 DEF duckdb, vars
<1> QED BY <1>2, <1>3, Steps DEF CallAct, LocalAct, RemoteAct, OthersAct

LEMMA CausedStays ==
    ASSUME IInv, [Next]_vars, NEW d \in Callers
    PROVE  Caused(d)'
<1>0. CallsType /\ Caused(d)
  BY DEF IInv
<1>1. ASSUME NEW c \in Callers, CallAct(c) PROVE Caused(d)'
  <2>1. CASE d = c
    BY <1>1, <2>1, CausedStep
  <2>2. CASE d # c
    BY <1>0, <1>1, <2>2, CallFrame, PoisonStays DEF Caused
  <2> QED BY <2>1, <2>2
<1>2. CASE OthersAct \/ UNCHANGED vars
  <2>1. UNCHANGED <<answer, harmed>>
    BY <1>2 DEF OthersAct, PutObject, ReplaceFile, RemoveFile, BeginOverwrite, EndOverwrite, calls, vars
  <2> QED BY <1>0, <2>1, PoisonStays DEF Caused
<1> QED BY <1>1, <1>2, Steps
-----------------------------------------------------------------------------
LEMMA InitIInv == Init => IInv
<1> SUFFICES ASSUME Init PROVE IInv
  OBVIOUS
<1> USE DEF Init, CallsInit, PoolInit, DuckInit, ParquetInit
<1>1. CallsType
  BY DEF CallsType, DuckLabels
<1>2. PoolType /\ DuckType
  <2>1. PoolType
    BY DEF PoolType
  <2>2. applied \in [Setups -> 0 .. Statements] /\ holder = None /\ poisoned = FALSE
    BY DuckAssumption
  <2> QED BY <2>1, <2>2 DEF DuckType
<1>3. ParquetType
  <2>1. content \in [1 .. MaxVersion -> Contents] /\ content[1] = 1
    BY ParquetAssumption DEF Contents
  <2>2. ~Overwriting
    BY <2>1, SentinelsAssumption DEF Overwriting
  <2> QED BY <2>1, <2>2, ParquetAssumption DEF ParquetType, Contents
<1>4. \A c \in DuckCalls : MutexInv(c)
  BY Kinds, NoneAssumption DEF MutexInv, DuckLabels
<1>5. \A s \in Setups : BatchInv(s)
  BY DEF BatchInv
<1>6. \A r \in Readers : ReaderInv(r)
  BY Kinds DEF ReaderInv, DuckCalls
<1>7. \A c \in LocalCalls : LocalInv(c)
  BY Kinds DEF LocalInv, LocalLabels, ParquetCalls
<1>8. \A c \in RemoteCalls : RemoteInv(c)
  BY Kinds DEF RemoteInv, RemoteLabels, ParquetCalls
<1>9. \A c \in Callers : Caused(c)
  BY DEF Caused
<1> QED BY <1>1, <1>2, <1>3, <1>4, <1>5, <1>6, <1>7, <1>8, <1>9 DEF IInv

LEMMA NextIInv == IInv /\ [Next]_vars => IInv'
<1> SUFFICES ASSUME IInv, [Next]_vars PROVE IInv'
  OBVIOUS
<1>1. CallsType /\ DuckInv /\ ParquetInv
  BY DEF IInv, DuckInv, ParquetInv
<1>2. CallsType' /\ DuckInv' /\ ParquetInv'
  BY <1>1, CallsTypeStep, DuckInvStep, ParquetInvStep
<1>3. \A c \in Callers : Caused(c)'
  BY CausedStays
<1> QED BY <1>2, <1>3 DEF IInv, DuckInv, ParquetInv

THEOREM Invariant == Spec => []IInv
BY InitIInv, NextIInv, PTL DEF Spec

\* DuckDB readers judge whole batches, whoever fails or panics among the setups.
THEOREM WholeBatches == Spec => []NoTornBatch
<1>1. IInv => NoTornBatch
  <2> SUFFICES ASSUME IInv, NEW r \in Readers, NEW s \in Setups, answer[r] = "ok"
               PROVE  seen[r][s] \in {0, Statements} \/ answer[s] = "query"
    BY DEF NoTornBatch
  <2> QED BY DEF IInv, ReaderInv, Whole
<1> QED BY <1>1, Invariant, PTL

\* No adapter invents a failure: a remote call never meets its own temporary file
\* unwritten or gone, and a DuckDB call is refused only by a poisoned mutex.
THEOREM EveryErrHasACause == Spec => []ErrHasACause
<1>1. IInv => ErrHasACause
  BY DEF IInv, ErrHasACause, Caused, DuckCalls
<1> QED BY <1>1, Invariant, PTL
-----------------------------------------------------------------------------
(* The adapters implement the contract.                                    *)

\* What the contract sees of a call: the table it is about, and what it was answered.
Table(c) ==
    CASE c \in Readers -> applied
      [] c \in RemoteCalls -> object
      [] c \in LocalCalls -> AtPath(c)

Verdict(c) ==
    CASE answer[c] = "none" -> None
      [] answer[c] \in {"connection", "query"} -> Failed
      [] answer[c] = "ok" /\ c \in ParquetCalls /\ seen[c] # Spoiled -> Judged(c)
      [] OTHER -> seen[c]

ContractSteps == [Contract!Next]_(Contract!vars)

\* What only changes the tables is a change, or nothing.
LEMMA QuietStep ==
    ASSUME \A d \in Executes : seen'[d] = seen[d] /\ Verdict(d)' = Verdict(d)
    PROVE  ContractSteps
<1>1. /\ [d \in Executes |-> seen[d]]' = [d \in Executes |-> seen[d]]
      /\ [d \in Executes |-> Verdict(d)]' = [d \in Executes |-> Verdict(d)]
  OBVIOUS
<1> QED BY <1>1 DEF ContractSteps, Contract!Next, Contract!vars, Contract!Change, Table, Verdict

LEMMA LookStep ==
    ASSUME NEW c \in Executes, Verdict(c) = None, seen[c] = None, seen'[c] = Table(c),
           \A d \in Executes : d # c => seen'[d] = seen[d],
           \A d \in Executes : Verdict(d)' = Verdict(d) /\ Table(d)' = Table(d)
    PROVE  ContractSteps
<1>1. /\ [d \in Executes |-> Table(d)]' = [d \in Executes |-> Table(d)]
      /\ [d \in Executes |-> Verdict(d)]' = [d \in Executes |-> Verdict(d)]
      /\ [d \in Executes |-> seen[d]]' = [[d \in Executes |-> seen[d]] EXCEPT ![c] = Table(c)]
  OBVIOUS
<1>2. Contract!Look(c)
  BY <1>1 DEF Contract!Look, Table, Verdict
<1> QED BY <1>2 DEF ContractSteps, Contract!Next

LEMMA FailStep ==
    ASSUME NEW c \in Executes, Verdict(c) = None, Verdict(c)' = Failed,
           \A d \in Executes : seen'[d] = seen[d] /\ Table(d)' = Table(d),
           \A d \in Executes : d # c => Verdict(d)' = Verdict(d)
    PROVE  ContractSteps
<1>1. /\ [d \in Executes |-> Table(d)]' = [d \in Executes |-> Table(d)]
      /\ [d \in Executes |-> seen[d]]' = [d \in Executes |-> seen[d]]
      /\ [d \in Executes |-> Verdict(d)]' = [[d \in Executes |-> Verdict(d)] EXCEPT ![c] = Failed]
  OBVIOUS
<1>2. Contract!Fail(c)
  BY <1>1 DEF Contract!Fail, Table, Verdict
<1> QED BY <1>2 DEF ContractSteps, Contract!Next

LEMMA AnswerStep ==
    ASSUME NEW c \in Executes, Verdict(c) = None, seen[c] # None, Verdict(c)' = seen[c],
           \A d \in Executes : seen'[d] = seen[d] /\ Table(d)' = Table(d),
           \A d \in Executes : d # c => Verdict(d)' = Verdict(d)
    PROVE  ContractSteps
<1>1. /\ [d \in Executes |-> Table(d)]' = [d \in Executes |-> Table(d)]
      /\ [d \in Executes |-> seen[d]]' = [d \in Executes |-> seen[d]]
      /\ [d \in Executes |-> Verdict(d)]' = [[d \in Executes |-> Verdict(d)] EXCEPT ![c] = seen[c]]
  OBVIOUS
<1>2. Contract!Answer(c)
  BY <1>1 DEF Contract!Answer, Table, Verdict
<1> QED BY <1>2 DEF ContractSteps, Contract!Next

LEMMA VerdictIs ==
    ASSUME NEW c
    PROVE  /\ answer[c] = "none" => Verdict(c) = None
           /\ answer'[c] = "none" => Verdict(c)' = None
           /\ answer'[c] \in {"connection", "query"} => Verdict(c)' = Failed
           /\ answer'[c] = "ok" =>
                Verdict(c)' = IF c \in ParquetCalls /\ seen'[c] # Spoiled THEN Judged(c)' ELSE seen'[c]
BY DEF Verdict

LEMMA TableIs ==
    ASSUME NEW c
    PROVE  /\ c \in Readers => Table(c) = applied /\ Table(c)' = applied'
           /\ c \in RemoteCalls => Table(c) = object /\ Table(c)' = object'
           /\ c \in LocalCalls => Table(c) = AtPath(c) /\ Table(c)' = AtPath(c)'
BY Kinds DEF Table, DuckCalls

\* The other calls keep what the contract sees of them.
LEMMA VerdictStays ==
    ASSUME NEW d, answer'[d] = answer[d], seen'[d] = seen[d],
           d \in ParquetCalls => read'[d] = read[d]
    PROVE  Verdict(d)' = Verdict(d)
<1>1. d \in ParquetCalls => Judged(d)' = Judged(d)
  BY DEF Judged
<1> QED BY <1>1 DEF Verdict

\* A call that has pulled every row group of one version judges that version.
LEMMA JudgedIs ==
    ASSUME NEW c, read[c] \in Seq(Contents), Len(read[c]) = NumGroups, OneVersion(c)
    PROVE  Judged(c) = seen[c]
<1>1. read[c] = [g \in 1 .. NumGroups |-> seen[c]]
  <2>1. DOMAIN read[c] = 1 .. NumGroups
    OBVIOUS
  <2>2. \A g \in 1 .. NumGroups : read[c][g] = seen[c]
    BY <2>1 DEF OneVersion
  <2> QED BY <2>1, <2>2
<1> QED BY <1>1 DEF Judged

\* A DuckDB step, as the contract sees it.
LEMMA DuckContract ==
    ASSUME IInv, NEW c \in DuckCalls, DuckAct(c)
    PROVE  ContractSteps
<1>0. /\ c \in Callers /\ CallsType /\ CallAct(c) /\ UNCHANGED parquet
      /\ answer[c] = "none" /\ Verdict(c) = None
      /\ \A d \in Callers : d # c => answer'[d] = answer[d] /\ seen'[d] = seen[d]
  BY Kinds, CallFrame, VerdictIs DEF IInv, CallAct, DuckAct
<1>1. \A d \in Executes : d # c => seen'[d] = seen[d] /\ Verdict(d)' = Verdict(d)
  BY <1>0, VerdictStays DEF Executes, parquet
<1>2. applied' = applied => \A d \in Executes : Table(d)' = Table(d)
  <2>1. \A d \in Executes : d \in Readers \/ d \in RemoteCalls \/ d \in LocalCalls
    BY CallersAssumption DEF Executes
  <2>2. object' = object /\ \A d \in LocalCalls : AtPath(d)' = AtPath(d)
    BY <1>0 DEF parquet, source, AtPath
  <2> QED BY <2>1, <2>2, TableIs
<1>3. CASE c \in Setups
  BY <1>1, <1>3, QuietStep DEF Executes
<1>4. CASE c \in Readers
  <2>0. /\ c \in Executes /\ c \notin Setups /\ c \notin ParquetCalls
        /\ ReaderInv(c) /\ Table(c) = applied
    BY <1>0, <1>4, Kinds, TableIs DEF Executes, IInv, ParquetCalls
  <2> USE DEF CallsType, Goto, Return, ReturnHarmed, AnswerWith, calls, duckdb
  <2>1. CASE UNCHANGED seen /\ answer'[c] = "none"
    BY <1>0, <1>1, <2>0, <2>1, VerdictIs, QuietStep
  <2>2. CASE UNCHANGED <<seen, applied>> /\ answer'[c] \in {"connection", "query"}
    BY <1>0, <1>1, <1>2, <2>0, <2>2, VerdictIs, FailStep
  <2>3. CASE Select(c)
    <3>1. seen[c] = None /\ seen'[c] = applied /\ answer'[c] = "none" /\ applied' = applied
      BY <1>0, <2>0, <2>3 DEF Select, ReaderInv
    <3> QED BY <1>0, <1>1, <1>2, <2>0, <3>1, VerdictIs, LookStep
  <2>4. CASE Evaluate(c)
    <3>1. /\ pc[c] = "collected" /\ UNCHANGED <<seen, applied>> /\ answer'[c] = "ok"
      BY <1>0, <2>4 DEF Evaluate
    <3>2. seen[c] # None
      BY <2>0, <3>1, DuckAssumption DEF ReaderInv, Whole
    <3>3. Verdict(c)' = seen[c]
      BY <2>0, <3>1, VerdictIs
    <3> QED BY <1>0, <1>1, <1>2, <2>0, <3>1, <3>2, <3>3, AnswerStep
  <2>5. CASE DuckCall(c) \/ DuckThread(c)
    BY <1>0, <2>1, <2>5 DEF DuckCall, DuckThread
  <2>6. CASE Lock(c)
    BY <1>0, <2>1, <2>2, <2>6 DEF Lock
  <2>7. CASE DuckFails(c) \/ DuckPanics(c)
    BY <1>0, <2>2, <2>7 DEF DuckFails, DuckPanics
  <2> QED BY <2>0, <2>3, <2>4, <2>5, <2>6, <2>7 DEF DuckAct, DuckStep
<1> QED BY <1>3, <1>4 DEF DuckCalls

\* A step of a Parquet call, as the contract sees it.
LEMMA ParquetContract ==
    ASSUME IInv, NEW c \in ParquetCalls, ParquetAct(c)
    PROVE  ContractSteps
<1>0. /\ c \in Callers /\ c \in Executes /\ CallsType /\ CallAct(c) /\ UNCHANGED duckdb
      /\ answer[c] = "none" /\ Verdict(c) = None
      /\ \A d \in Callers : d # c => answer'[d] = answer[d] /\ seen'[d] = seen[d]
      /\ ParquetInv /\ ParquetType
  BY Kinds, CallersAssumption, CallFrame, VerdictIs
     DEF IInv, CallAct, ParquetAct, LocalAct, RemoteAct, Executes, ParquetCalls, ParquetInv
<1>1. \A d \in Executes : d # c => seen'[d] = seen[d] /\ Verdict(d)' = Verdict(d)
  BY <1>0, VerdictStays, ParquetFrame DEF Executes
<1>2. \A d \in Executes : Table(d)' = Table(d)
  <2>1. \A d \in Executes : d \in Readers \/ d \in RemoteCalls \/ d \in LocalCalls
    BY CallersAssumption DEF Executes
  <2>2. UNCHANGED source
    BY <1>0, ParquetFrame
  <2>3. applied' = applied /\ object' = object /\ \A d \in LocalCalls : AtPath(d)' = AtPath(d)
    BY <1>0, <2>2, Kinds DEF duckdb, source, AtPath
  <2> QED BY <2>1, <2>3, TableIs
<1> USE DEF CallsType, Goto, Return, ReturnHarmed, AnswerWith
<1>3. CASE seen' = seen /\ answer'[c] = "none"
  BY <1>0, <1>1, <1>3, VerdictIs, QuietStep
<1>4. CASE seen' = seen /\ answer'[c] \in {"connection", "query"}
  BY <1>0, <1>1, <1>2, <1>4, VerdictIs, FailStep
<1>5. CASE c \in RemoteCalls /\ Get(c)
  <2>1. seen[c] = None /\ seen'[c] = Table(c) /\ answer'[c] = "none"
    BY <1>0, <1>5, TableIs DEF Get, Idle, ParquetInv, RemoteInv
  <2> QED BY <1>0, <1>1, <1>2, <2>1, VerdictIs, LookStep
<1>6. CASE OpenReader(c)
  <2>1. CASE CannotOpen(c)
    BY <1>0, <1>4, <1>6, <2>1 DEF OpenReader, CannotOpen
  <2>2. CASE ~CannotOpen(c) /\ c \in LocalCalls
    <3>1. /\ pc[c] = "opening" /\ AtPath(c) \notin {Gone, Partial} /\ answer' = answer
          /\ seen' = [seen EXCEPT ![c] = content[file]]
      BY <1>6, <2>2 DEF OpenReader
    <3>2. seen[c] = None /\ seen'[c] = Table(c) /\ answer'[c] = "none"
      BY <1>0, <2>2, <3>1, Kinds, TableIs DEF AtPath, ParquetInv, LocalInv
    <3> QED BY <1>0, <1>1, <1>2, <3>2, VerdictIs, LookStep
  <2>3. CASE ~CannotOpen(c) /\ c \notin LocalCalls
    BY <1>0, <1>3, <1>6, <2>3 DEF OpenReader
  <2> QED BY <2>1, <2>2, <2>3
<1>7. CASE EndOfFile(c)
  <2>1. /\ pc[c] = "reading" /\ Len(read[c]) = NumGroups /\ read[c] \in Seq(Contents)
        /\ UNCHANGED <<seen, read>> /\ answer'[c] = "ok"
    BY <1>0, <1>7 DEF EndOfFile, ParquetType
  <2>2. seen[c] # None /\ (seen[c] # Spoiled => OneVersion(c))
    BY <1>0, <2>1, SentinelsAssumption DEF ParquetInv, ParquetCalls, LocalInv, RemoteInv
  <2>3. Judged(c)' = Judged(c)
    BY <2>1 DEF Judged
  <2>4. Verdict(c)' = seen[c]
    BY <2>1, <2>2, <2>3, JudgedIs, VerdictIs
  <2> QED BY <1>0, <1>1, <1>2, <2>1, <2>2, <2>4, AnswerStep
<1>8. CASE Validate(c)
  BY <1>0, <1>3, <1>4, <1>8 DEF Validate, CannotOpen
<1>9. CASE GetFails(c) \/ StoreTempFails(c) \/ WriteFails(c) \/ NotParquet(c) \/ JobFails(c)
  BY <1>0, <1>4, <1>9 DEF GetFails, StoreTempFails, WriteFails, NotParquet, JobFails
<1>10. CASE StoreTemp(c) \/ WriteEnds(c) \/ ParquetThread(c) \/ NextBatch(c)
  BY <1>0, <1>3, <1>10 DEF StoreTemp, WriteEnds, ParquetThread, NextBatch, calls
<1> QED BY <1>5, <1>6, <1>7, <1>8, <1>9, <1>10
        DEF ParquetAct, LocalAct, RemoteAct, Download, Open, Scan

\* The others change tables; an overwrite spoils only calls that are reading the file.
LEMMA OthersContract ==
    ASSUME IInv, OthersAct
    PROVE  ContractSteps
<1>0. UNCHANGED <<answer, read>>
  BY DEF OthersAct, PutObject, ReplaceFile, RemoveFile, BeginOverwrite, EndOverwrite, calls
<1>1. CASE seen' = seen
  BY <1>0, <1>1, VerdictStays, QuietStep
<1>2. CASE BeginOverwrite
  <2>0. /\ seen' = [d \in Callers |-> IF d \in LocalCalls /\ handle[d] = file /\ pc[d] # "done"
                                         THEN Spoiled ELSE seen[d]]
        /\ file # Gone /\ content[file] # Partial /\ file' = file
        /\ content' = [content EXCEPT ![file] = Partial]
    BY <1>2 DEF BeginOverwrite, Overwriting
  <2>1. PICK c \in LocalCalls : TRUE
    BY <1>2 DEF BeginOverwrite, InFlight
  <2>2. c \in Executes /\ Table(c) = content[file] /\ Table(c)' = content'[file]
    BY <2>0, Kinds, TableIs, CallersAssumption DEF Executes, AtPath
  <2>3. content'[file] = Partial
    BY <2>0, ParquetAssumption DEF IInv, ParquetType
  <2>4. [d \in Executes |-> Table(d)]' # [d \in Executes |-> Table(d)]
    BY <2>0, <2>2, <2>3
  <2>5. ASSUME NEW d \in Executes PROVE Verdict(d)' = Verdict(d)
    <3>1. CASE seen'[d] = seen[d]
      BY <1>0, <3>1, VerdictStays
    <3>2. CASE seen'[d] # seen[d]
      <4>1. d \in Callers /\ pc[d] # "done"
        BY <2>0, <3>2 DEF Executes
      <4>2. answer[d] = "none" /\ answer'[d] = "none"
        BY <1>0, <4>1 DEF IInv, CallsType
      <4> QED BY <4>2, VerdictIs
    <3> QED BY <3>1, <3>2
  <2>6. ASSUME NEW d \in Executes, seen'[d] # seen[d] PROVE seen[d] # None /\ seen'[d] = Spoiled
    <3>1. d \in LocalCalls /\ handle[d] = file /\ pc[d] # "done" /\ seen'[d] = Spoiled
      BY <2>0, <2>6 DEF Executes
    <3>2. file # None
      BY <2>0, SentinelsAssumption DEF IInv, ParquetType
    <3>3. LocalInv(d) /\ pc[d] = "reading"
      BY <3>1, <3>2 DEF IInv, LocalInv, LocalLabels
    <3> QED BY <3>1, <3>3, SentinelsAssumption DEF LocalInv
  <2>7. /\ [d \in Executes |-> Verdict(d)]' = [d \in Executes |-> Verdict(d)]
        /\ \A d \in Executes : [e \in Executes |-> seen[e]]'[d] # [e \in Executes |-> seen[e]][d] =>
             [e \in Executes |-> seen[e]][d] # None /\ [e \in Executes |-> seen[e]]'[d] = Spoiled
        /\ DOMAIN [e \in Executes |-> seen[e]]' = Executes
    BY <2>5, <2>6
  <2>8. Contract!Spoil
    BY <2>4, <2>7 DEF Contract!Spoil, Table, Verdict
  <2> QED BY <2>8 DEF ContractSteps, Contract!Next
<1> QED BY <1>1, <1>2 DEF OthersAct, PutObject, ReplaceFile, RemoveFile, EndOverwrite, calls

\* The DuckDB, the Parquet and the S3 Parquet adapter implement the contract of
\* DataAdapter::execute, all at once and on one runtime.
THEOREM KeepsTheContract == Spec => ImplementsContract
<1>1. Init => Contract!Init
  BY DEF Init, CallsInit, Contract!Init, Executes
<1>2. IInv /\ [Next]_vars => ContractSteps
  <2> SUFFICES ASSUME IInv, [Next]_vars PROVE ContractSteps
    OBVIOUS
  <2>1. ASSUME NEW c \in Callers, CallAct(c) PROVE ContractSteps
    BY <2>1, DuckContract, ParquetContract DEF CallAct, ParquetAct, ParquetCalls
  <2>2. CASE UNCHANGED vars
    <3>1. UNCHANGED <<seen, answer, read>>
      BY <2>2 DEF vars, calls, parquet
    <3> QED BY <3>1, VerdictStays, QuietStep
  <2> QED BY <2>1, <2>2, OthersContract, Steps
<1>3. IInv /\ [Next]_vars => [Contract!Next]_(Contract!vars)
  BY <1>2 DEF ContractSteps
<1> QED BY <1>1, <1>3, Invariant, PTL DEF Spec, ImplementsContract, Contract!Spec
=============================================================================
