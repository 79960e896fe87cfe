--------------------------- MODULE VuPoolProofs -----------------------------
(***************************************************************************)
(* Theorems about the closed-model load pool, for every number of workers, *)
(* every set of durations and every bound of the clock, with and without   *)
(* panicking calls; and about the verdict of a run (ClosedLoadRun).        *)
(***************************************************************************)
EXTENDS ClosedLoadRun, TickListsProofs

\* The state of every variable of run() and of its workers keeps its type,
\* whatever the interleaving of the workers with the spawn and the join loop.
THEOREM TypeCorrect == Spec => []TypeOK
<1>1. Init => TypeOK
  <2>1. 0 \in 0 .. MaxTime /\ 0 \in 0 .. Count /\ <<>> \in Seq(Nat) /\ 0 \in Nat
    BY CountAssumption, TimeAssumption
  <2> QED BY <2>1 DEF Init, TypeOK
<1>2. TypeOK /\ [Next]_vars => TypeOK'
  <2> SUFFICES ASSUME TypeOK, [Next]_vars PROVE TypeOK'
    OBVIOUS
  <2> USE CountAssumption, TimeAssumption DEF timing, caller, loop
  <2>1. CASE ReturnEmpty
    BY <2>1 DEF TypeOK, ReturnEmpty
  <2>2. CASE SpawnNext
    <3>1. spawned' \in 0 .. Count
      BY <2>2 DEF TypeOK, SpawnNext
    <3>2. pc' \in [Workers -> {"unspawned", "check", "claim", "work", "finished", "panicked"}]
      BY <2>2 DEF TypeOK, SpawnNext
    <3> QED BY <2>2, <3>1, <3>2 DEF TypeOK, SpawnNext
  <2>3. CASE JoinNext
    <3>1. joined + 1 \in Workers
      BY <2>3 DEF TypeOK, JoinNext, Workers
    <3>2. samples[joined + 1] \in Seq(Nat) /\ all \in Seq(Nat)
      BY <3>1 DEF TypeOK
    <3>3. Collect(joined + 1) \in Seq(Nat)
      BY <3>2, ConcatTicks DEF Collect
    <3> QED BY <2>3, <3>3 DEF TypeOK, JoinNext
  <2>4. CASE ReturnSorted
    <3>1. Sorted(all) \in Seq(Nat)
      BY SortTicks DEF TypeOK
    <3> QED BY <2>4, <3>1 DEF TypeOK, ReturnSorted
  <2>5. ASSUME NEW w \in Workers, CheckDeadline(w) PROVE TypeOK'
    BY <2>5 DEF TypeOK, CheckDeadline
  <2>6. ASSUME NEW w \in Workers, ClaimTick(w) PROVE TypeOK'
    BY <2>6 DEF TypeOK, ClaimTick, FetchAdd
  <2>7. ASSUME NEW w \in Workers, FinishWork(w) PROVE TypeOK'
    <3>1. Append(samples[w], idx[w]) \in Seq(Nat)
      BY <2>7, AppendTick DEF TypeOK
    <3> QED BY <2>7, <3>1 DEF TypeOK, FinishWork, CallCanEnd
  <2>8. ASSUME NEW w \in Workers, PanicInWork(w) PROVE TypeOK'
    BY <2>8 DEF TypeOK, PanicInWork, CallCanEnd
  <2>9. CASE Advance
    BY <2>9 DEF TypeOK, Advance
  <2>10. CASE UNCHANGED vars
    BY <2>10 DEF TypeOK, vars
  <2> QED BY <2>1, <2>2, <2>3, <2>4, <2>5, <2>6, <2>7, <2>8, <2>9, <2>10
          DEF Next, WorkerStep, Terminated
<1> QED BY <1>1, <1>2, PTL DEF Spec

-----------------------------------------------------------------------------
(***************************************************************************)
(* Where the caller stands with respect to the workers: the spawn loop     *)
(* ends before the join loop starts, and an awaited handle is a worker     *)
(* that will never step again.                                             *)
(***************************************************************************)
CallerInv ==
    /\ \A w \in Workers : pc[w] = "unspawned" <=> w > spawned
    /\ \A w \in Workers : pc[w] = "unspawned" => samples[w] = <<>>
    /\ duration = 0 => spawned = 0 /\ joined = 0 /\ all = <<>>
    /\ joined > 0 => spawned = Count
    /\ \A w \in 1 .. joined : pc[w] \in {"finished", "panicked"}
    /\ returned /\ duration > 0 => joined = Count

LEMMA CallerStep ==
    ASSUME TypeOK, CallerInv, [Next]_vars PROVE CallerInv'
<1> USE CountAssumption, TimeAssumption DEF timing, caller, loop
<1>0. /\ duration \in Nat /\ spawned \in 0 .. Count /\ joined \in 0 .. Count
      /\ pc \in [Workers -> {"unspawned", "check", "claim", "work", "finished", "panicked"}]
      /\ samples \in [Workers -> Seq(Nat)]
  BY DEF TypeOK
<1>1. CASE ReturnEmpty
  BY <1>0, <1>1 DEF CallerInv, ReturnEmpty
<1>2. CASE SpawnNext
  BY <1>0, <1>2 DEF CallerInv, SpawnNext, Workers
<1>3. CASE JoinNext
  <2>1. joined + 1 \in Workers
    BY <1>0, <1>3 DEF JoinNext, Workers
  <2>2. duration # 0
    BY <1>0, <1>3, <2>1 DEF CallerInv, JoinNext, Workers
  <2>3. \A w \in 1 .. joined + 1 : w \in 1 .. joined \/ w = joined + 1
    BY <1>0
  <2> QED BY <1>0, <1>3, <2>1, <2>2, <2>3 DEF CallerInv, JoinNext, Joinable
<1>4. CASE ReturnSorted
  BY <1>0, <1>4 DEF CallerInv, ReturnSorted
<1>5. ASSUME NEW w \in Workers, WorkerStep(w) PROVE CallerInv'
  <2>1. /\ UNCHANGED <<duration, spawned, joined, all, returned>>
        /\ pc[w] \in {"check", "claim", "work"}
        /\ pc'[w] # "unspawned"
        /\ \A v \in Workers : v # w => pc'[v] = pc[v] /\ samples'[v] = samples[v]
    BY <1>0, <1>5 DEF WorkerStep, CheckDeadline, ClaimTick, FinishWork, PanicInWork, CallCanEnd
  <2>2. \A v \in Workers : v # w \/ v = w
    OBVIOUS
  <2>3. w \notin 1 .. joined
    BY <2>1 DEF CallerInv
  <2>4. \A v \in Workers : pc'[v] = "unspawned" <=> pc[v] = "unspawned"
    BY <2>1
  <2>5. \A v \in 1 .. joined : v \in Workers /\ pc'[v] = pc[v]
    BY <1>0, <2>1, <2>3 DEF Workers
  <2> QED BY <2>1, <2>4, <2>5 DEF CallerInv
<1>6. CASE Advance
  BY <1>6 DEF CallerInv, Advance
<1>7. CASE UNCHANGED vars
  BY <1>7 DEF CallerInv, vars
<1> QED BY <1>1, <1>2, <1>3, <1>4, <1>5, <1>6, <1>7 DEF Next, Terminated

-----------------------------------------------------------------------------
(* Claiming ticks: EachTickClaimedOnce is inductive with the above.        *)

\* A worker that neither claims a tick nor records a sample holds what it held.
LEMMA SameHolding ==
    ASSUME NEW w \in Workers, TypeOK, TypeOK', samples'[w] = samples[w], idx'[w] = idx[w],
           pc'[w] \in {"work", "panicked"} <=> pc[w] \in {"work", "panicked"}
    PROVE  Held(w)' = Held(w)
  BY DEF Held

\* Only ClaimTick adds a tick to what is held, and it is the next one; answering
\* a call moves the tick from the call to the chunk.
LEMMA ClaimStep ==
    ASSUME TypeOK, TypeOK', CallerInv, EachTickClaimedOnce, [Next]_vars
    PROVE  EachTickClaimedOnce'
<1> USE CountAssumption DEF timing, caller, loop
<1>0. /\ next_index \in Nat /\ spawned \in 0 .. Count /\ joined \in 0 .. Count
      /\ pc \in [Workers -> {"unspawned", "check", "claim", "work", "finished", "panicked"}]
      /\ samples \in [Workers -> Seq(Nat)] /\ idx \in [Workers -> Nat]
  BY DEF TypeOK
<1>1. ASSUME \A w \in Workers : /\ samples'[w] = samples[w]
                                /\ idx'[w] = idx[w]
                                /\ pc'[w] \in {"work", "panicked"} <=> pc[w] \in {"work", "panicked"},
             next_index' = next_index
      PROVE  EachTickClaimedOnce'
  <2>1. \A w \in Workers : Held(w)' = Held(w)
    BY <1>1, SameHolding
  <2> QED BY <1>1, <2>1 DEF EachTickClaimedOnce
<1>2. CASE SpawnNext
  <2>1. spawned + 1 \in Workers /\ pc[spawned + 1] = "unspawned"
    BY <1>0, <1>2 DEF SpawnNext, Workers, CallerInv
  <2> QED BY <1>0, <1>1, <1>2, <2>1 DEF SpawnNext
<1>3. ASSUME NEW w \in Workers, ClaimTick(w) PROVE EachTickClaimedOnce'
  <2>1. /\ pc[w] = "claim" /\ pc'[w] = "work"
        /\ idx'[w] = next_index /\ next_index' = next_index + 1
        /\ samples' = samples
        /\ \A v \in Workers : v # w => pc'[v] = pc[v] /\ idx'[v] = idx[v]
    BY <1>0, <1>3 DEF ClaimTick, FetchAdd
  <2>2. Held(w)' = Held(w) \cup {next_index}
    BY <2>1 DEF Held
  <2>3. \A v \in Workers : v # w => Held(v)' = Held(v)
    BY <2>1, SameHolding
  <2>4. \A v \in Workers : Held(v) \subseteq 0 .. next_index - 1
    BY DEF EachTickClaimedOnce
  <2>5. UNION {Held(v)' : v \in Workers} = (UNION {Held(v) : v \in Workers}) \cup {next_index}
    BY <2>2, <2>3
  <2>6. (UNION {Held(v) : v \in Workers})' = 0 .. next_index' - 1
    <3>1. 0 .. next_index = (0 .. next_index - 1) \cup {next_index}
      BY <1>0
    <3> QED BY <1>0, <2>1, <2>5, <3>1 DEF EachTickClaimedOnce
  <2>7. \A v, u \in Workers : v # u => Held(v)' \cap Held(u)' = {}
    <3>1. next_index \notin 0 .. next_index - 1
      BY <1>0
    <3> QED BY <2>2, <2>3, <2>4, <3>1 DEF EachTickClaimedOnce
  <2>8. \A i \in DOMAIN samples[w] : samples[w][i] < next_index
    <3> SUFFICES ASSUME NEW i \in DOMAIN samples[w] PROVE samples[w][i] < next_index
      OBVIOUS
    <3>1. samples[w][i] \in Held(w)
      BY DEF Held, Elements
    <3> QED BY <1>0, <2>4, <3>1
  <2>9. \A v \in Workers :
          /\ StrictlyIncreasing(samples'[v])
          /\ pc'[v] \in {"work", "panicked"} => \A i \in DOMAIN samples'[v] : samples'[v][i] < idx'[v]
    BY <2>1, <2>8 DEF EachTickClaimedOnce
  <2> QED BY <2>6, <2>7, <2>9 DEF EachTickClaimedOnce
<1>4. ASSUME NEW w \in Workers, FinishWork(w) PROVE EachTickClaimedOnce'
  <2> DEFINE chunk == samples[w]
  <2>1. /\ pc[w] = "work" /\ pc'[w] = "check"
        /\ idx' = idx /\ next_index' = next_index
        /\ samples'[w] = Append(chunk, idx[w])
        /\ \A v \in Workers : v # w => pc'[v] = pc[v] /\ samples'[v] = samples[v]
    BY <1>0, <1>4 DEF FinishWork, CallCanEnd
  <2>2. chunk \in Seq(Nat) /\ idx[w] \in Nat
    BY <1>0
  <2>3. /\ Elements(samples'[w]) = Elements(chunk) \cup {idx[w]}
        /\ DOMAIN samples'[w] = 1 .. Len(chunk) + 1
        /\ \A i \in 1 .. Len(chunk) : samples'[w][i] = chunk[i]
        /\ samples'[w][Len(chunk) + 1] = idx[w]
    BY <2>1, <2>2, AppendTick
  <2>4. Held(w)' = Held(w)
    BY <2>1, <2>3 DEF Held
  <2>5. \A v \in Workers : Held(v)' = Held(v)
    BY <2>1, <2>4, SameHolding
  <2>6. StrictlyIncreasing(samples'[w])
    <3>1. /\ StrictlyIncreasing(chunk)
          /\ \A i \in 1 .. Len(chunk) : chunk[i] < idx[w]
          /\ Len(chunk) \in Nat /\ DOMAIN chunk = 1 .. Len(chunk)
      BY <2>1, <2>2 DEF EachTickClaimedOnce
    <3> SUFFICES ASSUME NEW i \in 1 .. Len(chunk) + 1, NEW j \in 1 .. Len(chunk) + 1, i < j
                 PROVE  samples'[w][i] < samples'[w][j]
      BY <2>3 DEF StrictlyIncreasing
    <3>2. i \in 1 .. Len(chunk)
      BY <3>1
    <3>3. CASE j \in 1 .. Len(chunk)
      BY <2>3, <3>1, <3>2, <3>3 DEF StrictlyIncreasing
    <3>4. CASE j = Len(chunk) + 1
      BY <2>3, <3>1, <3>2, <3>4
    <3> QED BY <3>1, <3>3, <3>4
  <2>7. \A v \in Workers :
          /\ StrictlyIncreasing(samples'[v])
          /\ pc'[v] \in {"work", "panicked"} => \A i \in DOMAIN samples'[v] : samples'[v][i] < idx'[v]
    BY <2>1, <2>6 DEF EachTickClaimedOnce
  <2> QED BY <2>1, <2>5, <2>7 DEF EachTickClaimedOnce
<1>5. ASSUME NEW w \in Workers, CheckDeadline(w) \/ PanicInWork(w) PROVE EachTickClaimedOnce'
  BY <1>0, <1>1, <1>5 DEF CheckDeadline, PanicInWork, CallCanEnd
<1>6. CASE ReturnEmpty \/ JoinNext \/ ReturnSorted \/ Advance \/ UNCHANGED vars
  BY <1>1, <1>6 DEF ReturnEmpty, JoinNext, ReturnSorted, Advance, vars
<1> QED BY <1>2, <1>3, <1>4, <1>5, <1>6 DEF Next, WorkerStep, Terminated

-----------------------------------------------------------------------------
(* What run() returns, and the deadline.                                   *)

(***************************************************************************)
(* The list being returned holds exactly the chunks of the workers already *)
(* joined, and none of its ticks twice.                                    *)
(***************************************************************************)
Joined == {w \in 1 .. joined : pc[w] = "finished"}

CollectInv ==
    /\ Elements(all) = UNION {Elements(samples[w]) : w \in Joined}
    /\ NoDuplicates(all)
    /\ returned => StrictlyIncreasing(all)

LEMMA CollectStep ==
    ASSUME TypeOK, CallerInv, EachTickClaimedOnce, CollectInv, [Next]_vars
    PROVE  CollectInv'
<1> USE CountAssumption DEF timing, caller, loop
<1>0. /\ joined \in 0 .. Count /\ all \in Seq(Nat)
      /\ pc \in [Workers -> {"unspawned", "check", "claim", "work", "finished", "panicked"}]
      /\ samples \in [Workers -> Seq(Nat)] /\ duration \in Nat
      /\ returned \in BOOLEAN
  BY TimeAssumption DEF TypeOK
<1>1. 1 .. joined \subseteq Workers
  BY <1>0 DEF Workers
<1>2. ASSUME UNCHANGED <<joined, all>>,
             \A w \in 1 .. joined : pc'[w] = pc[w] /\ samples'[w] = samples[w]
      PROVE  /\ Elements(all') = (UNION {Elements(samples[w]) : w \in Joined})'
             /\ NoDuplicates(all')
  <2>1. Joined' = Joined
    BY <1>2 DEF Joined
  <2>2. \A w \in Joined : samples'[w] = samples[w]
    BY <1>2 DEF Joined
  <2> QED BY <1>2, <2>1, <2>2 DEF CollectInv
<1>3. CASE ReturnEmpty
  <2>1. all = <<>> /\ all' = all
    BY <1>3 DEF ReturnEmpty, CallerInv
  <2>2. StrictlyIncreasing(all')
    BY <2>1 DEF StrictlyIncreasing
  <2> QED BY <1>2, <1>3, <2>2 DEF CollectInv, ReturnEmpty
<1>4. CASE SpawnNext
  <2>1. \A w \in 1 .. joined : w # spawned + 1
    <3>1. joined = 0
      BY <1>0, <1>4 DEF CallerInv, SpawnNext, TypeOK
    <3> QED BY <3>1
  <2>2. \A w \in 1 .. joined : pc'[w] = pc[w]
    BY <1>0, <1>1, <1>4, <2>1 DEF SpawnNext
  <2> QED BY <1>2, <1>4, <2>2 DEF CollectInv, SpawnNext
<1>5. CASE JoinNext
  <2> DEFINE w == joined + 1
  <2>1. w \in Workers /\ w \notin 1 .. joined /\ 1 .. joined' = (1 .. joined) \cup {w}
    BY <1>0, <1>5 DEF JoinNext, Workers
  <2>2. pc' = pc /\ samples' = samples /\ all' = Collect(w) /\ Joinable(w)
    BY <1>5 DEF JoinNext
  <2>3. ~returned' 
    BY <1>0, <1>5, <2>1 DEF JoinNext, CallerInv, Workers
  <2>4. CASE pc[w] = "panicked"
    <3>1. Joined' = Joined /\ all' = all
      BY <2>1, <2>2, <2>4 DEF Joined, Collect
    <3> QED BY <2>2, <2>3, <3>1 DEF CollectInv
  <2>5. CASE pc[w] = "finished"
    <3>1. Joined' = Joined \cup {w} /\ all' = all \o samples[w]
      BY <2>1, <2>2, <2>5 DEF Joined, Collect
    <3>2. samples[w] \in Seq(Nat)
      BY <1>0, <2>1
    <3>3. NoDuplicates(samples[w])
      BY <2>1, <3>2, IncreasingIsDuplicateFree DEF EachTickClaimedOnce
    <3>4. Elements(all) \cap Elements(samples[w]) = {}
      <4> SUFFICES ASSUME NEW v \in Joined
                   PROVE  Elements(samples[v]) \cap Elements(samples[w]) = {}
        BY DEF CollectInv
      <4>1. v \in Workers /\ v # w
        BY <1>1, <2>1 DEF Joined
      <4>2. Held(v) \cap Held(w) = {}
        BY <2>1, <4>1 DEF EachTickClaimedOnce
      <4> QED BY <4>2 DEF Held
    <3>5. /\ Elements(all') = Elements(all) \cup Elements(samples[w])
          /\ NoDuplicates(all')
      BY <1>0, <3>1, <3>2, <3>3, <3>4, ConcatTicks DEF CollectInv
    <3>6. (UNION {Elements(samples[v]) : v \in Joined})'
            = (UNION {Elements(samples[v]) : v \in Joined}) \cup Elements(samples[w])
      BY <2>2, <3>1
    <3> QED BY <2>3, <3>5, <3>6 DEF CollectInv
  <2> QED BY <2>2, <2>4, <2>5 DEF Joinable
<1>6. CASE ReturnSorted
  <2>1. /\ all' = Sorted(all)
        /\ pc' = pc /\ samples' = samples /\ joined' = joined
    BY <1>6 DEF ReturnSorted
  <2>2. /\ all' \in Seq(Nat)
        /\ Elements(all') = Elements(all)
        /\ StrictlyIncreasing(all')
    BY <1>0, <2>1, SortTicks DEF CollectInv
  <2>3. NoDuplicates(all')
    BY <2>2, IncreasingIsDuplicateFree
  <2>4. (UNION {Elements(samples[v]) : v \in Joined})' = UNION {Elements(samples[v]) : v \in Joined}
    BY <2>1 DEF Joined
  <2> QED BY <2>2, <2>3, <2>4 DEF CollectInv
<1>7. ASSUME NEW w \in Workers, WorkerStep(w) PROVE CollectInv'
  <2>1. /\ UNCHANGED <<joined, all, returned>>
        /\ pc[w] \in {"check", "claim", "work"}
        /\ \A v \in Workers : v # w => pc'[v] = pc[v] /\ samples'[v] = samples[v]
    BY <1>0, <1>7 DEF WorkerStep, CheckDeadline, ClaimTick, FinishWork, PanicInWork, CallCanEnd
  <2>2. w \notin 1 .. joined
    BY <2>1 DEF CallerInv
  <2>3. \A v \in 1 .. joined : pc'[v] = pc[v] /\ samples'[v] = samples[v]
    BY <1>1, <2>1, <2>2
  <2> QED BY <1>2, <2>1, <2>3 DEF CollectInv
<1>8. CASE Advance
  BY <1>2, <1>8 DEF CollectInv, Advance
<1>9. CASE UNCHANGED vars
  BY <1>2, <1>9 DEF CollectInv, vars
<1> QED BY <1>3, <1>4, <1>5, <1>6, <1>7, <1>8, <1>9 DEF Next, Terminated

(***************************************************************************)
(* A worker that has begun a call at or after the deadline does not get    *)
(* past its next deadline check.                                           *)
(***************************************************************************)
LateInv ==
    \A w \in Workers :
        /\ late[w] <= 1
        /\ late[w] # 0 => now >= duration /\ pc[w] \in {"work", "check", "finished", "panicked"}

LEMMA LateStep ==
    ASSUME TypeOK, LateInv, CallerInv, [Next]_vars PROVE LateInv'
<1> USE DEF timing, caller, loop
<1>0. /\ now \in Nat /\ duration \in Nat /\ late \in [Workers -> Nat]
      /\ pc \in [Workers -> {"unspawned", "check", "claim", "work", "finished", "panicked"}]
  BY TimeAssumption DEF TypeOK
<1>1. CASE SpawnNext
  <2>1. pc[spawned + 1] = "unspawned" /\ spawned + 1 \in Workers
    BY <1>1, CountAssumption DEF SpawnNext, CallerInv, TypeOK, Workers
  <2> QED BY <1>0, <1>1, <2>1 DEF SpawnNext, LateInv
<1>2. ASSUME NEW w \in Workers, CheckDeadline(w) PROVE LateInv'
  BY <1>0, <1>2 DEF CheckDeadline, Stops, PastDeadline, LateInv
<1>3. ASSUME NEW w \in Workers, ClaimTick(w) PROVE LateInv'
  BY <1>0, <1>3 DEF ClaimTick, PastDeadline, LateInv
<1>4. ASSUME NEW w \in Workers, FinishWork(w) \/ PanicInWork(w) PROVE LateInv'
  BY <1>0, <1>4 DEF FinishWork, PanicInWork, CallCanEnd, LateInv
<1>5. CASE Advance
  BY <1>0, <1>5 DEF Advance, LateInv
<1>6. CASE ReturnEmpty \/ JoinNext \/ ReturnSorted \/ UNCHANGED vars
  BY <1>6 DEF ReturnEmpty, JoinNext, ReturnSorted, vars, LateInv
<1> QED BY <1>1, <1>2, <1>3, <1>4, <1>5, <1>6 DEF Next, WorkerStep, Terminated

-----------------------------------------------------------------------------
(* The theorems.                                                           *)

IInv ==
    /\ CallerInv
    /\ EachTickClaimedOnce
    /\ CollectInv
    /\ LateInv

LEMMA Inductive == Spec => [](TypeOK /\ IInv)
<1>1. Init => IInv
  <2> SUFFICES ASSUME Init PROVE IInv
    OBVIOUS
  <2>1. CallerInv
    BY CountAssumption DEF Init, CallerInv, Workers
  <2>2. \A w \in Workers : samples[w] = <<>> /\ pc[w] = "unspawned" /\ late[w] = 0
    BY DEF Init
  <2>3. \A w \in Workers : Held(w) = {}
    BY <2>2 DEF Held, Elements
  <2>4. EachTickClaimedOnce
    <3>1. 0 .. next_index - 1 = {}
      BY DEF Init
    <3>2. \A w \in Workers : StrictlyIncreasing(samples[w]) 
      BY <2>2 DEF StrictlyIncreasing
    <3> QED BY <2>2, <2>3, <3>1, <3>2 DEF EachTickClaimedOnce
  <2>5. CollectInv
    <3>1. all = <<>> /\ Joined = {}
      BY DEF Init, Joined
    <3> QED BY <3>1 DEF CollectInv, NoDuplicates, StrictlyIncreasing, Elements
  <2>6. LateInv
    BY <2>2 DEF LateInv
  <2> QED BY <2>1, <2>4, <2>5, <2>6 DEF IInv
<1>2. TypeOK /\ TypeOK' /\ IInv /\ [Next]_vars => IInv'
  BY CallerStep, ClaimStep, CollectStep, LateStep DEF IInv
<1> QED BY <1>1, <1>2, TypeCorrect, PTL DEF Spec

\* No two samples of a run ever carry the same tick index and no index is skipped
\* before it is claimed, for any number of virtual users.
THEOREM UniqueTicks == Spec => []EachTickClaimedOnce
<1>1. IInv => EachTickClaimedOnce
  BY DEF IInv
<1> QED BY <1>1, Inductive, PTL

\* What VuPool::run returns is sorted, free of duplicates, and holds every sample
\* of every worker that did not panic.
THEOREM ReturnComplete == Spec => []ReturnsEverySurvivingSample
<1>1. TypeOK /\ IInv => ReturnsEverySurvivingSample
  <2> SUFFICES ASSUME TypeOK, IInv, returned PROVE
                 /\ StrictlyIncreasing(all)
                 /\ Elements(all) = UNION {Elements(samples[w]) : w \in Survivors}
                 /\ duration > 0 => \A w \in Workers : pc[w] \in {"finished", "panicked"}
                 /\ Survivors = Workers => Elements(all) = 0 .. next_index - 1
    BY DEF ReturnsEverySurvivingSample
  <2>1. StrictlyIncreasing(all)
    BY DEF IInv, CollectInv
  <2>2. duration > 0 => \A w \in Workers : pc[w] \in {"finished", "panicked"}
    BY CountAssumption DEF IInv, CallerInv, TypeOK, Workers
  <2>3. Elements(all) = UNION {Elements(samples[w]) : w \in Survivors}
    <3>1. CASE duration > 0
      <4>1. Joined = Survivors
        BY <2>2, <3>1 DEF IInv, CallerInv, Joined, Survivors, Workers
      <4> QED BY <4>1 DEF IInv, CollectInv
    <3>2. CASE duration = 0
      <4>1. \A w \in Workers : samples[w] = <<>>
        BY <3>2, CountAssumption DEF IInv, CallerInv, Workers
      <4>2. all = <<>>
        BY <3>2 DEF IInv, CallerInv
      <4> QED BY <4>1, <4>2 DEF Elements, Survivors
    <3> QED BY <3>1, <3>2, TimeAssumption DEF TypeOK
  <2>4. ASSUME Survivors = Workers PROVE Elements(all) = 0 .. next_index - 1
    <3>1. \A w \in Workers : pc[w] \notin {"work", "panicked"}
      <4>1. \A w \in Workers : pc[w] # "panicked"
        BY <2>4 DEF Survivors
      <4>2. CASE duration > 0
        BY <2>2, <4>1, <4>2
      <4>3. CASE duration = 0
        BY <4>3, CountAssumption DEF IInv, CallerInv, Workers
      <4> QED BY <4>2, <4>3, TimeAssumption DEF TypeOK
    <3>2. \A w \in Workers : Held(w) = Elements(samples[w])
      BY <3>1 DEF Held
    <3> QED BY <2>3, <2>4, <3>2 DEF IInv, EachTickClaimedOnce
  <2> QED BY <2>1, <2>2, <2>3, <2>4
<1> QED BY <1>1, Inductive, TypeCorrect, PTL

\* After the deadline a worker begins at most one more call.
THEOREM LateCalls == Spec => []AtMostOneLateCall
<1>1. IInv => AtMostOneLateCall
  BY DEF IInv, LateInv, AtMostOneLateCall
<1> QED BY <1>1, Inductive, PTL

-----------------------------------------------------------------------------
(* Refinement of SampleCollection.                                         *)

Open == {idx[w] : w \in {v \in Workers : pc[v] = "work"}}
Kept == UNION {Elements(samples[w]) : w \in Survivors}

\* Every step of the pool is a step of the collection it implements, or changes
\* nothing the collection sees.
LEMMA CollectionStep ==
    ASSUME TypeOK, IInv, ReturnsEverySurvivingSample, ReturnsEverySurvivingSample', [Next]_vars
    PROVE  [Collection!Next]_(Collection!vars)
<1> USE CountAssumption DEF timing, caller, loop
<1>0. /\ joined \in 0 .. Count /\ spawned \in 0 .. Count /\ duration \in Nat /\ next_index \in Nat
      /\ pc \in [Workers -> {"unspawned", "check", "claim", "work", "finished", "panicked"}]
      /\ samples \in [Workers -> Seq(Nat)] /\ idx \in [Workers -> Nat]
      /\ returned \in BOOLEAN /\ all \in Seq(Nat)
  BY TimeAssumption DEF TypeOK
<1>1. ASSUME UNCHANGED <<next_index, Open, Kept, returned>>, all' = all \/ ~returned'
      PROVE  UNCHANGED Collection!vars
  BY <1>0, <1>1 DEF Collection!vars, Open, Kept
<1>2. ASSUME UNCHANGED <<next_index, pc, idx, samples>>
      PROVE  UNCHANGED <<next_index, Open, Kept>>
  BY <1>2 DEF Open, Kept, Survivors
<1>3. CASE ReturnEmpty \/ ReturnSorted
  <2>1. /\ ~returned /\ returned' 
        /\ UNCHANGED <<next_index, pc, idx, samples, duration>>
    BY <1>3 DEF ReturnEmpty, ReturnSorted
  <2>2. \A w \in Workers : pc[w] # "work"
    <3>1. CASE duration > 0
      BY <2>1, <3>1 DEF ReturnsEverySurvivingSample
    <3>2. CASE duration = 0
      BY <1>0, <3>2 DEF IInv, CallerInv, Workers
    <3> QED BY <1>0, <3>1, <3>2
  <2>3. Open = {}
    BY <2>2 DEF Open
  <2>4. StrictlyIncreasing(all') /\ Elements(all') = Kept
    BY <2>1 DEF ReturnsEverySurvivingSample, Kept, Survivors
  <2>5. UNCHANGED <<next_index, Open, Kept>>
    BY <1>2, <2>1
  <2>6. Collection!ReturnOk
    BY <2>1, <2>3, <2>4, <2>5 DEF Collection!ReturnOk, Open, Kept,
       Collection!StrictlyIncreasing, StrictlyIncreasing, Collection!Elements, Elements
  <2> QED BY <2>6 DEF Collection!Next
<1>4. CASE SpawnNext
  <2>1. pc[spawned + 1] = "unspawned" /\ spawned + 1 \in Workers
    BY <1>0, <1>4 DEF SpawnNext, IInv, CallerInv, Workers
  <2>2. /\ UNCHANGED <<next_index, idx, samples, returned, all>>
        /\ pc' = [pc EXCEPT ![spawned + 1] = "check"]
    BY <1>4 DEF SpawnNext
  <2>3. UNCHANGED <<Open, Kept>>
    BY <1>0, <2>1, <2>2 DEF Open, Kept, Survivors
  <2> QED BY <1>1, <2>2, <2>3
<1>5. CASE JoinNext
  <2>1. ~returned /\ ~returned'
    BY <1>0, <1>5 DEF JoinNext, IInv, CallerInv, Workers
  <2>2. UNCHANGED <<next_index, pc, idx, samples, returned>>
    BY <1>5 DEF JoinNext
  <2> QED BY <1>1, <1>2, <2>1, <2>2
<1>6. ASSUME NEW w \in Workers, WorkerStep(w) PROVE [Collection!Next]_(Collection!vars)
  <2>1. /\ UNCHANGED <<returned, all>>
        /\ pc[w] \in {"check", "claim", "work"}
    BY <1>0, <1>6 DEF WorkerStep, CheckDeadline, ClaimTick, FinishWork, PanicInWork, CallCanEnd
  <2>2. ~returned
    <3>1. CASE duration > 0
      BY <2>1, <3>1 DEF ReturnsEverySurvivingSample
    <3>2. CASE duration = 0
      BY <1>0, <2>1, <3>2 DEF IInv, CallerInv, Workers
    <3> QED BY <1>0, <3>1, <3>2
  <2>3. CASE CheckDeadline(w)
    <3>1. /\ UNCHANGED <<next_index, idx, samples>>
          /\ pc[w] = "check" /\ pc'[w] \notin {"work", "panicked"}
          /\ \A v \in Workers : v # w => pc'[v] = pc[v]
      BY <1>0, <2>3 DEF CheckDeadline
    <3>2. UNCHANGED <<Open, Kept>>
      BY <3>1 DEF Open, Kept, Survivors
    <3> QED BY <1>1, <2>1, <3>1, <3>2
  <2>4. CASE ClaimTick(w)
    <3>1. /\ next_index' = next_index + 1 /\ samples' = samples
          /\ pc[w] = "claim" /\ pc'[w] = "work" /\ idx'[w] = next_index
          /\ \A v \in Workers : v # w => pc'[v] = pc[v] /\ idx'[v] = idx[v]
      BY <1>0, <2>4 DEF ClaimTick, FetchAdd
    <3>2. Open' = Open \cup {next_index}
      BY <3>1 DEF Open
    <3>3. Kept' = Kept
      BY <3>1 DEF Kept, Survivors
    <3>4. Collection!Issue
      BY <2>1, <2>2, <3>1, <3>2, <3>3 DEF Collection!Issue, Open, Kept
    <3> QED BY <3>4 DEF Collection!Next
  <2>5. CASE FinishWork(w) \/ PanicInWork(w)
    <3>1. /\ next_index' = next_index /\ idx' = idx /\ pc[w] = "work" /\ pc'[w] # "work"
          /\ \A v \in Workers : v # w => pc'[v] = pc[v] /\ samples'[v] = samples[v]
      BY <1>0, <2>5 DEF FinishWork, PanicInWork, CallCanEnd
    <3>2. \A v \in Workers : v # w => Held(v) \cap Held(w) = {}
      BY DEF IInv, EachTickClaimedOnce
    <3>3. idx[w] \in Open
      BY <3>1 DEF Open
    <3>4. Open' = Open \ {idx[w]}
      <4>1. \A v \in Workers : v # w /\ pc[v] = "work" => idx[v] # idx[w]
        BY <3>1, <3>2 DEF Held
      <4> QED BY <3>1, <4>1 DEF Open
    <3>5. CASE FinishWork(w)
      <4>1. samples'[w] = Append(samples[w], idx[w]) /\ pc'[w] = "check"
        BY <1>0, <3>5 DEF FinishWork
      <4>2. Elements(samples'[w]) = Elements(samples[w]) \cup {idx[w]}
        BY <1>0, <4>1, AppendTick
      <4>3. Survivors' = Survivors /\ w \in Survivors
        BY <3>1, <4>1 DEF Survivors
      <4>4. Kept' = Kept \cup {idx[w]}
        BY <3>1, <4>2, <4>3 DEF Kept, Survivors
      <4>5. \E t \in Open : Collection!Settle(t)
        BY <2>1, <3>1, <3>3, <3>4, <4>4 DEF Collection!Settle, Open, Kept
      <4> QED BY <4>5 DEF Collection!Next, Open
    <3>6. CASE PanicInWork(w)
      <4> DEFINE S == Held(w)
      <4>1. samples' = samples /\ pc'[w] = "panicked"
        BY <1>0, <3>6 DEF PanicInWork
      <4>2. Survivors' = Survivors \ {w} /\ w \in Survivors
        BY <3>1, <4>1 DEF Survivors
      <4>3. S = Elements(samples[w]) \cup {idx[w]}
        BY <3>1 DEF Held
      <4>4. \A v \in Survivors : v # w => Elements(samples[v]) \cap S = {}
        BY <3>2 DEF Survivors, Held
      <4>5. Kept' = Kept \ S
        <5>1. Kept' = UNION {Elements(samples[v]) : v \in Survivors \ {w}}
          BY <4>1, <4>2 DEF Kept
        <5>2. Kept = Elements(samples[w]) \cup UNION {Elements(samples[v]) : v \in Survivors \ {w}}
          BY <4>2 DEF Kept
        <5>3. (UNION {Elements(samples[v]) : v \in Survivors \ {w}}) \cap S = {}
          BY <4>4
        <5>4. Elements(samples[w]) \subseteq S
          BY <4>3
        <5> QED BY <5>1, <5>2, <5>3, <5>4
      <4>6. Open' = Open \ S
        <5>1. \A v \in Workers : v # w /\ pc[v] = "work" => idx[v] \notin S
          BY <3>2 DEF Held
        <5> QED BY <3>1, <3>4, <4>3, <5>1 DEF Open
      <4>7. S \subseteq Open \cup Kept /\ S \cap Open # {}
        BY <3>3, <4>2, <4>3 DEF Kept
      <4>8. \E T \in SUBSET (Open \cup Kept) : Collection!Lose(T)
        <5> HIDE DEF S
        <5>1. S \in SUBSET (Open \cup Kept)
          BY <4>7
        <5> QED BY <5>1, <2>1, <3>1, <4>5, <4>6, <4>7 DEF Collection!Lose, Open, Kept
      <4> QED BY <4>8 DEF Collection!Next, Open, Kept
    <3> QED BY <2>5, <3>5, <3>6
  <2> QED BY <1>6, <2>3, <2>4, <2>5 DEF WorkerStep
<1>7. CASE Advance
  BY <1>1, <1>2, <1>7 DEF Advance
<1>8. CASE UNCHANGED vars
  BY <1>1, <1>2, <1>8 DEF vars
<1> QED BY <1>3, <1>4, <1>5, <1>6, <1>7, <1>8 DEF Next, Terminated

\* VuPool::run keeps the promise of a load adapter: each tick handed out once, one
\* sample per answered call, a sorted and complete list, losses only by a panic.
THEOREM Implements == Spec => ImplementsCollection
<1>1. Init => Collection!Init
  <2> SUFFICES ASSUME Init PROVE Collection!Init
    OBVIOUS
  <2>1. \A w \in Workers : samples[w] = <<>> /\ pc[w] = "unspawned"
    BY DEF Init
  <2>2. Open = {} /\ Kept = {}
    <3>1. {w \in Workers : pc[w] = "work"} = {}
      BY <2>1
    <3>2. \A w \in Workers : Elements(samples[w]) = {}
      BY <2>1 DEF Elements
    <3>3. Open = {}
      BY <3>1 DEF Open
    <3>4. Kept = {}
      BY <3>2 DEF Kept, Survivors
    <3> QED BY <3>3, <3>4
  <2> QED BY <2>2 DEF Init, Collection!Init, Open, Kept
<1>2. TypeOK /\ IInv /\ ReturnsEverySurvivingSample /\ ReturnsEverySurvivingSample' /\ [Next]_vars
        => [Collection!Next]_(Collection!vars)
  BY CollectionStep
<1> QED BY <1>1, <1>2, TypeCorrect, Inductive, ReturnComplete, PTL
        DEF Spec, ImplementsCollection, Collection!Spec

-----------------------------------------------------------------------------
(***************************************************************************)
(* The verdict of a virtual-users run.  A step of a run is a step of its   *)
(* pool or none, so that what is proved of the pool holds of the run; and  *)
(* nothing the verdict speaks of can change once run() has returned: every *)
(* worker has stopped, and the list of samples is whole and sorted.        *)
(***************************************************************************)
LEMMA RunRefinesPool == RunSpec => Spec
<1>1. RunInit => Init
  BY DEF RunInit
<1>2. [RunNext]_allVars => [Next]_vars
  BY DEF RunNext, AnswerCall, PoolStep, Evaluate, Ended, allVars, run, Next, WorkerStep
<1> QED BY <1>1, <1>2, PTL DEF RunSpec, Spec

\* Filtering by tick index does not change what a sample says, so that the status
\* verdict is about the samples themselves.
LEMMA StatusVerdict ==
    ASSUME NEW S, NEW s \in Seq(S), NEW K \in SUBSET DOMAIN s,
           NEW a, a.allowed = {200}
    PROVE  (Eval!StatusCodeIn(a, Eval!Picked(s, K)) = "Pass")
             <=> (K # {} /\ \A i \in K : s[i].status_code = 200)
<1> DEFINE t == Picked(s, K)
<1>1. Eval!Picked(s, K) = t
  BY Zenon DEF Eval!Picked, Picked, Eval!Cardinality, Cardinality
<1>2. /\ t \in Seq(S) /\ Len(t) = Cardinality(K)
      /\ Elements(t) = {s[i] : i \in K} /\ IsFiniteSet(K)
  BY PickedTicks
<1> HIDE DEF t
<1>3. t = <<>> <=> K = {}
  <2>1. Len(t) = 0 <=> K = {}
    BY <1>2, FS_EmptySet
  <2> QED BY <1>2, <2>1
<1>4. (\A i \in DOMAIN t : t[i].status_code \in {200}) <=> \A i \in K : s[i].status_code = 200
  <2>1. (\A i \in DOMAIN t : t[i].status_code \in {200}) <=> \A x \in Elements(t) : x.status_code = 200
    BY DEF Elements
  <2> QED BY <1>2, <2>1
<1>5. Eval!StatusCodeIn(a, t) =
        IF t = <<>> THEN "Error"
        ELSE IF \A i \in DOMAIN t : t[i].status_code \in {200} THEN "Pass" ELSE "Fail"
  <2>1. {200} # {}
    OBVIOUS
  <2> QED BY <2>1 DEF Eval!StatusCodeIn, Eval!PassIf
<1> QED BY <1>1, <1>3, <1>4, <1>5

\* Without a fixed rate no sample is taken for a warmup sample.
LEMMA PoolStatus ==
    ASSUME NEW S, NEW c \in Seq(S), DOMAIN c = DOMAIN all, all \in Seq(Nat),
           \A k \in DOMAIN all : c[k].tick_index = all[k] /\ c[k].status_code = answers[all[k]]
    PROVE  Eval!EvaluateEach(Plan, c)[Status] = "Pass"
             <=> /\ ~(warmup >= duration)
                 /\ Elements(all) # {}
                 /\ \A t \in Elements(all) : answers[t] = 200
<1> DEFINE K == {i \in DOMAIN c : c[i].tick_index >= Eval!WarmupTicks(Plan)}
           a == Plan.assertions[Status]
<1>1. K = DOMAIN all
  <2>1. Eval!WarmupTicks(Plan) = 0
    BY DEF Eval!WarmupTicks, Plan
  <2>2. \A k \in DOMAIN all : c[k].tick_index >= Eval!WarmupTicks(Plan)
    BY <2>1
  <2> QED BY <2>2
<1>2. Eval!Measured(Plan, c) = Eval!Picked(c, K)
  BY DEF Eval!Measured, Eval!Select
<1>3. a.kind = "StatusCodeIn" /\ a.allowed = {200} /\ Status \in DOMAIN Plan.assertions
  BY DEF Plan, Status
<1>4. Plan.warmup = warmup /\ Plan.duration = duration
  BY DEF Plan
<1> HIDE DEF K, a
<1>5. Eval!EvaluateEach(Plan, c)[Status] =
        IF warmup >= duration THEN "Error"
        ELSE Eval!EvalOne(a, duration - warmup, Eval!Picked(c, K))
  BY <1>2, <1>3, <1>4 DEF Eval!EvaluateEach, a
<1>6. Eval!EvalOne(a, duration - warmup, Eval!Picked(c, K)) = Eval!StatusCodeIn(a, Eval!Picked(c, K))
  BY <1>3 DEF Eval!EvalOne
<1>7. Eval!StatusCodeIn(a, Eval!Picked(c, K)) = "Pass"
        <=> K # {} /\ \A i \in K : c[i].status_code = 200
  <2>1. K \in SUBSET DOMAIN c
    BY <1>1
  <2> QED BY <1>3, <2>1, StatusVerdict
<1>8. K # {} /\ (\A i \in K : c[i].status_code = 200)
        <=> Elements(all) # {} /\ \A t \in Elements(all) : answers[t] = 200
  BY <1>1 DEF Elements
<1> QED BY <1>5, <1>6, <1>7, <1>8

JudgedInv ==
    /\ warmup \in Warmups
    /\ Judged => returned
    /\ VerdictSpeaksForTheSurvivors

LEMMA JudgedStep ==
    ASSUME TypeOK, IInv, ReturnsEverySurvivingSample, JudgedInv, [RunNext]_allVars
    PROVE  JudgedInv'
<1>0. /\ duration \in Nat /\ warmup \in Nat /\ all \in Seq(Nat)
      /\ spawned \in 0 .. Count /\ joined \in 0 .. Count
  BY TimeAssumption, WarmupsAssumption DEF TypeOK, JudgedInv
<1>1. ASSUME UNCHANGED <<duration, pc, samples, run>>, returned => returned'
      PROVE  JudgedInv'
  <2>1. SurvivingTicks' = SurvivingTicks
    BY <1>1 DEF SurvivingTicks, Survivors
  <2> QED BY <1>1, <2>1 DEF JudgedInv, VerdictSpeaksForTheSurvivors, Judged, Passed, run
<1>2. ASSUME NEW w \in Workers, pc[w] \in {"check", "claim", "work"} PROVE ~returned
  <2>1. CASE duration > 0
    BY <1>2, <2>1 DEF ReturnsEverySurvivingSample
  <2>2. CASE duration = 0
    BY <1>0, <1>2, <2>2, CountAssumption DEF IInv, CallerInv, Workers
  <2> QED BY <1>0, <2>1, <2>2
<1>3. ASSUME ~Judged, UNCHANGED <<warmup, summary>> PROVE JudgedInv'
  BY <1>3 DEF JudgedInv, VerdictSpeaksForTheSurvivors, Judged
<1>4. ASSUME NEW w \in Workers, AnswerCall(w) PROVE JudgedInv'
  <2>1. pc[w] = "work" /\ UNCHANGED <<warmup, summary>>
    BY <1>4 DEF AnswerCall, FinishWork, CallCanEnd
  <2>2. ~Judged
    BY <1>2, <2>1 DEF JudgedInv
  <2> QED BY <1>3, <2>1, <2>2
<1>5. CASE PoolStep
  <2>1. ASSUME NEW w \in Workers, CheckDeadline(w) \/ ClaimTick(w) \/ PanicInWork(w) PROVE JudgedInv'
    <3>1. pc[w] \in {"check", "claim", "work"}
      BY <2>1 DEF CheckDeadline, ClaimTick, PanicInWork, CallCanEnd
    <3>2. ~Judged
      BY <1>2, <3>1 DEF JudgedInv
    <3>3. UNCHANGED <<warmup, summary>>
      BY <1>5 DEF PoolStep, run
    <3> QED BY <1>3, <3>2, <3>3
  <2>2. CASE SpawnNext
    <3>1. ~returned
      BY <1>0, <2>2, CountAssumption DEF SpawnNext, IInv, CallerInv
    <3> QED BY <1>3, <1>5, <3>1 DEF JudgedInv, PoolStep, run
  <2>3. CASE ReturnEmpty \/ JoinNext \/ ReturnSorted \/ Advance
    <3>1. UNCHANGED <<duration, pc, samples>> /\ (returned => returned')
      BY <2>3 DEF ReturnEmpty, JoinNext, ReturnSorted, Advance, timing, caller, loop
    <3>2. UNCHANGED run
      BY <1>5 DEF PoolStep
    <3> QED BY <1>1, <3>1, <3>2
  <2> QED BY <1>5, <2>1, <2>2, <2>3 DEF PoolStep
<1>6. CASE Evaluate
  <2> DEFINE c == [k \in DOMAIN all |-> Content(all[k])]
  <2>1. /\ returned /\ UNCHANGED <<vars, warmup, answers>>
        /\ summary'.assertions = Eval!EvaluateEach(Plan, c)
    BY <1>6 DEF Evaluate, Eval!EvaluateLoad
  <2>2. Elements(all) = SurvivingTicks
    BY <2>1 DEF ReturnsEverySurvivingSample, SurvivingTicks
  <2>3. \A k \in DOMAIN all : c[k].tick_index = all[k] /\ c[k].status_code = answers[all[k]]
    BY DEF Content
  <2>4. \E S : c \in Seq(S) /\ DOMAIN c = DOMAIN all
    <3> DEFINE S == {Content(t) : t \in Nat}
    <3>1. DOMAIN all = 1 .. Len(all) /\ Len(all) \in Nat
      BY <1>0
    <3>2. \A k \in DOMAIN all : Content(all[k]) \in S
      BY <1>0
    <3> HIDE DEF S
    <3>3. c \in [1 .. Len(all) -> S]
      BY <3>1, <3>2
    <3> QED BY <3>1, <3>3, SeqDef
  <2> HIDE DEF c
  <2>5. Eval!EvaluateEach(Plan, c)[Status] = "Pass"
          <=> /\ warmup < duration
              /\ SurvivingTicks # {}
              /\ \A t \in SurvivingTicks : answers[t] = 200
    <3>1. ~(warmup >= duration) <=> warmup < duration
      BY <1>0
    <3> QED BY <1>0, <2>2, <2>3, <2>4, <3>1, PoolStatus
  <2>6. UNCHANGED <<SurvivingTicks, duration, warmup, answers, returned>>
    BY <2>1 DEF SurvivingTicks, Survivors, vars, timing, caller, loop
  <2>7. Judged' => (Passed(Status)' <=> Eval!EvaluateEach(Plan, c)[Status] = "Pass")
    BY <2>1 DEF Passed, Status
  <2>8. VerdictSpeaksForTheSurvivors'
    BY <2>5, <2>6, <2>7 DEF VerdictSpeaksForTheSurvivors
  <2> QED BY <2>1, <2>6, <2>8 DEF JudgedInv
<1>7. CASE UNCHANGED allVars
  BY <1>1, <1>7 DEF allVars, vars, timing, caller, loop
<1> QED BY <1>4, <1>5, <1>6, <1>7 DEF RunNext, Ended

\* A virtual-users run passes its status assertion exactly when the warmup leaves
\* time to measure, some call of a worker that did not panic was answered, and every
\* such call was answered with an allowed status: whatever the interleaving of the
\* workers, the deadline and the joins, no answer is lost to the verdict.
THEOREM VerdictIsAboutTheSurvivors == RunSpec => []VerdictSpeaksForTheSurvivors
<1>1. RunInit => JudgedInv
  BY DEF RunInit, JudgedInv, VerdictSpeaksForTheSurvivors, Judged
<1>2. TypeOK /\ IInv /\ ReturnsEverySurvivingSample /\ JudgedInv /\ [RunNext]_allVars => JudgedInv'
  BY JudgedStep
<1>3. JudgedInv => VerdictSpeaksForTheSurvivors
  BY DEF JudgedInv
<1> QED BY <1>1, <1>2, <1>3, RunRefinesPool, Inductive, ReturnComplete, PTL DEF RunSpec
=============================================================================
