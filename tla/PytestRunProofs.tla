-------------------------- MODULE PytestRunProofs ---------------------------
(***************************************************************************)
(* Theorems about a pytest session, for every set of probes, every number  *)
(* of assertions, and every order and choice in which pytest runs items.   *)
(***************************************************************************)
EXTENDS PytestRun, TLAPS

\* Everything p.run() of some probe may come to.
Result == UNION {Results(c) : c \in Collectors}

PyTypeOK ==
    /\ selected \subseteq Items
    /\ cached \in [Collectors -> Result \cup {NotRun}]
    /\ outcome \in [Items -> {"pending", "passed", "failed"}]
    /\ executed \in [Collectors -> Seq(Result)]

\* The cache is the history: it is empty until the one execution, and is from then on
\* what that execution came to; what an item has been told is read from there.
CacheInv ==
    /\ \A c \in Collectors :
         \/ cached[c] = NotRun /\ executed[c] = <<>>
         \/ cached[c] \in Results(c) /\ executed[c] = <<cached[c]>>
    /\ \A item \in Items :
         outcome[item] # "pending" =>
            /\ cached[item[1]] # NotRun
            /\ outcome[item] = "passed" <=>
                 cached[item[1]].kind = "ok" /\ cached[item[1]].report[item[2]] = "Pass"

IInv == PyTypeOK /\ CacheInv

-----------------------------------------------------------------------------
\* An item is an assertion of a collector.
LEMMA ItemsArePairs ==
    /\ \A c, i : <<c, i>> \in Items <=> c \in Collectors /\ i \in 1 .. Arity[c]
    /\ \A item \in Items : item = <<item[1], item[2]>> /\ item[1] \in Collectors
BY DEF Items

\* NotRun is no result, and every result has one of three kinds.
LEMMA ResultKinds ==
    ASSUME NEW c \in Collectors, NEW result \in Results(c)
    PROVE  /\ result \in Result
           /\ result # NotRun
           /\ result.kind \in {"ok", "err", "interrupt"}
           /\ result.kind = "ok" => result.report \in [1 .. Arity[c] -> Verdict]
BY DEF Results, Result, NotRun

\* runtest tells an item what the result says of its assertion, and nothing else.
LEMMA Judged ==
    ASSUME NEW item \in Items, PyTypeOK, NEW result \in Results(item[1]), Judge(item, result),
           outcome[item] = "pending"
    PROVE  /\ outcome' \in [Items -> {"pending", "passed", "failed"}]
           /\ \A other \in Items : other # item => outcome'[other] = outcome[other]
           /\ outcome'[item] # "pending" =>
                (outcome'[item] = "passed" <=> result.kind = "ok" /\ result.report[item[2]] = "Pass")
<1>1. result.kind \in {"ok", "err", "interrupt"}
  BY ItemsArePairs, ResultKinds
<1> QED BY <1>1 DEF PyTypeOK, Judge, PassedItem

LEMMA Step ==
    ASSUME IInv, [Next]_vars PROVE IInv'
<1> USE DEF IInv
<1>1. ASSUME NEW item \in Items, RunFirst(item) PROVE IInv'
  <2> DEFINE c == item[1]
  <2>1. c \in Collectors
    BY ItemsArePairs
  <2> HIDE DEF c
  <2>2. PICK result \in Results(c) :
          /\ cached' = [cached EXCEPT ![c] = result]
          /\ executed' = [executed EXCEPT ![c] = Append(@, result)]
          /\ Judge(item, result)
    BY <1>1 DEF RunFirst, Memo, c
  <2>3. cached[c] = NotRun /\ executed[c] = <<>> /\ outcome[item] = "pending"
    BY <1>1, <2>1, ResultKinds DEF RunFirst, Turn, CacheInv, c
  <2>4. result \in Result /\ result # NotRun
    BY <2>1, ResultKinds
  <2>5. executed' = [executed EXCEPT ![c] = <<result>>]
    <3>1. Append(<<>>, result) = <<result>>
      OBVIOUS
    <3> QED BY <2>2, <2>3, <3>1
  <2>6. /\ outcome' \in [Items -> {"pending", "passed", "failed"}]
        /\ \A other \in Items : other # item => outcome'[other] = outcome[other]
        /\ outcome'[item] # "pending" =>
             (outcome'[item] = "passed" <=> result.kind = "ok" /\ result.report[item[2]] = "Pass")
    BY <2>2, <2>3, Judged DEF c
  <2>7. PyTypeOK'
    <3>1. <<result>> \in Seq(Result)
      BY <2>4
    <3> QED BY <1>1, <2>1, <2>2, <2>4, <2>5, <2>6, <3>1 DEF PyTypeOK, RunFirst
  <2>8. ASSUME NEW d \in Collectors
        PROVE  \/ cached'[d] = NotRun /\ executed'[d] = <<>>
               \/ cached'[d] \in Results(d) /\ executed'[d] = <<cached'[d]>>
    <3>1. CASE d = c
      BY <2>1, <2>2, <2>5, <3>1 DEF PyTypeOK
    <3>2. CASE d # c
      <4>1. cached'[d] = cached[d] /\ executed'[d] = executed[d]
        BY <2>2, <2>5, <3>2 DEF PyTypeOK
      <4> QED BY <4>1 DEF CacheInv
    <3> QED BY <3>1, <3>2
  <2>9. ASSUME NEW other \in Items, outcome'[other] # "pending"
        PROVE  /\ cached'[other[1]] # NotRun
               /\ outcome'[other] = "passed" <=>
                    cached'[other[1]].kind = "ok" /\ cached'[other[1]].report[other[2]] = "Pass"
    <3>1. other[1] \in Collectors
      BY ItemsArePairs
    <3>2. CASE other = item
      BY <2>1, <2>2, <2>4, <2>6, <2>9, <3>2 DEF PyTypeOK, c
    <3>3. CASE other # item
      <4>1. outcome'[other] = outcome[other] /\ other[1] # c
        BY <2>3, <2>6, <2>9, <3>3 DEF CacheInv
      <4>2. cached'[other[1]] = cached[other[1]]
        BY <2>2, <3>1, <4>1 DEF PyTypeOK
      <4> QED BY <2>9, <4>1, <4>2 DEF CacheInv
    <3> QED BY <3>2, <3>3
  <2> QED BY <2>7, <2>8, <2>9 DEF CacheInv
<1>2. ASSUME NEW item \in Items, RunCached(item) PROVE IInv'
  <2> DEFINE c == item[1]
  <2>1. c \in Collectors /\ cached[c] \in Results(c) /\ cached[c] # NotRun
    BY <1>2, ItemsArePairs DEF RunCached, CacheInv
  <2>2. /\ outcome' \in [Items -> {"pending", "passed", "failed"}]
        /\ \A other \in Items : other # item => outcome'[other] = outcome[other]
        /\ outcome'[item] # "pending" =>
             (outcome'[item] = "passed" <=>
                cached[c].kind = "ok" /\ cached[c].report[item[2]] = "Pass")
    BY <1>2, <2>1, Judged DEF RunCached, Turn
  <2>3. UNCHANGED <<selected, cached, executed>>
    BY <1>2 DEF RunCached
  <2>4. PyTypeOK'
    BY <2>2, <2>3 DEF PyTypeOK
  <2>5. CacheInv'
    BY <2>1, <2>2, <2>3 DEF CacheInv
  <2> QED BY <2>4, <2>5
<1>3. CASE EndSession
  BY <1>3 DEF EndSession, PyTypeOK, CacheInv
<1>4. CASE UNCHANGED vars
  BY <1>4 DEF vars, PyTypeOK, CacheInv
<1> QED BY <1>1, <1>2, <1>3, <1>4 DEF Next, Terminated

LEMMA Invariant == Spec => []IInv
<1>1. Init => IInv
  BY DEF Init, IInv, PyTypeOK, CacheInv
<1> QED BY <1>1, Step, PTL DEF Spec

-----------------------------------------------------------------------------
LEMMA InvImpliesOneExecution == IInv => OneExecution
<1> SUFFICES ASSUME IInv, NEW c \in Collectors
             PROVE  /\ Len(executed[c]) <= 1
                    /\ executed[c] = <<>> => Ran(c) = {}
                    /\ \A i \in Ran(c) :
                         outcome[<<c, i>>] = "passed" <=>
                            executed[c][1].kind = "ok" /\ executed[c][1].report[i] = "Pass"
  BY DEF OneExecution
<1>1. \A i \in Ran(c) : /\ cached[c] # NotRun
                        /\ outcome[<<c, i>>] = "passed" <=>
                             cached[c].kind = "ok" /\ cached[c].report[i] = "Pass"
  <2> SUFFICES ASSUME NEW i \in Ran(c)
               PROVE  /\ cached[c] # NotRun
                      /\ outcome[<<c, i>>] = "passed" <=>
                           cached[c].kind = "ok" /\ cached[c].report[i] = "Pass"
    OBVIOUS
  <2>1. <<c, i>> \in Items /\ outcome[<<c, i>>] # "pending"
    BY ItemsArePairs DEF Ran
  <2> QED BY <2>1 DEF IInv, CacheInv
<1>2. CASE cached[c] = NotRun /\ executed[c] = <<>>
  BY <1>1, <1>2
<1>3. CASE cached[c] \in Results(c) /\ executed[c] = <<cached[c]>>
  BY <1>1, <1>3
<1> QED BY <1>2, <1>3 DEF IInv, CacheInv

\* Whatever pytest deselects, in whatever order it runs the rest and wherever it
\* stops: a probe is executed at most once, by the first of its items, and every item
\* reports what that one execution found.
THEOREM ExecutedOnce == Spec => []OneExecution
BY Invariant, InvImpliesOneExecution, PTL

\* A report is passed by Reduce when no assertion is anything but passed.
LEMMA PassMeansAllPass ==
    ASSUME NEW n \in Nat, NEW report \in [1 .. n -> Verdict]
    PROVE  Reduce(report) = "Pass" <=> \A i \in 1 .. n : report[i] = "Pass"
BY DEF Reduce, HasVerdict, Verdict

LEMMA InvImpliesGreen == IInv => GreenMeansPass
<1> SUFFICES ASSUME IInv, NEW c \in Collectors, Ran(c) # {}
             PROVE  LET green == \A i \in Ran(c) : outcome[<<c, i>>] = "passed"
                        passes == executed[c][1].kind = "ok" /\ Reduce(executed[c][1].report) = "Pass"
                    IN  /\ passes => green
                        /\ Ran(c) = 1 .. Arity[c] => (green => passes)
  BY DEF GreenMeansPass
<1> DEFINE result == executed[c][1]
<1>1. \A i \in Ran(c) : outcome[<<c, i>>] = "passed" <=> result.kind = "ok" /\ result.report[i] = "Pass"
  BY InvImpliesOneExecution DEF OneExecution
<1>2. result \in Results(c)
  BY InvImpliesOneExecution DEF OneExecution, IInv, CacheInv
<1>3. result.kind = "ok" =>
        (Reduce(result.report) = "Pass" <=> \A i \in 1 .. Arity[c] : result.report[i] = "Pass")
  BY <1>2, ResultKinds, PassMeansAllPass, ArityAssumption
<1>4. Ran(c) \subseteq 1 .. Arity[c]
  BY DEF Ran
<1> HIDE DEF result
<1> QED BY <1>1, <1>3, <1>4 DEF result

\* A probe whose items all ran is green exactly when the command line would pass it,
\* and no item of a passing probe is red, for reports of any length.
THEOREM GreenIsAPass == Spec => []GreenMeansPass
BY Invariant, InvImpliesGreen, PTL
=============================================================================
