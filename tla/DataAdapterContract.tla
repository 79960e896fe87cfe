------------------------ MODULE DataAdapterContract -------------------------
(***************************************************************************)
(* What DataAdapter::execute promises to each of its callers: an Ok is     *)
(* about one version of the table, the one that was current at one moment  *)
(* between the call and its answer, and an Err is about none.  Nobody      *)
(* locks the table: others change it whenever they like.                   *)
(*                                                                         *)
(* One thing voids the promise: a file that is overwritten in place while  *)
(* it is read (Spoil).                                                     *)
(***************************************************************************)
CONSTANTS
    Callers,
    None,     \* no version, or none yet
    Spoiled,  \* no single version
    Failed    \* an Err

VARIABLES
    current,  \* the version a caller's table is at
    seen,     \* the version its call has looked at
    answer    \* None while it runs; the version that was judged, or Failed

vars == <<current, seen, answer>>

Init ==
    /\ seen = [c \in Callers |-> None]
    /\ answer = [c \in Callers |-> None]

Look(c) ==
    /\ answer[c] = None
    /\ seen[c] = None
    /\ seen' = [seen EXCEPT ![c] = current[c]]
    /\ UNCHANGED <<current, answer>>

\* A look that came to nothing is forgotten with the call.
Fail(c) ==
    /\ answer[c] = None
    /\ answer' = [answer EXCEPT ![c] = Failed]
    /\ UNCHANGED <<current, seen>>

Answer(c) ==
    /\ answer[c] = None
    /\ seen[c] # None
    /\ answer' = [answer EXCEPT ![c] = seen[c]]
    /\ UNCHANGED <<current, seen>>

Change == current' # current /\ UNCHANGED <<seen, answer>>

\* A file is overwritten under the calls that read it.
Spoil ==
    /\ current' # current
    /\ \A c \in Callers : seen'[c] # seen[c] => seen[c] # None /\ seen'[c] = Spoiled
    /\ DOMAIN seen' = Callers
    /\ UNCHANGED answer

Next ==
    \/ \E c \in Callers : Look(c) \/ Fail(c) \/ Answer(c)
    \/ Change
    \/ Spoil

Spec == Init /\ [][Next]_vars
=============================================================================
