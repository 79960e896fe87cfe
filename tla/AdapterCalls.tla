---------------------------- MODULE AdapterCalls ----------------------------
(***************************************************************************)
(* Calls of scan adapters in flight on one runtime: what every adapter     *)
(* keeps of a call, and the ways in which a call ends.                     *)
(***************************************************************************)
EXTENDS BlockingPool

CONSTANTS
    Callers,
    MaxCalls,  \* bound on the calls that are made
    None

ASSUME NoneAssumption == None \notin Callers

VARIABLES
    pc,      \* where a call is; "idle" before it is made, "done" after its answer
    answer,  \* "none", "ok", or the AdapterError: "connection", "query"
    seen,    \* history: the version of the table the call looked at, None before
    harmed   \* history: the calls for which something outside the adapter failed

calls == <<pc, answer, seen, harmed>>

CallsInit ==
    /\ pc = [c \in Callers |-> "idle"]
    /\ answer = [c \in Callers |-> "none"]
    /\ seen = [c \in Callers |-> None]
    /\ harmed = {}

\* A call that has not been made, and may be.
Idle(c) == pc[c] = "idle" /\ Cardinality({d \in Callers : pc[d] # "idle"}) < MaxCalls

Goto(c, label) ==
    /\ pc' = [pc EXCEPT ![c] = label]
    /\ UNCHANGED <<answer, harmed>>

AnswerWith(c, a) ==
    /\ pc' = [pc EXCEPT ![c] = "done"]
    /\ answer' = [answer EXCEPT ![c] = a]

Return(c, a) == AnswerWith(c, a) /\ UNCHANGED harmed

\* The call ends because the disk, the network, the engine or the data failed it.
ReturnHarmed(c, error) ==
    /\ AnswerWith(c, error)
    /\ harmed' = harmed \cup {c}

\* The next blocking call of the same caller, once this one has ended.
Respawn(c) ==
    /\ busy' = busy \ {c}
    /\ queue' = Append(queue, c)
=============================================================================
