------------------------------- MODULE PgRun --------------------------------
(***************************************************************************)
(* PostgresAdapter: connect tries the pool with a SELECT 1; execute then   *)
(* runs the assertions of a plan one after the other, each with a          *)
(* connection of its own from the pool and a query of its own, in no       *)
(* common transaction.  Other clients write to the table between the       *)
(* queries, and each of them may fail: the first failure ends the run with *)
(* an Err, and the verdicts already reached are dropped.                   *)
(***************************************************************************)
EXTENDS PgSql

CONSTANTS
    Schema,      \* the columns of the table
    Plans,       \* the plans explored: sequences of assertions
    Rows,        \* the rows others may insert
    MaxRows,     \* bound on the rows of the table when the run begins
    MaxWrites,   \* bound on the writes during a run
    Start,       \* the time at which the run begins
    MaxTime      \* bound on the clock

ASSUME PlansAssumption ==
    \A p \in Plans :
        /\ p \in Seq({p[i] : i \in DOMAIN p})
        /\ \A i \in DOMAIN p :
             /\ p[i].kind \in AssertionKinds
             /\ p[i].kind = "Freshness" => p[i].within_seconds \in Int

\* What a column of timestamps holds.
ASSUME RowsAssumption ==
    \A row \in Rows, f \in {Schema[i] : i \in DOMAIN Schema} :
        f.type = "Timestamp" => row[f.name] = NULL \/ row[f.name] \in Int

ASSUME TimesAssumption == PerSecond \in Int /\ Start \in Int /\ MaxRows \in Nat

VARIABLES
    plan,     \* plan.assertions
    table,    \* the rows of the table (the server's state)
    now,      \* the server's clock
    client,   \* "none", or "held": a connection of the pool, for the query at hand
    results,  \* the verdicts so far, in plan order
    outcome,  \* "connecting", "running", "ok", or an Err: "connection", "query", "config"
    writes,   \* history: the writes of others since the run began
    deleted   \* history: whether one of them was a delete

server == <<table, now, writes, deleted>>
vars == <<plan, server, client, results, outcome>>

\* Plausible bug: the assertions are taken from the end of the plan.
CurrentFromTheEnd == plan[Len(plan) - Len(results)]

Current == plan[Len(results) + 1]
Running == outcome = "running" /\ Len(results) < Len(plan)

Init ==
    /\ plan \in Plans
    /\ table \in UNION {[1 .. n -> Rows] : n \in 0 .. MaxRows}
    /\ now = Start
    /\ client = "none"
    /\ results = <<>>
    /\ outcome = "connecting"
    /\ writes = 0
    /\ deleted = FALSE

-----------------------------------------------------------------------------
(* The run.                                                                *)

\* Plausible bug: a refused assertion is skipped and the run goes on.
SkipAndGoOn(e) == results' = Append(results, "Error") /\ UNCHANGED outcome

\* `?`: the run ends here and now.
EndWith(e) == outcome' = e /\ UNCHANGED results

\* The URL does not parse.
RejectUrl ==
    /\ outcome = "connecting"
    /\ client = "none"
    /\ EndWith("config")
    /\ UNCHANGED <<plan, server, client>>

\* The SELECT 1 came back.
Connected ==
    /\ outcome = "connecting"
    /\ client = "held"
    /\ outcome' = "running"
    /\ client' = "none"
    /\ UNCHANGED <<plan, server, results>>

RejectConfig ==
    /\ Running
    /\ ConfigError(Current)
    /\ EndWith("config")
    /\ UNCHANGED <<plan, server, client>>

AnswerWithoutQuery ==
    /\ Running
    /\ NotPushedDown(Current)
    /\ results' = Append(results, "Error")
    /\ UNCHANGED <<plan, server, client, outcome>>

\* The next thing to do is a query: the validation, or that of an assertion.
NeedsClient ==
    /\ client = "none"
    /\ \/ outcome = "connecting"
       \/ Running /\ ~ConfigError(Current) /\ ~NotPushedDown(Current)

Acquire ==
    /\ NeedsClient
    /\ client' = "held"
    /\ UNCHANGED <<plan, server, results, outcome>>

AcquireFails ==
    /\ NeedsClient
    /\ EndWith("connection")
    /\ UNCHANGED <<plan, server, client>>

\* The server evaluates the query on the table of one instant.
Query ==
    /\ Running
    /\ client = "held"
    /\ ~QueryError(Current, Schema)
    /\ results' = Append(results, Verdict_(Current, table, now))
    /\ client' = "none"
    /\ UNCHANGED <<plan, server, outcome>>

\* Refused by the server, or lost with the connection.
QueryFails ==
    /\ client = "held"
    /\ EndWith("query")
    /\ client' = "none"
    /\ UNCHANGED <<plan, server>>

Finish ==
    /\ outcome = "running"
    /\ Len(results) = Len(plan)
    /\ outcome' = "ok"
    /\ UNCHANGED <<plan, server, client, results>>

-----------------------------------------------------------------------------
(* The others, while the run lasts.                                        *)

Write(rows) ==
    /\ outcome = "running"
    /\ writes < MaxWrites
    /\ table' = rows
    /\ writes' = writes + 1
    /\ UNCHANGED <<plan, now, client, results, outcome>>

Insert ==
    /\ \E row \in Rows : Write(Append(table, row))
    /\ UNCHANGED deleted

Delete ==
    /\ \E i \in DOMAIN table : Write(SubSeq(table, 1, i - 1) \o SubSeq(table, i + 1, Len(table)))
    /\ deleted' = TRUE

Advance ==
    /\ outcome = "running"
    /\ now < MaxTime
    /\ now' = now + 1
    /\ UNCHANGED <<plan, table, writes, deleted, client, results, outcome>>

Terminated == outcome \notin {"connecting", "running"} /\ UNCHANGED vars

Next ==
    \/ RejectUrl
    \/ Connected
    \/ RejectConfig
    \/ AnswerWithoutQuery
    \/ Acquire
    \/ AcquireFails
    \/ Query
    \/ QueryFails
    \/ Finish
    \/ Insert
    \/ Delete
    \/ Advance
    \/ Terminated

Spec == Init /\ [][Next]_vars

-----------------------------------------------------------------------------
(* Correctness.                                                            *)

\* An Ok answers the whole plan: an assertion the adapter or the server must refuse
\* makes the run an Err, wherever in the plan it stands.
OkAnswersThePlan ==
    outcome = "ok" =>
        /\ Len(results) = Len(plan)
        /\ \A i \in DOMAIN plan :
             /\ ~ConfigError(plan[i])
             /\ ~NotPushedDown(plan[i]) => ~QueryError(plan[i], Schema)

RowLevel == {"NotNull", "Unique", "UniqueGroup", "Between", "Regex", "Enum"}

\* Nobody locks the table, so that a verdict may be stale when the run ends; but as
\* long as others only insert, a Fail about the rows is never stale: the violation
\* it saw is still there.
FailsOutliveInserts ==
    ~deleted =>
        \A i \in DOMAIN results :
            plan[i].kind \in RowLevel /\ results[i] = "Fail" =>
                Verdict_(plan[i], table, now) = "Fail"

\* Without writes the verdicts of a run are those of one table, although each query
\* has its own transaction; a Fail of Freshness is still true when the run ends.
QuietRunsAreConsistent ==
    writes = 0 =>
        \A i \in DOMAIN results :
            /\ plan[i].kind # "Freshness" => results[i] = Verdict_(plan[i], table, now)
            /\ results[i] = "Fail" => Verdict_(plan[i], table, now) = "Fail"
=============================================================================
