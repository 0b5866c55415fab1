---------------------------- MODULE FunctionCalls ----------------------------
(***************************************************************************)
(* A backend function that answers JSON: Function::Process_ runs the       *)
(* actions of the function one after the other, each on a MySQL session of *)
(* its own and outside any transaction, and answers 200 with the result of *)
(* the last final action, or 400 as soon as one fails.  Threads serve      *)
(* requests concurrently on one table.  An action holds a shared pointer   *)
(* to itself in actions_container_, so an action that fails before it      *)
(* closes its session keeps the connection until the server drops it.      *)
(***************************************************************************)
EXTENDS Naturals, Sequences, FiniteSets

CONSTANTS
    Threads,         \* threads of the HTTP server
    FunctionSet,     \* the functions clients call: sequences of Action
    MaxConnections,  \* connections the database server accepts
    MaxRequests      \* bound: requests that arrive

ConditionTypes == {"none", "kWarning", "kError"}

\* What a function says of one of its actions: its statement, the action whose
\* first field its positional parameter takes (0: it has no such parameter),
\* the conditions of the parameter and of the action, and final_.
Action == [op : {"select", "insert"}, related : Nat,
           paramCondition : ConditionTypes, condition : ConditionTypes,
           final : BOOLEAN]

ASSUME ConstantsAssumption ==
    /\ FunctionSet \subseteq Seq(Action)
    /\ \A f \in FunctionSet : \A i \in DOMAIN f : f[i].related \in 0 .. Len(f)
    /\ MaxConnections \in Nat \ {0}
    /\ MaxRequests \in Nat \ {0}

VARIABLES
    pc,            \* where a thread is in Process_
    actions,       \* the actions of the function a thread runs
    at,            \* the action at work
    parameter,     \* the value of each action's positional parameter, 0: empty
    fetched,       \* the first field the statement at work has read
    results,       \* the first field each action read, 0: it has no rows
    lastInsertId,  \* last_insert_id_ of each action
    jsonResult,    \* the action whose JSON is json_result, 0: the empty object
    open,          \* whether session_ of the action at work is open
    generated,     \* the last insert id the server keeps for that session
    replies,       \* the responses sent to the request
    table,         \* the rows of the database table; a row's id is its position
    leaked,        \* connections held by actions that failed
    arrived,       \* requests so far
    \* history
    request,       \* the number of the request a thread serves
    abandoned      \* connections the request has left open

call == <<actions, arrived, request>>
data == <<parameter, fetched, results, lastInsertId>>
vars == <<pc, actions, at, data, jsonResult, open, generated, replies, table, leaked,
          arrived, request, abandoned>>

-------------------------------------------------------------------------------
Phases == {"idle", "connect", "compose", "execute", "results", "lastInsertId",
           "close", "condition", "json", "reply", "refuse"}
Reply == [status : {200, 400}, body : Nat]
Row == [request : Nat, action : Nat, value : Nat]

Current(t) == actions[t][at[t]]
NoneYet(f) == [i \in DOMAIN f |-> 0]

Init ==
    /\ pc = [t \in Threads |-> "idle"]
    /\ actions = [t \in Threads |-> <<>>]
    /\ at = [t \in Threads |-> 1]
    /\ parameter = [t \in Threads |-> <<>>]
    /\ fetched = [t \in Threads |-> 0]
    /\ results = [t \in Threads |-> <<>>]
    /\ lastInsertId = [t \in Threads |-> <<>>]
    /\ jsonResult = [t \in Threads |-> 0]
    /\ open = [t \in Threads |-> FALSE]
    /\ generated = [t \in Threads |-> 0]
    /\ replies = [t \in Threads |-> <<>>]
    /\ table = <<>>
    /\ leaked = 0
    /\ arrived = 0
    /\ request = [t \in Threads |-> 0]
    /\ abandoned = [t \in Threads |-> 0]

\* ProcessActions_: a request reaches Process_ of a function made for it.
Arrive(t, f) ==
    /\ pc[t] = "idle" /\ arrived < MaxRequests
    /\ arrived' = arrived + 1
    /\ request' = [request EXCEPT ![t] = arrived']
    /\ actions' = [actions EXCEPT ![t] = f]
    /\ at' = [at EXCEPT ![t] = 1]
    /\ parameter' = [parameter EXCEPT ![t] = NoneYet(f)]
    /\ results' = [results EXCEPT ![t] = NoneYet(f)]
    /\ lastInsertId' = [lastInsertId EXCEPT ![t] = NoneYet(f)]
    /\ jsonResult' = [jsonResult EXCEPT ![t] = 0]
    /\ replies' = [replies EXCEPT ![t] = <<>>]
    /\ abandoned' = [abandoned EXCEPT ![t] = 0]
    /\ pc' = [pc EXCEPT ![t] = IF f = <<>> THEN "reply" ELSE "connect"]
    /\ UNCHANGED <<fetched, open, generated, table, leaked>>

-------------------------------------------------------------------------------
(* Action::Work_, and what ProcessAction_ makes of its return value        *)

Goto(t, phase) == pc' = [pc EXCEPT ![t] = phase]

Holders == {t \in Threads : open[t]}
Connections == leaked + Cardinality(Holders)

\* InitializeQuery_: a session of its own, or error_ when the server has no
\* connection left or cannot be reached.
Connect(t) ==
    /\ pc[t] = "connect"
    /\ \/ /\ Connections < MaxConnections
          /\ open' = [open EXCEPT ![t] = TRUE]
          /\ generated' = [generated EXCEPT ![t] = 0]
          /\ Goto(t, "compose")
       \/ Goto(t, "refuse") /\ UNCHANGED <<open, generated>>
    /\ UNCHANGED <<call, at, data, jsonResult, replies, table, leaked, abandoned>>

\* Work_ returns FALSE while its session is open; the action is never
\* destroyed, so the connection stays.
Abandon(t) ==
    /\ open' = [open EXCEPT ![t] = FALSE]
    /\ leaked' = leaked + 1
    /\ abandoned' = [abandoned EXCEPT ![t] = @ + 1]
    /\ Goto(t, "refuse")

\* Mutant: the container of actions is empty.
RelatedNowhere(t, i) == parameter[t][i]

\* SetupPositionParameter_: the value the related action has read, if any.
Related(t, i) ==
    LET j == actions[t][i].related
    IN  IF j # 0 /\ results[t][j] # 0 THEN results[t][j] ELSE parameter[t][i]

\* A kError condition of the parameter is false, or its functor throws; a false
\* kWarning condition is logged.
ParameterFails(t) == Current(t).paramCondition # "none" /\ Abandon(t)

\* ComposeQuery_ after the connection: the parameter, then its condition.
Compose(t) ==
    /\ pc[t] = "compose"
    /\ parameter' = [parameter EXCEPT ![t] = [@ EXCEPT ![at[t]] = Related(t, at[t])]]
    /\ \/ Goto(t, "execute") /\ UNCHANGED <<open, leaked, abandoned>>
       \/ ParameterFails(t)
    /\ UNCHANGED <<call, at, fetched, results, lastInsertId, jsonResult, generated,
                   replies, table>>

\* The statement takes effect.  A select reads the newest row, an insert adds
\* a row with the next id of the table.
TakeEffect(t) ==
    IF Current(t).op = "insert"
    THEN /\ table' = Append(table, [request |-> request[t], action |-> at[t],
                                    value |-> parameter[t][at[t]]])
         /\ generated' = [generated EXCEPT ![t] = Len(table')]
         /\ fetched' = [fetched EXCEPT ![t] = 0]
    ELSE /\ fetched' = [fetched EXCEPT ![t] = Len(table)]
         /\ UNCHANGED <<table, generated>>

\* Mutant: an action whose connection breaks is run again.
ExecuteAgain(t) ==
    /\ pc[t] = "execute"
    /\ \/ TakeEffect(t) /\ Goto(t, "results") /\ UNCHANGED <<open, leaked, abandoned>>
       \/ /\ TakeEffect(t) /\ Goto(t, "connect")
          /\ open' = [open EXCEPT ![t] = FALSE]
          /\ UNCHANGED <<leaked, abandoned>>
       \/ Abandon(t) /\ UNCHANGED <<table, generated, fetched>>
    /\ UNCHANGED <<call, at, parameter, results, lastInsertId, jsonResult, replies>>

\* ExecuteQuery_: the statement takes effect, or fails without, or takes effect
\* and the connection breaks before the answer.
Execute(t) ==
    /\ pc[t] = "execute"
    /\ \/ TakeEffect(t) /\ Goto(t, "results") /\ UNCHANGED <<open, leaked, abandoned>>
       \/ TakeEffect(t) /\ Abandon(t)
       \/ Abandon(t) /\ UNCHANGED <<table, generated, fetched>>
    /\ UNCHANGED <<call, at, parameter, results, lastInsertId, jsonResult, replies>>

MakeResults(t) ==
    /\ pc[t] = "results"
    /\ \/ /\ results' = [results EXCEPT ![t] = [@ EXCEPT ![at[t]] = fetched[t]]]
          /\ Goto(t, "lastInsertId")
          /\ UNCHANGED <<open, leaked, abandoned>>
       \/ Abandon(t) /\ UNCHANGED results
    /\ UNCHANGED <<call, at, parameter, fetched, lastInsertId, jsonResult, generated,
                   replies, table>>

\* Mutant: the newest id of the table, whoever inserted it.
GetLastInsertIDOfTable(t) ==
    /\ pc[t] = "lastInsertId"
    /\ lastInsertId' = [lastInsertId EXCEPT ![t] = [@ EXCEPT ![at[t]] = Len(table)]]
    /\ Goto(t, "close")
    /\ UNCHANGED <<call, at, parameter, fetched, results, jsonResult, generated,
                   replies, table, open, leaked, abandoned>>

\* GetLastInsertID_: SELECT LAST_INSERT_ID() on the same session
GetLastInsertID(t) ==
    /\ pc[t] = "lastInsertId"
    /\ \/ /\ lastInsertId' = [lastInsertId EXCEPT ![t] = [@ EXCEPT ![at[t]] = generated[t]]]
          /\ Goto(t, "close")
          /\ UNCHANGED <<open, leaked, abandoned>>
       \/ Abandon(t) /\ UNCHANGED lastInsertId
    /\ UNCHANGED <<call, at, parameter, fetched, results, jsonResult, generated,
                   replies, table>>

\* Mutant: the session is left to the destructor of the action.
CloseNot(t) ==
    /\ pc[t] = "close"
    /\ leaked' = leaked + 1
    /\ open' = [open EXCEPT ![t] = FALSE]
    /\ abandoned' = [abandoned EXCEPT ![t] = @ + 1]
    /\ Goto(t, "condition")
    /\ UNCHANGED <<call, at, data, jsonResult, generated, replies, table>>

\* session_->close(); nothing in Work_ catches what it throws.
Close(t) ==
    /\ pc[t] = "close"
    /\ \/ /\ open' = [open EXCEPT ![t] = FALSE]
          /\ Goto(t, "condition")
          /\ UNCHANGED <<leaked, abandoned>>
       \/ Abandon(t)
    /\ UNCHANGED <<call, at, data, jsonResult, generated, replies, table>>

\* VerifyCondition_: a false kError condition fails the action, a functor that
\* throws leaves Work_ for the catch of Process_; either answers 400.
VerifyCondition(t) ==
    /\ pc[t] = "condition"
    /\ \/ Goto(t, "json")
       \/ Current(t).condition # "none" /\ Goto(t, "refuse")
    /\ UNCHANGED <<call, at, data, jsonResult, open, generated, replies, table,
                   leaked, abandoned>>

\* Mutant: the first final action gives the answer.
CreateJSONResultFirst(t) ==
    /\ pc[t] = "json"
    /\ jsonResult' = [jsonResult EXCEPT ![t] =
            IF Current(t).final /\ @ = 0 THEN at[t] ELSE @]
    /\ IF at[t] < Len(actions[t])
       THEN at' = [at EXCEPT ![t] = @ + 1] /\ Goto(t, "connect")
       ELSE Goto(t, "reply") /\ UNCHANGED at
    /\ UNCHANGED <<call, data, open, generated, replies, table, leaked, abandoned>>

\* Mutant: the loop takes one turn too many.
CreateJSONResultPast(t) ==
    /\ pc[t] = "json"
    /\ jsonResult' = [jsonResult EXCEPT ![t] = IF Current(t).final THEN at[t] ELSE @]
    /\ IF at[t] <= Len(actions[t])
       THEN at' = [at EXCEPT ![t] = @ + 1] /\ Goto(t, "connect")
       ELSE Goto(t, "reply") /\ UNCHANGED at
    /\ UNCHANGED <<call, data, open, generated, replies, table, leaked, abandoned>>

\* CreateJSONResult_, and the rest of the turn of the loop in ProcessJSON_.
\* When the JSON cannot be made the null pointer it returns throws in Work_.
CreateJSONResult(t) ==
    /\ pc[t] = "json"
    /\ \/ /\ jsonResult' = [jsonResult EXCEPT ![t] = IF Current(t).final THEN at[t] ELSE @]
          /\ IF at[t] < Len(actions[t])
             THEN at' = [at EXCEPT ![t] = @ + 1] /\ Goto(t, "connect")
             ELSE Goto(t, "reply") /\ UNCHANGED at
       \/ Goto(t, "refuse") /\ UNCHANGED <<jsonResult, at>>
    /\ UNCHANGED <<call, data, open, generated, replies, table, leaked, abandoned>>

-------------------------------------------------------------------------------
(* The end of Process_                                                     *)

Send(t, status, body) ==
    /\ replies' = [replies EXCEPT ![t] = Append(@, [status |-> status, body |-> body])]
    /\ UNCHANGED <<call, at, data, jsonResult, open, generated, table, leaked, abandoned>>

\* CompoundResponse_ with json_result
Answer(t) ==
    /\ pc[t] = "reply"
    /\ Send(t, 200, jsonResult[t])
    /\ Goto(t, "idle")

\* Mutant: Process_ returns without an answer.
RefuseSilently(t) ==
    /\ pc[t] = "refuse"
    /\ Goto(t, "idle")
    /\ UNCHANGED <<call, at, data, jsonResult, open, generated, replies, table,
                   leaked, abandoned>>

\* JSONResponse_ with error_message_, from Process_ or from its catch blocks
Refuse(t) ==
    /\ pc[t] = "refuse"
    /\ Send(t, 400, 0)
    /\ Goto(t, "idle")

\* The database server drops a connection that has been idle for too long.
WaitTimeout ==
    /\ leaked > 0
    /\ leaked' = leaked - 1
    /\ UNCHANGED <<call, pc, at, data, jsonResult, open, generated, replies, table, abandoned>>

-------------------------------------------------------------------------------
Work(t) ==
    \/ Connect(t)
    \/ Compose(t)
    \/ Execute(t)
    \/ MakeResults(t)
    \/ GetLastInsertID(t)
    \/ Close(t)
    \/ VerifyCondition(t)
    \/ CreateJSONResult(t)

Process(t) == Work(t) \/ Answer(t) \/ Refuse(t)

Next ==
    \/ \E t \in Threads, f \in FunctionSet : Arrive(t, f)
    \/ \E t \in Threads : Process(t)
    \/ WaitTimeout

\* A thread runs on; calls to the database return or throw.
Fairness == \A t \in Threads : WF_vars(Process(t))

Spec == Init /\ [][Next]_vars /\ Fairness

-------------------------------------------------------------------------------
\* Types of the variables.
TypeOK ==
    /\ pc \in [Threads -> Phases]
    /\ actions \in [Threads -> Seq(Action)]
    /\ at \in [Threads -> Nat \ {0}]
    /\ \A t \in Threads :
          /\ pc[t] \notin {"idle", "reply"} => at[t] \in DOMAIN actions[t]
          /\ parameter[t] \in [DOMAIN actions[t] -> Nat]
          /\ results[t] \in [DOMAIN actions[t] -> Nat]
          /\ lastInsertId[t] \in [DOMAIN actions[t] -> Nat]
    /\ fetched \in [Threads -> Nat]
    /\ jsonResult \in [Threads -> Nat]
    /\ open \in [Threads -> BOOLEAN]
    /\ generated \in [Threads -> Nat]
    /\ replies \in [Threads -> Seq(Reply)]
    /\ table \in Seq(Row)
    /\ leaked \in 0 .. MaxConnections
    /\ arrived \in Nat
    /\ request \in [Threads -> Nat]
    /\ abandoned \in [Threads -> Nat]

\* The inserts of a thread's function.
Inserts(t) == {i \in DOMAIN actions[t] : actions[t][i].op = "insert"}
\* The rows its request has added, by id.
Added(t) == {k \in DOMAIN table : table[k].request = request[t]}
AddedBy(t, i) == {k \in Added(t) : table[k].action = i}

\* Whether the statement of the action at work has been sent.
Sent(t) == pc[t] \in {"results", "lastInsertId", "close", "condition", "json", "reply"}

\* A request's effects are those of a prefix of its actions, each once and in
\* order: every insert before the action at work, none after it, and its own
\* once it has run; when it failed its own may be there or not.
EffectsArePrefix ==
    \A t \in Threads :
       /\ \A i \in Inserts(t) :
             /\ i < at[t] \/ (i = at[t] /\ Sent(t)) => Cardinality(AddedBy(t, i)) = 1
             /\ Cardinality(AddedBy(t, i)) <= 1
       /\ \A k \in Added(t) :
             /\ table[k].action \in Inserts(t) /\ table[k].action <= at[t]
             /\ \A m \in Added(t) : k < m => table[k].action < table[m].action

Last(S) == CHOOSE i \in S : \A j \in S : j <= i
FinalActions(t) == {i \in DOMAIN actions[t] : actions[t][i].final}

\* What a reply says is true: 200 means that every action ran and every insert
\* is in the table, and the body is the result of the last final action; a
\* request gets one reply.
ReplyIsTrue ==
    \A t \in Threads :
       /\ Len(replies[t]) <= 1
       /\ replies[t] # <<>> /\ replies[t][1].status = 200 =>
             /\ \A i \in Inserts(t) : Cardinality(AddedBy(t, i)) = 1
             /\ replies[t][1].body =
                   IF FinalActions(t) = {} THEN 0 ELSE Last(FinalActions(t))

\* last_insert_id_ of an action is the id of the row that action inserted,
\* whatever other requests insert meanwhile, and zero if it inserted none.
LastInsertIdIsOwn ==
    \A t \in Threads : \A i \in DOMAIN actions[t] :
       lastInsertId[t][i] # 0 => lastInsertId[t][i] \in AddedBy(t, i)

\* A row holds what the related action of the same request had read, provided
\* it is an earlier one.
RowsAreFed ==
    \A t \in Threads : \A k \in Added(t) :
       LET j == actions[t][table[k].action].related
       IN  table[k].value = IF j \in 1 .. table[k].action - 1 THEN results[t][j] ELSE 0

\* The server never holds more connections than it may, a thread never more
\* than one; only a request that fails leaves one behind, and only one.
ConnectionsAreReturned ==
    /\ Connections <= MaxConnections
    /\ \A t \in Threads :
          /\ open[t] => abandoned[t] = 0
          /\ abandoned[t] # 0 =>
                /\ abandoned[t] = 1
                /\ pc[t] = "refuse" \/ (pc[t] = "idle" /\ replies[t][1].status = 400)

\* Every request is answered, also when no connection is left.
RequestsAreAnswered ==
    \A t \in Threads : pc[t] # "idle" ~> pc[t] = "idle" /\ replies[t] # <<>>

===============================================================================
