------------------------- MODULE FunctionCallsProofs -------------------------
(***************************************************************************)
(* Proofs about FunctionCalls: its types, and what a backend function      *)
(* promises of its effects, its reply and its connections, for any threads *)
(* and any functions.                                                      *)
(***************************************************************************)
EXTENDS FunctionCalls, FiniteSetTheorems, TLAPS

-------------------------------------------------------------------------------
(* The inductive invariant                                                 *)

\* The containers of a function are functions of the threads.
Containers ==
    /\ parameter = [t \in Threads |-> parameter[t]]
    /\ results = [t \in Threads |-> results[t]]
    /\ lastInsertId = [t \in Threads |-> lastInsertId[t]]

\* Requests are numbered from one, a request is one thread's, and a row is of a
\* request that has arrived.
Requests ==
    /\ \A t \in Threads :
          /\ request[t] <= arrived
          /\ request[t] = 0 => pc[t] = "idle" /\ actions[t] = <<>>
          /\ \A u \in Threads \ {t} : request[t] = request[u] => request[t] = 0
    /\ \A k \in DOMAIN table : table[k].request \in 1 .. arrived

\* The related action of an action is in the function.
RelatedExists(t) ==
    \A i \in DOMAIN actions[t] : actions[t][i].related \in 0 .. Len(actions[t])

\* What an action's parameter is fed with.
Feed(t, i) ==
    LET j == actions[t][i].related
    IN  IF j \in 1 .. i - 1 THEN results[t][j] ELSE 0

\* An action not yet run has neither a parameter nor a result.
Fresh(t) ==
    \A i \in DOMAIN actions[t] :
       /\ i > at[t] \/ (i = at[t] /\ pc[t] \in {"connect", "compose"})
             => parameter[t][i] = 0
       /\ i > at[t] \/ (i = at[t] /\ pc[t] \in {"connect", "compose", "execute", "results"})
             => results[t][i] = 0

\* The session of the action at work, and what the server keeps for it.
Session(t) ==
    /\ open[t] <=> pc[t] \in {"compose", "execute", "results", "lastInsertId", "close"}
    /\ pc[t] \in {"compose", "execute"} => generated[t] = 0
    /\ pc[t] = "execute" => parameter[t][at[t]] = Feed(t, at[t])

\* r is the last final action among the first n, 0 when there is none.
Latest(t, r, n) ==
    IF \E i \in FinalActions(t) : i <= n
    THEN /\ r \in FinalActions(t) /\ r <= n
         /\ \A i \in FinalActions(t) : i <= n => i <= r
    ELSE r = 0

\* json_result is that of the last final action that has ended.
Json(t) ==
    /\ pc[t] = "reply" => /\ \A i \in DOMAIN actions[t] : i <= at[t]
                          /\ Latest(t, jsonResult[t], at[t])
    /\ pc[t] \notin {"idle", "reply"} => Latest(t, jsonResult[t], at[t] - 1)

InsertIsThere(t, i) == \E k \in Added(t) : table[k].action = i

\* The rows of a request: of its inserts, not beyond the action at work, in
\* their order, none left out, and with the values they were fed.
Rows(t) ==
    /\ \A k \in Added(t) :
          /\ table[k].action \in Inserts(t) /\ table[k].action <= at[t]
          /\ pc[t] \in {"connect", "compose", "execute"} => table[k].action < at[t]
          /\ \A m \in Added(t) : k < m => table[k].action < table[m].action
          /\ table[k].value = Feed(t, table[k].action)
    /\ \A i \in Inserts(t) : i < at[t] \/ (i = at[t] /\ Sent(t)) => InsertIsThere(t, i)

\* The ids the server and the actions keep are of their own rows.
OwnIds(t) ==
    /\ pc[t] \in {"results", "lastInsertId"} /\ generated[t] # 0
          => generated[t] \in AddedBy(t, at[t])
    /\ \A i \in DOMAIN actions[t] :
          lastInsertId[t][i] # 0 => lastInsertId[t][i] \in AddedBy(t, i)

\* A request has its reply when its thread is done with it, and the reply is true.
Replied(t) ==
    /\ pc[t] # "idle" => replies[t] = <<>>
    /\ replies[t] # <<>> =>
          /\ Len(replies[t]) = 1
          /\ replies[t][1].status = 200 =>
                /\ \A i \in Inserts(t) : InsertIsThere(t, i)
                /\ Latest(t, replies[t][1].body, Len(actions[t]))

\* Only a request that fails has left a connection, and only one.
Left(t) ==
    /\ pc[t] \notin {"idle", "refuse"} => abandoned[t] = 0
    /\ abandoned[t] <= 1
    /\ abandoned[t] # 0 /\ pc[t] = "idle" =>
          replies[t] # <<>> /\ replies[t][1].status = 400

\* What holds of a thread by itself, and of a thread and the table.
ThreadInv(t) ==
    RelatedExists(t) /\ Fresh(t) /\ Session(t) /\ Json(t) /\ Left(t)
TableInv(t) == Rows(t) /\ OwnIds(t) /\ Replied(t)

\* The connections of the server.
Pool == IsFiniteSet(Holders) /\ Connections <= MaxConnections

IInv ==
    /\ TypeOK /\ Containers /\ Requests /\ Pool
    /\ \A t \in Threads : ThreadInv(t) /\ TableInv(t)

-------------------------------------------------------------------------------
(* Steps of one thread leave the others alone                              *)

\* The step leaves the variables of the thread alone.
Same(u) ==
    /\ pc'[u] = pc[u] /\ actions'[u] = actions[u] /\ at'[u] = at[u]
    /\ parameter'[u] = parameter[u] /\ results'[u] = results[u]
    /\ lastInsertId'[u] = lastInsertId[u] /\ jsonResult'[u] = jsonResult[u]
    /\ open'[u] = open[u] /\ generated'[u] = generated[u]
    /\ replies'[u] = replies[u] /\ request'[u] = request[u]
    /\ abandoned'[u] = abandoned[u]

\* The step leaves the rows of the thread's request alone.
RowsKept(u) ==
    /\ Added(u)' = Added(u)
    /\ \A k \in Added(u) : table'[k] = table[k]

LEMMA ElementOfSeq ==
    ASSUME NEW S, NEW s \in Seq(S), NEW k \in DOMAIN s
    PROVE  k \in Nat /\ s[k] \in S
OBVIOUS

LEMMA Appended ==
    ASSUME NEW S, NEW s \in Seq(S), NEW e \in S
    PROVE  /\ Append(s, e) \in Seq(S) /\ Len(s) \in Nat
           /\ DOMAIN Append(s, e) = DOMAIN s \cup {Len(s) + 1}
           /\ Append(s, e)[Len(s) + 1] = e
           /\ Len(s) + 1 \notin DOMAIN s
           /\ \A k \in DOMAIN s : Append(s, e)[k] = s[k] /\ k \in Nat /\ k < Len(s) + 1
OBVIOUS

LEMMA SameIsKept ==
    ASSUME NEW u \in Threads, ThreadInv(u), TableInv(u), Same(u), RowsKept(u)
    PROVE  ThreadInv(u)' /\ TableInv(u)'
<1>1. RelatedExists(u)' /\ Fresh(u)' /\ Session(u)' /\ Left(u)'
  BY DEF ThreadInv, Same, RelatedExists, Fresh, Session, Feed, Left
<1>2. \A n, r : Latest(u, r, n) <=> Latest(u, r, n)'
  BY DEF Same, Latest, FinalActions
<1>3. Json(u)'
  BY DEF ThreadInv, Same, Json, Latest, FinalActions
<1>4. \A i : AddedBy(u, i)' = AddedBy(u, i)
  BY DEF RowsKept, AddedBy
<1>5. Inserts(u)' = Inserts(u)
  BY DEF Same, Inserts
<1>6. Sent(u)' <=> Sent(u)
  BY DEF Same, Sent
<1>7. \A i : InsertIsThere(u, i) => InsertIsThere(u, i)'
  BY DEF RowsKept, InsertIsThere
<1>8. \A i : Feed(u, i)' = Feed(u, i)
  BY DEF Same, Feed
<1>9. Rows(u)'
  BY <1>5, <1>6, <1>7, <1>8 DEF TableInv, Rows, Same, RowsKept
<1>10. OwnIds(u)'
  BY <1>4 DEF TableInv, OwnIds, Same
<1>11. Replied(u)'
  BY <1>2, <1>5, <1>7 DEF TableInv, Replied, Same
<1> QED BY <1>1, <1>3, <1>9, <1>10, <1>11 DEF ThreadInv, TableInv

LEMMA OthersAreKept ==
    ASSUME IInv, NEW t \in Threads, \A u \in Threads \ {t} : Same(u),
           \/ table' = table
           \/ \E row \in Row :
                 /\ table' = Append(table, row)
                 /\ row.request = request[t] /\ request[t] # 0
    PROVE  \A u \in Threads \ {t} : ThreadInv(u)' /\ TableInv(u)'
<1> SUFFICES ASSUME NEW u \in Threads \ {t} PROVE ThreadInv(u)' /\ TableInv(u)'
  OBVIOUS
<1>1. Same(u) /\ ThreadInv(u) /\ TableInv(u)
  BY DEF IInv
<1>2. RowsKept(u)
  <2>1. CASE table' = table
    BY <1>1, <2>1 DEF RowsKept, Added, Same
  <2>2. ASSUME NEW row \in Row,
               table' = Append(table, row), row.request = request[t], request[t] # 0
        PROVE  RowsKept(u)
    <3>1. table \in Seq(Row) /\ request[t] # request[u]
      BY <2>2 DEF IInv, TypeOK, Requests
    <3>2. /\ DOMAIN table' = DOMAIN table \cup {Len(table) + 1}
          /\ Len(table) + 1 \notin DOMAIN table
          /\ table'[Len(table) + 1] = row
          /\ \A k \in DOMAIN table : table'[k] = table[k]
      BY <2>2, <3>1, Appended
    <3>3. request'[u] = request[u]
      BY <1>1 DEF Same
    <3> QED BY <2>2, <3>1, <3>2, <3>3 DEF RowsKept, Added
  <2> QED BY <2>1, <2>2
<1> QED BY <1>1, <1>2, SameIsKept

-------------------------------------------------------------------------------
(* The connections of the server                                           *)

LEMMA SessionOpened ==
    ASSUME IInv, NEW t \in Threads, ~ open[t], Connections < MaxConnections,
           open' = [open EXCEPT ![t] = TRUE], leaked' = leaked
    PROVE  Pool'
<1>1. IsFiniteSet(Holders) /\ t \notin Holders /\ leaked \in Nat
  BY ConstantsAssumption DEF IInv, Pool, Holders, TypeOK
<1>2. Holders' = Holders \cup {t}
  BY DEF IInv, TypeOK, Holders
<1>3. IsFiniteSet(Holders') /\ Cardinality(Holders') = Cardinality(Holders) + 1
  BY <1>1, <1>2, FS_AddElement
<1>4. Cardinality(Holders) \in Nat
  BY <1>1, FS_CardinalityType
<1> QED BY <1>1, <1>3, <1>4, ConstantsAssumption DEF Pool, Connections

LEMMA SessionClosed ==
    ASSUME IInv, NEW t \in Threads, open[t],
           open' = [open EXCEPT ![t] = FALSE], leaked' \in {leaked, leaked + 1}
    PROVE  Pool' /\ leaked' \in 0 .. MaxConnections
<1>1. IsFiniteSet(Holders) /\ t \in Holders /\ leaked \in Nat
  BY ConstantsAssumption DEF IInv, Pool, Holders, TypeOK
<1>2. Holders' = Holders \ {t}
  BY DEF IInv, TypeOK, Holders
<1>3. IsFiniteSet(Holders') /\ Cardinality(Holders') = Cardinality(Holders) - 1
  BY <1>1, <1>2, FS_RemoveElement
<1>4. Cardinality(Holders) \in Nat /\ Cardinality(Holders') \in Nat
  BY <1>1, <1>3, FS_CardinalityType
<1>5. leaked + Cardinality(Holders) <= MaxConnections
  BY DEF IInv, Pool, Connections
<1> QED BY <1>1, <1>3, <1>4, <1>5, ConstantsAssumption DEF Pool, Connections

\* The initial state has the inductive invariant.
LEMMA InitIInv == Init => IInv
<1> SUFFICES ASSUME Init PROVE IInv
  OBVIOUS
<1>1. TypeOK
  <2>1. <<>> \in Seq(Row)
    OBVIOUS
  <2> QED BY <2>1, ConstantsAssumption DEF Init, TypeOK, Phases
<1>2. Containers /\ Requests
  BY DEF Init, Containers, Requests
<1>3. Pool
  <2>1. Holders = {}
    BY DEF Init, Holders
  <2> QED BY <2>1, FS_EmptySet, ConstantsAssumption DEF Pool, Connections, Init
<1>4. ASSUME NEW t \in Threads PROVE ThreadInv(t) /\ TableInv(t)
  <2>1. ThreadInv(t)
    BY DEF Init, ThreadInv, RelatedExists, Fresh, Session, Json, Left
  <2>2. TableInv(t)
    BY DEF Init, TableInv, Rows, Added, Inserts, OwnIds, Replied
  <2> QED BY <2>1, <2>2
<1> QED BY <1>1, <1>2, <1>3, <1>4 DEF IInv

-------------------------------------------------------------------------------
(* Every step keeps it                                                     *)

\* The types by themselves.
LEMMA Types ==
    ASSUME IInv
    PROVE  /\ pc \in [Threads -> Phases] /\ open \in [Threads -> BOOLEAN]
           /\ actions \in [Threads -> Seq(Action)] /\ at \in [Threads -> Nat \ {0}]
           /\ fetched \in [Threads -> Nat] /\ jsonResult \in [Threads -> Nat]
           /\ generated \in [Threads -> Nat] /\ replies \in [Threads -> Seq(Reply)]
           /\ table \in Seq(Row)
           /\ leaked \in Nat /\ arrived \in Nat
           /\ request \in [Threads -> Nat] /\ abandoned \in [Threads -> Nat]
           /\ \A t \in Threads :
                 /\ pc[t] \notin {"idle", "reply"} => at[t] \in DOMAIN actions[t]
                 /\ parameter[t] \in [DOMAIN actions[t] -> Nat]
                 /\ results[t] \in [DOMAIN actions[t] -> Nat]
                 /\ lastInsertId[t] \in [DOMAIN actions[t] -> Nat]
BY ConstantsAssumption DEF IInv, TypeOK

LEMMA ArriveKeeps ==
    ASSUME IInv, NEW t \in Threads, NEW f \in FunctionSet, Arrive(t, f) PROVE IInv'
<1>1. f \in Seq(Action) /\ \A i \in DOMAIN f : f[i].related \in 0 .. Len(f)
  BY ConstantsAssumption
<1>2. f # <<>> => 1 \in DOMAIN f
  BY <1>1
<1>3. /\ pc'[t] \in {"reply", "connect"} /\ (pc'[t] = "reply" => f = <<>>)
      /\ (pc'[t] = "connect" => f # <<>>)
      /\ actions'[t] = f /\ at'[t] = 1 /\ parameter'[t] = NoneYet(f)
      /\ results'[t] = NoneYet(f) /\ lastInsertId'[t] = NoneYet(f)
      /\ jsonResult'[t] = 0 /\ replies'[t] = <<>> /\ abandoned'[t] = 0
      /\ arrived' = arrived + 1 /\ request'[t] = arrived + 1 /\ arrived \in Nat
      /\ pc[t] = "idle" /\ ~ open[t] /\ open'[t] = open[t] /\ table' = table
  BY DEF IInv, TypeOK, Containers, ThreadInv, Session, Arrive
<1>4. \A u \in Threads \ {t} : Same(u)
  BY DEF IInv, Arrive, TypeOK, Containers, Same
<1>5. TypeOK' /\ Containers' /\ Requests'
  <2>1. Containers'
    BY DEF IInv, Arrive, Containers
  <2>2. /\ pc' \in [Threads -> Phases] /\ actions' \in [Threads -> Seq(Action)]
        /\ at' \in [Threads -> Nat \ {0}] /\ request' \in [Threads -> Nat]
        /\ abandoned' \in [Threads -> Nat] /\ replies' \in [Threads -> Seq(Reply)]
        /\ jsonResult' \in [Threads -> Nat]
    BY <1>1, <1>3 DEF IInv, Arrive, TypeOK, Phases
  <2>3. ASSUME NEW u \in Threads
        PROVE  /\ pc'[u] \notin {"idle", "reply"} => at'[u] \in DOMAIN actions'[u]
               /\ parameter'[u] \in [DOMAIN actions'[u] -> Nat]
               /\ results'[u] \in [DOMAIN actions'[u] -> Nat]
               /\ lastInsertId'[u] \in [DOMAIN actions'[u] -> Nat]
    <3>1. CASE u = t
      BY <1>2, <1>3, <3>1 DEF NoneYet
    <3>2. CASE u # t
      BY <1>4, <3>2 DEF IInv, TypeOK, Same
    <3> QED BY <3>1, <3>2
  <2>4. TypeOK'
    BY <2>2, <2>3, <1>3 DEF IInv, Arrive, TypeOK
  <2>5. Requests'
    <3>1. ASSUME NEW u \in Threads \ {t}
          PROVE  /\ request'[u] = request[u] /\ request[u] <= arrived
                 /\ pc'[u] = pc[u] /\ actions'[u] = actions[u]
                 /\ request[u] = 0 => pc[u] = "idle" /\ actions[u] = <<>>
                 /\ request[u] \in Nat
      BY <1>4 DEF IInv, TypeOK, Requests, Same
    <3>2. \A u, v \in Threads : u # v /\ request[u] = request[v] => request[u] = 0
      BY DEF IInv, Requests
    <3>3. \A k \in DOMAIN table : table[k].request \in 1 .. arrived
      BY DEF IInv, Requests
    <3> QED BY <1>3, <3>1, <3>2, <3>3 DEF Requests
  <2> QED BY <2>1, <2>4, <2>5
<1>6. Pool'
  BY DEF IInv, Arrive, Pool, Holders, Connections
<1>7. ThreadInv(t)'
  BY <1>1, <1>3 DEF NoneYet, ThreadInv, RelatedExists, Fresh, Session,
     Json, Latest, FinalActions, Left
<1>8. TableInv(t)'
  <2>1. Added(t)' = {}
    BY <1>3 DEF IInv, Requests, Added
  <2> QED BY <1>1, <1>3, <2>1 DEF NoneYet, TableInv, Rows, OwnIds, Inserts, Sent, Replied
<1> QED BY <1>3, <1>4, <1>5, <1>6, <1>7, <1>8, OthersAreKept DEF IInv

\* A step of a thread at work, once its own part is shown.
LEMMA StepKeeps ==
    ASSUME IInv, NEW t \in Threads, pc[t] # "idle", UNCHANGED call,
           \A u \in Threads \ {t} : Same(u),
           \/ table' = table
           \/ \E row \in Row :
                 table' = Append(table, row) /\ row.request = request[t],
           TypeOK', Containers', Pool', ThreadInv(t)', TableInv(t)'
    PROVE  IInv'
<1>1. request[t] \in 1 .. arrived /\ arrived \in Nat
  <2>1. request[t] \in Nat /\ arrived \in Nat
    BY DEF IInv, TypeOK
  <2>2. request[t] <= arrived /\ request[t] # 0
    BY DEF IInv, Requests
  <2> QED BY <2>1, <2>2
<1>2. Requests'
  <2>1. ASSUME NEW u \in Threads
        PROVE  request'[u] = 0 => pc'[u] = "idle" /\ actions'[u] = <<>>
    BY <1>1 DEF IInv, Requests, Same, call
  <2>2. \A k \in DOMAIN table' : table'[k].request \in 1 .. arrived
    <3>1. CASE table' = table
      BY <3>1 DEF IInv, Requests
    <3>2. ASSUME NEW row \in Row,
                 table' = Append(table, row), row.request = request[t]
          PROVE  \A k \in DOMAIN table' : table'[k].request \in 1 .. arrived
      <4>1. table \in Seq(Row)
        BY DEF IInv, TypeOK
      <4>2. /\ DOMAIN table' = DOMAIN table \cup {Len(table) + 1}
            /\ table'[Len(table) + 1] = row
            /\ \A k \in DOMAIN table : table'[k] = table[k]
        BY <3>2, <4>1, Appended
      <4> QED BY <1>1, <3>2, <4>2 DEF IInv, Requests
    <3> QED BY <3>1, <3>2
  <2> QED BY <2>1, <2>2 DEF IInv, Requests, call
<1>3. \A u \in Threads \ {t} : ThreadInv(u)' /\ TableInv(u)'
  BY <1>1, OthersAreKept
<1> QED BY <1>2, <1>3 DEF IInv

\* What is said of a request's rows and of its final actions is the same after
\* a step that leaves the table alone.
LEMMA TableStays ==
    ASSUME NEW t, UNCHANGED <<call, table>>
    PROVE  /\ Added(t)' = Added(t) /\ Inserts(t)' = Inserts(t)
           /\ \A i : AddedBy(t, i)' = AddedBy(t, i)
           /\ \A i : InsertIsThere(t, i)' <=> InsertIsThere(t, i)
           /\ FinalActions(t)' = FinalActions(t)
           /\ \A r, n : Latest(t, r, n)' <=> Latest(t, r, n)
BY DEF call, Added, Inserts, AddedBy, InsertIsThere, FinalActions, Latest

LEMMA ConnectKeeps == ASSUME IInv, NEW t \in Threads, Connect(t) PROVE IInv'
<1>0. \/ /\ open' = [open EXCEPT ![t] = TRUE] /\ generated' = [generated EXCEPT ![t] = 0]
         /\ pc' = [pc EXCEPT ![t] = "compose"]
      \/ /\ open' = open /\ generated' = generated
         /\ pc' = [pc EXCEPT ![t] = "refuse"]
  BY DEF Connect, Goto
<1>1. /\ pc[t] = "connect" /\ pc'[t] \in {"compose", "refuse"} /\ ~ open[t]
      /\ open'[t] <=> pc'[t] = "compose"
      /\ pc'[t] = "compose" => generated'[t] = 0
      /\ at[t] \in DOMAIN actions[t]
      /\ UNCHANGED <<call, at, data, jsonResult, replies, table, leaked, abandoned>>
  <2>1. pc[t] = "connect" /\ Session(t)
    BY DEF IInv, ThreadInv, Connect
  <2>2. ~ open[t]
    BY <2>1 DEF Session
  <2>3. UNCHANGED <<call, at, data, jsonResult, replies, table, leaked, abandoned>>
    BY DEF Connect
  <2> QED BY <1>0, <2>1, <2>2, <2>3, Types
<1>2. \A u \in Threads \ {t} : Same(u)
  BY DEF IInv, TypeOK, Connect, Goto, Same, call, data
<1>3. TypeOK' /\ Containers'
  <2>1. /\ pc' \in [Threads -> Phases] /\ open' \in [Threads -> BOOLEAN]
        /\ generated' \in [Threads -> Nat]
    <3>1. CASE pc' = [pc EXCEPT ![t] = "refuse"] /\ open' = open /\ generated' = generated
      BY <3>1, Types DEF Phases
    <3>2. CASE /\ open' = [open EXCEPT ![t] = TRUE] /\ generated' = [generated EXCEPT ![t] = 0]
               /\ pc' = [pc EXCEPT ![t] = "compose"]
      BY <3>2, Types DEF Phases
    <3> QED BY <1>0, <3>1, <3>2
  <2>2. \A u \in Threads : pc'[u] \notin {"idle", "reply"} => at[u] \in DOMAIN actions[u]
    BY <1>1, <1>2 DEF IInv, TypeOK, Same
  <2> QED BY <1>1, <2>1, <2>2 DEF IInv, TypeOK, Containers, call, data
<1>4. Pool'
  <2>1. CASE UNCHANGED <<open, leaked>>
    BY <2>1 DEF IInv, Pool, Connections, Holders
  <2> QED BY <1>1, <2>1, SessionOpened DEF Connect
<1>5. ThreadInv(t)'
  BY <1>1, TableStays DEF IInv, ThreadInv, RelatedExists, Fresh, Session, Json, Left, call, data
<1>6. TableInv(t)'
  BY <1>1, TableStays DEF IInv, TableInv, Rows, OwnIds, Replied, Sent, Feed, call, data
<1> QED BY <1>1, <1>2, <1>3, <1>4, <1>5, <1>6, StepKeeps

LEMMA VerifyConditionKeeps ==
    ASSUME IInv, NEW t \in Threads, VerifyCondition(t) PROVE IInv'
<1>1. /\ pc[t] = "condition" /\ pc'[t] \in {"json", "refuse"}
      /\ at[t] \in DOMAIN actions[t]
      /\ UNCHANGED <<call, at, data, jsonResult, open, generated, replies, table,
                     leaked, abandoned>>
  BY DEF IInv, TypeOK, VerifyCondition, Goto
<1>2. \A u \in Threads \ {t} : Same(u)
  BY DEF IInv, TypeOK, VerifyCondition, Goto, Same, call, data
<1>3. TypeOK' /\ Containers'
  <2>1. pc' \in [Threads -> Phases]
    BY DEF IInv, TypeOK, VerifyCondition, Goto, Phases
  <2>2. \A u \in Threads : pc'[u] \notin {"idle", "reply"} => at[u] \in DOMAIN actions[u]
    BY <1>1, <1>2 DEF IInv, TypeOK, Same
  <2> QED BY <1>1, <2>1, <2>2 DEF IInv, TypeOK, Containers, call, data
<1>4. Pool'
  BY <1>1 DEF IInv, Pool, Connections, Holders
<1>5. ThreadInv(t)'
  BY <1>1, TableStays DEF IInv, ThreadInv, RelatedExists, Fresh, Session, Json, Left, call, data
<1>6. TableInv(t)'
  BY <1>1, TableStays DEF IInv, TableInv, Rows, OwnIds, Replied, Sent, Feed, call, data
<1> QED BY <1>1, <1>2, <1>3, <1>4, <1>5, <1>6, StepKeeps

\* A thread with a session goes on with it or abandons it.
LEMMA MovesOn ==
    ASSUME IInv, NEW t \in Threads, NEW p \in Phases,
           pc[t] \in {"compose", "execute", "results", "lastInsertId", "close"},
           Abandon(t) \/ (Goto(t, p) /\ UNCHANGED <<open, leaked, abandoned>>)
    PROVE  /\ Pool' /\ leaked' \in 0 .. MaxConnections
           /\ pc' \in [Threads -> Phases] /\ open' \in [Threads -> BOOLEAN]
           /\ abandoned' \in [Threads -> Nat]
           /\ \A u \in Threads \ {t} : /\ pc'[u] = pc[u] /\ open'[u] = open[u]
                                       /\ abandoned'[u] = abandoned[u]
           /\ \/ pc'[t] = p /\ open'[t] /\ abandoned'[t] = 0
              \/ pc'[t] = "refuse" /\ ~ open'[t] /\ abandoned'[t] = 1
<1>1. open[t] /\ abandoned[t] = 0
  <2>1. Session(t) /\ Left(t)
    BY DEF IInv, ThreadInv
  <2> QED BY <2>1 DEF Session, Left
<1>2. CASE Abandon(t)
  <2>1. Pool' /\ leaked' \in 0 .. MaxConnections
    BY <1>1, <1>2, SessionClosed DEF Abandon
  <2>2. /\ pc' = [pc EXCEPT ![t] = "refuse"] /\ open' = [open EXCEPT ![t] = FALSE]
        /\ abandoned' = [abandoned EXCEPT ![t] = @ + 1]
    BY <1>2 DEF Abandon, Goto
  <2>3. pc' \in [Threads -> Phases] /\ open' \in [Threads -> BOOLEAN]
    BY <2>2, Types DEF Phases
  <2>4. abandoned' \in [Threads -> Nat] /\ abandoned'[t] = 1
    BY <1>1, <2>2, Types
  <2> QED BY <2>1, <2>2, <2>3, <2>4, Types
<1>3. CASE Goto(t, p) /\ UNCHANGED <<open, leaked, abandoned>>
  <2>1. Pool' /\ leaked' \in 0 .. MaxConnections
    BY <1>3 DEF IInv, TypeOK, Pool, Holders, Connections
  <2> QED BY <1>1, <1>3, <2>1, Types DEF Goto
<1> QED BY <1>2, <1>3

LEMMA CloseKeeps == ASSUME IInv, NEW t \in Threads, Close(t) PROVE IInv'
<1>1. /\ pc[t] = "close" /\ open[t] /\ abandoned[t] = 0 /\ at[t] \in DOMAIN actions[t]
      /\ UNCHANGED <<call, at, data, jsonResult, generated, replies, table>>
  BY Types DEF IInv, ThreadInv, Session, Left, Close
<1>2. /\ Pool' /\ leaked' \in 0 .. MaxConnections
      /\ pc' \in [Threads -> Phases] /\ open' \in [Threads -> BOOLEAN]
      /\ abandoned' \in [Threads -> Nat]
      /\ \A u \in Threads \ {t} : /\ pc'[u] = pc[u] /\ open'[u] = open[u]
                                  /\ abandoned'[u] = abandoned[u]
      /\ \/ pc'[t] = "condition" /\ ~ open'[t] /\ abandoned'[t] = 0
         \/ pc'[t] = "refuse" /\ ~ open'[t] /\ abandoned'[t] = 1
  <2>1. CASE Abandon(t)
    <3>1. \/ pc'[t] = "condition" /\ open'[t] /\ abandoned'[t] = 0
          \/ pc'[t] = "refuse" /\ ~ open'[t] /\ abandoned'[t] = 1
      BY <1>1, <2>1, MovesOn DEF Phases
    <3>2. pc'[t] # "condition"
      BY <2>1, Types DEF Abandon, Goto
    <3> QED BY <1>1, <2>1, <3>1, <3>2, MovesOn DEF Phases
  <2>2. CASE /\ open' = [open EXCEPT ![t] = FALSE] /\ Goto(t, "condition")
             /\ UNCHANGED <<leaked, abandoned>>
    <3>1. Pool' /\ leaked' \in 0 .. MaxConnections
      BY <1>1, <2>2, SessionClosed
    <3>2. pc' \in [Threads -> Phases] /\ pc'[t] = "condition"
      BY <2>2, Types DEF Goto, Phases
    <3>3. open' \in [Threads -> BOOLEAN] /\ ~ open'[t]
      BY <2>2, Types
    <3> QED BY <1>1, <2>2, <3>1, <3>2, <3>3, Types DEF Goto
  <2> QED BY <2>1, <2>2 DEF Close
<1>3. \A u \in Threads \ {t} : Same(u)
  BY <1>1, <1>2 DEF Same, call, data
<1>4. TypeOK' /\ Containers'
  <2>1. \A u \in Threads : pc'[u] \notin {"idle", "reply"} => at[u] \in DOMAIN actions[u]
    BY <1>1, <1>2 DEF IInv, TypeOK
  <2> QED BY <1>1, <1>2, <2>1 DEF IInv, TypeOK, Containers, call, data
<1>5. ThreadInv(t)'
  <2>1. RelatedExists(t) /\ Fresh(t) /\ Session(t) /\ Json(t) /\ Left(t)
    BY DEF IInv, ThreadInv
  <2>2. Fresh(t)'
    BY <1>1, <1>2, <2>1 DEF Fresh, call, data
  <2>3. Json(t)'
    BY <1>1, <1>2, <2>1, TableStays DEF Json
  <2>4. RelatedExists(t)' /\ Session(t)' /\ Left(t)'
    BY <1>1, <1>2, <2>1 DEF RelatedExists, Session, Left, call, data
  <2> QED BY <2>2, <2>3, <2>4 DEF ThreadInv
<1>6. TableInv(t)'
  <2>1. Rows(t) /\ OwnIds(t) /\ Replied(t)
    BY DEF IInv, TableInv
  <2>2. \A i : Feed(t, i)' = Feed(t, i)
    BY <1>1 DEF Feed, call, data
  <2>3. Rows(t)'
    BY <1>1, <1>2, <2>1, <2>2, TableStays DEF Rows, Sent, call, data
  <2>4. OwnIds(t)'
    <3>1. UNCHANGED <<lastInsertId, generated, at, actions>>
      BY <1>1 DEF call, data
    <3>2. \A i : AddedBy(t, i)' = AddedBy(t, i)
      BY <1>1, TableStays
    <3>3. pc'[t] \notin {"results", "lastInsertId"}
      BY <1>2
    <3> QED BY <2>1, <3>1, <3>2, <3>3 DEF OwnIds
  <2>5. Replied(t)'
    BY <1>1, <1>2, <2>1, TableStays DEF Replied, call
  <2> QED BY <2>3, <2>4, <2>5 DEF TableInv
<1> QED BY <1>1, <1>2, <1>3, <1>4, <1>5, <1>6, StepKeeps

LEMMA ComposeKeeps == ASSUME IInv, NEW t \in Threads, Compose(t) PROVE IInv'
<1> DEFINE i == at[t]
<1>1. /\ pc[t] = "compose" /\ i \in DOMAIN actions[t]
      /\ UNCHANGED <<call, at, fetched, results, lastInsertId, jsonResult, generated,
                     replies, table>>
  BY Types DEF Compose
<1>2. /\ Pool' /\ leaked' \in 0 .. MaxConnections
      /\ pc' \in [Threads -> Phases] /\ open' \in [Threads -> BOOLEAN]
      /\ abandoned' \in [Threads -> Nat]
      /\ \A u \in Threads \ {t} : /\ pc'[u] = pc[u] /\ open'[u] = open[u]
                                  /\ abandoned'[u] = abandoned[u]
      /\ \/ pc'[t] = "execute" /\ open'[t] /\ abandoned'[t] = 0
         \/ pc'[t] = "refuse" /\ ~ open'[t] /\ abandoned'[t] = 1
  BY <1>1, MovesOn DEF Compose, ParameterFails, Phases
<1>3. Related(t, i) = Feed(t, i) /\ Feed(t, i) \in Nat
  <2>1. /\ actions[t][i].related \in 0 .. Len(actions[t]) /\ parameter[t][i] = 0
        /\ \A j \in DOMAIN actions[t] : j >= i => results[t][j] = 0
    <3>1. RelatedExists(t) /\ Fresh(t)
      BY DEF IInv, ThreadInv
    <3>2. at[t] \in Nat /\ actions[t] \in Seq(Action)
      BY Types
    <3> QED BY <1>1, <3>1, <3>2 DEF RelatedExists, Fresh
  <2>2. /\ actions[t] \in Seq(Action) /\ results[t] \in [DOMAIN actions[t] -> Nat]
        /\ i \in Nat
    BY Types
  <2> QED BY <1>1, <2>1, <2>2 DEF Related, Feed
<1>4. parameter' = [parameter EXCEPT ![t] = [@ EXCEPT ![i] = Feed(t, i)]]
  BY <1>3 DEF Compose
<1>5. /\ parameter'[t] = [parameter[t] EXCEPT ![i] = Feed(t, i)]
      /\ \A u \in Threads \ {t} : parameter'[u] = parameter[u]
      /\ parameter' = [u \in Threads |-> parameter'[u]]
  BY <1>4 DEF IInv, Containers
<1>6. \A u \in Threads \ {t} : Same(u)
  BY <1>1, <1>2, <1>5 DEF Same, call
<1>7. TypeOK' /\ Containers'
  <2>1. parameter'[t] \in [DOMAIN actions[t] -> Nat]
    BY <1>3, <1>5, Types
  <2>2. \A u \in Threads :
           /\ pc'[u] \notin {"idle", "reply"} => at[u] \in DOMAIN actions[u]
           /\ parameter'[u] \in [DOMAIN actions[u] -> Nat]
    BY <1>1, <1>2, <1>5, <2>1, Types
  <2> QED BY <1>1, <1>2, <1>5, <2>2 DEF IInv, TypeOK, Containers, call
<1>8. ThreadInv(t)'
  <2>1. Feed(t, i)' = Feed(t, i)
    BY <1>1 DEF Feed, call
  <2>2. parameter'[t][i] = Feed(t, i)
    BY <1>1, <1>5, Types
  <2>3. \A j \in DOMAIN actions[t] : j > i => parameter'[t][j] = parameter[t][j]
    BY <1>1, <1>5, Types
  <2>4. RelatedExists(t) /\ Fresh(t) /\ Session(t) /\ Json(t) /\ Left(t)
    BY DEF IInv, ThreadInv
  <2>5. Fresh(t)'
    BY <1>1, <1>2, <2>3, <2>4 DEF Fresh, call
  <2>6. Session(t)'
    BY <1>1, <1>2, <2>1, <2>2, <2>4 DEF Session
  <2>7. Json(t)'
    BY <1>1, <1>2, <2>4, TableStays DEF Json
  <2>8. RelatedExists(t)' /\ Left(t)'
    BY <1>1, <1>2, <2>4 DEF RelatedExists, Left, call
  <2> QED BY <2>5, <2>6, <2>7, <2>8 DEF ThreadInv
<1>9. TableInv(t)'
  <2>1. Rows(t) /\ OwnIds(t) /\ Replied(t)
    BY DEF IInv, TableInv
  <2>2. \A j : Feed(t, j)' = Feed(t, j)
    BY <1>1 DEF Feed, call
  <2>3. Rows(t)'
    BY <1>1, <1>2, <2>1, <2>2, TableStays DEF Rows, Sent, call
  <2>4. OwnIds(t)'
    <3>1. /\ pc'[t] \notin {"results", "lastInsertId"}
          /\ UNCHANGED <<lastInsertId, generated, at, actions>>
      BY <1>1, <1>2 DEF call
    <3>2. \A j : AddedBy(t, j)' = AddedBy(t, j)
      BY <1>1, TableStays
    <3> QED BY <1>1, <2>1, <3>1, <3>2 DEF OwnIds
  <2>5. Replied(t)'
    BY <1>1, <1>2, <2>1, TableStays DEF Replied, call
  <2> QED BY <2>3, <2>4, <2>5 DEF TableInv
<1> QED BY <1>1, <1>2, <1>6, <1>7, <1>8, <1>9, StepKeeps

LEMMA MakeResultsKeeps == ASSUME IInv, NEW t \in Threads, MakeResults(t) PROVE IInv'
<1> DEFINE i == at[t]
<1>1. /\ pc[t] = "results" /\ i \in DOMAIN actions[t]
      /\ UNCHANGED <<call, at, parameter, fetched, lastInsertId, jsonResult, generated,
                     replies, table>>
  BY Types DEF MakeResults
<1>2. /\ Pool' /\ leaked' \in 0 .. MaxConnections
      /\ pc' \in [Threads -> Phases] /\ open' \in [Threads -> BOOLEAN]
      /\ abandoned' \in [Threads -> Nat]
      /\ \A u \in Threads \ {t} : /\ pc'[u] = pc[u] /\ open'[u] = open[u]
                                  /\ abandoned'[u] = abandoned[u]
      /\ \/ pc'[t] = "lastInsertId" /\ open'[t] /\ abandoned'[t] = 0
         \/ pc'[t] = "refuse" /\ ~ open'[t] /\ abandoned'[t] = 1
  BY <1>1, MovesOn DEF MakeResults, Phases
<1>3. PICK n \in Nat : results' = [results EXCEPT ![t] = [@ EXCEPT ![i] = n]]
  <2>1. CASE results' = [results EXCEPT ![t] = [@ EXCEPT ![i] = fetched[t]]]
    BY <2>1, Types
  <2>2. CASE results' = results
    <3>1. results[t][i] \in Nat /\ results = [results EXCEPT ![t] = [@ EXCEPT ![i] = results[t][i]]]
      BY <1>1, Types DEF IInv, Containers
    <3> QED BY <2>2, <3>1
  <2> QED BY <2>1, <2>2 DEF MakeResults
<1>5. /\ results'[t] = [results[t] EXCEPT ![i] = n]
      /\ \A u \in Threads \ {t} : results'[u] = results[u]
      /\ results' = [u \in Threads |-> results'[u]]
  BY <1>3 DEF IInv, Containers
<1>6. \A u \in Threads \ {t} : Same(u)
  BY <1>1, <1>2, <1>5 DEF Same, call
<1>7. TypeOK' /\ Containers'
  <2>1. results'[t] \in [DOMAIN actions[t] -> Nat]
    BY <1>3, <1>5, Types
  <2>2. \A u \in Threads :
           /\ pc'[u] \notin {"idle", "reply"} => at[u] \in DOMAIN actions[u]
           /\ results'[u] \in [DOMAIN actions[u] -> Nat]
    BY <1>1, <1>2, <1>5, <2>1, Types
  <2> QED BY <1>1, <1>2, <1>5, <2>2 DEF IInv, TypeOK, Containers, call
<1>8. \A j \in DOMAIN actions[t] : j # i => results'[t][j] = results[t][j]
  BY <1>1, <1>5, Types
<1>9. ThreadInv(t)'
  <2>1. \A j \in DOMAIN actions[t] : j > i => results'[t][j] = results[t][j]
    BY <1>1, <1>8, Types
  <2>2. RelatedExists(t) /\ Fresh(t) /\ Session(t) /\ Json(t) /\ Left(t)
    BY DEF IInv, ThreadInv
  <2>3. Fresh(t)'
    BY <1>1, <1>2, <2>1, <2>2 DEF Fresh, call
  <2>4. Json(t)'
    BY <1>1, <1>2, <2>2, TableStays DEF Json
  <2>5. RelatedExists(t)' /\ Session(t)' /\ Left(t)'
    BY <1>1, <1>2, <2>2 DEF RelatedExists, Session, Left, call
  <2> QED BY <2>3, <2>4, <2>5 DEF ThreadInv
<1>10. TableInv(t)'
  <2>1. \A a \in Inserts(t) : a <= i => Feed(t, a)' = Feed(t, a)
    <3>1. SUFFICES ASSUME NEW a \in Inserts(t), a <= i PROVE Feed(t, a)' = Feed(t, a)
      OBVIOUS
    <3>2. i \in Nat /\ actions[t] \in Seq(Action) /\ a \in DOMAIN actions[t]
      BY Types DEF Inserts
    <3> QED BY <1>1, <1>8, <3>1, <3>2 DEF Feed, call
  <2>2. Rows(t) /\ OwnIds(t) /\ Replied(t)
    BY DEF IInv, TableInv
  <2>3. Rows(t)'
    BY <1>1, <1>2, <2>1, <2>2, TableStays DEF Rows, Sent, call
  <2>4. OwnIds(t)'
    <3>1. /\ pc[t] = "results"
          /\ UNCHANGED <<lastInsertId, generated, at, actions>>
      BY <1>1, <1>2 DEF call
    <3>2. \A j : AddedBy(t, j)' = AddedBy(t, j)
      BY <1>1, TableStays
    <3> QED BY <1>1, <2>2, <3>1, <3>2 DEF OwnIds
  <2>5. Replied(t)'
    BY <1>1, <1>2, <2>2, TableStays DEF Replied, call
  <2> QED BY <2>3, <2>4, <2>5 DEF TableInv
<1> QED BY <1>1, <1>2, <1>6, <1>7, <1>9, <1>10, StepKeeps

LEMMA GetLastInsertIDKeeps ==
    ASSUME IInv, NEW t \in Threads, GetLastInsertID(t) PROVE IInv'
<1> DEFINE i == at[t]
<1>1. /\ pc[t] = "lastInsertId" /\ i \in DOMAIN actions[t]
      /\ UNCHANGED <<call, at, parameter, fetched, results, jsonResult, generated,
                     replies, table>>
  BY Types DEF GetLastInsertID
<1>2. /\ Pool' /\ leaked' \in 0 .. MaxConnections
      /\ pc' \in [Threads -> Phases] /\ open' \in [Threads -> BOOLEAN]
      /\ abandoned' \in [Threads -> Nat]
      /\ \A u \in Threads \ {t} : /\ pc'[u] = pc[u] /\ open'[u] = open[u]
                                  /\ abandoned'[u] = abandoned[u]
      /\ \/ pc'[t] = "close" /\ open'[t] /\ abandoned'[t] = 0
         \/ pc'[t] = "refuse" /\ ~ open'[t] /\ abandoned'[t] = 1
  BY <1>1, MovesOn DEF GetLastInsertID, Phases
<1>3. PICK n \in Nat :
         /\ n = generated[t] \/ n = lastInsertId[t][i]
         /\ lastInsertId' = [lastInsertId EXCEPT ![t] = [@ EXCEPT ![i] = n]]
  <2>1. CASE lastInsertId' = [lastInsertId EXCEPT ![t] = [@ EXCEPT ![i] = generated[t]]]
    BY <2>1, Types
  <2>2. CASE lastInsertId' = lastInsertId
    <3>1. /\ lastInsertId[t][i] \in Nat
          /\ lastInsertId = [lastInsertId EXCEPT ![t] = [@ EXCEPT ![i] = lastInsertId[t][i]]]
      BY <1>1, Types DEF IInv, Containers
    <3> QED BY <2>2, <3>1
  <2> QED BY <2>1, <2>2 DEF GetLastInsertID
<1>5. /\ lastInsertId'[t] = [lastInsertId[t] EXCEPT ![i] = n]
      /\ \A u \in Threads \ {t} : lastInsertId'[u] = lastInsertId[u]
      /\ lastInsertId' = [u \in Threads |-> lastInsertId'[u]]
  BY <1>3 DEF IInv, Containers
<1>6. \A u \in Threads \ {t} : Same(u)
  BY <1>1, <1>2, <1>5 DEF Same, call
<1>7. TypeOK' /\ Containers'
  <2>1. lastInsertId'[t] \in [DOMAIN actions[t] -> Nat]
    BY <1>3, <1>5, Types
  <2>2. \A u \in Threads :
           /\ pc'[u] \notin {"idle", "reply"} => at[u] \in DOMAIN actions[u]
           /\ lastInsertId'[u] \in [DOMAIN actions[u] -> Nat]
    BY <1>1, <1>2, <1>5, <2>1, Types
  <2> QED BY <1>1, <1>2, <1>5, <2>2 DEF IInv, TypeOK, Containers, call
<1>8. ThreadInv(t)'
  <2>1. RelatedExists(t) /\ Fresh(t) /\ Session(t) /\ Json(t) /\ Left(t)
    BY DEF IInv, ThreadInv
  <2>2. Json(t)'
    BY <1>1, <1>2, <2>1, TableStays DEF Json
  <2>3. RelatedExists(t)' /\ Fresh(t)' /\ Session(t)' /\ Left(t)'
    BY <1>1, <1>2, <2>1 DEF RelatedExists, Fresh, Session, Left, call
  <2> QED BY <2>2, <2>3 DEF ThreadInv
<1>9. TableInv(t)'
  <2>1. Rows(t) /\ OwnIds(t) /\ Replied(t)
    BY DEF IInv, TableInv
  <2>2. \A j : Feed(t, j)' = Feed(t, j)
    BY <1>1 DEF Feed, call
  <2>3. Rows(t)'
    BY <1>1, <1>2, <2>1, <2>2, TableStays DEF Rows, Sent, call
  <2>4. OwnIds(t)'
    <3>1. \A j \in DOMAIN actions[t] :
             lastInsertId'[t][j] = IF j = i THEN n ELSE lastInsertId[t][j]
      BY <1>1, <1>5, Types
    <3>2. n # 0 => n \in AddedBy(t, i)
      <4>1. generated[t] # 0 => generated[t] \in AddedBy(t, i)
        BY <1>1, <2>1 DEF OwnIds
      <4>2. lastInsertId[t][i] # 0 => lastInsertId[t][i] \in AddedBy(t, i)
        BY <1>1, <2>1 DEF OwnIds
      <4> QED BY <1>3, <4>1, <4>2
    <3>3. \A j \in DOMAIN actions[t] :
             lastInsertId'[t][j] # 0 => lastInsertId'[t][j] \in AddedBy(t, j)
      BY <2>1, <3>1, <3>2 DEF OwnIds
    <3>4. pc'[t] \notin {"results", "lastInsertId"} /\ DOMAIN actions'[t] = DOMAIN actions[t]
      BY <1>1, <1>2 DEF call
    <3>5. \A j : AddedBy(t, j)' = AddedBy(t, j)
      BY <1>1, TableStays
    <3> QED BY <3>3, <3>4, <3>5 DEF OwnIds
  <2>5. Replied(t)'
    BY <1>1, <1>2, <2>1, TableStays DEF Replied, call
  <2> QED BY <2>3, <2>4, <2>5 DEF TableInv
<1> QED BY <1>1, <1>2, <1>6, <1>7, <1>8, <1>9, StepKeeps

\* The row an insert adds, and what it leaves of the others.
LEMMA RowAdded ==
    ASSUME IInv, NEW t \in Threads, NEW row \in Row,
           table' = Append(table, row), row.request = request[t], UNCHANGED call
    PROVE  LET k == Len(table) + 1
           IN  /\ k \in Nat /\ k \notin Added(t) /\ Added(t)' = Added(t) \cup {k}
               /\ table' \in Seq(Row)
               /\ table'[k] = row
               /\ \A m \in Added(t) : table'[m] = table[m] /\ m < k /\ m \in Nat
<1>1. table \in Seq(Row)
  BY Types
<1>2. /\ DOMAIN table' = DOMAIN table \cup {Len(table) + 1}
      /\ table'[Len(table) + 1] = row
      /\ table' \in Seq(Row)
      /\ \A k \in DOMAIN table : table'[k] = table[k] /\ k \in Nat /\ k < Len(table) + 1
      /\ Len(table) \in Nat
  <2>1. /\ Append(table, row) \in Seq(Row)
        /\ Len(table) \in Nat
        /\ DOMAIN Append(table, row) = DOMAIN table \cup {Len(table) + 1}
        /\ Append(table, row)[Len(table) + 1] = row
        /\ \A k \in DOMAIN table :
              Append(table, row)[k] = table[k] /\ k \in Nat /\ k < Len(table) + 1
    BY <1>1, Appended
  <2> QED BY <2>1
<1> QED BY <1>2 DEF Added, call

LEMMA ExecuteKeeps == ASSUME IInv, NEW t \in Threads, Execute(t) PROVE IInv'
<1> DEFINE i == at[t]
           row == [request |-> request[t], action |-> i, value |-> parameter[t][i]]
<1>1. /\ pc[t] = "execute" /\ i \in DOMAIN actions[t] /\ i \in Nat
      /\ row \in Row
      /\ UNCHANGED <<call, at, parameter, results, lastInsertId, jsonResult, replies>>
  BY Types DEF Execute, Row
<1>2. /\ Pool' /\ leaked' \in 0 .. MaxConnections
      /\ pc' \in [Threads -> Phases] /\ open' \in [Threads -> BOOLEAN]
      /\ abandoned' \in [Threads -> Nat]
      /\ \A u \in Threads \ {t} : /\ pc'[u] = pc[u] /\ open'[u] = open[u]
                                  /\ abandoned'[u] = abandoned[u]
      /\ \/ pc'[t] = "results" /\ open'[t] /\ abandoned'[t] = 0
         \/ pc'[t] = "refuse" /\ ~ open'[t] /\ abandoned'[t] = 1
  BY <1>1, MovesOn DEF Execute, Phases
\* It inserts its row, or leaves the table; then it selects, or fails.
<1>3. \/ /\ i \in Inserts(t) /\ table' = Append(table, row)
         /\ generated' = [generated EXCEPT ![t] = Len(table')] /\ fetched' \in [Threads -> Nat]
      \/ /\ i \in Inserts(t) => pc'[t] = "refuse"
         /\ table' = table /\ generated' = generated /\ fetched' \in [Threads -> Nat]
  <2>1. table \in Seq(Row) /\ fetched \in [Threads -> Nat]
    BY Types
  <2>2. CASE TakeEffect(t) /\ Current(t).op = "insert"
    <3>1. /\ table' = Append(table, row)
          /\ generated' = [generated EXCEPT ![t] = Len(table')]
          /\ fetched' = [fetched EXCEPT ![t] = 0]
      BY <2>2 DEF TakeEffect
    <3>2. i \in Inserts(t)
      BY <1>1, <2>2 DEF Current, Inserts
    <3> QED BY <2>1, <3>1, <3>2
  <2>3. CASE TakeEffect(t) /\ Current(t).op # "insert"
    <3>1. i \notin Inserts(t)
      BY <2>3 DEF Current, Inserts
    <3>2. fetched' = [fetched EXCEPT ![t] = Len(table)] /\ table' = table /\ generated' = generated
      BY <2>3 DEF TakeEffect
    <3> QED BY <2>1, <3>1, <3>2
  <2>4. CASE Abandon(t) /\ UNCHANGED <<table, generated, fetched>>
    BY <2>1, <2>4, Types DEF Abandon, Goto
  <2> QED BY <2>2, <2>3, <2>4 DEF Execute
<1>4. \A u \in Threads \ {t} : Same(u)
  BY <1>1, <1>2, <1>3, Types DEF Same, call
<1>5. Rows(t) /\ OwnIds(t) /\ Replied(t) /\ Session(t) /\ generated[t] = 0
      /\ parameter[t][i] = Feed(t, i)
  BY <1>1 DEF IInv, ThreadInv, TableInv, Session
<1>6. \A j : Feed(t, j)' = Feed(t, j)
  BY <1>1 DEF Feed, call
<1>7. ThreadInv(t)'
  <2>1. RelatedExists(t) /\ Fresh(t) /\ Json(t) /\ Left(t)
    BY DEF IInv, ThreadInv
  <2>2. \A r, n : Latest(t, r, n)' <=> Latest(t, r, n)
    BY <1>1 DEF Latest, FinalActions, call
  <2>3. Json(t)'
    BY <1>1, <1>2, <2>1, <2>2 DEF Json, call
  <2>4. RelatedExists(t)' /\ Fresh(t)' /\ Session(t)' /\ Left(t)'
    BY <1>1, <1>2, <2>1 DEF RelatedExists, Fresh, Session, Left, call
  <2> QED BY <2>3, <2>4 DEF ThreadInv
<1>8. table' \in Seq(Row) /\ generated' \in [Threads -> Nat]
  <2>1. CASE table' = Append(table, row) /\ generated' = [generated EXCEPT ![t] = Len(table')]
    <3>1. table' \in Seq(Row)
      BY <1>1, <2>1, RowAdded
    <3> QED BY <2>1, <3>1, Types
  <2>2. CASE table' = table /\ generated' = generated
    BY <2>2, Types
  <2> QED BY <1>3, <2>1, <2>2
<1>9. TypeOK' /\ Containers'
  <2>1. \A u \in Threads : pc'[u] \notin {"idle", "reply"} => at[u] \in DOMAIN actions[u]
    BY <1>1, <1>2, Types
  <2> QED BY <1>1, <1>2, <1>3, <1>8, <2>1 DEF IInv, TypeOK, Containers, call
<1>10. TableInv(t)'
  <2>1. CASE /\ i \in Inserts(t) /\ table' = Append(table, row)
             /\ generated' = [generated EXCEPT ![t] = Len(table')]
    <3> DEFINE k == Len(table) + 1
    <3>1. /\ k \in Nat /\ k \notin Added(t) /\ Added(t)' = Added(t) \cup {k}
          /\ table'[k] = row
          /\ \A m \in Added(t) : table'[m] = table[m] /\ m < k /\ m \in Nat
      BY <1>1, <2>1, RowAdded
    <3>2. generated'[t] = k
      BY <2>1, Types
    <3>3. Inserts(t)' = Inserts(t)
      BY <1>1 DEF Inserts, call
    <3>4. \A j : InsertIsThere(t, j) => InsertIsThere(t, j)'
      BY <3>1 DEF InsertIsThere
    <3>5. InsertIsThere(t, i)'
      BY <1>1, <3>1 DEF InsertIsThere
    <3>6. Rows(t)'
      <4>1. ASSUME NEW m \in Added(t)'
            PROVE  /\ table'[m].action \in Inserts(t) /\ table'[m].action <= i
                   /\ table'[m].value = Feed(t, table'[m].action)
        <5>1. CASE m \in Added(t)
          BY <1>5, <3>1, <5>1 DEF Rows
        <5>2. CASE m = k
          BY <1>1, <1>5, <2>1, <3>1, <5>2
        <5> QED BY <3>1, <5>1, <5>2
      <4>2. \A m, n \in Added(t)' : m < n => table'[m].action < table'[n].action
        BY <1>1, <1>5, <3>1 DEF Rows
      <4>3. \A j \in Inserts(t) : j < i \/ j = i => InsertIsThere(t, j)'
        BY <1>1, <1>5, <3>4, <3>5 DEF Rows
      <4> QED BY <1>1, <1>2, <1>6, <3>3, <4>1, <4>2, <4>3 DEF Rows
    <3>7. OwnIds(t)'
      <4>1. k \in AddedBy(t, i)' /\ \A j : \A m \in AddedBy(t, j) : m \in AddedBy(t, j)'
        BY <1>1, <3>1 DEF AddedBy
      <4> QED BY <1>1, <1>5, <3>2, <4>1 DEF OwnIds, call
    <3>8. Replied(t)'
      BY <1>1, <1>5 DEF Replied
    <3> QED BY <3>6, <3>7, <3>8 DEF TableInv
  <2>2. CASE /\ i \in Inserts(t) => pc'[t] = "refuse"
             /\ table' = table /\ generated' = generated
    <3>1. Rows(t)'
      BY <1>1, <1>2, <1>5, <1>6, <2>2, TableStays DEF Rows, Sent, call
    <3>2. OwnIds(t)'
      BY <1>1, <1>2, <1>5, <2>2, TableStays DEF OwnIds, call
    <3>3. Replied(t)'
      BY <1>1, <1>5 DEF Replied
    <3> QED BY <3>1, <3>2, <3>3 DEF TableInv
  <2> QED BY <1>3, <2>1, <2>2
<1>11. \/ table' = table
       \/ \E r \in Row :
             table' = Append(table, r) /\ r.request = request[t]
  BY <1>1, <1>3
<1> QED BY <1>1, <1>2, <1>11, <1>4, <1>7, <1>9, <1>10, StepKeeps

LEMMA CreateJSONResultKeeps ==
    ASSUME IInv, NEW t \in Threads, CreateJSONResult(t) PROVE IInv'
<1> DEFINE i == at[t]
<1>1. /\ pc[t] = "json" /\ i \in DOMAIN actions[t] /\ i \in Nat \ {0}
      /\ actions[t] \in Seq(Action) /\ jsonResult[t] \in Nat
      /\ UNCHANGED <<call, data, open, generated, replies, table, leaked, abandoned>>
  BY Types DEF CreateJSONResult
<1> DEFINE J == IF actions[t][i].final THEN i ELSE jsonResult[t]
\* The loop goes on, ends, or the action fails.
<1>2. \/ /\ i < Len(actions[t]) /\ jsonResult' = [jsonResult EXCEPT ![t] = J]
         /\ at' = [at EXCEPT ![t] = i + 1] /\ pc' = [pc EXCEPT ![t] = "connect"]
      \/ /\ i >= Len(actions[t]) /\ jsonResult' = [jsonResult EXCEPT ![t] = J]
         /\ at' = at /\ pc' = [pc EXCEPT ![t] = "reply"]
      \/ jsonResult' = jsonResult /\ at' = at /\ pc' = [pc EXCEPT ![t] = "refuse"]
  BY <1>1 DEF CreateJSONResult, Current, Goto
<1>3. /\ pc' \in [Threads -> Phases] /\ at' \in [Threads -> Nat \ {0}]
      /\ jsonResult' \in [Threads -> Nat]
      /\ \A u \in Threads \ {t} : /\ pc'[u] = pc[u] /\ at'[u] = at[u]
                                  /\ jsonResult'[u] = jsonResult[u]
  <2>1. J \in Nat
    BY <1>1
  <2> HIDE DEF J
  <2>2. i + 1 \in Nat \ {0}
    BY <1>1
  <2>3. CASE /\ jsonResult' = [jsonResult EXCEPT ![t] = J]
             /\ at' = [at EXCEPT ![t] = i + 1] /\ pc' = [pc EXCEPT ![t] = "connect"]
    BY <2>1, <2>2, <2>3, Types DEF Phases
  <2>4. CASE /\ jsonResult' = [jsonResult EXCEPT ![t] = J]
             /\ at' = at /\ pc' = [pc EXCEPT ![t] = "reply"]
    BY <2>1, <2>4, Types DEF Phases
  <2>5. CASE jsonResult' = jsonResult /\ at' = at /\ pc' = [pc EXCEPT ![t] = "refuse"]
    BY <2>5, Types DEF Phases
  <2> QED BY <1>2, <2>3, <2>4, <2>5
<1>4. \/ /\ i < Len(actions[t]) /\ jsonResult'[t] = J /\ at'[t] = i + 1 /\ pc'[t] = "connect"
      \/ /\ i >= Len(actions[t]) /\ jsonResult'[t] = J /\ at'[t] = i /\ pc'[t] = "reply"
      \/ jsonResult'[t] = jsonResult[t] /\ at'[t] = i /\ pc'[t] = "refuse"
  BY <1>2, Types
<1>5. \A u \in Threads \ {t} : Same(u)
  BY <1>1, <1>3 DEF Same, call, data
<1>6. TypeOK' /\ Containers'
  <2>1. \A u \in Threads : pc'[u] \notin {"idle", "reply"} => at'[u] \in DOMAIN actions[u]
    <3>1. pc'[t] \notin {"idle", "reply"} => at'[t] \in DOMAIN actions[t]
      BY <1>1, <1>4
    <3> QED BY <1>3, <3>1, Types
  <2> QED BY <1>1, <1>3, <2>1 DEF IInv, TypeOK, Containers, call, data
<1>7. Pool'
  BY <1>1 DEF IInv, Pool, Connections, Holders
<1>8. Latest(t, J, i)
  <2>1. Latest(t, jsonResult[t], i - 1)
    BY <1>1 DEF IInv, ThreadInv, Json
  <2>2. \A j \in FinalActions(t) : j \in Nat /\ (j <= i <=> j <= i - 1 \/ j = i)
    BY <1>1 DEF FinalActions
  <2>3. CASE actions[t][i].final
    BY <1>1, <2>2, <2>3 DEF Latest, FinalActions
  <2>4. CASE ~ actions[t][i].final
    <3>1. \A j \in FinalActions(t) : j <= i <=> j <= i - 1
      BY <2>2, <2>4 DEF FinalActions
    <3>2. jsonResult[t] <= i - 1 => jsonResult[t] <= i
      BY <1>1
    <3> QED BY <2>1, <2>4, <3>1, <3>2 DEF Latest
  <2> QED BY <2>3, <2>4
<1>9. ThreadInv(t)'
  <2>1. RelatedExists(t) /\ Fresh(t) /\ Session(t) /\ Json(t) /\ Left(t)
    BY DEF IInv, ThreadInv
  <2>2. \A r, n : Latest(t, r, n)' <=> Latest(t, r, n)
    BY <1>1, TableStays
  <2>3. Json(t)'
    <3>1. pc'[t] = "reply" => \A j \in DOMAIN actions[t] : j <= i
      BY <1>1, <1>4
    <3> HIDE DEF J
    <3>3. DOMAIN actions'[t] = DOMAIN actions[t] /\ Latest(t, jsonResult[t], i - 1)
      BY <1>1, <2>1 DEF Json, call
    <3>4. CASE jsonResult'[t] = J /\ at'[t] = i + 1 /\ pc'[t] = "connect"
      <4>1. at'[t] - 1 = i
        BY <1>1, <3>4
      <4>2. FinalActions(t)' = FinalActions(t)
        BY <1>1, TableStays
      <4> QED BY <1>8, <3>4, <4>1, <4>2 DEF Json, Latest
    <3>5. CASE jsonResult'[t] = J /\ at'[t] = i /\ pc'[t] = "reply"
      BY <1>8, <2>2, <3>1, <3>3, <3>5 DEF Json
    <3>6. CASE jsonResult'[t] = jsonResult[t] /\ at'[t] = i /\ pc'[t] = "refuse"
      BY <2>2, <3>3, <3>6 DEF Json
    <3> QED BY <1>4, <3>4, <3>5, <3>6
  <2>4. Fresh(t)'
    BY <1>1, <1>4, <2>1 DEF Fresh, call, data
  <2>5. RelatedExists(t)' /\ Session(t)' /\ Left(t)'
    BY <1>1, <1>4, <2>1 DEF RelatedExists, Session, Left, call, data
  <2> QED BY <2>3, <2>4, <2>5 DEF ThreadInv
<1>10. TableInv(t)'
  <2>1. Rows(t) /\ OwnIds(t) /\ Replied(t)
    BY DEF IInv, TableInv
  <2>2. \A j : Feed(t, j)' = Feed(t, j)
    BY <1>1 DEF Feed, call, data
  <2>3. \A j \in Inserts(t) : j \in Nat
    BY <1>1 DEF Inserts
  <2>4. Rows(t)'
    <3>1. \A j \in Inserts(t) : j <= i => InsertIsThere(t, j)
      BY <1>1, <2>1, <2>3 DEF Rows, Sent
    <3> QED BY <1>1, <1>4, <2>1, <2>2, <2>3, <3>1, TableStays DEF Rows, Sent
  <2>5. OwnIds(t)'
    BY <1>1, <1>4, <2>1, TableStays DEF OwnIds, call, data
  <2>6. Replied(t)'
    BY <1>1, <1>4, <2>1 DEF Replied
  <2> QED BY <2>4, <2>5, <2>6 DEF TableInv
<1> QED BY <1>1, <1>5, <1>6, <1>7, <1>9, <1>10, StepKeeps

LEMMA SendKeeps ==
    ASSUME IInv, NEW t \in Threads, NEW r \in Reply, Goto(t, "idle"), Send(t, r.status, r.body),
           \/ pc[t] = "refuse" /\ r.status = 400
           \/ pc[t] = "reply" /\ r.status = 200 /\ r.body = jsonResult[t]
    PROVE  IInv'
<1>1. /\ pc[t] \in {"refuse", "reply"} /\ pc'[t] = "idle" /\ replies[t] = <<>>
      /\ UNCHANGED <<call, at, data, jsonResult, open, generated, table, leaked, abandoned>>
      /\ \A u \in Threads \ {t} : pc'[u] = pc[u]
  <2>1. Replied(t)
    BY DEF IInv, TableInv
  <2> QED BY <2>1, Types DEF Send, Goto, Replied
<1>2. /\ replies'[t] = <<r>> /\ replies' \in [Threads -> Seq(Reply)]
      /\ \A u \in Threads \ {t} : replies'[u] = replies[u]
  <2>1. r = [status |-> r.status, body |-> r.body]
    BY DEF Reply
  <2>2. replies' = [replies EXCEPT ![t] = <<r>>]
    <3>1. Append(replies[t], r) = <<r>>
      BY <1>1
    <3> QED BY <2>1, <3>1 DEF Send
  <2> QED BY <2>2, Types
<1>3. \A u \in Threads \ {t} : Same(u)
  BY <1>1, <1>2 DEF Same, call, data
<1>8. /\ Added(t)' = Added(t) /\ Inserts(t)' = Inserts(t)
      /\ \A i : AddedBy(t, i)' = AddedBy(t, i)
      /\ \A i : InsertIsThere(t, i)' <=> InsertIsThere(t, i)
      /\ \A q, n : Latest(t, q, n)' <=> Latest(t, q, n)
  <2>1. UNCHANGED <<call, table>>
    BY <1>1
  <2> QED BY <2>1, TableStays
<1>4. TypeOK' /\ Containers'
  <2>1. pc' \in [Threads -> Phases]
    BY Types DEF Goto, Phases
  <2>2. \A u \in Threads : pc'[u] \notin {"idle", "reply"} => at[u] \in DOMAIN actions[u]
    BY <1>1, Types
  <2>3. TypeOK'
    BY <1>1, <1>2, <2>1, <2>2 DEF IInv, TypeOK, call, data
  <2>4. Containers'
    BY <1>1 DEF IInv, Containers, data
  <2> QED BY <2>3, <2>4
<1>5. Pool'
  BY <1>1 DEF IInv, Pool, Connections, Holders
<1>6. ThreadInv(t)'
  <2>1. RelatedExists(t) /\ Fresh(t) /\ Session(t) /\ Json(t) /\ Left(t)
    BY DEF IInv, ThreadInv
  <2>2. Left(t)'
    BY <1>1, <1>2, <2>1 DEF Left
  <2>3. RelatedExists(t)' /\ Fresh(t)' /\ Session(t)' /\ Json(t)'
    BY <1>1, <2>1 DEF RelatedExists, Fresh, Session, Json, call, data
  <2> QED BY <2>2, <2>3 DEF ThreadInv
<1>7. TableInv(t)'
  <2>1. Rows(t) /\ OwnIds(t) /\ Json(t)
    BY DEF IInv, ThreadInv, TableInv
  <2>2. \A j : Feed(t, j)' = Feed(t, j)
    BY <1>1 DEF Feed, call, data
  <2>3. Rows(t)'
    BY <1>1, <2>1, <2>2, TableStays DEF Rows, Sent
  <2>4. OwnIds(t)'
    <3>1. /\ pc'[t] \notin {"results", "lastInsertId"} /\ DOMAIN actions'[t] = DOMAIN actions[t]
          /\ lastInsertId'[t] = lastInsertId[t]
      BY <1>1 DEF call, data
    <3>2. \A j : AddedBy(t, j)' = AddedBy(t, j)
      BY <1>8
    <3> QED BY <2>1, <3>1, <3>2 DEF OwnIds
  <2>5. Replied(t)'
    <3>1. CASE r.status = 400
      BY <1>1, <1>2, <3>1 DEF Replied
    <3>2. CASE pc[t] = "reply" /\ r.body = jsonResult[t]
      <4>1. /\ \A j \in DOMAIN actions[t] : j <= at[t]
            /\ Latest(t, r.body, at[t]) /\ at[t] \in Nat /\ actions[t] \in Seq(Action)
        BY <2>1, <3>2, Types DEF Json
      <4>2. \A j \in Inserts(t) : j \in Nat /\ j <= at[t]
        BY <4>1 DEF Inserts
      <4>3. \A j \in Inserts(t) : InsertIsThere(t, j)
        BY <2>1, <3>2, <4>1, <4>2 DEF Rows, Sent
      <4>4. Latest(t, r.body, Len(actions[t]))
        BY <4>1 DEF Latest, FinalActions
      <4>5. Len(replies'[t]) = 1 /\ replies'[t][1] = r
        BY <1>2
      <4>6. /\ \A j \in Inserts(t)' : InsertIsThere(t, j)'
            /\ Latest(t, r.body, Len(actions[t]))'
        <5>1. actions' = actions
          BY <1>1 DEF call
        <5> QED BY <1>8, <4>3, <4>4, <5>1 DEF Latest
      <4> QED BY <1>1, <4>5, <4>6 DEF Replied
    <3> QED BY <3>1, <3>2
  <2> QED BY <2>3, <2>4, <2>5 DEF TableInv
<1> QED BY <1>1, <1>3, <1>4, <1>5, <1>6, <1>7, StepKeeps

LEMMA WaitTimeoutKeeps == ASSUME IInv, WaitTimeout PROVE IInv'
<1>1. /\ leaked > 0 /\ leaked' = leaked - 1
      /\ UNCHANGED <<call, pc, at, data, jsonResult, open, generated, replies, table, abandoned>>
  BY DEF WaitTimeout
<1>2. leaked \in 0 .. MaxConnections /\ leaked' \in 0 .. MaxConnections
  BY <1>1, ConstantsAssumption DEF IInv, TypeOK
<1>3. TypeOK' /\ Containers' /\ Requests'
  BY <1>1, <1>2 DEF IInv, TypeOK, Containers, Requests, call, data
<1>4. Pool'
  <2>1. Holders' = Holders /\ Cardinality(Holders) \in Nat
    BY <1>1, FS_CardinalityType DEF IInv, Pool, Holders
  <2> QED BY <1>1, <1>2, <2>1, ConstantsAssumption DEF IInv, Pool, Connections
<1>5. \A t \in Threads : Same(t) /\ RowsKept(t)
  BY <1>1 DEF Same, RowsKept, Added, call, data
<1>6. \A t \in Threads : ThreadInv(t)' /\ TableInv(t)'
  BY <1>5, SameIsKept DEF IInv
<1> QED BY <1>3, <1>4, <1>6 DEF IInv

\* Every step keeps the inductive invariant.
LEMMA NextIInv == IInv /\ [Next]_vars => IInv'
<1> SUFFICES ASSUME IInv, [Next]_vars PROVE IInv'
  OBVIOUS
<1>1. ASSUME NEW t \in Threads, Answer(t) PROVE IInv'
  <2>1. [status |-> 200, body |-> jsonResult[t]] \in Reply
    BY Types DEF Reply
  <2> QED BY <1>1, <2>1, SendKeeps DEF Answer
<1>2. ASSUME NEW t \in Threads, Refuse(t) PROVE IInv'
  <2>1. [status |-> 400, body |-> 0] \in Reply
    BY DEF Reply
  <2> QED BY <1>2, <2>1, SendKeeps DEF Refuse
<1>3. ASSUME NEW t \in Threads, Work(t) PROVE IInv'
  BY <1>3, ConnectKeeps, ComposeKeeps, ExecuteKeeps, MakeResultsKeeps, GetLastInsertIDKeeps,
     CloseKeeps, VerifyConditionKeeps, CreateJSONResultKeeps DEF Work
<1>4. CASE UNCHANGED vars
  <2>1. TypeOK' /\ Containers' /\ Requests' /\ Pool'
    BY <1>4 DEF vars, IInv, TypeOK, Containers, Requests, Pool, Connections, Holders, call, data
  <2>2. \A t \in Threads : Same(t) /\ RowsKept(t)
    BY <1>4 DEF vars, Same, RowsKept, Added, call, data
  <2>3. \A t \in Threads : ThreadInv(t)' /\ TableInv(t)'
    BY <2>2, SameIsKept DEF IInv
  <2> QED BY <2>1, <2>3 DEF IInv
<1> QED BY <1>1, <1>2, <1>3, <1>4, ArriveKeeps, WaitTimeoutKeeps DEF Next, Process

\* The inductive invariant holds in every reachable state.
LEMMA Invariance == Spec => []IInv
BY InitIInv, NextIInv, PTL DEF Spec

-------------------------------------------------------------------------------
(* What follows                                                            *)

\* An action has at most one row of a request: of two rows of the request the
\* later is of a later action.
LEMMA OneRow ==
    ASSUME IInv, NEW t \in Threads, NEW i
    PROVE  AddedBy(t, i) = {} \/ \E k \in Added(t) : AddedBy(t, i) = {k}
<1>1. \A k, m \in AddedBy(t, i) : k \in Nat /\ m \in Nat /\ table[k].action \in Nat
  <2>1. table \in Seq(Row)
    BY Types
  <2>2. ASSUME NEW k \in DOMAIN table PROVE k \in Nat /\ table[k].action \in Nat
    <3>1. k \in Nat /\ table[k] \in Row
      BY <2>1, ElementOfSeq
    <3> QED BY <3>1 DEF Row
  <2> QED BY <2>2 DEF AddedBy, Added
<1>2. Rows(t)
  BY DEF IInv, TableInv
<1>3. \A k, m \in AddedBy(t, i) : ~ (k < m)
  <2> SUFFICES ASSUME NEW k \in AddedBy(t, i), NEW m \in AddedBy(t, i), k < m PROVE FALSE
    OBVIOUS
  <2>1. k \in Added(t) /\ m \in Added(t) /\ table[k].action = i /\ table[m].action = i
    BY DEF AddedBy
  <2>2. table[k].action < table[m].action
    BY <1>2, <2>1 DEF Rows
  <2> QED BY <1>1, <2>1, <2>2
<1>4. \A k, m \in AddedBy(t, i) : k = m
  BY <1>1, <1>3
<1>5. AddedBy(t, i) \subseteq Added(t)
  BY DEF AddedBy
<1> QED BY <1>4, <1>5

LEMMA OneRowAtMost ==
    ASSUME IInv, NEW t \in Threads, NEW i
    PROVE  /\ Cardinality(AddedBy(t, i)) <= 1
           /\ InsertIsThere(t, i) => Cardinality(AddedBy(t, i)) = 1
<1>1. CASE AddedBy(t, i) = {}
  <2>1. ~ InsertIsThere(t, i)
    BY <1>1 DEF InsertIsThere, AddedBy
  <2> QED BY <1>1, <2>1, FS_EmptySet
<1>2. CASE \E k \in Added(t) : AddedBy(t, i) = {k}
  <2>1. PICK k \in Added(t) : AddedBy(t, i) = {k}
    BY <1>2
  <2>2. Cardinality(AddedBy(t, i)) = 1
    BY <2>1, FS_Singleton
  <2> QED BY <2>2
<1> QED BY <1>1, <1>2, OneRow

\* Types of the variables.
THEOREM TypeCorrect == Spec => []TypeOK
<1>1. IInv => TypeOK
  BY DEF IInv
<1> QED BY <1>1, Invariance, PTL

\* A request's effects are those of a prefix of its actions, each once and in
\* their order, whatever fails and whoever else writes.
THEOREM EffectsOfAPrefix == Spec => []EffectsArePrefix
<1>1. IInv => EffectsArePrefix
  <2> SUFFICES ASSUME IInv, NEW t \in Threads
               PROVE  /\ \A i \in Inserts(t) :
                            /\ i < at[t] \/ (i = at[t] /\ Sent(t))
                                  => Cardinality(AddedBy(t, i)) = 1
                            /\ Cardinality(AddedBy(t, i)) <= 1
                      /\ \A k \in Added(t) :
                            /\ table[k].action \in Inserts(t) /\ table[k].action <= at[t]
                            /\ \A m \in Added(t) : k < m => table[k].action < table[m].action
    BY DEF EffectsArePrefix
  <2>1. Rows(t)
    BY DEF IInv, TableInv
  <2> QED BY <2>1, OneRowAtMost DEF Rows
<1> QED BY <1>1, Invariance, PTL

\* A request gets one reply, and what it says is true.
THEOREM RepliesAreTrue == Spec => []ReplyIsTrue
<1>1. IInv => ReplyIsTrue
  <2> SUFFICES ASSUME IInv, NEW t \in Threads
               PROVE  /\ Len(replies[t]) <= 1
                      /\ replies[t] # <<>> /\ replies[t][1].status = 200 =>
                            /\ \A i \in Inserts(t) : Cardinality(AddedBy(t, i)) = 1
                            /\ replies[t][1].body =
                                  IF FinalActions(t) = {} THEN 0 ELSE Last(FinalActions(t))
    BY DEF ReplyIsTrue
  <2>1. Replied(t) /\ actions[t] \in Seq(Action)
    BY Types DEF IInv, TableInv
  <2>2. Len(replies[t]) <= 1
    <3>1. CASE replies[t] = <<>>
      BY <3>1
    <3>2. CASE replies[t] # <<>>
      <4>1. Len(replies[t]) = 1
        BY <2>1, <3>2 DEF Replied
      <4> QED BY <4>1
    <3> QED BY <3>1, <3>2
  <2>3. ASSUME replies[t] # <<>>, replies[t][1].status = 200
        PROVE  /\ \A i \in Inserts(t) : Cardinality(AddedBy(t, i)) = 1
               /\ replies[t][1].body =
                     IF FinalActions(t) = {} THEN 0 ELSE Last(FinalActions(t))
    <3> DEFINE r == replies[t][1].body
    <3>1. (\A i \in Inserts(t) : InsertIsThere(t, i)) /\ Latest(t, r, Len(actions[t]))
      BY <2>1, <2>3 DEF Replied
    <3>2. \A i \in FinalActions(t) : i \in Nat /\ i <= Len(actions[t])
      BY <2>1 DEF FinalActions
    <3>3. CASE FinalActions(t) = {}
      BY <3>1, <3>3, OneRowAtMost DEF Latest
    <3>4. CASE FinalActions(t) # {}
      <4>1. r \in FinalActions(t) /\ \A i \in FinalActions(t) : i <= r
        BY <3>1, <3>2, <3>4 DEF Latest
      <4>2. \A s \in FinalActions(t) : (\A i \in FinalActions(t) : i <= s) => s = r
        BY <3>2, <4>1
      <4>3. Last(FinalActions(t)) = r
        BY <4>1, <4>2 DEF Last
      <4> QED BY <3>1, <3>4, <4>3, OneRowAtMost
    <3> QED BY <3>3, <3>4
  <2> QED BY <2>2, <2>3
<1> QED BY <1>1, Invariance, PTL

\* The last insert id an action has is that of the row it inserted itself.
THEOREM LastInsertIdsAreOwn == Spec => []LastInsertIdIsOwn
<1>1. IInv => LastInsertIdIsOwn
  BY DEF IInv, TableInv, OwnIds, LastInsertIdIsOwn
<1> QED BY <1>1, Invariance, PTL

\* A row holds what the earlier action it is fed from has read in the same request.
THEOREM RowsAreFedFromTheRequest == Spec => []RowsAreFed
<1>1. IInv => RowsAreFed
  BY DEF IInv, TableInv, Rows, Feed, RowsAreFed
<1> QED BY <1>1, Invariance, PTL

\* The server's connections stay within its limit, and only a request that
\* fails leaves one behind.
THEOREM ConnectionsComeBack == Spec => []ConnectionsAreReturned
<1>1. IInv => ConnectionsAreReturned
  <2> SUFFICES ASSUME IInv, NEW t \in Threads
               PROVE  /\ open[t] => abandoned[t] = 0
                      /\ abandoned[t] # 0 =>
                            /\ abandoned[t] = 1
                            /\ pc[t] = "refuse"
                               \/ (pc[t] = "idle" /\ replies[t][1].status = 400)
    BY DEF IInv, Pool, ConnectionsAreReturned
  <2>1. Session(t) /\ Left(t) /\ abandoned[t] \in Nat
    BY Types DEF IInv, ThreadInv
  <2> QED BY <2>1 DEF Session, Left
<1> QED BY <1>1, Invariance, PTL

-------------------------------------------------------------------------------
(* How far a request is from its end                                       *)

\* Where in the turn of an action a thread is, counted from the end of the turn.
StepsOfTurn(phase) ==
    CASE phase = "connect" -> 8
      [] phase = "compose" -> 7
      [] phase = "execute" -> 6
      [] phase = "results" -> 5
      [] phase = "lastInsertId" -> 4
      [] phase = "close" -> 3
      [] phase = "condition" -> 2
      [] phase = "json" -> 1

\* The steps a thread has before it at most.
StepsLeft(t) ==
    CASE pc[t] = "idle" -> 0
      [] pc[t] \in {"reply", "refuse"} -> 1
      [] OTHER -> 8 * (Len(actions[t]) - at[t]) + StepsOfTurn(pc[t]) + 1

\* A step of a thread leaves fewer, a step of another leaves as many, and the
\* step with which it becomes idle again has replied.
RunsDown(t) ==
    /\ Process(t) => StepsLeft(t)' < StepsLeft(t)
    /\ pc[t] # "idle" /\ ~Process(t) => StepsLeft(t)' = StepsLeft(t)
    /\ pc[t] # "idle" /\ pc'[t] = "idle" => replies'[t] # <<>>

\* The length of a turn.
LEMMA StepsAreNumbers ==
    ASSUME IInv, NEW t \in Threads
    PROVE  StepsLeft(t) \in Nat /\ StepsLeft(t) <= 8 * Len(actions[t]) + 1
<1>1. Len(actions[t]) \in Nat
  BY Types, ElementOfSeq
<1>2. CASE pc[t] \in {"idle", "reply", "refuse"}
  BY <1>1, <1>2 DEF StepsLeft
<1>3. CASE pc[t] \notin {"idle", "reply", "refuse"}
  <2>1. at[t] \in DOMAIN actions[t]
    BY <1>3, Types
  <2>2. at[t] \in 1 .. Len(actions[t])
    BY <2>1, Types, ElementOfSeq
  <2>3. StepsOfTurn(pc[t]) \in 1 .. 8
    <3>1. pc[t] \in Phases
      BY Types
    <3> QED BY <1>3, <3>1 DEF Phases, StepsOfTurn
  <2>4. StepsLeft(t) = 8 * (Len(actions[t]) - at[t]) + StepsOfTurn(pc[t]) + 1
    BY <1>3 DEF StepsLeft
  <2> DEFINE n == Len(actions[t])
             k == at[t]
             s == StepsOfTurn(pc[t])
  <2>5. n \in Nat /\ k \in 1 .. n /\ s \in 1 .. 8
    BY <1>1, <2>2, <2>3
  <2> HIDE DEF n, k, s
  <2>6. 8 * (n - k) + s + 1 \in Nat /\ 8 * (n - k) + s + 1 <= 8 * n + 1
    BY <2>5
  <2> QED BY <2>4, <2>6 DEF n, k, s
<1> QED BY <1>2, <1>3

\* A step of a thread leaves fewer, and ends with a reply.
LEMMA StepsGetFewer ==
    ASSUME IInv, NEW t \in Threads, Process(t)
    PROVE  /\ StepsLeft(t)' < StepsLeft(t) /\ pc[t] # "idle"
           /\ pc'[t] = "idle" => replies'[t] # <<>>
           /\ \A u \in Threads \ {t} : UNCHANGED <<pc[u], actions[u], at[u]>>
<1> DEFINE n == Len(actions[t])
<1>1. /\ pc \in [Threads -> Phases] /\ at \in [Threads -> Nat \ {0}]
      /\ replies[t] \in Seq(Reply) /\ n \in Nat
      /\ pc[t] \notin {"idle", "reply"} => at[t] \in 1 .. n
  BY Types, ElementOfSeq
<1>2. CASE Answer(t) \/ Refuse(t)
  <2>1. PICK e : replies' = [replies EXCEPT ![t] = Append(@, e)]
    BY <1>2 DEF Answer, Refuse, Send
  <2>2. replies'[t] # <<>>
    <3>1. t \in DOMAIN replies
      BY Types
    <3>2. replies'[t] = Append(replies[t], e)
      BY <2>1, <3>1
    <3>3. Append(replies[t], e) # <<>>
      BY <1>1
    <3> QED BY <3>2, <3>3
  <2>3. pc[t] \in {"reply", "refuse"} /\ pc'[t] = "idle" /\ UNCHANGED <<actions, at>>
    BY <1>1, <1>2 DEF Answer, Refuse, Send, Goto, call
  <2>4. \A u \in Threads \ {t} : pc'[u] = pc[u]
    BY <1>1, <1>2 DEF Answer, Refuse, Goto
  <2> QED BY <2>2, <2>3, <2>4 DEF StepsLeft
<1>3. CASE Work(t)
  <2> DEFINE Follows(phase, after) ==
             \/ phase = "connect" /\ after = "compose"
             \/ phase = "compose" /\ after = "execute"
             \/ phase = "execute" /\ after = "results"
             \/ phase = "results" /\ after = "lastInsertId"
             \/ phase = "lastInsertId" /\ after = "close"
             \/ phase = "close" /\ after = "condition"
             \/ phase = "condition" /\ after = "json"
  <2>1. /\ pc[t] \in Phases \ {"idle", "reply", "refuse"} /\ UNCHANGED actions
        /\ \A u \in Threads \ {t} : UNCHANGED <<pc[u], at[u]>>
        /\ \/ pc'[t] = "refuse" /\ UNCHANGED at
           \/ Follows(pc[t], pc'[t]) /\ UNCHANGED at
           \/ pc[t] = "json" /\ at[t] < n /\ pc'[t] = "connect" /\ at'[t] = at[t] + 1
           \/ pc[t] = "json" /\ pc'[t] = "reply" /\ UNCHANGED at
    <3> USE <1>1 DEF Goto, Abandon, call, Phases
    <3>1. CASE Connect(t) BY <3>1 DEF Connect
    <3>2. CASE Compose(t) BY <3>2 DEF Compose, ParameterFails
    <3>3. CASE Execute(t) BY <3>3 DEF Execute
    <3>4. CASE MakeResults(t) BY <3>4 DEF MakeResults
    <3>5. CASE GetLastInsertID(t) BY <3>5 DEF GetLastInsertID
    <3>6. CASE Close(t) BY <3>6 DEF Close
    <3>7. CASE VerifyCondition(t) BY <3>7 DEF VerifyCondition
    <3>8. CASE CreateJSONResult(t) BY <3>8 DEF CreateJSONResult
    <3> QED BY <1>3, <3>1, <3>2, <3>3, <3>4, <3>5, <3>6, <3>7, <3>8 DEF Work
  <2>2. at[t] \in 1 .. n /\ StepsLeft(t) = 8 * (n - at[t]) + StepsOfTurn(pc[t]) + 1
    BY <1>1, <2>1 DEF StepsLeft
  <2>3. CASE pc'[t] \in {"refuse", "reply"}
    <3>1. StepsOfTurn(pc[t]) \in 1 .. 8 /\ StepsLeft(t)' = 1
      BY <2>1, <2>3 DEF StepsLeft, StepsOfTurn, Phases
    <3> QED BY <1>1, <2>1, <2>2, <2>3, <3>1
  <2>4. CASE Follows(pc[t], pc'[t]) /\ UNCHANGED at
    <3>1. /\ StepsLeft(t)' = 8 * (n - at[t]) + StepsOfTurn(pc'[t]) + 1
          /\ pc'[t] # "idle"
      BY <2>1, <2>4 DEF StepsLeft
    <3>2. StepsOfTurn(pc'[t]) < StepsOfTurn(pc[t]) /\ StepsOfTurn(pc[t]) \in 1 .. 8
          /\ StepsOfTurn(pc'[t]) \in 1 .. 8
      BY <2>1, <2>4 DEF StepsOfTurn
    <3> DEFINE left == 8 * (n - at[t])
               now == StepsOfTurn(pc[t])
               next == StepsOfTurn(pc'[t])
    <3>3. left \in Int /\ now \in Int /\ next \in Int /\ next < now
      <4>1. n \in Int /\ at[t] \in Int
        BY <1>1, <2>2
      <4>2. left \in Int
        BY <4>1
      <4> QED BY <3>2, <4>2
    <3>4. StepsLeft(t)' < StepsLeft(t)
      <4>1. StepsLeft(t)' = left + next + 1 /\ StepsLeft(t) = left + now + 1
        BY <2>2, <3>1
      <4> HIDE DEF left, now, next
      <4> QED BY <3>3, <4>1
    <3>5. pc[t] # "idle"
      BY <2>1
    <3> QED BY <2>1, <3>1, <3>4, <3>5
  <2>5. CASE pc[t] = "json" /\ at[t] < n /\ pc'[t] = "connect" /\ at'[t] = at[t] + 1
    <3>1. StepsLeft(t)' = 8 * (n - (at[t] + 1)) + 9 /\ StepsLeft(t) = 8 * (n - at[t]) + 2
      BY <1>1, <2>1, <2>2, <2>5 DEF StepsLeft, StepsOfTurn
    <3> QED BY <1>1, <2>1, <2>2, <2>5, <3>1
  <2> QED BY <2>1, <2>3, <2>4, <2>5
<1> QED BY <1>2, <1>3 DEF Process

\* What RequestsAreAnswered rests on besides fairness: a request of n actions
\* has a reply after at most 8n + 1 steps of its thread, and no step of another
\* request puts it off, whatever the database does and however many connections
\* are lost.
THEOREM RequestsRunDown ==
    Spec => /\ [](\A t \in Threads : StepsLeft(t) \in 0 .. 8 * Len(actions[t]) + 1)
            /\ [][\A t \in Threads : RunsDown(t)]_vars
<1>1. ASSUME IInv PROVE \A t \in Threads : StepsLeft(t) \in 0 .. 8 * Len(actions[t]) + 1
  <2>1. \A t \in Threads : Len(actions[t]) \in Nat
    BY <1>1, Types, ElementOfSeq
  <2> QED BY <1>1, <2>1, StepsAreNumbers
<1>2. ASSUME IInv, Next, NEW t \in Threads PROVE RunsDown(t)
  <2>1. CASE Process(t)
    BY <1>2, <2>1, StepsGetFewer DEF RunsDown
  <2>2. CASE ~Process(t)
    <3>1. ASSUME pc[t] # "idle" PROVE UNCHANGED <<pc[t], actions[t], at[t]>>
      <4>1. ASSUME NEW u \in Threads, NEW f \in FunctionSet, Arrive(u, f)
            PROVE  UNCHANGED <<pc[t], actions[t], at[t]>>
        BY <1>2, <3>1, <4>1, Types DEF Arrive
      <4>2. ASSUME NEW u \in Threads, Process(u) PROVE UNCHANGED <<pc[t], actions[t], at[t]>>
        BY <1>2, <2>2, <4>2, StepsGetFewer
      <4>3. CASE WaitTimeout
        BY <4>3 DEF WaitTimeout, call
      <4> QED BY <1>2, <4>1, <4>2, <4>3 DEF Next
    <3> QED BY <2>2, <3>1 DEF RunsDown, StepsLeft
  <2> QED BY <2>1, <2>2
<1>3. IInv /\ [Next]_vars => [\A t \in Threads : RunsDown(t)]_vars
  BY <1>2
<1> QED BY <1>1, <1>3, Invariance, PTL DEF Spec

===============================================================================
