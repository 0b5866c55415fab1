---------------------------- MODULE BackgroundProofs ----------------------------
(***************************************************************************)
(* Proofs about AsyncActions and BackgroundThreads: types, no action       *)
(* destroyed under its thread, no request that ends without its statement, *)
(* first by themselves and then beside a cached action; what a request is  *)
(* answered from the cache is one update; a request runs down to its end.  *)
(* For any handlers, readers, builds and numbers of requests.              *)
(***************************************************************************)
EXTENDS BackgroundThreads, FiniteSetTheorems, TLAPS

-------------------------------------------------------------------------------
(* The asynchronous actions                                                *)

\* One action and its thread: the flag is set after the statement took effect,
\* an error excludes both, and a build that keeps the loop lets nobody out of
\* ~Action before the flag.
HandlerInv(h) ==
    /\ hpc[h] \in {"compose", "spawn"} => worker[h] = "none" /\ ~async[h]
    /\ worker[h] \in {"none", "ready", "executing"} => executed[h] = 0
    /\ Running(h) => async[h] /\ ~finished[h] /\ ~error[h]
    /\ worker[h] = "none" => ~finished[h]
    /\ worker[h] = "executed" => executed[h] = 1
    /\ finished[h] => executed[h] = 1
    /\ executed[h] = 1 => ~error[h]
    /\ build # "removed" /\ hpc[h] = "idle" /\ async[h] => finished[h]

IInv ==
    /\ TypeOK
    /\ \A h \in Handlers : HandlerInv(h)
    /\ NothingDangles

\* The initial state has the inductive invariant.
LEMMA InitIInv == Init => IInv
<1> SUFFICES ASSUME Init PROVE IInv
  OBVIOUS
<1>1. TypeOK
  <2>1. 0 \in 0 .. 1 /\ arrived \in 0 .. MaxRequests
    BY ConstantsAssumption DEF Init
  <2>2. executed \in [Handlers -> 0 .. 1]
    BY <2>1 DEF Init
  <2>3. QED
    BY <2>1, <2>2 DEF Init, TypeOK
<1>2. ASSUME NEW h \in Handlers PROVE HandlerInv(h)
  BY DEF Init, HandlerInv, Running
<1>3. QED
  BY <1>1, <1>2 DEF Init, IInv, NothingDangles

\* Every step keeps it.
LEMMA NextIInv == IInv /\ [Next]_vars => IInv'
<1> SUFFICES ASSUME IInv, [Next]_vars PROVE IInv'
  OBVIOUS
<1> USE ConstantsAssumption DEF TypeOK, HandlerInv, Running, NothingDangles, action
<1>1. ASSUME NEW h \in Handlers, Construct(h) PROVE IInv'
  BY <1>1 DEF Construct, Goto, IInv
<1>2. ASSUME NEW h \in Handlers, Handle(h) PROVE IInv'
  <2>1. CASE ComposeQuery(h)
    <3>1. error' \in [Handlers -> BOOLEAN] /\ \A g \in Handlers \ {h} : error'[g] = error[g]
      BY <2>1 DEF ComposeQuery, IInv
    <3>2. hpc[h] = "compose" /\ hpc' = [hpc EXCEPT ![h] = "spawn"]
      BY <2>1 DEF ComposeQuery, Goto
    <3>3. UNCHANGED <<build, async, finished, worker, arrived, executed, dangling>>
      BY <2>1 DEF ComposeQuery
    <3>4. ASSUME NEW g \in Handlers PROVE HandlerInv(g)'
      BY <3>1, <3>2, <3>3 DEF IInv
    <3>5. TypeOK' /\ NothingDangles'
      BY <3>1, <3>2, <3>3 DEF IInv
    <3>6. QED
      BY <3>4, <3>5 DEF IInv
  <2>2. CASE ExecuteAsyncQuery(h)
    <3>1. /\ hpc[h] = "spawn" /\ hpc' = [hpc EXCEPT ![h] = "destroy"]
          /\ UNCHANGED <<build, arrived, executed, dangling>>
      BY <2>2 DEF ExecuteAsyncQuery, Goto
    <3>2. /\ error' \in [Handlers -> BOOLEAN] /\ async' \in [Handlers -> BOOLEAN]
          /\ finished' \in [Handlers -> BOOLEAN]
          /\ worker' \in [Handlers -> {"none", "ready", "executing", "executed", "done"}]
          /\ \A g \in Handlers \ {h} :
                /\ error'[g] = error[g] /\ async'[g] = async[g]
                /\ finished'[g] = finished[g] /\ worker'[g] = worker[g]
      BY <2>2 DEF ExecuteAsyncQuery, IInv
    <3>3. worker'[h] \in {"none", "ready"} /\ ~finished'[h]
      BY <2>2 DEF ExecuteAsyncQuery, IInv
    <3>4. worker'[h] = "ready" => async'[h] /\ ~error'[h]
      BY <2>2 DEF ExecuteAsyncQuery, IInv
    <3>5. ASSUME NEW g \in Handlers PROVE HandlerInv(g)'
      <4>1. CASE g = h
        BY <3>1, <3>2, <3>3, <3>4, <4>1 DEF IInv
      <4>2. CASE g # h
        BY <3>1, <3>2, <4>2 DEF IInv
      <4>3. QED
        BY <4>1, <4>2
    <3>6. TypeOK' /\ NothingDangles'
      BY <3>1, <3>2 DEF IInv
    <3>7. QED
      BY <3>5, <3>6 DEF IInv
  <2>3. CASE Destroy(h)
    BY <2>3 DEF Destroy, Destroyed, Goto, IInv
  <2>4. QED
    BY <1>2, <2>1, <2>2, <2>3 DEF Handle
<1>3. ASSUME NEW h \in Handlers, Background(h) PROVE IInv'
  <2>1. CASE BeginQuery(h)
    BY <2>1 DEF BeginQuery, Worker, IInv
  <2>2. CASE Execute(h)
    <3>1. CASE /\ executed' = [executed EXCEPT ![h] = @ + 1]
               /\ worker' = [worker EXCEPT ![h] = "executed"]
               /\ UNCHANGED error
      <4>1. executed[h] = 0 /\ executed'[h] = 1
        BY <2>2, <3>1 DEF Execute, IInv
      <4>2. \A g \in Handlers \ {h} : executed'[g] = executed[g]
        BY <3>1 DEF IInv
      <4>3. executed' \in [Handlers -> 0 .. 1]
        BY <3>1, <4>1, <4>2 DEF IInv
      <4>4. ASSUME NEW g \in Handlers PROVE HandlerInv(g)'
        BY <2>2, <3>1, <4>1, <4>2 DEF Execute, IInv
      <4>5. QED
        BY <2>2, <3>1, <4>3, <4>4 DEF Execute, IInv
    <3>2. CASE /\ error' = [error EXCEPT ![h] = TRUE]
               /\ worker' = [worker EXCEPT ![h] = "done"]
               /\ UNCHANGED executed
      BY <2>2, <3>2 DEF Execute, IInv
    <3>3. QED
      BY <2>2, <3>1, <3>2 DEF Execute, Worker
  <2>3. CASE Finish(h)
    BY <2>3 DEF Finish, Worker, IInv
  <2>4. QED
    BY <1>3, <2>1, <2>2, <2>3 DEF Background
<1>4. CASE UNCHANGED vars
  BY <1>4 DEF vars, IInv
<1>5. QED
  BY <1>1, <1>2, <1>3, <1>4 DEF Next

\* The inductive invariant holds in every reachable state.
LEMMA Inductive == Spec => []IInv
BY InitIInv, NextIInv, PTL DEF Spec

\* The variables keep their types; no statement takes effect twice.
THEOREM TypeCorrect == Spec => []TypeOK
BY Inductive, PTL DEF IInv

\* A build that keeps the loop of ~Action destroys no action under its thread.
THEOREM NoActionDangles == Spec => []NothingDangles
BY Inductive, PTL DEF IInv

\* In such a build a request that has ended after ExecuteAsyncQuery_ went
\* through has executed its statement.
THEOREM EndedRequestsExecuted == Spec => []EndedMeansExecuted
<1>1. IInv => EndedMeansExecuted
  BY DEF IInv, HandlerInv, EndedMeansExecuted
<1>2. QED
  BY Inductive, <1>1, PTL

-------------------------------------------------------------------------------
(* The cached action                                                       *)

Jsons == [rows : Nat \cup {Empty}, complete : BOOLEAN]

CacheTypes ==
    /\ updater \in {"new", "absent", "top", "query", "assign", "status", "asleep", "ended"}
    /\ table \in Nat
    /\ fetched \in Nat \cup {Empty}
    /\ json \in Jsons
    /\ reader \in [Readers -> {"idle", "copy", "serialise"}]
    /\ held \in [Readers -> Jsons]

\* Rows come from the table, and the object lacks its status only between its
\* assignment and SetStatus.
JsonIsOneUpdate ==
    /\ fetched <= table /\ json.rows <= table
    /\ updater = "assign" => fetched \in Nat /\ json.rows <= fetched
    /\ updater = "status" => json.rows \in Nat
    /\ json.complete \/ json.rows = Empty \/ updater = "status"

\* A request holds an object no newer than json_result_, and an incomplete one
\* only as long as it is the one being made.
ReaderInv(r) ==
    /\ reader[r] # "idle" => held[r].rows <= json.rows
    /\ reader[r] = "serialise" =>
          held[r].complete \/ held[r].rows = Empty \/ (updater = "status" /\ held[r] = json)

CInv == CacheTypes /\ JsonIsOneUpdate /\ \A r \in Readers : ReaderInv(r)

\* A step of the cache keeps what is known of it, its rows grow no older, and a
\* request is given the object of json_result_ or keeps its own.
CacheStep ==
    /\ CInv'
    /\ json.rows <= json'.rows
    /\ \A r \in Readers : reader'[r] = "serialise" =>
          \/ reader[r] = "copy" /\ held'[r] = json
          \/ reader[r] = "serialise" /\ held'[r].rows = held[r].rows

LEMMA JsonTypes ==
    ASSUME CInv
    PROVE  /\ json.rows \in Nat \cup {Empty} /\ json.complete \in BOOLEAN
           /\ \A r \in Readers : held[r].rows \in Nat \cup {Empty}
           /\ -1 = Empty
BY DEF CInv, CacheTypes, Jsons, Empty

LEMMA InitCInv == BackgroundInit => CInv
<1> SUFFICES ASSUME BackgroundInit PROVE CInv
  OBVIOUS
<1> USE DEF BackgroundInit, CacheInit
<1>1. Nothing \in Jsons /\ Nothing.rows = Empty /\ Empty <= 0
  BY DEF Nothing, Jsons, Empty
<1>2. CacheTypes /\ JsonIsOneUpdate
  BY <1>1 DEF CacheTypes, JsonIsOneUpdate
<1>3. ASSUME NEW r \in Readers PROVE ReaderInv(r)
  BY DEF ReaderInv
<1> QED BY <1>2, <1>3 DEF CInv

\* The table grows, and nothing else of the cache changes.
LEMMA TableGrows ==
    ASSUME CInv, NEW n \in Nat, table' = table + n, UNCHANGED <<cached, answering>>
    PROVE  CacheStep
<1>1. UNCHANGED <<updater, failed, fetched, json, reader, held>>
  BY DEF cached, answering
<1>2. table' \in Nat /\ table <= table'
  BY DEF CInv, CacheTypes
<1>3. CacheTypes'
  BY <1>1, <1>2 DEF CInv, CacheTypes, Jsons
<1>4. JsonIsOneUpdate'
  <2>1. fetched \in Int /\ json.rows \in Int /\ table \in Int
    BY JsonTypes DEF CInv, CacheTypes
  <2> QED BY <1>1, <1>2, <2>1 DEF CInv, JsonIsOneUpdate
<1>5. ASSUME NEW r \in Readers PROVE ReaderInv(r)'
  BY <1>1 DEF CInv, ReaderInv
<1>6. json.rows <= json'.rows
  BY <1>1, JsonTypes
<1>7. \A r \in Readers : reader'[r] = "serialise" => reader[r] = "serialise" /\ held'[r] = held[r]
  BY <1>1
<1> QED BY <1>3, <1>4, <1>5, <1>6, <1>7 DEF CacheStep, CInv

\* The loop of the cached action moves on without an assignment.
LEMMA LoopMoves ==
    ASSUME CInv, UNCHANGED <<table, json, answering>>,
           updater # "status", updater' \in {"top", "absent", "query", "assign", "asleep", "ended"},
           fetched' \in {fetched, table}, updater' = "assign" => fetched' = table
    PROVE  CacheStep
<1>1. UNCHANGED <<reader, held>>
  BY DEF answering
<1>2. fetched \in Nat \cup {Empty} /\ table \in Nat /\ json.rows \in Nat \cup {Empty}
  BY JsonTypes DEF CInv, CacheTypes
<1>3. CacheTypes'
  BY <1>1, <1>2 DEF CInv, CacheTypes, Jsons
<1>4. JsonIsOneUpdate'
  BY <1>1, <1>2 DEF CInv, JsonIsOneUpdate, Empty
<1>5. ASSUME NEW r \in Readers PROVE ReaderInv(r)'
  BY <1>1 DEF CInv, ReaderInv
<1>6. json.rows <= json'.rows
  BY <1>2, JsonTypes
<1> QED BY <1>1, <1>3, <1>4, <1>5, <1>6 DEF CacheStep, CInv

LEMMA AssignSteps == ASSUME CInv, Assign PROVE CacheStep
<1>1. /\ updater = "assign" /\ updater' = "status"
      /\ json' = [rows |-> fetched, complete |-> FALSE] /\ fetched' = Empty
      /\ UNCHANGED <<table, reader, held>>
  BY DEF Assign, Update, answering
<1>2. /\ fetched \in Nat /\ table \in Nat /\ json.rows \in Nat \cup {Empty}
      /\ json.rows <= fetched /\ fetched <= table /\ Empty <= table
  BY <1>1, JsonTypes DEF CInv, CacheTypes, JsonIsOneUpdate, Empty
<1>3. json' \in Jsons /\ json'.rows = fetched
  BY <1>1, <1>2 DEF Jsons
<1>4. CacheTypes'
  BY <1>1, <1>3 DEF CInv, CacheTypes, Jsons
<1>5. JsonIsOneUpdate'
  BY <1>1, <1>2, <1>3 DEF JsonIsOneUpdate
<1>6. ASSUME NEW r \in Readers PROVE ReaderInv(r)'
  <2>1. held[r].rows \in Int /\ (reader[r] # "idle" => held[r].rows <= json.rows)
    BY JsonTypes DEF CInv, ReaderInv
  <2>2. reader[r] = "serialise" => held[r].complete \/ held[r].rows = Empty
    BY <1>1 DEF CInv, ReaderInv
  <2> QED BY <1>1, <1>2, <1>3, <2>1, <2>2 DEF ReaderInv, Empty
<1> QED BY <1>1, <1>2, <1>3, <1>4, <1>5, <1>6 DEF CacheStep, CInv

LEMMA SetStatusSteps == ASSUME CInv, SetStatus PROVE CacheStep
<1> DEFINE holding == {r \in Readers : reader[r] = "serialise" /\ held[r] = json}
<1>1. /\ updater = "status" /\ updater' = "asleep" /\ json' = [json EXCEPT !.complete = TRUE]
      /\ held' = [r \in Readers |-> IF r \in holding THEN json' ELSE held[r]]
      /\ UNCHANGED <<table, fetched, reader>>
  BY DEF SetStatus, Update
<1>2. json' \in Jsons /\ json'.rows = json.rows /\ json'.complete
  BY <1>1 DEF CInv, CacheTypes, Jsons
<1>3. /\ held' \in [Readers -> Jsons]
      /\ \A r \in Readers : held'[r].rows = held[r].rows
      /\ \A r \in holding : held'[r] = json'
      /\ \A r \in Readers \ holding : held'[r] = held[r]
  BY <1>1, <1>2 DEF CInv, CacheTypes
<1>4. CacheTypes'
  BY <1>1, <1>2, <1>3 DEF CInv, CacheTypes, Jsons
<1>5. JsonIsOneUpdate'
  BY <1>1, <1>2 DEF CInv, JsonIsOneUpdate
<1>6. ASSUME NEW r \in Readers PROVE ReaderInv(r)'
  <2>1. reader[r] # "idle" => held'[r].rows <= json'.rows
    BY <1>2, <1>3 DEF CInv, ReaderInv
  <2>2. CASE r \in holding
    BY <1>1, <1>2, <1>3, <2>1, <2>2 DEF ReaderInv
  <2>3. CASE r \notin holding
    <3>1. reader[r] = "serialise" => held[r].complete \/ held[r].rows = Empty
      BY <2>3 DEF CInv, ReaderInv
    <3> QED BY <1>1, <1>3, <2>1, <2>3, <3>1 DEF ReaderInv
  <2> QED BY <2>2, <2>3
<1>7. json.rows <= json'.rows
  BY <1>2, JsonTypes
<1>8. \A r \in Readers : reader'[r] = "serialise" =>
         reader[r] = "serialise" /\ held'[r].rows = held[r].rows
  BY <1>1, <1>3
<1> QED BY <1>4, <1>5, <1>6, <1>7, <1>8 DEF CacheStep, CInv

\* A request begins, copies the pointer, or is over.
LEMMA ReaderSteps ==
    ASSUME CInv, NEW r \in Readers, BeginAnswer(r) \/ Copy(r) \/ Answer(r) PROVE CacheStep
<1>1. UNCHANGED <<table, updater, fetched, json>>
  BY DEF BeginAnswer, Copy, Answer, cached
<1>2. PICK to \in {"idle", "copy", "serialise"}, h \in {json, Nothing} :
         /\ reader' = [reader EXCEPT ![r] = to] /\ held' = [held EXCEPT ![r] = h]
         /\ to # "idle" => h = json
         /\ to = "serialise" => reader[r] = "copy"
  BY DEF BeginAnswer, Copy, Answer
<1>3. json \in Jsons /\ Nothing \in Jsons
  BY DEF CInv, CacheTypes, Nothing, Jsons
<1>4. /\ reader' \in [Readers -> {"idle", "copy", "serialise"}] /\ held' \in [Readers -> Jsons]
      /\ reader'[r] = to /\ held'[r] = h
      /\ \A q \in Readers \ {r} : reader'[q] = reader[q] /\ held'[q] = held[q]
  BY <1>2, <1>3 DEF CInv, CacheTypes
<1>5. CacheTypes' /\ JsonIsOneUpdate'
  BY <1>1, <1>4 DEF CInv, CacheTypes, JsonIsOneUpdate, Jsons
<1>6. json.rows <= json.rows
  BY JsonTypes
<1>7. ASSUME NEW q \in Readers PROVE ReaderInv(q)'
  <2>1. CASE q = r
    BY <1>1, <1>2, <1>4, <1>6, <2>1 DEF CInv, ReaderInv, JsonIsOneUpdate
  <2>2. CASE q # r
    BY <1>1, <1>4, <2>2 DEF CInv, ReaderInv
  <2> QED BY <2>1, <2>2
<1>8. \A q \in Readers : reader'[q] = "serialise" =>
         \/ reader[q] = "copy" /\ held'[q] = json
         \/ reader[q] = "serialise" /\ held'[q] = held[q]
  BY <1>2, <1>4
<1> QED BY <1>1, <1>5, <1>6, <1>7, <1>8 DEF CacheStep, CInv

-------------------------------------------------------------------------------
(* Both kinds of threads together                                          *)

\* A step of one handler executes one statement at most.
LEMMA InsertedIs ==
    ASSUME IInv, NEW h \in Handlers, Construct(h) \/ Handle(h) \/ Background(h)
    PROVE  Inserted \in Nat
<1>1. \A g \in Handlers \ {h} : executed'[g] = executed[g]
  BY DEF IInv, TypeOK, Construct, Handle, Background, ComposeQuery, ExecuteAsyncQuery, Destroy,
         BeginQuery, Execute, Finish
<1>2. \A g \in Handlers : executed[g] \in Nat
  BY DEF IInv, TypeOK
<1>3. {g \in Handlers : executed'[g] > executed[g]} \subseteq {h}
  BY <1>1, <1>2
<1>4. {g \in Handlers : executed'[g] > executed[g]} \in {{}, {h}}
  BY <1>3
<1> QED BY <1>4, FS_EmptySet, FS_Singleton DEF Inserted

LEMMA AsynchronousSteps ==
    ASSUME IInv, CInv, NEW h \in Handlers,
           Request(h) \/ Handling(h) \/ InBackground(h)
    PROVE  Next /\ CacheStep
<1>1. /\ Construct(h) \/ Handle(h) \/ Background(h)
      /\ table' = table + Inserted /\ UNCHANGED <<cached, answering>>
  BY DEF Request, Handling, InBackground, Asynchronous
<1>2. Inserted \in Nat
  BY <1>1, InsertedIs
<1>3. CacheStep
  BY <1>1, <1>2, TableGrows
<1> QED BY <1>1, <1>3 DEF Next

LEMMA UpdatingSteps == ASSUME CInv, Updating PROVE CacheStep
<1>1. CASE StartUpdates
  BY <1>1, LoopMoves DEF StartUpdates
<1>2. CASE Turn
  BY <1>2, LoopMoves DEF Turn, Update
<1>3. CASE Query
  <2>1. CASE updater = "query" /\ Terminate
    <3>1. UNCHANGED <<table, cached, answering>>
      BY <2>1 DEF Terminate
    <3>2. table' = table + 0
      BY <3>1 DEF CInv, CacheTypes
    <3> QED BY <3>1, <3>2, TableGrows
  <2>2. CASE Update("query", "assign") \/ Update("query", "asleep")
    BY <1>3, <2>2, LoopMoves DEF Query, Update, Terminate, cached
  <2> QED BY <1>3, <2>1, <2>2 DEF Query
<1>4. CASE Wake
  BY <1>4, LoopMoves DEF Wake, Update
<1> QED BY <1>1, <1>2, <1>3, <1>4, AssignSteps, SetStatusSteps DEF Updating, UpdateStep

\* A step of the program is one of the asynchronous actions or none for them, and
\* a step of the cache or none for it.
LEMMA StepBoth ==
    ASSUME IInv, CInv, [BackgroundNext]_allVars
    PROVE  [Next]_vars /\ CacheStep
<1>1. ASSUME UNCHANGED cache PROVE CacheStep
  <2>1. UNCHANGED <<table, cached, answering>>
    BY <1>1 DEF cache
  <2>2. table' = table + 0
    BY <2>1 DEF CInv, CacheTypes
  <2> QED BY <2>1, <2>2, TableGrows
<1>2. CASE UNCHANGED allVars
  BY <1>1, <1>2 DEF allVars
<1>3. ASSUME NEW h \in Handlers, Request(h) \/ Handling(h) \/ InBackground(h)
      PROVE  [Next]_vars /\ CacheStep
  BY <1>3, AsynchronousSteps
<1>4. CASE Updating
  BY <1>4, UpdatingSteps DEF Updating
<1>5. ASSUME NEW r \in Readers, (BeginAnswer(r) /\ UNCHANGED vars) \/ Answering(r)
      PROVE  [Next]_vars /\ CacheStep
  BY <1>5, ReaderSteps DEF Answering
<1>6. CASE EndServer /\ UNCHANGED vars
  <2>1. UNCHANGED <<table, cached, answering>>
    BY <1>6 DEF EndServer
  <2>2. table' = table + 0
    BY <2>1 DEF CInv, CacheTypes
  <2> QED BY <1>6, <2>1, <2>2, TableGrows
<1> QED BY <1>2, <1>3, <1>4, <1>5, <1>6 DEF BackgroundNext

LEMMA Together == BackgroundSpec => [](IInv /\ CInv) /\ [][Next]_vars /\ Init
<1>1. BackgroundInit => IInv /\ CInv /\ Init
  BY InitIInv, InitCInv DEF BackgroundInit
<1>2. IInv /\ CInv /\ [BackgroundNext]_allVars => (IInv /\ CInv)' /\ [Next]_vars
  BY StepBoth, NextIInv DEF CacheStep
<1> QED BY <1>1, <1>2, PTL DEF BackgroundSpec

\* Beside a cached action, with its table, the asynchronous actions keep their types.
THEOREM TypesTogether == BackgroundSpec => []TypeOK
BY Together, PTL DEF IInv

\* There too no build that keeps the loop of ~Action destroys an action under its
\* thread.
THEOREM NothingDanglesTogether == BackgroundSpec => []NothingDangles
BY Together, PTL DEF IInv

\* There too a request that has ended after ExecuteAsyncQuery_ went through has
\* executed its statement.
THEOREM EndedTogether == BackgroundSpec => []EndedMeansExecuted
<1>1. IInv => EndedMeansExecuted
  BY DEF IInv, HandlerInv, EndedMeansExecuted
<1> QED BY Together, <1>1, PTL

\* What a request is answered from the cache is {} or the rows of one statement,
\* no older than json_result_ was when it began, whatever updates fail or overlap.
THEOREM CacheAnswersOneUpdate == BackgroundSpec => AnswersAreOneUpdate
<1> DEFINE OneUpdate(r) ==
              /\ reader'[r] = "serialise" =>
                    /\ held'[r].rows >= held[r].rows
                    /\ held'[r].rows <= table
                    /\ held'[r].complete \/ held'[r].rows = Empty \/ held'[r] = json'
              /\ reader[r] # "idle" => held[r].rows <= json'.rows
<1>1. ASSUME CInv, CacheStep, NEW r \in Readers PROVE OneUpdate(r)
  <2>1. /\ held[r].rows \in Int /\ held'[r].rows \in Int /\ json.rows \in Int
        /\ json'.rows \in Int /\ table \in Int
    <3>1. held[r].rows \in Int /\ json.rows \in Int /\ table \in Int
      BY <1>1, JsonTypes DEF CInv, CacheTypes
    <3>2. held' \in [Readers -> Jsons] /\ json' \in Jsons
      BY <1>1 DEF CacheStep, CInv, CacheTypes, Jsons
    <3> QED BY <3>1, <3>2 DEF Jsons, Empty
  <2>2. json.rows <= json'.rows /\ json.rows <= table
    BY <1>1 DEF CacheStep, CInv, JsonIsOneUpdate
  <2>3. reader[r] # "idle" => held[r].rows <= json.rows
    BY <1>1 DEF CInv, ReaderInv
  <2>4. reader'[r] = "serialise" =>
           held'[r].rows = json.rows \/ held'[r].rows = held[r].rows
    BY <1>1 DEF CacheStep
  <2>5. reader'[r] = "serialise" => reader[r] # "idle"
    BY <1>1 DEF CacheStep
  <2>6. reader'[r] = "serialise" =>
           held'[r].complete \/ held'[r].rows = Empty \/ held'[r] = json'
    BY <1>1 DEF CacheStep, CInv, ReaderInv
  <2> QED BY <2>1, <2>2, <2>3, <2>4, <2>5, <2>6
<1>2. IInv /\ CInv /\ [BackgroundNext]_allVars => [\A r \in Readers : OneUpdate(r)]_cache
  BY <1>1, StepBoth
<1> QED BY <1>2, Together, PTL DEF BackgroundSpec, AnswersAreOneUpdate

-------------------------------------------------------------------------------
(* What ThreadsEnd rests on                                                *)

\* Steps of a request and of its thread before both are over.
StepsLeft(h) ==
    (CASE hpc[h] = "compose" -> 6
       [] hpc[h] = "spawn" -> 5
       [] hpc[h] = "destroy" -> 1
       [] OTHER -> 0)
    + (CASE worker[h] = "ready" -> 3
         [] worker[h] = "executing" -> 2
         [] worker[h] = "executed" -> 1
         [] OTHER -> 0)

\* A step of a request or of its thread leaves fewer; no step of another changes
\* the number, but a new request does.
RunsDown(h) ==
    /\ Handle(h) \/ Background(h) => StepsLeft(h)' < StepsLeft(h)
    /\ Handle(h) \/ Background(h) \/ Construct(h) \/ UNCHANGED StepsLeft(h)

\* Without an error ~Action waits only for a thread that has steps before it.
WaitsForItsThread(h) ==
    hpc[h] = "destroy" /\ async[h] /\ ~finished[h] => Running(h) \/ error[h]

\* At the start nobody waits.
LEMMA InitWaits == Init => \A h \in Handlers : WaitsForItsThread(h)
BY DEF Init, WaitsForItsThread

\* Every step keeps it.
LEMMA StepWaits ==
    ASSUME IInv, \A h \in Handlers : WaitsForItsThread(h), [Next]_vars
    PROVE  \A h \in Handlers : WaitsForItsThread(h)'
<1> USE DEF IInv, TypeOK, HandlerInv, Running, WaitsForItsThread, action, Goto, Worker
<1> SUFFICES ASSUME NEW g \in Handlers PROVE WaitsForItsThread(g)'
  OBVIOUS
<1>1. ASSUME NEW h \in Handlers, Construct(h) PROVE WaitsForItsThread(g)'
  BY <1>1 DEF Construct
<1>2. ASSUME NEW h \in Handlers, ComposeQuery(h) PROVE WaitsForItsThread(g)'
  BY <1>2 DEF ComposeQuery
<1>3. ASSUME NEW h \in Handlers, ExecuteAsyncQuery(h) PROVE WaitsForItsThread(g)'
  BY <1>3 DEF ExecuteAsyncQuery
<1>4. ASSUME NEW h \in Handlers, Destroy(h) PROVE WaitsForItsThread(g)'
  BY <1>4 DEF Destroy, Destroyed
<1>5. ASSUME NEW h \in Handlers, BeginQuery(h) PROVE WaitsForItsThread(g)'
  BY <1>5 DEF BeginQuery
<1>6. ASSUME NEW h \in Handlers, Execute(h) PROVE WaitsForItsThread(g)'
  BY <1>6 DEF Execute
<1>7. ASSUME NEW h \in Handlers, Finish(h) PROVE WaitsForItsThread(g)'
  BY <1>7 DEF Finish
<1>8. CASE UNCHANGED vars
  BY <1>8 DEF vars
<1> QED BY <1>1, <1>2, <1>3, <1>4, <1>5, <1>6, <1>7, <1>8 DEF Next, Handle, Background

\* A step of a request or of its thread leaves fewer, and the rest as they are.
LEMMA StepsGetFewer ==
    ASSUME IInv, NEW h \in Handlers, Handle(h) \/ Background(h)
    PROVE  /\ StepsLeft(h)' < StepsLeft(h)
           /\ \A g \in Handlers \ {h} : UNCHANGED <<hpc[g], worker[g]>>
<1> USE DEF IInv, TypeOK, HandlerInv, StepsLeft, action, Goto, Worker
<1>1. CASE ComposeQuery(h)
  BY <1>1 DEF ComposeQuery
<1>2. CASE ExecuteAsyncQuery(h)
  BY <1>2 DEF ExecuteAsyncQuery
<1>3. CASE Destroy(h)
  BY <1>3 DEF Destroy, Destroyed
<1>4. CASE BeginQuery(h)
  BY <1>4 DEF BeginQuery
<1>5. CASE Execute(h)
  BY <1>5 DEF Execute
<1>6. CASE Finish(h)
  BY <1>6 DEF Finish
<1> QED BY <1>1, <1>2, <1>3, <1>4, <1>5, <1>6 DEF Handle, Background

\* What ThreadsEnd rests on besides fairness: a request and its detached thread
\* have at most six steps before them and every step of either leaves fewer, and
\* ~Action of an action without an error never waits for a thread that has
\* ended.  An action with an error may wait for ever: its thread has ended and
\* nothing sets its flag.
THEOREM RequestsRunDown ==
    BackgroundSpec => /\ [](\A h \in Handlers : StepsLeft(h) \in 0 .. 6 /\ WaitsForItsThread(h))
                      /\ [][\A h \in Handlers : RunsDown(h)]_vars
<1> DEFINE AllWait == \A h \in Handlers : WaitsForItsThread(h)
           Bounded == \A h \in Handlers : StepsLeft(h) \in 0 .. 6 /\ WaitsForItsThread(h)
<1>1. BackgroundInit => IInv /\ CInv /\ AllWait
  BY InitIInv, InitCInv, InitWaits DEF BackgroundInit
<1>2. IInv /\ CInv /\ AllWait /\ [BackgroundNext]_allVars => (IInv /\ CInv /\ AllWait)'
  BY StepBoth, NextIInv, StepWaits DEF CacheStep
<1>3. ASSUME IInv, NEW h \in Handlers PROVE StepsLeft(h) \in 0 .. 6
  <2>1. hpc[h] \in {"compose", "spawn"} => worker[h] = "none"
    BY <1>3 DEF IInv, HandlerInv
  <2>2. CASE worker[h] = "none"
    BY <2>2 DEF StepsLeft
  <2>3. CASE worker[h] # "none"
    BY <2>1, <2>3 DEF StepsLeft
  <2> QED BY <2>2, <2>3
<1>4. ASSUME IInv, Next, NEW h \in Handlers PROVE RunsDown(h)
  <2>1. CASE Handle(h) \/ Background(h)
    BY <1>4, <2>1, StepsGetFewer DEF RunsDown
  <2>2. CASE ~(Handle(h) \/ Background(h)) /\ ~Construct(h)
    <3>1. PICK g \in Handlers : Construct(g) \/ Handle(g) \/ Background(g)
      BY <1>4 DEF Next
    <3>2. g # h
      BY <2>2, <3>1
    <3>3. UNCHANGED <<hpc[h], worker[h]>>
      <4>1. CASE Construct(g)
        BY <1>4, <3>2, <4>1 DEF Construct, Goto, IInv, TypeOK
      <4>2. CASE Handle(g) \/ Background(g)
        BY <1>4, <3>2, <4>2, StepsGetFewer
      <4> QED BY <3>1, <4>1, <4>2
    <3> QED BY <2>2, <3>3 DEF RunsDown, StepsLeft
  <2>3. CASE ~(Handle(h) \/ Background(h)) /\ Construct(h)
    BY <2>3 DEF RunsDown
  <2> QED BY <2>1, <2>2, <2>3
<1>5. IInv /\ CInv /\ [BackgroundNext]_allVars => [\A h \in Handlers : RunsDown(h)]_vars
  BY <1>4, StepBoth
<1>6. IInv /\ AllWait => Bounded
  BY <1>3
<1> QED BY <1>1, <1>2, <1>5, <1>6, PTL DEF BackgroundSpec

===============================================================================
