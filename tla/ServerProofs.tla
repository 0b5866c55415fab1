----------------------------- MODULE ServerProofs ------------------------------
(***************************************************************************)
(* Proofs about Server: its types, that every request is answered by this  *)
(* code, that functions run behind the checks, who misses a handler, and   *)
(* that the list of sockets is live; for any threads, requests and         *)
(* applications.                                                           *)
(***************************************************************************)
EXTENDS Server, Recursion

-------------------------------------------------------------------------------
(* The inductive invariant                                                 *)

\* A request is in one place: in the queue, with one thread, or nowhere.
Queued ==
    /\ \A i \in DOMAIN queue : fate[queue[i]] = "queued"
    /\ \A i, j \in DOMAIN queue : queue[i] = queue[j] => i = j

Serving(t) ==
    LET r == serving[t] IN
    /\ stage[t] = "idle" <=> r = None
    /\ r # None => r \in Requests /\ fate[r] = "begun"
    /\ \A u \in Threads \ {t} : serving[u] = r => r = None

\* What has been sent, and which handler was chosen, at each stage.
Handling(t) ==
    LET r == serving[t] IN
    /\ stage[t] \in {"create", "install", "assign"} =>
          answer[r] = "none" /\ handler[r] = "none"
    /\ stage[t] \in {"install", "assign"} => r \notin settled
    /\ stage[t] \notin {"idle", "create", "install", "assign"} => creator # "null"
    /\ stage[t] = "null" =>
          /\ answer[r] \in {"none", "500"}
          /\ r \in settled /\ Registered(r) => answer[r] = "500"
    /\ stage[t] \in {"custom", "backend", "session", "permissions", "function", "socket"} =>
          answer[r] = "none" /\ handler[r] # "null"
    /\ stage[t] \in {"push", "receive", "broadcast", "erase"} =>
          answer[r] = "101" /\ handler[r] # "null"

\* What a thread knows of the session of its request behind each check.
Checked(t) ==
    LET r == serving[t] IN
    /\ stage[t] \in {"permissions", "function"} => Asks(r).cookie # None
    /\ stage[t] = "permissions" /\ r \in closedBefore => Asks(r).cookie \notin permitted
    /\ stage[t] = "function" => r \notin closedBefore

Answered(r) == answer[r] \in Statuses \/ (answer[r] = "none" /\ r \in silent)

\* A request that has not begun is untouched; one that is over was answered, by
\* a handler that had been chosen.
Fate(r) ==
    /\ fate[r] \in {"new", "queued"} =>
          answer[r] = "none" /\ handler[r] = "none" /\ ran[r] = {}
    /\ fate[r] = "new" => r \notin settled
    /\ r \in settled => creator # "null"
    /\ Over(r) =>
          /\ creator # "null" /\ Answered(r)
          /\ r \in settled /\ Registered(r) => handler[r] # "null" \/ answer[r] = "500"
    /\ r \in closedBefore => Asks(r).cookie \notin sessions \cap permitted
    /\ ran[r] # {} => r \notin closedBefore /\ Asks(r).cookie # None

\* The creator is torn only while a thread assigns it.
Torn ==
    /\ creator = "torn" => \E t \in Threads : stage[t] = "assign"
    /\ tornCall => ~up /\ creator = "torn"

\* Stages in which a handler is on the list of sockets.
OnList == {"receive", "broadcast", "erase"}

\* The list holds the handlers at these stages, each once, and a loop over the
\* list has only pointers of the list before it.
List ==
    abrupt = {} /\ ~raced =>
       /\ ~usedDead
       /\ \A i \in DOMAIN sockets :
             \E t \in Threads : serving[t] = sockets[i] /\ stage[t] \in OnList
       /\ \A i, j \in DOMAIN sockets : sockets[i] = sockets[j] => i = j
       /\ \A t \in Threads :
             /\ stage[t] \in OnList => \E i \in DOMAIN sockets : sockets[i] = serving[t]
             /\ rest[t] # <<>> => stage[t] = "broadcast"
             /\ \A k \in DOMAIN rest[t] : \E i \in DOMAIN sockets : sockets[i] = rest[t][k]

ThreadInv(t) == Serving(t) /\ Handling(t) /\ Checked(t)

IInv ==
    /\ TypeOK /\ Queued /\ Torn /\ List
    /\ \A t \in Threads : ThreadInv(t)
    /\ \A r \in Requests : Fate(r)

-------------------------------------------------------------------------------
(* Sequences and outcomes                                                  *)

LEMMA Appended ==
    ASSUME NEW S, NEW s \in Seq(S), NEW e \in S
    PROVE  /\ Append(s, e) \in Seq(S) /\ Len(s) \in Nat
           /\ Len(Append(s, e)) = Len(s) + 1
           /\ DOMAIN Append(s, e) = DOMAIN s \cup {Len(s) + 1}
           /\ Append(s, e)[Len(s) + 1] = e
           /\ Len(s) + 1 \notin DOMAIN s
           /\ \A k \in DOMAIN s : Append(s, e)[k] = s[k]
OBVIOUS

LEMMA Headed ==
    ASSUME NEW S, NEW s \in Seq(S), s # <<>>
    PROVE  /\ Head(s) \in S /\ Head(s) = s[1] /\ 1 \in DOMAIN s
           /\ Tail(s) \in Seq(S) /\ Len(Tail(s)) = Len(s) - 1 /\ Len(s) \in Nat
           /\ \A k \in DOMAIN Tail(s) : k + 1 \in DOMAIN s /\ k + 1 # 1 /\ Tail(s)[k] = s[k + 1]
OBVIOUS

LEMMA Joined ==
    ASSUME NEW S, NEW a \in Seq(S), NEW b \in Seq(S)
    PROVE  /\ a \o b \in Seq(S) /\ Len(a \o b) = Len(a) + Len(b)
           /\ Len(a) \in Nat /\ Len(b) \in Nat
           /\ \A i \in 1 .. Len(a) + Len(b) :
                 (a \o b)[i] = IF i <= Len(a) THEN a[i] ELSE b[i - Len(a)]
OBVIOUS

\* Without leaves out one place of r and keeps the others, in their order.
LEMMA WithoutIs ==
    ASSUME NEW S, NEW s \in Seq(S), NEW r, r \in ToSet(s)
    PROVE  \E p \in DOMAIN s :
              /\ s[p] = r
              /\ Without(s, r) \in Seq(S) /\ Len(Without(s, r)) = Len(s) - 1
              /\ \A i \in DOMAIN Without(s, r) :
                    Without(s, r)[i] = IF i < p THEN s[i] ELSE s[i + 1]
<1>1. \E i \in DOMAIN s : s[i] = r
  BY DEF ToSet
<1>2. PICK p \in DOMAIN s : p = CHOOSE i \in DOMAIN s : s[i] = r
  BY <1>1
<1>3. s[p] = r
  BY <1>1, <1>2
<1>4. PICK n \in Nat : n = Len(s) /\ p \in 1 .. n
  OBVIOUS
<1>5. PICK a : a = SubSeq(s, 1, p - 1)
  OBVIOUS
<1>6. PICK b : b = SubSeq(s, p + 1, Len(s))
  OBVIOUS
<1>7. Without(s, r) = a \o b
  BY <1>2, <1>5, <1>6 DEF Without, RemoveAt
<1>8. a \in Seq(S) /\ Len(a) = p - 1 /\ \A i \in 1 .. p - 1 : a[i] = s[i]
  BY <1>4, <1>5
<1>9. b \in Seq(S) /\ Len(b) = n - p /\ \A i \in 1 .. n - p : b[i] = s[p + i]
  BY <1>4, <1>6
<1>10. Len(a) + Len(b) = n - 1
  BY <1>4, <1>8, <1>9
<1>11. /\ a \o b \in Seq(S) /\ Len(a \o b) = n - 1
       /\ \A i \in 1 .. n - 1 : (a \o b)[i] = IF i <= Len(a) THEN a[i] ELSE b[i - Len(a)]
  <2>1. /\ a \o b \in Seq(S) /\ Len(a \o b) = Len(a) + Len(b)
        /\ \A i \in 1 .. Len(a) + Len(b) :
              (a \o b)[i] = IF i <= Len(a) THEN a[i] ELSE b[i - Len(a)]
    BY <1>8, <1>9, Joined
  <2> QED BY <1>10, <2>1
<1>12. ASSUME NEW i \in 1 .. n - 1 PROVE (a \o b)[i] = IF i < p THEN s[i] ELSE s[i + 1]
  <2>1. (a \o b)[i] = IF i <= p - 1 THEN a[i] ELSE b[i - (p - 1)]
    BY <1>8, <1>11
  <2>2. CASE i < p
    <3>1. i <= p - 1 /\ i \in 1 .. p - 1
      BY <1>4, <2>2
    <3> QED BY <1>8, <2>1, <2>2, <3>1
  <2>3. CASE ~ (i < p)
    <3>1. /\ ~ (i <= p - 1) /\ i - (p - 1) \in 1 .. n - p
          /\ p + (i - (p - 1)) = i + 1
      BY <1>4, <2>3
    <3> QED BY <1>9, <2>1, <2>3, <3>1
  <2> QED BY <2>2, <2>3
<1>13. DOMAIN (a \o b) = 1 .. n - 1
  BY <1>11
<1> QED BY <1>3, <1>4, <1>7, <1>11, <1>12, <1>13

LEMMA WithoutTypes ==
    ASSUME NEW S, NEW s \in Seq(S), NEW r PROVE Without(s, r) \in Seq(S)
<1>1. CASE r \in ToSet(s)
  BY <1>1, WithoutIs
<1>2. CASE r \notin ToSet(s)
  BY <1>2 DEF Without
<1> QED BY <1>1, <1>2

Outcomes == [answer : Statuses \cup {"none"}, threw : BOOLEAN, silent : BOOLEAN]

LEMMA ThrownIs ==
    ASSUME NEW o \in Outcomes
    PROVE  /\ Thrown(o) \in Outcomes /\ Thrown(o).answer = o.answer
           /\ Thrown(o).threw /\ (Thrown(o).silent <=> o.silent)
BY DEF Outcomes, Thrown

LEMMA SentIs ==
    ASSUME NEW o \in Outcomes, NEW s \in Statuses
    PROVE  /\ Sent(o, s) \in Outcomes
           /\ Sent(o, s).answer = IF o.answer = "none" THEN s ELSE o.answer
           /\ Sent(o, s).threw <=> o.threw \/ o.answer # "none"
           /\ Sent(o, s).silent <=> o.silent
<1>1. CASE o.answer = "none"
  BY <1>1 DEF Outcomes, Sent
<1>2. CASE o.answer # "none"
  BY <1>2, ThrownIs DEF Sent
<1> QED BY <1>1, <1>2

LEMMA CaughtIs ==
    ASSUME NEW o \in Outcomes, NEW s \in Statuses
    PROVE  /\ Caught(o, s) \in Outcomes
           /\ Caught(o, s).answer = IF o.threw /\ o.answer = "none" THEN s ELSE o.answer
           /\ Caught(o, s).threw <=> o.threw /\ o.answer # "none"
           /\ Caught(o, s).silent <=> o.silent
<1>1. CASE o.threw
  <2> DEFINE q == [o EXCEPT !.threw = FALSE]
  <2>1. /\ q \in Outcomes /\ q.answer = o.answer /\ ~ q.threw
        /\ q.silent <=> o.silent
    BY DEF Outcomes
  <2>2. Caught(o, s) = Sent(q, s)
    BY <1>1 DEF Caught, JSONResponse
  <2> HIDE DEF q
  <2> QED BY <1>1, <2>1, <2>2, SentIs
<1>2. CASE ~ o.threw
  BY <1>2 DEF Caught
<1> QED BY <1>1, <1>2

\* An outcome with which a handler may end: something was sent, or nothing is
\* meant to be and no exception leaves.
Ends(o) == o \in Outcomes /\ (o.answer = "none" => ~ o.threw /\ o.silent)

\* What the catch blocks of handleRequest make an end of.
Catchable(o) == o \in Outcomes /\ (o.answer = "none" => o.threw \/ o.silent)

LEMMA CaughtEnds ==
    ASSUME NEW o, Catchable(o), NEW s \in Statuses
    PROVE  Ends(Caught(o, s)) /\ (o.answer # "none" => Caught(o, s).answer = o.answer)
BY CaughtIs DEF Catchable, Ends, Statuses

LEMMA HandleRequestEnds ==
    ASSUME NEW S, \A o \in S : Catchable(o)
    PROVE  /\ \A x \in HandleRequest(S) : Ends(x)
           /\ \A x \in HandleRequest(S) :
                 \E o \in S : o.answer # "none" => x.answer = o.answer
<1>1. SUFFICES ASSUME NEW x \in HandleRequest(S)
               PROVE  Ends(x) /\ \E o \in S : o.answer # "none" => x.answer = o.answer
  OBVIOUS
<1>2. PICK o \in S, s \in {"400", "500"} : x = Caught(o, s)
  BY DEF HandleRequest
<1>3. s \in Statuses
  BY DEF Statuses
<1> QED BY <1>2, <1>3, CaughtEnds

\* A fresh outcome, and one an exception has reached before anything was sent.
Blank(o) == o \in Outcomes /\ o.answer = "none"

LEMMA SentIsCatchable ==
    ASSUME NEW o \in Outcomes, NEW s \in Statuses
    PROVE  Catchable(Sent(o, s)) /\ Sent(o, s).answer # "none"
BY SentIs DEF Catchable, Statuses

LEMMA FileResponseIsCatchable ==
    ASSUME NEW o \in Outcomes, NEW x \in FileResponse(o, "200") PROVE Catchable(x)
<1>1. "404" \in Statuses /\ "400" \in Statuses /\ "200" \in Statuses
  BY DEF Statuses
<1>2. CASE x = Thrown(Sent(o, "200"))
  BY <1>1, <1>2, SentIs, ThrownIs DEF Catchable
<1>3. CASE x \in {Sent(o, "404"), Sent(o, "400"), Sent(o, "200")}
  BY <1>1, <1>3, SentIsCatchable
<1> QED BY <1>2, <1>3 DEF FileResponse, HTMLResponse

LEMMA CallbackIsCatchable ==
    ASSUME NEW o \in Outcomes, NEW x \in Callback(o) PROVE Catchable(x)
<1> DEFINE returned == {[o EXCEPT !.silent = TRUE], Sent(o, "200")}
<1>1. "200" \in Statuses
  BY DEF Statuses
<1>2. [o EXCEPT !.silent = TRUE] \in Outcomes /\ [o EXCEPT !.silent = TRUE].silent
  BY DEF Outcomes
<1>3. CASE x \in returned
  BY <1>1, <1>2, <1>3, SentIsCatchable DEF Catchable
<1>4. ASSUME NEW y \in returned, x = Thrown([y EXCEPT !.silent = FALSE]) PROVE Catchable(x)
  <2>1. y \in Outcomes
    BY <1>1, <1>2, SentIs
  <2>2. [y EXCEPT !.silent = FALSE] \in Outcomes
    BY <2>1 DEF Outcomes
  <2> QED BY <1>4, <2>2, ThrownIs DEF Catchable
<1> QED BY <1>3, <1>4 DEF Callback

LEMMA FunctionProcessIsCatchable ==
    ASSUME NEW o \in Outcomes, NEW type,
           NEW x \in FunctionProcess(o, type)
    PROVE  Catchable(x)
<1>1. "400" \in Statuses /\ "500" \in Statuses /\ "200" \in Statuses
  BY DEF Statuses
<1>2. CASE type = "json"
  BY <1>1, <1>2, SentIsCatchable DEF FunctionProcess, JSONResponse
<1>3. \A y, s : Catchable(y) /\ s \in Statuses => Catchable(Caught(y, s))
  BY CaughtEnds DEF Catchable, Ends
<1>4. CASE type = "file"
  BY <1>1, <1>3, <1>4, FileResponseIsCatchable DEF FunctionProcess
<1>5. CASE type \notin {"json", "file"}
  BY <1>1, <1>3, <1>5, CallbackIsCatchable DEF FunctionProcess
<1> QED BY <1>2, <1>4, <1>5

LEMMA OutcomeIs ==
    ASSUME NEW r, answer[r] \in Statuses \cup {"none"}
    PROVE  /\ Outcome(r) \in Outcomes /\ Outcome(r).answer = answer[r]
           /\ ~ Outcome(r).threw /\ ~ Outcome(r).silent
BY DEF Outcome, Outcomes

LEMMA SetUpIs ==
    ASSUME NEW r, answer[r] \in Statuses \cup {"none"}
    PROVE  SetUp(r) \in Outcomes /\ SetUp(r).answer = answer[r] /\ ~ SetUp(r).silent
BY OutcomeIs, ThrownIs DEF SetUp

-------------------------------------------------------------------------------
(* Steps of one thread leave the others and their requests alone           *)

\* A step of thread t, at request r, that has begun and is not over before it.
StepOf(t, r) ==
    /\ \A u \in Threads \ {t} : stage'[u] = stage[u] /\ serving'[u] = serving[u]
    /\ serving'[t] \in {r, None}
    /\ \A q \in Requests \ {r} :
          /\ answer'[q] = answer[q] /\ fate'[q] = fate[q] /\ handler'[q] = handler[q]
          /\ ran'[q] = ran[q]
          /\ q \in silent' <=> q \in silent
    /\ creator # "null" => creator' # "null"
    /\ UNCHANGED <<app, queue, settled, sessions, permitted, closedBefore>>

LEMMA OthersAreKept ==
    ASSUME IInv, NEW t \in Threads, NEW r \in Requests, serving[t] = r, StepOf(t, r)
    PROVE  /\ \A u \in Threads \ {t} : ThreadInv(u)'
           /\ \A q \in Requests \ {r} : Fate(q)'
           /\ Queued'
<1>1. r # None /\ fate[r] = "begun"
  <2>1. Serving(t)
    BY DEF IInv, ThreadInv
  <2> QED BY <2>1, ApplicationsAssumption DEF Serving
<1>2. ASSUME NEW u \in Threads \ {t} PROVE ThreadInv(u)'
  <2>1. /\ Serving(u) /\ Handling(u) /\ Checked(u)
        /\ stage'[u] = stage[u] /\ serving'[u] = serving[u]
    BY <1>2 DEF IInv, ThreadInv, StepOf
  <2>2. serving[u] # r
    BY <1>1, <1>2 DEF IInv, ThreadInv, Serving
  <2> DEFINE q == serving[u]
  <2>3. stage[u] # "idle" => q \in Requests \ {r}
    BY <2>1, <2>2 DEF Serving
  <2>4. Serving(u)'
    <3>1. q # None => fate'[q] = fate[q]
      BY <2>1, <2>2 DEF Serving, StepOf
    <3>2. \A v \in Threads \ {u} : serving'[v] = q => q = None
      BY <2>1, <2>2 DEF Serving, StepOf
    <3> QED BY <2>1, <3>1, <3>2 DEF Serving
  <2>5. Handling(u)'
    BY <2>1, <2>3 DEF Handling, StepOf, Registered, Asks
  <2>6. Checked(u)'
    BY <2>1, <2>3 DEF Checked, StepOf, Asks
  <2> QED BY <2>4, <2>5, <2>6 DEF ThreadInv
<1>3. ASSUME NEW q \in Requests \ {r} PROVE Fate(q)'
  <2>1. Fate(q)
    BY <1>3 DEF IInv
  <2> QED BY <1>3, <2>1 DEF Fate, StepOf, Over, Answered, Registered, Asks
<1>4. Queued'
  <2>1. queue \in Seq(Requests)
    BY DEF IInv, TypeOK
  <2>2. \A i \in DOMAIN queue : queue[i] \in Requests /\ queue[i] # r
    BY <1>1, <2>1 DEF IInv, Queued
  <2> QED BY <2>2 DEF IInv, Queued, StepOf
<1> QED BY <1>2, <1>3, <1>4

\* The list does not depend on a thread that is neither before nor after the
\* step at a stage of the list.
LEMMA ListIsKept ==
    ASSUME IInv, NEW t \in Threads, UNCHANGED webSockets,
           \A u \in Threads \ {t} : stage'[u] = stage[u] /\ serving'[u] = serving[u],
           stage[t] \notin OnList, stage'[t] \notin OnList
    PROVE  List'
<1>1. UNCHANGED <<sockets, rest, abrupt, raced, usedDead>>
  BY DEF webSockets
<1> SUFFICES ASSUME abrupt = {}, ~ raced PROVE List'
  BY <1>1 DEF List
<1>2. /\ ~ usedDead
      /\ \A i \in DOMAIN sockets :
            \E u \in Threads : serving[u] = sockets[i] /\ stage[u] \in OnList
      /\ \A i, j \in DOMAIN sockets : sockets[i] = sockets[j] => i = j
      /\ \A u \in Threads :
            /\ stage[u] \in OnList => \E i \in DOMAIN sockets : sockets[i] = serving[u]
            /\ rest[u] # <<>> => stage[u] = "broadcast"
            /\ \A k \in DOMAIN rest[u] : \E i \in DOMAIN sockets : sockets[i] = rest[u][k]
  BY DEF IInv, List
<1>3. \A i \in DOMAIN sockets :
         \E u \in Threads : serving'[u] = sockets[i] /\ stage'[u] \in OnList
  BY <1>2
<1>4. \A u \in Threads :
         stage'[u] \in OnList => \E i \in DOMAIN sockets : sockets[i] = serving'[u]
  BY <1>2
<1>5. \A u \in Threads : rest[u] # <<>> => stage'[u] = "broadcast"
  BY <1>2 DEF OnList
<1> QED BY <1>1, <1>2, <1>3, <1>4, <1>5 DEF List

\* The types by component.
ServerTypes ==
    /\ app \in Applications /\ up \in BOOLEAN
    /\ queue \in Seq(Requests) /\ Len(queue) <= MaxQueued
    /\ stage \in [Threads -> Stages]
    /\ serving \in [Threads -> Requests \cup {None}]
    /\ answer \in [Requests -> Statuses \cup {"none", "unhandled"}]
    /\ fate \in [Requests -> {"new", "queued", "begun", "refused", "ended", "aborted"}]
    /\ silent \subseteq Requests

FactoryTypes ==
    /\ creator \in {"null", "torn", "set"}
    /\ handler \in [Requests -> {"none", "null", "custom", "backend", "socket"}]
    /\ settled \subseteq Requests
    /\ tornCall \in BOOLEAN

SocketTypes ==
    /\ sockets \in Seq(Requests)
    /\ rest \in [Threads -> Seq(Requests)]
    /\ open \subseteq Requests
    /\ messages \in 0 .. MaxMessages
    /\ abrupt \subseteq Requests
    /\ raced \in BOOLEAN /\ usedDead \in BOOLEAN

BackendTypes ==
    /\ sessions \subseteq Cookies /\ permitted \subseteq Cookies
    /\ closedBefore \subseteq Requests
    /\ ran \in [Requests -> SUBSET Functions]

LEMMA TypesByComponent ==
    /\ TypeOK <=> ServerTypes /\ FactoryTypes /\ SocketTypes /\ BackendTypes
    /\ (TypeOK <=> ServerTypes /\ FactoryTypes /\ SocketTypes /\ BackendTypes)'
BY DEF TypeOK, ServerTypes, FactoryTypes, SocketTypes, BackendTypes

LEMMA TypesStay ==
    ASSUME TypeOK
    PROVE  /\ UNCHANGED factory => FactoryTypes'
           /\ UNCHANGED webSockets => SocketTypes'
           /\ UNCHANGED <<backend, app>> => BackendTypes'
<1>1. UNCHANGED factory => FactoryTypes'
  BY TypesByComponent DEF FactoryTypes, factory
<1>2. UNCHANGED webSockets => SocketTypes'
  BY TypesByComponent DEF SocketTypes, webSockets
<1>3. UNCHANGED <<backend, app>> => BackendTypes'
  BY TypesByComponent DEF BackendTypes, backend, Cookies, Asks, Functions
<1> QED BY <1>1, <1>2, <1>3

\* What is known of the request of a thread at work.
LEMMA AtWork ==
    ASSUME IInv, NEW t \in Threads, stage[t] # "idle"
    PROVE  /\ serving[t] \in Requests /\ serving[t] # None /\ fate[serving[t]] = "begun"
           /\ Serving(t) /\ Handling(t) /\ Checked(t) /\ Fate(serving[t])
           /\ answer[serving[t]] \in Statuses \cup {"none"}
<1>1. Serving(t) /\ Handling(t) /\ Checked(t)
  BY DEF IInv, ThreadInv
<1>2. serving[t] \in Requests /\ serving[t] # None /\ fate[serving[t]] = "begun"
  BY <1>1 DEF Serving
<1>3. stage[t] \in Stages
  BY TypesByComponent DEF IInv, ServerTypes
<1>4. answer[serving[t]] \in Statuses \cup {"none"}
  BY <1>1, <1>3 DEF Handling, Stages, SocketStages, Statuses
<1> QED BY <1>1, <1>2, <1>4 DEF IInv

\* A thread goes on to another stage, and may have sent something.
LEMMA MoveKeeps ==
    ASSUME IInv, NEW t \in Threads, NEW r \in Requests, serving[t] = r, stage[t] # "idle", up,
           NEW s \in Stages \ {"idle"}, NEW a \in Statuses \cup {"none"},
           stage' = [stage EXCEPT ![t] = s], answer' = [answer EXCEPT ![r] = a],
           UNCHANGED <<app, up, queue, serving, fate, silent, settled, tornCall, backend>>,
           creator # "null" => creator' # "null",
           \/ creator' = creator /\ stage[t] # "assign"
           \/ creator' = "torn" => \E u \in Threads : stage'[u] = "assign",
           \A q \in Requests \ {r} : handler'[q] = handler[q],
           FactoryTypes', SocketTypes', List', Handling(t)', Checked(t)'
    PROVE  IInv'
<1>1. StepOf(t, r)
  BY TypesByComponent DEF IInv, ServerTypes, StepOf, backend
<1>2. TypeOK'
  <2>1. ServerTypes'
    BY TypesByComponent DEF IInv, ServerTypes
  <2>2. BackendTypes'
    BY TypesStay DEF IInv
  <2> QED BY <2>1, <2>2, TypesByComponent
<1>3. Fate(r)'
  <2>1. Fate(r) /\ fate[r] = "begun"
    BY AtWork
  <2> QED BY <2>1 DEF Fate, Over, Asks, backend
<1>4. Serving(t)'
  <2>1. Serving(t) /\ stage'[t] = s /\ s # "idle" /\ r # None
    BY AtWork, TypesByComponent DEF IInv, ServerTypes
  <2> QED BY <2>1 DEF Serving
<1>5. Torn'
  <2>1. CASE creator' = creator /\ stage[t] # "assign"
    <3>1. \A u \in Threads : stage[u] = "assign" => stage'[u] = "assign"
      BY <2>1, TypesByComponent DEF IInv, ServerTypes
    <3> QED BY <2>1, <3>1 DEF IInv, Torn
  <2>2. CASE creator' = "torn" => \E u \in Threads : stage'[u] = "assign"
    BY <2>2 DEF IInv, Torn
  <2> QED BY <2>1, <2>2
<1> QED BY <1>1, <1>2, <1>3, <1>4, <1>5, OthersAreKept DEF IInv, ThreadInv

\* A handler returns or throws, with outcomes it may end with.
LEMMA EndKeeps ==
    ASSUME IInv, NEW t \in Threads, NEW r \in Requests, serving[t] = r, up, creator # "null",
           stage[t] \notin {"idle", "create", "install", "assign"},
           NEW S, End(t, S), \A o \in S : Ends(o),
           \A o \in S : r \in settled /\ Registered(r) =>
                           handler[r] # "null" \/ o.answer = "500",
           UNCHANGED <<factory, sessions, permitted, closedBefore>>,
           BackendTypes', SocketTypes', List',
           \A q \in Requests \ {r} : ran'[q] = ran[q],
           ran'[r] # {} => r \notin closedBefore /\ Asks(r).cookie # None
    PROVE  IInv'
<1>1. PICK o \in S :
         /\ answer' = [answer EXCEPT ![r] = IF o.threw /\ o.answer = "none"
                                            THEN "unhandled" ELSE o.answer]
         /\ fate' = [fate EXCEPT ![r] = IF o.threw THEN "aborted" ELSE "ended"]
         /\ silent' = IF o.silent THEN silent \cup {r} ELSE silent
         /\ stage' = [stage EXCEPT ![t] = "idle"]
         /\ serving' = [serving EXCEPT ![t] = None]
         /\ UNCHANGED <<app, up, queue>>
  BY DEF End
<1>2. Ends(o)
  OBVIOUS
<1>3. /\ answer' = [answer EXCEPT ![r] = o.answer] /\ o.answer \in Statuses \cup {"none"}
      /\ o.answer = "none" => r \in silent'
  <2>1. o.answer = "none" => ~ o.threw /\ o.silent
    BY <1>2 DEF Ends
  <2> QED BY <1>1, <1>2, <2>1 DEF Ends, Outcomes
<1>4. /\ fate' \in [Requests -> {"new", "queued", "begun", "refused", "ended", "aborted"}]
      /\ fate'[r] \in {"ended", "aborted"}
      /\ \A q \in Requests \ {r} : fate'[q] = fate[q]
  BY <1>1, TypesByComponent DEF IInv, ServerTypes
<1>5. StepOf(t, r)
  BY <1>1, <1>3, <1>4, TypesByComponent DEF IInv, ServerTypes, StepOf, factory
<1>6. TypeOK'
  <2>1. ServerTypes'
    BY <1>1, <1>3, <1>4, TypesByComponent DEF IInv, ServerTypes, Stages
  <2>2. FactoryTypes'
    BY TypesStay DEF IInv
  <2> QED BY <2>1, <2>2, TypesByComponent
<1>7. stage'[t] = "idle" /\ serving'[t] = None /\ answer'[r] = o.answer
  BY <1>1, <1>3, TypesByComponent DEF IInv, ServerTypes
<1>8. ThreadInv(t)'
  BY <1>7 DEF ThreadInv, Serving, Handling, Checked
<1>9. Fate(r)'
  <2>1. Fate(r) /\ o.answer # "unhandled"
    BY <1>3 DEF IInv, Statuses
  <2>2. Answered(r)'
    BY <1>3, <1>7 DEF Answered
  <2> QED BY <1>1, <1>4, <1>7, <2>1, <2>2 DEF Fate, Over, Asks, Registered, factory
<1>10. Torn'
  <2>1. \A u \in Threads : stage[u] = "assign" => stage'[u] = "assign"
    BY <1>1, TypesByComponent DEF IInv, ServerTypes
  <2> QED BY <1>1, <2>1 DEF IInv, Torn, factory
<1> QED BY <1>5, <1>6, <1>8, <1>9, <1>10, OthersAreKept DEF IInv

\* Undefined behaviour ends the process and changes nothing else.
LEMMA UndefinedKeeps ==
    ASSUME IInv, up, Undefined, tornCall' => creator = "torn",
           tornCall' \in BOOLEAN, UNCHANGED <<creator, handler, settled, backend>>,
           SocketTypes', List'
    PROVE  IInv'
<1>1. UNCHANGED <<app, queue, stage, serving, answer, fate, silent, creator, handler, settled,
                  backend>>
      /\ up' = FALSE
  BY DEF Undefined
<1>2. TypeOK'
  <2>1. ServerTypes' /\ FactoryTypes'
    BY <1>1, TypesByComponent DEF IInv, ServerTypes, FactoryTypes
  <2>2. BackendTypes'
    BY <1>1, TypesStay DEF IInv
  <2> QED BY <2>1, <2>2, TypesByComponent
<1>3. Queued' /\ Torn'
  BY <1>1 DEF IInv, Queued, Torn
<1>4. ASSUME NEW t \in Threads PROVE ThreadInv(t)'
  BY <1>1 DEF IInv, ThreadInv, Serving, Handling, Checked, Registered, Asks, backend
<1>5. ASSUME NEW r \in Requests PROVE Fate(r)'
  BY <1>1 DEF IInv, Fate, Over, Answered, Registered, Asks, backend
<1> QED BY <1>2, <1>3, <1>4, <1>5 DEF IInv

-------------------------------------------------------------------------------
(* The pool and the choice of a handler                                    *)

\* Thread t goes to stage s, with its request.
GoneTo(t, s) ==
    /\ stage'[t] = s /\ serving'[t] = serving[t]
    /\ \A u \in Threads \ {t} : stage'[u] = stage[u] /\ serving'[u] = serving[u]
    /\ UNCHANGED <<app, up, queue, fate, silent>>

LEMMA GotoMoves ==
    ASSUME IInv, NEW t \in Threads, NEW s, Goto(t, s)
    PROVE  GoneTo(t, s) /\ answer' = answer
BY TypesByComponent DEF IInv, ServerTypes, Goto, GoneTo

LEMMA GotoWithMoves ==
    ASSUME IInv, NEW t \in Threads, NEW s, NEW o, GotoWith(t, s, o), stage[t] # "idle"
    PROVE  GoneTo(t, s) /\ answer'[serving[t]] = o.answer
BY AtWork, TypesByComponent DEF IInv, ServerTypes, GotoWith, GoneTo

\* The same for a thread that goes on with Goto or GotoWith.
LEMMA GotoWithKeeps ==
    ASSUME IInv, NEW t \in Threads, stage[t] # "idle", up,
           NEW s \in Stages \ {"idle"}, NEW o \in Outcomes, GotoWith(t, s, o),
           UNCHANGED <<settled, tornCall, backend>>,
           creator # "null" => creator' # "null",
           \/ creator' = creator /\ stage[t] # "assign"
           \/ creator' = "torn" => \E u \in Threads : stage'[u] = "assign",
           \A q \in Requests \ {serving[t]} : handler'[q] = handler[q],
           FactoryTypes', SocketTypes', List', Handling(t)', Checked(t)'
    PROVE  IInv'
<1>1. serving[t] \in Requests /\ o.answer \in Statuses \cup {"none"}
  BY AtWork DEF Outcomes
<1>2. /\ stage' = [stage EXCEPT ![t] = s]
      /\ answer' = [answer EXCEPT ![serving[t]] = o.answer]
      /\ UNCHANGED <<app, up, queue, serving, fate, silent>>
  BY DEF GotoWith
<1> QED BY <1>1, <1>2, MoveKeeps

LEMMA GotoKeeps ==
    ASSUME IInv, NEW t \in Threads, stage[t] # "idle", up,
           NEW s \in Stages \ {"idle"}, Goto(t, s),
           UNCHANGED <<settled, tornCall, backend>>,
           creator # "null" => creator' # "null",
           \/ creator' = creator /\ stage[t] # "assign"
           \/ creator' = "torn" => \E u \in Threads : stage'[u] = "assign",
           \A q \in Requests \ {serving[t]} : handler'[q] = handler[q],
           FactoryTypes', SocketTypes', List', Handling(t)', Checked(t)'
    PROVE  IInv'
<1>1. serving[t] \in Requests /\ answer[serving[t]] \in Statuses \cup {"none"}
  BY AtWork
<1>2. /\ stage' = [stage EXCEPT ![t] = s]
      /\ answer' = [answer EXCEPT ![serving[t]] = answer[serving[t]]]
      /\ UNCHANGED <<app, up, queue, serving, fate, silent>>
  BY <1>1, TypesByComponent DEF IInv, ServerTypes, Goto
<1> QED BY <1>1, <1>2, MoveKeeps

LEMMA InitIInv == Init => IInv
<1> SUFFICES ASSUME Init PROVE IInv
  OBVIOUS
<1> USE DEF Init, ServerInit, FactoryInit, SocketsInit, BackendInit
<1>1. TypeOK
  <2>1. ServerTypes
    BY ApplicationsAssumption DEF ServerTypes, Stages
  <2>2. FactoryTypes
    BY DEF FactoryTypes
  <2>3. SocketTypes
    <3>1. 0 \in 0 .. MaxMessages
      BY MessagesAssumption
    <3>2. sockets \in Seq(Requests) /\ rest \in [Threads -> Seq(Requests)]
      OBVIOUS
    <3>3. open \subseteq Requests /\ abrupt \subseteq Requests
      OBVIOUS
    <3> QED BY <3>1, <3>2, <3>3 DEF SocketTypes
  <2>4. BackendTypes
    BY DEF BackendTypes
  <2> QED BY <2>1, <2>2, <2>3, <2>4, TypesByComponent
<1>2. Queued /\ Torn
  BY DEF Queued, Torn
<1>3. List
  BY DEF List, OnList
<1>4. ASSUME NEW t \in Threads PROVE ThreadInv(t)
  BY DEF ThreadInv, Serving, Handling, Checked
<1>5. ASSUME NEW r \in Requests PROVE Fate(r)
  BY DEF Fate, Over
<1> QED BY <1>1, <1>2, <1>3, <1>4, <1>5 DEF IInv

LEMMA ArriveKeeps == ASSUME IInv, NEW r \in Requests, Arrive(r) PROVE IInv'
<1>1. /\ up /\ fate[r] = "new"
      /\ UNCHANGED <<app, up, stage, serving, answer, silent, creator, handler, tornCall,
                     sessions, permitted, ran, webSockets>>
      /\ settled' = IF ~app.custom /\ \E q \in Requests : Over(q) THEN settled \cup {r} ELSE settled
      /\ closedBefore' = IF Asks(r).cookie \in (sessions \cap permitted) \cup {None}
                         THEN closedBefore ELSE closedBefore \cup {r}
  BY DEF Arrive, Accept, SettledAtArrival, ClosedAtArrival
<1>2. \/ /\ Len(queue) < MaxQueued /\ queue' = Append(queue, r)
         /\ fate' = [fate EXCEPT ![r] = "queued"]
      \/ queue' = queue /\ fate' = [fate EXCEPT ![r] = "refused"]
  BY DEF Arrive, Accept
<1>3. queue \in Seq(Requests) /\ Len(queue) <= MaxQueued /\ MaxQueued \in Nat
  BY ApplicationsAssumption, TypesByComponent DEF IInv, ServerTypes
<1>4. /\ fate' \in [Requests -> {"new", "queued", "begun", "refused", "ended", "aborted"}]
      /\ fate'[r] \in {"queued", "refused"} /\ \A q \in Requests \ {r} : fate'[q] = fate[q]
  BY <1>2, TypesByComponent DEF IInv, ServerTypes
<1>5. /\ queue' \in Seq(Requests) /\ Len(queue') <= MaxQueued /\ Queued'
      /\ \A i \in DOMAIN queue : queue[i] # r
  <2>1. \A i \in DOMAIN queue : queue[i] # r /\ queue[i] \in Requests /\ fate[queue[i]] = "queued"
    BY <1>1, <1>3 DEF IInv, Queued
  <2>2. CASE queue' = queue
    BY <1>3, <1>4, <2>1, <2>2 DEF IInv, Queued
  <2>3. CASE /\ Len(queue) < MaxQueued /\ queue' = Append(queue, r)
             /\ fate' = [fate EXCEPT ![r] = "queued"]
    <3>1. /\ queue' \in Seq(Requests) /\ Len(queue') = Len(queue) + 1 /\ Len(queue) \in Nat
          /\ DOMAIN queue' = DOMAIN queue \cup {Len(queue) + 1}
          /\ queue'[Len(queue) + 1] = r
          /\ \A k \in DOMAIN queue : queue'[k] = queue[k]
      BY <1>3, <2>3, Appended
    <3>2. fate'[r] = "queued"
      BY <2>3, TypesByComponent DEF IInv, ServerTypes
    <3>3. \A i \in DOMAIN queue' : fate'[queue'[i]] = "queued"
      BY <1>4, <2>1, <3>1, <3>2
    <3>4. \A i, j \in DOMAIN queue' : queue'[i] = queue'[j] => i = j
      BY <2>1, <3>1 DEF IInv, Queued
    <3> QED BY <1>3, <2>1, <2>3, <3>1, <3>3, <3>4 DEF Queued
  <2> QED BY <1>2, <2>2, <2>3
<1>6. TypeOK'
  <2>1. ServerTypes'
    BY <1>1, <1>4, <1>5, TypesByComponent DEF IInv, ServerTypes
  <2>2. FactoryTypes'
    BY <1>1, TypesByComponent DEF IInv, FactoryTypes
  <2>3. BackendTypes'
    BY <1>1, TypesByComponent DEF IInv, BackendTypes, Cookies, Asks, Functions
  <2>4. SocketTypes'
    BY <1>1, TypesStay DEF IInv
  <2> QED BY <2>1, <2>2, <2>3, <2>4, TypesByComponent
<1>7. Torn'
  BY <1>1 DEF IInv, Torn
<1>8. List'
  BY <1>1 DEF IInv, List, webSockets
<1>9. ASSUME NEW t \in Threads PROVE ThreadInv(t)'
  <2>1. Serving(t) /\ Handling(t) /\ Checked(t)
    BY DEF IInv, ThreadInv
  <2>2. serving[t] # r
    <3>1. r # None
      BY ApplicationsAssumption
    <3> QED BY <1>1, <2>1, <3>1 DEF Serving
  <2>3. serving[t] \in settled' => serving[t] \in settled
    BY <1>1, <2>2
  <2>4. serving[t] \in closedBefore' <=> serving[t] \in closedBefore
    BY <1>1, <2>2
  <2>5. Serving(t)'
    BY <1>1, <1>4, <2>1, <2>2 DEF Serving
  <2>6. Handling(t)'
    BY <1>1, <2>1, <2>3 DEF Handling, Registered, Asks
  <2>7. Checked(t)'
    BY <1>1, <2>1, <2>4 DEF Checked, Asks
  <2> QED BY <2>5, <2>6, <2>7 DEF ThreadInv
<1>10. ASSUME NEW q \in Requests PROVE Fate(q)'
  <2>1. Fate(q) /\ Fate(r)
    BY DEF IInv
  <2>2. CASE q # r
    BY <1>1, <1>4, <2>1, <2>2 DEF Fate, Over, Answered, Registered, Asks
  <2>3. CASE q = r
    <3>1. r \in settled' => creator # "null"
      BY <1>1, <2>1 DEF IInv, Fate
    <3> QED BY <1>1, <1>4, <2>1, <2>3, <3>1 DEF Fate, Over, Asks
  <2> QED BY <2>2, <2>3
<1> QED BY <1>5, <1>6, <1>7, <1>8, <1>9, <1>10 DEF IInv

LEMMA TakeKeeps == ASSUME IInv, NEW t \in Threads, Begin(t) PROVE IInv'
<1> DEFINE r == Head(queue)
<1>1. /\ up /\ stage[t] = "idle" /\ queue # <<>>
      /\ serving' = [serving EXCEPT ![t] = r] /\ stage' = [stage EXCEPT ![t] = "create"]
      /\ queue' = Tail(queue) /\ fate' = [fate EXCEPT ![r] = "begun"]
      /\ UNCHANGED <<app, up, answer, silent, factory, webSockets, backend>>
  BY DEF Begin, Take
<1>2. /\ r \in Requests /\ r = queue[1] /\ 1 \in DOMAIN queue
      /\ queue' \in Seq(Requests) /\ Len(queue') = Len(queue) - 1 /\ Len(queue) \in Nat
      /\ \A k \in DOMAIN queue' : k + 1 \in DOMAIN queue /\ k + 1 # 1 /\ queue'[k] = queue[k + 1]
      /\ \A k \in DOMAIN queue' : k \in Nat
  <2>1. queue \in Seq(Requests)
    BY TypesByComponent DEF IInv, ServerTypes
  <2> QED BY <1>1, <2>1, Headed
<1>3. fate[r] = "queued" /\ r # None
  BY <1>2, ApplicationsAssumption DEF IInv, Queued
<1> HIDE DEF r
<1>4. /\ serving'[t] = r /\ stage'[t] = "create" /\ fate'[r] = "begun"
      /\ \A u \in Threads \ {t} : stage'[u] = stage[u] /\ serving'[u] = serving[u]
      /\ \A q \in Requests \ {r} : fate'[q] = fate[q]
  BY <1>1, <1>2, TypesByComponent DEF IInv, ServerTypes
<1>5. TypeOK'
  <2>1. Len(queue') <= MaxQueued
    BY <1>2, ApplicationsAssumption, TypesByComponent DEF IInv, ServerTypes
  <2>2. ServerTypes'
    BY <1>1, <1>2, <2>1, TypesByComponent DEF IInv, ServerTypes, Stages
  <2> QED BY <1>1, <2>2, TypesByComponent, TypesStay DEF IInv
<1>6. Queued'
  <2>1. \A i \in DOMAIN queue' : queue'[i] # r
    BY <1>2 DEF IInv, Queued
  <2>2. \A i \in DOMAIN queue' : queue'[i] \in Requests
    BY <1>2
  <2>3. \A i \in DOMAIN queue' : fate'[queue'[i]] = "queued"
    BY <1>2, <1>4, <2>1, <2>2 DEF IInv, Queued
  <2>4. \A i, j \in DOMAIN queue' : queue'[i] = queue'[j] => i + 1 = j + 1
    BY <1>2 DEF IInv, Queued
  <2>5. \A i, j \in DOMAIN queue' : i + 1 = j + 1 => i = j
    BY <1>2
  <2> QED BY <2>3, <2>4, <2>5 DEF Queued
<1>7. Torn'
  <2>1. \A u \in Threads : stage[u] = "assign" => stage'[u] = "assign"
    BY <1>1, <1>4
  <2> QED BY <1>1, <2>1 DEF IInv, Torn, factory
<1>8. List'
  BY <1>1, <1>4, ListIsKept DEF OnList
<1>9. ASSUME NEW u \in Threads \ {t} PROVE ThreadInv(u)'
  <2>1. Serving(u) /\ Handling(u) /\ Checked(u) /\ serving[u] # r
    BY <1>3 DEF IInv, ThreadInv, Serving
  <2>2. Serving(u)'
    BY <1>3, <1>4, <2>1 DEF Serving
  <2>3. Handling(u)'
    BY <1>1, <1>4, <2>1 DEF Handling, Registered, Asks, factory
  <2>4. Checked(u)'
    BY <1>1, <1>4, <2>1 DEF Checked, Asks, backend
  <2> QED BY <2>2, <2>3, <2>4 DEF ThreadInv
<1>10. ThreadInv(t)'
  <2>1. Fate(r) /\ \A u \in Threads \ {t} : serving[u] # r
    BY <1>2, <1>3 DEF IInv, ThreadInv, Serving
  <2>2. Serving(t)'
    BY <1>2, <1>3, <1>4, <2>1 DEF Serving
  <2>3. Handling(t)'
    BY <1>1, <1>3, <1>4, <2>1 DEF Handling, Fate, factory
  <2>4. Checked(t)'
    BY <1>4 DEF Checked
  <2> QED BY <2>2, <2>3, <2>4 DEF ThreadInv
<1>11. ASSUME NEW q \in Requests PROVE Fate(q)'
  <2>1. Fate(q)
    BY DEF IInv
  <2>2. CASE q = r
    BY <1>1, <1>3, <1>4, <2>1, <2>2 DEF Fate, Over, Asks, factory, backend
  <2>3. CASE q # r
    BY <1>1, <1>4, <2>1, <2>3 DEF Fate, Over, Answered, Registered, Asks, factory, backend
  <2> QED BY <2>2, <2>3
<1> QED BY <1>5, <1>6, <1>7, <1>8, <1>9, <1>10, <1>11 DEF IInv

\* Handled gives one request a handler.
LEMMA HandledIs ==
    ASSUME IInv, NEW t \in Threads, stage[t] # "idle",
           NEW kind \in {"none", "null", "custom", "backend", "socket"}, Handled(t, kind)
    PROVE  /\ handler' \in [Requests -> {"none", "null", "custom", "backend", "socket"}]
           /\ handler'[serving[t]] = kind
           /\ \A q \in Requests \ {serving[t]} : handler'[q] = handler[q]
BY AtWork, TypesByComponent DEF IInv, FactoryTypes, Handled

LEMMA FindNullKeeps ==
    ASSUME IInv, NEW t \in Threads, FindNull(t), UNCHANGED <<webSockets, backend>> PROVE IInv'
<1>1. /\ up /\ stage[t] = "create" /\ creator = "null"
      /\ Goto(t, "install") /\ UNCHANGED factory
  BY DEF FindNull, At
<1>2. "install" \in Stages \ {"idle"}
  BY DEF Stages
<1>3. Handling(t) /\ Fate(serving[t]) /\ serving[t] \in Requests
  BY <1>1, AtWork
<1>0. GoneTo(t, "install") /\ answer' = answer
  BY <1>1, GotoMoves
<1>4. Handling(t)' /\ Checked(t)'
  BY <1>0, <1>1, <1>3 DEF GoneTo, Handling, Checked, Fate, factory
<1>5. List'
  BY <1>0, <1>1, ListIsKept DEF GoneTo, OnList
<1>6. FactoryTypes' /\ SocketTypes'
  BY <1>1, TypesStay DEF IInv
<1>7. UNCHANGED <<creator, handler, settled, tornCall>>
  BY <1>1 DEF factory
<1> QED BY <1>1, <1>2, <1>3, <1>4, <1>5, <1>6, <1>7, GotoKeeps

LEMMA InstallKeeps ==
    ASSUME IInv, NEW t \in Threads, Install(t), UNCHANGED <<webSockets, backend>> PROVE IInv'
<1>1. /\ up /\ stage[t] = "install"
      /\ creator' = "torn"
      /\ Goto(t, "assign") /\ UNCHANGED <<handler, settled, tornCall>>
  BY DEF Install, At
<1>2. "assign" \in Stages \ {"idle"}
  BY DEF Stages
<1>3. Handling(t) /\ serving[t] \in Requests
  BY <1>1, AtWork
<1>0. GoneTo(t, "assign") /\ answer' = answer
  BY <1>1, GotoMoves
<1>4. Handling(t)' /\ Checked(t)'
  BY <1>0, <1>1, <1>3 DEF GoneTo, Handling, Checked
<1>5. List'
  BY <1>0, <1>1, ListIsKept DEF GoneTo, OnList
<1>6. FactoryTypes' /\ SocketTypes'
  <2>1. FactoryTypes'
    BY <1>1, TypesByComponent DEF IInv, FactoryTypes
  <2> QED BY <2>1, TypesStay DEF IInv
<1>7. creator' # "null" /\ \E u \in Threads : stage'[u] = "assign"
  BY <1>0, <1>1 DEF GoneTo
<1> QED BY <1>1, <1>2, <1>3, <1>4, <1>5, <1>6, <1>7, GotoKeeps

LEMMA InstalledKeeps ==
    ASSUME IInv, NEW t \in Threads, Installed(t), UNCHANGED <<webSockets, backend>> PROVE IInv'
<1>1. /\ up /\ stage[t] = "assign" /\ Handled(t, "null")
      /\ creator' = IF \E u \in Threads \ {t} : stage[u] = "assign" THEN "torn" ELSE "set"
      /\ Goto(t, "null") /\ UNCHANGED <<settled, tornCall>>
  BY DEF Installed, At
<1>2. "null" \in Stages \ {"idle"}
  BY DEF Stages
<1>3. Handling(t) /\ serving[t] \in Requests
  BY <1>1, AtWork
<1>0. GoneTo(t, "null") /\ answer' = answer
  BY <1>1, GotoMoves
<1>4. Handling(t)' /\ Checked(t)'
  BY <1>0, <1>1, <1>3, HandledIs DEF GoneTo, Handling, Checked
<1>5. List'
  BY <1>0, <1>1, ListIsKept DEF GoneTo, OnList
<1>6. FactoryTypes' /\ SocketTypes' /\ \A q \in Requests \ {serving[t]} : handler'[q] = handler[q]
  <2>1. FactoryTypes' /\ \A q \in Requests \ {serving[t]} : handler'[q] = handler[q]
    BY <1>1, HandledIs, TypesByComponent DEF IInv, FactoryTypes
  <2> QED BY <2>1, TypesStay DEF IInv
<1>7. creator' # "null" /\ (creator' = "torn" => \E u \in Threads : stage'[u] = "assign")
  BY <1>0, <1>1 DEF GoneTo
<1> QED BY <1>1, <1>2, <1>3, <1>4, <1>5, <1>6, <1>7, GotoKeeps

\* What the creator chooses is a handler, and not the null one for a route that
\* was registered.
LEMMA ChoiceIs ==
    ASSUME IInv, NEW r \in Requests
    PROVE  /\ Choice(r) \in {"null", "custom", "backend", "socket"}
           /\ Registered(r) => Choice(r) # "null"
<1>1. app \in Applications
  BY TypesByComponent DEF IInv, ServerTypes
<1>2. CASE Registered(r)
  <2>1. Asks(r).path \in DOMAIN app.handlers
    BY <1>2 DEF Registered, SameRoute
  <2> QED BY <1>1, <1>2, <2>1, ApplicationsAssumption DEF Choice
<1>3. CASE ~ Registered(r)
  <2>1. RouteType(Asks(r).path) \in {"endpoint", "entrypoint"}
    BY DEF RouteType
  <2>2. app.otherwise[RouteType(Asks(r).path)] \in {"null", "custom", "backend", "socket"}
    BY <1>1, <2>1, ApplicationsAssumption
  <2> QED BY <1>3, <2>2 DEF Choice
<1> QED BY <1>2, <1>3

LEMMA CreateKeeps ==
    ASSUME IInv, NEW t \in Threads, Create(t), UNCHANGED <<webSockets, backend>> PROVE IInv'
<1> DEFINE r == serving[t]
           c == Choice(r)
<1>1. /\ up /\ stage[t] = "create" /\ creator # "null" /\ Handled(t, c) /\ Goto(t, c)
      /\ UNCHANGED <<creator, settled, tornCall>>
  BY DEF Create, At
<1>2. Handling(t) /\ r \in Requests /\ c \in {"null", "custom", "backend", "socket"}
      /\ (Registered(r) => c # "null")
  BY <1>1, AtWork, ChoiceIs
<1> HIDE DEF c
<1>3. c \in Stages \ {"idle"} /\ c \notin OnList
      /\ c \notin {"install", "assign", "create", "push", "session", "permissions", "function"}
  BY <1>2 DEF Stages, SocketStages, OnList
<1>4. /\ handler'[r] = c /\ \A q \in Requests \ {r} : handler'[q] = handler[q]
      /\ FactoryTypes'
  BY <1>1, <1>2, HandledIs, TypesByComponent DEF IInv, FactoryTypes
<1>5. /\ stage'[t] = c /\ serving'[t] = serving[t] /\ answer' = answer /\ app' = app
      /\ answer[r] = "none" /\ GoneTo(t, c)
  BY <1>1, <1>2, GotoMoves DEF Handling, GoneTo
<1>6. Handling(t)'
  BY <1>1, <1>2, <1>3, <1>4, <1>5 DEF Handling, Registered, Asks, OnList
<1>7. Checked(t)'
  BY <1>3, <1>5 DEF Checked
<1>8. List'
  BY <1>1, <1>3, <1>5, ListIsKept DEF GoneTo, OnList
<1>9. SocketTypes'
  BY TypesStay DEF IInv
<1> QED BY <1>1, <1>2, <1>3, <1>4, <1>6, <1>7, <1>8, <1>9, GotoKeeps

LEMMA CreateFailsKeeps ==
    ASSUME IInv, NEW t \in Threads, CreateFails(t), UNCHANGED <<webSockets, backend>> PROVE IInv'
<1> DEFINE r == serving[t]
           o == Sent(Outcome(r), "500")
<1>1. /\ up /\ stage[t] = "create" /\ creator # "null" /\ Handled(t, "null")
      /\ GotoWith(t, "null", o) /\ UNCHANGED <<creator, settled, tornCall>>
  BY DEF CreateFails, At
<1>2. "null" \in Stages \ {"idle"} /\ "500" \in Statuses
  BY DEF Stages, Statuses
<1>3. Handling(t) /\ r \in Requests /\ answer[r] = "none"
  BY <1>1, AtWork DEF Handling
<1>4. o.answer = "500" /\ o \in Outcomes
  BY <1>2, <1>3, OutcomeIs, SentIs
<1> HIDE DEF o
<1>5. /\ FactoryTypes' /\ \A q \in Requests \ {r} : handler'[q] = handler[q]
  BY <1>1, HandledIs, TypesByComponent DEF IInv, FactoryTypes
<1>0. GoneTo(t, "null") /\ answer'[r] = "500"
  BY <1>1, <1>4, GotoWithMoves
<1>6. Handling(t)' /\ Checked(t)'
  BY <1>0, <1>1, <1>3 DEF GoneTo, Handling, Checked
<1>7. List'
  BY <1>0, <1>1, ListIsKept DEF GoneTo, OnList
<1>8. SocketTypes'
  BY TypesStay DEF IInv
<1> QED BY <1>1, <1>2, <1>3, <1>4, <1>5, <1>6, <1>7, <1>8, GotoWithKeeps

LEMMA CallTornKeeps ==
    ASSUME IInv, NEW t \in Threads, CallTorn(t), UNCHANGED <<webSockets, backend>> PROVE IInv'
<1>1. List'
  BY DEF IInv, List, CallTorn, Undefined, webSockets
<1>2. SocketTypes'
  BY TypesStay DEF IInv
<1> QED BY <1>1, <1>2, UndefinedKeeps DEF CallTorn, At

-------------------------------------------------------------------------------
(* The end of a request                                                    *)

LEMMA EndMoves ==
    ASSUME IInv, NEW t \in Threads, NEW S, End(t, S)
    PROVE  /\ stage'[t] = "idle" /\ UNCHANGED <<app, up>>
           /\ \A u \in Threads \ {t} : stage'[u] = stage[u] /\ serving'[u] = serving[u]
BY TypesByComponent DEF IInv, ServerTypes, End

\* EndKeeps for a handler that runs no function.
LEMMA EndPlain ==
    ASSUME IInv, NEW t \in Threads, up,
           stage[t] \notin {"idle", "create", "install", "assign"},
           NEW S, End(t, S), \A o \in S : Ends(o),
           stage[t] = "null" =>
              \A o \in S : answer[serving[t]] = "500" => o.answer = "500",
           UNCHANGED <<factory, backend>>, SocketTypes', List'
    PROVE  IInv'
<1> DEFINE r == serving[t]
<1>1. r \in Requests /\ Handling(t) /\ Fate(r)
  BY AtWork
<1>2. creator # "null"
  BY <1>1 DEF Handling
<1>3. \A o \in S : r \in settled /\ Registered(r) => handler[r] # "null" \/ o.answer = "500"
  <2>1. CASE stage[t] = "null"
    BY <1>1, <2>1 DEF Handling
  <2>2. CASE stage[t] # "null"
    <3>1. stage[t] \in Stages
      BY TypesByComponent DEF IInv, ServerTypes
    <3>2. handler[r] # "null"
      BY <1>1, <2>2, <3>1 DEF Handling, Stages, SocketStages
    <3> QED BY <3>2
  <2> QED BY <2>1, <2>2
<1>4. BackendTypes'
  BY EndMoves, TypesStay DEF IInv
<1>5. /\ UNCHANGED <<sessions, permitted, closedBefore, ran>>
      /\ ran'[r] # {} => r \notin closedBefore /\ Asks(r).cookie # None
  BY <1>1 DEF backend, Fate
<1> QED BY <1>1, <1>2, <1>3, <1>4, <1>5, EndKeeps

-------------------------------------------------------------------------------
(* WebSockets                                                              *)

\* A step that changes nothing but the list, loops and peers.
LEMMA OnlySocketsKeeps ==
    ASSUME IInv, UNCHANGED <<server, factory, backend>>, SocketTypes', List' PROVE IInv'
<1>1. UNCHANGED <<app, up, queue, stage, serving, answer, fate, silent,
                  creator, handler, settled, tornCall>>
  BY DEF server, factory
<1>2. TypeOK'
  <2>1. ServerTypes'
    BY <1>1, TypesByComponent DEF IInv, ServerTypes
  <2> QED BY <1>1, <2>1, TypesByComponent, TypesStay DEF IInv
<1>3. Queued' /\ Torn'
  BY <1>1 DEF IInv, Queued, Torn
<1>4. ASSUME NEW t \in Threads PROVE ThreadInv(t)'
  BY <1>1 DEF IInv, ThreadInv, Serving, Handling, Checked, Registered, Asks, backend
<1>5. ASSUME NEW r \in Requests PROVE Fate(r)'
  BY <1>1 DEF IInv, Fate, Over, Answered, Registered, Asks, backend
<1> QED BY <1>2, <1>3, <1>4, <1>5 DEF IInv

\* A thread moves from one stage of the list to another, and its loop is at an
\* end or it is at the stage of loops.
LEMMA ListMoves ==
    ASSUME IInv, NEW t \in Threads, NEW s \in OnList, GoneTo(t, s), stage[t] \in OnList,
           UNCHANGED <<sockets, abrupt, raced, usedDead>>,
           \A u \in Threads \ {t} : rest'[u] = rest[u],
           abrupt = {} /\ ~ raced =>
              /\ rest'[t] # <<>> => s = "broadcast"
              /\ \A k \in DOMAIN rest'[t] : \E i \in DOMAIN sockets : sockets[i] = rest'[t][k]
    PROVE  List'
<1> SUFFICES ASSUME abrupt = {}, ~ raced PROVE List'
  BY DEF List
<1>1. /\ ~ usedDead
      /\ \A i \in DOMAIN sockets :
            \E u \in Threads : serving[u] = sockets[i] /\ stage[u] \in OnList
      /\ \A i, j \in DOMAIN sockets : sockets[i] = sockets[j] => i = j
      /\ \A u \in Threads :
            /\ stage[u] \in OnList => \E i \in DOMAIN sockets : sockets[i] = serving[u]
            /\ rest[u] # <<>> => stage[u] = "broadcast"
            /\ \A k \in DOMAIN rest[u] : \E i \in DOMAIN sockets : sockets[i] = rest[u][k]
  BY DEF IInv, List
<1>2. \A i \in DOMAIN sockets :
         \E u \in Threads : serving'[u] = sockets[i] /\ stage'[u] \in OnList
  BY <1>1 DEF GoneTo
<1>3. \A u \in Threads :
         stage'[u] \in OnList => \E i \in DOMAIN sockets : sockets[i] = serving'[u]
  BY <1>1 DEF GoneTo
<1>4. \A u \in Threads : rest'[u] # <<>> => stage'[u] = "broadcast"
  BY <1>1 DEF GoneTo
<1>5. \A u \in Threads : \A k \in DOMAIN rest'[u] :
         \E i \in DOMAIN sockets : sockets[i] = rest'[u][k]
  BY <1>1
<1> QED BY <1>1, <1>2, <1>3, <1>4, <1>5 DEF List

\* Goto between stages at which the answer is 101, in the form of GotoKeeps.
LEMMA SocketGoto ==
    ASSUME IInv, NEW t \in Threads, NEW s \in OnList,
           stage[t] \in {"push", "receive", "broadcast"},
           up, Goto(t, s), UNCHANGED <<factory, backend>>, SocketTypes', List'
    PROVE  IInv'
<1>1. s \in Stages \ {"idle"} /\ s \in {"receive", "broadcast", "erase"}
  BY DEF Stages, SocketStages, OnList
<1>2. GoneTo(t, s) /\ answer' = answer
  BY GotoMoves
<1>3. Handling(t) /\ serving[t] \in Requests
  BY AtWork
<1>4. UNCHANGED <<creator, handler, settled, tornCall>>
  BY DEF factory
<1>5. Handling(t)'
  BY <1>1, <1>2, <1>3, <1>4 DEF GoneTo, Handling
<1>6. Checked(t)'
  BY <1>1, <1>2 DEF GoneTo, Checked
<1>7. FactoryTypes'
  BY TypesStay DEF IInv
<1> QED BY <1>1, <1>4, <1>5, <1>6, <1>7, GotoKeeps

LEMMA UpgradeKeeps ==
    ASSUME IInv, NEW t \in Threads, Upgrade(t), UNCHANGED <<factory, backend>> PROVE IInv'
<1> DEFINE o == Outcome(serving[t])
<1>1. up /\ stage[t] = "socket" /\ UNCHANGED webSockets
  BY DEF Upgrade, At
<1>2. serving[t] \in Requests /\ Handling(t) /\ answer[serving[t]] = "none"
  BY <1>1, AtWork DEF Handling
<1>3. o \in Outcomes /\ o.answer = "none" /\ ~ o.threw /\ "101" \in Statuses /\ "400" \in Statuses
  BY <1>2, OutcomeIs DEF Statuses
<1> HIDE DEF o
<1>4. SocketTypes' /\ (UNCHANGED factory => FactoryTypes')
  BY <1>1, TypesStay DEF IInv
<1>5. CASE GotoWith(t, "push", Sent(o, "101"))
  <2>1. Sent(o, "101") \in Outcomes /\ Sent(o, "101").answer = "101"
    BY <1>3, SentIs
  <2>2. GoneTo(t, "push") /\ answer'[serving[t]] = "101"
    BY <1>1, <1>5, <2>1, GotoWithMoves
  <2>3. List'
    BY <1>1, <2>2, ListIsKept DEF GoneTo, OnList
  <2>4. Handling(t)' /\ Checked(t)'
    BY <1>1, <1>2, <2>2 DEF GoneTo, Handling, Checked, factory
  <2>5. "push" \in Stages \ {"idle"}
    BY DEF Stages, SocketStages
  <2>6. UNCHANGED <<creator, handler, settled, tornCall>>
    BY DEF factory
  <2> QED BY <1>1, <1>4, <1>5, <2>1, <2>3, <2>4, <2>5, <2>6, GotoWithKeeps
<1>6. CASE End(t, {[o EXCEPT !.silent = TRUE], Sent(o, "400")})
  <2>1. Ends([o EXCEPT !.silent = TRUE])
    BY <1>3 DEF Outcomes, Ends
  <2>2. Ends(Sent(o, "400"))
    BY <1>3, SentIs DEF Ends, Statuses
  <2>3. List'
    BY <1>1, <1>6, EndMoves, ListIsKept DEF OnList
  <2>0. PICK S : S = {[o EXCEPT !.silent = TRUE], Sent(o, "400")}
    OBVIOUS
  <2>4. End(t, S) /\ \A x \in S : Ends(x)
    BY <1>6, <2>0, <2>1, <2>2
  <2>5. stage[t] \notin {"idle", "create", "install", "assign"} /\ stage[t] # "null"
    BY <1>1
  <2> QED BY <1>1, <1>4, <2>3, <2>4, <2>5, EndPlain
<1> QED BY <1>5, <1>6 DEF Upgrade, o

LEMMA PushKeeps ==
    ASSUME IInv, NEW t \in Threads, Push(t), UNCHANGED <<factory, backend>> PROVE IInv'
<1> DEFINE r == serving[t]
<1>1. /\ up /\ stage[t] = "push" /\ sockets' = Append(sockets, r)
      /\ raced' = (raced \/ Others(t) # {}) /\ Goto(t, "receive")
      /\ UNCHANGED <<rest, open, messages, abrupt, usedDead>>
  BY DEF Push, At
<1>2. r \in Requests /\ Serving(t) /\ r # None
  BY <1>1, AtWork
<1>3. GoneTo(t, "receive") /\ answer' = answer
  BY <1>1, GotoMoves
<1>4. sockets \in Seq(Requests)
  BY TypesByComponent DEF IInv, SocketTypes
<1>5. /\ sockets' \in Seq(Requests) /\ DOMAIN sockets' = DOMAIN sockets \cup {Len(sockets) + 1}
      /\ sockets'[Len(sockets) + 1] = r /\ Len(sockets) + 1 \notin DOMAIN sockets
      /\ \A k \in DOMAIN sockets : sockets'[k] = sockets[k]
  BY <1>1, <1>2, <1>4, Appended
<1>6. SocketTypes'
  BY <1>1, <1>5, TypesByComponent DEF IInv, SocketTypes
<1>7. List'
  <2> SUFFICES ASSUME abrupt = {}, ~ raced PROVE List'
    BY <1>1 DEF List
  <2>1. /\ ~ usedDead
        /\ \A i \in DOMAIN sockets :
              \E u \in Threads : serving[u] = sockets[i] /\ stage[u] \in OnList
        /\ \A i, j \in DOMAIN sockets : sockets[i] = sockets[j] => i = j
        /\ \A u \in Threads :
              /\ stage[u] \in OnList => \E i \in DOMAIN sockets : sockets[i] = serving[u]
              /\ rest[u] # <<>> => stage[u] = "broadcast"
              /\ \A k \in DOMAIN rest[u] : \E i \in DOMAIN sockets : sockets[i] = rest[u][k]
    BY DEF IInv, List
  <2>2. \A i \in DOMAIN sockets : sockets[i] # r
    BY <1>1, <1>2, <2>1 DEF Serving, OnList
  <2>3. \A i \in DOMAIN sockets' :
           \E u \in Threads : serving'[u] = sockets'[i] /\ stage'[u] \in OnList
    BY <1>1, <1>3, <1>5, <2>1 DEF GoneTo, OnList
  <2>4. \A i, j \in DOMAIN sockets' : sockets'[i] = sockets'[j] => i = j
    BY <1>5, <2>1, <2>2
  <2>5. \A u \in Threads :
           stage'[u] \in OnList => \E i \in DOMAIN sockets' : sockets'[i] = serving'[u]
    BY <1>3, <1>5, <2>1 DEF GoneTo
  <2>6. \A u \in Threads : rest'[u] # <<>> => stage'[u] = "broadcast"
    BY <1>1, <1>3, <2>1 DEF GoneTo
  <2>7. \A u \in Threads : \A k \in DOMAIN rest'[u] :
           \E i \in DOMAIN sockets' : sockets'[i] = rest'[u][k]
    <3>1. SUFFICES ASSUME NEW u \in Threads, NEW k \in DOMAIN rest[u]
                   PROVE  \E i \in DOMAIN sockets' : sockets'[i] = rest[u][k]
      BY <1>1
    <3>2. PICK i \in DOMAIN sockets : sockets[i] = rest[u][k]
      BY <2>1
    <3> QED BY <1>5, <3>2
  <2>8. ~ usedDead'
    BY <1>1, <2>1
  <2> QED BY <2>8, <2>3, <2>4, <2>5, <2>6, <2>7 DEF List
<1>8. "receive" \in OnList
  BY DEF OnList
<1> QED BY <1>1, <1>6, <1>7, <1>8, SocketGoto

LEMMA MessageKeeps ==
    ASSUME IInv, NEW t \in Threads, Message(t), UNCHANGED <<factory, backend>> PROVE IInv'
<1>1. /\ up /\ stage[t] = "receive" /\ messages < MaxMessages /\ messages' = messages + 1
      /\ rest' = [rest EXCEPT ![t] = sockets] /\ Goto(t, "broadcast")
      /\ UNCHANGED <<sockets, open, abrupt, raced, usedDead>>
  BY DEF Message, At
<1>2. GoneTo(t, "broadcast") /\ "broadcast" \in OnList /\ stage[t] \in OnList
  BY <1>1, GotoMoves DEF OnList
<1>3. rest'[t] = sockets /\ \A u \in Threads \ {t} : rest'[u] = rest[u]
  BY <1>1, TypesByComponent DEF IInv, SocketTypes
<1>4. List'
  BY <1>1, <1>2, <1>3, ListMoves
<1>5. messages' \in 0 .. MaxMessages
  BY <1>1, MessagesAssumption, TypesByComponent DEF IInv, SocketTypes
<1>6. SocketTypes'
  BY <1>1, <1>5, TypesByComponent DEF IInv, SocketTypes
<1> QED BY <1>1, <1>2, <1>4, <1>6, SocketGoto

LEMMA BroadcastedKeeps ==
    ASSUME IInv, NEW t \in Threads, Broadcasted(t) \/ TransferEnds(t),
           UNCHANGED <<factory, backend>>
    PROVE  IInv'
<1>1. PICK s \in {"receive", "erase"} : Goto(t, s)
  BY DEF Broadcasted, TransferEnds
<1>2. /\ up /\ stage[t] \in {"receive", "broadcast"} /\ UNCHANGED webSockets
      /\ stage[t] = "broadcast" => rest[t] = <<>>
  BY DEF Broadcasted, TransferEnds, At
<1>3. GoneTo(t, s) /\ s \in OnList /\ stage[t] \in OnList
  BY <1>1, <1>2, GotoMoves DEF OnList
<1>4. UNCHANGED <<sockets, rest, abrupt, raced, usedDead>>
  BY <1>2 DEF webSockets
<1>5. abrupt = {} /\ ~ raced => rest[t] = <<>>
  BY <1>2 DEF IInv, List
<1>6. List'
  BY <1>3, <1>4, <1>5, ListMoves
<1>7. SocketTypes'
  BY <1>2, TypesStay DEF IInv
<1> QED BY <1>1, <1>2, <1>3, <1>6, <1>7, SocketGoto

LEMMA SendToKeeps ==
    ASSUME IInv, NEW t \in Threads, SendTo(t), UNCHANGED <<factory, backend>> PROVE IInv'
<1>1. /\ stage[t] = "broadcast" /\ rest[t] # <<>> /\ rest' = [rest EXCEPT ![t] = Tail(@)]
      /\ UNCHANGED <<sockets, open, messages, abrupt, raced, usedDead, server>>
  BY DEF SendTo, At
<1>2. rest \in [Threads -> Seq(Requests)] /\ rest[t] \in Seq(Requests)
  BY TypesByComponent DEF IInv, SocketTypes
<1>3. /\ Tail(rest[t]) \in Seq(Requests)
      /\ \A k \in DOMAIN Tail(rest[t]) :
            k + 1 \in DOMAIN rest[t] /\ Tail(rest[t])[k] = rest[t][k + 1]
  BY <1>1, <1>2, Headed
<1>4. rest'[t] = Tail(rest[t]) /\ (\A u \in Threads \ {t} : rest'[u] = rest[u])
      /\ rest' \in [Threads -> Seq(Requests)]
  BY <1>1, <1>2, <1>3
<1>5. SocketTypes'
  BY <1>1, <1>4, TypesByComponent DEF IInv, SocketTypes
<1>6. GoneTo(t, "broadcast") /\ "broadcast" \in OnList
  BY <1>1 DEF GoneTo, server, OnList
<1>7. abrupt = {} /\ ~ raced =>
         \A k \in DOMAIN rest'[t] : \E i \in DOMAIN sockets : sockets[i] = rest'[t][k]
  BY <1>3, <1>4 DEF IInv, List
<1>8. List'
  BY <1>1, <1>4, <1>6, <1>7, ListMoves
<1> QED BY <1>1, <1>5, <1>8, OnlySocketsKeeps

LEMMA SendToDeadKeeps ==
    ASSUME IInv, NEW t \in Threads, SendToDead(t), UNCHANGED <<factory, backend>> PROVE IInv'
<1>1. /\ up /\ rest[t] # <<>> /\ ~ Live(Head(rest[t])) /\ usedDead' = TRUE /\ Undefined
      /\ UNCHANGED <<sockets, rest, open, messages, abrupt, raced>>
  BY DEF SendToDead, At
<1>2. SocketTypes'
  BY <1>1, TypesByComponent DEF IInv, SocketTypes
<1>3. abrupt # {} \/ raced
  <2> SUFFICES ASSUME abrupt = {}, ~ raced PROVE FALSE
    OBVIOUS
  <2>1. rest[t] \in Seq(Requests)
    BY TypesByComponent DEF IInv, SocketTypes
  <2>2. 1 \in DOMAIN rest[t] /\ Head(rest[t]) = rest[t][1]
    BY <1>1, <2>1, Headed
  <2>3. \E u \in Threads : serving[u] = rest[t][1] /\ stage[u] \in OnList
    <3>1. PICK i \in DOMAIN sockets : sockets[i] = rest[t][1]
      BY <2>2 DEF IInv, List
    <3> QED BY <3>1 DEF IInv, List
  <2> QED BY <1>1, <2>2, <2>3 DEF Live, OnList, SocketStages
<1>4. List'
  BY <1>1, <1>3 DEF List
<1>5. UNCHANGED <<creator, handler, settled, tornCall>>
  BY DEF factory
<1> QED BY <1>1, <1>2, <1>4, <1>5, UndefinedKeeps DEF IInv, Torn, TypeOK

LEMMA AbruptKeeps ==
    ASSUME IInv, NEW t \in Threads, ReceiveFails(t) \/ SendFails(t),
           UNCHANGED <<factory, backend>>
    PROVE  IInv'
<1> DEFINE o == Outcome(serving[t])
<1>1. /\ up /\ stage[t] \in {"receive", "broadcast"} /\ Abrupt(t)
      /\ UNCHANGED <<sockets, open, messages, raced, usedDead>>
      /\ rest' = rest \/ rest' = [rest EXCEPT ![t] = <<>>]
  BY DEF ReceiveFails, SendFails, At
<1>2. /\ abrupt' = abrupt \cup {serving[t]}
      /\ End(t, {o} \cup HandleRequest({JSONResponse(o, "500")}))
  BY <1>1 DEF Abrupt
<1>3. serving[t] \in Requests /\ answer[serving[t]] = "101"
  BY <1>1, AtWork DEF Handling
<1>4. o \in Outcomes /\ o.answer = "101" /\ "500" \in Statuses /\ "101" \in Statuses
  BY <1>3, OutcomeIs DEF Statuses
<1> HIDE DEF o
<1>5. PICK S : S = {o} \cup HandleRequest({JSONResponse(o, "500")})
  OBVIOUS
<1>6. End(t, S) /\ \A x \in S : Ends(x)
  <2>1. Ends(o)
    BY <1>4 DEF Ends
  <2>2. Catchable(JSONResponse(o, "500"))
    BY <1>4, SentIsCatchable DEF JSONResponse
  <2>3. \A x \in HandleRequest({JSONResponse(o, "500")}) : Ends(x)
    BY <2>2, HandleRequestEnds
  <2> QED BY <1>2, <1>5, <2>1, <2>3
<1>7. SocketTypes'
  <2>0. rest \in [Threads -> Seq(Requests)] /\ <<>> \in Seq(Requests)
    BY TypesByComponent DEF IInv, SocketTypes
  <2>1. rest' \in [Threads -> Seq(Requests)]
    BY <1>1, <2>0
  <2>2. abrupt' \subseteq Requests
    BY <1>2, <1>3, TypesByComponent DEF IInv, SocketTypes
  <2> QED BY <1>1, <2>1, <2>2, TypesByComponent DEF IInv, SocketTypes
<1>8. List'
  BY <1>2 DEF List
<1>9. stage[t] \notin {"idle", "create", "install", "assign"} /\ stage[t] # "null"
  BY <1>1
<1> QED BY <1>1, <1>6, <1>7, <1>8, <1>9, EndPlain

\* Erasing leaves the list with each handler at its stages but the one that ends.
LEMMA EraseKeeps ==
    ASSUME IInv, NEW t \in Threads, Erase(t), UNCHANGED <<factory, backend>> PROVE IInv'
<1> DEFINE r == serving[t]
           o == Outcome(r)
<1>1. /\ up /\ stage[t] = "erase" /\ sockets' = Without(sockets, r)
      /\ raced' = (raced \/ Others(t) # {})
      /\ rest' = [u \in Threads |-> IF u = t THEN rest[u] ELSE Shifted(rest[u], r)]
      /\ End(t, {o}) /\ UNCHANGED <<open, messages, abrupt, usedDead>>
  BY DEF Erase, At
<1>2. r \in Requests /\ Serving(t) /\ r # None /\ answer[r] = "101"
  BY <1>1, AtWork DEF Handling
<1>3. sockets \in Seq(Requests) /\ rest \in [Threads -> Seq(Requests)]
  BY TypesByComponent DEF IInv, SocketTypes
<1>4. SocketTypes'
  <2>1. sockets' \in Seq(Requests)
    BY <1>1, <1>3, WithoutTypes
  <2>2. ASSUME NEW u \in Threads PROVE Shifted(rest[u], r) \in Seq(Requests)
    <3>1. CASE rest[u] = <<>>
      BY <1>3, <3>1 DEF Shifted
    <3>2. CASE rest[u] # <<>>
      <4>1. PICK q \in Seq(Requests) : q = rest[u]
        BY <1>3
      <4>2. Last(q) \in Requests
        BY <3>2, <4>1 DEF Last
      <4>3. Without(q, r) \in Seq(Requests) /\ Tail(q) \in Seq(Requests)
        BY <3>2, <4>1, WithoutTypes, Headed
      <4>4. (IF r \in ToSet(q) THEN Without(q, r) ELSE Tail(q)) \in Seq(Requests)
        BY <4>3
      <4> QED BY <3>2, <4>1, <4>2, <4>4, Appended DEF Shifted
    <3> QED BY <3>1, <3>2
  <2>3. rest' \in [Threads -> Seq(Requests)]
    BY <1>1, <1>3, <2>2
  <2> QED BY <1>1, <2>1, <2>3, TypesByComponent DEF IInv, SocketTypes
<1>5. /\ stage'[t] = "idle"
      /\ \A u \in Threads \ {t} : stage'[u] = stage[u] /\ serving'[u] = serving[u]
  BY <1>1, EndMoves
<1>6. List'
  <2> SUFFICES ASSUME abrupt = {}, ~ raced, Others(t) = {} PROVE List'
    BY <1>1 DEF List
  <2>1. /\ ~ usedDead
        /\ \A i \in DOMAIN sockets :
              \E u \in Threads : serving[u] = sockets[i] /\ stage[u] \in OnList
        /\ \A i, j \in DOMAIN sockets : sockets[i] = sockets[j] => i = j
        /\ \A u \in Threads :
              /\ stage[u] \in OnList => \E i \in DOMAIN sockets : sockets[i] = serving[u]
              /\ rest[u] # <<>> => stage[u] = "broadcast"
    BY DEF IInv, List
  <2>2. \A u \in Threads \ {t} : stage[u] # "broadcast"
    BY DEF Others, ListStages
  <2>3. \A u \in Threads : rest'[u] = <<>>
    BY <1>1, <2>1, <2>2 DEF Shifted
  <2>4. r \in ToSet(sockets)
    BY <1>1, <2>1 DEF OnList, ToSet
  <2>5. PICK p \in DOMAIN sockets :
           /\ sockets[p] = r
           /\ sockets' \in Seq(Requests) /\ Len(sockets') = Len(sockets) - 1
           /\ \A i \in DOMAIN sockets' :
                 sockets'[i] = IF i < p THEN sockets[i] ELSE sockets[i + 1]
    <3>1. PICK s, e : s = sockets /\ e = r
      OBVIOUS
    <3>2. s \in Seq(Requests) /\ e \in ToSet(s) /\ sockets' = Without(s, e)
      BY <1>1, <1>3, <2>4, <3>1
    <3>3. \E p \in DOMAIN s :
             /\ s[p] = e
             /\ Without(s, e) \in Seq(Requests) /\ Len(Without(s, e)) = Len(s) - 1
             /\ \A i \in DOMAIN Without(s, e) :
                   Without(s, e)[i] = IF i < p THEN s[i] ELSE s[i + 1]
      BY <3>2, WithoutIs
    <3> QED BY <3>1, <3>2, <3>3
  <2>6. PICK n \in Nat : /\ n = Len(sockets) /\ DOMAIN sockets = 1 .. n
                         /\ DOMAIN sockets' = 1 .. n - 1 /\ p \in 1 .. n
    BY <1>3, <2>5
  \* Where a place of the list is in the list before.
  <2> DEFINE from(i) == IF i < p THEN i ELSE i + 1
  <2>7. \A i \in 1 .. n - 1 : from(i) \in 1 .. n /\ from(i) # p /\ sockets'[i] = sockets[from(i)]
    BY <2>5, <2>6
  <2>8. \A i, j \in 1 .. n - 1 : from(i) = from(j) => i = j
    BY <2>6
  <2>9. \A j \in 1 .. n : j # p => \E i \in 1 .. n - 1 : from(i) = j
    <3>1. SUFFICES ASSUME NEW j \in 1 .. n, j # p PROVE \E i \in 1 .. n - 1 : from(i) = j
      OBVIOUS
    <3>2. CASE j < p
      <4>1. j \in 1 .. n - 1 /\ from(j) = j
        BY <2>6, <3>2
      <4> QED BY <4>1
    <3>3. CASE ~ (j < p)
      <4>1. j - 1 \in 1 .. n - 1 /\ from(j - 1) = j
        BY <2>6, <3>1, <3>3
      <4> QED BY <4>1
    <3> QED BY <3>2, <3>3
  <2> HIDE DEF from
  <2>10. \A i, j \in DOMAIN sockets' : sockets'[i] = sockets'[j] => i = j
    BY <2>1, <2>6, <2>7, <2>8
  <2>11. \A i \in DOMAIN sockets' :
            \E u \in Threads : serving'[u] = sockets'[i] /\ stage'[u] \in OnList
    <3>1. SUFFICES ASSUME NEW i \in 1 .. n - 1
                   PROVE  \E u \in Threads : serving'[u] = sockets'[i] /\ stage'[u] \in OnList
      BY <2>6
    <3>2. from(i) \in DOMAIN sockets /\ from(i) # p /\ sockets'[i] = sockets[from(i)]
      BY <2>6, <2>7
    <3>3. PICK u \in Threads : serving[u] = sockets[from(i)] /\ stage[u] \in OnList
      BY <2>1, <3>2
    <3>4. u # t
      BY <2>1, <2>5, <3>2, <3>3
    <3> QED BY <1>5, <3>2, <3>3, <3>4
  <2>12. \A u \in Threads :
            stage'[u] \in OnList => \E i \in DOMAIN sockets' : sockets'[i] = serving'[u]
    <3>1. SUFFICES ASSUME NEW u \in Threads, stage'[u] \in OnList
                   PROVE  \E i \in DOMAIN sockets' : sockets'[i] = serving'[u]
      OBVIOUS
    <3>2. u # t
      BY <1>5, <3>1 DEF OnList
    <3>3. PICK j \in DOMAIN sockets : sockets[j] = serving[u]
      BY <1>5, <2>1, <3>1, <3>2
    <3>4. j # p
      BY <1>2, <2>5, <3>2, <3>3 DEF Serving
    <3>5. PICK i \in 1 .. n - 1 : from(i) = j
      BY <2>6, <2>9, <3>3, <3>4
    <3> QED BY <1>5, <2>6, <2>7, <3>2, <3>3, <3>5
  <2>13. ~ usedDead'
    BY <1>1, <2>1
  <2> QED BY <2>3, <2>10, <2>11, <2>12, <2>13 DEF List
<1>7. End(t, {o}) /\ \A x \in {o} : Ends(x)
  <2>1. Ends(o)
    BY <1>2, OutcomeIs DEF Ends, Statuses
  <2> QED BY <1>1, <2>1
<1>8. stage[t] \notin {"idle", "create", "install", "assign"} /\ stage[t] # "null"
  BY <1>1
<1> HIDE DEF o
<1>9. PICK S : S = {o}
  OBVIOUS
<1> QED BY <1>1, <1>4, <1>6, <1>7, <1>8, <1>9, EndPlain

LEMMA ListRaceKeeps ==
    ASSUME IInv, NEW t \in Threads, ListRace(t), UNCHANGED <<factory, backend>> PROVE IInv'
<1>1. /\ up /\ raced' = TRUE /\ Undefined
      /\ UNCHANGED <<sockets, rest, open, messages, abrupt, usedDead>>
  BY DEF ListRace
<1>2. SocketTypes'
  BY <1>1, TypesByComponent DEF IInv, SocketTypes
<1>3. List'
  BY <1>1 DEF List
<1>4. UNCHANGED <<creator, handler, settled, tornCall>>
  BY DEF factory
<1> QED BY <1>1, <1>2, <1>3, <1>4, UndefinedKeeps DEF IInv, Torn, TypeOK

LEMMA PeerClosesKeeps ==
    ASSUME IInv, NEW r \in Requests, PeerCloses(r), UNCHANGED <<factory, backend>> PROVE IInv'
<1>1. /\ open' = open \ {r}
      /\ UNCHANGED <<sockets, rest, messages, abrupt, raced, usedDead, server>>
  BY DEF PeerCloses
<1>2. SocketTypes'
  BY <1>1, TypesByComponent DEF IInv, SocketTypes
<1>3. List'
  BY <1>1 DEF IInv, List, server
<1> QED BY <1>1, <1>2, <1>3, OnlySocketsKeeps

-------------------------------------------------------------------------------
(* The pipeline of a request                                               *)

\* A handler off the list ends.
LEMMA EndOffList ==
    ASSUME IInv, NEW t \in Threads, up, NEW S, End(t, S), \A o \in S : Ends(o),
           stage[t] \in {"null", "custom", "backend", "session", "permissions"},
           stage[t] = "null" =>
              \A o \in S : answer[serving[t]] = "500" => o.answer = "500",
           UNCHANGED <<factory, backend, webSockets>>
    PROVE  IInv'
<1>1. List'
  BY EndMoves, ListIsKept DEF OnList
<1>2. SocketTypes'
  BY TypesStay DEF IInv
<1>3. stage[t] \notin {"idle", "create", "install", "assign"}
  OBVIOUS
<1> QED BY <1>1, <1>2, <1>3, EndPlain

\* A handler off the list goes on to the next check.
LEMMA CheckKeeps ==
    ASSUME IInv, NEW t \in Threads, up, NEW s \in {"session", "permissions", "function"},
           stage[t] \in {"backend", "session", "permissions"},
           Goto(t, s), UNCHANGED <<factory, backend, webSockets>>, Checked(t)'
    PROVE  IInv'
<1>1. GoneTo(t, s) /\ answer' = answer
  BY GotoMoves
<1>2. Handling(t)
  BY AtWork
<1>3. UNCHANGED <<creator, handler, settled, tornCall>>
  BY DEF factory
<1>4. Handling(t)'
  BY <1>1, <1>2, <1>3 DEF GoneTo, Handling
<1>5. List'
  BY <1>1, ListIsKept DEF GoneTo, OnList
<1>6. FactoryTypes' /\ SocketTypes'
  BY TypesStay DEF IInv
<1>7. s \in Stages \ {"idle"}
  BY DEF Stages
<1> QED BY <1>3, <1>4, <1>5, <1>6, <1>7, GotoKeeps

LEMMA ServeNullKeeps ==
    ASSUME IInv, NEW t \in Threads, ServeNull(t), UNCHANGED <<factory, webSockets>> PROVE IInv'
<1> DEFINE o == SetUp(serving[t])
<1>1. PICK q : q = IF o.threw THEN o ELSE HTMLResponse(o, "404")
  OBVIOUS
<1>2. /\ up /\ stage[t] = "null" /\ End(t, HandleRequest({q})) /\ UNCHANGED backend
  BY <1>1 DEF ServeNull, At
<1>3. serving[t] \in Requests /\ answer[serving[t]] \in Statuses \cup {"none"}
  BY <1>2, AtWork
<1>4. o \in Outcomes /\ o.answer = answer[serving[t]] /\ "404" \in Statuses
  BY <1>3, SetUpIs DEF Statuses
<1> HIDE DEF o
<1>5. Catchable(q) /\ (o.answer = "500" => q.answer = "500")
  BY <1>1, <1>4, SentIs, SentIsCatchable DEF HTMLResponse, Catchable
<1>6. PICK S : S = HandleRequest({q})
  OBVIOUS
<1>7. \A x \in S : Ends(x) /\ (o.answer = "500" => x.answer = "500")
  BY <1>5, <1>6, HandleRequestEnds
<1> QED BY <1>2, <1>4, <1>6, <1>7, EndOffList

LEMMA ServeCustomKeeps ==
    ASSUME IInv, NEW t \in Threads, ServeCustom(t), UNCHANGED <<factory, webSockets>>
    PROVE  IInv'
<1> DEFINE o == SetUp(serving[t])
<1>1. PICK Q : Q = IF o.threw THEN {o} ELSE Callback(o) \cup FileResponse(o, "200")
  OBVIOUS
<1>2. /\ up /\ stage[t] = "custom" /\ End(t, HandleRequest(Q)) /\ UNCHANGED backend
  BY <1>1 DEF ServeCustom, At
<1>3. serving[t] \in Requests /\ answer[serving[t]] \in Statuses \cup {"none"}
  BY <1>2, AtWork
<1>4. o \in Outcomes
  BY <1>3, SetUpIs
<1> HIDE DEF o
<1>5. \A q \in Q : Catchable(q)
  BY <1>1, <1>4, CallbackIsCatchable, FileResponseIsCatchable DEF Catchable
<1>6. PICK S : S = HandleRequest(Q)
  OBVIOUS
<1>7. \A x \in S : Ends(x)
  BY <1>5, <1>6, HandleRequestEnds
<1> QED BY <1>2, <1>6, <1>7, EndOffList

LEMMA RouteKeeps ==
    ASSUME IInv, NEW t \in Threads, Route(t), UNCHANGED <<factory, webSockets>> PROVE IInv'
<1> DEFINE o == SetUp(serving[t])
<1>1. PICK Q : Q = {Thrown(o)} \cup
               {JSONResponse(x, "404") :
                   x \in {y \in {o} : ~ y.threw /\ IdentifyRoute(serving[t]) = {}}}
  OBVIOUS
<1>2. /\ up /\ stage[t] = "backend" /\ UNCHANGED backend
      /\ Goto(t, "session") \/ End(t, HandleRequest(Q))
  BY <1>1 DEF Route, At
<1>3. serving[t] \in Requests /\ answer[serving[t]] \in Statuses \cup {"none"}
  BY <1>2, AtWork
<1>4. o \in Outcomes /\ "404" \in Statuses
  BY <1>3, SetUpIs DEF Statuses
<1> HIDE DEF o
<1>5. CASE Goto(t, "session")
  <2>1. Checked(t)'
    BY <1>5, GotoMoves DEF GoneTo, Checked
  <2> QED BY <1>2, <1>5, <2>1, CheckKeeps
<1>6. CASE End(t, HandleRequest(Q))
  <2>1. \A q \in Q : q = Thrown(o) \/ q = JSONResponse(o, "404")
    BY <1>1
  <2>2. \A q \in Q : Catchable(q)
    BY <1>4, <2>1, ThrownIs, SentIsCatchable DEF Catchable, JSONResponse
  <2>3. PICK S : S = HandleRequest(Q)
    OBVIOUS
  <2>4. \A x \in S : Ends(x)
    BY <2>2, <2>3, HandleRequestEnds
  <2> QED BY <1>2, <1>6, <2>3, <2>4, EndOffList
<1> QED BY <1>2, <1>5, <1>6

LEMMA RefuseKeeps ==
    ASSUME IInv, NEW t \in Threads, up, stage[t] \in {"session", "permissions"}, Refuse(t),
           UNCHANGED <<factory, backend, webSockets>>
    PROVE  IInv'
<1> DEFINE q == JSONResponse(Outcome(serving[t]), "401")
<1>1. serving[t] \in Requests /\ answer[serving[t]] = "none"
  BY AtWork DEF Handling
<1>2. Ends(q)
  BY <1>1, OutcomeIs, SentIs DEF JSONResponse, Ends, Statuses
<1>3. PICK S : S = {q}
  OBVIOUS
<1>4. End(t, S)
  BY <1>3 DEF Refuse
<1> QED BY <1>2, <1>3, <1>4, EndOffList

\* Behind the session check a request has a cookie, and behind the permissions
\* one its session was open and permitted when it arrived.
LEMMA VerifyKeeps ==
    ASSUME IInv, NEW t \in Threads, VerifySession(t) \/ VerifyPermissions(t),
           UNCHANGED <<factory, webSockets>>
    PROVE  IInv'
<1> DEFINE r == serving[t]
<1>1. up /\ stage[t] \in {"session", "permissions"} /\ UNCHANGED backend
  BY DEF VerifySession, VerifyPermissions, At
<1>2. /\ r \in Requests /\ Checked(t) /\ Fate(r)
      /\ sessions \subseteq Cookies /\ None \notin Cookies
  BY <1>1, AtWork, TypesByComponent DEF IInv, BackendTypes, Cookies
<1>3. CASE Refuse(t)
  BY <1>1, <1>3, RefuseKeeps
<1>4. CASE stage[t] = "session" /\ Asks(r).cookie \in sessions /\ Goto(t, "permissions")
  <2>1. GoneTo(t, "permissions")
    BY <1>4, GotoMoves
  <2>2. Checked(t)'
    BY <1>1, <1>2, <1>4, <2>1 DEF GoneTo, Checked, Fate, Asks, backend
  <2> QED BY <1>1, <1>4, <2>2, CheckKeeps
<1>5. CASE stage[t] = "permissions" /\ Asks(r).cookie \in permitted /\ Goto(t, "function")
  <2>1. GoneTo(t, "function")
    BY <1>5, GotoMoves
  <2>2. Checked(t)'
    BY <1>1, <1>2, <1>5, <2>1 DEF GoneTo, Checked, Asks, backend
  <2> QED BY <1>1, <1>5, <2>2, CheckKeeps
<1> QED BY <1>3, <1>4, <1>5 DEF VerifySession, VerifyPermissions, At

LEMMA ProcessActionsKeeps ==
    ASSUME IInv, NEW t \in Threads, ProcessActions(t), UNCHANGED <<factory, webSockets>>
    PROVE  IInv'
<1> DEFINE r == serving[t]
<1>1. PICK f \in IdentifyRoute(r) :
         /\ ran' = [ran EXCEPT ![r] = @ \cup {f}]
         /\ End(t, HandleRequest(FunctionProcess(Outcome(r), f.type)))
  BY DEF ProcessActions
<1>2. up /\ stage[t] = "function" /\ UNCHANGED <<sessions, permitted, closedBefore>>
  BY DEF ProcessActions, At
<1>3. /\ r \in Requests /\ Checked(t) /\ Handling(t)
      /\ answer[r] \in Statuses \cup {"none"}
  BY <1>2, AtWork
<1>4. Outcome(r) \in Outcomes
  BY <1>3, OutcomeIs
<1>5. PICK S : S = HandleRequest(FunctionProcess(Outcome(r), f.type))
  OBVIOUS
<1>6. End(t, S) /\ \A x \in S : Ends(x)
  BY <1>1, <1>4, <1>5, FunctionProcessIsCatchable, HandleRequestEnds
<1>7. /\ stage'[t] = "idle" /\ app' = app
      /\ \A u \in Threads \ {t} : stage'[u] = stage[u] /\ serving'[u] = serving[u]
  BY <1>6, EndMoves
<1>8. BackendTypes'
  <2>1. f \in Functions
    BY DEF IdentifyRoute
  <2>2. Functions' = Functions /\ Cookies' = Cookies
    BY <1>7 DEF Functions, Cookies, Asks
  <2>3. ran \in [Requests -> SUBSET Functions]
    BY TypesByComponent DEF IInv, BackendTypes
  <2>4. ran' \in [Requests -> SUBSET Functions]
    BY <1>1, <1>3, <2>1, <2>3
  <2> QED BY <1>2, <2>2, <2>4, TypesByComponent DEF IInv, BackendTypes
<1>9. /\ \A q \in Requests \ {r} : ran'[q] = ran[q]
      /\ r \notin closedBefore /\ Asks(r).cookie # None
  BY <1>1, <1>2, <1>3, TypesByComponent DEF IInv, BackendTypes, Checked
<1>10. List' /\ SocketTypes'
  BY <1>2, <1>7, ListIsKept, TypesStay DEF IInv, OnList
<1>11. creator # "null" /\ handler[r] # "null"
       /\ stage[t] \notin {"idle", "create", "install", "assign"}
  BY <1>2, <1>3 DEF Handling
<1> QED BY <1>2, <1>3, <1>6, <1>8, <1>9, <1>10, <1>11, EndKeeps

LEMMA LogoutKeeps ==
    ASSUME IInv, NEW c, Logout(c), UNCHANGED <<factory, webSockets>> PROVE IInv'
<1>1. /\ sessions' = sessions \ {c}
      /\ UNCHANGED <<permitted, closedBefore, ran, app, up, queue, stage, serving, answer, fate,
                     silent, creator, handler, settled, tornCall>>
  BY DEF Logout, server, factory
<1>2. TypeOK'
  <2>1. ServerTypes'
    BY <1>1, TypesByComponent DEF IInv, ServerTypes
  <2>2. BackendTypes'
    BY <1>1, TypesByComponent DEF IInv, BackendTypes, Cookies, Asks, Functions
  <2> QED BY <2>1, <2>2, TypesByComponent, TypesStay DEF IInv
<1>3. Queued' /\ Torn' /\ List'
  BY <1>1 DEF IInv, Queued, Torn, List, webSockets
<1>4. ASSUME NEW t \in Threads PROVE ThreadInv(t)'
  BY <1>1 DEF IInv, ThreadInv, Serving, Handling, Checked, Registered, Asks
<1>5. ASSUME NEW r \in Requests PROVE Fate(r)'
  BY <1>1 DEF IInv, Fate, Over, Answered, Registered, Asks
<1> QED BY <1>2, <1>3, <1>4, <1>5 DEF IInv

-------------------------------------------------------------------------------
(* The invariant                                                           *)

LEMMA StepIInv == ASSUME IInv, [Next]_vars PROVE IInv'
<1>1. CASE UNCHANGED vars
  <2>1. UNCHANGED <<server, factory, webSockets, backend>>
    BY <1>1 DEF vars
  <2>2. SocketTypes' /\ List'
    BY <2>1, TypesStay DEF IInv, List, server, webSockets
  <2> QED BY <2>1, <2>2, OnlySocketsKeeps
<1>2. ASSUME NEW t \in Threads, Serve(t) PROVE IInv'
  <2>1. CASE Begin(t)
    BY <2>1, TakeKeeps
  <2>2. CASE ServeCreate(t) /\ UNCHANGED <<webSockets, backend>>
    BY <2>2, FindNullKeeps, InstallKeeps, InstalledKeeps, CreateKeeps, CreateFailsKeeps,
       CallTornKeeps DEF ServeCreate
  <2>3. CASE ServeSocket(t) /\ UNCHANGED <<factory, backend>>
    BY <2>3, UpgradeKeeps, PushKeeps, SendToKeeps, SendToDeadKeeps, BroadcastedKeeps,
       EraseKeeps DEF ServeSocket
  <2>4. CASE ServeBackend(t) /\ UNCHANGED <<factory, webSockets>>
    BY <2>4, ServeNullKeeps, ServeCustomKeeps, RouteKeeps, VerifyKeeps, ProcessActionsKeeps
       DEF ServeBackend
  <2> QED BY <1>2, <2>1, <2>2, <2>3, <2>4 DEF Serve
<1>3. ASSUME NEW r \in Requests, Arrive(r) PROVE IInv'
  BY <1>3, ArriveKeeps
<1>4. ASSUME Peers, UNCHANGED <<factory, backend>> PROVE IInv'
  BY <1>4, MessageKeeps, AbruptKeeps, ListRaceKeeps, PeerClosesKeeps DEF Peers
<1>5. ASSUME NEW c \in Cookies, Logout(c), UNCHANGED <<factory, webSockets>> PROVE IInv'
  BY <1>5, LogoutKeeps
<1> QED BY <1>1, <1>2, <1>3, <1>4, <1>5 DEF Next, Environment

LEMMA Invariance == Spec => []IInv
BY InitIInv, StepIInv, PTL DEF Spec

-------------------------------------------------------------------------------
(* What follows from it                                                    *)

\* The state of the server has its types, for any applications, threads and requests.
THEOREM TypeCorrect == Spec => []TypeOK
<1>1. IInv => TypeOK
  BY DEF IInv
<1> QED BY <1>1, Invariance, PTL

\* Whatever throws, a request that is over was answered by this code: Poco never
\* answers in its place, whatever the handler, the function and the callback did.
THEOREM RequestsAreAnswered == Spec => []EveryRequestIsAnswered
<1>1. IInv => EveryRequestIsAnswered
  BY DEF IInv, Fate, Answered, EveryRequestIsAnswered
<1> QED BY <1>1, Invariance, PTL

\* No request runs a function without a session that was open and permitted when
\* it arrived or later.
THEOREM FunctionsRunBehindChecks == Spec => []RunsBehindChecks
<1>1. IInv => RunsBehindChecks
  BY DEF IInv, Fate, RunsBehindChecks
<1> QED BY <1>1, Invariance, PTL

-------------------------------------------------------------------------------
(* The functions that run                                                  *)

\* The state of the loop of AddFunctions_ after n calls of AddFunction_.
AddedSoFar(added, n) ==
    {f \in {added[i] : i \in 1 .. n} :
       \A i \in 1 .. n : added[i].endpoint = f.endpoint => \E j \in 1 .. i : added[j] = f}

\* A function of the map was added, and before any other of its endpoint.
LEMMA FirstAdded ==
    ASSUME app.added \in Seq(FunctionSet), NEW f \in Functions
    PROVE  \A i \in DOMAIN app.added :
              app.added[i].endpoint = f.endpoint => \E j \in 1 .. i : app.added[j] = f
<1> DEFINE added == app.added
           N == Len(added)
           T == SUBSET FunctionSet
           step == [n \in 1 .. N |-> [x \in T |-> AddFunction(x, added[n])]]
           Loop(g) == g = [n \in 0 .. N |-> IF n = 0 THEN {} ELSE AddFunction(g[n - 1], added[n])]
<1>1. N \in Nat /\ DOMAIN added = 1 .. N /\ \A n \in 1 .. N : added[n] \in FunctionSet
  OBVIOUS
<1> HIDE DEF added, N, T
<1>2. \E g \in [0 .. N -> T] : Loop(g)
  <2>1. \A n \in 1 .. N : \A x \in T : AddFunction(x, added[n]) \in T
    BY <1>1 DEF AddFunction, T
  <2>2. AreTurns(step, N, T)
    BY <2>1 DEF AreTurns
  <2>3. {} \in T
    BY DEF T
  <2> HIDE DEF step
  <2>4. PICK g \in [0 .. N -> T] : AreStates(g, N, {}, step)
    BY <1>1, <2>2, <2>3, LoopExists
  <2>5. ASSUME NEW n \in 1 .. N PROVE g[n] = AddFunction(g[n - 1], added[n])
    <3>1. g[n] = step[n][g[n - 1]]
      BY <2>4 DEF AreStates
    <3>2. g[n - 1] \in T
      BY <1>1, <2>4
    <3> QED BY <3>1, <3>2 DEF step
  <2>6. \A n \in 0 .. N : n = 0 \/ n \in 1 .. N
    BY <1>1
  <2>7. Loop(g)
    BY <1>1, <2>4, <2>5, <2>6 DEF AreStates
  <2> QED BY <2>7
<1>3. PICK after : after = CHOOSE g : Loop(g)
  OBVIOUS
<1>4. after[0] = {} /\ \A n \in 1 .. N : after[n] = AddFunction(after[n - 1], added[n])
  <2>1. Loop(after)
    <3> HIDE DEF Loop
    <3> QED BY <1>2, <1>3
  <2>2. after[0] = {}
    BY <1>1, <2>1
  <2>3. ASSUME NEW n \in 1 .. N PROVE after[n] = AddFunction(after[n - 1], added[n])
    BY <1>1, <2>1
  <2> QED BY <2>2, <2>3
<1>5. Functions = after[N]
  BY <1>3 DEF Functions, added, N
<1> DEFINE Good ==
             {n \in 0 .. N :
                /\ after[n] \subseteq AddedSoFar(added, n)
                /\ \A i \in 1 .. n : \E g \in after[n] : g.endpoint = added[i].endpoint}
<1>6. 0 \in Good
  BY <1>1, <1>4
<1>7. ASSUME NEW n \in 0 .. N, n \in Good, n < N PROVE n + 1 \in Good
  <2>1. n + 1 \in 1 .. N /\ after[n + 1] = AddFunction(after[n], added[n + 1])
    <3>1. n + 1 \in 1 .. N /\ (n + 1) - 1 = n
      BY <1>1, <1>7
    <3> QED BY <1>4, <3>1
  <2>2. /\ after[n] \subseteq AddedSoFar(added, n)
        /\ \A i \in 1 .. n : \E g \in after[n] : g.endpoint = added[i].endpoint
    BY <1>7
  <2>3. \A i \in 1 .. n + 1 : i \in 1 .. n \/ i = n + 1
    BY <1>1
  <2>4. CASE \E g \in after[n] : g.endpoint = added[n + 1].endpoint
    <3>1. after[n + 1] = after[n]
      BY <2>1, <2>4 DEF AddFunction
    <3>2. ASSUME NEW h \in after[n] PROVE h \in AddedSoFar(added, n + 1)
      <4>1. /\ \E i \in 1 .. n : h = added[i]
            /\ \A i \in 1 .. n : added[i].endpoint = h.endpoint => \E j \in 1 .. i : added[j] = h
        BY <2>2, <3>2 DEF AddedSoFar
      <4> QED BY <1>1, <2>3, <4>1 DEF AddedSoFar
    <3> QED BY <2>1, <2>2, <2>3, <2>4, <3>1, <3>2
  <2>5. CASE ~ \E g \in after[n] : g.endpoint = added[n + 1].endpoint
    <3>1. after[n + 1] = after[n] \cup {added[n + 1]}
      BY <2>1, <2>5 DEF AddFunction
    <3>2. ASSUME NEW h \in after[n] PROVE h \in AddedSoFar(added, n + 1)
      <4>1. /\ \E i \in 1 .. n : h = added[i]
            /\ \A i \in 1 .. n : added[i].endpoint = h.endpoint => \E j \in 1 .. i : added[j] = h
        BY <2>2, <3>2 DEF AddedSoFar
      <4> QED BY <1>1, <2>3, <4>1 DEF AddedSoFar
    <3>3. added[n + 1] \in AddedSoFar(added, n + 1)
      <4>1. \A i \in 1 .. n : added[i].endpoint # added[n + 1].endpoint
        BY <2>2, <2>5
      <4> QED BY <1>1, <2>1, <2>3, <4>1 DEF AddedSoFar
    <3> QED BY <2>1, <2>2, <2>3, <3>1, <3>2, <3>3
  <2> QED BY <2>4, <2>5
<1>8. N \in Good
  <2> HIDE DEF Good
  <2>1. 0 .. N \subseteq Good
    BY <1>1, <1>6, <1>7, Induction
  <2> QED BY <1>1, <2>1
<1>9. f \in AddedSoFar(added, N)
  BY <1>5, <1>8
<1> QED BY <1>1, <1>9 DEF AddedSoFar, added, N

\* The application stays, and a function that runs is the one of the request.
RanIsAsked == app \in Applications /\ \A r \in Requests : ran[r] \subseteq IdentifyRoute(r)

LEMMA AppStays == ASSUME [Next]_vars PROVE app' = app
<1>1. CASE UNCHANGED vars
  BY <1>1 DEF vars, server
<1>2. ASSUME NEW t \in Threads, Serve(t) PROVE app' = app
  <2>1. CASE Begin(t)
    BY <2>1 DEF Begin, Take
  <2>2. CASE ServeCreate(t)
    BY <2>2 DEF ServeCreate, FindNull, Install, Installed, Create, CreateFails, CallTorn,
       Goto, GotoWith, Undefined
  <2>3. CASE ServeSocket(t)
    BY <2>3 DEF ServeSocket, Upgrade, Push, SendTo, SendToDead, Broadcasted, TransferEnds, Erase,
       Goto, GotoWith, End, Undefined, server
  <2>4. CASE ServeBackend(t)
    BY <2>4 DEF ServeBackend, ServeNull, ServeCustom, Route, VerifySession, VerifyPermissions,
       ProcessActions, Refuse, Goto, End
  <2> QED BY <1>2, <2>1, <2>2, <2>3, <2>4 DEF Serve
<1>3. ASSUME NEW r \in Requests, Arrive(r) PROVE app' = app
  BY <1>3 DEF Arrive, Accept
<1>4. ASSUME Peers PROVE app' = app
  BY <1>4 DEF Peers, Message, ReceiveFails, SendFails, ListRace, PeerCloses, Abrupt, Goto, End,
     Undefined, server
<1>5. ASSUME NEW c, Logout(c) PROVE app' = app
  BY <1>5 DEF Logout, server
<1> QED BY <1>1, <1>2, <1>3, <1>4, <1>5 DEF Next, Environment

LEMMA RanStays ==
    ASSUME [Next]_vars
    PROVE  ran' = ran \/ \E t \in Threads : ProcessActions(t)
<1>1. CASE UNCHANGED vars
  BY <1>1 DEF vars, backend
<1>2. ASSUME NEW t \in Threads, Serve(t) PROVE ran' = ran \/ ProcessActions(t)
  BY <1>2 DEF Serve, Begin, ServeBackend, ServeNull, ServeCustom, Route, VerifySession,
     VerifyPermissions, backend
<1>3. ASSUME NEW r \in Requests, Arrive(r) PROVE ran' = ran
  BY <1>3 DEF Arrive
<1>4. ASSUME NEW c, Logout(c) PROVE ran' = ran
  BY <1>4 DEF Logout
<1> QED BY <1>1, <1>2, <1>3, <1>4 DEF Next, Environment, backend

LEMMA RanKeeps == ASSUME IInv, RanIsAsked, [Next]_vars PROVE RanIsAsked'
<1>1. app' = app
  BY AppStays
<1>2. \A r \in Requests : IdentifyRoute(r)' = IdentifyRoute(r)
  BY <1>1 DEF IdentifyRoute, Functions, Asks
<1>3. ASSUME NEW t \in Threads, ProcessActions(t), NEW r \in Requests
      PROVE  ran'[r] \subseteq IdentifyRoute(r)
  <2>1. PICK f \in IdentifyRoute(serving[t]) :
           ran' = [ran EXCEPT ![serving[t]] = @ \cup {f}]
    BY <1>3 DEF ProcessActions
  <2>2. ran \in [Requests -> SUBSET Functions]
    BY TypesByComponent DEF IInv, BackendTypes
  <2>3. CASE r = serving[t]
    BY <2>1, <2>2, <2>3 DEF RanIsAsked
  <2>4. CASE r # serving[t]
    BY <2>1, <2>2, <2>4 DEF RanIsAsked
  <2> QED BY <2>3, <2>4
<1>4. \A r \in Requests : ran'[r] \subseteq IdentifyRoute(r)
  BY <1>3, RanStays DEF RanIsAsked
<1> QED BY <1>1, <1>2, <1>4 DEF RanIsAsked

\* The function that runs for a request is behind its checks, has the method of
\* the request, and is the first that was added for its endpoint, however many
\* functions the handler adds and however their endpoints repeat.
THEOREM GrantedFunctionsRun == Spec => []OnlyGrantedFunctionsRun
<1>1. Init => RanIsAsked
  BY DEF Init, ServerInit, BackendInit, RanIsAsked
<1>2. ASSUME IInv, RanIsAsked PROVE OnlyGrantedFunctionsRun
  <2>1. RunsBehindChecks
    BY <1>2 DEF IInv, Fate, RunsBehindChecks
  <2>2. ASSUME NEW r \in Requests, NEW f \in ran[r]
        PROVE  /\ f.method = GetMethod[Asks(r).method]
               /\ \A i \in DOMAIN app.added :
                     app.added[i].endpoint = Segments(Asks(r).path) =>
                        \E j \in 1 .. i : app.added[j] = f
    <3>1. /\ f \in Functions /\ f.endpoint = Segments(Asks(r).path)
          /\ f.method = GetMethod[Asks(r).method]
      BY <1>2, <2>2 DEF RanIsAsked, IdentifyRoute, SegmentsToString
    <3>2. app.added \in Seq(FunctionSet)
      BY <1>2, ApplicationsAssumption DEF RanIsAsked
    <3> QED BY <3>1, <3>2, FirstAdded
  <2> QED BY <2>1, <2>2 DEF OnlyGrantedFunctionsRun
<1>3. IInv /\ RanIsAsked /\ [Next]_vars => RanIsAsked'
  BY RanKeeps
<1>4. Spec => []RanIsAsked
  BY <1>1, <1>3, Invariance, PTL DEF Spec
<1> QED BY <1>2, <1>4, Invariance, PTL

\* Only requests that arrive before one was served miss the handler of their URI,
\* and a call of a creator that is being assigned ends the process only while it is
\* assigned for one of these requests, however late.
THEOREM OnlyTheFirst == Spec => []OnlyTheFirstAreMissed
<1>1. ASSUME IInv PROVE OnlyTheFirstAreMissed
  <2>1. \A r \in settled : Registered(r) /\ Over(r) => handler[r] # "null" \/ answer[r] = "500"
    <3>1. settled \subseteq Requests
      BY <1>1, TypesByComponent DEF IInv, FactoryTypes
    <3> QED BY <1>1, <3>1 DEF IInv, Fate
  <2>2. ASSUME tornCall PROVE \E t \in Threads : stage[t] = "assign" /\ serving[t] \notin settled
    <3>1. PICK t \in Threads : stage[t] = "assign"
      BY <1>1, <2>2 DEF IInv, Torn
    <3>2. serving[t] \notin settled
      BY <1>1, <3>1 DEF IInv, ThreadInv, Handling
    <3> QED BY <3>1, <3>2
  <2> QED BY <2>1, <2>2 DEF OnlyTheFirstAreMissed
<1> QED BY <1>1, Invariance, PTL

\* Unless a handler ended in an exception or threads raced on the list, the list
\* of sockets holds each connected handler once, no destroyed one, and no message
\* goes through a destroyed handler.
THEOREM ListIsLive == Spec => []SocketsAreLive
<1>1. ASSUME IInv, abrupt = {}, ~ raced
      PROVE  /\ ~ usedDead
             /\ \A i \in DOMAIN sockets :
                   Live(sockets[i]) /\ \A j \in DOMAIN sockets : sockets[i] = sockets[j] => i = j
             /\ \A t \in Threads :
                   stage[t] \in {"receive", "broadcast"} => serving[t] \in ToSet(sockets)
  <2>1. /\ ~ usedDead
        /\ \A i \in DOMAIN sockets :
              \E t \in Threads : serving[t] = sockets[i] /\ stage[t] \in OnList
        /\ \A i, j \in DOMAIN sockets : sockets[i] = sockets[j] => i = j
        /\ \A t \in Threads :
              stage[t] \in OnList => \E i \in DOMAIN sockets : sockets[i] = serving[t]
    BY <1>1 DEF IInv, List
  <2>2. \A i \in DOMAIN sockets : Live(sockets[i])
    BY <2>1 DEF Live, OnList, SocketStages
  <2>3. \A t \in Threads :
           stage[t] \in {"receive", "broadcast"} => serving[t] \in ToSet(sockets)
    BY <2>1 DEF OnList, ToSet
  <2> QED BY <2>1, <2>2, <2>3
<1>2. IInv => SocketsAreLive
  BY <1>1 DEF SocketsAreLive
<1> QED BY <1>2, Invariance, PTL

-------------------------------------------------------------------------------
(* How far a request is from its end                                       *)

\* The steps a thread has before it at most, if its peer sends no message: those
\* of the longest way through the handlers, and one per socket of its loop.
StepsLeft(t) ==
    CASE stage[t] = "idle" -> 0
      [] stage[t] \in {"null", "custom", "function", "erase"} -> 1
      [] stage[t] \in {"assign", "permissions", "receive"} -> 2
      [] stage[t] \in {"install", "session", "push"} -> 3
      [] stage[t] \in {"backend", "socket"} -> 4
      [] stage[t] = "create" -> 5
      [] stage[t] = "broadcast" -> Len(rest[t]) + 3

\* A step of a thread at work leaves fewer, or ends the process; a step of
\* another, or of the peers, leaves no more, unless it is a message to this
\* thread.  The thread keeps its request until that is over.
RunsDown(t) ==
    stage[t] # "idle" =>
       /\ Serve(t) => StepsLeft(t)' < StepsLeft(t) \/ ~up'
       /\ ~Serve(t) /\ ~Message(t) => StepsLeft(t)' <= StepsLeft(t)
       /\ IF stage'[t] = "idle" THEN fate'[serving[t]] \in {"ended", "aborted"}
          ELSE serving'[t] = serving[t]

\* From one stage to the next.
Follows(before, after) ==
    \/ before = "create" /\ after \in {"install", "null", "custom", "backend", "socket"}
    \/ before = "install" /\ after = "assign"
    \/ before = "assign" /\ after = "null"
    \/ before = "backend" /\ after = "session"
    \/ before = "session" /\ after = "permissions"
    \/ before = "permissions" /\ after = "function"
    \/ before = "socket" /\ after = "push"
    \/ before = "push" /\ after = "receive"
    \/ before = "receive" /\ after = "erase"

Ended(t) == stage'[t] = "idle" /\ fate'[serving[t]] \in {"ended", "aborted"}

\* What a step does to the thread that makes it.
MovesOn(t) ==
    \/ Ended(t)
    \/ serving'[t] = serving[t] /\ Follows(stage[t], stage'[t])
    \/ /\ serving'[t] = serving[t] /\ stage[t] = "broadcast"
       /\ \/ rest[t] = <<>> /\ stage'[t] = "receive"
          \/ rest[t] # <<>> /\ stage'[t] = stage[t] /\ rest'[t] = Tail(rest[t])

\* What it does to another.
Stays(u) == stage'[u] = stage[u] /\ serving'[u] = serving[u] /\ Len(rest'[u]) = Len(rest[u])

LEMMA EndEnds ==
    ASSUME IInv, NEW t \in Threads, stage[t] # "idle", NEW S, End(t, S) PROVE Ended(t)
BY AtWork, TypesByComponent DEF IInv, ServerTypes, End, Ended

\* A loop over the list has as many sockets before it when one is erased.
LEMMA ShiftedIsAsLong ==
    ASSUME NEW S, NEW s \in Seq(S), NEW r PROVE Len(Shifted(s, r)) = Len(s)
<1>1. CASE s = <<>>
  BY <1>1 DEF Shifted
<1>2. CASE s # <<>>
  <2>1. Last(s) \in S /\ Len(s) \in Nat
    BY <1>2 DEF Last
  <2>2. PICK q : q = IF r \in ToSet(s) THEN Without(s, r) ELSE Tail(s)
    OBVIOUS
  <2>3. q \in Seq(S) /\ Len(q) = Len(s) - 1
    <3>1. CASE r \in ToSet(s)
      BY <2>2, <3>1, WithoutIs
    <3>2. CASE r \notin ToSet(s)
      BY <1>2, <2>2, <3>2, Headed
    <3> QED BY <3>1, <3>2
  <2>4. Shifted(s, r) = Append(q, Last(s)) /\ Len(Append(q, Last(s))) = Len(q) + 1
    BY <1>2, <2>1, <2>2, <2>3, Appended DEF Shifted
  <2> QED BY <2>1, <2>3, <2>4
<1> QED BY <1>1, <1>2

\* The steps of a thread.
LEMMA ServeMoves ==
    ASSUME IInv, NEW t \in Threads, Serve(t), stage[t] # "idle"
    PROVE  /\ \A u \in Threads \ {t} : Stays(u)
           /\ MovesOn(t) \/ ~up'
<1> USE DEF At
<1>1. serving[t] \in Requests /\ rest \in [Threads -> Seq(Requests)]
  BY AtWork, TypesByComponent DEF IInv, SocketTypes
<1>2. ASSUME NEW S, End(t, S), UNCHANGED rest
      PROVE  (\A u \in Threads \ {t} : Stays(u)) /\ MovesOn(t)
  BY <1>2, EndMoves, EndEnds DEF Stays, MovesOn
<1>3. ASSUME NEW s, Goto(t, s) \/ (\E o : GotoWith(t, s, o)), Follows(stage[t], s), UNCHANGED rest
      PROVE  (\A u \in Threads \ {t} : Stays(u)) /\ MovesOn(t)
  BY <1>3, GotoMoves, GotoWithMoves DEF GoneTo, Stays, MovesOn
<1>4. ASSUME Undefined, UNCHANGED rest
      PROVE  (\A u \in Threads \ {t} : Stays(u)) /\ ~up'
  BY <1>4 DEF Undefined, Stays
<1>5. CASE Begin(t)
  BY <1>5 DEF Begin, Take
<1>6. CASE ServeCreate(t) /\ UNCHANGED <<webSockets, backend>>
  <2> USE DEF Follows, webSockets
  <2>1. CASE FindNull(t)
    BY <1>3, <1>6, <2>1 DEF FindNull
  <2>2. CASE Install(t)
    BY <1>3, <1>6, <2>2 DEF Install
  <2>3. CASE Installed(t)
    BY <1>3, <1>6, <2>3 DEF Installed
  <2>4. CASE Create(t)
    <3>1. Choice(serving[t]) \in {"null", "custom", "backend", "socket"}
      BY <1>1, ChoiceIs
    <3> QED BY <1>3, <1>6, <2>4, <3>1 DEF Create
  <2>5. CASE CreateFails(t)
    BY <1>3, <1>6, <2>5 DEF CreateFails
  <2>6. CASE CallTorn(t)
    BY <1>4, <1>6, <2>6 DEF CallTorn
  <2> QED BY <1>6, <2>1, <2>2, <2>3, <2>4, <2>5, <2>6 DEF ServeCreate
<1>7. CASE ServeSocket(t)
  <2> USE DEF webSockets
  <2>1. CASE Upgrade(t)
    BY <1>2, <1>3, <2>1 DEF Upgrade, Follows
  <2>2. CASE Push(t)
    BY <1>3, <2>2 DEF Push, Follows
  <2>3. CASE SendTo(t)
    BY <1>1, <2>3 DEF SendTo, server, Stays, MovesOn
  <2>4. CASE SendToDead(t)
    BY <1>4, <2>4 DEF SendToDead
  <2>5. CASE Broadcasted(t)
    BY <2>5, GotoMoves DEF Broadcasted, GoneTo, Stays, MovesOn
  <2>6. CASE TransferEnds(t)
    BY <1>3, <2>6 DEF TransferEnds, Follows
  <2>7. CASE Erase(t)
    <3>1. \A u \in Threads \ {t} : Len(rest'[u]) = Len(rest[u])
      BY <1>1, <2>7, ShiftedIsAsLong DEF Erase
    <3> QED BY <2>7, <3>1, EndMoves, EndEnds DEF Erase, Stays, MovesOn
  <2> QED BY <1>7, <2>1, <2>2, <2>3, <2>4, <2>5, <2>6, <2>7 DEF ServeSocket
<1>8. CASE ServeBackend(t) /\ UNCHANGED <<factory, webSockets>>
  <2>1. (\E S : End(t, S)) \/ (\E s : Goto(t, s) /\ Follows(stage[t], s))
    BY <1>8 DEF ServeBackend, ServeNull, ServeCustom, Route, VerifySession, VerifyPermissions,
       ProcessActions, Refuse, Follows
  <2> QED BY <1>2, <1>3, <1>8, <2>1 DEF webSockets
<1> QED BY <1>5, <1>6, <1>7, <1>8 DEF Serve

LEMMA StepsAreNumbers ==
    ASSUME IInv, NEW t \in Threads
    PROVE  StepsLeft(t) \in Nat /\ (stage[t] # "idle" => StepsLeft(t) > 0)
<1>1. stage[t] \in Stages /\ Len(rest[t]) \in Nat
  <2>1. rest[t] \in Seq(Requests)
    BY TypesByComponent DEF IInv, SocketTypes
  <2> QED BY <2>1, TypesByComponent DEF IInv, ServerTypes
<1>2. CASE stage[t] = "broadcast"
  BY <1>1, <1>2 DEF StepsLeft
<1>3. CASE stage[t] # "broadcast"
  <2>1. StepsLeft(t) \in {0, 1, 2, 3, 4, 5} /\ (stage[t] # "idle" => StepsLeft(t) # 0)
    BY <1>1, <1>3 DEF StepsLeft, Stages, SocketStages
  <2> QED BY <2>1
<1> QED BY <1>2, <1>3

\* A step of a thread at work leaves fewer.
LEMMA StepsGetFewer ==
    ASSUME IInv, NEW t \in Threads, stage[t] # "idle", MovesOn(t)
    PROVE  StepsLeft(t)' < StepsLeft(t)
<1>1. CASE Ended(t)
  <2>1. StepsLeft(t)' = 0
    BY <1>1 DEF Ended, StepsLeft
  <2> QED BY <2>1, StepsAreNumbers
<1>2. CASE Follows(stage[t], stage'[t])
  <2>1. \/ StepsLeft(t) = 5 /\ StepsLeft(t)' \in {1, 3, 4}
        \/ StepsLeft(t) = 4 /\ StepsLeft(t)' = 3
        \/ StepsLeft(t) = 3 /\ StepsLeft(t)' = 2
        \/ StepsLeft(t) = 2 /\ StepsLeft(t)' = 1
    BY <1>2 DEF Follows, StepsLeft
  <2> QED BY <2>1
<1>3. CASE stage[t] = "broadcast" /\ rest[t] = <<>> /\ stage'[t] = "receive"
  <2>1. StepsLeft(t) = 0 + 3 /\ StepsLeft(t)' = 2
    BY <1>3 DEF StepsLeft
  <2> QED BY <2>1
<1>4. CASE /\ stage[t] = "broadcast" /\ stage'[t] = stage[t]
           /\ rest[t] # <<>> /\ rest'[t] = Tail(rest[t])
  <2>1. rest[t] \in Seq(Requests)
    BY TypesByComponent DEF IInv, SocketTypes
  <2>2. Len(rest'[t]) = Len(rest[t]) - 1 /\ Len(rest[t]) \in Nat
    BY <1>4, <2>1, Headed
  <2>3. StepsLeft(t) = Len(rest[t]) + 3 /\ StepsLeft(t)' = Len(rest'[t]) + 3
    BY <1>4 DEF StepsLeft
  <2> QED BY <2>2, <2>3
<1> QED BY <1>1, <1>2, <1>3, <1>4 DEF MovesOn

\* What other threads, clients and peers do to a thread at work.
LEMMA OthersLeaveIt ==
    ASSUME IInv, Next, NEW t \in Threads, stage[t] # "idle", ~Serve(t), ~Message(t)
    PROVE  Stays(t) \/ Ended(t)
<1>1. ASSUME NEW u \in Threads \ {t}, Serve(u) PROVE Stays(t)
  <2>1. CASE stage[u] # "idle"
    BY <1>1, <2>1, ServeMoves
  <2>2. CASE stage[u] = "idle"
    <3>1. Begin(u)
      BY <1>1, <2>2 DEF Serve, At, ServeCreate, FindNull, Install, Installed, Create, CreateFails,
         CallTorn, ServeSocket, Upgrade, Push, SendTo, SendToDead, Broadcasted, TransferEnds,
         Erase, ServeBackend, ServeNull, ServeCustom, Route, VerifySession, VerifyPermissions,
         ProcessActions
    <3>2. stage'[t] = stage[t] /\ serving'[t] = serving[t] /\ rest' = rest
      BY <1>1, <3>1, TypesByComponent DEF IInv, ServerTypes, Begin, Take, webSockets
    <3> QED BY <3>2 DEF Stays
  <2> QED BY <2>1, <2>2
<1>2. ASSUME NEW r \in Requests, Arrive(r) PROVE Stays(t)
  BY <1>2 DEF Arrive, Accept, webSockets, Stays
<1>3. ASSUME NEW u \in Threads, Message(u) PROVE Stays(t)
  <2>1. stage'[t] = stage[t] /\ serving'[t] = serving[t]
    BY <1>3, GotoMoves DEF Message, GoneTo
  <2>2. rest'[t] = rest[t]
    BY <1>3, TypesByComponent DEF IInv, SocketTypes, Message
  <2> QED BY <2>1, <2>2 DEF Stays
<1>4. ASSUME NEW u \in Threads, ReceiveFails(u) \/ SendFails(u) PROVE Stays(t) \/ Ended(t)
  <2>1. PICK S : End(u, S)
    BY <1>4 DEF ReceiveFails, SendFails, Abrupt
  <2>2. CASE u = t
    BY <2>1, <2>2, EndEnds
  <2>3. CASE u # t
    <3>1. rest'[t] = rest[t]
      BY <1>4, <2>3, TypesByComponent DEF IInv, SocketTypes, ReceiveFails, SendFails
    <3> QED BY <2>1, <2>3, <3>1, EndMoves DEF Stays
  <2> QED BY <2>2, <2>3
<1>5. ASSUME NEW u \in Threads, ListRace(u) PROVE Stays(t)
  BY <1>5 DEF ListRace, Undefined, Stays
<1>6. ASSUME NEW r \in Requests, PeerCloses(r) PROVE Stays(t)
  BY <1>6 DEF PeerCloses, server, Stays
<1>7. ASSUME NEW c \in Cookies, Logout(c), UNCHANGED <<factory, webSockets>> PROVE Stays(t)
  BY <1>7 DEF Logout, server, webSockets, Stays
<1> QED BY <1>1, <1>2, <1>3, <1>4, <1>5, <1>6, <1>7 DEF Next, Environment, Peers

\* What RequestsEnd rests on besides fairness: no thread at work waits for
\* another, goes round in circles or changes its request.  It is at most five
\* steps from the end, and one more for each socket its loop has still to
\* visit; a message of its own peer alone gives it more.
THEOREM RequestsRunDown ==
    Spec => /\ [](\A t \in Threads :
                     /\ StepsLeft(t) \in Nat
                     /\ stage[t] # "broadcast" => StepsLeft(t) <= 5)
            /\ [][\A t \in Threads : RunsDown(t)]_vars
<1>1. IInv => \A t \in Threads :
                 /\ StepsLeft(t) \in Nat
                 /\ stage[t] # "broadcast" => StepsLeft(t) <= 5
  <2>1. ASSUME IInv, NEW t \in Threads, stage[t] # "broadcast" PROVE StepsLeft(t) <= 5
    <3>1. stage[t] \in Stages
      BY <2>1, TypesByComponent DEF IInv, ServerTypes
    <3>2. StepsLeft(t) \in {0, 1, 2, 3, 4, 5}
      BY <2>1, <3>1 DEF StepsLeft, Stages, SocketStages
    <3> QED BY <3>2
  <2> QED BY <2>1, StepsAreNumbers
<1>2. ASSUME IInv, Next, NEW t \in Threads, stage[t] # "idle" PROVE RunsDown(t)
  <2>1. CASE Serve(t)
    <3>1. MovesOn(t) \/ ~up'
      BY <1>2, <2>1, ServeMoves
    <3>2. CASE MovesOn(t)
      <4>1. StepsLeft(t)' < StepsLeft(t)
        BY <1>2, <3>2, StepsGetFewer
      <4>2. Ended(t) \/ (serving'[t] = serving[t] /\ stage'[t] # "idle")
        BY <1>2, <3>2 DEF MovesOn, Follows
      <4> QED BY <2>1, <4>1, <4>2 DEF RunsDown, Ended
    <3>3. CASE ~MovesOn(t)
      <4>1. UNCHANGED <<stage, serving>>
        <5>1. up /\ ~up'
          <6>1. up
            BY <1>2, <2>1 DEF Serve, At, Begin, Take, ServeCreate, FindNull, Install, Installed,
               Create, CreateFails, CallTorn, ServeSocket, Upgrade, Push, SendTo, SendToDead,
               Broadcasted, TransferEnds, Erase, ServeBackend, ServeNull, ServeCustom, Route,
               VerifySession, VerifyPermissions, ProcessActions
          <6> QED BY <3>1, <3>3, <6>1
        <5> QED BY <2>1, <5>1 DEF Serve, Begin, Take, ServeCreate, FindNull, Install, Installed,
               Create, CreateFails, CallTorn, ServeSocket, Upgrade, Push, SendTo, SendToDead,
               Broadcasted, TransferEnds, Erase, ServeBackend, ServeNull, ServeCustom, Route,
               VerifySession, VerifyPermissions, ProcessActions, Goto, GotoWith, End, Undefined,
               Refuse, server
      <4> QED BY <1>2, <2>1, <3>1, <3>3, <4>1 DEF RunsDown
    <3> QED BY <3>2, <3>3
  <2>2. CASE Message(t) /\ ~Serve(t)
    BY <1>2, <2>2, GotoMoves DEF RunsDown, Message, GoneTo
  <2>3. CASE ~Serve(t) /\ ~Message(t)
    <3>1. CASE Ended(t)
      <4>1. StepsLeft(t)' = 0
        BY <3>1 DEF Ended, StepsLeft
      <4>2. StepsLeft(t) \in Nat
        BY <1>2, StepsAreNumbers
      <4> QED BY <2>3, <3>1, <4>1, <4>2 DEF RunsDown, Ended
    <3>2. CASE Stays(t)
      <4>1. StepsLeft(t)' = StepsLeft(t) /\ StepsLeft(t) \in Nat
        BY <1>2, <3>2, StepsAreNumbers DEF Stays, StepsLeft
      <4> QED BY <1>2, <2>3, <3>2, <4>1 DEF RunsDown, Stays
    <3> QED BY <1>2, <2>3, <3>1, <3>2, OthersLeaveIt
  <2> QED BY <2>1, <2>2, <2>3
<1>3. IInv /\ [Next]_vars => [\A t \in Threads : RunsDown(t)]_vars
  BY <1>2 DEF RunsDown
<1> QED BY <1>1, <1>3, Invariance, PTL DEF Spec

===============================================================================
