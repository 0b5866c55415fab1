--------------------------------- MODULE Server ---------------------------------
(***************************************************************************)
(* The whole server: Poco's pool of threads, the choice of the handler,    *)
(* backend, custom and null handlers, WebSockets, and the sessions and     *)
(* permissions they share.                                                 *)
(***************************************************************************)
EXTENDS HandlerFactory, WebSockets, Backend

vars == <<server, factory, webSockets, backend>>

Init == ServerInit /\ FactoryInit /\ SocketsInit /\ BackendInit

Arrive(r) ==
    /\ Accept(r)
    /\ SettledAtArrival(r)
    /\ ClosedAtArrival(r)
    /\ UNCHANGED <<creator, handler, tornCall, sessions, permitted, ran, webSockets>>

Begin(t) == Take(t) /\ UNCHANGED <<factory, webSockets, backend>>

\* A step of a thread that depends on no peer.
Serve(t) ==
    \/ Begin(t)
    \/ ServeCreate(t) /\ UNCHANGED <<webSockets, backend>>
    \/ ServeSocket(t) /\ UNCHANGED <<factory, backend>>
    \/ ServeBackend(t) /\ UNCHANGED <<factory, webSockets>>

Environment ==
    \/ \E r \in Requests : Arrive(r)
    \/ Peers /\ UNCHANGED <<factory, backend>>
    \/ \E c \in Cookies : Logout(c) /\ UNCHANGED <<factory, webSockets>>

Next == (\E t \in Threads : Serve(t)) \/ Environment

\* Every thread runs on; what peers, clients and the network do is up to them.
Spec == Init /\ [][Next]_vars /\ \A t \in Threads : WF_vars(Serve(t))

-------------------------------------------------------------------------------
Stages == SocketStages \cup
    {"idle", "create", "install", "assign", "null", "custom", "backend",
     "session", "permissions", "function"}

\* Types of the variables.
TypeOK ==
    /\ app \in Applications /\ up \in BOOLEAN
    /\ queue \in Seq(Requests) /\ Len(queue) <= MaxQueued
    /\ stage \in [Threads -> Stages]
    /\ serving \in [Threads -> Requests \cup {None}]
    /\ answer \in [Requests -> Statuses \cup {"none", "unhandled"}]
    /\ fate \in [Requests -> {"new", "queued", "begun", "refused", "ended", "aborted"}]
    /\ silent \subseteq Requests
    /\ creator \in {"null", "torn", "set"}
    /\ handler \in [Requests -> {"none", "null", "custom", "backend", "socket"}]
    /\ settled \subseteq Requests
    /\ tornCall \in BOOLEAN
    /\ sockets \in Seq(Requests)
    /\ rest \in [Threads -> Seq(Requests)]
    /\ open \subseteq Requests
    /\ messages \in 0 .. MaxMessages
    /\ abrupt \subseteq Requests
    /\ raced \in BOOLEAN /\ usedDead \in BOOLEAN
    /\ sessions \subseteq Cookies /\ permitted \subseteq Cookies
    /\ closedBefore \subseteq Requests
    /\ ran \in [Requests -> SUBSET Functions]

\* Whatever throws, in the creator, the handler, the function or a callback, a
\* request that is over was answered by this code, never by Poco on its behalf;
\* only a callback that sends nothing and a handshake of the wrong version are
\* left without an answer.
EveryRequestIsAnswered ==
    \A r \in Requests :
       Over(r) => answer[r] \in Statuses \/ (answer[r] = "none" /\ r \in silent)

\* A function runs for a request only if its session was in sessions_ and its
\* permissions in the list when the request arrived or later.
RunsBehindChecks ==
    \A r \in Requests :
       ran[r] # {} => r \notin closedBefore /\ Asks(r).cookie # None

\* It runs behind these checks, and is the function first added for the
\* endpoint, with the method of the request.
OnlyGrantedFunctionsRun ==
    /\ RunsBehindChecks
    /\ \A r \in Requests : \A f \in ran[r] :
          /\ f.method = GetMethod[Asks(r).method]
          /\ \A i \in DOMAIN app.added :
                app.added[i].endpoint = Segments(Asks(r).path) =>
                   \E j \in 1 .. i : app.added[j] = f

\* The requests that find no creator are the first ones: a request that arrives
\* after one was served is given the handler of its URI, though late assignments
\* of the creator may still follow.  A call of a creator that is being assigned
\* ends the process only if it is assigned for a request that arrived before any
\* was served.
OnlyTheFirstAreMissed ==
    /\ \A r \in settled : Registered(r) /\ Over(r) => handler[r] # "null" \/ answer[r] = "500"
    /\ tornCall => \E t \in Threads : stage[t] = "assign" /\ serving[t] \notin settled

\* The list of connected sockets holds each connected handler once and no
\* destroyed one, and no message goes through a destroyed handler, unless some
\* handler ended in an exception or threads raced on the list.
SocketsAreLive ==
    abrupt = {} /\ ~raced =>
       /\ ~usedDead
       /\ \A i \in DOMAIN sockets :
             Live(sockets[i]) /\ \A j \in DOMAIN sockets : sockets[i] = sockets[j] => i = j
       /\ \A t \in Threads : stage[t] \in {"receive", "broadcast"} => serving[t] \in ToSet(sockets)

\* The threads all wait for peers that neither send nor close: receiveFrame has
\* no timeout.
HeldBySockets == \A t \in Threads : stage[t] = "receive" /\ serving[t] \in open

\* Nothing but a peer or another request holds r back.
Due(r) == fate[r] = "queued" \/ (handler[r] = "socket" /\ r \notin open)

\* An accepted request is served to its end, and a WebSocket whose peer has
\* closed gives its thread back, unless every thread is held by a WebSocket, the
\* request is one whose peer stays, or the process is gone.
RequestsEnd ==
    \A r \in Requests :
       Due(r) ~> Over(r) \/ HeldBySockets \/ ~up \/ (handler[r] = "socket" /\ r \in open)

===============================================================================
