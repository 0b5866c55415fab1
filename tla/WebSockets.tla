------------------------------- MODULE WebSockets -------------------------------
(***************************************************************************)
(* WebSocket handlers and the list of connected sockets an application     *)
(* keeps of them (examples/websocket.cpp).  A handler pushes itself on the *)
(* list, sends every message it receives to all sockets of the list, and   *)
(* erases itself when its peer closes.  The list has no lock.              *)
(***************************************************************************)
EXTENDS HTTPServer, SequencesExt

CONSTANT MaxMessages   \* bound: messages the peers send

ASSUME MessagesAssumption == MaxMessages \in Nat

VARIABLES
    sockets,    \* connected_sockets_: pointers to handlers
    rest,       \* pointers a thread's loop over the list has still to visit
    open,       \* requests whose peer has not closed its end
    messages,   \* messages received so far
    \* history
    abrupt,     \* handlers that ended without HandleConnectionClosed_
    raced,      \* the list was changed while another thread used it
    usedDead    \* a message was sent through a destroyed handler

webSockets == <<sockets, rest, open, messages, abrupt, raced, usedDead>>

SocketsInit ==
    /\ sockets = <<>>
    /\ rest = [t \in Threads |-> <<>>]
    /\ open = Requests
    /\ messages = 0
    /\ abrupt = {}
    /\ raced = FALSE
    /\ usedDead = FALSE

SocketStages == {"socket", "push", "receive", "broadcast", "erase"}
ListStages == {"push", "broadcast", "erase"}

\* The handler of r exists: a thread is inside its Process_.
Live(r) == \E t \in Threads : serving[t] = r /\ stage[t] \in SocketStages

Others(t) == {u \in Threads \ {t} : stage[u] \in ListStages}

\* The list without r's pointer, of which the loop erases one.
Without(seq, r) ==
    IF r \in ToSet(seq)
    THEN RemoveAt(seq, CHOOSE i \in DOMAIN seq : seq[i] = r)
    ELSE seq

\* std::vector::erase moves the later elements down: a loop that still runs to
\* the old end skips one and reads the last place twice.
Shifted(seq, r) ==
    IF seq = <<>> THEN seq
    ELSE Append(IF r \in ToSet(seq) THEN Without(seq, r) ELSE Tail(seq), Last(seq))

\* WebSocket's constructor: the handshake succeeds, has the wrong version (the
\* header is set and nothing is sent), or is no handshake.
Upgrade(t) ==
    LET o == Outcome(serving[t]) IN
    /\ At(t, "socket")
    /\ \/ GotoWith(t, "push", Sent(o, "101"))
       \/ End(t, {[o EXCEPT !.silent = TRUE], Sent(o, "400")})
    /\ UNCHANGED webSockets

\* HandleNewConnection_
Push(t) ==
    /\ At(t, "push")
    /\ sockets' = Append(sockets, serving[t])
    /\ raced' = (raced \/ Others(t) # {})
    /\ Goto(t, "receive")
    /\ UNCHANGED <<rest, open, messages, abrupt, usedDead>>

\* receiveFrame returns a message: HandleNewMessage_ goes through the list.
\* Pings are answered with a pong and change nothing.
Message(t) ==
    /\ At(t, "receive") /\ serving[t] \in open /\ messages < MaxMessages
    /\ messages' = messages + 1
    /\ rest' = [rest EXCEPT ![t] = sockets]
    /\ Goto(t, "broadcast")
    /\ UNCHANGED <<sockets, open, abrupt, raced, usedDead>>

\* Process_ ends in a catch block.  A WebSocketException that is no handshake
\* error is only logged; any other exception is answered on the upgraded
\* connection, which throws, twice.
Abrupt(t) ==
    LET o == Outcome(serving[t]) IN
    /\ abrupt' = abrupt \cup {serving[t]}
    /\ End(t, {o} \cup HandleRequest({JSONResponse(o, "500")}))

\* A frame longer than the buffer, or a connection that is reset.
ReceiveFails(t) ==
    /\ At(t, "receive")
    /\ Abrupt(t)
    /\ UNCHANGED <<sockets, rest, open, messages, raced, usedDead>>

\* Send_ to the next handler of the list.
SendTo(t) ==
    /\ At(t, "broadcast") /\ rest[t] # <<>>
    /\ Live(Head(rest[t]))
    /\ rest' = [rest EXCEPT ![t] = Tail(@)]
    /\ UNCHANGED <<sockets, open, messages, abrupt, raced, usedDead, server>>

\* Send_ to a peer that has gone throws, out of the handler that broadcasts.
SendFails(t) ==
    /\ At(t, "broadcast") /\ rest[t] # <<>>
    /\ Live(Head(rest[t])) /\ Head(rest[t]) \notin open
    /\ rest' = [rest EXCEPT ![t] = <<>>]
    /\ Abrupt(t)
    /\ UNCHANGED <<sockets, open, messages, raced, usedDead>>

\* Send_ through a pointer to a handler that was destroyed.
SendToDead(t) ==
    /\ At(t, "broadcast") /\ rest[t] # <<>>
    /\ ~Live(Head(rest[t]))
    /\ usedDead' = TRUE
    /\ Undefined
    /\ UNCHANGED <<sockets, rest, open, messages, abrupt, raced>>

Broadcasted(t) ==
    /\ At(t, "broadcast") /\ rest[t] = <<>>
    /\ Goto(t, "receive")
    /\ UNCHANGED webSockets

\* Mutant: the loop of Transfer_ goes on after the close frame.
TransferForever(t) ==
    /\ At(t, "receive") /\ serving[t] \notin open
    /\ Goto(t, "receive")
    /\ UNCHANGED webSockets

\* The loop of Transfer_ ends with a close frame or an empty one.
TransferEnds(t) ==
    /\ At(t, "receive") /\ serving[t] \notin open
    /\ Goto(t, "erase")
    /\ UNCHANGED webSockets

\* Mutant: the pointer at the front of the list is erased.
EraseFirst(t) ==
    /\ At(t, "erase")
    /\ sockets' = IF sockets = <<>> THEN sockets ELSE Tail(sockets)
    /\ raced' = (raced \/ Others(t) # {})
    /\ End(t, {Outcome(serving[t])})
    /\ UNCHANGED <<rest, open, messages, abrupt, usedDead>>

\* HandleConnectionClosed_, and the handler is destroyed.  Loops of other
\* threads go on over what has moved.
Erase(t) ==
    /\ At(t, "erase")
    /\ sockets' = Without(sockets, serving[t])
    /\ raced' = (raced \/ Others(t) # {})
    /\ rest' = [u \in Threads |-> IF u = t THEN rest[u] ELSE Shifted(rest[u], serving[t])]
    /\ End(t, {Outcome(serving[t])})
    /\ UNCHANGED <<open, messages, abrupt, usedDead>>

\* Two threads on the list, one of which changes it: the end of the process.
ListRace(t) ==
    /\ up /\ stage[t] \in {"push", "erase"} /\ Others(t) # {}
    /\ raced' = TRUE
    /\ Undefined
    /\ UNCHANGED <<sockets, rest, open, messages, abrupt, usedDead>>

PeerCloses(r) ==
    /\ r \in open /\ Live(r)
    /\ open' = open \ {r}
    /\ UNCHANGED <<sockets, rest, messages, abrupt, raced, usedDead, server>>

\* Steps the thread takes by itself.
ServeSocket(t) ==
    \/ Upgrade(t) \/ Push(t) \/ SendTo(t) \/ SendToDead(t) \/ Broadcasted(t)
    \/ TransferEnds(t) \/ Erase(t)

\* What the peers and the network do.
Peers ==
    \/ \E t \in Threads : Message(t) \/ ReceiveFails(t) \/ SendFails(t) \/ ListRace(t)
    \/ \E r \in Requests : PeerCloses(r)

===============================================================================
