----------------------------- MODULE HandlerFactory -----------------------------
(***************************************************************************)
(* The choice of a handler, in the threads of the server.  An application  *)
(* installs its creator before the server starts (CustomHandlerCreator_),  *)
(* or only fills connections_ (AddHandler_): then the first request finds  *)
(* no creator, and the thread that serves it installs one that looks the   *)
(* URI up, without a lock: so do all the threads that found none before,   *)
(* each in its own time.                                                   *)
(***************************************************************************)
EXTENDS HTTPServer

VARIABLES
    creator,    \* handler_creator_: "null", "torn" while a thread assigns it, "set"
    handler,    \* the handler a request was given
    \* history
    settled,    \* requests to connections_ that arrived after one had been served
    tornCall    \* a call of the creator while it was assigned ended the process

factory == <<creator, handler, settled, tornCall>>

FactoryInit ==
    /\ creator = IF app.custom THEN "set" ELSE "null"
    /\ handler = [r \in Requests |-> "none"]
    /\ settled = {}
    /\ tornCall = FALSE

\* connections_ is searched for the URI as the request spells it, its query
\* string included; so are the routes of custom creators.
Registered(r) ==
    \E path \in DOMAIN app.handlers : SameRoute(Asks(r).path, Asks(r).query, path)

Choice(r) ==
    IF Registered(r) THEN app.handlers[Asks(r).path]
    ELSE IF app.custom THEN app.otherwise[RouteType(Asks(r).path)] ELSE "null"

SettledAtArrival(r) ==
    settled' = IF ~app.custom /\ \E q \in Requests : Over(q) THEN settled \cup {r} ELSE settled

Handled(t, kind) == handler' = [handler EXCEPT ![serving[t]] = kind]

\* createRequestHandler finds no creator.
FindNull(t) ==
    /\ At(t, "create") /\ creator = "null"
    /\ Goto(t, "install")
    /\ UNCHANGED factory

\* It assigns one, whatever another thread has assigned since: field by field,
\* so other threads may see the creator torn.  What is assigned is never empty: no
\* thread that comes later finds null.
Install(t) ==
    /\ At(t, "install")
    /\ creator' = "torn"
    /\ Goto(t, "assign")
    /\ UNCHANGED <<handler, settled, tornCall>>

\* Mutant: the creator is not kept.
ForgetInstall(t) ==
    /\ At(t, "assign")
    /\ creator' = "null"
    /\ Handled(t, "null")
    /\ Goto(t, "null")
    /\ UNCHANGED <<settled, tornCall>>

\* Mutant: createRequestHandler ends without the NullHandler.
InstalledOnly(t) ==
    /\ At(t, "assign")
    /\ creator' = "set"
    /\ Handled(t, "none")
    /\ Goto(t, "none")
    /\ UNCHANGED <<settled, tornCall>>

\* After the assignment the request falls through to the NullHandler.  The creator
\* is whole when no other thread assigns it.
Installed(t) ==
    /\ At(t, "assign")
    /\ creator' = IF \E u \in Threads \ {t} : stage[u] = "assign" THEN "torn" ELSE "set"
    /\ Handled(t, "null")
    /\ Goto(t, "null")
    /\ UNCHANGED <<settled, tornCall>>

\* A creator is there, whole or about to be: it is called.  The routes of a custom creator throw on a
\* malformed URI.
Create(t) ==
    LET r == serving[t] IN
    /\ At(t, "create") /\ creator # "null"
    /\ ~(app.custom /\ Asks(r).malformed)
    /\ Handled(t, Choice(r))
    /\ Goto(t, Choice(r))
    /\ UNCHANGED <<creator, settled, tornCall>>

\* The creator throws: ErrorResponse_ answers 500 and the NullHandler follows.
CreateFails(t) ==
    /\ At(t, "create") /\ creator # "null"
    /\ Handled(t, "null")
    /\ GotoWith(t, "null", Sent(Outcome(serving[t]), "500"))
    /\ UNCHANGED <<creator, settled, tornCall>>

\* A creator that is half assigned passes the test for null, and is called through
\* a null pointer or as it is taken apart.
CallTorn(t) ==
    /\ At(t, "create") /\ creator = "torn"
    /\ tornCall' = TRUE
    /\ Undefined
    /\ UNCHANGED <<creator, handler, settled>>

ServeCreate(t) ==
    FindNull(t) \/ Install(t) \/ Installed(t) \/ Create(t) \/ CreateFails(t) \/ CallTorn(t)

===============================================================================
