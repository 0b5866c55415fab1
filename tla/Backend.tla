-------------------------------- MODULE Backend ---------------------------------
(***************************************************************************)
(* The request pipeline of RootHandler as a backend handler drives it      *)
(* (examples/backend_api.cpp): set up, functions added, body read, route,  *)
(* session and permissions checked, function processed, with the catch     *)
(* blocks of handleRequest around all of it.  Custom and null handlers run *)
(* through the same handleRequest.                                         *)
(***************************************************************************)
EXTENDS HTTPServer, SequencesExt

CONSTANT GetMethod   \* map_string_methods_, restricted to the methods of the requests

VARIABLES
    sessions,   \* identifiers of sessions_
    permitted,  \* identifiers whose user has the permissions for the routes
    \* history
    closedBefore,   \* requests whose session was closed or not permitted when they arrived
    ran             \* the functions each request has run

backend == <<sessions, permitted, closedBefore, ran>>

Cookies == {Asks(r).cookie : r \in Requests} \ {None}

BackendInit ==
    /\ sessions = Cookies
    /\ permitted \in SUBSET Cookies
    /\ closedBefore = {}
    /\ ran = [r \in Requests |-> {}]

ClosedAtArrival(r) ==
    closedBefore' = IF Asks(r).cookie \in (sessions \cap permitted) \cup {None}
                    THEN closedBefore ELSE closedBefore \cup {r}

\* A logout in another process of the client.  Sessions and Permissions have the
\* steps of logins, logouts and reloads.
Logout(c) ==
    /\ up /\ c \in sessions
    /\ sessions' = sessions \ {c}
    /\ UNCHANGED <<permitted, closedBefore, ran, server>>

-------------------------------------------------------------------------------
\* FunctionsManager::AddFunction_: std::map::insert keeps the entry an endpoint has.
AddFunction(functions, f) ==
    IF \E g \in functions : g.endpoint = f.endpoint THEN functions ELSE functions \cup {f}

\* AddFunctions_ of the handler, a new map for every request: the calls of
\* AddFunction_ in order, with endpoint, method and response type.
Functions ==
    LET after[n \in 0 .. Len(app.added)] ==
            IF n = 0 THEN {} ELSE AddFunction(after[n - 1], app.added[n])
    IN  after[Len(app.added)]

\* IdentifyRoute_: the segments of the path, without its query, and the method.
IdentifyRoute(r) ==
    {f \in Functions : /\ f.endpoint = SegmentsToString(Segments(Asks(r).path))
                       /\ f.method = GetMethod[Asks(r).method]}

\* handleRequest before Process_: Poco::URI throws on a malformed one.
SetUp(r) == IF Asks(r).malformed THEN Thrown(Outcome(r)) ELSE Outcome(r)

\* A callback of the application: it sends nothing or one answer, and returns or throws.
Callback(o) ==
    LET returned == {[o EXCEPT !.silent = TRUE], Sent(o, "200")}
    IN  returned \cup {Thrown([x EXCEPT !.silent = FALSE]) : x \in returned}

\* Mutant: the catch blocks of Process_ log an exception and answer nothing.
FunctionProcessSilent(o, type) ==
    CASE type = "json" -> {JSONResponse(o, "200"), JSONResponse(o, "400")}
      [] type = "file" -> FileResponse(o, "200")
      [] OTHER -> {[x EXCEPT !.threw = FALSE] : x \in Callback(o)}

\* Function::Process_: a JSON function answers 200 or 400 (FunctionCalls), a
\* file function as Files has it, any other is custom and runs its callback; an
\* exception is answered 400, or 500 if it is no std::exception, which throws
\* when the answer had been sent.
FunctionProcess(o, type) ==
    CASE type = "json" -> {JSONResponse(o, "200"), JSONResponse(o, "400")}
      [] type = "file" -> {Caught(x, "400") : x \in FileResponse(o, "200")}
      [] OTHER -> {Caught(x, s) : x \in Callback(o), s \in {"400", "500"}}

-------------------------------------------------------------------------------
\* NullHandler::Process_ in handleRequest.  An answer ErrorResponse_ has sent
\* makes it throw.
ServeNull(t) ==
    LET o == SetUp(serving[t]) IN
    /\ At(t, "null")
    /\ End(t, HandleRequest({IF o.threw THEN o ELSE HTMLResponse(o, "404")}))
    /\ UNCHANGED backend

\* CustomHandler::Process_ in handleRequest: a callback, or a file.
ServeCustom(t) ==
    LET o == SetUp(serving[t]) IN
    /\ At(t, "custom")
    /\ End(t, HandleRequest(IF o.threw THEN {o} ELSE Callback(o) \cup FileResponse(o, "200")))
    /\ UNCHANGED backend

\* Process_ of a backend handler up to IdentifyRoute_.  ManageRequestBody_ may
\* throw on the body.
Route(t) ==
    LET r == serving[t]
        o == SetUp(r) IN
    /\ At(t, "backend")
    /\ \/ /\ ~o.threw /\ IdentifyRoute(r) # {}
          /\ Goto(t, "session")
       \/ End(t, HandleRequest(
              {Thrown(o)} \cup {JSONResponse(x, "404") :
                                   x \in {y \in {o} : ~y.threw /\ IdentifyRoute(r) = {}}}))
    /\ UNCHANGED backend

Refuse(t) == End(t, {JSONResponse(Outcome(serving[t]), "401")})

\* Mutant: a request without a session goes on.
VerifySessionLater(t) ==
    /\ At(t, "session")
    /\ Goto(t, "permissions")
    /\ UNCHANGED backend

VerifySession(t) ==
    /\ At(t, "session")
    /\ IF Asks(serving[t]).cookie \in sessions THEN Goto(t, "permissions") ELSE Refuse(t)
    /\ UNCHANGED backend

VerifyPermissions(t) ==
    /\ At(t, "permissions")
    /\ IF Asks(serving[t]).cookie \in permitted THEN Goto(t, "function") ELSE Refuse(t)
    /\ UNCHANGED backend

\* ProcessActions_: the parameters, the files and the user of the request are
\* given to the function, and it is processed.
ProcessActions(t) ==
    LET r == serving[t] IN
    /\ At(t, "function")
    /\ \E f \in IdentifyRoute(r) :
          /\ ran' = [ran EXCEPT ![r] = @ \cup {f}]
          /\ End(t, HandleRequest(FunctionProcess(Outcome(r), f.type)))
    /\ UNCHANGED <<sessions, permitted, closedBefore>>

ServeBackend(t) ==
    \/ ServeNull(t) \/ ServeCustom(t) \/ Route(t)
    \/ VerifySession(t) \/ VerifyPermissions(t) \/ ProcessActions(t)

===============================================================================
