------------------------------- MODULE HTTPServer -------------------------------
(***************************************************************************)
(* What the server's components share: the pool of threads of Poco's       *)
(* HTTPServer, the request each one serves, and the responses handlers     *)
(* send.  A request is a connection with one request on it.                *)
(***************************************************************************)
EXTENDS Naturals, Sequences, FiniteSets, Routes

CONSTANTS
    Threads,        \* threads of the server
    Requests,       \* bound: the requests that may arrive, each at most once
    Applications,   \* what main installs, and the requests clients make of it
    MaxQueued,      \* connections that may wait for a thread
    None

\* Functions an application adds to its handler.
FunctionSet == [endpoint : Seq(STRING), method : STRING, type : {"json", "file", "custom"}]

\* custom: the application has a creator of its own (CustomHandlerCreator_), with
\* "otherwise" for each type of route it does not name; if not, "handlers" are those of
\* AddHandler_.  A request has a query string behind its path or not; Poco::URI
\* throws on a malformed one.
ASSUME ApplicationsAssumption ==
    /\ \A app \in Applications :
          /\ DOMAIN app = {"custom", "handlers", "otherwise", "added", "asks"}
          /\ app.custom \in BOOLEAN
          /\ \A path \in DOMAIN app.handlers :
                app.handlers[path] \in {"custom", "backend", "socket"}
          /\ \A type \in {"endpoint", "entrypoint"} :
                app.otherwise[type] \in {"null", "custom", "backend", "socket"}
          /\ app.added \in Seq(FunctionSet)
          /\ \A r \in Requests :
                DOMAIN app.asks[r] = {"path", "query", "method", "cookie", "malformed"}
    /\ MaxQueued \in Nat \ {0}
    /\ None \notin Requests

VARIABLES
    app,       \* the application that runs
    up,        \* the process runs, and no undefined behaviour has been met
    queue,     \* accepted connections that wait for a thread
    stage,     \* where a thread is
    serving,   \* the request it serves
    answer,    \* the response that was sent, of each request
    fate,      \* what became of each request
    silent     \* history: requests whose handler meant to send nothing

server == <<app, up, queue, stage, serving, answer, fate, silent>>

Statuses == {"101", "200", "400", "401", "404", "500"}

ServerInit ==
    /\ app \in Applications
    /\ up = TRUE
    /\ queue = <<>>
    /\ stage = [t \in Threads |-> "idle"]
    /\ serving = [t \in Threads |-> None]
    /\ answer = [r \in Requests |-> "none"]
    /\ fate = [r \in Requests |-> "new"]
    /\ silent = {}

Asks(r) == app.asks[r]
Over(r) == fate[r] \in {"ended", "aborted"}

-------------------------------------------------------------------------------
(* Responses.  An outcome is what a handler has sent so far and whether an  *)
(* exception is under way.                                                  *)

Outcome(r) == [answer |-> answer[r], threw |-> FALSE, silent |-> FALSE]
Thrown(o) == [o EXCEPT !.threw = TRUE]

\* HTTPServerResponse::send asserts that it is called once: the second call throws.
Sent(o, status) ==
    IF o.answer = "none" THEN [o EXCEPT !.answer = status] ELSE Thrown(o)

\* JSONResponse_, HTMLResponse_, CustomHTMLResponse_ and CompoundResponse_ set
\* headers, cookies and status and send: what is in them is left out.
JSONResponse(o, status) == Sent(o, status)
HTMLResponse(o, status) == Sent(o, status)

\* FileResponse_: no such file, unsupported, or its content follows the header
\* and may no longer be there.
FileResponse(o, status) ==
    {HTMLResponse(o, "404"), HTMLResponse(o, "400"), Sent(o, status), Thrown(Sent(o, status))}

\* A catch block that answers.
Caught(o, status) ==
    IF o.threw THEN JSONResponse([o EXCEPT !.threw = FALSE], status) ELSE o

\* handleRequest: MySQLException is answered 400, any other exception 500.
HandleRequest(outcomes) == {Caught(o, s) : o \in outcomes, s \in {"400", "500"}}

-------------------------------------------------------------------------------
(* Poco's server. *)

\* A connection is queued, or dropped when too many wait.
Accept(r) ==
    /\ up /\ fate[r] = "new"
    /\ \/ /\ Len(queue) < MaxQueued
          /\ queue' = Append(queue, r)
          /\ fate' = [fate EXCEPT ![r] = "queued"]
       \/ /\ Len(queue) >= MaxQueued
          /\ fate' = [fate EXCEPT ![r] = "refused"]
          /\ UNCHANGED queue
    /\ UNCHANGED <<app, up, stage, serving, answer, silent>>

Take(t) ==
    /\ up /\ stage[t] = "idle" /\ queue # <<>>
    /\ serving' = [serving EXCEPT ![t] = Head(queue)]
    /\ stage' = [stage EXCEPT ![t] = "create"]
    /\ queue' = Tail(queue)
    /\ fate' = [fate EXCEPT ![Head(queue)] = "begun"]
    /\ UNCHANGED <<app, up, answer, silent>>

At(t, s) == up /\ stage[t] = s

Goto(t, s) ==
    /\ stage' = [stage EXCEPT ![t] = s]
    /\ UNCHANGED <<app, up, queue, serving, answer, fate, silent>>

\* The handler goes on with what it has sent so far.
GotoWith(t, s, o) ==
    /\ stage' = [stage EXCEPT ![t] = s]
    /\ answer' = [answer EXCEPT ![serving[t]] = o.answer]
    /\ UNCHANGED <<app, up, queue, serving, fate, silent>>

\* handleRequest has returned or thrown.  Poco answers an exception that leaves
\* it before anything was sent, and closes the connection.
End(t, outcomes) ==
    \E o \in outcomes :
       LET r == serving[t] IN
       /\ answer' = [answer EXCEPT ![r] =
                       IF o.threw /\ o.answer = "none" THEN "unhandled" ELSE o.answer]
       /\ fate' = [fate EXCEPT ![r] = IF o.threw THEN "aborted" ELSE "ended"]
       /\ silent' = IF o.silent THEN silent \cup {r} ELSE silent
       /\ stage' = [stage EXCEPT ![t] = "idle"]
       /\ serving' = [serving EXCEPT ![t] = None]
       /\ UNCHANGED <<app, up, queue>>

\* Undefined behaviour: what follows it is not followed.
Undefined ==
    /\ up' = FALSE
    /\ UNCHANGED <<app, queue, stage, serving, answer, fate, silent>>

===============================================================================
