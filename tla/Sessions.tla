------------------------------- MODULE Sessions -------------------------------
(***************************************************************************)
(* The session store of NebulaAtom and the three requests that use it:     *)
(* LoginHandler::StartSession_, LoginHandler::EndSession_ and              *)
(* RootHandler::VerifySession_.  The store is SessionsManager::sessions_,  *)
(* an in-memory std::map read and written by the threads of the HTTP       *)
(* server without a lock, and a table of the database that CreateSession_  *)
(* and DeleteSession_ write afterwards and ReadSessions_ reads at start-up.*)
(*                                                                         *)
(* An access of a thread to the map that overlaps a conflicting access of  *)
(* another thread is a data race.  Its outcomes here: the access takes     *)
(* place as if alone, its search misses the identifier it looks for, a     *)
(* writer loses nodes of the map, the process dies.                        *)
(***************************************************************************)
EXTENDS Integers, FiniteSets

CONSTANTS
    Threads,     \* threads of the HTTP server's pool
    Users,       \* accounts of the database
    SessionIds,  \* identifiers GenerateSessionID_ may draw
    NoUser,      \* no session, no row, not authenticated
    NoId,        \* no cookie
    MaxAge,      \* session_max_age, in ticks of the clock
    MaxTime,     \* bound on the clock
    MaxVoid      \* bound on the identifiers of which nothing is promised any more

ASSUME ConstantsAssumption ==
    /\ NoUser \notin Users
    /\ NoId \notin SessionIds
    /\ MaxAge \in Nat \ {0}
    /\ MaxTime \in Nat
    /\ MaxVoid \in Nat

VARIABLES
    \* the program's state
    sessions,  \* SessionsManager::sessions_: the user of each identifier
    rowUser,   \* the table: the user of each row
    created,   \* the table: created_at of each row
    up,        \* the process serves requests (it is past main's ReadSessions_)
    pc,        \* where each thread is in its handler
    kind,      \* which of the three requests it handles
    sid,       \* its session_id: the cookie, then the identifier drawn
    who,       \* its current_user
    raced,     \* threads whose pending access to the map overlapped another one
    now,       \* the clock of the database
    \* history
    jar,       \* the user whose login was answered with this identifier
    owner,     \* the user CreateSession_ first stored under this identifier
    fate,      \* how far this identifier has come; "void" once it was drawn again, or
               \* not erased, by a thread that could not see it in the map
    unsaved,   \* identifiers whose INSERT failed
    torn,      \* identifiers a data race removed from this process's map
    loaded     \* the last ReadSessions_ succeeded

store == <<sessions, rowUser, created>>
local == <<kind, sid, who>>
history == <<jar, owner, fate, unsaved, torn, loaded>>
vars == <<sessions, rowUser, created, up, pc, kind, sid, who, raced, now,
          jar, owner, fate, unsaved, torn, loaded>>

-------------------------------------------------------------------------------
Times == 0 .. MaxTime
MaybeUser == Users \cup {NoUser}
Kinds == {"login", "logout", "verify"}
Phases == {"idle", "copy", "granted", "authenticate", "draw", "emplace",
           "insert", "at", "find", "erase", "delete"}
Fates == {"unused", "drawn", "open", "erased", "reported", "closed", "void"}

\* The identifiers of the map and of the table.
InMemory == {id \in SessionIds : sessions[id] # NoUser}
InTable == {id \in SessionIds : rowUser[id] # NoUser}

\* Nothing is promised of these.
Void == {id \in SessionIds : fate[id] = "void"}

\* Mutant: the last tick before the expiry is lost.
UnexpiredTooStrict == {id \in InTable : now + 1 < created[id] + MaxAge}

\* "WHERE NOW() < created_at + INTERVAL max_age SECOND"
Unexpired == {id \in InTable : now < created[id] + MaxAge}

Init ==
    /\ sessions = [id \in SessionIds |-> NoUser]
    /\ rowUser = [id \in SessionIds |-> NoUser]
    /\ created = [id \in SessionIds |-> 0]
    /\ up = FALSE
    /\ pc = [t \in Threads |-> "idle"]
    /\ kind = [t \in Threads |-> "verify"]
    /\ sid = [t \in Threads |-> NoId]
    /\ who = [t \in Threads |-> NoUser]
    /\ raced = {}
    /\ now = 0
    /\ jar = [id \in SessionIds |-> NoUser]
    /\ owner = [id \in SessionIds |-> NoUser]
    /\ fate = [id \in SessionIds |-> "unused"]
    /\ unsaved = {}
    /\ torn = {}
    /\ loaded = FALSE

-------------------------------------------------------------------------------
(* Data races on the map: nothing orders two threads that are both about   *)
(* to access it.                                                           *)
Writing(t) == pc[t] \in {"emplace", "erase"}
Accessing(t) == Writing(t) \/ pc[t] \in {"copy", "draw", "at", "find"}
Conflicting(t) == {u \in Threads \ {t} :
                    Accessing(u) /\ (Writing(t) \/ Writing(u))}
Racing(t) == t \in raced \/ Conflicting(t) # {}

\* The access of t is over: the threads it overlapped have raced with it.
EndAccess(t) == raced' = (raced \ {t}) \cup Conflicting(t)

Goto(t, phase) == pc' = [pc EXCEPT ![t] = phase]

\* The response is sent and the handler, with what it held, is destroyed.
Answer(t) ==
    /\ pc' = [pc EXCEPT ![t] = "idle"]
    /\ kind' = [kind EXCEPT ![t] = "verify"]
    /\ sid' = [sid EXCEPT ![t] = NoId]
    /\ who' = [who EXCEPT ![t] = NoUser]

-------------------------------------------------------------------------------
\* A request arrives with a cookie this server once set, or with none.
Arrive(t, k, cookie) ==
    /\ up
    /\ pc[t] = "idle"
    /\ cookie # NoId => jar[cookie] # NoUser
    /\ kind' = [kind EXCEPT ![t] = k]
    /\ sid' = [sid EXCEPT ![t] = cookie]
    /\ Goto(t, "copy")
    /\ UNCHANGED <<store, up, who, raced, now, history>>

\* The copy of sessions_ that all three handlers take and search: the cookie
\* is in it.
Hit(t) == sid[t] \in InMemory

\* The cookie is not in the copy: it is not in the map, or the copy of a map
\* another thread was changing lacks it.
Miss(t) == ~Hit(t) \/ Racing(t)

\* RootHandler::VerifySession_
VerifySession(t) ==
    /\ pc[t] = "copy"
    /\ kind[t] = "verify"
    /\ EndAccess(t)
    /\ \/ /\ Hit(t)
          /\ who' = [who EXCEPT ![t] = sessions[sid[t]]]
          /\ Goto(t, "granted")
          /\ UNCHANGED <<kind, sid>>
       \/ Miss(t) /\ Answer(t)
    /\ UNCHANGED <<store, up, now, history>>

\* The rest of a request that VerifySession_ let through, up to its response.
Serve(t) ==
    /\ pc[t] = "granted"
    /\ Answer(t)
    /\ UNCHANGED <<store, up, raced, now, history>>

\* LoginHandler::StartSession_ up to AuthenticateUser_
StartSession(t) ==
    /\ pc[t] = "copy"
    /\ kind[t] = "login"
    /\ EndAccess(t)
    /\ \/ Hit(t) /\ Answer(t)
       \/ /\ Miss(t)
          /\ sid' = [sid EXCEPT ![t] = NoId]
          /\ Goto(t, "authenticate")
          /\ UNCHANGED <<kind, who>>
    /\ UNCHANGED <<store, up, now, history>>

\* UsersManager::AuthenticateUser_: no row, a null column and a database
\* error all come back as FALSE.
AuthenticateUser(t) ==
    /\ pc[t] = "authenticate"
    /\ \/ /\ \E u \in Users : who' = [who EXCEPT ![t] = u]
          /\ Goto(t, "draw")
          /\ UNCHANGED <<kind, sid>>
       \/ Answer(t)
    /\ UNCHANGED <<store, up, raced, now, history>>

Becomes(id, f) == fate' = [fate EXCEPT ![id] = IF @ = "void" THEN @ ELSE f]

\* Nothing is promised of this identifier from now on, and no history kept.
GiveUp(id) ==
    /\ Cardinality(Void \cup {id}) <= MaxVoid
    /\ fate' = [fate EXCEPT ![id] = "void"]
    /\ owner' = [owner EXCEPT ![id] = NoUser]
    /\ unsaved' = unsaved \ {id}
    /\ torn' = torn \ {id}

\* What SessionExists_ does not find in the map.
Unseen(t) == {id \in SessionIds : id \notin InMemory \/ Racing(t)}

\* GenerateSessionID_: a digest of 32 random characters, which may be any
\* identifier: one in use, one of the past, one another thread has drawn and
\* not stored yet.
Draw(t, id) ==
    /\ sid' = [sid EXCEPT ![t] = id]
    /\ IF fate[id] # "unused" /\ id \in Unseen(t) THEN GiveUp(id)
       ELSE Becomes(id, "drawn") /\ UNCHANGED <<owner, unsaved, torn>>

\* Mutant: CreateSession_ takes the first identifier it draws.
DrawIdUnchecked(t) ==
    /\ pc[t] = "draw"
    /\ EndAccess(t)
    /\ \E id \in SessionIds : Draw(t, id)
    /\ Goto(t, "emplace")
    /\ UNCHANGED <<store, up, kind, who, now, jar, loaded>>

\* CreateSession_ draws until SessionExists_ says no.
DrawId(t) ==
    /\ pc[t] = "draw"
    /\ EndAccess(t)
    /\ \E id \in Unseen(t) : Draw(t, id)
    /\ Goto(t, "emplace")
    /\ UNCHANGED <<store, up, kind, who, now, jar, loaded>>

\* sessions_.emplace(id, new_session): stores nothing if it finds the key.
Emplace(t) ==
    LET id == sid[t] IN
    /\ pc[t] = "emplace"
    /\ EndAccess(t)
    /\ \E user \in Users, lost \in SUBSET (InMemory \cup {id}) :
         /\ \/ Hit(t) /\ user = sessions[id]
            \/ Miss(t) /\ user = who[t]
         /\ lost # {} => Racing(t)
         /\ sessions' = [i \in SessionIds |->
                           IF i \in lost THEN NoUser ELSE IF i = id THEN user ELSE sessions[i]]
         /\ torn' = (torn \cup lost) \ Void
         /\ owner' = [owner EXCEPT ![id] = IF id \in Void THEN @ ELSE user]
    /\ Becomes(id, "open")
    /\ Goto(t, "insert")
    /\ UNCHANGED <<rowUser, created, up, local, now, jar, unsaved, loaded>>

\* Mutant: the table is given the time the session expires at.
InsertStoresExpiry(t) ==
    LET id == sid[t] IN
    /\ pc[t] = "insert"
    /\ rowUser' = [rowUser EXCEPT ![id] = who[t]]
    /\ created' = [created EXCEPT ![id] = now + MaxAge]
    /\ Goto(t, "at")
    /\ UNCHANGED <<sessions, up, local, raced, now, history>>

\* The INSERT of CreateSession_; whether it failed is not looked at.  Of two rows
\* with one identifier, where the table admits them, one is what a load sees.
Insert(t) ==
    LET id == sid[t] IN
    /\ pc[t] = "insert"
    /\ \/ /\ rowUser' = [rowUser EXCEPT ![id] = who[t]]
          /\ created' = [created EXCEPT ![id] = now]
          /\ UNCHANGED unsaved
       \/ /\ unsaved' = (unsaved \cup {id}) \ Void
          /\ UNCHANGED <<rowUser, created>>
    /\ Goto(t, "at")
    /\ UNCHANGED <<sessions, up, local, raced, now, jar, owner, fate, torn, loaded>>

\* sessions_.at(id), then the cookie; at() throws when the key is missing and
\* handleRequest answers 500.
ReturnSession(t) ==
    LET id == sid[t] IN
    /\ pc[t] = "at"
    /\ EndAccess(t)
    /\ \/ /\ Hit(t)
          /\ jar' = [jar EXCEPT ![id] = who[t]]
       \/ Miss(t) /\ UNCHANGED jar
    /\ Answer(t)
    /\ UNCHANGED <<store, up, now, owner, fate, unsaved, torn, loaded>>

\* Mutant: a logout deletes the row only.
EndSessionRowOnly(t) ==
    /\ pc[t] = "copy"
    /\ kind[t] = "logout"
    /\ EndAccess(t)
    /\ \/ Hit(t) /\ Goto(t, "delete") /\ UNCHANGED local
       \/ Miss(t) /\ Answer(t)
    /\ UNCHANGED <<store, up, now, history>>

\* LoginHandler::EndSession_ up to DeleteSession_
EndSession(t) ==
    /\ pc[t] = "copy"
    /\ kind[t] = "logout"
    /\ EndAccess(t)
    /\ \/ Hit(t) /\ Goto(t, "find") /\ UNCHANGED local
       \/ Miss(t) /\ Answer(t)
    /\ UNCHANGED <<store, up, now, history>>

\* DeleteSession_ returns if it does not find the session.
Find(t) ==
    /\ pc[t] = "find"
    /\ EndAccess(t)
    /\ \/ Hit(t) /\ Goto(t, "erase") /\ UNCHANGED local
       \/ Miss(t) /\ Answer(t)
    /\ UNCHANGED <<store, up, now, history>>

\* Mutant: DeleteSession_ finds the session and leaves it in memory.
EraseNothing(t) ==
    /\ pc[t] = "erase"
    /\ EndAccess(t)
    /\ Goto(t, "delete")
    /\ UNCHANGED <<store, up, local, now, history>>

\* sessions_.erase(id) erases nothing if it does not find the key, which another
\* logout may have erased meanwhile.
Erase(t) ==
    LET id == sid[t] IN
    /\ pc[t] = "erase"
    /\ EndAccess(t)
    /\ \/ /\ \E lost \in SUBSET (InMemory \ {id}) :
               /\ lost # {} => Racing(t)
               /\ sessions' = [i \in SessionIds |->
                                 IF i \in lost \cup {id} THEN NoUser ELSE sessions[i]]
               /\ torn' = (torn \cup lost) \ Void
          /\ Becomes(id, IF fate[id] = "closed" THEN "closed" ELSE "erased")
          /\ UNCHANGED <<owner, unsaved>>
       \/ Hit(t) /\ Miss(t) /\ GiveUp(id) /\ UNCHANGED sessions
    /\ Goto(t, "delete")
    /\ UNCHANGED <<rowUser, created, up, local, now, jar, loaded>>

\* The DELETE of DeleteSession_; whether it failed is not looked at, and the
\* logout is answered either way.
Delete(t) ==
    LET id == sid[t] IN
    /\ pc[t] = "delete"
    /\ \/ /\ rowUser' = [rowUser EXCEPT ![id] = NoUser]
          /\ created' = [created EXCEPT ![id] = 0]
          /\ Becomes(id, "closed")
       \/ /\ Becomes(id, IF fate[id] = "closed" THEN "closed" ELSE "reported")
          /\ UNCHANGED <<rowUser, created>>
    /\ Answer(t)
    /\ UNCHANGED <<sessions, up, raced, now, jar, owner, unsaved, torn, loaded>>

-------------------------------------------------------------------------------
\* The process dies: the map and the handlers are gone, the table stays.
Crash ==
    /\ up
    /\ up' = FALSE
    /\ sessions' = [id \in SessionIds |-> NoUser]
    /\ pc' = [t \in Threads |-> "idle"]
    /\ kind' = [t \in Threads |-> "verify"]
    /\ sid' = [t \in Threads |-> NoId]
    /\ who' = [t \in Threads |-> NoUser]
    /\ raced' = {}
    /\ torn' = {} /\ loaded' = FALSE
    /\ UNCHANGED <<rowUser, created, now, jar, owner, fate, unsaved>>

\* main: ReadSessions_, then the server starts.  ReadSessions_ loads the rows
\* that have not expired; a query that fails is logged and nothing is loaded.
ReadSessions ==
    /\ ~up
    /\ up' = TRUE
    /\ \/ /\ sessions' = [id \in SessionIds |->
                            IF id \in Unexpired THEN rowUser[id] ELSE NoUser]
          /\ loaded' = TRUE
       \/ /\ loaded' = FALSE
          /\ UNCHANGED sessions
    /\ UNCHANGED <<rowUser, created, pc, kind, sid, who, raced, now,
                   jar, owner, fate, unsaved, torn>>

Tick ==
    /\ now < MaxTime
    /\ now' = now + 1
    /\ UNCHANGED <<store, up, pc, kind, sid, who, raced, history>>

Step(t) ==
    \/ VerifySession(t)
    \/ Serve(t)
    \/ StartSession(t)
    \/ AuthenticateUser(t)
    \/ DrawId(t)
    \/ Emplace(t)
    \/ Insert(t)
    \/ ReturnSession(t)
    \/ EndSession(t)
    \/ Find(t)
    \/ Erase(t)
    \/ Delete(t)

Next ==
    \/ \E t \in Threads, k \in Kinds, c \in SessionIds \cup {NoId} : Arrive(t, k, c)
    \/ \E t \in Threads : Step(t)
    \/ Crash
    \/ ReadSessions
    \/ Tick

Spec == Init /\ [][Next]_vars

-------------------------------------------------------------------------------
\* Types of the variables; a handler past its search of the map holds an
\* identifier, not "no cookie".
TypeOK ==
    /\ sessions \in [SessionIds -> MaybeUser]
    /\ rowUser \in [SessionIds -> MaybeUser]
    /\ created \in [SessionIds -> Times]
    /\ up \in BOOLEAN
    /\ pc \in [Threads -> Phases]
    /\ kind \in [Threads -> Kinds]
    /\ sid \in [Threads -> SessionIds \cup {NoId}]
    /\ who \in [Threads -> MaybeUser]
    /\ raced \in SUBSET Threads
    /\ now \in Times
    /\ jar \in [SessionIds -> MaybeUser]
    /\ owner \in [SessionIds -> MaybeUser]
    /\ fate \in [SessionIds -> Fates]
    /\ unsaved \in SUBSET SessionIds
    /\ torn \in SUBSET SessionIds
    /\ loaded \in BOOLEAN
    /\ \A t \in Threads :
         pc[t] \in {"granted", "emplace", "insert", "at", "find", "erase", "delete"}
             => sid[t] \in SessionIds

\* Nobody is given somebody else's session, unless its identifier was drawn again
\* where SessionExists_ could not see it.  The map, the table and the login
\* responses agree on the one user an identifier belongs to, and VerifySession_
\* sets the current user to the one whose login returned the cookie of the
\* request - with any interleaving of logins, logouts, races on the map, failed
\* writes, crashes and restarts.
OneOwner ==
    /\ \A id \in SessionIds \ Void :
         /\ sessions[id] \in {NoUser, owner[id]}
         /\ rowUser[id] \in {NoUser, owner[id]}
         /\ jar[id] \in {NoUser, owner[id]}
    /\ \A t \in Threads :
         pc[t] = "granted" /\ sid[t] \notin Void => who[t] = jar[sid[t]]

\* CreateSession_ stores in memory first and then in the table, DeleteSession_
\* erases from memory first and then from the table: a session the server
\* accepts has its row, unless its INSERT is under way or has failed, or the
\* identifier is void.
MemoryIsBacked ==
    \A id \in InMemory \ Void :
        \/ rowUser[id] = sessions[id]
        \/ id \in unsaved
        \/ \E t \in Threads : pc[t] = "insert" /\ sid[t] = id

\* A login the client was told of is honoured until it expires or is logged
\* out, over any number of restarts: the exceptions are an INSERT that failed,
\* a data race that removed it in this process, a void identifier, and a
\* ReadSessions_ that failed.
LoginIsHonoured ==
    \A id \in SessionIds :
        /\ up /\ loaded
        /\ jar[id] # NoUser /\ fate[id] = "open"
        /\ id \notin unsaved \cup torn
        /\ now < created[id] + MaxAge
        => id \in InMemory

\* Their DELETE has succeeded, and they are not void.
Closed == {id \in SessionIds : fate[id] = "closed"}

\* A logout whose DELETE succeeded is final: the identifier is neither in
\* memory nor in the table any more, and no restart brings it back.
ClosedStaysClosed == Closed \cap (InMemory \cup InTable) = {}

Book == INSTANCE SessionBook WITH
            holder <- owner,
            live <- InMemory \ Void,
            closed <- Closed,
            void <- Void

\* The threads, the map and the table together implement the session book.
ImplementsBook == Book!BookSpec

-------------------------------------------------------------------------------
Authorizes(t) ==
    pc[t] = "copy" /\ pc'[t] = "granted"

\* What EndSession_ says ("Delete session", then "Client logout."): once the
\* logout of a session has been answered no request is authorized with it (races
\* and repeated draws aside).
DeletedIsRefused ==
    [][\A t \in Threads :
          Authorizes(t) => fate[sid[t]] \notin {"reported", "closed"} \/ sid[t] \in Void]_vars

\* What session_max_age says: no request is authorized with a session whose
\* row is older than that.
ExpiredIsRefused ==
    [][\A t \in Threads :
          Authorizes(t) /\ rowUser[sid[t]] # NoUser
              => now < created[sid[t]] + MaxAge]_vars

===============================================================================
