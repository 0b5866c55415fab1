---------------------------- MODULE SessionsProofs ----------------------------
(***************************************************************************)
(* Sessions, for any number of threads, accounts and identifiers and any   *)
(* clock: types, the safety invariants of Sessions, and the implementation *)
(* of SessionBook.                                                         *)
(***************************************************************************)
EXTENDS Sessions, TLAPS

\* The initial state is typed.
LEMMA InitTypeOK == Init => TypeOK
<1>1. 0 \in Times
  BY ConstantsAssumption DEF Times
<1> SUFFICES ASSUME Init PROVE TypeOK
  OBVIOUS
<1>2. /\ sessions \in [SessionIds -> MaybeUser]
      /\ rowUser \in [SessionIds -> MaybeUser]
      /\ created \in [SessionIds -> Times]
      /\ jar \in [SessionIds -> MaybeUser]
      /\ owner \in [SessionIds -> MaybeUser]
      /\ fate \in [SessionIds -> Fates]
  BY <1>1 DEF Init, MaybeUser, Fates
<1>3. /\ pc \in [Threads -> Phases]
      /\ kind \in [Threads -> Kinds]
      /\ sid \in [Threads -> SessionIds \cup {NoId}]
      /\ who \in [Threads -> MaybeUser]
  BY DEF Init, MaybeUser, Phases, Kinds
<1>4. QED
  BY <1>1, <1>2, <1>3 DEF Init, TypeOK

\* Every handler step, crash, restart and tick keeps the types.
LEMMA NextTypeOK == TypeOK /\ [Next]_vars => TypeOK'
<1> SUFFICES ASSUME TypeOK, [Next]_vars PROVE TypeOK'
  OBVIOUS
<1> USE ConstantsAssumption DEF TypeOK, MaybeUser, Times, Phases,
        Kinds, Fates, store, local, history, Void
<1>1. ASSUME NEW t \in Threads, NEW k \in Kinds, NEW c \in SessionIds \cup {NoId},
             Arrive(t, k, c)
      PROVE  TypeOK'
  BY <1>1 DEF Arrive, Goto
<1>2. ASSUME NEW t \in Threads, Step(t) PROVE TypeOK'
  <2> USE DEF Goto, Answer, EndAccess, Conflicting, Hit, InMemory, Becomes, GiveUp
  <2>1. CASE VerifySession(t)
    BY <2>1 DEF VerifySession
  <2>2. CASE Serve(t)
    BY <2>2 DEF Serve
  <2>3. CASE StartSession(t)
    BY <2>3 DEF StartSession
  <2>4. CASE AuthenticateUser(t)
    BY <2>4 DEF AuthenticateUser
  <2>5. CASE DrawId(t)
    <3>1. PICK id \in SessionIds : Draw(t, id)
      BY <2>5 DEF DrawId, Unseen
    <3>2. QED
      BY <2>5, <3>1 DEF DrawId, Draw
  <2>6. CASE Emplace(t)
    <3>1. sessions' \in [SessionIds -> MaybeUser]
      BY <2>6 DEF Emplace
    <3>2. torn' \in SUBSET SessionIds
      BY <2>6 DEF Emplace
    <3>3. QED
      BY <2>6, <3>1, <3>2 DEF Emplace
  <2>7. CASE Insert(t)
    <3>1. rowUser' \in [SessionIds -> MaybeUser] /\ created' \in [SessionIds -> 0 .. MaxTime]
      BY <2>7 DEF Insert
    <3>2. unsaved' \in SUBSET SessionIds
      BY <2>7 DEF Insert
    <3>3. QED
      BY <2>7, <3>1, <3>2 DEF Insert
  <2>8. CASE ReturnSession(t)
    BY <2>8 DEF ReturnSession
  <2>9. CASE EndSession(t)
    BY <2>9 DEF EndSession
  <2>10. CASE Find(t)
    BY <2>10 DEF Find
  <2>11. CASE Erase(t)
    BY <2>11 DEF Erase
  <2>12. CASE Delete(t)
    BY <2>12 DEF Delete
  <2>13. QED
    BY <1>2, <2>1, <2>2, <2>3, <2>4, <2>5, <2>6, <2>7, <2>8, <2>9, <2>10, <2>11, <2>12 DEF Step
<1>3. CASE Crash
  BY <1>3 DEF Crash
<1>4. CASE ReadSessions
  BY <1>4 DEF ReadSessions
<1>5. CASE Tick
  BY <1>5 DEF Tick
<1>6. CASE UNCHANGED vars
  BY <1>6 DEF vars
<1>7. QED
  BY <1>1, <1>2, <1>3, <1>4, <1>5, <1>6 DEF Next

\* The variables of the store keep their types whatever the threads do.
THEOREM TypeCorrect == Spec => []TypeOK
BY InitTypeOK, NextTypeOK, PTL DEF Spec

-------------------------------------------------------------------------------
(* The inductive invariant.  OneOwner and its companions are not inductive  *)
(* by themselves: they rest on an identifier being private to the thread    *)
(* that drew it until its cookie is sent, unless it is void, and on the     *)
(* table being written after the memory.                                    *)

Creating(t) == pc[t] \in {"emplace", "insert", "at"}

\* Its identifier keeps what is promised of it.
Sound(t) == fate[sid[t]] # "void"

\* Nothing is stored under an identifier before Emplace.
FreshInv ==
    \A id \in SessionIds :
        fate[id] \in {"unused", "drawn"} =>
            /\ sessions[id] = NoUser
            /\ rowUser[id] = NoUser
            /\ jar[id] = NoUser
            /\ owner[id] = NoUser

\* Memory, table and cookies name the owner.
OwnerInv ==
    \A id \in SessionIds :
        IF fate[id] = "void" THEN owner[id] = NoUser
        ELSE /\ sessions[id] \in {NoUser, owner[id]}
             /\ rowUser[id] \in {NoUser, owner[id]}
             /\ jar[id] \in {NoUser, owner[id]}

\* An identifier being created belongs to one thread and to no cookie.
CreatingInv ==
    /\ \A t \in Threads : pc[t] = "draw" \/ Creating(t) => who[t] \in Users
    /\ \A t \in Threads : Creating(t) /\ Sound(t) => jar[sid[t]] = NoUser
    /\ \A t \in Threads : pc[t] = "emplace" /\ Sound(t) => fate[sid[t]] = "drawn"
    /\ \A t \in Threads : pc[t] \in {"insert", "at"} /\ Sound(t) =>
          fate[sid[t]] = "open" /\ owner[sid[t]] = who[t]
    /\ \A t \in Threads : pc[t] = "insert" /\ Sound(t) => rowUser[sid[t]] = NoUser
    /\ \A t \in Threads : pc[t] = "at" /\ Sound(t) =>
          sid[t] \in unsaved \/ rowUser[sid[t]] = who[t]
    /\ \A t, u \in Threads :
          Creating(t) /\ Creating(u) /\ sid[t] = sid[u] /\ Sound(t) => t = u

\* Every other handler holds a cookie the server has sent.
CookieInv ==
    /\ \A t \in Threads :
          pc[t] \in {"copy", "granted", "find", "erase", "delete"} /\ sid[t] # NoId
              => jar[sid[t]] # NoUser
    /\ \A t \in Threads : pc[t] = "granted" /\ Sound(t) => who[t] = jar[sid[t]]
    /\ \A t \in Threads : pc[t] = "delete" /\ Sound(t) => sessions[sid[t]] = NoUser

\* The rows.
RowInv ==
    /\ \A id \in SessionIds :
          jar[id] # NoUser /\ fate[id] = "open" /\ id \notin unsaved
              => rowUser[id] # NoUser
    /\ MemoryIsBacked
    /\ ClosedStaysClosed

\* Nothing runs before the server is up.
DownInv ==
    ~up => /\ \A t \in Threads : pc[t] = "idle"
           /\ \A id \in SessionIds : sessions[id] = NoUser

IInv ==
    /\ TypeOK
    /\ FreshInv
    /\ OwnerInv
    /\ CreatingInv
    /\ CookieInv
    /\ RowInv
    /\ DownInv
    /\ LoginIsHonoured

\* Void identifiers stay void, the others come as far as is said.
LEMMA FateBecomes ==
    ASSUME fate \in [SessionIds -> Fates], NEW id \in SessionIds, NEW f, Becomes(id, f)
    PROVE  fate' = IF fate[id] = "void" THEN fate ELSE [fate EXCEPT ![id] = f]
BY DEF Becomes

\* The empty store has the inductive invariant.
LEMMA InitIInv == Init => IInv
<1> SUFFICES ASSUME Init PROVE IInv
  OBVIOUS
<1>1. TypeOK
  BY InitTypeOK
<1>2. FreshInv /\ OwnerInv /\ CreatingInv
  BY DEF Init, FreshInv, OwnerInv, CreatingInv, Creating
<1>3. CookieInv /\ DownInv /\ LoginIsHonoured
  BY DEF Init, CookieInv, DownInv, LoginIsHonoured
<1>4. RowInv
  BY DEF Init, RowInv, MemoryIsBacked, ClosedStaysClosed, InMemory, InTable, Closed
<1>5. QED
  BY <1>1, <1>2, <1>3, <1>4 DEF IInv

\* Every step keeps it: no action of a handler, race, crash or restart breaks
\* the agreement of map, table, cookies and fates.
LEMMA NextIInv == IInv /\ [Next]_vars => IInv'
<1> SUFFICES ASSUME IInv, [Next]_vars PROVE IInv'
  OBVIOUS
<1>0. TypeOK /\ TypeOK'
  BY NextTypeOK DEF IInv
<1> USE <1>0, ConstantsAssumption DEF IInv, TypeOK, MaybeUser, Phases, Kinds, Fates,
        store, local, history, Goto, Answer, Hit, InMemory, InTable, Creating, Sound, Void, Closed
<1>1. ASSUME NEW t \in Threads, NEW k \in Kinds, NEW c \in SessionIds \cup {NoId},
             Arrive(t, k, c)
      PROVE  IInv'
  <2>1. FreshInv'
    BY <1>1 DEF Arrive, FreshInv
  <2>2. OwnerInv'
    BY <1>1 DEF Arrive, OwnerInv
  <2>3. CreatingInv'
    BY <1>1 DEF Arrive, CreatingInv
  <2>4. CookieInv'
    BY <1>1 DEF Arrive, CookieInv
  <2>5. RowInv'
    BY <1>1 DEF Arrive, RowInv, MemoryIsBacked, ClosedStaysClosed
  <2>6. DownInv'
    BY <1>1 DEF Arrive, DownInv
  <2>7. LoginIsHonoured'
    BY <1>1 DEF Arrive, LoginIsHonoured, FreshInv, CreatingInv, RowInv, MemoryIsBacked
  <2>8. QED
    BY <2>1, <2>2, <2>3, <2>4, <2>5, <2>6, <2>7 DEF IInv
<1>2. ASSUME NEW t \in Threads, VerifySession(t)
      PROVE  IInv'
  <2>a. ASSUME sid[t] # NoId, sessions[sid[t]] # NoUser, Sound(t)
        PROVE  pc[t] = "copy" => sessions[sid[t]] = jar[sid[t]]
    BY <2>a, <1>2 DEF VerifySession, OwnerInv, CookieInv
  <2>1. FreshInv'
    BY <1>2 DEF VerifySession, FreshInv
  <2>2. OwnerInv'
    BY <1>2 DEF VerifySession, OwnerInv
  <2>3. CreatingInv'
    BY <1>2 DEF VerifySession, CreatingInv
  <2>4. CookieInv'
    BY <2>a, <1>2 DEF VerifySession, CookieInv, OwnerInv
  <2>5. RowInv'
    BY <1>2 DEF VerifySession, RowInv, MemoryIsBacked, ClosedStaysClosed
  <2>6. DownInv'
    BY <1>2 DEF VerifySession, DownInv
  <2>7. LoginIsHonoured'
    BY <1>2 DEF VerifySession, LoginIsHonoured, FreshInv, CreatingInv, RowInv, MemoryIsBacked
  <2>8. QED
    BY <2>1, <2>2, <2>3, <2>4, <2>5, <2>6, <2>7 DEF IInv
<1>3. ASSUME NEW t \in Threads, Serve(t)
      PROVE  IInv'
  <2>1. FreshInv'
    BY <1>3 DEF Serve, FreshInv
  <2>2. OwnerInv'
    BY <1>3 DEF Serve, OwnerInv
  <2>3. CreatingInv'
    BY <1>3 DEF Serve, CreatingInv
  <2>4. CookieInv'
    BY <1>3 DEF Serve, CookieInv
  <2>5. RowInv'
    BY <1>3 DEF Serve, RowInv, MemoryIsBacked, ClosedStaysClosed
  <2>6. DownInv'
    BY <1>3 DEF Serve, DownInv
  <2>7. LoginIsHonoured'
    BY <1>3 DEF Serve, LoginIsHonoured, FreshInv, CreatingInv, RowInv, MemoryIsBacked
  <2>8. QED
    BY <2>1, <2>2, <2>3, <2>4, <2>5, <2>6, <2>7 DEF IInv
<1>4. ASSUME NEW t \in Threads, StartSession(t)
      PROVE  IInv'
  <2>1. FreshInv'
    BY <1>4 DEF StartSession, FreshInv
  <2>2. OwnerInv'
    BY <1>4 DEF StartSession, OwnerInv
  <2>3. CreatingInv'
    BY <1>4 DEF StartSession, CreatingInv
  <2>4. CookieInv'
    BY <1>4 DEF StartSession, CookieInv
  <2>5. RowInv'
    BY <1>4 DEF StartSession, RowInv, MemoryIsBacked, ClosedStaysClosed
  <2>6. DownInv'
    BY <1>4 DEF StartSession, DownInv
  <2>7. LoginIsHonoured'
    BY <1>4 DEF StartSession, LoginIsHonoured, FreshInv, CreatingInv, RowInv, MemoryIsBacked
  <2>8. QED
    BY <2>1, <2>2, <2>3, <2>4, <2>5, <2>6, <2>7 DEF IInv
<1>5. ASSUME NEW t \in Threads, AuthenticateUser(t)
      PROVE  IInv'
  <2>1. FreshInv'
    BY <1>5 DEF AuthenticateUser, FreshInv
  <2>2. OwnerInv'
    BY <1>5 DEF AuthenticateUser, OwnerInv
  <2>3. CreatingInv'
    BY <1>5 DEF AuthenticateUser, CreatingInv
  <2>4. CookieInv'
    BY <1>5 DEF AuthenticateUser, CookieInv
  <2>5. RowInv'
    BY <1>5 DEF AuthenticateUser, RowInv, MemoryIsBacked, ClosedStaysClosed
  <2>6. DownInv'
    BY <1>5 DEF AuthenticateUser, DownInv
  <2>7. LoginIsHonoured'
    BY <1>5 DEF AuthenticateUser, LoginIsHonoured, FreshInv, CreatingInv, RowInv, MemoryIsBacked
  <2>8. QED
    BY <2>1, <2>2, <2>3, <2>4, <2>5, <2>6, <2>7 DEF IInv
<1>6. ASSUME NEW t \in Threads, DrawId(t)
      PROVE  IInv'
  <2>a. PICK id \in SessionIds : id \in Unseen(t) /\ Draw(t, id)
    BY <1>6 DEF DrawId, Unseen
  <2>b. /\ pc[t] = "draw" /\ pc' = [pc EXCEPT ![t] = "emplace"]
        /\ sid' = [sid EXCEPT ![t] = id]
        /\ UNCHANGED <<store, up, kind, who, now, jar, loaded>>
    BY <1>6, <2>a DEF DrawId, Draw
  <2>c. \/ /\ fate' = [fate EXCEPT ![id] = "void"]
           /\ owner' = [owner EXCEPT ![id] = NoUser]
           /\ unsaved' = unsaved \ {id} /\ torn' = torn \ {id}
        \/ /\ fate[id] = "unused"
           /\ fate' = [fate EXCEPT ![id] = "drawn"]
           /\ UNCHANGED <<owner, unsaved, torn>>
    BY <1>6, <2>a DEF DrawId, Draw, Becomes, GiveUp
  <2>d. fate[id] = "unused" =>
           jar[id] = NoUser /\ \A u \in Threads : Creating(u) => sid[u] # id
    BY DEF FreshInv, CreatingInv
  <2>e. ASSUME NEW u \in Threads \ {t} PROVE pc'[u] = pc[u] /\ sid'[u] = sid[u]
    BY <2>b
  <2>f. pc'[t] = "emplace" /\ sid'[t] = id /\ fate'[id] \in {"void", "drawn"}
    BY <2>b, <2>c
  <2>g. \A i \in SessionIds \ {id} :
           /\ fate'[i] = fate[i] /\ owner'[i] = owner[i]
           /\ i \in unsaved' <=> i \in unsaved
           /\ i \in torn' <=> i \in torn
    BY <2>c
  <2>1. FreshInv'
    BY <2>b, <2>c, <2>g DEF FreshInv
  <2>2. OwnerInv'
    BY <2>b, <2>c, <2>g DEF OwnerInv
  <2>3. CreatingInv'
    BY <2>b, <2>c, <2>d, <2>e, <2>f, <2>g DEF CreatingInv
  <2>4. CookieInv'
    BY <2>b, <2>c, <2>e, <2>f, <2>g DEF CookieInv
  <2>5. RowInv'
    BY <2>b, <2>c, <2>f, <2>g DEF RowInv, MemoryIsBacked, ClosedStaysClosed
  <2>6. DownInv'
    BY <2>b DEF DownInv
  <2>7. LoginIsHonoured'
    BY <2>b, <2>c, <2>f, <2>g DEF LoginIsHonoured
  <2>8. QED
    BY <2>1, <2>2, <2>3, <2>4, <2>5, <2>6, <2>7 DEF IInv
<1>7. ASSUME NEW t \in Threads, Emplace(t)
      PROVE  IInv'
  <2>a. /\ sid[t] \in SessionIds /\ who[t] \in Users /\ pc[t] = "emplace"
        /\ Sound(t) => /\ fate[sid[t]] = "drawn"
                       /\ sessions[sid[t]] = NoUser /\ rowUser[sid[t]] = NoUser
                       /\ jar[sid[t]] = NoUser /\ owner[sid[t]] = NoUser
    BY <1>7 DEF Emplace, CreatingInv, FreshInv
  <2>b. /\ pc' = [pc EXCEPT ![t] = "insert"]
        /\ UNCHANGED <<rowUser, created, up, local, now, jar, unsaved, loaded>>
        /\ fate' = IF Sound(t) THEN [fate EXCEPT ![sid[t]] = "open"] ELSE fate
    BY <1>7, <2>a, FateBecomes DEF Emplace
  <2>c. PICK user \in Users, lost \in SUBSET (InMemory \cup {sid[t]}) :
           /\ \/ Hit(t) /\ user = sessions[sid[t]]
              \/ Miss(t) /\ user = who[t]
           /\ lost # {} => Racing(t)
           /\ sessions' = [i \in SessionIds |-> IF i \in lost THEN NoUser
                                                ELSE IF i = sid[t] THEN user ELSE sessions[i]]
           /\ torn' = (torn \cup lost) \ Void
           /\ owner' = [owner EXCEPT ![sid[t]] = IF sid[t] \in Void THEN @ ELSE user]
    BY <1>7 DEF Emplace
  <2>d. /\ Sound(t) => owner'[sid[t]] = who[t] /\ sessions'[sid[t]] \in {NoUser, who[t]}
        /\ Sound(t) /\ sid[t] \notin torn' => sessions'[sid[t]] = who[t]
        /\ ~Sound(t) => owner' = owner
        /\ \A i \in SessionIds \ {sid[t]} :
              sessions'[i] \in {NoUser, sessions[i]} /\ owner'[i] = owner[i]
        /\ \A i \in SessionIds \ torn' :
              i # sid[t] /\ fate[i] # "void" => sessions'[i] = sessions[i] /\ i \notin torn
    BY <2>a, <2>c
  <2>1. FreshInv'
    BY <2>a, <2>b, <2>d DEF FreshInv
  <2>2. OwnerInv'
    BY <2>a, <2>b, <2>d DEF OwnerInv
  <2>3. CreatingInv'
    <3>1. \A u \in Threads \ {t} : Creating(u) /\ Sound(u) => sid[u] # sid[t]
      BY <2>a DEF CreatingInv
    <3>2. \A u \in Threads \ {t} : pc'[u] = pc[u]
      BY <2>b
    <3>3. pc'[t] = "insert" /\ (Sound(t) => fate'[sid[t]] = "open" /\ owner'[sid[t]] = who[t])
      BY <2>a, <2>b, <2>d
    <3>4. \A i \in SessionIds \ {sid[t]} : fate'[i] = fate[i] /\ owner'[i] = owner[i]
      BY <2>a, <2>b, <2>d
    <3>5. fate'[sid[t]] = "void" <=> ~Sound(t)
      BY <2>a, <2>b
    <3> QED BY <2>a, <2>b, <3>1, <3>2, <3>3, <3>4, <3>5 DEF CreatingInv
  <2>4. CookieInv'
    BY <2>a, <2>b, <2>d DEF CookieInv
  <2>5. RowInv'
    BY <2>a, <2>b, <2>d DEF RowInv, MemoryIsBacked, ClosedStaysClosed
  <2>6. DownInv'
    BY <1>7 DEF Emplace, DownInv
  <2>7. LoginIsHonoured'
    BY <2>a, <2>b, <2>d DEF LoginIsHonoured
  <2>8. QED
    BY <2>1, <2>2, <2>3, <2>4, <2>5, <2>6, <2>7 DEF IInv
<1>8. ASSUME NEW t \in Threads, Insert(t)
      PROVE  IInv'
  <2>a. /\ sid[t] \in SessionIds /\ who[t] \in Users
        /\ Sound(t) => /\ fate[sid[t]] = "open" /\ owner[sid[t]] = who[t]
                       /\ jar[sid[t]] = NoUser
    BY <1>8 DEF Insert, CreatingInv
  <2>b. /\ rowUser'[sid[t]] \in {rowUser[sid[t]], who[t]}
        /\ \A i \in SessionIds \ {sid[t]} : rowUser'[i] = rowUser[i]
        /\ Sound(t) => rowUser'[sid[t]] = who[t] \/ sid[t] \in unsaved'
        /\ \A i \in SessionIds : i \in unsaved /\ fate[i] # "void" => i \in unsaved'
        /\ UNCHANGED <<sessions, jar, owner, fate, local>>
        /\ pc' = [pc EXCEPT ![t] = "at"]
    BY <1>8, <2>a DEF Insert
  <2>1. FreshInv'
    BY <2>a, <2>b DEF FreshInv
  <2>2. OwnerInv'
    BY <2>a, <2>b DEF OwnerInv
  <2>3. CreatingInv'
    BY <1>8 DEF Insert, CreatingInv
  <2>4. CookieInv'
    BY <1>8 DEF Insert, CookieInv
  <2>5. RowInv'
    BY <2>a, <2>b DEF RowInv, MemoryIsBacked, ClosedStaysClosed, OwnerInv, CreatingInv
  <2>6. DownInv'
    BY <1>8 DEF Insert, DownInv
  <2>7. LoginIsHonoured'
    BY <1>8 DEF Insert, LoginIsHonoured, FreshInv, CreatingInv, RowInv, MemoryIsBacked
  <2>8. QED
    BY <2>1, <2>2, <2>3, <2>4, <2>5, <2>6, <2>7 DEF IInv
<1>9. ASSUME NEW t \in Threads, ReturnSession(t)
      PROVE  IInv'
  <2>a. /\ sid[t] \in SessionIds /\ who[t] \in Users
        /\ Sound(t) => /\ fate[sid[t]] = "open" /\ owner[sid[t]] = who[t]
                       /\ sid[t] \in unsaved \/ rowUser[sid[t]] = who[t]
                       /\ jar[sid[t]] = NoUser
    BY <1>9 DEF ReturnSession, CreatingInv
  <2>b. /\ jar'[sid[t]] \in {jar[sid[t]], who[t]}
        /\ \A i \in SessionIds \ {sid[t]} : jar'[i] = jar[i]
        /\ UNCHANGED <<store, owner, fate, unsaved>>
        /\ pc' = [pc EXCEPT ![t] = "idle"]
        /\ \A u \in Threads \ {t} : sid'[u] = sid[u] /\ who'[u] = who[u]
    BY <1>9, <2>a DEF ReturnSession
  <2>1. FreshInv'
    BY <2>a, <2>b DEF FreshInv
  <2>2. OwnerInv'
    BY <2>a, <2>b DEF OwnerInv
  <2>3. CreatingInv'
    <3>1. \A u \in Threads \ {t} : Creating(u) /\ Sound(u) => sid[u] # sid[t]
      BY <1>9 DEF ReturnSession, CreatingInv
    <3>2. /\ pc'[t] = "idle"
          /\ \A u \in Threads \ {t} : pc'[u] = pc[u] /\ sid'[u] = sid[u] /\ who'[u] = who[u]
      BY <2>b
    <3>3. \A u \in Threads : Creating(u)' =>
                u # t /\ Creating(u) /\ (Sound(u) => jar'[sid'[u]] = NoUser)
      BY <2>b, <3>1, <3>2 DEF CreatingInv
    <3>4. QED
      BY <2>b, <3>2, <3>3 DEF CreatingInv
  <2>4. CookieInv'
    BY <2>a, <2>b DEF CookieInv
  <2>5. RowInv'
    <3>1. MemoryIsBacked'
      BY <1>9, <2>b DEF ReturnSession, RowInv, MemoryIsBacked
    <3>2. QED
      BY <2>a, <2>b, <3>1 DEF RowInv, ClosedStaysClosed
  <2>6. DownInv'
    BY <1>9 DEF ReturnSession, DownInv
  <2>7. LoginIsHonoured'
    BY <1>9 DEF ReturnSession, LoginIsHonoured, FreshInv, CreatingInv, RowInv, MemoryIsBacked
  <2>8. QED
    BY <2>1, <2>2, <2>3, <2>4, <2>5, <2>6, <2>7 DEF IInv
<1>10. ASSUME NEW t \in Threads, EndSession(t)
      PROVE  IInv'
  <2>1. FreshInv'
    BY <1>10 DEF EndSession, FreshInv
  <2>2. OwnerInv'
    BY <1>10 DEF EndSession, OwnerInv
  <2>3. CreatingInv'
    BY <1>10 DEF EndSession, CreatingInv
  <2>4. CookieInv'
    BY <1>10 DEF EndSession, CookieInv
  <2>5. RowInv'
    BY <1>10 DEF EndSession, RowInv, MemoryIsBacked, ClosedStaysClosed
  <2>6. DownInv'
    BY <1>10 DEF EndSession, DownInv
  <2>7. LoginIsHonoured'
    BY <1>10 DEF EndSession, LoginIsHonoured, FreshInv, CreatingInv, RowInv, MemoryIsBacked
  <2>8. QED
    BY <2>1, <2>2, <2>3, <2>4, <2>5, <2>6, <2>7 DEF IInv
<1>17. ASSUME NEW t \in Threads, Find(t)
      PROVE  IInv'
  <2>1. FreshInv'
    BY <1>17 DEF Find, FreshInv
  <2>2. OwnerInv'
    BY <1>17 DEF Find, OwnerInv
  <2>3. CreatingInv'
    BY <1>17 DEF Find, CreatingInv
  <2>4. CookieInv'
    BY <1>17 DEF Find, CookieInv
  <2>5. RowInv'
    BY <1>17 DEF Find, RowInv, MemoryIsBacked, ClosedStaysClosed
  <2>6. DownInv'
    BY <1>17 DEF Find, DownInv
  <2>7. LoginIsHonoured'
    BY <1>17 DEF Find, LoginIsHonoured, FreshInv, CreatingInv, RowInv, MemoryIsBacked
  <2>8. QED
    BY <2>1, <2>2, <2>3, <2>4, <2>5, <2>6, <2>7 DEF IInv
<1>11. ASSUME NEW t \in Threads, Erase(t)
      PROVE  IInv'
  <2>a. sid[t] \in SessionIds /\ jar[sid[t]] # NoUser /\ fate[sid[t]] \notin {"unused", "drawn"}
    BY <1>11, NoId \notin SessionIds DEF Erase, CookieInv, FreshInv
  <2>b. /\ pc[t] = "erase" /\ pc' = [pc EXCEPT ![t] = "delete"]
        /\ UNCHANGED <<rowUser, created, up, local, now, jar, loaded>>
    BY <1>11 DEF Erase
  <2>c. CASE GiveUp(sid[t]) /\ UNCHANGED sessions
    <3>1. /\ fate' = [fate EXCEPT ![sid[t]] = "void"]
          /\ owner' = [owner EXCEPT ![sid[t]] = NoUser]
          /\ unsaved' = unsaved \ {sid[t]} /\ torn' = torn \ {sid[t]}
          /\ UNCHANGED sessions
      BY <2>c DEF GiveUp
    <3>2. FreshInv' /\ OwnerInv'
      BY <2>a, <2>b, <3>1 DEF FreshInv, OwnerInv
    <3>3. CreatingInv'
      BY <2>a, <2>b, <3>1 DEF CreatingInv
    <3>4. CookieInv'
      BY <2>a, <2>b, <3>1 DEF CookieInv
    <3>5. RowInv'
      BY <2>a, <2>b, <3>1 DEF RowInv, MemoryIsBacked, ClosedStaysClosed
    <3>6. DownInv' /\ LoginIsHonoured'
      BY <2>a, <2>b, <3>1 DEF DownInv, LoginIsHonoured
    <3> QED BY <3>2, <3>3, <3>4, <3>5, <3>6 DEF IInv
  <2>d. CASE ~(GiveUp(sid[t]) /\ UNCHANGED sessions)
    <3>1. PICK lost \in SUBSET (InMemory \ {sid[t]}) :
             /\ lost # {} => Racing(t)
             /\ sessions' = [i \in SessionIds |->
                               IF i \in lost \cup {sid[t]} THEN NoUser ELSE sessions[i]]
             /\ torn' = (torn \cup lost) \ Void
      BY <1>11, <2>d DEF Erase
    <3>2. /\ UNCHANGED <<owner, unsaved>>
          /\ fate' = IF Sound(t)
                     THEN [fate EXCEPT ![sid[t]] = IF fate[sid[t]] = "closed" THEN "closed" ELSE "erased"]
                     ELSE fate
      BY <1>11, <2>a, <2>d, FateBecomes DEF Erase
    <3>3. /\ sessions'[sid[t]] = NoUser
          /\ \A i \in SessionIds \ {sid[t]} : sessions'[i] \in {NoUser, sessions[i]}
          /\ \A i \in SessionIds \ torn' :
                i # sid[t] /\ fate[i] # "void" => sessions'[i] = sessions[i] /\ i \notin torn
      BY <2>a, <3>1
    <3>4. FreshInv' /\ OwnerInv'
      BY <2>a, <2>b, <3>2, <3>3 DEF FreshInv, OwnerInv
    <3>5. CreatingInv'
      BY <2>a, <2>b, <3>2, <3>3 DEF CreatingInv
    <3>6. CookieInv'
      BY <2>a, <2>b, <3>2, <3>3 DEF CookieInv
    <3>7. RowInv'
      BY <2>a, <2>b, <3>2, <3>3 DEF RowInv, MemoryIsBacked, ClosedStaysClosed
    <3>8. DownInv' /\ LoginIsHonoured'
      BY <2>a, <2>b, <3>2, <3>3 DEF DownInv, LoginIsHonoured
    <3> QED BY <3>4, <3>5, <3>6, <3>7, <3>8 DEF IInv
  <2> QED BY <2>c, <2>d
<1>12. ASSUME NEW t \in Threads, Delete(t)
      PROVE  IInv'
  <2>a. /\ sid[t] \in SessionIds /\ jar[sid[t]] # NoUser
        /\ Sound(t) => sessions[sid[t]] = NoUser /\ fate[sid[t]] \notin {"unused", "drawn"}
    BY <1>12, NoId \notin SessionIds DEF Delete, CookieInv, FreshInv
  <2>b. /\ pc[t] = "delete" /\ pc' = [pc EXCEPT ![t] = "idle"]
        /\ \A u \in Threads \ {t} : sid'[u] = sid[u] /\ who'[u] = who[u]
        /\ UNCHANGED <<sessions, up, now, jar, owner, unsaved, torn, loaded>>
    BY <1>12 DEF Delete
  <2>c. /\ fate'[sid[t]] \in {"void", "closed", "reported"}
        /\ fate'[sid[t]] = "void" <=> ~Sound(t)
        /\ fate'[sid[t]] = "closed" => fate[sid[t]] = "closed" \/ rowUser'[sid[t]] = NoUser
        /\ \A i \in SessionIds \ {sid[t]} :
              fate'[i] = fate[i] /\ rowUser'[i] = rowUser[i] /\ created'[i] = created[i]
        /\ rowUser'[sid[t]] \in {NoUser, rowUser[sid[t]]}
    BY <1>12, <2>a, FateBecomes DEF Delete
  <2>1. FreshInv'
    BY <2>a, <2>b, <2>c DEF FreshInv
  <2>2. OwnerInv'
    BY <2>a, <2>b, <2>c DEF OwnerInv
  <2>3. CreatingInv'
    BY <2>a, <2>b, <2>c DEF CreatingInv
  <2>4. CookieInv'
    BY <2>a, <2>b, <2>c DEF CookieInv
  <2>5. RowInv'
    BY <2>a, <2>b, <2>c DEF RowInv, MemoryIsBacked, ClosedStaysClosed
  <2>6. DownInv'
    BY <1>12 DEF Delete, DownInv
  <2>7. LoginIsHonoured'
    BY <2>a, <2>b, <2>c DEF LoginIsHonoured
  <2>8. QED
    BY <2>1, <2>2, <2>3, <2>4, <2>5, <2>6, <2>7 DEF IInv
<1>13. CASE Crash
  <2>1. FreshInv'
    BY <1>13 DEF Crash, FreshInv
  <2>2. OwnerInv'
    BY <1>13 DEF Crash, OwnerInv
  <2>3. CreatingInv'
    BY <1>13 DEF Crash, CreatingInv
  <2>4. CookieInv'
    BY <1>13 DEF Crash, CookieInv
  <2>5. RowInv'
    BY <1>13 DEF Crash, RowInv, MemoryIsBacked, ClosedStaysClosed
  <2>6. DownInv'
    BY <1>13 DEF Crash, DownInv
  <2>7. LoginIsHonoured'
    BY <1>13 DEF Crash, LoginIsHonoured, FreshInv, CreatingInv, RowInv, MemoryIsBacked
  <2>8. QED
    BY <2>1, <2>2, <2>3, <2>4, <2>5, <2>6, <2>7 DEF IInv
<1>14. CASE ReadSessions
  <2>1. FreshInv'
    BY <1>14 DEF ReadSessions, Unexpired, InTable, FreshInv
  <2>2. OwnerInv'
    BY <1>14 DEF ReadSessions, Unexpired, InTable, OwnerInv
  <2>3. CreatingInv'
    BY <1>14 DEF ReadSessions, Unexpired, InTable, CreatingInv
  <2>4. CookieInv'
    BY <1>14 DEF ReadSessions, CookieInv, DownInv
  <2>5. RowInv'
    BY <1>14 DEF ReadSessions, Unexpired, InTable, RowInv, MemoryIsBacked, ClosedStaysClosed
  <2>6. DownInv'
    BY <1>14 DEF ReadSessions, Unexpired, InTable, DownInv
  <2>7. LoginIsHonoured'
    BY <1>14 DEF ReadSessions, Unexpired, InTable, LoginIsHonoured, FreshInv, CreatingInv, RowInv, MemoryIsBacked
  <2>8. QED
    BY <2>1, <2>2, <2>3, <2>4, <2>5, <2>6, <2>7 DEF IInv
<1>15. CASE Tick
  <2>1. FreshInv'
    BY <1>15 DEF Tick, FreshInv
  <2>2. OwnerInv'
    BY <1>15 DEF Tick, OwnerInv
  <2>3. CreatingInv'
    BY <1>15 DEF Tick, CreatingInv
  <2>4. CookieInv'
    BY <1>15 DEF Tick, CookieInv
  <2>5. RowInv'
    BY <1>15 DEF Tick, RowInv, MemoryIsBacked, ClosedStaysClosed
  <2>6. DownInv'
    BY <1>15 DEF Tick, DownInv
  <2>7. LoginIsHonoured'
    BY <1>15 DEF Tick, Times, LoginIsHonoured
  <2>8. QED
    BY <2>1, <2>2, <2>3, <2>4, <2>5, <2>6, <2>7 DEF IInv
<1>16. CASE UNCHANGED vars
  <2>1. FreshInv'
    BY <1>16 DEF vars, FreshInv
  <2>2. OwnerInv'
    BY <1>16 DEF vars, OwnerInv
  <2>3. CreatingInv'
    BY <1>16 DEF vars, CreatingInv
  <2>4. CookieInv'
    BY <1>16 DEF vars, CookieInv
  <2>5. RowInv'
    BY <1>16 DEF vars, RowInv, MemoryIsBacked, ClosedStaysClosed
  <2>6. DownInv'
    BY <1>16 DEF vars, DownInv
  <2>7. LoginIsHonoured'
    BY <1>16 DEF vars, LoginIsHonoured, FreshInv, CreatingInv, RowInv, MemoryIsBacked
  <2>8. QED
    BY <2>1, <2>2, <2>3, <2>4, <2>5, <2>6, <2>7 DEF IInv
<1>18. QED
  BY <1>1, <1>2, <1>3, <1>4, <1>5, <1>6, <1>7, <1>8, <1>9, <1>10, <1>11, <1>12, <1>13, <1>14, <1>15, <1>16, <1>17
  DEF Next, Step

-------------------------------------------------------------------------------
\* The inductive invariant holds in every reachable state of the store.
THEOREM Inductive == Spec => []IInv
BY InitIInv, NextIInv, PTL DEF Spec

\* No user is ever given another user's session: map, table and cookies agree
\* on the owner of every identifier.
THEOREM SessionsHaveOneOwner == Spec => []OneOwner
<1>1. IInv => OneOwner
  BY ConstantsAssumption DEF IInv, TypeOK, OwnerInv, CookieInv, OneOwner, Void, Sound
<1>2. QED
  BY <1>1, Inductive, PTL

\* Every session in memory has its row, or an INSERT under way or failed.
THEOREM MemoryHasItsRow == Spec => []MemoryIsBacked
<1>1. IInv => MemoryIsBacked
  BY DEF IInv, RowInv
<1>2. QED
  BY <1>1, Inductive, PTL

\* A login the client was told of survives restarts until expiry or logout.
THEOREM LoginsAreHonoured == Spec => []LoginIsHonoured
<1>1. IInv => LoginIsHonoured
  BY DEF IInv
<1>2. QED
  BY <1>1, Inductive, PTL

\* A session whose DELETE succeeded never comes back.
THEOREM LogoutsAreFinal == Spec => []ClosedStaysClosed
<1>1. IInv => ClosedStaysClosed
  BY DEF IInv, RowInv
<1>2. QED
  BY <1>1, Inductive, PTL

-------------------------------------------------------------------------------
\* The empty store is the empty book.
LEMMA InitBook == Init => Book!BookInit
BY DEF Init, Book!BookInit, InMemory, Void, Closed

Live == InMemory \ Void

\* Each step of the program is a step of the session book or leaves it alone.
LEMMA StepBook == IInv /\ IInv' /\ [Next]_vars => [Book!BookNext]_(Book!bookVars)
<1> SUFFICES ASSUME IInv, IInv', [Next]_vars
             PROVE  Book!BookNext \/ UNCHANGED <<owner, Live, Closed, Void>>
  BY DEF Book!bookVars, Live
<1> USE DEF store, history
<1>a. TypeOK /\ TypeOK'
  BY DEF IInv
<1>1. ASSUME NEW t \in Threads, NEW k \in Kinds, NEW c \in SessionIds \cup {NoId},
             Arrive(t, k, c)
      PROVE  UNCHANGED <<owner, Live, Closed, Void>>
  BY <1>1 DEF Arrive, InMemory, Live, Closed, Void
<1>2. ASSUME NEW t \in Threads,
             VerifySession(t) \/ Serve(t) \/ StartSession(t) \/ AuthenticateUser(t)
               \/ Insert(t) \/ ReturnSession(t) \/ EndSession(t) \/ Find(t)
      PROVE  UNCHANGED <<owner, Live, Closed, Void>>
  BY <1>2 DEF VerifySession, Serve, StartSession, AuthenticateUser, Insert,
       ReturnSession, EndSession, Find, InMemory, Live, Closed, Void
<1>3. ASSUME NEW id \in SessionIds, GiveUp(id),
             InMemory' = InMemory
      PROVE  Book!BookNext
  <2>1. Void' = Void \cup {id} /\ Closed' = Closed \ {id}
    BY <1>a, <1>3 DEF GiveUp, Void, Closed, TypeOK
  <2>2. Live' = Live \ {id}
    BY <1>3, <2>1 DEF Live
  <2>3. Book!GiveUp(id)
    BY <1>3, <2>1, <2>2 DEF GiveUp, Book!GiveUp, Live
  <2> QED BY <2>3 DEF Book!BookNext
<1>4. ASSUME NEW t \in Threads, DrawId(t)
      PROVE  Book!BookNext \/ UNCHANGED <<owner, Live, Closed, Void>>
  <2>1. PICK id \in SessionIds : id \in Unseen(t) /\ Draw(t, id)
    BY <1>4 DEF DrawId, Unseen
  <2>2. CASE GiveUp(id)
    BY <1>3, <1>4, <2>2 DEF DrawId, InMemory
  <2>3. CASE fate[id] = "unused" /\ fate' = [fate EXCEPT ![id] = "drawn"] /\ UNCHANGED owner
    <3>1. Closed' = Closed /\ Void' = Void
      BY <1>a, <2>3 DEF Closed, Void, TypeOK
    <3> QED BY <1>4, <2>3, <3>1 DEF DrawId, InMemory, Live
  <2>4. CASE ~GiveUp(id)
    <3>1. fate[id] = "unused" /\ Becomes(id, "drawn") /\ UNCHANGED owner
      BY <2>1, <2>4 DEF Draw
    <3> QED BY <1>a, <2>3, <3>1, FateBecomes DEF TypeOK
  <2> QED BY <2>2, <2>4
<1>5. ASSUME NEW t \in Threads, Emplace(t)
      PROVE  Book!BookNext
  <2>1. /\ sid[t] \in SessionIds /\ who[t] \in Users
        /\ Sound(t) => fate[sid[t]] = "drawn" /\ owner[sid[t]] = NoUser
                         /\ sessions[sid[t]] = NoUser
    BY <1>5, <1>a DEF Emplace, IInv, TypeOK, CreatingInv, FreshInv, Creating
  <2>2. InMemory' \in SUBSET (InMemory \cup {sid[t]})
    BY <1>5, <1>a, <2>1 DEF Emplace, InMemory, TypeOK
  <2>3. Closed' = Closed /\ Void' = Void
    BY <1>5, <1>a, <2>1 DEF Emplace, Becomes, Closed, Void, TypeOK, Sound
  <2>4. CASE Sound(t)
    <3>1. owner' = [owner EXCEPT ![sid[t]] = who[t]]
      BY <1>5, <2>1, <2>4 DEF Emplace, Hit, InMemory, Void, Sound
    <3>2. PICK id \in SessionIds, u \in Users : id = sid[t] /\ u = who[t]
      BY <2>1
    <3>3. id \notin Void /\ Live' \in SUBSET (Live \cup {id})
      BY <2>2, <2>3, <2>4, <3>2 DEF Live, Void, Sound
    <3>4. Book!Issue(id, u)
      BY <2>1, <2>3, <2>4, <3>1, <3>2, <3>3 DEF Book!Issue, Live
    <3> QED BY <3>4 DEF Book!BookNext
  <2>5. CASE ~Sound(t)
    <3>1. sid[t] \in Void
      BY <2>1, <2>5 DEF Void, Sound
    <3>2. owner' = owner
      BY <1>5, <1>a, <3>1 DEF Emplace, TypeOK
    <3>3. Live' \in SUBSET Live
      BY <2>2, <2>3, <3>1 DEF Live
    <3>4. Book!Forget
      BY <2>3, <3>2, <3>3 DEF Book!Forget, Live
    <3> QED BY <3>4 DEF Book!BookNext
  <2> QED BY <2>4, <2>5
<1>6. ASSUME NEW t \in Threads, Erase(t)
      PROVE  Book!BookNext
  <2>1. sid[t] \in SessionIds
    BY <1>6, <1>a DEF Erase, TypeOK
  <2>2. CASE GiveUp(sid[t]) /\ UNCHANGED sessions
    BY <1>3, <2>1, <2>2 DEF InMemory
  <2>3. CASE ~(GiveUp(sid[t]) /\ UNCHANGED sessions)
    <3>1. /\ Becomes(sid[t], IF fate[sid[t]] = "closed" THEN "closed" ELSE "erased")
          /\ owner' = owner
      BY <1>6, <2>3 DEF Erase
    <3>2. Closed' = Closed /\ Void' = Void
      BY <1>a, <2>1, <3>1 DEF Becomes, Closed, Void, TypeOK
    <3>3. InMemory' \in SUBSET InMemory
      BY <1>6, <1>a, <2>3 DEF Erase, InMemory, TypeOK
    <3>4. Live' \in SUBSET Live
      BY <3>2, <3>3 DEF Live
    <3>5. Book!Forget
      BY <3>1, <3>2, <3>4 DEF Book!Forget, Live
    <3> QED BY <3>5 DEF Book!BookNext
  <2> QED BY <2>2, <2>3
<1>7. ASSUME NEW t \in Threads, Delete(t)
      PROVE  Book!BookNext \/ UNCHANGED <<owner, Live, Closed, Void>>
  <2>1. InMemory' = InMemory /\ owner' = owner /\ sid[t] \in SessionIds
    BY <1>7, <1>a DEF Delete, InMemory, TypeOK
  <2>2. CASE sid[t] \in Void \/ Becomes(sid[t], IF fate[sid[t]] = "closed" THEN "closed" ELSE "reported")
    <3>1. Closed' = Closed /\ Void' = Void
      BY <1>7, <1>a, <2>1, <2>2 DEF Delete, Becomes, Closed, Void, TypeOK
    <3> QED BY <2>1, <3>1 DEF Live
  <2>3. CASE sid[t] \notin Void /\ Becomes(sid[t], "closed")
    <3>1. /\ Sound(t)
          /\ jar[sid[t]] # NoUser
          /\ sessions[sid[t]] = NoUser
      BY <1>7, <1>a, <2>1, <2>3, ConstantsAssumption DEF Delete, IInv, CookieInv, TypeOK, Void, Sound
    <3>2. owner[sid[t]] # NoUser
      BY <2>1, <3>1 DEF IInv, OwnerInv, Sound
    <3>3. Closed' = Closed \cup {sid[t]} /\ Void' = Void
      BY <1>a, <2>1, <2>3 DEF Becomes, Closed, Void, TypeOK
    <3>4. PICK id \in SessionIds : id = sid[t]
      BY <2>1
    <3>5. id \in Book!Issued \ Live
      BY <3>1, <3>2, <3>4 DEF Book!Issued, Live, InMemory
    <3>6. Book!Close(id)
      BY <2>1, <3>3, <3>4, <3>5 DEF Book!Close, Live
    <3> QED BY <3>6 DEF Book!BookNext
  <2> QED BY <1>7, <2>2, <2>3 DEF Delete
<1>8. CASE Crash
  <2>1. Live' = {} /\ Closed' = Closed /\ Void' = Void /\ owner' = owner
    BY <1>8 DEF Crash, InMemory, Live, Closed, Void
  <2>2. Book!Forget
    BY <2>1 DEF Book!Forget, Live
  <2> QED BY <2>2 DEF Book!BookNext
<1>9. CASE ReadSessions
  <2>1. InMemory = {} /\ Closed' = Closed /\ Void' = Void /\ owner' = owner
    BY <1>9, <1>a DEF ReadSessions, InMemory, Closed, Void, IInv, DownInv
  <2>2. InMemory' \subseteq InTable
    BY <1>9, <2>1 DEF ReadSessions, InMemory, Unexpired, InTable
  <2>3. InTable \ Void \subseteq Book!Issued \ Closed
    BY DEF InTable, Book!Issued, Closed, Void, IInv, OwnerInv, RowInv, ClosedStaysClosed
  <2>4. Live' \in SUBSET (Book!Issued \ Closed) /\ Live' = Live \cup Live'
    BY <2>1, <2>2, <2>3 DEF Live
  <2>5. Book!Recall
    BY <2>1, <2>4 DEF Book!Recall, Live
  <2> QED BY <2>5 DEF Book!BookNext
<1>10. CASE Tick
  BY <1>10 DEF Tick, InMemory, Live, Closed, Void
<1>11. CASE UNCHANGED vars
  BY <1>11 DEF vars, InMemory, Live, Closed, Void
<1> QED BY <1>1, <1>2, <1>4, <1>5, <1>6, <1>7, <1>8, <1>9, <1>10, <1>11 DEF Next, Step

\* Threads, map and table together implement the session book.
THEOREM SessionsImplementBook == Spec => ImplementsBook
BY InitBook, StepBook, Inductive, PTL DEF Spec, ImplementsBook, Book!BookSpec

===============================================================================
