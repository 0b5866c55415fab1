-------------------------- MODULE PermissionsProofs --------------------------
(***************************************************************************)
(* Permissions, for any number of loaders and readers and any table: types,*)
(* loads that do not mix, verdicts of verifications no load overlaps.      *)
(***************************************************************************)
EXTENDS Permissions, FiniteSetTheorems, TLAPS

\* Every verb has one of the four actions.
LEMMA ActionTypeType == ASSUME NEW verb PROVE ActionType(verb) \in ActionTypes
BY DEF ActionType, ActionTypes

\* A row of the table makes a permission, several make a set of them.
LEMMA PermissionType ==
    /\ \A row \in Rows : PermissionOf(row) \in Permission
    /\ \A rows \in SUBSET Rows : PermissionsOf(rows) \in SUBSET Permission
<1>1. ASSUME NEW row \in Rows PROVE PermissionOf(row) \in Permission
  <2>1. row \in [route : Routes, user : Users, action : STRING]
    BY ConstantsAssumption
  <2>2. row.route \in Routes /\ row.user \in Users
    BY <2>1
  <2>3. ActionType(row.action) \in ActionTypes
    BY ActionTypeType
  <2>4. QED
    BY <2>2, <2>3 DEF PermissionOf, Permission
<1>2. QED
  BY <1>1 DEF PermissionsOf

\* The method a request is checked for is one the server knows.
LEMMA MethodType == \A m \in Methods : IdentifyMethod(m) \in KnownMethods
BY DEF IdentifyMethod, KnownMethods

\* The initial state is typed.
LEMMA InitTypeOK == Init => TypeOK
BY DEF Init, TypeOK, ActionTypes

\* Every step keeps the types.
LEMMA NextTypeOK == TypeOK /\ [Next]_vars => TypeOK'
<1> SUFFICES ASSUME TypeOK, [Next]_vars PROVE TypeOK'
  OBVIOUS
<1> USE DEF TypeOK, loading, reading, Verbs
<1>1. ASSUME NEW l \in Loaders, BeginLoad(l) \/ Lock(l) \/ Load(l) PROVE TypeOK'
  <2> USE DEF LGoto
  <2>1. CASE BeginLoad(l)
    BY <2>1 DEF BeginLoad
  <2>2. CASE Lock(l)
    BY <2>2 DEF Lock, Verifying
  <2>3. CASE ClearMap(l)
    BY <2>3 DEF ClearMap
  <2>4. CASE InsertVerb(l)
    <3>1. Following[lpc[l]] \in {"clearList"} \cup Verbs
      BY <2>4 DEF InsertVerb, Following
    <3>2. QED
      BY <2>4, <3>1 DEF InsertVerb
  <2>5. CASE ClearList(l)
    BY <2>5 DEF ClearList
  <2>6. CASE Query(l)
    <3>1. results' \in [Loaders -> SUBSET Rows] /\ snapshot' \in SUBSET Rows
      BY <2>6 DEF Query
    <3>2. outcome' \in {"ok", "failed"} /\ lpc' \in [Loaders ->
             {"idle", "lock", "clearMap", "clearList", "query", "push", "unlock"} \cup Verbs]
      BY <2>6 DEF Query
    <3>3. QED
      BY <2>6, <3>1, <3>2 DEF Query
  <2>7. CASE PushRow(l)
    <3>1. PICK row \in results[l] :
             \/ /\ outcome' = "thrown"
                /\ results' = [results EXCEPT ![l] = {}]
                /\ LGoto(l, "unlock")
                /\ UNCHANGED permissions
             \/ /\ permissions' = permissions \cup {PermissionOf(row)}
                /\ results' = [results EXCEPT ![l] = @ \ {row}]
                /\ UNCHANGED <<outcome, lpc>>
      BY <2>7 DEF PushRow
    <3>2. PermissionOf(row) \in Permission
      BY PermissionType
    <3>3. results' \in [Loaders -> SUBSET Rows] /\ permissions' \in SUBSET Permission
      BY <3>1, <3>2
    <3>4. QED
      BY <2>7, <3>1, <3>3 DEF PushRow
  <2>8. CASE EndPush(l)
    BY <2>8 DEF EndPush
  <2>9. CASE Unlock(l)
    BY <2>9 DEF Unlock
  <2>10. QED
    BY <1>1, <2>1, <2>2, <2>3, <2>4, <2>5, <2>6, <2>7, <2>8, <2>9 DEF Load
<1>2. ASSUME NEW r \in Readers, NEW route \in Routes, NEW u \in Users,
             NEW m \in Methods, NEW s \in BOOLEAN, Ask(r, route, u, m, s)
      PROVE  TypeOK'
  <2>1. IdentifyMethod(m) \in KnownMethods
    BY MethodType
  <2>2. [route |-> route, user |-> u, method |-> IdentifyMethod(m), strict |-> s] \in Question
    BY <2>1 DEF Question
  <2>3. QED
    BY <1>2, <2>2 DEF Ask, RGoto
<1>3. ASSUME NEW r \in Readers, Verify(r) PROVE TypeOK'
  <2>1. CASE MapAction(r)
    <3>1. ActionType(asked[r].method) \in ActionTypes /\ "kRead" \in ActionTypes
      BY ActionTypeType DEF ActionTypes
    <3>2. mapped' \in [Readers -> ActionTypes]
      BY <2>1, <3>1 DEF MapAction
    <3>3. QED
      BY <2>1, <3>2 DEF MapAction, RGoto
  <2>2. CASE Search(r)
    BY <2>2 DEF Search, Return, ActionTypes
  <2>3. QED
    BY <1>3, <2>1, <2>2 DEF Verify
<1>4. CASE Die
  BY <1>4 DEF Die, ActionTypes
<1>5. CASE UNCHANGED vars
  BY <1>5 DEF vars
<1>6. QED
  BY <1>1, <1>2, <1>3, <1>4, <1>5 DEF Next

\* The variables of the permissions keep their types whatever the threads do.
THEOREM TypeCorrect == Spec => []TypeOK
BY InitTypeOK, NextTypeOK, PTL DEF Spec

-------------------------------------------------------------------------------
(* The inductive invariant: the mutex and the phases of the loaders agree,  *)
(* and what the loader that holds it has done so far is in the map and the  *)
(* list.  Between two loads this is ListMatchesLoad.                        *)

Holding(l) == lpc[l] \notin {"idle", "lock"}

\* The loader inside is the one that has locked the mutex.
MutexInv == \A l \in Loaders : Holding(l) <=> mutex = l

\* The map after the insertions of the load under way, or of the last one.
MapInv ==
    /\ \A l \in Loaders :
          /\ lpc[l] = "GET" => actionMap = {"POST"}
          /\ lpc[l] = "PUT" => actionMap = {"POST", "GET"}
          /\ lpc[l] = "DEL" => actionMap = {"POST", "GET", "PUT"}
          /\ lpc[l] = "POST" => actionMap = {}
          /\ lpc[l] \in {"clearList", "query", "push", "unlock"} => actionMap = Verbs
    /\ mutex = Nobody /\ outcome # "none" => actionMap = Verbs
    /\ mutex = Nobody /\ outcome = "none" => actionMap = {}

\* What the last load has made of the list.
Ended ==
    /\ outcome = "ok" => permissions = PermissionsOf(snapshot)
    /\ outcome = "failed" => permissions = {}
    /\ outcome = "thrown" => permissions \subseteq PermissionsOf(snapshot \ NullRows)

\* The list after the rows the load under way has pushed.
ListInv ==
    /\ \A l \in Loaders :
          /\ lpc[l] = "query" => permissions = {}
          /\ lpc[l] = "push" =>
                /\ outcome = "ok" /\ results[l] \subseteq snapshot
                /\ (snapshot \ results[l]) \cap NullRows = {}
                /\ permissions = PermissionsOf(snapshot \ results[l])
          /\ lpc[l] = "unlock" => outcome # "none" /\ Ended
    /\ mutex = Nobody => Ended /\ (outcome = "none" => permissions = {})

IInv == TypeOK /\ MutexInv /\ MapInv /\ ListInv

\* The initial state has the inductive invariant.
LEMMA InitIInv == Init => IInv
<1> SUFFICES ASSUME Init PROVE IInv
  OBVIOUS
<1>1. MutexInv
  BY ConstantsAssumption DEF Init, MutexInv, Holding
<1>2. MapInv
  BY DEF Init, MapInv
<1>3. ListInv
  BY DEF Init, ListInv, Ended
<1>4. QED
  BY <1>1, <1>2, <1>3, InitTypeOK DEF IInv

\* Every step keeps the mutex and the phases in agreement.
LEMMA NextMutexInv == TypeOK /\ MutexInv /\ [Next]_vars => MutexInv'
<1> SUFFICES ASSUME TypeOK, MutexInv, [Next]_vars PROVE MutexInv'
  OBVIOUS
<1> USE ConstantsAssumption DEF TypeOK, MutexInv, Holding, loading, reading
<1>1. ASSUME NEW l \in Loaders, BeginLoad(l) \/ Lock(l) \/ Load(l) PROVE MutexInv'
  <2> USE DEF LGoto
  <2>1. CASE BeginLoad(l)
    BY <2>1 DEF BeginLoad
  <2>2. CASE Lock(l)
    BY <2>2 DEF Lock
  <2>3. CASE ClearMap(l)
    BY <2>3 DEF ClearMap
  <2>4. CASE InsertVerb(l)
    BY <2>4 DEF InsertVerb, Following, Verbs
  <2>5. CASE ClearList(l)
    BY <2>5 DEF ClearList
  <2>6. CASE Query(l)
    <3>1. /\ lpc[l] = "query" /\ UNCHANGED mutex
          /\ lpc' = [lpc EXCEPT ![l] = "push"] \/ lpc' = [lpc EXCEPT ![l] = "unlock"]
      BY <2>6 DEF Query
    <3>2. QED
      BY <3>1
  <2>7. CASE PushRow(l)
    <3>1. /\ lpc[l] = "push" /\ UNCHANGED mutex
          /\ lpc' = lpc \/ lpc' = [lpc EXCEPT ![l] = "unlock"]
      BY <2>7 DEF PushRow
    <3>2. QED
      BY <3>1
  <2>8. CASE EndPush(l)
    BY <2>8 DEF EndPush
  <2>9. CASE Unlock(l)
    BY <2>9 DEF Unlock
  <2>10. QED
    BY <1>1, <2>1, <2>2, <2>3, <2>4, <2>5, <2>6, <2>7, <2>8, <2>9 DEF Load
<1>2. ASSUME NEW r \in Readers, NEW route \in Routes, NEW u \in Users,
             NEW m \in Methods, NEW s \in BOOLEAN, Ask(r, route, u, m, s)
      PROVE  MutexInv'
  BY <1>2 DEF Ask
<1>3. ASSUME NEW r \in Readers, Verify(r) PROVE MutexInv'
  BY <1>3 DEF Verify, MapAction, Search
<1>4. CASE Die
  BY <1>4 DEF Die
<1>5. CASE UNCHANGED vars
  BY <1>5 DEF vars
<1>6. QED
  BY <1>1, <1>2, <1>3, <1>4, <1>5 DEF Next

\* Every step keeps the map as the loads made it.
LEMMA NextMapInv == IInv /\ [Next]_vars => MapInv'
<1> SUFFICES ASSUME IInv, [Next]_vars PROVE MapInv'
  OBVIOUS
<1> USE ConstantsAssumption DEF IInv, TypeOK, MutexInv, MapInv, ListInv, Holding,
        loading, reading, Verbs
<1>1. ASSUME NEW l \in Loaders, BeginLoad(l) \/ Lock(l) \/ Load(l) PROVE MapInv'
  <2> USE DEF LGoto
  <2>1. CASE BeginLoad(l)
    BY <2>1 DEF BeginLoad
  <2>2. CASE Lock(l)
    BY <2>2 DEF Lock
  <2>3. CASE ClearMap(l)
    BY <2>3 DEF ClearMap
  <2>4. CASE InsertVerb(l)
    <3>1. /\ lpc[l] \in {"POST", "GET", "PUT", "DEL"} /\ mutex = l /\ mutex' = l
          /\ actionMap' = actionMap \cup {lpc[l]}
          /\ \A k \in Loaders \ {l} : lpc[k] \in {"idle", "lock"} /\ lpc'[k] = lpc[k]
      BY <2>4 DEF InsertVerb
    <3>2. lpc'[l] = Following[lpc[l]]
      BY <2>4 DEF InsertVerb
    <3>3. CASE lpc[l] = "POST"
      <4>1. actionMap = {}
        BY <3>3
      <4>2. actionMap' = {"POST"}
        BY <3>1, <3>3, <4>1
      <4>3. lpc'[l] = "GET"
        BY <3>2, <3>3 DEF Following
      <4>4. QED
        BY <3>1, <4>2, <4>3
    <3>4. CASE lpc[l] = "GET"
      BY <3>1, <3>2, <3>4 DEF Following
    <3>5. CASE lpc[l] = "PUT"
      BY <3>1, <3>2, <3>5 DEF Following
    <3>6. CASE lpc[l] = "DEL"
      BY <3>1, <3>2, <3>6 DEF Following
    <3>7. QED
      BY <3>1, <3>3, <3>4, <3>5, <3>6
  <2>5. CASE ClearList(l)
    BY <2>5 DEF ClearList
  <2>6. CASE Query(l)
    <3>1. /\ lpc[l] = "query" /\ UNCHANGED <<mutex, actionMap>>
          /\ lpc' = [lpc EXCEPT ![l] = "push"] \/ lpc' = [lpc EXCEPT ![l] = "unlock"]
      BY <2>6 DEF Query
    <3>2. QED
      BY <3>1
  <2>7. CASE PushRow(l)
    <3>1. /\ lpc[l] = "push" /\ UNCHANGED <<mutex, actionMap>>
          /\ lpc' = lpc \/ lpc' = [lpc EXCEPT ![l] = "unlock"]
      BY <2>7 DEF PushRow
    <3>2. QED
      BY <3>1
  <2>8. CASE EndPush(l)
    BY <2>8 DEF EndPush
  <2>9. CASE Unlock(l)
    BY <2>9 DEF Unlock
  <2>10. QED
    BY <1>1, <2>1, <2>2, <2>3, <2>4, <2>5, <2>6, <2>7, <2>8, <2>9 DEF Load
<1>2. ASSUME NEW r \in Readers, NEW route \in Routes, NEW u \in Users,
             NEW m \in Methods, NEW s \in BOOLEAN, Ask(r, route, u, m, s)
      PROVE  MapInv'
  BY <1>2 DEF Ask
<1>3. ASSUME NEW r \in Readers, Verify(r) PROVE MapInv'
  BY <1>3 DEF Verify, MapAction, Search
<1>4. CASE Die
  BY <1>4 DEF Die
<1>5. CASE UNCHANGED vars
  BY <1>5 DEF vars
<1>6. QED
  BY <1>1, <1>2, <1>3, <1>4, <1>5 DEF Next

\* Every step keeps the list as the loads made it.
LEMMA NextListInv == IInv /\ [Next]_vars => ListInv'
<1> SUFFICES ASSUME IInv, [Next]_vars PROVE ListInv'
  OBVIOUS
<1> USE ConstantsAssumption DEF IInv, TypeOK, MutexInv, ListInv, Ended, Holding,
        loading, reading
<1>1. ASSUME NEW l \in Loaders, BeginLoad(l) \/ Lock(l) \/ Load(l) PROVE ListInv'
  <2> USE DEF LGoto
  <2>1. CASE BeginLoad(l)
    BY <2>1 DEF BeginLoad
  <2>2. CASE Lock(l)
    BY <2>2 DEF Lock
  <2>3. CASE ClearMap(l)
    BY <2>3 DEF ClearMap
  <2>4. CASE InsertVerb(l)
    BY <2>4 DEF InsertVerb, Following, Verbs
  <2>5. CASE ClearList(l)
    BY <2>5 DEF ClearList
  <2>6. CASE Query(l)
    <3>1. /\ lpc[l] = "query" /\ mutex = l /\ permissions = {} /\ mutex' = l
          /\ permissions' = {}
          /\ \A k \in Loaders \ {l} : lpc[k] \in {"idle", "lock"} /\ lpc'[k] = lpc[k]
      BY <2>6 DEF Query
    <3>2. CASE /\ \E table \in SUBSET Rows :
                    results' = [results EXCEPT ![l] = table] /\ snapshot' = table
               /\ outcome' = "ok" /\ lpc' = [lpc EXCEPT ![l] = "push"]
      <4>1. results'[l] = snapshot' /\ lpc'[l] = "push"
        BY <3>2
      <4>2. PermissionsOf({}) = {}
        BY DEF PermissionsOf
      <4>3. snapshot' \ results'[l] = {}
        BY <4>1
      <4>4. QED
        BY <3>1, <3>2, <4>1, <4>2, <4>3
    <3>3. CASE outcome' = "failed" /\ lpc' = [lpc EXCEPT ![l] = "unlock"]
      BY <3>1, <3>3
    <3>4. QED
      BY <2>6, <3>2, <3>3 DEF Query
  <2>7. CASE PushRow(l)
    <3>1. /\ lpc[l] = "push" /\ mutex = l /\ mutex' = l /\ snapshot' = snapshot
          /\ outcome = "ok" /\ results[l] \subseteq snapshot
          /\ (snapshot \ results[l]) \cap NullRows = {}
          /\ permissions = PermissionsOf(snapshot \ results[l])
          /\ \A k \in Loaders \ {l} : lpc[k] \in {"idle", "lock"} /\ lpc'[k] = lpc[k]
      BY <2>7 DEF PushRow
    <3>2. PICK row \in results[l] :
             \/ /\ outcome' = "thrown"
                /\ lpc' = [lpc EXCEPT ![l] = "unlock"]
                /\ permissions' = permissions
             \/ /\ row \notin NullRows
                /\ permissions' = permissions \cup {PermissionOf(row)}
                /\ results' = [results EXCEPT ![l] = @ \ {row}]
                /\ outcome' = outcome /\ lpc' = lpc
      BY <2>7 DEF PushRow
    <3>3. CASE outcome' = "thrown" /\ lpc' = [lpc EXCEPT ![l] = "unlock"]
                 /\ permissions' = permissions
      <4>1. permissions' \subseteq PermissionsOf(snapshot' \ NullRows)
        BY <3>1, <3>3 DEF PermissionsOf
      <4>2. QED
        BY <3>1, <3>3, <4>1
    <3>4. CASE /\ row \notin NullRows
               /\ permissions' = permissions \cup {PermissionOf(row)}
               /\ results' = [results EXCEPT ![l] = @ \ {row}]
               /\ outcome' = outcome /\ lpc' = lpc
      <4>1. results'[l] = results[l] \ {row} /\ row \in snapshot
        BY <3>1, <3>4
      <4>2. snapshot \ results'[l] = (snapshot \ results[l]) \cup {row}
        BY <4>1
      <4>3. permissions' = PermissionsOf(snapshot' \ results'[l])
        BY <3>1, <3>4, <4>2 DEF PermissionsOf
      <4>4. (snapshot' \ results'[l]) \cap NullRows = {} /\ results'[l] \subseteq snapshot'
        BY <3>1, <3>4, <4>1, <4>2
      <4>5. QED
        BY <3>1, <3>4, <4>3, <4>4
    <3>5. QED
      BY <3>2, <3>3, <3>4
  <2>8. CASE EndPush(l)
    <3>1. snapshot \ results[l] = snapshot
      BY <2>8 DEF EndPush
    <3>2. QED
      BY <2>8, <3>1 DEF EndPush
  <2>9. CASE Unlock(l)
    BY <2>9 DEF Unlock
  <2>10. QED
    BY <1>1, <2>1, <2>2, <2>3, <2>4, <2>5, <2>6, <2>7, <2>8, <2>9 DEF Load
<1>2. ASSUME NEW r \in Readers, NEW route \in Routes, NEW u \in Users,
             NEW m \in Methods, NEW s \in BOOLEAN, Ask(r, route, u, m, s)
      PROVE  ListInv'
  BY <1>2 DEF Ask
<1>3. ASSUME NEW r \in Readers, Verify(r) PROVE ListInv'
  BY <1>3 DEF Verify, MapAction, Search
<1>4. CASE Die
  BY <1>4 DEF Die
<1>5. CASE UNCHANGED vars
  BY <1>5 DEF vars
<1> HIDE DEF IInv, TypeOK, MutexInv, ListInv, Ended, Holding
<1>6. QED
  BY <1>1, <1>2, <1>3, <1>4, <1>5 DEF Next

\* The inductive invariant holds in every reachable state.
THEOREM Inductive == Spec => []IInv
<1>1. IInv /\ [Next]_vars => IInv'
  BY NextTypeOK, NextMutexInv, NextMapInv, NextListInv DEF IInv
<1>2. QED
  BY InitIInv, <1>1, PTL DEF Spec

\* Loads do not mix: between two loads the list is what the last one made of
\* the rows it read.
THEOREM LoadsDoNotMix == Spec => []ListMatchesLoad
<1>1. IInv => ListMatchesLoad
  BY DEF IInv, MapInv, ListInv, Ended, ListMatchesLoad
<1>2. QED
  BY Inductive, <1>1, PTL

-------------------------------------------------------------------------------
(* Verifications that no load overlaps.                                     *)

\* A reader that no load has overlapped so far: no load is under way, and it
\* maps its method as the complete map does.
ReaderInv ==
    \A r \in Readers : rpc[r] \in {"map", "search"} =>
       /\ asked[r] \in Question
       /\ r \notin overlapped => mutex = Nobody
       /\ r \notin overlapped /\ rpc[r] = "search" /\ outcome # "none"
             => mapped[r] = ActionType(asked[r].method)

\* While the mutex is free no loader is inside, so no reader races.
LEMMA NoRace == MutexInv /\ mutex = Nobody => ~MapRace /\ ~ListRace
BY ConstantsAssumption DEF MutexInv, Holding, MapRace, ListRace, Verbs

\* Every step keeps it.
LEMMA NextReaderInv == IInv /\ ReaderInv /\ [Next]_vars => ReaderInv'
<1> SUFFICES ASSUME IInv, ReaderInv, [Next]_vars PROVE ReaderInv'
  OBVIOUS
<1> USE ConstantsAssumption DEF ReaderInv, loading, reading
<1>1. ASSUME NEW l \in Loaders, BeginLoad(l) \/ Lock(l) \/ Load(l) PROVE ReaderInv'
  <2>1. CASE BeginLoad(l)
    BY <2>1 DEF BeginLoad
  <2>2. CASE Lock(l)
    BY <2>2 DEF Lock, Verifying
  <2>3. CASE Load(l)
    <3>1. mutex = l
      BY <2>3 DEF IInv, MutexInv, Holding, Load, ClearMap, InsertVerb, ClearList, Query,
                  PushRow, EndPush, Unlock, Verbs
    <3>2. \A r \in Readers : rpc[r] \in {"map", "search"} => r \in overlapped
      BY <3>1
    <3>3. UNCHANGED <<rpc, asked, mapped, overlapped>>
      BY <2>3 DEF Load, ClearMap, InsertVerb, ClearList, Query, PushRow, EndPush, Unlock
    <3>4. QED
      BY <3>2, <3>3
  <2>4. QED
    BY <1>1, <2>1, <2>2, <2>3
<1>2. ASSUME NEW r \in Readers, NEW route \in Routes, NEW u \in Users,
             NEW m \in Methods, NEW s \in BOOLEAN, Ask(r, route, u, m, s)
      PROVE  ReaderInv'
  <2>1. [route |-> route, user |-> u, method |-> IdentifyMethod(m), strict |-> s] \in Question
    BY MethodType DEF Question
  <2>2. rpc'[r] = "map" /\ asked'[r] \in Question /\ (r \notin overlapped' => mutex = Nobody)
    BY <1>2, <2>1 DEF Ask, RGoto, IInv, TypeOK
  <2>3. \A q \in Readers \ {r} :
           /\ rpc'[q] = rpc[q] /\ asked'[q] = asked[q]
           /\ q \in overlapped' <=> q \in overlapped
    BY <1>2 DEF Ask, RGoto, IInv, TypeOK
  <2>4. UNCHANGED <<mutex, outcome, mapped>>
    BY <1>2 DEF Ask
  <2>5. QED
    BY <2>2, <2>3, <2>4
<1>3. ASSUME NEW r \in Readers, Verify(r) PROVE ReaderInv'
  <2>1. CASE MapAction(r)
    <3>1. rpc[r] = "map" /\ UNCHANGED <<asked, mutex, outcome, overlapped, actionMap>>
      BY <2>1 DEF MapAction
    <3>2. \A q \in Readers \ {r} : rpc'[q] = rpc[q] /\ mapped'[q] = mapped[q]
      BY <2>1 DEF MapAction, RGoto, IInv, TypeOK
    <3>3. ASSUME r \notin overlapped, outcome # "none"
          PROVE  mapped'[r] = ActionType(asked[r].method)
      <4>1. mutex = Nobody /\ ~MapRace
        BY <3>1, <3>3, NoRace DEF IInv
      <4>2. actionMap = Verbs
        BY <3>3, <4>1 DEF IInv, MapInv
      <4>3. mapped'[r] = IF asked[r].method \in Verbs THEN ActionType(asked[r].method)
                         ELSE "kRead"
        BY <2>1, <4>1, <4>2 DEF MapAction, IInv, TypeOK
      <4>4. asked[r].method \notin Verbs => ActionType(asked[r].method) = "kRead"
        BY DEF ActionType, Verbs
      <4>5. QED
        BY <4>3, <4>4
    <3>4. QED
      BY <3>1, <3>2, <3>3
  <2>2. CASE Search(r)
    <3>1. rpc'[r] \in {"granted", "denied"}
      BY <2>2 DEF Search, Return, IInv, TypeOK
    <3>2. \A q \in Readers \ {r} :
             rpc'[q] = rpc[q] /\ asked'[q] = asked[q] /\ mapped'[q] = mapped[q]
      BY <2>2 DEF Search, Return, IInv, TypeOK
    <3>3. UNCHANGED <<mutex, outcome, overlapped>>
      BY <2>2 DEF Search
    <3>4. QED
      BY <3>1, <3>2, <3>3
  <2>3. QED
    BY <1>3, <2>1, <2>2 DEF Verify
<1>4. CASE Die
  BY <1>4 DEF Die
<1>5. CASE UNCHANGED vars
  BY <1>5 DEF vars
<1>6. QED
  BY <1>1, <1>2, <1>3, <1>4, <1>5 DEF Next

\* What QuietVerdict says of one step.
Quiet ==
    \A r \in Readers :
       /\ Decides(r) /\ asked[r].strict
       /\ r \notin overlapped /\ outcome \in {"ok", "failed"}
       => (rpc'[r] = "granted") <=>
             (outcome = "ok" /\ Wanted(r) \in PermissionsOf(snapshot))

\* A search that no load has overlapped answers by the last load.
LEMMA QuietStep == IInv /\ ReaderInv /\ [Next]_vars => Quiet
<1> SUFFICES ASSUME IInv, ReaderInv, [Next]_vars, NEW r \in Readers, Decides(r),
                    asked[r].strict, r \notin overlapped, outcome \in {"ok", "failed"}
             PROVE  (rpc'[r] = "granted") <=>
                       (outcome = "ok" /\ Wanted(r) \in PermissionsOf(snapshot))
  BY DEF Quiet
<1>1. Search(r)
  <2> USE DEF Decides, IInv, TypeOK, loading, reading
  <2>1. ASSUME NEW l \in Loaders, BeginLoad(l) \/ Lock(l) \/ Load(l) PROVE FALSE
    BY <2>1 DEF BeginLoad, Lock, Load, ClearMap, InsertVerb, ClearList, Query, PushRow,
                EndPush, Unlock
  <2>2. ASSUME NEW q \in Readers, NEW route \in Routes, NEW u \in Users,
               NEW m \in Methods, NEW s \in BOOLEAN, Ask(q, route, u, m, s)
        PROVE  FALSE
    BY <2>2 DEF Ask, RGoto
  <2>3. ASSUME NEW q \in Readers, MapAction(q) PROVE FALSE
    BY <2>3 DEF MapAction, RGoto
  <2>4. ASSUME NEW q \in Readers, Search(q) PROVE q = r
    BY <2>4 DEF Search, Return
  <2>5. CASE Die
    BY <2>5 DEF Die
  <2>6. CASE UNCHANGED vars
    BY <2>6 DEF vars
  <2>7. QED
    BY <2>1, <2>2, <2>3, <2>4, <2>5, <2>6 DEF Next, Verify
<1>2. mutex = Nobody /\ ~ListRace
  BY NoRace DEF ReaderInv, Decides, IInv
<1>3. mapped[r] = ActionType(asked[r].method)
  BY DEF ReaderInv, Decides
<1>4. rpc'[r] = "granted" <=> Found(r)
  BY <1>1, <1>2 DEF Search, Return, IInv, TypeOK
<1>5. Found(r) <=> Wanted(r) \in permissions
  BY <1>3 DEF Found, Wanted
<1>6. /\ outcome = "ok" => permissions = PermissionsOf(snapshot)
      /\ outcome = "failed" => permissions = {}
  BY <1>2 DEF IInv, ListInv, Ended
<1>7. QED
  BY <1>4, <1>5, <1>6

\* A verification that no load overlaps is decided by the last load alone.
THEOREM QuietVerdicts == Spec => QuietVerdict
<1>1. Init => ReaderInv
  BY DEF Init, ReaderInv
<1>2. IInv /\ [Next]_vars => IInv'
  BY NextTypeOK, NextMutexInv, NextMapInv, NextListInv DEF IInv
<1>3. QED
  BY InitIInv, <1>1, <1>2, NextReaderInv, QuietStep, PTL DEF Spec, Quiet, QuietVerdict

-------------------------------------------------------------------------------
(* How far a load is from the unlock                                       *)

\* The steps the holder of the mutex has before it at most: one per access, and
\* one per row of the table, or of what it has read and not pushed yet.
StepsLeft(l) ==
    CASE lpc[l] = "clearMap" -> Cardinality(Rows) + 9
      [] lpc[l] = "POST" -> Cardinality(Rows) + 8
      [] lpc[l] = "GET" -> Cardinality(Rows) + 7
      [] lpc[l] = "PUT" -> Cardinality(Rows) + 6
      [] lpc[l] = "DEL" -> Cardinality(Rows) + 5
      [] lpc[l] = "clearList" -> Cardinality(Rows) + 4
      [] lpc[l] = "query" -> Cardinality(Rows) + 3
      [] lpc[l] = "push" -> Cardinality(results[l]) + 2
      [] lpc[l] = "unlock" -> 1
      [] OTHER -> 0

\* Only the holder loads.  A step of it leaves fewer, or is the unlock; a step
\* of another thread leaves as many, or is the end of the process.
RunsDown(l) ==
    /\ Load(l) => mutex = l
    /\ mutex = l /\ Load(l) =>
          /\ StepsLeft(l)' < StepsLeft(l)
          /\ mutex' = IF StepsLeft(l)' = 0 THEN Nobody ELSE l
    /\ mutex = l /\ ~Load(l) =>
          (mutex' = l /\ StepsLeft(l)' = StepsLeft(l)) \/ mutex' = Nobody

\* The sets of rows have sizes, which get smaller by one with each row.
LEMMA Sizes ==
    ASSUME IInv, IsFiniteSet(Rows), NEW rows \in SUBSET Rows
    PROVE  /\ Cardinality(Rows) \in Nat /\ Cardinality(rows) \in Nat
           /\ Cardinality(rows) <= Cardinality(Rows)
           /\ \A row \in rows : Cardinality(rows \ {row}) < Cardinality(rows)
<1>1. IsFiniteSet(rows) /\ Cardinality(rows) <= Cardinality(Rows)
  BY FS_Subset
<1>2. \A row \in rows : Cardinality(rows \ {row}) = Cardinality(rows) - 1
  BY <1>1, FS_RemoveElement
<1>3. Cardinality(Rows) \in Nat /\ Cardinality(rows) \in Nat
  BY <1>1, FS_CardinalityType
<1> QED BY <1>1, <1>2, <1>3

LEMMA StepsAreNumbers ==
    ASSUME IInv, IsFiniteSet(Rows), NEW l \in Loaders
    PROVE  /\ StepsLeft(l) \in 0 .. Cardinality(Rows) + 9
           /\ StepsLeft(l) = 0 <=> mutex # l
<1>1. results[l] \in SUBSET Rows /\ (Holding(l) <=> mutex = l)
  BY DEF IInv, TypeOK, MutexInv
<1> DEFINE n == Cardinality(Rows)
           m == Cardinality(results[l])
<1>2. n \in Nat /\ m \in Nat /\ m <= n
  BY <1>1, Sizes
<1>3. lpc[l] \in {"idle", "lock", "clearMap", "clearList", "query", "push", "unlock"} \cup Verbs
  BY DEF IInv, TypeOK
<1>4. CASE lpc[l] \in {"idle", "lock", "unlock"}
  <2>1. StepsLeft(l) = IF lpc[l] = "unlock" THEN 1 ELSE 0
    BY <1>4 DEF StepsLeft
  <2> QED BY <1>1, <1>2, <1>4, <2>1 DEF Holding
<1>5. CASE lpc[l] = "push"
  <2>1. StepsLeft(l) = m + 2
    BY <1>5 DEF StepsLeft
  <2> HIDE DEF n, m
  <2>2. StepsLeft(l) \in 0 .. n + 9 /\ StepsLeft(l) # 0
    BY <1>2, <2>1
  <2> QED BY <1>1, <1>5, <2>2 DEF Holding, n
<1>6. CASE lpc[l] \in {"clearMap", "clearList", "query"} \cup Verbs
  <2>1. StepsLeft(l) \in {n + 3, n + 4, n + 5, n + 6, n + 7, n + 8, n + 9}
    BY <1>6 DEF StepsLeft, Verbs
  <2>2. Holding(l)
    BY <1>6 DEF Holding, Verbs
  <2> HIDE DEF n, m
  <2>3. StepsLeft(l) \in 0 .. n + 9 /\ StepsLeft(l) # 0
    BY <1>2, <2>1
  <2> QED BY <1>1, <2>2, <2>3 DEF n
<1> QED BY <1>3, <1>4, <1>5, <1>6

\* A step of the holder leaves fewer.
LEMMA StepsGetFewer ==
    ASSUME IInv, IsFiniteSet(Rows), NEW l \in Loaders, Load(l)
    PROVE  /\ mutex = l
           /\ StepsLeft(l)' < StepsLeft(l)
           /\ \A k \in Loaders \ {l} : UNCHANGED <<lpc[k], results[k]>>
<1> USE DEF LGoto
<1>1. /\ lpc \in [Loaders -> {"idle", "lock", "clearMap", "clearList", "query",
                              "push", "unlock"} \cup Verbs]
      /\ results \in [Loaders -> SUBSET Rows]
  BY DEF IInv, TypeOK
<1> DEFINE n == Cardinality(Rows)
           m == Cardinality(results[l])
           later == Cardinality(results'[l])
<1>2. Holding(l)
  BY DEF Load, ClearMap, InsertVerb, ClearList, Query, PushRow, EndPush, Unlock, Holding,
         Verbs
<1>3. mutex = l
  BY <1>2 DEF IInv, MutexInv
<1>4. n \in Nat /\ m \in Nat
  BY <1>1, Sizes
<1>5. CASE ClearMap(l)
  BY <1>1, <1>3, <1>4, <1>5 DEF ClearMap, StepsLeft
<1>6. CASE InsertVerb(l)
  <2>1. \/ lpc[l] = "POST" /\ lpc'[l] = "GET"
        \/ lpc[l] = "GET" /\ lpc'[l] = "PUT"
        \/ lpc[l] = "PUT" /\ lpc'[l] = "DEL"
        \/ lpc[l] = "DEL" /\ lpc'[l] = "clearList"
    BY <1>1, <1>6 DEF InsertVerb, Verbs, Following
  <2>2. StepsLeft(l)' < StepsLeft(l)
    BY <1>4, <2>1 DEF StepsLeft
  <2> QED BY <1>1, <1>3, <1>6, <2>2 DEF InsertVerb
<1>7. CASE ClearList(l)
  BY <1>1, <1>3, <1>4, <1>7 DEF ClearList, StepsLeft
<1>8. CASE Query(l)
  <2>1. results'[l] \in SUBSET Rows /\ lpc[l] = "query" /\ lpc'[l] \in {"push", "unlock"}
    BY <1>1, <1>8 DEF Query
  <2>2. later \in Nat /\ later <= n
    BY <2>1, Sizes
  <2>3. StepsLeft(l) = n + 3 /\ StepsLeft(l)' \in {later + 2, 1}
    BY <2>1 DEF StepsLeft
  <2>4. \A k \in Loaders \ {l} : UNCHANGED <<lpc[k], results[k]>>
    BY <1>1, <1>8 DEF Query
  <2> HIDE DEF n, later
  <2> QED BY <1>3, <1>4, <2>2, <2>3, <2>4
<1>9. CASE PushRow(l)
  <2>1. \E row \in results[l] :
           \/ lpc'[l] = "unlock"
           \/ lpc'[l] = "push" /\ results'[l] = results[l] \ {row}
    BY <1>1, <1>9 DEF PushRow
  <2>2. lpc'[l] = "unlock" \/ (lpc'[l] = "push" /\ later < m /\ later \in Nat)
    <3>1. \A row \in results[l] : results[l] \ {row} \in SUBSET Rows
      BY <1>1
    <3> QED BY <1>1, <2>1, <3>1, Sizes
  <2>3. StepsLeft(l) = m + 2 /\ StepsLeft(l)' = IF lpc'[l] = "unlock" THEN 1 ELSE later + 2
    BY <1>9, <2>2 DEF PushRow, StepsLeft
  <2>4. \A k \in Loaders \ {l} : UNCHANGED <<lpc[k], results[k]>>
    BY <1>1, <1>9 DEF PushRow
  <2> HIDE DEF m, later
  <2> QED BY <1>3, <1>4, <2>2, <2>3, <2>4
<1>10. CASE EndPush(l)
  BY <1>1, <1>3, <1>4, <1>10 DEF EndPush, StepsLeft
<1>11. CASE Unlock(l)
  BY <1>1, <1>3, <1>4, <1>11 DEF Unlock, StepsLeft
<1> QED BY <1>5, <1>6, <1>7, <1>8, <1>9, <1>10, <1>11 DEF Load

\* What MutexIsReleased rests on besides fairness: of a table of n rows, a load
\* that has the mutex unlocks it after at most n + 9 steps of its own, whether
\* its query fails or a row throws, and nothing another thread does puts that
\* off but the end of the process.
THEOREM LoadsRunDown ==
    ASSUME IsFiniteSet(Rows)
    PROVE  Spec => /\ [](\A l \in Loaders : StepsLeft(l) \in 0 .. Cardinality(Rows) + 9)
                   /\ [][\A l \in Loaders : RunsDown(l)]_vars
<1> DEFINE Bounded == \A l \in Loaders : StepsLeft(l) \in 0 .. Cardinality(Rows) + 9
           HolderHasSteps == \A l \in Loaders : StepsLeft(l) = 0 <=> mutex # l
<1>1. IInv => Bounded /\ HolderHasSteps
  BY StepsAreNumbers
<1>2. ASSUME IInv, HolderHasSteps', Next, NEW l \in Loaders PROVE RunsDown(l)
  <2>1. CASE Load(l)
    <3>1. mutex = l /\ StepsLeft(l)' < StepsLeft(l)
      BY <1>2, <2>1, StepsGetFewer
    <3>2. StepsLeft(l)' = 0 <=> mutex' # l
      BY <1>2
    <3>3. mutex' = l \/ mutex' = Nobody
      BY <2>1, <3>1 DEF Load, ClearMap, InsertVerb, ClearList, Query, PushRow, EndPush, Unlock
    <3>4. Nobody # l
      BY ConstantsAssumption
    <3> QED BY <2>1, <3>1, <3>2, <3>3, <3>4 DEF RunsDown
  <2>2. CASE ~Load(l)
    <3>1. ASSUME mutex = l
          PROVE  mutex' = Nobody \/ (mutex' = l /\ UNCHANGED <<lpc[l], results[l]>>)
      <4> USE DEF IInv, TypeOK, loading, LGoto, Holding, MutexInv
      <4>1. ASSUME NEW k \in Loaders, BeginLoad(k) PROVE UNCHANGED <<mutex, lpc[l], results[l]>>
        BY <1>2, <3>1, <4>1 DEF BeginLoad
      <4>2. ASSUME NEW k \in Loaders, Lock(k) PROVE FALSE
        BY <1>2, <3>1, <4>2, ConstantsAssumption DEF Lock
      <4>3. ASSUME NEW k \in Loaders, Load(k) PROVE FALSE
        BY <1>2, <2>2, <3>1, <4>3, StepsGetFewer
      <4>4. ASSUME NEW r \in Readers, Verify(r) PROVE UNCHANGED <<mutex, lpc, results>>
        BY <4>4 DEF Verify, MapAction, Search
      <4>5. ASSUME NEW r \in Readers, NEW route \in Routes, NEW u \in Users, NEW m \in Methods,
                   NEW s \in BOOLEAN, Ask(r, route, u, m, s)
            PROVE  UNCHANGED <<mutex, lpc, results>>
        BY <4>5 DEF Ask
      <4>6. CASE Die
        BY <4>6 DEF Die
      <4> QED BY <1>2, <3>1, <4>1, <4>2, <4>3, <4>4, <4>5, <4>6 DEF Next
    <3> QED BY <2>2, <3>1 DEF RunsDown, StepsLeft
  <2> QED BY <2>1, <2>2
<1>3. IInv /\ HolderHasSteps' /\ [Next]_vars => [\A l \in Loaders : RunsDown(l)]_vars
  BY <1>2
<1> QED BY <1>1, <1>3, Inductive, PTL DEF Spec

===============================================================================
