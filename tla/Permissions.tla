----------------------------- MODULE Permissions -----------------------------
(***************************************************************************)
(* PermissionsManager and SecurityVerification: threads that (re)load the  *)
(* permissions from the database under PermissionsManager::mutex_, and     *)
(* threads that verify requests against action_type_map_ and permissions_  *)
(* without it.  A verification that overlaps a write of a loader is a data *)
(* race: it may see what either side of the write leaves, miss the entry   *)
(* it looks for, or kill the process.                                      *)
(***************************************************************************)
EXTENDS Integers

CONSTANTS
    Loaders,   \* threads that call LoadPermissions_
    Readers,   \* threads that call VerifyRoutesPermissions_
    Users,     \* identifiers of users
    Routes,    \* routes of requests and endpoints of the permissions table
    Rows,      \* rows the SELECT may return: [route, user, action]
    NullRows,  \* those of them that have a null column
    Methods,   \* HTTP methods clients send
    Nobody,    \* the mutex is free
    Nothing    \* a reader verifies nothing

\* The keys of action_type_map_.
Verbs == {"POST", "GET", "PUT", "DEL"}

\* The keys of map_string_methods_.
KnownMethods == {"GET", "POST", "PUT", "DEL", "DELETE", "OPTIONS", "HEAD", "PATCH"}

ASSUME ConstantsAssumption ==
    /\ Rows \subseteq [route : Routes, user : Users, action : STRING]
    /\ NullRows \subseteq Rows
    /\ Methods \subseteq STRING
    /\ Nobody \notin Loaders
    /\ Nothing \notin [route : Routes, user : Users, method : KnownMethods,
                      strict : BOOLEAN]

VARIABLES
    actionMap,    \* the keys present in action_type_map_
    permissions,  \* permissions_
    mutex,        \* mutex_: its owner, or Nobody
    lpc,          \* where each loader is in LoadPermissions_
    results,      \* the rows a loader has read and not pushed yet
    rpc,          \* where each reader is in VerifyRoutesPermissions_
    asked,        \* what each reader verifies
    mapped,       \* action_mapped in FindPermission_
    \* history
    outcome,      \* how the last load ended: none, ok, failed, thrown
    snapshot,     \* the rows the last load read
    overlapped    \* readers during whose verification some loader held the mutex

loading == <<lpc, results, mutex, outcome, snapshot>>
reading == <<rpc, asked, mapped>>
vars == <<actionMap, permissions, mutex, lpc, results, rpc, asked, mapped,
          outcome, snapshot, overlapped>>

-------------------------------------------------------------------------------
ActionTypes == {"kCreate", "kRead", "kUpdate", "kDelete"}
Permission == [route : Routes, user : Users, type : ActionTypes]
Question == [route : Routes, user : Users, method : KnownMethods, strict : BOOLEAN]

\* Mutant: a verb the map does not know has no action.
ActionTypeOrNone(verb) ==
    CASE verb = "POST" -> "kCreate"
      [] verb = "GET" -> "kRead"
      [] verb = "PUT" -> "kUpdate"
      [] verb = "DEL" -> "kDelete"
      [] OTHER -> "kNone"

\* FillActionTypeMap_, and what a verb that is not in the map is taken for.
ActionType(verb) ==
    CASE verb = "POST" -> "kCreate"
      [] verb = "PUT" -> "kUpdate"
      [] verb = "DEL" -> "kDelete"
      [] OTHER -> "kRead"

\* HTTP::Methods::IdentifyMethod_: a method it does not know is GET.
IdentifyMethod(method) == IF method \in KnownMethods THEN method ELSE "GET"

PermissionOf(row) ==
    [route |-> row.route, user |-> row.user, type |-> ActionType(row.action)]
PermissionsOf(rows) == {PermissionOf(row) : row \in rows}

Init ==
    /\ actionMap = {}
    /\ permissions = {}
    /\ mutex = Nobody
    /\ lpc = [l \in Loaders |-> "idle"]
    /\ results = [l \in Loaders |-> {}]
    /\ rpc = [r \in Readers |-> "idle"]
    /\ asked = [r \in Readers |-> Nothing]
    /\ mapped = [r \in Readers |-> "kRead"]
    /\ outcome = "none"
    /\ snapshot = {}
    /\ overlapped = {}

-------------------------------------------------------------------------------
(* LoadPermissions_                                                        *)

LGoto(l, phase) == lpc' = [lpc EXCEPT ![l] = phase]

\* Readers that are verifying now.
Verifying == {r \in Readers : rpc[r] \in {"map", "search"}}

BeginLoad(l) ==
    /\ lpc[l] = "idle"
    /\ LGoto(l, "lock")
    /\ UNCHANGED <<actionMap, permissions, mutex, results, reading,
                   outcome, snapshot, overlapped>>

\* Mutant: the loader does not wait for the mutex.
LockAnyway(l) ==
    /\ lpc[l] = "lock"
    /\ mutex' = l
    /\ LGoto(l, "clearMap")
    /\ overlapped' = overlapped \cup Verifying
    /\ UNCHANGED <<actionMap, permissions, results, reading, outcome, snapshot>>

Lock(l) ==
    /\ lpc[l] = "lock"
    /\ mutex = Nobody
    /\ mutex' = l
    /\ LGoto(l, "clearMap")
    /\ overlapped' = overlapped \cup Verifying
    /\ UNCHANGED <<actionMap, permissions, results, reading, outcome, snapshot>>

ClearMap(l) ==
    /\ lpc[l] = "clearMap"
    /\ actionMap' = {}
    /\ LGoto(l, "POST")
    /\ UNCHANGED <<permissions, mutex, results, reading, outcome, snapshot, overlapped>>

\* The phase after the insertion of a verb: the next verb, then clear().
Following == [POST |-> "GET", GET |-> "PUT", PUT |-> "DEL", DEL |-> "clearList"]

InsertVerb(l) ==
    /\ lpc[l] \in Verbs
    /\ actionMap' = actionMap \cup {lpc[l]}
    /\ LGoto(l, Following[lpc[l]])
    /\ UNCHANGED <<permissions, mutex, results, reading, outcome, snapshot, overlapped>>

ClearList(l) ==
    /\ lpc[l] = "clearList"
    /\ permissions' = {}
    /\ LGoto(l, "query")
    /\ UNCHANGED <<actionMap, mutex, results, reading, outcome, snapshot, overlapped>>

\* action.Work_(): the SELECT returns the rows the table has at that moment
\* (administrators edit it at any time) or fails.
Query(l) ==
    /\ lpc[l] = "query"
    /\ \/ /\ \E table \in SUBSET Rows :
                /\ results' = [results EXCEPT ![l] = table]
                /\ snapshot' = table
          /\ outcome' = "ok"
          /\ LGoto(l, "push")
       \/ /\ outcome' = "failed"
          /\ LGoto(l, "unlock")
          /\ UNCHANGED <<results, snapshot>>
    /\ UNCHANGED <<actionMap, permissions, mutex, reading, overlapped>>

\* One turn of the loop over the results; a null column throws out of it.
PushRow(l) ==
    /\ lpc[l] = "push"
    /\ \E row \in results[l] :
         \/ /\ row \in NullRows
            /\ outcome' = "thrown"
            /\ results' = [results EXCEPT ![l] = {}]
            /\ LGoto(l, "unlock")
            /\ UNCHANGED permissions
         \/ /\ row \notin NullRows
            /\ permissions' = permissions \cup {PermissionOf(row)}
            /\ results' = [results EXCEPT ![l] = @ \ {row}]
            /\ UNCHANGED <<outcome, lpc>>
    /\ UNCHANGED <<actionMap, mutex, reading, snapshot, overlapped>>

EndPush(l) ==
    /\ lpc[l] = "push"
    /\ results[l] = {}
    /\ LGoto(l, "unlock")
    /\ UNCHANGED <<actionMap, permissions, mutex, results, reading,
                   outcome, snapshot, overlapped>>

\* Mutant: a load that failed returns with the mutex locked.
UnlockUnlessFailed(l) ==
    /\ lpc[l] = "unlock"
    /\ mutex' = IF outcome = "failed" THEN mutex ELSE Nobody
    /\ LGoto(l, "idle")
    /\ UNCHANGED <<actionMap, permissions, results, reading, outcome, snapshot, overlapped>>

\* Every way out of LoadPermissions_ unlocks once: after the loop, when Work_
\* failed, in the catch block.
Unlock(l) ==
    /\ lpc[l] = "unlock"
    /\ mutex' = Nobody
    /\ LGoto(l, "idle")
    /\ UNCHANGED <<actionMap, permissions, results, reading, outcome, snapshot, overlapped>>

-------------------------------------------------------------------------------
(* VerifyRoutesPermissions_                                                *)

RGoto(r, phase) == rpc' = [rpc EXCEPT ![r] = phase]

\* VerifyRoutesPermissions_ returns TRUE (granted) or FALSE (denied).
Return(r, verdict) ==
    /\ rpc' = [rpc EXCEPT ![r] = verdict]
    /\ asked' = [asked EXCEPT ![r] = Nothing]
    /\ mapped' = [mapped EXCEPT ![r] = "kRead"]

\* A request of an authenticated user reaches VerifyPermissions_; a handler is
\* strict (kDisableAll, the default) or not (kEnableAll).
Ask(r, route, u, method, strict) ==
    /\ rpc[r] \in {"idle", "granted", "denied"}
    /\ asked' = [asked EXCEPT ![r] = [route |-> route, user |-> u,
                                      method |-> IdentifyMethod(method),
                                      strict |-> strict]]
    /\ RGoto(r, "map")
    /\ overlapped' = IF mutex = Nobody THEN overlapped \ {r} ELSE overlapped \cup {r}
    /\ UNCHANGED <<actionMap, permissions, mapped, loading>>

\* A loader is writing what the reader is about to read.
MapRace == \E l \in Loaders : lpc[l] \in Verbs \cup {"clearMap"}
ListRace == \E l \in Loaders : lpc[l] \in {"clearList", "push"}

\* action_type_map_.find(action_type), kRead when it is not there
MapAction(r) ==
    /\ rpc[r] = "map"
    /\ \/ mapped' = [mapped EXCEPT ![r] =
              IF asked[r].method \in actionMap THEN ActionType(asked[r].method) ELSE "kRead"]
       \/ MapRace /\ mapped' = [mapped EXCEPT ![r] = "kRead"]
    /\ RGoto(r, "search")
    /\ UNCHANGED <<actionMap, permissions, asked, loading, overlapped>>

Found(r) == [route |-> asked[r].route, user |-> asked[r].user, type |-> mapped[r]]
                \in permissions

\* Mutant: the search does not look at the action.
SearchAnyAction(r) ==
    /\ rpc[r] = "search"
    /\ IF \/ ~asked[r].strict
          \/ \E p \in permissions : p.route = asked[r].route /\ p.user = asked[r].user
       THEN Return(r, "granted") ELSE Return(r, "denied")
    /\ UNCHANGED <<actionMap, permissions, loading, overlapped>>

\* find_if over permissions_, then the switch over security_type_
Search(r) ==
    /\ rpc[r] = "search"
    /\ \/ (asked[r].strict => Found(r)) /\ Return(r, "granted")
       \/ asked[r].strict /\ (~Found(r) \/ ListRace) /\ Return(r, "denied")
    /\ UNCHANGED <<actionMap, permissions, loading, overlapped>>

-------------------------------------------------------------------------------
\* A racing access kills the process; it starts again with nothing loaded.
Die ==
    /\ \/ MapRace /\ \E r \in Readers : rpc[r] = "map"
       \/ ListRace /\ \E r \in Readers : rpc[r] = "search"
    /\ actionMap' = {}
    /\ permissions' = {}
    /\ mutex' = Nobody
    /\ lpc' = [l \in Loaders |-> "idle"]
    /\ results' = [l \in Loaders |-> {}]
    /\ rpc' = [r \in Readers |-> "idle"]
    /\ asked' = [r \in Readers |-> Nothing]
    /\ mapped' = [r \in Readers |-> "kRead"]
    /\ outcome' = "none"
    /\ snapshot' = {}
    /\ overlapped' = {}

Load(l) ==
    \/ ClearMap(l)
    \/ InsertVerb(l)
    \/ ClearList(l)
    \/ Query(l)
    \/ PushRow(l)
    \/ EndPush(l)
    \/ Unlock(l)

Verify(r) == MapAction(r) \/ Search(r)

Next ==
    \/ \E l \in Loaders : BeginLoad(l) \/ Lock(l) \/ Load(l)
    \/ \E r \in Readers, route \in Routes, u \in Users, m \in Methods, s \in BOOLEAN :
          Ask(r, route, u, m, s)
    \/ \E r \in Readers : Verify(r)
    \/ Die

\* A loader that holds the mutex runs on to the unlock.
Fairness == \A l \in Loaders : WF_vars(Load(l))

Spec == Init /\ [][Next]_vars /\ Fairness

-------------------------------------------------------------------------------
\* Types of the variables.
TypeOK ==
    /\ actionMap \in SUBSET Verbs
    /\ permissions \in SUBSET Permission
    /\ mutex \in Loaders \cup {Nobody}
    /\ lpc \in [Loaders -> {"idle", "lock", "clearMap", "clearList", "query",
                            "push", "unlock"} \cup Verbs]
    /\ results \in [Loaders -> SUBSET Rows]
    /\ rpc \in [Readers -> {"idle", "map", "search", "granted", "denied"}]
    /\ asked \in [Readers -> Question \cup {Nothing}]
    /\ mapped \in [Readers -> ActionTypes]
    /\ outcome \in {"none", "ok", "failed", "thrown"}
    /\ snapshot \in SUBSET Rows
    /\ overlapped \in SUBSET Readers

\* Loads do not mix.  Whenever no load holds the mutex, the list is what the
\* last one made of the rows it read: all of them if it ended, nothing if its
\* query failed, some of the rows without a null if it threw - never rows of
\* an earlier load - and the map of actions is complete.
ListMatchesLoad ==
    mutex = Nobody =>
        /\ outcome = "none" => permissions = {}
        /\ outcome = "ok" => permissions = PermissionsOf(snapshot)
        /\ outcome = "failed" => permissions = {}
        /\ outcome = "thrown" => permissions \subseteq PermissionsOf(snapshot \ NullRows)
        /\ outcome # "none" => actionMap = Verbs

Decides(r) == rpc[r] = "search" /\ rpc'[r] \in {"granted", "denied"}

Wanted(r) == [route |-> asked[r].route, user |-> asked[r].user,
              type |-> ActionType(asked[r].method)]

\* A verification no load overlapped decides by the permissions of the last
\* load alone: a strict handler lets a request through exactly if the user has
\* a row for the route and the action of the method, and refuses everyone
\* after a load that failed.
QuietVerdict ==
    [][\A r \in Readers :
          /\ Decides(r) /\ asked[r].strict
          /\ r \notin overlapped /\ outcome \in {"ok", "failed"}
          => (rpc'[r] = "granted") <=>
                (outcome = "ok" /\ Wanted(r) \in PermissionsOf(snapshot))]_vars

\* Whatever happens to a load, its mutex is unlocked.
MutexIsReleased ==
    \A l \in Loaders : mutex = l ~> mutex # l

\* What "Add DELETE HTTP Method together DEL" says: DELETE is the delete
\* method; a strict handler checks it as the delete action.
DeleteIsDelete ==
    [][\A r \in Readers :
          /\ Decides(r) /\ asked[r].strict /\ asked[r].method = "DELETE"
          /\ rpc'[r] = "granted"
          => mapped[r] = "kDelete"]_vars

===============================================================================
