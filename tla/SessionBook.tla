----------------------------- MODULE SessionBook -----------------------------
(***************************************************************************)
(* What the session store promises, without threads, memory or table: an   *)
(* identifier is issued at most once, to one user; it may be forgotten     *)
(* (crash, failed save) and recalled (restart); once it is closed it is    *)
(* never live again.  The book gives an identifier up when it is drawn     *)
(* twice or its logout fails to see it: nothing is promised of it then.    *)
(***************************************************************************)
CONSTANTS
    Users,       \* the accounts
    SessionIds,  \* the identifiers a session may have
    NoUser       \* "no session under this identifier"

VARIABLES
    holder,  \* [SessionIds -> Users \cup {NoUser}]: whom an identifier was issued to
    live,    \* the identifiers a request may present with success
    closed,  \* the identifiers whose logout is complete
    void     \* the identifiers the book has given up

bookVars == <<holder, live, closed, void>>

Issued == {id \in SessionIds : holder[id] # NoUser}

BookInit ==
    /\ holder = [id \in SessionIds |-> NoUser]
    /\ live = {}
    /\ closed = {}
    /\ void = {}

\* Issuing may lose identifiers (the update of the store is not protected),
\* the new one included, and never brings an old one back.
Issue(id, u) ==
    /\ id \notin void /\ holder[id] = NoUser
    /\ holder' = [holder EXCEPT ![id] = u]
    /\ live' \in SUBSET (live \cup {id})
    /\ UNCHANGED <<closed, void>>

Forget ==
    /\ live' \in SUBSET live
    /\ UNCHANGED <<holder, closed, void>>

Recall ==
    /\ \E S \in SUBSET (Issued \ closed) : live' = live \cup S
    /\ UNCHANGED <<holder, closed, void>>

Close(id) ==
    /\ id \in Issued \ live
    /\ closed' = closed \cup {id}
    /\ UNCHANGED <<holder, live, void>>

GiveUp(id) ==
    /\ holder' = [holder EXCEPT ![id] = NoUser]
    /\ live' = live \ {id}
    /\ closed' = closed \ {id}
    /\ void' = void \cup {id}

BookNext ==
    \/ \E id \in SessionIds, u \in Users : Issue(id, u)
    \/ Forget
    \/ Recall
    \/ \E id \in SessionIds : Close(id) \/ GiveUp(id)

BookSpec == BookInit /\ [][BookNext]_bookVars
==============================================================================
