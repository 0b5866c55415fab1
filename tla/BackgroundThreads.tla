---------------------------- MODULE BackgroundThreads ----------------------------
(***************************************************************************)
(* The two kinds of actions that run in threads of their own, on one       *)
(* table: handlers insert rows with ExecuteAsyncQuery_, and a cached action *)
(* selects them.                                                           *)
(***************************************************************************)
EXTENDS AsyncActions, CacheActions, FiniteSets

allVars == <<vars, cache>>

BackgroundInit == Init /\ CacheInit

Inserted == Cardinality({h \in Handlers : executed'[h] > executed[h]})

\* A step of an asynchronous action: its statement inserts a row.
Asynchronous(step) ==
    /\ alive /\ step
    /\ table' = table + Inserted
    /\ UNCHANGED <<alive, state, cached, answering>>

\* Requests come while the server runs.
Request(h) == Asynchronous(Construct(h)) /\ state /\ updater # "new"

Handling(h) == Asynchronous(Handle(h))
InBackground(h) == Asynchronous(Background(h))
Updating == (StartUpdates \/ UpdateStep) /\ UNCHANGED vars
Answering(r) == (Copy(r) \/ Answer(r)) /\ UNCHANGED vars

BackgroundNext ==
    \/ \E h \in Handlers : Request(h) \/ Handling(h) \/ InBackground(h)
    \/ Updating
    \/ \E r \in Readers : (BeginAnswer(r) /\ UNCHANGED vars) \/ Answering(r)
    \/ EndServer /\ UNCHANGED vars

\* Every thread runs on, sleeps end, statements return or throw; requests and
\* the end of the server may come or not.
BackgroundSpec ==
    /\ BackgroundInit /\ [][BackgroundNext]_allVars
    /\ \A h \in Handlers : WF_allVars(Handling(h)) /\ WF_allVars(InBackground(h))
    /\ WF_allVars(Updating)
    /\ \A r \in Readers : WF_allVars(Answering(r))

-------------------------------------------------------------------------------
\* A row an asynchronous action has inserted comes to be in the cache, unless
\* an update has failed, the server has ended or the process is gone.
FreshUnlessFailed ==
    \A n \in 1 .. MaxRequests :
       table = n ~> json.rows >= n \/ failed \/ ~state \/ ~alive

\* A request ends unless its thread could not be made, its statement failed,
\* the build reads the flag only once or the process is gone; and a server that
\* ends does not wait for its updates for ever.
ThreadsEnd ==
    /\ \A h \in Handlers :
          hpc[h] = "destroy" ~> hpc[h] \in {"idle", "hung"} \/ error[h] \/ ~alive
    /\ ~state ~> updater = "ended" \/ ~alive

===============================================================================
