------------------------------ MODULE CacheActions ------------------------------
(***************************************************************************)
(* A cached action (functions/cache_action.cpp, examples/cached_action.cpp) *)
(* runs its SELECT again and again in a thread of its own, and requests    *)
(* are answered with the json_result_ of the last time.  The loop holds    *)
(* mutex_; the requests lock a mutex on their own stack, which is no lock  *)
(* at all.  An exception that leaves the loop ends the process.            *)
(***************************************************************************)
EXTENDS Integers

CONSTANT Readers   \* threads of the server that answer from the cache

VARIABLES
    alive,     \* the process runs, and no undefined behaviour has been met
    state,     \* state_
    updater,   \* where WorkInBackground_ is; "new" before Work_, "absent" without a thread
    failed,    \* error_ of the cached action
    table,     \* how many rows have been inserted in the table it selects
    fetched,   \* the rows its statement has read
    json,      \* json_result_
    reader,    \* where a request is
    held       \* the object its handler serialises; json_result_ when it began (history)

cached == <<updater, failed, fetched, json>>
answering == <<reader, held>>
cache == <<alive, state, table, cached, answering>>

\* The object Action::Action makes: {}, before any rows.
Empty == -1
Nothing == [rows |-> Empty, complete |-> FALSE]

CacheInit ==
    /\ alive = TRUE /\ state = TRUE
    /\ updater = "new"
    /\ failed = FALSE
    /\ table = 0
    /\ fetched = Empty
    /\ json = Nothing
    /\ reader = [r \in Readers |-> "idle"]
    /\ held = [r \in Readers |-> Nothing]

\* std::terminate, or undefined behaviour: what follows it is not followed.
Terminate == alive' = FALSE /\ UNCHANGED <<state, table, cached, answering>>

\* CacheAction::Work_: the thread is made, or cannot be.
StartUpdates ==
    /\ alive /\ updater = "new"
    /\ \/ updater' = "top" /\ UNCHANGED failed
       \/ updater' = "absent" /\ failed' = TRUE
    /\ UNCHANGED <<alive, state, table, fetched, json, answering>>

-------------------------------------------------------------------------------
(* WorkInBackground_ *)

Update(from, to) == alive /\ updater = from /\ updater' = to

\* Mutant: json_result_ is cleared together with results_.
TurnClears ==
    /\ \E to \in {"query", "asleep", "ended"} : Update("top", to)
    /\ json' = Nothing
    /\ UNCHANGED <<alive, state, table, failed, fetched, answering>>

\* while(state_): results_ is cleared, and Work_ goes on unless error_ is set.
Turn ==
    /\ \/ state /\ ~failed /\ Update("top", "query")
       \/ state /\ failed /\ Update("top", "asleep")
       \/ ~state /\ Update("top", "ended")
    /\ UNCHANGED <<alive, state, table, failed, fetched, json, answering>>

\* Connection, statement, results and last insert id succeed, or error_ is set
\* and nothing resets it; close(), a condition's functor or the null pointer of
\* CreateJSONResult_ throw, and nothing catches it.
Query ==
    \/ /\ Update("query", "assign")
       /\ fetched' = table
       /\ UNCHANGED <<alive, state, table, failed, json, answering>>
    \/ /\ Update("query", "asleep")
       /\ failed' = TRUE
       /\ UNCHANGED <<alive, state, table, fetched, json, answering>>
    \/ alive /\ updater = "query" /\ Terminate

\* An access that overlaps another one takes effect as if alone, or is the end
\* of what can be said.
Racing(raced) == alive' \in {TRUE, ~raced}

\* Mutant: json_result_ is filled once.
AssignOnce ==
    /\ Update("assign", "status")
    /\ json' = IF json = Nothing THEN [rows |-> fetched, complete |-> FALSE] ELSE json
    /\ fetched' = Empty
    /\ UNCHANGED <<alive, state, table, failed, answering>>

\* json_result_ = CreateJSONResult_()
Assign ==
    /\ Update("assign", "status")
    /\ json' = [rows |-> fetched, complete |-> FALSE]
    /\ fetched' = Empty
    /\ Racing(\E r \in Readers : reader[r] = "copy")
    /\ UNCHANGED <<state, table, failed, answering>>

\* json_result_->set("status"), set("message"): in the object requests hold.
SetStatus ==
    LET holding == {r \in Readers : reader[r] = "serialise" /\ held[r] = json} IN
    /\ Update("status", "asleep")
    /\ json' = [json EXCEPT !.complete = TRUE]
    /\ held' = [r \in Readers |-> IF r \in holding THEN json' ELSE held[r]]
    /\ Racing(holding # {})
    /\ UNCHANGED <<state, table, failed, fetched, reader>>

\* sleep_for(update_time_)
Wake ==
    /\ Update("asleep", "top")
    /\ UNCHANGED <<alive, state, table, failed, fetched, json, answering>>

UpdateStep == Turn \/ Query \/ Assign \/ SetStatus \/ Wake

-------------------------------------------------------------------------------
(* The handlers of the example, and main *)

\* A request comes while the server runs.
BeginAnswer(r) ==
    /\ alive /\ state /\ updater # "new" /\ reader[r] = "idle"
    /\ reader' = [reader EXCEPT ![r] = "copy"]
    /\ held' = [held EXCEPT ![r] = json]
    /\ UNCHANGED <<alive, state, table, cached>>

\* get_json_result() copies the pointer.
Copy(r) ==
    /\ alive /\ reader[r] = "copy"
    /\ reader' = [reader EXCEPT ![r] = "serialise"]
    /\ held' = [held EXCEPT ![r] = json]
    /\ UNCHANGED <<alive, state, table, cached>>

\* CompoundResponse_ writes the object.
Answer(r) ==
    /\ alive /\ reader[r] = "serialise"
    /\ reader' = [reader EXCEPT ![r] = "idle"]
    /\ held' = [held EXCEPT ![r] = Nothing]
    /\ UNCHANGED <<alive, state, table, cached>>

\* The server has stopped and its requests are over: set_state(false), and
\* join(), through a null pointer when there is no thread.
EndServer ==
    /\ alive /\ state /\ updater # "new" /\ \A r \in Readers : reader[r] = "idle"
    /\ state' = FALSE
    /\ alive' = (updater # "absent")
    /\ UNCHANGED <<table, cached, answering>>

-------------------------------------------------------------------------------
\* What a request is answered is {} or the rows of one statement, which were in
\* the table, and no older than json_result_ was when the request began: an
\* update under way, and a failed one, leave the rows of the last one.  Only the
\* object that is being made lacks its status and message.
AnswersAreOneUpdate ==
    [][\A r \in Readers :
          /\ reader'[r] = "serialise" =>
                /\ held'[r].rows >= held[r].rows
                /\ held'[r].rows <= table
                /\ held'[r].complete \/ held'[r].rows = Empty \/ held'[r] = json'
          /\ reader[r] # "idle" => held[r].rows <= json'.rows]_cache

===============================================================================
