----------------------------- MODULE AsyncActions -----------------------------
(***************************************************************************)
(* Actions that run their statement in a detached thread: a handler makes  *)
(* an Action on its stack, composes its query, calls ExecuteAsyncQuery_,   *)
(* and at its end ~Action waits in a loop for async_finished_, which the   *)
(* detached thread sets when the statement has succeeded.  The flag is a   *)
(* plain bool: what the loop does when another thread sets it is up to the *)
(* build.                                                                  *)
(***************************************************************************)
EXTENDS Naturals

CONSTANTS
    Handlers,     \* threads of the server, each serving one request at a time
    Builds,       \* what the build makes of the loop of ~Action
    MaxRequests   \* bound: requests that arrive

\* "reads": the loop reads the flag on every turn.  "readsOnce": the read is
\* moved out of the loop.  "removed": the loop has no effect and is dropped.
ASSUME ConstantsAssumption ==
    /\ Builds \subseteq {"reads", "readsOnce", "removed"}
    /\ MaxRequests \in Nat

VARIABLES
    build,
    hpc,        \* where a handler is
    error,      \* error_ of its action
    async,      \* async_
    finished,   \* async_finished_
    worker,     \* its detached thread: none, ready, done
    arrived,    \* requests so far
    \* history
    executed,   \* how often the statement of the action took effect
    dangling    \* an action was destroyed while its detached thread had not ended

action == <<error, async, finished>>
vars == <<build, hpc, error, async, finished, worker, arrived, executed, dangling>>

-------------------------------------------------------------------------------
Init ==
    /\ build \in Builds
    /\ hpc = [h \in Handlers |-> "idle"]
    /\ error = [h \in Handlers |-> FALSE]
    /\ async = [h \in Handlers |-> FALSE]
    /\ finished = [h \in Handlers |-> FALSE]
    /\ worker = [h \in Handlers |-> "none"]
    /\ arrived = 0
    /\ executed = [h \in Handlers |-> 0]
    /\ dangling = FALSE

Goto(h, phase) == hpc' = [hpc EXCEPT ![h] = phase]

\* A request arrives and its handler constructs an Action.  Requests after an
\* action has been destroyed under its thread are not followed.
Construct(h) ==
    /\ hpc[h] = "idle" /\ arrived < MaxRequests /\ ~dangling
    /\ arrived' = arrived + 1
    /\ error' = [error EXCEPT ![h] = FALSE]
    /\ async' = [async EXCEPT ![h] = FALSE]
    /\ finished' = [finished EXCEPT ![h] = FALSE]
    /\ worker' = [worker EXCEPT ![h] = "none"]
    /\ executed' = [executed EXCEPT ![h] = 0]
    /\ Goto(h, "compose")
    /\ UNCHANGED <<build, dangling>>

\* ComposeQuery_: error_ is set when there is no connection or a parameter fails.
ComposeQuery(h) ==
    /\ hpc[h] = "compose"
    /\ error' \in {error, [error EXCEPT ![h] = TRUE]}
    /\ Goto(h, "spawn")
    /\ UNCHANGED <<build, async, finished, worker, arrived, executed, dangling>>

\* ExecuteAsyncQuery_: nothing after an error; else the flags are set, then the
\* thread is created, or cannot be.
ExecuteAsyncQuery(h) ==
    /\ hpc[h] = "spawn"
    /\ \/ error[h] /\ UNCHANGED <<action, worker>>
       \/ /\ ~error[h]
          /\ async' = [async EXCEPT ![h] = TRUE]
          /\ finished' = [finished EXCEPT ![h] = FALSE]
          /\ \/ worker' = [worker EXCEPT ![h] = "ready"] /\ UNCHANGED error
             \/ error' = [error EXCEPT ![h] = TRUE] /\ UNCHANGED worker
    /\ Goto(h, "destroy")
    /\ UNCHANGED <<build, arrived, executed, dangling>>

Worker(h, phase) == worker' = [worker EXCEPT ![h] = phase]

\* ExecuteQuery_ in the detached thread: it returns at once after an error.
BeginQuery(h) ==
    /\ worker[h] = "ready" /\ ~dangling
    /\ Worker(h, IF error[h] THEN "done" ELSE "executing")
    /\ UNCHANGED <<build, hpc, action, arrived, executed, dangling>>

\* Mutant: a statement that has taken effect is executed again.
ExecuteAgain(h) ==
    /\ worker[h] = "executing" /\ ~dangling
    /\ executed' = [executed EXCEPT ![h] = @ + 1]
    /\ \/ Worker(h, "executed")
       \/ UNCHANGED worker
    /\ UNCHANGED <<build, hpc, action, arrived, dangling>>

\* Mutant: the flag is set while the statement may still run.
ExecuteEarlyFlag(h) ==
    /\ worker[h] = "executing" /\ ~dangling
    /\ \/ finished' = [finished EXCEPT ![h] = async[h]] /\ UNCHANGED <<worker, executed>>
       \/ Worker(h, "executed") /\ executed' = [executed EXCEPT ![h] = @ + 1] /\ UNCHANGED finished
    /\ UNCHANGED <<build, hpc, error, async, arrived, dangling>>

\* query_->execute(): the statement takes effect, or throws into a catch block
\* that sets error_ and nothing else.
Execute(h) ==
    /\ worker[h] = "executing" /\ ~dangling
    /\ \/ /\ executed' = [executed EXCEPT ![h] = @ + 1]
          /\ Worker(h, "executed")
          /\ UNCHANGED error
       \/ /\ error' = [error EXCEPT ![h] = TRUE]
          /\ Worker(h, "done")
          /\ UNCHANGED executed
    /\ UNCHANGED <<build, hpc, async, finished, arrived, dangling>>

\* Mutant: the flag is not set.
FinishNot(h) ==
    /\ worker[h] = "executed" /\ ~dangling
    /\ Worker(h, "done")
    /\ UNCHANGED <<build, hpc, action, arrived, executed, dangling>>

\* async_finished_ = true
Finish(h) ==
    /\ worker[h] = "executed" /\ ~dangling
    /\ finished' = [finished EXCEPT ![h] = async[h]]
    /\ Worker(h, "done")
    /\ UNCHANGED <<build, hpc, error, async, arrived, executed, dangling>>

Running(h) == worker[h] \in {"ready", "executing", "executed"}

\* ~Action returns, and the handler with it.
Destroyed(h) ==
    /\ Goto(h, "idle")
    /\ dangling' = (dangling \/ Running(h))

\* Mutant: ~Action waits for no thread that failed.
DestroyOnError(h) ==
    /\ hpc[h] = "destroy"
    /\ ~async[h] \/ finished[h] \/ error[h]
    /\ Destroyed(h)
    /\ UNCHANGED <<build, action, worker, arrived, executed>>

\* ~Action
Destroy(h) ==
    /\ hpc[h] = "destroy"
    /\ \/ /\ ~async[h] \/ finished[h] \/ build = "removed"
          /\ Destroyed(h)
       \/ /\ async[h] /\ ~finished[h] /\ build = "readsOnce"
          /\ Goto(h, "hung")
          /\ UNCHANGED dangling
    /\ UNCHANGED <<build, action, worker, arrived, executed>>

-------------------------------------------------------------------------------
Handle(h) == ComposeQuery(h) \/ ExecuteAsyncQuery(h) \/ Destroy(h)
Background(h) == BeginQuery(h) \/ Execute(h) \/ Finish(h)

Next == \E h \in Handlers : Construct(h) \/ Handle(h) \/ Background(h)

\* Every thread runs on; a statement returns or throws.
Fairness == \A h \in Handlers : WF_vars(Handle(h)) /\ WF_vars(Background(h))

Spec == Init /\ [][Next]_vars /\ Fairness

-------------------------------------------------------------------------------
\* Types of the variables.
TypeOK ==
    /\ build \in Builds
    /\ hpc \in [Handlers -> {"idle", "compose", "spawn", "destroy", "hung"}]
    /\ error \in [Handlers -> BOOLEAN]
    /\ async \in [Handlers -> BOOLEAN]
    /\ finished \in [Handlers -> BOOLEAN]
    /\ worker \in [Handlers -> {"none", "ready", "executing", "executed", "done"}]
    /\ arrived \in 0 .. MaxRequests
    /\ executed \in [Handlers -> 0 .. 1]
    /\ dangling \in BOOLEAN

\* In a build that keeps the loop no action is destroyed while its thread may
\* still use it.
NothingDangles == build # "removed" => ~dangling

\* In such a build a request that has ended after ExecuteAsyncQuery_ went
\* through has executed its statement, and an action whose statement took
\* effect shows no error.
EndedMeansExecuted ==
    build # "removed" =>
       \A h \in Handlers :
          /\ hpc[h] = "idle" /\ async[h] => executed[h] = 1
          /\ executed[h] = 1 => ~error[h]

\* What the comment of ~Action says: the object is destroyed when the
\* asynchronous function finishes executing.
DestroyedWhenFinished ==
    \A h \in Handlers :
       hpc[h] = "destroy" /\ worker[h] = "done" ~> hpc[h] = "idle"

===============================================================================
