# NebulaAtom in TLA+

TLA+ modules, TLC configurations and TLAPS proofs about NebulaAtom, the C++17
web framework of this repository (Poco for HTTP and MySQL). They model what the
program does when its threads, its in-memory state and its database meet.
Paths below are relative to `src/src/` unless they start with `src/`.

## 1. Inventory

### How the program works

An application (`examples/backend_api.cpp:144-181` is the reference) reads its
settings, starts MySQL, calls `PermissionsManager::LoadPermissions_` and
`SessionsManager::ReadSessions_`, and then starts Poco's HTTP server. The
server calls handlers from a pool of threads. Each request gets a handler of
its own from `HandlerFactory`; the handler runs, in this order, `AddFunctions_`,
`ManageRequestBody_`, `IdentifyRoute_` (404), `VerifySession_` (401),
`VerifyPermissions_` (401) and `ProcessActions_`
(`examples/backend_api.cpp:110-141`). Logins and logouts go to `LoginHandler`.
What handlers share is static: the map of sessions, the list of permissions,
the map of actions, and the tables of the database.

### Components

| Component | State | Operations | Meets |
|---|---|---|---|
| Session store (`tools/sessions_manager`, `extras/session`) | `sessions_` (static map), the sessions table | `ReadSessions_`, `CreateSession_`, `DeleteSession_` | login and root handlers of every thread; the table, across restarts |
| Login handler (`handlers/login_handler`) | `session_id`, `current_user` of a request | `StartSession_`, `EndSession_`, `SessionExists_` | session store, users |
| Root handler (`handlers/root_handler`) | the request's route, user, body, parameters | the pipeline above | everything below |
| Users (`security/users_manager`, `user`) | table of accounts | `AuthenticateUser_` | login handler |
| Permissions (`security/permissions_manager`, `permission`) | `permissions_`, `action_type_map_`, `mutex_` (static) | `LoadPermissions_`, `FindPermission_` | loaders and verifying requests |
| Security verification (`security/security_verification`) | `security_type_` | `VerifyRoutesPermissions_` | root handler, permissions |
| HTTP methods (`http/methods`) | table of methods | `IdentifyMethod_`, `EvaluateProcess_` | permissions, handlers |
| Actions (`functions/action`) | query, session, results, `last_insert_id_`, flags | `Work_`, `ExecuteAsyncQuery_`, `~Action` | the database; other actions of the function; a detached thread |
| Functions (`functions/function`, `functions_manager`) | actions, `json_result`, file manager | `Process_` and one process per kind of response | actions, file manager, responses |
| Backend, frontend, WebSocket, custom, null handlers (`handlers/`) | - | `ProcessActions_`, `Process_` | functions, files |
| Files (`files/`) | list of files of a request; the file system | `handlePart`, `CheckFiles_`, `UploadFile_`, `DownloadFile_`, `RemoveFile_` | other requests through the file system |
| Request bodies (`http/body`, `http/request`, `tools/manage_json`) | parameters | JSON, form and query parsing | root handler, actions |
| Responses (`http/common_responses`) | - | one send each | client |
| Query values (`query/`) | conditions, parameters, results, rows, fields | | actions |
| Dynamic values, routes (`tools/dvalue`, `tools/route`) | a tagged value; a list of segments | conversions, comparison | everything |
| Server, handler factory (`core/`) | `handler_creator_`, `connections_` | `createRequestHandler`, `main` | the threads of the server |
| WebSocket handler (`handlers/websocket_handler`) | the application's list of connected sockets | `Process_`, `Transfer_`, `Send_` and three callbacks | handlers of other threads, through the list |
| Cached actions (`functions/cache_action`) | results, `json_result_`, `error_`, `state_`, a background thread | `Work_`, `WorkInBackground_` | requests that read the cache; `main`, which ends it |
| Settings (`tools/settings_manager`, `core/nebula_atom`) | `settings_`, `properties.yaml`, copies of the credentials | `AddSetting_`, `ReadSettings_`, `GetSetting_`, `SetupSettings_` | everything that asks for a setting |
| Logger, client, e-mail, encodings (`tools/`, `http/client`) | | | output, or one library call |

`PROJECT.json` lists every component with its status.

### What is hard

- **Interleavings.** `sessions_` is copied, searched, emplaced into and erased
  from by every thread without a lock; `permissions_` and `action_type_map_`
  are written under `mutex_` and read without it; `~Action` spins on a plain
  `bool` a detached thread sets.
- **Two places for one fact.** A session lives in the map and in the table, one
  written after the other, and no write looks at the error of the other.
- **Crash and restart.** The map is lost and rebuilt from the table, filtered
  by age.
- **Partial failure.** The actions of a function run without a transaction; an
  action may fail before, after, or without its statement having taken effect;
  a load of permissions empties the list before it has the new one.
- **Checks and uses.** A file is checked in one call and removed, measured or
  read in a later one; uploaded parts are moved one by one.
- **Limits.** Actions keep shared pointers to themselves, so one that fails
  keeps its connection until the server drops it. The queue of connections is
  bounded; numbers are ints and floats.
- **Waiting.** A handler waits for a flag only a successful statement sets; a
  WebSocket keeps its thread until its peer says something.
- **Exceptions.** They are caught in `createRequestHandler`, `Work_`'s steps,
  `Function::Process_`, `WebSocketHandler::Process_` and `handleRequest`, and
  most of these answer; a response may be sent once. Nothing catches what leaves
  the thread of a cached action.
- **Lazy set-up.** With `AddHandler_` the first request installs the creator the
  others use, in whatever thread, and credentials are copies of settings that
  may be read again later.

The list of hazards, line by line, is in `PROJECT.json`.

### What makes each component correct

- *Sessions*: an identifier has one owner until it is drawn again where nothing
  can see it; a request is authorized as the user whose login returned its cookie; what is in memory is in the table,
  but for named failures; a login survives restarts until it expires or ends;
  a completed logout is final.
- *Permissions*: loads do not mix; a verification no load overlaps follows the
  last load; the mutex is always released.
- *Function calls*: effects are a prefix of the actions; the reply tells the
  truth; ids and parameters are those of the same request; connections are
  accounted for; every request is answered once.
- *Asynchronous and cached actions*: no object is destroyed under its thread; an
  ended request has executed its statement; nothing but a failure holds a
  handler; what is answered from the cache is one update, not a part of one and
  not an older one than before; new rows come to be in the cache.
- *Files*: a file a client was told of is in its place until it is removed; it
  is removed once, by one request; a successful upload leaves no temporary
  file, a refused one at most one stray; every request ends.
- *Server*: whatever throws, the request is answered by this code; a function
  runs only behind its session and permissions, and is the one its endpoint and
  method name; only the first requests miss their handler; the list of sockets
  holds live handlers; a queued request is served.
- *Data*: settings are those of the file, and every component's credentials are
  those of the settings; the last value a request gives a parameter wins, and
  only where it may; an answer shows the rows that were read, in values that
  are neither wrapped nor lost.

## 2. Modules

| Module | Models | State | Actions |
|---|---|---|---|
| `SessionBook` | the promise of the session store, without threads or table | who an identifier was issued to, which are live, closed, given up | issue, forget, recall, close, give up |
| `Sessions` | session store, login handler, `VerifySession_` | `sessions` = `sessions_`; `rowUser`, `created` = the table; `pc`, `kind`, `sid`, `who` = a handler; `raced` = pending accesses another thread overlapped; the rest is history | one per access to the map or the table, in program order; crash, restart, clock |
| `Permissions` | permissions manager, security verification, `IdentifyMethod_` | `actionMap`, `permissions`, `mutex`, and a program counter per loader and per reader | one per shared access of `LoadPermissions_` and of `FindPermission_` |
| `FunctionCalls` | `Function::Process_` for JSON, `ProcessAction_`, `Action::Work_` | the request's actions, the one `at` work, its parameter, results and last insert id; the database table and its connections | one per step of `Work_`, plus the two replies |
| `AsyncActions` | `ExecuteAsyncQuery_`, the detached thread, `~Action` | `error`, `async`, `finished` of each handler's action and where its thread is | one per step of the handler and of the thread |
| `FileShelf` | the promise of the file functions, without threads or temporary files | files a client may ask for, files removed | publish, withdraw |
| `Files` | `FileManager` and the file functions of `Function` | `stored`, `partial`, `temp` = the file system; `pc`, `kind`, `form`, `at`, `target`, `request` = a handler and its file manager; `reply`, `known`, `removals` are history | one per part received, check, removal, part moved, header, body |
| `Routes` | `Route`: segments, type, comparison | - | operators |
| `HTTPServer` | Poco's pool and queue, what a response is, `handleRequest`'s catch blocks | `queue`, `stage` and `serving` of each thread, `answer` and `fate` of each request | accept, take, end |
| `HandlerFactory` | `createRequestHandler`, `AddHandler_`, `CustomHandlerCreator_` | `creator` = `handler_creator_`, `handler` | find null, assign (two steps, by every thread that found null), create, fail, call it while it is assigned |
| `Backend` | a backend handler's `Process_`, `RootHandler`'s checks, `FunctionsManager`, `Function::Process_`, custom and null handlers | `sessions`, `permitted`; `ran` is history | route, session, permissions, process |
| `WebSockets` | `WebSocketHandler` with the handler of `examples/websocket.cpp` | `sockets` = `connected_sockets_`, `rest` = the loops over it, `open` | upgrade, push, message, send, close, erase, and their failures |
| `Server` | the four above in one server | | |
| `CacheActions` | `CacheAction` with `examples/cached_action.cpp` | `updater`, `failed` = `error_`, `json` = `json_result_`, `state`, `reader`, `held` | one per step of the loop, of a reading request and of `main` |
| `BackgroundThreads` | `AsyncActions` and `CacheActions` on one table | | |
| `DValues` | `DValue`: comparisons, `Format_`, accessors | - | operators |
| `Settings` | `SettingsManager`, `NebulaAtom`'s settings | `settings`, `credentials`, `file` | construct, add, read, set up, edit the file |
| `Parameters` | bodies and both `IdentifyParameters_`, `ReplaceParamater_` | `body`, `limit`, `given`, `parameters` | arrive, identify, replace |
| `Tables` | `MakeResults_`, `Results`, `Row`, `Field`, `CreateJSONResult_` | `resultSet`, `results`, `json` | push a row, answer |
| `Data` | the four above: one run of `main` and one request | `phase`, `outcome` | one per step |
| `Recursion`, `SessionsProofs`, `PermissionsProofs`, `FunctionCallsProofs`, `BackgroundProofs`, `FilesProofs`, `ServerProofs`, `DataProofs` | theorems | | |
| `MCSessions`, `MCPermissions`, `MCFunctionCalls`, `MCFiles`, `MCServer`, `MCData` | instances for TLC | | |

How the modules meet the code:

- A step of a thread ends where another thread can notice: at an access to
  shared memory, a statement on the database, or the response. Everything
  between two such points is one action. What is local to a handler and
  decides nothing else (parsing of the body, the look of a response, logging)
  is abstracted.
- A failing call is a disjunct of the action that makes the call. In `Sessions`
  the three statements on the table may fail unnoticed, because `CreateSession_`
  and `DeleteSession_` look at no error; `unsaved`, `torn` and `loaded` record
  which failures have happened, so that the properties can name them as
  exceptions.
- A data race is a nondeterministic choice. In `Sessions` an access that
  overlaps a conflicting one may take place as if alone, miss what it looks
  for, or lose nodes of the map; the process may also die, which `Crash` allows
  at any time. Every search may miss: that of the copies of the map
  (`Hit`, `Miss`), of `SessionExists_` (`Unseen`), `emplace`, `at`, and of
  `DeleteSession_`, which finds the session in one access and erases it in
  another. In `Permissions` a racing read may see the old or the new state
  or miss its entry, or the process dies. Reads of freed memory that yield a
  *different* valid entry are not among the outcomes.
- The build decides what the loop of `~Action` does (the default build is
  Release, `src/cmake/build_settings.cmake:13-19`, and the flag is a plain
  `bool`): `Builds` holds the three loops a compiler may make of it, and the
  first state picks one.
- A statement of an action that breaks with its connection may or may not have
  taken effect.
- `GenerateSessionID_` hashes 32 random characters: a draw may yield any
  identifier. `CreateSession_` draws again if `SessionExists_` finds it in the
  map; it does not find one that a race hides, one that another thread has drawn
  and not stored yet, nor one of the past. The code then shares or reuses the
  session: `emplace` stores nothing and `at` returns what is there. The model
  takes these steps too, and the identifier is *void* from then on (`GiveUp`), as
  is one whose racing `erase` misses it: the properties say that nothing else
  gives a session two users, brings a closed one back, and so on.
- Calls to the file system are separate actions where another request can come
  between them. `moveTo` copies and removes: it may throw with no copy, a
  broken one, or a whole one left behind. `GenerateName_` (time to the
  millisecond and 31 random bits) is assumed to draw unused names. The content
  of a file is left out, so a part that was cut short on a full disk is not
  told from a whole one. `Supported` is what the application has added to the
  file manager of the *request*: `ProcessActions_` replaces the function's.
  `VerifyMaxFileSize_` compares lengths nobody has set yet, so that `Accept`
  refuses nothing for its size. An action that finds no row yields the path of
  the directory, which `CheckFile_` turns into index.html.
- A response is what was sent, if anything; sending twice throws, as Poco
  asserts. Handlers are operators from what they have sent so far to what they
  may have sent when they return or throw, and the catch blocks are operators
  on top of them, in the order of the code. A callback of an application sends
  nothing or one response, and returns or throws.
- `Server` has its own, smaller sessions and permissions: what requests see of
  them. `Sessions` and `Permissions` have the steps that change them.
- `createRequestHandler` tests `handler_creator_` for null and assigns it, both
  without a lock: every thread that found null assigns it, whether or not it has
  been assigned and used meanwhile. From the first assignment begun to the last
  one ended it is "torn".
- Undefined behaviour in `Server`, `CacheActions` (a creator called while it is
  assigned, two threads on the vector of sockets, a message through a destroyed
  handler, overlapping accesses to `json_result_`) may end the process: `up` and
  `alive` are false from then on. The accesses may also take effect as if alone,
  so that the properties are about these too.
- A member of a `DValue` is a number, and a string its place in the order of
  strings. `MaxInt` stands for 2^31-1, and `Floats` for the whole numbers that
  are floats: up to 2^24 all of them, above it every other one, then every
  fourth. `Narrow` makes a number the nearest of these, and of two the even one.
  What the code holds in a `float` is narrowed: members of a `DValue`, and the
  size of a file and its limit where `IdentifyParameters_` compares them. Both
  are constants, so that TLC meets their edges with small numbers.
- A node of `properties.yaml` is a scalar or not, and a scalar converts to some
  types; an item of a JSON body lacks its name, its value, or is no object.
- Bounds that the program does not have: `MaxTime` (the clock), `MaxRequests`
  (requests that arrive), `Requests` of `HTTPServer` (each arrives once),
  `MaxMessages`, `MaxCalls` (what `main` does with the settings). They are
  guards of `Tick`, `Arrive`, `Construct`, `Accept`, `Message`, `Call`. `MaxVoid`
  bounds the identifiers that are void, in `GiveUp`.

### Plan

All modules of the plan exist; they were written in this order:

1. `Sessions` and `SessionBook`, with their refinement and proofs.
2. `Permissions`, with proofs.
3. `FunctionCalls`.
4. `AsyncActions`, with proofs.
5. `Files` and `FileShelf`, with their refinement and proofs.
6. `Routes`, `HTTPServer`, `HandlerFactory`, `Backend`, `WebSockets`, composed
   in `Server`.
7. `CacheActions`, composed with `AsyncActions` in `BackgroundThreads`.
8. `DValues`, `Settings`, `Parameters`, `Tables`, composed in `Data`.

9. The proofs about `FunctionCalls`, `Server`, `BackgroundThreads` and `Data`.
10. `Recursion`, and with it the invariants about what the loops of the code
    compute: the function that runs, the parameter that wins, the rows that are
    answered.

What remains is small: a `ReadSessions_` that meets rows with null columns or
runs beside the server, once something in the repository does either; one
upload composed with the actions of its function, so that a file and its row
are compared. Every invariant and action property of the passing runs is
proved; the liveness properties (section 4) stay with TLC.

## 3. Runs

| Run | Question | States |
|---|---|---|
| `sessions` | Do identifiers keep their owner, is memory backed by the table, are logins and logouts honoured, and does all of it implement `SessionBook`? | 2 863 007 |
| `sessions_deleted` | Is a session refused once its logout was answered? **No.** | - |
| `sessions_expired` | Is a session refused once it is older than `session_max_age`? **No.** | - |
| `permissions` | Do loads mix, do verifications follow the last load, is the mutex released? | 71 104 |
| `permissions_delete` | Is a DELETE request checked as a delete? **No.** | - |
| `functions` | Are effects a prefix, replies true, ids and parameters the request's own, connections returned, requests answered? | 875 697 |
| `async` | Does anything dangle, end early, or hang without a failure? Are answers from the cache one update and never an older one, and do new rows come to be in it? | 154 973 |
| `async_destroy` | Is an action destroyed once its thread has finished? **No.** | - |
| `files` | Are known files in their place until removed once, what do uploads leave behind, do requests end, and does all of it implement `FileShelf`? | 170 181 |
| `server` | Is every request answered by this code, do functions run behind their checks only, who misses a handler, is the list of sockets live, do requests end? | 80 434 |
| `data` | Do settings follow the file, does the value given last win, do answers show the rows? | 346 481 |
| `files_several` | Can an upload store several files? **No.** | - |

### What the five disagreements are

- **A logout may not last** (`sessions_deleted`). `DeleteSession_` erases the
  session from memory, runs the DELETE and looks at no error;
  `EndSession_` answers "Client logout." all the same. If the DELETE failed the
  row is there, and the `ReadSessions_` of the next start loads the session:
  it is authorized again.
- **Sessions do not expire while the process runs** (`sessions_expired`).
  `session_max_age` is looked at by `ReadSessions_` only; `VerifySession_`
  looks for the identifier and for nothing else.
- **DELETE is checked as a read** (`permissions_delete`). The changelog says
  DELETE was added together with DEL, and the table of methods knows both;
  `action_type_map_` has `DEL` only, and what it does not have is `kRead`.
- **A failed asynchronous statement holds its handler for ever**
  (`async_destroy`). `async_finished_` is set after a success only; `~Action`
  waits for it.
- **An upload of several files is always refused** (`files_several`).
  `UploadFile_` asks for the size of every file of the request after it has
  moved the first, and Poco throws for those that are not in their place yet:
  the client reads 400, one file is in the directory, and the others stay
  among the temporary files. The loop and its array of results are there for
  several files.

### Bounds

- `sessions`: two threads, two users, two identifiers, `MaxAge = 1`,
  `MaxTime = 1`, `MaxVoid = 1`. Two threads are what a race, a collision of
  identifiers or a logout during a verification takes; with two identifiers one
  may be lost while the other is written, or be drawn again, unseen, while the
  other must keep what the properties promise; one tick separates a fresh row
  from an expired one. Threads, users and
  identifiers are symmetric; the run has no liveness property, so the symmetry
  is sound. The proofs lift every one of these bounds.
- `permissions`: two loaders (the mutex matters) and one reader (readers do not
  affect each other), two users on one route, four rows of which one has a null
  column, the methods GET, POST, DELETE and TRACE: one that the map knows as
  itself, one the map does not know although the server does, one nobody knows.
- `functions`: two threads, three requests, two connections, so that two
  requests at work, or one at work and one that failed, exhaust the server.
  The first function has a select whose result feeds an insert, both final; the
  second has an insert related to itself and after it another insert, so that a
  request may fail with a row of its first action in the table. A row's value, an id and a result are
  the position of a row in the table, which tells them apart.
- `async`: two handlers, two requests and one reader of the cache, in all three
  builds: two statements that overlap each other and an update, and an update
  before, between and after them. `async_destroy` needs one handler only.
- `server`: two threads, three requests, a queue of two, one message. Two
  threads race on the creator and on the list of sockets, and two WebSockets
  hold both; the third request is the one that finds the queue full, that comes
  after the first was served, that calls a creator the other thread assigns late,
  or that waits for a thread. The four applications
  are those of `examples/`: connections only (asked for with and without a query
  string), a backend with two methods of one endpoint and a path with an empty
  segment, one called by strangers and with a malformed URI, and WebSockets.
- `data`: `MaxInt = 15`, floats of three bits (0 to 8, 10, 12, 14, 16, 20 and
  their negatives), a `Megabyte` of 6, so that a limit of 3 overflows and one of 2
  is 12 bytes: a file of 12 is kept, one of 13 too, since both are the same
  float, and one of 15 is left out. Three calls of `main` are
  what it takes to add a setting, read a file and read another one. The five
  bodies have each kind, an item of one name twice, files at the limit, one byte
  over and well over it, every way an element of the array can be useless, and JSON that
  does not parse; the parameters are editable or not, of one name twice, with
  each condition of the examples; the result sets are empty, of one row or one
  column, with nulls, equal names, dates, and numbers that are too large.
- `files`: two threads and two requests, so that any two of the four kinds meet
  (two removals of one file, a download during a removal, a modification during
  an upload), on a directory with a picture and index.html. The forms are an
  empty one, one picture, one unsupported file, two pictures, a part without a
  name, and a picture after such a part: the loop of `UploadFile_` ends at its
  first named part, so longer forms take no other way through it.

Deadlock is not checked in `functions` and `files` (no request arrives after
`MaxRequests`) and in `async` (the same bound, and a handler may really wait for ever, which
is what `ThreadsEnd` and `DestroyedWhenFinished` are about), nor in `server`
(all requests over, or the process gone) and `data` (the one request answered).

### Fairness

- `FunctionCalls`: weak fairness of the steps of each thread. A thread of the
  pool is scheduled by the operating system, and Poco's calls return or throw.
  No fairness is given to arrivals, nor to the server dropping connections:
  requests are answered without it.
- `Permissions`: weak fairness of a loader's steps after it has the mutex. None
  for `Lock`: `std::mutex` promises none, and `MutexIsReleased` does not need it.
- `AsyncActions`, `BackgroundThreads`: weak fairness of each handler, of each
  detached thread, of the updating thread and of a request that has begun to
  answer: statements return or throw, sleeps end. None for arrivals, nor for
  the end of the server.
- `Server`: weak fairness of the steps a thread takes by itself. None for
  arrivals, messages, resets and peers that close: `RequestsEnd` names the
  peers a request may wait for.
- `Data` states safety only: one thread does everything.
- `Files`: weak fairness of the steps of each thread: calls to the file system
  return or throw, and nothing waits for another request.
- `Sessions` states safety only, and has no fairness.

## 4. Proofs

All theorems are about any number of threads, users, identifiers, rows and
requests, and the other constants (functions, forms, builds, applications,
settings, files). They assume the named `ASSUME`s of the modules they are about
and nothing else, and TLC evaluates each of these in a run: that placeholders
(`NoUser`, `Nobody`, `None`, `NoFile`, ...) are no proper values, that bounds are
numbers, and what the constants look like (`ApplicationsAssumption`: what a
request may ask for; `SettingsAssumption`: basic settings have the type of their
value, every credential is a basic setting with a default, and a node of a file
converts to numbers; `BodiesAssumption` and `DeclaredAssumption`: what a parser
can make of a body, and parameters as a function declares them;
`ResultSetsAssumption`: the rows of a result set have its columns).

- **`Recursion`.** What the loops of the code compute is written as recursive
  functions. `SmallestExists`, `Induction` and `LoopExists` state induction over
  the naturals about sets and functions (a set that has 0 and, with each number
  below a bound, the next has all of them; a loop whose turns are functions of
  the state has a sequence of states), not about operators, which these
  provers could not instantiate. They follow from the well-foundedness of <.

- **`SessionsProofs`.** `TypeCorrect`, `SessionsHaveOneOwner`,
  `MemoryHasItsRow`, `LoginsAreHonoured`, `LogoutsAreFinal`, and
  `SessionsImplementBook`, the refinement. None of the invariants is inductive:
  that `emplace` gives an identifier to one user depends on nobody else holding
  it, that a logout is final depends on no INSERT of the same identifier being
  still on its way. The inductive invariant `IInv` says how far an identifier
  has come, of all identifiers but the void ones: an identifier that is unused or only drawn is nowhere; the one a
  login has drawn is in no cookie and at no other thread until its response is
  sent; a thread that erases or deletes works on an identifier whose login has
  been answered; the table is written after the memory; a process that is down
  has an empty map and no handlers. The refinement maps `holder` to the first
  user `CreateSession_` stored, `live` to the keys of the map and `closed` to
  the identifiers whose DELETE succeeded, all three without the void ones:
  `Emplace` is an issue (which may lose others), a draw of a used identifier and
  an erase that misses give one up, `Erase` and `Crash` forget, `ReadSessions` recalls, a successful
  `Delete` closes, all else stutters.
- **`PermissionsProofs`.** `TypeCorrect`, `LoadsDoNotMix` and the action
  property `QuietVerdicts`. The inductive invariant has three parts: exactly
  the owner of the mutex is inside `LoadPermissions_`; the map holds the verbs
  inserted so far; the list is what has been pushed of the rows read, and the
  rest of the rows is still to be pushed. `QuietVerdicts` adds that a reader no
  load overlapped has taken its action from a complete map.
- **`FilesProofs`.** `TypeCorrect`, `KnownFilesAreStored`,
  `FilesAreRemovedOnce`, `TemporaryFilesAreMoved`, `AtMostOneStray` and the
  refinement `FilesImplementShelf`, for any forms and any number of threads and
  requests. The inductive invariant says that requests at work have different
  numbers and no reply, that no file of theirs is in the directory, known or
  removed, that their temporary files are parts of their forms, that handlers
  work on files clients know of, and that the loop of `UploadFile_` passes
  parts without a name only. From it: the upload that succeeds had one named
  part, its last (`OnlyThisPart`). The step that ends an upload publishes, the
  one that removes withdraws, and all else stutters.

- **`FunctionCallsProofs`.** `TypeCorrect`, `EffectsOfAPrefix`,
  `RepliesAreTrue`, `LastInsertIdsAreOwn`, `RowsAreFedFromTheRequest` and
  `ConnectionsComeBack`, for any functions whose actions may each be related to
  any other. The inductive invariant `IInv` has a part per container: requests
  have different numbers, and rows are of requests that arrived (`Requests`);
  actions not yet run have no parameter and no result (`Fresh`), so that a
  value can only come from an earlier one; the session is open at the steps
  between `connect` and `close`, and the statement executed has the parameter
  its relation gives (`Session`); `json_result` is that of the last final action
  that has ended (`Json`); the rows of a request are those of its inserts, in
  order, none left out (`Rows`), and ids kept are of its rows (`OwnIds`); a
  reply is there when the thread is done and says what the rows say
  (`Replied`); only a request that failed left a connection (`Left`), and the
  server holds no more of them than it may (`Pool`).
- **`BackgroundProofs`.** First about `AsyncActions` alone: `TypeCorrect` (a
  statement takes effect at most once), `NoActionDangles` and
  `EndedRequestsExecuted`, for builds that keep the loop; the invariant orders
  statement, flag and destructor. Then about the composition:
  `TypesTogether`, `NothingDanglesTogether`, `EndedTogether` and the action
  property `CacheAnswersOneUpdate`. A step of `BackgroundSpec` is a step of
  `AsyncActions` or leaves its variables alone, except that the table may grow:
  the first invariant is used as it stands. Beside it, `CInv` says that
  `json_result_` is an update but between its assignment and `SetStatus`
  (`JsonIsOneUpdate`), and that what a request copied is no newer than it
  (`ReaderInv`); rows only grow, so no answer is older than one before.
- **`ServerProofs`.** `TypeCorrect`, `RequestsAreAnswered`,
  `GrantedFunctionsRun`, `OnlyTheFirst` and `ListIsLive`, for any threads,
  requests, applications and sockets. Every outcome a handler can have has sent,
  has thrown, or belongs to a callback that chose to be silent (`Catchable`);
  the catch blocks turn each of these into one that does not throw before it has
  answered (`Ends`).
  The inductive invariant then needs to say of a request that it is in one place
  (`Queued`, `Serving`), what was sent and which handler chosen at each stage
  (`Handling`, `Fate`), what each check has established (`Checked`), that the
  creator is torn only while some thread still assigns it, and that a call that
  went wrong then ended the process (`Torn`), and that
  the list of sockets holds the handlers at the stages between upgrade and
  erase, each once, and the loops over it only these (`List`). `GrantedFunctionsRun` adds to the
  checks that the function that runs is the first the handler added for its
  endpoint, by induction over the loop of `AddFunction_` (`FirstAdded`): what
  the map holds after the turn of an endpoint it already has is unchanged.
- **`DataProofs`.** Four invariants build on each other. `SettingsInv` leads to
  `FileIsFollowed`: a setting of the application that the file read last has in
  the right type is the file's, and credentials are those of the settings unless
  these changed since; `GetSetting_` returns the first setting of a name, and
  adding a setting leaves it the first (`FirstStays`). `ControlInv` says which
  phase has which outcome and that settings have the type of their default.
  `TablesInv` says that the rows pushed are those of the result set, that none
  of them threw, and that status 200 comes with all of them; with what
  `Format_` makes of each kind of column (`CellIs`, `RowIs`) and the column that
  wins when names repeat (`ObjectHasTheLast`) it gives `RowsShown`.
  `ParametersInv` says that every declared parameter is what the two
  `IdentifyParameters_` make of the body of the request (`AsGiven`), or what
  replaced it. What the body offers is the result of one loop per kind of body
  (`IdentifyIs`, `KeptIs`, `ListSays`, `PartSays`, `JoinedSays`, each by
  induction); from these, `LastValueWins`: of several values of a name the last
  one that was kept is taken, unless the parameter may not be edited or was
  replaced. Which files are kept is a comparison of floats: rounding keeps the
  order of two numbers unless it makes them equal (`NarrowKeepsOrder`), whatever
  the set of floats. `TypesHold` puts the four together. The
  proofs showed that a result set of rows without columns answers an empty
  object per row, which has no first field; `AnswersShowTheRows` now says so.

What liveness rests on is proved for every thread whose work ends by itself. Five
theorems give each thread a number of steps before its end, `StepsLeft`,
and show that its own steps lower it and those of the others do not raise it:

- `PermissionsProofs!LoadsRunDown`: a load of a table of n rows (finitely many)
  unlocks after at most n + 9 steps of the holder of the mutex, or the process
  ends.
- `FunctionCallsProofs!RequestsRunDown`: a request of n actions has its reply
  after at most 8n + 1 steps, whatever fails and however few connections are
  left.
- `FilesProofs!RequestsRunDown`: a request with n file parts is answered after
  at most 2n + 4 steps, whatever happens to the files meanwhile.
- `ServerProofs!RequestsRunDown`: a thread at work keeps its request until it is
  over and is at most five steps from there, plus one for each socket its loop
  has still to visit (erasing a socket leaves the length of the loops of others
  as it is, `ShiftedIsAsLong`); only a message of its own peer gives it more. The
  steps that end the process are the exception.
- `BackgroundProofs!RequestsRunDown`: a request and its detached thread have at
  most six steps before them, and `~Action` of an action without an error never
  waits for a thread that has ended (`WaitsForItsThread`). With an error it may:
  the run `async_destroy` shows it.

Left to TLC: the liveness properties themselves (`MutexIsReleased`,
`RequestsAreAnswered`, `FreshUnlessFailed`, `ThreadsEnd`, both `RequestsEnd`),
since the prover handles neither fairness nor ENABLED: that a thread with steps
before it can take one is checked, not proved. `CacheAction` updates for as long
as the server runs, so that no such number exists for its thread. Also left to
TLC are the properties of the five runs that refute one.

## 5. Not modelled

- **In a component that is modelled.** The look of a response, headers and
  cookies; TLS and the exceptions that end `Init_`; parsing of URIs, forms, JSON
  and YAML, which is a library's; a `ReadSettings_` while requests ask for
  settings, which no example does; requests of one connection that follow each
  other (keep-alive), which meet no state a new connection would not. Rows of the sessions table with null
  columns (nothing in the program writes one; `ReadSessions_` would unlock its
  mutex twice), a `ReadSessions_` while the server runs (no caller). What callbacks
  of the application do: a custom function sends nothing or one answer and
  returns or throws, a condition is true, false or throws. The method and route switches of the login
  handler, which change no state. Requests after an action was destroyed under
  its thread. What is in a file, and equal names drawn by two uploads.
- **Components that are not.** The logger (output only), the HTTP client
  and e-mail (one blocking library call each), base64, HMAC and property trees
  (wrappers of library functions without state).
- **External.** The MySQL server is modelled by what the code relies on:
  autocommit, auto-increment ids, `LAST_INSERT_ID()` per session, `NOW()`, a
  limit on connections and a time-out for idle ones.
