-------------------------------- MODULE Files --------------------------------
(***************************************************************************)
(* Functions that answer files (ResponseType::kFile) and the FileManager   *)
(* they use: requests upload, modify, remove and download files of one     *)
(* directory.  Uploaded parts are first written to a directory for         *)
(* temporary files, then checked, then moved one after the other; files    *)
(* are checked first and removed or read in a later call, with other       *)
(* threads in between; every call to the file system may fail.             *)
(*                                                                         *)
(* GenerateName_ joins the time to the millisecond and a random number: it *)
(* draws a name no file has and no other request has drawn, so that a file *)
(* is known here by the request and the part it comes from.                *)
(***************************************************************************)
EXTENDS Naturals, Sequences

CONSTANTS
    Threads,      \* threads of the HTTP server
    Extensions,   \* extensions of files
    Supported,    \* those the file manager of the request supports
    Forms,        \* the lists of file parts clients send
    Initial,      \* files of the directory that are there at first
    IndexFile,    \* index.html of the directory
    NoFile,       \* a request without a file path
    MaxRequests   \* bound: requests that arrive

\* A file part of a form; its "name" may be empty.
Part == [ext : Extensions, named : BOOLEAN]

\* A file: where it comes from; request 0 is before the server started.
File == [request : Nat, index : Nat, part : Part]

ASSUME ConstantsAssumption ==
    /\ Supported \subseteq Extensions
    /\ Forms \subseteq Seq(Part) /\ <<>> \in Forms
    /\ Initial \subseteq File
    /\ \A f \in Initial : f.request = 0
    /\ IndexFile \in File /\ IndexFile.request = 0
    /\ NoFile \notin File
    /\ MaxRequests \in Nat

VARIABLES
    \* the file system
    stored,    \* files of the directory
    partial,   \* files of the directory whose copy was broken off
    temp,      \* files of the directory for temporary files
    \* the handlers
    pc,        \* where a thread is
    kind,      \* what its function does
    form,      \* the file parts of its request
    at,        \* the part at work
    target,    \* the file its actions have found
    request,   \* the number of its request
    arrived,   \* requests so far
    \* history
    reply,     \* the answer to each request
    known,     \* files clients have been told of
    removals   \* which request removed which file

handler == <<kind, form, at, target, request>>
vars == <<stored, partial, temp, pc, handler, arrived, reply, known, removals>>

-------------------------------------------------------------------------------
Kinds == {"download", "upload", "modify", "remove"}
Phases == {"idle", "receive", "actions", "check", "remove", "accept", "upload",
           "header", "body"}
Replies == {"none", "ok", "removed", "cut", "refused", "notFound", "error"}
Requests == 1 .. MaxRequests

\* The file of the i-th part of a thread's form.
FileOf(t, i) == [request |-> request[t], index |-> i, part |-> form[t][i]]
PartFiles(t) == {FileOf(t, i) : i \in DOMAIN form[t]}
NamedFiles(t) == {f \in PartFiles(t) : f.part.named}

Init ==
    /\ stored = Initial
    /\ partial = {}
    /\ temp = {}
    /\ pc = [t \in Threads |-> "idle"]
    /\ kind = [t \in Threads |-> "download"]
    /\ form = [t \in Threads |-> <<>>]
    /\ at = [t \in Threads |-> 1]
    /\ target = [t \in Threads |-> NoFile]
    /\ request = [t \in Threads |-> 0]
    /\ arrived = 0
    /\ reply = [r \in Requests |-> "none"]
    /\ known = Initial
    /\ removals = {}

Goto(t, phase) == pc' = [pc EXCEPT ![t] = phase]

\* The response is sent, and the handler is destroyed with all it had.
Answer(t, answer) ==
    /\ reply' = [reply EXCEPT ![request[t]] = answer]
    /\ pc' = [pc EXCEPT ![t] = "idle"]
    /\ kind' = [kind EXCEPT ![t] = "download"]
    /\ form' = [form EXCEPT ![t] = <<>>]
    /\ at' = [at EXCEPT ![t] = 1]
    /\ target' = [target EXCEPT ![t] = NoFile]
    /\ request' = [request EXCEPT ![t] = 0]

-------------------------------------------------------------------------------
\* A request arrives; only POST and PUT bodies are read as forms.  A PUT to a
\* function that keeps the old file (remove_file_on_modify_) is an upload.
Arrive(t, k, parts) ==
    /\ pc[t] = "idle" /\ arrived < MaxRequests
    /\ parts # <<>> => k \in {"upload", "modify"}
    /\ arrived' = arrived + 1
    /\ request' = [request EXCEPT ![t] = arrived']
    /\ kind' = [kind EXCEPT ![t] = k]
    /\ form' = [form EXCEPT ![t] = parts]
    /\ Goto(t, IF parts = <<>> THEN "actions" ELSE "receive")
    /\ UNCHANGED <<stored, partial, temp, at, target, reply, known, removals>>

\* Mutant: the loop over the parts goes one too far.
HandlePartTooMany(t) ==
    /\ pc[t] = "receive"
    /\ temp' = temp \cup {FileOf(t, at[t])}
    /\ IF at[t] <= Len(form[t])
       THEN at' = [at EXCEPT ![t] = @ + 1] /\ UNCHANGED pc
       ELSE at' = [at EXCEPT ![t] = 1] /\ Goto(t, "actions")
    /\ UNCHANGED <<stored, partial, arrived, known, removals, kind, form, target,
                   request, reply>>

\* FileManager::handlePart, called for each file part by Poco's HTMLForm: the
\* part is written to a temporary file, and nothing looks at whether the file
\* could be opened.  An exception ends the request (500).
HandlePart(t) ==
    /\ pc[t] = "receive"
    /\ temp' \in {temp, temp \cup {FileOf(t, at[t])}}
    /\ \/ /\ IF at[t] < Len(form[t])
             THEN at' = [at EXCEPT ![t] = @ + 1] /\ UNCHANGED pc
             ELSE at' = [at EXCEPT ![t] = 1] /\ Goto(t, "actions")
          /\ UNCHANGED <<kind, form, target, request, reply>>
       \/ Answer(t, "error")
    /\ UNCHANGED <<stored, partial, arrived, known, removals>>

\* ProcessFile_: the actions fail, or the final one returns the path of a file
\* clients know - removed since or not - or no row: then the path is the
\* directory itself, and CheckFile_ turns it into index.html.
ProcessFile(t) ==
    /\ pc[t] = "actions"
    /\ \/ kind[t] = "upload" /\ Goto(t, "accept") /\ UNCHANGED <<handler, reply>>
       \/ /\ kind[t] # "upload"
          /\ \E f \in known \cup {IndexFile} : target' = [target EXCEPT ![t] = f]
          /\ Goto(t, "check")
          /\ UNCHANGED <<kind, form, at, request, reply>>
       \/ Answer(t, "refused")
    /\ UNCHANGED <<stored, partial, temp, arrived, known, removals>>

\* CheckFiles_ for kDownload and kDelete: 404 for a file that is missing or
\* cannot be read.
CheckFile(t) ==
    /\ pc[t] = "check"
    /\ \/ /\ target[t] \in stored
          /\ Goto(t, IF kind[t] = "download" THEN "header" ELSE "remove")
          /\ UNCHANGED <<handler, reply>>
       \/ Answer(t, "notFound")
    /\ UNCHANGED <<stored, partial, temp, arrived, known, removals>>

\* After the removal a function that modifies goes on with the new file.
AfterRemoval(t) ==
    IF kind[t] = "remove"
    THEN Answer(t, "removed")
    ELSE Goto(t, "accept") /\ UNCHANGED <<handler, reply>>

\* Mutant: a file that is gone already counts as removed.
RemoveFileQuietly(t) ==
    /\ pc[t] = "remove"
    /\ \/ /\ stored' = stored \ {target[t]}
          /\ removals' = removals \cup {[file |-> target[t], request |-> request[t]]}
          /\ AfterRemoval(t)
       \/ Answer(t, "refused") /\ UNCHANGED <<stored, removals>>
    /\ UNCHANGED <<partial, temp, arrived, known>>

\* Mutant: the removal is answered and the file stays.
RemoveFileNot(t) ==
    /\ pc[t] = "remove"
    /\ target[t] \in stored
    /\ removals' = removals \cup {[file |-> target[t], request |-> request[t]]}
    /\ AfterRemoval(t)
    /\ UNCHANGED <<stored, partial, temp, arrived, known>>

\* RemoveFile_: it throws, and Process_ answers 400, when the file has gone
\* since the check or cannot be removed.
RemoveFile(t) ==
    /\ pc[t] = "remove"
    /\ \/ /\ target[t] \in stored
          /\ stored' = stored \ {target[t]}
          /\ removals' = removals \cup {[file |-> target[t], request |-> request[t]]}
          /\ AfterRemoval(t)
       \/ Answer(t, "refused") /\ UNCHANGED <<stored, removals>>
    /\ UNCHANGED <<partial, temp, arrived, known>>

-------------------------------------------------------------------------------
(* Uploading                                                               *)

\* ChangePathAndFilename_ draws a path for every part, until no file has it: it
\* may give up or throw.  Then IsSupported_ looks at every part, and
\* VerifyMaxFileSize_ at lengths nobody has set yet, which are all zero.
Accept(t) ==
    /\ pc[t] = "accept"
    /\ \/ /\ form[t] # <<>>
          /\ \A f \in PartFiles(t) : f.part.ext \in Supported
          /\ Goto(t, "upload")
          /\ UNCHANGED <<handler, reply>>
       \/ form[t] = <<>> /\ Answer(t, "ok")
       \/ form[t] # <<>> /\ Answer(t, "refused")
    /\ UNCHANGED <<stored, partial, temp, arrived, known, removals>>

\* The next turn of the loop of UploadFile_, or the answer: the client is told
\* the names of the files.
NextPart(t) ==
    IF at[t] < Len(form[t])
    THEN /\ at' = [at EXCEPT ![t] = @ + 1]
         /\ UNCHANGED <<pc, kind, form, target, request, reply, known>>
    ELSE /\ Answer(t, "ok")
         /\ known' = known \cup NamedFiles(t)

\* Mutant: a part that could not be moved is left out of the answer only.
UploadFileSkipping(t) ==
    /\ pc[t] = "upload"
    /\ \/ /\ stored' = stored \cup {FileOf(t, at[t])}
          /\ temp' = temp \ {FileOf(t, at[t])}
          /\ NextPart(t)
       \/ NextPart(t) /\ UNCHANGED <<stored, temp>>
    /\ UNCHANGED <<partial, arrived, removals>>

\* Mutant: the temporary file is copied.
UploadFileCopying(t) ==
    /\ pc[t] = "upload"
    /\ stored' = stored \cup {FileOf(t, at[t])}
    /\ NextPart(t)
    /\ UNCHANGED <<partial, temp, arrived, removals>>

\* Mutant: a part that could not be moved does not end the loop.
UploadFileOn(t) ==
    LET f == FileOf(t, at[t]) IN
    /\ pc[t] = "upload"
    /\ stored' = stored \cup {f}
    /\ temp' = temp \ {f}
    /\ IF at[t] < Len(form[t])
       THEN /\ at' = [at EXCEPT ![t] = @ + 1]
            /\ UNCHANGED <<pc, kind, form, target, request, reply>>
       ELSE Answer(t, "refused")
    /\ UNCHANGED <<partial, arrived, known, removals>>

\* One turn of the loop of UploadFile_.  moveTo copies the temporary file and
\* removes it, or throws, with no copy, a broken one or a whole one left
\* behind; then ProcessContentLength_ asks for the size of every file of the
\* request and throws for one that is not in its place yet.  A part without a
\* name is passed over.
UploadFile(t) ==
    LET f == FileOf(t, at[t]) IN
    /\ pc[t] = "upload"
    /\ \/ ~f.part.named /\ NextPart(t) /\ UNCHANGED <<stored, partial, temp>>
       \/ /\ f.part.named /\ f \in temp
          /\ stored' = stored \cup {f}
          /\ temp' = temp \ {f}
          /\ IF PartFiles(t) \subseteq stored'
             THEN NextPart(t)
             ELSE Answer(t, "refused") /\ UNCHANGED known
          /\ UNCHANGED partial
       \/ /\ f.part.named
          /\ \/ UNCHANGED <<stored, partial>>
             \/ partial' = partial \cup {f} /\ UNCHANGED stored
             \/ stored' = stored \cup {f} /\ UNCHANGED partial
          /\ Answer(t, "refused")
          /\ UNCHANGED <<temp, known>>
    /\ UNCHANGED <<arrived, removals>>

-------------------------------------------------------------------------------
(* Downloading                                                             *)

\* IsSupported_, then the size for the header, which throws (400) when the
\* file has gone, then the header with status 200.
SendHeader(t) ==
    /\ pc[t] = "header"
    /\ \/ /\ target[t].part.ext \in Supported /\ target[t] \in stored
          /\ Goto(t, "body")
          /\ UNCHANGED <<handler, reply>>
       \/ /\ target[t].part.ext \notin Supported \/ target[t] \notin stored
          /\ Answer(t, "refused")
    /\ UNCHANGED <<stored, partial, temp, arrived, known, removals>>

\* Mutant: the body waits for the file.
SendBodyWaiting(t) ==
    /\ pc[t] = "body"
    /\ target[t] \in stored
    /\ Answer(t, "ok")
    /\ UNCHANGED <<stored, partial, temp, arrived, known, removals>>

\* DownloadFile_: the file is opened and read.  When that fails, or the file
\* has gone, the header is all the client gets: the response is sent already.
SendBody(t) ==
    /\ pc[t] = "body"
    /\ \/ target[t] \in stored /\ Answer(t, "ok")
       \/ Answer(t, "cut")
    /\ UNCHANGED <<stored, partial, temp, arrived, known, removals>>

-------------------------------------------------------------------------------
Process(t) ==
    \/ HandlePart(t)
    \/ ProcessFile(t)
    \/ CheckFile(t)
    \/ RemoveFile(t)
    \/ Accept(t)
    \/ UploadFile(t)
    \/ SendHeader(t)
    \/ SendBody(t)

Next ==
    \/ \E t \in Threads, k \in Kinds, parts \in Forms : Arrive(t, k, parts)
    \/ \E t \in Threads : Process(t)

\* A thread runs on; calls to the file system return or throw.
Fairness == \A t \in Threads : WF_vars(Process(t))

Spec == Init /\ [][Next]_vars /\ Fairness

-------------------------------------------------------------------------------
\* Types of the variables.
TypeOK ==
    /\ stored \in SUBSET File
    /\ partial \in SUBSET File
    /\ temp \in SUBSET File
    /\ pc \in [Threads -> Phases]
    /\ kind \in [Threads -> Kinds]
    /\ form \in [Threads -> Forms]
    /\ at \in [Threads -> Nat \ {0}]
    /\ target \in [Threads -> File \cup {NoFile}]
    /\ request \in [Threads -> 0 .. MaxRequests]
    /\ arrived \in 0 .. MaxRequests
    /\ reply \in [Requests -> Replies]
    /\ known \in SUBSET File
    /\ removals \in SUBSET [file : File, request : Requests]
    /\ \A t \in Threads :
          /\ pc[t] # "idle" => request[t] \in Requests
          /\ pc[t] \in {"receive", "upload"} => at[t] \in DOMAIN form[t]
          /\ pc[t] \in {"check", "remove", "header", "body"} => target[t] \in File

Removed == {r.file : r \in removals}

\* A client that was told of a file can have it until somebody removes it: the
\* files of an upload that was answered Ok are in their place, with any mixture
\* of uploads, modifications and removals going on.
KnownIsStored == known \subseteq stored \cup Removed

\* A file is removed by one request: of two that have checked it only one goes
\* on, the other is refused; and a removal answered Ok has removed its file.
RemovedOnce ==
    /\ \A a, b \in removals : a.file = b.file => a = b
    /\ Removed \cap stored = {}
    /\ \A r \in Requests :
          reply[r] = "removed" => \E a \in removals : a.request = r

\* No temporary file is left of an upload that was answered Ok, except for
\* parts without a name; every other one belongs to a request at work or to
\* one that was refused.
TempIsMoved ==
    \A f \in temp : f.part.named => reply[f.request] # "ok"

\* What a request that did not succeed leaves in the directory without telling
\* anyone: nothing, or one file, broken or whole.
OneStray ==
    LET strays == (stored \cup partial) \ known IN
    \A f, g \in strays : f.request = g.request => f = g

Shelf == INSTANCE FileShelf WITH
            shelf <- known \cap stored,
            gone <- Removed

\* The files clients have been told of behave as a shelf.
ImplementsShelf == Shelf!ShelfSpec

\* Every request is answered.
RequestsEnd ==
    \A t \in Threads : pc[t] # "idle" ~> pc[t] = "idle"

\* What the loop "for each file" of UploadFile_ is for: a request is not
\* refused by the step that has moved a file of it to its place.
SeveralFilesAreStored ==
    [][\A t \in Threads :
          pc[t] = "upload" /\ stored' # stored /\ temp' # temp
             => pc'[t] = "upload" \/ reply'[request[t]] = "ok"]_vars

===============================================================================
