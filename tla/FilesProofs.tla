----------------------------- MODULE FilesProofs -----------------------------
(***************************************************************************)
(* Files, for any number of threads, requests and parts and any files at   *)
(* first: types, files clients know of, removals, temporary files, strays, *)
(* and the implementation of FileShelf.                                    *)
(***************************************************************************)
EXTENDS Files, TLAPS

Active(t) == pc[t] # "idle"

\* Every request at work has a number of its own and no answer yet.
RequestInv ==
    /\ \A t \in Threads : Active(t) =>
          /\ request[t] \in 1 .. arrived
          /\ reply[request[t]] = "none"
    /\ \A t, u \in Threads : Active(t) /\ Active(u) /\ request[t] = request[u] => t = u
    /\ \A r \in Requests : r > arrived => reply[r] = "none"

\* Nobody has seen a file of a request at work, and its temporary files are
\* parts of its form.
FileInv ==
    /\ \A f \in stored \cup partial \cup known : f.request <= arrived
    /\ \A f \in temp : f.request \in 1 .. arrived
    /\ \A f \in stored : f.request = 0 => f \in known
    /\ Removed \subseteq known
    /\ \A t \in Threads : Active(t) =>
          /\ \A f \in stored \cup partial \cup known : f.request # request[t]
          /\ \A f \in temp : f.request = request[t] => f \in PartFiles(t)

\* A handler works on a file clients know of, only uploads and modifications
\* have forms, and the loop gets past a part only if the part has no name.
HandlerInv ==
    \A t \in Threads :
       /\ pc[t] \in {"check", "remove", "header", "body"}
             => target[t] \in known \cup {IndexFile}
       /\ pc[t] \notin {"receive", "upload"} => at[t] = 1
       /\ form[t] # <<>> => kind[t] \in {"upload", "modify"}
       /\ pc[t] \in {"header", "body"} => kind[t] = "download"
       /\ pc[t] = "upload" =>
             \A i \in DOMAIN form[t] : i < at[t] => ~form[t][i].named

IInv ==
    /\ TypeOK
    /\ RequestInv
    /\ FileInv
    /\ HandlerInv
    /\ KnownIsStored
    /\ RemovedOnce
    /\ TempIsMoved
    /\ OneStray

-------------------------------------------------------------------------------
\* The file of a part has the number of the request and the index of the part.
LEMMA FileOfPart ==
    ASSUME TypeOK, NEW t \in Threads, Active(t), NEW i \in DOMAIN form[t]
    PROVE  /\ FileOf(t, i) \in File
           /\ FileOf(t, i).request = request[t]
           /\ FileOf(t, i).index = i
           /\ FileOf(t, i).part = form[t][i]
           /\ FileOf(t, i) \in PartFiles(t)
<1>1. form[t] \in Seq(Part) /\ request[t] \in Nat
  BY ConstantsAssumption DEF TypeOK, Active, Requests
<1>2. form[t][i] \in Part /\ i \in Nat
  BY <1>1
<1> QED BY <1>1, <1>2 DEF FileOf, File, PartFiles

\* The parts of a form are files of the request.
LEMMA PartFilesAreFiles ==
    ASSUME TypeOK, NEW t \in Threads, Active(t), NEW f \in PartFiles(t)
    PROVE  f \in File /\ f.request = request[t]
<1>1. PICK i \in DOMAIN form[t] : f = FileOf(t, i)
  BY DEF PartFiles
<1> QED BY <1>1, FileOfPart

\* A request may be answered, except Ok for a removal, when it leaves at most
\* one file in the directory, in its place if clients are told of it, and no
\* named temporary file if it succeeds.
LEMMA AnswerInv ==
    ASSUME IInv, NEW t \in Threads, Active(t),
           NEW a \in Replies \ {"removed"}, Answer(t, a),
           NEW S \in SUBSET File,
           \A f \in S : f.request = request[t],
           \A f, g \in S : f = g,
           stored \subseteq stored', stored' \subseteq stored \cup S,
           partial' \subseteq partial \cup S,
           temp' \subseteq temp \cup PartFiles(t),
           known \subseteq known', known' \subseteq known \cup (S \cap stored'),
           known' = known \/ S \subseteq known',
           a = "ok" => \A f \in temp' : f.request = request[t] => ~f.part.named,
           arrived' = arrived, removals' = removals
    PROVE  IInv'
<1> USE DEF IInv
<1>1. request[t] \in Requests /\ request[t] \in 1 .. arrived /\ <<>> \in Forms
  BY ConstantsAssumption DEF TypeOK, RequestInv, Active
<1>2. \A f \in PartFiles(t) : f \in File /\ f.request = request[t]
  BY PartFilesAreFiles
<1>3. TypeOK'
  <2>1. /\ pc' \in [Threads -> Phases]
        /\ kind' \in [Threads -> Kinds]
        /\ form' \in [Threads -> Forms]
        /\ at' \in [Threads -> Nat \ {0}]
        /\ target' \in [Threads -> File \cup {NoFile}]
        /\ request' \in [Threads -> 0 .. MaxRequests]
        /\ reply' \in [Requests -> Replies]
    BY <1>1, ConstantsAssumption DEF TypeOK, Answer, Phases, Kinds
  <2>2. \A u \in Threads :
           /\ pc'[u] # "idle" => request'[u] \in Requests
           /\ pc'[u] \in {"receive", "upload"} => at'[u] \in DOMAIN form'[u]
           /\ pc'[u] \in {"check", "remove", "header", "body"} => target'[u] \in File
    BY DEF TypeOK, Answer
  <2>3. /\ stored' \in SUBSET File /\ partial' \in SUBSET File
        /\ temp' \in SUBSET File /\ known' \in SUBSET File
    BY <1>2 DEF TypeOK
  <2> QED BY <2>1, <2>2, <2>3 DEF TypeOK
<1>4. RequestInv'
  BY <1>1 DEF RequestInv, Active, Answer, TypeOK, Requests
<1>5. FileInv'
  <2>1. \A f \in stored' \cup partial' \cup known' :
           f \in stored \cup partial \cup known \/ f.request = request[t]
    OBVIOUS
  <2>2. \A f \in temp' : f \in temp \/ f.request = request[t]
    BY <1>2
  <2>3. \A u \in Threads : Active(u)' =>
           u # t /\ Active(u) /\ request'[u] = request[u] /\ request[u] # request[t]
                 /\ PartFiles(u)' = PartFiles(u)
    BY DEF Active, Answer, TypeOK, PartFiles, FileOf, RequestInv
  <2>4. /\ \A f \in stored' \cup partial' \cup known' : f.request <= arrived
        /\ \A f \in temp' : f.request \in 1 .. arrived
    BY <1>1, <2>1, <2>2 DEF FileInv, TypeOK
  <2>5. \A f \in stored' : f.request = 0 => f \in known'
    BY <1>1 DEF FileInv
  <2>6. Removed' \subseteq known'
    BY DEF Removed, FileInv
  <2>7. \A u \in Threads : Active(u)' =>
           /\ \A f \in stored' \cup partial' \cup known' : f.request # request'[u]
           /\ \A f \in temp' : f.request = request'[u] => f \in PartFiles(u)'
    BY <2>1, <2>2, <2>3 DEF FileInv
  <2> QED BY <2>4, <2>5, <2>6, <2>7 DEF FileInv
<1>6. HandlerInv'
  BY DEF HandlerInv, Answer, TypeOK
<1>7. KnownIsStored'
  BY DEF KnownIsStored, Removed
<1>8. RemovedOnce'
  <2>1. Removed' = Removed /\ \A f \in Removed : f \in known
    BY DEF Removed, FileInv
  <2>2. Removed' \cap stored' = {}
    BY <2>1 DEF RemovedOnce, FileInv
  <2> QED BY <2>2 DEF RemovedOnce, Answer, TypeOK
<1>9. TempIsMoved'
  <2> SUFFICES ASSUME NEW f \in temp', f.part.named PROVE reply'[f.request] # "ok"
    BY DEF TempIsMoved
  <2>1. CASE f.request = request[t]
    BY <2>1, <1>1 DEF Answer, TypeOK
  <2>2. CASE f.request # request[t]
    BY <2>2, <1>2 DEF Answer, TypeOK, TempIsMoved
  <2> QED BY <2>1, <2>2
<1>10. OneStray'
  <2> SUFFICES ASSUME NEW f \in (stored' \cup partial') \ known',
                      NEW g \in (stored' \cup partial') \ known',
                      f.request = g.request
               PROVE  f = g
    BY DEF OneStray
  <2>1. CASE f \in S /\ g \in S
    BY <2>1
  <2>2. CASE f \notin S /\ g \notin S
    BY <2>2 DEF OneStray
  <2>3. CASE f \in S /\ g \notin S
    BY <2>3 DEF FileInv
  <2>4. CASE g \in S /\ f \notin S
    BY <2>4 DEF FileInv
  <2> QED BY <2>1, <2>2, <2>3, <2>4
<1> QED BY <1>3, <1>4, <1>5, <1>6, <1>7, <1>8, <1>9, <1>10

\* An answer after which every file is where it was.
LEMMA AnswerQuietly ==
    ASSUME IInv, NEW t \in Threads, Active(t),
           NEW a \in Replies \ {"removed"}, Answer(t, a),
           UNCHANGED <<stored, partial, temp, known, arrived, removals>>,
           a = "ok" => \A f \in temp : f.request = request[t] => ~f.part.named
    PROVE  IInv'
<1> DEFINE S == {}
<1>1. /\ S \in SUBSET File
      /\ \A f \in S : f.request = request[t]
      /\ \A f, g \in S : f = g
      /\ stored \subseteq stored' /\ stored' \subseteq stored \cup S
      /\ partial' \subseteq partial \cup S
      /\ temp' \subseteq temp \cup PartFiles(t)
      /\ known \subseteq known' /\ known' \subseteq known \cup (S \cap stored')
      /\ known' = known \/ S \subseteq known'
      /\ a = "ok" => \A f \in temp' : f.request = request[t] => ~f.part.named
      /\ arrived' = arrived /\ removals' = removals
  OBVIOUS
<1> HIDE DEF S
<1> QED BY <1>1, AnswerInv

\* A step inside a request that changes no file but its own temporary ones
\* leaves all but the types and the handlers as they are.
LEMMA MoveInv ==
    ASSUME IInv, NEW t \in Threads, Active(t),
           NEW phase \in Phases \ {"idle"}, pc' = [pc EXCEPT ![t] = phase],
           temp' \subseteq temp \cup PartFiles(t),
           UNCHANGED <<stored, partial, known, removals, arrived, request, form,
                       reply>>
    PROVE  /\ RequestInv' /\ FileInv' /\ KnownIsStored' /\ RemovedOnce'
           /\ TempIsMoved' /\ OneStray'
<1> USE DEF IInv
<1>1. /\ \A u \in Threads : Active(u)' <=> Active(u)
      /\ \A u \in Threads : PartFiles(u)' = PartFiles(u)
      /\ Removed' = Removed
  BY DEF Active, TypeOK, PartFiles, FileOf, Removed
<1>2. \A f \in PartFiles(t) : f \in File /\ f.request = request[t]
  BY PartFilesAreFiles
<1>3. request[t] \in 1 .. arrived /\ reply[request[t]] = "none"
  BY DEF RequestInv
<1>4. RequestInv'
  BY <1>1 DEF RequestInv
<1>5. FileInv'
  <2>1. \A f \in temp' : f.request \in 1 .. arrived
    BY <1>2, <1>3 DEF FileInv
  <2>2. \A u \in Threads : Active(u) => \A f \in temp' :
           f.request = request[u] => f \in PartFiles(u)
    BY <1>2 DEF FileInv, RequestInv
  <2> QED BY <1>1, <2>1, <2>2 DEF FileInv
<1>6. TempIsMoved'
  BY <1>2, <1>3 DEF TempIsMoved
<1>7. KnownIsStored' /\ RemovedOnce' /\ OneStray'
  BY <1>1 DEF KnownIsStored, RemovedOnce, OneStray
<1> QED BY <1>4, <1>5, <1>6, <1>7

-------------------------------------------------------------------------------
(* The actions                                                             *)

\* A new request gets a number above those of all files.
LEMMA ArriveInv ==
    ASSUME IInv, NEW t \in Threads, NEW k \in Kinds, NEW parts \in Forms,
           Arrive(t, k, parts)
    PROVE  IInv'
<1> USE DEF IInv
<1> DEFINE n == arrived + 1
<1>1. /\ n \in Requests /\ arrived' = n /\ n > arrived
      /\ request' = [request EXCEPT ![t] = n]
      /\ reply[n] = "none"
  BY ConstantsAssumption DEF Arrive, TypeOK, Requests, RequestInv
<1>2. \A u \in Threads : Active(u)' /\ u # t =>
         Active(u) /\ request'[u] = request[u] /\ PartFiles(u)' = PartFiles(u)
  BY DEF Active, Arrive, Goto, TypeOK, PartFiles, FileOf
<1>3. TypeOK'
  <2>1. /\ pc' \in [Threads -> Phases]
        /\ kind' \in [Threads -> Kinds]
        /\ form' \in [Threads -> Forms]
        /\ request' \in [Threads -> 0 .. MaxRequests]
        /\ arrived' \in 0 .. MaxRequests
    BY <1>1, ConstantsAssumption DEF Arrive, Goto, TypeOK, Phases, Requests
  <2>2. parts # <<>> => 1 \in DOMAIN parts
    BY ConstantsAssumption
  <2>3. \A u \in Threads :
           /\ pc'[u] # "idle" => request'[u] \in Requests
           /\ pc'[u] \in {"receive", "upload"} => at'[u] \in DOMAIN form'[u]
           /\ pc'[u] \in {"check", "remove", "header", "body"} => target'[u] \in File
    BY <1>1, <2>2 DEF Arrive, Goto, TypeOK, HandlerInv
  <2> QED BY <2>1, <2>3 DEF Arrive, TypeOK
<1>4. RequestInv'
  BY <1>1, <1>2 DEF RequestInv, Active, TypeOK, Requests, Arrive
<1>5. FileInv'
  <2>1. \A f \in stored \cup partial \cup known : f \in File /\ f.request <= arrived
    BY DEF FileInv, TypeOK
  <2>2. \A f \in stored \cup partial \cup known : f.request <= n /\ f.request # n
    BY <1>1, <2>1 DEF File, TypeOK
  <2>3. \A f \in temp : f.request \in 1 .. n /\ f.request # n
    BY <1>1 DEF FileInv, TypeOK
  <2>4. Removed' = Removed
    BY DEF Removed, Arrive
  <2>5. request'[t] = n
    BY <1>1 DEF TypeOK
  <2>6. \A u \in Threads : Active(u)' =>
           /\ \A f \in stored \cup partial \cup known : f.request # request'[u]
           /\ \A f \in temp : f.request = request'[u] => f \in PartFiles(u)'
    BY <1>2, <2>2, <2>3, <2>5 DEF FileInv
  <2> QED BY <1>1, <2>2, <2>3, <2>4, <2>6 DEF FileInv, Arrive
<1>6. HandlerInv'
  BY DEF HandlerInv, Arrive, Goto, TypeOK
<1>7. KnownIsStored' /\ RemovedOnce' /\ TempIsMoved' /\ OneStray'
  BY DEF KnownIsStored, RemovedOnce, TempIsMoved, OneStray, Arrive, Removed
<1> QED BY <1>3, <1>4, <1>5, <1>6, <1>7

\* The temporary file of a part belongs to the request.
LEMMA HandlePartInv ==
    ASSUME IInv, NEW t \in Threads, HandlePart(t)
    PROVE  IInv'
<1>1. Active(t) /\ at[t] \in DOMAIN form[t] /\ form[t] \in Seq(Part)
  BY ConstantsAssumption DEF IInv, TypeOK, HandlePart, Active
<1> DEFINE f == FileOf(t, at[t])
<1>2. f \in File /\ f \in PartFiles(t)
  BY <1>1, FileOfPart DEF IInv
<1>3. CASE Answer(t, "error")
  <2>1. /\ {} \in SUBSET File
        /\ temp' \subseteq temp \cup PartFiles(t)
        /\ UNCHANGED <<stored, partial, known, arrived, removals>>
    BY <1>2 DEF HandlePart
  <2> QED BY <1>1, <1>3, <2>1, AnswerInv DEF Replies
<1>4. CASE /\ at[t] < Len(form[t])
           /\ at' = [at EXCEPT ![t] = @ + 1] /\ UNCHANGED pc
           /\ temp' \in {temp, temp \cup {f}}
           /\ UNCHANGED <<kind, form, target, request, reply>>
  <2>1. pc' = [pc EXCEPT ![t] = "receive"]
    BY <1>4 DEF HandlePart, IInv, TypeOK
  <2>2. /\ RequestInv' /\ FileInv' /\ KnownIsStored' /\ RemovedOnce'
        /\ TempIsMoved' /\ OneStray'
    BY <1>1, <1>2, <1>4, <2>1, MoveInv DEF HandlePart, Phases
  <2>3. TypeOK'
    BY <1>1, <1>2, <1>4 DEF HandlePart, IInv, TypeOK
  <2>4. HandlerInv'
    BY <1>4 DEF HandlePart, IInv, TypeOK, HandlerInv
  <2> QED BY <2>2, <2>3, <2>4 DEF IInv
<1>5. CASE /\ at' = [at EXCEPT ![t] = 1] /\ Goto(t, "actions")
           /\ temp' \in {temp, temp \cup {f}}
           /\ UNCHANGED <<kind, form, target, request, reply>>
  <2>2. /\ RequestInv' /\ FileInv' /\ KnownIsStored' /\ RemovedOnce'
        /\ TempIsMoved' /\ OneStray'
    BY <1>1, <1>2, <1>5, MoveInv DEF HandlePart, Phases, Goto
  <2>3. TypeOK'
    BY <1>1, <1>2, <1>5 DEF HandlePart, IInv, TypeOK, Goto, Phases
  <2>4. HandlerInv'
    BY <1>5 DEF HandlePart, IInv, TypeOK, HandlerInv, Goto
  <2> QED BY <2>2, <2>3, <2>4 DEF IInv
<1> QED BY <1>3, <1>4, <1>5 DEF HandlePart

\* The path that the actions find is a file clients know of, or index.html.
LEMMA ProcessFileInv ==
    ASSUME IInv, NEW t \in Threads, ProcessFile(t)
    PROVE  IInv'
<1>1. Active(t)
  BY DEF ProcessFile, Active
<1>2. CASE Answer(t, "refused")
  BY <1>1, <1>2, AnswerQuietly DEF ProcessFile, Replies
<1>3. CASE kind[t] = "upload" /\ Goto(t, "accept") /\ UNCHANGED <<handler, reply>>
  <2>1. /\ RequestInv' /\ FileInv' /\ KnownIsStored' /\ RemovedOnce'
        /\ TempIsMoved' /\ OneStray'
    BY <1>1, <1>3, MoveInv DEF ProcessFile, Phases, Goto, handler
  <2>2. TypeOK'
    BY <1>3 DEF ProcessFile, IInv, TypeOK, Goto, Phases, handler
  <2>3. HandlerInv'
    BY <1>3 DEF ProcessFile, IInv, TypeOK, HandlerInv, Goto, handler
  <2> QED BY <2>1, <2>2, <2>3 DEF IInv
<1>4. CASE /\ \E f \in known \cup {IndexFile} : target' = [target EXCEPT ![t] = f]
           /\ Goto(t, "check")
           /\ UNCHANGED <<kind, form, at, request, reply>>
  <2>0. PICK f \in known \cup {IndexFile} : target' = [target EXCEPT ![t] = f]
    BY <1>4
  <2>1. /\ RequestInv' /\ FileInv' /\ KnownIsStored' /\ RemovedOnce'
        /\ TempIsMoved' /\ OneStray'
    BY <1>1, <1>4, MoveInv DEF ProcessFile, Phases, Goto
  <2>2. TypeOK'
    BY <1>4, <2>0, ConstantsAssumption DEF ProcessFile, IInv, TypeOK, Goto, Phases
  <2>3. HandlerInv'
    BY <1>4, <2>0 DEF ProcessFile, IInv, TypeOK, HandlerInv, Goto
  <2> QED BY <2>1, <2>2, <2>3 DEF IInv
<1> QED BY <1>2, <1>3, <1>4 DEF ProcessFile

\* The check changes no file.
LEMMA CheckFileInv ==
    ASSUME IInv, NEW t \in Threads, CheckFile(t)
    PROVE  IInv'
<1>1. Active(t)
  BY DEF CheckFile, Active
<1>2. CASE Answer(t, "notFound")
  BY <1>1, <1>2, AnswerQuietly DEF CheckFile, Replies
<1>3. CASE /\ Goto(t, IF kind[t] = "download" THEN "header" ELSE "remove")
           /\ UNCHANGED <<handler, reply>>
  <2>1. /\ RequestInv' /\ FileInv' /\ KnownIsStored' /\ RemovedOnce'
        /\ TempIsMoved' /\ OneStray'
    <3> DEFINE phase == IF kind[t] = "download" THEN "header" ELSE "remove"
    <3>1. phase \in Phases \ {"idle"}
      BY DEF Phases
    <3> QED BY <1>1, <1>3, <3>1, MoveInv DEF CheckFile, Goto, handler
  <2>2. TypeOK'
    BY <1>3 DEF CheckFile, IInv, TypeOK, Goto, Phases, handler
  <2>3. HandlerInv'
    BY <1>3 DEF CheckFile, IInv, TypeOK, HandlerInv, Goto, handler
  <2> QED BY <2>1, <2>2, <2>3 DEF IInv
<1> QED BY <1>2, <1>3 DEF CheckFile

\* A part is moved only while its request is at work: the others of the form
\* are not in their place yet.
LEMMA OnlyThisPart ==
    ASSUME IInv, NEW t \in Threads, Active(t), NEW i \in DOMAIN form[t],
           PartFiles(t) \subseteq stored \cup {FileOf(t, i)}
    PROVE  PartFiles(t) = {FileOf(t, i)} /\ i = Len(form[t])
<1>1. form[t] \in Seq(Part)
  BY ConstantsAssumption DEF IInv, TypeOK
<1>2. FileOf(t, i) \in PartFiles(t)
  BY FileOfPart DEF IInv
<1>3. PartFiles(t) = {FileOf(t, i)}
  BY <1>2, PartFilesAreFiles DEF IInv, FileInv
<1>4. Len(form[t]) \in DOMAIN form[t]
  BY <1>1
<1>5. FileOf(t, Len(form[t])) \in PartFiles(t)
  BY <1>4 DEF PartFiles
<1>6. FileOf(t, Len(form[t])).index = Len(form[t]) /\ FileOf(t, i).index = i
  BY <1>4, FileOfPart DEF IInv
<1> QED BY <1>3, <1>5, <1>6

\* Nothing is accepted but forms whose parts are supported; an empty form has
\* no temporary file.
LEMMA AcceptInv ==
    ASSUME IInv, NEW t \in Threads, Accept(t)
    PROVE  IInv'
<1>1. Active(t) /\ form[t] \in Seq(Part)
  BY ConstantsAssumption DEF Accept, Active, IInv, TypeOK
<1>2. CASE Answer(t, "refused")
  BY <1>1, <1>2, AnswerQuietly DEF Accept, Replies
<1>3. CASE form[t] = <<>> /\ Answer(t, "ok")
  <2>1. \A f \in temp : f.request # request[t]
    BY <1>1, <1>3 DEF IInv, FileInv, PartFiles
  <2> QED BY <1>1, <1>3, <2>1, AnswerQuietly DEF Accept, Replies
<1>4. CASE form[t] # <<>> /\ Goto(t, "upload") /\ UNCHANGED <<handler, reply>>
  <2>1. /\ RequestInv' /\ FileInv' /\ KnownIsStored' /\ RemovedOnce'
        /\ TempIsMoved' /\ OneStray'
    BY <1>1, <1>4, MoveInv DEF Accept, Phases, Goto, handler
  <2>2. 1 \in DOMAIN form[t] /\ at[t] = 1
    BY <1>1, <1>4 DEF Accept, IInv, HandlerInv
  <2>3. TypeOK'
    BY <1>4, <2>2 DEF Accept, IInv, TypeOK, Goto, Phases, handler
  <2>4. HandlerInv'
    BY <1>1, <1>4, <2>2 DEF Accept, IInv, TypeOK, HandlerInv, Goto, handler
  <2> QED BY <2>1, <2>3, <2>4 DEF IInv
<1> QED BY <1>2, <1>3, <1>4 DEF Accept

\* The upload that succeeds has moved its only named part, its last one.
LEMMA UploadFileInv ==
    ASSUME IInv, NEW t \in Threads, UploadFile(t)
    PROVE  IInv'
<1> DEFINE f == FileOf(t, at[t])
<1>1. Active(t) /\ at[t] \in DOMAIN form[t] /\ form[t] \in Seq(Part)
  BY ConstantsAssumption DEF IInv, TypeOK, UploadFile, Active
<1>2. f \in File /\ f \in PartFiles(t) /\ f.request = request[t]
  BY <1>1, FileOfPart DEF IInv
<1>3. \A g \in temp : g.request = request[t] => g \in PartFiles(t)
  BY <1>1 DEF IInv, FileInv
<1>4. ~f.part.named => \A i \in DOMAIN form[t] : i <= at[t] => ~form[t][i].named
  BY <1>1, FileOfPart DEF IInv, HandlerInv, UploadFile
<1>5. CASE ~f.part.named /\ NextPart(t) /\ UNCHANGED <<stored, partial, temp>>
  <2>1. CASE at[t] < Len(form[t])
    <3>1. pc' = [pc EXCEPT ![t] = "upload"]
      BY <1>5, <2>1 DEF NextPart, UploadFile, IInv, TypeOK
    <3>2. /\ RequestInv' /\ FileInv' /\ KnownIsStored' /\ RemovedOnce'
          /\ TempIsMoved' /\ OneStray'
      BY <1>1, <1>5, <2>1, <3>1, MoveInv DEF UploadFile, NextPart, Phases
    <3>3. TypeOK'
      <4>1. at' = [at EXCEPT ![t] = @ + 1] /\ at[t] + 1 \in DOMAIN form[t]
        BY <1>1, <1>5, <2>1 DEF NextPart
      <4>2. /\ UNCHANGED <<pc, kind, form, target, request, reply, known>>
            /\ UNCHANGED <<stored, partial, temp, arrived, removals>>
        BY <1>5, <2>1 DEF NextPart, UploadFile
      <4> QED BY <4>1, <4>2 DEF IInv, TypeOK
    <3>4. HandlerInv'
      BY <1>1, <1>4, <1>5, <2>1 DEF NextPart, UploadFile, IInv, TypeOK, HandlerInv
    <3> QED BY <3>2, <3>3, <3>4 DEF IInv
  <2>2. CASE ~(at[t] < Len(form[t]))
    <3>1. \A g \in PartFiles(t) : ~g.part.named
      <4>1. \A i \in DOMAIN form[t] : ~form[t][i].named
        BY <1>1, <1>4, <1>5, <2>2
      <4> QED BY <1>1, <4>1, FileOfPart DEF PartFiles, IInv
    <3>2. known' = known /\ Answer(t, "ok")
      <4>1. NamedFiles(t) = {}
        BY <3>1 DEF NamedFiles
      <4>2. Answer(t, "ok") /\ known' = known \cup NamedFiles(t)
        BY <1>5, <2>2 DEF NextPart
      <4> QED BY <4>1, <4>2
    <3> QED BY <1>1, <1>3, <1>5, <3>1, <3>2, AnswerQuietly DEF UploadFile, Replies
  <2> QED BY <2>1, <2>2
<1>6. CASE /\ f.part.named /\ PartFiles(t) \subseteq stored'
           /\ stored' = stored \cup {f} /\ temp' = temp \ {f}
           /\ NextPart(t) /\ UNCHANGED partial
  <2>1. PartFiles(t) = {f} /\ at[t] = Len(form[t])
    BY <1>1, <1>6, OnlyThisPart
  <2>2. Answer(t, "ok") /\ known' = known \cup {f}
    BY <1>1, <1>6, <2>1 DEF NextPart, NamedFiles
  <2>3. \A g \in temp' : g.request # request[t]
    BY <1>3, <1>6, <2>1
  <2> DEFINE S == {f}
  <2>4. /\ S \in SUBSET File /\ \A g \in S : g.request = request[t]
        /\ \A g, h \in S : g = h
        /\ stored \subseteq stored' /\ stored' \subseteq stored \cup S
        /\ partial' \subseteq partial \cup S
        /\ temp' \subseteq temp \cup PartFiles(t)
        /\ known \subseteq known' /\ known' \subseteq known \cup (S \cap stored')
        /\ S \subseteq known'
        /\ arrived' = arrived /\ removals' = removals
    BY <1>2, <1>6, <2>2 DEF UploadFile
  <2> HIDE DEF S
  <2> QED BY <1>1, <2>2, <2>3, <2>4, AnswerInv DEF Replies
<1>7. CASE /\ stored' \in {stored, stored \cup {f}}
           /\ partial' \in {partial, partial \cup {f}}
           /\ temp' \in {temp, temp \ {f}} /\ Answer(t, "refused") /\ UNCHANGED known
  <2> DEFINE S == {f}
  <2>1. /\ S \in SUBSET File /\ \A g \in S : g.request = request[t]
        /\ \A g, h \in S : g = h
        /\ stored \subseteq stored' /\ stored' \subseteq stored \cup S
        /\ partial' \subseteq partial \cup S
        /\ temp' \subseteq temp \cup PartFiles(t)
        /\ known \subseteq known' /\ known' \subseteq known \cup (S \cap stored')
        /\ known' = known
        /\ arrived' = arrived /\ removals' = removals
    BY <1>2, <1>7 DEF UploadFile
  <2> HIDE DEF S
  <2>2. Answer(t, "refused") /\ "refused" \in Replies \ {"removed"} /\ "refused" # "ok"
    BY <1>7 DEF Replies
  <2> QED BY <1>1, <2>1, <2>2, AnswerInv
<1> QED BY <1>5, <1>6, <1>7 DEF UploadFile

\* The header changes no file.
LEMMA SendHeaderInv ==
    ASSUME IInv, NEW t \in Threads, SendHeader(t)
    PROVE  IInv'
<1>1. Active(t)
  BY DEF SendHeader, Active
<1>2. CASE Answer(t, "refused")
  BY <1>1, <1>2, AnswerQuietly DEF SendHeader, Replies
<1>3. CASE Goto(t, "body") /\ UNCHANGED <<handler, reply>>
  <2>1. /\ RequestInv' /\ FileInv' /\ KnownIsStored' /\ RemovedOnce'
        /\ TempIsMoved' /\ OneStray'
    BY <1>1, <1>3, MoveInv DEF SendHeader, Phases, Goto, handler
  <2>2. TypeOK'
    BY <1>3 DEF SendHeader, IInv, TypeOK, Goto, Phases, handler
  <2>3. HandlerInv'
    BY <1>3 DEF SendHeader, IInv, TypeOK, HandlerInv, Goto, handler
  <2> QED BY <2>1, <2>2, <2>3 DEF IInv
<1> QED BY <1>2, <1>3 DEF SendHeader

\* Neither does the body, and a download has no temporary file.
LEMMA SendBodyInv ==
    ASSUME IInv, NEW t \in Threads, SendBody(t)
    PROVE  IInv'
<1>1. Active(t) /\ form[t] = <<>>
  BY DEF SendBody, Active, IInv, HandlerInv
<1>2. \A f \in temp : f.request # request[t]
  BY <1>1 DEF IInv, FileInv, PartFiles
<1>3. CASE Answer(t, "ok")
  BY <1>1, <1>2, <1>3, AnswerQuietly DEF SendBody, Replies
<1>4. CASE Answer(t, "cut")
  BY <1>1, <1>4, AnswerQuietly DEF SendBody, Replies
<1> QED BY <1>3, <1>4 DEF SendBody

\* A removal takes a file that nobody has removed yet and that clients know of.
LEMMA RemoveFileInv ==
    ASSUME IInv, NEW t \in Threads, RemoveFile(t)
    PROVE  IInv'
<1> DEFINE f == target[t]
           new == [file |-> f, request |-> request[t]]
<1>1. Active(t) /\ request[t] \in Requests
  BY DEF RemoveFile, Active, IInv, TypeOK
<1>2. CASE Answer(t, "refused") /\ UNCHANGED <<stored, removals>>
  BY <1>1, <1>2, AnswerQuietly DEF RemoveFile, Replies
<1>3. CASE /\ f \in stored /\ stored' = stored \ {f}
           /\ removals' = removals \cup {new}
           /\ AfterRemoval(t)
  <2>1. f \in File /\ f \in known /\ f \notin Removed
    <3>1. f \in known \cup {IndexFile}
      BY DEF IInv, HandlerInv, RemoveFile
    <3> QED BY <1>3, <3>1, ConstantsAssumption
            DEF IInv, FileInv, RemovedOnce, TypeOK
  <2>2. /\ Removed' = Removed \cup {f}
        /\ UNCHANGED <<partial, temp, arrived, known>>
    <3>1. /\ \A r \in removals' : r.file \in Removed \cup {f}
          /\ \A r \in removals : r.file \in Removed'
      BY <1>3 DEF Removed
    <3>2. new \in removals' /\ new.file = f
      BY <1>3
    <3> QED BY <3>1, <3>2 DEF Removed, RemoveFile
  <2>3. new \in [file : File, request : Requests]
    BY <1>1, <2>1
  <2>4. \/ Answer(t, "removed") /\ kind[t] = "remove"
        \/ Goto(t, "accept") /\ UNCHANGED <<handler, reply>>
    BY <1>3 DEF AfterRemoval
  <2>5. /\ pc' \in [Threads -> Phases]
        /\ kind' \in [Threads -> Kinds]
        /\ form' \in [Threads -> Forms]
        /\ at' \in [Threads -> Nat \ {0}]
        /\ target' \in [Threads -> File \cup {NoFile}]
        /\ request' \in [Threads -> 0 .. MaxRequests]
        /\ reply' \in [Requests -> Replies]
    <3>1. CASE Answer(t, "removed")
      BY <1>1, <3>1, ConstantsAssumption DEF IInv, TypeOK, Answer, Phases, Kinds, Replies
    <3>2. CASE Goto(t, "accept") /\ UNCHANGED <<handler, reply>>
      BY <3>2 DEF IInv, TypeOK, Goto, handler, Phases
    <3> QED BY <2>4, <3>1, <3>2
  <2>6. TypeOK'
    <3>1. \A u \in Threads :
             /\ pc'[u] # "idle" => request'[u] \in Requests
             /\ pc'[u] \in {"receive", "upload"} => at'[u] \in DOMAIN form'[u]
             /\ pc'[u] \in {"check", "remove", "header", "body"} => target'[u] \in File
      BY <1>1, <2>4 DEF IInv, TypeOK, Answer, Goto, handler
    <3> QED BY <1>3, <2>2, <2>3, <2>5, <3>1 DEF IInv, TypeOK
  <2>7. \A u \in Threads : Active(u)' =>
           Active(u) /\ request'[u] = request[u] /\ PartFiles(u)' = PartFiles(u)
                     /\ reply'[request[u]] = reply[request[u]]
    BY <1>1, <2>4 DEF Active, Answer, Goto, handler, IInv, TypeOK, PartFiles, FileOf,
                      RequestInv
  <2>8. RequestInv'
    <3>1. \A r \in Requests : r > arrived' => reply'[r] = "none"
      <4>1. request[t] \in 1 .. arrived /\ arrived' = arrived /\ arrived \in Nat
        BY <1>1, <2>2, ConstantsAssumption DEF IInv, RequestInv, TypeOK
      <4>2. \A r \in Requests : r # request[t] => reply'[r] = reply[r]
        BY <2>4 DEF IInv, TypeOK, Answer
      <4> QED BY <4>1, <4>2 DEF IInv, RequestInv, Requests
    <3> QED BY <2>2, <2>7, <3>1 DEF IInv, RequestInv
  <2>9. FileInv'
    BY <1>3, <2>1, <2>2, <2>7 DEF IInv, FileInv
  <2>10. HandlerInv'
    BY <2>2, <2>4 DEF RemoveFile, IInv, HandlerInv, TypeOK, Answer, Goto, handler
  <2>11. KnownIsStored'
    BY <1>3, <2>2 DEF IInv, KnownIsStored
  <2>12. RemovedOnce'
    <3>1. \A a \in removals : a.file # f
      BY <2>1 DEF Removed
    <3>2. \A a, b \in removals' : a.file = b.file => a = b
      BY <1>3, <3>1 DEF IInv, RemovedOnce
    <3>3. Removed' \cap stored' = {}
      BY <1>3, <2>2 DEF IInv, RemovedOnce
    <3>4. ASSUME NEW r \in Requests, reply'[r] = "removed"
          PROVE  \E a \in removals' : a.request = r
      <4>1. CASE r = request[t]
        <5>1. new \in removals' /\ new.request = request[t]
          BY <1>3
        <5> QED BY <4>1, <5>1
      <4>2. CASE r # request[t]
        <5>1. reply[r] = "removed"
          BY <1>1, <2>4, <3>4, <4>2 DEF Answer, IInv, TypeOK
        <5> QED BY <1>3, <5>1 DEF IInv, RemovedOnce
      <4> QED BY <4>1, <4>2
    <3> QED BY <3>2, <3>3, <3>4 DEF RemovedOnce
  <2>13. TempIsMoved'
    <3>1. \A g \in temp : g.request \in Requests
      BY ConstantsAssumption DEF IInv, FileInv, TypeOK, Requests
    <3> QED BY <1>1, <2>2, <2>4, <3>1 DEF IInv, TempIsMoved, TypeOK, Answer, handler
  <2>14. OneStray'
    BY <1>3, <2>1, <2>2 DEF IInv, OneStray
  <2> QED BY <2>6, <2>8, <2>9, <2>10, <2>11, <2>12, <2>13, <2>14 DEF IInv
<1> QED BY <1>2, <1>3 DEF RemoveFile

-------------------------------------------------------------------------------
(* The theorems                                                            *)

\* Initially nothing is under way.
LEMMA InitInv == Init => IInv
<1> SUFFICES ASSUME Init PROVE IInv
  OBVIOUS
<1>1. TypeOK
  BY ConstantsAssumption DEF Init, TypeOK, Phases, Kinds, Replies, Requests
<1>2. RequestInv /\ HandlerInv
  BY DEF Init, RequestInv, HandlerInv, Active
<1>3. FileInv
  BY ConstantsAssumption DEF Init, FileInv, Active, Removed
<1>4. KnownIsStored /\ RemovedOnce /\ TempIsMoved /\ OneStray
  BY DEF Init, KnownIsStored, RemovedOnce, TempIsMoved, OneStray, Removed, Requests
<1> QED BY <1>1, <1>2, <1>3, <1>4 DEF IInv

\* Every step, and every stutter, keeps the invariant.
LEMMA NextInv == IInv /\ [Next]_vars => IInv'
<1> SUFFICES ASSUME IInv, [Next]_vars PROVE IInv'
  OBVIOUS
<1>1. CASE UNCHANGED vars
  BY <1>1 DEF IInv, TypeOK, RequestInv, FileInv, HandlerInv, KnownIsStored,
     RemovedOnce, TempIsMoved, OneStray, Removed, Active, PartFiles, FileOf, vars,
     handler
<1>2. ASSUME NEW t \in Threads, NEW k \in Kinds, NEW parts \in Forms,
             Arrive(t, k, parts)
      PROVE  IInv'
  BY <1>2, ArriveInv
<1>3. ASSUME NEW t \in Threads, Process(t) PROVE IInv'
  <2>1. CASE HandlePart(t)   BY <2>1, HandlePartInv
  <2>2. CASE ProcessFile(t)  BY <2>2, ProcessFileInv
  <2>3. CASE CheckFile(t)    BY <2>3, CheckFileInv
  <2>4. CASE RemoveFile(t)   BY <2>4, RemoveFileInv
  <2>5. CASE Accept(t)       BY <2>5, AcceptInv
  <2>6. CASE UploadFile(t)   BY <2>6, UploadFileInv
  <2>7. CASE SendHeader(t)   BY <2>7, SendHeaderInv
  <2>8. CASE SendBody(t)     BY <2>8, SendBodyInv
  <2> QED BY <1>3, <2>1, <2>2, <2>3, <2>4, <2>5, <2>6, <2>7, <2>8 DEF Process
<1> QED BY <1>1, <1>2, <1>3 DEF Next

\* The inductive invariant: the files of a request at work are nowhere but
\* among its temporary files, and handlers work on files clients know of.
THEOREM Inductive == Spec => []IInv
  BY InitInv, NextInv, PTL DEF Spec

\* Types of the file system, the handlers and the history.
THEOREM TypeCorrect == Spec => []TypeOK
<1>1. IInv => TypeOK  BY DEF IInv
<1> QED BY <1>1, Inductive, PTL

\* Every file a client was told of is in its place until it is removed,
\* whatever uploads, modifications and removals are going on.
THEOREM KnownFilesAreStored == Spec => []KnownIsStored
<1>1. IInv => KnownIsStored  BY DEF IInv
<1> QED BY <1>1, Inductive, PTL

\* No two requests remove the same file, and RemoveProcess_ answers Ok only
\* after a removal of its own.
THEOREM FilesAreRemovedOnce == Spec => []RemovedOnce
<1>1. IInv => RemovedOnce  BY DEF IInv
<1> QED BY <1>1, Inductive, PTL

\* UploadFile_ leaves no named temporary file behind when it is answered Ok.
THEOREM TemporaryFilesAreMoved == Spec => []TempIsMoved
<1>1. IInv => TempIsMoved  BY DEF IInv
<1> QED BY <1>1, Inductive, PTL

\* A request leaves at most one file in the directory that no client knows.
THEOREM AtMostOneStray == Spec => []OneStray
<1>1. IInv => OneStray  BY DEF IInv
<1> QED BY <1>1, Inductive, PTL

-------------------------------------------------------------------------------
(* The implementation of FileShelf                                         *)

\* A file the step adds to those clients know of is of a request no known file
\* is of, and it is in its place: then it is published.
LEMMA PublishStep ==
    ASSUME IInv, NEW t \in Threads, Active(t), NEW f, f.request = request[t],
           stored' = stored \cup {f}, known' = known \cup {f}, removals' = removals
    PROVE  Shelf!ShelfNext
<1>1. \A g \in known : g.request # request[t]
  BY DEF IInv, FileInv
<1>2. Removed' = Removed /\ Removed \subseteq known
  BY DEF Removed, IInv, FileInv
<1>3. (known \cap stored)' = (known \cap stored) \cup {f}
  BY <1>1 DEF IInv, FileInv
<1>4. f.request \notin Shelf!Published
  BY <1>1, <1>2 DEF Shelf!Published
<1> QED BY <1>2, <1>3, <1>4 DEF Shelf!ShelfNext, Shelf!Publish

\* A step that tells nobody of a file and removes none leaves the shelf alone.
LEMMA ShelfStutters ==
    ASSUME IInv, NEW S, \A f \in S : f \notin known,
           stored \subseteq stored', stored' \subseteq stored \cup S,
           known' = known, removals' = removals
    PROVE  UNCHANGED <<known \cap stored, Removed>>
  BY DEF Removed

\* The step that removes a file withdraws it.
LEMMA WithdrawStep ==
    ASSUME IInv, NEW t \in Threads, RemoveFile(t), removals' # removals
    PROVE  Shelf!ShelfNext
<1> DEFINE f == target[t]
           new == [file |-> f, request |-> request[t]]
<1>1. /\ f \in stored /\ stored' = stored \ {f} /\ known' = known
      /\ removals' = removals \cup {new}
  BY DEF RemoveFile
<1>2. f \in known
  BY <1>1, ConstantsAssumption DEF IInv, HandlerInv, FileInv, RemoveFile
<1>3. Removed' = Removed \cup {f}
  <2>1. /\ \A r \in removals' : r.file \in Removed \cup {f}
        /\ \A r \in removals : r.file \in Removed'
    BY <1>1 DEF Removed
  <2>2. new \in removals' /\ new.file = f
    BY <1>1
  <2> QED BY <2>1, <2>2 DEF Removed
<1>4. (known \cap stored)' = (known \cap stored) \ {f} /\ f \in known \cap stored
  BY <1>1, <1>2
<1> QED BY <1>3, <1>4 DEF Shelf!ShelfNext, Shelf!Withdraw

\* The step that ends an upload publishes its file; the others of the loop
\* leave strays at most.
LEMMA UploadStep ==
    ASSUME IInv, NEW t \in Threads, UploadFile(t)
    PROVE  Shelf!ShelfNext \/ UNCHANGED <<known \cap stored, Removed>>
<1> DEFINE f == FileOf(t, at[t])
<1>1. Active(t) /\ at[t] \in DOMAIN form[t] /\ form[t] \in Seq(Part)
  BY ConstantsAssumption DEF IInv, TypeOK, UploadFile, Active
<1>2. f.request = request[t] /\ f.part = form[t][at[t]]
  BY <1>1, FileOfPart DEF IInv
<1>3. f \notin known /\ removals' = removals
  BY <1>1, <1>2 DEF IInv, FileInv, UploadFile
<1>4. CASE ~f.part.named /\ NextPart(t) /\ UNCHANGED <<stored, partial, temp>>
  <2>1. known' = known
    <3>1. CASE at[t] < Len(form[t])
      BY <1>4, <3>1 DEF NextPart
    <3>2. CASE ~(at[t] < Len(form[t]))
      <4>1. \A i \in DOMAIN form[t] : ~form[t][i].named
        BY <1>1, <1>2, <1>4, <3>2 DEF IInv, HandlerInv, UploadFile
      <4>2. NamedFiles(t) = {}
        BY <1>1, <4>1, FileOfPart DEF PartFiles, NamedFiles, IInv
      <4>3. known' = known \cup NamedFiles(t)
        BY <1>4, <3>2 DEF NextPart
      <4> QED BY <4>2, <4>3
    <3> QED BY <3>1, <3>2
  <2> QED BY <1>3, <1>4, <2>1 DEF Removed
<1>5. CASE /\ f.part.named /\ PartFiles(t) \subseteq stored'
           /\ stored' = stored \cup {f} /\ NextPart(t)
  <2>1. PartFiles(t) = {f} /\ at[t] = Len(form[t])
    BY <1>1, <1>5, OnlyThisPart
  <2>2. known' = known \cup {f}
    BY <1>1, <1>5, <2>1 DEF NextPart, NamedFiles
  <2> QED BY <1>1, <1>2, <1>3, <1>5, <2>2, PublishStep
<1>6. CASE stored' \in {stored, stored \cup {f}} /\ UNCHANGED known
  BY <1>3, <1>6 DEF Removed
<1> QED BY <1>4, <1>5, <1>6 DEF UploadFile

\* Every step is a step of the shelf or leaves it alone.
LEMMA ShelfSimulation ==
    IInv /\ [Next]_vars => [Shelf!ShelfNext]_(Shelf!shelfVars)
<1> SUFFICES ASSUME IInv, [Next]_vars
             PROVE  Shelf!ShelfNext \/ UNCHANGED <<known \cap stored, Removed>>
  BY DEF Shelf!shelfVars
<1>1. CASE UNCHANGED <<stored, known, removals>>
  BY <1>1 DEF Removed
<1>2. ASSUME NEW t \in Threads, UploadFile(t)
      PROVE  Shelf!ShelfNext \/ UNCHANGED <<known \cap stored, Removed>>
  BY <1>2, UploadStep
<1>3. ASSUME NEW t \in Threads, RemoveFile(t)
      PROVE  Shelf!ShelfNext \/ UNCHANGED <<known \cap stored, Removed>>
  <2>1. CASE removals' # removals
    BY <1>3, <2>1, WithdrawStep
  <2>2. CASE removals' = removals
    <3>1. ASSUME target[t] \in stored, stored' = stored \ {target[t]},
                 removals' = removals \cup {[file |-> target[t], request |-> request[t]]}
          PROVE  FALSE
      <4>1. [file |-> target[t], request |-> request[t]] \in removals
        BY <2>2, <3>1
      <4>2. target[t] \in Removed
        BY <4>1 DEF Removed
      <4> QED BY <3>1, <4>2 DEF IInv, RemovedOnce
    <3>2. UNCHANGED <<stored, known>>
      BY <1>3, <3>1 DEF RemoveFile
    <3> QED BY <2>2, <3>2 DEF Removed
  <2> QED BY <2>1, <2>2
<1> QED
  BY <1>1, <1>2, <1>3
     DEF Next, Process, Arrive, HandlePart, ProcessFile, CheckFile, Accept, SendHeader,
         SendBody, vars

\* What clients have been told of behaves as a shelf: the handlers, their
\* temporary files and the calls to the file system implement FileShelf.
THEOREM FilesImplementShelf == Spec => ImplementsShelf
<1>1. Init => Shelf!ShelfInit
  BY DEF Init, Shelf!ShelfInit, Removed
<1> QED
  BY <1>1, ShelfSimulation, Inductive, PTL DEF Spec, ImplementsShelf, Shelf!ShelfSpec

-------------------------------------------------------------------------------
(* How far a request is from its end                                       *)

\* The steps a thread has before it at most: the parts to receive, the four
\* steps up to the verdict on the new files, and the parts to move.
StepsLeft(t) ==
    LET parts == Len(form[t]) IN
    CASE pc[t] = "idle" -> 0
      [] pc[t] = "body" -> 1
      [] pc[t] = "header" -> 2
      [] pc[t] = "upload" -> parts - at[t] + 1
      [] pc[t] = "accept" -> parts + 1
      [] pc[t] = "remove" -> parts + 2
      [] pc[t] = "check" -> parts + 3
      [] pc[t] = "actions" -> parts + 4
      [] pc[t] = "receive" -> 2 * parts - at[t] + 5

\* A step of a thread leaves fewer, a step of another leaves as many, and the
\* step with which it becomes idle again has replied.
RunsDown(t) ==
    /\ Process(t) => StepsLeft(t)' < StepsLeft(t)
    /\ pc[t] # "idle" /\ ~Process(t) => StepsLeft(t)' = StepsLeft(t)
    /\ pc[t] # "idle" /\ pc'[t] = "idle" => reply'[request[t]] # "none"

\* What the measure is made of.
LEMMA StepTypes ==
    ASSUME IInv, NEW t \in Threads
    PROVE  /\ pc \in [Threads -> Phases] /\ at \in [Threads -> Nat \ {0}]
           /\ form[t] \in Seq(Part) /\ Len(form[t]) \in Nat
           /\ pc[t] \in {"receive", "upload"} => at[t] \in 1 .. Len(form[t])
           /\ pc[t] \notin {"receive", "upload"} => at[t] = 1
           /\ pc[t] # "idle" => request[t] \in DOMAIN reply
BY ConstantsAssumption DEF IInv, TypeOK, RequestInv, HandlerInv, Active, Requests

\* The thread is idle again, and its request has been answered.
AnsweredBy(t) == pc'[t] = "idle" /\ reply'[request[t]] # "none"

\* The thread goes on with the next part, or in another phase.
GoesOn(t) ==
    /\ form'[t] = form[t]
    /\ \/ /\ pc[t] \in {"receive", "upload"} /\ at[t] < Len(form[t])
          /\ pc'[t] = pc[t] /\ at'[t] = at[t] + 1
       \/ pc[t] = "receive" /\ pc'[t] = "actions"
       \/ pc[t] = "actions" /\ pc'[t] \in {"accept", "check"}
       \/ pc[t] = "check" /\ pc'[t] \in {"header", "remove"}
       \/ pc[t] = "remove" /\ pc'[t] = "accept"
       \/ pc[t] = "accept" /\ pc'[t] = "upload" /\ at'[t] = 1
       \/ pc[t] = "header" /\ pc'[t] = "body"

Others(t) == \A u \in Threads \ {t} : UNCHANGED <<pc[u], form[u], at[u]>>

LEMMA AnswerEnds ==
    ASSUME IInv, NEW t \in Threads, pc[t] # "idle", NEW answer, answer # "none",
           Answer(t, answer)
    PROVE  AnsweredBy(t) /\ Others(t)
BY StepTypes DEF Answer, AnsweredBy, Others, IInv, TypeOK

\* Every step of a thread is one of the two.
LEMMA StepsAre ==
    ASSUME IInv, NEW t \in Threads, Process(t)
    PROVE  pc[t] # "idle" /\ Others(t) /\ (AnsweredBy(t) \/ GoesOn(t))
<1> USE DEF Goto, handler
<1>1. pc \in [Threads -> Phases] /\ at \in [Threads -> Nat \ {0}] /\ form \in [Threads -> Forms]
  BY DEF IInv, TypeOK
<1>2. pc[t] # "idle"
  BY DEF Process, HandlePart, ProcessFile, CheckFile, RemoveFile, Accept, UploadFile,
         SendHeader, SendBody
<1>3. SUFFICES ASSUME \A answer : answer # "none" => ~Answer(t, answer)
               PROVE  Others(t) /\ GoesOn(t)
  BY <1>2, AnswerEnds
<1>4. CASE HandlePart(t)
  BY <1>1, <1>3, <1>4 DEF HandlePart, GoesOn, Others
<1>5. CASE ProcessFile(t)
  BY <1>1, <1>3, <1>5 DEF ProcessFile, GoesOn, Others
<1>6. CASE CheckFile(t)
  BY <1>1, <1>3, <1>6 DEF CheckFile, GoesOn, Others
<1>7. CASE RemoveFile(t)
  BY <1>1, <1>3, <1>7 DEF RemoveFile, AfterRemoval, GoesOn, Others
<1>8. CASE Accept(t)
  <2>1. at[t] = 1
    BY <1>8, StepTypes DEF Accept
  <2> QED BY <1>1, <1>3, <1>8, <2>1 DEF Accept, GoesOn, Others
<1>9. CASE UploadFile(t)
  <2>1. NextPart(t)
    BY <1>3, <1>9 DEF UploadFile
  <2> QED BY <1>1, <1>3, <1>9, <2>1 DEF UploadFile, NextPart, GoesOn, Others
<1>10. CASE SendHeader(t)
  BY <1>1, <1>3, <1>10 DEF SendHeader, GoesOn, Others
<1>11. CASE SendBody(t)
  BY <1>3, <1>11 DEF SendBody
<1> QED BY <1>2, <1>4, <1>5, <1>6, <1>7, <1>8, <1>9, <1>10, <1>11 DEF Process

\* There is a step left before the answer, and the parts bound them.
LEMMA StepsAreNumbers ==
    ASSUME IInv, NEW t \in Threads
    PROVE  /\ StepsLeft(t) \in 0 .. 2 * Len(form[t]) + 4
           /\ pc[t] # "idle" => StepsLeft(t) > 0
<1> DEFINE n == Len(form[t])
           k == at[t]
<1>1. /\ n \in Nat /\ pc[t] \in Phases
      /\ pc[t] \in {"receive", "upload"} => k \in 1 .. n
  BY StepTypes
<1>2. CASE pc[t] \in {"idle", "body", "header"}
  <2>1. StepsLeft(t) \in {0, 1, 2} /\ (pc[t] # "idle" => StepsLeft(t) # 0)
    BY <1>2 DEF StepsLeft
  <2> HIDE DEF n, k
  <2> QED BY <1>1, <2>1 DEF n
<1>3. CASE pc[t] \in {"accept", "remove", "check", "actions"}
  <2>1. StepsLeft(t) \in {n + 1, n + 2, n + 3, n + 4}
    BY <1>3 DEF StepsLeft
  <2> HIDE DEF n, k
  <2> QED BY <1>1, <2>1 DEF n
<1>4. CASE pc[t] = "receive"
  <2>1. StepsLeft(t) = 2 * n - k + 5
    BY <1>4 DEF StepsLeft
  <2> HIDE DEF n, k
  <2> QED BY <1>1, <1>4, <2>1 DEF n
<1>5. CASE pc[t] = "upload"
  <2>1. StepsLeft(t) = n - k + 1
    BY <1>5 DEF StepsLeft
  <2> HIDE DEF n, k
  <2> QED BY <1>1, <1>5, <2>1 DEF n
<1> QED BY <1>1, <1>2, <1>3, <1>4, <1>5 DEF Phases

\* A step of a thread leaves fewer.
LEMMA StepsGetFewer ==
    ASSUME IInv, NEW t \in Threads, Process(t)
    PROVE  StepsLeft(t)' < StepsLeft(t)
<1> DEFINE n == Len(form[t])
           k == at[t]
<1>1. /\ n \in Nat /\ pc[t] \in Phases /\ pc[t] # "idle" /\ (AnsweredBy(t) \/ GoesOn(t))
      /\ pc[t] \in {"receive", "upload"} => k \in 1 .. n
  BY StepTypes, StepsAre
<1>2. CASE AnsweredBy(t)
  <2>1. StepsLeft(t)' = 0
    BY <1>2 DEF AnsweredBy, StepsLeft
  <2> QED BY <1>1, <2>1, StepsAreNumbers
<1>3. CASE GoesOn(t)
  BY <1>1, <1>3 DEF GoesOn, StepsLeft
<1> QED BY <1>1, <1>2, <1>3

\* What RequestsEnd rests on besides fairness: a request is answered after at
\* most 2n + 4 steps of its thread, n being the file parts of its form, and
\* nothing another request does to the files puts it off.
THEOREM RequestsRunDown ==
    Spec => /\ [](\A t \in Threads : StepsLeft(t) \in 0 .. 2 * Len(form[t]) + 4)
            /\ [][\A t \in Threads : RunsDown(t)]_vars
<1>1. IInv => \A t \in Threads : StepsLeft(t) \in 0 .. 2 * Len(form[t]) + 4
  BY StepsAreNumbers
<1>2. ASSUME IInv, Next, NEW t \in Threads PROVE RunsDown(t)
  <2>1. CASE Process(t)
    <3>1. StepsLeft(t)' < StepsLeft(t) /\ (AnsweredBy(t) \/ GoesOn(t)) /\ pc[t] # "idle"
      BY <1>2, <2>1, StepsGetFewer, StepsAre
    <3>2. GoesOn(t) => pc'[t] # "idle"
      BY <3>1 DEF GoesOn
    <3> QED BY <2>1, <3>1, <3>2 DEF RunsDown, AnsweredBy
  <2>2. CASE ~Process(t)
    <3>1. ASSUME pc[t] # "idle" PROVE UNCHANGED <<pc[t], form[t], at[t]>>
      <4>1. ASSUME NEW u \in Threads, NEW k \in Kinds, NEW parts \in Forms, Arrive(u, k, parts)
            PROVE  UNCHANGED <<pc[t], form[t], at[t]>>
        BY <1>2, <3>1, <4>1 DEF Arrive, Goto, IInv, TypeOK
      <4>2. ASSUME NEW u \in Threads, Process(u) PROVE UNCHANGED <<pc[t], form[t], at[t]>>
        BY <1>2, <2>2, <4>2, StepsAre DEF Others
      <4> QED BY <1>2, <4>1, <4>2 DEF Next
    <3> QED BY <2>2, <3>1 DEF RunsDown, StepsLeft
  <2> QED BY <2>1, <2>2
<1>3. IInv /\ [Next]_vars => [\A t \in Threads : RunsDown(t)]_vars
  BY <1>2
<1> QED BY <1>1, <1>3, Inductive, PTL DEF Spec

==============================================================================
