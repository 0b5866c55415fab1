------------------------------ MODULE FileShelf ------------------------------
(***************************************************************************)
(* What the file functions promise about the files clients have been told  *)
(* of, without threads, temporary files or file system calls: the files of *)
(* an upload appear together, a file disappears once, and none comes back. *)
(***************************************************************************)
CONSTANT Initial  \* the files there are at first

VARIABLES
    shelf,  \* the files a client may ask for with success
    gone    \* the files that were removed

shelfVars == <<shelf, gone>>

ShelfInit ==
    /\ shelf = Initial
    /\ gone = {}

\* The uploads some file of which has been on the shelf.
Published == {f.request : f \in shelf \cup gone}

\* All the new files are of one upload, and no other file of it is known.
Publish ==
    /\ shelf \subseteq shelf'
    /\ \A f \in shelf' \ shelf :
          /\ f.request \notin Published
          /\ \A g \in shelf' \ shelf : f.request = g.request
    /\ gone' = gone

Withdraw(f) ==
    /\ shelf' = shelf \ {f}
    /\ gone' = gone \cup {f}

ShelfNext == Publish \/ \E f \in shelf : Withdraw(f)

ShelfSpec == ShelfInit /\ [][ShelfNext]_shelfVars
==============================================================================
