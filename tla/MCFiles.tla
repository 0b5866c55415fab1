------------------------------- MODULE MCFiles -------------------------------
(***************************************************************************)
(* Files for TLC: a picture and index.html are there at first; forms of    *)
(* one picture, one unsupported file, two pictures, and a picture after a  *)
(* part without a name.                                                    *)
(***************************************************************************)
EXTENDS Files

MCPart(ext, named) == [ext |-> ext, named |-> named]
Picture == MCPart("png", TRUE)

MCForms == {<<>>, <<Picture>>, <<MCPart("exe", TRUE)>>, <<Picture, Picture>>,
            <<MCPart("png", FALSE)>>, <<MCPart("png", FALSE), Picture>>}

MCIndexFile == [request |-> 0, index |-> 0, part |-> MCPart("html", TRUE)]
MCInitial == {MCIndexFile, [request |-> 0, index |-> 1, part |-> Picture]}
==============================================================================
