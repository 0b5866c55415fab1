--------------------------------- MODULE MCData ---------------------------------
EXTENDS Data, TLC

Setting(name, type, val) == [name |-> name, type |-> type, value |-> Value(type, val)]

\* Floats of three bits.
MCFloats == LET some == 0 .. 8 \cup {10, 12, 14, 16, 20} IN some \cup {-x : x \in some}

\* Two of the credentials, a size in megabytes and a switch.
MCBasicSettings ==
    <<Setting("max_file_size", "int", 2), Setting("db_user", "string", 0),
      Setting("db_password", "string", 0)>>

\* One of a new name, and one that has the name of a basic one.
MCOwnSettings == {Setting("ratio", "float", 1), Setting("max_file_size", "int", 3)}

MCDefaults ==
    [max_file_size |-> Value("int", 2), db_user |-> Text(9), db_password |-> Text(9),
     ratio |-> Value("float", 0)]

Absent == [scalar |-> FALSE, as |-> <<>>]
Node(as) == [scalar |-> TRUE, as |-> as]
Number(n) == Node([string |-> 20 + n, int |-> n, float |-> n])
Word(n) == Node([string |-> n])

\* A good file with a limit that overflows; one whose size is a word and whose
\* password is missing.
MCSettingsFiles ==
    {[max_file_size |-> Number(3), db_user |-> Word(1), db_password |-> Word(1),
      ratio |-> Number(2)],
     [max_file_size |-> Word(5), db_user |-> Word(2), db_password |-> Absent,
      ratio |-> Absent]}

Pair(name, val) == [name |-> name, val |-> val]
File(name, size, val) == [name |-> name, size |-> size, val |-> val]
Element(lacks, name, val) == [lacks |-> lacks, name |-> name, val |-> val]

MCBodies ==
    {[NoBody EXCEPT !.type = "multipart",
                    !.pairs = <<Pair("id", 3), Pair("photo", 4), Pair("id", 5)>>,
                    !.files = <<File("photo", 12, 6), File("photo", 13, 7), File("photo", 15, 8)>>],
     [NoBody EXCEPT !.type = "json",
                    !.json = <<Element("nothing", "id", 3), Element("value", "id", 4),
                               Element("nothing", "store", 5), Element("object", "id", 6),
                               Element("nothing", "id", 7), Element("name", "id", 8)>>],
     [NoBody EXCEPT !.type = "json", !.parses = FALSE],
     [NoBody EXCEPT !.pairs = <<Pair("id", 3), Pair("store", 0), Pair("json", 9), Pair("id", 4)>>,
                    !.json = <<Element("nothing", "store", 6)>>],
     NoBody}

Declare(name, value, editable, condition) ==
    [name |-> name, value |-> value, editable |-> editable, condition |-> condition]

\* post_api.cpp and backend_api.cpp, a name twice, and a file.
MCDeclared ==
    {<<Declare("id", Text(0), TRUE, "blank"), Declare("store", Value("int", 1), FALSE, "integer"),
       Declare("test", Empty, FALSE, "none")>>,
     <<Declare("id", Value("int", 1), TRUE, "integer"), Declare("id", Text(1), TRUE, "none"),
       Declare("store", Text(0), TRUE, "none")>>,
     <<Declare("photo", Text(0), TRUE, "none"), Declare("id", Text(2), FALSE, "none"),
       Declare("id", Text(2), TRUE, "none")>>}

Var(kind, val) == [kind |-> kind, val |-> val]

MCResultSets ==
    {[columns |-> <<"id">>, rows |-> <<>>],
     [columns |-> <<"id">>, rows |-> <<<<Var("integer", 15)>>>>],
     [columns |-> <<"id", "name", "price">>,
      rows |-> <<<<Var("integer", -16), Var("text", 1), Var("real", 4)>>,
                 <<Var("integer", 2), Var("null", 0), Var("real", 13)>>>>],
     [columns |-> <<"id", "at", "id">>,
      rows |-> <<<<Var("bool", 1), Var("date", 5), Var("integer", 3)>>,
                 <<Var("bool", 0), Var("date", 4), Var("integer", 4)>>>>],
     [columns |-> <<"id", "n">>,
      rows |-> <<<<Var("integer", 1), Var("integer", 15)>>,
                 <<Var("integer", 2), Var("integer", 16)>>,
                 <<Var("integer", 3), Var("integer", 0)>>>>],
     [columns |-> <<"n", "x">>, rows |-> <<<<Var("text", 0), Var("real", 21)>>>>]}

===============================================================================
