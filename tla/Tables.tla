--------------------------------- MODULE Tables ---------------------------------
(***************************************************************************)
(* What an action makes of the result set of its statement: MakeResults_   *)
(* pushes rows of fields, conditions and later actions extract fields, and *)
(* CreateJSONResult_ makes the answer.                                     *)
(***************************************************************************)
EXTENDS DValues, Sequences

CONSTANT ResultSets   \* result sets: the names of the columns, and rows of Vars

ASSUME ResultSetsAssumption ==
    \A s \in ResultSets :
       /\ s.columns \in Seq(STRING)
       /\ s.rows \in Seq(Seq([kind : VarKinds, val : Int]))
       /\ \A i \in DOMAIN s.rows : DOMAIN s.rows[i] = DOMAIN s.columns

VARIABLES
    resultSet,   \* the result set of the statement
    results,     \* results_
    json         \* "data" of the JSON result

tablesVars == <<resultSet, results, json>>

NoResultSet == [columns |-> <<>>, rows |-> <<>>]

TablesInit == resultSet = NoResultSet /\ results = <<>> /\ json = <<>>

\* Field's constructors.  A field is null when its value is empty.
Field(column, value) == [column |-> column, value |-> value]
NoField == Field("", Empty)
IsNull(field) == TypeIsEqual(field.value, "empty")

RowOf(i) == [c \in DOMAIN resultSet.columns |->
                Field(resultSet.columns[c], Format(resultSet.rows[i][c]))]

RowThrows(row) == \E c \in DOMAIN row : row[c].value = Thrown

AllPushed == Len(results) = Len(resultSet.rows)

\* Mutant: a value that does not fit is left uninitialized.
PushRowAnyway ==
    /\ ~AllPushed
    /\ results' = Append(results, RowOf(Len(results) + 1))
    /\ UNCHANGED <<resultSet, json>>

\* One turn of the loop of MakeResults_.  A value that throws ends the loop and
\* leaves the rows before it.
PushRow ==
    LET row == RowOf(Len(results) + 1) IN
    /\ ~AllPushed /\ ~RowThrows(row)
    /\ results' = Append(results, row)
    /\ UNCHANGED <<resultSet, json>>

PushFails ==
    /\ ~AllPushed /\ RowThrows(RowOf(Len(results) + 1))
    /\ UNCHANGED tablesVars

-------------------------------------------------------------------------------
\* ExtractField_ counts from 0.
ExtractField(row, column) ==
    IF row >= Len(results) THEN NoField
    ELSE IF column >= Len(results[row + 1]) THEN NoField
    ELSE results[row + 1][column + 1]

FirstField == ExtractField(0, 0)

\* Last_: at() throws without a row, and a single row or column gives no field.
LastThrows == results = <<>>
LastField ==
    IF Len(results) = 1 THEN NoField
    ELSE LET columns == Len(results[Len(results) - 1])
         IN  IF columns = 1 THEN NoField ELSE ExtractField(Len(results) - 1, columns - 1)

\* Row::ExtractField_: the first field of the name.
ExtractByName(row, name) ==
    LET found == {c \in DOMAIN row : row[c].column = name}
    IN  IF found = {} THEN NoField ELSE row[CHOOSE c \in found : \A d \in found : c <= d]

\* A null becomes "".
Shown(value) == IF TypeIsEqual(value, "empty") THEN Text(0) ELSE value

\* The object of a row keeps the last field of a name.
RowObject(row) ==
    [name \in {row[c].column : c \in DOMAIN row} |->
        LET found == {c \in DOMAIN row : row[c].column = name}
        IN  Shown(row[CHOOSE c \in found : \A d \in found : c >= d].value)]

CreateJSONResult ==
    /\ json' = [i \in DOMAIN results |-> RowObject(results[i])]
    /\ UNCHANGED <<resultSet, results>>

===============================================================================
