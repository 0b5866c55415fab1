---------------------------------- MODULE Data ----------------------------------
(***************************************************************************)
(* The way of data through one run of the program: settings from the file, *)
(* one request with parameters in its body, the statement of an action     *)
(* with those parameters, its results and the JSON that answers.  One      *)
(* thread does all of it.                                                  *)
(***************************************************************************)
EXTENDS Parameters, Tables

CONSTANT MaxCalls   \* bound: calls main makes between the constructor and Init_

ASSUME CallsAssumption == MaxCalls \in Nat

VARIABLES
    phase,     \* where the thread is
    calls,     \* calls main has made
    inspects,  \* a condition of the action looks at First_, Last_ and a field
    outcome    \* the status of the answer

vars == <<settingsVars, parametersVars, tablesVars, phase, calls, inspects, outcome>>

Init ==
    /\ SettingsInit /\ ParametersInit /\ TablesInit
    /\ phase = "new" /\ calls = 0 /\ inspects = FALSE /\ outcome = "none"

At(from, to) == phase = from /\ phase' = to
Answered(status) == phase' = "answered" /\ outcome' = status
NotYet == UNCHANGED outcome

-------------------------------------------------------------------------------
(* main *)

Construct ==
    /\ At("new", "main") /\ ConstructApp /\ NotYet
    /\ UNCHANGED <<parametersVars, tablesVars, calls, inspects>>

Call(step) ==
    /\ At("main", "main") /\ calls < MaxCalls /\ step /\ NotYet
    /\ calls' = calls + 1
    /\ UNCHANGED <<parametersVars, tablesVars, inspects>>

Main ==
    \/ \E s \in OwnSettings : Call(AddSetting(s))
    \/ Call(ReadSettings)
    \/ Call(SetupSettings)
    \/ Call(EditFile)

Run ==
    /\ At("main", "running") /\ NotYet
    /\ UNCHANGED <<settingsVars, parametersVars, tablesVars, calls, inspects>>

-------------------------------------------------------------------------------
(* A request *)

Request(step) ==
    step /\ UNCHANGED <<settingsVars, tablesVars, calls, inspects>>

Arrive(b, list) == Request(At("running", "body") /\ ArriveWith(b, list) /\ NotYet)

\* Parse_ throws, and handleRequest answers.
BodyFails ==
    /\ phase = "body" /\ ~body.parses
    /\ Request(Answered("500") /\ UNCHANGED parametersVars)

IdentifyAll == Request(At("body", "identified") /\ IdentifyParameters /\ NotYet)

\* A custom process may replace a parameter.
Replace ==
    \E i \in DOMAIN declared :
       Request(/\ At("identified", "compose") /\ NotYet
               /\ ReplaceParameter(declared[i].name, Value("int", 1)))

Keep == Request(At("identified", "compose") /\ UNCHANGED parametersVars /\ NotYet)

\* ComposeQuery_: a condition refuses, or the statement runs.
Refuse ==
    /\ phase = "compose" /\ \E i \in DOMAIN parameters : ~Verified(parameters[i])
    /\ Request(Answered("400") /\ UNCHANGED parametersVars)

Execute(s) ==
    /\ At("compose", "rows") /\ \A i \in DOMAIN parameters : Verified(parameters[i])
    /\ resultSet' = s
    /\ inspects' \in BOOLEAN
    /\ NotYet
    /\ UNCHANGED <<settingsVars, parametersVars, results, json, calls>>

Results(step) ==
    step /\ UNCHANGED <<settingsVars, parametersVars, calls, inspects>>

Push == Results(At("rows", "rows") /\ PushRow /\ NotYet)
PushThrows == Results(phase = "rows" /\ PushFails /\ Answered("400"))
Pushed == Results(At("rows", "condition") /\ AllPushed /\ UNCHANGED tablesVars /\ NotYet)

\* VerifyCondition_: only an exception keeps the condition of the example,
\* which is a warning, from letting the action pass.
Inspect ==
    Results(/\ phase = "condition" /\ UNCHANGED tablesVars
            /\ IF inspects /\ LastThrows THEN Answered("400")
               ELSE At("condition", "json") /\ NotYet)

Answer == Results(phase = "json" /\ CreateJSONResult /\ Answered("200"))

Next ==
    \/ Construct \/ Main \/ Run
    \/ \E b \in Bodies, list \in Declared : Arrive(b, list)
    \/ BodyFails \/ IdentifyAll \/ Replace \/ Keep \/ Refuse
    \/ \E s \in ResultSets : Execute(s)
    \/ Push \/ PushThrows \/ Pushed \/ Inspect \/ Answer

Spec == Init /\ [][Next]_vars

-------------------------------------------------------------------------------
\* Types of the variables: a value has a type of its own.
TypeOK ==
    /\ phase \in {"new", "main", "running", "body", "identified", "compose",
                  "rows", "condition", "json", "answered"}
    /\ calls \in 0 .. MaxCalls
    /\ outcome \in {"none", "200", "400", "500"}
    /\ \A i \in DOMAIN settings : settings[i].value.type = settings[i].type
    /\ \A name \in CredentialNames : credentials[name].type = Defaults[name].type
    /\ body \in Bodies \cup {NoBody}
    /\ \A i \in DOMAIN given : given[i].value.type = "string"
    /\ \A i \in DOMAIN parameters : parameters[i].value.type \in Types
    /\ resultSet \in ResultSets \cup {NoResultSet}
    /\ Len(results) <= Len(resultSet.rows)
    /\ \A i \in DOMAIN results : \A c \in DOMAIN results[i] : results[i][c].value.type \in Types

\* A setting that was there when the file was last read has the value the file
\* gives it, whatever is wrong with other nodes; and sessions and permissions
\* log in to the database with what actions and users log in with, unless main
\* read a file that changed settings and did not set the application up again.
SettingsFollowTheFile ==
    /\ lastRead.file # NoFile =>
          \A i \in 1 .. lastRead.length :
             LET node == lastRead.file[settings[i].name] IN
             node.scalar /\ settings[i].type \in DOMAIN node.as =>
                settings[i].value = Value(settings[i].type, node.as[settings[i].type])
    /\ phase # "new" /\ ~behind => credentials = Credentials

\* The items of a list that have the name of a parameter.
OfName(items, p) == {i \in DOMAIN items : items[i].name = p.name}
IsLast(i, places) == i \in places /\ \A j \in places : j <= i

TooLarge(size) == size > limit /\ Narrow(size) # Narrow(limit)

\* When the statement runs, a parameter that may not be edited has the value it
\* was declared with.  One that may has what the process replaced it with, if it
\* is the first of its name; else the last value the request gives it: of the
\* files that are not too large, of the JSON elements that lack nothing, of the
\* pairs, in this order; else the value it was declared with.  A file is too large
\* if it is larger than the limit and a float can tell; a limit that overflows
\* drops files no matter their size.
LastGivenWins ==
    phase = "rows" =>
       \A k \in DOMAIN parameters :
          LET p == declared[k]
              now == parameters[k].value
              replaced == /\ replacement # <<>> /\ replacement[1].name = p.name
                          /\ \A j \in OfName(declared, p) : k <= j
              files == {i \in OfName(body.files, p) : ~TooLarge(body.files[i].size)}
              elements == {i \in OfName(body.json, p) : body.json[i].lacks = "nothing"}
              pairs == OfName(body.pairs, p)
              Is(items, places) == \E i \in places : IsLast(i, places) /\ now = Text(items[i].val)
          IN  /\ ~p.editable => now = p.value
              /\ p.editable =>
                    CASE replaced -> now = replacement[1].value
                      [] ~replaced /\ body.type = "multipart" /\ files # {} -> Is(body.files, files)
                      [] ~replaced /\ body.type # "multipart" /\ elements # {} ->
                            Is(body.json, elements)
                      [] OTHER -> IF body.type # "json" /\ pairs # {} THEN Is(body.pairs, pairs)
                                  ELSE now = p.value
              /\ limit = GetSetting("max_file_size").val * Megabyte
                    \/ GetSetting("max_file_size").val * Megabyte > MaxInt

\* A cell of the result set, as it should be shown.
ShownAs(var, value) ==
    CASE var.kind = "null" -> value = Text(0)
      [] var.kind \in {"bool", "integer"} ->
            value.val = var.val /\ value.type = (IF var.kind = "bool" THEN "bool" ELSE "int")
      [] var.kind = "real" ->
            /\ value.type = "float" /\ value.val \in Floats
            /\ \A f \in Floats : Distance(value.val, var.val) <= Distance(f, var.val)
      [] var.kind = "date" -> value.type = "string" /\ var.val - value.val \in 0 .. Second - 1
      [] var.kind = "text" -> value = Text(var.val)

\* An answer of 200 shows every row, and in each the cells of the result set:
\* numbers are never wrapped, nulls are shown as "", dates without fractions,
\* reals as near as a float is, and of columns with one name the last.  The
\* last field is the last cell of a result with more than one row and column;
\* a field found by a name that is not twice there is the one the JSON shows.
AnswersShowTheRows ==
    outcome = "200" =>
       /\ Len(json) = Len(resultSet.rows)
       /\ \A i \in DOMAIN json : \A c \in DOMAIN resultSet.columns :
             LET name == resultSet.columns[c]
                 same == {d \in DOMAIN resultSet.columns : resultSet.columns[d] = name} IN
             /\ IsLast(c, same) => ShownAs(resultSet.rows[i][c], json[i][name])
             /\ same = {c} =>
                   /\ ShownAs(resultSet.rows[i][c], Shown(ExtractByName(results[i], name).value))
                   /\ IsNull(ExtractField(i - 1, c - 1)) <=> resultSet.rows[i][c].kind = "null"
       /\ LET rows == Len(resultSet.rows)
              columns == Len(resultSet.columns) IN
          /\ inspects => rows > 0
          /\ rows > 0 /\ columns > 0 => FirstField = results[1][1]
          /\ rows > 1 /\ columns > 1 =>
                ShownAs(resultSet.rows[rows][columns], Shown(LastField.value))

===============================================================================
