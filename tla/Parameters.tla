------------------------------- MODULE Parameters -------------------------------
(***************************************************************************)
(* From the body of a request to the parameters of an action: Body reads   *)
(* it, RootHandler makes parameters of the function, the function hands    *)
(* them to the parameters of its actions that may be edited.               *)
(***************************************************************************)
EXTENDS Settings

CONSTANTS
    Bodies,       \* bodies (or query strings) of requests
    Declared,     \* parameter lists actions are declared with
    Megabyte      \* 1000000

\* A body has a type, pairs (form fields, query string or urlencoded), files with
\* a size, and the elements of a JSON array with what each one lacks; "parses"
\* is FALSE if Parse_ throws on its JSON.
ASSUME BodiesAssumption ==
    /\ \A b \in Bodies :
          /\ b.type \in {"multipart", "json", "pairs"}
          /\ b.pairs \in Seq([name : STRING, val : Int])
          /\ b.files \in Seq([name : STRING, size : Nat, val : Int])
          /\ b.json \in Seq([lacks : {"nothing", "object", "name", "value"},
                             name : STRING, val : Int])
    /\ Megabyte \in Nat \ {0}

\* Parameters an application gives to an action: a value of some type, and one of
\* the conditions of the examples.
ParameterSet ==
    [name : STRING, value : [type : Types, val : Int], editable : BOOLEAN,
     condition : {"none", "blank", "integer"}]

ASSUME DeclaredAssumption ==
    Declared \subseteq Seq(ParameterSet) /\ "max_file_size" \in DOMAIN Defaults

VARIABLES
    body,         \* the body of the request
    limit,        \* max_file_size in bytes, as the int it is computed in
    given,        \* parameters_ of the function
    declared,     \* the parameters its action was declared with (history)
    parameters,   \* those of the action now
    replacement   \* <<name and value>> given to ReplaceParamater_, or <<>> (history)

parametersVars == <<body, limit, given, declared, parameters, replacement>>

NoBody == [type |-> "pairs", pairs |-> <<>>, files |-> <<>>, json |-> <<>>, parses |-> TRUE]

ParametersInit ==
    /\ body = NoBody /\ limit = 0
    /\ given = <<>> /\ declared = <<>> /\ parameters = <<>>
    /\ replacement = <<>>

\* A request reaches a function; AddParameter_ has made the parameters.
ArriveWith(b, list) ==
    /\ body' = b
    /\ declared' = list
    /\ parameters' = list
    /\ UNCHANGED <<limit, given, replacement>>

-------------------------------------------------------------------------------
\* max_file_size * 1000000 is an int: undefined where it overflows.  The build
\* may wrap it or widen it.
Limits ==
    LET bytes == GetSetting("max_file_size").val * Megabyte
    IN  IF bytes <= MaxInt THEN {bytes}
        ELSE {bytes, ((bytes + MaxInt + 1) % (2 * (MaxInt + 1))) - MaxInt - 1}

\* Every value becomes a string.
Named(item) == [name |-> item.name, value |-> Text(item.val)]
AllNamed(items) == [i \in DOMAIN items |-> Named(items[i])]

FromForm == AllNamed(body.pairs)
FromQuery == AllNamed(body.pairs)

\* The items at these places: the others are passed over.
Kept(items, places) ==
    LET kept[n \in 0 .. Len(items)] ==
            IF n = 0 THEN <<>>
            ELSE IF n \in places THEN Append(kept[n - 1], items[n]) ELSE kept[n - 1]
    IN  kept[Len(items)]

\* Size and limit are compared as floats.
SmallEnough(max) == {i \in DOMAIN body.files : Narrow(body.files[i].size) <= Narrow(max)}
FromFiles(max) == AllNamed(Kept(body.files, SmallEnough(max)))

Complete == {i \in DOMAIN body.json : body.json[i].lacks = "nothing"}
FromJSON == AllNamed(Kept(body.json, Complete))

\* IdentifyParameters_ of RootHandler
Given(max) ==
    CASE body.type = "multipart" -> FromForm \o FromFiles(max)
      [] body.type = "json" -> FromJSON
      [] body.type = "pairs" -> FromQuery \o FromJSON

\* A parameter of the action takes the value of the function's, if it may be
\* edited.
Offered(p, offer) ==
    IF offer.name = p.name /\ p.editable THEN [p EXCEPT !.value = offer.value] ELSE p

\* Mutant: the first value that is given stays.
IdentifyFirst(parameter, offers) ==
    LET after[n \in 0 .. Len(offers)] ==
            IF n = 0 THEN parameter
            ELSE IF after[n - 1] # parameter THEN after[n - 1]
            ELSE Offered(after[n - 1], offers[n])
    IN  after[Len(offers)]

\* IdentifyParameters_ of Function, for one parameter of the action.
Identify(parameter, offers) ==
    LET after[n \in 0 .. Len(offers)] ==
            IF n = 0 THEN parameter ELSE Offered(after[n - 1], offers[n])
    IN  after[Len(offers)]

IdentifyParameters ==
    /\ body.parses
    /\ limit' \in Limits
    /\ given' = Given(limit')
    /\ parameters' = [i \in DOMAIN parameters |-> Identify(parameters[i], given')]
    /\ UNCHANGED <<body, declared, replacement>>

\* ReplaceParamater_ looks at the first parameter of the name only.
ReplaceParameter(name, value) ==
    LET found == {i \in DOMAIN parameters : parameters[i].name = name}
        first == CHOOSE i \in found : \A j \in found : i <= j
    IN  /\ replacement' = <<[name |-> name, value |-> value]>>
        /\ parameters' = IF found = {} \/ ~parameters[first].editable THEN parameters
                         ELSE [parameters EXCEPT ![first].value = value]
        /\ UNCHANGED <<body, limit, given, declared>>

\* VerifyParameterCondition_ of the examples: "blank" refuses an empty value,
\* "integer" whatever is no integer below 0 or above.
Verified(parameter) ==
    CASE parameter.condition = "none" -> TRUE
      [] parameter.condition = "blank" -> ~Blank(parameter.value)
      [] parameter.condition = "integer" ->
            /\ ~Blank(parameter.value) /\ TypeIsEqual(parameter.value, "int")
            /\ Get(parameter.value, "int").val >= 0

===============================================================================
