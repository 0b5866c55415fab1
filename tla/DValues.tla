--------------------------------- MODULE DValues ---------------------------------
(***************************************************************************)
(* Tools::DValue, the value of settings, parameters and fields: a type and *)
(* the member that belongs to it.  A member is a number: a boolean is 0 or *)
(* 1, a string its place in the order of strings, "" being 0.              *)
(***************************************************************************)
EXTENDS Integers

CONSTANTS
    MaxInt,     \* the largest int
    Floats      \* whole numbers that are floats: all up to 2^24, then fewer at each doubling

ASSUME NumbersAssumption == MaxInt \in Nat /\ Floats \subseteq Int /\ 0 \in Floats

Types == {"empty", "bool", "float", "int", "string"}

Value(type, val) == [type |-> type, val |-> val]
Empty == Value("empty", 0)
Text(val) == Value("string", val)

\* What a constructor or an accessor that throws returns to nobody.
Thrown == Value("thrown", 0)

TypeIsEqual(v, type) == v.type = type

\* The six comparisons log a difference of types and return false; two empty
\* values return true, whatever is asked.
Compared(v, w, holds) == v.type = w.type /\ (v.type = "empty" \/ holds)
Equal(v, w) == Compared(v, w, v.val = w.val)
NotEqual(v, w) == Compared(v, w, v.val # w.val)
Less(v, w) == Compared(v, w, v.val < w.val)
LessOrEqual(v, w) == Compared(v, w, v.val <= w.val)
Greater(v, w) == Compared(v, w, v.val > w.val)
GreaterOrEqual(v, w) == Compared(v, w, v.val >= w.val)

\* ToString_() == "": what the conditions of the examples look at.
Blank(v) == v.type = "empty" \/ v = Text(0)

\* String_, Int_, Bool_, Float_
Get(v, type) == IF TypeIsEqual(v, type) THEN v ELSE Thrown

-------------------------------------------------------------------------------
(* A Poco::Dynamic::Var, as a column of a result set holds one. *)

VarKinds == {"null", "bool", "integer", "real", "date", "text"}

\* std::stof, and a whole number where a float is wanted: the nearest float, and of
\* two the even one.
Distance(x, y) == IF x < y THEN y - x ELSE x - y
Nearest(x) == {f \in Floats : \A g \in Floats : Distance(f, x) <= Distance(g, x)}
Even(f, near) == \A g \in near \ {f} : f % (2 * Distance(f, g)) = 0
Narrow(x) ==
    LET near == Nearest(x)
    IN  CHOOSE f \in near : (\E g \in near : Even(g, near)) => Even(f, near)

\* Dates count half seconds: SORTABLE_FORMAT ends at the second.
Second == 2
Seconds(x) == x - (x % Second)

\* Mutant: an integer that is too large wraps around.
FormatWraps(var) ==
    CASE var.kind = "null" -> Empty
      [] var.kind = "bool" -> Value("bool", var.val)
      [] var.kind = "integer" ->
            Value("int", ((var.val + MaxInt + 1) % (2 * (MaxInt + 1))) - MaxInt - 1)
      [] var.kind = "real" -> Value("float", Narrow(var.val))
      [] var.kind = "date" -> Text(Seconds(var.val))
      [] var.kind = "text" -> Text(var.val)

\* Format_: std::stoi and std::stof throw on what does not fit.
Format(var) ==
    CASE var.kind = "null" -> Empty
      [] var.kind = "bool" -> Value("bool", var.val)
      [] var.kind = "integer" ->
            IF var.val \in -(MaxInt + 1) .. MaxInt THEN Value("int", var.val) ELSE Thrown
      [] var.kind = "real" ->
            IF \E low, high \in Floats : low <= var.val /\ var.val <= high
            THEN Value("float", Narrow(var.val)) ELSE Thrown
      [] var.kind = "date" -> Text(Seconds(var.val))
      [] var.kind = "text" -> Text(var.val)

===============================================================================
