--------------------------- MODULE MCFunctionCalls ---------------------------
(***************************************************************************)
(* Instances of FunctionCalls for TLC: a function that reads and inserts   *)
(* what it has read, both actions final, and one without a final action    *)
(* that inserts twice and whose first parameter names its own action: the  *)
(* first row stays when the second insert fails.                           *)
(***************************************************************************)
EXTENDS FunctionCalls

Statement(op, related, paramCondition, condition, final) ==
    [op |-> op, related |-> related, paramCondition |-> paramCondition,
     condition |-> condition, final |-> final]

MCFunctions ==
    { << Statement("select", 0, "none", "kWarning", TRUE),
         Statement("insert", 1, "kError", "none", TRUE) >>,
      << Statement("insert", 1, "none", "kError", FALSE),
         Statement("insert", 0, "none", "none", FALSE) >> }
==============================================================================
