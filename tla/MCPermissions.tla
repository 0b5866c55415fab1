---------------------------- MODULE MCPermissions ----------------------------
(***************************************************************************)
(* Instances of Permissions for TLC: two loaders, a reader, two users      *)
(* and a table in which one has rows for GET and POST, the other a row     *)
(* whose action is DELETE and one with a null column.                      *)
(***************************************************************************)
EXTENDS Permissions, TLC

CONSTANTS alice, bob, notes

Row(u, action) == [route |-> notes, user |-> u, action |-> action]

MCNullRows == {Row(bob, "PUT")}
MCRows == {Row(alice, "GET"), Row(alice, "POST"), Row(bob, "DELETE")} \cup MCNullRows

=============================================================================
