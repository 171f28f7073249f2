------------------------------ MODULE MCPicker ------------------------------
(* Small instances of the picker. *)
EXTENDS Picker

CONSTANTS h1, s1

\* One rule that a session may find in the list.
MCWritten == {[host |-> h1, selector |-> s1]}
=============================================================================
