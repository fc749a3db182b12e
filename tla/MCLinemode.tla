----------------------------- MODULE MCLinemode -----------------------------
(***************************************************************************)
(* Linemode for TLC: changes by the user and by programs, or by programs   *)
(* only.                                                                   *)
(***************************************************************************)
EXTENDS Linemode

MCBudgets == {[user |-> 2, program |-> 1], [user |-> 0, program |-> 3]}
=============================================================================
