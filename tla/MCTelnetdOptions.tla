-------------------------- MODULE MCTelnetdOptions --------------------------
(***************************************************************************)
(* TelnetdOptions against an arbitrary client, for TLC.  The client takes  *)
(* every reply before it sends its next command; no handler looks at out,  *)
(* so only the length of out is bounded by this.                           *)
(***************************************************************************)
EXTENDS TelnetdOptions

MCNext ==
    \/ Start
    \/ Continue
    \/ server.out = << >> /\ \E m \in Message : ReceiveAny(m)
    \/ Taken

MCSpec == Init /\ [][MCNext]_server
=============================================================================
