-------------------------- MODULE MCTelnetOptions ---------------------------
(***************************************************************************)
(* TelnetOptions against an arbitrary server, for TLC.  The server takes   *)
(* every command before the client does anything else (no operator reads   *)
(* out), and the user acts only while fewer than MaxAwaited answers are    *)
(* awaited: each reconnection adds to the counts as each request does.     *)
(***************************************************************************)
EXTENDS TelnetOptions, FiniteSetsExt

CONSTANT MaxAwaited

Awaited == MapThenSumSet(LAMBDA o : client.his[o].resp + client.my[o].resp, Option)

Patient == client.out = << >> /\ Awaited < MaxAwaited

MCNext ==
    \/ client.out = << >> /\ Disconnect
    \/ Patient /\ (Connect \/ UserRequest)
    \/ client.out = << >> /\ \E m \in Message : ReceiveAny(m)
    \/ Taken

MCSpec == OpenInit /\ [][MCNext]_client
=============================================================================
