------------------------------- MODULE NetBuf -------------------------------
(***************************************************************************)
(* NetBuffers with everything that may be done to them, in any order.      *)
(* ServerIO has the program that does it.                                  *)
(***************************************************************************)
EXTENDS NetBuffers

CONSTANT MaxUnits    \* how many pieces of output are written, a number

VARIABLES
    net,       \* the buffers
    wire,      \* what the socket has taken
    due,       \* history: what is on the wire, or was written and not cleared
    units      \* pieces of output so far

vars == <<net, wire, due, units>>

\* What the program writes in one piece: netoprintf() a command, or, as the
\* loop of telnetd.c does, a character, with IAC doubled.
Unit == {Data(<<"x">>), Data(<<"EL">>), Data(<<"IAC", "IAC">>),
         Command(<<"IAC", "WILL", "x">>),
         Command(<<"IAC", "SB", "x", "IAC", "SE">>)}

Init == net = NetInit /\ wire = << >> /\ due = << >> /\ units = 0

\* Once the byte counts no longer mean anything, nothing is said of what follows.
Becomes(outcomes) ==
    /\ ~net.corrupt
    /\ \E o \in outcomes : net' = o.net /\ wire' = wire \o o.sent

\* A piece of output.
Put(u) ==
    /\ units < MaxUnits
    /\ Becomes(Puts(net, u))
    /\ due' = due \o u
    /\ units' = units + 1

\* netflush()
Flush ==
    /\ Becomes(Flushes(net, FALSE, {}))
    /\ UNCHANGED <<due, units>>

\* netclear() and sendurg(), for Abort Output and when the pty is flushed.
Clear ==
    /\ units < MaxUnits
    /\ Becomes(Clears(net))
    /\ due' = wire' \o Unsent(net')
    /\ units' = units + 1

Next ==
    \/ \E u \in Unit : Put(u)
    \/ Flush
    \/ Clear

Spec == Init /\ [][Next]_vars

-----------------------------------------------------------------------------
(* Properties                                                              *)

\* The bytes of commands in s.
CommandBytes(s) == SelectSeq(s, LAMBDA c : c.own = "command")

\* A clear drops user data only: the items that nextitem() makes are "the next
\* character" or a command, and netclear() keeps commands.  What is on its way
\* after it has all the command bytes of before, with the Synch behind them.
CommandsKept ==
    [][(units' # units /\ ~net'.corrupt /\ CommandBytes(due') # CommandBytes(due))
       => IsPrefix(CommandBytes(due), CommandBytes(due'))]_vars
=============================================================================
