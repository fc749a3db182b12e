----------------------------- MODULE MCServerIO -----------------------------
(***************************************************************************)
(* Sessions of ServerIO for TLC.                                           *)
(***************************************************************************)
EXTENDS ServerIO

Typed(octets, text, binary) ==
    [octets |-> octets, text |-> text, binary |-> binary, commands |-> << >>]

Does(octets, chars, commands) ==
    [octets |-> octets, text |-> chars, binary |-> chars, commands |-> commands]

\* Text, commands of every kind, and suboptions: one ended by another command,
\* one too long for the buffer.
MCUnit ==
    {Typed(<<"x", "CR", "NUL">>, <<"x", "CR">>, <<"x", "CR", "NUL">>),
     Typed(<<"CR", "LF">>, <<"CR">>, <<"CR", "LF">>),
     Does(<<"IAC", "IAC">>, <<"IAC">>, << >>),
     Does(<<"IAC", "EC">>, <<"EC">>, <<<<"EC">>>>),
     Does(<<"IAC", "AO">>, <<"AO">>, <<<<"AO">>>>),
     Does(<<"IAC", "AYT">>, << >>, <<<<"AYT">>>>),
     Does(<<"IAC", "DM">>, << >>, << >>),
     Does(<<"IAC", "SB", "x", "IAC", "IAC", "IAC", "WILL", "x">>, << >>,
          <<<<"SB", "x", "IAC">>, <<"WILL", "x">>>>),
     Does(<<"IAC", "SB", "x", "x", "x", "y", "IAC", "SE">>, << >>,
          <<<<"SB", "x", "x", "x", "y">>>>)}

MCPacket ==
    {[event |-> "data", text |-> <<"x", "CR">>],
     [event |-> "data", text |-> <<"CR", "LF", "IAC">>],
     [event |-> "data", text |-> <<"EL", "IAC">>],
     [event |-> "flushwrite", text |-> << >>],
     [event |-> "dostop", text |-> << >>]}

\* Input alone, output alone, and both.
MCBudgets ==
    {[units |-> 2, packets |-> 0, signals |-> 1],
     [units |-> 1, packets |-> 1, signals |-> 1],
     [units |-> 0, packets |-> 2, signals |-> 0]}
=============================================================================
