----------------------------- MODULE MCClientIO -----------------------------
(***************************************************************************)
(* Sessions of ClientIO for TLC.                                           *)
(***************************************************************************)
EXTENDS ClientIO

Plain ==
    [echo |-> TRUE, text |-> TRUE, crmod |-> FALSE, crlf |-> FALSE, local |-> TRUE,
     escape |-> "telnet", echoc |-> FALSE, autoflush |-> TRUE, autosynch |-> TRUE]

\* Line mode; rlogin mode, in binary; crmod with kludge editing.
MCModes ==
    {Plain,
     [Plain EXCEPT !.echo = FALSE, !.text = FALSE, !.local = FALSE, !.escape = "rlogin"],
     [Plain EXCEPT !.crmod = TRUE, !.crlf = TRUE, !.echoc = TRUE, !.autoflush = FALSE]}

MCPlain == {Plain}

\* Text, a Synch, commands with and without an answer, and a suboption that
\* another command cuts short.
MCUnit ==
    {<<"CR", "NUL">>, <<"CR", "LF">>, <<"IAC", "DM">>,
     <<"IAC", "DONT", "x">>, <<"IAC", "SB", "IAC", "DO", "x">>}

MCKey == {"x", "CR", "IAC", "intr", "esc", "tilde", "dot", "susp", "echoc"}

\* Three units; a flush between two units; everything once; typing ahead.
MCBudgets ==
    {[units |-> 3, keys |-> 0, signals |-> 0], [units |-> 2, keys |-> 0, signals |-> 1],
     [units |-> 1, keys |-> 1, signals |-> 1], [units |-> 0, keys |-> 2, signals |-> 1]}

MCBudget == {[units |-> 1, keys |-> 0, signals |-> 1]}

MCDo == {<<"IAC", "DO", "x">>}

MCNoKey == {}
=============================================================================
