------------------------------ MODULE MCLogin ------------------------------
\* Login with clients that differ in TERM (one that will do, one with a slash
\* in it, none, one with an IAC in it), in their exported variables, in DISPLAY
\* (with no IAC, one in front, one at the end) and in the options agreed on.
EXTENDS Login

MCOctet == Allowed \union {"PRINTER", "UNKNOWN", "network", "FOO", "h", ":", "-", "/", "X", "x",
                           "u", IAC, VAR, VALUE, ESC, SE}

MCStart ==
    { [environ |-> <<<<"TERM", <<"X">>>>, <<"DISPLAY", <<":">>>>, <<"LOGNAME", <<"-">>>>>>,
       user |-> <<>>, options |-> Question],
      [environ |-> <<<<"TERM", <<"/", "X">>>>, <<"FOO", <<IAC>>>>>>,
       user |-> <<<<VAR, IAC>>>>, options |-> {"TSPEED", "ENVIRON", "TTYPE"}],
      [environ |-> <<<<"DISPLAY", <<"x", IAC>>>>>>,
       user |-> <<<<"u">>>>, options |-> {"XDISPLOC", "TTYPE"}],
      [environ |-> <<<<"TERM", <<"x", IAC, "/">>>>, <<"DISPLAY", <<IAC, "x">>>>>>,
       user |-> <<>>, options |-> {"XDISPLOC", "TTYPE"}],
      [environ |-> <<<<"DISPLAY", <<"x", IAC>>>>>>, user |-> <<>>, options |-> {"XDISPLOC"}],
      [environ |-> <<<<"USER", <<"u">>>>>>, user |-> <<>>, options |-> {}] }

MCCommand ==
    { [op |-> "define", name |-> "TERM", value |-> <<"/">>],
      [op |-> "define", name |-> "USER", value |-> <<ESC, VALUE>>],
      [op |-> "undefine", name |-> "DISPLAY", value |-> <<>>],
      [op |-> "export", name |-> "LOGNAME", value |-> <<>>],
      [op |-> "export", name |-> "USER", value |-> <<>>],
      [op |-> "export", name |-> "FOO", value |-> <<>>],
      [op |-> "unexport", name |-> "USER", value |-> <<>>],
      [op |-> "send", name |-> "USER", value |-> <<>>],
      [op |-> "send", name |-> "LOGNAME", value |-> <<>>] }

MCGarbage == {<<"/">>, <<"x">>, <<"/", ":">>}
=============================================================================
