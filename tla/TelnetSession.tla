--------------------------- MODULE TelnetSession ----------------------------
(***************************************************************************)
(* A telnet client and a telnetd joined by a TCP connection, negotiating.  *)
(* The two "out" sequences are the two directions of the connection: what  *)
(* one program has written and the other has not read, in order and        *)
(* without loss.  The user may interfere MaxRequest times.                 *)
(*                                                                         *)
(* The client's operators are those of TelnetOptions, telnetd's those of   *)
(* TelnetdOptions with S! before them.                                     *)
(***************************************************************************)
EXTENDS TelnetOptions

CONSTANTS
    SendOption,  \* the options the user may name in a "send" command
    Request,     \* what else the user may ask for: see UserAsks
    MaxRequest,  \* how many times the user acts
    MaxSession   \* how many connections the client makes, one after the other

ASSUME BoundsAssumption == MaxRequest \in Nat /\ MaxSession \in Nat \ {0}

ASSUME RequestAssumption ==
    Request \subseteq {"flush", "line", "char", "kludge", "binary", "ascii",
                       "logout", "unset DISPLAY"}

VARIABLES
    server,
    requests,    \* user requests so far
    sessions     \* connections so far

vars == <<client, server, requests, sessions>>

S == INSTANCE TelnetdOptions

-----------------------------------------------------------------------------
Init ==
    /\ OpenInit
    /\ S!Init
    /\ requests = 0
    /\ sessions = 0

\* The client connects, and inetd starts a telnetd for the connection.
UserConnects ==
    /\ sessions < MaxSession
    /\ Connect
    /\ server' = S!ServerInit
    /\ sessions' = sessions + 1
    /\ UNCHANGED requests

ServerStart == sessions > 0 /\ S!Start /\ UNCHANGED <<client, requests, sessions>>

ServerContinue == S!Continue /\ UNCHANGED <<client, requests, sessions>>

ServerReceive ==
    /\ client.out # << >>
    /\ S!ReceiveAny(Head(client.out))
    /\ Taken
    /\ UNCHANGED <<requests, sessions>>

ClientReceive ==
    /\ server.out # << >>
    /\ client.connected
    /\ client' = Receive(client, Head(server.out))
    /\ server' = [server EXCEPT !.out = Tail(server.out)]
    /\ UNCHANGED <<requests, sessions>>

\* The client reads end of file once it has read what telnetd left, and
\* exits: there is no further connection.
ClientEof ==
    /\ server.phase = "exit" /\ server.out = << >>
    /\ Disconnect
    /\ sessions' = MaxSession
    /\ UNCHANGED <<server, requests>>

\* The commands the user gives, as the members of Request name them.
UserAsks(r) ==
    CASE r = "flush"  -> Flush(client)
      [] r = "line"   -> LineMode(client)
      [] r = "char"   -> CharMode(client)
      [] r = "kludge" -> KludgeMode(client)
      [] r = "binary" -> EnterBinary(client, 3)
      [] r = "ascii"  -> LeaveBinary(client, 3)
      [] r = "logout" -> SendDo(client, "LOGOUT")
      [] r = "unset DISPLAY" -> [client EXCEPT !.display = FALSE]

User ==
    /\ client.connected
    /\ requests < MaxRequest
    /\ \/ \E r \in Request : client' = UserAsks(r)
       \/ \E cmd \in Command, o \in SendOption : client' = SendCommand(client, cmd, o)
    /\ requests' = requests + 1
    /\ UNCHANGED <<server, sessions>>

\* "close": the connection and all that is on it are gone.
UserCloses ==
    /\ requests < MaxRequest
    /\ sessions < MaxSession
    /\ Disconnect
    /\ server' = [S!ServerInit EXCEPT !.phase = "exit"]
    /\ requests' = requests + 1
    /\ UNCHANGED sessions

Next ==
    \/ UserConnects
    \/ ServerStart
    \/ ServerContinue
    \/ ServerReceive
    \/ ClientReceive
    \/ ClientEof
    \/ User
    \/ UserCloses

(***************************************************************************)
(* Both programs sit in select loops that come back to the connection as   *)
(* long as there is something to read (telnet.cc:1759, telnetd.c:918).     *)
(* Nothing makes the user act.                                             *)
(***************************************************************************)
Fairness ==
    /\ WF_vars(ServerStart)
    /\ WF_vars(ServerContinue)
    /\ WF_vars(ServerReceive)
    /\ WF_vars(ClientReceive)
    /\ WF_vars(ClientEof)

Spec == Init /\ [][Next]_vars /\ Fairness

-----------------------------------------------------------------------------
TypeOK ==
    /\ ClientTypeOK
    /\ S!TypeOK
    /\ requests \in 0 .. MaxRequest
    /\ sessions \in 0 .. MaxSession

\* Nothing is on its way and the server has come through its start-up.
Quiet ==
    /\ client.out = << >> /\ server.out = << >>
    /\ client.connected /\ server.phase = "main"

Counted == Option \ {"TM", "LOGOUT"}

\* One side's cell and the other's for the same thing agree.
Agree(asker, doer) ==
    asker.resp = 0 /\ doer.resp = 0 => asker.want = doer.want

(***************************************************************************)
(* When the line is quiet the two programs agree on every option whose     *)
(* requests are all answered: what one does is what the other expects.     *)
(***************************************************************************)
Agreement ==
    Quiet => \A o \in Counted : /\ Agree(client.his[o], server.my[o])
                                /\ Agree(server.his[o], client.my[o])

(***************************************************************************)
(* On a quiet line a request that is still counted belongs to a refusal    *)
(* the peer saw no need to acknowledge: it is never a change that took     *)
(* effect, or the next command for the option would be taken for its       *)
(* answer.                                                                 *)
(***************************************************************************)
NothingForgotten ==
    Quiet => \A o \in Counted : \A c \in {client.his[o], client.my[o],
                                          server.his[o], server.my[o]} :
                 c.resp > 0 => c.state # c.want

(***************************************************************************)
(* Negotiation ends: the acknowledgements never answer each other without  *)
(* end, which is what the counters of state.c:387-398 are for.             *)
(***************************************************************************)
Terminates == <>[](client.out = << >> /\ server.out = << >>)

(***************************************************************************)
(* telnetd comes through the waits of getterminaltype and telnet() to its  *)
(* main loop.                                                              *)
(***************************************************************************)
StartupEnds == client.connected ~> (server.phase \in {"main", "exit"})

\* The mark that doflush() asked for, or its acknowledgement, is on its way.
MarkUnderWay ==
    \/ \E i \in DOMAIN client.out : client.out[i] = [cmd |-> "DO", opt |-> "TM"]
    \/ \E i \in DOMAIN server.out : server.out[i] = [cmd |-> "WILL", opt |-> "TM"]

\* The user has turned the option on, or a request of his is still counted.
MarkAskedFor == client.his["TM"].want \/ client.his["TM"].resp > 0

(***************************************************************************)
(* telnet.1:1006, autoflush: terminal output is dropped only until the     *)
(* remote system acknowledges by timing mark.  Once doflush() has asked    *)
(* for the mark, output resumes or the connection is closed, whatever      *)
(* crosses the mark, unless the user has sent a DO TM of his own, or one   *)
(* is still counted: willoption (telnet.cc:310) takes the mark for the     *)
(* answer to that, and leaves flushout set.  Of a flush that a closed      *)
(* connection left behind nothing is said: dobye() does not reset          *)
(* flushout, and the mark is gone.                                         *)
(***************************************************************************)
OutputResumes ==
    client.flushout /\ MarkUnderWay ~>
        ~client.flushout \/ ~client.connected \/ MarkAskedFor
=============================================================================
