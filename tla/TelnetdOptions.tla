--------------------------- MODULE TelnetdOptions ---------------------------
(***************************************************************************)
(* Option negotiation of the server: the handlers and senders of           *)
(* telnetd/state.c and the start-up dialogue of telnetd/telnetd.c, as      *)
(* telnetd/Makefile builds them (no LINEMODE, AUTHENTICATE or ENCRYPT).    *)
(*                                                                         *)
(* Each C function is an operator from the server's state to its next      *)
(* state, so that a handler that calls two senders is their composition.   *)
(* Spec runs the server against a peer that may send anything at any time. *)
(***************************************************************************)
EXTENDS OptionFsm

CONSTANT Option     \* the options of this instance, named as in telnet.h

VARIABLE server

\* The options getterminaltype waits for, in the order of its four loops.
Queried == {"TSPEED", "XDISPLOC", "ENVIRON", "TTYPE"}

\* How far main() has got.  From "options" to "ECHO" each is a loop that waits.
Phase == {"start", "options"} \cup Queried \cup {"login", "NAWS", "ECHO", "main", "exit"}

Message == [cmd : Command \cup {"SB"}, opt : Option]

(***************************************************************************)
(* his, my: the two cells of each option.  answered: the suboption clocks  *)
(* that were set after the clock "baseline".  out: what netoprintf wrote   *)
(* and the client has not read.  chunk: the loop at phase has called       *)
(* ttloop(), and what that read may not be used up.                        *)
(***************************************************************************)
ServerState ==
    [his : [Option -> Cell], my : [Option -> Cell], out : Seq(Message),
     turn_on_sga : BOOLEAN, not42 : BOOLEAN,
     answered : SUBSET Queried, phase : Phase, chunk : BOOLEAN]

ServerInit ==
    [his |-> [o \in Option |-> CellInit], my |-> [o \in Option |-> CellInit],
     out |-> << >>, turn_on_sga |-> FALSE, not42 |-> TRUE,
     answered |-> {}, phase |-> "start", chunk |-> FALSE]

-----------------------------------------------------------------------------
(* The senders.  An option outside Option is not part of this instance.    *)

SendDo(s, o) ==
    IF o \notin Option \/ NothingToAsk(s.his[o], TRUE) THEN s
    ELSE Tell([s EXCEPT !.his[o] = Asked(s.his[o], o # "TM")], "DO", o)

SendDont(s, o) ==
    IF o \notin Option \/ NothingToAsk(s.his[o], FALSE) THEN s
    ELSE Tell([s EXCEPT !.his[o] = Asked(s.his[o], FALSE)], "DONT", o)

SendWill(s, o) ==
    IF o \notin Option \/ NothingToAsk(s.my[o], TRUE) THEN s
    ELSE Tell([s EXCEPT !.my[o] = Asked(s.my[o], TRUE)], "WILL", o)

-----------------------------------------------------------------------------
(* The receive handlers.                                                   *)

\* What the switch of willoption and of dooption accepts.
HeMay == {"BINARY", "LFLOW", "TTYPE", "SGA", "NAWS", "TSPEED", "XDISPLOC",
          "ENVIRON"}
IMay == {"ECHO", "BINARY", "SGA", "STATUS"}

\* Wrong: a confirmation does not reach the state, as in wontoption.
WillOptionStateless(s, o) ==
    LET c == Answered(s.his[o], TRUE)
    IN  IF c.resp # 0 \/ c.want THEN [s EXCEPT !.his[o] = c]
        ELSE IF o \in HeMay THEN Tell([s EXCEPT !.his[o] = Accepted(c, TRUE)], "DO", o)
        ELSE Tell([s EXCEPT !.his[o] = Refused(c, TRUE)], "DONT", o)

WillOption(s, o) ==
    LET c == Answered(s.his[o], TRUE)
        t == [s EXCEPT !.his[o] = c,
                       !.not42 = s.not42 /\ ~(o = "ECHO" /\ c.resp = 0)]
        u == IF o = "ECHO" THEN SendDont(t, o) ELSE t
    IN  CASE c.resp # 0 ->
               [t EXCEPT !.his[o] = Noted(c, TRUE)]
          [] c.resp = 0 /\ ~c.want /\ o = "TM" ->
               t
          [] c.resp = 0 /\ ~c.want /\ o \in HeMay ->
               Tell([t EXCEPT !.his[o] = Accepted(c, TRUE)], "DO", o)
          [] c.resp = 0 /\ ~c.want /\ o \notin HeMay \cup {"TM"} ->
               Tell([t EXCEPT !.his[o] = Refused(c, TRUE)], "DONT", o)
          [] c.resp = 0 /\ c.want ->
               [u EXCEPT !.his[o] = Noted(u.his[o], TRUE)]

\* The function ends without set_his_state_wont: state stays as it was.
WontOption(s, o) ==
    LET c == Answered(s.his[o], FALSE)
        t == [s EXCEPT !.his[o] = c]
        u == [s EXCEPT !.his[o] = [c EXCEPT !.want = FALSE],
                       !.not42 = s.not42 \/ o = "ECHO",
                       !.answered = s.answered \cup ({o} \cap Queried)]
    IN  IF c.resp # 0 \/ ~c.want THEN t
        ELSE IF c.state /\ o # "TM" THEN Tell(u, "DONT", o)
        ELSE u

\* Wrong: a refusal starts from the counter as it was before the answer.
DoOptionRecounts(s, o) ==
    LET c == Answered(s.my[o], TRUE)
    IN  IF c.resp # 0 \/ c.want THEN [s EXCEPT !.my[o] = Noted(c, TRUE)]
        ELSE IF o \in IMay THEN Tell([s EXCEPT !.my[o] = Accepted(c, TRUE)], "WILL", o)
        ELSE Tell([s EXCEPT !.my[o] = Refused(s.my[o], TRUE)], "WONT", o)

\* Wrong: the option is confirmed but not recorded as wanted.
DoOptionUnrecorded(s, o) ==
    LET c == Answered(s.my[o], TRUE)
    IN  IF c.resp # 0 \/ c.want THEN [s EXCEPT !.my[o] = Noted(c, TRUE)]
        ELSE IF o \in IMay \cup {"TM"} THEN Tell([s EXCEPT !.my[o] = c], "WILL", o)
        ELSE Tell([s EXCEPT !.my[o] = Refused(c, TRUE)], "WONT", o)

DoOption(s, o) ==
    LET c == Answered(s.my[o], TRUE)
        t == [s EXCEPT !.my[o] = c]
    IN  CASE c.resp # 0 \/ c.want ->
               [t EXCEPT !.my[o] = Noted(c, TRUE)]
          [] c.resp = 0 /\ ~c.want /\ o \in IMay ->
               Tell([t EXCEPT !.my[o] = Accepted(c, TRUE),
                              !.turn_on_sga = s.turn_on_sga /\ o # "SGA"],
                    "WILL", o)
          [] c.resp = 0 /\ ~c.want /\ o = "TM" ->
               Tell([t EXCEPT !.my[o] = Accepted(c, FALSE)], "WILL", o)
          [] c.resp = 0 /\ ~c.want /\ o = "LOGOUT" ->
               Tell([t EXCEPT !.my[o] = Accepted(c, TRUE), !.phase = "exit"],
                    "WILL", o)
          [] c.resp = 0 /\ ~c.want /\ o \notin IMay \cup {"TM", "LOGOUT"} ->
               Tell([t EXCEPT !.my[o] = Refused(c, TRUE)], "WONT", o)

\* Wrong: SGA is put right only in the want state.
DontOptionStateless(s, o) ==
    LET c == Answered(s.my[o], FALSE)
        t == [s EXCEPT !.my[o] = [c EXCEPT !.want = FALSE]]
    IN  IF c.resp # 0 \/ ~c.want THEN [s EXCEPT !.my[o] = c]
        ELSE IF c.state THEN Tell(t, "WONT", o) ELSE t

DontOption(s, o) ==
    LET c == Answered(s.my[o], FALSE)
        t == [s EXCEPT !.my[o] = Noted(c, FALSE)]
        u == [t EXCEPT !.my[o] = Accepted(c, FALSE)]
        v == IF c.state THEN Tell(u, "WONT", o) ELSE u
        w == [v EXCEPT !.turn_on_sga = ~v.turn_on_sga]
    IN  IF c.resp # 0 \/ ~c.want THEN t
        ELSE IF o # "SGA" THEN v
        ELSE IF w.turn_on_sga THEN SendWill(w, o)
        ELSE w

\* Wrong: the clock is set only where the option is checked.
SuboptionUntimed(s, o) ==
    IF o \in {"TSPEED", "TTYPE"} /\ s.his[o].state
    THEN [s EXCEPT !.answered = s.answered \cup {o}]
    ELSE s

(***************************************************************************)
(* suboption(): an answer to SEND sets the option's clock, which TSPEED    *)
(* and TTYPE do only while the client's state is WILL.  A STATUS SEND is   *)
(* answered with send_status.                                              *)
(***************************************************************************)
Suboption(s, o) ==
    IF o = "STATUS"
    THEN IF s.my[o].state THEN Tell(s, "SB", o) ELSE s
    ELSE IF o \in {"TSPEED", "TTYPE"} /\ ~s.his[o].state THEN s
    ELSE [s EXCEPT !.answered = s.answered \cup ({o} \cap Queried)]

Receive(s, m) ==
    CASE m.cmd = "WILL" -> WillOption(s, m.opt)
      [] m.cmd = "WONT" -> WontOption(s, m.opt)
      [] m.cmd = "DO"   -> DoOption(s, m.opt)
      [] m.cmd = "DONT" -> DontOption(s, m.opt)
      [] m.cmd = "SB"   -> Suboption(s, m.opt)

-----------------------------------------------------------------------------
(***************************************************************************)
(* The start-up dialogue of getterminaltype and telnet(): requests, loops  *)
(* that call ttloop() until they are answered, and nothing read between    *)
(* two loops.  A terminal name is taken to satisfy terminaltypeok.         *)
(***************************************************************************)
HisWill(s, o) == o \in Option /\ s.his[o].state

HisWants(s, o) == o \in Option /\ s.his[o].want

HisChanging(s, o) == o \in Option /\ Changing(s.his[o])

At(s, phase) == [s EXCEPT !.phase = phase, !.chunk = FALSE]

Begin(s) ==
    LET a == SendDo(SendDo(s, "TTYPE"), "TSPEED")
    IN  At(SendDo(SendDo(a, "XDISPLOC"), "ENVIRON"), "options")

\* SB option SEND, if the client has agreed to the option.
SendQuery(s, o) == IF HisWill(s, o) THEN Tell(s, "SB", o) ELSE s

SendQueries(s) ==
    LET a == SendQuery(SendQuery(s, "TSPEED"), "XDISPLOC")
    IN  At(SendQuery(SendQuery(a, "ENVIRON"), "TTYPE"), "TSPEED")

NextQuery ==
    [TSPEED |-> "XDISPLOC", XDISPLOC |-> "ENVIRON", ENVIRON |-> "TTYPE",
     TTYPE |-> "login"]

EnterTelnet(s) ==
    LET a == IF "SGA" \in Option /\ ~s.my["SGA"].state THEN SendWill(s, "SGA") ELSE s
        b == SendDo(SendDo(a, "ECHO"), "NAWS")
    IN  At(SendDo(SendWill(b, "STATUS"), "LFLOW"), "NAWS")

\* A client that has not answered DO ECHO is treated as if it had agreed.
EchoDone(s) ==
    LET t == IF HisWants(s, "ECHO") THEN WillOption(s, "ECHO") ELSE s
        u == IF "ECHO" \in Option /\ ~t.my["ECHO"].state THEN SendWill(t, "ECHO") ELSE t
    IN  At(u, "main")

(***************************************************************************)
(* The loop at s.phase has to go on waiting.  An "if" around the loop is   *)
(* evaluated once, before the first ttloop().                              *)
(***************************************************************************)
Waits(s) ==
    CASE s.phase = "options" ->
           \E o \in Queried : HisChanging(s, o)
      [] s.phase \in Queried ->
           (s.chunk \/ HisWill(s, s.phase)) /\ s.phase \notin s.answered
      [] s.phase = "NAWS" ->
           HisChanging(s, "NAWS")
      [] s.phase = "ECHO" ->
           /\ s.chunk \/ (HisWants(s, "ECHO") /\ HisWill(s, "NAWS"))
           /\ HisChanging(s, "ECHO")
      [] OTHER -> FALSE

-----------------------------------------------------------------------------
Init == server = ServerInit

Start == server.phase = "start" /\ server' = Begin(server)

OptionsSettled ==
    /\ server.phase = "options" /\ ~Waits(server)
    /\ server' = SendQueries(server)

QueryAnswered ==
    /\ server.phase \in Queried /\ ~Waits(server)
    /\ server' = At(server, NextQuery[server.phase])

Login == server.phase = "login" /\ server' = EnterTelnet(server)

NawsSettled ==
    /\ server.phase = "NAWS" /\ ~Waits(server)
    /\ server' = At(server, "ECHO")

EchoSettled ==
    /\ server.phase = "ECHO" /\ ~Waits(server)
    /\ server' = EchoDone(server)

Continue ==
    OptionsSettled \/ QueryAnswered \/ Login \/ NawsSettled \/ EchoSettled

(***************************************************************************)
(* telrcv handles all that one ttloop() has read before the condition of   *)
(* the loop is evaluated again, so commands may still arrive in a loop     *)
(* that has nothing more to wait for; but a loop that never had to wait    *)
(* reads nothing.                                                          *)
(***************************************************************************)
ReceiveAny(m) ==
    /\ server.phase # "exit"
    /\ Waits(server) \/ server.chunk \/ server.phase = "main"
    /\ server' = Receive([server EXCEPT !.chunk = server.phase # "main"], m)

\* The client's end of the connection takes one command off the stream.
Taken ==
    /\ server.out # << >>
    /\ server' = [server EXCEPT !.out = Tail(server.out)]

Next ==
    \/ Start
    \/ Continue
    \/ \E m \in Message : ReceiveAny(m)
    \/ Taken

Spec == Init /\ [][Next]_server

-----------------------------------------------------------------------------
TypeOK == server \in ServerState

(***************************************************************************)
(* state.c:357 calls my_state "the last negotiated state": once none of    *)
(* the server's offers is unanswered, what it does is what it wants to do, *)
(* whatever the client has sent in whatever order.                         *)
(***************************************************************************)
MySettled == \A o \in Option : Settled(server.my[o])

(***************************************************************************)
(* The same of what the client does, as far as wontoption lets it hold: an *)
(* option wanted on with no request outstanding is on.                     *)
(***************************************************************************)
HisWantHonest ==
    \A o \in Option :
        server.his[o].resp = 0 /\ server.his[o].want => server.his[o].state

(***************************************************************************)
(* No client, however it behaves, makes more than two requests for one     *)
(* option be outstanding: the char counters of ext.h cannot overflow.      *)
(***************************************************************************)
FewOutstanding ==
    \A o \in Option : server.his[o].resp <= 2 /\ server.my[o].resp <= 2
=============================================================================
