--------------------------- MODULE TelnetOptions ----------------------------
(***************************************************************************)
(* Option negotiation of the client: the handlers and senders of           *)
(* telnet/telnet.cc and the commands of telnet/commands.cc that call them, *)
(* built with KLUDGELINEMODE and without TN3270.                           *)
(*                                                                         *)
(* As in TelnetdOptions each C function is an operator on the client's     *)
(* state.  "his" is what the server does (the DO bits of options[]), "my"  *)
(* what the client does (the WILL bits).                                   *)
(***************************************************************************)
EXTENDS OptionFsm

CONSTANT Option

VARIABLE client

Message == [cmd : Command \cup {"SB"}, opt : Option]

(***************************************************************************)
(* flushout: output to the terminal is dropped until a timing mark         *)
(* returns.  kludge: kludgelinemode.  display: the environment the client  *)
(* exports has a DISPLAY.                                                  *)
(***************************************************************************)
ClientState ==
    [his : [Option -> Cell], my : [Option -> Cell], out : Seq(Message),
     flushout : BOOLEAN, kludge : BOOLEAN, display : BOOLEAN,
     connected : BOOLEAN]

ClientInit(display) ==
    [his |-> [o \in Option |-> CellInit], my |-> [o \in Option |-> CellInit],
     out |-> << >>, flushout |-> FALSE, kludge |-> TRUE,
     display |-> display, connected |-> FALSE]

-----------------------------------------------------------------------------
(* The senders.  An option outside Option is not part of this instance.    *)

AskHim(s, o, new, cmd) ==
    IF o \notin Option \/ NothingToAsk(s.his[o], new) THEN s
    ELSE Tell([s EXCEPT !.his[o] = Asked(s.his[o], new)], cmd, o)

AskMyself(s, o, new, cmd) ==
    IF o \notin Option \/ NothingToAsk(s.my[o], new) THEN s
    ELSE Tell([s EXCEPT !.my[o] = Asked(s.my[o], new)], cmd, o)

SendDo(s, o) == AskHim(s, o, TRUE, "DO")

SendDont(s, o) == AskHim(s, o, FALSE, "DONT")

SendWill(s, o) == AskMyself(s, o, TRUE, "WILL")

SendWont(s, o) == AskMyself(s, o, FALSE, "WONT")

-----------------------------------------------------------------------------
(* The receive handlers.                                                   *)

HeMay == {"BINARY", "SGA", "ECHO", "STATUS"}

IMay(s) ==
    {"BINARY", "NAWS", "TSPEED", "LFLOW", "TTYPE", "SGA", "ENVIRON"}
      \cup (IF s.display THEN {"XDISPLOC"} ELSE {})

\* Wrong: the timing mark is eaten without ending the flush.
WillOptionKeepsFlushing(s, o) ==
    LET c == Answered(s.his[o], TRUE)
    IN  IF c.resp # 0 \/ c.want THEN [s EXCEPT !.his[o] = Noted(c, TRUE)]
        ELSE IF o \in HeMay THEN Tell([s EXCEPT !.his[o] = Accepted(c, TRUE)], "DO", o)
        ELSE IF o = "TM" THEN [s EXCEPT !.his[o] = Accepted(c, FALSE)]
        ELSE Tell([s EXCEPT !.his[o] = Refused(c, TRUE)], "DONT", o)

WillOption(s, o) ==
    LET c == Answered(s.his[o], TRUE)
    IN  CASE c.resp # 0 \/ c.want ->
               [s EXCEPT !.his[o] = Noted(c, TRUE)]
          [] c.resp = 0 /\ ~c.want /\ o \in HeMay ->
               Tell([s EXCEPT !.his[o] = Accepted(c, TRUE)], "DO", o)
          [] c.resp = 0 /\ ~c.want /\ o = "TM" ->
               [s EXCEPT !.his[o] = Accepted(c, FALSE), !.flushout = FALSE]
          [] c.resp = 0 /\ ~c.want /\ o \notin HeMay \cup {"TM"} ->
               Tell([s EXCEPT !.his[o] = Refused(c, TRUE)], "DONT", o)

\* Wrong: the state is left alone, as in telnetd.
WontOptionStateless(s, o) ==
    LET c == Answered(s.his[o], FALSE)
        t == [s EXCEPT !.his[o] = [c EXCEPT !.want = FALSE]]
    IN  IF c.resp # 0 \/ ~c.want THEN [s EXCEPT !.his[o] = c]
        ELSE IF c.state THEN Tell(t, "DONT", o) ELSE t

WontOption(s, o) ==
    LET c == Answered(s.his[o], FALSE)
        t == [s EXCEPT !.his[o] = Accepted(c, FALSE)]
    IN  CASE o = "TM" ->
               [t EXCEPT !.flushout = FALSE]
          [] o # "TM" /\ (c.resp # 0 \/ ~c.want) ->
               [s EXCEPT !.his[o] = Noted(c, FALSE)]
          [] o # "TM" /\ c.resp = 0 /\ c.want ->
               IF c.state THEN Tell(t, "DONT", o) ELSE t

\* Real line mode starts: kludge line mode ends and SGA is asked for, in
\* the confirming case a second time and without counting the request.
DoLinemode(s, c) ==
    LET t == [s EXCEPT !.my["LINEMODE"] = Accepted(c, TRUE), !.kludge = FALSE]
        u == SendDo(t, "SGA")
    IN  IF ~c.want THEN Tell(u, "WILL", "LINEMODE")
        ELSE IF "SGA" \in Option THEN Tell(u, "DO", "SGA")
        ELSE u

DoOption(s, o) ==
    LET c == Answered(s.my[o], TRUE)
        t == [s EXCEPT !.my[o] = c]
    IN  CASE c.resp = 0 /\ o = "LINEMODE" ->
               DoLinemode(s, c)
          [] c.resp # 0 \/ (c.want /\ o # "LINEMODE") ->
               [t EXCEPT !.my[o] = Noted(c, TRUE)]
          [] c.resp = 0 /\ ~c.want /\ o = "TM" ->
               Tell([t EXCEPT !.my[o] = Accepted(c, FALSE)], "WILL", o)
          [] c.resp = 0 /\ ~c.want /\ o \in IMay(s) ->
               Tell([t EXCEPT !.my[o] = Accepted(c, TRUE)], "WILL", o)
          [] c.resp = 0 /\ ~c.want /\ o \notin IMay(s) \cup {"TM", "LINEMODE"} ->
               Tell([t EXCEPT !.my[o] = Refused(c, TRUE)], "WONT", o)

\* telrcv follows a DO NAWS with the window size.
SendNaws(s, o) ==
    IF o = "NAWS" /\ s.my[o].state THEN Tell(s, "SB", o) ELSE s

DontOption(s, o) ==
    LET c == Answered(s.my[o], FALSE)
        t == [s EXCEPT !.my[o] = Accepted(c, FALSE)]
    IN  IF c.resp # 0 \/ ~c.want
        THEN [s EXCEPT !.my[o] = Noted(c, FALSE)]
        ELSE IF c.state THEN Tell(t, "WONT", o) ELSE t

\* suboption(): the answer to SEND.
Answers == {"TTYPE", "TSPEED", "ENVIRON"}

Suboption(s, o) ==
    CASE o \in Answers /\ s.my[o].want -> Tell(s, "SB", o)
      [] o = "XDISPLOC" /\ s.my[o].want ->
           IF s.display THEN Tell(s, "SB", o) ELSE SendWont(s, o)
      [] OTHER -> s

Receive(s, m) ==
    CASE m.cmd = "WILL" -> WillOption(s, m.opt)
      [] m.cmd = "WONT" -> WontOption(s, m.opt)
      [] m.cmd = "DO"   -> SendNaws(DoOption(s, m.opt), m.opt)
      [] m.cmd = "DONT" -> DontOption(s, m.opt)
      [] m.cmd = "SB"   -> Suboption(s, m.opt)

-----------------------------------------------------------------------------
(* What the client asks for of its own accord.                             *)

EnterBinary(s, rw) ==
    LET t == IF rw \in {1, 3} THEN SendDo(s, "BINARY") ELSE s
    IN  IF rw \in {2, 3} THEN SendWill(t, "BINARY") ELSE t

LeaveBinary(s, rw) ==
    LET t == IF rw \in {1, 3} THEN SendDont(s, "BINARY") ELSE s
    IN  IF rw \in {2, 3} THEN SendWont(t, "BINARY") ELSE t

\* telnet(): the requests sent on connecting to a telnet port.
Open(s) ==
    LET a == SendWill(SendDo(s, "SGA"), "TTYPE")
        b == SendWill(SendWill(a, "NAWS"), "TSPEED")
        c == SendWill(SendWill(b, "LFLOW"), "LINEMODE")
        d == SendDo(SendWill(c, "ENVIRON"), "STATUS")
        e == IF d.display THEN SendWill(d, "XDISPLOC") ELSE d
    IN  [e EXCEPT !.connected = TRUE]

\* The commands "mode kludgeline", "mode line" and "mode character".
KludgeMode(s) ==
    LET t == SendWont([s EXCEPT !.kludge = TRUE], "LINEMODE")
    IN  SendDont(SendDont(t, "SGA"), "ECHO")

LineMode(s) ==
    LET t == IF s.kludge THEN SendDont(s, "SGA") ELSE s
    IN  SendDont(SendWill(t, "LINEMODE"), "ECHO")

CharMode(s) ==
    LET t == IF s.kludge THEN SendDo(s, "SGA") ELSE SendWont(s, "LINEMODE")
    IN  SendDo(t, "ECHO")

\* doflush(), which intp and xmitAO call when autoflush is on: an uncounted
\* DO TIMING-MARK, and output is dropped until it is answered.
Flush(s) ==
    IF "TM" \notin Option THEN s
    ELSE Tell([s EXCEPT !.flushout = TRUE], "DO", "TM")

\* dobye(): init_network empties the rings and init_telnet clears options[],
\* but neither touches do_dont_resp, will_wont_resp, flushout or
\* kludgelinemode.
Forgotten(c) == [c EXCEPT !.state = FALSE, !.want = FALSE]

Close(s) ==
    [s EXCEPT !.his = [o \in Option |-> Forgotten(s.his[o])],
              !.my = [o \in Option |-> Forgotten(s.my[o])],
              !.out = << >>, !.connected = FALSE]

\* "send do o", "send dont o", "send will o", "send wont o".
SendCommand(s, cmd, o) ==
    CASE cmd = "DO"   -> SendDo(s, o)
      [] cmd = "DONT" -> SendDont(s, o)
      [] cmd = "WILL" -> SendWill(s, o)
      [] cmd = "WONT" -> SendWont(s, o)

(***************************************************************************)
(* Everything the user may ask of an open connection that negotiates.      *)
(***************************************************************************)
UserRequests(s) ==
    {SendCommand(s, cmd, o) : cmd \in Command, o \in Option}
      \cup {EnterBinary(s, rw) : rw \in 1 .. 3}
      \cup {LeaveBinary(s, rw) : rw \in 1 .. 3}
      \cup {KludgeMode(s), LineMode(s), CharMode(s), Flush(s)}
      \cup {SendDo(s, "LOGOUT")}
      \cup {[s EXCEPT !.display = FALSE]}

-----------------------------------------------------------------------------
OpenInit == \E display \in BOOLEAN : client = ClientInit(display)

Connect == ~client.connected /\ client' = Open(client)

UserRequest == client.connected /\ client' \in UserRequests(client)

ReceiveAny(m) == client.connected /\ client' = Receive(client, m)

Disconnect == client.connected /\ client' = Close(client)

\* The server's end of the connection takes one command off the stream.
Taken ==
    /\ client.out # << >>
    /\ client' = [client EXCEPT !.out = Tail(client.out)]

OpenNext ==
    \/ Connect
    \/ UserRequest
    \/ \E m \in Message : ReceiveAny(m)
    \/ Disconnect
    \/ Taken

OpenSpec == OpenInit /\ [][OpenNext]_client

-----------------------------------------------------------------------------
ClientTypeOK == client \in ClientState

(***************************************************************************)
(* telnet.cc keeps the same table of states as telnetd, and here it is     *)
(* closed: whatever the server sends, whatever the user asks for and       *)
(* however often the connection is reopened, an option with no request     *)
(* outstanding is in the state the client wants, on both sides.            *)
(***************************************************************************)
AllSettled ==
    \A o \in Option : Settled(client.his[o]) /\ Settled(client.my[o])
=============================================================================
