------------------------------ MODULE ServerIO ------------------------------
(***************************************************************************)
(* telnetd's data path: the loop of telnet() in telnetd.c between the      *)
(* network and the pty, the parser telrcv() of state.c, ttloop() and       *)
(* ptyflush() of utility.c, and the output buffers of NetBuffers.          *)
(*                                                                         *)
(* What an option or suboption means is in TelnetdOptions and Login: here  *)
(* each is a command that is carried out and may be answered.              *)
(***************************************************************************)
EXTENDS NetBuffers

CONSTANTS
    NetSize,     \* BUFSIZ as the size of netibuf
    PtySize,     \* BUFSIZ as the size of ptyobuf
    SubSize,     \* the size of subbuffer
    Unit,        \* what a client writes in one piece
    Packet,      \* what the pty hands over in one read
    Budgets      \* how many units and packets there may be

\* What comes from the client: characters, and the bytes of commands.  "x" and
\* "y" are any, "WILL" is any verb that an option follows.
InCode == {"x", "y", "CR", "LF", "NUL", "IAC", "WILL", "SB", "SE", "DM", "NOP",
           "IP", "AYT", "AO", "EC", "EOF"}

ASSUME SizesAssumption ==
    /\ NetSize \in Nat \ {0} /\ PtySize \in Nat /\ PtySize >= 2
    /\ NetSize <= PtySize
    /\ SubSize \in Nat /\ SubSize >= 4

\* A unit is its octets, the characters it stands for in text and in binary,
\* and the commands in it.
ASSUME UnitAssumption ==
    Unit \subseteq [octets : Seq(InCode), text : Seq(InCode), binary : Seq(InCode),
                    commands : Seq(Seq(InCode))]

\* A packet is user data, or one of the pty's own events.  "yes" is telnetd's own.
ASSUME PacketAssumption ==
    Packet \subseteq [event : {"data", "flushwrite", "dostop"}, text : Seq(Code \ {"yes"})]

ParserState == {"data", "cr", "iac", "WILL", "sb", "se"}

(***************************************************************************)
(* What the octets of a client mean, read one after the other: characters, *)
(* and commands with all that belongs to them.  In text a carriage return  *)
(* has NUL or LF behind it; a suboption ends at whatever follows an IAC.   *)
(***************************************************************************)
Meaning == [state : ParserState, sub : Seq(InCode),
            text : Seq(InCode), commands : Seq(Seq(InCode))]

NoMeaning == [state |-> "data", sub |-> << >>, text |-> << >>, commands |-> << >>]

In(m, state) == [m EXCEPT !.state = state]

Gives(m, c) == [m EXCEPT !.text = Append(@, c)]

Asks(m, command) == [m EXCEPT !.commands = Append(@, command)]

CharacterMeans(m, c, binary) ==
    CASE c = "IAC" -> In(m, "iac")
      [] c = "CR" /\ ~binary -> Gives(In(m, "cr"), c)
      [] OTHER -> Gives(In(m, "data"), c)

CommandMeans(m, c) ==
    CASE c = "IAC" -> Gives(In(m, "data"), c)
      [] c = "WILL" -> In(m, "WILL")
      [] c = "SB" -> [In(m, "sb") EXCEPT !.sub = << >>]
      [] c \in {"EC", "AO", "EOF"} -> Asks(Gives(In(m, "data"), c), <<c>>)
      [] c \in {"IP", "AYT"} -> Asks(In(m, "data"), <<c>>)
      [] OTHER -> In(m, "data")

SuboptionMeans(m) == Asks([m EXCEPT !.sub = << >>], <<"SB">> \o m.sub)

MeansNext(m, c, binary) ==
    CASE m.state = "data" -> CharacterMeans(m, c, binary)
      [] m.state = "cr" /\ c \in {"NUL", "LF"} -> In(m, "data")
      [] m.state = "cr" /\ c \notin {"NUL", "LF"} -> CharacterMeans(m, c, binary)
      [] m.state = "iac" -> CommandMeans(m, c)
      [] m.state = "WILL" -> Asks(In(m, "data"), <<"WILL", c>>)
      [] m.state = "sb" /\ c = "IAC" -> In(m, "se")
      [] m.state = "sb" /\ c # "IAC" -> [m EXCEPT !.sub = Append(@, c)]
      [] m.state = "se" /\ c = "IAC" -> [In(m, "sb") EXCEPT !.sub = Append(@, c)]
      [] m.state = "se" /\ c = "SE" -> In(SuboptionMeans(m), "data")
      [] m.state = "se" /\ c \notin {"IAC", "SE"} -> CommandMeans(SuboptionMeans(m), c)

Meant(octets, binary) ==
    LET m[i \in 0 .. Len(octets)] ==
            IF i = 0 THEN NoMeaning ELSE MeansNext(m[i - 1], octets[i], binary)
    IN  m[Len(octets)]

\* A client writes whole characters and commands, and a unit says what they mean.
ASSUME MeaningAssumption ==
    \A u \in Unit, binary \in BOOLEAN :
        Meant(u.octets, binary) =
            [NoMeaning EXCEPT !.text = IF binary THEN u.binary ELSE u.text,
                              !.commands = u.commands]

BudgetRecord == [units : Nat, packets : Nat, signals : Nat]

ASSUME BudgetsAssumption == Budgets \subseteq BudgetRecord /\ Budgets # {}

VARIABLES
    server,      \* the program
    net, wire,   \* the buffers to the network, and what the socket has taken
    stream,      \* what the client has written and the server has not read
    urgent,      \* the place in stream of the byte sent as urgent data, or 0
    packets,     \* what the pty has for the server
    pty,         \* what has been written to the pty
    told,        \* history: the units written
    due,         \* history: what is on the wire, or was written and not cleared
    budget       \* how much may still happen

ivars == <<stream, urgent, told>>
vars == <<server, net, wire, ivars, packets, pty, due, budget>>

(***************************************************************************)
(* "loop" is select(); the main loop then goes through "readpty", "data"   *)
(* and "telrcv".  The start-up dialogue is in "ttloop", and in telrcv()    *)
(* for the "first" time and "again".                                       *)
(***************************************************************************)
Pc == {"ttloop", "first", "again", "loop", "readpty", "data", "telrcv", "exited"}

(***************************************************************************)
(* ptyobuf: the characters from pbackp to pfrontp.  back: where pbackp is. *)
(* binary: BINARY is on both ways.  ready: what select() has reported.     *)
(* The rest is history.  done: the commands carried out.  lost: ttloop()   *)
(* has emptied ptyobuf.  skewed: the byte behind an IAC was sent as urgent *)
(* data and was not read, so the next one is taken for it.  skipped: read  *)
(* octets were written over.  shown: the characters taken from the pty.    *)
(* cleared: output was cleared.  ended: why the program has ended.         *)
(***************************************************************************)
ServerState ==
    [pc : Pc, netibuf : Seq(InCode), state : ParserState, sub : Seq(InCode),
     ptyobuf : Seq(InCode), back : Nat, ptyibuf : Seq(Code), binary : BOOLEAN,
     SYNCHing : BOOLEAN, ready : SUBSET {"netw", "netr", "ptyw", "ptyr", "exc"},
     done : Seq(Seq(InCode)), lost : BOOLEAN, skewed : BOOLEAN, skipped : BOOLEAN,
     shown : Seq(Code), cleared : BOOLEAN, ended : {"", "eof", "child"}]

ServerInit(pc, binary) ==
    [pc |-> pc, netibuf |-> << >>, state |-> "data", sub |-> << >>,
     ptyobuf |-> << >>, back |-> 0, ptyibuf |-> << >>, binary |-> binary,
     SYNCHing |-> FALSE, ready |-> {}, done |-> << >>,
     lost |-> FALSE, skewed |-> FALSE, skipped |-> FALSE,
     shown |-> << >>, cleared |-> FALSE, ended |-> ""]

Drop(s, k) == SubSeq(s, k + 1, Len(s))

-----------------------------------------------------------------------------
(* telrcv(), one octet at a time                                           *)

\* *pfrontp++ = c
ToPty(s, c) == [s EXCEPT !.ptyobuf = Append(@, c)]

Done(s, command) == [s EXCEPT !.done = Append(@, command)]

\* Wrong: room for a character is room for the next as well.
CanReceiveAlways(s) == s.netibuf # << >>

CanReceive(s) ==
    s.netibuf # << >> /\ PtySize - (s.back + Len(s.ptyobuf)) >= 2

\* SB_ACCUM
Accumulate(sub, cs) == sub \o SubSeq(cs, 1, Min({Len(cs), SubSize - 1 - Len(sub)}))

\* SB_TERM and suboption(): IAC and SE are put behind the suboption for the
\* sake of diagnostics, and two octets are taken off again.
Suboption(s, c) ==
    LET all == Accumulate(s.sub, <<"IAC", c>>)
    IN  Done([s EXCEPT !.sub = << >>], <<"SB">> \o SubSeq(all, 1, Len(all) - 2))

ReceiveData(s, c) ==
    CASE c = "IAC" -> [s EXCEPT !.state = "iac"]
      [] c = "CR" /\ ~s.binary -> ToPty([s EXCEPT !.state = "cr"], c)
      [] OTHER -> ToPty(s, c)

\* Wrong: the NUL or LF behind a carriage return is passed on.
ReceiveAfterCrKeeps(s, c) == ReceiveData([s EXCEPT !.state = "data"], c)

\* TS_CR: telnetd makes CR of CR LF and CR NUL.
ReceiveAfterCr(s, c) ==
    LET t == [s EXCEPT !.state = "data"]
    IN  IF c \in {"NUL", "LF"} THEN t ELSE ReceiveData(t, c)

(***************************************************************************)
(* TS_IAC.  interrupt(), sendbrk() and sendsusp() signal through the pty,  *)
(* EC, EL, AO and EOF put a special character into ptyobuf.  DM asks       *)
(* stilloob() whether urgent data is still pending.                        *)
(***************************************************************************)
ReceiveCommand(s, c, pending) ==
    LET t == [s EXCEPT !.state = "data"]
    IN  CASE c = "IAC" -> ToPty(t, c)
          [] c = "WILL" -> [s EXCEPT !.state = "WILL"]
          [] c = "SB" -> [s EXCEPT !.state = "sb", !.sub = << >>]
          [] c = "DM" -> [t EXCEPT !.SYNCHing = pending]
          [] c \in {"EC", "AO", "EOF"} -> Done(ToPty(t, c), <<c>>)
          [] c \in {"IP", "AYT"} -> Done(t, <<c>>)
          [] OTHER -> t

\* Wrong: what ends a suboption badly is forgotten.
ReceiveSubEndEats(s, c, pending) ==
    CASE c = "IAC" -> [s EXCEPT !.state = "sb", !.sub = Accumulate(@, <<c>>)]
      [] OTHER -> Suboption([s EXCEPT !.state = "data"], c)

\* TS_SE: anything but IAC or SE ends the suboption, too, and is a command.
ReceiveSubEnd(s, c, pending) ==
    CASE c = "IAC" -> [s EXCEPT !.state = "sb", !.sub = Accumulate(@, <<c>>)]
      [] c = "SE" -> Suboption([s EXCEPT !.state = "data"], c)
      [] OTHER -> ReceiveCommand(Suboption(s, c), c, pending)

\* The program when it has taken the next octet.
Received(s, pending) ==
    LET c == Head(s.netibuf)
        t == [s EXCEPT !.netibuf = Tail(@)]
    IN  CASE s.state = "data" -> ReceiveData(t, c)
          [] s.state = "cr" -> ReceiveAfterCr(t, c)
          [] s.state = "iac" -> ReceiveCommand(t, c, pending)
          [] s.state = "WILL" -> Done([t EXCEPT !.state = "data"], <<"WILL", c>>)
          [] s.state = "sb" ->
               IF c = "IAC" THEN [t EXCEPT !.state = "se"]
               ELSE [t EXCEPT !.sub = Accumulate(@, <<c>>)]
          [] s.state = "se" -> ReceiveSubEnd(t, c, pending)

\* Commands that call ptyflush() before they do anything else.
Flushing(s) ==
    /\ s.state \in {"iac", "se"}
    /\ Head(s.netibuf) \in {"IP", "AO", "EC"}

\* ptyflush(), of which the pty takes k characters.
PtyFlushed(s, k) ==
    IF k = Len(s.ptyobuf) THEN [s EXCEPT !.ptyobuf = << >>, !.back = 0]
    ELSE [s EXCEPT !.ptyobuf = Drop(@, k), !.back = @ + k]

\* What the commands from the m-th on in done are answered with.
Reply(done, m) ==
    FlattenSeq([i \in 1 .. Len(done) - m |->
        CASE done[m + i][1] = "WILL" -> Command(<<"IAC", "WILL", "x">>)
          [] done[m + i][1] = "AYT" -> Data(<<"yes">>)
          [] OTHER -> << >>])

-----------------------------------------------------------------------------
(* The loop over the characters of the pty                                 *)

\* Wrong: IAC is not doubled.
TakenSingle(cs, binary) ==
    IF cs[1] = "CR" /\ ~binary THEN
        IF Len(cs) > 1 /\ cs[2] = "LF" THEN [n |-> 2, octets |-> <<"CR", "LF">>]
        ELSE [n |-> 1, octets |-> <<"CR", "NUL">>]
    ELSE [n |-> 1, octets |-> <<cs[1]>>]

\* How many characters of cs one turn takes, and what it writes.
Taken(cs, binary) ==
    CASE cs[1] = "IAC" ->
           [n |-> 1, octets |-> <<"IAC", "IAC">>]
      [] cs[1] = "CR" /\ ~binary /\ Len(cs) > 1 /\ cs[2] = "LF" ->
           [n |-> 2, octets |-> <<"CR", "LF">>]
      [] cs[1] = "CR" /\ ~binary /\ ~(Len(cs) > 1 /\ cs[2] = "LF") ->
           [n |-> 1, octets |-> <<"CR", "NUL">>]
      [] OTHER ->
           [n |-> 1, octets |-> <<cs[1]>>]

LflowStop == Command(<<"IAC", "SB", "x", "IAC", "SE">>)

-----------------------------------------------------------------------------
Init ==
    /\ \E pc \in {"ttloop", "loop"}, binary \in BOOLEAN :
          (pc = "ttloop" => ~binary) /\ server = ServerInit(pc, binary)
    /\ net = NetInit /\ wire = << >> /\ due = << >>
    /\ stream = << >> /\ urgent = 0 /\ told = << >>
    /\ packets = << >> /\ pty = << >>
    /\ budget \in Budgets

Happens(kind) ==
    /\ budget[kind] > 0
    /\ budget' = [budget EXCEPT ![kind] = @ - 1]

Running(pc) == server.pc = pc /\ ~net.corrupt

Waiting == server.pc \in {"ttloop", "loop"}

\* The client writes; the DM of a Synch as urgent data.  What arrives while
\* telnetd is busy it finds later; only urgent data shows before.
ClientWrites(unit) ==
    /\ Happens("units")
    /\ Waiting \/ unit.octets = <<"IAC", "DM">>
    /\ stream' = stream \o unit.octets
    /\ urgent' = IF unit.octets = <<"IAC", "DM">> THEN Len(stream) + 2 ELSE urgent
    /\ told' = Append(told, unit)
    /\ UNCHANGED <<server, net, wire, packets, pty, due>>

\* The programs behind the pty write.
PtyHas(packet) ==
    /\ Happens("packets")
    /\ Waiting
    /\ packets' = Append(packets, packet)
    /\ UNCHANGED <<server, net, wire, ivars, pty, due>>

\* k octets are read; they replace whatever netibuf still holds.
NetRead(s, k) ==
    [s EXCEPT !.netibuf = SubSeq(stream, 1, k), !.skipped = @ \/ s.netibuf # << >>]

StreamRead(k) ==
    /\ stream' = Drop(stream, k)
    /\ urgent' = IF urgent > k THEN urgent - k ELSE 0

\* A read stops before the urgent byte and NetSize bounds it.
ReadBound ==
    Min({NetSize, IF urgent > 1 THEN urgent - 1 ELSE Len(stream)})

(***************************************************************************)
(* ttloop(): netflush(), then a read that waits.  The socket does not have *)
(* SO_OOBINLINE yet (telnetd.c:860): a byte sent as urgent data is left    *)
(* out, and what follows it is read.                                       *)
(***************************************************************************)
Ttloop ==
    /\ Running("ttloop") /\ stream # << >>
    /\ \E o \in Flushes(net, FALSE, {}) : net' = o.net /\ wire' = wire \o o.sent
    /\ IF urgent = 1
       THEN /\ server' = [server EXCEPT !.skewed = TRUE]
            /\ StreamRead(1)
       ELSE \E k \in 1 .. ReadBound :
            /\ server' = [NetRead(server, k) EXCEPT !.pc = "first"]
            /\ StreamRead(k)
    /\ UNCHANGED <<told, packets, pty, due, budget>>

\* ttloop(): if telrcv() has not taken everything ptyobuf is full; what is in
\* it is dropped, and telrcv() is called again.
TtloopAgain ==
    /\ Running("first") /\ ~CanReceive(server)
    /\ server' = IF server.netibuf = << >> THEN [server EXCEPT !.pc = "ttloop"]
                 ELSE [server EXCEPT !.pc = "again", !.lost = TRUE,
                                     !.ptyobuf = << >>, !.back = 0]
    /\ UNCHANGED <<net, wire, ivars, packets, pty, due, budget>>

TtloopEnds ==
    /\ Running("again") /\ ~CanReceive(server)
    /\ server' = [server EXCEPT !.pc = "ttloop"]
    /\ UNCHANGED <<net, wire, ivars, packets, pty, due, budget>>

\* The dialogue is over, and telnet() calls telrcv() before it enters its loop.
MainLoop ==
    /\ Running("ttloop")
    /\ server' = [server EXCEPT !.pc = "telrcv"]
    /\ UNCHANGED <<net, wire, ivars, packets, pty, due, budget>>

\* Wrong: the network is read as soon as netibuf is empty.
WatchedEager(s, b) ==
    (IF NetBufLen(b) # 0 \/ s.ptyibuf # << >> THEN {"netw"} ELSE {"ptyr"})
      \cup (IF s.netibuf # << >> THEN {"ptyw"}
            ELSE IF s.ptyobuf # << >> THEN {"ptyw", "netr"} ELSE {"netr"})
      \cup (IF s.SYNCHing THEN {} ELSE {"exc"})

\* Wrong: no pty output is awaited while netibuf holds octets.
WatchedNotForNetibuf(s, b) ==
    (IF NetBufLen(b) # 0 \/ s.ptyibuf # << >> THEN {"netw"} ELSE {"ptyr"})
      \cup (IF s.ptyobuf # << >> /\ s.netibuf = << >> THEN {"ptyw"} ELSE
            IF s.netibuf = << >> THEN {"netr"} ELSE {})
      \cup (IF s.SYNCHing THEN {} ELSE {"exc"})

\* What select() is asked: never for input while there is output.
Watched(s, b) ==
    (IF NetBufLen(b) # 0 \/ s.ptyibuf # << >> THEN {"netw"} ELSE {"ptyr"})
      \cup (IF s.ptyobuf # << >> \/ s.netibuf # << >> THEN {"ptyw"} ELSE {"netr"})
      \cup (IF s.SYNCHing THEN {} ELSE {"exc"})

\* What it can answer.
Available ==
    {"netw", "ptyw"}
      \cup (IF stream # << >> THEN {"netr"} ELSE {})
      \cup (IF packets # << >> THEN {"ptyr"} ELSE {})
      \cup (IF urgent # 0 THEN {"exc"} ELSE {})

(***************************************************************************)
(* A round begins: netbuflen(1), which flushes, select(), and the read     *)
(* from the network.  With nothing to report select() waits.               *)
(***************************************************************************)
Round ==
    /\ Running("loop")
    /\ \E o \in Flushes(net, FALSE, {}) :
        LET possible == Watched(server, o.net) \cap Available
        IN  \E ready \in SUBSET possible :
            /\ ready = {} => possible = {}
            /\ net' = o.net /\ wire' = wire \o o.sent
            /\ \E k \in IF "netr" \in ready THEN 1 .. ReadBound ELSE {0} :
                LET s == IF "netr" \in ready THEN NetRead(server, k) ELSE server
                IN  /\ server' =
                         [s EXCEPT !.ready = ready, !.SYNCHing = @ \/ "exc" \in ready,
                                   !.pc = IF ready = {} THEN "loop"
                                          ELSE IF "ptyr" \in ready THEN "readpty"
                                          ELSE "data"]
                    /\ StreamRead(k)
    /\ UNCHANGED <<told, packets, pty, due, budget>>

\* A packet from the pty: its first byte tells of events.
ReadPty ==
    /\ Running("readpty")
    /\ packets' = Tail(packets)
    /\ LET packet == Head(packets)
           s == [server EXCEPT !.pc = "data", !.ptyibuf = packet.text,
                               !.shown = @ \o packet.text]
       IN  CASE packet.event = "data" ->
                  server' = s /\ UNCHANGED <<net, wire, due>>
             [] packet.event = "dostop" ->
                  /\ server' = s
                  /\ \E o \in Puts(net, LflowStop) : net' = o.net /\ wire' = wire \o o.sent
                  /\ due' = due \o LflowStop
             [] packet.event = "flushwrite" ->
                  /\ server' = [s EXCEPT !.cleared = TRUE]
                  /\ \E o \in Clears(net) : net' = o.net /\ wire' = wire \o o.sent
                  /\ due' = wire' \o Unsent(net')
    /\ UNCHANGED <<ivars, pty, budget>>

\* A turn of the loop over the pty's characters.
PutChar ==
    /\ Running("data") /\ server.ptyibuf # << >> /\ NetBufLen(net) = 0
    /\ LET t == Taken(server.ptyibuf, server.binary)
       IN  /\ server' = [server EXCEPT !.ptyibuf = Drop(@, t.n)]
           /\ \E o \in Puts(net, Data(t.octets)) : net' = o.net /\ wire' = wire \o o.sent
           /\ due' = due \o Data(t.octets)
    /\ UNCHANGED <<ivars, packets, pty, budget>>

\* The loop is over; netflush() if the socket was reported to be writable,
\* and then it does not refuse what is in the list.
NetFlush ==
    /\ Running("data") /\ ~(server.ptyibuf # << >> /\ NetBufLen(net) = 0)
    /\ server' = [server EXCEPT !.pc = "telrcv"]
    /\ IF "netw" \in server.ready
       THEN \E o \in Flushes(net, FALSE, {}) :
                /\ ListUnsent(net) # << >> => o # Silent(net)
                /\ net' = o.net /\ wire' = wire \o o.sent
       ELSE UNCHANGED <<net, wire>>
    /\ UNCHANGED <<ivars, packets, pty, due, budget>>

\* An octet in telrcv().
Telrcv ==
    /\ Running("telrcv") \/ Running("first") \/ Running("again")
    /\ CanReceive(server)
    /\ \E k \in IF Flushing(server) THEN 0 .. Len(server.ptyobuf) ELSE {0} :
      \E s \in {Received(PtyFlushed(server, k), urgent # 0)} :
        LET reply == Reply(s.done, Len(server.done))
            aborted == Len(s.done) > Len(server.done) /\ Last(s.done) = <<"AO">>
        IN  /\ server' = [s EXCEPT !.cleared = @ \/ aborted]
            /\ pty' = pty \o SubSeq(server.ptyobuf, 1, k)
            /\ IF aborted
               THEN /\ \E o \in Clears(net) : net' = o.net /\ wire' = wire \o o.sent
                    /\ due' = wire' \o Unsent(net')
               ELSE /\ \E o \in Puts(net, reply) : net' = o.net /\ wire' = wire \o o.sent
                    /\ due' = due \o reply
    /\ UNCHANGED <<ivars, packets, budget>>

\* The round ends with ptyflush(), if the pty was reported to be writable; it
\* takes at least a character then.
PtyFlush ==
    /\ Running("telrcv") /\ ~CanReceive(server)
    /\ \E k \in IF "ptyw" \in server.ready /\ server.ptyobuf # << >>
                THEN 1 .. Len(server.ptyobuf) ELSE {0} :
        /\ server' = [(IF k = 0 THEN server ELSE PtyFlushed(server, k)) EXCEPT !.pc = "loop"]
        /\ pty' = pty \o SubSeq(server.ptyobuf, 1, k)
    /\ UNCHANGED <<net, wire, ivars, packets, due, budget>>

Ended(why) ==
    /\ server' = [server EXCEPT !.pc = "exited", !.ended = why]
    /\ UNCHANGED <<ivars, packets, pty, due>>

\* The client has closed, and read() says so in a round that reads.
Eof ==
    /\ Running("loop") /\ stream = << >> /\ Happens("signals")
    /\ \E o \in Flushes(net, FALSE, {}) :
          "netr" \in Watched(server, o.net) /\ net' = o.net /\ wire' = wire \o o.sent
    /\ Ended("eof")

\* SIGCHLD: the login process is gone, and cleanup() runs at once.
Sigchld ==
    /\ server.pc \in {"loop", "readpty", "data", "telrcv"} /\ ~net.corrupt
    /\ Happens("signals") /\ Ended("child") /\ UNCHANGED <<net, wire>>

Next ==
    \/ \E unit \in Unit : ClientWrites(unit)
    \/ \E packet \in Packet : PtyHas(packet)
    \/ Ttloop \/ TtloopAgain \/ TtloopEnds \/ MainLoop
    \/ Round \/ ReadPty \/ PutChar \/ NetFlush \/ Telrcv \/ PtyFlush
    \/ Eof \/ Sigchld

(***************************************************************************)
(* The program runs, and select() reports what is there.  That the client  *)
(* and the programs behind the pty go on reading is in NetFlush and        *)
(* PtyFlush.  Nothing makes them write or end.                             *)
(***************************************************************************)
Fairness ==
    /\ WF_vars(Ttloop) /\ WF_vars(TtloopAgain) /\ WF_vars(TtloopEnds) /\ WF_vars(MainLoop)
    /\ WF_vars(Round) /\ WF_vars(ReadPty) /\ WF_vars(PutChar) /\ WF_vars(NetFlush)
    /\ WF_vars(Telrcv) /\ WF_vars(PtyFlush)

Spec == Init /\ [][Next]_vars /\ Fairness

-----------------------------------------------------------------------------
(* Properties                                                              *)

\* The variables of the input and of the program have their types.  What is
\* known of the output's is in the properties below.
TypeOK ==
    /\ server \in ServerState
    /\ stream \in Seq(InCode) /\ urgent \in 0 .. Len(stream)
    /\ packets \in Seq(Packet) /\ pty \in Seq(InCode)
    /\ told \in Seq(Unit) /\ budget \in BudgetRecord

(***************************************************************************)
(* The urgent pointer never refers to an item that was freed, moved or     *)
(* partly sent: it is at the Synch for which sendurg() set it, whatever    *)
(* netwritebuf() and netclear() have freed around that.                    *)
(***************************************************************************)
UrgentIsSynch ==
    net.urg # 0 =>
        /\ net.urg <= Len(net.list)
        /\ net.list[net.urg] = Synch
        /\ net.urg = 1 => net.skip = 0

(***************************************************************************)
(* Whatever the chunks that stdio hands over and the amounts the socket    *)
(* takes, no byte is lost, repeated or reordered between two clears.       *)
(***************************************************************************)
InOrder == ~net.corrupt => wire \o Unsent(net) = due

\* What characters a client takes from s: IAC IAC and CR NUL are one.
Decoded(s, binary) ==
    LET from[i \in 1 .. Len(s) + 2] ==
            IF i > Len(s) THEN << >>
            ELSE <<s[i].code>> \o
                 from[IF \/ s[i].code = "IAC"
                         \/ s[i].code = "CR" /\ ~binary /\ i < Len(s) /\ s[i + 1].code = "NUL"
                      THEN i + 2 ELSE i + 1]
    IN  from[1]

\* What of s the pty's characters have become.
FromPty(s) == Only(s, {i \in DOMAIN s : s[i].own = "data" /\ s[i].code # "yes"})

(***************************************************************************)
(* The client can tell the pty's characters from commands and line ends:   *)
(* the data bytes that were written decode to what came from the pty.      *)
(***************************************************************************)
OutputDecodes ==
    ~net.corrupt /\ ~server.cleared =>
        Decoded(FromPty(due), server.binary) \o server.ptyibuf = server.shown

\* The room that every store into ptyobuf relies on is there: telrcv() looks
\* once for each octet, ptyflush() may not have made any.
PtyBufferHolds == server.back + Len(server.ptyobuf) <= PtySize

\* The start-up dialogue has kept the octets in step.
InStep == ~server.skewed /\ ~server.skipped

\* A command as it is carried out: a suboption only as far as it fits.
AsCarriedOut(command) ==
    IF command[1] = "SB" THEN SubSeq(command, 1, Min({Len(command), SubSize - 2}))
    ELSE command

(***************************************************************************)
(* Commands are carried out whole, once and in the order in which they     *)
(* were sent, wherever reads cut them, wherever a full ptyobuf makes       *)
(* telrcv() stop, and whatever ends a suboption.                           *)
(***************************************************************************)
CommandsCarriedOut ==
    InStep =>
        LET all == FlattenSeq([i \in DOMAIN told |-> told[i].commands])
        IN  IsPrefix(server.done, [i \in DOMAIN all |-> AsCarriedOut(all[i])])

(***************************************************************************)
(* The programs behind the pty get what was typed, in order, line ends     *)
(* translated once: the octets that wait, the characters in ptyobuf and    *)
(* those on the pty never say more or less.                                *)
(***************************************************************************)
InputArrives ==
    InStep /\ ~server.lost =>
        LET typed == FlattenSeq([i \in DOMAIN told |->
                         IF server.binary THEN told[i].binary ELSE told[i].text])
        IN  /\ IsPrefix(pty \o server.ptyobuf, typed)
            /\ stream = << >> /\ server.netibuf = << >> /\ server.state \in {"data", "cr"}
                 => pty \o server.ptyobuf = typed

\* When the client has closed, what it wrote before has all reached the pty.
HangupLosesNoInput ==
    server.ended = "eof" => server.netibuf = << >> /\ server.ptyobuf = << >>

(***************************************************************************)
(* Everything gets through, in both directions at once, and telnetd comes  *)
(* to rest: no item cut in two, no urgent data, no full buffer and no      *)
(* Synch leaves it waiting for ever.                                       *)
(***************************************************************************)
Quiesces ==
    []<>(\/ net.corrupt \/ server.pc = "exited"
         \/ /\ Unsent(net) = << >> /\ server.ptyibuf = << >> /\ packets = << >>
            /\ stream = << >> /\ server.netibuf = << >> /\ server.ptyobuf = << >>
            /\ InStep => ~server.SYNCHing)
=============================================================================
