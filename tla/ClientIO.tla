------------------------------ MODULE ClientIO ------------------------------
(***************************************************************************)
(* The client's data path: process_rings() of telnet/sys_bsd.cc, the       *)
(* parser telrcv() and the sender telsnd() of telnet/telnet.cc between the *)
(* four rings, and the signal handlers that write to the same rings.       *)
(*                                                                         *)
(* A ring is a queue here, which RingProofs justifies until it is          *)
(* filled to the last byte.  What an option or suboption means is in       *)
(* TelnetOptions: here it may or may not cause an answer.                  *)
(***************************************************************************)
EXTENDS Integers, SequencesExt

CONSTANTS
    NetInSize, NetOutSize, TtyInSize, TtyOutSize,    \* the sizes of the rings
    LineSize,        \* the buffer for a command line behind the escape character
    Modes,           \* the settings a session may have
    Unit,            \* what a server writes in one piece
    Key,             \* what the user types
    Budgets,         \* how many units, keys and signals there may be
    SignalAnywhere   \* signals arrive between the bytes of a command, too

ASSUME RingAssumption ==
    /\ NetInSize \in Nat /\ NetInSize >= 3 /\ NetOutSize \in Nat /\ NetOutSize >= 3
    /\ TtyInSize \in Nat /\ TtyInSize >= 3 /\ TtyOutSize \in Nat /\ TtyOutSize >= 3
    /\ LineSize \in Nat \ {0}

(***************************************************************************)
(* echo: my_want_state_is_dont(ECHO).  text: BINARY is off both ways.      *)
(* local: MODE_LOCAL_CHARS and localchars.  escape: "telnet" for the       *)
(* escape character, "rlogin" for the tilde of rlogin mode.  echoc: kludge *)
(* line mode with local editing.                                           *)
(***************************************************************************)
ModeRecord ==
    [echo : BOOLEAN, text : BOOLEAN, crmod : BOOLEAN, crlf : BOOLEAN,
     local : BOOLEAN, escape : {"telnet", "rlogin"}, echoc : BOOLEAN,
     autoflush : BOOLEAN, autosynch : BOOLEAN]

ASSUME ModesAssumption == Modes \subseteq ModeRecord /\ Modes # {}

BudgetRecord == [units : Nat, keys : Nat, signals : Nat]

ASSUME BudgetsAssumption == Budgets \subseteq BudgetRecord /\ Budgets # {}

VARIABLES
    client,      \* the client's rings and switches
    stream,      \* what the server has written and the client has not read
    urgent,      \* the place in stream of the byte sent as urgent data, or 0
    typed,       \* what the terminal has read and the client has not
    sent,        \* what has gone out to the server
    told,        \* history: the octets the server has written, the last DM
                 \* among them, and the timing marks it has answered
    budget       \* how much may still happen

vars == <<client, stream, urgent, typed, sent, told, budget>>

\* "x" is any character and, in a command, any option.
Code == {"x", "CR", "LF", "NUL", "IAC", "DM", "NOP", "WILL", "DO", "DONT",
         "TM", "SB", "SE"}

ASSUME UnitAssumption == Unit \subseteq Seq(Code)

\* telrcv()'s states, as far as they tell commands from text and options, and
\* which of them is next.
Phase == {"data", "iac", "option", "sb", "se"}

After(phase, code) ==
    LET command == CASE code \in {"WILL", "DO", "DONT"} -> "option"
                     [] code = "SB" -> "sb"
                     [] OTHER -> "data"
    IN  CASE phase = "data" -> IF code = "IAC" THEN "iac" ELSE "data"
          [] phase = "option" -> "data"
          [] phase = "sb" -> IF code = "IAC" THEN "se" ELSE "sb"
          [] phase = "se" /\ code = "IAC" -> "sb"
          [] phase = "se" /\ code = "SE" -> "data"
          [] OTHER -> command

\* A unit has no half of a command, and a DM only as a Synch.
Whole(unit) ==
    \E at \in [0 .. Len(unit) -> Phase] :
        /\ at[0] = "data" /\ at[Len(unit)] = "data"
        /\ \A i \in DOMAIN unit :
              /\ at[i] = After(at[i - 1], unit[i])
              /\ at[i - 1] \in {"iac", "se"} /\ unit[i] = "DM" => unit = <<"IAC", "DM">>

ASSUME WholeAssumption == \A unit \in Unit : Whole(unit)

\* An octet from the server, and its number in the stream.
Octet == [code : Code, n : Nat]

\* "stuck": a signal handler that does not come back.
Pc == {"select", "telsnd", "telrcv", "closed", "stuck"}

ParserState == {"data", "cr", "iac", "WILL", "DO", "DONT", "sb", "se"}

(***************************************************************************)
(* writing: what a handler has still to write of its answer.  overrun: a   *)
(* ring was filled, and nothing is promised any more.  The rest is         *)
(* history.  shown, seen: the text put on the terminal and the octets      *)
(* taken from netiring since output was last dropped, when the parser was  *)
(* in state "since".  refused: the number of the last octet that TTYADD    *)
(* did not put into the ring.  lastDropped: that of the last one dropped   *)
(* for a Synch.  meant: the characters and commands meant for the server.  *)
(***************************************************************************)
ClientState ==
    [netiring : Seq(Octet), ttyoring : Seq(Octet),
     ttyiring : Seq(Key), netoring : Seq(STRING), writing : Seq(STRING),
     state : ParserState, SYNCHing : BOOLEAN, flushout : BOOLEAN,
     bol : BOOLEAN, local : BOOLEAN, pc : Pc, mode : Modes, overrun : BOOLEAN,
     shown : Seq(Octet), seen : Seq(Octet), since : ParserState,
     refused : Nat, lastDropped : Nat, meant : Seq(Seq(STRING))]

\* init_network(), init_terminal() and init_telnet()
ClientInit(mode) ==
    [netiring |-> << >>, ttyoring |-> << >>,
     ttyiring |-> << >>, netoring |-> << >>, writing |-> << >>,
     state |-> "data", SYNCHing |-> FALSE, flushout |-> FALSE,
     bol |-> TRUE, local |-> FALSE, pc |-> "select", mode |-> mode, overrun |-> FALSE,
     shown |-> << >>, seen |-> << >>, since |-> "data",
     refused |-> 0, lastDropped |-> 0, meant |-> << >>]

-----------------------------------------------------------------------------
(* Output to the terminal: TTYADD and ttyflush()                           *)

\* TTYADD, of the one or two characters that stand for an octet.
Show(c, text) ==
    IF c.SYNCHing \/ c.flushout
    THEN [c EXCEPT !.seen = << >>, !.since = c.state, !.refused = Last(text).n,
                   !.lastDropped = IF c.flushout THEN c.lastDropped ELSE Last(text).n]
    ELSE [c EXCEPT !.ttyoring = c.ttyoring \o text]

\* ttyflush(1).  Only what is dropped without flushout is dropped for a Synch.
Drop(c) ==
    [c EXCEPT !.ttyoring = << >>, !.shown = << >>, !.seen = << >>, !.since = c.state,
              !.lastDropped = IF c.flushout \/ c.ttyoring = << >> THEN c.lastDropped
                              ELSE Last(c.ttyoring).n]

\* ttyflush(0), of which the terminal takes k bytes.
Write(c, k) ==
    [c EXCEPT !.ttyoring = SubSeq(c.ttyoring, k + 1, Len(c.ttyoring)),
              !.shown = c.shown \o SubSeq(c.ttyoring, 1, k)]

\* ttyflush(SYNCHing|flushout)
TtyFlush(c, k) == IF c.SYNCHing \/ c.flushout THEN Drop(c) ELSE Write(c, k)

\* TerminalNewMode(), which drains the ring before it switches modes.
NewMode(c) == TtyFlush(c, Len(c.ttyoring))

\* The same in a signal handler.  A flush() that is busy, with whatever ring,
\* writes nothing and says that there is more: the loop never ends.
HandlersMode(c, busy) ==
    IF busy /\ c.ttyoring # << >> THEN [c EXCEPT !.pc = "stuck"] ELSE NewMode(c)

-----------------------------------------------------------------------------
(* Output to the network: NETADD, NET2ADD                                  *)

\* The ring takes bytes, one after the other, while there is room.
Add(c, bytes) ==
    [c EXCEPT !.netoring = c.netoring \o bytes,
              !.overrun = c.overrun \/ Len(c.netoring) + Len(bytes) >= NetOutSize]

\* The main program is to write bytes that mean the characters and commands
\* of says.
Emit(c, bytes, says) == [c EXCEPT !.writing = bytes, !.meant = c.meant \o says]

Timing == <<"IAC", "DO", "TM">>

Naws == <<"IAC", "SB", "x", "IAC", "SE">>

\* What intp(), sendbrk(), sendabort() and sendsusp() send, in commands.
Interruption(mode, cmd) ==
    <<<<"IAC", cmd>>>>
      \o (IF mode.autoflush THEN <<Timing>> ELSE << >>)
      \o (IF mode.autosynch THEN <<<<"IAC", "DM">>>> ELSE << >>)

\* doflush(), where busy keeps ttyflush(1) from doing anything.
Flushed(c, busy) ==
    LET d == [c EXCEPT !.flushout = TRUE]
    IN  IF ~c.mode.autoflush THEN c ELSE IF busy THEN d ELSE Drop(d)

-----------------------------------------------------------------------------
(* telrcv(), one character at a time.                                      *)

\* Wrong: one byte of room is enough.
CanReceiveOne(c) == c.netiring # << >> /\ TtyOutSize - Len(c.ttyoring) > 1

CanReceive(c) == c.netiring # << >> /\ TtyOutSize - Len(c.ttyoring) > 2

\* A carriage return as it is shown, with a line feed if crmod is on.
Return(mode, o) ==
    IF mode.crmod THEN <<o, [o EXCEPT !.code = "LF"]>> ELSE <<o>>

\* Wrong: what follows the carriage return is always used up.
CarriageReturnEats(c, o) ==
    LET d == [c EXCEPT !.netiring = Tail(c.netiring), !.seen = Append(c.seen, Head(c.netiring))]
    IN  IF c.netiring = << >> THEN Show([c EXCEPT !.state = "cr"], Return(c.mode, o))
        ELSE Show(d, Return(c.mode, o))

\* CR in text: what it means depends on the next character, if that is here.
CarriageReturn(c, o) ==
    LET next == Head(c.netiring)
        d == [c EXCEPT !.netiring = Tail(c.netiring), !.seen = Append(c.seen, next)]
    IN  IF c.netiring = << >> THEN Show([c EXCEPT !.state = "cr"], Return(c.mode, o))
        ELSE IF next.code = "NUL" THEN Show(d, <<o>>)
        ELSE IF next.code = "LF" /\ c.mode.echo THEN Show(d, <<next>>)
        ELSE Show(c, Return(c.mode, o))

ReceiveData(c, o) ==
    LET d == [c EXCEPT !.state = "data"]
    IN  CASE o.code = "IAC" -> [c EXCEPT !.state = "iac"]
          [] o.code = "CR" /\ c.mode.text -> CarriageReturn(d, o)
          [] OTHER -> Show(d, <<o>>)

\* TS_CR: the carriage return came last in what was read before.
ReceiveAfterCr(c, o) ==
    LET d == [c EXCEPT !.state = "data"]
    IN  CASE o.code = "NUL" -> d
          [] o.code = "LF" /\ c.mode.echo /\ ~c.mode.crmod -> Show(d, <<o>>)
          [] OTHER -> ReceiveData(c, o)

\* Wrong: the Synch is over only when the next one comes.
DataMarkKeepsSynching(c, pending) == [Drop([c EXCEPT !.state = "data"]) EXCEPT !.SYNCHing = TRUE]

\* DM: stilloob() asks whether urgent data is still pending.
DataMark(c, pending) ==
    [Drop([c EXCEPT !.state = "data"]) EXCEPT !.SYNCHing = pending]

ReceiveCommand(c, o, pending) ==
    LET d == [c EXCEPT !.state = "data"]
    IN  CASE o.code \in {"WILL", "DO", "DONT"} -> [c EXCEPT !.state = o.code]
          [] o.code = "SB" -> [c EXCEPT !.state = "sb"]
          [] o.code = "DM" -> DataMark(c, pending)
          [] o.code = "IAC" -> Show(d, <<o>>)
          [] OTHER -> d

\* The answers a handler may write: none, or those of DO NAWS.
Answers == {<< >>, <<<<"IAC", "WILL", "x">>, Naws>>}

Answered(c) == {Emit(c, FlattenSeq(a), a) : a \in Answers}

\* Wrong: a timing mark is not noticed.
ReceiveOptionIgnoresMark(c, o) ==
    LET d == [c EXCEPT !.state = "data"]
    IN  Answered(d) \cup Answered(NewMode(d))

\* willoption(), wontoption(), dooption() and dontoption(), and what telrcv
\* does after them.  setconnmode() drains the ring if the mode is another.
ReceiveOption(c, o) ==
    LET d == [c EXCEPT !.state = "data"]
    IN  IF c.state = "WILL" /\ o.code = "TM" THEN {[d EXCEPT !.flushout = FALSE]}
        ELSE Answered(d) \cup Answered(NewMode(d))

\* The suboption that is ended by the command o has set the mode.
CutShort(c, o) ==
    LET d == NewMode([c EXCEPT !.state = "iac"])
    IN  IF d.seen = << >> THEN [d EXCEPT !.seen = <<o>>] ELSE d

\* TS_SE: anything but IAC or SE ends the suboption, too, and is a command.
ReceiveSubEnd(c, o, pending) ==
    LET d == [c EXCEPT !.state = "data"]
    IN  CASE o.code = "IAC" -> {[c EXCEPT !.state = "sb"]}
          [] o.code = "SE" -> Answered(d) \cup Answered(NewMode(d))
          [] OTHER -> UNION {Answered(ReceiveCommand(e, o, pending)) : e \in {c, CutShort(c, o)}}

\* Where the program goes after a step of telsnd() or telrcv(): on in the
\* same loop, to the next, or back to select().
Onward(c, looping) ==
    [c EXCEPT !.pc =
        IF looping /\ c.ttyiring # << >> /\ NetOutSize - Len(c.netoring \o c.writing) > 2 THEN "telsnd"
        ELSE IF CanReceive(c) THEN "telrcv"
        ELSE "select"]

\* What the next character makes of c; pending: urgent data waits.
Received(c, pending) ==
    LET o == Head(c.netiring)
        d == [c EXCEPT !.netiring = Tail(c.netiring), !.seen = Append(c.seen, o)]
    IN  CASE c.state = "data" -> {ReceiveData(d, o)}
          [] c.state = "cr" -> {ReceiveAfterCr(d, o)}
          [] c.state = "iac" -> {ReceiveCommand(d, o, pending)}
          [] c.state \in {"WILL", "DO", "DONT"} -> ReceiveOption(d, o)
          [] c.state = "sb" -> {IF o.code = "IAC" THEN [d EXCEPT !.state = "se"] ELSE d}
          [] c.state = "se" -> ReceiveSubEnd(d, o, pending)

-----------------------------------------------------------------------------
(* telsnd(), one key at a time.  Each operator answers the next states and *)
(* whether the loop goes on.                                               *)

Stay(c) == [client |-> c, looping |-> TRUE]

Leave(c) == [client |-> c, looping |-> FALSE]

\* Wrong: IAC is doubled in text only.
EncodedBinary(mode, k) ==
    CASE k = "IAC" /\ mode.text -> <<"IAC", "IAC">>
      [] k = "LF" /\ mode.text /\ mode.local -> <<"CR", "LF">>
      [] k = "CR" /\ mode.text -> IF mode.crlf THEN <<"CR", "LF">> ELSE <<"CR", "NUL">>
      [] OTHER -> <<k>>

\* A key as telsnd puts it on the network.
Encoded(mode, k) ==
    CASE k = "IAC" -> <<"IAC", "IAC">>
      [] k = "LF" /\ mode.text /\ mode.local -> <<"CR", "LF">>
      [] k = "CR" /\ mode.text -> IF mode.crlf THEN <<"CR", "LF">> ELSE <<"CR", "NUL">>
      [] OTHER -> <<k>>

\* The characters a key stands for: Encoded(), but for the doubled IAC.
Characters(mode, k) ==
    IF k = "IAC" THEN <<<<"IAC">>>>
    ELSE [i \in DOMAIN Encoded(mode, k) |-> <<Encoded(mode, k)[i]>>]

Transmit(c, k) ==
    LET d == [c EXCEPT !.bol = c.bol \/ k \in {"LF", "CR"}]
    IN  Stay(Emit(d, Encoded(c.mode, k), Characters(c.mode, k)))

\* TerminalSpecialChars() for the interrupt character.
Interrupt(c) ==
    LET says == Interruption(c.mode, "IP")
    IN  Leave(Emit(Flushed([c EXCEPT !.bol = TRUE], FALSE), FlattenSeq(says), says))

\* gets() and command(): the line behind the escape character, of which
\* gets() takes one character too many when it does not fit.
CommandLine(c) ==
    Leave(NewMode([c EXCEPT !.ttyiring = SubSeq(c.ttyiring, LineSize + 1, Len(c.ttyiring)),
                            !.bol = TRUE]))

\* The second of two keys that are the same stands for itself.
Doubled(c, k) == c.ttyiring # << >> /\ Head(c.ttyiring) = k

Undoubled(c) == [c EXCEPT !.ttyiring = Tail(c.ttyiring)]

\* The key k is not, or no longer, special as an escape character.
Ordinary(c, k) ==
    CASE k = "echoc" /\ c.mode.echoc /\ ~Doubled(c, k) -> Leave(NewMode(c))
      [] k = "echoc" /\ c.mode.echoc /\ Doubled(c, k) -> Transmit(Undoubled(c), k)
      [] k = "intr" /\ c.mode.local -> Interrupt(c)
      [] OTHER -> Transmit(c, k)

\* rlogin mode: a tilde at the beginning of a line and the key after it.
Rlogin(c, k) ==
    LET d == [c EXCEPT !.bol = FALSE, !.local = FALSE]
    IN  CASE c.bol /\ k = "tilde" -> Stay([d EXCEPT !.local = TRUE])
          [] ~c.bol /\ c.local /\ k = "dot" -> Leave([d EXCEPT !.pc = "closed"])
          [] ~c.bol /\ c.local /\ k = "susp" -> Stay(NewMode([d EXCEPT !.bol = TRUE]))
          [] ~c.bol /\ c.local /\ k = "esc" -> CommandLine(d)
          [] ~c.bol /\ c.local /\ k = "tilde" -> Ordinary(d, k)
          [] ~c.bol /\ c.local /\ k \notin {"dot", "susp", "esc", "tilde"} ->
               Ordinary([d EXCEPT !.ttyiring = <<k>> \o c.ttyiring], "tilde")
          [] OTHER -> Ordinary([d EXCEPT !.local = c.local], k)

Keyed(c, k) ==
    LET d == [c EXCEPT !.bol = FALSE]
    IN  CASE c.mode.escape = "rlogin" -> Rlogin(c, k)
          [] c.mode.escape = "telnet" /\ k = "esc" ->
               IF Doubled(c, k) THEN Ordinary(Undoubled(d), k) ELSE CommandLine(c)
          [] OTHER -> Ordinary(d, k)

-----------------------------------------------------------------------------
(* What the server hears: characters, and commands from IAC on.            *)

Heard(s) ==
    LET end(i) == LET ends == {j \in i + 3 .. Len(s) : s[j - 1] = "IAC" /\ s[j] = "SE"}
                  IN  IF ends = {} THEN Len(s) ELSE Min(ends)
        item(i) == IF s[i] # "IAC" THEN i
                   ELSE IF i = Len(s) THEN i
                   ELSE CASE s[i + 1] = "SB" -> end(i)
                          [] s[i + 1] \in {"DO", "WILL"} -> Min({i + 2, Len(s)})
                          [] OTHER -> i + 1
        from[i \in 1 .. Len(s) + 1] ==
            IF i > Len(s) THEN << >>
            ELSE LET piece == SubSeq(s, i, item(i))
                 IN  <<IF piece = <<"IAC", "IAC">> THEN <<"IAC">> ELSE piece>>
                        \o from[item(i) + 1]
    IN  from[1]

Count(items, item) == Cardinality({i \in DOMAIN items : items[i] = item})

-----------------------------------------------------------------------------
Init ==
    /\ \E mode \in Modes : client = ClientInit(mode)
    /\ stream = << >> /\ urgent = 0 /\ typed = << >> /\ sent = << >>
    /\ told = [octets |-> 0, mark |-> 0, timed |-> 0]
    /\ budget \in Budgets

Happens(kind) ==
    /\ budget[kind] > 0
    /\ budget' = [budget EXCEPT ![kind] = @ - 1]

\* The server writes a unit, its octet at place mark as urgent data.
ServerSends(unit, mark) ==
    /\ stream' = stream \o [i \in DOMAIN unit |-> [code |-> unit[i], n |-> told.octets + i]]
    /\ urgent' = IF mark > 0 THEN Len(stream) + mark ELSE urgent
    /\ UNCHANGED <<client, typed, sent>>

\* What arrives while the client is busy it finds on its return to select();
\* only urgent data shows before, in stilloob().
Noticeable == client.pc = "select"

\* A Synch: telnetd marks the IAC, other servers the DM.
ServerWrites(unit) ==
    /\ Happens("units")
    /\ unit = <<"IAC", "DM">> \/ Noticeable
    /\ \E mark \in IF unit = <<"IAC", "DM">> THEN {1, 2} ELSE {0} : ServerSends(unit, mark)
    /\ told' = [told EXCEPT !.octets = @ + Len(unit),
                           !.mark = IF unit = <<"IAC", "DM">> THEN told.octets + 2 ELSE @]

\* The server answers a DO TIMING-MARK.
ServerAnswers ==
    /\ Noticeable /\ Count(Heard(sent), Timing) > told.timed
    /\ ServerSends(<<"IAC", "WILL", "TM">>, 0)
    /\ told' = [told EXCEPT !.octets = @ + 3, !.timed = @ + 1]
    /\ UNCHANGED budget

UserTypes(k) ==
    /\ Noticeable /\ Happens("keys")
    /\ typed' = Append(typed, k)
    /\ UNCHANGED <<client, stream, urgent, sent, told>>

Running(pc) == client.pc = pc /\ client.writing = << >> /\ ~client.overrun

(***************************************************************************)
(* process_rings(): the notice of urgent data, then n bytes to the network *)
(* (Ring has the partial writes) and t to the terminal, then k bytes from  *)
(* the network and j from the terminal.                                    *)
(* select() may have looked before the urgent data came.  A read stops     *)
(* before the urgent byte, and one place in a ring stays free for ungetch. *)
(***************************************************************************)
ProcessRings ==
    /\ Running("select")
    /\ \E noticed \in BOOLEAN :
        LET a == IF noticed THEN Drop([client EXCEPT !.SYNCHing = TRUE]) ELSE client
        IN  /\ noticed => urgent # 0 /\ ~client.SYNCHing
            /\ \E n \in {0, Len(a.netoring)}, t \in 0 .. Len(a.ttyoring),
                  k \in 0 .. Min({Len(stream), NetInSize - 1 - Len(a.netiring)}),
                  j \in 0 .. Min({Len(typed), TtyInSize - 1 - Len(a.ttyiring)}) :
                LET b == [a EXCEPT !.netoring = SubSeq(a.netoring, n + 1, Len(a.netoring))]
                    c == IF t = 0 THEN b ELSE TtyFlush(b, t)
                    d == [c EXCEPT !.netiring = c.netiring \o SubSeq(stream, 1, k),
                                   !.ttyiring = c.ttyiring \o SubSeq(typed, 1, j)]
                IN  /\ urgent <= 1 \/ k < urgent
                    /\ client' = Onward(d, TRUE)
                    /\ sent' = sent \o SubSeq(a.netoring, 1, n)
                    /\ stream' = SubSeq(stream, k + 1, Len(stream))
                    /\ urgent' = IF urgent > k THEN urgent - k ELSE 0
                    /\ typed' = SubSeq(typed, j + 1, Len(typed))
    /\ UNCHANGED <<told, budget>>

Telsnd ==
    /\ Running("telsnd")
    /\ LET k == Head(client.ttyiring)
           r == Keyed([client EXCEPT !.ttyiring = Tail(client.ttyiring)], k)
       IN  client' = IF r.client.pc = "closed" THEN r.client
                     ELSE Onward(r.client, r.looping)
    /\ UNCHANGED <<stream, urgent, typed, sent, told, budget>>

Telrcv ==
    /\ Running("telrcv")
    /\ \E c \in Received(client, urgent # 0) : client' = Onward(c, FALSE)
    /\ UNCHANGED <<stream, urgent, typed, sent, told, budget>>

\* The program writes what it has to, a byte at a time if that can be seen.
WriteOut ==
    /\ client.writing # << >> /\ ~client.overrun
    /\ LET n == IF SignalAnywhere THEN 1 ELSE Len(client.writing)
       IN  client' = [Add(client, SubSeq(client.writing, 1, n)) EXCEPT
                        !.writing = SubSeq(client.writing, n + 1, Len(client.writing))]
    /\ UNCHANGED <<stream, urgent, typed, sent, told, budget>>

\* A handler runs, of a program that is stuck as well.
Handler ==
    /\ Happens("signals")
    /\ client.pc # "closed" /\ ~client.overrun
    /\ SignalAnywhere \/ client.writing = << >>
    /\ UNCHANGED <<stream, urgent, typed, sent, told>>

\* Whether a handler finds flush() busy: it may run inside a flush() of
\* process_rings(), and if it is stuck there, that flush() stays busy.
Busy ==
    IF client.pc = "stuck" THEN {TRUE}
    ELSE {FALSE, client.pc = "select" /\ client.writing = << >>}

Signalled(cmd) ==
    LET says == Interruption(client.mode, cmd)
    IN  \E busy \in Busy :
            client' = Add([Flushed(client, busy) EXCEPT !.meant = client.meant \o says],
                          FlattenSeq(says))

\* SIGINT: intr()
Intr == client.mode.local /\ Handler /\ Signalled("IP")

\* rlogin_susp(): the command "z", between setcommandmode() and setconnmode().
RloginSusp ==
    \E busy \in Busy :
        client' = HandlersMode([client EXCEPT !.local = FALSE, !.bol = TRUE], busy)

\* SIGTSTP: susp(), which in rlogin mode may be a command to telnet.  The
\* signal is blocked in its own handler.
Susp ==
    /\ Handler /\ client.pc # "stuck"
    /\ IF client.mode.escape = "rlogin" /\ client.local THEN RloginSusp
       ELSE client.mode.local /\ Signalled("SUSP")

\* SIGWINCH: sendwin()
Winch ==
    /\ Handler
    /\ client' = Add([client EXCEPT !.meant = Append(client.meant, Naws)], Naws)

Next ==
    \/ \E unit \in Unit : ServerWrites(unit)
    \/ ServerAnswers
    \/ \E k \in Key : UserTypes(k)
    \/ ProcessRings
    \/ Telsnd
    \/ Telrcv
    \/ WriteOut
    \/ Intr
    \/ Susp
    \/ Winch

(***************************************************************************)
(* telnet() calls Scheduler() for ever (telnet.cc:1759).  The server reads *)
(* and answers timing marks, the terminal is not stopped.  Nothing makes   *)
(* the user type or the server write.                                      *)
(***************************************************************************)
Fairness ==
    /\ WF_vars(ProcessRings)
    /\ WF_vars(Telsnd)
    /\ WF_vars(Telrcv)
    /\ WF_vars(WriteOut)
    /\ WF_vars(ServerAnswers)

Spec == Init /\ [][Next]_vars /\ Fairness

-----------------------------------------------------------------------------
(* Properties                                                              *)

(***************************************************************************)
(* telrcv() tests for room once per character and then writes up to two:   *)
(* the ring to the terminal is never filled, whatever terminal and crmod.  *)
(***************************************************************************)
TtyNeverFull == Len(client.ttyoring) < TtyOutSize

(***************************************************************************)
(* The server hears exactly what was meant for it, in order: every key     *)
(* with its IAC doubled and its line end translated, and every command     *)
(* whole, whichever of them the main program and the handlers send.        *)
(***************************************************************************)
WireMeans ==
    ~client.overrun /\ client.writing = << >>
      => Heard(sent \o client.netoring) = client.meant

(***************************************************************************)
(* telnet.1:751: if the interrupt character is typed in localchars mode, a *)
(* TELNET IP is sent to the remote host.                                   *)
(***************************************************************************)
InterruptIsSent ==
    ~client.overrun /\ client.writing = << >>
      => Count(Heard(sent \o client.netoring), <<"IAC", "IP">>)
           = Count(client.meant, <<"IAC", "IP">>)

\* Octets read one after the other, and the text they stand for: in state "cr"
\* a carriage return has been shown, and NUL belongs to it.
Reading == [state : ParserState, text : Seq(Octet)]

Moves(m, state) == [m EXCEPT !.state = state]

Shows(m, o, state) == [state |-> state, text |-> Append(m.text, o)]

DataShows(mode, m, o) ==
    CASE o.code = "IAC" -> Moves(m, "iac")
      [] o.code = "CR" /\ mode.text -> Shows(m, o, "cr")
      [] OTHER -> Shows(m, o, "data")

CommandMoves(m, o) ==
    CASE o.code \in {"WILL", "DO", "DONT"} -> Moves(m, o.code)
      [] o.code = "SB" -> Moves(m, "sb")
      [] OTHER -> Moves(m, "data")

TextNext(mode, m, o) ==
    CASE m.state = "data" -> DataShows(mode, m, o)
      [] m.state = "cr" -> IF o.code = "NUL" THEN Moves(m, "data") ELSE DataShows(mode, m, o)
      [] m.state = "iac" -> IF o.code = "IAC" THEN Shows(m, o, "data") ELSE CommandMoves(m, o)
      [] m.state \in {"WILL", "DO", "DONT"} -> Moves(m, "data")
      [] m.state = "sb" -> IF o.code = "IAC" THEN Moves(m, "se") ELSE m
      [] m.state = "se" -> CASE o.code = "IAC" -> Moves(m, "sb")
                             [] o.code = "SE" -> Moves(m, "data")
                             [] OTHER -> CommandMoves(m, o)

NothingRead(since) == [state |-> since, text |-> << >>]

\* The text for s, the parser being in state "since".
Text(mode, since, s) ==
    LET m[i \in 0 .. Len(s)] ==
            IF i = 0 THEN NothingRead(since) ELSE TextNext(mode, m[i - 1], s[i])
    IN  m[Len(s)].text

\* The octets behind number n.
Beyond(s, n) == FlattenSeq([i \in DOMAIN s |-> IF s[i].n > n THEN <<s[i]>> ELSE << >>])

\* A carriage return with nothing but others between it and a line feed.
Idle(s, i) ==
    \E j \in i + 1 .. Len(s) : s[j].code = "LF" /\ \A k \in i .. j - 1 : s[k].code = "CR"

\* Carriage returns right before a line feed make no difference to a line.
WithoutReturns(s) ==
    FlattenSeq([i \in DOMAIN s |-> IF Idle(s, i) THEN << >> ELSE <<s[i]>>])

(***************************************************************************)
(* However the stream is cut into reads, and wherever the terminal makes   *)
(* telrcv() pause, the text shown since output was last dropped is the     *)
(* text that the octets read since then stand for.                         *)
(***************************************************************************)
ChunkingInvisible ==
    ~client.mode.crmod =>
        WithoutReturns(Beyond(client.shown \o client.ttyoring, client.refused))
          = WithoutReturns(Text(client.mode, client.since, client.seen))

(***************************************************************************)
(* A Synch costs no text that the server has written behind its DM, though *)
(* the urgent notice comes before, between or after the reads: what is     *)
(* dropped, but for the user's own flush, stands before a DM.              *)
(***************************************************************************)
OnlyBeforeSynch == client.lastDropped <= told.mark

(***************************************************************************)
(* The client always comes to rest: all that was typed and written has got *)
(* through, no Synch is pending and output flows again.  One free place in *)
(* a ring, a paused loop or a doflush() that finds flush() busy leaves     *)
(* nothing behind.  Only susp() in rlogin mode that finds it busy, with    *)
(* output for the terminal to come, is excepted: it does not come back.    *)
(***************************************************************************)
Quiesces ==
    []<>(\/ client.pc \in {"closed", "stuck"} \/ client.overrun
         \/ /\ stream = << >> /\ typed = << >>
            /\ client.netiring = << >> /\ client.ttyiring = << >>
            /\ client.netoring = << >> /\ client.ttyoring = << >>
            /\ ~client.SYNCHing /\ ~client.flushout)
=============================================================================
