---------------------------- MODULE ClientIOProofs ----------------------------
(***************************************************************************)
(* Proofs about ClientIO for every size of the rings, every session, every *)
(* server and every user.  telrcv() never fills the ring to the terminal;  *)
(* what the server hears is what was meant for it, as long as no signal    *)
(* comes between the bytes of a message; and a Synch costs no text that    *)
(* stands behind its DM.                                                   *)
(*                                                                         *)
(* The first rests on what a step adds to the ring (Grows, Keeps).  The    *)
(* second has three parts: Heard(), which reads bytes, reads a sequence of *)
(* whole items back one by one (HeardItems); every step of telsnd() and    *)
(* telrcv() writes whole items that mean what is meant, or nothing         *)
(* (Speaks); and so what has gone out, what is in the ring and what is     *)
(* still to be written are always such a sequence (WireInv).  The third    *)
(* numbers the octets: those that are unread, which the parser will take   *)
(* one by one (Unread), and those that have been taken (Tidy).             *)
(***************************************************************************)
EXTENDS ClientIO, SequenceLemmas

-----------------------------------------------------------------------------
(* Sequences                                                               *)

LEMMA SubSeqType ==
    ASSUME NEW S, NEW s \in Seq(S), NEW m \in Nat \ {0}, NEW n \in Int, n <= Len(s)
    PROVE  /\ SubSeq(s, m, n) \in Seq(S)
           /\ m <= Len(s) + 1 => Len(SubSeq(s, m, Len(s))) = Len(s) - m + 1
OBVIOUS

LEMMA HeadType ==
    ASSUME NEW S, NEW s \in Seq(S), s # << >>
    PROVE  Head(s) \in S /\ Tail(s) \in Seq(S)
OBVIOUS

LEMMA ShortType ==
    ASSUME NEW S
    PROVE  /\ << >> \in Seq(S) /\ Len(<< >>) = 0
           /\ \A a \in S : <<a>> \in Seq(S) /\ Len(<<a>>) = 1
           /\ \A a, b \in S : <<a, b>> \in Seq(S) /\ Len(<<a, b>>) = 2
OBVIOUS

LEMMA ConcatType ==
    ASSUME NEW S, NEW s \in Seq(S), NEW t \in Seq(S)
    PROVE  s \o t \in Seq(S) /\ Len(s \o t) = Len(s) + Len(t)
OBVIOUS

\* Min() of two numbers.
LEMMA MinOfTwo ==
    ASSUME NEW a \in Int, NEW b \in Int
    PROVE  Min({a, b}) \in Int /\ Min({a, b}) <= a
BY DEF Min

-----------------------------------------------------------------------------
(* The ring to the terminal                                                *)

\* The fields of the client's state.
Fields ==
    {"netiring", "ttyoring", "ttyiring", "netoring", "writing", "state", "SYNCHing",
     "flushout", "bol", "local", "pc", "mode", "overrun", "shown", "seen", "since",
     "refused", "lastDropped", "meant"}

\* As much of its type as the proof needs.
Form(c) ==
    /\ DOMAIN c = Fields /\ c.state \in ParserState
    /\ c.netiring \in Seq(Octet) /\ c.ttyoring \in Seq(Octet)

\* In d there are at most n more bytes for the terminal than in c.
Grows(c, d, n) == Form(d) /\ Len(d.ttyoring) <= Len(c.ttyoring) + n

\* What a handler does: the program finds no fewer bytes to take, and no less
\* room.
Keeps(c, d) == Grows(c, d, 0) /\ d.netiring = c.netiring /\ d.pc = c.pc

LEMMA Lengths ==
    ASSUME NEW c, Form(c)
    PROVE  Len(c.ttyoring) \in Nat /\ Len(c.netiring) \in Nat /\ Grows(c, c, 0) /\ Grows(c, c, 2)
BY DEF Form, Grows

LEMMA GrowsMore ==
    ASSUME NEW c, NEW d, NEW e, Form(c), Grows(c, d, 0), NEW n \in Nat, Grows(d, e, n)
    PROVE  Grows(c, e, n)
BY DEF Form, Grows

LEMMA GrowsLess ==
    ASSUME NEW c, NEW d, Form(c), Grows(c, d, 0)
    PROVE  Grows(c, d, 2)
BY DEF Form, Grows

LEMMA KeepsMore ==
    ASSUME NEW c, NEW d, NEW e, Form(c), Keeps(c, d), Keeps(d, e)
    PROVE  Keeps(c, e)
BY DEF Form, Grows, Keeps

\* A field that is not a ring from or to the outside.
Others == Fields \ {"netiring", "ttyoring", "state", "pc"}

LEMMA OtherField ==
    ASSUME NEW c, Form(c), NEW f \in Others, NEW v
    PROVE  Keeps(c, [c EXCEPT ![f] = v])
BY DEF Form, Grows, Keeps, Others, Fields

\* The state as a record with another ring to the terminal.
LEMMA RingField ==
    ASSUME NEW c, Form(c), NEW q \in Seq(Octet)
    PROVE  /\ Form([c EXCEPT !.ttyoring = q]) /\ [c EXCEPT !.ttyoring = q].ttyoring = q
           /\ [c EXCEPT !.ttyoring = q].netiring = c.netiring /\ [c EXCEPT !.ttyoring = q].pc = c.pc
BY DEF Form, Fields

\* TTYADD of one or two characters.
LEMMA ShowGrows ==
    ASSUME NEW c, Form(c), NEW text \in Seq(Octet), Len(text) <= 2
    PROVE  Grows(c, Show(c, text), 2)
<1>1. CASE c.SYNCHing \/ c.flushout
  <2>. DEFINE n == Last(text).n
              d == [c EXCEPT !.seen = << >>, !.since = c.state, !.refused = n,
                             !.lastDropped = IF c.flushout THEN c.lastDropped ELSE n]
  <2>1. Show(c, text) = d
    BY <1>1 DEF Show
  <2>2. DOMAIN d = Fields /\ d.state = c.state /\ d.netiring = c.netiring /\ d.ttyoring = c.ttyoring
    BY DEF Form, Fields
  <2>. HIDE DEF d
  <2>. QED  BY <2>1, <2>2, Lengths DEF Grows, Form
<1>2. CASE ~(c.SYNCHing \/ c.flushout)
  <2>. DEFINE q == c.ttyoring \o text
  <2>1. q \in Seq(Octet) /\ Len(q) = Len(c.ttyoring) + Len(text)
    BY ConcatType DEF Form
  <2>. HIDE DEF q
  <2>2. Show(c, text) = [c EXCEPT !.ttyoring = q]
    BY <1>2 DEF Show, q
  <2>3. Len(q) <= Len(c.ttyoring) + 2
    BY <2>1, Lengths
  <2>. QED  BY <2>1, <2>2, <2>3, RingField DEF Grows
<1>. QED  BY <1>1, <1>2

\* ttyflush(1)
LEMMA DropKeeps ==
    ASSUME NEW c, Form(c)
    PROVE  Keeps(c, Drop(c))
<1>. DEFINE last == IF c.flushout \/ c.ttyoring = << >> THEN c.lastDropped ELSE Last(c.ttyoring).n
            d == [c EXCEPT !.ttyoring = << >>, !.shown = << >>, !.seen = << >>, !.since = c.state,
                           !.lastDropped = last]
<1>1. Drop(c) = d
  BY DEF Drop
<1>. HIDE DEF last
<1>2. /\ DOMAIN d = Fields /\ d.state = c.state /\ d.netiring = c.netiring /\ d.ttyoring = << >> /\ d.pc = c.pc
  BY DEF Form, Fields
<1>. HIDE DEF d
<1>3. d.ttyoring \in Seq(Octet) /\ Len(d.ttyoring) = 0
  BY <1>2, ShortType
<1>. QED  BY <1>1, <1>2, <1>3, Lengths DEF Keeps, Grows, Form

\* ttyflush()
LEMMA TtyFlushKeeps ==
    ASSUME NEW c, Form(c), NEW k \in 0 .. Len(c.ttyoring)
    PROVE  Keeps(c, TtyFlush(c, k))
<1>. DEFINE q == SubSeq(c.ttyoring, k + 1, Len(c.ttyoring))
            shown == c.shown \o SubSeq(c.ttyoring, 1, k)
            d == [c EXCEPT !.ttyoring = q, !.shown = shown]
<1>1. q \in Seq(Octet) /\ Len(q) = Len(c.ttyoring) - k
  <2>. DEFINE r == c.ttyoring
              m == k + 1
  <2>1. r \in Seq(Octet) /\ m \in Nat \ {0} /\ Len(r) \in Int /\ m <= Len(r) + 1
    BY DEF Form
  <2>2. m - 1 = k
    OBVIOUS
  <2>. HIDE DEF r, m
  <2>3. SubSeq(r, m, Len(r)) \in Seq(Octet) /\ Len(SubSeq(r, m, Len(r))) = Len(r) - m + 1
    BY <2>1, SubSeqType
  <2>. QED  BY <2>1, <2>2, <2>3 DEF r, m
<1>. HIDE DEF q, shown
<1>2. DOMAIN d = Fields /\ d.state = c.state /\ d.netiring = c.netiring /\ d.ttyoring = q /\ d.pc = c.pc
  BY DEF Form, Fields
<1>3. Write(c, k) = d
  BY DEF Write, q, shown
<1>. HIDE DEF d
<1>4. Len(q) <= Len(c.ttyoring)
  BY <1>1, Lengths
<1>5. Keeps(c, Write(c, k))
  BY <1>1, <1>2, <1>3, <1>4, Lengths DEF Keeps, Grows, Form
<1>. QED  BY <1>5, DropKeeps DEF TtyFlush

LEMMA NewModeKeeps ==
    ASSUME NEW c, Form(c)
    PROVE  Keeps(c, NewMode(c))
BY TtyFlushKeeps, Lengths DEF NewMode

\* doflush()
LEMMA FlushedKeeps ==
    ASSUME NEW c, Form(c), NEW busy \in BOOLEAN
    PROVE  Keeps(c, Flushed(c, busy))
<1>. DEFINE d == [c EXCEPT !.flushout = TRUE]
<1>1. Keeps(c, d) /\ Form(d)
  BY OtherField DEF Others, Fields, Keeps, Grows
<1>2. Keeps(c, c)
  BY Lengths DEF Keeps
<1>. HIDE DEF d
<1>3. Keeps(c, Drop(d))
  BY <1>1, DropKeeps, KeepsMore
<1>. QED  BY <1>1, <1>2, <1>3 DEF Flushed, d

\* Emit() and Add(), which write to the other ring.
LEMMA EmitKeeps ==
    ASSUME NEW c, Form(c), NEW bytes, NEW says
    PROVE  Keeps(c, Emit(c, bytes, says))
<1>. DEFINE meant == c.meant \o says
            d == [c EXCEPT !.writing = bytes, !.meant = meant]
<1>. HIDE DEF meant
<1>1. DOMAIN d = Fields /\ d.state = c.state /\ d.netiring = c.netiring /\ d.ttyoring = c.ttyoring /\ d.pc = c.pc
  BY DEF Form, Fields
<1>2. Emit(c, bytes, says) = d
  BY DEF Emit, meant
<1>. HIDE DEF d
<1>. QED  BY <1>1, <1>2, Lengths DEF Keeps, Grows, Form

LEMMA AddKeeps ==
    ASSUME NEW c, Form(c), NEW bytes
    PROVE  Keeps(c, Add(c, bytes))
<1>. DEFINE q == c.netoring \o bytes
            overrun == c.overrun \/ Len(c.netoring) + Len(bytes) >= NetOutSize
            d == [c EXCEPT !.netoring = q, !.overrun = overrun]
<1>. HIDE DEF q, overrun
<1>1. DOMAIN d = Fields /\ d.state = c.state /\ d.netiring = c.netiring /\ d.ttyoring = c.ttyoring /\ d.pc = c.pc
  BY DEF Form, Fields
<1>2. Add(c, bytes) = d
  BY DEF Add, q, overrun
<1>. HIDE DEF d
<1>. QED  BY <1>1, <1>2, Lengths DEF Keeps, Grows, Form

-----------------------------------------------------------------------------
(* telrcv()                                                                *)

\* How an octet is shown: as one character, or two.
LEMMA ReturnType ==
    ASSUME NEW mode, NEW o \in Octet
    PROVE  Return(mode, o) \in Seq(Octet) /\ Len(Return(mode, o)) <= 2
<1>. DEFINE lf == [o EXCEPT !.code = "LF"]
<1>1. lf \in Octet
  BY DEF Octet, Code
<1>. HIDE DEF lf
<1>2. /\ <<o>> \in Seq(Octet) /\ Len(<<o>>) = 1
      /\ <<o, lf>> \in Seq(Octet) /\ Len(<<o, lf>>) = 2
  BY <1>1, ShortType
<1>3. Return(mode, o) = IF mode.crmod THEN <<o, lf>> ELSE <<o>>
  BY DEF Return, lf
<1>. QED  BY <1>2, <1>3

LEMMA ShowOne ==
    ASSUME NEW c, Form(c), NEW o \in Octet
    PROVE  Grows(c, Show(c, <<o>>), 2)
<1>1. <<o>> \in Seq(Octet) /\ Len(<<o>>) = 1
  BY ShortType
<1>2. Len(<<o>>) <= 2
  BY <1>1
<1>. QED  BY <1>1, <1>2, ShowGrows

\* The parser moves on.
LEMMA StateKeeps ==
    ASSUME NEW c, Form(c), NEW state \in ParserState
    PROVE  Keeps(c, [c EXCEPT !.state = state]) /\ Form([c EXCEPT !.state = state])
<1>. DEFINE d == [c EXCEPT !.state = state]
<1>1. /\ DOMAIN d = Fields /\ d.state = state /\ d.netiring = c.netiring
      /\ d.ttyoring = c.ttyoring /\ d.pc = c.pc
  BY DEF Form, Fields
<1>. HIDE DEF d
<1>2. Form(d) /\ Keeps(c, d)
  BY <1>1, Lengths DEF Keeps, Grows, Form
<1>. QED  BY <1>2 DEF d

\* The next octet is taken.
LEMMA TakeGrows ==
    ASSUME NEW c, Form(c), c.netiring # << >>, NEW seen
    PROVE  /\ Head(c.netiring) \in Octet
           /\ Grows(c, [c EXCEPT !.netiring = Tail(c.netiring), !.seen = seen], 0)
           /\ Form([c EXCEPT !.netiring = Tail(c.netiring), !.seen = seen])
<1>. DEFINE q == Tail(c.netiring)
            d == [c EXCEPT !.netiring = q, !.seen = seen]
<1>1. Head(c.netiring) \in Octet /\ q \in Seq(Octet)
  BY HeadType DEF Form
<1>. HIDE DEF q
<1>2. DOMAIN d = Fields /\ d.state = c.state /\ d.netiring = q /\ d.ttyoring = c.ttyoring
  BY DEF Form, Fields
<1>. HIDE DEF d
<1>3. Grows(c, d, 0) /\ Form(d)
  BY <1>1, <1>2, Lengths DEF Grows, Form
<1>. QED  BY <1>1, <1>3 DEF d, q

\* Even a carriage return, which may take two octets and show two characters.
LEMMA CarriageReturnGrows ==
    ASSUME NEW c, Form(c), NEW o \in Octet
    PROVE  Grows(c, CarriageReturn(c, o), 2)
<1>. DEFINE next == Head(c.netiring)
            seen == Append(c.seen, next)
            d == [c EXCEPT !.netiring = Tail(c.netiring), !.seen = seen]
            cr == [c EXCEPT !.state = "cr"]
            text == Return(c.mode, o)
<1>1. Keeps(c, cr) /\ Form(cr)
  BY StateKeeps DEF ParserState
<1>2. text \in Seq(Octet) /\ Len(text) <= 2
  BY ReturnType
<1>. HIDE DEF text, cr
<1>3. Grows(c, Show(c, text), 2) /\ Grows(c, Show(cr, text), 2)
  BY <1>1, <1>2, ShowGrows, GrowsMore DEF Keeps
<1>4. CASE c.netiring = << >>
  BY <1>3, <1>4 DEF CarriageReturn, text, cr
<1>5. CASE c.netiring # << >>
  <2>. HIDE DEF seen
  <2>1. next \in Octet /\ Grows(c, d, 0) /\ Form(d)
    BY <1>5, TakeGrows
  <2>2. CarriageReturn(c, o) \in {Show(d, <<o>>), Show(d, <<next>>), Show(c, text)}
    BY <1>5 DEF CarriageReturn, text, seen
  <2>. HIDE DEF next, d
  <2>3. Grows(c, Show(d, <<o>>), 2) /\ Grows(c, Show(d, <<next>>), 2)
    BY <2>1, ShowOne, GrowsMore
  <2>. QED  BY <1>3, <2>2, <2>3
<1>. QED  BY <1>4, <1>5

LEMMA ReceiveDataGrows ==
    ASSUME NEW c, Form(c), NEW o \in Octet
    PROVE  Grows(c, ReceiveData(c, o), 2)
<1>. DEFINE d == [c EXCEPT !.state = "data"]
            iac == [c EXCEPT !.state = "iac"]
<1>1. /\ Keeps(c, d) /\ Form(d) /\ Keeps(c, iac)
  BY StateKeeps DEF ParserState
<1>2. ReceiveData(c, o) \in {iac, CarriageReturn(d, o), Show(d, <<o>>)}
  BY DEF ReceiveData
<1>. HIDE DEF d, iac
<1>3. Grows(c, iac, 2) /\ Grows(c, CarriageReturn(d, o), 2) /\ Grows(c, Show(d, <<o>>), 2)
  BY <1>1, CarriageReturnGrows, ShowOne, GrowsMore, GrowsLess DEF Keeps
<1>. QED  BY <1>2, <1>3

LEMMA ReceiveAfterCrGrows ==
    ASSUME NEW c, Form(c), NEW o \in Octet
    PROVE  Grows(c, ReceiveAfterCr(c, o), 2)
<1>. DEFINE d == [c EXCEPT !.state = "data"]
<1>1. Keeps(c, d) /\ Form(d)
  BY StateKeeps DEF ParserState
<1>2. ReceiveAfterCr(c, o) \in {d, Show(d, <<o>>), ReceiveData(c, o)}
  BY DEF ReceiveAfterCr
<1>. HIDE DEF d
<1>3. Grows(c, d, 2) /\ Grows(c, Show(d, <<o>>), 2) /\ Grows(c, ReceiveData(c, o), 2)
  BY <1>1, ReceiveDataGrows, ShowOne, GrowsMore, GrowsLess DEF Keeps
<1>. QED  BY <1>2, <1>3

LEMMA DataMarkGrows ==
    ASSUME NEW c, Form(c), NEW pending
    PROVE  Grows(c, DataMark(c, pending), 2)
<1>. DEFINE d == [c EXCEPT !.state = "data"]
            e == Drop(d)
<1>1. Keeps(c, d) /\ Form(d)
  BY StateKeeps DEF ParserState
<1>. HIDE DEF d
<1>2. Keeps(d, e) /\ Form(e)
  BY <1>1, DropKeeps DEF Keeps, Grows
<1>. HIDE DEF e
<1>3. Keeps(e, [e EXCEPT !.SYNCHing = pending])
  BY <1>2, OtherField DEF Others, Fields
<1>4. Keeps(c, [e EXCEPT !.SYNCHing = pending])
  BY <1>1, <1>2, <1>3, KeepsMore
<1>5. Grows(c, [e EXCEPT !.SYNCHing = pending], 2)
  BY <1>4, GrowsLess DEF Keeps
<1>. QED  BY <1>5 DEF DataMark, d, e

LEMMA ReceiveCommandGrows ==
    ASSUME NEW c, Form(c), NEW o \in Octet, NEW pending
    PROVE  Grows(c, ReceiveCommand(c, o, pending), 2)
<1>. DEFINE d == [c EXCEPT !.state = "data"]
            verb == [c EXCEPT !.state = o.code]
            sb == [c EXCEPT !.state = "sb"]
<1>1. /\ Keeps(c, d) /\ Form(d) /\ Keeps(c, sb)
      /\ o.code \in {"WILL", "DO", "DONT"} => Keeps(c, verb)
  BY StateKeeps DEF ParserState
<1>2. \/ ReceiveCommand(c, o, pending) \in {d, sb, DataMark(c, pending), Show(d, <<o>>)}
      \/ o.code \in {"WILL", "DO", "DONT"} /\ ReceiveCommand(c, o, pending) = verb
  BY DEF ReceiveCommand
<1>. HIDE DEF d, verb, sb
<1>3. /\ Grows(c, d, 2) /\ Grows(c, sb, 2)
      /\ o.code \in {"WILL", "DO", "DONT"} => Grows(c, verb, 2)
      /\ Grows(c, DataMark(c, pending), 2) /\ Grows(c, Show(d, <<o>>), 2)
  BY <1>1, DataMarkGrows, ShowOne, GrowsMore, GrowsLess DEF Keeps
<1>. QED  BY <1>2, <1>3

\* An answer goes to the other ring.
LEMMA AnsweredGrows ==
    ASSUME NEW c, NEW d, Grows(c, d, 2), NEW e \in Answered(d)
    PROVE  Grows(c, e, 2)
<1>1. PICK a \in Answers : e = Emit(d, FlattenSeq(a), a)
  BY DEF Answered
<1>. DEFINE bytes == FlattenSeq(a)
<1>. HIDE DEF bytes
<1>2. Keeps(d, Emit(d, bytes, a))
  BY EmitKeeps DEF Grows
<1>3. e = Emit(d, bytes, a)
  BY <1>1 DEF bytes
<1>. QED  BY <1>2, <1>3 DEF Keeps, Grows, Form

LEMMA ReceiveOptionGrows ==
    ASSUME NEW c, Form(c), NEW o \in Octet, NEW e \in ReceiveOption(c, o)
    PROVE  Grows(c, e, 2)
<1>. DEFINE d == [c EXCEPT !.state = "data"]
            on == [d EXCEPT !.flushout = FALSE]
<1>1. Keeps(c, d) /\ Form(d)
  BY StateKeeps DEF ParserState
<1>2. e = on \/ e \in Answered(NewMode(d)) \/ e \in Answered(d)
  BY Zenon DEF ReceiveOption
<1>. HIDE DEF d
<1>3. Keeps(d, on)
  BY <1>1, OtherField DEF Others, Fields
<1>. HIDE DEF on
<1>4. Grows(c, d, 2) /\ Grows(c, on, 2) /\ Grows(c, NewMode(d), 2)
  BY <1>1, <1>3, NewModeKeeps, KeepsMore, GrowsLess DEF Keeps
<1>. QED  BY <1>2, <1>4, AnsweredGrows

LEMMA CutShortKeeps ==
    ASSUME NEW c, Form(c), NEW o
    PROVE  Keeps(c, CutShort(c, o)) /\ Form(CutShort(c, o))
<1>. DEFINE iac == [c EXCEPT !.state = "iac"]
            d == NewMode(iac)
            seen == <<o>>
            e == [d EXCEPT !.seen = seen]
<1>1. CutShort(c, o) = d \/ CutShort(c, o) = e
  BY DEF CutShort
<1>2. Keeps(c, iac) /\ Form(iac)
  BY StateKeeps DEF ParserState
<1>. HIDE DEF iac, seen
<1>3. Keeps(c, d) /\ Form(d)
  BY <1>2, NewModeKeeps, KeepsMore DEF Keeps, Grows
<1>. HIDE DEF d
<1>4. Keeps(c, e)
  BY <1>3, OtherField, KeepsMore DEF Others, Fields
<1>. HIDE DEF e
<1>. QED  BY <1>1, <1>3, <1>4 DEF Keeps, Grows

LEMMA ReceiveSubEndGrows ==
    ASSUME NEW c, Form(c), NEW o \in Octet, NEW pending, NEW e \in ReceiveSubEnd(c, o, pending)
    PROVE  Grows(c, e, 2)
<1>. DEFINE d == [c EXCEPT !.state = "data"]
            sb == [c EXCEPT !.state = "sb"]
            command == ReceiveCommand(c, o, pending)
            cut == CutShort(c, o)
            late == ReceiveCommand(cut, o, pending)
<1>1. Keeps(c, d) /\ Form(d) /\ Keeps(c, sb)
  BY StateKeeps DEF ParserState
<1>2. \/ e = sb \/ e \in Answered(d) \/ e \in Answered(NewMode(d))
      \/ e \in Answered(command) \/ e \in Answered(late)
  BY DEF ReceiveSubEnd
<1>3. Keeps(c, cut) /\ Form(cut)
  BY CutShortKeeps
<1>. HIDE DEF d, sb, cut
<1>4. Keeps(c, NewMode(d))
  BY <1>1, NewModeKeeps, KeepsMore
<1>5. Grows(c, command, 2) /\ Grows(cut, late, 2)
  BY <1>3, ReceiveCommandGrows
<1>. HIDE DEF command, late
<1>6. Grows(c, late, 2)
  BY <1>3, <1>5, GrowsMore DEF Keeps
<1>7. Grows(c, d, 2) /\ Grows(c, sb, 2) /\ Grows(c, NewMode(d), 2)
  BY <1>1, <1>4, GrowsLess DEF Keeps
<1>. QED  BY <1>2, <1>5, <1>6, <1>7, AnsweredGrows

\* An octet costs at most two places in the ring.
LEMMA ReceivedGrows ==
    ASSUME NEW c, Form(c), c.netiring # << >>, NEW pending, NEW e \in Received(c, pending)
    PROVE  Grows(c, e, 2)
<1>. DEFINE o == Head(c.netiring)
            seen == Append(c.seen, o)
            d == [c EXCEPT !.netiring = Tail(c.netiring), !.seen = seen]
            se == [d EXCEPT !.state = "se"]
<1>1. e \in {ReceiveData(d, o), ReceiveAfterCr(d, o), ReceiveCommand(d, o, pending), d, se}
         \/ e \in ReceiveOption(d, o) \/ e \in ReceiveSubEnd(d, o, pending)
  <2>1. Received(c, pending) \in
           {{ReceiveData(d, o)}, {ReceiveAfterCr(d, o)}, {ReceiveCommand(d, o, pending)},
            ReceiveOption(d, o), {IF o.code = "IAC" THEN se ELSE d},
            ReceiveSubEnd(d, o, pending)}
    <3>1. c.state \in {"data", "cr", "iac", "WILL", "DO", "DONT", "sb", "se"}
      BY DEF Form, ParserState
    <3>. QED  BY <3>1 DEF Received
  <2>. HIDE DEF o, d, se
  <2>. QED  BY <2>1
<1>. HIDE DEF seen
<1>2. o \in Octet /\ Grows(c, d, 0) /\ Form(d)
  BY TakeGrows
<1>. HIDE DEF o, d
<1>3. Keeps(d, se)
  BY <1>2, StateKeeps DEF ParserState
<1>. HIDE DEF se
<1>4. Grows(d, e, 2)
  <2>1. Grows(d, d, 2) /\ Grows(d, se, 2)
    BY <1>2, <1>3, GrowsLess, Lengths DEF Keeps
  <2>. QED  BY <1>1, <1>2, <2>1, ReceiveDataGrows, ReceiveAfterCrGrows, ReceiveCommandGrows,
            ReceiveOptionGrows, ReceiveSubEndGrows
<1>. QED  BY <1>2, <1>4, GrowsMore

-----------------------------------------------------------------------------
(* telsnd(), which only drains the ring                                    *)

LEMMA TransmitGrows ==
    ASSUME NEW c, NEW d, Form(c), Grows(c, d, 0), NEW k
    PROVE  Grows(c, Transmit(d, k).client, 0)
<1>. DEFINE bol == d.bol \/ k \in {"LF", "CR"}
            e == [d EXCEPT !.bol = bol]
            bytes == Encoded(d.mode, k)
            says == Characters(d.mode, k)
<1>1. Transmit(d, k).client = Emit(e, bytes, says)
  BY DEF Transmit, Stay
<1>. HIDE DEF bol, bytes, says
<1>2. Keeps(d, e) /\ Form(e)
  BY OtherField DEF Others, Fields, Keeps, Grows
<1>. HIDE DEF e
<1>3. Keeps(e, Emit(e, bytes, says))
  BY <1>2, EmitKeeps
<1>. QED  BY <1>1, <1>2, <1>3, GrowsMore DEF Keeps, Grows

LEMMA InterruptGrows ==
    ASSUME NEW c, NEW d, Form(c), Grows(c, d, 0)
    PROVE  Grows(c, Interrupt(d).client, 0)
<1>. DEFINE says == Interruption(d.mode, "IP")
            bytes == FlattenSeq(says)
            e == [d EXCEPT !.bol = TRUE]
            f == Flushed(e, FALSE)
<1>1. Interrupt(d).client = Emit(f, bytes, says)
  BY DEF Interrupt, Leave
<1>. HIDE DEF bytes, says
<1>2. Keeps(d, e) /\ Form(e)
  BY OtherField DEF Others, Fields, Keeps, Grows
<1>. HIDE DEF e
<1>3. Keeps(e, f) /\ Form(f)
  BY <1>2, FlushedKeeps DEF Keeps, Grows
<1>. HIDE DEF f
<1>4. Keeps(f, Emit(f, bytes, says))
  BY <1>3, EmitKeeps
<1>. QED  BY <1>1, <1>2, <1>3, <1>4, GrowsMore DEF Keeps, Grows

LEMMA NewModeGrows ==
    ASSUME NEW c, NEW d, Form(c), Grows(c, d, 0)
    PROVE  Grows(c, NewMode(d), 0)
BY NewModeKeeps, GrowsMore DEF Keeps, Grows

\* Two fields that are not rings from or to the outside.
LEMMA OtherFields ==
    ASSUME NEW c, NEW d, Form(c), Grows(c, d, 0), NEW u, NEW v
    PROVE  /\ Grows(c, [d EXCEPT !.ttyiring = u], 0)
           /\ Grows(c, [d EXCEPT !.ttyiring = u, !.bol = v], 0)
           /\ Grows(c, [d EXCEPT !.bol = u, !.local = v], 0)
           /\ Grows(c, [d EXCEPT !.local = u], 0)
           /\ Grows(c, [d EXCEPT !.bol = u], 0)
           /\ Grows(c, [d EXCEPT !.pc = u], 0)
BY DEF Grows, Form, Fields

LEMMA CommandLineGrows ==
    ASSUME NEW c, NEW d, Form(c), Grows(c, d, 0)
    PROVE  Grows(c, CommandLine(d).client, 0)
<1>. DEFINE rest == SubSeq(d.ttyiring, LineSize + 1, Len(d.ttyiring))
            e == [d EXCEPT !.ttyiring = rest, !.bol = TRUE]
<1>1. CommandLine(d).client = NewMode(e)
  BY DEF CommandLine, Leave
<1>. HIDE DEF rest
<1>2. Grows(c, e, 0)
  BY OtherFields
<1>. HIDE DEF e
<1>. QED  BY <1>1, <1>2, NewModeGrows

LEMMA OrdinaryGrows ==
    ASSUME NEW c, NEW d, Form(c), Grows(c, d, 0), NEW k
    PROVE  Grows(c, Ordinary(d, k).client, 0)
<1>. DEFINE e == Undoubled(d)
<1>1. Grows(c, e, 0)
  BY OtherFields DEF Undoubled
<1>2. Ordinary(d, k) \in {Leave(NewMode(d)), Transmit(e, k), Interrupt(d), Transmit(d, k)}
  BY DEF Ordinary
<1>. HIDE DEF e
<1>3. Leave(NewMode(d)).client = NewMode(d)
  BY DEF Leave
<1>4. /\ Grows(c, NewMode(d), 0) /\ Grows(c, Transmit(e, k).client, 0)
      /\ Grows(c, Interrupt(d).client, 0) /\ Grows(c, Transmit(d, k).client, 0)
  BY <1>1, NewModeGrows, TransmitGrows, InterruptGrows
<1>. QED  BY <1>2, <1>3, <1>4

LEMMA RloginGrows ==
    ASSUME NEW c, Form(c), NEW k
    PROVE  Grows(c, Rlogin(c, k).client, 0)
<1>. DEFINE d == [c EXCEPT !.bol = FALSE, !.local = FALSE]
            local == [d EXCEPT !.local = TRUE]
            closed == [d EXCEPT !.pc = "closed"]
            back == <<k>> \o c.ttyiring
            put == [d EXCEPT !.ttyiring = back]
            same == [d EXCEPT !.local = c.local]
            line == [d EXCEPT !.bol = TRUE]
<1>1. Rlogin(c, k) \in {Stay(local), Leave(closed), Stay(NewMode(line)), CommandLine(d),
                        Ordinary(d, k), Ordinary(put, "tilde"), Ordinary(same, k)}
  BY DEF Rlogin
<1>. HIDE DEF back
<1>2. Grows(c, d, 0)
  BY Lengths, OtherFields
<1>. HIDE DEF d
<1>3. /\ Grows(c, local, 0) /\ Grows(c, closed, 0) /\ Grows(c, put, 0) /\ Grows(c, same, 0)
      /\ Grows(c, line, 0)
  BY <1>2, OtherFields
<1>. HIDE DEF local, closed, put, same, line
<1>4. /\ Stay(local).client = local /\ Leave(closed).client = closed
      /\ Stay(NewMode(line)).client = NewMode(line) /\ Grows(c, NewMode(line), 0)
  BY <1>3, NewModeGrows DEF Stay, Leave
<1>5. /\ Grows(c, CommandLine(d).client, 0) /\ Grows(c, Ordinary(d, k).client, 0)
      /\ Grows(c, Ordinary(put, "tilde").client, 0) /\ Grows(c, Ordinary(same, k).client, 0)
  BY <1>2, <1>3, CommandLineGrows, OrdinaryGrows
<1>. QED  BY <1>1, <1>3, <1>4, <1>5

\* Whatever is typed, telsnd() puts nothing into the ring to the terminal.
LEMMA KeyedGrows ==
    ASSUME NEW c, Form(c), NEW k
    PROVE  Grows(c, Keyed(c, k).client, 0)
<1>. DEFINE d == [c EXCEPT !.bol = FALSE]
            e == Undoubled(d)
<1>1. Keyed(c, k) \in {Rlogin(c, k), Ordinary(e, k), CommandLine(c), Ordinary(d, k)}
  BY DEF Keyed
<1>2. Grows(c, c, 0) /\ Grows(c, d, 0)
  BY Lengths, OtherFields
<1>. HIDE DEF d
<1>3. Grows(c, e, 0)
  BY <1>2, OtherFields DEF Undoubled
<1>. HIDE DEF e
<1>4. /\ Grows(c, Rlogin(c, k).client, 0) /\ Grows(c, Ordinary(e, k).client, 0)
      /\ Grows(c, CommandLine(c).client, 0) /\ Grows(c, Ordinary(d, k).client, 0)
  BY <1>2, <1>3, RloginGrows, OrdinaryGrows, CommandLineGrows
<1>. QED  BY <1>1, <1>4

-----------------------------------------------------------------------------
(* The invariant                                                           *)

Sound(c) ==
    /\ Form(c) /\ Len(c.ttyoring) < TtyOutSize
    /\ c.pc = "telrcv" => CanReceive(c)

IndInv ==
    /\ Sound(client) /\ stream \in Seq(Octet)
    /\ DOMAIN told = {"octets", "mark", "timed"} /\ told.octets \in Nat

LEMMA InitInv == Init => IndInv
<1>. SUFFICES ASSUME Init  PROVE IndInv
  OBVIOUS
<1>1. PICK mode \in Modes : client = ClientInit(mode)
  BY DEF Init
<1>2. /\ DOMAIN client = Fields /\ client.state = "data" /\ client.netiring = << >>
      /\ client.ttyoring = << >> /\ client.pc = "select"
  BY <1>1 DEF ClientInit, Fields
<1>3. << >> \in Seq(Octet)
  BY ShortType
<1>4. Len(client.ttyoring) = 0
  BY <1>2
<1>5. Form(client)
  BY <1>2, <1>3 DEF Form, ParserState
<1>6. Sound(client)
  <2>1. 0 < TtyOutSize
    BY RingAssumption
  <2>. QED  BY <1>2, <1>4, <1>5, <2>1 DEF Sound
<1>7. stream \in Seq(Octet) /\ told.octets \in Nat /\ DOMAIN told = {"octets", "mark", "timed"}
  BY <1>3 DEF Init
<1>. QED  BY <1>6, <1>7 DEF IndInv

\* telrcv() is only entered with room for what an octet may need.
LEMMA OnwardSound ==
    ASSUME NEW c, Form(c), Len(c.ttyoring) < TtyOutSize, NEW looping
    PROVE  Sound(Onward(c, looping))
<1>. DEFINE pc == IF looping /\ c.ttyiring # << >>
                     /\ NetOutSize - Len(c.netoring \o c.writing) > 2 THEN "telsnd"
                  ELSE IF CanReceive(c) THEN "telrcv" ELSE "select"
            d == [c EXCEPT !.pc = pc]
<1>1. Onward(c, looping) = d
  BY DEF Onward
<1>2. pc = "telrcv" => CanReceive(c)
  OBVIOUS
<1>. HIDE DEF pc
<1>3. /\ DOMAIN d = Fields /\ d.state = c.state /\ d.netiring = c.netiring
      /\ d.ttyoring = c.ttyoring /\ d.pc = pc
  BY DEF Form, Fields
<1>. HIDE DEF d
<1>. QED  BY <1>1, <1>2, <1>3 DEF Sound, Form, CanReceive

\* A handler may run anywhere.
LEMMA KeepsSound ==
    ASSUME NEW c, Sound(c), NEW d, Keeps(c, d)
    PROVE  Sound(d)
<1>1. /\ Len(c.ttyoring) \in Nat /\ Len(d.ttyoring) \in Nat /\ TtyOutSize \in Nat
      /\ Len(d.ttyoring) <= Len(c.ttyoring)
  BY Lengths, RingAssumption DEF Sound, Keeps, Grows
<1>2. Len(d.ttyoring) < TtyOutSize
  BY <1>1 DEF Sound
<1>3. CanReceive(c) => CanReceive(d)
  <2>1. d.netiring = c.netiring
    BY DEF Keeps
  <2>2. TtyOutSize - Len(c.ttyoring) > 2 => TtyOutSize - Len(d.ttyoring) > 2
    BY <1>1
  <2>. QED  BY <2>1, <2>2 DEF CanReceive
<1>. QED  BY <1>2, <1>3 DEF Sound, Keeps, Grows

-----------------------------------------------------------------------------
(* The steps                                                               *)

LEMMA ServerSendsType ==
    ASSUME IndInv, NEW unit \in Seq(Code), NEW mark, ServerSends(unit, mark)
    PROVE  stream' \in Seq(Octet) /\ UNCHANGED client
<1>. DEFINE q == [i \in DOMAIN unit |-> [code |-> unit[i], n |-> told.octets + i]]
<1>1. q \in Seq(Octet)
  <2>1. \A i \in 1 .. Len(unit) : unit[i] \in Code /\ told.octets + i \in Nat
    BY DEF IndInv
  <2>2. \A i \in 1 .. Len(unit) : [code |-> unit[i], n |-> told.octets + i] \in Octet
    BY <2>1 DEF Octet
  <2>3. q = [i \in 1 .. Len(unit) |-> [code |-> unit[i], n |-> told.octets + i]] /\ Len(unit) \in Nat
    OBVIOUS
  <2>. HIDE DEF q
  <2>. QED  BY <2>2, <2>3
<1>2. stream' = stream \o q /\ UNCHANGED client
  BY DEF ServerSends
<1>. HIDE DEF q
<1>. QED  BY <1>1, <1>2 DEF IndInv

LEMMA ServerWritesInv ==
    ASSUME IndInv, NEW unit \in Unit, ServerWrites(unit)
    PROVE  IndInv'
<1>1. unit \in Seq(Code) /\ Len(unit) \in Nat
  BY UnitAssumption
<1>2. stream' \in Seq(Octet) /\ UNCHANGED client
  BY <1>1, ServerSendsType DEF ServerWrites
<1>3. told'.octets \in Nat /\ DOMAIN told' = {"octets", "mark", "timed"}
  BY <1>1 DEF ServerWrites, IndInv
<1>. QED  BY <1>2, <1>3 DEF IndInv

LEMMA ServerAnswersInv ==
    ASSUME IndInv, ServerAnswers
    PROVE  IndInv'
<1>1. <<"IAC", "WILL", "TM">> \in Seq(Code)
  BY DEF Code
<1>2. stream' \in Seq(Octet) /\ UNCHANGED client
  BY <1>1, ServerSendsType DEF ServerAnswers
<1>3. told'.octets \in Nat /\ DOMAIN told' = {"octets", "mark", "timed"}
  BY DEF ServerAnswers, IndInv
<1>. QED  BY <1>2, <1>3 DEF IndInv

\* A handler, WriteOut, or what goes on elsewhere.
LEMMA KeptInv ==
    ASSUME IndInv, Keeps(client, client'), UNCHANGED <<stream, told>>
    PROVE  IndInv'
BY KeepsSound DEF IndInv

LEMMA ClientForm ==
    ASSUME IndInv
    PROVE  Form(client) /\ Keeps(client, client)
BY Lengths DEF IndInv, Sound, Keeps

\* The loop goes on with no more in the ring than there was, or with two
\* bytes more, for which there was room.
LEMMA OnwardInv ==
    ASSUME IndInv, NEW c, NEW looping, client' = Onward(c, looping),
           Grows(client, c, 0) \/ (Grows(client, c, 2) /\ CanReceive(client)),
           stream' \in Seq(Octet), UNCHANGED told
    PROVE  IndInv'
<1>1. /\ Form(c) /\ Len(c.ttyoring) \in Nat /\ Len(client.ttyoring) \in Nat
      /\ TtyOutSize \in Nat /\ Len(client.ttyoring) < TtyOutSize
  BY Lengths, RingAssumption DEF IndInv, Sound, Grows
<1>2. Len(c.ttyoring) < TtyOutSize
  <2>1. CASE Grows(client, c, 0)
    BY <1>1, <2>1 DEF Grows
  <2>2. CASE Grows(client, c, 2) /\ CanReceive(client)
    BY <1>1, <2>2 DEF Grows, CanReceive
  <2>. QED  BY <2>1, <2>2
<1>. QED  BY <1>1, <1>2, OnwardSound DEF IndInv

LEMMA ProcessRingsInv ==
    ASSUME IndInv, ProcessRings
    PROVE  IndInv'
<1>1. PICK noticed \in BOOLEAN :
         LET a == IF noticed THEN Drop([client EXCEPT !.SYNCHing = TRUE]) ELSE client
         IN  /\ noticed => urgent # 0 /\ ~client.SYNCHing
             /\ \E n \in {0, Len(a.netoring)}, t \in 0 .. Len(a.ttyoring),
                   k \in 0 .. Min({Len(stream), NetInSize - 1 - Len(a.netiring)}),
                   j \in 0 .. Min({Len(typed), TtyInSize - 1 - Len(a.ttyiring)}) :
                 LET b == [a EXCEPT !.netoring = SubSeq(a.netoring, n + 1, Len(a.netoring))]
                     c == IF t = 0 THEN b ELSE TtyFlush(b, t)
                     d == [c EXCEPT !.netiring = c.netiring \o SubSeq(stream, 1, k),
                                    !.ttyiring = c.ttyiring \o SubSeq(typed, 1, j)]
                 IN  /\ urgent <= 1 \/ k < urgent
                     /\ client' = Onward(d, TRUE)
                     /\ sent' = sent \o SubSeq(a.netoring, 1, n)
                     /\ stream' = SubSeq(stream, k + 1, Len(stream))
                     /\ urgent' = IF urgent > k THEN urgent - k ELSE 0
                     /\ typed' = SubSeq(typed, j + 1, Len(typed))
  BY DEF ProcessRings
<1>. DEFINE on == [client EXCEPT !.SYNCHing = TRUE]
            a == IF noticed THEN Drop(on) ELSE client
<1>2. PICK n \in {0, Len(a.netoring)}, t \in 0 .. Len(a.ttyoring),
           k \in 0 .. Min({Len(stream), NetInSize - 1 - Len(a.netiring)}),
           j \in 0 .. Min({Len(typed), TtyInSize - 1 - Len(a.ttyiring)}) :
         LET b == [a EXCEPT !.netoring = SubSeq(a.netoring, n + 1, Len(a.netoring))]
             c == IF t = 0 THEN b ELSE TtyFlush(b, t)
             d == [c EXCEPT !.netiring = c.netiring \o SubSeq(stream, 1, k),
                            !.ttyiring = c.ttyiring \o SubSeq(typed, 1, j)]
         IN  /\ urgent <= 1 \/ k < urgent
             /\ client' = Onward(d, TRUE)
             /\ sent' = sent \o SubSeq(a.netoring, 1, n)
             /\ stream' = SubSeq(stream, k + 1, Len(stream))
             /\ urgent' = IF urgent > k THEN urgent - k ELSE 0
             /\ typed' = SubSeq(typed, j + 1, Len(typed))
  BY <1>1
<1>. DEFINE out == SubSeq(a.netoring, n + 1, Len(a.netoring))
            b == [a EXCEPT !.netoring = out]
            c == IF t = 0 THEN b ELSE TtyFlush(b, t)
            read == SubSeq(stream, 1, k)
            netiring == c.netiring \o read
            ttyiring == c.ttyiring \o SubSeq(typed, 1, j)
            d == [c EXCEPT !.netiring = netiring, !.ttyiring = ttyiring]
<1>3. client' = Onward(d, TRUE) /\ stream' = SubSeq(stream, k + 1, Len(stream))
  BY <1>2
<1>4. Form(client) /\ Keeps(client, client)
  BY ClientForm
<1>5. Form(a) /\ Keeps(client, a)
  <2>1. Keeps(client, on)
    BY <1>4, OtherField DEF Others, Fields
  <2>. HIDE DEF on
  <2>2. Keeps(client, Drop(on))
    BY <1>4, <2>1, DropKeeps, KeepsMore DEF Keeps, Grows
  <2>. QED  BY <1>4, <2>2 DEF Keeps, Grows
<1>. HIDE DEF out
<1>6. Keeps(a, b) /\ Form(b) /\ b.ttyoring = a.ttyoring
  BY <1>5, Lengths DEF Keeps, Grows, Form, Fields
<1>7. t \in 0 .. Len(b.ttyoring)
  BY <1>2, <1>6
<1>. HIDE DEF a, b
<1>8. Keeps(b, c)
  BY <1>6, <1>7, TtyFlushKeeps, Lengths DEF Keeps
<1>. HIDE DEF c
<1>9. Keeps(client, c) /\ Form(c)
  BY <1>4, <1>5, <1>6, <1>8, KeepsMore DEF Keeps, Grows
<1>10. k \in Nat /\ k <= Len(stream) /\ Len(stream) \in Nat
  <2>. DEFINE x == Len(stream)
              y == NetInSize - 1 - Len(a.netiring)
              bound == Min({x, y})
  <2>1. x \in Nat /\ x \in Int /\ y \in Int
    BY <1>5, Lengths, RingAssumption DEF IndInv
  <2>. HIDE DEF x, y
  <2>2. bound \in Int /\ bound <= x
    BY <2>1, MinOfTwo
  <2>3. k \in 0 .. bound
    BY <1>2 DEF x, y
  <2>. HIDE DEF bound
  <2>4. k \in Nat /\ k <= x
    BY <2>1, <2>2, <2>3
  <2>. QED  BY <2>1, <2>4 DEF x
<1>11. read \in Seq(Octet) /\ stream' \in Seq(Octet)
  BY <1>3, <1>10, SubSeqType DEF IndInv
<1>. HIDE DEF read
<1>12. netiring \in Seq(Octet)
  BY <1>9, <1>11, ConcatType DEF Form
<1>. HIDE DEF netiring, ttyiring
<1>13. /\ DOMAIN d = Fields /\ d.state = c.state /\ d.netiring = netiring
       /\ d.ttyoring = c.ttyoring
  BY <1>9 DEF Form, Fields
<1>. HIDE DEF d
<1>14. Grows(client, d, 0)
  BY <1>9, <1>12, <1>13 DEF Keeps, Grows, Form
<1>15. UNCHANGED told
  BY DEF ProcessRings
<1>. QED  BY <1>3, <1>11, <1>14, <1>15, OnwardInv

LEMMA TelsndInv ==
    ASSUME IndInv, Telsnd
    PROVE  IndInv'
<1>. DEFINE k == Head(client.ttyiring)
            rest == Tail(client.ttyiring)
            c == [client EXCEPT !.ttyiring = rest]
            r == Keyed(c, k)
<1>1. /\ client' = IF r.client.pc = "closed" THEN r.client ELSE Onward(r.client, r.looping)
      /\ UNCHANGED <<stream, told>>
  BY DEF Telsnd
<1>2. Form(client)
  BY ClientForm
<1>. HIDE DEF k, rest
<1>3. Grows(client, c, 0) /\ Form(c)
  BY <1>2, Lengths, OtherFields DEF Grows
<1>. HIDE DEF c
<1>4. Grows(c, r.client, 0)
  BY <1>3, KeyedGrows
<1>. HIDE DEF r
<1>5. Grows(client, r.client, 0)
  BY <1>2, <1>3, <1>4, GrowsMore
<1>6. CASE r.client.pc = "closed"
  <2>1. /\ Form(r.client) /\ Len(r.client.ttyoring) <= Len(client.ttyoring)
        /\ Len(r.client.ttyoring) \in Nat /\ Len(client.ttyoring) \in Nat /\ TtyOutSize \in Nat
    BY <1>2, <1>5, Lengths, RingAssumption DEF Grows
  <2>2. Len(r.client.ttyoring) < TtyOutSize
    BY <2>1 DEF IndInv, Sound
  <2>. QED  BY <1>1, <1>6, <2>1, <2>2 DEF IndInv, Sound
<1>7. CASE r.client.pc # "closed"
  BY <1>1, <1>5, <1>7, OnwardInv DEF IndInv
<1>. QED  BY <1>6, <1>7

LEMMA TelrcvInv ==
    ASSUME IndInv, Telrcv
    PROVE  IndInv'
<1>1. client.pc = "telrcv" /\ UNCHANGED <<stream, told>>
  BY DEF Telrcv, Running
<1>2. PICK c \in Received(client, urgent # 0) : client' = Onward(c, FALSE)
  BY DEF Telrcv
<1>3. Form(client) /\ CanReceive(client)
  BY <1>1 DEF IndInv, Sound
<1>4. Grows(client, c, 2)
  BY <1>3, ReceivedGrows DEF CanReceive
<1>. QED  BY <1>1, <1>2, <1>3, <1>4, OnwardInv DEF IndInv

LEMMA WriteOutInv ==
    ASSUME IndInv, WriteOut
    PROVE  IndInv'
<1>1. PICK n : /\ client' = [Add(client, SubSeq(client.writing, 1, n)) EXCEPT
                    !.writing = SubSeq(client.writing, n + 1, Len(client.writing))]
               /\ UNCHANGED <<stream, told>>
  BY DEF WriteOut
<1>. DEFINE bytes == SubSeq(client.writing, 1, n)
            rest == SubSeq(client.writing, n + 1, Len(client.writing))
            c == Add(client, bytes)
<1>2. client' = [c EXCEPT !.writing = rest]
  BY <1>1
<1>. HIDE DEF bytes, rest
<1>3. Keeps(client, c) /\ Form(c) /\ Form(client)
  BY ClientForm, AddKeeps DEF Keeps, Grows
<1>. HIDE DEF c
<1>4. Keeps(c, client')
  BY <1>2, <1>3, OtherField DEF Others, Fields
<1>. QED  BY <1>1, <1>3, <1>4, KeepsMore, KeptInv

LEMMA SignalledKeeps ==
    ASSUME IndInv, NEW cmd, Signalled(cmd)
    PROVE  Keeps(client, client')
<1>. DEFINE says == Interruption(client.mode, cmd)
            bytes == FlattenSeq(says)
            meant == client.meant \o says
<1>1. PICK busy \in Busy :
         client' = Add([Flushed(client, busy) EXCEPT !.meant = meant], bytes)
  BY DEF Signalled
<1>. DEFINE c == Flushed(client, busy)
            d == [c EXCEPT !.meant = meant]
<1>. HIDE DEF meant, bytes
<1>2. Form(client) /\ Keeps(client, c) /\ Form(c)
  BY ClientForm, FlushedKeeps DEF Keeps, Grows, Busy
<1>. HIDE DEF c
<1>3. Keeps(c, d) /\ Form(d)
  BY <1>2, OtherField DEF Others, Fields, Keeps, Grows
<1>. HIDE DEF d
<1>4. Keeps(d, client')
  BY <1>1, <1>3, AddKeeps DEF c, d
<1>. QED  BY <1>2, <1>3, <1>4, KeepsMore

LEMMA HandlersInv ==
    ASSUME IndInv, Intr \/ Susp \/ Winch
    PROVE  IndInv'
<1>1. UNCHANGED <<stream, told>> /\ Form(client)
  BY ClientForm DEF Intr, Susp, Winch, Handler
<1>2. CASE Signalled("IP") \/ Signalled("SUSP")
  BY <1>1, <1>2, SignalledKeeps, KeptInv
<1>3. CASE RloginSusp
  <2>. DEFINE c == [client EXCEPT !.local = FALSE, !.bol = TRUE]
              d == [c EXCEPT !.pc = "stuck"]
  <2>1. PICK busy \in Busy : client' = HandlersMode(c, busy)
    BY <1>3 DEF RloginSusp
  <2>2. Keeps(client, c) /\ Form(c)
    BY <1>1, Lengths DEF Keeps, Grows, Form, Fields
  <2>. HIDE DEF c
  <2>3. client' = d \/ client' = NewMode(c)
    BY <2>1 DEF HandlersMode
  <2>4. CASE client' = NewMode(c)
    <3>1. Keeps(c, client')
      BY <2>2, <2>4, NewModeKeeps
    <3>. QED  BY <1>1, <2>2, <3>1, KeepsMore, KeptInv
  <2>5. CASE client' = d
    <3>1. Sound(c)
      BY <2>2, KeepsSound DEF IndInv
    <3>2. Form(d) /\ d.ttyoring = c.ttyoring /\ d.pc = "stuck"
      BY <2>2 DEF Form, Fields
    <3>. HIDE DEF d
    <3>3. Sound(d)
      BY <3>1, <3>2 DEF Sound
    <3>. QED  BY <1>1, <2>5, <3>3 DEF IndInv
  <2>. QED  BY <2>3, <2>4, <2>5
<1>4. CASE Winch
  <2>. DEFINE meant == Append(client.meant, Naws)
              c == [client EXCEPT !.meant = meant]
  <2>1. client' = Add(c, Naws)
    BY <1>4 DEF Winch
  <2>. HIDE DEF meant
  <2>2. Keeps(client, c) /\ Form(c)
    BY <1>1, OtherField DEF Others, Fields, Keeps, Grows
  <2>. HIDE DEF c
  <2>3. Keeps(c, client')
    BY <2>1, <2>2, AddKeeps
  <2>. QED  BY <1>1, <2>2, <2>3, KeepsMore, KeptInv
<1>. QED  BY <1>2, <1>3, <1>4 DEF Intr, Susp

LEMMA Inductive == Init /\ [][Next]_vars => []IndInv
<1>1. ASSUME IndInv, [Next]_vars  PROVE IndInv'
  <2>1. CASE UNCHANGED vars
    BY <1>1, <2>1 DEF vars, IndInv, Sound, Form, CanReceive
  <2>2. ASSUME NEW k \in Key, UserTypes(k)  PROVE IndInv'
    BY <1>1, <2>2 DEF UserTypes, IndInv, Sound, Form, CanReceive
  <2>3. CASE Next
    BY <1>1, <2>2, <2>3, ServerWritesInv, ServerAnswersInv, ProcessRingsInv, TelsndInv,
       TelrcvInv, WriteOutInv, HandlersInv DEF Next
  <2>. QED  BY <1>1, <2>1, <2>3
<1>. QED  BY InitInv, <1>1, PTL

-----------------------------------------------------------------------------
(***************************************************************************)
(* telrcv() tests for room once for each octet, and the ring to the        *)
(* terminal is never filled: whatever the rings' sizes, the stream and its *)
(* cuts, the keys and the signals, and however slow the terminal is.       *)
(***************************************************************************)
THEOREM ClientIOTtyNeverFull == Spec => []TtyNeverFull
<1>1. IndInv => TtyNeverFull
  BY DEF IndInv, Sound, TtyNeverFull
<1>. QED  BY <1>1, Inductive, PTL DEF Spec

-----------------------------------------------------------------------------
(* What the server hears: Heard(), of a sequence of whole items.           *)

\* A key, a byte of the protocol, or whatever else stands for one.
Symbol == Key \cup Code \cup {"IP", "SUSP", "tilde"}

Character == {<<k>> : k \in Symbol \ {"IAC"}} \cup {<<"IAC", "IAC">>}

Order == {<<"IAC", k>> : k \in {"IP", "SUSP", "DM"}}

Negotiation == {<<"IAC", "DO", "TM">>, <<"IAC", "WILL", "x">>}

\* What the client writes in one piece.
Item == Character \cup Order \cup Negotiation \cup {Naws}

Meaning(x) == IF x = <<"IAC", "IAC">> THEN <<"IAC">> ELSE x

Meanings(items) == [i \in 1 .. Len(items) |-> Meaning(items[i])]

\* Heard()'s item(i): where the item ends that begins at i.
SubEnds(s, i) == {j \in i + 3 .. Len(s) : s[j - 1] = "IAC" /\ s[j] = "SE"}

ItemEnd(s, i) ==
    IF s[i] # "IAC" THEN i
    ELSE IF i = Len(s) THEN i
    ELSE CASE s[i + 1] = "SB" -> IF SubEnds(s, i) = {} THEN Len(s) ELSE Min(SubEnds(s, i))
           [] s[i + 1] \in {"DO", "WILL"} -> Min({i + 2, Len(s)})
           [] OTHER -> i + 1

\* g[i] is what is heard from i on.
HeardFrom(s, g) ==
    \A i \in 1 .. Len(s) + 1 :
        g[i] = IF i > Len(s) THEN << >>
               ELSE <<Meaning(SubSeq(s, i, ItemEnd(s, i)))>> \o g[ItemEnd(s, i) + 1]

\* The least of a set of numbers.
LEMMA MinIs ==
    ASSUME NEW T \in SUBSET Nat, T # {}
    PROVE  Min(T) \in T /\ \A m \in T : Min(T) <= m
<1>1. PICK n \in T : \A m \in T : ~ (m < n)
  BY LeastElement
<1>2. \A m \in T : n <= m
  BY <1>1
<1>. QED  BY <1>1, <1>2 DEF Min

LEMMA ItemEndIn ==
    ASSUME NEW s \in Seq(Symbol), NEW i \in 1 .. Len(s)
    PROVE  ItemEnd(s, i) \in i .. Len(s)
<1>1. CASE s[i] # "IAC" \/ i = Len(s)
  BY <1>1 DEF ItemEnd
<1>2. CASE s[i] = "IAC" /\ i # Len(s) /\ s[i + 1] = "SB"
  <2>1. SubEnds(s, i) \in SUBSET Nat /\ \A j \in SubEnds(s, i) : j \in i .. Len(s)
    BY DEF SubEnds
  <2>2. SubEnds(s, i) # {} => Min(SubEnds(s, i)) \in SubEnds(s, i)
    BY <2>1, MinIs
  <2>3. ItemEnd(s, i) = IF SubEnds(s, i) = {} THEN Len(s) ELSE Min(SubEnds(s, i))
    BY <1>2 DEF ItemEnd
  <2>4. Len(s) \in i .. Len(s)
    OBVIOUS
  <2>. QED  BY <2>1, <2>2, <2>3, <2>4
<1>3. CASE s[i] = "IAC" /\ i # Len(s) /\ s[i + 1] \in {"DO", "WILL"}
  <2>1. {i + 2, Len(s)} \in SUBSET Nat /\ {i + 2, Len(s)} # {}
    OBVIOUS
  <2>2. Min({i + 2, Len(s)}) \in {i + 2, Len(s)} /\ Min({i + 2, Len(s)}) <= Len(s)
    BY <2>1, MinIs
  <2>3. ItemEnd(s, i) = Min({i + 2, Len(s)})
    BY <1>3 DEF ItemEnd
  <2>. QED  BY <2>2, <2>3
<1>4. CASE s[i] = "IAC" /\ i # Len(s) /\ s[i + 1] \notin {"SB", "DO", "WILL"}
  BY <1>4 DEF ItemEnd
<1>. QED  BY <1>1, <1>2, <1>3, <1>4

\* Heard() is a function that goes through the sequence item by item.
LEMMA HeardIs ==
    ASSUME NEW s \in Seq(Symbol)
    PROVE  \E g : HeardFrom(s, g) /\ Heard(s) = g[1]
<1>. DEFINE n == Len(s) + 1
            Piece(i) == SubSeq(s, i, ItemEnd(s, i))
            Out == Seq(Seq(Symbol))
            stop == {n}
            next == [i \in 1 .. n |-> IF i = n THEN n ELSE ItemEnd(s, i) + 1]
            base == [i \in 1 .. n |-> << >>]
            f == [p \in (1 .. n) \X Out |-> IF p[1] = n THEN << >> ELSE <<Meaning(Piece(p[1]))>> \o p[2]]
            Step(g) == g = [i \in 1 .. Len(s) + 1 |->
                               IF i > Len(s) THEN << >>
                               ELSE <<Meaning(Piece(i))>> \o g[ItemEnd(s, i) + 1]]
            from == CHOOSE g : Step(g)
<1>0. n \in Nat /\ 1 <= n /\ 1 \in Nat /\ 1 \in 1 .. n
  OBVIOUS
<1>a. \A i \in 1 .. n : i # n => i \in 1 .. Len(s) /\ ~ (i > Len(s)) /\ ItemEnd(s, i) + 1 \in i + 1 .. n
  <2>. SUFFICES ASSUME NEW i \in 1 .. n, i # n
                PROVE  i \in 1 .. Len(s) /\ ~ (i > Len(s)) /\ ItemEnd(s, i) + 1 \in i + 1 .. n
    OBVIOUS
  <2>1. i \in 1 .. Len(s)
    OBVIOUS
  <2>2. ItemEnd(s, i) \in i .. Len(s)
    BY <2>1, ItemEndIn
  <2>. QED  BY <2>1, <2>2
<1>1. Jumps(1, n, stop, next)
  BY <1>a, <1>0 DEF Jumps
<1>p. \A i \in 1 .. n : i # n => Meaning(Piece(i)) \in Seq(Symbol)
  <2>. SUFFICES ASSUME NEW i \in 1 .. n, i # n PROVE Meaning(Piece(i)) \in Seq(Symbol)
    OBVIOUS
  <2>1. i \in 1 .. Len(s) /\ ItemEnd(s, i) \in i .. Len(s)
    BY <1>a, ItemEndIn
  <2>2. Piece(i) \in Seq(Symbol)
    BY <2>1
  <2>3. <<"IAC">> \in Seq(Symbol)
    <3>1. "IAC" \in Symbol
      BY DEF Symbol, Code
    <3>. QED  BY <3>1
  <2>. QED  BY <2>2, <2>3 DEF Meaning
<1>2. base \in [1 .. n -> Out] /\ f \in [(1 .. n) \X Out -> Out]
  <2>1. << >> \in Out
    OBVIOUS
  <2>2. \A i \in 1 .. n : \A q \in Out : i # n => <<Meaning(Piece(i))>> \o q \in Out
    <3>. DEFINE M(i) == Meaning(Piece(i))
                E == Seq(Symbol)
    <3>1. \A i \in 1 .. n : i # n => M(i) \in E
      BY <1>p
    <3>. HIDE DEF M, E
    <3>2. \A i \in 1 .. n : \A q \in Seq(E) : i # n => <<M(i)>> \o q \in Seq(E)
      BY <3>1
    <3>. QED  BY <3>2 DEF M, E
  <2>. HIDE DEF Out, n, Piece
  <2>. QED  BY <2>1, <2>2
<1>3. PICK g \in [1 .. n -> Out] : Backwards(g, 1, n, stop, next, base, f)
  <2>. HIDE DEF n, stop, next, base, f, Out
  <2>. QED  BY <1>0, <1>1, <1>2, BackwardsExists
<1>4. Step(g)
  <2>1. ASSUME NEW i \in 1 .. n
        PROVE  g[i] = IF i > Len(s) THEN << >>
                      ELSE <<Meaning(Piece(i))>> \o g[ItemEnd(s, i) + 1]
    <3>1. g[i] = IF i \in stop THEN base[i] ELSE f[<<i, g[next[i]]>>]
      BY <1>3 DEF Backwards
    <3>2. CASE i = n
      BY <3>1, <3>2
    <3>3. CASE i # n
      <4>1. ItemEnd(s, i) + 1 \in 1 .. n /\ next[i] = ItemEnd(s, i) + 1 /\ ~ (i > Len(s))
        BY <1>a, <3>3
      <4>2. g[ItemEnd(s, i) + 1] \in Out
        <5>. HIDE DEF Out
        <5>. QED  BY <1>3, <4>1
      <4>. DEFINE q == g[ItemEnd(s, i) + 1]
      <4>3. g[i] = f[<<i, q>>]
        <5>. HIDE DEF f, base
        <5>. QED  BY <3>1, <3>3, <4>1
      <4>. HIDE DEF q
      <4>4. f[<<i, q>>] = <<Meaning(Piece(i))>> \o q
        <5>1. q \in Out
          BY <4>2 DEF q
        <5>. HIDE DEF Out, Piece, n
        <5>. QED  BY <3>3, <5>1
      <4>. HIDE DEF f, Piece
      <4>. QED  BY <4>1, <4>3, <4>4 DEF q
    <3>. QED  BY <3>2, <3>3
  <2>2. g = [i \in 1 .. n |-> g[i]]
    BY <1>3
  <2>. HIDE DEF Piece
  <2>. QED  BY <2>1, <2>2
<1>5. Step(from)
  <2>. HIDE DEF Step
  <2>. QED  BY <1>4
<1>6. Heard(s) = from[1]
  BY DEF Heard, ItemEnd, SubEnds, Meaning
<1>. HIDE DEF from
<1>7. HeardFrom(s, from)
  BY <1>5 DEF HeardFrom
<1>. QED  BY <1>6, <1>7

LEMMA SymbolsAre ==
    /\ {"IAC", "IP", "SUSP", "DM", "DO", "TM", "WILL", "x", "SB", "SE", "CR", "LF", "NUL", "tilde"} \subseteq Symbol
    /\ Character \subseteq Seq(Symbol) /\ Order \subseteq Seq(Symbol)
    /\ Negotiation \subseteq Seq(Symbol) /\ Naws \in Seq(Symbol)
<1>1. {"IAC", "IP", "SUSP", "DM", "DO", "TM", "WILL", "x", "SB", "SE", "CR", "LF", "NUL", "tilde"} \subseteq Symbol
  BY DEF Symbol, Code
<1>2. Character \subseteq Seq(Symbol)
  <2>1. \A k \in Symbol : <<k>> \in Seq(Symbol) /\ <<"IAC", k>> \in Seq(Symbol)
    BY <1>1, ShortSeq
  <2>2. "IAC" \in Symbol
    BY <1>1
  <2>. QED  BY <2>1, <2>2 DEF Character
<1>3. Order \subseteq Seq(Symbol)
  <2>1. \A k \in Symbol : <<"IAC", k>> \in Seq(Symbol)
    BY <1>1, ShortSeq
  <2>2. "IP" \in Symbol /\ "SUSP" \in Symbol /\ "DM" \in Symbol
    BY <1>1
  <2>. QED  BY <2>1, <2>2 DEF Order
<1>4. Negotiation \subseteq Seq(Symbol)
  BY <1>1 DEF Negotiation
<1>5. Naws \in Seq(Symbol)
  BY <1>1 DEF Naws
<1>. QED  BY <1>1, <1>2, <1>3, <1>4, <1>5

LEMMA ItemType == Item \subseteq Seq(Symbol) /\ Seq(Item) \subseteq Seq(Seq(Symbol))
<1>1. Item \subseteq Seq(Symbol)
  BY SymbolsAre DEF Item
<1>2. \A S, T : S \subseteq T => Seq(S) \subseteq Seq(T)
  OBVIOUS
<1>. QED  BY <1>1, <1>2, Zenon

LEMMA SymbolsJoined == \A s, t, u \in Seq(Symbol) : (s \o t) \o u = s \o (t \o u)
BY Associative

LEMMA TwoParts ==
    ASSUME NEW S, NEW a \in Seq(S), NEW y \in Seq(S)
    PROVE  /\ a \o y \in Seq(S) /\ Len(a \o y) = Len(a) + Len(y)
           /\ \A i \in 1 .. Len(y) : (a \o y)[Len(a) + i] = y[i]
<1>. DEFINE s == a \o y
<1>1. /\ s \in Seq(S) /\ Len(s) = Len(a) + Len(y)
      /\ \A i \in 1 .. Len(a) + Len(y) : s[i] = IF i <= Len(a) THEN a[i] ELSE y[i - Len(a)]
  BY ConcatProperties
<1>. HIDE DEF s
<1>2. \A i \in 1 .. Len(y) : /\ Len(a) + i \in 1 .. Len(a) + Len(y) /\ ~ (Len(a) + i <= Len(a))
                             /\ Len(a) + i - Len(a) = i
  OBVIOUS
<1>3. /\ s \in Seq(S) /\ Len(s) = Len(a) + Len(y)
      /\ \A i \in 1 .. Len(y) : s[Len(a) + i] = y[i]
  BY <1>1, <1>2
<1>. QED  BY <1>3 DEF s

\* The three parts of a sequence.
LEMMA Parts ==
    ASSUME NEW S, NEW a \in Seq(S), NEW x \in Seq(S), NEW r \in Seq(S)
    PROVE  LET s == a \o (x \o r)
           IN  /\ s \in Seq(S) /\ Len(s) = Len(a) + Len(x) + Len(r)
               /\ \A i \in 1 .. Len(x) : s[Len(a) + i] = x[i]
               /\ SubSeq(s, Len(a) + 1, Len(a) + Len(x)) = x
<1>. DEFINE y == x \o r
            s == a \o y
            p == SubSeq(s, Len(a) + 1, Len(a) + Len(x))
<1>1. y \in Seq(S) /\ Len(y) = Len(x) + Len(r) /\ \A i \in 1 .. Len(x) : y[i] = x[i]
  OBVIOUS
<1>. HIDE DEF y, p
<1>2. s \in Seq(S) /\ Len(s) = Len(a) + Len(y) /\ \A i \in 1 .. Len(y) : s[Len(a) + i] = y[i]
  <2>1. y \in Seq(S)
    BY <1>1
  <2>. QED  BY <2>1, TwoParts
<1>. HIDE DEF s
<1>3. s \in Seq(S) /\ Len(s) = Len(a) + Len(x) + Len(r) /\ \A i \in 1 .. Len(x) : s[Len(a) + i] = x[i]
  BY <1>1, <1>2
<1>4. p \in Seq(S) /\ Len(p) = Len(x) /\ \A i \in 1 .. Len(x) : p[i] = s[Len(a) + i]
  <2>. HIDE DEF s
  <2>. QED  BY <1>3 DEF p
<1>5. p = x
  BY <1>3, <1>4, SeqEqual
<1>. QED  BY <1>3, <1>5 DEF s, y, p

LEMMA CharacterEnds ==
    ASSUME NEW s \in Seq(Symbol), NEW i \in 1 .. Len(s), NEW x \in Character,
           i + Len(x) - 1 <= Len(s), \A j \in 1 .. Len(x) : s[i - 1 + j] = x[j]
    PROVE  ItemEnd(s, i) = i - 1 + Len(x)
<1>1. CASE \E k \in Symbol \ {"IAC"} : x = <<k>>
  <2>1. PICK k \in Symbol \ {"IAC"} : x = <<k>>
    BY <1>1
  <2>2. Len(x) = 1 /\ x[1] = k
    BY <2>1
  <2>3. s[i] # "IAC"
    BY <2>2
  <2>. QED  BY <2>2, <2>3 DEF ItemEnd
<1>2. CASE x = <<"IAC", "IAC">>
  <2>1. Len(x) = 2 /\ x[1] = "IAC" /\ x[2] = "IAC"
    BY <1>2
  <2>2. s[i] = "IAC" /\ s[i + 1] = "IAC" /\ i # Len(s)
    <3>1. 1 \in 1 .. Len(x) /\ 2 \in 1 .. Len(x) /\ i - 1 + 1 = i /\ i - 1 + 2 = i + 1
      BY <2>1
    <3>2. s[i - 1 + 1] = x[1] /\ s[i - 1 + 2] = x[2]
      BY <3>1
    <3>. QED  BY <2>1, <3>1, <3>2
  <2>. QED  BY <2>1, <2>2 DEF ItemEnd
<1>. QED  BY <1>1, <1>2 DEF Character

LEMMA OrderEnds ==
    ASSUME NEW s \in Seq(Symbol), NEW i \in 1 .. Len(s), NEW x \in Order,
           i + Len(x) - 1 <= Len(s), \A j \in 1 .. Len(x) : s[i - 1 + j] = x[j]
    PROVE  ItemEnd(s, i) = i - 1 + Len(x)
<1>1. PICK k \in {"IP", "SUSP", "DM"} : x = <<"IAC", k>>
  BY DEF Order
<1>2. Len(x) = 2 /\ x[1] = "IAC" /\ x[2] = k
  BY <1>1
<1>3. s[i] = "IAC" /\ s[i + 1] = k /\ i # Len(s)
  <2>1. 1 \in 1 .. Len(x) /\ 2 \in 1 .. Len(x) /\ i - 1 + 1 = i /\ i - 1 + 2 = i + 1
    BY <1>2
  <2>2. s[i - 1 + 1] = x[1] /\ s[i - 1 + 2] = x[2]
    BY <2>1
  <2>. QED  BY <1>2, <2>1, <2>2
<1>. QED  BY <1>2, <1>3 DEF ItemEnd

LEMMA NegotiationEnds ==
    ASSUME NEW s \in Seq(Symbol), NEW i \in 1 .. Len(s), NEW x \in Negotiation,
           i + Len(x) - 1 <= Len(s), \A j \in 1 .. Len(x) : s[i - 1 + j] = x[j]
    PROVE  ItemEnd(s, i) = i - 1 + Len(x)
<1>2. Len(x) = 3 /\ x[1] = "IAC" /\ x[2] \in {"DO", "WILL"}
  BY DEF Negotiation
<1>3. s[i] = "IAC" /\ s[i + 1] \in {"DO", "WILL"} /\ i # Len(s)
  <2>1. 1 \in 1 .. Len(x) /\ 2 \in 1 .. Len(x) /\ i - 1 + 1 = i /\ i - 1 + 2 = i + 1
    BY <1>2
  <2>2. s[i - 1 + 1] = x[1] /\ s[i - 1 + 2] = x[2]
    BY <2>1
  <2>. QED  BY <1>2, <2>1, <2>2
<1>4. ItemEnd(s, i) = Min({i + 2, Len(s)})
  BY <1>3 DEF ItemEnd
<1>5. {i + 2, Len(s)} \in SUBSET Nat /\ {i + 2, Len(s)} # {} /\ i + 2 <= Len(s)
  BY <1>2
<1>6. Min({i + 2, Len(s)}) = i + 2
  <2>1. Min({i + 2, Len(s)}) \in {i + 2, Len(s)} /\ Min({i + 2, Len(s)}) <= i + 2
    BY <1>5, MinIs
  <2>. QED  BY <1>5, <2>1
<1>. QED  BY <1>2, <1>4, <1>6

LEMMA NawsEnds ==
    ASSUME NEW s \in Seq(Symbol), NEW i \in 1 .. Len(s),
           i + 4 <= Len(s), \A j \in 1 .. 5 : s[i - 1 + j] = Naws[j]
    PROVE  ItemEnd(s, i) = i + 4
<1>1. s[i] = "IAC" /\ s[i + 1] = "SB" /\ s[i + 2] = "x" /\ s[i + 3] = "IAC" /\ s[i + 4] = "SE"
  <2>1. /\ Naws[1] = "IAC" /\ Naws[2] = "SB" /\ Naws[3] = "x" /\ Naws[4] = "IAC" /\ Naws[5] = "SE"
    BY DEF Naws
  <2>2. /\ i - 1 + 1 = i /\ i - 1 + 2 = i + 1 /\ i - 1 + 3 = i + 2 /\ i - 1 + 4 = i + 3
        /\ i - 1 + 5 = i + 4
    OBVIOUS
  <2>3. /\ s[i - 1 + 1] = Naws[1] /\ s[i - 1 + 2] = Naws[2] /\ s[i - 1 + 3] = Naws[3]
        /\ s[i - 1 + 4] = Naws[4] /\ s[i - 1 + 5] = Naws[5]
    <3>1. 1 \in 1 .. 5 /\ 2 \in 1 .. 5 /\ 3 \in 1 .. 5 /\ 4 \in 1 .. 5 /\ 5 \in 1 .. 5
      OBVIOUS
    <3>. QED  BY <3>1
  <2>. QED  BY <2>1, <2>2, <2>3
<1>2. ItemEnd(s, i) = IF SubEnds(s, i) = {} THEN Len(s) ELSE Min(SubEnds(s, i))
  <2>1. i # Len(s)
    OBVIOUS
  <2>. QED  BY <1>1, <2>1 DEF ItemEnd
<1>3. i + 4 \in SubEnds(s, i)
  <2>1. i + 4 \in i + 3 .. Len(s) /\ i + 4 - 1 = i + 3
    OBVIOUS
  <2>. QED  BY <1>1, <2>1 DEF SubEnds
<1>4. SubEnds(s, i) \in SUBSET Nat /\ \A j \in SubEnds(s, i) : j >= i + 4
  <2>1. SubEnds(s, i) \in SUBSET (i + 3 .. Len(s))
    BY DEF SubEnds
  <2>2. i + 3 \notin SubEnds(s, i)
    <3>1. i + 3 - 1 = i + 2
      OBVIOUS
    <3>. QED  BY <1>1, <3>1 DEF SubEnds
  <2>. QED  BY <2>1, <2>2
<1>5. Min(SubEnds(s, i)) \in SubEnds(s, i) /\ Min(SubEnds(s, i)) <= i + 4
  BY <1>3, <1>4, MinIs
<1>. QED  BY <1>2, <1>3, <1>4, <1>5

\* An item ends where it should.
LEMMA ItemEnds ==
    ASSUME NEW a \in Seq(Symbol), NEW x \in Item, NEW r \in Seq(Symbol),
           NEW s, s = a \o (x \o r)
    PROVE  /\ s \in Seq(Symbol) /\ Len(a) + 1 \in 1 .. Len(s)
           /\ ItemEnd(s, Len(a) + 1) = Len(a) + Len(x)
           /\ SubSeq(s, Len(a) + 1, Len(a) + Len(x)) = x
<1>0. x \in Seq(Symbol) /\ Len(x) \in Nat /\ Len(x) # 0
  <2>1. Len(x) # 0
    <3>0. \A k : Len(<<k>>) # 0 /\ Len(<<"IAC", k>>) # 0
      OBVIOUS
    <3>1. x \in Character => Len(x) # 0
      BY <3>0 DEF Character
    <3>2. x \in Order => Len(x) # 0
      BY <3>0 DEF Order
    <3>3. x \in Negotiation => Len(x) # 0
      BY DEF Negotiation
    <3>4. Len(Naws) # 0
      BY DEF Naws
    <3>. QED  BY <3>1, <3>2, <3>3, <3>4 DEF Item
  <2>. QED  BY <2>1, ItemType
<1>1. /\ s \in Seq(Symbol) /\ Len(s) = Len(a) + Len(x) + Len(r)
      /\ \A i \in 1 .. Len(x) : s[Len(a) + i] = x[i]
      /\ SubSeq(s, Len(a) + 1, Len(a) + Len(x)) = x
  BY <1>0, Parts
<1>. DEFINE i == Len(a) + 1
<1>2. i \in 1 .. Len(s) /\ i + Len(x) - 1 <= Len(s) /\ i - 1 = Len(a)
  BY <1>0, <1>1
<1>3. \A j \in 1 .. Len(x) : s[i - 1 + j] = x[j]
  BY <1>1, <1>2
<1>4. ItemEnd(s, i) = i - 1 + Len(x)
  <2>. HIDE DEF i
  <2>1. CASE x = Naws
    <3>1. Len(x) = 5
      BY <2>1 DEF Naws
    <3>2. \A j \in 1 .. 5 : s[i - 1 + j] = Naws[j]
      BY <1>3, <2>1, <3>1
    <3>3. i + 4 <= Len(s)
      BY <1>1, <1>2, <3>1
    <3>4. ItemEnd(s, i) = i + 4
      BY <1>1, <1>2, <3>2, <3>3, NawsEnds
    <3>. QED  BY <1>2, <3>1, <3>4
  <2>. QED  BY <1>1, <1>2, <1>3, <2>1, CharacterEnds, OrderEnds, NegotiationEnds DEF Item
<1>. QED  BY <1>1, <1>2, <1>4

LEMMA HeardStep ==
    ASSUME NEW a \in Seq(Symbol), NEW x \in Item, NEW r \in Seq(Symbol),
           NEW g, HeardFrom(a \o (x \o r), g)
    PROVE  g[Len(a) + 1] = <<Meaning(x)>> \o g[Len(a) + Len(x) + 1]
<1>. DEFINE s == a \o (x \o r)
<1>1. /\ s \in Seq(Symbol) /\ Len(a) + 1 \in 1 .. Len(s)
      /\ ItemEnd(s, Len(a) + 1) = Len(a) + Len(x)
      /\ SubSeq(s, Len(a) + 1, Len(a) + Len(x)) = x
  BY ItemEnds
<1>2. HeardFrom(s, g)
  OBVIOUS
<1>. HIDE DEF s
<1>3. Len(a) + 1 \in 1 .. Len(s) + 1 /\ ~ (Len(a) + 1 > Len(s))
  BY <1>1
<1>. QED  BY <1>1, <1>2, <1>3 DEF HeardFrom

\* The first of some items.
LEMMA FirstItem ==
    ASSUME NEW items \in Seq(Item), Len(items) # 0
    PROVE  /\ items[1] \in Item /\ Tail(items) \in Seq(Item) /\ Len(Tail(items)) = Len(items) - 1
           /\ FlattenSeq(items) = items[1] \o FlattenSeq(Tail(items))
           /\ Meanings(items) = <<Meaning(items[1])>> \o Meanings(Tail(items))
<1>. DEFINE x == items[1]
            rest == Tail(items)
            one == <<x>>
<1>1. /\ x \in Item /\ rest \in Seq(Item) /\ Len(rest) = Len(items) - 1
      /\ \A i \in 1 .. Len(rest) : rest[i] = items[i + 1]
  OBVIOUS
<1>2. one \in Seq(Item) /\ items = one \o rest
  <2>1. one \in Seq(Item) /\ Len(one) = 1 /\ one[1] = x
    BY <1>1
  <2>2. one \o rest \in Seq(Item) /\ Len(one \o rest) = Len(items)
        /\ \A i \in 1 .. Len(items) : (one \o rest)[i] = IF i = 1 THEN x ELSE rest[i - 1]
    <3>. HIDE DEF x, rest
    <3>1. /\ one \o rest \in Seq(Item) /\ Len(one \o rest) = Len(rest) + 1
          /\ \A i \in 1 .. Len(rest) + 1 : (one \o rest)[i] = IF i = 1 THEN x ELSE rest[i - 1]
      BY <1>1, InFront
    <3>2. Len(rest) + 1 = Len(items)
      BY <1>1
    <3>. QED  BY <3>1, <3>2
  <2>. HIDE DEF one, rest
  <2>3. \A i \in 1 .. Len(items) : (one \o rest)[i] = items[i]
    <3>. SUFFICES ASSUME NEW i \in 1 .. Len(items) PROVE (one \o rest)[i] = items[i]
      OBVIOUS
    <3>1. CASE i = 1
      BY <2>2, <3>1
    <3>2. CASE i # 1
      <4>1. i - 1 \in 1 .. Len(rest) /\ i - 1 + 1 = i
        BY <1>1, <3>2
      <4>. QED  BY <1>1, <2>2, <3>2, <4>1
    <3>. QED  BY <3>1, <3>2
  <2>. QED  BY <2>1, <2>2, <2>3, SeqEqual
<1>3. one \in Seq(Seq(Symbol)) /\ rest \in Seq(Seq(Symbol)) /\ x \in Seq(Symbol)
  BY <1>1, <1>2, ItemType
<1>4. FlattenSeq(items) = x \o FlattenSeq(rest)
  <2>1. FlattenSeq(one) = x
    BY <1>3, FlattenOne
  <2>. HIDE DEF one, rest, x
  <2>2. FlattenSeq(one \o rest) = FlattenSeq(one) \o FlattenSeq(rest)
    BY <1>3, FlattenJoin
  <2>. QED  BY <1>2, <2>1, <2>2
<1>5. Meanings(items) = <<Meaning(x)>> \o Meanings(rest)
  <2>. DEFINE m == Meaning(x)
              u == Meanings(rest)
              v == Meanings(items)
              S == {Meaning(y) : y \in Item}
  <2>1. m \in S /\ \A y \in Item : Meaning(y) \in S
    BY <1>1
  <2>2. /\ u \in Seq(S) /\ Len(u) = Len(rest) /\ \A i \in 1 .. Len(rest) : u[i] = Meaning(rest[i])
    <3>. HIDE DEF S, rest
    <3>. QED  BY <1>1, <2>1 DEF Meanings
  <2>3. /\ v \in Seq(S) /\ Len(v) = Len(items) /\ \A i \in 1 .. Len(items) : v[i] = Meaning(items[i])
    <3>. HIDE DEF S
    <3>. QED  BY <1>1, <2>1 DEF Meanings
  <2>4. m = Meaning(items[1])
    OBVIOUS
  <2>. HIDE DEF S, u, v, m
  <2>5. /\ <<m>> \o u \in Seq(S) /\ Len(<<m>> \o u) = Len(u) + 1
        /\ \A i \in 1 .. Len(u) + 1 : (<<m>> \o u)[i] = IF i = 1 THEN m ELSE u[i - 1]
    BY <2>1, <2>2, InFront
  <2>6. \A i \in 1 .. Len(items) : (<<m>> \o u)[i] = v[i]
    <3>. SUFFICES ASSUME NEW i \in 1 .. Len(items) PROVE (<<m>> \o u)[i] = v[i]
      OBVIOUS
    <3>1. CASE i = 1
      BY <1>1, <2>2, <2>3, <2>4, <2>5, <3>1
    <3>2. CASE i # 1
      <4>1. i - 1 \in 1 .. Len(rest) /\ i - 1 + 1 = i /\ i \in 1 .. Len(u) + 1
        BY <1>1, <2>2, <3>2
      <4>2. rest[i - 1] = items[i]
        BY <1>1, <4>1
      <4>. QED  BY <2>2, <2>3, <2>5, <3>2, <4>1, <4>2
    <3>. QED  BY <3>1, <3>2
  <2>7. Len(<<m>> \o u) = Len(v)
    <3>. HIDE DEF rest
    <3>1. Len(rest) + 1 = Len(items)
      BY <1>1
    <3>. QED  BY <2>2, <2>3, <2>5, <3>1
  <2>8. <<m>> \o u = v
    BY <2>3, <2>5, <2>6, <2>7, SeqEqual
  <2>. QED  BY <2>8 DEF m, u, v
<1>. QED  BY <1>1, <1>4, <1>5

\* The server hears the items, whatever they are.
LEMMA HeardItems ==
    ASSUME NEW items \in Seq(Item)
    PROVE  Heard(FlattenSeq(items)) = Meanings(items)
<1>. DEFINE s == FlattenSeq(items)
            n == Len(items)
<1>0. s \in Seq(Symbol) /\ n \in Nat
  BY ItemType, FlattenType
<1>1. PICK g : HeardFrom(s, g) /\ Heard(s) = g[1]
  <2>. HIDE DEF s
  <2>. QED  BY <1>0, HeardIs
<1>. DEFINE Right(tail, a) == s = a \o FlattenSeq(tail) => g[Len(a) + 1] = Meanings(tail)
            T == {m \in 0 .. n : \A tail \in Seq(Item) : \A a \in Seq(Symbol) :
                                     Len(tail) = m => Right(tail, a)}
<1>2. 0 \in T
  <2>0. 0 \in 0 .. n
    BY <1>0
  <2>. SUFFICES ASSUME NEW tail \in Seq(Item), NEW a \in Seq(Symbol), Len(tail) = 0
                PROVE  Right(tail, a)
    <3>. HIDE DEF Right
    <3>. QED  BY <2>0
  <2>. SUFFICES ASSUME s = a \o FlattenSeq(tail)
                PROVE  g[Len(a) + 1] = Meanings(tail)
    OBVIOUS
  <2>1. tail = << >> /\ FlattenSeq(tail) = << >> /\ s = a
    BY FlattenEmpty
  <2>2. g[Len(s) + 1] = << >>
    <3>. HIDE DEF s
    <3>1. Len(s) \in Nat
      BY <1>0
    <3>2. Len(s) + 1 \in 1 .. Len(s) + 1 /\ Len(s) + 1 > Len(s)
      BY <3>1
    <3>. QED  BY <1>1, <3>2 DEF HeardFrom
  <2>3. Meanings(tail) = << >>
    BY <2>1 DEF Meanings
  <2>. QED  BY <2>1, <2>2, <2>3
<1>3. ASSUME NEW m \in 1 .. n, m - 1 \in T PROVE m \in T
  <2>0. m \in 0 .. n
    BY <1>0
  <2>. SUFFICES ASSUME NEW tail \in Seq(Item), NEW a \in Seq(Symbol), Len(tail) = m
                PROVE  Right(tail, a)
    <3>. HIDE DEF Right
    <3>. QED  BY <2>0
  <2>. SUFFICES ASSUME s = a \o FlattenSeq(tail)
                PROVE  g[Len(a) + 1] = Meanings(tail)
    OBVIOUS
  <2>. DEFINE x == tail[1]
              rest == Tail(tail)
              r == FlattenSeq(rest)
              b == a \o x
  <2>1. /\ x \in Item /\ rest \in Seq(Item) /\ Len(rest) = m - 1
        /\ FlattenSeq(tail) = x \o r /\ Meanings(tail) = <<Meaning(x)>> \o Meanings(rest)
    BY FirstItem
  <2>. HIDE DEF x, rest, s
  <2>2. x \in Seq(Symbol) /\ r \in Seq(Symbol)
    BY <2>1, ItemType, FlattenType
  <2>. HIDE DEF r
  <2>3. b \in Seq(Symbol) /\ Len(b) = Len(a) + Len(x) /\ s = b \o r
    <3>1. (a \o x) \o r = a \o (x \o r)
      BY <2>2, SymbolsJoined, Zenon
    <3>. QED  BY <2>1, <2>2, <3>1, JoinedSeq
  <2>4. g[Len(b) + 1] = Meanings(rest)
    <3>. HIDE DEF b
    <3>. QED  BY <1>3, <2>1, <2>3 DEF r
  <2>6. g[Len(a) + 1] = <<Meaning(x)>> \o g[Len(a) + Len(x) + 1]
    <3>1. s = a \o (x \o r)
      BY <2>1
    <3>2. HeardFrom(a \o (x \o r), g)
      BY <1>1, <3>1
    <3>. QED  BY <2>1, <2>2, <3>2, HeardStep
  <2>. QED  BY <2>1, <2>3, <2>4, <2>6
<1>4. n \in T
  <2>. HIDE DEF T, n
  <2>1. 0 .. n \subseteq T
    BY <1>0, <1>2, <1>3, UpTo
  <2>. QED  BY <1>0, <2>1
<1>5. << >> \o s = s /\ << >> \in Seq(Symbol) /\ Len(<< >>) + 1 = 1
  <2>. HIDE DEF s
  <2>. QED  BY <1>0
<1>6. g[1] = Meanings(items)
  <2>1. Right(items, << >>)
    BY <1>4, <1>5
  <2>. QED  BY <1>5, <2>1
<1>. QED  BY <1>1, <1>6

-----------------------------------------------------------------------------
(* Who speaks to the server and who does not.                              *)

\* Nothing of what is meant for the server changes, and nothing of what has
\* been typed.
Silent(c, d) ==
    /\ DOMAIN d = Fields /\ d.ttyiring = c.ttyiring /\ d.mode = c.mode
    /\ d.netoring = c.netoring /\ d.writing = c.writing /\ d.meant = c.meant

Calm(c) == DOMAIN c = Fields /\ c.ttyiring \in Seq(Symbol)

\* Keys are taken, but nothing is said.
Mute(c, d) ==
    Calm(d) /\ d.netoring = c.netoring /\ d.writing = c.writing /\ d.meant = c.meant

\* Items are to be written, and what they mean is meant.
Says(c, d, items) ==
    Calm(d) /\ d.netoring = c.netoring /\ d.writing = FlattenSeq(items)
    /\ d.meant = c.meant \o Meanings(items)

Speaks(c, d) == Mute(c, d) \/ \E items \in Seq(Item) : Says(c, d, items)

LEMMA SilentMute ==
    ASSUME NEW c, NEW d, Calm(c), Silent(c, d)
    PROVE  Mute(c, d) /\ Calm(d) /\ Speaks(c, d)
BY DEF Silent, Calm, Mute, Speaks

LEMMA SilentThen ==
    ASSUME NEW c, NEW d, NEW e, Silent(c, d), Silent(d, e)
    PROVE  Silent(c, e)
BY DEF Silent

LEMMA MuteThen ==
    ASSUME NEW c, NEW d, NEW e, Mute(c, d), Speaks(d, e)
    PROVE  Speaks(c, e)
<1>1. Mute(d, e) => Mute(c, e)
  BY DEF Mute
<1>2. \A items \in Seq(Item) : Says(d, e, items) => Says(c, e, items)
  BY DEF Mute, Says
<1>. QED  BY <1>1, <1>2 DEF Speaks

LEMMA SilentUpdates ==
    ASSUME NEW c, DOMAIN c = Fields, NEW u, NEW v, NEW w, NEW x, NEW y
    PROVE  /\ Silent(c, c)
           /\ Silent(c, [c EXCEPT !.seen = u, !.since = v, !.refused = w, !.lastDropped = x])
           /\ Silent(c, [c EXCEPT !.ttyoring = u])
           /\ Silent(c, [c EXCEPT !.ttyoring = u, !.shown = v, !.seen = w, !.since = x, !.lastDropped = y])
           /\ Silent(c, [c EXCEPT !.ttyoring = u, !.shown = v])
           /\ Silent(c, [c EXCEPT !.flushout = u]) /\ Silent(c, [c EXCEPT !.state = u])
           /\ Silent(c, [c EXCEPT !.SYNCHing = u]) /\ Silent(c, [c EXCEPT !.netiring = u, !.seen = v])
           /\ Silent(c, [c EXCEPT !.bol = u]) /\ Silent(c, [c EXCEPT !.local = u])
           /\ Silent(c, [c EXCEPT !.bol = u, !.local = v]) /\ Silent(c, [c EXCEPT !.pc = u])
           /\ Silent(c, [c EXCEPT !.local = u, !.bol = v])
BY DEF Silent, Fields

LEMMA ShowSilent ==
    ASSUME NEW c, DOMAIN c = Fields, NEW text
    PROVE  Silent(c, Show(c, text))
<1>. DEFINE n == Last(text).n
            last == IF c.flushout THEN c.lastDropped ELSE n
            ring == c.ttyoring \o text
<1>1. Show(c, text) = IF c.SYNCHing \/ c.flushout
                      THEN [c EXCEPT !.seen = << >>, !.since = c.state, !.refused = n, !.lastDropped = last]
                      ELSE [c EXCEPT !.ttyoring = ring]
  BY DEF Show
<1>. HIDE DEF n, last, ring
<1>2. /\ Silent(c, [c EXCEPT !.seen = << >>, !.since = c.state, !.refused = n, !.lastDropped = last])
      /\ Silent(c, [c EXCEPT !.ttyoring = ring])
  BY SilentUpdates
<1>. QED  BY <1>1, <1>2

LEMMA DropSilent ==
    ASSUME NEW c, DOMAIN c = Fields
    PROVE  Silent(c, Drop(c))
<1>. DEFINE last == IF c.flushout \/ c.ttyoring = << >> THEN c.lastDropped ELSE Last(c.ttyoring).n
<1>1. Drop(c) = [c EXCEPT !.ttyoring = << >>, !.shown = << >>, !.seen = << >>, !.since = c.state,
                          !.lastDropped = last]
  BY DEF Drop
<1>. HIDE DEF last
<1>2. Silent(c, [c EXCEPT !.ttyoring = << >>, !.shown = << >>, !.seen = << >>, !.since = c.state,
                          !.lastDropped = last])
  BY DEF Silent, Fields
<1>. QED  BY <1>1, <1>2, Zenon

LEMMA TtyFlushSilent ==
    ASSUME NEW c, DOMAIN c = Fields, NEW k
    PROVE  Silent(c, TtyFlush(c, k))
<1>. DEFINE ring == SubSeq(c.ttyoring, k + 1, Len(c.ttyoring))
            shown == c.shown \o SubSeq(c.ttyoring, 1, k)
<1>1. Write(c, k) = [c EXCEPT !.ttyoring = ring, !.shown = shown]
  BY DEF Write
<1>. HIDE DEF ring, shown
<1>2. Silent(c, [c EXCEPT !.ttyoring = ring, !.shown = shown])
  BY DEF Silent, Fields
<1>3. Silent(c, Write(c, k))
  BY <1>1, <1>2, Zenon
<1>. QED  BY <1>3, DropSilent DEF TtyFlush

LEMMA NewModeSilent ==
    ASSUME NEW c, DOMAIN c = Fields
    PROVE  Silent(c, NewMode(c))
BY TtyFlushSilent DEF NewMode

LEMMA FlushedSilent ==
    ASSUME NEW c, DOMAIN c = Fields, NEW busy
    PROVE  Silent(c, Flushed(c, busy))
<1>. DEFINE d == [c EXCEPT !.flushout = TRUE]
<1>1. Silent(c, d) /\ DOMAIN d = Fields /\ Silent(c, c)
  BY SilentUpdates DEF Silent
<1>2. Flushed(c, busy) \in {c, d, Drop(d)}
  BY DEF Flushed
<1>. HIDE DEF d
<1>3. Silent(c, Drop(d))
  BY <1>1, DropSilent, SilentThen
<1>. QED  BY <1>1, <1>2, <1>3

-----------------------------------------------------------------------------
(* telrcv()                                                                *)

LEMMA CarriageReturnSilent ==
    ASSUME NEW c, DOMAIN c = Fields, NEW o
    PROVE  Silent(c, CarriageReturn(c, o))
<1>. DEFINE next == Head(c.netiring)
            ring == Tail(c.netiring)
            seen == Append(c.seen, next)
            d == [c EXCEPT !.netiring = ring, !.seen = seen]
            cr == [c EXCEPT !.state = "cr"]
<1>1. CarriageReturn(c, o) \in {Show(cr, Return(c.mode, o)), Show(d, <<o>>), Show(d, <<next>>),
                                Show(c, Return(c.mode, o))}
  BY DEF CarriageReturn
<1>. HIDE DEF next, ring, seen
<1>2. Silent(c, d) /\ Silent(c, cr) /\ DOMAIN d = Fields /\ DOMAIN cr = Fields
  BY SilentUpdates DEF Silent
<1>. HIDE DEF d, cr
<1>3. /\ Silent(c, Show(cr, Return(c.mode, o))) /\ Silent(c, Show(d, <<o>>))
      /\ Silent(c, Show(d, <<next>>)) /\ Silent(c, Show(c, Return(c.mode, o)))
  BY <1>2, ShowSilent, SilentThen
<1>. QED  BY <1>1, <1>3

LEMMA ReceiveDataSilent ==
    ASSUME NEW c, DOMAIN c = Fields, NEW o
    PROVE  Silent(c, ReceiveData(c, o))
<1>. DEFINE d == [c EXCEPT !.state = "data"]
            iac == [c EXCEPT !.state = "iac"]
<1>1. ReceiveData(c, o) \in {iac, CarriageReturn(d, o), Show(d, <<o>>)}
  BY DEF ReceiveData
<1>2. Silent(c, d) /\ Silent(c, iac) /\ DOMAIN d = Fields
  BY SilentUpdates DEF Silent
<1>. HIDE DEF d, iac
<1>3. Silent(c, CarriageReturn(d, o)) /\ Silent(c, Show(d, <<o>>))
  BY <1>2, CarriageReturnSilent, ShowSilent, SilentThen
<1>. QED  BY <1>1, <1>2, <1>3

LEMMA ReceiveAfterCrSilent ==
    ASSUME NEW c, DOMAIN c = Fields, NEW o
    PROVE  Silent(c, ReceiveAfterCr(c, o))
<1>. DEFINE d == [c EXCEPT !.state = "data"]
<1>1. ReceiveAfterCr(c, o) \in {d, Show(d, <<o>>), ReceiveData(c, o)}
  BY DEF ReceiveAfterCr
<1>2. Silent(c, d) /\ DOMAIN d = Fields
  BY SilentUpdates DEF Silent
<1>. HIDE DEF d
<1>3. Silent(c, ReceiveData(c, o)) /\ Silent(c, Show(d, <<o>>))
  BY <1>2, ReceiveDataSilent, ShowSilent, SilentThen
<1>. QED  BY <1>1, <1>2, <1>3

LEMMA DataMarkSilent ==
    ASSUME NEW c, DOMAIN c = Fields, NEW pending
    PROVE  Silent(c, DataMark(c, pending))
<1>. DEFINE d == [c EXCEPT !.state = "data"]
            e == Drop(d)
<1>1. Silent(c, d) /\ DOMAIN d = Fields
  BY SilentUpdates DEF Silent
<1>2. DataMark(c, pending) = [e EXCEPT !.SYNCHing = pending]
  BY DEF DataMark
<1>. HIDE DEF d
<1>3. Silent(c, e) /\ DOMAIN e = Fields
  BY <1>1, DropSilent, SilentThen DEF Silent
<1>. HIDE DEF e
<1>4. Silent(e, [e EXCEPT !.SYNCHing = pending])
  BY <1>3, SilentUpdates
<1>. QED  BY <1>2, <1>3, <1>4, SilentThen

LEMMA ReceiveCommandSilent ==
    ASSUME NEW c, DOMAIN c = Fields, NEW o, NEW pending
    PROVE  Silent(c, ReceiveCommand(c, o, pending))
<1>. DEFINE d == [c EXCEPT !.state = "data"]
            e == [c EXCEPT !.state = o.code]
            sb == [c EXCEPT !.state = "sb"]
<1>1. ReceiveCommand(c, o, pending) \in {e, sb, DataMark(c, pending), Show(d, <<o>>), d}
  BY DEF ReceiveCommand
<1>2. Silent(c, d) /\ Silent(c, e) /\ Silent(c, sb) /\ DOMAIN d = Fields
  BY SilentUpdates DEF Silent
<1>. HIDE DEF d, e, sb
<1>3. Silent(c, DataMark(c, pending)) /\ Silent(c, Show(d, <<o>>))
  BY <1>2, DataMarkSilent, ShowSilent, SilentThen
<1>. QED  BY <1>1, <1>2, <1>3

\* Commands mean themselves.
LEMMA PlainMeanings ==
    ASSUME NEW items \in Seq(Item \ {<<"IAC", "IAC">>})
    PROVE  items \in Seq(Item) /\ Meanings(items) = items
<1>. DEFINE P == Item \ {<<"IAC", "IAC">>}
<1>1. \A x \in P : Meaning(x) = x /\ x \in Item
  BY DEF Meaning
<1>. HIDE DEF P
<1>2. items \in Seq(P)
  BY DEF P
<1>3. items \in Seq(Item)
  BY <1>1, <1>2
<1>4. Meanings(items) \in Seq(P) /\ Len(Meanings(items)) = Len(items)
      /\ \A i \in 1 .. Len(items) : Meanings(items)[i] = items[i]
  BY <1>1, <1>2 DEF Meanings
<1>. QED  BY <1>2, <1>3, <1>4, SeqEqual

LEMMA EmitSays ==
    ASSUME NEW c, Calm(c), NEW items \in Seq(Item)
    PROVE  Says(c, Emit(c, FlattenSeq(items), Meanings(items)), items)
<1>. DEFINE bytes == FlattenSeq(items)
            meant == c.meant \o Meanings(items)
<1>1. Emit(c, bytes, Meanings(items)) = [c EXCEPT !.writing = bytes, !.meant = meant]
  BY DEF Emit
<1>. HIDE DEF bytes, meant
<1>2. Calm([c EXCEPT !.writing = bytes, !.meant = meant])
      /\ [c EXCEPT !.writing = bytes, !.meant = meant].netoring = c.netoring
      /\ [c EXCEPT !.writing = bytes, !.meant = meant].writing = bytes
      /\ [c EXCEPT !.writing = bytes, !.meant = meant].meant = meant
  BY DEF Calm, Fields
<1>. QED  BY <1>1, <1>2 DEF Says, bytes, meant

LEMMA AnsweredSpeaks ==
    ASSUME NEW c, Calm(c), NEW e \in Answered(c)
    PROVE  Speaks(c, e)
<1>. DEFINE P == Item \ {<<"IAC", "IAC">>}
            will == <<"IAC", "WILL", "x">>
<1>1. PICK a \in Answers : e = Emit(c, FlattenSeq(a), a)
  BY DEF Answered
<1>2. a \in Seq(P)
  <2>1. will \in Item /\ Naws \in Item
    BY DEF Item, Negotiation
  <2>2. will \in P /\ Naws \in P
    <3>1. Len(will) = 3 /\ Len(Naws) = 5 /\ Len(<<"IAC", "IAC">>) = 2
      BY DEF Naws
    <3>. HIDE DEF will
    <3>. QED  BY <2>1, <3>1
  <2>3. a = << >> \/ a = <<will, Naws>>
    BY DEF Answers
  <2>. HIDE DEF P, will
  <2>. QED  BY <2>2, <2>3, ShortType
<1>3. a \in Seq(Item) /\ Meanings(a) = a
  BY <1>2, PlainMeanings
<1>4. Says(c, e, a)
  BY <1>1, <1>3, EmitSays
<1>. QED  BY <1>3, <1>4 DEF Speaks

LEMMA ReceiveOptionSpeaks ==
    ASSUME NEW c, Calm(c), NEW o, NEW e \in ReceiveOption(c, o)
    PROVE  Speaks(c, e)
<1>. DEFINE d == [c EXCEPT !.state = "data"]
            f == [d EXCEPT !.flushout = FALSE]
<1>1. e = f \/ e \in Answered(NewMode(d)) \/ e \in Answered(d)
  BY DEF ReceiveOption
<1>2. Silent(c, d)
  BY SilentUpdates DEF Calm
<1>. HIDE DEF d
<1>3. Mute(c, d) /\ Calm(d)
  BY <1>2, SilentMute
<1>4. Silent(d, f) /\ Silent(d, NewMode(d))
  BY <1>3, SilentUpdates, NewModeSilent DEF Calm
<1>. HIDE DEF f
<1>5. Silent(c, f) /\ Silent(c, NewMode(d))
  BY <1>2, <1>4, SilentThen
<1>6. Speaks(c, f) /\ Mute(c, NewMode(d)) /\ Calm(NewMode(d))
  BY <1>5, SilentMute
<1>. QED  BY <1>1, <1>3, <1>6, AnsweredSpeaks, MuteThen

LEMMA CutShortSilent ==
    ASSUME NEW c, DOMAIN c = Fields, NEW o
    PROVE  Silent(c, CutShort(c, o))
<1>. DEFINE iac == [c EXCEPT !.state = "iac"]
            d == NewMode(iac)
            seen == <<o>>
            e == [d EXCEPT !.seen = seen]
<1>1. CutShort(c, o) = d \/ CutShort(c, o) = e
  BY DEF CutShort
<1>2. Silent(c, iac)
  BY SilentUpdates
<1>. HIDE DEF iac, seen
<1>3. Silent(c, d)
  BY <1>2, NewModeSilent, SilentThen DEF Silent
<1>. HIDE DEF d
<1>4. Silent(c, e)
  BY <1>3 DEF Silent, Fields
<1>. HIDE DEF e
<1>. QED  BY <1>1, <1>3, <1>4

LEMMA ReceiveSubEndSpeaks ==
    ASSUME NEW c, Calm(c), NEW o, NEW pending, NEW e \in ReceiveSubEnd(c, o, pending)
    PROVE  Speaks(c, e)
<1>. DEFINE d == [c EXCEPT !.state = "data"]
            sb == [c EXCEPT !.state = "sb"]
            command == ReceiveCommand(c, o, pending)
            cut == CutShort(c, o)
            late == ReceiveCommand(cut, o, pending)
<1>1. \/ e = sb \/ e \in Answered(d) \/ e \in Answered(NewMode(d))
      \/ e \in Answered(command) \/ e \in Answered(late)
  BY DEF ReceiveSubEnd
<1>2. Silent(c, d) /\ Silent(c, sb) /\ Silent(c, command) /\ Silent(c, cut)
  BY SilentUpdates, ReceiveCommandSilent, CutShortSilent DEF Calm
<1>. HIDE DEF d, sb, command, cut
<1>3. Silent(c, NewMode(d)) /\ Silent(c, late)
  BY <1>2, NewModeSilent, ReceiveCommandSilent, SilentThen DEF Silent
<1>. HIDE DEF late
<1>4. \A x : Silent(c, x) => Mute(c, x) /\ Calm(x)
  BY SilentMute
<1>. QED  BY <1>1, <1>2, <1>3, <1>4, AnsweredSpeaks, MuteThen DEF Speaks

LEMMA ReceivedSpeaks ==
    ASSUME NEW c, Calm(c), c.state \in ParserState, NEW pending, NEW e \in Received(c, pending)
    PROVE  Speaks(c, e)
<1>. DEFINE o == Head(c.netiring)
            ring == Tail(c.netiring)
            seen == Append(c.seen, o)
            d == [c EXCEPT !.netiring = ring, !.seen = seen]
            se == [d EXCEPT !.state = "se"]
<1>1. e \in {ReceiveData(d, o), ReceiveAfterCr(d, o), ReceiveCommand(d, o, pending), d, se}
         \/ e \in ReceiveOption(d, o) \/ e \in ReceiveSubEnd(d, o, pending)
  <2>1. Received(c, pending) \in
           {{ReceiveData(d, o)}, {ReceiveAfterCr(d, o)}, {ReceiveCommand(d, o, pending)},
            ReceiveOption(d, o), {IF o.code = "IAC" THEN se ELSE d},
            ReceiveSubEnd(d, o, pending)}
    <3>1. c.state \in {"data", "cr", "iac", "WILL", "DO", "DONT", "sb", "se"}
      BY DEF ParserState
    <3>. QED  BY <3>1 DEF Received
  <2>. HIDE DEF o, d, se
  <2>. QED  BY <2>1
<1>. HIDE DEF seen, ring
<1>2. Silent(c, d)
  BY SilentUpdates DEF Calm
<1>. HIDE DEF o, d
<1>3. Mute(c, d) /\ Calm(d)
  BY <1>2, SilentMute
<1>4. Silent(d, se) /\ Silent(d, d)
  BY <1>3, SilentUpdates DEF Calm
<1>. HIDE DEF se
<1>5. /\ Silent(d, ReceiveData(d, o)) /\ Silent(d, ReceiveAfterCr(d, o))
      /\ Silent(d, ReceiveCommand(d, o, pending))
  BY <1>3, ReceiveDataSilent, ReceiveAfterCrSilent, ReceiveCommandSilent DEF Calm
<1>6. Speaks(d, e)
  BY <1>1, <1>3, <1>4, <1>5, SilentMute, ReceiveOptionSpeaks, ReceiveSubEndSpeaks
<1>. QED  BY <1>3, <1>6, MuteThen

-----------------------------------------------------------------------------
(* telsnd()                                                                *)

\* Characters that are not IAC are one byte each.
LEMMA CharacterItems ==
    ASSUME NEW e \in Seq(Symbol \ {"IAC"})
    PROVE  LET items == [i \in DOMAIN e |-> <<e[i]>>]
           IN  items \in Seq(Item) /\ FlattenSeq(items) = e /\ Meanings(items) = items
<1>. DEFINE P == Item \ {<<"IAC", "IAC">>}
            items == [i \in DOMAIN e |-> <<e[i]>>]
<1>1. \A k \in Symbol \ {"IAC"} : <<k>> \in P
  BY DEF Item, Character
<1>. HIDE DEF P
<1>2. \A i \in 1 .. Len(e) : items[i] \in P
  BY <1>1
<1>3. items = [i \in 1 .. Len(e) |-> items[i]] /\ Len(e) \in Nat
  OBVIOUS
<1>. HIDE DEF items
<1>4. items \in Seq(P)
  BY <1>2, <1>3, ListedSeq
<1>5. items \in Seq(Item) /\ Meanings(items) = items
  BY <1>4, PlainMeanings DEF P
<1>6. FlattenSeq(items) = e
  BY FlattenSingles DEF items
<1>. QED  BY <1>5, <1>6 DEF items

\* What is sent for a key are items, and what they mean is what it stands for.
LEMMA EncodedItems ==
    ASSUME NEW mode, NEW k \in Symbol
    PROVE  \E items \in Seq(Item) :
               FlattenSeq(items) = Encoded(mode, k) /\ Meanings(items) = Characters(mode, k)
<1>1. CASE k = "IAC"
  <2>. DEFINE x == <<"IAC", "IAC">>
              items == <<x>>
  <2>1. x \in Item
    BY DEF Item, Character
  <2>2. Encoded(mode, k) = x /\ Characters(mode, k) = <<Meaning(x)>>
    BY <1>1 DEF Encoded, Characters, Meaning
  <2>3. x \in Seq(Symbol)
    BY <2>1, ItemType
  <2>. HIDE DEF x
  <2>4. items \in Seq(Item) /\ Len(items) = 1 /\ items[1] = x
    BY <2>1
  <2>5. Meanings(items) = <<Meaning(x)>>
    BY <2>4 DEF Meanings
  <2>6. FlattenSeq(items) = x
    BY <2>3, FlattenOne
  <2>. QED  BY <2>2, <2>4, <2>5, <2>6
<1>2. CASE k # "IAC"
  <2>. DEFINE e == Encoded(mode, k)
              items == [i \in DOMAIN e |-> <<e[i]>>]
  <2>1. e \in {<<"CR", "LF">>, <<"CR", "NUL">>, <<k>>}
    BY <1>2 DEF Encoded
  <2>2. {"CR", "LF", "NUL", k} \subseteq Symbol \ {"IAC"}
    BY <1>2, SymbolsAre
  <2>3. e \in Seq(Symbol \ {"IAC"})
    <3>. DEFINE S == Symbol \ {"IAC"}
    <3>1. "CR" \in S /\ "LF" \in S /\ "NUL" \in S /\ k \in S
      BY <2>2
    <3>. HIDE DEF S, e
    <3>2. <<"CR", "LF">> \in Seq(S) /\ <<"CR", "NUL">> \in Seq(S) /\ <<k>> \in Seq(S)
      BY <3>1, ShortSeq
    <3>. QED  BY <2>1, <3>2 DEF S
  <2>4. Characters(mode, k) = items
    BY <1>2 DEF Characters
  <2>. HIDE DEF e
  <2>5. items \in Seq(Item) /\ FlattenSeq(items) = e /\ Meanings(items) = items
    BY <2>3, CharacterItems
  <2>. QED  BY <2>4, <2>5 DEF e
<1>. QED  BY <1>1, <1>2

\* What a key does speaks, and leaves an answer a record.
LEMMA TransmitSpeaks ==
    ASSUME NEW c, Calm(c), NEW k \in Symbol
    PROVE  Speaks(c, Transmit(c, k).client)
<1>. DEFINE bol == c.bol \/ k \in {"LF", "CR"}
            d == [c EXCEPT !.bol = bol]
            bytes == Encoded(c.mode, k)
            says == Characters(c.mode, k)
<1>1. Transmit(c, k).client = Emit(d, bytes, says)
  BY DEF Transmit, Stay
<1>. HIDE DEF bol
<1>2. Silent(c, d)
  BY SilentUpdates DEF Calm
<1>3. PICK items \in Seq(Item) : FlattenSeq(items) = bytes /\ Meanings(items) = says
  BY EncodedItems
<1>. HIDE DEF d, bytes, says
<1>4. Mute(c, d) /\ Calm(d)
  BY <1>2, SilentMute
<1>5. Speaks(d, Emit(d, bytes, says))
  BY <1>3, <1>4, EmitSays DEF Speaks
<1>. QED  BY <1>1, <1>4, <1>5, MuteThen

\* The commands a handler or the interrupt character sends.
LEMMA InterruptionItems ==
    ASSUME NEW mode, NEW cmd \in {"IP", "SUSP"}
    PROVE  /\ Interruption(mode, cmd) \in Seq(Item)
           /\ Meanings(Interruption(mode, cmd)) = Interruption(mode, cmd)
<1>. DEFINE P == Item \ {<<"IAC", "IAC">>}
            order == <<"IAC", cmd>>
            dm == <<"IAC", "DM">>
            flush == IF mode.autoflush THEN <<Timing>> ELSE << >>
            synch == IF mode.autosynch THEN <<dm>> ELSE << >>
<1>1. order \in P /\ dm \in P /\ Timing \in P
  <2>1. order \in Item /\ dm \in Item /\ Timing \in Item
    BY DEF Item, Order, Negotiation, Timing
  <2>2. order # <<"IAC", "IAC">> /\ dm # <<"IAC", "IAC">>
    OBVIOUS
  <2>3. Timing # <<"IAC", "IAC">>
    <3>1. Len(Timing) = 3 /\ Len(<<"IAC", "IAC">>) = 2
      BY DEF Timing
    <3>. QED  BY <3>1
  <2>. QED  BY <2>1, <2>2, <2>3
<1>2. Interruption(mode, cmd) = <<order>> \o flush \o synch
  BY DEF Interruption
<1>. HIDE DEF P, order, dm
<1>3. <<order>> \in Seq(P) /\ flush \in Seq(P) /\ synch \in Seq(P)
  BY <1>1, ShortType
<1>. HIDE DEF flush, synch
<1>4. Interruption(mode, cmd) \in Seq(P)
  BY <1>2, <1>3
<1>. QED  BY <1>4, PlainMeanings DEF P

LEMMA InterruptSpeaks ==
    ASSUME NEW c, Calm(c)
    PROVE  Speaks(c, Interrupt(c).client)
<1>. DEFINE says == Interruption(c.mode, "IP")
            bytes == FlattenSeq(says)
            d == [c EXCEPT !.bol = TRUE]
            e == Flushed(d, FALSE)
<1>1. Interrupt(c).client = Emit(e, bytes, says)
  BY DEF Interrupt, Leave
<1>2. says \in Seq(Item) /\ Meanings(says) = says
  BY InterruptionItems
<1>3. Silent(c, d)
  BY SilentUpdates DEF Calm
<1>. HIDE DEF d, says
<1>4. Silent(d, e)
  BY <1>3, FlushedSilent DEF Silent
<1>. HIDE DEF e
<1>5. Mute(c, e) /\ Calm(e)
  BY <1>3, <1>4, SilentThen, SilentMute
<1>6. Says(e, Emit(e, bytes, Meanings(says)), says)
  BY <1>2, <1>5, EmitSays
<1>7. Speaks(e, Emit(e, bytes, says))
  BY <1>2, <1>6 DEF Speaks
<1>. QED  BY <1>1, <1>5, <1>7, MuteThen

\* Keys are taken from the ring, and flags set.
LEMMA MuteUpdates ==
    ASSUME NEW c, Calm(c), NEW q \in Seq(Symbol), NEW u, NEW v
    PROVE  /\ Mute(c, c)
           /\ Mute(c, [c EXCEPT !.ttyiring = q]) /\ Mute(c, [c EXCEPT !.ttyiring = q, !.bol = u])
           /\ Mute(c, [c EXCEPT !.bol = u, !.local = v]) /\ Mute(c, [c EXCEPT !.local = u])
           /\ Mute(c, [c EXCEPT !.bol = u]) /\ Mute(c, [c EXCEPT !.pc = u])
<1>1. ASSUME NEW d, DOMAIN d = Fields, d.ttyiring \in Seq(Symbol), d.netoring = c.netoring,
             d.writing = c.writing, d.meant = c.meant
      PROVE  Mute(c, d)
  BY <1>1 DEF Mute, Calm
<1>2. Mute(c, c)
  BY <1>1 DEF Calm
<1>3. Mute(c, [c EXCEPT !.ttyiring = q])
  BY DEF Mute, Calm, Fields
<1>4. Mute(c, [c EXCEPT !.ttyiring = q, !.bol = u])
  BY DEF Mute, Calm, Fields
<1>5. Mute(c, [c EXCEPT !.bol = u, !.local = v])
  BY DEF Mute, Calm, Fields
<1>6. Mute(c, [c EXCEPT !.local = u]) /\ Mute(c, [c EXCEPT !.bol = u]) /\ Mute(c, [c EXCEPT !.pc = u])
  BY DEF Mute, Calm, Fields
<1>. QED  BY <1>2, <1>3, <1>4, <1>5, <1>6

LEMMA NewModeSpeaks ==
    ASSUME NEW c, Calm(c)
    PROVE  Speaks(c, NewMode(c))
<1>1. Silent(c, NewMode(c))
  BY NewModeSilent DEF Calm
<1>. QED  BY <1>1, SilentMute

LEMMA CommandLineSpeaks ==
    ASSUME NEW c, Calm(c)
    PROVE  Speaks(c, CommandLine(c).client)
<1>. DEFINE rest == SubSeq(c.ttyiring, LineSize + 1, Len(c.ttyiring))
            d == [c EXCEPT !.ttyiring = rest, !.bol = TRUE]
<1>1. CommandLine(c).client = NewMode(d)
  BY DEF CommandLine, Leave
<1>2. rest \in Seq(Symbol)
  BY SubSeqType, RingAssumption DEF Calm
<1>. HIDE DEF rest
<1>3. Mute(c, d) /\ Calm(d)
  BY <1>2 DEF Mute, Calm, Fields
<1>. HIDE DEF d
<1>. QED  BY <1>1, <1>3, NewModeSpeaks, MuteThen

LEMMA UndoubledMute ==
    ASSUME NEW c, Calm(c), NEW k, Doubled(c, k)
    PROVE  Mute(c, Undoubled(c)) /\ Calm(Undoubled(c))
<1>. DEFINE q == Tail(c.ttyiring)
<1>1. q \in Seq(Symbol)
  BY HeadType DEF Calm, Doubled
<1>2. Undoubled(c) = [c EXCEPT !.ttyiring = q]
  BY DEF Undoubled
<1>. HIDE DEF q
<1>3. Mute(c, [c EXCEPT !.ttyiring = q])
  BY <1>1, MuteUpdates
<1>. QED  BY <1>2, <1>3 DEF Mute

LEMMA OrdinarySpeaks ==
    ASSUME NEW c, Calm(c), NEW k \in Symbol
    PROVE  Speaks(c, Ordinary(c, k).client)
<1>. DEFINE e == Undoubled(c)
<1>1. \/ Ordinary(c, k) \in {Leave(NewMode(c)), Interrupt(c), Transmit(c, k)}
      \/ Doubled(c, k) /\ Ordinary(c, k) = Transmit(e, k)
  BY DEF Ordinary
<1>2. Leave(NewMode(c)).client = NewMode(c)
  BY DEF Leave
<1>3. ASSUME Doubled(c, k)  PROVE Speaks(c, Transmit(e, k).client)
  <2>1. Mute(c, e) /\ Calm(e)
    BY <1>3, UndoubledMute
  <2>. HIDE DEF e
  <2>. QED  BY <2>1, TransmitSpeaks, MuteThen
<1>. HIDE DEF e
<1>. QED  BY <1>1, <1>2, <1>3, NewModeSpeaks, InterruptSpeaks, TransmitSpeaks

LEMMA RloginSpeaks ==
    ASSUME NEW c, Calm(c), NEW k \in Symbol
    PROVE  Speaks(c, Rlogin(c, k).client)
<1>. DEFINE d == [c EXCEPT !.bol = FALSE, !.local = FALSE]
            local == [d EXCEPT !.local = TRUE]
            closed == [d EXCEPT !.pc = "closed"]
            ring == <<k>> \o c.ttyiring
            back == [d EXCEPT !.ttyiring = ring]
            kept == [d EXCEPT !.local = c.local]
            line == [d EXCEPT !.bol = TRUE]
<1>1. Rlogin(c, k) \in {Stay(local), Leave(closed), Stay(NewMode(line)), CommandLine(d),
                        Ordinary(d, k), Ordinary(back, "tilde"), Ordinary(kept, k)}
  BY DEF Rlogin
<1>2. /\ Stay(local).client = local /\ Leave(closed).client = closed
      /\ Stay(NewMode(line)).client = NewMode(line)
  BY DEF Stay, Leave
<1>3. ring \in Seq(Symbol)
  BY InFront DEF Calm
<1>. HIDE DEF ring
<1>4. Mute(c, d) /\ Calm(d)
  BY DEF Mute, Calm, Fields
<1>. HIDE DEF d
<1>5. Mute(d, local) /\ Mute(d, closed) /\ Mute(d, back) /\ Mute(d, kept) /\ Calm(back) /\ Calm(kept)
  <2>1. Mute(d, back)
    BY <1>3, <1>4 DEF Mute, Calm, Fields
  <2>2. Mute(d, local) /\ Mute(d, closed) /\ Mute(d, kept)
    <3>. DEFINE old == c.local
    <3>. HIDE DEF old
    <3>1. Mute(d, [d EXCEPT !.local = old])
      BY <1>4 DEF Mute, Calm, Fields
    <3>2. Mute(d, local) /\ Mute(d, closed)
      BY <1>4 DEF Mute, Calm, Fields
    <3>. QED  BY <3>1, <3>2 DEF old
  <2>. QED  BY <2>1, <2>2 DEF Mute
<1>10. Speaks(d, NewMode(line))
  <2>1. Mute(d, line) /\ Calm(line)
    BY <1>4 DEF Mute, Calm, Fields
  <2>. HIDE DEF line
  <2>. QED  BY <2>1, NewModeSpeaks, MuteThen
<1>. HIDE DEF local, closed, back, kept, line
<1>6. "tilde" \in Symbol
  BY SymbolsAre
<1>7. /\ Speaks(d, local) /\ Speaks(d, closed) /\ Speaks(d, CommandLine(d).client)
      /\ Speaks(d, Ordinary(d, k).client)
  BY <1>4, <1>5, CommandLineSpeaks, OrdinarySpeaks DEF Speaks
<1>8. Speaks(d, Ordinary(back, "tilde").client) /\ Speaks(d, Ordinary(kept, k).client)
  BY <1>5, <1>6, OrdinarySpeaks, MuteThen
<1>9. /\ Speaks(c, local) /\ Speaks(c, closed) /\ Speaks(c, CommandLine(d).client)
      /\ Speaks(c, Ordinary(d, k).client) /\ Speaks(c, NewMode(line))
      /\ Speaks(c, Ordinary(back, "tilde").client) /\ Speaks(c, Ordinary(kept, k).client)
  BY <1>4, <1>7, <1>8, <1>10, MuteThen
<1>. QED  BY <1>1, <1>2, <1>9

LEMMA KeyedSpeaks ==
    ASSUME NEW c, Calm(c), NEW k \in Symbol
    PROVE  Speaks(c, Keyed(c, k).client)
<1>. DEFINE d == [c EXCEPT !.bol = FALSE]
            e == Undoubled(d)
<1>1. \/ Keyed(c, k) \in {Rlogin(c, k), CommandLine(c), Ordinary(d, k)}
      \/ Doubled(c, k) /\ Keyed(c, k) = Ordinary(e, k)
  BY DEF Keyed
<1>2. Mute(c, d) /\ Calm(d) /\ d.ttyiring = c.ttyiring
  <2>1. Silent(c, d)
    BY SilentUpdates DEF Calm
  <2>. HIDE DEF d
  <2>. QED  BY <2>1, SilentMute DEF Silent
<1>. HIDE DEF d
<1>3. Speaks(c, Ordinary(d, k).client)
  BY <1>2, OrdinarySpeaks, MuteThen
<1>4. ASSUME Doubled(c, k)  PROVE Speaks(c, Ordinary(e, k).client)
  <2>1. Mute(d, e) /\ Calm(e)
    BY <1>2, <1>4, UndoubledMute DEF Doubled
  <2>. HIDE DEF e
  <2>2. Speaks(d, Ordinary(e, k).client)
    BY <2>1, OrdinarySpeaks, MuteThen
  <2>. QED  BY <1>2, <2>2, MuteThen
<1>. HIDE DEF e
<1>. QED  BY <1>1, <1>3, <1>4, RloginSpeaks, CommandLineSpeaks

-----------------------------------------------------------------------------
(* The wire                                                                *)

\* What has been said, from sent to what is still to be written, are whole
\* items that mean what is meant.
Told(c, out) ==
    \E items \in Seq(Item) :
        FlattenSeq(items) = out \o (c.netoring \o c.writing) /\ Meanings(items) = c.meant

Wire(c, out) ==
    /\ Calm(c) /\ c.netoring \in Seq(Symbol) /\ c.writing \in Seq(Symbol)
    /\ out \in Seq(Symbol) /\ Told(c, out)

LEMMA SilentWire ==
    ASSUME NEW c, NEW out, Wire(c, out), NEW d, Silent(c, d)
    PROVE  Wire(d, out)
BY DEF Wire, Silent, Calm, Told

\* More items behind those there are.
LEMMA MoreItems ==
    ASSUME NEW items \in Seq(Item), NEW more \in Seq(Item)
    PROVE  /\ items \o more \in Seq(Item)
           /\ FlattenSeq(items \o more) = FlattenSeq(items) \o FlattenSeq(more)
           /\ Meanings(items \o more) = Meanings(items) \o Meanings(more)
<1>. DEFINE all == items \o more
            M == {Meaning(x) : x \in Item}
            left == Meanings(all)
            a == Meanings(items)
            b == Meanings(more)
<1>1. all \in Seq(Item) /\ Len(all) = Len(items) + Len(more)
      /\ \A i \in 1 .. Len(all) : all[i] = IF i <= Len(items) THEN items[i] ELSE more[i - Len(items)]
  OBVIOUS
<1>2. FlattenSeq(all) = FlattenSeq(items) \o FlattenSeq(more)
  <2>1. items \in Seq(Seq(Symbol)) /\ more \in Seq(Seq(Symbol))
    BY ItemType
  <2>. QED  BY <2>1, FlattenJoin
<1>3. \A x \in Item : Meaning(x) \in M
  OBVIOUS
<1>. HIDE DEF M, all
<1>4. /\ left \in Seq(M) /\ Len(left) = Len(all) /\ \A i \in 1 .. Len(all) : left[i] = Meaning(all[i])
      /\ a \in Seq(M) /\ Len(a) = Len(items) /\ \A i \in 1 .. Len(items) : a[i] = Meaning(items[i])
      /\ b \in Seq(M) /\ Len(b) = Len(more) /\ \A i \in 1 .. Len(more) : b[i] = Meaning(more[i])
  <2>1. ASSUME NEW s \in Seq(Item)
        PROVE  /\ Meanings(s) \in Seq(M) /\ Len(Meanings(s)) = Len(s)
               /\ \A i \in 1 .. Len(s) : Meanings(s)[i] = Meaning(s[i])
    BY <1>3 DEF Meanings
  <2>. QED  BY <1>1, <2>1
<1>. HIDE DEF left, a, b
<1>5. a \o b \in Seq(M) /\ Len(a \o b) = Len(all)
      /\ \A i \in 1 .. Len(all) : (a \o b)[i] = left[i]
  <2>1. /\ a \o b \in Seq(M) /\ Len(a \o b) = Len(a) + Len(b)
        /\ \A i \in 1 .. Len(a) + Len(b) : (a \o b)[i] = IF i <= Len(a) THEN a[i] ELSE b[i - Len(a)]
    <3>1. a \in Seq(M) /\ b \in Seq(M)
      BY <1>4
    <3>. QED  BY <3>1, ConcatProperties
  <2>2. ASSUME NEW i \in 1 .. Len(all)  PROVE (a \o b)[i] = left[i]
    <3>1. CASE i <= Len(items)
      <4>1. i \in 1 .. Len(items)
        BY <3>1
      <4>. QED  BY <1>1, <1>4, <2>1, <3>1, <4>1
    <3>2. CASE ~ (i <= Len(items))
      <4>1. i - Len(items) \in 1 .. Len(more)
        BY <1>1, <3>2
      <4>. QED  BY <1>1, <1>4, <2>1, <3>2, <4>1
    <3>. QED  BY <3>1, <3>2
  <2>. QED  BY <1>1, <1>4, <2>1, <2>2
<1>6. left = a \o b
  BY <1>4, <1>5, SeqEqual
<1>. QED  BY <1>1, <1>2, <1>6 DEF all, left, a, b

\* Items put behind what has been said, into the ring or to be written.
LEMMA SaidMore ==
    ASSUME NEW c, NEW out, Wire(c, out), c.writing = << >>, NEW items \in Seq(Item),
           NEW d, Calm(d), d.meant = c.meant \o Meanings(items),
           \/ d.netoring = c.netoring /\ d.writing = FlattenSeq(items)
           \/ d.netoring = c.netoring \o FlattenSeq(items) /\ d.writing = << >>
    PROVE  Wire(d, out)
<1>. DEFINE bytes == FlattenSeq(items)
            net == c.netoring
<1>1. bytes \in Seq(Symbol)
  <2>1. items \in Seq(Seq(Symbol))
    BY ItemType
  <2>. QED  BY <2>1, FlattenType
<1>2. PICK before \in Seq(Item) : FlattenSeq(before) = out \o (net \o << >>) /\ Meanings(before) = c.meant
  BY DEF Wire, Told
<1>3. /\ before \o items \in Seq(Item)
      /\ FlattenSeq(before \o items) = (out \o (net \o << >>)) \o bytes
      /\ Meanings(before \o items) = d.meant
  BY <1>2, MoreItems
<1>4. net \in Seq(Symbol) /\ out \in Seq(Symbol) /\ << >> \in Seq(Symbol)
  BY ShortType DEF Wire
<1>. HIDE DEF bytes, net
<1>5. net \o << >> = net /\ (net \o bytes) \o << >> = net \o bytes /\ net \o bytes \in Seq(Symbol)
  BY <1>1, <1>4
<1>6. (out \o net) \o bytes = out \o (net \o bytes)
  BY <1>1, <1>4, SymbolsJoined, Zenon
<1>7. d.netoring \o d.writing = net \o bytes /\ d.netoring \in Seq(Symbol) /\ d.writing \in Seq(Symbol)
  BY <1>1, <1>4, <1>5 DEF net, bytes
<1>. QED  BY <1>3, <1>4, <1>5, <1>6, <1>7 DEF Wire, Told

LEMMA SpeaksWire ==
    ASSUME NEW c, NEW out, Wire(c, out), c.writing = << >>, NEW d, Speaks(c, d)
    PROVE  Wire(d, out)
<1>1. CASE Mute(c, d)
  BY <1>1 DEF Mute, Wire, Told
<1>2. ASSUME NEW items \in Seq(Item), Says(c, d, items)  PROVE Wire(d, out)
  BY <1>2, SaidMore DEF Says
<1>. QED  BY <1>1, <1>2 DEF Speaks

\* Bytes go out from the ring.
LEMMA FlowsWire ==
    ASSUME NEW c, NEW out, Wire(c, out), NEW n \in 0 .. Len(c.netoring)
    PROVE  Wire([c EXCEPT !.netoring = SubSeq(c.netoring, n + 1, Len(c.netoring))],
                out \o SubSeq(c.netoring, 1, n))
<1>. DEFINE a == SubSeq(c.netoring, 1, n)
            b == SubSeq(c.netoring, n + 1, Len(c.netoring))
            w == c.writing
            d == [c EXCEPT !.netoring = b]
<1>1. a \in Seq(Symbol) /\ b \in Seq(Symbol) /\ a \o b = c.netoring /\ w \in Seq(Symbol)
      /\ out \in Seq(Symbol)
  BY Rejoined DEF Wire
<1>. HIDE DEF a, b
<1>2. (out \o a) \o (b \o w) = out \o (c.netoring \o w) /\ out \o a \in Seq(Symbol)
  <2>1. b \o w \in Seq(Symbol) /\ out \o a \in Seq(Symbol)
    BY <1>1, ConcatType
  <2>. DEFINE rest == b \o w
  <2>2. (out \o a) \o rest = out \o (a \o rest)
    <3>. HIDE DEF rest, w
    <3>. QED  BY <1>1, <2>1, SymbolsJoined, Zenon DEF rest
  <2>3. a \o (b \o w) = (a \o b) \o w
    <3>. HIDE DEF w
    <3>. QED  BY <1>1, SymbolsJoined, Zenon
  <2>. QED  BY <1>1, <2>1, <2>2, <2>3
<1>3. /\ Calm(d) /\ d.netoring = b /\ d.writing = w /\ d.meant = c.meant
  BY DEF Wire, Calm, Fields
<1>. HIDE DEF d, w
<1>4. Told(d, out \o a)
  <2>1. PICK items \in Seq(Item) :
          FlattenSeq(items) = out \o (c.netoring \o c.writing) /\ Meanings(items) = c.meant
    BY DEF Wire, Told
  <2>. QED  BY <1>2, <1>3, <2>1 DEF Told, w
<1>5. Wire(d, out \o a)
  BY <1>1, <1>2, <1>3, <1>4 DEF Wire
<1>. QED  BY <1>5 DEF a, b, d

-----------------------------------------------------------------------------
(* The invariant                                                           *)

WireInv ==
    /\ Wire(client, sent) /\ typed \in Seq(Symbol)
    /\ client.pc = "telsnd" => client.ttyiring # << >>

LEMMA WireInit == Init => WireInv
<1>. SUFFICES ASSUME Init  PROVE WireInv
  OBVIOUS
<1>1. PICK mode \in Modes : client = ClientInit(mode)
  BY DEF Init
<1>2. /\ DOMAIN client = Fields /\ client.ttyiring = << >> /\ client.netoring = << >>
      /\ client.writing = << >> /\ client.meant = << >> /\ client.pc = "select"
  BY <1>1 DEF ClientInit, Fields
<1>3. sent = << >> /\ typed = << >>
  BY DEF Init
<1>4. << >> \in Seq(Symbol) /\ << >> \in Seq(Item)
  BY ShortType
<1>5. Told(client, sent)
  <2>. DEFINE none == << >>
  <2>1. FlattenSeq(none) = << >> /\ none \in Seq(Item) /\ Len(none) = 0
    BY <1>4, FlattenEmpty
  <2>2. Meanings(none) = << >>
    <3>1. Meanings(none) = [i \in 1 .. 0 |-> Meaning(none[i])]
      BY <2>1 DEF Meanings
    <3>. QED  BY <3>1
  <2>3. << >> \o (<< >> \o << >>) = << >>
    OBVIOUS
  <2>. QED  BY <1>2, <1>3, <2>1, <2>2, <2>3 DEF Told
<1>. QED  BY <1>2, <1>3, <1>4, <1>5 DEF WireInv, Wire, Calm

\* Onward() goes to telsnd() only with a key to send.
LEMMA OnwardWire ==
    ASSUME NEW c, NEW out, Wire(c, out), NEW looping
    PROVE  /\ Wire(Onward(c, looping), out)
           /\ Onward(c, looping).pc = "telsnd" => Onward(c, looping).ttyiring # << >>
<1>. DEFINE pc == IF looping /\ c.ttyiring # << >>
                     /\ NetOutSize - Len(c.netoring \o c.writing) > 2 THEN "telsnd"
                  ELSE IF CanReceive(c) THEN "telrcv" ELSE "select"
            d == [c EXCEPT !.pc = pc]
<1>1. Onward(c, looping) = d
  BY DEF Onward
<1>2. pc = "telsnd" => c.ttyiring # << >>
  OBVIOUS
<1>. HIDE DEF pc
<1>3. Silent(c, d) /\ d.pc = pc /\ d.ttyiring = c.ttyiring
  BY DEF Wire, Calm, Silent, Fields
<1>. HIDE DEF d
<1>. QED  BY <1>1, <1>2, <1>3, SilentWire

LEMMA TelsndWire ==
    ASSUME WireInv, Telsnd
    PROVE  WireInv'
<1>. DEFINE k == Head(client.ttyiring)
            rest == Tail(client.ttyiring)
            c == [client EXCEPT !.ttyiring = rest]
            r == Keyed(c, k)
<1>1. /\ client' = IF r.client.pc = "closed" THEN r.client ELSE Onward(r.client, r.looping)
      /\ UNCHANGED <<typed, sent>> /\ client.pc = "telsnd" /\ client.writing = << >>
  BY DEF Telsnd, Running
<1>2. Calm(client) /\ client.ttyiring # << >> /\ Wire(client, sent)
  BY <1>1 DEF WireInv, Wire
<1>3. k \in Symbol /\ rest \in Seq(Symbol)
  BY <1>2, HeadType DEF Calm
<1>. HIDE DEF k, rest
<1>4. Mute(client, c) /\ Calm(c)
  BY <1>2, <1>3 DEF Mute, Calm, Fields
<1>. HIDE DEF c
<1>5. Speaks(client, r.client)
  BY <1>3, <1>4, KeyedSpeaks, MuteThen
<1>. HIDE DEF r
<1>6. Wire(r.client, sent)
  BY <1>1, <1>2, <1>5, SpeaksWire
<1>7. CASE r.client.pc = "closed"
  BY <1>1, <1>6, <1>7 DEF WireInv
<1>8. CASE r.client.pc # "closed"
  BY <1>1, <1>6, <1>8, OnwardWire DEF WireInv
<1>. QED  BY <1>7, <1>8

LEMMA TelrcvWire ==
    ASSUME IndInv, WireInv, Telrcv
    PROVE  WireInv'
<1>1. UNCHANGED <<typed, sent>> /\ client.writing = << >>
  BY DEF Telrcv, Running
<1>2. PICK c \in Received(client, urgent # 0) : client' = Onward(c, FALSE)
  BY DEF Telrcv
<1>3. Calm(client) /\ client.state \in ParserState /\ Wire(client, sent)
  BY DEF IndInv, Sound, Form, WireInv, Wire
<1>4. Speaks(client, c)
  BY <1>3, ReceivedSpeaks
<1>5. Wire(c, sent)
  BY <1>1, <1>3, <1>4, SpeaksWire
<1>. QED  BY <1>1, <1>2, <1>5, OnwardWire DEF WireInv

\* Without signals between the bytes the program writes all it has to.
LEMMA WriteOutWire ==
    ASSUME ~SignalAnywhere, WireInv, WriteOut
    PROVE  WireInv'
<1>. DEFINE n == Len(client.writing)
            bytes == SubSeq(client.writing, 1, n)
            rest == SubSeq(client.writing, n + 1, n)
            ring == client.netoring \o bytes
            overrun == client.overrun \/ Len(client.netoring) + Len(bytes) >= NetOutSize
            c == Add(client, bytes)
<1>1. client' = [c EXCEPT !.writing = rest] /\ UNCHANGED <<typed, sent>>
  BY DEF WriteOut
<1>2. c = [client EXCEPT !.netoring = ring, !.overrun = overrun]
  BY DEF Add
<1>3. Calm(client) /\ client.netoring \in Seq(Symbol) /\ client.writing \in Seq(Symbol)
      /\ sent \in Seq(Symbol)
  BY DEF WireInv, Wire
<1>4. bytes = client.writing /\ rest = << >>
  <2>. DEFINE w == client.writing
  <2>1. w \in Seq(Symbol)
    BY <1>3
  <2>. HIDE DEF w
  <2>2. SubSeq(w, 1, Len(w)) = w /\ SubSeq(w, Len(w) + 1, Len(w)) = << >>
    BY <2>1
  <2>. QED  BY <2>2 DEF w
<1>5. ring = client.netoring \o client.writing /\ ring \in Seq(Symbol)
  BY <1>3, <1>4, ConcatType
<1>. HIDE DEF n, bytes, rest, ring, overrun, c
<1>6. /\ Calm(client') /\ client'.netoring = ring /\ client'.writing = << >>
      /\ client'.meant = client.meant /\ client'.pc = client.pc
      /\ client'.ttyiring = client.ttyiring
  <2>1. Calm(c) /\ c.netoring = ring /\ c.meant = client.meant /\ c.pc = client.pc
        /\ c.ttyiring = client.ttyiring
    BY <1>2, <1>3 DEF Calm, Fields
  <2>. QED  BY <1>1, <1>4, <2>1 DEF Calm, Fields
<1>7. ring \o << >> = ring /\ << >> \in Seq(Symbol)
  BY <1>5
<1>8. Told(client', sent)
  <2>1. PICK items \in Seq(Item) :
          FlattenSeq(items) = sent \o (client.netoring \o client.writing)
          /\ Meanings(items) = client.meant
    BY DEF WireInv, Wire, Told
  <2>. QED  BY <1>5, <1>6, <1>7, <2>1 DEF Told
<1>. QED  BY <1>1, <1>3, <1>5, <1>6, <1>7, <1>8 DEF WireInv, Wire

LEMMA ProcessRingsWire ==
    ASSUME IndInv, WireInv, ProcessRings
    PROVE  WireInv'
<1>1. PICK noticed \in BOOLEAN :
         LET a == IF noticed THEN Drop([client EXCEPT !.SYNCHing = TRUE]) ELSE client
         IN  /\ noticed => urgent # 0 /\ ~client.SYNCHing
             /\ \E n \in {0, Len(a.netoring)}, t \in 0 .. Len(a.ttyoring),
                   k \in 0 .. Min({Len(stream), NetInSize - 1 - Len(a.netiring)}),
                   j \in 0 .. Min({Len(typed), TtyInSize - 1 - Len(a.ttyiring)}) :
                 LET b == [a EXCEPT !.netoring = SubSeq(a.netoring, n + 1, Len(a.netoring))]
                     c == IF t = 0 THEN b ELSE TtyFlush(b, t)
                     d == [c EXCEPT !.netiring = c.netiring \o SubSeq(stream, 1, k),
                                    !.ttyiring = c.ttyiring \o SubSeq(typed, 1, j)]
                 IN  /\ urgent <= 1 \/ k < urgent
                     /\ client' = Onward(d, TRUE)
                     /\ sent' = sent \o SubSeq(a.netoring, 1, n)
                     /\ stream' = SubSeq(stream, k + 1, Len(stream))
                     /\ urgent' = IF urgent > k THEN urgent - k ELSE 0
                     /\ typed' = SubSeq(typed, j + 1, Len(typed))
  BY DEF ProcessRings
<1>. DEFINE on == [client EXCEPT !.SYNCHing = TRUE]
            a == IF noticed THEN Drop(on) ELSE client
<1>2. PICK n \in {0, Len(a.netoring)}, t \in 0 .. Len(a.ttyoring),
           k \in 0 .. Min({Len(stream), NetInSize - 1 - Len(a.netiring)}),
           j \in 0 .. Min({Len(typed), TtyInSize - 1 - Len(a.ttyiring)}) :
         LET b == [a EXCEPT !.netoring = SubSeq(a.netoring, n + 1, Len(a.netoring))]
             c == IF t = 0 THEN b ELSE TtyFlush(b, t)
             d == [c EXCEPT !.netiring = c.netiring \o SubSeq(stream, 1, k),
                            !.ttyiring = c.ttyiring \o SubSeq(typed, 1, j)]
         IN  /\ urgent <= 1 \/ k < urgent
             /\ client' = Onward(d, TRUE)
             /\ sent' = sent \o SubSeq(a.netoring, 1, n)
             /\ stream' = SubSeq(stream, k + 1, Len(stream))
             /\ urgent' = IF urgent > k THEN urgent - k ELSE 0
             /\ typed' = SubSeq(typed, j + 1, Len(typed))
  BY <1>1
<1>. DEFINE b == [a EXCEPT !.netoring = SubSeq(a.netoring, n + 1, Len(a.netoring))]
            out == sent \o SubSeq(a.netoring, 1, n)
            c == IF t = 0 THEN b ELSE TtyFlush(b, t)
            read == SubSeq(typed, 1, j)
            netiring == c.netiring \o SubSeq(stream, 1, k)
            ttyiring == c.ttyiring \o read
            d == [c EXCEPT !.netiring = netiring, !.ttyiring = ttyiring]
<1>3. client' = Onward(d, TRUE) /\ sent' = out /\ typed' = SubSeq(typed, j + 1, Len(typed))
  BY <1>2
<1>4. Wire(client, sent) /\ typed \in Seq(Symbol) /\ DOMAIN client = Fields
      /\ Len(client.ttyiring) \in Nat
  BY DEF WireInv, Wire, Calm
<1>5. Silent(client, a)
  <2>1. Silent(client, on) /\ Silent(client, client)
    BY <1>4, SilentUpdates
  <2>. HIDE DEF on
  <2>2. Silent(on, Drop(on))
    BY <2>1, DropSilent DEF Silent
  <2>. QED  BY <2>1, <2>2, SilentThen
<1>6. Wire(a, sent) /\ a.ttyiring = client.ttyiring /\ n \in 0 .. Len(a.netoring)
  <2>1. Wire(a, sent)
    BY <1>4, <1>5, SilentWire
  <2>. HIDE DEF a
  <2>2. Len(a.netoring) \in Nat
    BY <2>1 DEF Wire
  <2>. QED  BY <1>2, <1>5, <2>1, <2>2 DEF Silent
<1>7. j \in 0 .. Len(typed)
  <2>. DEFINE x == Len(typed)
              y == TtyInSize - 1 - Len(a.ttyiring)
              bound == Min({x, y})
  <2>0. Len(a.ttyiring) \in Int /\ TtyInSize \in Int
    <3>. HIDE DEF a
    <3>. QED  BY <1>4, <1>6, RingAssumption
  <2>1. x \in Nat /\ x \in Int /\ y \in Int
    <3>1. y \in Int
      <4>. DEFINE length == Len(a.ttyiring)
      <4>1. length \in Int /\ y = TtyInSize - 1 - length
        BY <2>0
      <4>. HIDE DEF length, y
      <4>. QED  BY <2>0, <4>1
    <3>2. x \in Nat /\ x \in Int
      BY <1>4
    <3>. QED  BY <3>1, <3>2
  <2>. HIDE DEF x, y
  <2>2. bound \in Int /\ bound <= x
    BY <2>1, MinOfTwo
  <2>3. j \in 0 .. bound
    BY <1>2 DEF x, y
  <2>. HIDE DEF bound
  <2>4. j \in 0 .. x
    BY <2>1, <2>2, <2>3
  <2>. QED  BY <2>4 DEF x
<1>. HIDE DEF a
<1>8. Wire(b, out)
  BY <1>6, FlowsWire
<1>. HIDE DEF b, out
<1>9. Wire(c, out)
  <2>1. Silent(b, TtyFlush(b, t))
    BY <1>8, TtyFlushSilent DEF Wire, Calm
  <2>. QED  BY <1>8, <2>1, SilentWire
<1>. HIDE DEF c
<1>10. read \in Seq(Symbol) /\ typed' \in Seq(Symbol)
  BY <1>3, <1>4, <1>7, Rejoined
<1>11. ttyiring \in Seq(Symbol)
  BY <1>9, <1>10, ConcatType DEF Wire, Calm
<1>. HIDE DEF netiring, ttyiring, read
<1>12. Mute(c, d)
  BY <1>9, <1>11 DEF Mute, Wire, Calm, Fields
<1>. HIDE DEF d
<1>13. Wire(d, out)
  BY <1>9, <1>12 DEF Mute, Wire, Told
<1>. QED  BY <1>3, <1>10, <1>13, OnwardWire DEF WireInv

\* Neither what the server writes nor the typing changes the client.
LEMMA OthersWire ==
    ASSUME WireInv, \/ \E unit \in Unit : ServerWrites(unit)
                    \/ ServerAnswers
                    \/ \E k \in Key : UserTypes(k)
                    \/ UNCHANGED vars
    PROVE  WireInv'
<1>1. CASE UNCHANGED <<client, typed, sent>>
  BY <1>1 DEF WireInv
<1>2. ASSUME NEW k \in Key, UserTypes(k)  PROVE WireInv'
  <2>1. k \in Symbol
    BY DEF Symbol
  <2>2. typed' \in Seq(Symbol)
    BY <1>2, <2>1 DEF UserTypes, WireInv
  <2>. QED  BY <1>2, <2>2 DEF UserTypes, WireInv
<1>. QED  BY <1>1, <1>2 DEF ServerWrites, ServerAnswers, ServerSends, vars

\* A handler finds nothing half written.
LEMMA HandledWire ==
    ASSUME WireInv, client.writing = << >>, NEW c, Silent(client, c), c.pc = client.pc,
           NEW items \in Seq(Item), NEW meant, meant = c.meant \o Meanings(items),
           NEW bytes, bytes = FlattenSeq(items),
           client' = Add([c EXCEPT !.meant = meant], bytes), UNCHANGED <<typed, sent>>
    PROVE  WireInv'
<1>. DEFINE ring == c.netoring \o bytes
            overrun == c.overrun \/ Len(c.netoring) + Len(bytes) >= NetOutSize
            d == [c EXCEPT !.meant = meant]
<1>1. DOMAIN c = Fields /\ Calm(client) /\ Wire(client, sent)
  BY DEF Silent, WireInv, Wire
<1>2. DOMAIN d = Fields /\ d.netoring = c.netoring /\ d.overrun = c.overrun /\ d.meant = meant
      /\ d.writing = c.writing /\ d.pc = c.pc /\ d.ttyiring = c.ttyiring
  BY <1>1 DEF Fields
<1>. HIDE DEF d
<1>3. client' = [d EXCEPT !.netoring = ring, !.overrun = overrun]
  BY <1>2 DEF Add, d
<1>. HIDE DEF ring, overrun
<1>4. /\ DOMAIN client' = Fields /\ client'.netoring = ring /\ client'.meant = meant
      /\ client'.writing = c.writing /\ client'.pc = c.pc /\ client'.ttyiring = c.ttyiring
  BY <1>2, <1>3 DEF Fields
<1>5. /\ Calm(client') /\ client'.meant = client.meant \o Meanings(items)
      /\ client'.netoring = client.netoring \o FlattenSeq(items) /\ client'.writing = << >>
      /\ client'.pc = client.pc /\ client'.ttyiring = client.ttyiring
  BY <1>1, <1>4 DEF Silent, Calm, ring
<1>6. Wire(client', sent)
  BY <1>1, <1>5, SaidMore
<1>. QED  BY <1>5, <1>6 DEF WireInv

LEMMA HandlersWire ==
    ASSUME IndInv, ~SignalAnywhere, WireInv, Intr \/ Susp \/ Winch
    PROVE  WireInv'
<1>1. client.writing = << >> /\ UNCHANGED <<typed, sent>>
  BY DEF Intr, Susp, Winch, Handler
<1>2. Form(client) /\ DOMAIN client = Fields /\ Silent(client, client)
  BY ClientForm DEF Form, Silent
<1>3. ASSUME NEW cmd \in {"IP", "SUSP"}, Signalled(cmd)  PROVE WireInv'
  <2>. DEFINE says == Interruption(client.mode, cmd)
              bytes == FlattenSeq(says)
              meant == client.meant \o says
  <2>1. PICK busy \in Busy :
           client' = Add([Flushed(client, busy) EXCEPT !.meant = meant], bytes)
    BY <1>3 DEF Signalled
  <2>. DEFINE c == Flushed(client, busy)
  <2>2. busy \in BOOLEAN
    BY <2>1 DEF Busy
  <2>3. Silent(client, c) /\ c.pc = client.pc /\ c.meant = client.meant
    BY <1>2, <2>2, FlushedSilent, FlushedKeeps DEF Silent, Keeps
  <2>. HIDE DEF c
  <2>4. says \in Seq(Item) /\ Meanings(says) = says
    BY InterruptionItems
  <2>. HIDE DEF says
  <2>5. meant = c.meant \o Meanings(says)
    BY <2>3, <2>4
  <2>. HIDE DEF meant, bytes
  <2>. QED  BY <1>1, <2>1, <2>3, <2>4, <2>5, HandledWire DEF c, bytes
<1>4. CASE RloginSusp
  <2>. DEFINE c == [client EXCEPT !.local = FALSE, !.bol = TRUE]
              d == [c EXCEPT !.pc = "stuck"]
  <2>0. PICK busy \in Busy : client' = HandlersMode(c, busy)
    BY <1>4 DEF RloginSusp
  <2>1. Keeps(client, c) /\ Form(c)
    BY <1>2, Lengths DEF Keeps, Grows, Form, Fields
  <2>2. Silent(client, c)
    BY <1>2 DEF Silent, Fields
  <2>. HIDE DEF c
  <2>3. client' = d \/ client' = NewMode(c)
    BY <2>0 DEF HandlersMode
  <2>4. Silent(client, NewMode(c)) /\ NewMode(c).pc = client.pc
    BY <2>1, <2>2, NewModeKeeps, NewModeSilent, SilentThen DEF Keeps, Form
  <2>5. Silent(client, d) /\ d.pc = "stuck"
    <3>1. Silent(c, d) /\ d.pc = "stuck"
      BY <2>1 DEF Silent, Form, Fields
    <3>. HIDE DEF d
    <3>. QED  BY <2>2, <3>1, SilentThen
  <2>. HIDE DEF d
  <2>. QED  BY <1>1, <2>3, <2>4, <2>5, SilentWire DEF WireInv, Silent
<1>5. CASE Winch
  <2>. DEFINE meant == Append(client.meant, Naws)
              items == <<Naws>>
  <2>1. client' = Add([client EXCEPT !.meant = meant], Naws)
    BY <1>5 DEF Winch
  <2>2. Naws \in Item /\ Naws \in Seq(Symbol) /\ Naws # <<"IAC", "IAC">>
    <3>1. Len(Naws) = 5 /\ Len(<<"IAC", "IAC">>) = 2
      BY DEF Naws
    <3>2. Naws \in Item
      BY DEF Item
    <3>. QED  BY <3>1, <3>2, ItemType
  <2>3. items \in Seq(Item) /\ Meanings(items) = items
    <3>1. items \in Seq(Item \ {<<"IAC", "IAC">>})
      BY <2>2, ShortType
    <3>. QED  BY <3>1, PlainMeanings
  <2>4. Naws = FlattenSeq(items)
    BY <2>2, FlattenOne
  <2>5. meant = client.meant \o items
    <3>1. \E items1 \in Seq(Item) : client.meant = Meanings(items1)
      BY DEF WireInv, Wire, Told
    <3>2. \E M : client.meant \in Seq(M)
      <4>. DEFINE M == {Meaning(x) : x \in Item}
      <4>1. \A x \in Item : Meaning(x) \in M
        OBVIOUS
      <4>. HIDE DEF M
      <4>2. \A s \in Seq(Item) : Meanings(s) \in Seq(M)
        BY <4>1 DEF Meanings
      <4>. QED  BY <3>1, <4>2
    <3>3. ASSUME NEW M, NEW s \in Seq(M), NEW x  PROVE Append(s, x) = s \o <<x>>
      <4>. DEFINE S == M \cup {x}
      <4>1. s \in Seq(S) /\ x \in S
        OBVIOUS
      <4>. HIDE DEF S
      <4>2. <<x>> \in Seq(S) /\ Len(<<x>>) = 1 /\ <<x>>[1] = x
        BY <4>1
      <4>3. Append(s, x) \in Seq(S) /\ s \o <<x>> \in Seq(S)
        BY <4>1, <4>2
      <4>. QED  BY <4>1, <4>2, <4>3, SeqEqual
    <3>. QED  BY <3>2, <3>3
  <2>. HIDE DEF meant, items
  <2>. QED  BY <1>1, <1>2, <2>1, <2>3, <2>4, <2>5, HandledWire
<1>. QED  BY <1>3, <1>4, <1>5 DEF Intr, Susp

LEMMA WireInductive ==
    ASSUME ~SignalAnywhere
    PROVE  Init /\ [][Next]_vars => []WireInv
<1>1. ASSUME IndInv, WireInv, [Next]_vars  PROVE WireInv'
  BY <1>1, OthersWire, ProcessRingsWire, TelsndWire, TelrcvWire, WriteOutWire, HandlersWire DEF Next
<1>. QED  BY WireInit, Inductive, <1>1, PTL

LEMMA WireImplies == WireInv => WireMeans
<1>. SUFFICES ASSUME WireInv, client.writing = << >>
              PROVE  Heard(sent \o client.netoring) = client.meant
  BY DEF WireMeans
<1>1. PICK items \in Seq(Item) :
        FlattenSeq(items) = sent \o (client.netoring \o << >>) /\ Meanings(items) = client.meant
  BY DEF WireInv, Wire, Told
<1>2. client.netoring \o << >> = client.netoring
  BY DEF WireInv, Wire
<1>. QED  BY <1>1, <1>2, HeardItems

(***************************************************************************)
(* What the server hears is what was meant for it, in order: every key     *)
(* that the user types, every command and every answer, as long as the     *)
(* handlers run between the messages of the program.                       *)
(***************************************************************************)
THEOREM ClientIOWireMeans == ~SignalAnywhere => (Spec => []WireMeans)
<1>. SUFFICES ASSUME ~SignalAnywhere  PROVE Spec => []WireMeans
  OBVIOUS
<1>. QED  BY WireInductive, WireImplies, PTL DEF Spec

-----------------------------------------------------------------------------
(* OnlyBeforeSynch.                                                        *)

-----------------------------------------------------------------------------
(* The octets that are unread, and the parser's way through them.          *)

PhaseOf(state) ==
    IF state = "cr" THEN "data" ELSE IF state \in {"WILL", "DO", "DONT"} THEN "option" ELSE state

Synch == <<"IAC", "DM">>

\* o is octet number n.  The parser that takes it in phase p is then in phase
\* q.  If it takes it for a DM, it stands no later than the last Synch's, and
\* the last Synch's is taken for one.
ReadAs(o, p, q, n, mark) ==
    /\ o.n = n /\ q = After(p, o.code)
    /\ p \in {"iac", "se"} /\ o.code = "DM" => n <= mark
    /\ mark = n => p = "iac" /\ o.code = "DM"

\* The octets of s are numbered from base on; the parser, in phase p before
\* them, has a whole command behind it at their end.
Unread(p, s, base, mark) ==
    \E at \in [0 .. Len(s) -> Phase] :
        /\ at[0] = p /\ at[Len(s)] = "data"
        /\ \A i \in 1 .. Len(s) : ReadAs(s[i], at[i - 1], at[i], base + i, mark)

\* One octet is taken.
LEMMA UnreadTaken ==
    ASSUME NEW o \in Octet, NEW s \in Seq(Octet), NEW p, NEW base \in Nat, NEW mark,
           Unread(p, <<o>> \o s, base, mark)
    PROVE  \E q : ReadAs(o, p, q, base + 1, mark) /\ Unread(q, s, base + 1, mark)
<1>. DEFINE all == <<o>> \o s
            n == Len(s)
<1>1. /\ n \in Nat /\ Len(all) = n + 1
      /\ \A i \in 1 .. n + 1 : all[i] = IF i = 1 THEN o ELSE s[i - 1]
  BY InFront
<1>. HIDE DEF all
<1>2. PICK at \in [0 .. n + 1 -> Phase] :
        /\ at[0] = p /\ at[n + 1] = "data"
        /\ \A i \in 1 .. n + 1 : ReadAs(all[i], at[i - 1], at[i], base + i, mark)
  BY <1>1 DEF Unread, all
<1>. HIDE DEF n
<1>. DEFINE rest == [i \in 0 .. n |-> at[i + 1]]
<1>3. rest \in [0 .. n -> Phase] /\ rest[0] = at[1] /\ rest[n] = "data"
  BY <1>1, <1>2
<1>4. ASSUME NEW i \in 1 .. n
      PROVE  ReadAs(s[i], rest[i - 1], rest[i], (base + 1) + i, mark)
  <2>1. /\ i + 1 \in 1 .. n + 1 /\ all[i + 1] = s[i] /\ base + (i + 1) = (base + 1) + i
        /\ (i + 1) - 1 = i /\ rest[i] = at[i + 1] /\ rest[i - 1] = at[i]
    BY <1>1
  <2>2. ReadAs(all[i + 1], at[(i + 1) - 1], at[i + 1], base + (i + 1), mark)
    BY <1>2, <2>1
  <2>. HIDE DEF rest
  <2>. QED  BY <2>1, <2>2
<1>5. ReadAs(o, p, at[1], base + 1, mark)
  <2>1. ReadAs(all[1], at[0], at[1], base + 1, mark)
    <3>1. 1 \in 1 .. n + 1 /\ 1 - 1 = 0
      BY <1>1
    <3>2. ReadAs(all[1], at[1 - 1], at[1], base + 1, mark)
      BY <1>2, <3>1
    <3>. QED  BY <3>1, <3>2
  <2>. QED  BY <1>1, <1>2, <2>1
<1>6. Unread(at[1], s, base + 1, mark)
  <2>. HIDE DEF rest
  <2>. QED  BY <1>3, <1>4 DEF Unread, n
<1>. QED  BY <1>5, <1>6

LEMMA OctetsJoined == \A s, t, u \in Seq(Octet) : (s \o t) \o u = s \o (t \o u)
BY Associative

LEMMA JoinedAt ==
    ASSUME NEW S, NEW s \in Seq(S), NEW t \in Seq(S)
    PROVE  /\ s \o t \in Seq(S) /\ Len(s \o t) = Len(s) + Len(t)
           /\ \A i \in 1 .. Len(s) + Len(t) : (s \o t)[i] = IF i <= Len(s) THEN s[i] ELSE t[i - Len(s)]
OBVIOUS

\* A unit that the server writes behind octet number octets.
Written(unit, octets) == [i \in DOMAIN unit |-> [code |-> unit[i], n |-> octets + i]]

LEMMA Shifted == \A b, m, i \in Int : b + i = (b + m) + (i - m)
OBVIOUS

LEMMA UnreadMore ==
    ASSUME NEW s \in Seq(Octet), NEW p, NEW base \in Nat, NEW mark \in Nat, Unread(p, s, base, mark),
           NEW unit \in Seq(Code), Whole(unit), NEW octets \in Nat, octets = base + Len(s),
           mark <= octets, NEW t, t = Written(unit, octets)
    PROVE  /\ t \in Seq(Octet) /\ Len(t) = Len(unit)
           /\ Unread(p, s \o t, base, IF unit = Synch THEN octets + 2 ELSE mark)
<1>. DEFINE m == Len(s)
            k == Len(unit)
            u == s \o t
            last == IF unit = Synch THEN octets + 2 ELSE mark
<1>1. /\ m \in Nat /\ k \in Nat /\ DOMAIN unit = 1 .. k
      /\ \A i \in 1 .. k : t[i] = [code |-> unit[i], n |-> octets + i] /\ t[i] \in Octet
  BY DEF Octet, Written
<1>2. t \in Seq(Octet) /\ Len(t) = k
  <2>1. t = [i \in 1 .. k |-> t[i]]
    BY <1>1 DEF Written
  <2>2. k \in Nat /\ \A i \in 1 .. k : t[i] \in Octet
    BY <1>1
  <2>. HIDE DEF k
  <2>. QED  BY <2>1, <2>2, ListedSeq
<1>3. /\ u \in Seq(Octet) /\ Len(u) = m + k
      /\ \A i \in 1 .. m + k : u[i] = IF i <= m THEN s[i] ELSE t[i - m]
  <2>1. /\ s \o t \in Seq(Octet) /\ Len(s \o t) = Len(s) + Len(t)
        /\ \A i \in 1 .. Len(s) + Len(t) : (s \o t)[i] = IF i <= Len(s) THEN s[i] ELSE t[i - Len(s)]
    <3>1. t \in Seq(Octet)
      BY <1>2
    <3>. HIDE DEF m, k, u, last
    <3>. QED  BY <3>1, JoinedAt
  <2>. QED  BY <1>2, <2>1
<1>4. PICK at \in [0 .. m -> Phase] :
        /\ at[0] = p /\ at[m] = "data"
        /\ \A i \in 1 .. m : ReadAs(s[i], at[i - 1], at[i], base + i, mark)
  BY DEF Unread
<1>5. PICK to \in [0 .. k -> Phase] :
        /\ to[0] = "data" /\ to[k] = "data"
        /\ \A i \in 1 .. k :
              /\ to[i] = After(to[i - 1], unit[i])
              /\ to[i - 1] \in {"iac", "se"} /\ unit[i] = "DM" => unit = Synch
  BY <1>1 DEF Whole, Synch
<1>6. unit = Synch => k = 2 /\ unit[1] = "IAC" /\ unit[2] = "DM" /\ to[1] = "iac"
  <2>1. ASSUME unit = Synch  PROVE k = 2 /\ unit[1] = "IAC" /\ unit[2] = "DM"
    BY <2>1 DEF Synch
  <2>2. ASSUME unit = Synch  PROVE to[1] = "iac"
    <3>z. k = 2
      BY <2>1, <2>2, Zenon
    <3>0. 1 \in 1 .. k /\ 1 - 1 = 0
      BY <3>z
    <3>a. \A i \in 1 .. k : to[i] = After(to[i - 1], unit[i])
      BY <1>5
    <3>1. to[1] = After(to[1 - 1], unit[1]) /\ 1 - 1 = 0
      BY <3>0, <3>a
    <3>. QED  BY <1>5, <2>1, <2>2, <3>1 DEF After
  <2>. QED  BY <2>1, <2>2
<1>7. last \in Nat /\ mark <= last /\ (unit # Synch => last = mark) /\ (unit = Synch => last = octets + 2)
  OBVIOUS
<1>. HIDE DEF m, k, u, last
<1>. DEFINE both == [i \in 0 .. m + k |-> IF i <= m THEN at[i] ELSE to[i - m]]
<1>8. /\ both \in [0 .. m + k -> Phase] /\ both[0] = p /\ both[m + k] = "data"
      /\ \A i \in 0 .. m : both[i] = at[i]
      /\ \A i \in 0 .. k : both[m + i] = to[i]
  <2>1. ASSUME NEW i \in 0 .. m + k  PROVE both[i] \in Phase
    <3>1. CASE i <= m
      BY <1>1, <1>4, <3>1
    <3>2. CASE ~ (i <= m)
      <4>1. i - m \in 0 .. k
        BY <1>1, <3>2
      <4>. QED  BY <1>5, <3>2, <4>1
    <3>. QED  BY <3>1, <3>2
  <2>2. ASSUME NEW i \in 0 .. m  PROVE both[i] = at[i]
    BY <1>1
  <2>3. ASSUME NEW i \in 0 .. k  PROVE both[m + i] = to[i]
    <3>1. CASE i = 0
      BY <1>1, <1>4, <1>5, <3>1
    <3>2. CASE i # 0
      BY <1>1, <3>2
    <3>. QED  BY <3>1, <3>2
  <2>4. 0 \in 0 .. m /\ k \in 0 .. k
    BY <1>1
  <2>5. both[0] = p /\ both[m + k] = "data"
    BY <1>4, <1>5, <2>2, <2>3, <2>4
  <2>6. both \in [0 .. m + k -> Phase]
    BY <2>1
  <2>. HIDE DEF both
  <2>. QED  BY <2>2, <2>3, <2>5, <2>6
<1>. HIDE DEF both
<1>9. ASSUME NEW i \in 1 .. m + k
      PROVE  ReadAs(u[i], both[i - 1], both[i], base + i, last)
  <2>1. CASE i <= m
    <3>1. i \in 1 .. m /\ i \in 0 .. m /\ i - 1 \in 0 .. m /\ u[i] = s[i] /\ base + i <= octets
      BY <1>1, <1>3, <2>1 DEF m
    <3>2. ReadAs(s[i], both[i - 1], both[i], base + i, mark)
      BY <1>4, <1>8, <3>1
    <3>3. last = base + i => mark = base + i
      BY <1>1, <1>7, <3>1
    <3>. QED  BY <1>1, <1>7, <3>1, <3>2, <3>3 DEF ReadAs
  <2>2. CASE ~ (i <= m)
    <3>. DEFINE j == i - m
    <3>a. u[i] = t[j]
      BY <1>3, <2>2
    <3>b. octets = base + m
      BY DEF m
    <3>c. j \in 1 .. k /\ j \in 0 .. k /\ j - 1 \in 0 .. k /\ i = m + j /\ i - 1 = m + (j - 1)
      BY <1>1, <2>2
    <3>d. base + i = octets + j
      <4>1. m \in Int /\ i \in Int /\ base \in Int
        BY <1>1
      <4>2. j = i - m
        OBVIOUS
      <4>. HIDE DEF m, k, u, last, j
      <4>3. base + i = (base + m) + (i - m)
        BY <4>1, Shifted, Zenon
      <4>. QED  BY <3>b, <4>2, <4>3, Zenon
    <3>1. /\ j \in 1 .. k /\ j \in 0 .. k /\ j - 1 \in 0 .. k /\ i = m + j /\ i - 1 = m + (j - 1)
          /\ u[i] = t[j] /\ base + i = octets + j
      BY <3>a, <3>c, <3>d
    <3>2. both[i] = to[j] /\ both[i - 1] = to[j - 1]
      BY <1>8, <3>1
    <3>. HIDE DEF j
    <3>0. t[j] = [code |-> unit[j], n |-> octets + j]
      BY <1>1, <3>1
    <3>3. u[i].n = base + i /\ u[i].code = unit[j]
      BY <3>0, <3>1
    <3>4. to[j] = After(to[j - 1], unit[j])
          /\ (to[j - 1] \in {"iac", "se"} /\ unit[j] = "DM" => unit = Synch)
      BY <1>5, <3>1
    <3>5. unit = Synch => octets + j <= last
      BY <1>6, <1>7, <3>1
    <3>6. last = octets + j => unit = Synch /\ j = 2
      BY <1>7, <3>1
    <3>7. last = octets + j => to[j - 1] = "iac" /\ unit[j] = "DM"
      <4>1. 2 - 1 = 1
        OBVIOUS
      <4>. QED  BY <1>6, <3>6, <4>1
    <3>. QED  BY <3>1, <3>2, <3>3, <3>4, <3>5, <3>7 DEF ReadAs
  <2>. QED  BY <2>1, <2>2
<1>10. Unread(p, u, base, last)
  BY <1>3, <1>8, <1>9 DEF Unread
<1>. QED  BY <1>2, <1>10 DEF k, u, last

-----------------------------------------------------------------------------
(* The octets behind a number.                                             *)

\* f of each element.
Mapped(f, s) == [i \in DOMAIN s |-> f[s[i]]]

\* a is that, element by element.
Maps(a, f, s, T) ==
    /\ a \in Seq(T) /\ Len(a) = Len(s)
    /\ \A i \in 1 .. Len(s) : a[i] = f[s[i]]

LEMMA MappedType ==
    ASSUME NEW S, NEW T, NEW f \in [S -> T], NEW s \in Seq(S)
    PROVE  Maps(Mapped(f, s), f, s, T)
<1>. DEFINE n == Len(s)
            a == Mapped(f, s)
<1>1. n \in Nat /\ DOMAIN s = 1 .. n /\ \A i \in 1 .. n : s[i] \in S
  OBVIOUS
<1>. HIDE DEF n
<1>2. a = [i \in 1 .. n |-> a[i]] /\ \A i \in 1 .. n : a[i] = f[s[i]] /\ a[i] \in T
  BY <1>1 DEF Mapped
<1>. HIDE DEF a
<1>3. a \in Seq(T) /\ Len(a) = n
  BY <1>1, <1>2, ListedSeq
<1>. QED  BY <1>2, <1>3 DEF Maps, a, n

LEMMA FlattenMapped ==
    ASSUME NEW S, NEW E, NEW f \in [S -> Seq(E)], NEW s \in Seq(S), NEW c \in S
    PROVE  /\ FlattenSeq(Mapped(f, s)) \in Seq(E)
           /\ FlattenSeq(Mapped(f, Append(s, c))) = FlattenSeq(Mapped(f, s)) \o f[c]
<1>. DEFINE T == Seq(E)
            n == Len(s)
            r == Append(s, c)
            a == Mapped(f, s)
            b == Mapped(f, r)
            e == f[c]
            d == <<e>>
<1>0. f \in [S -> T]
  OBVIOUS
<1>. HIDE DEF T
<1>1. /\ n \in Nat /\ DOMAIN s = 1 .. n /\ r \in Seq(S) /\ Len(r) = n + 1 /\ DOMAIN r = 1 .. n + 1
      /\ \A i \in 1 .. n : r[i] = s[i] /\ s[i] \in S
      /\ r[n + 1] = c
  OBVIOUS
<1>. HIDE DEF r, n
<1>2. a = [i \in 1 .. n |-> a[i]] /\ \A i \in 1 .. n : a[i] = f[s[i]] /\ a[i] \in T
  BY <1>0, <1>1 DEF Mapped
<1>3. \A i \in 1 .. n + 1 : b[i] = f[r[i]] /\ b[i] \in T
  <2>1. \A i \in 1 .. n + 1 : r[i] \in S
    BY <1>1
  <2>. QED  BY <1>0, <1>1, <2>1 DEF Mapped
<1>4. b = [i \in 1 .. n + 1 |-> b[i]]
  BY <1>1 DEF Mapped
<1>. HIDE DEF a, b
<1>5. a \in Seq(T) /\ Len(a) = n
  BY <1>1, <1>2, ListedSeq
<1>6. b \in Seq(T) /\ Len(b) = n + 1
  <2>. DEFINE m == n + 1
  <2>1. m \in Nat /\ b = [i \in 1 .. m |-> b[i]] /\ \A i \in 1 .. m : b[i] \in T
    BY <1>1, <1>3, <1>4
  <2>. HIDE DEF m
  <2>2. b \in Seq(T) /\ Len(b) = m
    BY <2>1, ListedSeq
  <2>. QED  BY <2>2 DEF m
<1>7. d \in Seq(T) /\ Len(d) = 1 /\ d[1] = f[c]
  <2>1. f[c] \in T
    BY <1>0
  <2>. QED  BY <2>1
<1>8. b[n + 1] = f[c] /\ \A i \in 1 .. n : b[i] = a[i]
  <2>1. n + 1 \in 1 .. n + 1 /\ \A i \in 1 .. n : i \in 1 .. n + 1
    BY <1>1
  <2>2. b[n + 1] = f[r[n + 1]] /\ \A i \in 1 .. n : b[i] = f[r[i]]
    BY <1>3, <2>1
  <2>. QED  BY <1>1, <1>2, <2>2
<1>. HIDE DEF d
<1>9. /\ a \o d \in Seq(T) /\ Len(a \o d) = n + 1
      /\ \A i \in 1 .. n : (a \o d)[i] = a[i]
      /\ (a \o d)[n + 1] = d[1]
  <2>1. /\ a \o d \in Seq(T) /\ Len(a \o d) = Len(a) + Len(d)
        /\ \A i \in 1 .. Len(a) + Len(d) : (a \o d)[i] = IF i <= Len(a) THEN a[i] ELSE d[i - Len(a)]
    BY <1>5, <1>7, JoinedAt
  <2>2. n + 1 - n = 1
    BY <1>1
  <2>. QED  BY <1>1, <1>5, <1>7, <2>1, <2>2
<1>10. b = a \o d
  <2>. DEFINE y == a \o d
  <2>1. /\ y \in Seq(T) /\ Len(y) = n + 1 /\ (\A i \in 1 .. n : y[i] = b[i]) /\ y[n + 1] = b[n + 1]
    BY <1>7, <1>8, <1>9
  <2>. HIDE DEF y
  <2>2. \A i \in 1 .. n + 1 : y[i] = b[i]
    BY <1>1, <2>1
  <2>3. b = y
    BY <1>1, <1>6, <2>1, <2>2
  <2>. QED  BY <2>3 DEF y
<1>. HIDE DEF e
<1>11. FlattenSeq(a \o <<e>>) = FlattenSeq(a) \o e /\ FlattenSeq(a) \in Seq(E)
  <2>1. e \in Seq(E) /\ a \in Seq(Seq(E))
    BY <1>0, <1>5 DEF e, T
  <2>. QED  BY <2>1, FlattenConcat, FlattenType
<1>. QED  BY <1>10, <1>11 DEF a, b, d, e, r

\* Pieces that are all empty.
LEMMA FlattenNothing ==
    ASSUME NEW E, NEW ss \in Seq(Seq(E)), \A i \in 1 .. Len(ss) : ss[i] = << >>
    PROVE  FlattenSeq(ss) = << >>
<1>. DEFINE n == Len(ss)
<1>1. PICK r : FlattenSteps(r, ss, E)
  BY FlattenRun
<1>. DEFINE T == {i \in 0 .. n : r[i] = << >>}
<1>2. n \in Nat
  OBVIOUS
<1>3. 0 \in T /\ \A i \in 1 .. n : i - 1 \in T => i \in T
  <2>1. << >> \o << >> = << >>
    OBVIOUS
  <2>2. 0 \in T
    BY <1>1, <1>2 DEF FlattenSteps
  <2>3. ASSUME NEW i \in 1 .. n, r[i - 1] = << >> PROVE r[i] = << >>
    BY <1>1, <1>2, <2>1, <2>3 DEF FlattenSteps
  <2>. QED  BY <1>2, <2>2, <2>3
<1>4. 0 .. n \subseteq T
  <2>. HIDE DEF T
  <2>. QED  BY <1>2, <1>3, UpTo
<1>. QED  BY <1>1, <1>2, <1>4 DEF FlattenSteps

Later(n) == [o \in Octet |-> IF o.n > n THEN <<o>> ELSE << >>]

LEMMA BeyondMapped ==
    ASSUME NEW n \in Nat
    PROVE  /\ Later(n) \in [Octet -> Seq(Octet)]
           /\ \A s \in Seq(Octet) : Beyond(s, n) = FlattenSeq(Mapped(Later(n), s))
<1>1. \A o \in Octet : <<o>> \in Seq(Octet)
  OBVIOUS
<1>2. << >> \in Seq(Octet)
  OBVIOUS
<1>3. ASSUME NEW s \in Seq(Octet) PROVE Beyond(s, n) = FlattenSeq(Mapped(Later(n), s))
  <2>1. \A i \in DOMAIN s : s[i] \in Octet
    OBVIOUS
  <2>2. Mapped(Later(n), s) = [i \in DOMAIN s |-> IF s[i].n > n THEN <<s[i]>> ELSE << >>]
    BY <2>1 DEF Mapped, Later
  <2>. QED  BY <2>2 DEF Beyond
<1>. QED  BY <1>1, <1>2, <1>3 DEF Later

LEMMA BeyondAppend ==
    ASSUME NEW n \in Nat, NEW s \in Seq(Octet), NEW o \in Octet
    PROVE  /\ Beyond(s, n) \in Seq(Octet)
           /\ o.n > n => Beyond(s \o <<o>>, n) = Beyond(s, n) \o <<o>>
<1>. DEFINE f == Later(n)
            r == Append(s, o)
<1>0. r \in Seq(Octet)
  OBVIOUS
<1>1. /\ f \in [Octet -> Seq(Octet)]
      /\ Beyond(s, n) = FlattenSeq(Mapped(f, s)) /\ Beyond(r, n) = FlattenSeq(Mapped(f, r))
  <2>. HIDE DEF r
  <2>. QED  BY <1>0, BeyondMapped, Zenon
<1>2. o.n > n => f[o] = <<o>>
  BY DEF Later
<1>. HIDE DEF f
<1>3. FlattenSeq(Mapped(f, s)) \in Seq(Octet) /\ FlattenSeq(Mapped(f, r)) = FlattenSeq(Mapped(f, s)) \o f[o]
  <2>. DEFINE O == Octet
              a == Mapped(f, s)
              b == Mapped(f, Append(s, o))
  <2>1. f \in [O -> Seq(O)] /\ s \in Seq(O) /\ o \in O
    BY <1>1
  <2>. HIDE DEF O
  <2>2. FlattenSeq(a) \in Seq(O) /\ FlattenSeq(b) = FlattenSeq(a) \o f[o]
    BY <2>1, FlattenMapped, SMTT(40)
  <2>. QED  BY <2>2 DEF O
<1>4. r = s \o <<o>>
  OBVIOUS
<1>. HIDE DEF r
<1>. QED  BY <1>1, <1>2, <1>3, <1>4

LEMMA NoneBeyond ==
    ASSUME NEW n \in Nat, NEW s \in Seq(Octet), \A i \in 1 .. Len(s) : s[i].n <= n
    PROVE  Beyond(s, n) = << >>
<1>. DEFINE f == Later(n)
            ss == Mapped(f, s)
<1>1. f \in [Octet -> Seq(Octet)] /\ Beyond(s, n) = FlattenSeq(ss)
  BY BeyondMapped
<1>2. ASSUME NEW i \in 1 .. Len(s) PROVE f[s[i]] = << >>
  <2>1. s[i] \in Octet /\ s[i].n <= n
    OBVIOUS
  <2>2. \A o \in Octet : o.n \in Nat
    BY DEF Octet
  <2>. DEFINE o == s[i]
  <2>3. o \in Octet /\ ~ (o.n > n)
    BY <2>1, <2>2
  <2>. HIDE DEF o
  <2>4. f[o] = << >>
    BY <2>3 DEF Later
  <2>. QED  BY <2>4 DEF o
<1>. HIDE DEF f
<1>3. ss \in Seq(Seq(Octet)) /\ Len(ss) = Len(s) /\ \A i \in 1 .. Len(s) : ss[i] = f[s[i]]
  <2>. DEFINE T == Seq(Octet)
  <2>1. f \in [Octet -> T]
    BY <1>1
  <2>. HIDE DEF T
  <2>2. Maps(Mapped(f, s), f, s, T)
    BY <2>1, MappedType, Zenon
  <2>. QED  BY <2>2 DEF T, Maps
<1>. HIDE DEF ss
<1>4. \A i \in 1 .. Len(ss) : ss[i] = << >>
  BY <1>2, <1>3
<1>. QED  BY <1>1, <1>3, <1>4, FlattenNothing

-----------------------------------------------------------------------------
(* Carriage returns before a line feed.                                    *)

\* t is s without the carriage return at place n + 1, before the line feed.
Apart(s, t, n) ==
    /\ s \in Seq(Octet) /\ t \in Seq(Octet) /\ n \in Nat
    /\ Len(s) = Len(t) + 1 /\ n + 1 <= Len(t)
    /\ s[n + 1].code = "CR" /\ t[n + 1].code = "LF"
    /\ \A i \in 1 .. n : s[i] = t[i]
    /\ \A i \in n + 1 .. Len(t) : s[i + 1] = t[i]

LEMMA IdleBefore ==
    ASSUME NEW s, NEW t, NEW n, Apart(s, t, n), NEW i \in 1 .. n
    PROVE  Idle(s, i) <=> Idle(t, i)
<1>. DEFINE m == Len(t)
<1>0. /\ n \in Nat /\ m \in Nat /\ Len(s) = m + 1 /\ n + 1 <= m
      /\ s[n + 1].code = "CR" /\ t[n + 1].code = "LF"
      /\ \A k \in 1 .. n : s[k].code = t[k].code
      /\ \A k \in n + 1 .. m : s[k + 1].code = t[k].code
  BY DEF Apart
<1>. HIDE DEF m
<1>1. ASSUME Idle(s, i) PROVE Idle(t, i)
  <2>1. PICK j \in i + 1 .. m + 1 : s[j].code = "LF" /\ \A k \in i .. j - 1 : s[k].code = "CR"
    BY <1>0, <1>1 DEF Idle
  <2>2. CASE j <= n
    <3>1. j \in i + 1 .. m /\ j \in 1 .. n /\ \A k \in i .. j - 1 : k \in 1 .. n
      BY <1>0, <2>2
    <3>2. t[j].code = "LF" /\ \A k \in i .. j - 1 : t[k].code = "CR"
      BY <1>0, <2>1, <3>1
    <3>. QED  BY <1>0, <3>1, <3>2 DEF Idle, m
  <2>3. CASE j > n
    <3>1. n + 1 \in i + 1 .. m /\ \A k \in i .. (n + 1) - 1 : k \in 1 .. n /\ k \in i .. j - 1
      BY <1>0, <2>3
    <3>2. \A k \in i .. (n + 1) - 1 : t[k].code = "CR"
      BY <1>0, <2>1, <3>1
    <3>. QED  BY <1>0, <3>1, <3>2 DEF Idle, m
  <2>. QED  BY <1>0, <2>2, <2>3
<1>2. ASSUME Idle(t, i) PROVE Idle(s, i)
  <2>1. PICK j \in i + 1 .. m : t[j].code = "LF" /\ \A k \in i .. j - 1 : t[k].code = "CR"
    BY <1>0, <1>2 DEF Idle, m
  <2>2. CASE j <= n
    <3>1. j \in i + 1 .. m + 1 /\ j \in 1 .. n /\ \A k \in i .. j - 1 : k \in 1 .. n
      BY <1>0, <2>2
    <3>2. s[j].code = "LF" /\ \A k \in i .. j - 1 : s[k].code = "CR"
      BY <1>0, <2>1, <3>1
    <3>. QED  BY <1>0, <3>1, <3>2 DEF Idle
  <2>3. CASE j > n
    <3>1. j = n + 1
      <4>1. n + 1 \in i .. j - 1 => t[n + 1].code = "CR"
        BY <2>1
      <4>2. ~ (n + 1 \in i .. j - 1)
        BY <1>0, <4>1
      <4>. QED  BY <1>0, <2>3, <4>2
    <3>2. n + 2 \in i + 1 .. m + 1 /\ n + 1 \in n + 1 .. m /\ (n + 1) + 1 = n + 2
      BY <1>0
    <3>3. s[n + 2].code = "LF"
      BY <1>0, <3>2
    <3>4. ASSUME NEW k \in i .. (n + 2) - 1 PROVE s[k].code = "CR"
      <4>1. CASE k = n + 1
        BY <1>0, <4>1
      <4>2. CASE k # n + 1
        <5>1. k \in 1 .. n /\ k \in i .. j - 1
          BY <1>0, <3>1, <4>2
        <5>. QED  BY <1>0, <2>1, <5>1
      <4>. QED  BY <4>1, <4>2
    <3>. QED  BY <1>0, <3>2, <3>3, <3>4 DEF Idle
  <2>. QED  BY <1>0, <2>2, <2>3
<1>. QED  BY <1>1, <1>2

LEMMA IdleThere ==
    ASSUME NEW s, NEW t, NEW n, Apart(s, t, n)
    PROVE  Idle(s, n + 1)
<1>1. /\ n + 2 \in (n + 1) + 1 .. Len(s) /\ n + 1 \in n + 1 .. Len(t) /\ (n + 1) + 1 = n + 2
      /\ \A k \in n + 1 .. (n + 2) - 1 : k = n + 1
  BY DEF Apart
<1>2. s[n + 2].code = "LF" /\ s[n + 1].code = "CR"
  BY <1>1 DEF Apart
<1>. QED  BY <1>1, <1>2 DEF Idle

LEMMA IdleBehind ==
    ASSUME NEW s, NEW t, NEW n, Apart(s, t, n), NEW i \in n + 1 .. Len(t)
    PROVE  Idle(s, i + 1) <=> Idle(t, i)
<1>. DEFINE m == Len(t)
<1>0. /\ n \in Nat /\ m \in Nat /\ Len(s) = m + 1 /\ n + 1 <= m
      /\ \A k \in n + 1 .. m : s[k + 1].code = t[k].code
  BY DEF Apart
<1>. HIDE DEF m
<1>1. ASSUME Idle(s, i + 1) PROVE Idle(t, i)
  <2>1. PICK j \in (i + 1) + 1 .. m + 1 :
           s[j].code = "LF" /\ \A k \in i + 1 .. j - 1 : s[k].code = "CR"
    BY <1>0, <1>1 DEF Idle
  <2>2. j - 1 \in i + 1 .. m /\ j - 1 \in n + 1 .. m /\ (j - 1) + 1 = j
    BY <1>0
  <2>3. t[j - 1].code = "LF"
    BY <1>0, <2>1, <2>2
  <2>4. ASSUME NEW k \in i .. (j - 1) - 1 PROVE t[k].code = "CR"
    <3>1. k \in n + 1 .. m /\ k + 1 \in i + 1 .. j - 1
      BY <1>0
    <3>. QED  BY <1>0, <2>1, <3>1
  <2>. QED  BY <2>2, <2>3, <2>4 DEF Idle, m
<1>2. ASSUME Idle(t, i) PROVE Idle(s, i + 1)
  <2>1. PICK j \in i + 1 .. m : t[j].code = "LF" /\ \A k \in i .. j - 1 : t[k].code = "CR"
    BY <1>0, <1>2 DEF Idle, m
  <2>2. j + 1 \in (i + 1) + 1 .. m + 1 /\ j \in n + 1 .. m
    BY <1>0
  <2>3. s[j + 1].code = "LF"
    BY <1>0, <2>1, <2>2
  <2>4. ASSUME NEW k \in i + 1 .. (j + 1) - 1 PROVE s[k].code = "CR"
    <3>1. k - 1 \in n + 1 .. m /\ k - 1 \in i .. j - 1 /\ (k - 1) + 1 = k
      BY <1>0
    <3>. QED  BY <1>0, <2>1, <3>1
  <2>. QED  BY <1>0, <2>2, <2>3, <2>4 DEF Idle
<1>. QED  BY <1>1, <1>2

\* The pieces that WithoutReturns joins.
Pieces(s) == [i \in DOMAIN s |-> IF Idle(s, i) THEN << >> ELSE <<s[i]>>]

LEMMA PiecesAre ==
    ASSUME NEW s \in Seq(Octet)
    PROVE  /\ Pieces(s) \in Seq(Seq(Octet)) /\ Len(Pieces(s)) = Len(s)
           /\ \A i \in 1 .. Len(s) : Pieces(s)[i] = IF Idle(s, i) THEN << >> ELSE <<s[i]>>
           /\ WithoutReturns(s) = FlattenSeq(Pieces(s))
<1>. DEFINE T == Seq(Octet)
            n == Len(s)
            g == Pieces(s)
<1>1. n \in Nat /\ DOMAIN s = 1 .. n /\ \A i \in 1 .. n : s[i] \in Octet
  OBVIOUS
<1>2. \A i \in 1 .. n : <<s[i]>> \in T
  BY <1>1
<1>3. << >> \in T
  OBVIOUS
<1>. HIDE DEF T, n
<1>4. g = [i \in 1 .. n |-> g[i]] /\ \A i \in 1 .. n : g[i] = IF Idle(s, i) THEN << >> ELSE <<s[i]>>
  BY <1>1 DEF Pieces
<1>. HIDE DEF g
<1>5. \A i \in 1 .. n : g[i] \in T
  BY <1>2, <1>3, <1>4
<1>6. g \in Seq(T) /\ Len(g) = n
  BY <1>1, <1>4, <1>5, ListedSeq
<1>. QED  BY <1>4, <1>6 DEF T, n, g, WithoutReturns, Pieces

LEMMA ReturnsMakeNone ==
    ASSUME NEW s, NEW t, NEW n, Apart(s, t, n)
    PROVE  WithoutReturns(s) = WithoutReturns(t)
<1>. DEFINE T == Seq(Octet)
            p == Pieces(s)
            q == Pieces(t)
            m == Len(t)
            a == SubSeq(q, 1, n)
            b == SubSeq(q, n + 1, m)
            e == <<<< >>>>
<1>1. /\ p \in Seq(T) /\ Len(p) = m + 1 /\ q \in Seq(T) /\ Len(q) = m
      /\ n \in Nat /\ m \in Nat /\ n + 1 <= m
      /\ WithoutReturns(s) = FlattenSeq(p) /\ WithoutReturns(t) = FlattenSeq(q)
      /\ \A i \in 1 .. m + 1 : p[i] = IF Idle(s, i) THEN << >> ELSE <<s[i]>>
      /\ \A i \in 1 .. m : q[i] = IF Idle(t, i) THEN << >> ELSE <<t[i]>>
  <2>. DEFINE l == Len(s)
  <2>1. s \in T /\ t \in T /\ n \in Nat /\ m \in Nat /\ n + 1 <= m /\ l = m + 1
    BY DEF Apart
  <2>. HIDE DEF m, l
  <2>2. /\ p \in Seq(T) /\ Len(p) = l /\ WithoutReturns(s) = FlattenSeq(p)
        /\ \A i \in 1 .. l : p[i] = IF Idle(s, i) THEN << >> ELSE <<s[i]>>
    BY <2>1, PiecesAre DEF l
  <2>3. /\ q \in Seq(T) /\ Len(q) = m /\ WithoutReturns(t) = FlattenSeq(q)
        /\ \A i \in 1 .. m : q[i] = IF Idle(t, i) THEN << >> ELSE <<t[i]>>
    BY <2>1, PiecesAre DEF m
  <2>. HIDE DEF p, q, T
  <2>. QED  BY <2>1, <2>2, <2>3
<1>. HIDE DEF p, q, m
<1>2. \A i \in 1 .. n : p[i] = q[i]
  <2>. SUFFICES ASSUME NEW i \in 1 .. n PROVE p[i] = q[i]
    OBVIOUS
  <2>1. i \in 1 .. m /\ i \in 1 .. m + 1
    BY <1>1
  <2>2. (Idle(s, i) <=> Idle(t, i)) /\ s[i] = t[i]
    BY IdleBefore DEF Apart
  <2>. QED  BY <1>1, <2>1, <2>2
<1>3. p[n + 1] = << >>
  <2>1. n + 1 \in 1 .. m + 1
    BY <1>1
  <2>. QED  BY <1>1, <2>1, IdleThere
<1>4. \A i \in n + 1 .. m : p[i + 1] = q[i]
  <2>. SUFFICES ASSUME NEW i \in n + 1 .. m PROVE p[i + 1] = q[i]
    OBVIOUS
  <2>1. i \in 1 .. m /\ i + 1 \in 1 .. m + 1 /\ i \in n + 1 .. Len(t)
    <3>1. n \in Nat /\ m \in Nat
      BY <1>1
    <3>2. i \in 1 .. m /\ i + 1 \in 1 .. m + 1
      BY <3>1
    <3>. QED  BY <3>2 DEF m
  <2>2. (Idle(s, i + 1) <=> Idle(t, i)) /\ s[i + 1] = t[i]
    BY <2>1, IdleBehind DEF Apart
  <2>. QED  BY <1>1, <2>1, <2>2
<1>5. << >> \in T
  OBVIOUS
<1>. HIDE DEF T
<1>6. /\ a \in Seq(T) /\ Len(a) = n /\ b \in Seq(T) /\ Len(b) = m - n
      /\ \A i \in 1 .. n : a[i] = q[i]
      /\ \A i \in 1 .. m - n : b[i] = q[n + i]
      /\ a \o b = q
  <2>1. n \in 0 .. Len(q)
    BY <1>1
  <2>2. /\ a \in Seq(T) /\ Len(a) = n /\ b \in Seq(T) /\ Len(b) = m - n /\ a \o b = q
    BY <1>1, <2>1, Rejoined
  <2>3. /\ \A i \in 1 .. n : a[i] = q[i]
        /\ \A i \in 1 .. m - n : b[i] = q[n + i]
    BY <1>1
  <2>. QED  BY <2>2, <2>3
<1>7. e \in Seq(T) /\ Len(e) = 1 /\ e[1] = << >>
  <2>. DEFINE x == << >>
  <2>. HIDE DEF x
  <2>. QED  BY <1>5 DEF x
<1>. HIDE DEF a, b, e
<1>8. /\ e \o b \in Seq(T) /\ Len(e \o b) = 1 + (m - n)
      /\ \A i \in 1 .. 1 + (m - n) : (e \o b)[i] = IF i <= 1 THEN e[i] ELSE b[i - 1]
  <2>1. /\ e \o b \in Seq(T) /\ Len(e \o b) = Len(e) + Len(b)
        /\ \A i \in 1 .. Len(e) + Len(b) : (e \o b)[i] = IF i <= Len(e) THEN e[i] ELSE b[i - Len(e)]
    BY <1>6, <1>7, JoinedAt
  <2>. QED  BY <1>6, <1>7, <2>1
<1>. DEFINE eb == e \o b
            r == a \o eb
<1>9. /\ r \in Seq(T) /\ Len(r) = m + 1
      /\ \A i \in 1 .. m + 1 : r[i] = IF i <= n THEN a[i] ELSE eb[i - n]
  <2>1. eb \in Seq(T) /\ Len(eb) = 1 + (m - n)
    BY <1>8
  <2>. HIDE DEF eb
  <2>2. /\ r \in Seq(T) /\ Len(r) = Len(a) + Len(eb)
        /\ \A i \in 1 .. Len(a) + Len(eb) : r[i] = IF i <= Len(a) THEN a[i] ELSE eb[i - Len(a)]
    BY <1>6, <2>1, JoinedAt
  <2>3. Len(a) + Len(eb) = m + 1
    BY <1>1, <1>6, <2>1
  <2>. QED  BY <1>6, <2>2, <2>3
<1>10. r = p
  <2>1. \A i \in 1 .. 1 + (m - n) : eb[i] = IF i <= 1 THEN << >> ELSE b[i - 1]
    <3>. SUFFICES ASSUME NEW i \in 1 .. 1 + (m - n) PROVE eb[i] = IF i <= 1 THEN << >> ELSE b[i - 1]
      OBVIOUS
    <3>1. i <= 1 => i = 1
      BY <1>1
    <3>. QED  BY <1>7, <1>8, <3>1
  <2>. HIDE DEF eb, r
  <2>2. ASSUME NEW i \in 1 .. m + 1 PROVE r[i] = p[i]
    <3>1. CASE i <= n
      BY <1>1, <1>2, <1>6, <1>9, <3>1
    <3>2. CASE i = n + 1
      <4>1. i - n = 1 /\ 1 \in 1 .. 1 + (m - n) /\ ~ (i <= n)
        BY <1>1, <3>2
      <4>2. eb[1] = << >>
        BY <2>1, <4>1
      <4>3. r[i] = eb[i - n]
        BY <1>9, <4>1
      <4>. QED  BY <1>3, <3>2, <4>1, <4>2, <4>3
    <3>3. CASE i > n + 1
      <4>. DEFINE j == i - n
                  k == j - 1
      <4>1. /\ j \in 1 .. 1 + (m - n) /\ ~ (j <= 1) /\ ~ (i <= n) /\ k \in 1 .. m - n
            /\ n + k \in n + 1 .. m /\ (n + k) + 1 = i
        BY <1>1, <3>3
      <4>2. r[i] = eb[j] /\ eb[j] = b[k]
        BY <1>9, <2>1, <4>1
      <4>. HIDE DEF j, k
      <4>3. b[k] = q[n + k] /\ p[(n + k) + 1] = q[n + k]
        BY <1>4, <1>6, <4>1
      <4>. QED  BY <4>1, <4>2, <4>3
    <3>. QED  BY <1>1, <3>1, <3>2, <3>3
  <2>. QED  BY <1>1, <1>9, <2>2, SeqEqual
<1>. HIDE DEF eb
<1>11. /\ FlattenSeq(p) = FlattenSeq(a) \o FlattenSeq(e \o b)
       /\ FlattenSeq(e \o b) = FlattenSeq(e) \o FlattenSeq(b)
       /\ FlattenSeq(q) = FlattenSeq(a) \o FlattenSeq(b)
       /\ FlattenSeq(e) = << >> /\ FlattenSeq(b) \in Seq(Octet)
  <2>1. /\ a \in Seq(Seq(Octet)) /\ b \in Seq(Seq(Octet)) /\ e \in Seq(Seq(Octet))
        /\ e \o b \in Seq(Seq(Octet)) /\ << >> \in Seq(Octet)
    BY <1>5, <1>6, <1>7, <1>8 DEF T
  <2>2. FlattenSeq(a \o eb) = FlattenSeq(a) \o FlattenSeq(eb)
    BY <2>1, FlattenJoin DEF eb
  <2>3. FlattenSeq(e \o b) = FlattenSeq(e) \o FlattenSeq(b)
    BY <2>1, FlattenJoin
  <2>4. FlattenSeq(a \o b) = FlattenSeq(a) \o FlattenSeq(b)
    BY <2>1, FlattenJoin
  <2>5. FlattenSeq(e) = << >>
    BY <2>1, FlattenOne DEF e
  <2>6. FlattenSeq(b) \in Seq(Octet)
    BY <2>1, FlattenType
  <2>. QED  BY <1>6, <1>10, <2>2, <2>3, <2>4, <2>5, <2>6 DEF eb
<1>12. << >> \o FlattenSeq(b) = FlattenSeq(b)
  <2>. DEFINE x == FlattenSeq(b)
  <2>1. x \in Seq(Octet)
    BY <1>11
  <2>. HIDE DEF x
  <2>2. << >> \o x = x
    BY <2>1
  <2>. QED  BY <2>2 DEF x
<1>. QED  BY <1>1, <1>11, <1>12

\* Whatever comes behind them, the lines of a and b are the same.
Alike(a, b) ==
    /\ a \in Seq(Octet) /\ b \in Seq(Octet)
    /\ \A x \in Seq(Octet) : WithoutReturns(a \o x) = WithoutReturns(b \o x)

LEMMA AlikeSame ==
    ASSUME NEW a \in Seq(Octet)
    PROVE  Alike(a, a)
BY DEF Alike

LEMMA AlikeMeans ==
    ASSUME NEW a, NEW b, Alike(a, b)
    PROVE  WithoutReturns(a) = WithoutReturns(b)
<1>1. a \o << >> = a /\ b \o << >> = b /\ << >> \in Seq(Octet)
  BY DEF Alike
<1>2. WithoutReturns(a \o << >>) = WithoutReturns(b \o << >>)
  BY <1>1 DEF Alike
<1>. QED  BY <1>1, <1>2

\* The same character is shown.
LEMMA AlikeMore ==
    ASSUME NEW a, NEW b, Alike(a, b), NEW y \in Seq(Octet)
    PROVE  Alike(a \o y, b \o y)
<1>1. a \in Seq(Octet) /\ b \in Seq(Octet)
  BY DEF Alike
<1>2. a \o y \in Seq(Octet) /\ b \o y \in Seq(Octet)
  BY <1>1, JoinedSeq
<1>3. ASSUME NEW x \in Seq(Octet)
      PROVE  WithoutReturns((a \o y) \o x) = WithoutReturns((b \o y) \o x)
  <2>1. (a \o y) \o x = a \o (y \o x) /\ (b \o y) \o x = b \o (y \o x) /\ y \o x \in Seq(Octet)
    BY <1>1, OctetsJoined, JoinedSeq
  <2>2. WithoutReturns(a \o (y \o x)) = WithoutReturns(b \o (y \o x))
    BY <2>1 DEF Alike
  <2>. QED  BY <2>1, <2>2
<1>. QED  BY <1>2, <1>3 DEF Alike

\* A carriage return is left out before its line feed.
LEMMA AlikeReturn ==
    ASSUME NEW a, NEW b, Alike(a, b), NEW c \in Octet, NEW l \in Octet, c.code = "CR", l.code = "LF"
    PROVE  Alike(a \o <<l>>, (b \o <<c>>) \o <<l>>)
<1>1. a \in Seq(Octet) /\ b \in Seq(Octet)
  BY DEF Alike
<1>2. <<c>> \in Seq(Octet) /\ <<l>> \in Seq(Octet) /\ Len(<<c>>) = 1 /\ Len(<<l>>) = 1
      /\ <<c>>[1] = c /\ <<l>>[1] = l
  OBVIOUS
<1>. DEFINE cs == <<c>>
            ls == <<l>>
<1>. HIDE DEF cs, ls
<1>3. /\ cs \in Seq(Octet) /\ ls \in Seq(Octet) /\ Len(cs) = 1 /\ Len(ls) = 1
      /\ cs[1].code = "CR" /\ ls[1].code = "LF"
  BY <1>2 DEF cs, ls
<1>4. a \o ls \in Seq(Octet) /\ (b \o cs) \o ls \in Seq(Octet)
  BY <1>1, <1>3, JoinedSeq
<1>5. ASSUME NEW x \in Seq(Octet)
      PROVE  WithoutReturns((a \o ls) \o x) = WithoutReturns(((b \o cs) \o ls) \o x)
  <2>. DEFINE u == ls \o x
              v == cs \o u
              s == b \o v
              t == b \o u
              n == Len(b)
  <2>1. /\ u \in Seq(Octet) /\ Len(u) = 1 + Len(x)
        /\ \A i \in 1 .. 1 + Len(x) : u[i] = IF i <= 1 THEN ls[i] ELSE x[i - 1]
    <3>1. /\ u \in Seq(Octet) /\ Len(u) = Len(ls) + Len(x)
          /\ \A i \in 1 .. Len(ls) + Len(x) : u[i] = IF i <= Len(ls) THEN ls[i] ELSE x[i - Len(ls)]
      BY <1>3, JoinedAt
    <3>. HIDE DEF u
    <3>. QED  BY <1>3, <3>1
  <2>. HIDE DEF u
  <2>2. /\ v \in Seq(Octet) /\ Len(v) = 1 + Len(u)
        /\ \A i \in 1 .. 1 + Len(u) : v[i] = IF i <= 1 THEN cs[i] ELSE u[i - 1]
    <3>1. /\ v \in Seq(Octet) /\ Len(v) = Len(cs) + Len(u)
          /\ \A i \in 1 .. Len(cs) + Len(u) : v[i] = IF i <= Len(cs) THEN cs[i] ELSE u[i - Len(cs)]
      <4>1. u \in Seq(Octet) /\ cs \in Seq(Octet)
        BY <1>3, <2>1
      <4>. QED  BY <4>1, JoinedAt
    <3>. HIDE DEF v
    <3>. QED  BY <1>3, <3>1
  <2>. HIDE DEF v
  <2>3. /\ s \in Seq(Octet) /\ Len(s) = n + Len(v)
        /\ \A i \in 1 .. n + Len(v) : s[i] = IF i <= n THEN b[i] ELSE v[i - n]
    BY <1>1, <2>2, JoinedAt
  <2>4. /\ t \in Seq(Octet) /\ Len(t) = n + Len(u)
        /\ \A i \in 1 .. n + Len(u) : t[i] = IF i <= n THEN b[i] ELSE u[i - n]
    BY <1>1, <2>1, JoinedAt
  <2>5. n \in Nat /\ Len(x) \in Nat
    BY <1>1
  <2>. HIDE DEF s, t, n
  <2>6. Apart(s, t, n)
    <3>1. Len(s) = Len(t) + 1 /\ n + 1 <= Len(t) /\ Len(u) \in Nat /\ Len(u) >= 1
      BY <2>1, <2>2, <2>3, <2>4, <2>5
    <3>2. s[n + 1] = cs[1]
      <4>1. n + 1 \in 1 .. n + Len(v) /\ ~ (n + 1 <= n) /\ (n + 1) - n = 1 /\ 1 \in 1 .. 1 + Len(u)
        BY <2>2, <2>5, <3>1
      <4>. QED  BY <2>2, <2>3, <4>1
    <3>3. t[n + 1] = ls[1]
      <4>1. n + 1 \in 1 .. n + Len(u) /\ ~ (n + 1 <= n) /\ (n + 1) - n = 1 /\ 1 \in 1 .. 1 + Len(x)
        BY <2>1, <2>5, <3>1
      <4>. QED  BY <2>1, <2>4, <4>1
    <3>4. ASSUME NEW i \in 1 .. n PROVE s[i] = t[i]
      <4>1. i \in 1 .. n + Len(v) /\ i \in 1 .. n + Len(u) /\ i <= n
        BY <2>2, <2>5, <3>1
      <4>. QED  BY <2>3, <2>4, <4>1
    <3>5. ASSUME NEW i \in n + 1 .. Len(t) PROVE s[i + 1] = t[i]
      <4>. DEFINE j == i - n
                  k == j + 1
      <4>1. /\ i + 1 \in 1 .. n + Len(v) /\ ~ (i + 1 <= n) /\ (i + 1) - n = k
            /\ k \in 1 .. 1 + Len(u) /\ ~ (k <= 1) /\ k - 1 = j
            /\ i \in 1 .. n + Len(u) /\ ~ (i <= n)
        BY <2>2, <2>4, <2>5, <3>1
      <4>2. s[i + 1] = v[k]
        BY <2>3, <4>1
      <4>3. t[i] = u[j]
        BY <2>4, <4>1
      <4>. HIDE DEF j, k
      <4>4. v[k] = u[j]
        BY <2>2, <4>1
      <4>. QED  BY <4>2, <4>3, <4>4
    <3>. QED  BY <1>3, <2>3, <2>4, <2>5, <3>1, <3>2, <3>3, <3>4, <3>5 DEF Apart
  <2>7. WithoutReturns(s) = WithoutReturns(t)
    BY <2>6, ReturnsMakeNone
  <2>8. ((b \o cs) \o ls) \o x = s
    <3>. DEFINE y == b \o cs
    <3>0. y \in Seq(Octet) /\ b \in Seq(Octet) /\ cs \in Seq(Octet) /\ u \in Seq(Octet) /\ ls \in Seq(Octet)
      BY <1>1, <1>3, <2>1, JoinedSeq
    <3>1. y \o u = b \o (cs \o u)
      BY <3>0, OctetsJoined
    <3>. HIDE DEF y
    <3>2. (y \o ls) \o x = y \o (ls \o x)
      <4>1. y \in Seq(Octet) /\ ls \in Seq(Octet) /\ x \in Seq(Octet)
        BY <3>0
      <4>. QED  BY <4>1, OctetsJoined
    <3>. QED  BY <3>1, <3>2 DEF s, u, v, y
  <2>9. (a \o ls) \o x = a \o u
    <3>1. a \in Seq(Octet) /\ ls \in Seq(Octet) /\ x \in Seq(Octet)
      BY <1>1, <1>3
    <3>2. (a \o ls) \o x = a \o (ls \o x)
      BY <3>1, OctetsJoined
    <3>. QED  BY <3>2 DEF u
  <2>10. WithoutReturns(a \o u) = WithoutReturns(t)
    BY <2>1 DEF Alike, t
  <2>. QED  BY <2>7, <2>8, <2>9, <2>10
<1>6. Alike(a \o ls, (b \o cs) \o ls)
  BY <1>4, <1>5 DEF Alike
<1>. QED  BY <1>6 DEF cs, ls

-----------------------------------------------------------------------------
(* Reading.                                                                *)

Reader(mode) == [p \in Reading \X Octet |-> TextNext(mode, p[1], p[2])]

LEMMA MovesType ==
    ASSUME NEW m \in Reading, NEW state \in ParserState
    PROVE  /\ Moves(m, state) \in Reading
           /\ Moves(m, state).state = state /\ Moves(m, state).text = m.text
BY DEF Moves, Reading

LEMMA ShowsType ==
    ASSUME NEW m \in Reading, NEW o \in Octet, NEW state \in ParserState
    PROVE  /\ Shows(m, o, state) \in Reading
           /\ Shows(m, o, state).state = state /\ Shows(m, o, state).text = m.text \o <<o>>
<1>. DEFINE q == Append(m.text, o)
<1>1. q \in Seq(Octet) /\ q = m.text \o <<o>>
  BY DEF Reading
<1>. HIDE DEF q
<1>2. Shows(m, o, state) = [state |-> state, text |-> q]
  BY DEF Shows, q
<1>. QED  BY <1>1, <1>2 DEF Reading

LEMMA TextNextType ==
    ASSUME NEW mode, NEW m \in Reading, NEW o \in Octet
    PROVE  TextNext(mode, m, o) \in Reading
<1>1. /\ \A s \in ParserState : Moves(m, s) \in Reading /\ Shows(m, o, s) \in Reading
      /\ m.state \in ParserState
  BY MovesType, ShowsType DEF Reading
<1>2. DataShows(mode, m, o) \in Reading /\ CommandMoves(m, o) \in Reading
  BY <1>1 DEF DataShows, CommandMoves, ParserState
<1>. QED  BY <1>1, <1>2 DEF TextNext, ParserState

LEMMA ReaderIsStep ==
    ASSUME NEW mode
    PROVE  /\ IsStep(Reader(mode), Reading, Octet)
           /\ \A m \in Reading : \A o \in Octet : Reader(mode)[<<m, o>>] = TextNext(mode, m, o)
<1>1. \A m \in Reading : \A o \in Octet : TextNext(mode, m, o) \in Reading
  BY TextNextType
<1>. QED  BY <1>1 DEF Reader, IsStep

LEMMA NothingReadType ==
    ASSUME NEW since \in ParserState
    PROVE  /\ NothingRead(since) \in Reading
           /\ NothingRead(since).state = since /\ NothingRead(since).text = << >>
<1>1. << >> \in Seq(Octet)
  OBVIOUS
<1>. QED  BY <1>1 DEF NothingRead, Reading

\* What is read of s from state "since" on.
ReadFrom(mode, since, s) == Fold(Reader(mode), NothingRead(since), s)

LEMMA TextIsRead ==
    ASSUME NEW mode, NEW since \in ParserState, NEW s \in Seq(Octet)
    PROVE  Text(mode, since, s) = ReadFrom(mode, since, s).text
<1>. DEFINE f == Reader(mode)
            n == Len(s)
            first == NothingRead(since)
            Step(g) == g = [i \in 0 .. Len(s) |->
                               IF i = 0 THEN NothingRead(since) ELSE TextNext(mode, g[i - 1], s[i])]
            m == CHOOSE g : Step(g)
            h == Run(f, first, s)
<1>0. /\ IsStep(f, Reading, Octet) /\ first \in Reading /\ n \in Nat
      /\ \A x \in Reading : \A o \in Octet : f[<<x, o>>] = TextNext(mode, x, o)
      /\ \A i \in 1 .. n : s[i] \in Octet
  BY ReaderIsStep, NothingReadType
<1>. HIDE DEF f
<1>1. /\ h \in [0 .. n -> Reading] /\ h[0] = first
      /\ \A i \in 1 .. n : h[i] = f[<<h[i - 1], s[i]>>]
  BY <1>0, RunIs
<1>. HIDE DEF h
<1>2. \A i \in 1 .. n : h[i] = TextNext(mode, h[i - 1], s[i])
  <2>1. \A i \in 1 .. n : i - 1 \in 0 .. n
    BY <1>0
  <2>. QED  BY <1>0, <1>1, <2>1
<1>3. Step(h)
  <2>1. h = [i \in 0 .. n |-> h[i]]
    BY <1>1
  <2>2. \A i \in 0 .. n : h[i] = IF i = 0 THEN NothingRead(since) ELSE TextNext(mode, h[i - 1], s[i])
    BY <1>0, <1>1, <1>2
  <2>. QED  BY <2>1, <2>2
<1>4. Step(m)
  <2>. HIDE DEF Step
  <2>. QED  BY <1>3
<1>5. Text(mode, since, s) = m[n].text
  BY DEF Text
<1>. HIDE DEF m
<1>6. m[0] = first /\ \A i \in 1 .. n : m[i] = TextNext(mode, m[i - 1], s[i])
  <2>1. /\ \A i \in 1 .. n : i \in 0 .. n /\ i # 0
        /\ 0 \in 0 .. n
    BY <1>0
  <2>. QED  BY <1>4, <2>1
<1>7. m[n] = Fold(f, first, s)
  <2>1. \A i \in 1 .. n : m[i - 1] \in Reading => m[i] = f[<<m[i - 1], s[i]>>]
    BY <1>0, <1>6
  <2>. HIDE DEF first
  <2>. QED  BY <1>0, <1>6, <2>1, RunUnique
<1>. QED  BY <1>5, <1>7 DEF f, ReadFrom

LEMMA ReadType ==
    ASSUME NEW mode, NEW since \in ParserState, NEW s \in Seq(Octet)
    PROVE  ReadFrom(mode, since, s) \in Reading
BY ReaderIsStep, NothingReadType, FoldType DEF ReadFrom

LEMMA ReadNothing ==
    ASSUME NEW mode, NEW since \in ParserState
    PROVE  ReadFrom(mode, since, << >>) = NothingRead(since)
BY ReaderIsStep, NothingReadType, FoldEmpty DEF ReadFrom

LEMMA ReadMore ==
    ASSUME NEW mode, NEW since \in ParserState, NEW s \in Seq(Octet), NEW o \in Octet
    PROVE  ReadFrom(mode, since, Append(s, o)) = TextNext(mode, ReadFrom(mode, since, s), o)
<1>. DEFINE f == Reader(mode)
            first == NothingRead(since)
            m == Fold(f, first, s)
            one == <<o>>
<1>1. IsStep(f, Reading, Octet) /\ first \in Reading /\ one \in Seq(Octet)
  BY ReaderIsStep, NothingReadType
<1>2. m \in Reading
  BY <1>1, FoldType
<1>3. f[<<m, o>>] = TextNext(mode, m, o)
  BY <1>2, ReaderIsStep
<1>. HIDE DEF f, first
<1>4. Fold(f, m, <<o>>) = f[<<m, o>>]
  BY <1>1, <1>2, FoldOne
<1>5. Append(s, o) = s \o one
  OBVIOUS
<1>. HIDE DEF one
<1>6. Fold(f, first, s \o one) = Fold(f, m, one)
  BY <1>1, FoldConcat
<1>. QED  BY <1>3, <1>4, <1>5, <1>6 DEF ReadFrom, f, first, one

-----------------------------------------------------------------------------
(* What is shown and what is read go in step.                              *)

\* All that has got to the terminal since output was last dropped.
Output(c) == c.shown \o c.ttyoring

Fresh(c) == Beyond(Output(c), c.refused)

ReadBy(c) == ReadFrom(c.mode, c.since, c.seen)

\* As much of the state as says what is shown and what is read.
Shown(c) ==
    /\ Form(c) /\ c.shown \in Seq(Octet) /\ c.seen \in Seq(Octet)
    /\ c.since \in ParserState /\ c.refused \in Nat /\ ~c.mode.crmod

\* What is shown, and what was not, came no later than octet number base.
Below(c, base) ==
    c.refused <= base /\ \A i \in 1 .. Len(Output(c)) : Output(c)[i].n <= base

\* The parser's state and the reader's.  Behind a carriage return the parser
\* has looked at the next octet, if that is in the ring.
Stands(c, state) ==
    \/ state = c.state
    \/ /\ state = "cr" /\ c.state = "data"
       /\ c.netiring # << >> /\ Head(c.netiring).code # "NUL"

InStep(c, base) ==
    /\ Shown(c) /\ Below(c, base) /\ Stands(c, ReadBy(c).state)
    /\ Alike(Fresh(c), ReadBy(c).text)

LEMMA OutputType ==
    ASSUME NEW c, Shown(c)
    PROVE  Output(c) \in Seq(Octet)
<1>. DEFINE a == c.shown
            b == c.ttyoring
<1>1. a \in Seq(Octet) /\ b \in Seq(Octet)
  BY DEF Shown, Form
<1>. HIDE DEF a, b
<1>2. a \o b \in Seq(Octet)
  BY <1>1, JoinedSeq
<1>. QED  BY <1>2 DEF Output, a, b

LEMMA ReadByType ==
    ASSUME NEW c, Shown(c)
    PROVE  ReadBy(c) \in Reading /\ ReadBy(c).state \in ParserState /\ ReadBy(c).text \in Seq(Octet)
<1>1. ReadBy(c) \in Reading
  BY ReadType DEF Shown, ReadBy
<1>. QED  BY <1>1 DEF Reading

\* The state with the same fields.
LEMMA SameShown ==
    ASSUME NEW c, NEW d, Shown(c), Form(d), d.mode = c.mode, d.shown = c.shown,
           d.ttyoring = c.ttyoring, d.seen = c.seen, d.since = c.since, d.refused = c.refused
    PROVE  /\ Shown(d) /\ ReadBy(d) = ReadBy(c) /\ Fresh(d) = Fresh(c)
           /\ \A base : Below(c, base) => Below(d, base)
BY DEF Shown, ReadBy, Fresh, Output, Below

LEMMA BelowMore ==
    ASSUME NEW c, Shown(c), NEW base \in Nat, Below(c, base)
    PROVE  Below(c, base + 1)
<1>1. ASSUME NEW i \in 1 .. Len(Output(c)) PROVE Output(c)[i].n <= base + 1
  <2>. DEFINE s == Output(c)
              n == s[i].n
  <2>1. s \in Seq(Octet)
    BY OutputType
  <2>2. s[i] \in Octet /\ n <= base
    BY <2>1 DEF Below
  <2>3. n \in Nat
    BY <2>2 DEF Octet
  <2>. HIDE DEF n
  <2>4. n <= base + 1
    BY <2>2, <2>3
  <2>. QED  BY <2>4 DEF n
<1>2. c.refused <= base + 1
  BY DEF Shown, Below
<1>. QED  BY <1>1, <1>2 DEF Below

\* A state from which nothing has been read or shown since.
LEMMA NothingInStep ==
    ASSUME NEW c, Shown(c), NEW base \in Nat, Below(c, base), c.seen = << >>, c.since = c.state,
           Fresh(c) = << >>
    PROVE  InStep(c, base)
<1>1. ReadBy(c) = NothingRead(c.since)
  BY ReadNothing DEF Shown, ReadBy
<1>2. ReadBy(c).state = c.state /\ ReadBy(c).text = << >>
  BY <1>1, NothingReadType DEF Shown
<1>3. Alike(<< >>, << >>)
  <2>. DEFINE x == << >>
  <2>1. x \in Seq(Octet)
    OBVIOUS
  <2>. HIDE DEF x
  <2>2. Alike(x, x)
    BY <2>1, AlikeSame
  <2>. QED  BY <2>2 DEF x
<1>. QED  BY <1>2, <1>3 DEF InStep, Stands

\* ttyflush(1)
LEMMA DropInStep ==
    ASSUME NEW c, Shown(c), NEW base \in Nat, c.refused <= base
    PROVE  InStep(Drop(c), base) /\ Drop(c).mode = c.mode /\ Fresh(Drop(c)) = << >>
<1>. DEFINE last == IF c.flushout \/ c.ttyoring = << >> THEN c.lastDropped ELSE Last(c.ttyoring).n
            d == [c EXCEPT !.ttyoring = << >>, !.shown = << >>, !.seen = << >>, !.since = c.state,
                           !.lastDropped = last]
<1>1. Drop(c) = d
  BY DEF Drop
<1>. HIDE DEF last
<1>2. /\ DOMAIN d = Fields /\ d.state = c.state /\ d.netiring = c.netiring /\ d.ttyoring = << >>
      /\ d.shown = << >> /\ d.seen = << >> /\ d.since = c.state /\ d.refused = c.refused /\ d.mode = c.mode
  BY DEF Shown, Form, Fields
<1>. HIDE DEF d
<1>3. << >> \in Seq(Octet) /\ << >> \o << >> = << >> /\ Len(<< >>) = 0
  OBVIOUS
<1>4. Shown(d)
  BY <1>2, <1>3 DEF Shown, Form
<1>5. Output(d) = << >>
  BY <1>2, <1>3 DEF Output
<1>6. Below(d, base)
  BY <1>2, <1>3, <1>5 DEF Below
<1>7. Fresh(d) = << >>
  <2>. DEFINE s == << >>
              n == c.refused
  <2>1. s \in Seq(Octet) /\ n \in Nat /\ \A i \in 1 .. Len(s) : s[i].n <= n
    BY DEF Shown
  <2>2. Fresh(d) = Beyond(s, n)
    BY <1>2, <1>5 DEF Fresh
  <2>. HIDE DEF s, n
  <2>3. Beyond(s, n) = << >>
    BY <2>1, NoneBeyond
  <2>. QED  BY <2>2, <2>3
<1>8. InStep(d, base)
  BY <1>2, <1>4, <1>6, <1>7, NothingInStep
<1>. QED  BY <1>1, <1>2, <1>7, <1>8

\* ttyflush(0) moves text from the ring to the terminal.
LEMMA WriteSame ==
    ASSUME NEW c, Shown(c), NEW k \in 0 .. Len(c.ttyoring)
    PROVE  /\ Shown(Write(c, k)) /\ Output(Write(c, k)) = Output(c)
           /\ ReadBy(Write(c, k)) = ReadBy(c) /\ Fresh(Write(c, k)) = Fresh(c)
           /\ Write(c, k).mode = c.mode /\ Write(c, k).refused = c.refused
           /\ Write(c, k).state = c.state /\ Write(c, k).netiring = c.netiring
           /\ Write(c, k).seen = c.seen
<1>. DEFINE s == c.ttyoring
            ring == SubSeq(s, k + 1, Len(s))
            front == SubSeq(s, 1, k)
            shown == c.shown \o front
            d == [c EXCEPT !.ttyoring = ring, !.shown = shown]
<1>1. Write(c, k) = d
  BY DEF Write
<1>2. s \in Seq(Octet) /\ k \in 0 .. Len(s) /\ c.shown \in Seq(Octet)
  BY DEF Shown, Form
<1>. HIDE DEF s
<1>3. ring \in Seq(Octet) /\ front \in Seq(Octet) /\ front \o ring = s
  BY <1>2, Rejoined
<1>. HIDE DEF ring, front
<1>4. shown \in Seq(Octet)
  BY <1>2, <1>3, JoinedSeq
<1>5. shown \o ring = c.shown \o s
  BY <1>2, <1>3, OctetsJoined
<1>. HIDE DEF shown
<1>6. /\ DOMAIN d = Fields /\ d.state = c.state /\ d.netiring = c.netiring /\ d.ttyoring = ring
      /\ d.shown = shown /\ d.seen = c.seen /\ d.since = c.since /\ d.refused = c.refused /\ d.mode = c.mode
  BY DEF Shown, Form, Fields
<1>. HIDE DEF d
<1>7. Shown(d)
  BY <1>3, <1>4, <1>6 DEF Shown, Form
<1>8. Output(d) = Output(c)
  BY <1>5, <1>6 DEF Output, s
<1>. QED  BY <1>1, <1>6, <1>7, <1>8 DEF Fresh, ReadBy

LEMMA TtyFlushInStep ==
    ASSUME NEW c, NEW base \in Nat, InStep(c, base), NEW k \in 0 .. Len(c.ttyoring)
    PROVE  InStep(TtyFlush(c, k), base)
<1>1. Shown(c) /\ c.refused <= base
  BY DEF InStep, Below
<1>2. InStep(Drop(c), base)
  BY <1>1, DropInStep
<1>. DEFINE d == Write(c, k)
<1>3. /\ Shown(d) /\ Output(d) = Output(c) /\ ReadBy(d) = ReadBy(c) /\ Fresh(d) = Fresh(c)
      /\ d.refused = c.refused /\ d.state = c.state /\ d.netiring = c.netiring
  BY <1>1, WriteSame
<1>. HIDE DEF d
<1>4. InStep(d, base)
  BY <1>3 DEF InStep, Below, Stands
<1>. QED  BY <1>2, <1>4 DEF TtyFlush, d

\* TTYADD of the next octet that is to be shown.
LEMMA ShowInStep ==
    ASSUME NEW c, Shown(c), NEW base \in Nat, Below(c, base), NEW o \in Octet, base < o.n,
           NEW top \in Nat, o.n <= top, Stands(c, ReadBy(c).state),
           Alike(Fresh(c) \o <<o>>, ReadBy(c).text)
    PROVE  InStep(Show(c, <<o>>), top) /\ Show(c, <<o>>).netiring = c.netiring
<1>. DEFINE text == <<o>>
            n == Last(text).n
            last == IF c.flushout THEN c.lastDropped ELSE n
            ring == c.ttyoring \o text
            d == [c EXCEPT !.seen = << >>, !.since = c.state, !.refused = n, !.lastDropped = last]
            e == [c EXCEPT !.ttyoring = ring]
            s == Output(c)
            before == c.ttyoring
<1>1. Show(c, text) = IF c.SYNCHing \/ c.flushout THEN d ELSE e
  BY DEF Show
<1>2. text \in Seq(Octet) /\ Len(text) = 1 /\ text[1] = o /\ n = o.n /\ o.n \in Nat
  BY DEF Last, Octet
<1>3. /\ s \in Seq(Octet) /\ before \in Seq(Octet) /\ c.shown \in Seq(Octet) /\ Form(c)
      /\ c.refused \in Nat /\ c.refused <= base /\ c.state \in ParserState
      /\ \A i \in 1 .. Len(s) : s[i].n <= base
  BY OutputType DEF Shown, Below, Form
<1>. HIDE DEF text, n, before
<1>4. ring \in Seq(Octet) /\ s \o text = c.shown \o ring
  <2>1. ring \in Seq(Octet)
    BY <1>2, <1>3, JoinedSeq DEF before
  <2>2. (c.shown \o before) \o text = c.shown \o (before \o text)
    BY <1>2, <1>3, OctetsJoined
  <2>. QED  BY <2>1, <2>2 DEF Output, before
<1>5. ASSUME NEW i \in 1 .. Len(s) PROVE s[i].n \in Nat /\ s[i].n <= base
  <2>1. s[i] \in Octet
    BY <1>3
  <2>. QED  BY <1>3, <2>1 DEF Octet
<1>. HIDE DEF s
<1>6. CASE c.SYNCHing \/ c.flushout
  <2>. HIDE DEF last
  <2>1. /\ DOMAIN d = Fields /\ d.netiring = c.netiring /\ d.state = c.state /\ d.ttyoring = c.ttyoring
        /\ d.shown = c.shown /\ d.seen = << >> /\ d.since = c.state /\ d.refused = n /\ d.mode = c.mode
    BY <1>3 DEF Form, Fields
  <2>. HIDE DEF d
  <2>2. << >> \in Seq(Octet)
    OBVIOUS
  <2>3. Shown(d)
    BY <1>2, <1>3, <2>1, <2>2 DEF Shown, Form
  <2>4. Output(d) = s
    BY <2>1 DEF Output, s
  <2>5. \A i \in 1 .. Len(s) : s[i].n <= top /\ s[i].n <= n
    BY <1>2, <1>5
  <2>6. Below(d, top)
    BY <1>2, <2>1, <2>4, <2>5 DEF Below
  <2>7. Fresh(d) = << >>
    <3>1. Fresh(d) = Beyond(s, n)
      BY <2>1, <2>4 DEF Fresh
    <3>2. n \in Nat
      BY <1>2
    <3>. QED  BY <1>3, <2>5, <3>1, <3>2, NoneBeyond
  <2>8. InStep(d, top)
    BY <2>1, <2>3, <2>6, <2>7, NothingInStep
  <2>. QED  BY <1>1, <1>6, <2>1, <2>8 DEF text
<1>7. CASE ~(c.SYNCHing \/ c.flushout)
  <2>. HIDE DEF ring
  <2>1. /\ DOMAIN e = Fields /\ e.netiring = c.netiring /\ e.state = c.state /\ e.ttyoring = ring
        /\ e.shown = c.shown /\ e.seen = c.seen /\ e.since = c.since /\ e.refused = c.refused
        /\ e.mode = c.mode
    BY <1>3 DEF Form, Fields
  <2>. HIDE DEF e
  <2>2. Shown(e) /\ ReadBy(e) = ReadBy(c)
    BY <1>4, <2>1 DEF Shown, Form, ReadBy
  <2>3. Output(e) = s \o text
    BY <1>4, <2>1 DEF Output
  <2>4. Below(e, top)
    <3>. DEFINE q == s \o text
                m == Len(s)
    <3>1. /\ Len(q) = m + 1 /\ m \in Nat
          /\ \A i \in 1 .. m + 1 : q[i] = IF i <= m THEN s[i] ELSE text[i - m]
      <4>1. /\ s \o text \in Seq(Octet) /\ Len(s \o text) = Len(s) + Len(text)
            /\ \A i \in 1 .. Len(s) + Len(text) :
                  (s \o text)[i] = IF i <= Len(s) THEN s[i] ELSE text[i - Len(s)]
        BY <1>2, <1>3, JoinedAt
      <4>. QED  BY <1>2, <1>3, <4>1
    <3>2. \A i \in 1 .. m : s[i].n <= top
      BY <1>2, <1>5
    <3>. HIDE DEF m, q
    <3>3. ASSUME NEW i \in 1 .. m + 1 PROVE q[i].n <= top
      <4>1. CASE i <= m
        BY <3>1, <3>2, <4>1
      <4>2. CASE ~(i <= m)
        <5>1. i - m = 1
          BY <3>1, <4>2
        <5>. QED  BY <1>2, <3>1, <4>2, <5>1
      <4>. QED  BY <4>1, <4>2
    <3>4. e.refused <= top
      BY <1>2, <1>3, <2>1
    <3>. QED  BY <2>3, <3>1, <3>3, <3>4 DEF Below, q
  <2>5. Fresh(e) = Fresh(c) \o text
    <3>. DEFINE r == c.refused
    <3>1. r \in Nat /\ o.n > r
      BY <1>2, <1>3
    <3>2. Fresh(e) = Beyond(s \o <<o>>, r) /\ Fresh(c) = Beyond(s, r)
      BY <2>1, <2>3 DEF Fresh, s, text
    <3>. HIDE DEF r
    <3>3. Beyond(s \o <<o>>, r) = Beyond(s, r) \o <<o>>
      BY <1>3, <3>1, BeyondAppend
    <3>. QED  BY <3>2, <3>3 DEF text
  <2>6. Stands(e, ReadBy(e).state)
    BY <2>1, <2>2 DEF Stands
  <2>7. InStep(e, top)
    BY <2>2, <2>4, <2>5, <2>6 DEF InStep, text
  <2>. QED  BY <1>1, <1>7, <2>1, <2>7 DEF text
<1>. QED  BY <1>6, <1>7

\* The parser's state changes.
LEMMA StateShown ==
    ASSUME NEW c, Shown(c), NEW state \in ParserState
    PROVE  LET d == [c EXCEPT !.state = state]
           IN  /\ Shown(d) /\ ReadBy(d) = ReadBy(c) /\ Fresh(d) = Fresh(c)
               /\ d.state = state /\ d.netiring = c.netiring /\ d.mode = c.mode
               /\ d.seen = c.seen /\ d.ttyoring = c.ttyoring /\ d.refused = c.refused
               /\ \A base : Below(c, base) => Below(d, base)
<1>. DEFINE d == [c EXCEPT !.state = state]
<1>1. Form(c)
  BY DEF Shown
<1>2. /\ DOMAIN d = Fields /\ d.state = state /\ d.netiring = c.netiring /\ d.ttyoring = c.ttyoring
      /\ d.shown = c.shown /\ d.seen = c.seen /\ d.since = c.since /\ d.refused = c.refused
      /\ d.mode = c.mode
  BY <1>1 DEF Form, Fields
<1>. HIDE DEF d
<1>3. Form(d)
  BY <1>1, <1>2 DEF Form
<1>4. Shown(d) /\ ReadBy(d) = ReadBy(c) /\ Fresh(d) = Fresh(c) /\ \A base : Below(c, base) => Below(d, base)
  BY <1>2, <1>3, SameShown
<1>. QED  BY <1>2, <1>4 DEF d

\* An octet is taken, and read.
LEMMA TakeShown ==
    ASSUME NEW c, Shown(c), c.netiring # << >>
    PROVE  LET o == Head(c.netiring)
               d == [c EXCEPT !.netiring = Tail(c.netiring), !.seen = Append(c.seen, o)]
           IN  /\ o \in Octet /\ Shown(d) /\ Fresh(d) = Fresh(c)
               /\ ReadBy(d) = TextNext(c.mode, ReadBy(c), o)
               /\ d.state = c.state /\ d.netiring = Tail(c.netiring) /\ d.mode = c.mode
               /\ d.seen # << >>
               /\ \A base : Below(c, base) => Below(d, base)
<1>. DEFINE o == Head(c.netiring)
            ring == Tail(c.netiring)
            seen == Append(c.seen, o)
            d == [c EXCEPT !.netiring = ring, !.seen = seen]
<1>1. o \in Octet /\ ring \in Seq(Octet) /\ Form(c) /\ c.seen \in Seq(Octet) /\ c.since \in ParserState
  BY HeadType DEF Shown, Form
<1>. HIDE DEF o, ring
<1>2. seen \in Seq(Octet) /\ seen # << >>
  BY <1>1
<1>3. ReadFrom(c.mode, c.since, seen) = TextNext(c.mode, ReadBy(c), o)
  <2>. DEFINE mode == c.mode
              since == c.since
              s == c.seen
  <2>1. since \in ParserState /\ s \in Seq(Octet)
    BY <1>1
  <2>. HIDE DEF mode, since, s
  <2>2. ReadFrom(mode, since, Append(s, o)) = TextNext(mode, ReadFrom(mode, since, s), o)
    BY <1>1, <2>1, ReadMore
  <2>. QED  BY <2>2 DEF ReadBy, mode, since, s
<1>. HIDE DEF seen
<1>4. /\ DOMAIN d = Fields /\ d.state = c.state /\ d.netiring = ring /\ d.ttyoring = c.ttyoring
      /\ d.shown = c.shown /\ d.seen = seen /\ d.since = c.since /\ d.refused = c.refused
      /\ d.mode = c.mode
  BY <1>1 DEF Form, Fields
<1>. HIDE DEF d
<1>5. Shown(d)
  BY <1>1, <1>2, <1>4 DEF Shown, Form
<1>6. ReadBy(d) = TextNext(c.mode, ReadBy(c), o)
  BY <1>3, <1>4 DEF ReadBy
<1>7. Fresh(d) = Fresh(c) /\ \A base : Below(c, base) => Below(d, base)
  BY <1>4 DEF Fresh, Output, Below
<1>. QED  BY <1>1, <1>2, <1>4, <1>5, <1>6, <1>7 DEF d, o, ring, seen

\* All that has been read but the last octet is shown: that stood for m.
Owes(c, m, base) ==
    Shown(c) /\ Below(c, base) /\ m \in Reading /\ Alike(Fresh(c), m.text)

\* Up to octet number base it is shown, and perhaps one octet more is taken.
Went(c, e, base) ==
    \/ e.netiring = c.netiring /\ InStep(e, base)
    \/ c.netiring # << >> /\ e.netiring = Tail(c.netiring) /\ InStep(e, base + 1)

\* The octet was no text.
LEMMA MoveInStep ==
    ASSUME NEW c, NEW m, NEW base \in Nat, Owes(c, m, base), NEW state \in ParserState,
           ReadBy(c) = Moves(m, state)
    PROVE  LET d == [c EXCEPT !.state = state]
           IN  InStep(d, base + 1) /\ d.netiring = c.netiring
<1>. DEFINE d == [c EXCEPT !.state = state]
<1>1. /\ Shown(d) /\ ReadBy(d) = ReadBy(c) /\ Fresh(d) = Fresh(c)
      /\ d.state = state /\ d.netiring = c.netiring
      /\ \A b : Below(c, b) => Below(d, b)
  BY StateShown DEF Owes
<1>. HIDE DEF d
<1>2. Below(d, base + 1)
  BY <1>1, BelowMore DEF Owes
<1>3. ReadBy(c).state = state /\ ReadBy(c).text = m.text
  BY MovesType DEF Owes
<1>4. InStep(d, base + 1)
  BY <1>1, <1>2, <1>3 DEF InStep, Stands, Owes
<1>. QED  BY <1>1, <1>4 DEF d

\* The octet is a character.
LEMMA TextInStep ==
    ASSUME NEW c, NEW m, NEW base \in Nat, Owes(c, m, base), NEW o \in Octet, o.n = base + 1,
           NEW state \in ParserState, ReadBy(c) = Shows(m, o, state)
    PROVE  LET d == [c EXCEPT !.state = state]
           IN  InStep(Show(d, <<o>>), base + 1) /\ Show(d, <<o>>).netiring = c.netiring
<1>. DEFINE d == [c EXCEPT !.state = state]
            one == <<o>>
<1>1. /\ Shown(d) /\ ReadBy(d) = ReadBy(c) /\ Fresh(d) = Fresh(c)
      /\ d.state = state /\ d.netiring = c.netiring
      /\ \A b : Below(c, b) => Below(d, b)
  BY StateShown DEF Owes
<1>. HIDE DEF d
<1>2. ReadBy(d).state = state /\ ReadBy(d).text = m.text \o one
  BY <1>1, ShowsType DEF Owes
<1>3. Alike(Fresh(d) \o one, ReadBy(d).text)
  <2>1. one \in Seq(Octet)
    OBVIOUS
  <2>. HIDE DEF one
  <2>2. Alike(Fresh(c) \o one, m.text \o one)
    BY <2>1, AlikeMore DEF Owes
  <2>. QED  BY <1>1, <1>2, <2>2
<1>4. Stands(d, ReadBy(d).state)
  BY <1>1, <1>2 DEF Stands
<1>5. base + 1 \in Nat /\ base < o.n /\ o.n <= base + 1 /\ Below(d, base)
  BY <1>1 DEF Owes
<1>6. InStep(Show(d, <<o>>), base + 1) /\ Show(d, <<o>>).netiring = d.netiring
  BY <1>1, <1>3, <1>4, <1>5, ShowInStep DEF one
<1>. QED  BY <1>1, <1>6 DEF d

\* A carriage return, and what may be taken with it.
LEMMA CarriageReturnWent ==
    ASSUME NEW c, NEW m, NEW base \in Nat, Owes(c, m, base), c.state = "data",
           NEW o \in Octet, o.code = "CR", o.n = base + 1, ReadBy(c) = Shows(m, o, "cr"), c.mode.text,
           c.netiring # << >> => Head(c.netiring).n = base + 2
    PROVE  Went(c, CarriageReturn(c, o), base + 1)
<1>. DEFINE next == Head(c.netiring)
            ring == Tail(c.netiring)
            seen == Append(c.seen, next)
            d == [c EXCEPT !.netiring = ring, !.seen = seen]
            cr == [c EXCEPT !.state = "cr"]
            one == <<o>>
            mode == c.mode
            read == Shows(m, o, "cr")
<1>1. Return(mode, o) = one
  BY DEF Return, Owes, Shown
<1>2. /\ read \in Reading /\ read.state = "cr" /\ read.text = m.text \o one
      /\ one \in Seq(Octet) /\ m.text \in Seq(Octet)
  <2>1. "cr" \in ParserState /\ m \in Reading
    BY DEF ParserState, Owes
  <2>. QED  BY <2>1, ShowsType DEF Reading
<1>3. Alike(Fresh(c) \o one, read.text)
  <2>. HIDE DEF one
  <2>1. Alike(Fresh(c) \o one, m.text \o one)
    BY <1>2, AlikeMore DEF Owes
  <2>. QED  BY <1>2, <2>1
<1>4. CASE c.netiring = << >>
  <2>1. CarriageReturn(c, o) = Show(cr, <<o>>)
    BY <1>1, <1>4 DEF CarriageReturn
  <2>2. InStep(Show(cr, <<o>>), base + 1) /\ Show(cr, <<o>>).netiring = c.netiring
    <3>. DEFINE state == "cr"
    <3>1. state \in ParserState /\ ReadBy(c) = Shows(m, o, state)
      BY DEF ParserState
    <3>. HIDE DEF state
    <3>2. LET x == [c EXCEPT !.state = state]
          IN  InStep(Show(x, <<o>>), base + 1) /\ Show(x, <<o>>).netiring = c.netiring
      BY <3>1, TextInStep
    <3>. QED  BY <3>2 DEF state
  <2>. HIDE DEF cr
  <2>. QED  BY <2>1, <2>2 DEF Went
<1>5. ASSUME c.netiring # << >>
      PROVE  /\ next \in Octet /\ next.n = base + 2 /\ Shown(d) /\ Below(d, base) /\ Fresh(d) = Fresh(c)
             /\ ReadBy(d) = TextNext(mode, read, next) /\ d.state = "data" /\ d.netiring = ring
  BY <1>5, TakeShown DEF Owes
<1>. HIDE DEF read
<1>6. CASE c.netiring # << >> /\ next.code = "NUL"
  <2>1. CarriageReturn(c, o) = Show(d, <<o>>)
    BY <1>6 DEF CarriageReturn
  <2>. HIDE DEF next, d
  <2>2. ReadBy(d) = Moves(read, "data")
    BY <1>2, <1>5, <1>6 DEF TextNext
  <2>3. ReadBy(d).state = "data" /\ ReadBy(d).text = read.text
    BY <1>2, <2>2, MovesType DEF ParserState
  <2>4. Stands(d, ReadBy(d).state) /\ Alike(Fresh(d) \o <<o>>, ReadBy(d).text)
    BY <1>3, <1>5, <1>6, <2>3 DEF Stands
  <2>5. base + 2 \in Nat /\ base < o.n /\ o.n <= base + 2 /\ (base + 1) + 1 = base + 2
    OBVIOUS
  <2>6. InStep(Show(d, <<o>>), base + 2) /\ Show(d, <<o>>).netiring = ring
    BY <1>5, <1>6, <2>4, <2>5, ShowInStep
  <2>. QED  BY <1>6, <2>1, <2>5, <2>6 DEF Went
<1>7. CASE c.netiring # << >> /\ next.code = "LF" /\ mode.echo
  <2>1. CarriageReturn(c, o) = Show(d, <<next>>)
    BY <1>7 DEF CarriageReturn
  <2>. HIDE DEF next, d
  <2>2. ReadBy(d) = Shows(read, next, "data")
    BY <1>2, <1>5, <1>7 DEF TextNext, DataShows
  <2>3. ReadBy(d).state = "data" /\ ReadBy(d).text = (m.text \o <<o>>) \o <<next>>
    <3>1. "data" \in ParserState /\ read \in Reading /\ next \in Octet
      BY <1>2, <1>5, <1>7 DEF ParserState
    <3>. HIDE DEF one
    <3>2. ReadBy(d).state = "data" /\ ReadBy(d).text = read.text \o <<next>>
      BY <2>2, <3>1, ShowsType
    <3>. QED  BY <1>2, <3>2 DEF one
  <2>4. Alike(Fresh(d) \o <<next>>, ReadBy(d).text)
    <3>. DEFINE a == Fresh(c)
                b == m.text
    <3>1. Alike(a, b)
      BY DEF Owes
    <3>. HIDE DEF a, b
    <3>2. Alike(a \o <<next>>, (b \o <<o>>) \o <<next>>)
      BY <1>5, <1>7, <3>1, AlikeReturn
    <3>. QED  BY <1>5, <1>7, <2>3, <3>2 DEF a, b
  <2>5. Stands(d, ReadBy(d).state)
    BY <1>5, <1>7, <2>3 DEF Stands
  <2>6. base + 2 \in Nat /\ base < next.n /\ next.n <= base + 2 /\ (base + 1) + 1 = base + 2
    BY <1>5, <1>7
  <2>7. InStep(Show(d, <<next>>), base + 2) /\ Show(d, <<next>>).netiring = ring
    BY <1>5, <1>7, <2>4, <2>5, <2>6, ShowInStep
  <2>. QED  BY <1>7, <2>1, <2>6, <2>7 DEF Went
<1>8. CASE c.netiring # << >> /\ next.code # "NUL" /\ ~(next.code = "LF" /\ mode.echo)
  <2>1. CarriageReturn(c, o) = Show(c, <<o>>)
    BY <1>1, <1>8 DEF CarriageReturn
  <2>2. ReadBy(c) = read
    BY DEF read
  <2>3. Stands(c, ReadBy(c).state)
    BY <1>2, <1>8, <2>2 DEF Stands
  <2>4. Alike(Fresh(c) \o <<o>>, ReadBy(c).text)
    BY <1>3, <2>2
  <2>5. base + 1 \in Nat /\ base < o.n /\ o.n <= base + 1
    OBVIOUS
  <2>6. InStep(Show(c, <<o>>), base + 1) /\ Show(c, <<o>>).netiring = c.netiring
    BY <2>3, <2>4, <2>5, ShowInStep DEF Owes
  <2>. QED  BY <2>1, <2>6 DEF Went
<1>. QED  BY <1>4, <1>6, <1>7, <1>8

-----------------------------------------------------------------------------
(* What has been taken, up to octet number base                            *)

\* The ring to the terminal holds octets that have been taken, and what was
\* dropped for a Synch stands before one.
Taken(c, base, mark) ==
    /\ Form(c) /\ \A i \in 1 .. Len(c.ttyoring) : c.ttyoring[i].n <= base
    /\ c.lastDropped \in Nat /\ c.lastDropped <= mark

\* During a Synch its DM is unread, and the ring is empty.
Tidy(c, base, mark) ==
    Taken(c, base, mark) /\ (c.SYNCHing => c.ttyoring = << >> /\ base < mark)

LEMMA AlikeTidy ==
    ASSUME NEW c, NEW d, NEW base \in Nat, NEW mark \in Nat,
           DOMAIN d = Fields, d.state \in ParserState, d.netiring \in Seq(Octet),
           d.ttyoring = c.ttyoring, d.SYNCHing = c.SYNCHing, d.lastDropped = c.lastDropped
    PROVE  /\ Taken(c, base, mark) => Taken(d, base, mark)
           /\ Tidy(c, base, mark) => Tidy(d, base, mark)
BY DEF Taken, Tidy, Form

\* Steps that touch neither what is unread nor the parser.
Leaves(c, d) ==
    /\ Form(d) /\ d.netiring = c.netiring /\ d.state = c.state /\ d.mode = c.mode
    /\ \A base, mark \in Nat : Tidy(c, base, mark) => Tidy(d, base, mark)
    /\ \A base \in Nat : InStep(c, base) => InStep(d, base)

LEMMA LeavesThen ==
    ASSUME NEW c, NEW d, NEW e, Leaves(c, d), Leaves(d, e)
    PROVE  Leaves(c, e)
BY DEF Leaves

\* The fields that what is unread, what is shown and what is read depend on.
Rest(c, d) ==
    /\ DOMAIN d = Fields /\ d.netiring = c.netiring /\ d.state = c.state
    /\ d.ttyoring = c.ttyoring /\ d.SYNCHing = c.SYNCHing /\ d.lastDropped = c.lastDropped
    /\ d.mode = c.mode /\ d.shown = c.shown /\ d.seen = c.seen /\ d.since = c.since
    /\ d.refused = c.refused

LEMMA LeavesForm ==
    ASSUME NEW c, NEW d, Form(c), Rest(c, d)
    PROVE  Leaves(c, d)
<1>1. Form(d)
  BY DEF Form, Rest
<1>2. \A base, mark \in Nat : Tidy(c, base, mark) => Tidy(d, base, mark)
  BY <1>1, AlikeTidy DEF Form, Rest
<1>3. ASSUME NEW base \in Nat, InStep(c, base)
      PROVE  InStep(d, base)
  <2>1. Shown(d) /\ ReadBy(d) = ReadBy(c) /\ Fresh(d) = Fresh(c) /\ Below(d, base)
    BY <1>1, <1>3, SameShown DEF Rest, InStep
  <2>. QED  BY <1>3, <2>1 DEF InStep, Stands, Rest
<1>. QED  BY <1>1, <1>2, <1>3 DEF Leaves, Rest

LEMMA LeavesUpdates ==
    ASSUME NEW c, Form(c), NEW u, NEW v
    PROVE  /\ Leaves(c, c)
           /\ Leaves(c, [c EXCEPT !.ttyiring = u]) /\ Leaves(c, [c EXCEPT !.ttyiring = u, !.bol = v])
           /\ Leaves(c, [c EXCEPT !.bol = u, !.local = v]) /\ Leaves(c, [c EXCEPT !.local = u])
           /\ Leaves(c, [c EXCEPT !.bol = u]) /\ Leaves(c, [c EXCEPT !.pc = u])
           /\ Leaves(c, [c EXCEPT !.writing = u, !.meant = v]) /\ Leaves(c, [c EXCEPT !.meant = u])
           /\ Leaves(c, [c EXCEPT !.netoring = u, !.overrun = v])
           /\ Leaves(c, [c EXCEPT !.writing = u]) /\ Leaves(c, [c EXCEPT !.netoring = u])
           /\ Leaves(c, [c EXCEPT !.flushout = u])
<1>1. ASSUME NEW d, Rest(c, d)
      PROVE  Leaves(c, d)
  BY <1>1, LeavesForm
<1>2. DOMAIN c = Fields
  BY DEF Form
<1>3. Leaves(c, c)
  BY <1>1, <1>2 DEF Rest
<1>4. Leaves(c, [c EXCEPT !.ttyiring = u])
  <2>. DEFINE d == [c EXCEPT !.ttyiring = u]
  <2>1. Rest(c, d)
    BY <1>2 DEF Rest, Fields
  <2>. HIDE DEF d
  <2>2. Leaves(c, d)
    BY <1>1, <2>1
  <2>. QED  BY <2>2 DEF d
<1>5. Leaves(c, [c EXCEPT !.ttyiring = u, !.bol = v])
  <2>. DEFINE d == [c EXCEPT !.ttyiring = u, !.bol = v]
  <2>1. Rest(c, d)
    BY <1>2 DEF Rest, Fields
  <2>. HIDE DEF d
  <2>2. Leaves(c, d)
    BY <1>1, <2>1
  <2>. QED  BY <2>2 DEF d
<1>6. Leaves(c, [c EXCEPT !.bol = u, !.local = v])
  <2>. DEFINE d == [c EXCEPT !.bol = u, !.local = v]
  <2>1. Rest(c, d)
    BY <1>2 DEF Rest, Fields
  <2>. HIDE DEF d
  <2>2. Leaves(c, d)
    BY <1>1, <2>1
  <2>. QED  BY <2>2 DEF d
<1>7. Leaves(c, [c EXCEPT !.local = u])
  <2>. DEFINE d == [c EXCEPT !.local = u]
  <2>1. Rest(c, d)
    BY <1>2 DEF Rest, Fields
  <2>. HIDE DEF d
  <2>2. Leaves(c, d)
    BY <1>1, <2>1
  <2>. QED  BY <2>2 DEF d
<1>8. Leaves(c, [c EXCEPT !.bol = u])
  <2>. DEFINE d == [c EXCEPT !.bol = u]
  <2>1. Rest(c, d)
    BY <1>2 DEF Rest, Fields
  <2>. HIDE DEF d
  <2>2. Leaves(c, d)
    BY <1>1, <2>1
  <2>. QED  BY <2>2 DEF d
<1>9. Leaves(c, [c EXCEPT !.pc = u])
  <2>. DEFINE d == [c EXCEPT !.pc = u]
  <2>1. Rest(c, d)
    BY <1>2 DEF Rest, Fields
  <2>. HIDE DEF d
  <2>2. Leaves(c, d)
    BY <1>1, <2>1
  <2>. QED  BY <2>2 DEF d
<1>10. Leaves(c, [c EXCEPT !.writing = u, !.meant = v])
  <2>. DEFINE d == [c EXCEPT !.writing = u, !.meant = v]
  <2>1. Rest(c, d)
    BY <1>2 DEF Rest, Fields
  <2>. HIDE DEF d
  <2>2. Leaves(c, d)
    BY <1>1, <2>1
  <2>. QED  BY <2>2 DEF d
<1>11. Leaves(c, [c EXCEPT !.meant = u])
  <2>. DEFINE d == [c EXCEPT !.meant = u]
  <2>1. Rest(c, d)
    BY <1>2 DEF Rest, Fields
  <2>. HIDE DEF d
  <2>2. Leaves(c, d)
    BY <1>1, <2>1
  <2>. QED  BY <2>2 DEF d
<1>12. Leaves(c, [c EXCEPT !.netoring = u, !.overrun = v])
  <2>. DEFINE d == [c EXCEPT !.netoring = u, !.overrun = v]
  <2>1. Rest(c, d)
    BY <1>2 DEF Rest, Fields
  <2>. HIDE DEF d
  <2>2. Leaves(c, d)
    BY <1>1, <2>1
  <2>. QED  BY <2>2 DEF d
<1>13. Leaves(c, [c EXCEPT !.writing = u])
  <2>. DEFINE d == [c EXCEPT !.writing = u]
  <2>1. Rest(c, d)
    BY <1>2 DEF Rest, Fields
  <2>. HIDE DEF d
  <2>2. Leaves(c, d)
    BY <1>1, <2>1
  <2>. QED  BY <2>2 DEF d
<1>14. Leaves(c, [c EXCEPT !.netoring = u])
  <2>. DEFINE d == [c EXCEPT !.netoring = u]
  <2>1. Rest(c, d)
    BY <1>2 DEF Rest, Fields
  <2>. HIDE DEF d
  <2>2. Leaves(c, d)
    BY <1>1, <2>1
  <2>. QED  BY <2>2 DEF d
<1>15. Leaves(c, [c EXCEPT !.flushout = u])
  <2>. DEFINE d == [c EXCEPT !.flushout = u]
  <2>1. Rest(c, d)
    BY <1>2 DEF Rest, Fields
  <2>. HIDE DEF d
  <2>2. Leaves(c, d)
    BY <1>1, <2>1
  <2>. QED  BY <2>2 DEF d
<1>. QED  BY <1>3, <1>4, <1>5, <1>6, <1>7, <1>8, <1>9, <1>10, <1>11, <1>12, <1>13, <1>14, <1>15

\* TTYADD of what has been taken.
LEMMA ShowTidy ==
    ASSUME NEW c, NEW base \in Nat, NEW mark \in Nat, Tidy(c, base, mark),
           NEW text \in Seq(Octet), text # << >>, \A i \in 1 .. Len(text) : text[i].n <= base
    PROVE  /\ Tidy(Show(c, text), base, mark)
           /\ Show(c, text).netiring = c.netiring /\ Show(c, text).state = c.state
<1>. DEFINE n == Last(text).n
            last == IF c.flushout THEN c.lastDropped ELSE n
            ring == c.ttyoring \o text
            d == [c EXCEPT !.seen = << >>, !.since = c.state, !.refused = n, !.lastDropped = last]
            e == [c EXCEPT !.ttyoring = ring]
<1>1. Show(c, text) = IF c.SYNCHing \/ c.flushout THEN d ELSE e
  BY DEF Show
<1>2. Form(c) /\ c.lastDropped \in Nat /\ c.lastDropped <= mark
  BY DEF Tidy, Taken
<1>3. n \in Nat /\ n <= base
  <2>1. Len(text) \in 1 .. Len(text) /\ Last(text) = text[Len(text)]
    BY DEF Last
  <2>2. text[Len(text)] \in Octet
    BY <2>1
  <2>. QED  BY <2>1, <2>2 DEF Octet
<1>. HIDE DEF n
<1>4. /\ ring \in Seq(Octet) /\ Len(ring) = Len(c.ttyoring) + Len(text)
      /\ \A i \in 1 .. Len(c.ttyoring) + Len(text) :
            ring[i] = IF i <= Len(c.ttyoring) THEN c.ttyoring[i] ELSE text[i - Len(c.ttyoring)]
  BY <1>2, JoinedAt DEF Form
<1>5. CASE c.SYNCHing \/ c.flushout
  <2>1. (c.SYNCHing => base < mark) /\ last \in Nat /\ last <= mark
    BY <1>2, <1>3, <1>5 DEF Tidy
  <2>. HIDE DEF last
  <2>2. /\ DOMAIN d = Fields /\ d.netiring = c.netiring /\ d.state = c.state /\ d.ttyoring = c.ttyoring
        /\ d.SYNCHing = c.SYNCHing /\ d.lastDropped = last
    BY <1>2 DEF Form, Fields
  <2>. HIDE DEF d
  <2>3. Tidy(d, base, mark)
    BY <1>2, <2>1, <2>2 DEF Tidy, Taken, Form
  <2>. QED  BY <1>1, <1>5, <2>2, <2>3
<1>6. CASE ~ (c.SYNCHing \/ c.flushout)
  <2>. HIDE DEF ring
  <2>1. /\ DOMAIN e = Fields /\ e.netiring = c.netiring /\ e.state = c.state /\ e.ttyoring = ring
        /\ e.SYNCHing = c.SYNCHing /\ e.lastDropped = c.lastDropped
    BY <1>2 DEF Form, Fields
  <2>. HIDE DEF e
  <2>2. ASSUME NEW i \in 1 .. Len(ring)  PROVE ring[i].n <= base
    <3>. DEFINE m == Len(c.ttyoring)
                k == Len(text)
    <3>1. m \in Nat /\ k \in Nat /\ Len(ring) = m + k
      BY <1>2, <1>4 DEF Form
    <3>2. \A a \in 1 .. m : c.ttyoring[a].n <= base
      BY DEF Tidy, Taken
    <3>3. ring[i] = IF i <= m THEN c.ttyoring[i] ELSE text[i - m]
      BY <1>4
    <3>. HIDE DEF m, k
    <3>4. CASE i <= m
      BY <3>1, <3>2, <3>3, <3>4
    <3>5. CASE ~ (i <= m)
      <4>1. i - m \in 1 .. k
        BY <3>1, <3>5
      <4>. QED  BY <3>3, <3>5, <4>1 DEF k
    <3>. QED  BY <3>4, <3>5
  <2>3. Tidy(e, base, mark)
    BY <1>2, <1>4, <1>6, <2>1, <2>2 DEF Tidy, Taken, Form
  <2>. QED  BY <1>1, <1>6, <2>1, <2>3
<1>. QED  BY <1>5, <1>6

\* ttyflush(1): what it drops was dropped for the user, or stands before the DM.
LEMMA DropTaken ==
    ASSUME NEW c, NEW base \in Nat, NEW mark \in Nat, Taken(c, base, mark),
           c.flushout \/ c.ttyoring = << >> \/ base <= mark
    PROVE  /\ Taken(Drop(c), base, mark) /\ Drop(c).ttyoring = << >>
           /\ (c.SYNCHing => base < mark) => Tidy(Drop(c), base, mark)
<1>. DEFINE last == IF c.flushout \/ c.ttyoring = << >> THEN c.lastDropped ELSE Last(c.ttyoring).n
            d == [c EXCEPT !.ttyoring = << >>, !.shown = << >>, !.seen = << >>, !.since = c.state,
                           !.lastDropped = last]
<1>1. Drop(c) = d
  BY DEF Drop
<1>2. Form(c) /\ c.lastDropped \in Nat /\ c.lastDropped <= mark
  BY DEF Taken
<1>3. last \in Nat /\ last <= mark
  <2>1. CASE c.flushout \/ c.ttyoring = << >>
    BY <1>2, <2>1
  <2>2. CASE ~ (c.flushout \/ c.ttyoring = << >>)
    <3>. DEFINE ring == c.ttyoring
    <3>1. ring \in Seq(Octet) /\ ring # << >> /\ (\A i \in 1 .. Len(ring) : ring[i].n <= base)
          /\ base <= mark /\ last = Last(ring).n
      BY <1>2, <2>2 DEF Taken, Form
    <3>. HIDE DEF ring, last
    <3>2. Len(ring) \in 1 .. Len(ring) /\ Last(ring) = ring[Len(ring)] /\ ring[Len(ring)] \in Octet
      BY <3>1 DEF Last
    <3>. QED  BY <3>1, <3>2 DEF Octet
  <2>. QED  BY <2>1, <2>2
<1>. HIDE DEF last
<1>4. /\ DOMAIN d = Fields /\ d.netiring = c.netiring /\ d.state = c.state /\ d.ttyoring = << >>
      /\ d.SYNCHing = c.SYNCHing /\ d.lastDropped = last
  BY <1>2 DEF Form, Fields
<1>. HIDE DEF d
<1>5. << >> \in Seq(Octet) /\ Len(<< >>) = 0
  BY ShortType
<1>. QED  BY <1>1, <1>2, <1>3, <1>4, <1>5 DEF Tidy, Taken, Form

LEMMA DropSame ==
    ASSUME NEW c, Form(c)
    PROVE  Drop(c).netiring = c.netiring /\ Drop(c).state = c.state /\ Drop(c).mode = c.mode
<1>. DEFINE last == IF c.flushout \/ c.ttyoring = << >> THEN c.lastDropped ELSE Last(c.ttyoring).n
<1>1. Drop(c) = [c EXCEPT !.ttyoring = << >>, !.shown = << >>, !.seen = << >>, !.since = c.state,
                          !.lastDropped = last]
  BY DEF Drop
<1>. HIDE DEF last
<1>. QED  BY <1>1 DEF Form, Fields

LEMMA TtyFlushLeaves ==
    ASSUME NEW c, Form(c), NEW k \in 0 .. Len(c.ttyoring)
    PROVE  Leaves(c, TtyFlush(c, k))
<1>. DEFINE ring == SubSeq(c.ttyoring, k + 1, Len(c.ttyoring))
            shown == c.shown \o SubSeq(c.ttyoring, 1, k)
            d == [c EXCEPT !.ttyoring = ring, !.shown = shown]
<1>1. Write(c, k) = d
  BY DEF Write
<1>2. /\ ring \in Seq(Octet) /\ Len(ring) = Len(c.ttyoring) - k
      /\ \A i \in 1 .. Len(ring) : ring[i] = c.ttyoring[k + i] /\ k + i \in 1 .. Len(c.ttyoring)
  BY SubSeqProperties DEF Form
<1>. HIDE DEF ring, shown
<1>3. /\ DOMAIN d = Fields /\ d.netiring = c.netiring /\ d.state = c.state /\ d.ttyoring = ring
      /\ d.SYNCHing = c.SYNCHing /\ d.lastDropped = c.lastDropped /\ d.mode = c.mode
  BY DEF Form, Fields
<1>. HIDE DEF d
<1>4. ASSUME NEW base \in Nat, NEW mark \in Nat, Tidy(c, base, mark), ~c.SYNCHing
      PROVE  Tidy(d, base, mark)
  BY <1>2, <1>3, <1>4 DEF Tidy, Taken, Form
<1>0. Form(TtyFlush(c, k)) /\ \A base \in Nat : InStep(c, base) => InStep(TtyFlush(c, k), base)
  BY TtyFlushKeeps, TtyFlushInStep DEF Keeps, Grows
<1>5. CASE c.SYNCHing \/ c.flushout
  <2>1. ASSUME NEW base \in Nat, NEW mark \in Nat, Tidy(c, base, mark)
        PROVE  Tidy(Drop(c), base, mark)
    <3>1. Taken(c, base, mark) /\ (c.SYNCHing => c.ttyoring = << >> /\ base < mark)
      BY <2>1 DEF Tidy
    <3>. QED  BY <1>5, <3>1, DropTaken
  <2>2. Drop(c).netiring = c.netiring /\ Drop(c).state = c.state /\ Drop(c).mode = c.mode
    BY DropSame
  <2>. QED  BY <1>0, <1>5, <2>1, <2>2 DEF Leaves, TtyFlush
<1>6. CASE ~ (c.SYNCHing \/ c.flushout)
  BY <1>0, <1>1, <1>3, <1>4, <1>6 DEF Leaves, TtyFlush
<1>. QED  BY <1>5, <1>6

-----------------------------------------------------------------------------
(* telsnd() and the handlers touch nothing of what is unread.              *)

LEMMA NewModeLeaves ==
    ASSUME NEW c, Form(c)
    PROVE  Leaves(c, NewMode(c))
BY TtyFlushLeaves, Lengths DEF NewMode

LEMMA FlushedLeaves ==
    ASSUME NEW c, Form(c), NEW busy
    PROVE  Leaves(c, Flushed(c, busy))
<1>. DEFINE d == [c EXCEPT !.flushout = TRUE]
<1>1. Leaves(c, d) /\ Leaves(c, c) /\ d.flushout
  BY LeavesUpdates DEF Form, Fields
<1>2. Flushed(c, busy) \in {c, d, Drop(d)}
  BY DEF Flushed
<1>. HIDE DEF d
<1>3. Leaves(d, Drop(d))
  <2>1. /\ Form(d) /\ Form(Drop(d)) /\ Drop(d).netiring = d.netiring /\ Drop(d).state = d.state
        /\ Drop(d).mode = d.mode
    BY <1>1, DropKeeps, DropSame DEF Leaves, Keeps, Grows
  <2>2. ASSUME NEW base \in Nat, NEW mark \in Nat, Tidy(d, base, mark)
        PROVE  Tidy(Drop(d), base, mark)
    BY <1>1, <2>2, DropTaken DEF Tidy
  <2>3. ASSUME NEW base \in Nat, InStep(d, base)
        PROVE  InStep(Drop(d), base)
    BY <2>3, DropInStep DEF InStep, Below
  <2>. QED  BY <2>1, <2>2, <2>3 DEF Leaves
<1>. QED  BY <1>1, <1>2, <1>3, LeavesThen

LEMMA EmitLeaves ==
    ASSUME NEW c, Form(c), NEW bytes, NEW says
    PROVE  Leaves(c, Emit(c, bytes, says))
<1>. DEFINE meant == c.meant \o says
<1>1. Emit(c, bytes, says) = [c EXCEPT !.writing = bytes, !.meant = meant]
  BY DEF Emit
<1>. HIDE DEF meant
<1>2. Leaves(c, [c EXCEPT !.writing = bytes, !.meant = meant])
  BY LeavesUpdates
<1>. QED  BY <1>1, <1>2

LEMMA TransmitLeaves ==
    ASSUME NEW c, Form(c), NEW k
    PROVE  Leaves(c, Transmit(c, k).client)
<1>. DEFINE bol == c.bol \/ k \in {"LF", "CR"}
            d == [c EXCEPT !.bol = bol]
            bytes == Encoded(c.mode, k)
            says == Characters(c.mode, k)
<1>1. Transmit(c, k).client = Emit(d, bytes, says)
  BY DEF Transmit, Stay
<1>. HIDE DEF bol, bytes, says
<1>2. Leaves(c, d)
  BY LeavesUpdates
<1>. HIDE DEF d
<1>3. Leaves(d, Emit(d, bytes, says))
  BY <1>2, EmitLeaves DEF Leaves
<1>. QED  BY <1>1, <1>2, <1>3, LeavesThen

LEMMA InterruptLeaves ==
    ASSUME NEW c, Form(c)
    PROVE  Leaves(c, Interrupt(c).client)
<1>. DEFINE says == Interruption(c.mode, "IP")
            bytes == FlattenSeq(says)
            d == [c EXCEPT !.bol = TRUE]
            e == Flushed(d, FALSE)
<1>1. Interrupt(c).client = Emit(e, bytes, says)
  BY DEF Interrupt, Leave
<1>2. Leaves(c, d)
  BY LeavesUpdates
<1>. HIDE DEF d, bytes, says
<1>3. Leaves(d, e)
  BY <1>2, FlushedLeaves DEF Leaves
<1>. HIDE DEF e
<1>4. Leaves(e, Emit(e, bytes, says))
  BY <1>3, EmitLeaves DEF Leaves
<1>. QED  BY <1>1, <1>2, <1>3, <1>4, LeavesThen

LEMMA CommandLineLeaves ==
    ASSUME NEW c, Form(c)
    PROVE  Leaves(c, CommandLine(c).client)
<1>. DEFINE rest == SubSeq(c.ttyiring, LineSize + 1, Len(c.ttyiring))
            d == [c EXCEPT !.ttyiring = rest, !.bol = TRUE]
<1>1. CommandLine(c).client = NewMode(d)
  BY DEF CommandLine, Leave
<1>. HIDE DEF rest
<1>2. Leaves(c, d)
  BY LeavesUpdates
<1>. HIDE DEF d
<1>3. Leaves(d, NewMode(d))
  BY <1>2, NewModeLeaves DEF Leaves
<1>. QED  BY <1>1, <1>2, <1>3, LeavesThen

LEMMA OrdinaryLeaves ==
    ASSUME NEW c, Form(c), NEW k
    PROVE  Leaves(c, Ordinary(c, k).client)
<1>. DEFINE q == Tail(c.ttyiring)
            e == [c EXCEPT !.ttyiring = q]
<1>1. Ordinary(c, k) \in {Leave(NewMode(c)), Interrupt(c), Transmit(c, k), Transmit(e, k)}
  BY DEF Ordinary, Undoubled
<1>2. Leave(NewMode(c)).client = NewMode(c)
  BY DEF Leave
<1>. HIDE DEF q
<1>3. Leaves(c, e)
  BY LeavesUpdates
<1>. HIDE DEF e
<1>4. Leaves(c, Transmit(e, k).client)
  BY <1>3, TransmitLeaves, LeavesThen DEF Leaves
<1>. QED  BY <1>1, <1>2, <1>4, NewModeLeaves, InterruptLeaves, TransmitLeaves

LEMMA RloginLeaves ==
    ASSUME NEW c, Form(c), NEW k
    PROVE  Leaves(c, Rlogin(c, k).client)
<1>. DEFINE d == [c EXCEPT !.bol = FALSE, !.local = FALSE]
            local == [d EXCEPT !.local = TRUE]
            closed == [d EXCEPT !.pc = "closed"]
            ring == <<k>> \o c.ttyiring
            back == [d EXCEPT !.ttyiring = ring]
            old == c.local
            kept == [d EXCEPT !.local = old]
            line == [d EXCEPT !.bol = TRUE]
<1>1. Rlogin(c, k) \in {Stay(local), Leave(closed), Stay(NewMode(line)), CommandLine(d),
                        Ordinary(d, k), Ordinary(back, "tilde"), Ordinary(kept, k)}
  BY DEF Rlogin
<1>2. /\ Stay(local).client = local /\ Leave(closed).client = closed
      /\ Stay(NewMode(line)).client = NewMode(line)
  BY DEF Stay, Leave
<1>. HIDE DEF ring, old
<1>3. Leaves(c, d)
  BY LeavesUpdates
<1>. HIDE DEF d
<1>4. /\ Leaves(d, local) /\ Leaves(d, closed) /\ Leaves(d, back) /\ Leaves(d, kept)
      /\ Leaves(d, line)
  <2>0. Form(d)
    BY <1>3 DEF Leaves
  <2>1. Leaves(d, local)
    BY <2>0, LeavesUpdates
  <2>2. Leaves(d, closed)
    BY <2>0, LeavesUpdates
  <2>3. Leaves(d, back)
    BY <2>0, LeavesUpdates
  <2>4. Leaves(d, kept)
    BY <2>0, LeavesUpdates
  <2>5. Leaves(d, line)
    BY <2>0, LeavesUpdates
  <2>. QED  BY <2>1, <2>2, <2>3, <2>4, <2>5
<1>. HIDE DEF local, closed, back, kept, line
<1>7. Leaves(d, NewMode(line))
  BY <1>4, NewModeLeaves, LeavesThen DEF Leaves
<1>5. /\ Leaves(d, CommandLine(d).client) /\ Leaves(d, Ordinary(d, k).client)
      /\ Leaves(d, Ordinary(back, "tilde").client) /\ Leaves(d, Ordinary(kept, k).client)
  <2>1. Form(d) /\ Form(back) /\ Form(kept)
    BY <1>3, <1>4 DEF Leaves
  <2>2. Leaves(d, CommandLine(d).client) /\ Leaves(d, Ordinary(d, k).client)
    BY <2>1, CommandLineLeaves, OrdinaryLeaves
  <2>3. Leaves(back, Ordinary(back, "tilde").client) /\ Leaves(kept, Ordinary(kept, k).client)
    BY <2>1, OrdinaryLeaves
  <2>. QED  BY <1>4, <2>2, <2>3, LeavesThen
<1>6. \A e : Leaves(d, e) => Leaves(c, e)
  BY <1>3, LeavesThen
<1>. QED  BY <1>1, <1>2, <1>4, <1>5, <1>6, <1>7

LEMMA KeyedLeaves ==
    ASSUME NEW c, Form(c), NEW k
    PROVE  Leaves(c, Keyed(c, k).client)
<1>. DEFINE d == [c EXCEPT !.bol = FALSE]
            q == Tail(d.ttyiring)
            e == [d EXCEPT !.ttyiring = q]
<1>1. Keyed(c, k) \in {Rlogin(c, k), CommandLine(c), Ordinary(d, k), Ordinary(e, k)}
  BY DEF Keyed, Undoubled
<1>. HIDE DEF q
<1>2. Leaves(c, d)
  BY LeavesUpdates
<1>. HIDE DEF d
<1>3. Leaves(d, e)
  BY <1>2, LeavesUpdates DEF Leaves
<1>. HIDE DEF e
<1>4. Leaves(d, Ordinary(d, k).client) /\ Leaves(d, Ordinary(e, k).client)
  BY <1>2, <1>3, OrdinaryLeaves, LeavesThen DEF Leaves
<1>5. \A f : Leaves(d, f) => Leaves(c, f)
  BY <1>2, LeavesThen
<1>. QED  BY <1>1, <1>4, <1>5, RloginLeaves, CommandLineLeaves

LEMMA OnwardLeaves ==
    ASSUME NEW c, Form(c), NEW looping
    PROVE  Leaves(c, Onward(c, looping))
<1>. DEFINE pc == IF looping /\ c.ttyiring # << >>
                     /\ NetOutSize - Len(c.netoring \o c.writing) > 2 THEN "telsnd"
                  ELSE IF CanReceive(c) THEN "telrcv" ELSE "select"
<1>1. Onward(c, looping) = [c EXCEPT !.pc = pc]
  BY DEF Onward
<1>. HIDE DEF pc
<1>2. Leaves(c, [c EXCEPT !.pc = pc])
  BY LeavesUpdates
<1>. QED  BY <1>1, <1>2

\* What is written to the network.
LEMMA AddLeaves ==
    ASSUME NEW c, Form(c), NEW bytes
    PROVE  Leaves(c, Add(c, bytes))
<1>. DEFINE ring == c.netoring \o bytes
            overrun == c.overrun \/ Len(c.netoring) + Len(bytes) >= NetOutSize
<1>1. Add(c, bytes) = [c EXCEPT !.netoring = ring, !.overrun = overrun]
  BY DEF Add
<1>. HIDE DEF ring, overrun
<1>2. Leaves(c, [c EXCEPT !.netoring = ring, !.overrun = overrun])
  BY LeavesUpdates
<1>. QED  BY <1>1, <1>2

-----------------------------------------------------------------------------
(* telrcv() takes one octet, or two                                        *)

\* What the parser may look at next: octet number base + 1, which is the DM
\* of the last Synch if it has its number.
Ready(c, base, mark) ==
    c.netiring # << >> => /\ Head(c.netiring).n = base + 1
                          /\ mark = base + 1 => Head(c.netiring).code = "DM"

\* The parser is in the given phase, and has taken no more, or the octet
\* behind a carriage return.
Took(c, e, phase, base, mark) ==
    \/ e.netiring = c.netiring /\ PhaseOf(e.state) = phase /\ Tidy(e, base, mark)
    \/ /\ c.netiring # << >> /\ Head(c.netiring).code \in {"NUL", "LF"} /\ phase = "data"
       /\ e.netiring = Tail(c.netiring) /\ PhaseOf(e.state) = "data" /\ Tidy(e, base + 1, mark)

LEMMA StateTidy ==
    ASSUME NEW c, NEW base \in Nat, NEW mark \in Nat, Tidy(c, base, mark), NEW state \in ParserState
    PROVE  LET d == [c EXCEPT !.state = state]
           IN  Tidy(d, base, mark) /\ d.state = state /\ d.netiring = c.netiring
<1>. DEFINE d == [c EXCEPT !.state = state]
<1>1. Form(c)
  BY DEF Tidy, Taken
<1>2. /\ DOMAIN d = Fields /\ d.state = state /\ d.netiring = c.netiring
      /\ d.ttyoring = c.ttyoring /\ d.SYNCHing = c.SYNCHing /\ d.lastDropped = c.lastDropped
  BY <1>1 DEF Form, Fields
<1>. HIDE DEF d
<1>3. Tidy(d, base, mark)
  BY <1>1, <1>2, AlikeTidy DEF Form
<1>. QED  BY <1>2, <1>3 DEF d

LEMMA OneText ==
    ASSUME NEW o \in Octet, NEW base, o.n <= base
    PROVE  /\ <<o>> \in Seq(Octet) /\ <<o>> # << >>
           /\ \A i \in 1 .. Len(<<o>>) : <<o>>[i].n <= base
OBVIOUS

LEMMA ReturnText ==
    ASSUME NEW mode, NEW o \in Octet, NEW base, o.n <= base
    PROVE  /\ Return(mode, o) \in Seq(Octet) /\ Return(mode, o) # << >>
           /\ \A i \in 1 .. Len(Return(mode, o)) : Return(mode, o)[i].n <= base
<1>. DEFINE lf == [o EXCEPT !.code = "LF"]
<1>1. lf \in Octet /\ lf.n = o.n
  BY DEF Octet, Code
<1>. HIDE DEF lf
<1>2. /\ <<o, lf>> \in Seq(Octet) /\ <<o, lf>> # << >>
      /\ \A i \in 1 .. Len(<<o, lf>>) : <<o, lf>>[i].n <= base
  BY <1>1
<1>3. Return(mode, o) = <<o, lf>> \/ Return(mode, o) = <<o>>
  BY DEF Return, lf
<1>. QED  BY <1>2, <1>3, OneText

LEMMA CarriageReturnTook ==
    ASSUME NEW c, NEW base \in Nat, NEW mark \in Nat, Tidy(c, base, mark), Ready(c, base, mark),
           c.state = "data", NEW o \in Octet, o.n <= base
    PROVE  Took(c, CarriageReturn(c, o), "data", base, mark)
<1>. DEFINE next == Head(c.netiring)
            ring == Tail(c.netiring)
            seen == Append(c.seen, next)
            d == [c EXCEPT !.netiring = ring, !.seen = seen]
            cr == [c EXCEPT !.state = "cr"]
            text == Return(c.mode, o)
<1>1. \/ CarriageReturn(c, o) \in {Show(cr, text), Show(c, text)}
      \/ /\ c.netiring # << >> /\ next.code \in {"NUL", "LF"}
         /\ CarriageReturn(c, o) \in {Show(d, <<o>>), Show(d, <<next>>)}
  BY DEF CarriageReturn
<1>2. Form(c) /\ text \in Seq(Octet) /\ text # << >> /\ \A i \in 1 .. Len(text) : text[i].n <= base
  BY ReturnText DEF Tidy, Taken
<1>. HIDE DEF text
<1>3. Tidy(cr, base, mark) /\ cr.state = "cr" /\ cr.netiring = c.netiring
  BY StateTidy DEF ParserState
<1>. HIDE DEF cr
<1>4. /\ Took(c, Show(cr, text), "data", base, mark) /\ Took(c, Show(c, text), "data", base, mark)
  <2>1. /\ Tidy(Show(cr, text), base, mark) /\ Tidy(Show(c, text), base, mark)
        /\ Show(cr, text).netiring = c.netiring /\ Show(cr, text).state = "cr"
        /\ Show(c, text).netiring = c.netiring /\ Show(c, text).state = "data"
    BY <1>2, <1>3, ShowTidy
  <2>2. PhaseOf("cr") = "data" /\ PhaseOf("data") = "data"
    BY DEF PhaseOf
  <2>. QED  BY <2>1, <2>2 DEF Took
<1>5. ASSUME c.netiring # << >>, next.code \in {"NUL", "LF"}
      PROVE  Took(c, Show(d, <<o>>), "data", base, mark) /\ Took(c, Show(d, <<next>>), "data", base, mark)
  <2>1. next \in Octet /\ ring \in Seq(Octet)
    BY <1>2, <1>5, HeadType DEF Form
  <2>2. next.n = base + 1 /\ mark # base + 1
    BY <1>5 DEF Ready
  <2>3. next.n <= base + 1 /\ o.n <= base + 1 /\ base + 1 \in Nat /\ (base < mark => base + 1 < mark)
    BY <2>2 DEF Octet
  <2>. HIDE DEF next, ring, seen
  <2>4. /\ DOMAIN d = Fields /\ d.netiring = ring /\ d.state = c.state
        /\ d.ttyoring = c.ttyoring /\ d.SYNCHing = c.SYNCHing /\ d.lastDropped = c.lastDropped
    BY <1>2 DEF Form, Fields
  <2>. HIDE DEF d
  <2>5. \A i \in 1 .. Len(c.ttyoring) : c.ttyoring[i].n <= base + 1
    <3>1. ASSUME NEW i \in 1 .. Len(c.ttyoring)  PROVE c.ttyoring[i].n <= base + 1
      <4>1. c.ttyoring[i].n <= base /\ c.ttyoring[i] \in Octet
        BY <1>2 DEF Tidy, Taken, Form
      <4>. QED  BY <4>1 DEF Octet
    <3>. QED  BY <3>1
  <2>6. Tidy(d, base + 1, mark)
    BY <1>2, <2>1, <2>3, <2>4, <2>5 DEF Tidy, Taken, Form
  <2>7. /\ Tidy(Show(d, <<o>>), base + 1, mark) /\ Tidy(Show(d, <<next>>), base + 1, mark)
        /\ Show(d, <<o>>).netiring = ring /\ Show(d, <<o>>).state = "data"
        /\ Show(d, <<next>>).netiring = ring /\ Show(d, <<next>>).state = "data"
    <3>1. ASSUME NEW x \in Octet, x.n <= base + 1
          PROVE  /\ Tidy(Show(d, <<x>>), base + 1, mark)
                 /\ Show(d, <<x>>).netiring = ring /\ Show(d, <<x>>).state = "data"
      BY <2>3, <2>4, <2>6, <3>1, OneText, ShowTidy
    <3>. QED  BY <2>1, <2>3, <3>1
  <2>8. PhaseOf("data") = "data"
    BY DEF PhaseOf
  <2>. QED  BY <1>5, <2>7, <2>8 DEF Took, next, ring
<1>. QED  BY <1>1, <1>4, <1>5

\* The hypotheses survive a change of the parser's state.
LEMMA StateReady ==
    ASSUME NEW c, NEW base \in Nat, NEW mark \in Nat, Tidy(c, base, mark), Ready(c, base, mark),
           NEW state \in ParserState
    PROVE  LET d == [c EXCEPT !.state = state]
           IN  /\ Tidy(d, base, mark) /\ Ready(d, base, mark) /\ d.state = state
               /\ d.netiring = c.netiring
               /\ \A e, phase : Took(d, e, phase, base, mark) => Took(c, e, phase, base, mark)
<1>. DEFINE d == [c EXCEPT !.state = state]
<1>1. Tidy(d, base, mark) /\ d.state = state /\ d.netiring = c.netiring
  BY StateTidy
<1>. HIDE DEF d
<1>2. Ready(d, base, mark) /\ \A e, phase : Took(d, e, phase, base, mark) => Took(c, e, phase, base, mark)
  BY <1>1 DEF Ready, Took
<1>. QED  BY <1>1, <1>2 DEF d

LEMMA ReceiveDataTook ==
    ASSUME NEW c, NEW base \in Nat, NEW mark \in Nat, Tidy(c, base, mark), Ready(c, base, mark),
           NEW o \in Octet, o.n <= base
    PROVE  Took(c, ReceiveData(c, o), After("data", o.code), base, mark)
<1>. DEFINE d == [c EXCEPT !.state = "data"]
            iac == [c EXCEPT !.state = "iac"]
<1>1. \/ o.code = "IAC" /\ ReceiveData(c, o) = iac
      \/ o.code # "IAC" /\ ReceiveData(c, o) \in {CarriageReturn(d, o), Show(d, <<o>>)}
  BY DEF ReceiveData
<1>2. /\ Tidy(d, base, mark) /\ Ready(d, base, mark) /\ d.state = "data" /\ d.netiring = c.netiring
      /\ \A e, phase : Took(d, e, phase, base, mark) => Took(c, e, phase, base, mark)
  BY StateReady DEF ParserState
<1>3. Tidy(iac, base, mark) /\ iac.state = "iac" /\ iac.netiring = c.netiring
  BY StateTidy DEF ParserState
<1>. HIDE DEF d, iac
<1>4. CASE o.code = "IAC"
  <2>1. PhaseOf("iac") = "iac" /\ After("data", o.code) = "iac"
    BY <1>4 DEF PhaseOf, After
  <2>. QED  BY <1>1, <1>3, <1>4, <2>1 DEF Took
<1>5. CASE o.code # "IAC"
  <2>1. PhaseOf("data") = "data" /\ After("data", o.code) = "data"
    BY <1>5 DEF PhaseOf, After
  <2>2. Tidy(Show(d, <<o>>), base, mark) /\ Show(d, <<o>>).netiring = c.netiring /\ Show(d, <<o>>).state = "data"
    BY <1>2, OneText, ShowTidy
  <2>3. Took(c, Show(d, <<o>>), "data", base, mark)
    BY <2>1, <2>2 DEF Took
  <2>4. Took(c, CarriageReturn(d, o), "data", base, mark)
    BY <1>2, CarriageReturnTook
  <2>. QED  BY <1>1, <1>5, <2>1, <2>3, <2>4
<1>. QED  BY <1>4, <1>5

LEMMA ReceiveAfterCrTook ==
    ASSUME NEW c, NEW base \in Nat, NEW mark \in Nat, Tidy(c, base, mark), Ready(c, base, mark),
           NEW o \in Octet, o.n <= base
    PROVE  Took(c, ReceiveAfterCr(c, o), After("data", o.code), base, mark)
<1>. DEFINE d == [c EXCEPT !.state = "data"]
<1>1. \/ ReceiveAfterCr(c, o) = ReceiveData(c, o)
      \/ o.code # "IAC" /\ ReceiveAfterCr(c, o) \in {d, Show(d, <<o>>)}
  BY DEF ReceiveAfterCr
<1>2. Tidy(d, base, mark) /\ d.state = "data" /\ d.netiring = c.netiring
  BY StateTidy DEF ParserState
<1>. HIDE DEF d
<1>3. Tidy(Show(d, <<o>>), base, mark) /\ Show(d, <<o>>).netiring = c.netiring /\ Show(d, <<o>>).state = "data"
  BY <1>2, OneText, ShowTidy
<1>4. ASSUME o.code # "IAC"  PROVE PhaseOf("data") = "data" /\ After("data", o.code) = "data"
  BY <1>4 DEF PhaseOf, After
<1>5. ASSUME o.code # "IAC"
      PROVE  /\ Took(c, d, After("data", o.code), base, mark)
             /\ Took(c, Show(d, <<o>>), After("data", o.code), base, mark)
  BY <1>2, <1>3, <1>4, <1>5 DEF Took
<1>. QED  BY <1>1, <1>5, ReceiveDataTook

\* A command that is no DM.
LEMMA ReceiveCommandTook ==
    ASSUME NEW c, NEW base \in Nat, NEW mark \in Nat, Tidy(c, base, mark),
           NEW o \in Octet, o.n <= base, o.code # "DM", NEW pending
    PROVE  Took(c, ReceiveCommand(c, o, pending), After("iac", o.code), base, mark)
<1>. DEFINE d == [c EXCEPT !.state = "data"]
            verb == [c EXCEPT !.state = o.code]
            sb == [c EXCEPT !.state = "sb"]
            e == ReceiveCommand(c, o, pending)
<1>1. Tidy(d, base, mark) /\ d.state = "data" /\ d.netiring = c.netiring
  BY StateTidy DEF ParserState
<1>2. Tidy(sb, base, mark) /\ sb.state = "sb" /\ sb.netiring = c.netiring
  BY StateTidy DEF ParserState
<1>3. ASSUME o.code \in {"WILL", "DO", "DONT"}
      PROVE  Tidy(verb, base, mark) /\ verb.state = o.code /\ verb.netiring = c.netiring
  <2>. DEFINE state == o.code
  <2>1. state \in ParserState /\ verb = [c EXCEPT !.state = state]
    BY <1>3 DEF ParserState
  <2>. HIDE DEF state, verb
  <2>2. Tidy(verb, base, mark) /\ verb.state = state /\ verb.netiring = c.netiring
    BY <2>1, StateTidy
  <2>. QED  BY <2>2 DEF state
<1>4. CASE o.code \in {"WILL", "DO", "DONT"}
  <2>1. e = verb /\ PhaseOf(o.code) = "option" /\ After("iac", o.code) = "option"
    BY <1>4 DEF ReceiveCommand, PhaseOf, After
  <2>. HIDE DEF verb, e
  <2>. QED  BY <1>3, <1>4, <2>1 DEF Took, e
<1>5. CASE o.code = "SB"
  <2>1. e = sb /\ PhaseOf("sb") = "sb" /\ After("iac", o.code) = "sb"
    BY <1>5 DEF ReceiveCommand, PhaseOf, After
  <2>. HIDE DEF sb, e
  <2>. QED  BY <1>2, <2>1 DEF Took, e
<1>6. CASE o.code \notin {"WILL", "DO", "DONT", "SB"}
  <2>1. e \in {Show(d, <<o>>), d} /\ PhaseOf("data") = "data" /\ After("iac", o.code) = "data"
    BY <1>6 DEF ReceiveCommand, PhaseOf, After
  <2>. HIDE DEF d, e
  <2>2. Tidy(Show(d, <<o>>), base, mark) /\ Show(d, <<o>>).netiring = c.netiring /\ Show(d, <<o>>).state = "data"
    BY <1>1, OneText, ShowTidy
  <2>. QED  BY <1>1, <2>1, <2>2 DEF Took, e
<1>. QED  BY <1>4, <1>5, <1>6

LEMMA AnsweredTook ==
    ASSUME NEW c, NEW d, NEW phase, NEW base \in Nat, NEW mark \in Nat,
           Took(c, d, phase, base, mark), NEW e \in Answered(d)
    PROVE  Took(c, e, phase, base, mark)
<1>1. Form(d)
  BY DEF Took, Tidy, Taken
<1>2. PICK bytes, says : e = Emit(d, bytes, says)
  BY DEF Answered
<1>3. Leaves(d, e)
  BY <1>1, <1>2, EmitLeaves
<1>. QED  BY <1>3 DEF Took, Leaves

LEMMA ReceiveOptionTook ==
    ASSUME NEW c, NEW base \in Nat, NEW mark \in Nat, Tidy(c, base, mark), NEW o,
           NEW e \in ReceiveOption(c, o)
    PROVE  Took(c, e, "data", base, mark)
<1>. DEFINE d == [c EXCEPT !.state = "data"]
            f == [d EXCEPT !.flushout = FALSE]
            g == NewMode(d)
<1>1. e = f \/ e \in Answered(g) \/ e \in Answered(d)
  BY DEF ReceiveOption
<1>2. Tidy(d, base, mark) /\ d.state = "data" /\ d.netiring = c.netiring
  BY StateTidy DEF ParserState
<1>. HIDE DEF d
<1>3. Leaves(d, f) /\ Leaves(d, g)
  BY <1>2, LeavesUpdates, NewModeLeaves DEF Tidy, Taken
<1>. HIDE DEF f, g
<1>4. PhaseOf("data") = "data"
  BY DEF PhaseOf
<1>5. Took(c, d, "data", base, mark) /\ Took(c, f, "data", base, mark) /\ Took(c, g, "data", base, mark)
  BY <1>2, <1>3, <1>4 DEF Leaves, Took
<1>. QED  BY <1>1, <1>5, AnsweredTook

\* A mode is set, with the DM perhaps just taken.
LEMMA NewModeTaken ==
    ASSUME NEW c, NEW base \in Nat, NEW mark \in Nat, Taken(c, base, mark),
           base <= mark \/ Tidy(c, base, mark)
    PROVE  /\ Taken(NewMode(c), base, mark)
           /\ Tidy(c, base, mark) => Tidy(NewMode(c), base, mark)
           /\ NewMode(c).netiring = c.netiring /\ NewMode(c).state = c.state
<1>1. Form(c)
  BY DEF Taken
<1>2. Leaves(c, NewMode(c))
  BY <1>1, NewModeLeaves
<1>3. ASSUME ~Tidy(c, base, mark)  PROVE Taken(NewMode(c), base, mark)
  <2>1. NewMode(c) = Drop(c)
    BY <1>3 DEF Tidy, NewMode, TtyFlush
  <2>. QED  BY <1>3, <2>1, DropTaken
<1>. QED  BY <1>2, <1>3 DEF Leaves, Tidy

LEMMA CutShortTaken ==
    ASSUME NEW c, NEW base \in Nat, NEW mark \in Nat, Taken(c, base, mark), NEW o,
           base <= mark \/ Tidy(c, base, mark)
    PROVE  /\ Taken(CutShort(c, o), base, mark)
           /\ Tidy(c, base, mark) => Tidy(CutShort(c, o), base, mark)
           /\ CutShort(c, o).netiring = c.netiring /\ CutShort(c, o).state = "iac"
<1>. DEFINE iac == [c EXCEPT !.state = "iac"]
            d == NewMode(iac)
            seen == <<o>>
            e == [d EXCEPT !.seen = seen]
<1>1. CutShort(c, o) = d \/ CutShort(c, o) = e
  BY DEF CutShort
<1>2. Form(c)
  BY DEF Taken
<1>3. /\ DOMAIN iac = Fields /\ iac.state = "iac" /\ iac.netiring = c.netiring
      /\ iac.ttyoring = c.ttyoring /\ iac.SYNCHing = c.SYNCHing /\ iac.lastDropped = c.lastDropped
  BY <1>2 DEF Form, Fields
<1>. HIDE DEF iac, seen
<1>4. Taken(iac, base, mark) /\ (Tidy(c, base, mark) => Tidy(iac, base, mark))
  BY <1>2, <1>3, AlikeTidy DEF Form, ParserState
<1>5. /\ Taken(d, base, mark) /\ (Tidy(c, base, mark) => Tidy(d, base, mark))
      /\ d.netiring = c.netiring /\ d.state = "iac"
  BY <1>3, <1>4, NewModeTaken
<1>. HIDE DEF d
<1>6. Form(d)
  BY <1>5 DEF Taken
<1>7. /\ DOMAIN e = Fields /\ e.state = d.state /\ e.netiring = d.netiring
      /\ e.ttyoring = d.ttyoring /\ e.SYNCHing = d.SYNCHing /\ e.lastDropped = d.lastDropped
  BY <1>6 DEF Form, Fields
<1>. HIDE DEF e
<1>8. Taken(e, base, mark) /\ (Tidy(c, base, mark) => Tidy(e, base, mark))
  BY <1>5, <1>6, <1>7, AlikeTidy DEF Form
<1>. QED  BY <1>1, <1>5, <1>7, <1>8

LEMMA ReceiveSubEndTook ==
    ASSUME NEW c, NEW base \in Nat, NEW mark \in Nat, Tidy(c, base, mark), NEW o \in Octet,
           o.n <= base, o.code # "DM", NEW pending, NEW e \in ReceiveSubEnd(c, o, pending)
    PROVE  Took(c, e, After("se", o.code), base, mark)
<1>. DEFINE d == [c EXCEPT !.state = "data"]
            sb == [c EXCEPT !.state = "sb"]
            g == NewMode(d)
            command == ReceiveCommand(c, o, pending)
            cut == CutShort(c, o)
            late == ReceiveCommand(cut, o, pending)
<1>1. Tidy(d, base, mark) /\ d.state = "data" /\ d.netiring = c.netiring
  BY StateTidy DEF ParserState
<1>2. Tidy(sb, base, mark) /\ sb.state = "sb" /\ sb.netiring = c.netiring
  BY StateTidy DEF ParserState
<1>3. CASE o.code = "IAC"
  <2>1. e = sb /\ PhaseOf("sb") = "sb" /\ After("se", o.code) = "sb"
    BY <1>3 DEF ReceiveSubEnd, PhaseOf, After
  <2>. HIDE DEF sb
  <2>. QED  BY <1>2, <2>1 DEF Took
<1>4. CASE o.code = "SE"
  <2>1. /\ e \in Answered(d) \/ e \in Answered(g)
        /\ PhaseOf("data") = "data" /\ After("se", o.code) = "data"
    BY <1>4 DEF ReceiveSubEnd, PhaseOf, After
  <2>. HIDE DEF d
  <2>2. Leaves(d, g)
    BY <1>1, NewModeLeaves DEF Tidy, Taken
  <2>. HIDE DEF g
  <2>3. Took(c, d, "data", base, mark) /\ Took(c, g, "data", base, mark)
    BY <1>1, <2>1, <2>2 DEF Took, Leaves
  <2>. QED  BY <2>1, <2>3, AnsweredTook
<1>5. CASE o.code \notin {"IAC", "SE"}
  <2>1. /\ e \in Answered(command) \/ e \in Answered(late)
        /\ After("se", o.code) = After("iac", o.code)
    BY <1>5 DEF ReceiveSubEnd, After
  <2>2. Took(c, command, After("iac", o.code), base, mark)
    BY ReceiveCommandTook
  <2>3. Tidy(cut, base, mark) /\ cut.netiring = c.netiring
    BY CutShortTaken DEF Tidy
  <2>. HIDE DEF cut
  <2>4. Took(cut, late, After("iac", o.code), base, mark)
    BY <2>3, ReceiveCommandTook
  <2>. HIDE DEF command, late
  <2>5. Took(c, late, After("iac", o.code), base, mark)
    BY <2>3, <2>4 DEF Took
  <2>. QED  BY <2>1, <2>2, <2>5, AnsweredTook
<1>. QED  BY <1>3, <1>4, <1>5

\* The DM of a Synch.  pending: that of a later one is unread.
LEMMA DataMarkTook ==
    ASSUME NEW c, NEW base \in Nat, NEW mark \in Nat, Taken(c, base, mark), base <= mark,
           NEW pending, pending => base < mark
    PROVE  /\ Tidy(DataMark(c, pending), base, mark) /\ DataMark(c, pending).state = "data"
           /\ DataMark(c, pending).netiring = c.netiring
<1>. DEFINE d == [c EXCEPT !.state = "data"]
            e == Drop(d)
            f == [e EXCEPT !.SYNCHing = pending]
<1>1. Form(c)
  BY DEF Taken
<1>2. /\ DOMAIN d = Fields /\ d.state = "data" /\ d.netiring = c.netiring
      /\ d.ttyoring = c.ttyoring /\ d.SYNCHing = c.SYNCHing /\ d.lastDropped = c.lastDropped
  BY <1>1 DEF Form, Fields
<1>3. DataMark(c, pending) = f
  BY DEF DataMark
<1>. HIDE DEF d
<1>4. Taken(d, base, mark) /\ Form(d)
  BY <1>1, <1>2, AlikeTidy DEF ParserState, Form
<1>5. /\ Taken(e, base, mark) /\ e.ttyoring = << >> /\ e.netiring = c.netiring /\ e.state = "data"
      /\ DOMAIN e = Fields
  BY <1>2, <1>4, DropTaken, DropSame DEF Taken, Form
<1>. HIDE DEF e
<1>6. /\ DOMAIN f = Fields /\ f.state = "data" /\ f.netiring = c.netiring
      /\ f.ttyoring = << >> /\ f.SYNCHing = pending /\ f.lastDropped = e.lastDropped
  BY <1>5 DEF Fields
<1>. HIDE DEF f
<1>7. Tidy(f, base, mark)
  BY <1>1, <1>5, <1>6 DEF Tidy, Taken, Form
<1>. QED  BY <1>3, <1>6, <1>7

-----------------------------------------------------------------------------
(* A step of telrcv()                                                      *)

\* The first octet that is unread is taken from the ring.
LEMMA UnreadHead ==
    ASSUME NEW s \in Seq(Octet), s # << >>, NEW t \in Seq(Octet), NEW p, NEW base \in Nat, NEW mark,
           Unread(p, s \o t, base, mark)
    PROVE  /\ Head(s) \in Octet /\ Tail(s) \in Seq(Octet) /\ Len(s) = Len(Tail(s)) + 1
           /\ \E q : ReadAs(Head(s), p, q, base + 1, mark) /\ Unread(q, Tail(s) \o t, base + 1, mark)
<1>. DEFINE o == Head(s)
            ring == Tail(s)
            one == <<o>>
            rest == ring \o t
<1>1. o \in Octet /\ ring \in Seq(Octet) /\ Len(s) = Len(ring) + 1 /\ s = one \o ring
  OBVIOUS
<1>. HIDE DEF o, ring
<1>2. one \in Seq(Octet)
  BY <1>1
<1>3. rest \in Seq(Octet)
  BY <1>1, JoinedSeq
<1>4. s \o t = one \o rest
  <2>. HIDE DEF one
  <2>. QED  BY <1>1, <1>2, OctetsJoined, Zenon
<1>. HIDE DEF rest
<1>5. \E q : ReadAs(o, p, q, base + 1, mark) /\ Unread(q, rest, base + 1, mark)
  BY <1>1, <1>3, <1>4, UnreadTaken
<1>. QED  BY <1>1, <1>5 DEF o, ring, rest

LEMMA Phases ==
    /\ PhaseOf("data") = "data" /\ PhaseOf("cr") = "data" /\ PhaseOf("iac") = "iac"
    /\ \A state \in {"WILL", "DO", "DONT"} : PhaseOf(state) = "option"
    /\ PhaseOf("sb") = "sb" /\ PhaseOf("se") = "se"
    /\ \A code : After("option", code) = "data"
    /\ \A code : After("sb", code) = IF code = "IAC" THEN "se" ELSE "sb"
    /\ After("iac", "DM") = "data" /\ After("se", "DM") = "data"
    /\ After("data", "NUL") = "data" /\ After("data", "LF") = "data"
BY DEF PhaseOf, After

\* c has taken the octet o, which is number base and was not the DM.
LEMMA OtherTook ==
    ASSUME NEW c, NEW base \in Nat, NEW mark \in Nat, Tidy(c, base, mark), Ready(c, base, mark),
           NEW o \in Octet, o.n <= base, NEW pending,
           ~(PhaseOf(c.state) \in {"iac", "se"} /\ o.code = "DM"), NEW e,
           e \in CASE c.state = "data" -> {ReceiveData(c, o)}
                   [] c.state = "cr" -> {ReceiveAfterCr(c, o)}
                   [] c.state = "iac" -> {ReceiveCommand(c, o, pending)}
                   [] c.state \in {"WILL", "DO", "DONT"} -> ReceiveOption(c, o)
                   [] c.state = "sb" -> {IF o.code = "IAC" THEN [c EXCEPT !.state = "se"] ELSE c}
                   [] c.state = "se" -> ReceiveSubEnd(c, o, pending)
    PROVE  Took(c, e, After(PhaseOf(c.state), o.code), base, mark)
<1>1. c.state \in ParserState
  BY DEF Tidy, Taken, Form
<1>2. CASE c.state = "data"
  BY <1>2, ReceiveDataTook, Phases
<1>3. CASE c.state = "cr"
  BY <1>3, ReceiveAfterCrTook, Phases
<1>4. CASE c.state = "iac"
  BY <1>4, ReceiveCommandTook, Phases
<1>5. CASE c.state \in {"WILL", "DO", "DONT"}
  <2>1. e \in ReceiveOption(c, o)
    BY <1>5
  <2>2. After(PhaseOf(c.state), o.code) = "data"
    BY <1>5, Phases
  <2>. QED  BY <2>1, <2>2, ReceiveOptionTook
<1>6. CASE c.state = "sb"
  <2>. DEFINE d == [c EXCEPT !.state = "se"]
  <2>1. e = IF o.code = "IAC" THEN d ELSE c
    BY <1>6
  <2>2. After(PhaseOf(c.state), o.code) = IF o.code = "IAC" THEN "se" ELSE "sb"
    BY <1>6, Phases
  <2>3. Tidy(d, base, mark) /\ d.state = "se" /\ d.netiring = c.netiring
    BY StateTidy DEF ParserState
  <2>. HIDE DEF d
  <2>. QED  BY <1>6, <2>1, <2>2, <2>3, Phases DEF Took
<1>7. CASE c.state = "se"
  <2>1. e \in ReceiveSubEnd(c, o, pending) /\ o.code # "DM"
    BY <1>7, Phases
  <2>2. PhaseOf(c.state) = "se"
    BY <1>7, Phases
  <2>. QED  BY <2>1, <2>2, ReceiveSubEndTook
<1>. QED  BY <1>1, <1>2, <1>3, <1>4, <1>5, <1>6, <1>7 DEF ParserState

LEMMA MarkTook ==
    ASSUME NEW c, NEW base \in Nat, NEW mark \in Nat, Taken(c, base, mark), base <= mark,
           NEW o, o.code = "DM", NEW pending, pending => base < mark, NEW e,
           \/ c.state = "iac" /\ e = ReceiveCommand(c, o, pending)
           \/ c.state = "se" /\ e \in ReceiveSubEnd(c, o, pending)
    PROVE  Took(c, e, "data", base, mark)
<1>. DEFINE cut == CutShort(c, o)
            d == DataMark(c, pending)
            f == DataMark(cut, pending)
<1>1. e = d \/ e \in Answered(d) \/ e \in Answered(f)
  BY DEF ReceiveCommand, ReceiveSubEnd
<1>2. Taken(cut, base, mark) /\ cut.netiring = c.netiring
  BY CutShortTaken
<1>. HIDE DEF cut
<1>3. /\ Tidy(d, base, mark) /\ d.state = "data" /\ d.netiring = c.netiring
      /\ Tidy(f, base, mark) /\ f.state = "data" /\ f.netiring = c.netiring
  BY <1>2, DataMarkTook
<1>. HIDE DEF d, f
<1>4. Took(c, d, "data", base, mark) /\ Took(c, f, "data", base, mark)
  BY <1>3, Phases DEF Took
<1>. QED  BY <1>1, <1>4, AnsweredTook

\* telrcv() takes an octet, or a carriage return and what follows it.
LEMMA ReceivedTook ==
    ASSUME NEW c, NEW base \in Nat, NEW mark \in Nat, Tidy(c, base, mark), c.netiring # << >>,
           NEW t \in Seq(Octet), Unread(PhaseOf(c.state), c.netiring \o t, base, mark),
           NEW pending, pending => base + 1 < mark, NEW e \in Received(c, pending)
    PROVE  \E n \in {1, 2} :
              /\ Tidy(e, base + n, mark) /\ Len(c.netiring) = Len(e.netiring) + n
              /\ Unread(PhaseOf(e.state), e.netiring \o t, base + n, mark)
<1>. DEFINE o == Head(c.netiring)
            ring == Tail(c.netiring)
            seen == Append(c.seen, o)
            d == [c EXCEPT !.netiring = ring, !.seen = seen]
            p == PhaseOf(c.state)
            next == base + 1
<1>1. Form(c) /\ c.netiring \in Seq(Octet) /\ c.state \in ParserState
  BY DEF Tidy, Taken, Form
<1>2. o \in Octet /\ ring \in Seq(Octet) /\ Len(c.netiring) = Len(ring) + 1
  BY <1>1, UnreadHead
<1>3. PICK q : ReadAs(o, p, q, next, mark) /\ Unread(q, ring \o t, next, mark)
  BY <1>1, UnreadHead
<1>4. /\ next \in Nat /\ next = base + 1 /\ (base < mark => next <= mark)
  OBVIOUS
<1>5. e \in CASE d.state = "data" -> {ReceiveData(d, o)}
              [] d.state = "cr" -> {ReceiveAfterCr(d, o)}
              [] d.state = "iac" -> {ReceiveCommand(d, o, pending)}
              [] d.state \in {"WILL", "DO", "DONT"} -> ReceiveOption(d, o)
              [] d.state = "sb" -> {IF o.code = "IAC" THEN [d EXCEPT !.state = "se"] ELSE d}
              [] d.state = "se" -> ReceiveSubEnd(d, o, pending)
  <2>1. d.state = c.state
    BY <1>1 DEF Form, Fields
  <2>. QED  BY <2>1 DEF Received
<1>. HIDE DEF o, ring, seen
<1>6. /\ DOMAIN d = Fields /\ d.netiring = ring /\ d.state = c.state
      /\ d.ttyoring = c.ttyoring /\ d.SYNCHing = c.SYNCHing /\ d.lastDropped = c.lastDropped
  BY <1>1 DEF Form, Fields
<1>. HIDE DEF d, p, next
<1>7. o.n <= next /\ q = After(p, o.code) /\ next \in Int
  BY <1>2, <1>3, <1>4 DEF ReadAs, Octet
<1>8. Taken(d, next, mark)
  <2>1. ASSUME NEW i \in 1 .. Len(c.ttyoring)  PROVE c.ttyoring[i].n <= next
    <3>1. c.ttyoring[i].n <= base /\ c.ttyoring[i] \in Octet
      BY <1>1 DEF Tidy, Taken, Form
    <3>. QED  BY <1>4, <3>1 DEF Octet
  <2>. QED  BY <1>1, <1>2, <1>6, <2>1 DEF Tidy, Taken, Form
<1>9. Took(d, e, q, next, mark)
  <2>1. CASE p \in {"iac", "se"} /\ o.code = "DM"
    <3>1. next <= mark /\ q = "data"
      BY <1>3, <1>7, <2>1, Phases DEF ReadAs
    <3>2. c.state \in {"iac", "se"}
      BY <1>1, <2>1 DEF p, PhaseOf
    <3>3. pending => next < mark
      BY <1>4
    <3>4. \/ d.state = "iac" /\ e = ReceiveCommand(d, o, pending)
          \/ d.state = "se" /\ e \in ReceiveSubEnd(d, o, pending)
      BY <1>5, <1>6, <3>2
    <3>. QED  BY <1>4, <1>8, <2>1, <3>1, <3>3, <3>4, MarkTook
  <2>2. CASE ~(p \in {"iac", "se"} /\ o.code = "DM")
    <3>1. mark # next
      BY <1>3, <2>2 DEF ReadAs
    <3>2. Tidy(d, next, mark)
      <4>1. c.SYNCHing => c.ttyoring = << >> /\ next < mark
        BY <1>4, <3>1 DEF Tidy
      <4>. QED  BY <1>6, <1>8, <4>1 DEF Tidy
    <3>3. Ready(d, next, mark)
      <4>1. SUFFICES ASSUME ring # << >>
                     PROVE  Head(ring).n = next + 1 /\ (mark = next + 1 => Head(ring).code = "DM")
        BY <1>6 DEF Ready
      <4>2. PICK r : ReadAs(Head(ring), q, r, next + 1, mark)
        BY <1>2, <1>3, <1>4, <4>1, UnreadHead
      <4>. QED  BY <4>2 DEF ReadAs
    <3>4. ~(PhaseOf(d.state) \in {"iac", "se"} /\ o.code = "DM")
      BY <1>6, <2>2 DEF p
    <3>5. Took(d, e, After(PhaseOf(d.state), o.code), next, mark)
      BY <1>2, <1>4, <1>5, <1>7, <3>2, <3>3, <3>4, OtherTook
    <3>. QED  BY <1>6, <1>7, <3>5 DEF p
  <2>. QED  BY <2>1, <2>2
<1>10. CASE e.netiring = ring /\ PhaseOf(e.state) = q /\ Tidy(e, next, mark)
  BY <1>2, <1>3, <1>4, <1>10
<1>11. CASE /\ ring # << >> /\ Head(ring).code \in {"NUL", "LF"} /\ q = "data"
            /\ e.netiring = Tail(ring) /\ PhaseOf(e.state) = "data" /\ Tidy(e, next + 1, mark)
  <2>1. PICK r : ReadAs(Head(ring), q, r, next + 1, mark) /\ Unread(r, Tail(ring) \o t, next + 1, mark)
    BY <1>2, <1>3, <1>4, <1>11, UnreadHead
  <2>2. Len(ring) = Len(Tail(ring)) + 1 /\ Len(Tail(ring)) \in Nat
    BY <1>2, <1>11
  <2>3. r = "data"
    BY <1>11, <2>1, Phases DEF ReadAs
  <2>4. next + 1 = base + 2 /\ Len(c.netiring) = Len(e.netiring) + 2
    BY <1>2, <1>4, <1>11, <2>2
  <2>. QED  BY <1>11, <2>1, <2>3, <2>4
<1>. QED  BY <1>6, <1>9, <1>10, <1>11 DEF Took

-----------------------------------------------------------------------------
(* The octets of the client's ring and of the stream are numbered from     *)
(* base on.                                                                *)

Numbered(c, s, base, octets, mark) ==
    /\ octets = base + Len(c.netiring) + Len(s) /\ mark <= octets
    /\ Unread(PhaseOf(c.state), c.netiring \o s, base, mark) /\ Tidy(c, base, mark)

\* The urgent byte stands no later than the last DM.
Notice(s, place, octets, mark) ==
    place # 0 => place \in 1 .. Len(s) /\ octets - Len(s) + place <= mark

NumInv ==
    /\ told.mark \in Nat /\ Notice(stream, urgent, told.octets, told.mark)
    /\ \E base \in Nat : Numbered(client, stream, base, told.octets, told.mark)

LEMMA NumInit == Init => NumInv
<1>. SUFFICES ASSUME Init  PROVE NumInv
  OBVIOUS
<1>1. PICK mode \in Modes : client = ClientInit(mode)
  BY DEF Init
<1>2. stream = << >> /\ urgent = 0 /\ told.octets = 0 /\ told.mark = 0
  BY DEF Init
<1>3. /\ client.netiring = << >> /\ client.ttyoring = << >> /\ client.state = "data"
      /\ client.SYNCHing = FALSE /\ client.lastDropped = 0
  BY <1>1 DEF ClientInit
<1>4. Form(client)
  BY InitInv, ClientForm
<1>5. Tidy(client, 0, 0)
  BY <1>3, <1>4 DEF Tidy, Taken
<1>6. << >> \o << >> = << >> /\ Len(<< >>) = 0
  OBVIOUS
<1>7. Unread("data", << >>, 0, 0)
  <2>. DEFINE at == [i \in 0 .. 0 |-> "data"]
  <2>1. at \in [0 .. 0 -> Phase] /\ at[0] = "data"
    BY DEF Phase
  <2>. HIDE DEF at
  <2>2. \A i \in 1 .. 0 : ReadAs(<< >>[i], at[i - 1], at[i], 0 + i, 0)
    OBVIOUS
  <2>. QED  BY <1>6, <2>1, <2>2 DEF Unread
<1>8. Numbered(client, stream, 0, 0, 0)
  BY <1>2, <1>3, <1>5, <1>6, <1>7, Phases DEF Numbered
<1>. QED  BY <1>2, <1>8 DEF NumInv, Notice

LEMMA StreamLengths ==
    ASSUME IndInv
    PROVE  /\ Len(stream) \in Nat /\ Len(client.netiring) \in Nat /\ told.octets \in Nat
           /\ client.netiring \in Seq(Octet) /\ stream \in Seq(Octet) /\ Form(client)
BY ClientForm, Lengths DEF IndInv, Form

\* While urgent data is pending its DM is unread, and stands behind the ring.
LEMMA NoticedBefore ==
    ASSUME IndInv, NumInv, NEW base \in Nat,
           Numbered(client, stream, base, told.octets, told.mark), urgent # 0
    PROVE  base + Len(client.netiring) < told.mark
BY StreamLengths DEF NumInv, Numbered, Notice

-----------------------------------------------------------------------------
(* The steps                                                               *)

LEMMA LeavesNum ==
    ASSUME NumInv, Leaves(client, client'), UNCHANGED <<stream, urgent, told>>
    PROVE  NumInv'
<1>1. PICK base \in Nat : Numbered(client, stream, base, told.octets, told.mark)
  BY DEF NumInv
<1>2. told.mark \in Nat
  BY DEF NumInv
<1>3. Numbered(client', stream, base, told.octets, told.mark)
  BY <1>1, <1>2 DEF Numbered, Leaves
<1>. QED  BY <1>2, <1>3 DEF NumInv

LEMMA ServerSendsNum ==
    ASSUME IndInv, NumInv, NEW unit \in Seq(Code), Whole(unit), NEW place,
           ServerSends(unit, place), place # 0 => unit = Synch /\ place \in {1, 2},
           told'.octets = told.octets + Len(unit),
           told'.mark = IF unit = Synch THEN told.octets + 2 ELSE told.mark
    PROVE  NumInv'
<1>. DEFINE more == [i \in DOMAIN unit |-> [code |-> unit[i], n |-> told.octets + i]]
            octets == told.octets
            mark == told.mark
            last == IF unit = Synch THEN octets + 2 ELSE mark
            s == client.netiring \o stream
            k == Len(unit)
            p == PhaseOf(client.state)
            t == more
<1>1. /\ stream' = stream \o more /\ UNCHANGED client
      /\ urgent' = IF place > 0 THEN Len(stream) + place ELSE urgent
  BY DEF ServerSends
<1>2. PICK base \in Nat : Numbered(client, stream, base, octets, mark)
  BY DEF NumInv
<1>3. /\ Len(stream) \in Nat /\ Len(client.netiring) \in Nat /\ octets \in Nat /\ mark \in Nat
      /\ client.netiring \in Seq(Octet) /\ stream \in Seq(Octet) /\ mark <= octets
      /\ octets = base + Len(client.netiring) + Len(stream) /\ k \in Nat
  BY <1>2, StreamLengths DEF NumInv, Numbered
<1>4. s \in Seq(Octet) /\ Len(s) = Len(client.netiring) + Len(stream)
  BY <1>3, JoinedSeq
<1>5. Unread(p, s, base, mark) /\ Tidy(client, base, mark)
  BY <1>2 DEF Numbered
<1>6. unit = Synch => k = 2
  BY DEF Synch
<1>7. told'.octets = octets + k /\ told'.mark = last
  OBVIOUS
<1>8. t = Written(unit, octets)
  BY DEF Written
<1>. HIDE DEF more, octets, mark, s, p, t
<1>9. /\ t \in Seq(Octet) /\ Len(t) = k /\ Unread(p, s \o t, base, last)
  <2>1. octets = base + Len(s) /\ mark <= octets
    BY <1>3, <1>4
  <2>2. octets \in Nat /\ mark \in Nat /\ s \in Seq(Octet)
    BY <1>3, <1>4
  <2>. QED  BY <1>5, <1>8, <2>1, <2>2, UnreadMore
<1>. HIDE DEF k
<1>12. last \in Nat /\ mark <= last /\ last <= octets + k
  BY <1>3, <1>6
<1>. HIDE DEF last
<1>10. s \o t = client.netiring \o stream'
  BY <1>1, <1>3, <1>9, OctetsJoined, Zenon DEF s, t
<1>11. Len(stream') = Len(stream) + k
  <2>1. stream' = stream \o t
    BY <1>1 DEF t
  <2>. QED  BY <1>3, <1>9, <2>1, JoinedSeq
<1>13. Tidy(client, base, last)
  BY <1>3, <1>5, <1>12 DEF Tidy, Taken
<1>14. Numbered(client', stream', base, octets + k, last)
  <2>1. octets + k = base + Len(client.netiring) + Len(stream')
    <3>. DEFINE ring == Len(client.netiring)
                before == Len(stream)
                after == Len(stream')
    <3>1. /\ octets = base + ring + before /\ after = before + k
          /\ octets \in Nat /\ ring \in Nat /\ before \in Nat /\ k \in Nat
      BY <1>3, <1>11
    <3>. HIDE DEF ring, before, after
    <3>2. octets + k = base + ring + after
      BY <3>1
    <3>. QED  BY <3>2 DEF ring, after
  <2>2. Unread(p, client.netiring \o stream', base, last)
    BY <1>9, <1>10
  <2>. QED  BY <1>1, <1>12, <1>13, <2>1, <2>2 DEF Numbered, p
<1>15. Notice(stream', urgent', octets + k, last)
  <2>1. Notice(stream, urgent, octets, mark)
    BY DEF NumInv, octets, mark
  <2>2. CASE place = 0
    BY <1>1, <1>3, <1>11, <1>12, <2>1, <2>2 DEF Notice
  <2>3. CASE place # 0
    <3>1. unit = Synch /\ place \in {1, 2} /\ k = 2 /\ last = octets + 2
      BY <1>6, <2>3 DEF last
    <3>. QED  BY <1>1, <1>3, <1>11, <3>1 DEF Notice
  <2>. QED  BY <2>2, <2>3
<1>. QED  BY <1>7, <1>12, <1>14, <1>15 DEF NumInv

LEMMA ServerWritesNum ==
    ASSUME IndInv, NumInv, NEW unit \in Unit, ServerWrites(unit)
    PROVE  NumInv'
<1>1. unit \in Seq(Code) /\ Whole(unit)
  BY UnitAssumption, WholeAssumption
<1>2. PICK place \in IF unit = Synch THEN {1, 2} ELSE {0} : ServerSends(unit, place)
  BY DEF ServerWrites, Synch
<1>3. /\ told'.octets = told.octets + Len(unit)
      /\ told'.mark = IF unit = Synch THEN told.octets + 2 ELSE told.mark
  BY DEF ServerWrites, Synch, IndInv
<1>. QED  BY <1>1, <1>2, <1>3, ServerSendsNum

LEMMA WillTiming == <<"IAC", "WILL", "TM">> \in Seq(Code) /\ Whole(<<"IAC", "WILL", "TM">>)
<1>. DEFINE unit == <<"IAC", "WILL", "TM">>
            at == [i \in 0 .. 3 |-> IF i = 1 THEN "iac" ELSE IF i = 2 THEN "option" ELSE "data"]
<1>1. unit \in Seq(Code) /\ Len(unit) = 3 /\ DOMAIN unit = 1 .. 3
      /\ unit[1] = "IAC" /\ unit[2] = "WILL" /\ unit[3] = "TM"
  BY DEF Code
<1>2. /\ at \in [0 .. 3 -> Phase]
      /\ at[0] = "data" /\ at[1] = "iac" /\ at[2] = "option" /\ at[3] = "data"
  BY DEF Phase
<1>. HIDE DEF unit, at
<1>3. After("data", "IAC") = "iac" /\ After("iac", "WILL") = "option" /\ After("option", "TM") = "data"
  BY DEF After
<1>4. ASSUME NEW i \in 1 .. 3
      PROVE  /\ at[i] = After(at[i - 1], unit[i])
             /\ unit[i] # "DM"
  <2>1. CASE i = 1
    BY <1>1, <1>2, <1>3, <2>1
  <2>2. CASE i = 2
    BY <1>1, <1>2, <1>3, <2>2
  <2>3. CASE i = 3
    BY <1>1, <1>2, <1>3, <2>3
  <2>. QED  BY <2>1, <2>2, <2>3
<1>5. Whole(unit)
  BY <1>1, <1>2, <1>4 DEF Whole
<1>. QED  BY <1>1, <1>5 DEF unit

LEMMA ServerAnswersNum ==
    ASSUME IndInv, NumInv, ServerAnswers
    PROVE  NumInv'
<1>. DEFINE unit == <<"IAC", "WILL", "TM">>
<1>1. ServerSends(unit, 0)
  BY DEF ServerAnswers
<1>2. told'.octets = told.octets + 3 /\ told'.mark = told.mark
  BY DEF ServerAnswers, IndInv
<1>3. Len(unit) = 3 /\ unit # Synch
  <2>1. Len(Synch) = 2 /\ Len(unit) = 3
    BY DEF Synch
  <2>. QED  BY <2>1
<1>4. unit \in Seq(Code) /\ Whole(unit)
  BY WillTiming
<1>. HIDE DEF unit
<1>. QED  BY <1>1, <1>2, <1>3, <1>4, ServerSendsNum

LEMMA TelsndLeaves ==
    ASSUME IndInv, Telsnd
    PROVE  Leaves(client, client') /\ UNCHANGED <<stream, urgent, told>>
<1>. DEFINE k == Head(client.ttyiring)
            rest == Tail(client.ttyiring)
            c == [client EXCEPT !.ttyiring = rest]
            r == Keyed(c, k)
<1>1. /\ client' = IF r.client.pc = "closed" THEN r.client ELSE Onward(r.client, r.looping)
      /\ UNCHANGED <<stream, urgent, told>>
  BY DEF Telsnd
<1>. HIDE DEF k, rest
<1>2. Leaves(client, c)
  BY ClientForm, LeavesUpdates
<1>. HIDE DEF c
<1>3. Leaves(c, r.client)
  BY <1>2, KeyedLeaves DEF Leaves
<1>. DEFINE d == r.client
            looping == r.looping
<1>4. client' = d \/ client' = Onward(d, looping)
  BY <1>1
<1>5. Leaves(client, d)
  BY <1>2, <1>3, LeavesThen
<1>. HIDE DEF d, looping
<1>6. Leaves(client, Onward(d, looping))
  BY <1>5, OnwardLeaves, LeavesThen DEF Leaves
<1>. QED  BY <1>1, <1>4, <1>5, <1>6

LEMMA TelsndNum ==
    ASSUME IndInv, NumInv, Telsnd
    PROVE  NumInv'
BY TelsndLeaves, LeavesNum

LEMMA TelrcvNum ==
    ASSUME IndInv, NumInv, Telrcv
    PROVE  NumInv'
<1>1. UNCHANGED <<stream, urgent, told>> /\ client.pc = "telrcv"
  BY DEF Telrcv, Running
<1>. DEFINE pending == urgent # 0
            mark == told.mark
<1>2. PICK c \in Received(client, pending) : client' = Onward(c, FALSE)
  BY DEF Telrcv
<1>3. PICK base \in Nat : Numbered(client, stream, base, told.octets, mark)
  BY DEF NumInv
<1>4. /\ Len(client.netiring) \in Nat /\ client.netiring \in Seq(Octet) /\ stream \in Seq(Octet)
      /\ client.netiring # << >> /\ mark \in Nat /\ Len(stream) \in Nat
  BY <1>1, StreamLengths DEF IndInv, Sound, CanReceive, NumInv
<1>5. pending => base + 1 < mark
  <2>1. Len(client.netiring) >= 1
    BY <1>4
  <2>. QED  BY <1>3, <1>4, <2>1, NoticedBefore
<1>. HIDE DEF pending, mark
<1>6. PICK n \in {1, 2} :
        /\ Tidy(c, base + n, mark) /\ Len(client.netiring) = Len(c.netiring) + n
        /\ Unread(PhaseOf(c.state), c.netiring \o stream, base + n, mark)
  BY <1>2, <1>3, <1>4, <1>5, ReceivedTook DEF Numbered
<1>7. Form(c) /\ Len(c.netiring) \in Nat
  BY <1>6, Lengths DEF Tidy, Taken
<1>8. Leaves(c, client')
  BY <1>2, <1>7, OnwardLeaves
<1>9. base + n \in Nat /\ told.octets = (base + n) + Len(c.netiring) + Len(stream)
  <2>. DEFINE before == Len(client.netiring)
              after == Len(c.netiring)
              unread == Len(stream)
  <2>1. told.octets = base + before + unread /\ n \in Nat
    BY <1>3 DEF Numbered
  <2>2. before = after + n
    BY <1>6
  <2>3. after \in Nat /\ unread \in Nat
    BY <1>4, <1>7
  <2>. HIDE DEF before, after, unread
  <2>4. base + n \in Nat /\ told.octets = (base + n) + after + unread
    BY <2>1, <2>2, <2>3
  <2>. QED  BY <2>4 DEF after, unread
<1>10. Numbered(client', stream, base + n, told.octets, mark)
  BY <1>3, <1>4, <1>6, <1>8, <1>9 DEF Numbered, Leaves
<1>. QED  BY <1>1, <1>9, <1>10 DEF NumInv, mark

LEMMA WriteOutLeaves ==
    ASSUME IndInv, WriteOut
    PROVE  Leaves(client, client') /\ UNCHANGED <<stream, urgent, told>>
<1>1. PICK n : /\ client' = [Add(client, SubSeq(client.writing, 1, n)) EXCEPT
                    !.writing = SubSeq(client.writing, n + 1, Len(client.writing))]
               /\ UNCHANGED <<stream, urgent, told>>
  BY DEF WriteOut
<1>. DEFINE bytes == SubSeq(client.writing, 1, n)
            rest == SubSeq(client.writing, n + 1, Len(client.writing))
            c == Add(client, bytes)
<1>2. client' = [c EXCEPT !.writing = rest]
  BY <1>1
<1>. HIDE DEF bytes, rest
<1>3. Leaves(client, c)
  BY ClientForm, AddLeaves
<1>. HIDE DEF c
<1>4. Leaves(c, client')
  BY <1>2, <1>3, LeavesUpdates DEF Leaves
<1>. QED  BY <1>1, <1>3, <1>4, LeavesThen

LEMMA WriteOutNum ==
    ASSUME IndInv, NumInv, WriteOut
    PROVE  NumInv'
BY WriteOutLeaves, LeavesNum

LEMMA SignalledLeaves ==
    ASSUME IndInv, NEW cmd, Signalled(cmd)
    PROVE  Leaves(client, client')
<1>. DEFINE says == Interruption(client.mode, cmd)
            bytes == FlattenSeq(says)
            meant == client.meant \o says
<1>1. PICK busy \in Busy :
         client' = Add([Flushed(client, busy) EXCEPT !.meant = meant], bytes)
  BY DEF Signalled
<1>. DEFINE c == Flushed(client, busy)
            d == [c EXCEPT !.meant = meant]
<1>2. client' = Add(d, bytes)
  BY <1>1
<1>. HIDE DEF meant, bytes
<1>3. Leaves(client, c)
  BY ClientForm, FlushedLeaves
<1>. HIDE DEF c
<1>4. Leaves(c, d)
  BY <1>3, LeavesUpdates DEF Leaves
<1>. HIDE DEF d
<1>5. Leaves(d, client')
  BY <1>2, <1>4, AddLeaves DEF Leaves
<1>. QED  BY <1>3, <1>4, <1>5, LeavesThen

LEMMA HandlersLeaves ==
    ASSUME IndInv, Intr \/ Susp \/ Winch
    PROVE  Leaves(client, client') /\ UNCHANGED <<stream, urgent, told>>
<1>1. UNCHANGED <<stream, urgent, told>> /\ Form(client)
  BY ClientForm DEF Intr, Susp, Winch, Handler
<1>2. CASE Signalled("IP") \/ Signalled("SUSP")
  BY <1>1, <1>2, SignalledLeaves
<1>3. CASE RloginSusp
  <2>. DEFINE c == [client EXCEPT !.bol = TRUE, !.local = FALSE]
              d == [c EXCEPT !.pc = "stuck"]
  <2>0. [client EXCEPT !.local = FALSE, !.bol = TRUE] = c
    BY <1>1 DEF Form, Fields
  <2>1. PICK busy \in Busy : client' = HandlersMode(c, busy)
    BY <1>3, <2>0 DEF RloginSusp
  <2>2. Leaves(client, c)
    BY <1>1, LeavesUpdates
  <2>. HIDE DEF c
  <2>3. client' = d \/ client' = NewMode(c)
    BY <2>1 DEF HandlersMode
  <2>4. Leaves(c, d)
    BY <2>2, LeavesUpdates DEF Leaves
  <2>. HIDE DEF d
  <2>5. Leaves(c, client')
    BY <2>2, <2>3, <2>4, NewModeLeaves DEF Leaves
  <2>. QED  BY <1>1, <2>2, <2>5, LeavesThen
<1>4. CASE Winch
  <2>. DEFINE meant == Append(client.meant, Naws)
              c == [client EXCEPT !.meant = meant]
  <2>1. client' = Add(c, Naws)
    BY <1>4 DEF Winch
  <2>. HIDE DEF meant
  <2>2. Leaves(client, c)
    BY <1>1, LeavesUpdates
  <2>. HIDE DEF c
  <2>3. Leaves(c, client')
    BY <2>1, <2>2, AddLeaves DEF Leaves
  <2>. QED  BY <1>1, <2>2, <2>3, LeavesThen
<1>. QED  BY <1>2, <1>3, <1>4 DEF Intr, Susp

LEMMA HandlersNum ==
    ASSUME IndInv, NumInv, Intr \/ Susp \/ Winch
    PROVE  NumInv'
BY HandlersLeaves, LeavesNum

\* The notice of urgent data.
LEMMA NoticedNumbered ==
    ASSUME NEW c, NEW s \in Seq(Octet), NEW base \in Nat, NEW octets, NEW mark \in Nat,
           Numbered(c, s, base, octets, mark), base < mark
    PROVE  Numbered(Drop([c EXCEPT !.SYNCHing = TRUE]), s, base, octets, mark)
<1>. DEFINE d == [c EXCEPT !.SYNCHing = TRUE]
<1>1. Form(c) /\ Taken(c, base, mark)
  BY DEF Numbered, Tidy, Taken
<1>2. /\ DOMAIN d = Fields /\ d.state = c.state /\ d.netiring = c.netiring
      /\ d.ttyoring = c.ttyoring /\ d.lastDropped = c.lastDropped
  BY <1>1 DEF Form, Fields
<1>. HIDE DEF d
<1>3. Taken(d, base, mark) /\ Form(d)
  BY <1>1, <1>2 DEF Taken, Form
<1>4. Tidy(Drop(d), base, mark) /\ Drop(d).netiring = c.netiring /\ Drop(d).state = c.state
  BY <1>2, <1>3, DropTaken, DropSame
<1>. QED  BY <1>4 DEF Numbered, d

\* Octets are read from the stream.
LEMMA ReadNumbered ==
    ASSUME NEW c, NEW s \in Seq(Octet), NEW base \in Nat, NEW octets, NEW mark \in Nat,
           Numbered(c, s, base, octets, mark), NEW k \in 0 .. Len(s), NEW keys
    PROVE  Numbered([c EXCEPT !.netiring = c.netiring \o SubSeq(s, 1, k), !.ttyiring = keys],
                    SubSeq(s, k + 1, Len(s)), base, octets, mark)
<1>. DEFINE read == SubSeq(s, 1, k)
            rest == SubSeq(s, k + 1, Len(s))
            ring == c.netiring \o read
            d == [c EXCEPT !.netiring = ring, !.ttyiring = keys]
<1>1. /\ read \in Seq(Octet) /\ Len(read) = k /\ rest \in Seq(Octet) /\ Len(rest) = Len(s) - k
      /\ read \o rest = s
  BY Rejoined
<1>. HIDE DEF read, rest
<1>2. Form(c) /\ c.netiring \in Seq(Octet) /\ Len(c.netiring) \in Nat
  BY Lengths DEF Numbered, Tidy, Taken, Form
<1>3. ring \in Seq(Octet) /\ Len(ring) = Len(c.netiring) + k
  BY <1>1, <1>2, JoinedSeq
<1>4. ring \o rest = c.netiring \o s
  <2>1. ring \o rest = c.netiring \o (read \o rest)
    BY <1>1, <1>2, OctetsJoined, Zenon DEF ring
  <2>. QED  BY <1>1, <2>1
<1>. HIDE DEF ring
<1>5. /\ DOMAIN d = Fields /\ d.state = c.state /\ d.netiring = ring
      /\ d.ttyoring = c.ttyoring /\ d.SYNCHing = c.SYNCHing /\ d.lastDropped = c.lastDropped
  BY <1>2 DEF Form, Fields
<1>. HIDE DEF d
<1>6. Tidy(d, base, mark)
  BY <1>2, <1>3, <1>5, AlikeTidy DEF Numbered, Form
<1>7. octets = base + Len(ring) + Len(rest)
  <2>1. octets = base + Len(c.netiring) + Len(s) /\ Len(s) \in Nat /\ k \in Nat
    BY DEF Numbered
  <2>. QED  BY <1>1, <1>2, <1>3, <2>1
<1>8. Numbered(d, rest, base, octets, mark)
  BY <1>4, <1>5, <1>6, <1>7 DEF Numbered
<1>. QED  BY <1>8 DEF d, ring, read, rest

LEMMA ReadNotice ==
    ASSUME NEW s \in Seq(Octet), NEW place, NEW octets \in Nat, NEW mark \in Nat,
           Notice(s, place, octets, mark), NEW k \in 0 .. Len(s)
    PROVE  Notice(SubSeq(s, k + 1, Len(s)), IF place > k THEN place - k ELSE 0, octets, mark)
<1>. DEFINE rest == SubSeq(s, k + 1, Len(s))
            all == Len(s)
            now == IF place > k THEN place - k ELSE 0
<1>1. all \in Nat /\ k \in 0 .. all /\ Len(rest) = all - k
  BY Rejoined
<1>2. place # 0 => place \in 1 .. all /\ octets - all + place <= mark
  BY DEF Notice
<1>. HIDE DEF all, rest
<1>3. CASE place = 0
  <2>1. now = 0
    BY <1>1, <1>3
  <2>. QED  BY <2>1 DEF Notice, rest
<1>4. CASE place # 0 /\ place > k
  <2>1. now = place - k /\ now \in 1 .. Len(rest) /\ octets - Len(rest) + now <= mark
    BY <1>1, <1>2, <1>4
  <2>. QED  BY <2>1 DEF Notice, rest
<1>5. CASE place # 0 /\ ~(place > k)
  <2>1. now = 0
    BY <1>5
  <2>. QED  BY <2>1 DEF Notice, rest
<1>. QED  BY <1>3, <1>4, <1>5

LEMMA LeavesNumbered ==
    ASSUME NEW c, NEW d, Leaves(c, d), NEW s, NEW base \in Nat, NEW octets, NEW mark \in Nat,
           Numbered(c, s, base, octets, mark)
    PROVE  Numbered(d, s, base, octets, mark) /\ Form(d)
BY DEF Leaves, Numbered

\* The notice of urgent data, then what touches nothing, then the read.
Stages(noticed, a, c, d, k, keys) ==
    /\ noticed \in BOOLEAN /\ (noticed => urgent # 0)
    /\ a = IF noticed THEN Drop([client EXCEPT !.SYNCHing = TRUE]) ELSE client
    /\ Leaves(a, c) /\ k \in 0 .. Len(stream)
    /\ d = [c EXCEPT !.netiring = c.netiring \o SubSeq(stream, 1, k), !.ttyiring = keys]
    /\ client' = Onward(d, TRUE) /\ stream' = SubSeq(stream, k + 1, Len(stream))
    /\ urgent' = IF urgent > k THEN urgent - k ELSE 0
    /\ UNCHANGED told

LEMMA ProcessRingsSteps ==
    ASSUME IndInv, ProcessRings
    PROVE  \E noticed, a, c, d, k, keys : Stages(noticed, a, c, d, k, keys)
<1>1. PICK noticed \in BOOLEAN :
         LET a == IF noticed THEN Drop([client EXCEPT !.SYNCHing = TRUE]) ELSE client
         IN  /\ noticed => urgent # 0 /\ ~client.SYNCHing
             /\ \E n \in {0, Len(a.netoring)}, t \in 0 .. Len(a.ttyoring),
                   k \in 0 .. Min({Len(stream), NetInSize - 1 - Len(a.netiring)}),
                   j \in 0 .. Min({Len(typed), TtyInSize - 1 - Len(a.ttyiring)}) :
                 LET b == [a EXCEPT !.netoring = SubSeq(a.netoring, n + 1, Len(a.netoring))]
                     c == IF t = 0 THEN b ELSE TtyFlush(b, t)
                     d == [c EXCEPT !.netiring = c.netiring \o SubSeq(stream, 1, k),
                                    !.ttyiring = c.ttyiring \o SubSeq(typed, 1, j)]
                 IN  /\ urgent <= 1 \/ k < urgent
                     /\ client' = Onward(d, TRUE)
                     /\ sent' = sent \o SubSeq(a.netoring, 1, n)
                     /\ stream' = SubSeq(stream, k + 1, Len(stream))
                     /\ urgent' = IF urgent > k THEN urgent - k ELSE 0
                     /\ typed' = SubSeq(typed, j + 1, Len(typed))
  BY DEF ProcessRings
<1>. DEFINE a == IF noticed THEN Drop([client EXCEPT !.SYNCHing = TRUE]) ELSE client
<1>2. PICK n \in {0, Len(a.netoring)}, t \in 0 .. Len(a.ttyoring),
           k \in 0 .. Min({Len(stream), NetInSize - 1 - Len(a.netiring)}),
           j \in 0 .. Min({Len(typed), TtyInSize - 1 - Len(a.ttyiring)}) :
         LET b == [a EXCEPT !.netoring = SubSeq(a.netoring, n + 1, Len(a.netoring))]
             c == IF t = 0 THEN b ELSE TtyFlush(b, t)
             d == [c EXCEPT !.netiring = c.netiring \o SubSeq(stream, 1, k),
                            !.ttyiring = c.ttyiring \o SubSeq(typed, 1, j)]
         IN  /\ urgent <= 1 \/ k < urgent
             /\ client' = Onward(d, TRUE)
             /\ sent' = sent \o SubSeq(a.netoring, 1, n)
             /\ stream' = SubSeq(stream, k + 1, Len(stream))
             /\ urgent' = IF urgent > k THEN urgent - k ELSE 0
             /\ typed' = SubSeq(typed, j + 1, Len(typed))
  BY <1>1
<1>. DEFINE out == SubSeq(a.netoring, n + 1, Len(a.netoring))
            b == [a EXCEPT !.netoring = out]
            c == IF t = 0 THEN b ELSE TtyFlush(b, t)
            keys == c.ttyiring \o SubSeq(typed, 1, j)
            d == [c EXCEPT !.netiring = c.netiring \o SubSeq(stream, 1, k), !.ttyiring = keys]
            rest == SubSeq(stream, k + 1, Len(stream))
<1>3. /\ client' = Onward(d, TRUE) /\ stream' = rest /\ UNCHANGED told
      /\ urgent' = IF urgent > k THEN urgent - k ELSE 0
  BY <1>2 DEF ProcessRings
<1>4. stream \in Seq(Octet) /\ Len(stream) \in Nat
  BY StreamLengths
<1>5. Form(a)
  <2>. DEFINE x == [client EXCEPT !.SYNCHing = TRUE]
  <2>1. Form(client)
    BY ClientForm
  <2>2. /\ DOMAIN x = Fields /\ x.state = client.state /\ x.netiring = client.netiring
        /\ x.ttyoring = client.ttyoring
    BY <2>1 DEF Form, Fields
  <2>. HIDE DEF x
  <2>3. Form(x)
    BY <2>1, <2>2 DEF Form
  <2>4. Form(Drop(x))
    BY <2>3, DropKeeps DEF Keeps, Grows
  <2>. QED  BY <2>1, <2>4 DEF x
<1>. HIDE DEF out
<1>7. Leaves(a, b) /\ b.ttyoring = a.ttyoring
  <2>. HIDE DEF a
  <2>. QED  BY <1>5, LeavesUpdates DEF Form, Fields
<1>8. k \in 0 .. Len(stream)
  <2>. DEFINE x == Len(stream)
              y == NetInSize - 1 - Len(a.netiring)
              bound == Min({x, y})
  <2>1. x \in Nat /\ x \in Int /\ y \in Int
    BY <1>4, <1>5, Lengths, RingAssumption
  <2>. HIDE DEF x, y
  <2>2. bound \in Int /\ bound <= x
    BY <2>1, MinOfTwo
  <2>3. k \in 0 .. bound
    BY <1>2 DEF x, y
  <2>. HIDE DEF bound
  <2>4. k \in 0 .. x
    BY <2>1, <2>2, <2>3
  <2>. QED  BY <2>4 DEF x
<1>9. t \in 0 .. Len(b.ttyoring)
  BY <1>2, <1>7
<1>. HIDE DEF b
<1>10. Leaves(b, c)
  <2>1. Form(b)
    BY <1>7 DEF Leaves
  <2>. QED  BY <1>9, <2>1, TtyFlushLeaves, LeavesUpdates
<1>11. Leaves(a, c)
  <2>. HIDE DEF a, c
  <2>. QED  BY <1>7, <1>10, LeavesThen
<1>12. noticed => urgent # 0
  BY <1>1
<1>13. a = IF noticed THEN Drop([client EXCEPT !.SYNCHing = TRUE]) ELSE client
  OBVIOUS
<1>14. d = [c EXCEPT !.netiring = c.netiring \o SubSeq(stream, 1, k), !.ttyiring = keys]
  OBVIOUS
<1>. HIDE DEF a, c, d, keys, rest
<1>15. Stages(noticed, a, c, d, k, keys)
  BY <1>3, <1>8, <1>11, <1>12, <1>13, <1>14 DEF Stages, rest
<1>. QED  BY <1>15

LEMMA ProcessRingsNum ==
    ASSUME IndInv, NumInv, ProcessRings
    PROVE  NumInv'
<1>. DEFINE octets == told.octets
            mark == told.mark
<1>1. PICK noticed, a, c, d, k, keys : Stages(noticed, a, c, d, k, keys)
  BY ProcessRingsSteps
<1>. USE DEF Stages
<1>2. PICK base \in Nat : Numbered(client, stream, base, octets, mark)
  BY DEF NumInv
<1>3. /\ stream \in Seq(Octet) /\ Len(stream) \in Nat /\ octets \in Nat /\ mark \in Nat
      /\ Notice(stream, urgent, octets, mark)
  BY StreamLengths DEF NumInv
<1>4. Numbered(a, stream, base, octets, mark)
  <2>1. CASE noticed
    <3>1. base < mark
      <4>1. base + Len(client.netiring) < mark /\ Len(client.netiring) \in Nat
        BY <1>1, <1>2, <2>1, NoticedBefore, StreamLengths
      <4>. QED  BY <1>3, <4>1
    <3>2. a = Drop([client EXCEPT !.SYNCHing = TRUE])
      BY <1>1, <2>1
    <3>. HIDE DEF octets, mark
    <3>. QED  BY <1>2, <1>3, <3>1, <3>2, NoticedNumbered
  <2>2. CASE ~noticed
    BY <1>1, <1>2, <2>2
  <2>. QED  BY <2>1, <2>2
<1>. HIDE DEF octets, mark
<1>. DEFINE rest == SubSeq(stream, k + 1, Len(stream))
<1>5. Numbered(c, stream, base, octets, mark)
  BY <1>1, <1>3, <1>4, LeavesNumbered
<1>6. Numbered(d, rest, base, octets, mark)
  BY <1>1, <1>3, <1>5, ReadNumbered
<1>7. Notice(rest, urgent', octets, mark)
  BY <1>1, <1>3, ReadNotice
<1>8. stream' = rest
  BY <1>1
<1>. HIDE DEF rest
<1>9. Leaves(d, client')
  BY <1>1, <1>6, OnwardLeaves DEF Numbered, Tidy, Taken
<1>10. Numbered(client', rest, base, octets, mark)
  BY <1>3, <1>6, <1>9, LeavesNumbered
<1>. QED  BY <1>1, <1>3, <1>7, <1>8, <1>10 DEF NumInv, octets, mark

LEMMA NumInductive == Init /\ [][Next]_vars => []NumInv
<1>1. ASSUME IndInv, NumInv, [Next]_vars  PROVE NumInv'
  <2>1. CASE UNCHANGED vars
    BY <1>1, <2>1 DEF vars, NumInv
  <2>2. ASSUME NEW k \in Key, UserTypes(k)  PROVE NumInv'
    BY <1>1, <2>2 DEF UserTypes, NumInv
  <2>3. CASE Next
    BY <1>1, <2>2, <2>3, ServerWritesNum, ServerAnswersNum, ProcessRingsNum, TelsndNum,
       TelrcvNum, WriteOutNum, HandlersNum DEF Next
  <2>. QED  BY <1>1, <2>1, <2>3
<1>. QED  BY NumInit, Inductive, <1>1, PTL

(***************************************************************************)
(* A Synch costs no text that stands behind its DM: what the client drops, *)
(* but for the user's own flush, the server wrote before the last DM, for  *)
(* any stream of whole commands, any cut of it into reads and any time the *)
(* notice of the urgent data takes.                                        *)
(***************************************************************************)
THEOREM ClientIOOnlyBeforeSynch == Spec => []OnlyBeforeSynch
<1>1. NumInv => OnlyBeforeSynch
  BY DEF NumInv, Numbered, Tidy, Taken, OnlyBeforeSynch
<1>. QED  BY NumInductive, <1>1, PTL DEF Spec

-----------------------------------------------------------------------------
(* Each octet that telrcv() takes keeps what is shown and what is read in  *)
(* step.                                                                   *)

\* The parser's state may change first.
LEMMA WentFrom ==
    ASSUME NEW c, NEW m, NEW base \in Nat, Owes(c, m, base), NEW state \in ParserState
    PROVE  LET d == [c EXCEPT !.state = state]
           IN  /\ Owes(d, m, base) /\ ReadBy(d) = ReadBy(c) /\ d.state = state
               /\ d.netiring = c.netiring /\ d.mode = c.mode
               /\ \A e, n : Went(d, e, n) => Went(c, e, n)
<1>. DEFINE d == [c EXCEPT !.state = state]
<1>1. /\ Shown(d) /\ ReadBy(d) = ReadBy(c) /\ Fresh(d) = Fresh(c)
      /\ d.state = state /\ d.netiring = c.netiring /\ d.mode = c.mode
      /\ \A b : Below(c, b) => Below(d, b)
  BY StateShown DEF Owes
<1>. HIDE DEF d
<1>2. Owes(d, m, base) /\ \A e, n : Went(d, e, n) => Went(c, e, n)
  BY <1>1 DEF Owes, Went
<1>. QED  BY <1>1, <1>2 DEF d

LEMMA ReceiveDataWent ==
    ASSUME NEW c, NEW m, NEW base \in Nat, Owes(c, m, base), NEW o \in Octet, o.n = base + 1,
           ReadBy(c) = DataShows(c.mode, m, o),
           c.netiring # << >> => Head(c.netiring).n = base + 2
    PROVE  Went(c, ReceiveData(c, o), base + 1)
<1>. DEFINE d == [c EXCEPT !.state = "data"]
            iac == [c EXCEPT !.state = "iac"]
<1>0. "data" \in ParserState /\ "iac" \in ParserState
  BY DEF ParserState
<1>1. /\ Owes(d, m, base) /\ ReadBy(d) = ReadBy(c) /\ d.state = "data"
      /\ d.netiring = c.netiring /\ d.mode = c.mode
      /\ \A e, n : Went(d, e, n) => Went(c, e, n)
  BY <1>0, WentFrom
<1>2. CASE o.code = "IAC"
  <2>1. ReadBy(c) = Moves(m, "iac") /\ ReceiveData(c, o) = iac
    BY <1>2 DEF DataShows, ReceiveData
  <2>2. InStep(iac, base + 1) /\ iac.netiring = c.netiring
    BY <1>0, <2>1, MoveInStep
  <2>. HIDE DEF iac
  <2>. QED  BY <2>1, <2>2 DEF Went
<1>3. CASE o.code = "CR" /\ c.mode.text
  <2>1. ReadBy(c) = Shows(m, o, "cr") /\ ReceiveData(c, o) = CarriageReturn(d, o)
    BY <1>3 DEF DataShows, ReceiveData
  <2>. HIDE DEF d
  <2>2. Went(d, CarriageReturn(d, o), base + 1)
    BY <1>1, <1>3, <2>1, CarriageReturnWent
  <2>. QED  BY <1>1, <2>1, <2>2
<1>4. CASE o.code # "IAC" /\ ~(o.code = "CR" /\ c.mode.text)
  <2>1. ReadBy(c) = Shows(m, o, "data") /\ ReceiveData(c, o) = Show(d, <<o>>)
    BY <1>4 DEF DataShows, ReceiveData
  <2>2. InStep(Show(d, <<o>>), base + 1) /\ Show(d, <<o>>).netiring = c.netiring
    BY <1>0, <2>1, TextInStep
  <2>. HIDE DEF d
  <2>. QED  BY <2>1, <2>2 DEF Went
<1>. QED  BY <1>2, <1>3, <1>4

\* The carriage return came last in what was read before.
LEMMA ReceiveAfterCrWent ==
    ASSUME NEW c, NEW m, NEW base \in Nat, Owes(c, m, base), NEW o \in Octet, o.n = base + 1,
           ReadBy(c) = (IF o.code = "NUL" THEN Moves(m, "data") ELSE DataShows(c.mode, m, o)),
           c.netiring # << >> => Head(c.netiring).n = base + 2
    PROVE  Went(c, ReceiveAfterCr(c, o), base + 1)
<1>. DEFINE d == [c EXCEPT !.state = "data"]
<1>0. "data" \in ParserState
  BY DEF ParserState
<1>1. CASE o.code = "NUL"
  <2>1. ReadBy(c) = Moves(m, "data") /\ ReceiveAfterCr(c, o) = d
    BY <1>1 DEF ReceiveAfterCr
  <2>2. InStep(d, base + 1) /\ d.netiring = c.netiring
    BY <1>0, <2>1, MoveInStep
  <2>. HIDE DEF d
  <2>. QED  BY <2>1, <2>2 DEF Went
<1>2. CASE o.code = "LF" /\ c.mode.echo /\ ~c.mode.crmod
  <2>1. ReadBy(c) = Shows(m, o, "data") /\ ReceiveAfterCr(c, o) = Show(d, <<o>>)
    BY <1>2 DEF DataShows, ReceiveAfterCr
  <2>2. InStep(Show(d, <<o>>), base + 1) /\ Show(d, <<o>>).netiring = c.netiring
    BY <1>0, <2>1, TextInStep
  <2>. HIDE DEF d
  <2>. QED  BY <2>1, <2>2 DEF Went
<1>3. CASE o.code # "NUL" /\ ~(o.code = "LF" /\ c.mode.echo /\ ~c.mode.crmod)
  <2>1. ReadBy(c) = DataShows(c.mode, m, o) /\ ReceiveAfterCr(c, o) = ReceiveData(c, o)
    BY <1>3 DEF ReceiveAfterCr
  <2>. QED  BY <2>1, ReceiveDataWent
<1>. QED  BY <1>1, <1>2, <1>3

\* DM
LEMMA DataMarkInStep ==
    ASSUME NEW c, Shown(c), NEW base \in Nat, c.refused <= base, NEW pending
    PROVE  InStep(DataMark(c, pending), base) /\ DataMark(c, pending).netiring = c.netiring
<1>. DEFINE d == [c EXCEPT !.state = "data"]
            e == Drop(d)
            f == [e EXCEPT !.SYNCHing = pending]
<1>1. Shown(d) /\ d.netiring = c.netiring /\ d.refused = c.refused
  <2>1. "data" \in ParserState
    BY DEF ParserState
  <2>. QED  BY <2>1, StateShown
<1>2. DataMark(c, pending) = f
  BY DEF DataMark
<1>. HIDE DEF d
<1>3. InStep(e, base)
  BY <1>1, DropInStep
<1>4. e.netiring = d.netiring
  BY <1>1, DropSame DEF Shown
<1>. HIDE DEF e
<1>5. /\ DOMAIN f = Fields /\ f.netiring = e.netiring /\ f.state = e.state
      /\ f.ttyoring = e.ttyoring /\ f.mode = e.mode /\ f.shown = e.shown /\ f.seen = e.seen
      /\ f.since = e.since /\ f.refused = e.refused
  BY <1>3 DEF InStep, Shown, Form, Fields
<1>. HIDE DEF f
<1>6. Form(f)
  BY <1>3, <1>5 DEF InStep, Shown, Form
<1>7. Shown(f) /\ ReadBy(f) = ReadBy(e) /\ Fresh(f) = Fresh(e) /\ Below(f, base)
  BY <1>3, <1>5, <1>6, SameShown DEF InStep
<1>8. InStep(f, base)
  BY <1>3, <1>5, <1>7 DEF InStep, Stands
<1>. QED  BY <1>1, <1>2, <1>4, <1>5, <1>8

\* The octet behind an IAC, which no parser state depends on.
LEMMA ReceiveCommandInStep ==
    ASSUME NEW c, NEW m, NEW base \in Nat, Owes(c, m, base), NEW o \in Octet, o.n = base + 1,
           NEW pending,
           ReadBy(c) = (IF o.code = "IAC" THEN Shows(m, o, "data") ELSE CommandMoves(m, o))
    PROVE  /\ InStep(ReceiveCommand(c, o, pending), base + 1)
           /\ ReceiveCommand(c, o, pending).netiring = c.netiring
<1>. DEFINE d == [c EXCEPT !.state = "data"]
            state == o.code
            verb == [c EXCEPT !.state = state]
            sb == [c EXCEPT !.state = "sb"]
<1>0. /\ "data" \in ParserState /\ "sb" \in ParserState
      /\ o.code \in {"WILL", "DO", "DONT"} => state \in ParserState
  BY DEF ParserState
<1>1. CASE o.code \in {"WILL", "DO", "DONT"}
  <2>1. ReadBy(c) = Moves(m, state) /\ ReceiveCommand(c, o, pending) = verb
    BY <1>1 DEF CommandMoves, ReceiveCommand
  <2>2. state \in ParserState
    BY <1>0, <1>1
  <2>. HIDE DEF state
  <2>3. InStep(verb, base + 1) /\ verb.netiring = c.netiring
    BY <2>1, <2>2, MoveInStep
  <2>. QED  BY <2>1, <2>3
<1>2. CASE o.code = "SB"
  <2>1. ReadBy(c) = Moves(m, "sb") /\ ReceiveCommand(c, o, pending) = sb
    BY <1>2 DEF CommandMoves, ReceiveCommand
  <2>2. InStep(sb, base + 1) /\ sb.netiring = c.netiring
    BY <1>0, <2>1, MoveInStep
  <2>. QED  BY <2>1, <2>2
<1>3. CASE o.code = "DM"
  <2>1. ReceiveCommand(c, o, pending) = DataMark(c, pending)
    BY <1>3 DEF ReceiveCommand
  <2>2. Shown(c) /\ c.refused <= base + 1 /\ base + 1 \in Nat
    BY DEF Owes, Shown, Below
  <2>. QED  BY <2>1, <2>2, DataMarkInStep
<1>4. CASE o.code = "IAC"
  <2>1. ReadBy(c) = Shows(m, o, "data") /\ ReceiveCommand(c, o, pending) = Show(d, <<o>>)
    BY <1>4 DEF ReceiveCommand
  <2>2. InStep(Show(d, <<o>>), base + 1) /\ Show(d, <<o>>).netiring = c.netiring
    BY <1>0, <2>1, TextInStep
  <2>. QED  BY <2>1, <2>2
<1>5. CASE o.code \notin {"WILL", "DO", "DONT", "SB", "DM", "IAC"}
  <2>1. ReadBy(c) = Moves(m, "data") /\ ReceiveCommand(c, o, pending) = d
    BY <1>5 DEF CommandMoves, ReceiveCommand
  <2>2. InStep(d, base + 1) /\ d.netiring = c.netiring
    BY <1>0, <2>1, MoveInStep
  <2>. QED  BY <2>1, <2>2
<1>. QED  BY <1>1, <1>2, <1>3, <1>4, <1>5

\* What answers is in step, too.
LEMMA LeavesInStep ==
    ASSUME NEW c, NEW d, Leaves(c, d), NEW base \in Nat, InStep(c, base)
    PROVE  InStep(d, base) /\ d.netiring = c.netiring
BY DEF Leaves

LEMMA AnsweredInStep ==
    ASSUME NEW c, NEW base \in Nat, InStep(c, base), NEW e \in Answered(c)
    PROVE  InStep(e, base) /\ e.netiring = c.netiring
<1>1. PICK bytes, says : e = Emit(c, bytes, says)
  BY DEF Answered
<1>2. Leaves(c, e)
  BY <1>1, EmitLeaves DEF InStep, Shown
<1>. QED  BY <1>2, LeavesInStep

LEMMA NewModeInStep ==
    ASSUME NEW c, NEW base \in Nat, InStep(c, base)
    PROVE  InStep(NewMode(c), base) /\ NewMode(c).netiring = c.netiring
<1>1. Leaves(c, NewMode(c))
  BY NewModeLeaves DEF InStep, Shown
<1>. QED  BY <1>1, LeavesInStep

LEMMA ReceiveOptionInStep ==
    ASSUME NEW c, NEW m, NEW base \in Nat, Owes(c, m, base), NEW o, ReadBy(c) = Moves(m, "data"),
           NEW e \in ReceiveOption(c, o)
    PROVE  InStep(e, base + 1) /\ e.netiring = c.netiring
<1>. DEFINE d == [c EXCEPT !.state = "data"]
            f == [d EXCEPT !.flushout = FALSE]
            next == base + 1
<1>1. e = f \/ e \in Answered(d) \/ e \in Answered(NewMode(d))
  BY DEF ReceiveOption
<1>2. InStep(d, next) /\ d.netiring = c.netiring /\ next \in Nat
  <2>1. "data" \in ParserState
    BY DEF ParserState
  <2>. QED  BY <2>1, MoveInStep
<1>. HIDE DEF d, next
<1>3. InStep(f, next) /\ f.netiring = c.netiring
  <2>1. Leaves(d, f)
    BY <1>2, LeavesUpdates DEF InStep, Shown
  <2>. HIDE DEF f
  <2>. QED  BY <1>2, <2>1, LeavesInStep
<1>4. InStep(NewMode(d), next) /\ NewMode(d).netiring = c.netiring
  BY <1>2, NewModeInStep
<1>. HIDE DEF f
<1>5. InStep(e, next) /\ e.netiring = c.netiring
  BY <1>1, <1>2, <1>3, <1>4, AnsweredInStep
<1>. QED  BY <1>5 DEF next

\* The suboption that a command has ended may have dropped what there was.
LEMMA CutShortOwes ==
    ASSUME NEW c, NEW m, NEW base \in Nat, Owes(c, m, base), c.seen # << >>,
           NEW o \in Octet, o.code # "IAC", ReadBy(c) = CommandMoves(m, o)
    PROVE  LET d == CutShort(c, o)
           IN  /\ d.netiring = c.netiring
               /\ \E n : Owes(d, n, base) /\ ReadBy(d) = CommandMoves(n, o)
<1>. DEFINE x == [c EXCEPT !.state = "iac"]
            k == Len(x.ttyoring)
            y == NewMode(x)
            one == <<o>>
            z == [y EXCEPT !.seen = one]
<1>0. "iac" \in ParserState
  BY DEF ParserState
<1>1. /\ Shown(x) /\ ReadBy(x) = ReadBy(c) /\ Fresh(x) = Fresh(c)
      /\ x.state = "iac" /\ x.netiring = c.netiring /\ x.seen = c.seen
      /\ \A b : Below(c, b) => Below(x, b)
  BY <1>0, StateShown DEF Owes
<1>2. CutShort(c, o) = IF y.seen = << >> THEN z ELSE y
  BY DEF CutShort
<1>. HIDE DEF x
<1>3. k \in 0 .. Len(x.ttyoring)
  BY <1>1, Lengths DEF Shown
<1>4. y = IF x.SYNCHing \/ x.flushout THEN Drop(x) ELSE Write(x, k)
  BY DEF NewMode, TtyFlush
<1>5. one \in Seq(Octet) /\ one = Append(<< >>, o) /\ << >> \in Seq(Octet)
  OBVIOUS
<1>. HIDE DEF k, y, one
<1>6. CASE x.SYNCHing \/ x.flushout
  <2>1. y = Drop(x)
    BY <1>4, <1>6
  <2>2. x.refused <= base /\ Below(x, base)
    BY <1>1 DEF Owes, Below
  <2>3. InStep(y, base) /\ Fresh(y) = << >> /\ y.netiring = x.netiring
    BY <1>1, <2>1, <2>2, DropInStep, DropSame DEF Shown
  <2>4. y.seen = << >> /\ y.since = "iac"
    <3>. DEFINE last == IF x.flushout \/ x.ttyoring = << >> THEN x.lastDropped ELSE Last(x.ttyoring).n
    <3>1. Drop(x) = [x EXCEPT !.ttyoring = << >>, !.shown = << >>, !.seen = << >>, !.since = x.state,
                              !.lastDropped = last]
      BY DEF Drop
    <3>. HIDE DEF last
    <3>. QED  BY <1>1, <2>1, <3>1 DEF Shown, Form, Fields
  <2>5. CutShort(c, o) = z
    BY <1>2, <2>4
  <2>6. Shown(y) /\ Below(y, base) /\ Form(y)
    BY <2>3 DEF InStep, Shown
  <2>7. /\ DOMAIN z = Fields /\ z.netiring = y.netiring /\ z.state = y.state
        /\ z.ttyoring = y.ttyoring /\ z.mode = y.mode /\ z.shown = y.shown /\ z.seen = one
        /\ z.since = y.since /\ z.refused = y.refused
    BY <2>6 DEF Form, Fields
  <2>. HIDE DEF z
  <2>8. Shown(z)
    BY <1>5, <2>6, <2>7 DEF Shown, Form
  <2>9. Below(z, base) /\ Fresh(z) = << >>
    BY <2>3, <2>6, <2>7 DEF Below, Fresh, Output
  <2>. DEFINE n == NothingRead("iac")
  <2>10. n \in Reading /\ n.state = "iac" /\ n.text = << >>
    BY <1>0, NothingReadType
  <2>11. ReadBy(z) = CommandMoves(n, o)
    <3>. DEFINE mode == z.mode
                since == "iac"
                s == << >>
    <3>1. since \in ParserState /\ s \in Seq(Octet)
      BY <1>0
    <3>2. ReadBy(z) = ReadFrom(mode, since, Append(s, o)) /\ NothingRead(since) = n
      BY <1>5, <2>4, <2>7 DEF ReadBy
    <3>. HIDE DEF mode, since
    <3>3. ReadFrom(mode, since, s) = NothingRead(since)
      BY <3>1, ReadNothing
    <3>. HIDE DEF s
    <3>4. ReadFrom(mode, since, Append(s, o)) = TextNext(mode, NothingRead(since), o)
      BY <3>1, <3>3, ReadMore
    <3>. HIDE DEF n
    <3>5. TextNext(mode, n, o) = CommandMoves(n, o)
      BY <2>10 DEF TextNext
    <3>. QED  BY <3>2, <3>4, <3>5
  <2>. HIDE DEF n
  <2>12. Owes(z, n, base)
    <3>. DEFINE e == << >>
    <3>1. e \in Seq(Octet) /\ Fresh(z) = e /\ n.text = e
      BY <2>9, <2>10
    <3>. HIDE DEF e
    <3>2. Alike(Fresh(z), n.text)
      BY <3>1, AlikeSame
    <3>. QED  BY <2>8, <2>9, <2>10, <3>2 DEF Owes
  <2>. QED  BY <1>1, <2>3, <2>5, <2>7, <2>11, <2>12
<1>7. CASE ~(x.SYNCHing \/ x.flushout)
  <2>1. y = Write(x, k)
    BY <1>4, <1>7
  <2>2. /\ Shown(y) /\ Output(y) = Output(x) /\ ReadBy(y) = ReadBy(x) /\ Fresh(y) = Fresh(x)
        /\ y.refused = x.refused /\ y.netiring = x.netiring /\ y.seen = x.seen
    BY <1>1, <1>3, <2>1, WriteSame
  <2>3. CutShort(c, o) = y
    BY <1>1, <1>2, <2>2
  <2>4. Owes(y, m, base)
    BY <1>1, <2>2 DEF Owes, Below
  <2>. QED  BY <1>1, <2>2, <2>3, <2>4
<1>. QED  BY <1>6, <1>7

LEMMA ReceiveSubEndInStep ==
    ASSUME NEW c, NEW m, NEW base \in Nat, Owes(c, m, base), c.seen # << >>,
           NEW o \in Octet, o.n = base + 1, NEW pending,
           ReadBy(c) = (CASE o.code = "IAC" -> Moves(m, "sb")
                          [] o.code = "SE" -> Moves(m, "data")
                          [] OTHER -> CommandMoves(m, o)),
           NEW e \in ReceiveSubEnd(c, o, pending)
    PROVE  InStep(e, base + 1) /\ e.netiring = c.netiring
<1>. DEFINE d == [c EXCEPT !.state = "data"]
            sb == [c EXCEPT !.state = "sb"]
            cut == CutShort(c, o)
            next == base + 1
<1>0. "data" \in ParserState /\ "sb" \in ParserState /\ next \in Nat
  BY DEF ParserState
<1>1. CASE o.code = "IAC"
  <2>1. ReadBy(c) = Moves(m, "sb") /\ e = sb
    BY <1>1 DEF ReceiveSubEnd
  <2>2. InStep(sb, base + 1) /\ sb.netiring = c.netiring
    BY <1>0, <2>1, MoveInStep
  <2>. QED  BY <2>1, <2>2
<1>2. CASE o.code = "SE"
  <2>1. ReadBy(c) = Moves(m, "data") /\ (e \in Answered(d) \/ e \in Answered(NewMode(d)))
    BY <1>2 DEF ReceiveSubEnd
  <2>2. InStep(d, next) /\ d.netiring = c.netiring
    BY <1>0, <2>1, MoveInStep
  <2>. HIDE DEF d, next
  <2>3. InStep(NewMode(d), next) /\ NewMode(d).netiring = c.netiring
    BY <1>0, <2>2, NewModeInStep
  <2>4. InStep(e, next) /\ e.netiring = c.netiring
    BY <1>0, <2>1, <2>2, <2>3, AnsweredInStep
  <2>. QED  BY <2>4 DEF next
<1>3. CASE o.code # "IAC" /\ o.code # "SE"
  <2>1. ReadBy(c) = CommandMoves(m, o)
    BY <1>3
  <2>2. e \in UNION {Answered(ReceiveCommand(x, o, pending)) : x \in {c, cut}}
    BY <1>3 DEF ReceiveSubEnd
  <2>3. PICK x \in {c, cut} : e \in Answered(ReceiveCommand(x, o, pending))
    BY <2>2
  <2>4. /\ x.netiring = c.netiring
        /\ \E n : Owes(x, n, base) /\ ReadBy(x) = CommandMoves(n, o)
    <3>1. /\ cut.netiring = c.netiring
          /\ \E n : Owes(cut, n, base) /\ ReadBy(cut) = CommandMoves(n, o)
      BY <1>3, <2>1, CutShortOwes
    <3>. HIDE DEF cut
    <3>. QED  BY <2>1, <2>3, <3>1
  <2>5. PICK n : Owes(x, n, base) /\ ReadBy(x) = CommandMoves(n, o)
    BY <2>4
  <2>. DEFINE f == ReceiveCommand(x, o, pending)
  <2>6. InStep(f, base + 1) /\ f.netiring = x.netiring
    BY <1>3, <2>5, ReceiveCommandInStep
  <2>. HIDE DEF f
  <2>7. InStep(e, next) /\ e.netiring = f.netiring
    BY <1>0, <2>3, <2>6, AnsweredInStep DEF f
  <2>. QED  BY <2>4, <2>6, <2>7
<1>. QED  BY <1>1, <1>2, <1>3

\* telrcv() takes the octet number base + 1, and perhaps the next.
LEMMA ReceivedInStep ==
    ASSUME NEW c, NEW base \in Nat, InStep(c, base), c.netiring # << >>,
           Head(c.netiring).n = base + 1,
           Tail(c.netiring) # << >> => Head(Tail(c.netiring)).n = base + 2,
           NEW pending, NEW e \in Received(c, pending)
    PROVE  \/ e.netiring = Tail(c.netiring) /\ InStep(e, base + 1)
           \/ Tail(c.netiring) # << >> /\ e.netiring = Tail(Tail(c.netiring)) /\ InStep(e, base + 2)
<1>. DEFINE o == Head(c.netiring)
            ring == Tail(c.netiring)
            d == [c EXCEPT !.netiring = ring, !.seen = Append(c.seen, o)]
            m == ReadBy(c)
            mode == c.mode
            se == [d EXCEPT !.state = "se"]
<1>1. Shown(c) /\ Below(c, base) /\ c.state \in ParserState /\ Stands(c, m.state) /\ Alike(Fresh(c), m.text)
  BY DEF InStep, Shown, Form
<1>2. m \in Reading /\ m.state \in ParserState /\ m.text \in Seq(Octet)
  BY <1>1, ReadByType
<1>3. /\ o \in Octet /\ Shown(d) /\ Fresh(d) = Fresh(c) /\ ReadBy(d) = TextNext(mode, m, o)
      /\ d.state = c.state /\ d.netiring = ring /\ d.mode = mode /\ d.seen # << >>
      /\ \A b : Below(c, b) => Below(d, b)
  BY <1>1, TakeShown
<1>4. m.state = c.state \/ (m.state = "cr" /\ c.state = "data" /\ o.code # "NUL")
  BY <1>1 DEF Stands
<1>5. /\ c.state = "data" => e = ReceiveData(d, o)
      /\ c.state = "cr" => e = ReceiveAfterCr(d, o)
      /\ c.state = "iac" => e = ReceiveCommand(d, o, pending)
      /\ c.state \in {"WILL", "DO", "DONT"} => e \in ReceiveOption(d, o)
      /\ c.state = "sb" => e = IF o.code = "IAC" THEN se ELSE d
      /\ c.state = "se" => e \in ReceiveSubEnd(d, o, pending)
  BY DEF Received
<1>. HIDE DEF d, m, o, ring
<1>6. Owes(d, m, base)
  BY <1>1, <1>2, <1>3 DEF Owes
<1>7. o.n = base + 1 /\ (d.netiring # << >> => Head(d.netiring).n = base + 2)
  BY <1>3 DEF o, ring
<1>8. SUFFICES Went(d, e, base + 1)
  <2>1. (base + 1) + 1 = base + 2
    OBVIOUS
  <2>. QED  BY <1>3, <2>1 DEF Went, ring
<1>9. CASE c.state = "data"
  <2>1. ReadBy(d) = DataShows(d.mode, m, o)
    BY <1>3, <1>4, <1>9 DEF TextNext
  <2>. QED  BY <1>3, <1>5, <1>6, <1>7, <1>9, <2>1, ReceiveDataWent
<1>10. CASE c.state = "cr"
  <2>1. ReadBy(d) = IF o.code = "NUL" THEN Moves(m, "data") ELSE DataShows(d.mode, m, o)
    BY <1>3, <1>4, <1>10 DEF TextNext
  <2>. QED  BY <1>3, <1>5, <1>6, <1>7, <1>10, <2>1, ReceiveAfterCrWent
<1>11. CASE c.state = "iac"
  <2>1. ReadBy(d) = IF o.code = "IAC" THEN Shows(m, o, "data") ELSE CommandMoves(m, o)
    BY <1>3, <1>4, <1>11 DEF TextNext
  <2>2. InStep(e, base + 1) /\ e.netiring = d.netiring
    BY <1>3, <1>5, <1>6, <1>7, <1>11, <2>1, ReceiveCommandInStep
  <2>. QED  BY <2>2 DEF Went
<1>12. CASE c.state \in {"WILL", "DO", "DONT"}
  <2>1. ReadBy(d) = Moves(m, "data")
    BY <1>3, <1>4, <1>12 DEF TextNext
  <2>2. InStep(e, base + 1) /\ e.netiring = d.netiring
    BY <1>5, <1>6, <1>12, <2>1, ReceiveOptionInStep
  <2>. QED  BY <2>2 DEF Went
<1>13. CASE c.state = "sb"
  <2>1. ReadBy(d) = IF o.code = "IAC" THEN Moves(m, "se") ELSE m
    BY <1>3, <1>4, <1>13 DEF TextNext
  <2>2. CASE o.code = "IAC"
    <3>1. "se" \in ParserState /\ ReadBy(d) = Moves(m, "se") /\ e = se
      BY <1>5, <1>13, <2>1, <2>2 DEF ParserState
    <3>2. InStep(se, base + 1) /\ se.netiring = d.netiring
      BY <1>6, <3>1, MoveInStep
    <3>. HIDE DEF se
    <3>. QED  BY <3>1, <3>2 DEF Went
  <2>3. CASE o.code # "IAC"
    <3>1. ReadBy(d) = m /\ e = d /\ m.state = d.state
      BY <1>3, <1>4, <1>5, <1>13, <2>1, <2>3
    <3>2. Below(d, base + 1)
      BY <1>6, BelowMore DEF Owes
    <3>3. InStep(d, base + 1)
      BY <1>6, <3>1, <3>2 DEF InStep, Stands, Owes
    <3>. QED  BY <3>1, <3>3 DEF Went
  <2>. QED  BY <2>2, <2>3
<1>14. CASE c.state = "se"
  <2>1. ReadBy(d) = CASE o.code = "IAC" -> Moves(m, "sb")
                      [] o.code = "SE" -> Moves(m, "data")
                      [] OTHER -> CommandMoves(m, o)
    BY <1>3, <1>4, <1>14 DEF TextNext
  <2>2. InStep(e, base + 1) /\ e.netiring = d.netiring
    BY <1>3, <1>5, <1>6, <1>7, <1>14, <2>1, ReceiveSubEndInStep
  <2>. QED  BY <2>2 DEF Went
<1>. QED  BY <1>1, <1>9, <1>10, <1>11, <1>12, <1>13, <1>14 DEF ParserState

-----------------------------------------------------------------------------
(* telrcv() leaves the mode alone.                                         *)

LEMMA AnsweredMode ==
    ASSUME NEW c, DOMAIN c = Fields, NEW e \in Answered(c)
    PROVE  e.mode = c.mode
<1>1. PICK a \in Answers : e = Emit(c, FlattenSeq(a), a)
  BY DEF Answered
<1>. DEFINE bytes == FlattenSeq(a)
            meant == c.meant \o a
<1>2. e = [c EXCEPT !.writing = bytes, !.meant = meant]
  BY <1>1 DEF Emit
<1>. HIDE DEF bytes, meant
<1>. QED  BY <1>2 DEF Fields

LEMMA ReceiveOptionMode ==
    ASSUME NEW c, DOMAIN c = Fields, NEW o, NEW e \in ReceiveOption(c, o)
    PROVE  e.mode = c.mode
<1>. DEFINE d == [c EXCEPT !.state = "data"]
            f == [d EXCEPT !.flushout = FALSE]
<1>1. e = f \/ e \in Answered(NewMode(d)) \/ e \in Answered(d)
  BY DEF ReceiveOption
<1>2. Silent(c, d)
  BY SilentUpdates
<1>. HIDE DEF d
<1>3. Silent(c, f) /\ Silent(c, NewMode(d))
  BY <1>2, SilentUpdates, NewModeSilent, SilentThen DEF Silent
<1>. HIDE DEF f
<1>. QED  BY <1>1, <1>2, <1>3, AnsweredMode DEF Silent

LEMMA ReceiveSubEndMode ==
    ASSUME NEW c, DOMAIN c = Fields, NEW o, NEW pending, NEW e \in ReceiveSubEnd(c, o, pending)
    PROVE  e.mode = c.mode
<1>. DEFINE d == [c EXCEPT !.state = "data"]
            sb == [c EXCEPT !.state = "sb"]
            command == ReceiveCommand(c, o, pending)
            cut == CutShort(c, o)
            late == ReceiveCommand(cut, o, pending)
<1>1. \/ e = sb \/ e \in Answered(d) \/ e \in Answered(NewMode(d))
      \/ e \in Answered(command) \/ e \in Answered(late)
  BY DEF ReceiveSubEnd
<1>2. Silent(c, d) /\ Silent(c, sb) /\ Silent(c, command) /\ Silent(c, cut)
  BY SilentUpdates, ReceiveCommandSilent, CutShortSilent
<1>. HIDE DEF d, sb, command, cut
<1>3. Silent(c, NewMode(d)) /\ Silent(c, late)
  BY <1>2, NewModeSilent, ReceiveCommandSilent, SilentThen DEF Silent
<1>. HIDE DEF late
<1>. QED  BY <1>1, <1>2, <1>3, AnsweredMode DEF Silent

LEMMA ReceivedMode ==
    ASSUME NEW c, Form(c), NEW pending, NEW e \in Received(c, pending)
    PROVE  e.mode = c.mode
<1>. DEFINE o == Head(c.netiring)
            ring == Tail(c.netiring)
            seen == Append(c.seen, o)
            d == [c EXCEPT !.netiring = ring, !.seen = seen]
            se == [d EXCEPT !.state = "se"]
<1>1. e \in {ReceiveData(d, o), ReceiveAfterCr(d, o), ReceiveCommand(d, o, pending), d, se}
         \/ e \in ReceiveOption(d, o) \/ e \in ReceiveSubEnd(d, o, pending)
  <2>1. Received(c, pending) \in
           {{ReceiveData(d, o)}, {ReceiveAfterCr(d, o)}, {ReceiveCommand(d, o, pending)},
            ReceiveOption(d, o), {IF o.code = "IAC" THEN se ELSE d},
            ReceiveSubEnd(d, o, pending)}
    <3>1. c.state \in {"data", "cr", "iac", "WILL", "DO", "DONT", "sb", "se"}
      BY DEF Form, ParserState
    <3>. QED  BY <3>1 DEF Received
  <2>. HIDE DEF o, d, se
  <2>. QED  BY <2>1
<1>. HIDE DEF seen, ring
<1>2. Silent(c, d)
  BY SilentUpdates DEF Form
<1>. HIDE DEF o, d
<1>3. Silent(d, se) /\ DOMAIN d = Fields /\ d.mode = c.mode
  BY <1>2, SilentUpdates DEF Silent
<1>. HIDE DEF se
<1>4. /\ Silent(d, ReceiveData(d, o)) /\ Silent(d, ReceiveAfterCr(d, o))
      /\ Silent(d, ReceiveCommand(d, o, pending))
  BY <1>3, ReceiveDataSilent, ReceiveAfterCrSilent, ReceiveCommandSilent
<1>. QED  BY <1>1, <1>3, <1>4, ReceiveOptionMode, ReceiveSubEndMode DEF Silent

-----------------------------------------------------------------------------
(* The octets that the parser has taken                                    *)

Done == told.octets - Len(stream) - Len(client.netiring)

LEMMA DoneIs ==
    ASSUME IndInv, NumInv
    PROVE  /\ Done \in Nat /\ Numbered(client, stream, Done, told.octets, told.mark)
           /\ told.octets = Done + Len(client.netiring) + Len(stream)
<1>1. PICK base \in Nat : Numbered(client, stream, base, told.octets, told.mark)
  BY DEF NumInv
<1>. DEFINE n == Len(client.netiring)
            m == Len(stream)
            octets == told.octets
<1>2. n \in Nat /\ m \in Nat /\ octets = base + n + m
  BY <1>1, StreamLengths DEF Numbered
<1>3. Done = octets - m - n
  BY DEF Done
<1>. HIDE DEF n, m, octets
<1>4. Done = base /\ octets = Done + n + m
  BY <1>2, <1>3
<1>. QED  BY <1>1, <1>4 DEF n, m, octets

ReadInv == client.mode.crmod \/ InStep(client, Done)

LEMMA ReadInit == Init => ReadInv
<1>. SUFFICES ASSUME Init, ~client.mode.crmod  PROVE InStep(client, Done)
  BY DEF ReadInv
<1>1. PICK mode \in Modes : client = ClientInit(mode)
  BY DEF Init
<1>2. IndInv /\ NumInv
  BY InitInv, NumInit
<1>3. Form(client) /\ Done \in Nat
  BY <1>2, ClientForm, DoneIs
<1>4. /\ client.ttyoring = << >> /\ client.shown = << >> /\ client.seen = << >>
      /\ client.since = "data" /\ client.state = "data" /\ client.refused = 0
  BY <1>1 DEF ClientInit
<1>5. /\ << >> \in Seq(Octet) /\ << >> \o << >> = << >> /\ Len(<< >>) = 0
      /\ "data" \in ParserState
  BY DEF ParserState
<1>6. Shown(client)
  BY <1>3, <1>4, <1>5 DEF Shown
<1>7. Output(client) = << >>
  BY <1>4, <1>5 DEF Output
<1>8. Below(client, Done)
  BY <1>3, <1>4, <1>5, <1>7 DEF Below
<1>9. Fresh(client) = << >>
  <2>. DEFINE s == << >>
              n == 0
  <2>1. s \in Seq(Octet) /\ n \in Nat /\ \A i \in 1 .. Len(s) : s[i].n <= n
    OBVIOUS
  <2>2. Fresh(client) = Beyond(s, n)
    BY <1>4, <1>7 DEF Fresh
  <2>. HIDE DEF s, n
  <2>3. Beyond(s, n) = << >>
    BY <2>1, NoneBeyond
  <2>. QED  BY <2>2, <2>3
<1>. HIDE DEF Done
<1>. QED  BY <1>3, <1>4, <1>6, <1>8, <1>9, NothingInStep

LEMMA LeavesRead ==
    ASSUME IndInv, NumInv, ReadInv, Leaves(client, client'), UNCHANGED <<stream, urgent, told>>
    PROVE  ReadInv'
<1>1. Done \in Nat /\ Done' = Done
  BY DoneIs DEF Done, Leaves
<1>2. client'.mode = client.mode /\ (InStep(client, Done) => InStep(client', Done))
  BY <1>1 DEF Leaves
<1>. QED  BY <1>1, <1>2 DEF ReadInv

LEMMA ServerSendsRead ==
    ASSUME IndInv, NumInv, ReadInv, NEW unit \in Seq(Code), NEW place, ServerSends(unit, place),
           told'.octets = told.octets + Len(unit)
    PROVE  ReadInv'
<1>. DEFINE more == [i \in DOMAIN unit |-> [code |-> unit[i], n |-> told.octets + i]]
            n == Len(client.netiring)
            m == Len(stream)
            octets == told.octets
            k == Len(unit)
<1>1. stream' = stream \o more /\ UNCHANGED client
  BY DEF ServerSends
<1>2. n \in Nat /\ m \in Nat /\ octets \in Nat /\ k \in Nat
  BY StreamLengths
<1>3. Len(stream') = m + k
  <2>1. more \in Seq(Octet) /\ Len(more) = k
    <3>. DEFINE at == octets
    <3>0. k \in Nat /\ DOMAIN unit = 1 .. k /\ \A i \in 1 .. k : unit[i] \in Code
      OBVIOUS
    <3>1. \A i \in 1 .. k : more[i] \in Octet
      BY <1>2, <3>0 DEF Octet
    <3>2. more = [i \in 1 .. k |-> more[i]]
      BY <3>0
    <3>. HIDE DEF more, k
    <3>. QED  BY <3>0, <3>1, <3>2, ListedSeq
  <2>2. stream \in Seq(Octet)
    BY StreamLengths
  <2>3. stream' = stream \o more
    BY <1>1
  <2>. HIDE DEF more, k
  <2>4. Len(stream \o more) = Len(stream) + Len(more)
    BY <2>1, <2>2, JoinedSeq
  <2>. QED  BY <2>1, <2>3, <2>4
<1>4. Done = octets - m - n /\ Done' = (octets + k) - (m + k) - n
  BY <1>1, <1>3 DEF Done
<1>. HIDE DEF octets, m, k, n
<1>5. Done' = Done
  BY <1>2, <1>4
<1>. QED  BY <1>1, <1>5 DEF ReadInv

LEMMA ServerWritesRead ==
    ASSUME IndInv, NumInv, ReadInv, NEW unit \in Unit, ServerWrites(unit)
    PROVE  ReadInv'
<1>1. unit \in Seq(Code)
  BY UnitAssumption
<1>2. PICK place : ServerSends(unit, place)
  BY DEF ServerWrites
<1>3. told'.octets = told.octets + Len(unit)
  BY DEF ServerWrites, IndInv
<1>. QED  BY <1>1, <1>2, <1>3, ServerSendsRead

LEMMA ServerAnswersRead ==
    ASSUME IndInv, NumInv, ReadInv, ServerAnswers
    PROVE  ReadInv'
<1>. DEFINE unit == <<"IAC", "WILL", "TM">>
<1>1. ServerSends(unit, 0)
  BY DEF ServerAnswers
<1>2. told'.octets = told.octets + 3
  BY DEF ServerAnswers, IndInv
<1>3. Len(unit) = 3 /\ unit \in Seq(Code)
  BY WillTiming
<1>. HIDE DEF unit
<1>4. told'.octets = told.octets + Len(unit)
  BY <1>2, <1>3
<1>. QED  BY <1>1, <1>3, <1>4, ServerSendsRead

LEMMA TelrcvRead ==
    ASSUME IndInv, NumInv, ReadInv, Telrcv
    PROVE  ReadInv'
<1>1. UNCHANGED <<stream, urgent, told>> /\ client.pc = "telrcv"
  BY DEF Telrcv, Running
<1>. DEFINE pending == urgent # 0
            ring == client.netiring
            base == Done
            p == PhaseOf(client.state)
<1>2. PICK c \in Received(client, pending) : client' = Onward(c, FALSE)
  BY DEF Telrcv
<1>. HIDE DEF pending
<1>3. /\ ring \in Seq(Octet) /\ ring # << >> /\ stream \in Seq(Octet) /\ Form(client)
      /\ told.octets \in Nat /\ Len(stream) \in Nat /\ Len(ring) \in Nat
  BY <1>1, StreamLengths DEF IndInv, Sound, CanReceive
<1>4. base \in Nat /\ Numbered(client, stream, base, told.octets, told.mark)
  BY DoneIs
<1>5. c.mode = client.mode
  BY <1>2, <1>3, ReceivedMode
<1>6. Leaves(c, client')
  <2>1. Form(c)
    BY <1>2, <1>3, ReceivedGrows DEF Grows
  <2>. QED  BY <1>2, <2>1, OnwardLeaves
<1>7. client'.mode = client.mode /\ client'.netiring = c.netiring
  BY <1>5, <1>6 DEF Leaves
<1>8. CASE client.mode.crmod
  BY <1>7, <1>8 DEF ReadInv
<1>9. CASE ~client.mode.crmod
  <2>1. InStep(client, base)
    BY <1>9 DEF ReadInv
  <2>. DEFINE next == base + 1
              rest == Tail(ring)
  <2>2. Unread(p, ring \o stream, base, told.mark)
    BY <1>4 DEF Numbered
  <2>. HIDE DEF base, p
  <2>3. /\ Head(ring) \in Octet /\ rest \in Seq(Octet) /\ Len(ring) = Len(rest) + 1
        /\ \E q : ReadAs(Head(ring), p, q, next, told.mark) /\ Unread(q, rest \o stream, next, told.mark)
    BY <1>3, <1>4, <2>2, UnreadHead
  <2>4. PICK q : ReadAs(Head(ring), p, q, next, told.mark) /\ Unread(q, rest \o stream, next, told.mark)
    BY <2>3
  <2>5. Head(ring).n = base + 1
    BY <2>4 DEF ReadAs
  <2>6. next \in Nat /\ next + 1 = base + 2
    BY <1>4
  <2>. HIDE DEF next
  <2>7. rest # << >> => /\ Head(rest).n = base + 2 /\ Len(rest) = Len(Tail(rest)) + 1
                        /\ Tail(rest) \in Seq(Octet)
    <3>1. SUFFICES ASSUME rest # << >>
                   PROVE  /\ Head(rest).n = base + 2 /\ Len(rest) = Len(Tail(rest)) + 1
                          /\ Tail(rest) \in Seq(Octet)
      OBVIOUS
    <3>. HIDE DEF rest
    <3>2. /\ Tail(rest) \in Seq(Octet) /\ Len(rest) = Len(Tail(rest)) + 1
          /\ \E r : ReadAs(Head(rest), q, r, next + 1, told.mark)
      BY <1>3, <2>3, <2>4, <2>6, <3>1, UnreadHead
    <3>. QED  BY <2>6, <3>2 DEF ReadAs
  <2>8. \/ c.netiring = rest /\ InStep(c, base + 1)
        \/ rest # << >> /\ c.netiring = Tail(rest) /\ InStep(c, base + 2)
    <3>1. /\ client.netiring # << >> /\ Head(client.netiring).n = base + 1
          /\ Tail(client.netiring) # << >> => Head(Tail(client.netiring)).n = base + 2
      BY <1>3, <2>5, <2>7
    <3>2. \/ c.netiring = Tail(client.netiring) /\ InStep(c, base + 1)
          \/ /\ Tail(client.netiring) # << >> /\ c.netiring = Tail(Tail(client.netiring))
             /\ InStep(c, base + 2)
      BY <1>2, <1>4, <2>1, <3>1, ReceivedInStep
    <3>. QED  BY <3>2
  <2>9. PICK n \in {1, 2} : InStep(c, base + n) /\ Len(c.netiring) = Len(ring) - n
    <3>1. CASE c.netiring = rest /\ InStep(c, base + 1)
      <4>1. Len(c.netiring) = Len(ring) - 1
        <5>. HIDE DEF rest
        <5>1. Len(rest) \in Nat
          BY <2>3
        <5>. QED  BY <2>3, <3>1, <5>1
      <4>. QED  BY <3>1, <4>1
    <3>2. CASE rest # << >> /\ c.netiring = Tail(rest) /\ InStep(c, base + 2)
      <4>1. Len(c.netiring) = Len(ring) - 2
        <5>. DEFINE last == Tail(rest)
        <5>1. Len(rest) = Len(last) + 1 /\ Len(last) \in Nat /\ Len(ring) = Len(rest) + 1
              /\ c.netiring = last
          BY <2>3, <2>7, <3>2
        <5>. HIDE DEF rest, last
        <5>. QED  BY <5>1
      <4>. QED  BY <3>2, <4>1
    <3>. QED  BY <2>8, <3>1, <3>2
  <2>10. Done' = base + n
    <3>. DEFINE x == Len(ring)
                y == Len(stream)
                z == told.octets
    <3>1. base = z - y - x /\ Done' = z - y - (x - n) /\ x \in Nat /\ y \in Nat /\ z \in Nat /\ n \in Nat
      BY <1>1, <1>3, <1>7, <2>9 DEF Done, base
    <3>. HIDE DEF x, y, z
    <3>. QED  BY <3>1
  <2>11. InStep(client', base + n)
    <3>. DEFINE b == base + n
    <3>1. b \in Nat /\ InStep(c, b)
      BY <1>4, <2>9
    <3>. HIDE DEF b
    <3>2. InStep(client', b)
      BY <1>6, <3>1, LeavesInStep
    <3>. QED  BY <3>2 DEF b
  <2>. QED  BY <2>10, <2>11 DEF ReadInv
<1>. QED  BY <1>8, <1>9

\* What is read into the ring comes behind what is there.
LEMMA RingReadInStep ==
    ASSUME NEW c, NEW base \in Nat, InStep(c, base), NEW more \in Seq(Octet), NEW keys
    PROVE  InStep([c EXCEPT !.netiring = c.netiring \o more, !.ttyiring = keys], base)
<1>. DEFINE ring == c.netiring \o more
            d == [c EXCEPT !.netiring = ring, !.ttyiring = keys]
<1>1. Shown(c) /\ Below(c, base) /\ Form(c) /\ c.netiring \in Seq(Octet)
  BY DEF InStep, Shown, Form
<1>2. /\ ring \in Seq(Octet)
      /\ c.netiring # << >> => ring # << >> /\ Head(ring) = Head(c.netiring)
  <2>. DEFINE s == c.netiring
  <2>1. s \in Seq(Octet)
    BY <1>1
  <2>. HIDE DEF s
  <2>2. s \o more \in Seq(Octet) /\ (s # << >> => s \o more # << >> /\ Head(s \o more) = Head(s))
    BY <2>1
  <2>. QED  BY <2>2 DEF s
<1>. HIDE DEF ring
<1>3. /\ DOMAIN d = Fields /\ d.netiring = ring /\ d.state = c.state /\ d.mode = c.mode
      /\ d.ttyoring = c.ttyoring /\ d.shown = c.shown /\ d.seen = c.seen /\ d.since = c.since
      /\ d.refused = c.refused
  BY <1>1 DEF Form, Fields
<1>. HIDE DEF d
<1>4. Form(d)
  BY <1>1, <1>2, <1>3 DEF Form
<1>5. /\ Shown(d) /\ ReadBy(d) = ReadBy(c) /\ Fresh(d) = Fresh(c) /\ Below(d, base)
  BY <1>1, <1>3, <1>4, SameShown
<1>6. Stands(d, ReadBy(c).state)
  BY <1>2, <1>3 DEF InStep, Stands
<1>7. InStep(d, base)
  BY <1>5, <1>6 DEF InStep
<1>. QED  BY <1>7 DEF d, ring

\* The notice of urgent data
LEMMA NoticedInStep ==
    ASSUME NEW c, NEW base \in Nat, InStep(c, base)
    PROVE  /\ InStep(Drop([c EXCEPT !.SYNCHing = TRUE]), base)
           /\ Drop([c EXCEPT !.SYNCHing = TRUE]).mode = c.mode
           /\ Drop([c EXCEPT !.SYNCHing = TRUE]).netiring = c.netiring
<1>. DEFINE d == [c EXCEPT !.SYNCHing = TRUE]
<1>1. Shown(c) /\ Below(c, base) /\ Form(c)
  BY DEF InStep, Shown
<1>2. /\ DOMAIN d = Fields /\ d.netiring = c.netiring /\ d.state = c.state /\ d.mode = c.mode
      /\ d.ttyoring = c.ttyoring /\ d.shown = c.shown /\ d.seen = c.seen /\ d.since = c.since
      /\ d.refused = c.refused
  BY <1>1 DEF Form, Fields
<1>. HIDE DEF d
<1>3. Form(d)
  BY <1>1, <1>2 DEF Form
<1>4. Shown(d) /\ Below(d, base)
  BY <1>1, <1>2, <1>3, SameShown
<1>5. InStep(Drop(d), base) /\ Drop(d).mode = c.mode /\ Drop(d).netiring = c.netiring
  BY <1>2, <1>3, <1>4, DropInStep, DropSame DEF Below
<1>. QED  BY <1>5 DEF d

LEMMA ProcessRingsRead ==
    ASSUME IndInv, NumInv, ReadInv, ProcessRings
    PROVE  ReadInv'
<1>. DEFINE base == Done
<1>1. PICK noticed, a, c, d, k, keys : Stages(noticed, a, c, d, k, keys)
  BY ProcessRingsSteps
<1>. USE DEF Stages
<1>2. /\ stream \in Seq(Octet) /\ Len(stream) \in Nat /\ Len(client.netiring) \in Nat
      /\ client.netiring \in Seq(Octet) /\ Form(client) /\ told.octets \in Nat /\ base \in Nat
  BY StreamLengths, DoneIs
<1>. DEFINE more == SubSeq(stream, 1, k)
            rest == SubSeq(stream, k + 1, Len(stream))
<1>3. more \in Seq(Octet) /\ Len(more) = k /\ Len(rest) = Len(stream) - k /\ k \in Nat
  BY <1>1, <1>2
<1>. HIDE DEF base
<1>4. a.mode = client.mode /\ a.netiring = client.netiring
  <2>. DEFINE x == [client EXCEPT !.SYNCHing = TRUE]
  <2>1. /\ DOMAIN x = Fields /\ x.netiring = client.netiring /\ x.state = client.state
        /\ x.ttyoring = client.ttyoring /\ x.mode = client.mode
    BY <1>2 DEF Form, Fields
  <2>2. a = IF noticed THEN Drop(x) ELSE client
    BY <1>1
  <2>. HIDE DEF x
  <2>3. Form(x)
    BY <1>2, <2>1 DEF Form
  <2>. QED  BY <2>1, <2>2, <2>3, DropSame
<1>5. /\ c.mode = client.mode /\ c.netiring = client.netiring /\ DOMAIN c = Fields
      /\ c.state \in ParserState /\ c.ttyoring \in Seq(Octet) /\ Form(c)
  BY <1>1, <1>4 DEF Leaves, Form
<1>. HIDE DEF more
<1>6. d.netiring = c.netiring \o more /\ d.mode = c.mode /\ Form(d)
  <2>. DEFINE ring == c.netiring \o more
  <2>1. ring \in Seq(Octet)
    BY <1>2, <1>3, <1>5, JoinedSeq
  <2>2. d = [c EXCEPT !.netiring = ring, !.ttyiring = keys]
    BY <1>1 DEF more
  <2>. HIDE DEF ring
  <2>3. /\ DOMAIN d = Fields /\ d.netiring = ring /\ d.state = c.state /\ d.mode = c.mode
        /\ d.ttyoring = c.ttyoring
    BY <1>5, <2>2 DEF Fields
  <2>4. Form(d)
    BY <1>5, <2>1, <2>3 DEF Form
  <2>. QED  BY <2>3, <2>4 DEF ring
<1>7. Leaves(d, client')
  BY <1>1, <1>6, OnwardLeaves
<1>8. client'.mode = client.mode /\ client'.netiring = client.netiring \o more
  BY <1>5, <1>6, <1>7 DEF Leaves
<1>9. Done' = base
  <2>. DEFINE x == Len(client.netiring)
              y == Len(stream)
              z == told.octets
  <2>1. Len(client'.netiring) = x + k
    BY <1>2, <1>3, <1>8, JoinedSeq
  <2>2. Len(stream') = y - k
    BY <1>1, <1>3
  <2>3. Done' = z - (y - k) - (x + k) /\ base = z - y - x
    BY <1>1, <2>1, <2>2 DEF Done, base
  <2>. HIDE DEF x, y, z
  <2>4. x \in Nat /\ y \in Nat /\ z \in Nat /\ k \in Nat
    BY <1>2, <1>3 DEF x, y, z
  <2>. QED  BY <2>3, <2>4
<1>10. CASE client.mode.crmod
  BY <1>8, <1>10 DEF ReadInv
<1>11. CASE ~client.mode.crmod
  <2>1. InStep(client, base)
    BY <1>11 DEF ReadInv, base
  <2>2. InStep(a, base)
    BY <1>1, <1>2, <2>1, NoticedInStep
  <2>3. InStep(c, base)
    BY <1>1, <1>2, <2>2, LeavesInStep
  <2>4. InStep(d, base)
    <3>1. d = [c EXCEPT !.netiring = c.netiring \o more, !.ttyiring = keys]
      BY <1>1 DEF more
    <3>2. InStep([c EXCEPT !.netiring = c.netiring \o more, !.ttyiring = keys], base)
      BY <1>2, <1>3, <2>3, RingReadInStep
    <3>. QED  BY <3>1, <3>2
  <2>5. InStep(client', base)
    BY <1>2, <1>7, <2>4, LeavesInStep
  <2>. QED  BY <1>9, <2>5 DEF ReadInv
<1>. QED  BY <1>10, <1>11

LEMMA ReadInductive == Init /\ [][Next]_vars => []ReadInv
<1>1. ASSUME IndInv, NumInv, ReadInv, [Next]_vars  PROVE ReadInv'
  <2>1. CASE UNCHANGED vars
    BY <1>1, <2>1 DEF vars, ReadInv, Done
  <2>2. ASSUME NEW k \in Key, UserTypes(k)  PROVE ReadInv'
    BY <1>1, <2>2 DEF UserTypes, ReadInv, Done
  <2>3. CASE Telsnd \/ WriteOut \/ Intr \/ Susp \/ Winch
    BY <1>1, <2>3, TelsndLeaves, WriteOutLeaves, HandlersLeaves, LeavesRead
  <2>4. CASE Next
    BY <1>1, <2>2, <2>3, <2>4, ServerWritesRead, ServerAnswersRead, ProcessRingsRead, TelrcvRead
       DEF Next
  <2>. QED  BY <1>1, <2>1, <2>4
<1>. QED  BY ReadInit, Inductive, NumInductive, <1>1, PTL

(***************************************************************************)
(* The text on the terminal is the text that the octets read stand for,    *)
(* for any stream, any cut of it into reads, any size of the rings and any *)
(* pause of telrcv() between two characters, even of CR LF: up to carriage *)
(* returns before a line feed, and without crmod, which shows them.        *)
(***************************************************************************)
THEOREM ClientIOChunkingInvisible == Spec => []ChunkingInvisible
<1>1. ReadInv => ChunkingInvisible
  <2>. SUFFICES ASSUME ReadInv, ~client.mode.crmod
                PROVE  WithoutReturns(Beyond(client.shown \o client.ttyoring, client.refused))
                         = WithoutReturns(Text(client.mode, client.since, client.seen))
    BY DEF ChunkingInvisible
  <2>1. /\ Alike(Fresh(client), ReadBy(client).text) /\ client.since \in ParserState
        /\ client.seen \in Seq(Octet)
    BY DEF ReadInv, InStep, Shown
  <2>2. WithoutReturns(Fresh(client)) = WithoutReturns(ReadBy(client).text)
    BY <2>1, AlikeMeans
  <2>3. Fresh(client) = Beyond(client.shown \o client.ttyoring, client.refused)
    BY DEF Fresh, Output
  <2>4. ReadBy(client).text = Text(client.mode, client.since, client.seen)
    BY <2>1, TextIsRead DEF ReadBy
  <2>. QED  BY <2>2, <2>3, <2>4
<1>. QED  BY ReadInductive, <1>1, PTL DEF Spec
=============================================================================
