----------------------- MODULE TelnetdOptionsProofs ------------------------
(***************************************************************************)
(* Proofs about TelnetdOptions, for every set of options.                  *)
(***************************************************************************)
EXTENDS TelnetdOptions, TLAPS

-----------------------------------------------------------------------------
(* The cells of the option state machine.                                  *)

\* An answer changes the counter only.
LEMMA AnsweredCell ==
    ASSUME NEW c \in Cell, NEW new \in BOOLEAN
    PROVE  /\ Answered(c, new) \in Cell
           /\ Answered(c, new).state = c.state
           /\ Answered(c, new).want = c.want
           /\ Answered(c, new).resp <= c.resp
           /\ c.resp > 0 => Answered(c, new).resp < c.resp
BY DEF Answered, Cell

\* A change that is accepted is in force at once.
LEMMA AcceptedCell ==
    ASSUME NEW c \in Cell, NEW new \in BOOLEAN
    PROVE  /\ Accepted(c, new) \in Cell
           /\ Accepted(c, new).state = new
           /\ Accepted(c, new).want = new
           /\ Accepted(c, new).resp = c.resp
BY DEF Accepted, Cell

\* A refusal is outstanding until it is acknowledged.
LEMMA RefusedCell ==
    ASSUME NEW c \in Cell, NEW new \in BOOLEAN
    PROVE  /\ Refused(c, new) \in Cell
           /\ Refused(c, new).want = c.want
           /\ Refused(c, new).resp = c.resp + 1
<1>1. c.resp \in Nat /\ c.resp + 1 \in Nat
  BY DEF Cell
<1>. QED  BY <1>1 DEF Refused, Cell

LEMMA NotedCell ==
    ASSUME NEW c \in Cell, NEW new \in BOOLEAN
    PROVE  /\ Noted(c, new) \in Cell
           /\ Noted(c, new).state = new
           /\ Noted(c, new).want = c.want
           /\ Noted(c, new).resp = c.resp
BY DEF Noted, Cell

\* So is every request.
LEMMA AskedCell ==
    ASSUME NEW c \in Cell, NEW new \in BOOLEAN
    PROVE  /\ Asked(c, new) \in Cell
           /\ Asked(c, new).want = new
           /\ Asked(c, new).resp = c.resp + 1
<1>1. c.resp \in Nat /\ c.resp + 1 \in Nat
  BY DEF Cell
<1>. QED  BY <1>1 DEF Asked, Cell

LEMMA CellInitCell == CellInit \in Cell /\ Settled(CellInit)
BY DEF CellInit, Cell, Settled

-----------------------------------------------------------------------------
(* The inductive invariant.                                                *)

\* No more than two requests are outstanding, and the second one was a
\* positive one: the server withdraws nothing while it waits.
Bounded(c) == c.resp <= 2 /\ (~c.want => c.resp <= 1)

\* An option wanted on with nothing outstanding is on.
Honest(c) == c.resp = 0 /\ c.want => c.state

HisCell(c) == c \in Cell /\ Bounded(c) /\ Honest(c)

MyCell(c) == c \in Cell /\ Bounded(c) /\ Settled(c)

\* The inductive invariant, as a predicate of the server's state.
Good(s) ==
    /\ s \in ServerState
    /\ \A o \in Option : HisCell(s.his[o]) /\ MyCell(s.my[o])

IndInv == Good(server)

-----------------------------------------------------------------------------
(* Cells.                                                                  *)

LEMMA AcceptedGood ==
    ASSUME NEW c \in Cell, c.resp = 0, NEW new \in BOOLEAN
    PROVE  HisCell(Accepted(c, new)) /\ MyCell(Accepted(c, new))
BY AcceptedCell DEF HisCell, MyCell, Bounded, Honest, Settled

LEMMA OneGood ==
    ASSUME NEW c \in Cell, c.resp = 1
    PROVE  HisCell(c) /\ MyCell(c)
BY DEF HisCell, MyCell, Bounded, Honest, Settled

LEMMA RefusedGood ==
    ASSUME NEW c \in Cell, c.resp = 0
    PROVE  HisCell(Refused(c, TRUE)) /\ MyCell(Refused(c, TRUE))
<1>1. c.resp + 1 = 1
  OBVIOUS
<1>2. Refused(c, TRUE) \in Cell /\ Refused(c, TRUE).resp = 1
  BY <1>1, RefusedCell
<1>. QED  BY <1>2, OneGood

LEMMA NotedGood ==
    ASSUME NEW c \in Cell, NEW new \in BOOLEAN, Bounded(c), c.resp # 0 \/ c.want = new
    PROVE  HisCell(Noted(c, new)) /\ MyCell(Noted(c, new))
BY NotedCell DEF HisCell, MyCell, Bounded, Honest, Settled

\* send_do and send_will
LEMMA AskedOnGood ==
    ASSUME NEW c \in Cell, Bounded(c), ~NothingToAsk(c, TRUE)
    PROVE  HisCell(Asked(c, TRUE)) /\ MyCell(Asked(c, TRUE))
<1>1. c.resp \in Nat /\ c.want = FALSE /\ c.resp <= 1
  BY DEF NothingToAsk, Bounded, Cell
<1>2. c.resp + 1 <= 2 /\ c.resp + 1 # 0
  BY <1>1 DEF Cell
<1>3. /\ Asked(c, TRUE) \in Cell /\ Asked(c, TRUE).want = TRUE
      /\ Asked(c, TRUE).resp <= 2 /\ Asked(c, TRUE).resp # 0
  BY <1>2, AskedCell
<1>. QED  BY <1>3 DEF HisCell, MyCell, Bounded, Honest, Settled

\* The end of wontoption, which leaves the state as it was.
LEMMA WithdrawnGood ==
    ASSUME NEW c \in Cell, c.resp = 0
    PROVE  HisCell([c EXCEPT !.want = FALSE])
<1>1. /\ [c EXCEPT !.want = FALSE] \in Cell
      /\ [c EXCEPT !.want = FALSE].resp = 0
      /\ [c EXCEPT !.want = FALSE].want = FALSE
  BY DEF Cell
<1>. QED  BY <1>1 DEF HisCell, Bounded, Honest

LEMMA AnsweredBounded ==
    ASSUME NEW c \in Cell, Bounded(c), NEW new \in BOOLEAN
    PROVE  Answered(c, new) \in Cell /\ Bounded(Answered(c, new))
<1>1. c.resp \in Nat /\ Answered(c, new) \in Cell /\ Answered(c, new).resp \in Nat
  BY AnsweredCell DEF Cell
<1>. QED  BY <1>1, AnsweredCell DEF Bounded

-----------------------------------------------------------------------------
(* The ways in which the functions change the state.                       *)

LEMMA GoodCells ==
    ASSUME NEW s, Good(s), NEW o \in Option
    PROVE  /\ HisCell(s.his[o]) /\ s.his[o] \in Cell /\ Bounded(s.his[o])
           /\ MyCell(s.my[o]) /\ s.my[o] \in Cell /\ Bounded(s.my[o])
BY DEF Good, HisCell, MyCell

LEMMA PutHis ==
    ASSUME NEW s, Good(s), NEW o \in Option, NEW c, HisCell(c)
    PROVE  Good([s EXCEPT !.his[o] = c])
BY DEF Good, HisCell, ServerState

LEMMA PutMy ==
    ASSUME NEW s, Good(s), NEW o \in Option, NEW c, MyCell(c)
    PROVE  Good([s EXCEPT !.my[o] = c])
BY DEF Good, MyCell, ServerState

LEMMA PutFlags ==
    ASSUME NEW s, Good(s), NEW b \in BOOLEAN, NEW p \in Phase
    PROVE  /\ Good([s EXCEPT !.not42 = b])
           /\ Good([s EXCEPT !.turn_on_sga = b])
           /\ Good([s EXCEPT !.phase = p])
           /\ Good([s EXCEPT !.chunk = b])
BY DEF Good, ServerState

LEMMA PutAnswered ==
    ASSUME NEW s, Good(s), NEW o
    PROVE  Good([s EXCEPT !.answered = s.answered \cup ({o} \cap Queried)])
BY DEF Good, ServerState

LEMMA GoodTell ==
    ASSUME NEW s, Good(s), NEW o \in Option, NEW cmd \in Command \cup {"SB"}
    PROVE  Good(Tell(s, cmd, o))
<1>1. [cmd |-> cmd, opt |-> o] \in Message
  BY DEF Message
<1>2. Append(s.out, [cmd |-> cmd, opt |-> o]) \in Seq(Message)
  BY <1>1 DEF Good, ServerState
<1>. QED  BY <1>2 DEF Good, ServerState, Tell

-----------------------------------------------------------------------------
(* The senders.                                                            *)

LEMMA SendDoGood ==
    ASSUME NEW s, Good(s), NEW o, o # "TM"
    PROVE  Good(SendDo(s, o))
<1>1. CASE o \notin Option \/ NothingToAsk(s.his[o], TRUE)
  BY <1>1 DEF SendDo
<1>2. CASE ~(o \notin Option \/ NothingToAsk(s.his[o], TRUE))
  <2>1. HisCell(Asked(s.his[o], TRUE))
    BY <1>2, GoodCells, AskedOnGood
  <2>2. Good([s EXCEPT !.his[o] = Asked(s.his[o], TRUE)])
    BY <1>2, <2>1, PutHis
  <2>3. SendDo(s, o) = Tell([s EXCEPT !.his[o] = Asked(s.his[o], TRUE)], "DO", o)
    BY <1>2 DEF SendDo
  <2>. QED  BY <1>2, <2>2, <2>3, GoodTell DEF Command
<1>. QED  BY <1>1, <1>2

LEMMA SendWillGood ==
    ASSUME NEW s, Good(s), NEW o
    PROVE  Good(SendWill(s, o))
<1>1. CASE o \notin Option \/ NothingToAsk(s.my[o], TRUE)
  BY <1>1 DEF SendWill
<1>2. CASE ~(o \notin Option \/ NothingToAsk(s.my[o], TRUE))
  <2>1. MyCell(Asked(s.my[o], TRUE))
    BY <1>2, GoodCells, AskedOnGood
  <2>2. Good([s EXCEPT !.my[o] = Asked(s.my[o], TRUE)])
    BY <1>2, <2>1, PutMy
  <2>. QED  BY <1>2, <2>2, GoodTell DEF SendWill, Command
<1>. QED  BY <1>1, <1>2

-----------------------------------------------------------------------------
(* The receive handlers.                                                   *)

\* The end of willoption when nothing is outstanding and the option is wanted:
\* for ECHO it is withdrawn by send_dont before the state is noted.
LEMMA ConfirmedGood ==
    ASSUME NEW s, Good(s), NEW o \in Option,
           NEW c \in Cell, Bounded(c), c.resp = 0, c.want
    PROVE  LET t == [s EXCEPT !.his[o] = c]
               u == IF o = "ECHO" THEN SendDont(t, o) ELSE t
           IN  Good([u EXCEPT !.his[o] = Noted(u.his[o], TRUE)])
<1>. DEFINE t == [s EXCEPT !.his[o] = c]
            u == IF o = "ECHO" THEN SendDont(t, o) ELSE t
            Put(d) == [s EXCEPT !.his[o] = d]
            x == Asked(c, FALSE)
<1>1. t.his[o] = c /\ \A d : [t EXCEPT !.his[o] = d] = Put(d)
  BY DEF Good, ServerState
<1>2. CASE o # "ECHO" \/ NothingToAsk(c, FALSE)
  <2>1. u = t
    BY <1>1, <1>2 DEF SendDont
  <2>2. HisCell(Noted(c, TRUE))
    BY NotedGood DEF Cell
  <2>3. Good(Put(Noted(c, TRUE)))
    BY <2>2, PutHis
  <2>4. [u EXCEPT !.his[o] = Noted(u.his[o], TRUE)] = Put(Noted(c, TRUE))
    <3>. HIDE DEF t, u, Put
    <3>. QED  BY <1>1, <2>1
  <2>. QED  BY <2>3, <2>4
<1>3. CASE ~(o # "ECHO" \/ NothingToAsk(c, FALSE))
  <2>1. u = Tell(Put(x), "DONT", o)
    BY <1>1, <1>3 DEF SendDont
  <2>2. x \in Cell /\ x.resp = 1
    <3>1. c.resp + 1 = 1
      OBVIOUS
    <3>. QED  BY <3>1, AskedCell
  <2>3. HisCell(x) /\ HisCell(Noted(x, TRUE))
    <3>. HIDE DEF x
    <3>1. Bounded(x) /\ x.resp # 0
      BY <2>2, OneGood DEF HisCell
    <3>. QED  BY <2>2, <3>1, OneGood, NotedGood
  <2>4. Good(u) /\ u.his[o] = x
    <3>. HIDE DEF u, x
    <3>1. Good(Put(x))
      BY <2>3, PutHis
    <3>2. Put(x).his[o] = x
      BY DEF Good, ServerState
    <3>. HIDE DEF Put
    <3>3. Tell(Put(x), "DONT", o).his = Put(x).his
      BY <3>1 DEF Tell, Good, ServerState
    <3>. QED  BY <2>1, <3>1, <3>2, <3>3, GoodTell DEF Command
  <2>5. Good([u EXCEPT !.his[o] = Noted(u.his[o], TRUE)])
    <3>. HIDE DEF u, x
    <3>. QED  BY <2>3, <2>4, PutHis
  <2>. QED  BY <2>5
<1>. QED  BY <1>2, <1>3

LEMMA WillOptionGood ==
    ASSUME NEW s, Good(s), NEW o \in Option
    PROVE  Good(WillOption(s, o))
<1>. DEFINE c == Answered(s.his[o], TRUE)
            n == s.not42 /\ ~(o = "ECHO" /\ c.resp = 0)
            t == [s EXCEPT !.his[o] = c, !.not42 = n]
            Put(d) == [[s EXCEPT !.his[o] = d] EXCEPT !.not42 = n]
<1>0. c \in Cell /\ Bounded(c) /\ n \in BOOLEAN
  BY GoodCells, AnsweredBounded DEF Good, ServerState
<1>1. ASSUME NEW d, HisCell(d) PROVE Good(Put(d))
  BY <1>0, <1>1, PutHis, PutFlags DEF Phase
<1>2. /\ t = Put(c)
      /\ \A d : [t EXCEPT !.his[o] = d] = Put(d)
  BY DEF Good, ServerState
<1>3. CASE c.resp # 0
  <2>1. Good(Put(Noted(c, TRUE)))
    BY <1>0, <1>1, <1>3, NotedGood
  <2>2. WillOption(s, o) = Put(Noted(c, TRUE))
    BY <1>2, <1>3 DEF WillOption
  <2>. QED  BY <2>1, <2>2
<1>4. CASE c.resp = 0 /\ ~c.want /\ o = "TM"
  <2>1. HisCell(c)
    BY <1>0, <1>4 DEF HisCell, Honest
  <2>2. WillOption(s, o) = Put(c)
    BY <1>2, <1>4 DEF WillOption, HeMay
  <2>. QED  BY <1>1, <2>1, <2>2
<1>5. CASE c.resp = 0 /\ ~c.want /\ o \in HeMay
  <2>1. Good(Put(Accepted(c, TRUE)))
    BY <1>0, <1>1, <1>5, AcceptedGood
  <2>2. WillOption(s, o) = Tell(Put(Accepted(c, TRUE)), "DO", o)
    BY <1>2, <1>5 DEF WillOption, HeMay
  <2>. QED  BY <2>1, <2>2, GoodTell DEF Command
<1>6. CASE c.resp = 0 /\ ~c.want /\ o \notin HeMay \cup {"TM"}
  <2>1. Good(Put(Refused(c, TRUE)))
    BY <1>0, <1>1, <1>6, RefusedGood
  <2>2. WillOption(s, o) = Tell(Put(Refused(c, TRUE)), "DONT", o)
    BY <1>2, <1>6 DEF WillOption
  <2>. QED  BY <2>1, <2>2, GoodTell DEF Command
<1>7. CASE c.resp = 0 /\ c.want
  <2>. DEFINE r == [s EXCEPT !.not42 = n]
              v == [r EXCEPT !.his[o] = c]
              u == IF o = "ECHO" THEN SendDont(v, o) ELSE v
  <2>1. t = v
    BY DEF Good, ServerState
  <2>2. WillOption(s, o) = [u EXCEPT !.his[o] = Noted(u.his[o], TRUE)]
    BY <1>7, <2>1 DEF WillOption
  <2>3. Good(r)
    BY <1>0, PutFlags DEF Phase
  <2>4. Good([u EXCEPT !.his[o] = Noted(u.his[o], TRUE)])
    <3>. HIDE DEF c, r
    <3>. QED  BY <1>0, <1>7, <2>3, ConfirmedGood
  <2>. QED  BY <2>2, <2>4
<1>. QED  BY <1>3, <1>4, <1>5, <1>6, <1>7

LEMMA WontOptionGood ==
    ASSUME NEW s, Good(s), NEW o \in Option
    PROVE  Good(WontOption(s, o))
<1>. DEFINE c == Answered(s.his[o], FALSE)
            d == [c EXCEPT !.want = FALSE]
            n == s.not42 \/ o = "ECHO"
            a == s.answered \cup ({o} \cap Queried)
            u == [s EXCEPT !.his[o] = d, !.not42 = n, !.answered = a]
<1>0. c \in Cell /\ Bounded(c) /\ n \in BOOLEAN
  BY GoodCells, AnsweredBounded DEF Good, ServerState
<1>1. CASE c.resp # 0 \/ ~c.want
  <2>1. HisCell(c)
    BY <1>0, <1>1 DEF HisCell, Honest
  <2>2. WontOption(s, o) = [s EXCEPT !.his[o] = c]
    BY <1>1 DEF WontOption
  <2>. HIDE DEF c
  <2>. QED  BY <2>1, <2>2, PutHis
<1>2. CASE ~(c.resp # 0 \/ ~c.want)
  <2>1. HisCell(d)
    BY <1>0, <1>2, WithdrawnGood
  <2>2. Good(u)
    <3>. DEFINE x == [s EXCEPT !.answered = a]
                y == [x EXCEPT !.not42 = n]
    <3>1. Good(x)
      BY PutAnswered
    <3>2. Good(y)
      <4>. HIDE DEF x
      <4>. QED  BY <1>0, <3>1, PutFlags DEF Phase
    <3>3. u = [y EXCEPT !.his[o] = d]
      BY DEF Good, ServerState
    <3>. HIDE DEF y, d, u
    <3>. QED  BY <2>1, <3>2, <3>3, PutHis
  <2>3. WontOption(s, o) \in {u, Tell(u, "DONT", o)}
    <3>1. WontOption(s, o) = IF c.state /\ o # "TM" THEN Tell(u, "DONT", o) ELSE u
      BY <1>2 DEF WontOption
    <3>. HIDE DEF c, u
    <3>. QED  BY <3>1
  <2>. HIDE DEF u
  <2>. QED  BY <2>2, <2>3, GoodTell DEF Command
<1>. QED  BY <1>1, <1>2

LEMMA DoOptionGood ==
    ASSUME NEW s, Good(s), NEW o \in Option
    PROVE  Good(DoOption(s, o))
<1>. DEFINE c == Answered(s.my[o], TRUE)
            t == [s EXCEPT !.my[o] = c]
            Put(d) == [s EXCEPT !.my[o] = d]
<1>0. c \in Cell /\ Bounded(c)
  BY GoodCells, AnsweredBounded
<1>1. \A d : [t EXCEPT !.my[o] = d] = Put(d)
  BY DEF Good, ServerState
<1>2. CASE c.resp # 0 \/ c.want
  <2>1. MyCell(Noted(c, TRUE))
    BY <1>0, <1>2, NotedGood DEF Cell
  <2>2. Good(Put(Noted(c, TRUE)))
    BY <2>1, PutMy
  <2>3. DoOption(s, o) = Put(Noted(c, TRUE))
    BY <1>1, <1>2 DEF DoOption
  <2>. QED  BY <2>2, <2>3
<1>3. CASE c.resp = 0 /\ ~c.want
  <2>. DEFINE on == Put(Accepted(c, TRUE))
              off == Put(Accepted(c, FALSE))
              no == Put(Refused(c, TRUE))
              b == s.turn_on_sga /\ o # "SGA"
  <2>1. Good(on) /\ Good(off) /\ Good(no)
    BY <1>0, <1>3, AcceptedGood, RefusedGood, PutMy
  <2>2. Good([on EXCEPT !.turn_on_sga = b]) /\ Good([on EXCEPT !.phase = "exit"])
    <3>1. b \in BOOLEAN
      BY DEF Good, ServerState
    <3>. HIDE DEF on, b
    <3>. QED  BY <2>1, <3>1, PutFlags DEF Phase
  <2>3. CASE o \in IMay
    <3>1. DoOption(s, o) = Tell([on EXCEPT !.turn_on_sga = b], "WILL", o)
      BY <1>1, <1>3, <2>3 DEF DoOption, IMay
    <3>. HIDE DEF on, b
    <3>. QED  BY <2>2, <3>1, GoodTell DEF Command
  <2>4. CASE o = "TM"
    <3>1. DoOption(s, o) = Tell(off, "WILL", o)
      BY <1>1, <1>3, <2>4 DEF DoOption, IMay
    <3>. HIDE DEF off
    <3>. QED  BY <2>1, <3>1, GoodTell DEF Command
  <2>5. CASE o = "LOGOUT"
    <3>1. DoOption(s, o) = Tell([on EXCEPT !.phase = "exit"], "WILL", o)
      BY <1>1, <1>3, <2>5 DEF DoOption, IMay
    <3>. HIDE DEF on
    <3>. QED  BY <2>2, <3>1, GoodTell DEF Command
  <2>6. CASE o \notin IMay \cup {"TM", "LOGOUT"}
    <3>1. DoOption(s, o) = Tell(no, "WONT", o)
      BY <1>1, <1>3, <2>6 DEF DoOption
    <3>. HIDE DEF no
    <3>. QED  BY <2>1, <3>1, GoodTell DEF Command
  <2>. QED  BY <2>3, <2>4, <2>5, <2>6
<1>. QED  BY <1>2, <1>3

LEMMA DontOptionGood ==
    ASSUME NEW s, Good(s), NEW o \in Option
    PROVE  Good(DontOption(s, o))
<1>. DEFINE c == Answered(s.my[o], FALSE)
            t == [s EXCEPT !.my[o] = Noted(c, FALSE)]
            u == [t EXCEPT !.my[o] = Accepted(c, FALSE)]
            v == IF c.state THEN Tell(u, "WONT", o) ELSE u
            w == [v EXCEPT !.turn_on_sga = ~v.turn_on_sga]
<1>0. c \in Cell /\ Bounded(c)
  BY GoodCells, AnsweredBounded
<1>1. CASE c.resp # 0 \/ ~c.want
  <2>1. MyCell(Noted(c, FALSE))
    BY <1>0, <1>1, NotedGood DEF Cell
  <2>2. DontOption(s, o) = t
    BY <1>1 DEF DontOption
  <2>3. Good(t)
    BY <2>1, PutMy
  <2>. QED  BY <2>2, <2>3
<1>2. CASE c.resp = 0 /\ c.want
  <2>1. u = [s EXCEPT !.my[o] = Accepted(c, FALSE)]
    BY DEF Good, ServerState
  <2>2. Good(u)
    <3>1. MyCell(Accepted(c, FALSE))
      BY <1>0, <1>2, AcceptedGood
    <3>. HIDE DEF u
    <3>. QED  BY <2>1, <3>1, PutMy
  <2>3. Good(v)
    <3>. HIDE DEF u
    <3>. QED  BY <2>2, GoodTell DEF Command
  <2>4. Good(w)
    <3>1. v.turn_on_sga \in BOOLEAN
      BY <2>3 DEF Good, ServerState
    <3>. HIDE DEF v
    <3>. QED  BY <2>3, <3>1, PutFlags DEF Phase
  <2>5. DontOption(s, o) \in {v, w, SendWill(w, o)}
    <3>1. DontOption(s, o) = IF o # "SGA" THEN v ELSE IF w.turn_on_sga THEN SendWill(w, o) ELSE w
      BY <1>2 DEF DontOption
    <3>. HIDE DEF v, w
    <3>. QED  BY <3>1
  <2>. HIDE DEF v, w
  <2>. QED  BY <2>3, <2>4, <2>5, SendWillGood
<1>. QED  BY <1>1, <1>2

LEMMA SuboptionGood ==
    ASSUME NEW s, Good(s), NEW o \in Option
    PROVE  Good(Suboption(s, o))
BY GoodTell, PutAnswered DEF Suboption

LEMMA ReceiveGood ==
    ASSUME NEW s, Good(s), NEW m \in Message
    PROVE  Good(Receive(s, m))
<1>0. m.opt \in Option /\ m.cmd \in {"DO", "DONT", "WILL", "WONT", "SB"}
  BY DEF Message, Command
<1>1. CASE m.cmd = "WILL"
  BY <1>0, <1>1, WillOptionGood DEF Receive
<1>2. CASE m.cmd = "WONT"
  BY <1>0, <1>2, WontOptionGood DEF Receive
<1>3. CASE m.cmd = "DO"
  BY <1>0, <1>3, DoOptionGood DEF Receive
<1>4. CASE m.cmd = "DONT"
  BY <1>0, <1>4, DontOptionGood DEF Receive
<1>5. CASE m.cmd = "SB"
  BY <1>0, <1>5, SuboptionGood DEF Receive
<1>. QED  BY <1>0, <1>1, <1>2, <1>3, <1>4, <1>5

-----------------------------------------------------------------------------
(* The start-up dialogue.                                                  *)

LEMMA AtGood ==
    ASSUME NEW s, Good(s), NEW p \in Phase
    PROVE  Good(At(s, p))
BY DEF At, Good, ServerState

LEMMA BeginGood ==
    ASSUME NEW s, Good(s)
    PROVE  Good(Begin(s))
<1>. DEFINE a == SendDo(SendDo(s, "TTYPE"), "TSPEED")
<1>1. Good(a)
  BY SendDoGood
<1>2. Good(SendDo(SendDo(a, "XDISPLOC"), "ENVIRON"))
  <2>. HIDE DEF a
  <2>. QED  BY <1>1, SendDoGood
<1>3. Begin(s) = At(SendDo(SendDo(a, "XDISPLOC"), "ENVIRON"), "options")
  BY DEF Begin
<1>. HIDE DEF a
<1>. QED  BY <1>2, <1>3, AtGood DEF Phase

LEMMA SendQueryGood ==
    ASSUME NEW s, Good(s), NEW o
    PROVE  Good(SendQuery(s, o))
BY GoodTell DEF SendQuery, HisWill

LEMMA SendQueriesGood ==
    ASSUME NEW s, Good(s)
    PROVE  Good(SendQueries(s))
<1>. DEFINE a == SendQuery(SendQuery(s, "TSPEED"), "XDISPLOC")
<1>1. Good(a)
  BY SendQueryGood
<1>2. Good(SendQuery(SendQuery(a, "ENVIRON"), "TTYPE"))
  <2>. HIDE DEF a
  <2>. QED  BY <1>1, SendQueryGood
<1>3. SendQueries(s) = At(SendQuery(SendQuery(a, "ENVIRON"), "TTYPE"), "TSPEED")
  BY DEF SendQueries
<1>. HIDE DEF a
<1>. QED  BY <1>2, <1>3, AtGood DEF Phase, Queried

LEMMA EnterTelnetGood ==
    ASSUME NEW s, Good(s)
    PROVE  Good(EnterTelnet(s))
<1>. DEFINE a == IF "SGA" \in Option /\ ~s.my["SGA"].state THEN SendWill(s, "SGA") ELSE s
            b == SendDo(SendDo(a, "ECHO"), "NAWS")
            c == SendDo(SendWill(b, "STATUS"), "LFLOW")
<1>1. Good(a)
  BY SendWillGood
<1>2. Good(b)
  <2>. HIDE DEF a
  <2>. QED  BY <1>1, SendDoGood
<1>3. Good(c)
  <2>. HIDE DEF b
  <2>. QED  BY <1>2, SendWillGood, SendDoGood
<1>4. EnterTelnet(s) = At(c, "NAWS")
  BY DEF EnterTelnet
<1>. HIDE DEF c
<1>. QED  BY <1>3, <1>4, AtGood DEF Phase

LEMMA EchoDoneGood ==
    ASSUME NEW s, Good(s)
    PROVE  Good(EchoDone(s))
<1>. DEFINE t == IF HisWants(s, "ECHO") THEN WillOption(s, "ECHO") ELSE s
            u == IF "ECHO" \in Option /\ ~t.my["ECHO"].state THEN SendWill(t, "ECHO") ELSE t
<1>1. Good(t)
  BY WillOptionGood DEF HisWants
<1>2. Good(u)
  <2>. HIDE DEF t
  <2>. QED  BY <1>1, SendWillGood
<1>3. EchoDone(s) = At(u, "main")
  BY DEF EchoDone
<1>. HIDE DEF u
<1>. QED  BY <1>2, <1>3, AtGood DEF Phase

-----------------------------------------------------------------------------
(* The theorems.                                                           *)

LEMMA InitGood == Init => IndInv
<1>1. HisCell(CellInit) /\ MyCell(CellInit)
  BY CellInitCell DEF HisCell, MyCell, Bounded, Honest, CellInit, Cell
<1>2. << >> \in Seq(Message)
  OBVIOUS
<1>. QED
  BY <1>1, <1>2 DEF Init, IndInv, Good, ServerInit, ServerState, HisCell, MyCell, Phase, Queried

LEMMA ContinueGood == Good(server) /\ Continue => Good(server')
<1>. SUFFICES ASSUME Good(server), Continue PROVE Good(server')
  OBVIOUS
<1>1. CASE OptionsSettled
  BY <1>1, SendQueriesGood DEF OptionsSettled
<1>2. CASE QueryAnswered
  <2>1. NextQuery[server.phase] \in Phase
    BY <1>2 DEF QueryAnswered, NextQuery, Phase, Queried
  <2>. QED  BY <1>2, <2>1, AtGood DEF QueryAnswered
<1>3. CASE Login
  BY <1>3, EnterTelnetGood DEF Login
<1>4. CASE NawsSettled
  BY <1>4, AtGood DEF NawsSettled, Phase
<1>5. CASE EchoSettled
  BY <1>5, EchoDoneGood DEF EchoSettled
<1>. QED  BY <1>1, <1>2, <1>3, <1>4, <1>5 DEF Continue

LEMMA NextGood == IndInv /\ [Next]_server => IndInv'
<1>. USE DEF IndInv
<1>. SUFFICES ASSUME Good(server), [Next]_server PROVE Good(server')
  OBVIOUS
<1>1. CASE Start
  BY <1>1, BeginGood DEF Start
<1>2. CASE Continue
  BY <1>2, ContinueGood
<1>3. ASSUME NEW m \in Message, ReceiveAny(m) PROVE Good(server')
  <2>. DEFINE s == [server EXCEPT !.chunk = server.phase # "main"]
  <2>1. Good(s)
    BY PutFlags DEF Phase
  <2>2. server' = Receive(s, m)
    BY <1>3 DEF ReceiveAny
  <2>. HIDE DEF s
  <2>. QED  BY <2>1, <2>2, ReceiveGood
<1>4. CASE Taken
  <2>1. server.out \in Seq(Message) /\ server.out # << >>
    BY <1>4 DEF Taken, Good, ServerState
  <2>2. Tail(server.out) \in Seq(Message)
    BY <2>1
  <2>. QED  BY <1>4, <2>2 DEF Taken, Good, ServerState
<1>5. CASE UNCHANGED server
  BY <1>5
<1>. QED  BY <1>1, <1>2, <1>3, <1>4, <1>5 DEF Next

LEMMA ServerInvariance == Spec => []IndInv
BY InitGood, NextGood, PTL DEF Spec

(***************************************************************************)
(* The records of the server stay well formed.                             *)
(***************************************************************************)
THEOREM ServerTypes == Spec => []TypeOK
<1>1. IndInv => TypeOK
  BY DEF IndInv, Good, TypeOK
<1>. QED  BY <1>1, ServerInvariance, PTL

(***************************************************************************)
(* With none of the server's offers unanswered, what it does is what it    *)
(* wants to do.                                                            *)
(***************************************************************************)
THEOREM ServerSettles == Spec => []MySettled
<1>1. IndInv => MySettled
  BY DEF IndInv, Good, MyCell, MySettled
<1>. QED  BY <1>1, ServerInvariance, PTL

(***************************************************************************)
(* An option the server wants of the client, and has no request            *)
(* outstanding for, is on.                                                 *)
(***************************************************************************)
THEOREM ServerWantHonest == Spec => []HisWantHonest
<1>1. IndInv => HisWantHonest
  BY DEF IndInv, Good, HisCell, Honest, HisWantHonest
<1>. QED  BY <1>1, ServerInvariance, PTL

(***************************************************************************)
(* No client can make the counters of unanswered requests exceed two.      *)
(***************************************************************************)
THEOREM ServerFewOutstanding == Spec => []FewOutstanding
<1>1. IndInv => FewOutstanding
  BY DEF IndInv, Good, HisCell, MyCell, Bounded, FewOutstanding
<1>. QED  BY <1>1, ServerInvariance, PTL
=============================================================================
