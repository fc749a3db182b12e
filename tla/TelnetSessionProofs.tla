------------------------ MODULE TelnetSessionProofs ------------------------
(***************************************************************************)
(* Proofs about TelnetOptions, for every set of options and whatever the   *)
(* peer sends, and about TelnetSession, for every set of options and of    *)
(* requests and every number of acts of the user and of connections.       *)
(*                                                                         *)
(* That the two programs agree on a quiet line is a matter of bookkeeping. *)
(* A side's counter says how many answers it awaits; the other side's      *)
(* state and what is on the line say how many it will get.  A Reading goes *)
(* through what one side has said about an option and has not been heard,  *)
(* and yields a Mark: what the hearer will think at the end, and how much  *)
(* the way there uses up, two for each message and one less where the      *)
(* message is news.  Share is what a side's counter has left when the      *)
(* Reading of what it has itself said is taken off.  The shares of the two *)
(* sides are never together below zero (Linked), since whatever a handler  *)
(* uses up of one Reading it puts in its counter or into the other Reading *)
(* (Keeps).  On a quiet line with both counters at zero this leaves no     *)
(* room for the two to differ (LinkQuiet).                                 *)
(*                                                                         *)
(* One cell does not obey: telnetd never clears what it has of the         *)
(* client's options (wontoption, state.c:639). Once it has seen one on,    *)
(* its counter means nothing, and the claim is that it does not change its *)
(* mind without saying so (Held).                                          *)
(***************************************************************************)
EXTENDS TelnetSession, SequenceLemmas

-----------------------------------------------------------------------------
(* The cells of the option state machine.                                  *)

\* An answer changes the counter only.
LEMMA AnsweredCell ==
    ASSUME NEW c \in Cell, NEW new \in BOOLEAN
    PROVE  /\ Answered(c, new) \in Cell
           /\ Answered(c, new).state = c.state
           /\ Answered(c, new).want = c.want
           /\ Answered(c, new).resp <= c.resp
           /\ c.resp > 0 => Answered(c, new).resp < c.resp
BY DEF Answered, Cell

\* A change that is accepted is in force at once.
LEMMA AcceptedCell ==
    ASSUME NEW c \in Cell, NEW new \in BOOLEAN
    PROVE  /\ Accepted(c, new) \in Cell
           /\ Accepted(c, new).state = new
           /\ Accepted(c, new).want = new
           /\ Accepted(c, new).resp = c.resp
BY DEF Accepted, Cell

\* A refusal is outstanding until it is acknowledged.
LEMMA RefusedCell ==
    ASSUME NEW c \in Cell, NEW new \in BOOLEAN
    PROVE  /\ Refused(c, new) \in Cell
           /\ Refused(c, new).want = c.want
           /\ Refused(c, new).resp = c.resp + 1
<1>1. c.resp \in Nat /\ c.resp + 1 \in Nat
  BY DEF Cell
<1>. QED  BY <1>1 DEF Refused, Cell

LEMMA NotedCell ==
    ASSUME NEW c \in Cell, NEW new \in BOOLEAN
    PROVE  /\ Noted(c, new) \in Cell
           /\ Noted(c, new).state = new
           /\ Noted(c, new).want = c.want
           /\ Noted(c, new).resp = c.resp
BY DEF Noted, Cell

\* So is every request.
LEMMA AskedCell ==
    ASSUME NEW c \in Cell, NEW new \in BOOLEAN
    PROVE  /\ Asked(c, new) \in Cell
           /\ Asked(c, new).want = new
           /\ Asked(c, new).resp = c.resp + 1
<1>1. c.resp \in Nat /\ c.resp + 1 \in Nat
  BY DEF Cell
<1>. QED  BY <1>1 DEF Asked, Cell

LEMMA CellInitCell == CellInit \in Cell /\ Settled(CellInit)
BY DEF CellInit, Cell, Settled

-----------------------------------------------------------------------------
(* The inductive invariant.                                                *)

\* A cell the client may hold.
GoodCell(c) == c \in Cell /\ Settled(c)

\* The inductive invariant, as a predicate of the client's state.
Good(s) ==
    /\ s \in ClientState
    /\ \A o \in Option : GoodCell(s.his[o]) /\ GoodCell(s.my[o])

-----------------------------------------------------------------------------
(* Cells.                                                                  *)

LEMMA GoodAccepted ==
    ASSUME NEW c \in Cell, NEW new \in BOOLEAN
    PROVE  GoodCell(Accepted(c, new))
BY AcceptedCell DEF GoodCell, Settled

LEMMA GoodRefused ==
    ASSUME NEW c \in Cell, NEW new \in BOOLEAN
    PROVE  GoodCell(Refused(c, new))
BY RefusedCell DEF GoodCell, Settled, Cell

LEMMA GoodAsked ==
    ASSUME NEW c \in Cell, NEW new \in BOOLEAN
    PROVE  GoodCell(Asked(c, new))
BY AskedCell DEF GoodCell, Settled, Cell

LEMMA GoodNoted ==
    ASSUME NEW c \in Cell, NEW new \in BOOLEAN, c.resp # 0 \/ c.want = new
    PROVE  GoodCell(Noted(c, new))
BY NotedCell DEF GoodCell, Settled

-----------------------------------------------------------------------------
(* The ways in which the functions change the state.                       *)

LEMMA GoodHis ==
    ASSUME NEW s, Good(s), NEW o \in Option, NEW c, GoodCell(c)
    PROVE  Good([s EXCEPT !.his[o] = c])
BY DEF Good, GoodCell, ClientState

LEMMA GoodMy ==
    ASSUME NEW s, Good(s), NEW o \in Option, NEW c, GoodCell(c)
    PROVE  Good([s EXCEPT !.my[o] = c])
BY DEF Good, GoodCell, ClientState

LEMMA GoodTell ==
    ASSUME NEW s, Good(s), NEW o \in Option, NEW cmd \in Command \cup {"SB"}
    PROVE  Good(Tell(s, cmd, o))
<1>1. [cmd |-> cmd, opt |-> o] \in Message
  BY DEF Message
<1>2. Append(s.out, [cmd |-> cmd, opt |-> o]) \in Seq(Message)
  BY <1>1 DEF Good, ClientState
<1>. QED  BY <1>2 DEF Good, ClientState, Tell

LEMMA GoodFlags ==
    ASSUME NEW s, Good(s), NEW b \in BOOLEAN
    PROVE  /\ Good([s EXCEPT !.flushout = b])
           /\ Good([s EXCEPT !.kludge = b])
           /\ Good([s EXCEPT !.display = b])
           /\ Good([s EXCEPT !.connected = b])
BY DEF Good, ClientState

\* What is known of a cell of a good state.
LEMMA GoodCells ==
    ASSUME NEW s, Good(s), NEW o \in Option
    PROVE  /\ GoodCell(s.his[o]) /\ GoodCell(s.my[o])
           /\ s.his[o] \in Cell /\ s.my[o] \in Cell
BY DEF Good, GoodCell

-----------------------------------------------------------------------------
(* The senders.                                                            *)

LEMMA AskHimGood ==
    ASSUME NEW s, Good(s), NEW o, NEW new \in BOOLEAN, NEW cmd \in Command
    PROVE  Good(AskHim(s, o, new, cmd))
<1>1. CASE o \notin Option \/ NothingToAsk(s.his[o], new)
  BY <1>1 DEF AskHim
<1>2. CASE ~(o \notin Option \/ NothingToAsk(s.his[o], new))
  <2>1. GoodCell(Asked(s.his[o], new))
    BY <1>2, GoodCells, GoodAsked
  <2>2. Good([s EXCEPT !.his[o] = Asked(s.his[o], new)])
    BY <1>2, <2>1, GoodHis
  <2>. QED  BY <1>2, <2>2, GoodTell DEF AskHim
<1>. QED  BY <1>1, <1>2

LEMMA AskMyselfGood ==
    ASSUME NEW s, Good(s), NEW o, NEW new \in BOOLEAN, NEW cmd \in Command
    PROVE  Good(AskMyself(s, o, new, cmd))
<1>1. CASE o \notin Option \/ NothingToAsk(s.my[o], new)
  BY <1>1 DEF AskMyself
<1>2. CASE ~(o \notin Option \/ NothingToAsk(s.my[o], new))
  <2>1. GoodCell(Asked(s.my[o], new))
    BY <1>2, GoodCells, GoodAsked
  <2>2. Good([s EXCEPT !.my[o] = Asked(s.my[o], new)])
    BY <1>2, <2>1, GoodMy
  <2>. QED  BY <1>2, <2>2, GoodTell DEF AskMyself
<1>. QED  BY <1>1, <1>2

LEMMA SendersGood ==
    ASSUME NEW s, Good(s), NEW o
    PROVE  Good(SendDo(s, o)) /\ Good(SendDont(s, o)) /\ Good(SendWill(s, o)) /\ Good(SendWont(s, o))
BY AskHimGood, AskMyselfGood DEF SendDo, SendDont, SendWill, SendWont, Command

-----------------------------------------------------------------------------
(* The receive handlers.                                                   *)

LEMMA WillOptionGood ==
    ASSUME NEW s, Good(s), NEW o \in Option
    PROVE  Good(WillOption(s, o))
<1>. DEFINE c == Answered(s.his[o], TRUE)
<1>0. c \in Cell /\ s.his[o] \in Cell
  BY GoodCells, AnsweredCell
<1>1. CASE c.resp # 0 \/ c.want
  <2>1. GoodCell(Noted(c, TRUE))
    BY <1>0, <1>1, GoodNoted DEF Cell
  <2>2. WillOption(s, o) = [s EXCEPT !.his[o] = Noted(c, TRUE)]
    BY <1>0, <1>1 DEF WillOption, Cell
  <2>3. Good([s EXCEPT !.his[o] = Noted(c, TRUE)])
    BY <2>1, GoodHis
  <2>. QED  BY <2>2, <2>3
<1>2. CASE c.resp = 0 /\ ~c.want /\ o \in HeMay
  <2>1. Good([s EXCEPT !.his[o] = Accepted(c, TRUE)])
    BY <1>0, GoodAccepted, GoodHis
  <2>2. WillOption(s, o) = Tell([s EXCEPT !.his[o] = Accepted(c, TRUE)], "DO", o)
    BY <1>0, <1>2 DEF WillOption, Cell, HeMay
  <2>. QED  BY <2>1, <2>2, GoodTell DEF Command
<1>3. CASE c.resp = 0 /\ ~c.want /\ o = "TM"
  <2>1. Good([s EXCEPT !.his[o] = Accepted(c, FALSE)])
    BY <1>0, GoodAccepted, GoodHis
  <2>2. WillOption(s, o) = [[s EXCEPT !.his[o] = Accepted(c, FALSE)] EXCEPT !.flushout = FALSE]
    BY <1>0, <1>3 DEF WillOption, Cell, HeMay
  <2>. QED  BY <2>1, <2>2, GoodFlags
<1>4. CASE c.resp = 0 /\ ~c.want /\ o \notin HeMay \cup {"TM"}
  <2>1. Good([s EXCEPT !.his[o] = Refused(c, TRUE)])
    BY <1>0, GoodRefused, GoodHis
  <2>2. WillOption(s, o) = Tell([s EXCEPT !.his[o] = Refused(c, TRUE)], "DONT", o)
    BY <1>0, <1>4 DEF WillOption, Cell
  <2>. QED  BY <2>1, <2>2, GoodTell DEF Command
<1>. QED  BY <1>1, <1>2, <1>3, <1>4

LEMMA WontOptionGood ==
    ASSUME NEW s, Good(s), NEW o \in Option
    PROVE  Good(WontOption(s, o))
<1>. DEFINE c == Answered(s.his[o], FALSE)
            t == [s EXCEPT !.his[o] = Accepted(c, FALSE)]
<1>0. c \in Cell /\ s.his[o] \in Cell
  BY GoodCells, AnsweredCell
<1>1. Good(t)
  BY <1>0, GoodAccepted, GoodHis
<1>2. CASE o = "TM"
  <2>1. WontOption(s, o) = [t EXCEPT !.flushout = FALSE]
    BY <1>2 DEF WontOption
  <2>. QED  BY <1>1, <2>1, GoodFlags
<1>3. CASE o # "TM" /\ (c.resp # 0 \/ ~c.want)
  <2>1. GoodCell(Noted(c, FALSE))
    BY <1>0, <1>3, GoodNoted DEF Cell
  <2>2. WontOption(s, o) = [s EXCEPT !.his[o] = Noted(c, FALSE)]
    BY <1>0, <1>3 DEF WontOption, Cell
  <2>3. Good([s EXCEPT !.his[o] = Noted(c, FALSE)])
    BY <2>1, GoodHis
  <2>. QED  BY <2>2, <2>3
<1>4. CASE o # "TM" /\ c.resp = 0 /\ c.want
  <2>1. WontOption(s, o) = IF c.state THEN Tell(t, "DONT", o) ELSE t
    BY <1>0, <1>4 DEF WontOption, Cell
  <2>. QED  BY <1>1, <2>1, GoodTell DEF Command
<1>. QED  BY <1>2, <1>3, <1>4

LEMMA DoLinemodeGood ==
    ASSUME NEW s, Good(s), NEW c \in Cell, "LINEMODE" \in Option
    PROVE  Good(DoLinemode(s, c))
<1>. DEFINE t == [s EXCEPT !.my["LINEMODE"] = Accepted(c, TRUE), !.kludge = FALSE]
            u == SendDo(t, "SGA")
<1>1. Good(t)
  <2>1. Good([s EXCEPT !.my["LINEMODE"] = Accepted(c, TRUE)])
    BY GoodAccepted, GoodMy
  <2>. QED  BY <2>1, GoodFlags
<1>2. Good(u)
  BY <1>1, SendersGood
<1>3. CASE ~c.want
  BY <1>2, <1>3, GoodTell DEF DoLinemode, Command
<1>4. CASE c.want /\ "SGA" \in Option
  BY <1>2, <1>4, GoodTell DEF DoLinemode, Command
<1>5. CASE c.want /\ "SGA" \notin Option
  BY <1>2, <1>5 DEF DoLinemode
<1>. QED  BY <1>3, <1>4, <1>5

LEMMA DoOptionGood ==
    ASSUME NEW s, Good(s), NEW o \in Option
    PROVE  Good(DoOption(s, o))
<1>. DEFINE c == Answered(s.my[o], TRUE)
<1>0. c \in Cell /\ s.my[o] \in Cell
  BY GoodCells, AnsweredCell
<1>t. ASSUME NEW d PROVE [[s EXCEPT !.my[o] = c] EXCEPT !.my[o] = d] = [s EXCEPT !.my[o] = d]
  BY DEF Good, ClientState
<1>1. CASE c.resp = 0 /\ o = "LINEMODE"
  <2>1. DoOption(s, o) = DoLinemode(s, c)
    BY <1>1 DEF DoOption, IMay
  <2>. QED  BY <1>0, <1>1, <2>1, DoLinemodeGood
<1>2. CASE c.resp # 0 \/ (c.want /\ o # "LINEMODE")
  <2>1. GoodCell(Noted(c, TRUE))
    BY <1>0, <1>2, GoodNoted DEF Cell
  <2>2. DoOption(s, o) = [s EXCEPT !.my[o] = Noted(c, TRUE)]
    BY <1>0, <1>2, <1>t DEF DoOption, Cell
  <2>3. Good([s EXCEPT !.my[o] = Noted(c, TRUE)])
    BY <2>1, GoodMy
  <2>. QED  BY <2>2, <2>3
<1>3. CASE c.resp = 0 /\ ~c.want /\ o # "LINEMODE"
  <2>1. Good([s EXCEPT !.my[o] = Accepted(c, FALSE)]) /\ Good([s EXCEPT !.my[o] = Accepted(c, TRUE)])
        /\ Good([s EXCEPT !.my[o] = Refused(c, TRUE)])
    BY <1>0, GoodAccepted, GoodRefused, GoodMy
  <2>2. DoOption(s, o) \in {Tell([s EXCEPT !.my[o] = Accepted(c, FALSE)], "WILL", o),
                           Tell([s EXCEPT !.my[o] = Accepted(c, TRUE)], "WILL", o),
                           Tell([s EXCEPT !.my[o] = Refused(c, TRUE)], "WONT", o)}
    BY <1>0, <1>3, <1>t DEF DoOption, Cell, IMay
  <2>. QED  BY <2>1, <2>2, GoodTell DEF Command
<1>. QED  BY <1>1, <1>2, <1>3

LEMMA DontOptionGood ==
    ASSUME NEW s, Good(s), NEW o \in Option
    PROVE  Good(DontOption(s, o))
<1>. DEFINE c == Answered(s.my[o], FALSE)
            t == [s EXCEPT !.my[o] = Accepted(c, FALSE)]
<1>0. c \in Cell /\ s.my[o] \in Cell
  BY GoodCells, AnsweredCell
<1>1. Good(t)
  BY <1>0, GoodAccepted, GoodMy
<1>2. CASE c.resp # 0 \/ ~c.want
  <2>1. GoodCell(Noted(c, FALSE))
    BY <1>0, <1>2, GoodNoted DEF Cell
  <2>2. DontOption(s, o) = [s EXCEPT !.my[o] = Noted(c, FALSE)]
    BY <1>2 DEF DontOption
  <2>3. Good([s EXCEPT !.my[o] = Noted(c, FALSE)])
    BY <2>1, GoodMy
  <2>. QED  BY <2>2, <2>3
<1>3. CASE ~(c.resp # 0 \/ ~c.want)
  <2>1. DontOption(s, o) = IF c.state THEN Tell(t, "WONT", o) ELSE t
    BY <1>3 DEF DontOption
  <2>. QED  BY <1>1, <2>1, GoodTell DEF Command
<1>. QED  BY <1>2, <1>3

LEMMA SuboptionGood ==
    ASSUME NEW s, Good(s), NEW o \in Option
    PROVE  Good(Suboption(s, o))
<1>1. Suboption(s, o) \in {s, Tell(s, "SB", o), SendWont(s, o)}
  BY DEF Suboption, Answers
<1>. QED  BY <1>1, GoodTell, SendersGood

LEMMA ReceiveGood ==
    ASSUME NEW s, Good(s), NEW m \in Message
    PROVE  Good(Receive(s, m))
<1>0. m.opt \in Option /\ m.cmd \in {"DO", "DONT", "WILL", "WONT", "SB"}
  BY DEF Message, Command
<1>1. CASE m.cmd = "WILL"
  BY <1>0, <1>1, WillOptionGood DEF Receive
<1>2. CASE m.cmd = "WONT"
  BY <1>0, <1>2, WontOptionGood DEF Receive
<1>3. CASE m.cmd = "DO"
  <2>1. Good(DoOption(s, m.opt))
    BY <1>0, DoOptionGood
  <2>2. Good(SendNaws(DoOption(s, m.opt), m.opt))
    BY <1>0, <2>1, GoodTell DEF SendNaws
  <2>. QED  BY <1>3, <2>2 DEF Receive
<1>4. CASE m.cmd = "DONT"
  BY <1>0, <1>4, DontOptionGood DEF Receive
<1>5. CASE m.cmd = "SB"
  BY <1>0, <1>5, SuboptionGood DEF Receive
<1>. QED  BY <1>0, <1>1, <1>2, <1>3, <1>4, <1>5

-----------------------------------------------------------------------------
(* What the client asks for of its own accord.                             *)

LEMMA OpenGood ==
    ASSUME NEW s, Good(s)
    PROVE  Good(Open(s))
<1>. DEFINE a == SendWill(SendDo(s, "SGA"), "TTYPE")
            b == SendWill(SendWill(a, "NAWS"), "TSPEED")
            c == SendWill(SendWill(b, "LFLOW"), "LINEMODE")
            d == SendDo(SendWill(c, "ENVIRON"), "STATUS")
            e == IF d.display THEN SendWill(d, "XDISPLOC") ELSE d
<1>1. Good(a)
  BY SendersGood
<1>2. Good(b)
  <2>. HIDE DEF a
  <2>. QED  BY <1>1, SendersGood
<1>3. Good(c)
  <2>. HIDE DEF b
  <2>. QED  BY <1>2, SendersGood
<1>4. Good(d)
  <2>. HIDE DEF c
  <2>. QED  BY <1>3, SendersGood
<1>5. Good(e)
  <2>. HIDE DEF d
  <2>. QED  BY <1>4, SendersGood
<1>6. Open(s) = [e EXCEPT !.connected = TRUE]
  BY DEF Open
<1>. HIDE DEF e
<1>. QED  BY <1>5, <1>6, GoodFlags

LEMMA BinaryGood ==
    ASSUME NEW s, Good(s), NEW rw \in 1 .. 3
    PROVE  Good(EnterBinary(s, rw)) /\ Good(LeaveBinary(s, rw))
<1>1. Good(EnterBinary(s, rw))
  BY SendersGood DEF EnterBinary
<1>2. Good(LeaveBinary(s, rw))
  BY SendersGood DEF LeaveBinary
<1>. QED  BY <1>1, <1>2

LEMMA ModesGood ==
    ASSUME NEW s, Good(s)
    PROVE  Good(KludgeMode(s)) /\ Good(LineMode(s)) /\ Good(CharMode(s))
<1>1. Good(KludgeMode(s))
  <2>1. Good([s EXCEPT !.kludge = TRUE])
    BY GoodFlags
  <2>2. Good(SendWont([s EXCEPT !.kludge = TRUE], "LINEMODE"))
    BY <2>1, SendersGood
  <2>. QED  BY <2>2, SendersGood DEF KludgeMode
<1>2. Good(LineMode(s))
  BY SendersGood DEF LineMode
<1>3. Good(CharMode(s))
  BY SendersGood DEF CharMode
<1>. QED  BY <1>1, <1>2, <1>3

LEMMA FlushGood ==
    ASSUME NEW s, Good(s)
    PROVE  Good(Flush(s))
BY GoodFlags, GoodTell DEF Flush, Command

LEMMA CloseGood ==
    ASSUME NEW s, Good(s)
    PROVE  Good(Close(s))
<1>1. \A c \in Cell : GoodCell(Forgotten(c))
  BY DEF GoodCell, Cell, Settled, Forgotten
<1>2. \A o \in Option : s.his[o] \in Cell /\ s.my[o] \in Cell
  BY GoodCells
<1>3. << >> \in Seq(Message)
  OBVIOUS
<1>. QED  BY <1>1, <1>2, <1>3 DEF Close, Good, GoodCell, ClientState

LEMMA UserRequestsGood ==
    ASSUME NEW s, Good(s), NEW t \in UserRequests(s)
    PROVE  Good(t)
<1>1. CASE \E cmd \in Command, o \in Option : t = SendCommand(s, cmd, o)
  BY <1>1, SendersGood DEF SendCommand, Command
<1>2. CASE \E rw \in 1 .. 3 : t = EnterBinary(s, rw) \/ t = LeaveBinary(s, rw)
  BY <1>2, BinaryGood
<1>3. CASE t \in {KludgeMode(s), LineMode(s), CharMode(s), Flush(s)}
  BY <1>3, ModesGood, FlushGood
<1>4. CASE t \in {SendDo(s, "LOGOUT"), [s EXCEPT !.display = FALSE]}
  BY <1>4, SendersGood, GoodFlags
<1>. QED  BY <1>1, <1>2, <1>3, <1>4 DEF UserRequests

-----------------------------------------------------------------------------
(* The theorems.                                                           *)

ClientInv == Good(client)

LEMMA ClientInitGood == OpenInit => ClientInv
<1>. USE DEF ClientInv
<1>. SUFFICES ASSUME NEW display \in BOOLEAN, client = ClientInit(display)
              PROVE  Good(client)
  BY DEF OpenInit
<1>1. GoodCell(CellInit)
  BY CellInitCell DEF GoodCell
<1>2. << >> \in Seq(Message)
  OBVIOUS
<1>. QED  BY <1>1, <1>2 DEF ClientInit, Good, GoodCell, ClientState

LEMMA ClientNextGood == ClientInv /\ [OpenNext]_client => ClientInv'
<1>. USE DEF ClientInv
<1>. SUFFICES ASSUME Good(client), [OpenNext]_client PROVE Good(client')
  OBVIOUS
<1>1. CASE Connect
  BY <1>1, OpenGood DEF Connect
<1>2. CASE UserRequest
  BY <1>2, UserRequestsGood DEF UserRequest
<1>3. ASSUME NEW m \in Message, ReceiveAny(m) PROVE Good(client')
  BY <1>3, ReceiveGood DEF ReceiveAny
<1>4. CASE Disconnect
  BY <1>4, CloseGood DEF Disconnect
<1>5. CASE Taken
  <2>1. client.out \in Seq(Message) /\ client.out # << >>
    BY <1>5 DEF Taken, Good, ClientState
  <2>2. Tail(client.out) \in Seq(Message)
    BY <2>1
  <2>. QED  BY <1>5, <2>2 DEF Taken, Good, ClientState
<1>6. CASE UNCHANGED client
  BY <1>6
<1>. QED  BY <1>1, <1>2, <1>3, <1>4, <1>5, <1>6 DEF OpenNext

LEMMA ClientInvariance == OpenSpec => []ClientInv
BY ClientInitGood, ClientNextGood, PTL DEF OpenSpec

(***************************************************************************)
(* The records of the client stay well formed.                             *)
(***************************************************************************)
THEOREM ClientTypes == OpenSpec => []ClientTypeOK
<1>1. ClientInv => ClientTypeOK
  BY DEF ClientInv, Good, ClientTypeOK
<1>. QED  BY <1>1, ClientInvariance, PTL

(***************************************************************************)
(* Whatever the server sends and the user does, an option with no request  *)
(* outstanding is in the state the client wants, on both sides.            *)
(***************************************************************************)
THEOREM ClientSettles == OpenSpec => []AllSettled
<1>1. ClientInv => AllSettled
  BY DEF ClientInv, Good, GoodCell, AllSettled
<1>. QED  BY <1>1, ClientInvariance, PTL

-----------------------------------------------------------------------------
(* The account a side keeps of one option, and what a handler makes of it. *)

\* What the messages on a line come to: the last word, and what hearing them
\* uses up.
Mark == [last : BOOLEAN, uses : Nat]

\* One if the two differ.
Off(b, c) == IF b = c THEN 0 ELSE 1

\* One message more: two are used up, or one if it is news.
Hear(j, v) == [last |-> v, uses |-> j.uses + 2 - Off(v, j.last)]

\* Requests are turned about in pairs: one when the counter has a count left
\* over that belongs to no difference between state and want.
Odd(x) == (x.resp + Off(x.state, x.want)) % 2

\* What is left of the counter of x when j is what its side has said.
Share(x, j) == x.resp - Odd(x) - Off(j.last, x.want) - j.uses

\* The last word is what is wanted, but for an option given up in silence.
Aligned(x, j) == j.last # x.want => ~x.want

\* A step from x and j to x2 and j2 that uses up u of what was heard.
Keeps(x, j, x2, j2, u) ==
    Aligned(x2, j2) /\ Share(x2, j2) + u >= Share(x, j)

LEMMA OddIs ==
    ASSUME NEW x \in Cell
    PROVE Odd(x) \in 0 .. 1
BY DEF Odd, Off, Cell

\* A request is said and counted.
LEMMA AskKeeps ==
    ASSUME NEW x \in Cell, NEW j \in Mark, Aligned(x, j), NEW v \in BOOLEAN, x.want # v
    PROVE  Keeps(x, j, Asked(x, v), Hear(j, v), 0)
<1>1. Odd(Asked(x,v)) = Odd(x)
   BY DEF Odd, Off, Asked, Cell
<1>2. Odd(x) \in 0..1 BY OddIs
<1>3. Asked(x,v).resp = x.resp+1 /\ Asked(x,v).want = v
  BY DEF Asked, Cell
<1>. QED BY <1>1, <1>2, <1>3 DEF Keeps, Share, Aligned, Off, Hear, Mark, Cell

\* An answer to an outstanding request, or what is wanted anyway, is noted.
LEMMA NotedKeeps ==
    ASSUME NEW x \in Cell, Settled(x), NEW j \in Mark, Aligned(x, j), NEW v \in BOOLEAN,
           Answered(x, v).resp # 0 \/ x.want = v,
           NEW x2 \in Cell, x2.state = v, x2.want = x.want, x2.resp = Answered(x, v).resp
    PROVE  Keeps(x, j, x2, j, 2 - Off(x.state, v))
<1>1. x2.resp - Odd(x2) + 2 - Off(x.state, v) >= x.resp - Odd(x)
  <2>1. CASE x.resp = 0
    BY <2>1 DEF Odd, Off, Cell, Settled, Answered
  <2>2. CASE x.resp = 1
    BY <2>2 DEF Odd, Off, Cell, Settled, Answered
  <2>3. CASE x.resp > 1
    BY <2>3 DEF Odd, Off, Cell, Settled, Answered
  <2>. QED BY <2>1, <2>2, <2>3 DEF Cell
<1>2. Odd(x2) \in 0 .. 1 /\ Odd(x) \in 0 .. 1
  BY OddIs
<1>. QED BY <1>1, <1>2 DEF Keeps, Share, Aligned, Off, Mark, Cell

LEMMA OffTo ==
    ASSUME NEW b \in BOOLEAN, NEW v \in BOOLEAN, NEW w \in BOOLEAN, w # v
    PROVE  /\ Off(b, w) \in 0 .. 1 /\ Off(v, v) = 0 /\ Off(v, w) = 1
           /\ Off(v, b) = 1 - Off(b, w) /\ Off(b, v) = 1 - Off(b, w)
BY DEF Off

\* What is left of the count when the last request has been answered.
LEMMA LastAnswer ==
    ASSUME NEW x \in Cell, Settled(x), NEW v \in BOOLEAN, Answered(x, v).resp = 0, x.want # v
    PROVE  x.resp - Odd(x) = 1 - Off(x.state, v)
<1>1. CASE x.resp = 0
  BY <1>1 DEF Odd, Off, Cell, Settled, Answered
<1>2. CASE x.resp = 1
  BY <1>2 DEF Odd, Off, Cell, Settled, Answered
<1>3. CASE x.resp > 1
  BY <1>3 DEF Odd, Off, Cell, Settled, Answered
<1>. QED BY <1>1, <1>2, <1>3 DEF Cell

\* A change the peer asks for is accepted and said so.
LEMMA AcceptedKeeps ==
    ASSUME NEW x \in Cell, Settled(x), NEW j \in Mark, Aligned(x, j), NEW v \in BOOLEAN,
           Answered(x, v).resp = 0, x.want # v,
           NEW x2 \in Cell, x2.state = v, x2.want = v, x2.resp = 0
    PROVE  Keeps(x, j, x2, Hear(j, v), 2 - Off(x.state, v))
<1>1. Odd(x2) = 0
  <2>1. Off(x2.state, x2.want) = x2.resp
    BY DEF Off
  <2>. QED  BY <2>1 DEF Odd
<1>2. x.resp - Odd(x) = 1 - Off(x.state, v)
  BY LastAnswer
<1>3. Odd(x) \in 0 .. 1
  BY OddIs
<1>. QED BY <1>1, <1>2, <1>3 DEF Keeps, Share, Aligned, Off, Mark, Cell, Hear

\* An option that is wanted and was never on is given up in silence.
LEMMA SilentShare ==
    ASSUME NEW x \in Cell, Settled(x), NEW j \in Mark, NEW v \in BOOLEAN,
           Answered(x, v).resp = 0, x.want # v, x.state = v,
           NEW x2 \in Cell, x2.state = v, x2.want = v, x2.resp = 0
    PROVE  Share(x2, j) + (2 - Off(x.state, v)) >= Share(x, j)
<1>1. Odd(x2) = 0
  BY DEF Odd, Off
<1>2. x.resp - Odd(x) = 1 - Off(x.state, v)
  BY LastAnswer
<1>3. Odd(x) \in 0 .. 1
  BY OddIs
<1>. QED BY <1>1, <1>2, <1>3 DEF Share, Off, Mark, Cell

LEMMA SilentKeeps ==
    ASSUME NEW x \in Cell, Settled(x), NEW j \in Mark, 
           Answered(x, FALSE).resp = 0, x.want, ~x.state,
           NEW x2 \in Cell, x2.state = FALSE, x2.want = FALSE, x2.resp = 0
    PROVE  Keeps(x, j, x2, j, 2 - Off(x.state, FALSE))
<1>1. x.want # FALSE /\ x.state = FALSE
  BY DEF Cell
<1>2. Share(x2, j) + (2 - Off(x.state, FALSE)) >= Share(x, j)
  BY <1>1, SilentShare
<1>. QED BY <1>2 DEF Keeps, Aligned

\* A change that is not wanted is refused: the refusal counts as a request.
LEMMA RefusedShare ==
    ASSUME NEW x \in Cell, Settled(x), NEW j \in Mark, NEW v \in BOOLEAN,
           Answered(x, v).resp = 0, x.want # v,
           NEW x2 \in Cell, x2.state = v, x2.want = x.want, x2.resp = 1
    PROVE  Keeps(x, j, x2, Hear(j, x.want), 2 - Off(x.state, v))
<1>1. Odd(x2) = 0
  BY DEF Odd, Off
<1>2. x.resp - Odd(x) = 1 - Off(x.state, v)
  BY LastAnswer
<1>3. Odd(x) \in 0 .. 1
  BY OddIs
<1>. QED BY <1>1, <1>2, <1>3 DEF Keeps, Share, Aligned, Off, Mark, Cell, Hear

LEMMA RefusedKeeps ==
    ASSUME NEW x \in Cell, Settled(x), NEW j \in Mark,
           Answered(x, TRUE).resp = 0, ~x.want,
           NEW x2 \in Cell, x2.state = TRUE, x2.want = FALSE, x2.resp = 1
    PROVE  Keeps(x, j, x2, Hear(j, FALSE), 2 - Off(x.state, TRUE))
<1>1. x.want # TRUE /\ x.want = FALSE /\ x2.want = x.want
  BY DEF Cell
<1>. QED BY <1>1, RefusedShare, Zenon

-----------------------------------------------------------------------------
(* What a side will make of the messages on their way to it.               *)

\* The message m says yes or no to the option o.
About(m, yes, no, o) == m.opt = o /\ m.cmd \in {yes, no}

\* Messages about other things are not heard.
Read(j, m, yes, no, o) == IF About(m, yes, no, o) THEN Hear(j, m.cmd = yes) ELSE j

Reads(yes, no, o) == [p \in Mark \X Message |-> Read(p[1], p[2], yes, no, o)]

\* What out comes to for a hearer who has b.
Reading(b, out, yes, no, o) == Fold(Reads(yes, no, o), [last |-> b, uses |-> 0], out)

LEMMA HearMark ==
    ASSUME NEW j \in Mark, NEW v \in BOOLEAN
    PROVE  /\ Hear(j, v) \in Mark /\ Hear(j, v).last = v
           /\ Hear(j, v).uses = j.uses + (2 - Off(v, j.last))
<1>1. Off(v, j.last) \in 0 .. 1 /\ j.uses \in Nat
  BY DEF Off, Mark
<1>2. j.uses + 2 - Off(v, j.last) \in Nat /\ j.uses + 2 - Off(v, j.last) = j.uses + (2 - Off(v, j.last))
  BY <1>1
<1>. QED  BY <1>2 DEF Hear, Mark

LEMMA ReadMark ==
    ASSUME NEW j \in Mark, NEW m, NEW yes, NEW no, NEW o
    PROVE  Read(j, m, yes, no, o) \in Mark
<1>1. Hear(j, m.cmd = yes) \in Mark
  BY HearMark
<1>. QED  BY <1>1 DEF Read

LEMMA ReadsIsStep ==
    ASSUME NEW yes, NEW no, NEW o
    PROVE  /\ IsStep(Reads(yes, no, o), Mark, Message)
           /\ \A j \in Mark, m \in Message : Reads(yes, no, o)[<<j, m>>] = Read(j, m, yes, no, o)
<1>1. ASSUME NEW p \in Mark \X Message
      PROVE  Read(p[1], p[2], yes, no, o) \in Mark
  <2>1. p[1] \in Mark
    OBVIOUS
  <2>. QED  BY <2>1, ReadMark
<1>2. ASSUME NEW j \in Mark, NEW m \in Message
      PROVE  Reads(yes, no, o)[<<j, m>>] = Read(j, m, yes, no, o)
  <2>1. <<j, m>> \in Mark \X Message /\ <<j, m>>[1] = j /\ <<j, m>>[2] = m
    OBVIOUS
  <2>. QED  BY <2>1 DEF Reads
<1>. QED  BY <1>1, <1>2 DEF IsStep, Reads

LEMMA StartMark ==
    ASSUME NEW b \in BOOLEAN
    PROVE  [last |-> b, uses |-> 0] \in Mark
BY DEF Mark

LEMMA ReadingMark ==
    ASSUME NEW b \in BOOLEAN, NEW out \in Seq(Message), NEW yes, NEW no, NEW o
    PROVE  Reading(b, out, yes, no, o) \in Mark
BY ReadsIsStep, StartMark, FoldType DEF Reading

LEMMA ReadingEmpty ==
    ASSUME NEW b \in BOOLEAN, NEW yes, NEW no, NEW o
    PROVE  Reading(b, << >>, yes, no, o) = [last |-> b, uses |-> 0]
BY ReadsIsStep, StartMark, FoldEmpty DEF Reading

LEMMA ReadingAppend ==
    ASSUME NEW b \in BOOLEAN, NEW out \in Seq(Message), NEW m \in Message, NEW yes, NEW no, NEW o
    PROVE  Reading(b, Append(out, m), yes, no, o) =
             Read(Reading(b, out, yes, no, o), m, yes, no, o)
<1>. DEFINE f == Reads(yes, no, o)
            a == [last |-> b, uses |-> 0]
<1>1. a \in Mark /\ IsStep(f, Mark, Message)
  BY ReadsIsStep, StartMark
<1>2. Append(out, m) = out \o <<m>> /\ <<m>> \in Seq(Message)
  BY AppendIsConcat
<1>3. Fold(f, a, out \o <<m>>) = Fold(f, Fold(f, a, out), <<m>>)
  <2>. DEFINE q == <<m>>
  <2>1. q \in Seq(Message)
    BY <1>2
  <2>. HIDE DEF f, a, q
  <2>2. Fold(f, a, out \o q) = Fold(f, Fold(f, a, out), q)
    BY <1>1, <2>1, FoldConcat
  <2>. QED  BY <2>2 DEF q
<1>4. Fold(f, a, out) \in Mark
  <2>. HIDE DEF f, a
  <2>. QED  BY <1>1, FoldType
<1>5. Fold(f, Fold(f, a, out), <<m>>) = f[<<Fold(f, a, out), m>>]
  <2>. HIDE DEF f, a
  <2>. QED  BY <1>1, <1>4, FoldOne
<1>6. f[<<Fold(f, a, out), m>>] = Read(Fold(f, a, out), m, yes, no, o)
  BY <1>4, ReadsIsStep
<1>. QED  BY <1>2, <1>3, <1>5, <1>6 DEF Reading

\* To start with a number of uses is to end with as many more.
LEMMA ReadingFrom ==
    ASSUME NEW a \in Mark, NEW out \in Seq(Message), NEW yes, NEW no, NEW o
    PROVE  LET r == Reading(a.last, out, yes, no, o)
           IN  Fold(Reads(yes, no, o), a, out) = [last |-> r.last, uses |-> a.uses + r.uses]
<1>. DEFINE f == Reads(yes, no, o)
            b == [last |-> a.last, uses |-> 0]
            g == Run(f, a, out)
            h == Run(f, b, out)
            n == Len(out)
            T == {i \in 0 .. n : g[i] = [last |-> h[i].last, uses |-> a.uses + h[i].uses]}
<1>0. n \in Nat /\ a.last \in BOOLEAN /\ a.uses \in Nat /\ b \in Mark /\ IsStep(f, Mark, Message)
  BY ReadsIsStep DEF Mark
<1>1. /\ g \in [0 .. n -> Mark] /\ g[0] = a
      /\ \A i \in 1 .. n : g[i] = f[<<g[i - 1], out[i]>>]
  <2>. HIDE DEF f
  <2>. QED  BY <1>0, RunIs
<1>2. /\ h \in [0 .. n -> Mark] /\ h[0] = b
      /\ \A i \in 1 .. n : h[i] = f[<<h[i - 1], out[i]>>]
  <2>. HIDE DEF f, b
  <2>. QED  BY <1>0, RunIs
<1>3. \A j \in Mark, m \in Message : f[<<j, m>>] = Read(j, m, yes, no, o)
  BY ReadsIsStep
<1>. HIDE DEF g, h, f
<1>4. 0 \in T
  BY <1>0, <1>1, <1>2 DEF Mark
<1>5. ASSUME NEW i \in 1 .. n, i - 1 \in T PROVE i \in T
  <2>1. i - 1 \in 0 .. n /\ i \in 0 .. n /\ out[i] \in Message
    BY <1>0
  <2>. DEFINE p == h[i - 1]
              q == g[i - 1]
  <2>2. p \in Mark /\ q \in Mark /\ q = [last |-> p.last, uses |-> a.uses + p.uses]
    BY <1>1, <1>2, <1>5, <2>1
  <2>3. h[i] = f[<<p, out[i]>>] /\ g[i] = f[<<q, out[i]>>]
    BY <1>1, <1>2
  <2>. HIDE DEF p, q
  <2>4. p.uses \in Nat /\ q.last = p.last /\ q.uses = a.uses + p.uses
    BY <2>2 DEF Mark
  <2>5. CASE About(out[i], yes, no, o)
    <3>. DEFINE v == out[i].cmd = yes
    <3>1. h[i] = Hear(p, v) /\ g[i] = Hear(q, v)
      BY <1>3, <2>1, <2>2, <2>3, <2>5 DEF Read
    <3>2. v \in BOOLEAN
      OBVIOUS
    <3>. HIDE DEF v
    <3>3. Off(v, p.last) \in 0 .. 1
      BY DEF Off
    <3>4. Hear(q, v) = [last |-> v, uses |-> a.uses + (p.uses + 2 - Off(v, p.last))]
      BY <1>0, <2>4, <3>3 DEF Hear
    <3>. QED  BY <3>1, <3>4, <2>1 DEF Hear
  <2>6. CASE ~About(out[i], yes, no, o)
    <3>1. h[i] = p /\ g[i] = q
      BY <1>3, <2>1, <2>2, <2>3, <2>6 DEF Read
    <3>. QED  BY <2>1, <2>2, <3>1
  <2>. QED  BY <2>5, <2>6
<1>6. n \in T
  <2>. HIDE DEF T, n
  <2>1. 0 .. n \subseteq T
    BY <1>0, <1>4, <1>5, UpTo
  <2>. QED  BY <1>0, <2>1
<1>. QED  BY <1>6 DEF Reading, Fold, g, h, f

LEMMA ReadingTail ==
    ASSUME NEW b \in BOOLEAN, NEW out \in Seq(Message), out # << >>, NEW yes, NEW no, NEW o
    PROVE  LET m == Head(out)
               v == m.cmd = yes
               r == Reading(v, Tail(out), yes, no, o)
           IN  Reading(b, out, yes, no, o) =
                 IF About(m, yes, no, o)
                 THEN [last |-> r.last, uses |-> 2 - Off(v, b) + r.uses]
                 ELSE Reading(b, Tail(out), yes, no, o)
<1>. DEFINE m == Head(out)
            v == m.cmd = yes
            t == Tail(out)
            f == Reads(yes, no, o)
            a == [last |-> b, uses |-> 0]
            c == Read(a, m, yes, no, o)
<1>1. m \in Message /\ t \in Seq(Message) /\ out = <<m>> \o t /\ <<m>> \in Seq(Message)
  <2>1. m \in Message /\ t \in Seq(Message)
    OBVIOUS
  <2>2. out = <<m>> \o t
    <3>1. Len(out) \in Nat /\ Len(out) >= 1 /\ m = out[1] /\ t \in Seq(Message) /\ Len(t) = Len(out) - 1
          /\ \A i \in 1 .. Len(t) : t[i] = out[i + 1]
      OBVIOUS
    <3>2. /\ <<m>> \o t \in Seq(Message) /\ Len(<<m>> \o t) = Len(t) + 1
          /\ \A i \in 1 .. Len(t) + 1 : (<<m>> \o t)[i] = IF i = 1 THEN m ELSE t[i - 1]
      <4>. HIDE DEF m, t
      <4>. QED  BY <2>1, InFront
    <3>. DEFINE q == <<m>> \o t
    <3>. HIDE DEF q, m, t
    <3>3. Len(q) = Len(out) /\ \A i \in 1 .. Len(out) : q[i] = out[i]
      <4>1. \A i \in 1 .. Len(out) : i # 1 => i - 1 \in 1 .. Len(t) /\ (i - 1) + 1 = i
        BY <3>1
      <4>. QED  BY <3>1, <3>2, <4>1 DEF q
    <3>4. q = out
      BY <3>2, <3>3, SeqEqual DEF q
    <3>. QED  BY <3>4 DEF q
  <2>. QED  BY <2>1, <2>2
<1>2. a \in Mark /\ IsStep(f, Mark, Message) /\ v \in BOOLEAN
  BY ReadsIsStep, StartMark
<1>3. f[<<a, m>>] = c
  <2>. HIDE DEF a, m
  <2>. QED  BY <1>1, <1>2, ReadsIsStep
<1>4. Fold(f, a, <<m>>) = c /\ c \in Mark
  <2>1. Fold(f, a, <<m>>) = f[<<a, m>>]
    <3>. HIDE DEF f, a, m
    <3>. QED  BY <1>1, <1>2, FoldOne
  <2>2. c \in Mark
    BY <1>2, ReadMark
  <2>. QED  BY <2>1, <2>2, <1>3
<1>5. Fold(f, a, out) = Fold(f, c, t)
  <2>. HIDE DEF f, a, m, t, c
  <2>. DEFINE q == <<m>>
  <2>1. q \in Seq(Message)
    BY <1>1
  <2>. HIDE DEF q
  <2>2. Fold(f, a, q \o t) = Fold(f, Fold(f, a, q), t)
    BY <1>1, <1>2, <2>1, FoldConcat
  <2>. QED  BY <1>1, <1>4, <2>2 DEF q
<1>6. CASE About(m, yes, no, o)
  <2>1. c = Hear(a, v) /\ c.last = v /\ c.uses = 2 - Off(v, b)
    <3>1. Off(v, b) \in 0 .. 1
      BY DEF Off
    <3>. QED  BY <1>6, <3>1 DEF Hear, Read
  <2>2. Fold(f, c, t) = [last |-> Reading(c.last, t, yes, no, o).last, uses |-> c.uses + Reading(c.last, t, yes, no, o).uses]
    <3>. HIDE DEF a, m, t, c
    <3>. QED  BY <1>1, <1>4, ReadingFrom
  <2>. HIDE DEF c, t
  <2>. QED  BY <1>5, <1>6, <2>1, <2>2 DEF Reading, t
<1>7. CASE ~About(m, yes, no, o)
  BY <1>5, <1>7 DEF Reading, Read
<1>. QED  BY <1>6, <1>7

-----------------------------------------------------------------------------
(* Turns: what a receive handler makes of a cell and what it answers.      *)

\* One message has been added: yes or no to o.
Says(out, out2, v, yes, no, o) ==
    out2 = Append(out, [cmd |-> IF v THEN yes ELSE no, opt |-> o])

\* The ways a handler ends that was told v: what it had said is answered, or
\* it accepts, or gives up in silence, or refuses.
Turn(x, v, x2, out, out2, yes, no, o) ==
    LET c == Answered(x, v)
    IN  \/ /\ c.resp # 0 \/ c.want = v
           /\ x2 = Noted(c, v) /\ out2 = out
        \/ /\ c.resp = 0 /\ c.want # v
           /\ x2 = Accepted(c, v) /\ Says(out, out2, v, yes, no, o)
        \/ /\ c.resp = 0 /\ c.want /\ ~c.state /\ ~v
           /\ x2 = Accepted(c, FALSE) /\ out2 = out
        \/ /\ c.resp = 0 /\ ~c.want /\ v
           /\ x2 = Refused(c, TRUE) /\ Says(out, out2, FALSE, yes, no, o)

LEMMA SaysReading ==
    ASSUME NEW out \in Seq(Message), NEW out2, NEW v \in BOOLEAN, NEW o \in Option,
           NEW yes \in Command, NEW no \in Command, yes # no,
           Says(out, out2, v, yes, no, o), NEW b \in BOOLEAN
    PROVE  /\ out2 \in Seq(Message)
           /\ Reading(b, out2, yes, no, o) = Hear(Reading(b, out, yes, no, o), v)
<1>. DEFINE m == [cmd |-> IF v THEN yes ELSE no, opt |-> o]
<1>1. m \in Message /\ m.opt = o /\ m.cmd \in {yes, no} /\ (m.cmd = yes) = v
  BY DEF Message
<1>2. out2 = Append(out, m)
  BY DEF Says
<1>. HIDE DEF m
<1>3. out2 \in Seq(Message)
  BY <1>1, <1>2, AppendProperties
<1>4. Reading(b, out2, yes, no, o) = Read(Reading(b, out, yes, no, o), m, yes, no, o)
  BY <1>1, <1>2, ReadingAppend
<1>. QED  BY <1>1, <1>3, <1>4 DEF Read, About

\* Every way keeps the account.
LEMMA TurnKeeps ==
    ASSUME NEW x \in Cell, Settled(x), NEW v \in BOOLEAN, NEW x2,
           NEW out \in Seq(Message), NEW out2, NEW o \in Option,
           NEW yes \in Command, NEW no \in Command, yes # no, NEW b \in BOOLEAN,
           Turn(x, v, x2, out, out2, yes, no, o)
    PROVE  /\ x2 \in Cell /\ Settled(x2) /\ x2.state = v /\ out2 \in Seq(Message)
           /\ LET j == Reading(b, out, yes, no, o)
                  j2 == Reading(b, out2, yes, no, o)
              IN  Aligned(x, j) => Keeps(x, j, x2, j2, 2 - Off(x.state, v))
<1>. DEFINE c == Answered(x, v)
            j == Reading(b, out, yes, no, o)
            j2 == Reading(b, out2, yes, no, o)
            Goal == /\ x2 \in Cell /\ Settled(x2) /\ x2.state = v /\ out2 \in Seq(Message)
                    /\ Aligned(x, j) => Keeps(x, j, x2, j2, 2 - Off(x.state, v))
<1>1. c \in Cell /\ c.state = x.state /\ c.want = x.want
  BY AnsweredCell
<1>2. j \in Mark
  BY ReadingMark
<1>3. CASE (c.resp # 0 \/ c.want = v) /\ x2 = Noted(c, v) /\ out2 = out
  <2>1. x2 \in Cell /\ x2.state = v /\ x2.want = x.want /\ x2.resp = c.resp
    BY <1>1, <1>3, NotedCell
  <2>2. Settled(x2)
    BY <1>1, <1>3, <2>1 DEF Settled
  <2>3. c.resp # 0 \/ x.want = v
    BY <1>1, <1>3
  <2>4. Aligned(x, j) => Keeps(x, j, x2, j, 2 - Off(x.state, v))
    <3>. HIDE DEF j
    <3>. QED  BY <1>2, <2>1, <2>3, NotedKeeps
  <2>. HIDE DEF j, c
  <2>. QED  BY <1>3, <2>1, <2>2, <2>4 DEF j
<1>4. CASE c.resp = 0 /\ c.want # v /\ x2 = Accepted(c, v) /\ Says(out, out2, v, yes, no, o)
  <2>1. x2 \in Cell /\ x2.state = v /\ x2.want = v /\ x2.resp = 0
    BY <1>1, <1>4, AcceptedCell
  <2>2. Settled(x2)
    BY <2>1 DEF Settled
  <2>3. out2 \in Seq(Message) /\ j2 = Hear(j, v)
    BY <1>4, SaysReading
  <2>4. x.want # v /\ c.resp = 0
    BY <1>1, <1>4
  <2>5. Aligned(x, j) => Keeps(x, j, x2, Hear(j, v), 2 - Off(x.state, v))
    <3>. HIDE DEF j
    <3>. QED  BY <1>2, <2>1, <2>4, AcceptedKeeps
  <2>. HIDE DEF j, c, j2
  <2>. QED  BY <2>1, <2>2, <2>3, <2>5 DEF j, j2
<1>5. CASE c.resp = 0 /\ c.want /\ ~c.state /\ ~v /\ x2 = Accepted(c, FALSE) /\ out2 = out
  <2>1. v = FALSE
    BY <1>5
  <2>2. x2 \in Cell /\ x2.state = FALSE /\ x2.want = FALSE /\ x2.resp = 0
    BY <1>1, <1>5, AcceptedCell
  <2>3. Settled(x2)
    BY <2>2 DEF Settled
  <2>4. x.want /\ ~x.state /\ Answered(x, FALSE).resp = 0
    BY <1>1, <1>5, <2>1, Zenon
  <2>5. Keeps(x, j, x2, j, 2 - Off(x.state, FALSE))
    <3>. HIDE DEF j
    <3>. QED  BY <1>2, <2>2, <2>4, SilentKeeps
  <2>. HIDE DEF j, c
  <2>. QED  BY <1>5, <2>1, <2>2, <2>3, <2>5, Zenon DEF j
<1>6. CASE c.resp = 0 /\ ~c.want /\ v /\ x2 = Refused(c, TRUE) /\ Says(out, out2, FALSE, yes, no, o)
  <2>1. v = TRUE /\ c.want = FALSE
    BY <1>1, <1>6 DEF Cell
  <2>2. x2 \in Cell /\ x2.state = TRUE /\ x2.want = FALSE /\ x2.resp = 1
    <3>1. 0 + 1 = 1
      OBVIOUS
    <3>. QED  BY <1>1, <1>6, <2>1, <3>1, RefusedCell DEF Refused, Cell
  <2>3. Settled(x2)
    BY <2>2 DEF Settled
  <2>4. out2 \in Seq(Message) /\ j2 = Hear(j, FALSE)
    <3>1. ASSUME NEW w \in BOOLEAN, Says(out, out2, w, yes, no, o)
          PROVE  out2 \in Seq(Message) /\ j2 = Hear(j, w)
      BY <3>1, SaysReading
    <3>. HIDE DEF j, j2
    <3>. QED  BY <1>6, <3>1, Zenon
  <2>5. ~x.want /\ Answered(x, TRUE).resp = 0
    BY <1>1, <1>6, <2>1, Zenon
  <2>6. Keeps(x, j, x2, Hear(j, FALSE), 2 - Off(x.state, TRUE))
    <3>. HIDE DEF j
    <3>. QED  BY <1>2, <2>2, <2>5, RefusedKeeps
  <2>. HIDE DEF j, c, j2
  <2>. QED  BY <2>1, <2>2, <2>3, <2>4, <2>6, Zenon DEF j, j2
<1>. QED  BY <1>3, <1>4, <1>5, <1>6, Zenon DEF Turn

-----------------------------------------------------------------------------
(* The link between the cell of the side that asks for an option and the   *)
(* cell of the side that does it.                                          *)

\* What is on its way from the side that does the option ...
Offers(b, out, o) == Reading(b, out, "WILL", "WONT", o)

\* ... and from the side that asks for it.
Demands(b, out, o) == Reading(b, out, "DO", "DONT", o)

\* Together the two sides have what the messages will use up.
Linked(x, y, i, j) ==
    /\ Aligned(x, j) /\ Aligned(y, i)
    /\ Share(x, j) + Share(y, i) >= 0

\* The cell a has of the peer's o and the one d has of its own.
Link(a, d, o) ==
    Linked(a.his[o], d.my[o],
           Offers(a.his[o].state, d.out, o), Demands(d.my[o].state, a.out, o))

\* A program's state as far as the links are concerned.
Side(s) ==
    s.his \in [Option -> Cell] /\ s.my \in [Option -> Cell] /\ s.out \in Seq(Message)

LEMMA ShareInt ==
    ASSUME NEW x \in Cell, NEW j \in Mark
    PROVE  Share(x, j) \in Int
<1>1. Odd(x) \in 0 .. 1
  BY OddIs
<1>2. Off(j.last, x.want) \in 0 .. 1
  BY DEF Off
<1>. QED  BY <1>1, <1>2 DEF Share, Cell, Mark

LEMMA LinkedSwap ==
    ASSUME NEW x \in Cell, NEW y \in Cell, NEW i \in Mark, NEW j \in Mark
    PROVE  Linked(x, y, i, j) <=> Linked(y, x, j, i)
<1>1. Share(x, j) \in Int /\ Share(y, i) \in Int
  BY ShareInt
<1>. QED  BY <1>1 DEF Linked

\* One side moves, using u of what the other has said.
LEMMA LinkedMoves ==
    ASSUME NEW x \in Cell, NEW y \in Cell, NEW i \in Mark, NEW j \in Mark,
           NEW x2 \in Cell, NEW i2 \in Mark, NEW j2 \in Mark, NEW u \in Nat,
           Linked(x, y, i, j), Keeps(x, j, x2, j2, u),
           i2.last = i.last, i.uses = i2.uses + u
    PROVE  Linked(x2, y, i2, j2)
<1>1. /\ Share(x, j) \in Int /\ Share(y, i) \in Int /\ Share(x2, j2) \in Int
      /\ Share(y, i2) \in Int
  BY ShareInt
<1>2. Share(y, i2) = Share(y, i) + u
  <2>1. Odd(y) \in 0 .. 1 /\ Off(i.last, y.want) \in 0 .. 1 /\ y.resp \in Nat /\ i2.uses \in Nat
    BY OddIs DEF Off, Cell, Mark
  <2>2. Off(i2.last, y.want) = Off(i.last, y.want)
    OBVIOUS
  <2>. QED  BY <2>1, <2>2 DEF Share
<1>3. Aligned(y, i2)
  BY DEF Linked, Aligned
<1>. QED  BY <1>1, <1>2, <1>3 DEF Linked, Keeps

\* The next message on the line is yes or no to o.
Comes(in, v, yes, no, o) ==
    in # << >> /\ Head(in) = [cmd |-> IF v THEN yes ELSE no, opt |-> o]

\* What taking the next message off the line does to the reading of the rest.
LEMMA HeadRead ==
    ASSUME NEW b \in BOOLEAN, NEW v \in BOOLEAN, NEW out \in Seq(Message),
           NEW yes, NEW no, yes # no, NEW o, Comes(out, v, yes, no, o)
    PROVE  /\ Reading(v, Tail(out), yes, no, o).last = Reading(b, out, yes, no, o).last
           /\ Reading(b, out, yes, no, o).uses = Reading(v, Tail(out), yes, no, o).uses + (2 - Off(b, v))
<1>. DEFINE m == Head(out)
            r == Reading(v, Tail(out), yes, no, o)
<1>1. About(m, yes, no, o) /\ (m.cmd = yes) = v /\ out # << >>
  BY DEF About, Comes
<1>2. Tail(out) \in Seq(Message)
  BY <1>1
<1>3. r \in Mark
  BY <1>2, ReadingMark
<1>. HIDE DEF m
<1>4. Reading(b, out, yes, no, o) = [last |-> r.last, uses |-> 2 - Off(v, b) + r.uses]
  BY <1>1, ReadingTail DEF m
<1>5. Off(v, b) = Off(b, v) /\ Off(v, b) \in 0 .. 1 /\ r.uses \in Nat
  BY <1>3 DEF Off, Mark
<1>. QED  BY <1>4, <1>5

\* The turn of one side of a link.
LEMMA LinkedTurn ==
    ASSUME NEW x \in Cell, Settled(x), NEW y \in Cell,
           NEW in \in Seq(Message), NEW out \in Seq(Message), NEW out2, NEW x2,
           NEW o \in Option, NEW v \in BOOLEAN, NEW b \in BOOLEAN,
           NEW yes \in Command, NEW no \in Command, yes # no,
           NEW aye, NEW nay, aye # nay,
           Linked(x, y, Reading(x.state, in, aye, nay, o), Reading(b, out, yes, no, o)),
           Comes(in, v, aye, nay, o),
           Turn(x, v, x2, out, out2, yes, no, o)
    PROVE  Linked(x2, y, Reading(x2.state, Tail(in), aye, nay, o), Reading(b, out2, yes, no, o))
<1>. DEFINE i == Reading(x.state, in, aye, nay, o)
            i2 == Reading(v, Tail(in), aye, nay, o)
            j == Reading(b, out, yes, no, o)
            j2 == Reading(b, out2, yes, no, o)
            u == 2 - Off(x.state, v)
<1>1. x2 \in Cell /\ x2.state = v /\ out2 \in Seq(Message) /\ (Aligned(x, j) => Keeps(x, j, x2, j2, u))
  BY TurnKeeps
<1>2. x.state \in BOOLEAN /\ Tail(in) \in Seq(Message)
  BY DEF Cell, Comes
<1>3. i \in Mark /\ i2 \in Mark /\ j \in Mark /\ j2 \in Mark
  BY <1>1, <1>2, ReadingMark
<1>4. i2.last = i.last /\ i.uses = i2.uses + u
  <2>1. ASSUME NEW c \in BOOLEAN
        PROVE  /\ i2.last = Reading(c, in, aye, nay, o).last
               /\ Reading(c, in, aye, nay, o).uses = i2.uses + (2 - Off(c, v))
    BY HeadRead
  <2>. HIDE DEF i2
  <2>. QED  BY <1>2, <2>1
<1>5. u \in Nat
  BY DEF Off
<1>6. Linked(x, y, i, j) /\ Aligned(x, j)
  BY DEF Linked
<1>. HIDE DEF i, i2, j, j2, u
<1>7. Linked(x2, y, i2, j2)
  BY <1>1, <1>3, <1>4, <1>5, <1>6, LinkedMoves
<1>. QED  BY <1>1, <1>7 DEF i2, j2

\* A request of one side of a link.
LEMMA LinkedAsks ==
    ASSUME NEW x \in Cell, NEW y \in Cell, NEW i \in Mark,
           NEW out \in Seq(Message), NEW out2,
           NEW o \in Option, NEW v \in BOOLEAN, NEW b \in BOOLEAN,
           NEW yes \in Command, NEW no \in Command, yes # no,
           Linked(x, y, i, Reading(b, out, yes, no, o)),
           x.want # v, Says(out, out2, v, yes, no, o)
    PROVE  /\ Asked(x, v).state = x.state
           /\ Linked(Asked(x, v), y, i, Reading(b, out2, yes, no, o))
<1>. DEFINE j == Reading(b, out, yes, no, o)
            j2 == Reading(b, out2, yes, no, o)
            x2 == Asked(x, v)
<1>1. j \in Mark /\ j2 = Hear(j, v) /\ j2 \in Mark
  BY SaysReading, ReadingMark
<1>2. x2 \in Cell /\ x2.state = x.state
  BY AskedCell DEF Asked, Cell
<1>3. Aligned(x, j) /\ Linked(x, y, i, j)
  BY DEF Linked
<1>. HIDE DEF j, j2
<1>4. Keeps(x, j, x2, j2, 0)
  BY <1>1, <1>3, AskKeeps
<1>5. i.uses = i.uses + 0 /\ 0 \in Nat
  BY DEF Mark
<1>. HIDE DEF x2
<1>6. Linked(x2, y, i, j2)
  BY <1>1, <1>2, <1>3, <1>4, <1>5, LinkedMoves
<1>. QED  BY <1>2, <1>6 DEF x2, j2

-----------------------------------------------------------------------------
(* What leaves a reading alone.                                            *)

\* The two come to the same for o.
Unheard(out, out2, yes, no, o) ==
    \A b \in BOOLEAN : Reading(b, out2, yes, no, o) = Reading(b, out, yes, no, o)

LEMMA UnheardTold ==
    ASSUME NEW out \in Seq(Message), NEW m \in Message, NEW yes, NEW no, NEW o,
           ~About(m, yes, no, o)
    PROVE  Unheard(out, Append(out, m), yes, no, o)
BY ReadingAppend DEF Unheard, Read

LEMMA UnheardTaken ==
    ASSUME NEW out \in Seq(Message), out # << >>, NEW yes, NEW no, NEW o,
           ~About(Head(out), yes, no, o)
    PROVE  Unheard(out, Tail(out), yes, no, o)
BY ReadingTail DEF Unheard

\* Two pairs of commands, or the options they are about, are different.
Apart(yes, no, p, aye, nay, o) == o # p \/ (yes \notin {aye, nay} /\ no \notin {aye, nay})

LEMMA UnheardSaid ==
    ASSUME NEW out \in Seq(Message), NEW out2, NEW v \in BOOLEAN, NEW p \in Option,
           NEW yes \in Command, NEW no \in Command, Says(out, out2, v, yes, no, p),
           NEW aye, NEW nay, NEW o, Apart(yes, no, p, aye, nay, o)
    PROVE  Unheard(out, out2, aye, nay, o)
<1>. DEFINE m == [cmd |-> IF v THEN yes ELSE no, opt |-> p]
<1>1. m \in Message /\ ~About(m, aye, nay, o)
  BY DEF Message, About, Apart
<1>2. out2 = Append(out, m)
  BY DEF Says
<1>. HIDE DEF m
<1>. QED  BY <1>1, <1>2, UnheardTold

LEMMA UnheardComes ==
    ASSUME NEW out \in Seq(Message), NEW v \in BOOLEAN, NEW yes, NEW no, NEW p,
           Comes(out, v, yes, no, p), NEW aye, NEW nay, NEW o, Apart(yes, no, p, aye, nay, o)
    PROVE  Unheard(out, Tail(out), aye, nay, o)
<1>1. out # << >> /\ ~About(Head(out), aye, nay, o)
  BY DEF Comes, About, Apart
<1>. QED  BY <1>1, UnheardTaken

LEMMA UnheardTurn ==
    ASSUME NEW out \in Seq(Message), NEW out2, NEW v \in BOOLEAN, NEW p \in Option,
           NEW yes \in Command, NEW no \in Command, NEW x, NEW x2,
           Turn(x, v, x2, out, out2, yes, no, p),
           NEW aye, NEW nay, NEW o, Apart(yes, no, p, aye, nay, o)
    PROVE  Unheard(out, out2, aye, nay, o)
<1>1. out2 = out \/ Says(out, out2, v, yes, no, p) \/ Says(out, out2, FALSE, yes, no, p)
  BY Zenon DEF Turn
<1>2. CASE out2 = out
  BY <1>2 DEF Unheard
<1>3. ASSUME NEW w \in BOOLEAN, Says(out, out2, w, yes, no, p)
      PROVE  Unheard(out, out2, aye, nay, o)
  BY <1>3, UnheardSaid
<1>. QED  BY <1>1, <1>2, <1>3, Zenon

-----------------------------------------------------------------------------
(* Links between two programs.                                             *)

LEMMA LinkSame ==
    ASSUME NEW a, NEW d, NEW a2, NEW d2, NEW o \in Option, Side(a), Side(d), Link(a, d, o),
           a2.his[o] = a.his[o], d2.my[o] = d.my[o],
           Unheard(a.out, a2.out, "DO", "DONT", o), Unheard(d.out, d2.out, "WILL", "WONT", o)
    PROVE  Link(a2, d2, o)
<1>1. a.his[o].state \in BOOLEAN /\ d.my[o].state \in BOOLEAN
  BY DEF Side, Cell
<1>2. /\ Offers(a2.his[o].state, d2.out, o) = Offers(a.his[o].state, d.out, o)
      /\ Demands(d2.my[o].state, a2.out, o) = Demands(d.my[o].state, a.out, o)
  BY <1>1 DEF Unheard, Offers, Demands
<1>. QED  BY <1>2 DEF Link

\* The asking side takes an offer.
LEMMA LinkOffer ==
    ASSUME NEW a, NEW d, NEW a2, NEW d2, NEW o \in Option, NEW v \in BOOLEAN,
           Side(a), Side(d), Link(a, d, o), Settled(a.his[o]),
           Comes(d.out, v, "WILL", "WONT", o), d2.my[o] = d.my[o], d2.out = Tail(d.out),
           Turn(a.his[o], v, a2.his[o], a.out, a2.out, "DO", "DONT", o)
    PROVE  Link(a2, d2, o)
<1>. DEFINE x == a.his[o]
            y == d.my[o]
<1>1. x \in Cell /\ y \in Cell /\ x.state \in BOOLEAN /\ y.state \in BOOLEAN
      /\ a.out \in Seq(Message) /\ d.out \in Seq(Message)
  BY DEF Side, Cell
<1>2. Linked(x, y, Reading(x.state, d.out, "WILL", "WONT", o), Reading(y.state, a.out, "DO", "DONT", o))
  BY DEF Link, Offers, Demands
<1>3. "DO" \in Command /\ "DONT" \in Command
  BY DEF Command
<1>. HIDE DEF x, y
<1>4. Linked(a2.his[o], y, Reading(a2.his[o].state, Tail(d.out), "WILL", "WONT", o),
             Reading(y.state, a2.out, "DO", "DONT", o))
  BY <1>1, <1>2, <1>3, LinkedTurn DEF x
<1>. QED  BY <1>4 DEF Link, Offers, Demands, y

\* The doing side takes a demand.
LEMMA LinkDemand ==
    ASSUME NEW a, NEW d, NEW a2, NEW d2, NEW o \in Option, NEW v \in BOOLEAN,
           Side(a), Side(d), Side(d2), Link(a, d, o), Settled(d.my[o]),
           Comes(a.out, v, "DO", "DONT", o), a2.his[o] = a.his[o], a2.out = Tail(a.out),
           Turn(d.my[o], v, d2.my[o], d.out, d2.out, "WILL", "WONT", o)
    PROVE  Link(a2, d2, o)
<1>. DEFINE x == d.my[o]
            y == a.his[o]
            j == Reading(y.state, d.out, "WILL", "WONT", o)
            i == Reading(x.state, a.out, "DO", "DONT", o)
            x2 == d2.my[o]
            i2 == Reading(x2.state, Tail(a.out), "DO", "DONT", o)
            j2 == Reading(y.state, d2.out, "WILL", "WONT", o)
<1>1. x \in Cell /\ y \in Cell /\ x.state \in BOOLEAN /\ y.state \in BOOLEAN
      /\ a.out \in Seq(Message) /\ d.out \in Seq(Message)
  BY DEF Side, Cell
<1>2. Linked(y, x, j, i)
  BY DEF Link, Offers, Demands
<1>3. "WILL" \in Command /\ "WONT" \in Command
  BY DEF Command
<1>4. i \in Mark /\ j \in Mark
  BY <1>1, ReadingMark
<1>5. Linked(x, y, i, j)
  <2>. HIDE DEF x, y, i, j
  <2>. QED  BY <1>1, <1>2, <1>4, LinkedSwap
<1>7. Tail(a.out) \in Seq(Message)
  BY <1>1 DEF Comes
<1>6. x2 \in Cell /\ x2.state \in BOOLEAN /\ d2.out \in Seq(Message)
  BY DEF Side, Cell
<1>8. Linked(x2, y, i2, j2)
  <2>. HIDE DEF x, y, x2
  <2>. QED  BY <1>1, <1>3, <1>5, LinkedTurn DEF x, x2
<1>9. i2 \in Mark /\ j2 \in Mark
  <2>. HIDE DEF x2, y
  <2>. QED  BY <1>1, <1>6, <1>7, ReadingMark
<1>10. Linked(y, x2, j2, i2)
  <2>. HIDE DEF x2, y, i2, j2
  <2>. QED  BY <1>1, <1>6, <1>8, <1>9, LinkedSwap
<1>. QED  BY <1>10 DEF Link, Offers, Demands

LEMMA LinkAsksHim ==
    ASSUME NEW a, NEW d, NEW a2, NEW o \in Option, NEW v \in BOOLEAN,
           Side(a), Side(d), Link(a, d, o), a.his[o].want # v,
           a2.his[o] = Asked(a.his[o], v), Says(a.out, a2.out, v, "DO", "DONT", o)
    PROVE  Link(a2, d, o)
<1>. DEFINE x == a.his[o]
            y == d.my[o]
            i == Reading(x.state, d.out, "WILL", "WONT", o)
<1>1. x \in Cell /\ y \in Cell /\ x.state \in BOOLEAN /\ y.state \in BOOLEAN
      /\ a.out \in Seq(Message) /\ d.out \in Seq(Message)
  BY DEF Side, Cell
<1>2. Linked(x, y, i, Reading(y.state, a.out, "DO", "DONT", o))
  BY DEF Link, Offers, Demands
<1>3. "DO" \in Command /\ "DONT" \in Command
  BY DEF Command
<1>4. i \in Mark
  BY <1>1, ReadingMark
<1>5. /\ Asked(x, v).state = x.state
      /\ Linked(Asked(x, v), y, i, Reading(y.state, a2.out, "DO", "DONT", o))
  <2>1. x.want # v
    OBVIOUS
  <2>. HIDE DEF x, y, i
  <2>. QED  BY <1>1, <1>2, <1>3, <1>4, <2>1, LinkedAsks
<1>. QED  BY <1>5 DEF Link, Offers, Demands

LEMMA LinkAsksMyself ==
    ASSUME NEW a, NEW d, NEW d2, NEW o \in Option, NEW v \in BOOLEAN,
           Side(a), Side(d), Link(a, d, o), d.my[o].want # v,
           d2.my[o] = Asked(d.my[o], v), Says(d.out, d2.out, v, "WILL", "WONT", o)
    PROVE  Link(a, d2, o)
<1>. DEFINE x == d.my[o]
            y == a.his[o]
            x2 == Asked(x, v)
            i == Reading(x.state, a.out, "DO", "DONT", o)
            j == Reading(y.state, d.out, "WILL", "WONT", o)
            j2 == Reading(y.state, d2.out, "WILL", "WONT", o)
<1>1. x \in Cell /\ y \in Cell /\ x.state \in BOOLEAN /\ y.state \in BOOLEAN
      /\ a.out \in Seq(Message) /\ d.out \in Seq(Message)
  BY DEF Side, Cell
<1>2. "WILL" \in Command /\ "WONT" \in Command
  BY DEF Command
<1>3. i \in Mark /\ j \in Mark
  BY <1>1, ReadingMark
<1>4. Linked(x, y, i, j)
  <2>1. Linked(y, x, j, i)
    BY DEF Link, Offers, Demands
  <2>. HIDE DEF x, y, i, j
  <2>. QED  BY <1>1, <1>3, <2>1, LinkedSwap
<1>5. x2.state = x.state /\ Linked(x2, y, i, j2)
  <2>1. x.want # v
    OBVIOUS
  <2>. HIDE DEF x, y, i
  <2>. QED  BY <1>1, <1>2, <1>3, <1>4, <2>1, LinkedAsks
<1>6. j2 \in Mark /\ x2 \in Cell
  BY <1>1, <1>2, SaysReading, ReadingMark, AskedCell
<1>7. Linked(y, x2, j2, i)
  <2>. HIDE DEF x2, y, i, j2, x
  <2>. QED  BY <1>1, <1>3, <1>5, <1>6, LinkedSwap
<1>. QED  BY <1>5, <1>7 DEF Link, Offers, Demands

\* One side has said nothing, or something about o.
Spoke(out, out2, yes, no, o) ==
    out2 = out \/ \E v \in BOOLEAN : Says(out, out2, v, yes, no, o)

LEMMA UnheardSpoke ==
    ASSUME NEW out \in Seq(Message), NEW out2, NEW p \in Option,
           NEW yes \in Command, NEW no \in Command, Spoke(out, out2, yes, no, p),
           NEW aye, NEW nay, NEW o, Apart(yes, no, p, aye, nay, o)
    PROVE  Unheard(out, out2, aye, nay, o)
<1>1. CASE out2 = out
  BY <1>1 DEF Unheard
<1>2. ASSUME NEW v \in BOOLEAN, Says(out, out2, v, yes, no, p)
      PROVE  Unheard(out, out2, aye, nay, o)
  BY <1>2, UnheardSaid
<1>. QED  BY <1>1, <1>2 DEF Spoke

\* The cell in which telnetd keeps what the client does: its state is never
\* cleared, and until it is set there is at most the one request.
HisOK(c) == ~c.state => c.resp = IF c.want THEN 1 ELSE 0

\* telnetd is the asking side.  Once it has seen the option on it does not
\* change its mind without saying so.
Held(s, c, o) ==
    IF s.his[o].state
    THEN Demands(c.my[o].state, s.out, o).last = s.his[o].want
    ELSE Link(s, c, o)

LEMMA HeldSame ==
    ASSUME NEW s, NEW c, NEW s2, NEW c2, NEW o \in Option, Side(s), Side(c), Held(s, c, o),
           s2.his[o] = s.his[o], c2.my[o] = c.my[o],
           Unheard(s.out, s2.out, "DO", "DONT", o), Unheard(c.out, c2.out, "WILL", "WONT", o)
    PROVE  Held(s2, c2, o)
<1>1. CASE s.his[o].state
  <2>1. c.my[o].state \in BOOLEAN
    BY DEF Side, Cell
  <2>2. Demands(c2.my[o].state, s2.out, o) = Demands(c.my[o].state, s.out, o)
    BY <2>1 DEF Unheard, Demands
  <2>. QED  BY <1>1, <2>2 DEF Held
<1>2. CASE ~s.his[o].state
  <2>1. Link(s2, c2, o)
    BY <1>2, LinkSame DEF Held
  <2>. QED  BY <1>2, <2>1 DEF Held
<1>. QED  BY <1>1, <1>2

\* The client takes a demand of telnetd's.
LEMMA HeldDemand ==
    ASSUME NEW s, NEW c, NEW s2, NEW c2, NEW o \in Option, NEW v \in BOOLEAN,
           Side(s), Side(c), Side(c2), Held(s, c, o), Settled(c.my[o]),
           Comes(s.out, v, "DO", "DONT", o), s2.his[o] = s.his[o], s2.out = Tail(s.out),
           Turn(c.my[o], v, c2.my[o], c.out, c2.out, "WILL", "WONT", o)
    PROVE  Held(s2, c2, o)
<1>1. CASE s.his[o].state
  <2>. DEFINE x == c.my[o]
              x2 == c2.my[o]
  <2>1. x \in Cell /\ x.state \in BOOLEAN /\ s.out \in Seq(Message) /\ c.out \in Seq(Message)
    BY DEF Side, Cell
  <2>2. x2.state = v
    <3>1. Answered(x, v) \in Cell
      BY <2>1, AnsweredCell
    <3>2. CASE x2 = Noted(Answered(x, v), v)
      BY <3>1, <3>2, NotedCell
    <3>3. CASE x2 = Accepted(Answered(x, v), v)
      BY <3>1, <3>3, AcceptedCell
    <3>4. CASE ~v /\ x2 = Accepted(Answered(x, v), FALSE)
      BY <3>1, <3>4, AcceptedCell
    <3>5. CASE v /\ x2 = Refused(Answered(x, v), TRUE)
      BY <3>1, <3>5 DEF Refused, Cell
    <3>. QED  BY <3>2, <3>3, <3>4, <3>5, Zenon DEF Turn
  <2>3. Demands(v, Tail(s.out), o).last = Demands(x.state, s.out, o).last
    BY <2>1, HeadRead DEF Demands
  <2>. QED  BY <1>1, <2>2, <2>3 DEF Held
<1>2. CASE ~s.his[o].state
  <2>1. Link(s2, c2, o)
    BY <1>2, LinkDemand DEF Held
  <2>. QED  BY <1>2, <2>1 DEF Held
<1>. QED  BY <1>1, <1>2

LEMMA DemandsSaid ==
    ASSUME NEW out \in Seq(Message), NEW out2, NEW v \in BOOLEAN, NEW o \in Option,
           NEW b \in BOOLEAN, Says(out, out2, v, "DO", "DONT", o)
    PROVE  Demands(b, out2, o) = Hear(Demands(b, out, o), v)
<1>1. "DO" \in Command /\ "DONT" \in Command /\ "DO" # "DONT"
  BY DEF Command
<1>2. ASSUME NEW yes \in Command, NEW no \in Command, yes # no, Says(out, out2, v, yes, no, o)
      PROVE  Reading(b, out2, yes, no, o) = Hear(Reading(b, out, yes, no, o), v)
  BY <1>2, SaysReading
<1>3. Reading(b, out2, "DO", "DONT", o) = Hear(Reading(b, out, "DO", "DONT", o), v)
  BY <1>1, <1>2, Zenon
<1>. QED  BY <1>3 DEF Demands

LEMMA HeldAsksHim ==
    ASSUME NEW s, NEW c, NEW s2, NEW o \in Option, NEW v \in BOOLEAN,
           Side(s), Side(c), Held(s, c, o), s.his[o].want # v,
           s2.his[o] = Asked(s.his[o], v), Says(s.out, s2.out, v, "DO", "DONT", o)
    PROVE  Held(s2, c, o)
<1>1. s.his[o] \in Cell /\ s2.his[o].state = s.his[o].state /\ s2.his[o].want = v
  BY DEF Side, Asked, Cell
<1>2. CASE s.his[o].state
  <2>1. c.my[o].state \in BOOLEAN /\ s.out \in Seq(Message)
    BY DEF Side, Cell
  <2>2. Demands(c.my[o].state, s2.out, o) = Hear(Demands(c.my[o].state, s.out, o), v)
    BY <2>1, DemandsSaid
  <2>. QED  BY <1>1, <1>2, <2>2 DEF Held, Hear
<1>3. CASE ~s.his[o].state
  <2>1. Link(s2, c, o)
    BY <1>3, LinkAsksHim DEF Held
  <2>. QED  BY <1>1, <1>3, <2>1 DEF Held
<1>. QED  BY <1>2, <1>3

LEMMA HeldAsksMyself ==
    ASSUME NEW s, NEW c, NEW c2, NEW o \in Option, NEW v \in BOOLEAN,
           Side(s), Side(c), Held(s, c, o), c.my[o].want # v,
           c2.my[o] = Asked(c.my[o], v), Says(c.out, c2.out, v, "WILL", "WONT", o)
    PROVE  Held(s, c2, o)
<1>1. c.my[o] \in Cell /\ c2.my[o].state = c.my[o].state
  BY DEF Side, Asked, Cell
<1>2. CASE s.his[o].state
  BY <1>1, <1>2 DEF Held
<1>3. CASE ~s.his[o].state
  <2>1. Link(s, c2, o)
    BY <1>3, LinkAsksMyself DEF Held
  <2>. QED  BY <1>3, <2>1 DEF Held
<1>. QED  BY <1>2, <1>3

\* What telnetd makes of an offer.
Heeds(x, v, x2, out, out2, o) ==
    IF x.state \/ v
    THEN /\ x2.state
         /\ \/ Says(out, out2, x2.want, "DO", "DONT", o)
            \/ out2 = out /\ x2.want = x.want /\ (x.state \/ x.want)
    ELSE Turn(x, v, x2, out, out2, "DO", "DONT", o)

\* So it goes on, whether the offer came or telnetd takes it as made.
LEMMA HeldOn ==
    ASSUME NEW s, NEW c, NEW s2, NEW c2, NEW o \in Option, NEW v \in BOOLEAN,
           Side(s), Side(c), Side(s2), Held(s, c, o), s.his[o].state \/ v, c2.my[o] = c.my[o],
           Heeds(s.his[o], v, s2.his[o], s.out, s2.out, o)
    PROVE  Held(s2, c2, o)
<1>. DEFINE x == s.his[o]
            x2 == s2.his[o]
            b == c.my[o].state
            j == Demands(b, s.out, o)
            j2 == Demands(b, s2.out, o)
<1>1. /\ x \in Cell /\ x2 \in Cell /\ b \in BOOLEAN /\ x2.want \in BOOLEAN
      /\ s.out \in Seq(Message) /\ "DO" \in Command /\ "DONT" \in Command
  BY DEF Side, Cell, Command
<1>2. x2.state
  BY Zenon DEF Heeds
<1>3. CASE Says(s.out, s2.out, x2.want, "DO", "DONT", o)
  <2>1. j2 = Hear(j, x2.want)
    <3>. HIDE DEF x, x2, b
    <3>. QED  BY <1>1, <1>3, DemandsSaid
  <2>. QED  BY <1>2, <2>1 DEF Held, Hear
<1>4. CASE s2.out = s.out /\ x2.want = x.want /\ (x.state \/ x.want)
  <2>1. CASE x.state
    <3>1. j.last = x.want
      BY <2>1 DEF Held
    <3>. QED  BY <1>2, <1>4, <3>1 DEF Held
  <2>2. CASE ~x.state /\ x.want
    <3>1. Aligned(x, j)
      BY <2>2 DEF Held, Link, Linked
    <3>2. j.last = x.want
      BY <2>2, <3>1 DEF Aligned
    <3>. QED  BY <1>2, <1>4, <3>2 DEF Held
  <2>. QED  BY <1>4, <2>1, <2>2
<1>. QED  BY <1>3, <1>4, Zenon DEF Heeds

LEMMA HeldOffer ==
    ASSUME NEW s, NEW c, NEW s2, NEW c2, NEW o \in Option, NEW v \in BOOLEAN,
           Side(s), Side(c), Side(s2), Held(s, c, o), HisOK(s.his[o]), c2.my[o] = c.my[o],
           Comes(c.out, v, "WILL", "WONT", o), c2.out = Tail(c.out),
           Heeds(s.his[o], v, s2.his[o], s.out, s2.out, o)
    PROVE  Held(s2, c2, o)
<1>1. CASE s.his[o].state \/ v
  BY <1>1, HeldOn
<1>2. CASE ~(s.his[o].state \/ v)
  <2>1. s.his[o] \in Cell /\ Settled(s.his[o])
    BY <1>2 DEF Side, HisOK, Settled, Cell
  <2>2. Turn(s.his[o], v, s2.his[o], s.out, s2.out, "DO", "DONT", o) /\ Link(s, c, o)
    BY <1>2, Zenon DEF Heeds, Held
  <2>3. Link(s2, c2, o)
    BY <2>1, <2>2, LinkOffer
  <2>4. ~s2.his[o].state
    <3>1. v = FALSE /\ s.his[o].state = FALSE
      BY <1>2, <2>1 DEF Cell
    <3>2. Answered(s.his[o], FALSE) \in Cell
      BY <2>1, AnsweredCell
    <3>3. \/ s2.his[o] = Noted(Answered(s.his[o], FALSE), FALSE)
          \/ s2.his[o] = Accepted(Answered(s.his[o], FALSE), FALSE)
      BY <2>2, <3>1, Zenon DEF Turn
    <3>. QED  BY <3>2, <3>3, NotedCell, AcceptedCell
  <2>. QED  BY <2>3, <2>4 DEF Held
<1>. QED  BY <1>1, <1>2

-----------------------------------------------------------------------------
(* Both links of every option that is counted.                             *)

Bound(c, s) == \A o \in Counted : Link(c, s, o) /\ Held(s, c, o)

\* Only the cell of p changes.
Others(f, g, p) == \A o \in Option \ {p} : g[o] = f[o]

\* Nobody takes a message or says anything but about p.
LEMMA BoundApart ==
    ASSUME NEW c, NEW s, NEW c2, NEW s2, Side(c), Side(s), NEW p \in Option,
           NEW o \in Counted, o # p, Link(c, s, o), Held(s, c, o),
           Others(c.his, c2.his, p), Others(c.my, c2.my, p),
           Others(s.his, s2.his, p), Others(s.my, s2.my, p),
           Unheard(c.out, c2.out, "DO", "DONT", o), Unheard(c.out, c2.out, "WILL", "WONT", o),
           Unheard(s.out, s2.out, "DO", "DONT", o), Unheard(s.out, s2.out, "WILL", "WONT", o)
    PROVE  Link(c2, s2, o) /\ Held(s2, c2, o)
<1>1. o \in Option /\ o \in Option \ {p}
  BY DEF Counted
<1>2. c2.his[o] = c.his[o] /\ c2.my[o] = c.my[o] /\ s2.his[o] = s.his[o] /\ s2.my[o] = s.my[o]
  BY <1>1 DEF Others
<1>3. Link(c2, s2, o)
  BY <1>1, <1>2, LinkSame
<1>4. Held(s2, c2, o)
  BY <1>1, <1>2, HeldSame
<1>. QED  BY <1>3, <1>4

\* What is said and heard about p is not about anything else.
Quietly(out, out2, p) ==
    \A o \in Option \ {p} : /\ Unheard(out, out2, "DO", "DONT", o)
                            /\ Unheard(out, out2, "WILL", "WONT", o)

LEMMA QuietlySpoke ==
    ASSUME NEW out \in Seq(Message), NEW out2, NEW p \in Option,
           \/ Spoke(out, out2, "DO", "DONT", p)
           \/ Spoke(out, out2, "WILL", "WONT", p)
    PROVE  Quietly(out, out2, p)
<1>1. ASSUME NEW o \in Option \ {p}, NEW aye, NEW nay
      PROVE  Unheard(out, out2, aye, nay, o)
  <2>1. /\ "DO" \in Command /\ "DONT" \in Command /\ "WILL" \in Command /\ "WONT" \in Command
        /\ o # p
    BY DEF Command
  <2>2. Apart("DO", "DONT", p, aye, nay, o) /\ Apart("WILL", "WONT", p, aye, nay, o)
    BY DEF Apart
  <2>3. ASSUME NEW yes \in Command, NEW no \in Command, Spoke(out, out2, yes, no, p),
               Apart(yes, no, p, aye, nay, o)
        PROVE  Unheard(out, out2, aye, nay, o)
    BY <2>3, UnheardSpoke
  <2>. QED  BY <2>1, <2>2, <2>3, Zenon
<1>. QED  BY <1>1 DEF Quietly

LEMMA QuietlyComes ==
    ASSUME NEW out \in Seq(Message), NEW v \in BOOLEAN, NEW yes, NEW no, NEW p \in Option,
           Comes(out, v, yes, no, p)
    PROVE  Quietly(out, Tail(out), p)
<1>1. ASSUME NEW o \in Option \ {p}, NEW aye, NEW nay
      PROVE  Unheard(out, Tail(out), aye, nay, o)
  <2>1. Apart(yes, no, p, aye, nay, o)
    BY DEF Apart
  <2>. QED  BY <2>1, UnheardComes
<1>. QED  BY <1>1 DEF Quietly

LEMMA QuietlySame == ASSUME NEW out, NEW p PROVE Quietly(out, out, p)
BY DEF Quietly, Unheard

LEMMA BoundOthers ==
    ASSUME NEW c, NEW s, NEW c2, NEW s2, Side(c), Side(s), NEW p \in Option, Bound(c, s),
           Others(c.his, c2.his, p), Others(c.my, c2.my, p),
           Others(s.his, s2.his, p), Others(s.my, s2.my, p),
           Quietly(c.out, c2.out, p), Quietly(s.out, s2.out, p),
           p \in Counted => Link(c2, s2, p) /\ Held(s2, c2, p)
    PROVE  Bound(c2, s2)
<1>1. ASSUME NEW o \in Counted, o # p
      PROVE  Link(c2, s2, o) /\ Held(s2, c2, o)
  <2>1. Link(c, s, o) /\ Held(s, c, o)
    BY DEF Bound
  <2>2. o \in Option \ {p}
    BY <1>1 DEF Counted
  <2>3. /\ Unheard(c.out, c2.out, "DO", "DONT", o) /\ Unheard(c.out, c2.out, "WILL", "WONT", o)
        /\ Unheard(s.out, s2.out, "DO", "DONT", o) /\ Unheard(s.out, s2.out, "WILL", "WONT", o)
    BY <2>2 DEF Quietly
  <2>. QED  BY <1>1, <2>1, <2>3, BoundApart
<1>. QED  BY <1>1 DEF Bound

\* Talk of one kind is not heard as talk of the other.
LEMMA SpokeOther ==
    ASSUME NEW out \in Seq(Message), NEW out2, NEW p \in Option
    PROVE  /\ Spoke(out, out2, "DO", "DONT", p) => Unheard(out, out2, "WILL", "WONT", p)
           /\ Spoke(out, out2, "WILL", "WONT", p) => Unheard(out, out2, "DO", "DONT", p)
<1>1. /\ "DO" \in Command /\ "DONT" \in Command /\ "WILL" \in Command /\ "WONT" \in Command
  BY DEF Command
<1>2. Apart("DO", "DONT", p, "WILL", "WONT", p) /\ Apart("WILL", "WONT", p, "DO", "DONT", p)
  BY DEF Apart
<1>3. ASSUME NEW yes \in Command, NEW no \in Command, Spoke(out, out2, yes, no, p),
             NEW aye, NEW nay, Apart(yes, no, p, aye, nay, p)
      PROVE  Unheard(out, out2, aye, nay, p)
  BY <1>3, UnheardSpoke
<1>. QED  BY <1>1, <1>2, <1>3, Zenon

LEMMA ComesOther ==
    ASSUME NEW out \in Seq(Message), NEW v \in BOOLEAN, NEW p \in Option
    PROVE  /\ Comes(out, v, "DO", "DONT", p) => Unheard(out, Tail(out), "WILL", "WONT", p)
           /\ Comes(out, v, "WILL", "WONT", p) => Unheard(out, Tail(out), "DO", "DONT", p)
<1>1. Apart("DO", "DONT", p, "WILL", "WONT", p) /\ Apart("WILL", "WONT", p, "DO", "DONT", p)
  BY DEF Apart
<1>. QED  BY <1>1, UnheardComes

LEMMA OthersSame == ASSUME NEW f, NEW p PROVE Others(f, f, p)
BY DEF Others

\* The program of cells his and my has not touched them.
Still(s, s2) == s2.his = s.his /\ s2.my = s.my

-----------------------------------------------------------------------------
(* What the client does to the links.                                      *)

LEMMA BoundClientOffer ==
    ASSUME NEW c, NEW s, NEW c2, NEW s2, NEW p \in Option, NEW v \in BOOLEAN,
           Side(c), Side(s), Bound(c, s), Settled(c.his[p]),
           Comes(s.out, v, "WILL", "WONT", p), Still(s, s2), s2.out = Tail(s.out),
           c2.my = c.my, Others(c.his, c2.his, p), Spoke(c.out, c2.out, "DO", "DONT", p),
           p \in Counted => Turn(c.his[p], v, c2.his[p], c.out, c2.out, "DO", "DONT", p)
    PROVE  Bound(c2, s2)
<1>0. c.out \in Seq(Message) /\ s.out \in Seq(Message)
  BY DEF Side
<1>1. /\ Others(c.my, c2.my, p) /\ Others(s.his, s2.his, p) /\ Others(s.my, s2.my, p)
      /\ Quietly(c.out, c2.out, p) /\ Quietly(s.out, s2.out, p)
  BY <1>0, QuietlySpoke, QuietlyComes DEF Others, Still
<1>2. ASSUME p \in Counted
      PROVE  Link(c2, s2, p) /\ Held(s2, c2, p)
  <2>1. Link(c, s, p) /\ Held(s, c, p)
    BY <1>2 DEF Bound
  <2>2. Link(c2, s2, p)
    BY <1>2, <2>1, LinkOffer DEF Still
  <2>3. Unheard(s.out, s2.out, "DO", "DONT", p) /\ Unheard(c.out, c2.out, "WILL", "WONT", p)
    BY <1>0, SpokeOther, ComesOther
  <2>4. Held(s2, c2, p)
    BY <2>1, <2>3, HeldSame DEF Still
  <2>. QED  BY <2>2, <2>4
<1>. QED  BY <1>1, <1>2, BoundOthers

LEMMA BoundClientDemand ==
    ASSUME NEW c, NEW s, NEW c2, NEW s2, NEW p \in Option, NEW v \in BOOLEAN,
           Side(c), Side(s), Side(c2), Bound(c, s), Settled(c.my[p]),
           Comes(s.out, v, "DO", "DONT", p), Still(s, s2), s2.out = Tail(s.out),
           c2.his = c.his, Others(c.my, c2.my, p), Spoke(c.out, c2.out, "WILL", "WONT", p),
           p \in Counted => Turn(c.my[p], v, c2.my[p], c.out, c2.out, "WILL", "WONT", p)
    PROVE  Bound(c2, s2)
<1>0. c.out \in Seq(Message) /\ s.out \in Seq(Message)
  BY DEF Side
<1>1. /\ Others(c.his, c2.his, p) /\ Others(s.his, s2.his, p) /\ Others(s.my, s2.my, p)
      /\ Quietly(c.out, c2.out, p) /\ Quietly(s.out, s2.out, p)
  BY <1>0, QuietlySpoke, QuietlyComes DEF Others, Still
<1>2. ASSUME p \in Counted
      PROVE  Link(c2, s2, p) /\ Held(s2, c2, p)
  <2>1. Link(c, s, p) /\ Held(s, c, p)
    BY <1>2 DEF Bound
  <2>2. Held(s2, c2, p)
    BY <1>2, <2>1, HeldDemand DEF Still
  <2>3. Unheard(s.out, s2.out, "WILL", "WONT", p) /\ Unheard(c.out, c2.out, "DO", "DONT", p)
    BY <1>0, SpokeOther, ComesOther
  <2>4. Link(c2, s2, p)
    BY <2>1, <2>3, LinkSame DEF Still
  <2>. QED  BY <2>2, <2>4
<1>. QED  BY <1>1, <1>2, BoundOthers

LEMMA SaysSpoke ==
    ASSUME NEW out, NEW out2, NEW v \in BOOLEAN, NEW yes, NEW no, NEW p,
           Says(out, out2, v, yes, no, p)
    PROVE  Spoke(out, out2, yes, no, p)
BY DEF Spoke

LEMMA BoundClientAsksHim ==
    ASSUME NEW c, NEW s, NEW c2, NEW p \in Option, NEW v \in BOOLEAN,
           Side(c), Side(s), Bound(c, s), c.his[p].want # v, c2.my = c.my,
           Others(c.his, c2.his, p), c2.his[p] = Asked(c.his[p], v),
           Says(c.out, c2.out, v, "DO", "DONT", p)
    PROVE  Bound(c2, s)
<1>0. c.out \in Seq(Message) /\ Spoke(c.out, c2.out, "DO", "DONT", p)
  BY SaysSpoke DEF Side
<1>1. /\ Others(c.my, c2.my, p) /\ Others(s.his, s.his, p) /\ Others(s.my, s.my, p)
      /\ Quietly(c.out, c2.out, p) /\ Quietly(s.out, s.out, p)
  BY <1>0, QuietlySpoke, QuietlySame DEF Others
<1>2. ASSUME p \in Counted
      PROVE  Link(c2, s, p) /\ Held(s, c2, p)
  <2>1. Link(c, s, p) /\ Held(s, c, p)
    BY <1>2 DEF Bound
  <2>2. Link(c2, s, p)
    BY <2>1, LinkAsksHim
  <2>3. Unheard(c.out, c2.out, "WILL", "WONT", p) /\ Unheard(s.out, s.out, "DO", "DONT", p)
    BY <1>0, SpokeOther DEF Unheard
  <2>4. Held(s, c2, p)
    BY <2>1, <2>3, HeldSame
  <2>. QED  BY <2>2, <2>4
<1>. QED  BY <1>1, <1>2, BoundOthers

LEMMA BoundClientAsksMyself ==
    ASSUME NEW c, NEW s, NEW c2, NEW p \in Option, NEW v \in BOOLEAN,
           Side(c), Side(s), Bound(c, s), c.my[p].want # v, c2.his = c.his,
           Others(c.my, c2.my, p), c2.my[p] = Asked(c.my[p], v),
           Says(c.out, c2.out, v, "WILL", "WONT", p)
    PROVE  Bound(c2, s)
<1>0. c.out \in Seq(Message) /\ Spoke(c.out, c2.out, "WILL", "WONT", p)
  BY SaysSpoke DEF Side
<1>1. /\ Others(c.his, c2.his, p) /\ Others(s.his, s.his, p) /\ Others(s.my, s.my, p)
      /\ Quietly(c.out, c2.out, p) /\ Quietly(s.out, s.out, p)
  BY <1>0, QuietlySpoke, QuietlySame DEF Others
<1>2. ASSUME p \in Counted
      PROVE  Link(c2, s, p) /\ Held(s, c2, p)
  <2>1. Link(c, s, p) /\ Held(s, c, p)
    BY <1>2 DEF Bound
  <2>2. Held(s, c2, p)
    BY <2>1, HeldAsksMyself
  <2>3. Unheard(c.out, c2.out, "DO", "DONT", p) /\ Unheard(s.out, s.out, "WILL", "WONT", p)
    BY <1>0, SpokeOther DEF Unheard
  <2>4. Link(c2, s, p)
    BY <2>1, <2>3, LinkSame
  <2>. QED  BY <2>2, <2>4
<1>. QED  BY <1>1, <1>2, BoundOthers

\* Neither program's cells change, and what one of them says or takes is no
\* request or answer that is counted.
Aside(out, out2) ==
    \A o \in Counted : /\ Unheard(out, out2, "DO", "DONT", o)
                       /\ Unheard(out, out2, "WILL", "WONT", o)

LEMMA BoundAside ==
    ASSUME NEW c, NEW s, NEW c2, NEW s2, Side(c), Side(s), Bound(c, s),
           Still(c, c2), Still(s, s2), Aside(c.out, c2.out), Aside(s.out, s2.out)
    PROVE  Bound(c2, s2)
<1>1. ASSUME NEW o \in Counted
      PROVE  Link(c2, s2, o) /\ Held(s2, c2, o)
  <2>1. o \in Option /\ Link(c, s, o) /\ Held(s, c, o)
    BY DEF Bound, Counted
  <2>2. /\ Unheard(c.out, c2.out, "DO", "DONT", o) /\ Unheard(c.out, c2.out, "WILL", "WONT", o)
        /\ Unheard(s.out, s2.out, "DO", "DONT", o) /\ Unheard(s.out, s2.out, "WILL", "WONT", o)
    BY DEF Aside
  <2>3. Link(c2, s2, o)
    BY <2>1, <2>2, LinkSame DEF Still
  <2>4. Held(s2, c2, o)
    BY <2>1, <2>2, HeldSame DEF Still
  <2>. QED  BY <2>3, <2>4
<1>. QED  BY <1>1 DEF Bound

LEMMA AsideSame == ASSUME NEW out PROVE Aside(out, out)
BY DEF Aside, Unheard

\* A suboption, or a command about an option that is not counted.
LEMMA AsideMessage ==
    ASSUME NEW out \in Seq(Message)
    PROVE  /\ \A m \in Message : m.cmd = "SB" \/ m.opt \notin Counted => Aside(out, Append(out, m))
           /\ out # << >> /\ (Head(out).cmd = "SB" \/ Head(out).opt \notin Counted)
              => Aside(out, Tail(out))
<1>1. ASSUME NEW m \in Message, m.cmd = "SB" \/ m.opt \notin Counted, NEW o \in Counted
      PROVE  ~About(m, "DO", "DONT", o) /\ ~About(m, "WILL", "WONT", o)
  BY <1>1 DEF About
<1>2. ASSUME NEW m \in Message, m.cmd = "SB" \/ m.opt \notin Counted
      PROVE  Aside(out, Append(out, m))
  <2>1. ASSUME NEW o \in Counted
        PROVE  /\ Unheard(out, Append(out, m), "DO", "DONT", o)
               /\ Unheard(out, Append(out, m), "WILL", "WONT", o)
    BY <1>1, <1>2, UnheardTold
  <2>. QED  BY <2>1 DEF Aside
<1>3. ASSUME out # << >>, Head(out).cmd = "SB" \/ Head(out).opt \notin Counted
      PROVE  Aside(out, Tail(out))
  <2>1. ASSUME NEW o \in Counted
        PROVE  /\ Unheard(out, Tail(out), "DO", "DONT", o)
               /\ Unheard(out, Tail(out), "WILL", "WONT", o)
    <3>1. Head(out) \in Message
      BY <1>3
    <3>. QED  BY <1>1, <1>3, <3>1, UnheardTaken
  <2>. QED  BY <2>1 DEF Aside
<1>. QED  BY <1>2, <1>3

-----------------------------------------------------------------------------
(* What telnetd does to the links.                                         *)

LEMMA BoundServerOffer ==
    ASSUME NEW c, NEW s, NEW c2, NEW s2, NEW p \in Option, NEW v \in BOOLEAN,
           Side(c), Side(s), Side(s2), Bound(c, s), HisOK(s.his[p]),
           Comes(c.out, v, "WILL", "WONT", p), Still(c, c2), c2.out = Tail(c.out),
           s2.my = s.my, Others(s.his, s2.his, p), Spoke(s.out, s2.out, "DO", "DONT", p),
           p \in Counted => Heeds(s.his[p], v, s2.his[p], s.out, s2.out, p)
    PROVE  Bound(c2, s2)
<1>0. c.out \in Seq(Message) /\ s.out \in Seq(Message)
  BY DEF Side
<1>1. /\ Others(s.my, s2.my, p) /\ Others(c.his, c2.his, p) /\ Others(c.my, c2.my, p)
      /\ Quietly(c.out, c2.out, p) /\ Quietly(s.out, s2.out, p)
  BY <1>0, QuietlySpoke, QuietlyComes DEF Others, Still
<1>2. ASSUME p \in Counted
      PROVE  Link(c2, s2, p) /\ Held(s2, c2, p)
  <2>1. Link(c, s, p) /\ Held(s, c, p)
    BY <1>2 DEF Bound
  <2>2. Held(s2, c2, p)
    BY <1>2, <2>1, HeldOffer DEF Still
  <2>3. Unheard(s.out, s2.out, "WILL", "WONT", p) /\ Unheard(c.out, c2.out, "DO", "DONT", p)
    BY <1>0, SpokeOther, ComesOther
  <2>4. Link(c2, s2, p)
    BY <2>1, <2>3, LinkSame DEF Still
  <2>. QED  BY <2>2, <2>4
<1>. QED  BY <1>1, <1>2, BoundOthers

\* EchoDone: an offer is taken as made.
LEMMA BoundServerPretends ==
    ASSUME NEW c, NEW s, NEW s2, NEW p \in Option,
           Side(c), Side(s), Side(s2), Bound(c, s),
           s2.my = s.my, Others(s.his, s2.his, p), Spoke(s.out, s2.out, "DO", "DONT", p),
           Heeds(s.his[p], TRUE, s2.his[p], s.out, s2.out, p)
    PROVE  Bound(c, s2)
<1>0. c.out \in Seq(Message) /\ s.out \in Seq(Message)
  BY DEF Side
<1>1. /\ Others(s.my, s2.my, p) /\ Others(c.his, c.his, p) /\ Others(c.my, c.my, p)
      /\ Quietly(c.out, c.out, p) /\ Quietly(s.out, s2.out, p)
  BY <1>0, QuietlySpoke, QuietlySame DEF Others
<1>2. ASSUME p \in Counted
      PROVE  Link(c, s2, p) /\ Held(s2, c, p)
  <2>1. Link(c, s, p) /\ Held(s, c, p)
    BY <1>2 DEF Bound
  <2>2. Held(s2, c, p)
    <3>1. ASSUME NEW v \in BOOLEAN, v, Heeds(s.his[p], v, s2.his[p], s.out, s2.out, p)
          PROVE  Held(s2, c, p)
      BY <2>1, <3>1, HeldOn
    <3>. QED  BY <3>1, Zenon
  <2>3. Unheard(s.out, s2.out, "WILL", "WONT", p) /\ Unheard(c.out, c.out, "DO", "DONT", p)
    BY <1>0, SpokeOther DEF Unheard
  <2>4. Link(c, s2, p)
    BY <2>1, <2>3, LinkSame
  <2>. QED  BY <2>2, <2>4
<1>. QED  BY <1>1, <1>2, BoundOthers

LEMMA BoundServerDemand ==
    ASSUME NEW c, NEW s, NEW c2, NEW s2, NEW p \in Option, NEW v \in BOOLEAN,
           Side(c), Side(s), Side(s2), Bound(c, s), Settled(s.my[p]),
           Comes(c.out, v, "DO", "DONT", p), Still(c, c2), c2.out = Tail(c.out),
           s2.his = s.his, Others(s.my, s2.my, p), Spoke(s.out, s2.out, "WILL", "WONT", p),
           p \in Counted => Turn(s.my[p], v, s2.my[p], s.out, s2.out, "WILL", "WONT", p)
    PROVE  Bound(c2, s2)
<1>0. c.out \in Seq(Message) /\ s.out \in Seq(Message)
  BY DEF Side
<1>1. /\ Others(s.his, s2.his, p) /\ Others(c.his, c2.his, p) /\ Others(c.my, c2.my, p)
      /\ Quietly(c.out, c2.out, p) /\ Quietly(s.out, s2.out, p)
  BY <1>0, QuietlySpoke, QuietlyComes DEF Others, Still
<1>2. ASSUME p \in Counted
      PROVE  Link(c2, s2, p) /\ Held(s2, c2, p)
  <2>1. Link(c, s, p) /\ Held(s, c, p)
    BY <1>2 DEF Bound
  <2>2. Link(c2, s2, p)
    BY <1>2, <2>1, LinkDemand DEF Still
  <2>3. Unheard(s.out, s2.out, "DO", "DONT", p) /\ Unheard(c.out, c2.out, "WILL", "WONT", p)
    BY <1>0, SpokeOther, ComesOther
  <2>4. Held(s2, c2, p)
    BY <2>1, <2>3, HeldSame DEF Still
  <2>. QED  BY <2>2, <2>4
<1>. QED  BY <1>1, <1>2, BoundOthers

LEMMA BoundServerAsksHim ==
    ASSUME NEW c, NEW s, NEW s2, NEW p \in Option, NEW v \in BOOLEAN,
           Side(c), Side(s), Bound(c, s), s.his[p].want # v, s2.my = s.my,
           Others(s.his, s2.his, p), s2.his[p] = Asked(s.his[p], v),
           Says(s.out, s2.out, v, "DO", "DONT", p)
    PROVE  Bound(c, s2)
<1>0. s.out \in Seq(Message) /\ Spoke(s.out, s2.out, "DO", "DONT", p)
  BY SaysSpoke DEF Side
<1>1. /\ Others(s.my, s2.my, p) /\ Others(c.his, c.his, p) /\ Others(c.my, c.my, p)
      /\ Quietly(s.out, s2.out, p) /\ Quietly(c.out, c.out, p)
  BY <1>0, QuietlySpoke, QuietlySame DEF Others
<1>2. ASSUME p \in Counted
      PROVE  Link(c, s2, p) /\ Held(s2, c, p)
  <2>1. Link(c, s, p) /\ Held(s, c, p)
    BY <1>2 DEF Bound
  <2>2. Held(s2, c, p)
    BY <2>1, HeldAsksHim
  <2>3. Unheard(s.out, s2.out, "WILL", "WONT", p) /\ Unheard(c.out, c.out, "DO", "DONT", p)
    BY <1>0, SpokeOther DEF Unheard
  <2>4. Link(c, s2, p)
    BY <2>1, <2>3, LinkSame
  <2>. QED  BY <2>2, <2>4
<1>. QED  BY <1>1, <1>2, BoundOthers

LEMMA BoundServerAsksMyself ==
    ASSUME NEW c, NEW s, NEW s2, NEW p \in Option, NEW v \in BOOLEAN,
           Side(c), Side(s), Bound(c, s), s.my[p].want # v, s2.his = s.his,
           Others(s.my, s2.my, p), s2.my[p] = Asked(s.my[p], v),
           Says(s.out, s2.out, v, "WILL", "WONT", p)
    PROVE  Bound(c, s2)
<1>0. s.out \in Seq(Message) /\ Spoke(s.out, s2.out, "WILL", "WONT", p)
  BY SaysSpoke DEF Side
<1>1. /\ Others(s.his, s2.his, p) /\ Others(c.his, c.his, p) /\ Others(c.my, c.my, p)
      /\ Quietly(s.out, s2.out, p) /\ Quietly(c.out, c.out, p)
  BY <1>0, QuietlySpoke, QuietlySame DEF Others
<1>2. ASSUME p \in Counted
      PROVE  Link(c, s2, p) /\ Held(s2, c, p)
  <2>1. Link(c, s, p) /\ Held(s, c, p)
    BY <1>2 DEF Bound
  <2>2. Link(c, s2, p)
    BY <2>1, LinkAsksMyself
  <2>3. Unheard(s.out, s2.out, "DO", "DONT", p) /\ Unheard(c.out, c.out, "WILL", "WONT", p)
    BY <1>0, SpokeOther DEF Unheard
  <2>4. Held(s2, c, p)
    BY <2>1, <2>3, HeldSame
  <2>. QED  BY <2>2, <2>4
<1>. QED  BY <1>1, <1>2, BoundOthers

-----------------------------------------------------------------------------
(* telnetd is built on the same state machine.                             *)

LEMMA SameSets ==
    S!Command = Command /\ S!Cell = Cell /\ S!CellInit = CellInit /\ S!Message = Message
BY DEF S!Command, Command, S!Cell, Cell, S!CellInit, CellInit, S!Message, Message

LEMMA SameFsm ==
    \A c, v : /\ S!NothingToAsk(c, v) <=> NothingToAsk(c, v)
              /\ S!Asked(c, v) = Asked(c, v) /\ S!Answered(c, v) = Answered(c, v)
              /\ S!Accepted(c, v) = Accepted(c, v) /\ S!Refused(c, v) = Refused(c, v)
              /\ S!Noted(c, v) = Noted(c, v)
BY DEF S!NothingToAsk, NothingToAsk, S!Asked, Asked, S!Answered, Answered, S!Accepted, Accepted,
       S!Refused, Refused, S!Noted, Noted

\* What telnetd may say: it never asks for LINEMODE.
Sayable == Message \ {[cmd |-> "DO", opt |-> "LINEMODE"]}

Fine(s) ==
    /\ s \in S!ServerState /\ s.out \in Seq(Sayable)
    /\ \A o \in Option : Settled(s.my[o]) /\ HisOK(s.his[o])

\* The two programs joined by a connection.
Joint(c, s, on) == Good(c) /\ c.connected = on /\ Fine(s) /\ Bound(c, s)

LEMMA SideGood == ASSUME NEW c, Good(c) PROVE Side(c)
BY DEF Side, Good, ClientState

LEMMA SideServer == ASSUME NEW s, s \in S!ServerState PROVE Side(s)
BY SameSets DEF Side, S!ServerState

\* The client has taken what came first.
Took(s) == [s EXCEPT !.out = Tail(s.out)]

LEMMA FineTook ==
    ASSUME NEW s, Fine(s), s.out # << >>
    PROVE  Fine(Took(s)) /\ Still(s, Took(s)) /\ Took(s).out = Tail(s.out)
<1>1. Tail(s.out) \in Seq(Message) /\ Tail(s.out) \in Seq(Sayable)
  BY SameSets DEF Fine, S!ServerState
<1>2. Took(s) \in S!ServerState /\ Still(s, Took(s)) /\ Took(s).out = Tail(s.out)
  BY <1>1, SameSets DEF Took, Fine, S!ServerState, Still
<1>. QED  BY <1>1, <1>2 DEF Fine, Still

\* What a handler of the client's makes of one cell, and what is on the line then.
HisBecomes(c, c2, p, x2, q) ==
    /\ c2.his = [c.his EXCEPT ![p] = x2] /\ c2.my = c.my
    /\ c2.out = q /\ c2.connected = c.connected

MyBecomes(c, c2, p, x2, q) ==
    /\ c2.my = [c.my EXCEPT ![p] = x2] /\ c2.his = c.his
    /\ c2.out = q /\ c2.connected = c.connected

LEMMA JointOffer ==
    ASSUME NEW c, NEW s, NEW on, NEW c2, NEW p \in Option, NEW v \in BOOLEAN, NEW x2, NEW q,
           Joint(c, s, on), Comes(s.out, v, "WILL", "WONT", p), Good(c2),
           HisBecomes(c, c2, p, x2, q), Spoke(c.out, q, "DO", "DONT", p),
           p \in Counted => Turn(c.his[p], v, x2, c.out, q, "DO", "DONT", p)
    PROVE  Joint(c2, Took(s), on)
<1>0. Good(c) /\ Fine(s) /\ Bound(c, s) /\ s \in S!ServerState /\ s.out # << >>
  BY DEF Joint, Fine, Comes
<1>1. Side(c) /\ Side(s) /\ Settled(c.his[p])
  BY <1>0, GoodCells, SideGood, SideServer DEF GoodCell
<1>2. Fine(Took(s)) /\ Still(s, Took(s)) /\ Took(s).out = Tail(s.out)
  BY <1>0, <1>1, FineTook
<1>3. Others(c.his, c2.his, p) /\ c2.his[p] = x2 /\ c2.my = c.my /\ c2.out = q
  BY <1>1 DEF HisBecomes, Others, Side
<1>4. Bound(c2, Took(s))
  BY <1>0, <1>1, <1>2, <1>3, BoundClientOffer
<1>. QED  BY <1>2, <1>4 DEF Joint, HisBecomes

LEMMA JointDemand ==
    ASSUME NEW c, NEW s, NEW on, NEW c2, NEW p \in Option, NEW v \in BOOLEAN, NEW x2, NEW q,
           Joint(c, s, on), Comes(s.out, v, "DO", "DONT", p), Good(c2),
           MyBecomes(c, c2, p, x2, q), Spoke(c.out, q, "WILL", "WONT", p),
           p \in Counted => Turn(c.my[p], v, x2, c.out, q, "WILL", "WONT", p)
    PROVE  Joint(c2, Took(s), on)
<1>0. Good(c) /\ Fine(s) /\ Bound(c, s) /\ s \in S!ServerState /\ s.out # << >>
  BY DEF Joint, Fine, Comes
<1>1. Side(c) /\ Side(s) /\ Settled(c.my[p]) /\ Side(c2)
  BY <1>0, GoodCells, SideGood, SideServer DEF GoodCell
<1>2. Fine(Took(s)) /\ Still(s, Took(s)) /\ Took(s).out = Tail(s.out)
  BY <1>0, <1>1, FineTook
<1>3. Others(c.my, c2.my, p) /\ c2.my[p] = x2 /\ c2.his = c.his /\ c2.out = q
  BY <1>1 DEF MyBecomes, Others, Side
<1>4. Bound(c2, Took(s))
  BY <1>0, <1>1, <1>2, <1>3, BoundClientDemand
<1>. QED  BY <1>2, <1>4 DEF Joint, MyBecomes

-----------------------------------------------------------------------------
(* The client's handlers.                                                  *)

\* Turn, case by case.
LEMMA Turns ==
    ASSUME NEW x \in Cell, NEW v \in BOOLEAN, NEW out, NEW out2, NEW yes, NEW no, NEW o,
           NEW c, c = Answered(x, v)
    PROVE  /\ c.resp # 0 \/ c.want = v => Turn(x, v, Noted(c, v), out, out, yes, no, o)
           /\ c.resp = 0 /\ c.want # v /\ Says(out, out2, v, yes, no, o)
              => Turn(x, v, Accepted(c, v), out, out2, yes, no, o)
           /\ c.resp = 0 /\ c.want /\ ~c.state /\ ~v
              => Turn(x, v, Accepted(c, FALSE), out, out, yes, no, o)
           /\ c.resp = 0 /\ ~c.want /\ v /\ Says(out, out2, FALSE, yes, no, o)
              => Turn(x, v, Refused(c, TRUE), out, out2, yes, no, o)
BY Zenon DEF Turn

\* What netoprintf writes, as the links see it.
LEMMA Saying ==
    ASSUME NEW out, NEW yes, NEW no, NEW o
    PROVE  /\ Says(out, Append(out, [cmd |-> yes, opt |-> o]), TRUE, yes, no, o)
           /\ Says(out, Append(out, [cmd |-> no, opt |-> o]), FALSE, yes, no, o)
           /\ Spoke(out, Append(out, [cmd |-> yes, opt |-> o]), yes, no, o)
           /\ Spoke(out, Append(out, [cmd |-> no, opt |-> o]), yes, no, o)
           /\ Spoke(out, out, yes, no, o)
<1>1. /\ Says(out, Append(out, [cmd |-> yes, opt |-> o]), TRUE, yes, no, o)
      /\ Says(out, Append(out, [cmd |-> no, opt |-> o]), FALSE, yes, no, o)
  BY DEF Says
<1>2. \A out2 : \A v \in BOOLEAN : Says(out, out2, v, yes, no, o) => Spoke(out, out2, yes, no, o)
  BY DEF Spoke
<1>. QED  BY <1>1, <1>2, Zenon DEF Spoke

LEMMA JointWill ==
    ASSUME NEW c, NEW s, NEW on, Joint(c, s, on), NEW p \in Option,
           Comes(s.out, TRUE, "WILL", "WONT", p)
    PROVE  Joint(WillOption(c, p), Took(s), on)
<1>. DEFINE x == c.his[p]
            a == Answered(x, TRUE)
            c2 == WillOption(c, p)
            yes == Append(c.out, [cmd |-> "DO", opt |-> p])
            no == Append(c.out, [cmd |-> "DONT", opt |-> p])
<1>0. /\ Good(c) /\ c \in ClientState /\ x \in Cell /\ a \in Cell /\ a.want \in BOOLEAN
      /\ Good(c2)
  BY GoodCells, AnsweredCell, WillOptionGood DEF Joint, Good, Cell
<1>1. ASSUME NEW x2, NEW q, HisBecomes(c, c2, p, x2, q), Spoke(c.out, q, "DO", "DONT", p),
             p \in Counted => Turn(x, TRUE, x2, c.out, q, "DO", "DONT", p)
      PROVE  Joint(c2, Took(s), on)
  <2>1. ASSUME NEW v \in BOOLEAN, Comes(s.out, v, "WILL", "WONT", p),
               p \in Counted => Turn(x, v, x2, c.out, q, "DO", "DONT", p)
        PROVE  Joint(c2, Took(s), on)
    BY <1>0, <1>1, <2>1, JointOffer
  <2>. QED  BY <1>1, <2>1, Zenon
<1>2. CASE a.resp # 0 \/ a.want
  <2>1. HisBecomes(c, c2, p, Noted(a, TRUE), c.out)
    BY <1>0, <1>2 DEF WillOption, HisBecomes, ClientState
  <2>2. a.resp # 0 \/ a.want = TRUE
    BY <1>2
  <2>3. Turn(x, TRUE, Noted(a, TRUE), c.out, c.out, "DO", "DONT", p)
    BY <2>2, Zenon DEF Turn
  <2>4. Spoke(c.out, c.out, "DO", "DONT", p)
    BY Saying, Zenon
  <2>. HIDE DEF x, a, yes, no
  <2>. QED  BY <1>1, <2>1, <2>3, <2>4, Zenon
<1>3. CASE a.resp = 0 /\ ~a.want /\ p \in HeMay
  <2>1. HisBecomes(c, c2, p, Accepted(a, TRUE), yes)
    BY <1>0, <1>3 DEF WillOption, HisBecomes, ClientState, Tell, HeMay
  <2>2. a.resp = 0 /\ a.want # TRUE
    BY <1>3
  <2>3. Turn(x, TRUE, Accepted(a, TRUE), c.out, yes, "DO", "DONT", p)
    BY <2>2, Saying, Zenon DEF Turn
  <2>4. Spoke(c.out, yes, "DO", "DONT", p)
    BY Saying, Zenon
  <2>. HIDE DEF x, a, yes, no
  <2>. QED  BY <1>1, <2>1, <2>3, <2>4, Zenon
<1>4. CASE a.resp = 0 /\ ~a.want /\ p = "TM"
  <2>1. HisBecomes(c, c2, p, Accepted(a, FALSE), c.out)
    BY <1>0, <1>4 DEF WillOption, HisBecomes, ClientState, HeMay
  <2>2. p \notin Counted
    BY <1>4 DEF Counted
  <2>4. Spoke(c.out, c.out, "DO", "DONT", p)
    BY Saying, Zenon
  <2>. HIDE DEF x, a, yes, no
  <2>. QED  BY <1>1, <2>1, <2>2, <2>4, Zenon
<1>5. CASE a.resp = 0 /\ ~a.want /\ p \notin HeMay \cup {"TM"}
  <2>1. HisBecomes(c, c2, p, Refused(a, TRUE), no)
    BY <1>0, <1>5 DEF WillOption, HisBecomes, ClientState, Tell
  <2>2. a.resp = 0 /\ ~a.want
    BY <1>5
  <2>3. Turn(x, TRUE, Refused(a, TRUE), c.out, no, "DO", "DONT", p)
    BY <2>2, Saying, Zenon DEF Turn
  <2>4. Spoke(c.out, no, "DO", "DONT", p)
    BY Saying, Zenon
  <2>. HIDE DEF x, a, yes, no
  <2>. QED  BY <1>1, <2>1, <2>3, <2>4, Zenon
<1>. QED  BY <1>2, <1>3, <1>4, <1>5

LEMMA JointWont ==
    ASSUME NEW c, NEW s, NEW on, Joint(c, s, on), NEW p \in Option,
           Comes(s.out, FALSE, "WILL", "WONT", p)
    PROVE  Joint(WontOption(c, p), Took(s), on)
<1>. DEFINE x == c.his[p]
            a == Answered(x, FALSE)
            c2 == WontOption(c, p)
            no == Append(c.out, [cmd |-> "DONT", opt |-> p])
<1>0. /\ Good(c) /\ c \in ClientState /\ x \in Cell /\ a \in Cell /\ a.want \in BOOLEAN
      /\ Good(c2)
  BY GoodCells, AnsweredCell, WontOptionGood DEF Joint, Good, Cell
<1>1. ASSUME NEW x2, NEW q, HisBecomes(c, c2, p, x2, q), Spoke(c.out, q, "DO", "DONT", p),
             p \in Counted => Turn(x, FALSE, x2, c.out, q, "DO", "DONT", p)
      PROVE  Joint(c2, Took(s), on)
  <2>1. ASSUME NEW v \in BOOLEAN, Comes(s.out, v, "WILL", "WONT", p),
               p \in Counted => Turn(x, v, x2, c.out, q, "DO", "DONT", p)
        PROVE  Joint(c2, Took(s), on)
    BY <1>0, <1>1, <2>1, JointOffer
  <2>. QED  BY <1>1, <2>1, Zenon
<1>s. Spoke(c.out, c.out, "DO", "DONT", p) /\ Spoke(c.out, no, "DO", "DONT", p)
      /\ Says(c.out, no, FALSE, "DO", "DONT", p)
  BY Saying, Zenon
<1>2. CASE p = "TM"
  <2>1. HisBecomes(c, c2, p, Accepted(a, FALSE), c.out)
    BY <1>0, <1>2 DEF WontOption, HisBecomes, ClientState
  <2>2. p \notin Counted
    BY <1>2 DEF Counted
  <2>. HIDE DEF x, a, no
  <2>. QED  BY <1>1, <1>s, <2>1, <2>2, Zenon
<1>3. CASE p # "TM" /\ (a.resp # 0 \/ ~a.want)
  <2>1. HisBecomes(c, c2, p, Noted(a, FALSE), c.out)
    BY <1>0, <1>3 DEF WontOption, HisBecomes, ClientState
  <2>2. a.resp # 0 \/ a.want = FALSE
    BY <1>0, <1>3
  <2>3. Turn(x, FALSE, Noted(a, FALSE), c.out, c.out, "DO", "DONT", p)
    BY <2>2, Zenon DEF Turn
  <2>. HIDE DEF x, a, no
  <2>. QED  BY <1>1, <1>s, <2>1, <2>3, Zenon
<1>4. CASE p # "TM" /\ a.resp = 0 /\ a.want /\ a.state
  <2>1. HisBecomes(c, c2, p, Accepted(a, FALSE), no)
    BY <1>0, <1>4 DEF WontOption, HisBecomes, ClientState, Tell
  <2>2. a.resp = 0 /\ a.want # FALSE
    BY <1>4
  <2>3. Turn(x, FALSE, Accepted(a, FALSE), c.out, no, "DO", "DONT", p)
    BY <1>s, <2>2, Zenon DEF Turn
  <2>. HIDE DEF x, a, no
  <2>. QED  BY <1>1, <1>s, <2>1, <2>3, Zenon
<1>5. CASE p # "TM" /\ a.resp = 0 /\ a.want /\ ~a.state
  <2>1. HisBecomes(c, c2, p, Accepted(a, FALSE), c.out)
    BY <1>0, <1>5 DEF WontOption, HisBecomes, ClientState
  <2>2. a.resp = 0 /\ a.want /\ ~a.state
    BY <1>5
  <2>3. Turn(x, FALSE, Accepted(a, FALSE), c.out, c.out, "DO", "DONT", p)
    BY <2>2, Zenon DEF Turn
  <2>. HIDE DEF x, a, no
  <2>. QED  BY <1>1, <1>s, <2>1, <2>3, Zenon
<1>. QED  BY <1>2, <1>3, <1>4, <1>5

LEMMA JointDont ==
    ASSUME NEW c, NEW s, NEW on, Joint(c, s, on), NEW p \in Option,
           Comes(s.out, FALSE, "DO", "DONT", p)
    PROVE  Joint(DontOption(c, p), Took(s), on)
<1>. DEFINE x == c.my[p]
            a == Answered(x, FALSE)
            c2 == DontOption(c, p)
            no == Append(c.out, [cmd |-> "WONT", opt |-> p])
<1>0. /\ Good(c) /\ c \in ClientState /\ x \in Cell /\ a \in Cell /\ a.want \in BOOLEAN
      /\ Good(c2)
  BY GoodCells, AnsweredCell, DontOptionGood DEF Joint, Good, Cell
<1>1. ASSUME NEW x2, NEW q, MyBecomes(c, c2, p, x2, q), Spoke(c.out, q, "WILL", "WONT", p),
             p \in Counted => Turn(x, FALSE, x2, c.out, q, "WILL", "WONT", p)
      PROVE  Joint(c2, Took(s), on)
  <2>1. ASSUME NEW v \in BOOLEAN, Comes(s.out, v, "DO", "DONT", p),
               p \in Counted => Turn(x, v, x2, c.out, q, "WILL", "WONT", p)
        PROVE  Joint(c2, Took(s), on)
    BY <1>0, <1>1, <2>1, JointDemand
  <2>. QED  BY <1>1, <2>1, Zenon
<1>s. Spoke(c.out, c.out, "WILL", "WONT", p) /\ Spoke(c.out, no, "WILL", "WONT", p)
      /\ Says(c.out, no, FALSE, "WILL", "WONT", p)
  BY Saying, Zenon
<1>3. CASE a.resp # 0 \/ ~a.want
  <2>1. MyBecomes(c, c2, p, Noted(a, FALSE), c.out)
    BY <1>0, <1>3 DEF DontOption, MyBecomes, ClientState
  <2>2. a.resp # 0 \/ a.want = FALSE
    BY <1>0, <1>3
  <2>3. Turn(x, FALSE, Noted(a, FALSE), c.out, c.out, "WILL", "WONT", p)
    BY <2>2, Zenon DEF Turn
  <2>. HIDE DEF x, a, no
  <2>. QED  BY <1>1, <1>s, <2>1, <2>3, Zenon
<1>4. CASE a.resp = 0 /\ a.want /\ a.state
  <2>1. MyBecomes(c, c2, p, Accepted(a, FALSE), no)
    BY <1>0, <1>4 DEF DontOption, MyBecomes, ClientState, Tell
  <2>2. a.resp = 0 /\ a.want # FALSE
    BY <1>4
  <2>3. Turn(x, FALSE, Accepted(a, FALSE), c.out, no, "WILL", "WONT", p)
    BY <1>s, <2>2, Zenon DEF Turn
  <2>. HIDE DEF x, a, no
  <2>. QED  BY <1>1, <1>s, <2>1, <2>3, Zenon
<1>5. CASE a.resp = 0 /\ a.want /\ ~a.state
  <2>1. MyBecomes(c, c2, p, Accepted(a, FALSE), c.out)
    BY <1>0, <1>5 DEF DontOption, MyBecomes, ClientState
  <2>2. a.resp = 0 /\ a.want /\ ~a.state
    BY <1>5
  <2>3. Turn(x, FALSE, Accepted(a, FALSE), c.out, c.out, "WILL", "WONT", p)
    BY <2>2, Zenon DEF Turn
  <2>. HIDE DEF x, a, no
  <2>. QED  BY <1>1, <1>s, <2>1, <2>3, Zenon
<1>. QED  BY <1>3, <1>4, <1>5

\* telnetd never asks for LINEMODE, so DO LINEMODE is not among what comes.
LEMMA JointDo ==
    ASSUME NEW c, NEW s, NEW on, Joint(c, s, on), NEW p \in Option, p # "LINEMODE",
           Comes(s.out, TRUE, "DO", "DONT", p)
    PROVE  Joint(DoOption(c, p), Took(s), on)
<1>. DEFINE x == c.my[p]
            a == Answered(x, TRUE)
            c2 == DoOption(c, p)
            yes == Append(c.out, [cmd |-> "WILL", opt |-> p])
            no == Append(c.out, [cmd |-> "WONT", opt |-> p])
<1>0. /\ Good(c) /\ c \in ClientState /\ x \in Cell /\ a \in Cell /\ a.want \in BOOLEAN
      /\ Good(c2)
  BY GoodCells, AnsweredCell, DoOptionGood DEF Joint, Good, Cell
<1>1. ASSUME NEW x2, NEW q, MyBecomes(c, c2, p, x2, q), Spoke(c.out, q, "WILL", "WONT", p),
             p \in Counted => Turn(x, TRUE, x2, c.out, q, "WILL", "WONT", p)
      PROVE  Joint(c2, Took(s), on)
  <2>1. ASSUME NEW v \in BOOLEAN, Comes(s.out, v, "DO", "DONT", p),
               p \in Counted => Turn(x, v, x2, c.out, q, "WILL", "WONT", p)
        PROVE  Joint(c2, Took(s), on)
    BY <1>0, <1>1, <2>1, JointDemand
  <2>. QED  BY <1>1, <2>1, Zenon
<1>s. Spoke(c.out, c.out, "WILL", "WONT", p) /\ Spoke(c.out, no, "WILL", "WONT", p)
      /\ Spoke(c.out, yes, "WILL", "WONT", p)
      /\ Says(c.out, yes, TRUE, "WILL", "WONT", p) /\ Says(c.out, no, FALSE, "WILL", "WONT", p)
  BY Saying, Zenon
<1>2. CASE a.resp # 0 \/ a.want
  <2>1. MyBecomes(c, c2, p, Noted(a, TRUE), c.out)
    BY <1>0, <1>2 DEF DoOption, MyBecomes, ClientState
  <2>2. a.resp # 0 \/ a.want = TRUE
    BY <1>2
  <2>3. Turn(x, TRUE, Noted(a, TRUE), c.out, c.out, "WILL", "WONT", p)
    BY <2>2, Zenon DEF Turn
  <2>. HIDE DEF x, a, yes, no
  <2>. QED  BY <1>1, <1>s, <2>1, <2>3, Zenon
<1>3. CASE a.resp = 0 /\ ~a.want /\ p = "TM"
  <2>1. MyBecomes(c, c2, p, Accepted(a, FALSE), yes)
    BY <1>0, <1>3 DEF DoOption, MyBecomes, ClientState, Tell, IMay
  <2>2. p \notin Counted
    BY <1>3 DEF Counted
  <2>. HIDE DEF x, a, yes, no
  <2>. QED  BY <1>1, <1>s, <2>1, <2>2, Zenon
<1>4. CASE a.resp = 0 /\ ~a.want /\ p \in IMay(c)
  <2>0. p # "TM"
    BY <1>4 DEF IMay
  <2>1. MyBecomes(c, c2, p, Accepted(a, TRUE), yes)
    BY <1>0, <1>4, <2>0 DEF DoOption, MyBecomes, ClientState, Tell
  <2>2. a.resp = 0 /\ a.want # TRUE
    BY <1>4
  <2>3. Turn(x, TRUE, Accepted(a, TRUE), c.out, yes, "WILL", "WONT", p)
    BY <1>s, <2>2, Zenon DEF Turn
  <2>. HIDE DEF x, a, yes, no
  <2>. QED  BY <1>1, <1>s, <2>1, <2>3, Zenon
<1>5. CASE a.resp = 0 /\ ~a.want /\ p \notin IMay(c) \cup {"TM"}
  <2>1. MyBecomes(c, c2, p, Refused(a, TRUE), no)
    BY <1>0, <1>5 DEF DoOption, MyBecomes, ClientState, Tell
  <2>2. a.resp = 0 /\ ~a.want
    BY <1>5
  <2>3. Turn(x, TRUE, Refused(a, TRUE), c.out, no, "WILL", "WONT", p)
    BY <1>s, <2>2, Zenon DEF Turn
  <2>. HIDE DEF x, a, yes, no
  <2>. QED  BY <1>1, <1>s, <2>1, <2>3, Zenon
<1>. QED  BY <1>2, <1>3, <1>4, <1>5

-----------------------------------------------------------------------------
(* What the client says of its own accord.                                 *)

\* A suboption, or a request that is not counted.
LEMMA JointTell ==
    ASSUME NEW c, NEW s, NEW on, Joint(c, s, on), NEW p \in Option,
           NEW cmd \in Command \cup {"SB"}, cmd = "SB" \/ p \notin Counted
    PROVE  Joint(Tell(c, cmd, p), s, on)
<1>. DEFINE m == [cmd |-> cmd, opt |-> p]
            c2 == Tell(c, cmd, p)
<1>1. Good(c) /\ Fine(s) /\ Bound(c, s) /\ s \in S!ServerState /\ c.connected = on
  BY DEF Joint, Fine
<1>2. Side(c) /\ Side(s) /\ c.out \in Seq(Message) /\ Good(c2)
  BY <1>1, SideGood, SideServer, GoodTell DEF Side
<1>3. m \in Message /\ (m.cmd = "SB" \/ m.opt \notin Counted)
  BY DEF Message
<1>4. Still(c, c2) /\ c2.out = Append(c.out, m) /\ c2.connected = on
  BY <1>1 DEF Tell, Still, Good, ClientState
<1>5. Still(s, s) /\ Aside(s.out, s.out)
  BY AsideSame DEF Still
<1>. HIDE DEF m
<1>6. Aside(c.out, c2.out)
  BY <1>2, <1>3, <1>4, AsideMessage
<1>7. Bound(c2, s)
  BY <1>1, <1>2, <1>4, <1>5, <1>6, BoundAside
<1>. QED  BY <1>1, <1>2, <1>4, <1>7 DEF Joint

LEMMA JointFlags ==
    ASSUME NEW c, NEW s, NEW on, Joint(c, s, on), NEW b \in BOOLEAN
    PROVE  /\ Joint([c EXCEPT !.flushout = b], s, on)
           /\ Joint([c EXCEPT !.kludge = b], s, on)
           /\ Joint([c EXCEPT !.display = b], s, on)
           /\ Joint([c EXCEPT !.connected = b], s, b)
<1>1. Good(c) /\ Fine(s) /\ Bound(c, s) /\ s \in S!ServerState /\ c.connected = on
      /\ c \in ClientState
  BY DEF Joint, Fine, Good
<1>2. Side(c) /\ Side(s)
  BY <1>1, SideGood, SideServer
<1>3. ASSUME NEW c2, NEW now, Good(c2), Still(c, c2), c2.out = c.out, c2.connected = now
      PROVE  Joint(c2, s, now)
  <2>1. Still(s, s) /\ Aside(s.out, s.out) /\ Aside(c.out, c2.out)
    BY <1>3, AsideSame DEF Still
  <2>2. Bound(c2, s)
    BY <1>1, <1>2, <1>3, <2>1, BoundAside
  <2>. QED  BY <1>1, <1>3, <2>2 DEF Joint
<1>4. Joint([c EXCEPT !.flushout = b], s, on)
  <2>. DEFINE c2 == [c EXCEPT !.flushout = b]
  <2>1. Good(c2) /\ Still(c, c2) /\ c2.out = c.out /\ c2.connected = on
    BY <1>1, GoodFlags DEF Still, ClientState
  <2>. QED  BY <2>1, <1>3, Zenon
<1>5. Joint([c EXCEPT !.kludge = b], s, on)
  <2>. DEFINE c2 == [c EXCEPT !.kludge = b]
  <2>1. Good(c2) /\ Still(c, c2) /\ c2.out = c.out /\ c2.connected = on
    BY <1>1, GoodFlags DEF Still, ClientState
  <2>. QED  BY <2>1, <1>3, Zenon
<1>6. Joint([c EXCEPT !.display = b], s, on)
  <2>. DEFINE c2 == [c EXCEPT !.display = b]
  <2>1. Good(c2) /\ Still(c, c2) /\ c2.out = c.out /\ c2.connected = on
    BY <1>1, GoodFlags DEF Still, ClientState
  <2>. QED  BY <2>1, <1>3, Zenon
<1>7. Joint([c EXCEPT !.connected = b], s, b)
  <2>. DEFINE c2 == [c EXCEPT !.connected = b]
  <2>1. Good(c2) /\ Still(c, c2) /\ c2.out = c.out /\ c2.connected = b
    BY <1>1, GoodFlags DEF Still, ClientState
  <2>. QED  BY <2>1, <1>3, Zenon
<1>. QED  BY <1>4, <1>5, <1>6, <1>7

LEMMA JointAsksHim ==
    ASSUME NEW c, NEW s, NEW on, Joint(c, s, on), NEW p, NEW v \in BOOLEAN, NEW cmd \in Command,
           p \in Option => Says(c.out, Append(c.out, [cmd |-> cmd, opt |-> p]), v, "DO", "DONT", p)
    PROVE  Joint(AskHim(c, p, v, cmd), s, on)
<1>1. Good(c) /\ Fine(s) /\ Bound(c, s) /\ s \in S!ServerState /\ c.connected = on
      /\ c \in ClientState
  BY DEF Joint, Fine, Good
<1>2. CASE p \notin Option \/ NothingToAsk(c.his[p], v)
  BY <1>2 DEF AskHim
<1>3. CASE p \in Option /\ ~NothingToAsk(c.his[p], v)
  <2>. DEFINE c2 == AskHim(c, p, v, cmd)
  <2>1. Side(c) /\ Side(s) /\ Good(c2) /\ c.his[p] \in Cell
    BY <1>1, <1>3, SideGood, SideServer, AskHimGood, GoodCells
  <2>2. /\ c2.his = [c.his EXCEPT ![p] = Asked(c.his[p], v)] /\ c2.my = c.my
        /\ c2.out = Append(c.out, [cmd |-> cmd, opt |-> p]) /\ c2.connected = on
    BY <1>1, <1>3 DEF AskHim, Tell, ClientState
  <2>3. c.his[p].want # v
    BY <1>3 DEF NothingToAsk
  <2>4. Others(c.his, c2.his, p) /\ c2.his[p] = Asked(c.his[p], v)
    BY <1>3, <2>1, <2>2 DEF Others, Side
  <2>5. Says(c.out, c2.out, v, "DO", "DONT", p)
    BY <1>3, <2>2, Zenon
  <2>. HIDE DEF c2
  <2>6. Bound(c2, s)
    BY <1>1, <1>3, <2>1, <2>2, <2>3, <2>4, <2>5, BoundClientAsksHim
  <2>7. Joint(c2, s, on)
    BY <1>1, <2>1, <2>2, <2>6 DEF Joint
  <2>. QED  BY <2>7 DEF c2
<1>. QED  BY <1>2, <1>3

LEMMA JointAsksMyself ==
    ASSUME NEW c, NEW s, NEW on, Joint(c, s, on), NEW p, NEW v \in BOOLEAN, NEW cmd \in Command,
           p \in Option => Says(c.out, Append(c.out, [cmd |-> cmd, opt |-> p]), v, "WILL", "WONT", p)
    PROVE  Joint(AskMyself(c, p, v, cmd), s, on)
<1>1. Good(c) /\ Fine(s) /\ Bound(c, s) /\ s \in S!ServerState /\ c.connected = on
      /\ c \in ClientState
  BY DEF Joint, Fine, Good
<1>2. CASE p \notin Option \/ NothingToAsk(c.my[p], v)
  BY <1>2 DEF AskMyself
<1>3. CASE p \in Option /\ ~NothingToAsk(c.my[p], v)
  <2>. DEFINE c2 == AskMyself(c, p, v, cmd)
  <2>1. Side(c) /\ Side(s) /\ Good(c2) /\ c.my[p] \in Cell
    BY <1>1, <1>3, SideGood, SideServer, AskMyselfGood, GoodCells
  <2>2. /\ c2.my = [c.my EXCEPT ![p] = Asked(c.my[p], v)] /\ c2.his = c.his
        /\ c2.out = Append(c.out, [cmd |-> cmd, opt |-> p]) /\ c2.connected = on
    BY <1>1, <1>3 DEF AskMyself, Tell, ClientState
  <2>3. c.my[p].want # v
    BY <1>3 DEF NothingToAsk
  <2>4. Others(c.my, c2.my, p) /\ c2.my[p] = Asked(c.my[p], v)
    BY <1>3, <2>1, <2>2 DEF Others, Side
  <2>5. Says(c.out, c2.out, v, "WILL", "WONT", p)
    BY <1>3, <2>2, Zenon
  <2>. HIDE DEF c2
  <2>6. Bound(c2, s)
    BY <1>1, <1>3, <2>1, <2>2, <2>3, <2>4, <2>5, BoundClientAsksMyself
  <2>7. Joint(c2, s, on)
    BY <1>1, <2>1, <2>2, <2>6 DEF Joint
  <2>. QED  BY <2>7 DEF c2
<1>. QED  BY <1>2, <1>3

LEMMA JointSenders ==
    ASSUME NEW c, NEW s, NEW on, Joint(c, s, on), NEW p
    PROVE  /\ Joint(SendDo(c, p), s, on) /\ Joint(SendDont(c, p), s, on)
           /\ Joint(SendWill(c, p), s, on) /\ Joint(SendWont(c, p), s, on)
<1>0. /\ "DO" \in Command /\ "DONT" \in Command /\ "WILL" \in Command /\ "WONT" \in Command
      /\ TRUE \in BOOLEAN /\ FALSE \in BOOLEAN
  BY DEF Command
<1>1. Joint(AskHim(c, p, TRUE, "DO"), s, on)
  BY <1>0, JointAsksHim, Saying, Zenon
<1>2. Joint(AskHim(c, p, FALSE, "DONT"), s, on)
  BY <1>0, JointAsksHim, Saying, Zenon
<1>3. Joint(AskMyself(c, p, TRUE, "WILL"), s, on)
  BY <1>0, JointAsksMyself, Saying, Zenon
<1>4. Joint(AskMyself(c, p, FALSE, "WONT"), s, on)
  BY <1>0, JointAsksMyself, Saying, Zenon
<1>. QED  BY <1>1, <1>2, <1>3, <1>4 DEF SendDo, SendDont, SendWill, SendWont

\* telrcv takes a suboption off the line.
LEMMA JointTookSB ==
    ASSUME NEW c, NEW s, NEW on, Joint(c, s, on), s.out # << >>, Head(s.out).cmd = "SB"
    PROVE  Joint(c, Took(s), on)
<1>1. Good(c) /\ Fine(s) /\ Bound(c, s) /\ s \in S!ServerState /\ c.connected = on
  BY DEF Joint, Fine
<1>2. Side(c) /\ Side(s) /\ s.out \in Seq(Message)
  BY <1>1, SideGood, SideServer DEF Side
<1>3. Fine(Took(s)) /\ Still(s, Took(s)) /\ Took(s).out = Tail(s.out)
  BY <1>1, FineTook
<1>4. Aside(s.out, Tail(s.out)) /\ Aside(c.out, c.out) /\ Still(c, c)
  BY <1>2, AsideMessage, AsideSame DEF Still
<1>5. Bound(c, Took(s))
  BY <1>1, <1>2, <1>3, <1>4, BoundAside
<1>. QED  BY <1>1, <1>3, <1>5 DEF Joint

LEMMA Arrivals ==
    ASSUME NEW in, in # << >>, NEW m, m = Head(in), m \in Message
    PROVE  /\ m.cmd = "WILL" => Comes(in, TRUE, "WILL", "WONT", m.opt)
           /\ m.cmd = "WONT" => Comes(in, FALSE, "WILL", "WONT", m.opt)
           /\ m.cmd = "DO"   => Comes(in, TRUE, "DO", "DONT", m.opt)
           /\ m.cmd = "DONT" => Comes(in, FALSE, "DO", "DONT", m.opt)
<1>1. m = [cmd |-> m.cmd, opt |-> m.opt]
  BY DEF Message
<1>. QED  BY <1>1 DEF Comes

LEMMA JointReceive ==
    ASSUME NEW c, NEW s, NEW on, Joint(c, s, on), s.out # << >>
    PROVE  Joint(Receive(c, Head(s.out)), Took(s), on)
<1>. DEFINE m == Head(s.out)
            p == m.opt
<1>1. m \in Sayable
  BY DEF Joint, Fine
<1>2. m \in Message /\ p \in Option /\ m.cmd \in {"DO", "DONT", "WILL", "WONT", "SB"}
      /\ (m.cmd = "DO" => p # "LINEMODE")
  BY <1>1 DEF Sayable, Message, Command
<1>. HIDE DEF m, p
<1>3. /\ m.cmd = "WILL" => Comes(s.out, TRUE, "WILL", "WONT", p)
      /\ m.cmd = "WONT" => Comes(s.out, FALSE, "WILL", "WONT", p)
      /\ m.cmd = "DO"   => Comes(s.out, TRUE, "DO", "DONT", p)
      /\ m.cmd = "DONT" => Comes(s.out, FALSE, "DO", "DONT", p)
  BY <1>2, Arrivals, Zenon DEF m, p
<1>w. CASE m.cmd = "WILL"
  <2>1. Joint(WillOption(c, p), Took(s), on)
    BY <1>2, <1>3, <1>w, JointWill, Zenon
  <2>. QED  BY <1>w, <2>1 DEF Receive, m, p
<1>x. CASE m.cmd = "WONT"
  <2>1. Joint(WontOption(c, p), Took(s), on)
    BY <1>2, <1>3, <1>x, JointWont, Zenon
  <2>. QED  BY <1>x, <2>1 DEF Receive, m, p
<1>y. CASE m.cmd = "DO"
  <2>1. Joint(DoOption(c, p), Took(s), on)
    BY <1>2, <1>3, <1>y, JointDo, Zenon
  <2>2. Joint(SendNaws(DoOption(c, p), p), Took(s), on)
    BY <1>2, <2>1, JointTell DEF SendNaws
  <2>. QED  BY <1>y, <2>2 DEF Receive, m, p
<1>z. CASE m.cmd = "DONT"
  <2>1. Joint(DontOption(c, p), Took(s), on)
    BY <1>2, <1>3, <1>z, JointDont, Zenon
  <2>. QED  BY <1>z, <2>1 DEF Receive, m, p
<1>b. CASE m.cmd = "SB"
  <2>1. Joint(c, Took(s), on)
    BY <1>b, JointTookSB DEF m
  <2>2. Suboption(c, p) \in {c, Tell(c, "SB", p), SendWont(c, p)}
    BY DEF Suboption, Answers
  <2>3. Joint(Suboption(c, p), Took(s), on)
    BY <1>2, <2>1, <2>2, JointTell, JointSenders
  <2>. QED  BY <1>b, <2>3 DEF Receive, m, p
<1>. QED  BY <1>2, <1>w, <1>x, <1>y, <1>z, <1>b

LEMMA JointOpen ==
    ASSUME NEW c, NEW s, NEW on, Joint(c, s, on)
    PROVE  Joint(Open(c), s, TRUE)
<1>. DEFINE a == SendWill(SendDo(c, "SGA"), "TTYPE")
            b == SendWill(SendWill(a, "NAWS"), "TSPEED")
            d == SendWill(SendWill(b, "LFLOW"), "LINEMODE")
            e == SendDo(SendWill(d, "ENVIRON"), "STATUS")
            f == IF e.display THEN SendWill(e, "XDISPLOC") ELSE e
<1>1. Joint(a, s, on)
  BY JointSenders
<1>2. Joint(b, s, on)
  <2>. HIDE DEF a
  <2>. QED  BY <1>1, JointSenders
<1>3. Joint(d, s, on)
  <2>. HIDE DEF b
  <2>. QED  BY <1>2, JointSenders
<1>4. Joint(e, s, on)
  <2>. HIDE DEF d
  <2>. QED  BY <1>3, JointSenders
<1>5. Joint(f, s, on)
  <2>. HIDE DEF e
  <2>. QED  BY <1>4, JointSenders
<1>6. Open(c) = [f EXCEPT !.connected = TRUE]
  BY DEF Open
<1>. HIDE DEF f
<1>7. Joint([f EXCEPT !.connected = TRUE], s, TRUE)
  BY <1>5, JointFlags, Zenon
<1>. QED  BY <1>6, <1>7, Zenon

LEMMA JointUserAsks ==
    ASSUME NEW s, NEW on, Joint(client, s, on), NEW r \in Request
    PROVE  Joint(UserAsks(r), s, on)
<1>. DEFINE c == client
<1>1. Joint(Flush(c), s, on)
  <2>1. CASE "TM" \in Option
    <3>1. Joint([c EXCEPT !.flushout = TRUE], s, on)
      BY JointFlags, Zenon
    <3>2. "TM" \notin Counted /\ "DO" \in Command \cup {"SB"}
      BY DEF Counted, Command
    <3>. QED  BY <2>1, <3>1, <3>2, JointTell DEF Flush
  <2>. QED  BY <2>1 DEF Flush
<1>2. Joint(LineMode(c), s, on)
  BY JointSenders DEF LineMode
<1>3. Joint(CharMode(c), s, on)
  BY JointSenders DEF CharMode
<1>4. Joint(KludgeMode(c), s, on)
  <2>1. Joint([c EXCEPT !.kludge = TRUE], s, on)
    BY JointFlags, Zenon
  <2>. QED  BY <2>1, JointSenders DEF KludgeMode
<1>5. Joint(EnterBinary(c, 3), s, on)
  BY JointSenders DEF EnterBinary
<1>6. Joint(LeaveBinary(c, 3), s, on)
  BY JointSenders DEF LeaveBinary
<1>7. Joint(SendDo(c, "LOGOUT"), s, on)
  BY JointSenders
<1>8. Joint([c EXCEPT !.display = FALSE], s, on)
  BY JointFlags, Zenon
<1>9. r \in {"flush", "line", "char", "kludge", "binary", "ascii", "logout", "unset DISPLAY"}
  BY RequestAssumption
<1>. QED  BY <1>1, <1>2, <1>3, <1>4, <1>5, <1>6, <1>7, <1>8, <1>9 DEF UserAsks

LEMMA JointSendCommand ==
    ASSUME NEW c, NEW s, NEW on, Joint(c, s, on), NEW cmd \in Command, NEW p
    PROVE  Joint(SendCommand(c, cmd, p), s, on)
BY JointSenders DEF SendCommand, Command

-----------------------------------------------------------------------------
(* telnetd's handlers.                                                     *)

LEMMA ClientTook ==
    ASSUME NEW c, Good(c), c.out # << >>
    PROVE  /\ Good(Took(c)) /\ Still(c, Took(c)) /\ Took(c).out = Tail(c.out)
           /\ Took(c).connected = c.connected
<1>1. Tail(c.out) \in Seq(Message)
  BY DEF Good, ClientState
<1>. QED  BY <1>1 DEF Took, Good, ClientState, Still

\* A handler of telnetd's changes one cell of what the client does, and
\* perhaps a flag ...
ServerHis(s, p, x2, q, n, w) ==
    [s EXCEPT !.his = [s.his EXCEPT ![p] = x2], !.out = q, !.not42 = n, !.answered = w]

\* ... or one cell of what telnetd does itself.
ServerMy(s, p, x2, q, g, f) ==
    [s EXCEPT !.my = [s.my EXCEPT ![p] = x2], !.out = q, !.turn_on_sga = g, !.phase = f]

LEMMA FineHis ==
    ASSUME NEW s, Fine(s), NEW p \in Option, NEW x2 \in Cell, HisOK(x2), NEW q \in Seq(Sayable),
           NEW n \in BOOLEAN, NEW w \in SUBSET S!Queried
    PROVE  LET s2 == ServerHis(s, p, x2, q, n, w)
           IN  Fine(s2) /\ s2.my = s.my /\ s2.out = q /\ s2.his[p] = x2 /\ Others(s.his, s2.his, p)
<1>. DEFINE s2 == ServerHis(s, p, x2, q, n, w)
<1>1. q \in Seq(Message)
  BY DEF Sayable
<1>2. s2 \in S!ServerState /\ s2.my = s.my /\ s2.out = q /\ s2.his[p] = x2 /\ Others(s.his, s2.his, p)
  BY <1>1, SameSets DEF Fine, S!ServerState, ServerHis, Others
<1>. HIDE DEF s2
<1>3. Fine(s2)
  BY <1>2 DEF Fine, Others
<1>. QED  BY <1>2, <1>3 DEF s2

LEMMA FineMy ==
    ASSUME NEW s, Fine(s), NEW p \in Option, NEW x2 \in Cell, Settled(x2), NEW q \in Seq(Sayable),
           NEW g \in BOOLEAN, NEW f \in S!Phase
    PROVE  LET s2 == ServerMy(s, p, x2, q, g, f)
           IN  Fine(s2) /\ s2.his = s.his /\ s2.out = q /\ s2.my[p] = x2 /\ Others(s.my, s2.my, p)
<1>. DEFINE s2 == ServerMy(s, p, x2, q, g, f)
<1>1. q \in Seq(Message)
  BY DEF Sayable
<1>2. s2 \in S!ServerState /\ s2.his = s.his /\ s2.out = q /\ s2.my[p] = x2 /\ Others(s.my, s2.my, p)
  BY <1>1, SameSets DEF Fine, S!ServerState, ServerMy, Others
<1>. HIDE DEF s2
<1>3. Fine(s2)
  BY <1>2 DEF Fine, Others
<1>. QED  BY <1>2, <1>3 DEF s2

\* What telnetd says is sayable.
LEMMA SayableTold ==
    ASSUME NEW out \in Seq(Sayable), NEW p \in Option, NEW cmd \in Command \cup {"SB"},
           cmd # "DO" \/ p # "LINEMODE"
    PROVE  Append(out, [cmd |-> cmd, opt |-> p]) \in Seq(Sayable)
<1>1. [cmd |-> cmd, opt |-> p] \in Sayable
  BY DEF Sayable, Message
<1>. QED  BY <1>1

LEMMA JointServerOffer ==
    ASSUME NEW c, NEW s, NEW on, Joint(c, s, on), NEW p \in Option, NEW v \in BOOLEAN,
           Comes(c.out, v, "WILL", "WONT", p),
           NEW x2 \in Cell, HisOK(x2), NEW q \in Seq(Sayable), NEW n \in BOOLEAN,
           NEW w \in SUBSET S!Queried, Spoke(s.out, q, "DO", "DONT", p),
           p \in Counted => Heeds(s.his[p], v, x2, s.out, q, p)
    PROVE  Joint(Took(c), ServerHis(s, p, x2, q, n, w), on)
<1>. DEFINE s2 == ServerHis(s, p, x2, q, n, w)
<1>1. /\ Good(c) /\ Fine(s) /\ Bound(c, s) /\ s \in S!ServerState /\ c.connected = on
      /\ c.out # << >> /\ HisOK(s.his[p])
  BY DEF Joint, Fine, Comes
<1>2. Fine(s2) /\ s2.my = s.my /\ s2.out = q /\ s2.his[p] = x2 /\ Others(s.his, s2.his, p)
  BY <1>1, FineHis
<1>. HIDE DEF s2
<1>3. Side(c) /\ Side(s) /\ Side(s2)
  BY <1>1, <1>2, SideGood, SideServer DEF Fine
<1>4. Good(Took(c)) /\ Still(c, Took(c)) /\ Took(c).out = Tail(c.out) /\ Took(c).connected = on
  BY <1>1, ClientTook
<1>5. Bound(Took(c), s2)
  BY <1>1, <1>2, <1>3, <1>4, BoundServerOffer
<1>6. Joint(Took(c), s2, on)
  BY <1>2, <1>4, <1>5 DEF Joint
<1>. QED  BY <1>6 DEF s2

LEMMA JointServerPretends ==
    ASSUME NEW c, NEW s, NEW on, Joint(c, s, on), NEW p \in Option,
           NEW x2 \in Cell, HisOK(x2), NEW q \in Seq(Sayable), NEW n \in BOOLEAN,
           NEW w \in SUBSET S!Queried, Spoke(s.out, q, "DO", "DONT", p),
           Heeds(s.his[p], TRUE, x2, s.out, q, p)
    PROVE  Joint(c, ServerHis(s, p, x2, q, n, w), on)
<1>. DEFINE s2 == ServerHis(s, p, x2, q, n, w)
<1>1. /\ Good(c) /\ Fine(s) /\ Bound(c, s) /\ s \in S!ServerState /\ c.connected = on
  BY DEF Joint, Fine
<1>2. Fine(s2) /\ s2.my = s.my /\ s2.out = q /\ s2.his[p] = x2 /\ Others(s.his, s2.his, p)
  BY <1>1, FineHis
<1>. HIDE DEF s2
<1>3. Side(c) /\ Side(s) /\ Side(s2)
  BY <1>1, <1>2, SideGood, SideServer DEF Fine
<1>4. Heeds(s.his[p], TRUE, s2.his[p], s.out, s2.out, p) /\ Spoke(s.out, s2.out, "DO", "DONT", p)
  BY <1>2, Zenon
<1>5. Bound(c, s2)
  BY <1>1, <1>2, <1>3, <1>4, BoundServerPretends, Zenon
<1>6. Joint(c, s2, on)
  BY <1>1, <1>2, <1>5 DEF Joint
<1>. QED  BY <1>6 DEF s2

LEMMA JointServerDemand ==
    ASSUME NEW c, NEW s, NEW on, Joint(c, s, on), NEW p \in Option, NEW v \in BOOLEAN,
           Comes(c.out, v, "DO", "DONT", p),
           NEW x2 \in Cell, Settled(x2), NEW q \in Seq(Sayable), NEW g \in BOOLEAN,
           NEW f \in S!Phase, Spoke(s.out, q, "WILL", "WONT", p),
           p \in Counted => Turn(s.my[p], v, x2, s.out, q, "WILL", "WONT", p)
    PROVE  Joint(Took(c), ServerMy(s, p, x2, q, g, f), on)
<1>. DEFINE s2 == ServerMy(s, p, x2, q, g, f)
<1>1. /\ Good(c) /\ Fine(s) /\ Bound(c, s) /\ s \in S!ServerState /\ c.connected = on
      /\ c.out # << >> /\ Settled(s.my[p])
  BY DEF Joint, Fine, Comes
<1>2. Fine(s2) /\ s2.his = s.his /\ s2.out = q /\ s2.my[p] = x2 /\ Others(s.my, s2.my, p)
  BY <1>1, FineMy
<1>. HIDE DEF s2
<1>3. Side(c) /\ Side(s) /\ Side(s2)
  BY <1>1, <1>2, SideGood, SideServer DEF Fine
<1>4. Good(Took(c)) /\ Still(c, Took(c)) /\ Took(c).out = Tail(c.out) /\ Took(c).connected = on
  BY <1>1, ClientTook
<1>5. Bound(Took(c), s2)
  BY <1>1, <1>2, <1>3, <1>4, BoundServerDemand
<1>6. Joint(Took(c), s2, on)
  BY <1>2, <1>4, <1>5 DEF Joint
<1>. QED  BY <1>6 DEF s2

\* r is what a handler of telnetd's that was told v about p makes of s, when
\* it is about the client's options ...
HisAnswer(s, p, v, r, x2, q, n, w) ==
    /\ r = ServerHis(s, p, x2, q, n, w) /\ HisOK(x2)
    /\ Spoke(s.out, q, "DO", "DONT", p)
    /\ p # "TM" => Heeds(s.his[p], v, x2, s.out, q, p)

\* ... and when it is about telnetd's own.
MyAnswer(s, p, v, r, x2, q, g, f) ==
    /\ r = ServerMy(s, p, x2, q, g, f) /\ Settled(x2)
    /\ Spoke(s.out, q, "WILL", "WONT", p)
    /\ p \notin {"TM", "LOGOUT"} => Turn(s.my[p], v, x2, s.out, q, "WILL", "WONT", p)

LEMMA SaysWant ==
    ASSUME NEW w \in BOOLEAN, NEW out, NEW p
    PROVE  /\ w => Says(out, Append(out, [cmd |-> "DO", opt |-> p]), w, "DO", "DONT", p)
           /\ ~w => Says(out, Append(out, [cmd |-> "DONT", opt |-> p]), w, "DO", "DONT", p)
BY DEF Says

\* As long as telnetd has not seen the option on, at most one request is out.
LEMMA HisOKAnswered ==
    ASSUME NEW x \in Cell, HisOK(x), ~x.state, NEW v \in BOOLEAN
    PROVE  Answered(x, v).resp = 0 /\ (x.resp = 1 <=> x.want) /\ (x.resp = 0 <=> ~x.want)
BY DEF HisOK, Answered, Cell

LEMMA HisOKOn == ASSUME NEW x, x.state PROVE HisOK(x)
BY DEF HisOK

LEMMA ServerHisTwice ==
    ASSUME NEW s \in S!ServerState, NEW p \in Option, NEW d, NEW q, NEW n, NEW w,
           NEW d2, NEW q2, NEW n2, NEW w2
    PROVE  ServerHis(ServerHis(s, p, d, q, n, w), p, d2, q2, n2, w2)
             = ServerHis(s, p, d2, q2, n2, w2)
<1>1. [[s.his EXCEPT ![p] = d] EXCEPT ![p] = d2] = [s.his EXCEPT ![p] = d2]
  BY DEF S!ServerState
<1>. QED  BY <1>1 DEF ServerHis, S!ServerState

LEMMA ServerWill ==
    ASSUME NEW s, Fine(s), NEW p \in Option
    PROVE  \E x2 \in Cell, q \in Seq(Sayable), n \in BOOLEAN, w \in SUBSET S!Queried :
               HisAnswer(s, p, TRUE, S!WillOption(s, p), x2, q, n, w)
<1>. DEFINE x == s.his[p]
            a == Answered(x, TRUE)
            r == S!WillOption(s, p)
            n == s.not42 /\ ~(p = "ECHO" /\ a.resp = 0)
            w == s.answered
            yes == Append(s.out, [cmd |-> "DO", opt |-> p])
            no == Append(s.out, [cmd |-> "DONT", opt |-> p])
<1>0. /\ s \in S!ServerState /\ x \in Cell /\ a \in Cell /\ n \in BOOLEAN /\ w \in SUBSET S!Queried
      /\ HisOK(x) /\ s.out \in Seq(Sayable) /\ a.state = x.state /\ a.want = x.want
  BY SameSets, AnsweredCell DEF Fine, S!ServerState, Answered, Cell
<1>1. no \in Seq(Sayable) /\ (p # "LINEMODE" => yes \in Seq(Sayable))
  BY <1>0, SayableTold DEF Command
<1>s. Spoke(s.out, s.out, "DO", "DONT", p) /\ Spoke(s.out, no, "DO", "DONT", p)
      /\ Spoke(s.out, yes, "DO", "DONT", p)
  BY Saying, Zenon
<1>h. ASSUME NEW x2 \in Cell, x2.state,
             NEW q, \/ Says(s.out, q, x2.want, "DO", "DONT", p)
                    \/ q = s.out /\ x2.want = x.want /\ (x.state \/ x.want)
      PROVE  Heeds(x, TRUE, x2, s.out, q, p)
  BY <1>h, Zenon DEF Heeds
<1>a. ASSUME NEW x2 \in Cell, NEW q \in Seq(Sayable), HisAnswer(s, p, TRUE, r, x2, q, n, w)
      PROVE  \E z \in Cell, t \in Seq(Sayable), k \in BOOLEAN, e \in SUBSET S!Queried :
                 HisAnswer(s, p, TRUE, r, z, t, k, e)
  <2>. HIDE DEF n, w, r
  <2>. QED  BY <1>0, <1>a, Zenon
<1>2. CASE a.resp # 0
  <2>. DEFINE x2 == Noted(a, TRUE)
  <2>1. x2 \in Cell /\ x2.state /\ x2.want = x.want /\ HisOK(x2)
    BY <1>0, NotedCell, HisOKOn
  <2>2. r = ServerHis(s, p, x2, s.out, n, w)
    BY <1>0, <1>2, SameFsm DEF S!WillOption, ServerHis, S!ServerState
  <2>3. x.state
    BY <1>0, <1>2, HisOKAnswered
  <2>4. Heeds(x, TRUE, x2, s.out, s.out, p)
    BY <1>h, <2>1, <2>3, Zenon
  <2>. HIDE DEF x2, r, n, w
  <2>5. HisAnswer(s, p, TRUE, r, x2, s.out, n, w)
    BY <1>s, <2>1, <2>2, <2>4, Zenon DEF HisAnswer
  <2>. QED  BY <1>0, <1>a, <2>1, <2>5, Zenon DEF r
<1>3. CASE a.resp = 0 /\ ~a.want /\ p = "TM"
  <2>1. HisOK(a)
    BY <1>0, <1>3 DEF HisOK
  <2>2. r = ServerHis(s, p, a, s.out, n, w)
    BY <1>0, <1>3, SameFsm DEF S!WillOption, ServerHis, S!ServerState, S!HeMay
  <2>. HIDE DEF r, n, w, a
  <2>5. HisAnswer(s, p, TRUE, r, a, s.out, n, w)
    BY <1>3, <1>s, <2>1, <2>2, Zenon DEF HisAnswer
  <2>. QED  BY <1>0, <1>a, <2>5, Zenon DEF r
<1>4. CASE a.resp = 0 /\ ~a.want /\ p \in S!HeMay
  <2>. DEFINE x2 == Accepted(a, TRUE)
  <2>0. p # "TM" /\ p # "LINEMODE"
    BY <1>4 DEF S!HeMay
  <2>1. x2 \in Cell /\ x2.state /\ x2.want /\ x2.want \in BOOLEAN /\ HisOK(x2)
    BY <1>0, AcceptedCell, HisOKOn
  <2>2. r = ServerHis(s, p, x2, yes, n, w)
    BY <1>0, <1>4, <2>0, SameFsm DEF S!WillOption, ServerHis, S!ServerState, S!Tell
  <2>3. Says(s.out, yes, x2.want, "DO", "DONT", p)
    <3>. HIDE DEF x2
    <3>. QED  BY <2>1, SaysWant
  <2>4. Heeds(x, TRUE, x2, s.out, yes, p)
    BY <1>h, <2>1, <2>3, Zenon
  <2>. HIDE DEF x2, r, n, w, yes
  <2>5. HisAnswer(s, p, TRUE, r, x2, yes, n, w)
    BY <1>s, <2>1, <2>2, <2>4, Zenon DEF HisAnswer
  <2>. QED  BY <1>0, <1>1, <1>a, <2>0, <2>1, <2>5, Zenon DEF r
<1>5. CASE a.resp = 0 /\ ~a.want /\ p \notin S!HeMay \cup {"TM"}
  <2>. DEFINE x2 == Refused(a, TRUE)
  <2>1. x2 \in Cell /\ x2.state /\ ~x2.want /\ x2.want \in BOOLEAN /\ HisOK(x2)
    BY <1>0, <1>5, RefusedCell, HisOKOn DEF Refused, Cell
  <2>2. r = ServerHis(s, p, x2, no, n, w)
    BY <1>0, <1>5, SameFsm DEF S!WillOption, ServerHis, S!ServerState, S!Tell
  <2>3. Says(s.out, no, x2.want, "DO", "DONT", p)
    <3>. HIDE DEF x2
    <3>. QED  BY <2>1, SaysWant
  <2>4. Heeds(x, TRUE, x2, s.out, no, p)
    BY <1>h, <2>1, <2>3, Zenon
  <2>. HIDE DEF x2, r, n, w, no
  <2>5. HisAnswer(s, p, TRUE, r, x2, no, n, w)
    BY <1>s, <2>1, <2>2, <2>4, Zenon DEF HisAnswer
  <2>. QED  BY <1>0, <1>1, <1>a, <2>1, <2>5, Zenon DEF r
<1>6. CASE a.resp = 0 /\ a.want /\ p = "ECHO" /\ a.state
  <2>. DEFINE x2 == Noted(Asked(a, FALSE), TRUE)
  <2>1. x2 \in Cell /\ x2.state /\ ~x2.want /\ x2.want \in BOOLEAN /\ HisOK(x2)
    BY <1>0, <1>6, NotedCell, AskedCell, HisOKOn
  <2>2. r = ServerHis(s, p, x2, no, n, w)
    <3>. DEFINE t == [s EXCEPT !.his[p] = a, !.not42 = n]
                u == S!SendDont(t, p)
                d == Asked(a, FALSE)
    <3>1. t = ServerHis(s, p, a, s.out, n, w)
      BY <1>0 DEF S!ServerState, ServerHis
    <3>2. t.his[p] = a /\ t.out = s.out /\ t.not42 = n /\ t.answered = w
      BY <1>0 DEF S!ServerState
    <3>3. u = S!Tell([t EXCEPT !.his[p] = Asked(t.his[p], FALSE)], "DONT", p)
      BY <1>0, <1>6, <3>2, SameFsm DEF S!SendDont, NothingToAsk, Cell
    <3>4. u = ServerHis(t, p, d, no, n, w)
      <4>1. t \in S!ServerState
        BY <1>0, SameSets DEF S!ServerState
      <4>. HIDE DEF t, n, w, a, d
      <4>2. u = [[t EXCEPT !.his[p] = d] EXCEPT !.out = no]
        <5>1. [t EXCEPT !.his[p] = d].out = s.out
          BY <3>2, <4>1 DEF S!ServerState
        <5>. QED  BY <3>2, <3>3, <5>1 DEF S!Tell, d
      <4>. QED  BY <3>2, <4>1, <4>2 DEF ServerHis, S!ServerState
    <3>5. u = ServerHis(s, p, d, no, n, w)
      <4>. HIDE DEF t, n, w, a, d, u, no
      <4>. QED  BY <1>0, <3>1, <3>4, ServerHisTwice
    <3>6. u.his[p] = d /\ u.out = no /\ u.not42 = n /\ u.answered = w
      <4>. HIDE DEF u, d, no, n, w
      <4>. QED  BY <1>0, <3>5 DEF ServerHis, S!ServerState
    <3>7. r = [u EXCEPT !.his[p] = Noted(u.his[p], TRUE)]
      BY <1>0, <1>6, SameFsm DEF S!WillOption
    <3>8. r = ServerHis(u, p, x2, no, n, w)
      <4>1. r = [u EXCEPT !.his[p] = x2]
        BY <3>6, <3>7
      <4>. HIDE DEF x2, u, d, no, n, w, r, a
      <4>. QED  BY <1>0, <3>5, <3>6, <4>1 DEF ServerHis, S!ServerState
    <3>. HIDE DEF x2, u, d, no, n, w, r, a
    <3>9. r = ServerHis(s, p, x2, no, n, w)
      BY <1>0, <3>5, <3>8, ServerHisTwice
    <3>. QED  BY <3>9 DEF r
  <2>3. Says(s.out, no, x2.want, "DO", "DONT", p)
    <3>. HIDE DEF x2
    <3>. QED  BY <2>1, SaysWant
  <2>4. Heeds(x, TRUE, x2, s.out, no, p)
    BY <1>h, <2>1, <2>3, Zenon
  <2>. HIDE DEF x2, r, n, w, no
  <2>5. HisAnswer(s, p, TRUE, r, x2, no, n, w)
    BY <1>s, <2>1, <2>2, <2>4, Zenon DEF HisAnswer
  <2>. QED  BY <1>0, <1>1, <1>a, <2>1, <2>5, Zenon DEF r
<1>7. CASE a.resp = 0 /\ a.want /\ ~(p = "ECHO" /\ a.state)
  <2>. DEFINE x2 == Noted(a, TRUE)
  <2>1. x2 \in Cell /\ x2.state /\ x2.want = x.want /\ HisOK(x2)
    BY <1>0, NotedCell, HisOKOn
  <2>2. r = ServerHis(s, p, x2, s.out, n, w)
    <3>. DEFINE t == [s EXCEPT !.his[p] = a, !.not42 = n]
    <3>1. t = ServerHis(s, p, a, s.out, n, w)
      BY <1>0 DEF S!ServerState, ServerHis
    <3>2. t.his[p] = a /\ t.out = s.out /\ t.not42 = n /\ t.answered = w
      BY <1>0 DEF S!ServerState
    <3>3. p = "ECHO" => S!SendDont(t, p) = t
      <4>1. p = "ECHO" => NothingToAsk(a, FALSE)
        <5>. HIDE DEF a
        <5>. QED  BY <1>0, <1>7 DEF NothingToAsk, Cell
      <4>. HIDE DEF t, a
      <4>. QED  BY <3>2, <4>1, SameFsm DEF S!SendDont
    <3>4. r = [t EXCEPT !.his[p] = x2]
      <4>1. r = [t EXCEPT !.his[p] = Noted(t.his[p], TRUE)]
        <5>1. r = [(IF p = "ECHO" THEN S!SendDont(t, p) ELSE t) EXCEPT
                      !.his[p] = Noted((IF p = "ECHO" THEN S!SendDont(t, p) ELSE t).his[p], TRUE)]
          BY <1>7, SameFsm DEF S!WillOption
        <5>. HIDE DEF t, r
        <5>. QED  BY <3>3, <5>1
      <4>. HIDE DEF t, r
      <4>. QED  BY <3>2, <4>1
    <3>. HIDE DEF x2, t, n, w, r, a
    <3>5. r = ServerHis(t, p, x2, s.out, n, w)
      BY <1>0, <3>1, <3>2, <3>4 DEF ServerHis, S!ServerState
    <3>6. r = ServerHis(s, p, x2, s.out, n, w)
      BY <1>0, <3>1, <3>5, ServerHisTwice
    <3>. QED  BY <3>6 DEF r
  <2>3. x.want
    BY <1>0, <1>7
  <2>4. Heeds(x, TRUE, x2, s.out, s.out, p)
    BY <1>h, <2>1, <2>3, Zenon
  <2>. HIDE DEF x2, r, n, w
  <2>5. HisAnswer(s, p, TRUE, r, x2, s.out, n, w)
    BY <1>s, <2>1, <2>2, <2>4, Zenon DEF HisAnswer
  <2>. QED  BY <1>0, <1>a, <2>1, <2>5, Zenon DEF r
<1>. QED  BY <1>2, <1>3, <1>4, <1>5, <1>6, <1>7

LEMMA ServerWont ==
    ASSUME NEW s, Fine(s), NEW p \in Option
    PROVE  \E x2 \in Cell, q \in Seq(Sayable), n \in BOOLEAN, w \in SUBSET S!Queried :
               HisAnswer(s, p, FALSE, S!WontOption(s, p), x2, q, n, w)
<1>. DEFINE x == s.his[p]
            a == Answered(x, FALSE)
            d == [a EXCEPT !.want = FALSE]
            r == S!WontOption(s, p)
            n == s.not42 \/ p = "ECHO"
            w == s.answered \cup ({p} \cap S!Queried)
            no == Append(s.out, [cmd |-> "DONT", opt |-> p])
<1>0. /\ s \in S!ServerState /\ x \in Cell /\ a \in Cell /\ n \in BOOLEAN /\ w \in SUBSET S!Queried
      /\ s.not42 \in BOOLEAN /\ s.answered \in SUBSET S!Queried
      /\ HisOK(x) /\ s.out \in Seq(Sayable) /\ a.state = x.state /\ a.want = x.want
  BY SameSets, AnsweredCell DEF Fine, S!ServerState, Answered, Cell
<1>1. no \in Seq(Sayable)
  BY <1>0, SayableTold DEF Command
<1>s. Spoke(s.out, s.out, "DO", "DONT", p) /\ Spoke(s.out, no, "DO", "DONT", p)
  BY Saying, Zenon
<1>d. d \in Cell /\ d.state = a.state /\ ~d.want /\ d.want \in BOOLEAN /\ d.resp = a.resp
  BY <1>0 DEF Cell
<1>h. ASSUME NEW x2 \in Cell, x.state, x2.state,
             NEW q, \/ Says(s.out, q, x2.want, "DO", "DONT", p)
                    \/ q = s.out /\ x2.want = x.want
      PROVE  Heeds(x, FALSE, x2, s.out, q, p)
  BY <1>h, Zenon DEF Heeds
<1>g. ASSUME NEW x2, NEW q, ~x.state, Turn(x, FALSE, x2, s.out, q, "DO", "DONT", p)
      PROVE  Heeds(x, FALSE, x2, s.out, q, p)
  BY <1>g, Zenon DEF Heeds
<1>2. CASE a.resp # 0 \/ ~a.want
  <2>1. r = ServerHis(s, p, a, s.out, s.not42, s.answered)
    BY <1>0, <1>2, SameFsm DEF S!WontOption, ServerHis, S!ServerState
  <2>2. CASE x.state
    <3>1. HisOK(a)
      BY <1>0, <2>2, HisOKOn
    <3>2. Heeds(x, FALSE, a, s.out, s.out, p)
      BY <1>0, <1>h, <2>2, Zenon
    <3>. HIDE DEF r, a
    <3>3. HisAnswer(s, p, FALSE, r, a, s.out, s.not42, s.answered)
      BY <1>s, <2>1, <3>1, <3>2, Zenon DEF HisAnswer
    <3>. QED  BY <1>0, <3>3, Zenon DEF r
  <2>3. CASE ~x.state
    <3>1. a.resp = 0 /\ ~a.want
      BY <1>0, <1>2, <2>3, HisOKAnswered
    <3>2. HisOK(a)
      BY <1>0, <3>1 DEF HisOK
    <3>3. a = Noted(a, FALSE) /\ a.want = FALSE
      BY <1>0, <2>3, <3>1 DEF Noted, Cell
    <3>4. Turn(x, FALSE, a, s.out, s.out, "DO", "DONT", p)
      BY <3>3, Zenon DEF Turn
    <3>5. Heeds(x, FALSE, a, s.out, s.out, p)
      BY <1>g, <2>3, <3>4, Zenon
    <3>. HIDE DEF r, a
    <3>6. HisAnswer(s, p, FALSE, r, a, s.out, s.not42, s.answered)
      BY <1>s, <2>1, <3>2, <3>5, Zenon DEF HisAnswer
    <3>. QED  BY <1>0, <3>6, Zenon DEF r
  <2>. QED  BY <2>2, <2>3
<1>3. CASE a.resp = 0 /\ a.want /\ a.state /\ p # "TM"
  <2>1. HisOK(d)
    BY <1>3, <1>d DEF HisOK
  <2>2. r = ServerHis(s, p, d, no, n, w)
    BY <1>0, <1>3, SameFsm DEF S!WontOption, ServerHis, S!ServerState, S!Tell
  <2>3. Says(s.out, no, d.want, "DO", "DONT", p)
    <3>. HIDE DEF d
    <3>. QED  BY <1>d, SaysWant
  <2>4. Heeds(x, FALSE, d, s.out, no, p)
    BY <1>0, <1>3, <1>d, <1>h, <2>3, Zenon
  <2>. HIDE DEF r, a, d, n, w, no
  <2>5. HisAnswer(s, p, FALSE, r, d, no, n, w)
    BY <1>s, <2>1, <2>2, <2>4, Zenon DEF HisAnswer
  <2>. QED  BY <1>0, <1>1, <1>d, <2>5, Zenon DEF r
<1>4. CASE a.resp = 0 /\ a.want /\ ~(a.state /\ p # "TM")
  <2>1. HisOK(d)
    BY <1>4, <1>d DEF HisOK
  <2>2. r = ServerHis(s, p, d, s.out, n, w)
    BY <1>0, <1>4, SameFsm DEF S!WontOption, ServerHis, S!ServerState
  <2>3. ASSUME p # "TM"
        PROVE  Heeds(x, FALSE, d, s.out, s.out, p)
    <3>1. ~x.state /\ a.resp = 0 /\ a.want /\ ~a.state
      BY <1>0, <1>4, <2>3
    <3>2. d = Accepted(a, FALSE)
      BY <1>0, <3>1 DEF Accepted, Cell
    <3>3. Turn(x, FALSE, d, s.out, s.out, "DO", "DONT", p)
      BY <3>1, <3>2, Zenon DEF Turn
    <3>. QED  BY <1>g, <3>1, <3>3, Zenon
  <2>. HIDE DEF r, a, d, n, w
  <2>5. HisAnswer(s, p, FALSE, r, d, s.out, n, w)
    BY <1>s, <2>1, <2>2, <2>3, Zenon DEF HisAnswer
  <2>. QED  BY <1>0, <1>d, <2>5, Zenon DEF r
<1>. QED  BY <1>2, <1>3, <1>4

LEMMA ServerDo ==
    ASSUME NEW s, Fine(s), NEW p \in Option
    PROVE  \E x2 \in Cell, q \in Seq(Sayable), g \in BOOLEAN, f \in S!Phase :
               MyAnswer(s, p, TRUE, S!DoOption(s, p), x2, q, g, f)
<1>. DEFINE x == s.my[p]
            a == Answered(x, TRUE)
            r == S!DoOption(s, p)
            g == s.turn_on_sga /\ p # "SGA"
            yes == Append(s.out, [cmd |-> "WILL", opt |-> p])
            no == Append(s.out, [cmd |-> "WONT", opt |-> p])
<1>0. /\ s \in S!ServerState /\ x \in Cell /\ a \in Cell /\ g \in BOOLEAN /\ s.phase \in S!Phase
      /\ s.turn_on_sga \in BOOLEAN /\ "exit" \in S!Phase
      /\ Settled(x) /\ s.out \in Seq(Sayable) /\ a.state = x.state /\ a.want = x.want
  BY SameSets, AnsweredCell DEF Fine, S!ServerState, Answered, Cell, S!Phase
<1>1. no \in Seq(Sayable) /\ yes \in Seq(Sayable)
  BY <1>0, SayableTold DEF Command
<1>s. /\ Spoke(s.out, s.out, "WILL", "WONT", p) /\ Spoke(s.out, no, "WILL", "WONT", p)
      /\ Spoke(s.out, yes, "WILL", "WONT", p)
      /\ Says(s.out, yes, TRUE, "WILL", "WONT", p) /\ Says(s.out, no, FALSE, "WILL", "WONT", p)
  BY Saying, Zenon
<1>2. CASE a.resp # 0 \/ a.want
  <2>. DEFINE x2 == Noted(a, TRUE)
  <2>1. x2 \in Cell /\ Settled(x2)
    BY <1>0, <1>2, NotedCell DEF Settled, Cell
  <2>2. r = ServerMy(s, p, x2, s.out, s.turn_on_sga, s.phase)
    BY <1>0, <1>2, SameFsm DEF S!DoOption, ServerMy, S!ServerState
  <2>3. a.resp # 0 \/ a.want = TRUE
    BY <1>2
  <2>4. Turn(x, TRUE, x2, s.out, s.out, "WILL", "WONT", p)
    BY <2>3, Zenon DEF Turn
  <2>. HIDE DEF x2, r
  <2>5. MyAnswer(s, p, TRUE, r, x2, s.out, s.turn_on_sga, s.phase)
    BY <1>s, <2>1, <2>2, <2>4, Zenon DEF MyAnswer
  <2>. QED  BY <1>0, <2>1, <2>5, Zenon DEF r
<1>3. CASE a.resp = 0 /\ ~a.want /\ p \in S!IMay
  <2>. DEFINE x2 == Accepted(a, TRUE)
  <2>0. p \notin {"TM", "LOGOUT"}
    BY <1>3 DEF S!IMay
  <2>1. x2 \in Cell /\ Settled(x2)
    BY <1>0, AcceptedCell DEF Settled
  <2>2. r = ServerMy(s, p, x2, yes, g, s.phase)
    BY <1>0, <1>3, <2>0, SameFsm DEF S!DoOption, ServerMy, S!ServerState, S!Tell
  <2>3. a.resp = 0 /\ a.want # TRUE
    BY <1>3
  <2>4. Turn(x, TRUE, x2, s.out, yes, "WILL", "WONT", p)
    BY <1>s, <2>3, Zenon DEF Turn
  <2>. HIDE DEF x2, r, yes, g
  <2>5. MyAnswer(s, p, TRUE, r, x2, yes, g, s.phase)
    BY <1>s, <2>1, <2>2, <2>4, Zenon DEF MyAnswer
  <2>. QED  BY <1>0, <1>1, <2>1, <2>5, Zenon DEF r
<1>4. CASE a.resp = 0 /\ ~a.want /\ p = "TM"
  <2>. DEFINE x2 == Accepted(a, FALSE)
  <2>1. x2 \in Cell /\ Settled(x2)
    BY <1>0, AcceptedCell DEF Settled
  <2>2. r = ServerMy(s, p, x2, yes, s.turn_on_sga, s.phase)
    BY <1>0, <1>4, SameFsm DEF S!DoOption, ServerMy, S!ServerState, S!Tell, S!IMay
  <2>. HIDE DEF x2, r, yes
  <2>5. MyAnswer(s, p, TRUE, r, x2, yes, s.turn_on_sga, s.phase)
    BY <1>4, <1>s, <2>1, <2>2 DEF MyAnswer
  <2>. QED  BY <1>0, <1>1, <2>1, <2>5, Zenon DEF r
<1>5. CASE a.resp = 0 /\ ~a.want /\ p = "LOGOUT"
  <2>. DEFINE x2 == Accepted(a, TRUE)
  <2>1. x2 \in Cell /\ Settled(x2)
    BY <1>0, AcceptedCell DEF Settled
  <2>2. r = ServerMy(s, p, x2, yes, s.turn_on_sga, "exit")
    <3>1. p \notin S!IMay /\ p # "TM"
      BY <1>5 DEF S!IMay
    <3>2. r = S!Tell([[s EXCEPT !.my[p] = a] EXCEPT !.my[p] = x2, !.phase = "exit"], "WILL", p)
      BY <1>0, <1>5, <3>1, SameFsm DEF S!DoOption
    <3>. HIDE DEF a, x2, r
    <3>. QED  BY <1>0, <3>2 DEF S!Tell, ServerMy, S!ServerState
  <2>. HIDE DEF x2, r, yes
  <2>5. MyAnswer(s, p, TRUE, r, x2, yes, s.turn_on_sga, "exit")
    BY <1>5, <1>s, <2>1, <2>2 DEF MyAnswer
  <2>. QED  BY <1>0, <1>1, <2>1, <2>5, Zenon DEF r
<1>6. CASE a.resp = 0 /\ ~a.want /\ p \notin S!IMay \cup {"TM", "LOGOUT"}
  <2>. DEFINE x2 == Refused(a, TRUE)
  <2>1. x2 \in Cell /\ Settled(x2)
    <3>1. x2 \in Cell /\ x2.resp = a.resp + 1
      BY <1>0, RefusedCell
    <3>2. a.resp = 0
      BY <1>6, Zenon
    <3>3. x2.resp # 0
      <4>. HIDE DEF x2, a
      <4>. QED  BY <3>1, <3>2
    <3>. QED  BY <3>1, <3>3, Zenon DEF Settled
  <2>2. r = ServerMy(s, p, x2, no, s.turn_on_sga, s.phase)
    BY <1>0, <1>6, SameFsm DEF S!DoOption, ServerMy, S!ServerState, S!Tell
  <2>3. a.resp = 0 /\ ~a.want
    BY <1>6
  <2>4. Turn(x, TRUE, x2, s.out, no, "WILL", "WONT", p)
    BY <1>s, <2>3, Zenon DEF Turn
  <2>. HIDE DEF x2, r, no
  <2>5. MyAnswer(s, p, TRUE, r, x2, no, s.turn_on_sga, s.phase)
    BY <1>s, <2>1, <2>2, <2>4, Zenon DEF MyAnswer
  <2>. QED  BY <1>0, <1>1, <2>1, <2>5, Zenon DEF r
<1>. QED  BY <1>2, <1>3, <1>4, <1>5, <1>6

\* dontoption, once it is clear that the client wants a change.
DontAnswered(p, a, u) ==
    LET v == IF a.state THEN S!Tell(u, "WONT", p) ELSE u
        w == [v EXCEPT !.turn_on_sga = ~v.turn_on_sga]
    IN  IF p # "SGA" THEN v ELSE IF w.turn_on_sga THEN S!SendWill(w, p) ELSE w

LEMMA DontOptionAnswered ==
    ASSUME NEW s, NEW p, ~(S!Answered(s.my[p], FALSE).resp # 0 \/ ~S!Answered(s.my[p], FALSE).want)
    PROVE  S!DontOption(s, p)
             = LET a == S!Answered(s.my[p], FALSE)
                   t == [s EXCEPT !.my[p] = S!Noted(a, FALSE)]
               IN  DontAnswered(p, a, [t EXCEPT !.my[p] = S!Accepted(a, FALSE)])
BY DEF S!DontOption, DontAnswered

LEMMA ServerMyFlag ==
    ASSUME NEW s \in S!ServerState, NEW p, NEW x2, NEW q, NEW g, NEW f
    PROVE  /\ ServerMy(s, p, x2, q, g, f).turn_on_sga = g
           /\ \A h : [ServerMy(s, p, x2, q, g, f) EXCEPT !.turn_on_sga = h] = ServerMy(s, p, x2, q, h, f)
BY DEF ServerMy, S!ServerState

\* dontoption may follow its answer about SGA with an offer.
LEMMA ServerDont ==
    ASSUME NEW s, Fine(s), NEW p \in Option
    PROVE  \E r, x2, q, g, f :
               /\ x2 \in Cell /\ q \in Seq(Sayable) /\ g \in BOOLEAN /\ f \in S!Phase
               /\ MyAnswer(s, p, FALSE, r, x2, q, g, f)
               /\ S!DontOption(s, p) \in {r, S!SendWill(r, p)}
<1>. DEFINE x == s.my[p]
            a == Answered(x, FALSE)
            d == S!DontOption(s, p)
            g == s.turn_on_sga
            f == s.phase
            no == Append(s.out, [cmd |-> "WONT", opt |-> p])
            z == Accepted(a, FALSE)
<1>0. /\ s \in S!ServerState /\ x \in Cell /\ a \in Cell /\ g \in BOOLEAN
      /\ f \in S!Phase /\ Settled(x) /\ s.out \in Seq(Sayable)
  BY SameSets, AnsweredCell DEF Fine, S!ServerState
<1>n. (~g) \in BOOLEAN
  BY <1>0
<1>1. no \in Seq(Sayable)
  BY <1>0, SayableTold DEF Command
<1>s. /\ Spoke(s.out, s.out, "WILL", "WONT", p) /\ Spoke(s.out, no, "WILL", "WONT", p)
      /\ Says(s.out, no, FALSE, "WILL", "WONT", p)
  BY Saying, Zenon
<1>z. z \in Cell /\ Settled(z)
  BY <1>0, AcceptedCell DEF Settled
<1>a. ASSUME NEW r, NEW x2 \in Cell, Settled(x2), NEW q \in Seq(Sayable), NEW h \in BOOLEAN,
             r = ServerMy(s, p, x2, q, h, f), Spoke(s.out, q, "WILL", "WONT", p),
             Turn(x, FALSE, x2, s.out, q, "WILL", "WONT", p), d \in {r, S!SendWill(r, p)}
      PROVE  \E rr, xx2, qq, gg, ff :
                /\ xx2 \in Cell /\ qq \in Seq(Sayable) /\ gg \in BOOLEAN /\ ff \in S!Phase
                /\ MyAnswer(s, p, FALSE, rr, xx2, qq, gg, ff)
                /\ d \in {rr, S!SendWill(rr, p)}
  <2>1. MyAnswer(s, p, FALSE, r, x2, q, h, f)
    BY <1>a, Zenon DEF MyAnswer
  <2>. HIDE DEF d, f
  <2>. QED  BY <1>0, <1>a, <2>1, Zenon
<1>2. CASE a.resp # 0 \/ ~a.want
  <2>. DEFINE x2 == Noted(a, FALSE)
  <2>1. x2 \in Cell /\ Settled(x2)
    BY <1>0, <1>2, NotedCell DEF Settled, Cell
  <2>2. d = ServerMy(s, p, x2, s.out, g, f)
    BY <1>0, <1>2, SameFsm DEF S!DontOption, ServerMy, S!ServerState
  <2>3. a.resp # 0 \/ a.want = FALSE
    BY <1>0, <1>2 DEF Cell
  <2>4. Turn(x, FALSE, x2, s.out, s.out, "WILL", "WONT", p)
    BY <2>3, Zenon DEF Turn
  <2>5. d \in {d, S!SendWill(d, p)}
    OBVIOUS
  <2>. HIDE DEF x2, d, g, f
  <2>. QED  BY <1>0, <1>a, <1>s, <2>1, <2>2, <2>4, <2>5, Zenon DEF d
<1>t. [[s EXCEPT !.my[p] = Noted(a, FALSE)] EXCEPT !.my[p] = z] = [s EXCEPT !.my[p] = z]
  BY <1>0 DEF S!ServerState
<1>3. CASE a.resp = 0 /\ a.want /\ a.state
  <2>. DEFINE v == S!Tell([s EXCEPT !.my[p] = z], "WONT", p)
              w == [v EXCEPT !.turn_on_sga = ~v.turn_on_sga]
  <2>1. d = IF p # "SGA" THEN v ELSE IF w.turn_on_sga THEN S!SendWill(w, p) ELSE w
    <3>1. ~(a.resp # 0 \/ ~a.want)
      BY <1>3, Zenon
    <3>2. a = S!Answered(x, FALSE) /\ z = S!Accepted(a, FALSE) /\ Noted(a, FALSE) = S!Noted(a, FALSE)
      BY SameFsm
    <3>3. d = DontAnswered(p, a, [[s EXCEPT !.my[p] = Noted(a, FALSE)] EXCEPT !.my[p] = z])
      BY <3>1, <3>2, DontOptionAnswered
    <3>4. d = DontAnswered(p, a, [s EXCEPT !.my[p] = z])
      <4>. HIDE DEF a, z, d
      <4>. QED  BY <1>t, <3>3
    <3>. QED  BY <1>3, <3>4 DEF DontAnswered
  <2>2. v = ServerMy(s, p, z, no, g, f)
    BY <1>0 DEF S!Tell, ServerMy, S!ServerState
  <2>3. w = ServerMy(s, p, z, no, ~g, f)
    <3>1. v.turn_on_sga = g /\ \A h : [v EXCEPT !.turn_on_sga = h] = ServerMy(s, p, z, no, h, f)
      <4>. HIDE DEF v, z, g, f, no
      <4>. QED  BY <1>0, <2>2, ServerMyFlag
    <3>. HIDE DEF v, z, g, f, no
    <3>. QED  BY <3>1
  <2>4. a.resp = 0 /\ a.want # FALSE
    BY <1>3
  <2>5. Turn(x, FALSE, z, s.out, no, "WILL", "WONT", p)
    BY <1>s, <2>4, Zenon DEF Turn
  <2>. HIDE DEF v, w
  <2>6. d \in {v, S!SendWill(v, p)} \/ d \in {w, S!SendWill(w, p)}
    BY <2>1
  <2>. HIDE DEF z, d, g, f, no
  <2>. QED  BY <1>0, <1>1, <1>a, <1>n, <1>s, <1>z, <2>2, <2>3, <2>5, <2>6, Zenon DEF d
<1>4. CASE a.resp = 0 /\ a.want /\ ~a.state
  <2>. DEFINE v == [s EXCEPT !.my[p] = z]
              w == [v EXCEPT !.turn_on_sga = ~v.turn_on_sga]
  <2>1. d = IF p # "SGA" THEN v ELSE IF w.turn_on_sga THEN S!SendWill(w, p) ELSE w
    <3>1. ~(a.resp # 0 \/ ~a.want)
      BY <1>4, Zenon
    <3>2. a = S!Answered(x, FALSE) /\ z = S!Accepted(a, FALSE) /\ Noted(a, FALSE) = S!Noted(a, FALSE)
      BY SameFsm
    <3>3. d = DontAnswered(p, a, [[s EXCEPT !.my[p] = Noted(a, FALSE)] EXCEPT !.my[p] = z])
      BY <3>1, <3>2, DontOptionAnswered
    <3>4. d = DontAnswered(p, a, [s EXCEPT !.my[p] = z])
      <4>. HIDE DEF a, z, d
      <4>. QED  BY <1>t, <3>3
    <3>. QED  BY <1>4, <3>4 DEF DontAnswered
  <2>2. v = ServerMy(s, p, z, s.out, g, f)
    BY <1>0 DEF ServerMy, S!ServerState
  <2>3. w = ServerMy(s, p, z, s.out, ~g, f)
    <3>1. v.turn_on_sga = g /\ \A h : [v EXCEPT !.turn_on_sga = h] = ServerMy(s, p, z, s.out, h, f)
      <4>. HIDE DEF v, z, g, f
      <4>. QED  BY <1>0, <2>2, ServerMyFlag
    <3>. HIDE DEF v, z, g, f
    <3>. QED  BY <3>1
  <2>4. a.resp = 0 /\ a.want /\ ~a.state
    BY <1>4
  <2>5. Turn(x, FALSE, z, s.out, s.out, "WILL", "WONT", p)
    BY <2>4, Zenon DEF Turn
  <2>. HIDE DEF v, w
  <2>6. d \in {v, S!SendWill(v, p)} \/ d \in {w, S!SendWill(w, p)}
    BY <2>1
  <2>. HIDE DEF z, d, g, f
  <2>. QED  BY <1>0, <1>a, <1>n, <1>s, <1>z, <2>2, <2>3, <2>5, <2>6, Zenon DEF d
<1>. QED  BY <1>2, <1>3, <1>4

-----------------------------------------------------------------------------
(* What telnetd says of its own accord.                                    *)

\* Only flags of telnetd's change.
LEMMA JointServerAside ==
    ASSUME NEW c, NEW s, NEW on, Joint(c, s, on), NEW s2, s2 \in S!ServerState,
           Still(s, s2), s2.out \in Seq(Sayable), Aside(s.out, s2.out)
    PROVE  Joint(c, s2, on)
<1>1. Good(c) /\ Fine(s) /\ Bound(c, s) /\ s \in S!ServerState /\ c.connected = on
  BY DEF Joint, Fine
<1>2. Side(c) /\ Side(s) /\ Still(c, c) /\ Aside(c.out, c.out)
  BY <1>1, SideGood, SideServer, AsideSame DEF Still
<1>3. Bound(c, s2)
  BY <1>1, <1>2, BoundAside
<1>4. Fine(s2)
  BY <1>1 DEF Fine, Still
<1>. QED  BY <1>1, <1>3, <1>4 DEF Joint

LEMMA JointServerFlags ==
    ASSUME NEW c, NEW s, NEW on, Joint(c, s, on), NEW b \in BOOLEAN, NEW f \in S!Phase,
           NEW w \in SUBSET S!Queried
    PROVE  /\ Joint(c, [s EXCEPT !.chunk = b], on)
           /\ Joint(c, [s EXCEPT !.answered = w], on)
           /\ Joint(c, S!At(s, f), on)
<1>1. s \in S!ServerState /\ s.out \in Seq(Sayable)
  BY DEF Joint, Fine
<1>2. ASSUME NEW s2, s2 \in S!ServerState, Still(s, s2), s2.out = s.out
      PROVE  Joint(c, s2, on)
  BY <1>1, <1>2, AsideSame, JointServerAside
<1>3. /\ [s EXCEPT !.chunk = b] \in S!ServerState /\ Still(s, [s EXCEPT !.chunk = b])
      /\ [s EXCEPT !.chunk = b].out = s.out
  BY <1>1 DEF S!ServerState, Still
<1>4. /\ [s EXCEPT !.answered = w] \in S!ServerState /\ Still(s, [s EXCEPT !.answered = w])
      /\ [s EXCEPT !.answered = w].out = s.out
  BY <1>1 DEF S!ServerState, Still
<1>5. S!At(s, f) \in S!ServerState /\ Still(s, S!At(s, f)) /\ S!At(s, f).out = s.out
  BY <1>1 DEF S!ServerState, Still, S!At
<1>. QED  BY <1>2, <1>3, <1>4, <1>5, Zenon

LEMMA JointServerTell ==
    ASSUME NEW c, NEW s, NEW on, Joint(c, s, on), NEW p \in Option
    PROVE  Joint(c, S!Tell(s, "SB", p), on)
<1>. DEFINE m == [cmd |-> "SB", opt |-> p]
            s2 == S!Tell(s, "SB", p)
<1>1. s \in S!ServerState /\ s.out \in Seq(Sayable) /\ s.out \in Seq(Message)
  BY SameSets DEF Joint, Fine, S!ServerState
<1>2. Append(s.out, m) \in Seq(Sayable) /\ Append(s.out, m) \in Seq(Message)
      /\ m \in Message /\ m.cmd = "SB"
  BY <1>1, SayableTold DEF Message
<1>3. Aside(s.out, Append(s.out, m))
  <2>. HIDE DEF m
  <2>. QED  BY <1>1, <1>2, AsideMessage
<1>4. s2 \in S!ServerState /\ Still(s, s2) /\ s2.out = Append(s.out, m)
  <2>. HIDE DEF m
  <2>1. s2 = [s EXCEPT !.out = Append(s.out, m)]
    BY DEF m, S!Tell
  <2>. QED  BY <1>1, <1>2, <2>1, SameSets DEF S!ServerState, Still
<1>. HIDE DEF m, s2
<1>5. Joint(c, s2, on)
  BY <1>2, <1>3, <1>4, JointServerAside
<1>. QED  BY <1>5 DEF s2

LEMMA JointServerSendDo ==
    ASSUME NEW c, NEW s, NEW on, Joint(c, s, on), NEW p, p \notin {"TM", "LINEMODE"}
    PROVE  Joint(c, S!SendDo(s, p), on)
<1>1. CASE p \notin Option \/ NothingToAsk(s.his[p], TRUE)
  <2>1. S!SendDo(s, p) = s
    BY <1>1, SameFsm DEF S!SendDo
  <2>. QED  BY <2>1
<1>2. CASE p \in Option /\ ~NothingToAsk(s.his[p], TRUE)
  <2>. DEFINE x == s.his[p]
              d == Asked(x, TRUE)
              yes == Append(s.out, [cmd |-> "DO", opt |-> p])
              s2 == ServerHis(s, p, d, yes, s.not42, s.answered)
  <2>1. /\ Good(c) /\ Fine(s) /\ Bound(c, s) /\ s \in S!ServerState /\ c.connected = on
        /\ x \in Cell /\ HisOK(x) /\ s.not42 \in BOOLEAN /\ s.answered \in SUBSET S!Queried
        /\ s.out \in Seq(Sayable) /\ p \in Option
    BY <1>2, SameSets DEF Joint, Fine, S!ServerState
  <2>2. ~x.want /\ x.want # TRUE /\ (x.resp # 0 \/ ~x.state)
    BY <1>2, <2>1 DEF NothingToAsk, Cell
  <2>3. d \in Cell /\ HisOK(d)
    <3>1. d \in Cell /\ d.want /\ d.state = x.state /\ d.resp = x.resp + 1
      BY <2>1, AskedCell DEF Asked, Cell
    <3>2. CASE x.state
      <4>1. d.state
        BY <3>1, <3>2
      <4>. QED  BY <3>1, <4>1, HisOKOn, Zenon
    <3>3. CASE ~x.state
      <4>1. x.resp = 0
        BY <2>1, <2>2, <3>3 DEF HisOK
      <4>2. d.resp = 1
        <5>. HIDE DEF d, x
        <5>. QED  BY <3>1, <4>1
      <4>. HIDE DEF d
      <4>. QED  BY <3>1, <4>2, Zenon DEF HisOK
    <3>. QED  BY <3>1, <3>2, <3>3
  <2>4. yes \in Seq(Sayable)
    BY <2>1, SayableTold DEF Command
  <2>5. S!SendDo(s, p) = s2
    <3>1. (p # "TM") = TRUE
      OBVIOUS
    <3>2. S!SendDo(s, p) = S!Tell([s EXCEPT !.his[p] = d], "DO", p)
      BY <1>2, <3>1, SameFsm DEF S!SendDo
    <3>. HIDE DEF d
    <3>. QED  BY <2>1, <3>2 DEF S!Tell, ServerHis, S!ServerState
  <2>. HIDE DEF d, yes
  <2>6. Fine(s2) /\ s2.my = s.my /\ s2.out = yes /\ s2.his[p] = d /\ Others(s.his, s2.his, p)
    BY <2>1, <2>3, <2>4, FineHis
  <2>. HIDE DEF s2
  <2>7. Side(c) /\ Side(s)
    BY <2>1, SideGood, SideServer
  <2>8. Says(s.out, s2.out, TRUE, "DO", "DONT", p)
    BY <2>6, Saying, Zenon DEF yes
  <2>9. s2.his[p] = Asked(s.his[p], TRUE) /\ s.his[p].want # TRUE
    BY <2>2, <2>6, Zenon DEF d
  <2>. HIDE DEF x
  <2>10. Bound(c, s2)
    BY <2>1, <2>6, <2>7, <2>8, <2>9, BoundServerAsksHim, Zenon
  <2>. QED  BY <2>1, <2>5, <2>6, <2>10 DEF Joint
<1>. QED  BY <1>1, <1>2

LEMMA JointServerSendWill ==
    ASSUME NEW c, NEW s, NEW on, Joint(c, s, on), NEW p
    PROVE  Joint(c, S!SendWill(s, p), on)
<1>1. CASE p \notin Option \/ NothingToAsk(s.my[p], TRUE)
  <2>1. S!SendWill(s, p) = s
    BY <1>1, SameFsm DEF S!SendWill
  <2>. QED  BY <2>1
<1>2. CASE p \in Option /\ ~NothingToAsk(s.my[p], TRUE)
  <2>. DEFINE x == s.my[p]
              d == Asked(x, TRUE)
              yes == Append(s.out, [cmd |-> "WILL", opt |-> p])
              s2 == ServerMy(s, p, d, yes, s.turn_on_sga, s.phase)
  <2>1. /\ Good(c) /\ Fine(s) /\ Bound(c, s) /\ s \in S!ServerState /\ c.connected = on
        /\ x \in Cell /\ s.turn_on_sga \in BOOLEAN /\ s.phase \in S!Phase
        /\ s.out \in Seq(Sayable) /\ p \in Option
    BY <1>2, SameSets DEF Joint, Fine, S!ServerState
  <2>2. x.want # TRUE
    BY <1>2 DEF NothingToAsk
  <2>3. d \in Cell /\ Settled(d)
    BY <2>1, GoodAsked DEF GoodCell
  <2>4. yes \in Seq(Sayable)
    BY <2>1, SayableTold DEF Command
  <2>5. S!SendWill(s, p) = s2
    <3>1. S!SendWill(s, p) = S!Tell([s EXCEPT !.my[p] = d], "WILL", p)
      BY <1>2, SameFsm DEF S!SendWill
    <3>. HIDE DEF d
    <3>. QED  BY <2>1, <3>1 DEF S!Tell, ServerMy, S!ServerState
  <2>. HIDE DEF d, yes
  <2>6. Fine(s2) /\ s2.his = s.his /\ s2.out = yes /\ s2.my[p] = d /\ Others(s.my, s2.my, p)
    BY <2>1, <2>3, <2>4, FineMy
  <2>. HIDE DEF s2
  <2>7. Side(c) /\ Side(s)
    BY <2>1, SideGood, SideServer
  <2>8. Says(s.out, s2.out, TRUE, "WILL", "WONT", p)
    BY <2>6, Saying, Zenon DEF yes
  <2>9. s2.my[p] = Asked(s.my[p], TRUE) /\ s.my[p].want # TRUE
    BY <2>2, <2>6, Zenon DEF d
  <2>. HIDE DEF x
  <2>10. Bound(c, s2)
    BY <2>1, <2>6, <2>7, <2>8, <2>9, BoundServerAsksMyself, Zenon
  <2>. QED  BY <2>1, <2>5, <2>6, <2>10 DEF Joint
<1>. QED  BY <1>1, <1>2

-----------------------------------------------------------------------------
(* telnetd receives.                                                       *)

LEMMA JointServerReceive ==
    ASSUME NEW c, NEW s, NEW on, Joint(c, s, on), c.out # << >>
    PROVE  Joint(Took(c), S!Receive(s, Head(c.out)), on)
<1>. DEFINE m == Head(c.out)
            p == m.opt
<1>1. m \in Message /\ p \in Option /\ m.cmd \in {"DO", "DONT", "WILL", "WONT", "SB"}
  <2>1. m \in Message
    BY DEF Joint, Good, ClientState
  <2>. HIDE DEF m
  <2>. QED  BY <2>1 DEF Message, Command
<1>2. Fine(s) /\ Good(c) /\ Bound(c, s) /\ c.connected = on /\ s \in S!ServerState
      /\ c.out \in Seq(Message) /\ s.out \in Seq(Sayable)
  BY DEF Joint, Fine, Good, ClientState
<1>. HIDE DEF m, p
<1>3. /\ m.cmd = "WILL" => Comes(c.out, TRUE, "WILL", "WONT", p)
      /\ m.cmd = "WONT" => Comes(c.out, FALSE, "WILL", "WONT", p)
      /\ m.cmd = "DO"   => Comes(c.out, TRUE, "DO", "DONT", p)
      /\ m.cmd = "DONT" => Comes(c.out, FALSE, "DO", "DONT", p)
  BY <1>1, Arrivals, Zenon DEF m, p
<1>c. p \in Counted => p \notin {"TM", "LOGOUT"} /\ p # "TM"
  BY DEF Counted
<1>h. ASSUME NEW v \in BOOLEAN, Comes(c.out, v, "WILL", "WONT", p), NEW r,
             NEW x2 \in Cell, NEW q \in Seq(Sayable), NEW n \in BOOLEAN, NEW w \in SUBSET S!Queried,
             HisAnswer(s, p, v, r, x2, q, n, w)
      PROVE  Joint(Took(c), r, on)
  <2>1. /\ r = ServerHis(s, p, x2, q, n, w) /\ HisOK(x2) /\ Spoke(s.out, q, "DO", "DONT", p)
        /\ p \in Counted => Heeds(s.his[p], v, x2, s.out, q, p)
    BY <1>c, <1>h, Zenon DEF HisAnswer
  <2>2. Joint(Took(c), ServerHis(s, p, x2, q, n, w), on)
    BY <1>1, <1>h, <2>1, JointServerOffer
  <2>. QED  BY <2>1, <2>2, Zenon
<1>m. ASSUME NEW v \in BOOLEAN, Comes(c.out, v, "DO", "DONT", p), NEW r,
             NEW x2 \in Cell, NEW q \in Seq(Sayable), NEW g \in BOOLEAN, NEW f \in S!Phase,
             MyAnswer(s, p, v, r, x2, q, g, f)
      PROVE  Joint(Took(c), r, on)
  <2>1. /\ r = ServerMy(s, p, x2, q, g, f) /\ Settled(x2) /\ Spoke(s.out, q, "WILL", "WONT", p)
        /\ p \in Counted => Turn(s.my[p], v, x2, s.out, q, "WILL", "WONT", p)
    BY <1>c, <1>m, Zenon DEF MyAnswer
  <2>2. Joint(Took(c), ServerMy(s, p, x2, q, g, f), on)
    BY <1>1, <1>m, <2>1, JointServerDemand
  <2>. QED  BY <2>1, <2>2, Zenon
<1>w. CASE m.cmd = "WILL"
  <2>1. Joint(Took(c), S!WillOption(s, p), on)
    BY <1>1, <1>2, <1>3, <1>h, <1>w, ServerWill, Zenon
  <2>. QED  BY <1>w, <2>1 DEF S!Receive, m, p
<1>x. CASE m.cmd = "WONT"
  <2>1. Joint(Took(c), S!WontOption(s, p), on)
    BY <1>1, <1>2, <1>3, <1>h, <1>x, ServerWont, Zenon
  <2>. QED  BY <1>x, <2>1 DEF S!Receive, m, p
<1>y. CASE m.cmd = "DO"
  <2>1. Joint(Took(c), S!DoOption(s, p), on)
    BY <1>1, <1>2, <1>3, <1>m, <1>y, ServerDo, Zenon
  <2>. QED  BY <1>y, <2>1 DEF S!Receive, m, p
<1>z. CASE m.cmd = "DONT"
  <2>1. PICK r, x2, q, g, f :
               /\ x2 \in Cell /\ q \in Seq(Sayable) /\ g \in BOOLEAN /\ f \in S!Phase
               /\ MyAnswer(s, p, FALSE, r, x2, q, g, f)
               /\ S!DontOption(s, p) \in {r, S!SendWill(r, p)}
    BY <1>1, <1>2, ServerDont
  <2>2. Joint(Took(c), r, on)
    BY <1>3, <1>m, <1>z, <2>1, Zenon
  <2>3. Joint(Took(c), S!DontOption(s, p), on)
    BY <2>1, <2>2, JointServerSendWill
  <2>. QED  BY <1>z, <2>3 DEF S!Receive, m, p
<1>b. CASE m.cmd = "SB"
  <2>1. Good(Took(c)) /\ Still(c, Took(c)) /\ Took(c).out = Tail(c.out) /\ Took(c).connected = on
    BY <1>2, ClientTook
  <2>2. Aside(c.out, Tail(c.out)) /\ Aside(s.out, s.out) /\ Still(s, s) /\ Side(c) /\ Side(s)
    BY <1>2, <1>b, AsideMessage, AsideSame, SideGood, SideServer DEF Still, m
  <2>3. Bound(Took(c), s)
    BY <1>2, <2>1, <2>2, BoundAside
  <2>4. Joint(Took(c), s, on)
    BY <1>2, <2>1, <2>3 DEF Joint
  <2>. DEFINE w == s.answered \cup ({p} \cap S!Queried)
  <2>5. w \in SUBSET S!Queried /\ FALSE \in BOOLEAN /\ s.phase \in S!Phase
    BY <1>2 DEF S!ServerState
  <2>6. S!Suboption(s, p) \in {s, S!Tell(s, "SB", p), [s EXCEPT !.answered = w]}
    BY DEF S!Suboption
  <2>7. Joint(Took(c), S!Tell(s, "SB", p), on)
    BY <1>1, <2>4, JointServerTell
  <2>8. Joint(Took(c), [s EXCEPT !.answered = w], on)
    <3>. HIDE DEF w
    <3>. QED  BY <2>4, <2>5, JointServerFlags, Zenon
  <2>9. Joint(Took(c), S!Suboption(s, p), on)
    <3>. HIDE DEF w
    <3>. QED  BY <2>4, <2>6, <2>7, <2>8
  <2>. QED  BY <1>b, <2>9 DEF S!Receive, m, p
<1>. QED  BY <1>1, <1>w, <1>x, <1>y, <1>z, <1>b

-----------------------------------------------------------------------------
(* telnetd goes on.                                                        *)

LEMMA JointBegin ==
    ASSUME NEW c, NEW s, NEW on, Joint(c, s, on)
    PROVE  Joint(c, S!Begin(s), on)
<1>. DEFINE a == S!SendDo(S!SendDo(s, "TTYPE"), "TSPEED")
            b == S!SendDo(S!SendDo(a, "XDISPLOC"), "ENVIRON")
<1>1. Joint(c, a, on)
  BY JointServerSendDo
<1>2. Joint(c, b, on)
  <2>. HIDE DEF a
  <2>. QED  BY <1>1, JointServerSendDo
<1>3. S!Begin(s) = S!At(b, "options") /\ "options" \in S!Phase
  BY DEF S!Begin, S!Phase
<1>4. FALSE \in BOOLEAN /\ {} \in SUBSET S!Queried
  OBVIOUS
<1>. HIDE DEF b
<1>5. Joint(c, S!At(b, "options"), on)
  BY <1>2, <1>3, <1>4, JointServerFlags, Zenon
<1>. QED  BY <1>3, <1>5

LEMMA JointAt ==
    ASSUME NEW c, NEW s, NEW on, Joint(c, s, on), NEW f \in S!Phase
    PROVE  Joint(c, S!At(s, f), on)
<1>1. FALSE \in BOOLEAN /\ {} \in SUBSET S!Queried
  OBVIOUS
<1>. QED  BY <1>1, JointServerFlags, Zenon

LEMMA JointSendQueries ==
    ASSUME NEW c, NEW s, NEW on, Joint(c, s, on)
    PROVE  Joint(c, S!SendQueries(s), on)
<1>. DEFINE a == S!SendQuery(S!SendQuery(s, "TSPEED"), "XDISPLOC")
            b == S!SendQuery(S!SendQuery(a, "ENVIRON"), "TTYPE")
<1>1. ASSUME NEW z, NEW p, Joint(c, z, on)
      PROVE  Joint(c, S!SendQuery(z, p), on)
  BY <1>1, JointServerTell DEF S!SendQuery, S!HisWill
<1>2. Joint(c, a, on)
  BY <1>1
<1>3. Joint(c, b, on)
  <2>. HIDE DEF a
  <2>. QED  BY <1>1, <1>2
<1>4. S!SendQueries(s) = S!At(b, "TSPEED") /\ "TSPEED" \in S!Phase
  BY DEF S!SendQueries, S!Phase, S!Queried
<1>. HIDE DEF b
<1>. QED  BY <1>3, <1>4, JointAt

LEMMA JointEnterTelnet ==
    ASSUME NEW c, NEW s, NEW on, Joint(c, s, on)
    PROVE  Joint(c, S!EnterTelnet(s), on)
<1>. DEFINE a == IF "SGA" \in Option /\ ~s.my["SGA"].state THEN S!SendWill(s, "SGA") ELSE s
            b == S!SendDo(S!SendDo(a, "ECHO"), "NAWS")
            d == S!SendDo(S!SendWill(b, "STATUS"), "LFLOW")
<1>1. Joint(c, a, on)
  BY JointServerSendWill
<1>2. Joint(c, b, on)
  <2>. HIDE DEF a
  <2>. QED  BY <1>1, JointServerSendDo
<1>3. Joint(c, d, on)
  <2>. HIDE DEF b
  <2>. QED  BY <1>2, JointServerSendDo, JointServerSendWill
<1>4. S!EnterTelnet(s) = S!At(d, "NAWS") /\ "NAWS" \in S!Phase
  BY DEF S!EnterTelnet, S!Phase
<1>. HIDE DEF d
<1>. QED  BY <1>3, <1>4, JointAt

LEMMA JointEchoDone ==
    ASSUME NEW c, NEW s, NEW on, Joint(c, s, on)
    PROVE  Joint(c, S!EchoDone(s), on)
<1>. DEFINE t == IF S!HisWants(s, "ECHO") THEN S!WillOption(s, "ECHO") ELSE s
            u == IF "ECHO" \in Option /\ ~t.my["ECHO"].state THEN S!SendWill(t, "ECHO") ELSE t
<1>1. Joint(c, t, on)
  <2>1. CASE ~S!HisWants(s, "ECHO")
    BY <2>1
  <2>2. CASE S!HisWants(s, "ECHO")
    <3>1. Fine(s) /\ "ECHO" \in Option /\ "ECHO" # "TM"
      BY <2>2 DEF S!HisWants, Joint
    <3>2. PICK x2 \in Cell, q \in Seq(Sayable), n \in BOOLEAN, w \in SUBSET S!Queried :
               HisAnswer(s, "ECHO", TRUE, S!WillOption(s, "ECHO"), x2, q, n, w)
      BY <3>1, ServerWill, Zenon
    <3>3. /\ S!WillOption(s, "ECHO") = ServerHis(s, "ECHO", x2, q, n, w) /\ HisOK(x2)
          /\ Spoke(s.out, q, "DO", "DONT", "ECHO")
          /\ Heeds(s.his["ECHO"], TRUE, x2, s.out, q, "ECHO")
      BY <3>1, <3>2, Zenon DEF HisAnswer
    <3>4. Joint(c, ServerHis(s, "ECHO", x2, q, n, w), on)
      BY <3>1, <3>3, JointServerPretends, Zenon
    <3>. QED  BY <2>2, <3>3, <3>4
  <2>. QED  BY <2>1, <2>2
<1>2. Joint(c, u, on)
  <2>. HIDE DEF t
  <2>. QED  BY <1>1, JointServerSendWill
<1>3. S!EchoDone(s) = S!At(u, "main") /\ "main" \in S!Phase
  BY DEF S!EchoDone, S!Phase
<1>. HIDE DEF u
<1>. QED  BY <1>2, <1>3, JointAt

LEMMA JointContinue ==
    ASSUME Joint(client, server, client.connected), S!Continue
    PROVE  Joint(client, server', client.connected)
<1>. DEFINE on == client.connected
<1>1. CASE S!OptionsSettled
  BY <1>1, JointSendQueries DEF S!OptionsSettled
<1>2. CASE S!QueryAnswered
  <2>1. server' = S!At(server, S!NextQuery[server.phase]) /\ server.phase \in S!Queried
    BY <1>2 DEF S!QueryAnswered
  <2>2. S!NextQuery[server.phase] \in S!Phase
    BY <2>1 DEF S!NextQuery, S!Queried, S!Phase
  <2>. QED  BY <2>1, <2>2, JointAt
<1>3. CASE S!Login
  BY <1>3, JointEnterTelnet DEF S!Login
<1>4. CASE S!NawsSettled
  BY <1>4, JointAt DEF S!NawsSettled, S!Phase
<1>5. CASE S!EchoSettled
  BY <1>5, JointEchoDone DEF S!EchoSettled
<1>. QED  BY <1>1, <1>2, <1>3, <1>4, <1>5 DEF S!Continue

-----------------------------------------------------------------------------
(* A new connection, and a quiet line.                                     *)

\* The client has nothing on the line and does, wants and is asked nothing.
Blank(x) == x.state = x.want /\ x.want = FALSE

Fresh(c) == c.out = << >> /\ \A o \in Option : Blank(c.his[o]) /\ Blank(c.my[o])

LEMMA LinkFresh ==
    ASSUME NEW a, NEW d, NEW o \in Option, Side(a), Side(d), a.out = << >>, d.out = << >>,
           Blank(a.his[o]), Blank(d.my[o])
    PROVE  Link(a, d, o)
<1>. DEFINE x == a.his[o]
            y == d.my[o]
            i == Offers(x.state, d.out, o)
            j == Demands(y.state, a.out, o)
<1>1. x \in Cell /\ y \in Cell /\ x.state \in BOOLEAN /\ y.state \in BOOLEAN
      /\ x.state = x.want /\ y.state = y.want /\ x.want = y.want
  BY DEF Side, Cell, Blank
<1>2. i = [last |-> x.state, uses |-> 0] /\ j = [last |-> y.state, uses |-> 0]
  <2>. HIDE DEF x, y
  <2>. QED  BY <1>1, ReadingEmpty DEF Offers, Demands
<1>3. ASSUME NEW z \in Cell, NEW k, k.uses = 0, k.last = z.want, z.state = z.want
      PROVE  Share(z, k) >= 0 /\ Share(z, k) \in Int /\ Aligned(z, k)
  <2>1. Off(k.last, z.want) = 0 /\ Off(z.state, z.want) = 0
    BY <1>3 DEF Off
  <2>2. z.resp \in Nat /\ Odd(z) = z.resp % 2
    BY <2>1 DEF Odd, Cell
  <2>3. Odd(z) <= z.resp /\ Odd(z) \in 0 .. 1
    BY <2>2, OddIs
  <2>4. Share(z, k) = z.resp - Odd(z)
    BY <1>3, <2>1, <2>2, <2>3 DEF Share
  <2>. QED  BY <1>3, <2>2, <2>3, <2>4 DEF Aligned
<1>4. i.uses = 0 /\ i.last = y.want /\ j.uses = 0 /\ j.last = x.want
  <2>. HIDE DEF x, y, i, j
  <2>. QED  BY <1>1, <1>2
<1>. HIDE DEF i, j
<1>5. Share(x, j) >= 0 /\ Share(x, j) \in Int /\ Aligned(x, j)
      /\ Share(y, i) >= 0 /\ Share(y, i) \in Int /\ Aligned(y, i)
  <2>. HIDE DEF x, y
  <2>. QED  BY <1>1, <1>3, <1>4
<1>6. Linked(x, y, i, j)
  BY <1>5 DEF Linked
<1>. QED  BY <1>6 DEF Link, i, j

LEMMA JointFresh ==
    ASSUME NEW c, Good(c), Fresh(c), c.connected = FALSE
    PROVE  Joint(c, S!ServerInit, FALSE)
<1>. DEFINE s == S!ServerInit
<1>1. /\ s.out = << >> /\ \A o \in Option : s.his[o] = CellInit /\ s.my[o] = CellInit
  BY SameSets DEF S!ServerInit
<1>2. CellInit \in Cell /\ Settled(CellInit) /\ HisOK(CellInit) /\ Blank(CellInit)
  BY CellInitCell DEF HisOK, CellInit, Blank
<1>3. << >> \in Seq(Message) /\ << >> \in Seq(Sayable)
  OBVIOUS
<1>4. s \in S!ServerState
  BY <1>2, <1>3, SameSets DEF S!ServerInit, S!ServerState, S!Phase
<1>5. s.his \in [Option -> Cell]
  BY <1>4, SameSets DEF S!ServerState
<1>. HIDE DEF s
<1>6. Fine(s)
  BY <1>1, <1>2, <1>3, <1>4 DEF Fine
<1>7. Side(c) /\ Side(s)
  BY <1>4, SideGood, SideServer
<1>8. ASSUME NEW o \in Counted
      PROVE  Link(c, s, o) /\ Held(s, c, o)
  <2>1. o \in Option /\ Blank(c.his[o]) /\ Blank(c.my[o]) /\ Blank(s.his[o]) /\ Blank(s.my[o])
        /\ c.out = << >>
    BY <1>1, <1>2 DEF Counted, Fresh
  <2>2. Link(c, s, o) /\ Link(s, c, o)
    BY <1>1, <1>7, <2>1, LinkFresh
  <2>3. ~s.his[o].state
    BY <1>1, <2>1 DEF CellInit
  <2>. QED  BY <2>2, <2>3 DEF Held
<1>9. Joint(c, s, FALSE)
  BY <1>6, <1>8 DEF Joint, Bound
<1>. QED  BY <1>9 DEF s

\* With nothing on the line and nothing unanswered a balanced link agrees.
LEMMA LinkQuiet ==
    ASSUME NEW a, NEW d, NEW o \in Option, Side(a), Side(d), a.out = << >>, d.out = << >>,
           Link(a, d, o), Settled(d.my[o]), a.his[o].state = a.his[o].want
    PROVE  Agree(a.his[o], d.my[o])
<1>. DEFINE x == a.his[o]
            y == d.my[o]
            i == Offers(x.state, d.out, o)
            j == Demands(y.state, a.out, o)
<1>. SUFFICES ASSUME x.resp = 0, y.resp = 0 PROVE x.want = y.want
  BY DEF Agree
<1>1. x \in Cell /\ y \in Cell /\ x.state \in BOOLEAN /\ y.state \in BOOLEAN
      /\ x.state = x.want /\ y.state = y.want
  BY DEF Side, Cell, Settled
<1>2. i = [last |-> x.state, uses |-> 0] /\ j = [last |-> y.state, uses |-> 0]
  <2>. HIDE DEF x, y
  <2>. QED  BY <1>1, ReadingEmpty DEF Offers, Demands
<1>3. Linked(x, y, i, j)
  BY DEF Link
<1>. HIDE DEF i, j
<1>4. i.uses = 0 /\ i.last = x.want /\ j.uses = 0 /\ j.last = y.want
  <2>. HIDE DEF x, y
  <2>. QED  BY <1>1, <1>2
<1>5. Odd(x) = 0 /\ Odd(y) = 0
  BY <1>1 DEF Odd, Off
<1>. HIDE DEF x, y
<1>6. Share(x, j) = 0 - Off(y.want, x.want) /\ Share(y, i) = 0 - Off(x.want, y.want)
  <2>1. Off(y.want, x.want) \in 0 .. 1 /\ Off(x.want, y.want) \in 0 .. 1
    BY DEF Off
  <2>2. x.resp = 0 /\ y.resp = 0
    BY DEF x, y
  <2>. QED  BY <1>4, <1>5, <2>1, <2>2 DEF Share
<1>7. CASE x.want # y.want
  <2>1. Off(y.want, x.want) = 1 /\ Off(x.want, y.want) = 1
    BY <1>7 DEF Off
  <2>2. Share(x, j) + Share(y, i) < 0
    BY <1>6, <2>1
  <2>3. Share(x, j) \in Int /\ Share(y, i) \in Int
    BY <1>6, <2>1
  <2>. QED  BY <1>3, <2>2, <2>3 DEF Linked
<1>. QED  BY <1>7

-----------------------------------------------------------------------------
(* The session.                                                            *)

\* The inductive invariant: while the client is connected the accounts of the
\* two programs are linked, and while it is not it starts anew.
SessionInv ==
    /\ requests \in 0 .. MaxRequest /\ sessions \in 0 .. MaxSession
    /\ server \in S!ServerState /\ Good(client)
    /\ client.connected => Joint(client, server, TRUE)
    /\ ~client.connected =>
           /\ Fresh(client)
           /\ server.phase = "exit" \/ (server.phase = "start" /\ sessions = 0)

LEMMA SessionInitHolds == Init => SessionInv
<1>. SUFFICES ASSUME Init PROVE SessionInv
  OBVIOUS
<1>1. Good(client)
  BY ClientInitGood DEF Init, ClientInv
<1>2. PICK display \in BOOLEAN : client = ClientInit(display)
  BY DEF Init, OpenInit
<1>3. ~client.connected /\ client.out = << >>
      /\ \A o \in Option : client.his[o] = CellInit /\ client.my[o] = CellInit
  BY <1>2 DEF ClientInit
<1>4. Blank(CellInit)
  BY DEF Blank, CellInit
<1>5. Fresh(client)
  BY <1>3, <1>4 DEF Fresh
<1>6. server.phase = "start" /\ server \in S!ServerState
  <2>1. CellInit \in Cell /\ << >> \in Seq(Message) /\ "start" \in S!Phase
    BY CellInitCell DEF S!Phase
  <2>. QED  BY <2>1, SameSets DEF Init, S!Init, S!ServerInit, S!ServerState
<1>7. requests \in 0 .. MaxRequest /\ sessions \in 0 .. MaxSession /\ sessions = 0
  BY BoundsAssumption DEF Init
<1>. QED  BY <1>1, <1>3, <1>5, <1>6, <1>7 DEF SessionInv

LEMMA CloseFresh ==
    ASSUME NEW c, Good(c)
    PROVE  Fresh(Close(c)) /\ Close(c).connected = FALSE
<1>1. \A o \in Option : c.his[o] \in Cell /\ c.my[o] \in Cell
  BY GoodCells
<1>2. \A x \in Cell : Blank(Forgotten(x))
  BY DEF Blank, Forgotten, Cell
<1>3. /\ \A o \in Option : Close(c).his[o] = Forgotten(c.his[o]) /\ Close(c).my[o] = Forgotten(c.my[o])
      /\ Close(c).out = << >> /\ Close(c).connected = FALSE
  BY DEF Close, Good, ClientState
<1>. QED  BY <1>1, <1>2, <1>3 DEF Fresh

LEMMA SessionNextHolds == SessionInv /\ [Next]_vars => SessionInv'
<1>. SUFFICES ASSUME SessionInv, [Next]_vars PROVE SessionInv'
  OBVIOUS
<1>0. /\ requests \in 0 .. MaxRequest /\ sessions \in 0 .. MaxSession
      /\ server \in S!ServerState /\ Good(client)
  BY DEF SessionInv
<1>b. MaxRequest \in Nat /\ MaxSession \in Nat /\ MaxSession > 0
  BY BoundsAssumption
<1>j. ASSUME Joint(client', server', TRUE),
             requests' \in 0 .. MaxRequest, sessions' \in 0 .. MaxSession
      PROVE  SessionInv'
  <2>1. Good(client') /\ server' \in S!ServerState /\ client'.connected = TRUE
    BY <1>j DEF Joint, Fine
  <2>. QED  BY <1>j, <2>1 DEF SessionInv
<1>c. ASSUME client.connected
      PROVE  Joint(client, server, TRUE) /\ Joint(client, server, client.connected)
             /\ client.connected = TRUE
  <2>1. Joint(client, server, TRUE)
    BY <1>c DEF SessionInv
  <2>2. client.connected = TRUE
    BY <2>1 DEF Joint
  <2>. QED  BY <2>1, <2>2, Zenon
<1>d. ASSUME ~client.connected
      PROVE  /\ client.out = << >> /\ Fresh(client) /\ client.connected = FALSE
             /\ server.phase = "exit" \/ (server.phase = "start" /\ sessions = 0)
  BY <1>0, <1>d DEF SessionInv, Fresh, Good, ClientState
<1>1. CASE UserConnects
  <2>1. ~client.connected /\ client' = Open(client) /\ server' = S!ServerInit
    BY <1>1 DEF UserConnects, Connect
  <2>2. Joint(client, S!ServerInit, FALSE)
    BY <1>0, <1>d, <2>1, JointFresh
  <2>3. Joint(Open(client), S!ServerInit, TRUE)
    BY <2>2, JointOpen
  <2>4. requests' \in 0 .. MaxRequest /\ sessions' \in 0 .. MaxSession
    BY <1>0, <1>1, <1>b DEF UserConnects
  <2>. QED  BY <1>j, <2>1, <2>3, <2>4, Zenon
<1>2. CASE ServerStart
  <2>1. sessions > 0 /\ server.phase = "start" /\ server' = S!Begin(server)
        /\ client' = client /\ requests' = requests /\ sessions' = sessions
    BY <1>2 DEF ServerStart, S!Start
  <2>2. client.connected
    <3>1. sessions # 0 /\ server.phase # "exit"
      BY <1>0, <1>b, <2>1
    <3>. QED  BY <1>d, <3>1, Zenon
  <2>3. Joint(client, S!Begin(server), TRUE)
    BY <1>c, <2>2, JointBegin
  <2>. QED  BY <1>0, <1>j, <2>1, <2>3
<1>3. CASE ServerContinue
  <2>1. S!Continue /\ client' = client /\ requests' = requests /\ sessions' = sessions
    BY <1>3 DEF ServerContinue
  <2>2. server.phase \notin {"exit", "start"}
    BY <2>1 DEF S!Continue, S!OptionsSettled, S!QueryAnswered, S!Login, S!NawsSettled,
       S!EchoSettled, S!Queried
  <2>3. client.connected
    BY <1>d, <2>2
  <2>4. Joint(client, server', client.connected)
    BY <1>c, <2>1, <2>3, JointContinue
  <2>. QED  BY <1>0, <1>c, <1>j, <2>1, <2>3, <2>4, Zenon
<1>4. CASE ServerReceive
  <2>. DEFINE s == [server EXCEPT !.chunk = server.phase # "main"]
              m == Head(client.out)
  <2>1. client.out # << >> /\ client' = Took(client) /\ server' = S!Receive(s, m)
        /\ requests' = requests /\ sessions' = sessions
    BY <1>4 DEF ServerReceive, S!ReceiveAny, Taken, Took
  <2>2. client.connected
    BY <1>d, <2>1
  <2>3. Joint(client, s, TRUE)
    <3>1. (server.phase # "main") \in BOOLEAN /\ "main" \in S!Phase /\ {} \in SUBSET S!Queried
      BY DEF S!Phase
    <3>2. ASSUME NEW b \in BOOLEAN PROVE Joint(client, [server EXCEPT !.chunk = b], TRUE)
      BY <1>c, <2>2, <3>1, JointServerFlags, Zenon
    <3>. QED  BY <3>1, <3>2, Zenon
  <2>. HIDE DEF s
  <2>4. Joint(Took(client), S!Receive(s, m), TRUE)
    BY <2>1, <2>3, JointServerReceive
  <2>. QED  BY <1>0, <1>j, <2>1, <2>4, Zenon
<1>5. CASE ClientReceive
  <2>1. server.out # << >> /\ client.connected /\ client' = Receive(client, Head(server.out))
        /\ server' = Took(server) /\ requests' = requests /\ sessions' = sessions
    BY <1>5 DEF ClientReceive, Took
  <2>2. Joint(Receive(client, Head(server.out)), Took(server), TRUE)
    BY <1>c, <2>1, JointReceive
  <2>. QED  BY <1>0, <1>j, <2>1, <2>2, Zenon
<1>6. CASE ClientEof
  <2>1. server.phase = "exit" /\ client' = Close(client) /\ sessions' = MaxSession
        /\ server' = server /\ requests' = requests
    BY <1>6 DEF ClientEof, Disconnect
  <2>2. Good(client') /\ Fresh(client') /\ client'.connected = FALSE
    BY <1>0, <2>1, CloseGood, CloseFresh
  <2>3. /\ requests' \in 0 .. MaxRequest /\ sessions' \in 0 .. MaxSession
        /\ server' \in S!ServerState /\ server'.phase = "exit"
    BY <1>0, <1>b, <2>1
  <2>. QED  BY <2>2, <2>3 DEF SessionInv
<1>7. CASE User
  <2>1. client.connected /\ server' = server /\ sessions' = sessions
        /\ requests < MaxRequest /\ requests' = requests + 1
    BY <1>7 DEF User
  <2>2. requests' \in 0 .. MaxRequest /\ sessions' \in 0 .. MaxSession
    BY <1>0, <1>b, <2>1
  <2>3. ASSUME NEW r \in Request, client' = UserAsks(r)
        PROVE  Joint(client', server', TRUE)
    <3>1. Joint(UserAsks(r), server, TRUE)
      BY <1>c, <2>1, JointUserAsks
    <3>. QED  BY <2>1, <2>3, <3>1, Zenon
  <2>4. ASSUME NEW cmd \in Command, NEW o \in SendOption, client' = SendCommand(client, cmd, o)
        PROVE  Joint(client', server', TRUE)
    <3>1. Joint(SendCommand(client, cmd, o), server, TRUE)
      BY <1>c, <2>1, JointSendCommand
    <3>. QED  BY <2>1, <2>4, <3>1, Zenon
  <2>. QED  BY <1>7, <1>j, <2>2, <2>3, <2>4 DEF User
<1>8. CASE UserCloses
  <2>1. client' = Close(client) /\ server' = [S!ServerInit EXCEPT !.phase = "exit"]
        /\ requests' = requests + 1 /\ requests < MaxRequest /\ sessions' = sessions
    BY <1>8 DEF UserCloses, Disconnect
  <2>2. Good(client') /\ Fresh(client') /\ client'.connected = FALSE
    BY <1>0, <2>1, CloseGood, CloseFresh
  <2>3. server' \in S!ServerState /\ server'.phase = "exit"
    <3>1. CellInit \in Cell /\ << >> \in Seq(Message) /\ "exit" \in S!Phase
      BY CellInitCell DEF S!Phase
    <3>. QED  BY <2>1, <3>1, SameSets DEF S!ServerInit, S!ServerState
  <2>4. requests' \in 0 .. MaxRequest /\ sessions' \in 0 .. MaxSession
    BY <1>0, <1>b, <2>1
  <2>. QED  BY <2>2, <2>3, <2>4 DEF SessionInv
<1>9. CASE UNCHANGED vars
  BY <1>9 DEF vars, SessionInv
<1>. QED  BY <1>1, <1>2, <1>3, <1>4, <1>5, <1>6, <1>7, <1>8, <1>9 DEF Next

LEMMA SessionInvariance == Spec => []SessionInv
BY SessionInitHolds, SessionNextHolds, PTL DEF Spec

(***************************************************************************)
(* The records of both programs and what is on the line between them stay  *)
(* well formed, through any number of connections.                         *)
(***************************************************************************)
THEOREM SessionTypes == Spec => []TypeOK
<1>1. SessionInv => TypeOK
  BY DEF SessionInv, Good, TypeOK, ClientTypeOK, S!TypeOK
<1>. QED  BY <1>1, SessionInvariance, PTL

(***************************************************************************)
(* When nothing is on its way and telnetd has started, the two programs    *)
(* agree on every option for which neither awaits an answer (state.c:387-  *)
(* 398 and telnet.cc's counters): requests that cross, refusals, and       *)
(* options telnetd takes as granted never leave them apart.                *)
(***************************************************************************)
THEOREM SessionAgreement == Spec => []Agreement
<1>1. ASSUME SessionInv, Quiet, NEW o \in Counted
      PROVE  Agree(client.his[o], server.my[o]) /\ Agree(server.his[o], client.my[o])
  <2>1. /\ Good(client) /\ Fine(server) /\ Bound(client, server) /\ server \in S!ServerState
        /\ client.out = << >> /\ server.out = << >> /\ o \in Option
    BY <1>1 DEF SessionInv, Quiet, Joint, Fine, Counted
  <2>2. /\ Link(client, server, o) /\ Held(server, client, o) /\ Side(client) /\ Side(server)
    BY <2>1, SideGood, SideServer DEF Bound
  <2>3. /\ Settled(client.his[o]) /\ Settled(client.my[o]) /\ Settled(server.my[o])
        /\ HisOK(server.his[o])
        /\ client.his[o] \in Cell /\ client.my[o] \in Cell /\ server.his[o] \in Cell
        /\ server.my[o] \in Cell
    BY <2>1, <2>2, GoodCells DEF Fine, GoodCell, Side
  <2>4. Agree(client.his[o], server.my[o])
    <3>1. CASE client.his[o].resp = 0
      BY <2>1, <2>2, <2>3, <3>1, LinkQuiet DEF Settled
    <3>. QED  BY <3>1 DEF Agree
  <2>5. Agree(server.his[o], client.my[o])
    <3>1. CASE server.his[o].state
      <4>1. client.my[o].state \in BOOLEAN
        BY <2>3 DEF Cell
      <4>2. Demands(client.my[o].state, server.out, o).last = client.my[o].state
        BY <2>1, <4>1, ReadingEmpty DEF Demands
      <4>3. client.my[o].state = server.his[o].want
        BY <2>2, <3>1, <4>2 DEF Held
      <4>. QED  BY <2>3, <4>3 DEF Agree, Settled
    <3>2. CASE ~server.his[o].state /\ server.his[o].resp = 0
      <4>1. server.his[o].state = server.his[o].want
        BY <2>3, <3>2 DEF HisOK, Cell
      <4>2. Link(server, client, o)
        BY <2>2, <3>2 DEF Held
      <4>. QED  BY <2>1, <2>2, <2>3, <4>1, <4>2, LinkQuiet
    <3>3. CASE server.his[o].resp # 0
      BY <3>3 DEF Agree
    <3>. QED  BY <3>1, <3>2, <3>3
  <2>. QED  BY <2>4, <2>5
<1>2. SessionInv => Agreement
  BY <1>1 DEF Agreement
<1>. QED  BY <1>2, SessionInvariance, PTL
=============================================================================
