----------------------------- MODULE OptionFsm -----------------------------
(***************************************************************************)
(* The option state machine both programs share.  telnetd/state.c calls it *)
(* "Dave Borman's Telnet option processing state machine" (lines 352-407)  *)
(* and telnet/telnet.cc repeats it.  For every option a program keeps two  *)
(* cells, one for what the peer does (do_dont_resp and the DO bits of      *)
(* options[]) and one for what it does itself (will_wont_resp and the WILL *)
(* bits).  The switch statements, where the two programs differ, are in    *)
(* TelnetdOptions and TelnetOptions.                                       *)
(***************************************************************************)
EXTENDS Naturals, Sequences

Command == {"DO", "DONT", "WILL", "WONT"}

\* state: the last state negotiated; want: the state asked for;
\* resp: how many of our own requests are unanswered.
Cell == [state : BOOLEAN, want : BOOLEAN, resp : Nat]

CellInit == [state |-> FALSE, want |-> FALSE, resp |-> 0]

(***************************************************************************)
(* send_do, send_dont, send_will and send_wont with init = 1: a request    *)
(* goes out only if it asks for something new.                             *)
(***************************************************************************)
NothingToAsk(c, new) ==
    \/ c.resp = 0 /\ c.state = new
    \/ c.want = new

Asked(c, new) == [c EXCEPT !.want = new, !.resp = c.resp + 1]

\* Wrong: the counter is decremented without a look at it.
AnsweredBlindly(c, new) == [c EXCEPT !.resp = c.resp - 1]

\* Wrong: whatever arrives answers every request at once.
AnsweredAll(c, new) == [c EXCEPT !.resp = 0]

\* Wrong: no allowance for a request that was overtaken.
AnsweredOnce(c, new) == [c EXCEPT !.resp = IF c.resp > 0 THEN c.resp - 1 ELSE 0]

(***************************************************************************)
(* The head of all four receive handlers: the command that arrives answers *)
(* the oldest request, and one more when it only repeats the state, for    *)
(* then a request in between was overtaken.                                *)
(***************************************************************************)
Answered(c, new) ==
    [c EXCEPT !.resp = IF c.resp > 1 /\ c.state = new THEN c.resp - 2
                       ELSE IF c.resp > 0 THEN c.resp - 1
                       ELSE 0]

\* The tail of a handler that accepts the change, and of one that refuses
\* it: a refusal counts as a request of our own.
Accepted(c, new) == [c EXCEPT !.want = new, !.state = new]

Refused(c, new) == [c EXCEPT !.resp = c.resp + 1, !.state = new]

Noted(c, new) == [c EXCEPT !.state = new]

\* his_will_wont_is_changing and my_will_wont_is_changing of defs.h.
Changing(c) == c.state # c.want

\* A program's state is a record; out is what it has put on the wire.
Tell(s, cmd, o) ==
    [s EXCEPT !.out = Append(s.out, [cmd |-> cmd, opt |-> o])]

(***************************************************************************)
(* With nothing outstanding the negotiated state is the wanted one.        *)
(***************************************************************************)
Settled(c) == c.resp = 0 => c.state = c.want
=============================================================================
