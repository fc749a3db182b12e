------------------------------ MODULE ByteFifo ------------------------------
(***************************************************************************)
(* What a ring buffer of the client promises its users: the bytes put in   *)
(* come out once and in order, a byte given back comes out next, and the   *)
(* byte marked for TELNET SYNCH is handed over as urgent and never in the  *)
(* middle of ordinary data.  The promise ends when the queue is full.      *)
(***************************************************************************)
EXTENDS Integers, Sequences

CONSTANTS Byte, NoByte, Size

(***************************************************************************)
(* q: the bytes waiting.  mark: the place in q of the marked byte, which   *)
(* is Len(q) + 1 before that byte has been put in, or 0.  sent: what the   *)
(* last write took, and whether its first byte went as urgent data.        *)
(* overtaken: the mark has moved on while its byte was being written.      *)
(* got: the byte getch returned last, while it may still be given back.    *)
(***************************************************************************)
VARIABLES q, mark, sent, overtaken, got, full

vars == <<q, mark, sent, overtaken, got, full>>

NoWrite == [bytes |-> << >>, urgent |-> FALSE]

Init ==
    /\ q = << >> /\ mark = 0 /\ sent = NoWrite /\ overtaken = FALSE
    /\ got = NoByte /\ full = FALSE

Put(b) ==
    /\ ~full
    /\ Len(q) + 1 < Size
    /\ q' = Append(q, b)
    /\ got' = NoByte
    /\ UNCHANGED <<mark, sent, overtaken, full>>

\* The byte that fills the queue; nothing is promised from here on.
Fill ==
    /\ ~full
    /\ Len(q) + 1 = Size
    /\ full' = TRUE
    /\ q' = << >> /\ mark' = 0 /\ sent' = NoWrite
    /\ overtaken' = FALSE /\ got' = NoByte

SetMark ==
    /\ ~full
    /\ mark' = Len(q) + 1
    /\ overtaken' \in {overtaken, overtaken \/ mark = 1}
    /\ UNCHANGED <<q, sent, got, full>>

\* A write that took nothing; if it failed the mark is cleared.
Fail ==
    /\ ~full
    /\ mark' \in {mark, 0}
    /\ overtaken' = FALSE
    /\ UNCHANGED <<q, sent, got, full>>

\* A write of k bytes, the last one before the mark at the latest.  The first
\* is urgent if it is marked, and only if it is or was when the write began.
Take(k, urgent) ==
    /\ ~full
    /\ mark <= 1 \/ k < mark
    /\ mark = 1 => urgent
    /\ urgent => mark = 1 \/ overtaken
    /\ sent' = [bytes |-> SubSeq(q, 1, k), urgent |-> urgent]
    /\ q' = SubSeq(q, k + 1, Len(q))
    /\ mark' = IF mark <= 1 THEN 0 ELSE mark - k
    /\ overtaken' = FALSE
    /\ UNCHANGED <<got, full>>

Get ==
    /\ ~full
    /\ q # << >>
    /\ got' = Head(q)
    /\ q' = Tail(q)
    /\ UNCHANGED <<mark, sent, overtaken, full>>

Unget ==
    /\ ~full
    /\ got # NoByte
    /\ q' = <<got>> \o q
    /\ got' = NoByte
    /\ UNCHANGED <<mark, sent, overtaken, full>>

Next ==
    \/ \E b \in Byte : Put(b)
    \/ Fill
    \/ SetMark
    \/ Fail
    \/ \E k \in 1 .. Len(q), urgent \in BOOLEAN : Take(k, urgent)
    \/ Get
    \/ Unget

Spec == Init /\ [][Next]_vars
=============================================================================
