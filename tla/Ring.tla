-------------------------------- MODULE Ring --------------------------------
(***************************************************************************)
(* The ring buffer of the client, class ringbuf of telnet/ring.cc.  An     *)
(* output ring (netoring, ttyoring) is written byte by byte and emptied by *)
(* flush(); an input ring (netiring, ttyiring) is filled by read_source()  *)
(* and read with getch() and ungetch().                                    *)
(*                                                                         *)
(* flush() is two steps, the choice of a chunk and the return of the       *)
(* system call that writes it: a signal handler (sendwin, intr, intr2) may *)
(* write to the ring, and mark it, while the call is in progress.          *)
(***************************************************************************)
EXTENDS Integers, Sequences

CONSTANTS
    Size,    \* BUFSIZ or 2*BUFSIZ in the program
    Byte,
    NoByte

ASSUME SizeAssumption == Size \in Nat /\ Size > 1

ASSUME NoByteAssumption == NoByte \notin Byte

VARIABLES
    use,      \* "out" or "in": which of the two this ring is, for good
    buf, head, tail, count,
    marked,   \* an index of buf, or -1
    chunk,    \* the write in progress, or NoChunk
    aborted,  \* an assert() of flush() has failed
    sent,     \* what the last write of flush() took, and how
    got,      \* what getch() returned last, until the ring changes
    wasFull   \* history: the ring has been full

vars == <<use, buf, head, tail, count, marked, chunk, aborted, sent, got, wasFull>>

Index == 0 .. Size - 1

NoChunk == [top |-> 0, urgent |-> FALSE]

NoWrite == [bytes |-> << >>, urgent |-> FALSE]

\* Wrong: the index wraps one position late.
WrapLate(x) == IF x > Size THEN x - Size ELSE x

Wrap(x) == IF x >= Size THEN x - Size ELSE x

-----------------------------------------------------------------------------
Init ==
    /\ use \in {"out", "in"}
    /\ buf = [i \in Index |-> NoByte]
    /\ head = 0 /\ tail = 0 /\ count = 0
    /\ marked = -1
    /\ chunk = NoChunk /\ aborted = FALSE
    /\ sent = NoWrite /\ got = NoByte /\ wasFull = FALSE

\* The body of the loop of write(), which is also putch(); what finds no room
\* is dropped.
Store(b) ==
    /\ buf' = [buf EXCEPT ![head] = b]
    /\ head' = Wrap(head + 1)
    /\ count' = count + 1
    /\ got' = NoByte

Write(b) ==
    /\ use = "out" /\ ~aborted
    /\ count < Size
    /\ Store(b)
    /\ wasFull' = (wasFull \/ count + 1 = Size)
    /\ UNCHANGED <<use, tail, marked, chunk, aborted, sent>>

SetMark ==
    /\ use = "out" /\ ~aborted
    /\ marked' = head
    /\ UNCHANGED <<use, buf, head, tail, count, chunk, aborted, sent, got, wasFull>>

-----------------------------------------------------------------------------
(* flush().                                                                *)

\* The assertions at lines 136, 143 and 155 of ring.cc; "% size" is written
\* out for operands in the range of Index.
IndicesAgree == head - tail - count \in {0, -Size}

ChunkNotEmpty(top) == top - tail > 0 /\ top - tail <= count

Distance(from, to) == IF to >= from THEN to - from ELSE to - from + Size

\* Wrong: a ring that has wrapped round is written up to its head.
TopUnwrapped == IF marked > tail THEN marked ELSE head

\* Wrong: a write does not stop before the mark.
TopUnmarked == IF head < tail THEN Size ELSE head

Top ==
    IF marked > tail THEN marked
    ELSE IF head < tail THEN Size
    ELSE head

FlushBegin ==
    /\ use = "out" /\ ~aborted
    /\ chunk = NoChunk
    /\ count > 0
    /\ IF IndicesAgree /\ ChunkNotEmpty(Top)
       THEN /\ chunk' = [top |-> Top, urgent |-> marked = tail]
            /\ UNCHANGED aborted
       ELSE /\ aborted' = TRUE
            /\ UNCHANGED chunk
    /\ UNCHANGED <<use, buf, head, tail, count, marked, sent, got, wasFull>>

\* The sink took n bytes.
FlushWrote(n) ==
    /\ chunk # NoChunk /\ ~aborted
    /\ n <= chunk.top - tail
    /\ sent' = [bytes |-> [i \in 1 .. n |-> buf[tail + i - 1]], urgent |-> chunk.urgent]
    /\ marked' = IF marked = tail THEN -1 ELSE marked
    /\ tail' = Wrap(tail + n)
    /\ count' = count - n
    /\ aborted' = (Distance(tail', head) # count')
    /\ chunk' = NoChunk
    /\ UNCHANGED <<use, buf, head, got, wasFull>>

\* The sink took nothing.
FlushBlocked ==
    /\ chunk # NoChunk /\ ~aborted
    /\ chunk' = NoChunk
    /\ UNCHANGED <<use, buf, head, tail, count, marked, aborted, sent, got, wasFull>>

\* The sink failed: netflush() clears the mark and leaves the session.
FlushFailed ==
    /\ chunk # NoChunk /\ ~aborted
    /\ chunk' = NoChunk
    /\ marked' = -1
    /\ UNCHANGED <<use, buf, head, tail, count, aborted, sent, got, wasFull>>

-----------------------------------------------------------------------------
(* The input rings.  A read of l bytes is l steps of ReadSource.           *)

\* Wrong: no slot is kept free for ungetch().
ReadTopToTail == IF tail <= head THEN Size ELSE tail

ReadTop ==
    LET before == IF tail = 0 THEN Size - 1 ELSE tail - 1
    IN  IF before < head THEN Size ELSE before

ReadSource(b) ==
    /\ use = "in"
    /\ ReadTop # head
    /\ Store(b)
    /\ wasFull' = (wasFull \/ count + 1 = Size)
    /\ UNCHANGED <<use, tail, marked, chunk, aborted, sent>>

Getch ==
    /\ use = "in"
    /\ count > 0
    /\ got' = buf[tail]
    /\ marked' = IF marked = tail THEN -1 ELSE marked
    /\ tail' = Wrap(tail + 1)
    /\ count' = count - 1
    /\ UNCHANGED <<use, buf, head, chunk, aborted, sent, wasFull>>

\* Every caller gives back the byte it has just read.
Ungetch ==
    /\ use = "in"
    /\ got # NoByte
    /\ tail' = IF tail = 0 THEN Size - 1 ELSE tail - 1
    /\ count' = count + 1
    /\ got' = NoByte
    /\ wasFull' = (wasFull \/ count + 1 = Size)
    /\ UNCHANGED <<use, buf, head, marked, chunk, aborted, sent>>

-----------------------------------------------------------------------------
Next ==
    \/ \E b \in Byte : Write(b)
    \/ SetMark
    \/ FlushBegin
    \/ \E n \in 1 .. Size : FlushWrote(n)
    \/ FlushBlocked
    \/ FlushFailed
    \/ \E b \in Byte : ReadSource(b)
    \/ Getch
    \/ Ungetch

Spec == Init /\ [][Next]_vars

-----------------------------------------------------------------------------
TypeOK ==
    /\ use \in {"out", "in"}
    /\ buf \in [Index -> Byte \cup {NoByte}]
    /\ head \in Index /\ tail \in Index
    /\ count \in 0 .. Size
    /\ marked \in Index \cup {-1}
    /\ chunk \in [top : 0 .. Size, urgent : BOOLEAN]
    /\ aborted \in BOOLEAN /\ wasFull \in BOOLEAN
    /\ sent \in [bytes : Seq(Byte \cup {NoByte}), urgent : BOOLEAN]
    /\ got \in Byte \cup {NoByte}

(***************************************************************************)
(* The assertions of flush() fail only in a ring that has been full.       *)
(***************************************************************************)
AbortsOnlyIfFull == aborted => wasFull

(***************************************************************************)
(* read_source keeps a slot free for ungetch (ring.cc:199), so an input    *)
(* ring is never full and what is given back overwrites nothing.           *)
(***************************************************************************)
InputNeverFull == use = "in" => count < Size /\ ~wasFull

(***************************************************************************)
(* The ring implements the queue of ByteFifo until it has been full.       *)
(***************************************************************************)
Contents == [i \in 1 .. count |-> buf[Wrap(tail + i - 1)]]

MarkPlace == IF marked = -1 THEN 0 ELSE Distance(tail, marked) + 1

Fifo == INSTANCE ByteFifo WITH
    q    <- IF wasFull THEN << >> ELSE Contents,
    mark <- IF wasFull THEN 0 ELSE MarkPlace,
    sent <- IF wasFull THEN NoWrite ELSE sent,
    overtaken <- ~wasFull /\ chunk.urgent /\ marked # tail,
    got  <- IF wasFull THEN NoByte ELSE got,
    full <- wasFull

ImplementsFifo == Fifo!Spec
=============================================================================
