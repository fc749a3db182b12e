---------------------------- MODULE RingProofs -----------------------------
(***************************************************************************)
(* Proofs about Ring, for rings of every size and for every set of bytes:  *)
(* its invariants, and that it implements the queue of ByteFifo until it   *)
(* has been full.                                                          *)
(***************************************************************************)
EXTENDS Ring, SequenceTheorems, TLAPS

-----------------------------------------------------------------------------
(* The inductive invariant.                                                *)

\* A ring that is full is known to have been.
FullIsRecorded == count = Size => wasFull

\* An input ring is never marked, never flushed, and keeps a slot free for
\* the byte that may be given back.
InputInv ==
    use = "in" =>
        /\ marked = -1 /\ chunk = NoChunk /\ ~aborted /\ ~wasFull
        /\ count < Size
        /\ got # NoByte => count < Size - 1

\* The mark is on a byte of the ring or right behind the last one.
MarkInv == ~wasFull /\ marked # -1 => Distance(tail, marked) <= count

\* A write in progress concerns bytes that are in the ring, and none behind
\* the mark.
ChunkInv ==
    chunk # NoChunk =>
        /\ chunk.top - tail > 0 /\ chunk.top - tail <= count
        /\ ~wasFull /\ marked > tail => chunk.top <= marked

IndInv ==
    /\ TypeOK
    /\ IndicesAgree
    /\ FullIsRecorded
    /\ InputInv
    /\ MarkInv
    /\ ChunkInv
    /\ AbortsOnlyIfFull

-----------------------------------------------------------------------------
(* The indices.                                                            *)

\* In a ring that is not full the distance from tail to head is the number
\* of bytes (the assertion of ring.cc:155).
LEMMA CountIsDistance ==
    ASSUME TypeOK, IndicesAgree, count < Size
    PROVE  Distance(tail, head) = count
BY SizeAssumption DEF TypeOK, Index, IndicesAgree, Distance

\* Wrap brings an index that is at most Size back into the ring.
LEMMA WrapIndex ==
    ASSUME NEW x \in 0 .. Size
    PROVE  Wrap(x) \in Index /\ Wrap(x) = IF x = Size THEN 0 ELSE x
BY SizeAssumption DEF Wrap, Index

\* In a ring that has never been full flush() finds something to write, so
\* the assertion of ring.cc:143 holds.
LEMMA TopIsGood ==
    ASSUME TypeOK, IndicesAgree, FullIsRecorded, MarkInv, ~wasFull, count > 0
    PROVE  ChunkNotEmpty(Top)
<1>1. count < Size
  BY SizeAssumption DEF TypeOK, FullIsRecorded
<1>2. Distance(tail, head) = count
  BY <1>1, CountIsDistance
<1>3. CASE marked > tail
  BY <1>3, SizeAssumption DEF MarkInv, Distance, TypeOK, Index, ChunkNotEmpty, Top
<1>4. CASE ~(marked > tail)
  BY <1>2, <1>4, SizeAssumption DEF Distance, TypeOK, Index, ChunkNotEmpty, Top
<1>. QED  BY <1>3, <1>4

LEMMA TopRange ==
    ASSUME TypeOK
    PROVE  Top \in 0 .. Size
BY SizeAssumption DEF TypeOK, Index, Top

\* read_source() reads only while two slots are free.
LEMMA ReadTopKeepsASlot ==
    ASSUME TypeOK, IndicesAgree, count < Size, ReadTop # head
    PROVE  count < Size - 1
BY SizeAssumption DEF TypeOK, Index, IndicesAgree, ReadTop

\* Putting a byte in keeps the indices in step.
LEMMA StoreIsGood ==
    ASSUME TypeOK, IndicesAgree, count < Size, NEW b \in Byte, Store(b), tail' = tail
    PROVE  /\ buf' \in [Index -> Byte \cup {NoByte}]
           /\ head' \in Index
           /\ count' = count + 1 /\ count' \in 0 .. Size
           /\ got' = NoByte
           /\ IndicesAgree'
<1>1. head + 1 \in 0 .. Size
  BY SizeAssumption DEF TypeOK, Index
<1>2. head' \in Index /\ head' = IF head + 1 = Size THEN 0 ELSE head + 1
  BY <1>1, WrapIndex DEF Store
<1>3. IndicesAgree'
  BY <1>2, SizeAssumption DEF Store, IndicesAgree, TypeOK, Index
<1>. QED  BY <1>2, <1>3, SizeAssumption DEF Store, TypeOK

-----------------------------------------------------------------------------
LEMMA InitInv == Init => IndInv
<1>. SUFFICES ASSUME Init PROVE IndInv
  OBVIOUS
<1>1. TypeOK
  <2>1. << >> \in Seq(Byte \cup {NoByte})
    OBVIOUS
  <2>2. sent \in [bytes : Seq(Byte \cup {NoByte}), urgent : BOOLEAN]
    BY <2>1 DEF Init, NoWrite
  <2>. QED  BY <2>2, SizeAssumption DEF Init, TypeOK, Index, NoChunk
<1>2. IndicesAgree /\ FullIsRecorded /\ InputInv /\ MarkInv /\ ChunkInv /\ AbortsOnlyIfFull
  BY SizeAssumption DEF Init, IndicesAgree, FullIsRecorded, InputInv, MarkInv, ChunkInv,
        AbortsOnlyIfFull, NoChunk
<1>. QED  BY <1>1, <1>2 DEF IndInv

\* write()
LEMMA WriteInv ==
    ASSUME IndInv, NEW b \in Byte, Write(b)
    PROVE  IndInv'
<1>. USE DEF IndInv
<1>1. /\ buf' \in [Index -> Byte \cup {NoByte}] /\ head' \in Index
      /\ count' = count + 1 /\ count' \in 0 .. Size /\ got' = NoByte /\ IndicesAgree'
  BY StoreIsGood DEF Write
<1>2. TypeOK'
  BY <1>1, SizeAssumption DEF Write, TypeOK
<1>3. FullIsRecorded'
  BY <1>1 DEF Write, FullIsRecorded
<1>4. InputInv'
  BY DEF Write, InputInv
<1>5. MarkInv'
  BY <1>1, SizeAssumption DEF Write, MarkInv, Distance, TypeOK, Index
<1>6. ChunkInv'
  BY <1>1 DEF Write, ChunkInv, TypeOK, Index
<1>7. AbortsOnlyIfFull'
  BY DEF Write, AbortsOnlyIfFull
<1>. QED  BY <1>1, <1>2, <1>3, <1>4, <1>5, <1>6, <1>7

\* set_mark(), which may happen while a write is in progress
LEMMA SetMarkInv ==
    ASSUME IndInv, SetMark
    PROVE  IndInv'
<1>. USE DEF IndInv
<1>1. TypeOK'
  BY SizeAssumption DEF SetMark, TypeOK
<1>2. IndicesAgree' /\ FullIsRecorded' /\ AbortsOnlyIfFull'
  BY DEF SetMark, IndicesAgree, FullIsRecorded, AbortsOnlyIfFull
<1>3. InputInv'
  BY DEF SetMark, InputInv
<1>4. ASSUME ~wasFull PROVE Distance(tail, head) = count
  <2>1. count < Size
    BY <1>4, SizeAssumption DEF TypeOK, FullIsRecorded
  <2>. QED  BY <2>1, CountIsDistance
<1>5. MarkInv'
  BY <1>4 DEF SetMark, MarkInv, TypeOK, Index, Distance
<1>6. ChunkInv'
  BY <1>4, SizeAssumption DEF SetMark, ChunkInv, Distance, TypeOK, Index
<1>. QED  BY <1>1, <1>2, <1>3, <1>5, <1>6

\* The choice of what to write next
LEMMA FlushBeginInv ==
    ASSUME IndInv, FlushBegin
    PROVE  IndInv'
<1>. USE DEF IndInv
<1>1. IndicesAgree' /\ FullIsRecorded' /\ InputInv' /\ MarkInv'
  BY DEF FlushBegin, IndicesAgree, FullIsRecorded, InputInv, MarkInv, Distance
<1>2. CASE IndicesAgree /\ ChunkNotEmpty(Top)
  <2>1. chunk' = [top |-> Top, urgent |-> marked = tail] /\ aborted' = aborted
    BY <1>2 DEF FlushBegin
  <2>2. TypeOK'
    BY <2>1, TopRange DEF FlushBegin, TypeOK
  <2>3. ChunkInv'
    BY <1>2, <2>1, SizeAssumption DEF FlushBegin, ChunkInv, ChunkNotEmpty, Top, TypeOK, Index
  <2>4. AbortsOnlyIfFull'
    BY <2>1 DEF FlushBegin, AbortsOnlyIfFull
  <2>. QED  BY <1>1, <2>2, <2>3, <2>4
<1>3. CASE ~(IndicesAgree /\ ChunkNotEmpty(Top))
  <2>1. chunk' = chunk /\ aborted' = TRUE
    BY <1>3 DEF FlushBegin
  <2>2. TypeOK'
    BY <2>1 DEF FlushBegin, TypeOK
  <2>3. ChunkInv'
    BY <2>1 DEF FlushBegin, ChunkInv
  <2>4. wasFull
    BY <1>3, TopIsGood DEF FlushBegin
  <2>5. AbortsOnlyIfFull'
    BY <2>4 DEF FlushBegin, AbortsOnlyIfFull
  <2>. QED  BY <1>1, <2>2, <2>3, <2>5
<1>. QED  BY <1>2, <1>3

\* The return of the system call: the assertion of ring.cc:155 holds.
LEMMA FlushWroteInv ==
    ASSUME IndInv, NEW n \in 1 .. Size, FlushWrote(n)
    PROVE  IndInv'
<1>. USE DEF IndInv
<1>1. /\ n <= chunk.top - tail /\ chunk.top - tail <= count /\ chunk.top <= Size
      /\ tail + n \in 0 .. Size
  BY SizeAssumption DEF FlushWrote, ChunkInv, TypeOK, Index
<1>2. tail' \in Index /\ tail' = IF tail + n = Size THEN 0 ELSE tail + n
  BY <1>1, WrapIndex DEF FlushWrote
<1>3. count' = count - n /\ count' \in 0 .. Size /\ count' < Size
  BY <1>1, SizeAssumption DEF FlushWrote, TypeOK, Index
<1>4. IndicesAgree'
  <2>1. head' = head /\ head \in 0 .. Size - 1 /\ tail \in 0 .. Size - 1 /\ count \in 0 .. Size
    BY DEF FlushWrote, TypeOK, Index
  <2>2. head - tail - count \in {0, -Size}
    BY DEF IndicesAgree
  <2>3. head' - tail' - count' \in {0, -Size}
    BY <1>2, <1>3, <2>1, <2>2, SizeAssumption DEF Index
  <2>. QED  BY <2>3 DEF IndicesAgree
<1>5. use = "out"
  BY DEF FlushWrote, InputInv, TypeOK
<1>6. TypeOK'
  <2>1. \A i \in 1 .. n : tail + i - 1 \in Index
    BY <1>1, SizeAssumption DEF Index, TypeOK
  <2>2. sent' \in [bytes : Seq(Byte \cup {NoByte}), urgent : BOOLEAN]
    <3>. DEFINE bytes == [i \in 1 .. n |-> buf[tail + i - 1]]
    <3>1. \A i \in 1 .. n : buf[tail + i - 1] \in Byte \cup {NoByte}
      BY <2>1 DEF TypeOK
    <3>2. bytes \in [1 .. n -> Byte \cup {NoByte}]
      BY <3>1
    <3>3. bytes \in Seq(Byte \cup {NoByte})
      BY <3>2
    <3>4. chunk.urgent \in BOOLEAN
      BY DEF TypeOK
    <3>5. sent' = [bytes |-> bytes, urgent |-> chunk.urgent]
      BY DEF FlushWrote
    <3>. HIDE DEF bytes
    <3>. QED  BY <3>3, <3>4, <3>5
  <2>3. chunk' \in [top : 0 .. Size, urgent : BOOLEAN]
    BY SizeAssumption DEF FlushWrote, NoChunk
  <2>. QED  BY <1>2, <1>3, <2>2, <2>3, SizeAssumption DEF FlushWrote, TypeOK
<1>7. FullIsRecorded' /\ ChunkInv'
  BY <1>3 DEF FlushWrote, FullIsRecorded, ChunkInv
<1>8. InputInv'
  BY <1>5 DEF FlushWrote, InputInv
<1>9. MarkInv'
  <2>. SUFFICES ASSUME ~wasFull, marked' # -1 PROVE Distance(tail', marked') <= count'
    BY DEF MarkInv, FlushWrote
  <2>1. /\ marked' = marked /\ marked # tail /\ marked \in 0 .. Size - 1
        /\ tail \in 0 .. Size - 1 /\ count \in 0 .. Size
    BY DEF FlushWrote, TypeOK, Index
  <2>2. Distance(tail, marked) <= count
    BY <2>1, SizeAssumption DEF MarkInv
  <2>3. CASE marked > tail
    <3>1. n <= marked - tail
      BY <1>1, <2>1, <2>3, SizeAssumption DEF FlushWrote, ChunkInv, TypeOK
    <3>2. tail' = tail + n
      BY <1>2, <2>1, <3>1, SizeAssumption DEF Index
    <3>. QED  BY <1>3, <2>1, <2>2, <2>3, <3>1, <3>2, SizeAssumption DEF Distance
  <2>4. CASE marked < tail
    <3>1. marked - tail + Size <= count
      BY <2>1, <2>2, <2>4, SizeAssumption DEF Distance
    <3>2. CASE tail + n = Size
      BY <1>2, <1>3, <2>1, <2>4, <3>1, <3>2, SizeAssumption DEF Distance
    <3>3. CASE tail + n # Size
      <4>1. tail' = tail + n /\ marked < tail'
        BY <1>2, <2>1, <2>4, <3>3, SizeAssumption
      <4>. QED  BY <1>3, <2>1, <3>1, <4>1, SizeAssumption DEF Distance
    <3>. QED  BY <3>2, <3>3
  <2>. QED  BY <2>1, <2>3, <2>4, SizeAssumption
<1>10. AbortsOnlyIfFull'
  <2>1. Distance(tail', head) = count'
    <3>1. head' = head /\ head \in 0 .. Size - 1
      BY DEF FlushWrote, TypeOK, Index
    <3>2. head - tail' - count' \in {0, -Size}
      BY <1>4, <3>1 DEF IndicesAgree
    <3>. QED  BY <1>2, <1>3, <3>1, <3>2, SizeAssumption DEF Distance, Index
  <2>2. aborted' = FALSE
    BY <2>1 DEF FlushWrote
  <2>. QED  BY <2>2 DEF AbortsOnlyIfFull
<1>. QED  BY <1>4, <1>6, <1>7, <1>8, <1>9, <1>10

\* The sink took nothing, or failed.
LEMMA FlushEndsInv ==
    ASSUME IndInv, FlushBlocked \/ FlushFailed
    PROVE  IndInv'
<1>. USE DEF IndInv
<1>1. /\ chunk' = NoChunk /\ marked' \in {marked, -1}
      /\ UNCHANGED <<use, buf, head, tail, count, aborted, sent, got, wasFull>>
  BY DEF FlushBlocked, FlushFailed
<1>2. TypeOK'
  BY <1>1, SizeAssumption DEF TypeOK, NoChunk
<1>3. IndicesAgree' /\ FullIsRecorded' /\ AbortsOnlyIfFull' /\ ChunkInv'
  BY <1>1 DEF IndicesAgree, FullIsRecorded, AbortsOnlyIfFull, ChunkInv
<1>4. InputInv' /\ MarkInv'
  BY <1>1 DEF InputInv, MarkInv, Distance
<1>. QED  BY <1>2, <1>3, <1>4

\* read_source()
LEMMA ReadSourceInv ==
    ASSUME IndInv, NEW b \in Byte, ReadSource(b)
    PROVE  IndInv'
<1>. USE DEF IndInv
<1>1. count < Size - 1
  BY ReadTopKeepsASlot DEF ReadSource, InputInv
<1>2. /\ buf' \in [Index -> Byte \cup {NoByte}] /\ head' \in Index
      /\ count' = count + 1 /\ count' \in 0 .. Size /\ got' = NoByte /\ IndicesAgree'
  <2>1. count < Size
    BY <1>1, SizeAssumption DEF TypeOK
  <2>. QED  BY <2>1, StoreIsGood DEF ReadSource
<1>3. count' < Size /\ ~wasFull'
  BY <1>1, <1>2, SizeAssumption DEF ReadSource, InputInv, TypeOK
<1>4. TypeOK'
  BY <1>2, SizeAssumption DEF ReadSource, TypeOK
<1>5. InputInv'
  BY <1>2, <1>3 DEF ReadSource, InputInv
<1>6. marked' = -1 /\ chunk' = NoChunk /\ ~aborted'
  BY DEF ReadSource, InputInv
<1>7. FullIsRecorded' /\ MarkInv' /\ ChunkInv' /\ AbortsOnlyIfFull'
  BY <1>2, <1>3, <1>6, SizeAssumption
     DEF FullIsRecorded, MarkInv, ChunkInv, AbortsOnlyIfFull
<1>. QED  BY <1>2, <1>4, <1>5, <1>7

\* getch()
LEMMA GetchInv ==
    ASSUME IndInv, Getch
    PROVE  IndInv'
<1>. USE DEF IndInv
<1>1. /\ tail' \in Index /\ tail' = IF tail + 1 = Size THEN 0 ELSE tail + 1
      /\ count' = count - 1 /\ count' \in 0 .. Size
  <2>1. tail + 1 \in 0 .. Size
    BY SizeAssumption DEF TypeOK, Index
  <2>. QED  BY <2>1, WrapIndex, SizeAssumption DEF Getch, TypeOK
<1>2. TypeOK'
  BY <1>1, SizeAssumption DEF Getch, TypeOK
<1>3. IndicesAgree'
  BY <1>1, SizeAssumption DEF Getch, IndicesAgree, TypeOK, Index
<1>4. InputInv'
  <2>1. use = "in" /\ marked' = -1 /\ count' < Size - 1
    BY <1>1, SizeAssumption DEF Getch, InputInv, TypeOK, Index
  <2>. QED  BY <2>1, SizeAssumption DEF Getch, InputInv, TypeOK
<1>5. FullIsRecorded' /\ MarkInv' /\ ChunkInv' /\ AbortsOnlyIfFull'
  BY <1>1, <1>4, SizeAssumption
     DEF Getch, InputInv, FullIsRecorded, MarkInv, ChunkInv, AbortsOnlyIfFull
<1>. QED  BY <1>2, <1>3, <1>4, <1>5

\* ungetch()
LEMMA UngetchInv ==
    ASSUME IndInv, Ungetch
    PROVE  IndInv'
<1>. USE DEF IndInv
<1>1. count < Size - 1 /\ ~wasFull /\ marked = -1 /\ chunk = NoChunk /\ ~aborted
  BY DEF Ungetch, InputInv
<1>2. count' = count + 1 /\ count' \in 0 .. Size /\ count' < Size /\ wasFull' = FALSE
  BY <1>1, SizeAssumption DEF Ungetch, TypeOK
<1>3. tail' \in Index /\ tail' - (tail - 1) \in {0, Size}
  BY SizeAssumption DEF Ungetch, TypeOK, Index
<1>4. TypeOK'
  BY <1>2, <1>3 DEF Ungetch, TypeOK
<1>5. IndicesAgree'
  BY <1>2, <1>3, SizeAssumption DEF Ungetch, IndicesAgree, TypeOK, Index
<1>6. InputInv' /\ FullIsRecorded' /\ MarkInv' /\ ChunkInv' /\ AbortsOnlyIfFull'
  BY <1>1, <1>2 DEF Ungetch, InputInv, FullIsRecorded, MarkInv, ChunkInv, AbortsOnlyIfFull
<1>. QED  BY <1>4, <1>5, <1>6

LEMMA StutterInv == IndInv /\ UNCHANGED vars => IndInv'
BY DEF IndInv, vars, TypeOK, IndicesAgree, FullIsRecorded, InputInv, MarkInv, ChunkInv,
       AbortsOnlyIfFull, Distance

LEMMA NextInv == IndInv /\ [Next]_vars => IndInv'
<1>. SUFFICES ASSUME IndInv, [Next]_vars PROVE IndInv'
  OBVIOUS
<1>1. ASSUME NEW b \in Byte, Write(b) PROVE IndInv'
  BY <1>1, WriteInv
<1>2. CASE SetMark
  BY <1>2, SetMarkInv
<1>3. CASE FlushBegin
  BY <1>3, FlushBeginInv
<1>4. ASSUME NEW n \in 1 .. Size, FlushWrote(n) PROVE IndInv'
  BY <1>4, FlushWroteInv
<1>5. CASE FlushBlocked \/ FlushFailed
  BY <1>5, FlushEndsInv
<1>6. ASSUME NEW b \in Byte, ReadSource(b) PROVE IndInv'
  BY <1>6, ReadSourceInv
<1>7. CASE Getch
  BY <1>7, GetchInv
<1>8. CASE Ungetch
  BY <1>8, UngetchInv
<1>9. CASE UNCHANGED vars
  BY <1>9, StutterInv
<1>. QED  BY <1>1, <1>2, <1>3, <1>4, <1>5, <1>6, <1>7, <1>8, <1>9 DEF Next

-----------------------------------------------------------------------------
(* The theorems.                                                           *)

LEMMA Invariance == Spec => []IndInv
BY InitInv, NextInv, PTL DEF Spec

(***************************************************************************)
(* The indices of a ring and the bounds of a write stay in the buffer,     *)
(* whatever a signal handler does in the middle of flush().                *)
(***************************************************************************)
THEOREM RingTypes == Spec => []TypeOK
<1>1. IndInv => TypeOK
  BY DEF IndInv
<1>. QED  BY <1>1, Invariance, PTL

(***************************************************************************)
(* No assertion of flush() fails in a ring that has never been full.       *)
(***************************************************************************)
THEOREM RingAborts == Spec => []AbortsOnlyIfFull
<1>1. IndInv => AbortsOnlyIfFull
  BY DEF IndInv
<1>. QED  BY <1>1, Invariance, PTL

(***************************************************************************)
(* There is always room in an input ring for the byte that is given back.  *)
(***************************************************************************)
THEOREM RingInput == Spec => []InputNeverFull
<1>1. IndInv => InputNeverFull
  BY DEF IndInv, InputInv, InputNeverFull
<1>. QED  BY <1>1, Invariance, PTL

-----------------------------------------------------------------------------
(* The contents of a ring, as a function of its buffer, tail and count.    *)

Slot == Byte \cup {NoByte}

Before(t) == IF t = 0 THEN Size - 1 ELSE t - 1

ContentsOf(b, t, c) == [i \in 1 .. c |-> b[Wrap(t + i - 1)]]

LEMMA PlaceIndex ==
    ASSUME NEW t \in Index, NEW i \in 1 .. Size
    PROVE  /\ Wrap(t + i - 1) \in Index
           /\ Wrap(t + i - 1) = IF t + i - 1 >= Size THEN t + i - 1 - Size ELSE t + i - 1
BY SizeAssumption DEF Index, Wrap

LEMMA ContentsSeq ==
    ASSUME NEW b \in [Index -> Slot], NEW t \in Index, NEW c \in 0 .. Size
    PROVE  /\ ContentsOf(b, t, c) \in Seq(Slot)
           /\ Len(ContentsOf(b, t, c)) = c
           /\ \A i \in 1 .. c : ContentsOf(b, t, c)[i] = b[Wrap(t + i - 1)]
<1>1. c \in Nat /\ \A i \in 1 .. c : b[Wrap(t + i - 1)] \in Slot
  BY PlaceIndex, SizeAssumption
<1>. QED  BY <1>1 DEF ContentsOf

\* A byte stored at the head comes last.
LEMMA StoreAppends ==
    ASSUME NEW b \in [Index -> Slot], NEW t \in Index, NEW h \in Index,
           NEW c \in 0 .. Size - 1, h - t - c \in {0, -Size}, NEW e \in Slot
    PROVE  ContentsOf([b EXCEPT ![h] = e], t, c + 1) = Append(ContentsOf(b, t, c), e)
<1>. DEFINE new == [b EXCEPT ![h] = e]
            lhs == ContentsOf(new, t, c + 1)
            rhs == Append(ContentsOf(b, t, c), e)
<1>1. c \in 0 .. Size /\ c + 1 \in 0 .. Size /\ new \in [Index -> Slot]
  BY SizeAssumption
<1>2. /\ lhs \in Seq(Slot) /\ Len(lhs) = c + 1
      /\ \A i \in 1 .. c + 1 : lhs[i] = new[Wrap(t + i - 1)]
  <2>. HIDE DEF new
  <2>. QED  BY <1>1, ContentsSeq
<1>3. /\ ContentsOf(b, t, c) \in Seq(Slot) /\ Len(ContentsOf(b, t, c)) = c
      /\ \A i \in 1 .. c : ContentsOf(b, t, c)[i] = b[Wrap(t + i - 1)]
  BY <1>1, ContentsSeq
<1>4. /\ rhs \in Seq(Slot) /\ Len(rhs) = c + 1 /\ rhs[c + 1] = e
      /\ \A i \in 1 .. c : rhs[i] = b[Wrap(t + i - 1)]
  BY <1>3, AppendProperties
<1>5. Wrap(t + (c + 1) - 1) = h
  BY SizeAssumption DEF Index, Wrap
<1>6. \A i \in 1 .. c : Wrap(t + i - 1) \in Index /\ Wrap(t + i - 1) # h
  BY SizeAssumption DEF Index, Wrap
<1>7. new[h] = e /\ \A i \in 1 .. c : new[Wrap(t + i - 1)] = b[Wrap(t + i - 1)]
  BY <1>6
<1>8. \A i \in 1 .. c + 1 : lhs[i] = rhs[i]
  <2>. SUFFICES ASSUME NEW i \in 1 .. c + 1 PROVE lhs[i] = rhs[i]
    OBVIOUS
  <2>. HIDE DEF lhs, rhs, new
  <2>1. CASE i = c + 1
    BY <2>1, <1>2, <1>4, <1>5, <1>7
  <2>2. CASE i # c + 1
    <3>1. i \in 1 .. c
      BY <2>2
    <3>. QED  BY <3>1, <1>2, <1>4, <1>7
  <2>. QED  BY <2>1, <2>2
<1>. HIDE DEF lhs, rhs
<1>9. lhs = rhs
  BY <1>2, <1>4, <1>8, SeqEqual
<1>. QED  BY <1>9 DEF lhs, rhs

\* When n bytes are gone the rest follows.
LEMMA DropLeavesRest ==
    ASSUME NEW b \in [Index -> Slot], NEW t \in Index, NEW c \in 0 .. Size, NEW n \in 1 .. c
    PROVE  ContentsOf(b, Wrap(t + n), c - n) = SubSeq(ContentsOf(b, t, c), n + 1, c)
<1>. DEFINE q == ContentsOf(b, t, c)
            lhs == ContentsOf(b, Wrap(t + n), c - n)
            rhs == SubSeq(q, n + 1, c)
<1>1. c \in Nat /\ c <= Size /\ n \in 1 .. Size /\ c - n \in 0 .. Size /\ n + 1 \in Int
      /\ Wrap(t + n) \in Index
  BY SizeAssumption DEF Index, Wrap
<1>2. q \in Seq(Slot) /\ Len(q) = c /\ \A i \in 1 .. c : q[i] = b[Wrap(t + i - 1)]
  BY ContentsSeq
<1>3. /\ lhs \in Seq(Slot) /\ Len(lhs) = c - n
      /\ \A i \in 1 .. c - n : lhs[i] = b[Wrap(Wrap(t + n) + i - 1)]
  BY <1>1, ContentsSeq
<1>. HIDE DEF q, lhs
<1>4. \A i \in n + 1 .. c : q[i] \in Slot
  BY <1>2, ElementOfSeq
<1>5. /\ rhs \in Seq(Slot) /\ Len(rhs) = IF n + 1 <= c THEN c - (n + 1) + 1 ELSE 0
      /\ \A i \in 1 .. c - (n + 1) + 1 : rhs[i] = q[n + 1 + i - 1]
  BY <1>1, <1>4, SubSeqProperties
<1>6. Len(rhs) = c - n
  BY <1>1, <1>5
<1>7. \A i \in 1 .. c - n : Wrap(Wrap(t + n) + i - 1) = Wrap(t + (n + i) - 1)
  BY SizeAssumption DEF Index, Wrap
<1>8. \A i \in 1 .. c - n : lhs[i] = rhs[i]
  <2>. SUFFICES ASSUME NEW i \in 1 .. c - n PROVE lhs[i] = rhs[i]
    OBVIOUS
  <2>1. n + i \in 1 .. c /\ i \in 1 .. c - (n + 1) + 1 /\ n + 1 + i - 1 = n + i
    OBVIOUS
  <2>. HIDE DEF rhs
  <2>. QED  BY <2>1, <1>2, <1>3, <1>5, <1>7
<1>. HIDE DEF rhs
<1>9. lhs = rhs
  BY <1>3, <1>5, <1>6, <1>8, SeqEqual
<1>. QED  BY <1>9 DEF lhs, rhs, q

\* A chunk that does not pass the end of the buffer is the first bytes.
LEMMA ChunkIsFirst ==
    ASSUME NEW b \in [Index -> Slot], NEW t \in Index, NEW c \in 0 .. Size,
           NEW n \in 1 .. c, t + n <= Size
    PROVE  [i \in 1 .. n |-> b[t + i - 1]] = SubSeq(ContentsOf(b, t, c), 1, n)
<1>. DEFINE q == ContentsOf(b, t, c)
            lhs == [i \in 1 .. n |-> b[t + i - 1]]
            rhs == SubSeq(q, 1, n)
<1>1. c \in Nat /\ n \in Nat /\ n >= 1 /\ n <= c
  BY SizeAssumption
<1>2. q \in Seq(Slot) /\ Len(q) = c /\ \A i \in 1 .. c : q[i] = b[Wrap(t + i - 1)]
  BY ContentsSeq
<1>3. \A i \in 1 .. n : t + i - 1 \in Index /\ Wrap(t + i - 1) = t + i - 1
  BY SizeAssumption DEF Index, Wrap
<1>4. lhs \in Seq(Slot) /\ Len(lhs) = n /\ \A i \in 1 .. n : lhs[i] = b[t + i - 1]
  <2>1. \A i \in 1 .. n : b[t + i - 1] \in Slot
    BY <1>3
  <2>. HIDE DEF Slot
  <2>. QED  BY <1>1, <2>1
<1>. HIDE DEF q
<1>5. \A i \in 1 .. n : q[i] \in Slot /\ q[i] = b[t + i - 1]
  BY <1>1, <1>2, <1>3, ElementOfSeq
<1>6. /\ rhs \in Seq(Slot) /\ Len(rhs) = IF 1 <= n THEN n - 1 + 1 ELSE 0
      /\ \A i \in 1 .. n - 1 + 1 : rhs[i] = q[1 + i - 1]
  BY <1>1, <1>5, SubSeqProperties
<1>7. \A i \in 1 .. n : lhs[i] = rhs[i]
  <2>. SUFFICES ASSUME NEW i \in 1 .. n PROVE lhs[i] = rhs[i]
    OBVIOUS
  <2>1. i \in 1 .. n - 1 + 1 /\ 1 + i - 1 = i
    BY <1>1
  <2>. HIDE DEF rhs, lhs
  <2>. QED  BY <2>1, <1>4, <1>5, <1>6
<1>8. Len(rhs) = n
  BY <1>1, <1>6
<1>. HIDE DEF lhs, rhs
<1>9. lhs = rhs
  BY <1>4, <1>6, <1>7, <1>8, SeqEqual
<1>. QED  BY <1>9 DEF lhs, rhs, q

\* A byte given back comes first.
LEMMA UngetPrepends ==
    ASSUME NEW b \in [Index -> Slot], NEW t \in Index, NEW c \in 0 .. Size - 1
    PROVE  ContentsOf(b, Before(t), c + 1) = << b[Before(t)] >> \o ContentsOf(b, t, c)
<1>. DEFINE q == ContentsOf(b, t, c)
            first == << b[Before(t)] >>
            lhs == ContentsOf(b, Before(t), c + 1)
            rhs == first \o q
<1>1. c \in Nat /\ c \in 0 .. Size /\ c + 1 \in 0 .. Size /\ Before(t) \in Index
  BY SizeAssumption DEF Before, Index
<1>2. q \in Seq(Slot) /\ Len(q) = c /\ \A i \in 1 .. c : q[i] = b[Wrap(t + i - 1)]
  BY <1>1, ContentsSeq
<1>3. /\ lhs \in Seq(Slot) /\ Len(lhs) = c + 1
      /\ \A i \in 1 .. c + 1 : lhs[i] = b[Wrap(Before(t) + i - 1)]
  BY <1>1, ContentsSeq
<1>4. first \in Seq(Slot) /\ Len(first) = 1 /\ first[1] = b[Before(t)]
  BY <1>1
<1>. HIDE DEF q, lhs, first
<1>5. /\ rhs \in Seq(Slot) /\ Len(rhs) = 1 + c
      /\ \A i \in 1 .. 1 + c : rhs[i] = IF i <= 1 THEN first[i] ELSE q[i - 1]
  <2>1. /\ rhs \in Seq(Slot) /\ Len(rhs) = Len(first) + Len(q)
        /\ \A i \in 1 .. Len(first) + Len(q) :
               rhs[i] = IF i <= Len(first) THEN first[i] ELSE q[i - Len(first)]
    <3>. HIDE DEF Slot
    <3>. QED  BY <1>2, <1>4, ConcatProperties
  <2>. HIDE DEF rhs
  <2>. QED  BY <1>2, <1>4, <2>1
<1>6. Wrap(Before(t) + 1 - 1) = Before(t)
  BY SizeAssumption DEF Before, Index, Wrap
<1>7. \A i \in 2 .. c + 1 : Wrap(Before(t) + i - 1) = Wrap(t + (i - 1) - 1)
  BY SizeAssumption DEF Before, Index, Wrap
<1>8. \A i \in 1 .. c + 1 : lhs[i] = rhs[i]
  <2>. SUFFICES ASSUME NEW i \in 1 .. c + 1 PROVE lhs[i] = rhs[i]
    OBVIOUS
  <2>. HIDE DEF rhs
  <2>1. CASE i = 1
    BY <2>1, <1>1, <1>3, <1>4, <1>5, <1>6
  <2>2. CASE i # 1
    <3>1. i \in 2 .. c + 1 /\ i - 1 \in 1 .. c /\ ~(i <= 1) /\ i \in 1 .. 1 + c
      BY <2>2, <1>1
    <3>. QED  BY <3>1, <1>2, <1>3, <1>5, <1>7
  <2>. QED  BY <2>1, <2>2
<1>9. Len(rhs) = c + 1
  BY <1>1, <1>5
<1>. HIDE DEF rhs
<1>10. lhs = rhs
  BY <1>3, <1>5, <1>8, <1>9, SeqEqual
<1>. QED  BY <1>10 DEF lhs, rhs, q, first

-----------------------------------------------------------------------------
(* The further invariant.                                                  *)

\* What getch() has returned is still there, before the tail.
GotInv == ~wasFull /\ got # NoByte => use = "in" /\ buf[Before(tail)] = got

\* A byte marked at the tail is being written as urgent data.
UrgentInv == ~wasFull /\ chunk # NoChunk /\ marked = tail => chunk.urgent

RefInv == IndInv /\ GotInv /\ UrgentInv

LEMMA InitRefInv == Init => RefInv
BY InitInv DEF Init, RefInv, GotInv, UrgentInv

LEMMA NextRefInv == RefInv /\ [Next]_vars => RefInv'
<1>. SUFFICES ASSUME RefInv, [Next]_vars PROVE GotInv' /\ UrgentInv'
  BY NextInv DEF RefInv
<1>1. IndInv /\ TypeOK
  BY DEF RefInv, IndInv
<1>2. GotInv /\ UrgentInv
  BY DEF RefInv
<1>3. ASSUME NEW b \in Byte, Write(b) \/ ReadSource(b) PROVE GotInv' /\ UrgentInv'
  <2>1. got' = NoByte /\ UNCHANGED <<tail, marked, chunk>> /\ (wasFull => wasFull')
    BY <1>3 DEF Write, ReadSource, Store
  <2>. QED  BY <1>2, <2>1 DEF GotInv, UrgentInv
<1>4. CASE SetMark
  <2>1. ~wasFull /\ chunk # NoChunk => head # tail
    BY <1>1, SizeAssumption
       DEF IndInv, ChunkInv, FullIsRecorded, IndicesAgree, TypeOK, Index
  <2>. QED  BY <1>2, <1>4, <2>1 DEF SetMark, GotInv, UrgentInv
<1>5. CASE FlushBegin
  <2>1. /\ chunk' = chunk \/ chunk' = [top |-> Top, urgent |-> marked = tail]
        /\ UNCHANGED <<use, buf, tail, marked, got, wasFull>> /\ chunk = NoChunk
    BY <1>5 DEF FlushBegin
  <2>2. UrgentInv'
    <3>1. CASE chunk' = chunk
      BY <2>1, <3>1 DEF UrgentInv, NoChunk
    <3>2. CASE chunk' = [top |-> Top, urgent |-> marked = tail]
      BY <2>1, <3>2 DEF UrgentInv
    <3>. QED  BY <2>1, <3>1, <3>2
  <2>. QED  BY <1>2, <2>1, <2>2 DEF GotInv, Before
<1>6. ASSUME NEW n \in 1 .. Size, FlushWrote(n) PROVE GotInv' /\ UrgentInv'
  <2>1. use = "out"
    BY <1>1, <1>6 DEF FlushWrote, IndInv, InputInv, TypeOK
  <2>2. got = NoByte \/ wasFull
    BY <1>2, <2>1 DEF GotInv
  <2>3. chunk' = NoChunk /\ got' = got /\ wasFull' = wasFull
    BY <1>6 DEF FlushWrote
  <2>. QED  BY <2>2, <2>3 DEF GotInv, UrgentInv
<1>7. CASE FlushBlocked \/ FlushFailed
  <2>1. chunk' = NoChunk /\ UNCHANGED <<use, buf, tail, got, wasFull>>
    BY <1>7 DEF FlushBlocked, FlushFailed
  <2>. QED  BY <1>2, <2>1 DEF GotInv, UrgentInv, Before
<1>8. CASE Getch
  <2>1. Before(tail') = tail
    BY <1>1, <1>8, SizeAssumption DEF Getch, Wrap, Before, TypeOK, Index
  <2>2. chunk' = NoChunk
    BY <1>1, <1>8 DEF Getch, IndInv, InputInv
  <2>3. use' = "in" /\ buf'[Before(tail')] = got'
    BY <1>8, <2>1 DEF Getch
  <2>. QED  BY <2>2, <2>3 DEF GotInv, UrgentInv
<1>9. CASE Ungetch
  <2>1. chunk' = NoChunk
    BY <1>1, <1>9 DEF Ungetch, IndInv, InputInv
  <2>2. got' = NoByte
    BY <1>9 DEF Ungetch
  <2>. QED  BY <2>1, <2>2 DEF GotInv, UrgentInv
<1>10. CASE UNCHANGED vars
  BY <1>2, <1>10 DEF vars, GotInv, UrgentInv, Before
<1>. QED  BY <1>3, <1>4, <1>5, <1>6, <1>7, <1>8, <1>9, <1>10 DEF Next

LEMMA RefInvariance == Spec => []RefInv
BY InitRefInv, NextRefInv, PTL DEF Spec

-----------------------------------------------------------------------------
(* Every step of the ring is a step of the queue, or none.                 *)

LEMMA ContentsIs ==
    /\ Contents = ContentsOf(buf, tail, count)
    /\ Contents' = ContentsOf(buf', tail', count')
BY DEF Contents, ContentsOf

LEMMA LenContents ==
    ASSUME TypeOK
    PROVE  Len(Contents) = count
BY ContentsIs, ContentsSeq DEF TypeOK, Slot

\* Nothing is promised of a ring that has been full.
LEMMA FullStutters ==
    ASSUME wasFull, wasFull'
    PROVE  UNCHANGED Fifo!vars
BY DEF Fifo!vars

LEMMA InitRef == Init => Fifo!Init
<1>. SUFFICES ASSUME Init PROVE Fifo!Init
  OBVIOUS
<1>1. /\ ~wasFull /\ sent = NoWrite /\ got = NoByte /\ chunk.urgent = FALSE
      /\ MarkPlace = 0
  BY DEF Init, NoChunk, MarkPlace
<1>2. Contents = << >>
  <2>1. TypeOK /\ count = 0
    BY InitInv DEF IndInv, Init
  <2>2. Contents \in Seq(Slot) /\ Len(Contents) = 0
    BY <2>1, LenContents, ContentsIs, ContentsSeq DEF TypeOK, Slot
  <2>. QED  BY <2>2, EmptySeq
<1>. QED  BY <1>1, <1>2 DEF Fifo!Init, Fifo!NoWrite, NoWrite

\* write() and read_source()
LEMMA StoreRef ==
    ASSUME RefInv, NEW b \in Byte, Write(b) \/ ReadSource(b)
    PROVE  Fifo!Next \/ UNCHANGED Fifo!vars
<1>1. TypeOK /\ IndicesAgree /\ count \in 0 .. Size - 1
  <2>1. TypeOK /\ IndicesAgree
    BY DEF RefInv, IndInv
  <2>2. CASE Write(b)
    BY <2>1, <2>2, SizeAssumption DEF Write, TypeOK
  <2>3. CASE ReadSource(b)
    BY <2>1, <2>3, SizeAssumption DEF ReadSource, RefInv, IndInv, InputInv, TypeOK
  <2>. QED  BY <2>1, <2>2, <2>3
<1>2. /\ buf' = [buf EXCEPT ![head] = b] /\ count' = count + 1 /\ got' = NoByte
      /\ UNCHANGED <<tail, marked, chunk, sent>>
      /\ wasFull' = (wasFull \/ count + 1 = Size)
  BY DEF Write, ReadSource, Store
<1>3. Len(Contents) = count
  BY <1>1, LenContents
<1>4. CASE wasFull
  BY <1>2, <1>4, FullStutters
<1>5. CASE ~wasFull /\ count + 1 = Size
  <2>1. wasFull'
    BY <1>2, <1>5
  <2>2. Fifo!Fill
    BY <1>3, <1>5, <2>1 DEF Fifo!Fill, Fifo!NoWrite, NoWrite
  <2>. QED  BY <2>2 DEF Fifo!Next
<1>6. CASE ~wasFull /\ count + 1 # Size
  <2>1. ~wasFull'
    BY <1>2, <1>6
  <2>2. Contents' = Append(Contents, b)
    <3>1. /\ buf \in [Index -> Slot] /\ tail \in Index /\ head \in Index /\ b \in Slot
          /\ head - tail - count \in {0, -Size}
      BY <1>1 DEF TypeOK, Slot, IndicesAgree
    <3>. QED  BY <1>1, <1>2, <3>1, ContentsIs, StoreAppends
  <2>3. MarkPlace' = MarkPlace
    BY <1>2 DEF MarkPlace, Distance
  <2>4. count + 1 < Size
    BY <1>1, <1>6, SizeAssumption
  <2>5. wasFull = FALSE /\ wasFull' = FALSE
    BY <1>1, <1>2, <1>6 DEF TypeOK
  <2>6. Fifo!Put(b)
    BY <1>2, <1>3, <2>2, <2>3, <2>4, <2>5 DEF Fifo!Put
  <2>. QED  BY <2>6 DEF Fifo!Next
<1>. QED  BY <1>4, <1>5, <1>6

\* set_mark()
LEMMA SetMarkRef ==
    ASSUME RefInv, SetMark
    PROVE  Fifo!Next \/ UNCHANGED Fifo!vars
<1>1. TypeOK /\ IndicesAgree /\ FullIsRecorded /\ ChunkInv /\ UrgentInv
  BY DEF RefInv, IndInv
<1>2. marked' = head /\ UNCHANGED <<buf, head, tail, count, chunk, sent, got, wasFull>>
  BY DEF SetMark
<1>3. CASE wasFull
  BY <1>2, <1>3, FullStutters
<1>4. CASE ~wasFull
  <2>1. count < Size
    BY <1>1, <1>4, SizeAssumption DEF FullIsRecorded, TypeOK
  <2>2. MarkPlace' = Len(Contents) + 1
    <3>1. Distance(tail, head) = count
      BY <1>1, <2>1, CountIsDistance
    <3>2. marked' # -1
      BY <1>1, <1>2, SizeAssumption DEF TypeOK, Index
    <3>3. MarkPlace' = Distance(tail, head) + 1
      BY <1>2, <3>2 DEF MarkPlace, Distance
    <3>. QED  BY <1>1, <3>1, <3>3, LenContents
  <2>3. Contents' = Contents
    BY <1>2, ContentsIs
  <2>4. chunk = NoChunk => chunk.urgent = FALSE
    BY DEF NoChunk
  <2>5. chunk # NoChunk => head # tail
    BY <1>1, <2>1, SizeAssumption DEF ChunkInv, IndicesAgree, TypeOK, Index
  <2>6. (MarkPlace = 1) = (marked = tail)
    BY <1>1, SizeAssumption DEF MarkPlace, Distance, TypeOK, Index
  <2>7. (chunk.urgent /\ head # tail) \in
           {chunk.urgent /\ marked # tail, (chunk.urgent /\ marked # tail) \/ marked = tail}
    <3>1. CASE chunk = NoChunk
      BY <2>4, <3>1
    <3>2. CASE chunk # NoChunk
      <4>1. head # tail /\ (marked = tail => chunk.urgent)
        BY <1>1, <1>4, <2>5, <3>2 DEF UrgentInv
      <4>2. chunk.urgent \in BOOLEAN
        BY <1>1 DEF TypeOK
      <4>. QED  BY <4>1, <4>2
    <3>. QED  BY <3>1, <3>2
  <2>8. Fifo!SetMark
    BY <1>2, <1>4, <2>2, <2>3, <2>6, <2>7 DEF Fifo!SetMark
  <2>. QED  BY <2>8 DEF Fifo!Next
<1>. QED  BY <1>3, <1>4

\* flush() up to the write: the queue does not notice.
LEMMA FlushBeginRef ==
    ASSUME RefInv, FlushBegin
    PROVE  UNCHANGED Fifo!vars
<1>1. /\ chunk = NoChunk
      /\ chunk' = chunk \/ chunk' = [top |-> Top, urgent |-> marked = tail]
      /\ UNCHANGED <<buf, head, tail, count, marked, sent, got, wasFull>>
  BY DEF FlushBegin
<1>2. Contents' = Contents /\ MarkPlace' = MarkPlace
  BY <1>1, ContentsIs DEF MarkPlace, Distance
<1>3. /\ (~wasFull /\ chunk.urgent /\ marked # tail) = FALSE
      /\ (~wasFull /\ chunk.urgent /\ marked # tail)' = FALSE
  <2>1. chunk.urgent = FALSE
    BY <1>1 DEF NoChunk
  <2>2. chunk'.urgent = FALSE \/ chunk'.urgent = (marked = tail)
    <3>1. CASE chunk' = chunk
      BY <2>1, <3>1
    <3>2. CASE chunk' = [top |-> Top, urgent |-> marked = tail]
      BY <3>2
    <3>. QED  BY <1>1, <3>1, <3>2
  <2>. QED  BY <1>1, <2>1, <2>2
<1>. QED  BY <1>1, <1>2, <1>3 DEF Fifo!vars

\* flush() when the write has taken nothing, or failed
LEMMA FlushEndsRef ==
    ASSUME RefInv, FlushBlocked \/ FlushFailed
    PROVE  Fifo!Next \/ UNCHANGED Fifo!vars
<1>1. /\ chunk' = NoChunk /\ (marked' = marked \/ marked' = -1)
      /\ UNCHANGED <<buf, head, tail, count, sent, got, wasFull>>
  BY DEF FlushBlocked, FlushFailed
<1>2. CASE wasFull
  BY <1>1, <1>2, FullStutters
<1>3. CASE ~wasFull
  <2>1. Contents' = Contents /\ MarkPlace' \in {MarkPlace, 0}
    BY <1>1, ContentsIs DEF MarkPlace, Distance
  <2>2. (~wasFull /\ chunk.urgent /\ marked # tail)' = FALSE
    BY <1>1 DEF NoChunk
  <2>3. wasFull = FALSE /\ wasFull' = FALSE
    BY <1>1, <1>3 DEF RefInv, IndInv, TypeOK
  <2>4. Fifo!Fail
    BY <1>1, <2>1, <2>2, <2>3 DEF Fifo!Fail
  <2>. QED  BY <2>4 DEF Fifo!Next
<1>. QED  BY <1>2, <1>3

\* flush() when the write has taken n bytes
LEMMA FlushWroteRef ==
    ASSUME RefInv, NEW n \in 1 .. Size, FlushWrote(n)
    PROVE  Fifo!Next \/ UNCHANGED Fifo!vars
<1>1. TypeOK /\ IndicesAgree /\ MarkInv /\ ChunkInv /\ UrgentInv
  BY DEF RefInv, IndInv
<1>2. /\ chunk # NoChunk /\ n <= chunk.top - tail
      /\ sent' = [bytes |-> [i \in 1 .. n |-> buf[tail + i - 1]], urgent |-> chunk.urgent]
      /\ marked' = IF marked = tail THEN -1 ELSE marked
      /\ tail' = Wrap(tail + n) /\ count' = count - n /\ chunk' = NoChunk
      /\ UNCHANGED <<buf, head, got, wasFull>>
  BY DEF FlushWrote
<1>3. CASE wasFull
  BY <1>2, <1>3, FullStutters
<1>4. CASE ~wasFull
  <2>1. /\ n \in 1 .. count /\ tail + n <= Size /\ count \in 0 .. Size
        /\ tail \in 0 .. Size - 1 /\ tail \in Index /\ buf \in [Index -> Slot]
        /\ marked \in (0 .. Size - 1) \cup {-1}
    BY <1>1, <1>2, SizeAssumption DEF ChunkInv, TypeOK, Index, Slot
  <2>2. Len(Contents) = count
    BY <1>1, LenContents
  <2>3. sent' = [bytes |-> SubSeq(Contents, 1, n), urgent |-> chunk.urgent]
    <3>1. [i \in 1 .. n |-> buf[tail + i - 1]] = SubSeq(Contents, 1, n)
      BY <2>1, ContentsIs, ChunkIsFirst
    <3>. QED  BY <1>2, <3>1
  <2>4. Contents' = SubSeq(Contents, n + 1, Len(Contents))
    BY <1>2, <2>1, <2>2, ContentsIs, DropLeavesRest
  <2>5. (MarkPlace = 1) = (marked = tail) /\ MarkPlace \in Nat
    BY <2>1, SizeAssumption DEF MarkPlace, Distance
  <2>6. /\ MarkPlace <= 1 \/ n < MarkPlace
        /\ MarkPlace' = IF MarkPlace <= 1 THEN 0 ELSE MarkPlace - n
    <3>1. CASE marked = tail
      <4>1. MarkPlace' = 0
        BY <1>2, <3>1 DEF MarkPlace
      <4>. QED  BY <2>5, <3>1, <4>1
    <3>2. CASE marked = -1
      <4>1. marked' = -1
        BY <1>2, <3>2
      <4>2. MarkPlace' = 0 /\ MarkPlace = 0
        BY <3>2, <4>1 DEF MarkPlace
      <4>. QED  BY <4>2
    <3>3. CASE marked # tail /\ marked # -1
      <4>1. marked' = marked /\ marked \in 0 .. Size - 1
        BY <1>2, <2>1, <3>3
      <4>2. MarkPlace = Distance(tail, marked) + 1 /\ MarkPlace' = Distance(tail', marked) + 1
        BY <3>3, <4>1 DEF MarkPlace, Distance
      <4>3. marked > tail => n <= marked - tail
        BY <1>1, <1>2, <1>4, <2>1, <4>1, SizeAssumption DEF ChunkInv, TypeOK
      <4>4. tail' = IF tail + n = Size THEN 0 ELSE tail + n
        BY <1>2, <2>1, SizeAssumption, WrapIndex
      <4>5. n <= Distance(tail, marked) /\ Distance(tail', marked) = Distance(tail, marked) - n
        BY <2>1, <3>3, <4>1, <4>3, <4>4, SizeAssumption DEF Distance
      <4>6. Distance(tail, marked) \in Nat /\ Distance(tail, marked) >= 1
        BY <2>1, <3>3, <4>1, SizeAssumption DEF Distance
      <4>. QED  BY <2>1, <4>2, <4>5, <4>6
    <3>. QED  BY <3>1, <3>2, <3>3
  <2>7. /\ MarkPlace = 1 => chunk.urgent
        /\ chunk.urgent => MarkPlace = 1 \/ (~wasFull /\ chunk.urgent /\ marked # tail)
        /\ chunk.urgent \in BOOLEAN
    BY <1>1, <1>2, <1>4, <2>5 DEF UrgentInv, TypeOK
  <2>8. (~wasFull /\ chunk.urgent /\ marked # tail)' = FALSE
    BY <1>2 DEF NoChunk
  <2>9. wasFull = FALSE /\ wasFull' = FALSE
    BY <1>1, <1>2, <1>4 DEF TypeOK
  <2>10. Fifo!Take(n, chunk.urgent)
    BY <1>2, <2>3, <2>4, <2>6, <2>7, <2>8, <2>9 DEF Fifo!Take
  <2>. QED  BY <2>1, <2>2, <2>7, <2>9, <2>10 DEF Fifo!Next
<1>. QED  BY <1>3, <1>4
\* getch()
LEMMA GetchRef ==
    ASSUME RefInv, Getch
    PROVE  Fifo!Next \/ UNCHANGED Fifo!vars
<1>1. TypeOK /\ InputInv
  BY DEF RefInv, IndInv
<1>2. /\ use = "in" /\ count > 0 /\ got' = buf[tail] /\ tail' = Wrap(tail + 1)
      /\ marked' = (IF marked = tail THEN -1 ELSE marked)
      /\ count' = count - 1 /\ UNCHANGED <<buf, chunk, sent, wasFull>>
  BY DEF Getch
<1>3. marked = -1 /\ marked' = -1 /\ chunk = NoChunk /\ wasFull = FALSE /\ wasFull' = FALSE
  BY <1>1, <1>2 DEF InputInv, TypeOK
<1>4. /\ count \in 0 .. Size /\ 1 \in 1 .. count /\ tail \in Index /\ buf \in [Index -> Slot]
  BY <1>1, <1>2, SizeAssumption DEF TypeOK, Slot
<1>5. Contents \in Seq(Slot) /\ Len(Contents) = count /\ Contents # << >>
  BY <1>2, <1>4, ContentsIs, ContentsSeq, EmptySeq
<1>6. Contents' = Tail(Contents)
  <2>1. Contents' = SubSeq(Contents, 1 + 1, count)
    BY <1>2, <1>4, ContentsIs, DropLeavesRest
  <2>. QED  BY <1>5, <2>1, TailIsSubSeq
<1>7. got' = Head(Contents)
  <2>1. Contents[1] = buf[Wrap(tail + 1 - 1)]
    BY <1>4, ContentsIs, ContentsSeq
  <2>2. Wrap(tail + 1 - 1) = tail
    BY <1>4, SizeAssumption DEF Wrap, Index
  <2>. QED  BY <1>2, <1>5, <2>1, <2>2
<1>8. MarkPlace = 0 /\ MarkPlace' = 0
  BY <1>3 DEF MarkPlace
<1>9. /\ (~wasFull /\ chunk.urgent /\ marked # tail) = FALSE
      /\ (~wasFull /\ chunk.urgent /\ marked # tail)' = FALSE
  BY <1>2, <1>3 DEF NoChunk
<1>10. Fifo!Get
  BY <1>2, <1>3, <1>5, <1>6, <1>7, <1>8, <1>9 DEF Fifo!Get
<1>. QED  BY <1>10 DEF Fifo!Next

\* ungetch()
LEMMA UngetchRef ==
    ASSUME RefInv, Ungetch
    PROVE  Fifo!Next \/ UNCHANGED Fifo!vars
<1>1. TypeOK /\ InputInv /\ GotInv
  BY DEF RefInv, IndInv
<1>2. /\ use = "in" /\ got # NoByte /\ tail' = Before(tail) /\ count' = count + 1
      /\ got' = NoByte /\ wasFull' = (wasFull \/ count + 1 = Size)
      /\ UNCHANGED <<buf, marked, chunk, sent>>
  BY DEF Ungetch, Before
<1>3. marked = -1 /\ chunk = NoChunk /\ wasFull = FALSE /\ count < Size - 1
  BY <1>1, <1>2 DEF InputInv, TypeOK
<1>4. count \in 0 .. Size - 1 /\ tail \in Index /\ buf \in [Index -> Slot]
  BY <1>1, <1>3, SizeAssumption DEF TypeOK, Slot
<1>5. wasFull' = FALSE
  <2>1. count + 1 # Size
    BY <1>3, <1>4, SizeAssumption
  <2>2. wasFull' = (wasFull \/ count + 1 = Size)
    BY <1>2
  <2>. QED  BY <1>3, <2>1, <2>2
<1>6. buf[Before(tail)] = got
  BY <1>1, <1>2, <1>3 DEF GotInv
<1>7. Contents' = << got >> \o Contents
  BY <1>2, <1>4, <1>6, ContentsIs, UngetPrepends
<1>8. MarkPlace = 0 /\ MarkPlace' = 0
  BY <1>2, <1>3 DEF MarkPlace
<1>9. /\ (~wasFull /\ chunk.urgent /\ marked # tail) = FALSE
      /\ (~wasFull /\ chunk.urgent /\ marked # tail)' = FALSE
  BY <1>2, <1>3 DEF NoChunk
<1>10. Fifo!Unget
  BY <1>2, <1>3, <1>5, <1>7, <1>8, <1>9 DEF Fifo!Unget
<1>. QED  BY <1>10 DEF Fifo!Next

LEMMA NextRef == RefInv /\ [Next]_vars => [Fifo!Next]_(Fifo!vars)
<1>. SUFFICES ASSUME RefInv, [Next]_vars PROVE Fifo!Next \/ UNCHANGED Fifo!vars
  OBVIOUS
<1>1. ASSUME NEW b \in Byte, Write(b) \/ ReadSource(b)
      PROVE  Fifo!Next \/ UNCHANGED Fifo!vars
  BY <1>1, StoreRef
<1>2. CASE SetMark
  BY <1>2, SetMarkRef
<1>3. CASE FlushBegin
  BY <1>3, FlushBeginRef
<1>4. ASSUME NEW n \in 1 .. Size, FlushWrote(n)
      PROVE  Fifo!Next \/ UNCHANGED Fifo!vars
  BY <1>4, FlushWroteRef
<1>5. CASE FlushBlocked \/ FlushFailed
  BY <1>5, FlushEndsRef
<1>6. CASE Getch
  BY <1>6, GetchRef
<1>7. CASE Ungetch
  BY <1>7, UngetchRef
<1>8. CASE UNCHANGED vars
  BY <1>8 DEF vars, Fifo!vars, Contents, MarkPlace, Distance, Wrap
<1>. QED  BY <1>1, <1>2, <1>3, <1>4, <1>5, <1>6, <1>7, <1>8 DEF Next

(***************************************************************************)
(* A ring of any size is the queue of ByteFifo until it has been full:     *)
(* every byte written by the program or by a signal handler goes out once  *)
(* and in order, the marked one as urgent data at the head of its write.   *)
(***************************************************************************)
THEOREM RingImplementsFifo == Spec => ImplementsFifo
BY InitRef, NextRef, RefInvariance, PTL DEF Spec, ImplementsFifo, Fifo!Spec
=============================================================================
