---------------------------- MODULE ServerIOProofs ----------------------------
(***************************************************************************)
(* Proofs about ServerIO for every size of the buffers, every peer and     *)
(* every program behind the pty.  Of the input: its types, that ptyobuf is *)
(* never overrun, and that a hang-up leaves no input behind (IndInv).  Of  *)
(* the output: that the urgent pointer is always at the DM of a whole      *)
(* Synch, that nothing is lost, sent twice or moved on the way to the      *)
(* socket but by netclear() (NetSound, which rests on Good of the buffers  *)
(* of netfile), and that what is written reads as what the pty said        *)
(* (Legible).  Of the two ends together: that telrcv() understands the     *)
(* client's octets as they are meant, however the reads cut them           *)
(* (Attends).                                                              *)
(***************************************************************************)
EXTENDS ServerIO, SequenceLemmas, FiniteSetTheorems, TLAPS

-----------------------------------------------------------------------------
(* The buffers to the network.  First some helpers.                        *)

LEMMA LeastIs ==
    ASSUME NEW T \in SUBSET Nat, T # {}
    PROVE  Min(T) \in T
<1>1. PICK n \in T : \A m \in T : ~ (m < n)
  BY LeastElement
<1>2. \A m \in T : n <= m
  BY <1>1
<1>. QED  BY <1>2 DEF Min

-----------------------------------------------------------------------------
(* The operator Only                                                       *)

LEMMA OnlyType ==
    ASSUME NEW S, NEW s \in Seq(S), NEW keep
    PROVE  Only(s, keep) \in Seq(S)
<1>. DEFINE g == [i \in DOMAIN s |-> IF i \in keep THEN <<s[i]>> ELSE << >>]
<1>1. g \in Seq(Seq(S))
  <2>1. DOMAIN s = 1 .. Len(s) /\ Len(s) \in Nat
    OBVIOUS
  <2>2. ASSUME NEW i \in DOMAIN s PROVE g[i] \in Seq(S)
    <3>1. s[i] \in S
      OBVIOUS
    <3>2. <<s[i]>> \in Seq(S) /\ << >> \in Seq(S)
      BY <3>1
    <3>. QED  BY <3>2
  <2>. DEFINE Piece == Seq(S)
  <2>3. g = [i \in 1 .. Len(s) |-> g[i]] /\ \A i \in 1 .. Len(s) : g[i] \in Piece
    BY <2>1, <2>2
  <2>. HIDE DEF Piece, g
  <2>4. g \in Seq(Piece)
    BY <2>1, <2>3, ListedSeq
  <2>. QED  BY <2>4 DEF Piece
<1>. HIDE DEF g
<1>2. FlattenSeq(g) \in Seq(S)
  BY <1>1, FlattenType
<1>. QED  BY <1>2 DEF Only, g

LEMMA OnlyEnds ==
    ASSUME NEW S, NEW s \in Seq(S), s # <<>>, NEW keep, Len(s) \in keep
    PROVE  Only(s, keep) # <<>> /\ Last(Only(s, keep)) = s[Len(s)]
<1>. DEFINE n == Len(s)
            g == [i \in DOMAIN s |-> IF i \in keep THEN <<s[i]>> ELSE << >>]
            h == [i \in 1 .. n - 1 |-> g[i]]
            Piece == Seq(S)
            c == s[n]
<1>0. n \in Nat /\ n - 1 \in Nat /\ n \in 1 .. n /\ c \in S /\ DOMAIN s = 1 .. n
  OBVIOUS
<1>1. \A i \in 1 .. n : g[i] \in Piece
  <2>1. \A i \in 1 .. n : <<s[i]>> \in Seq(S) /\ << >> \in Seq(S)
    OBVIOUS
  <2>. QED  BY <1>0, <2>1
<1>2. g[n] = <<c>>
  BY <1>0
<1>3. g = [i \in 1 .. n |-> g[i]]
  BY <1>0
<1>. HIDE DEF g, Piece, c
<1>4. g \in Seq(Piece) /\ Len(g) = n
  <2>. HIDE DEF n
  <2>. QED  BY <1>0, <1>1, <1>3, ListedSeq
<1>5. h \in Seq(Piece) /\ Len(h) = n - 1 /\ \A i \in 1 .. n - 1 : h[i] = g[i]
  BY <1>0, <1>1
<1>. HIDE DEF h, n
<1>6. g = h \o <<g[n]>>
  <2>1. g[n] \in Piece
    BY <1>0, <1>1
  <2>. QED  BY <1>0, <1>4, <1>5, <2>1
<1>7. FlattenSeq(g) = FlattenSeq(h) \o <<c>> /\ FlattenSeq(h) \in Seq(S)
  <2>1. <<c>> \in Seq(S) /\ h \in Seq(Seq(S))
    BY <1>0, <1>5 DEF Piece
  <2>2. FlattenSeq(h \o <<(<<c>>)>>) = FlattenSeq(h) \o <<c>>
    BY <2>1, FlattenConcat
  <2>3. FlattenSeq(h) \in Seq(S)
    BY <2>1, FlattenType
  <2>. QED  BY <1>2, <1>6, <2>2, <2>3
<1>8. \A q \in Seq(S) : q \o <<c>> # <<>> /\ Last(q \o <<c>>) = c
  BY <1>0 DEF Last
<1>9. Only(s, keep) = FlattenSeq(g)
  BY DEF Only, g
<1>. QED  BY <1>7, <1>8, <1>9 DEF c, n

-----------------------------------------------------------------------------
(* nextitem()                                                              *)

\* g[i] is what SuboptionEnd of s finds from its i-th octet on.
EndFrom(s, g) ==
    \A i \in 3 .. Len(s) + 1 :
        g[i] = IF i >= Len(s) THEN 0
               ELSE IF s[i].code # "IAC" THEN g[i + 1]
               ELSE IF s[i + 1].code = "SE" THEN i + 1
               ELSE g[i + 2]

LEMMA SuboptionEndIs ==
    ASSUME NEW s \in Seq(Octet), Len(s) > 2
    PROVE  \E g : EndFrom(s, g) /\ SuboptionEnd(s) = g[3]
<1>. DEFINE n == Len(s) + 1
            stop == {i \in 3 .. n : i >= Len(s) \/ (s[i].code = "IAC" /\ s[i + 1].code = "SE")}
            next == [i \in 3 .. n |-> IF s[i].code # "IAC" THEN i + 1 ELSE i + 2]
            base == [i \in 3 .. n |-> IF i >= Len(s) THEN 0 ELSE i + 1]
            f == [p \in (3 .. n) \X Nat |-> p[2]]
            Step(g) == g = [i \in 3 .. Len(s) + 1 |->
                               IF i >= Len(s) THEN 0
                               ELSE IF s[i].code # "IAC" THEN g[i + 1]
                               ELSE IF s[i + 1].code = "SE" THEN i + 1
                               ELSE g[i + 2]]
            end == CHOOSE g : Step(g)
<1>0. n \in Nat /\ 3 <= n /\ 3 \in Nat
  OBVIOUS
<1>1. Jumps(3, n, stop, next)
  BY DEF Jumps
<1>2. base \in [3 .. n -> Nat] /\ f \in [(3 .. n) \X Nat -> Nat]
  OBVIOUS
<1>3. PICK g \in [3 .. n -> Nat] : Backwards(g, 3, n, stop, next, base, f)
  <2>. HIDE DEF n, stop, next, base, f
  <2>. QED  BY <1>0, <1>1, <1>2, BackwardsExists
<1>4. Step(g)
  <2>1. ASSUME NEW i \in 3 .. n
        PROVE  g[i] = IF i >= Len(s) THEN 0
                      ELSE IF s[i].code # "IAC" THEN g[i + 1]
                      ELSE IF s[i + 1].code = "SE" THEN i + 1
                      ELSE g[i + 2]
    <3>1. g[i] = IF i \in stop THEN base[i] ELSE f[<<i, g[next[i]]>>]
      BY <1>3 DEF Backwards
    <3>2. CASE i \in stop
      BY <3>1, <3>2
    <3>3. CASE i \notin stop
      <4>1. next[i] \in 3 .. n
        BY <3>3
      <4>2. g[next[i]] \in Nat
        BY <1>3, <4>1
      <4>3. g[i] = g[next[i]]
        BY <3>1, <3>3, <4>2
      <4>. QED  BY <3>3, <4>3
    <3>. QED  BY <3>2, <3>3
  <2>2. g = [i \in 3 .. n |-> g[i]]
    BY <1>3
  <2>. QED  BY <2>1, <2>2
<1>5. Step(end)
  <2>. HIDE DEF Step
  <2>. QED  BY <1>4
<1>6. SuboptionEnd(s) = end[3]
  BY DEF SuboptionEnd
<1>. HIDE DEF end
<1>7. EndFrom(s, end)
  BY <1>5 DEF EndFrom
<1>. QED  BY <1>6, <1>7

LEMMA EndWithin ==
    ASSUME NEW s \in Seq(Octet), NEW g, EndFrom(s, g)
    PROVE  \A i \in 3 .. Len(s) + 1 : g[i] = 0 \/ g[i] \in i + 1 .. Len(s)
<1>. DEFINE n == Len(s) + 1
            T == {i \in 3 .. n : g[i] = 0 \/ g[i] \in i + 1 .. Len(s)}
<1>0. n \in Nat /\ 3 \in Nat
  OBVIOUS
<1>1. ASSUME NEW i \in 3 .. n, \A j \in i + 1 .. n : j \in T PROVE i \in T
  <2>1. g[i] = IF i >= Len(s) THEN 0
               ELSE IF s[i].code # "IAC" THEN g[i + 1]
               ELSE IF s[i + 1].code = "SE" THEN i + 1
               ELSE g[i + 2]
    BY DEF EndFrom
  <2>2. CASE i >= Len(s)
    BY <2>1, <2>2
  <2>3. CASE i < Len(s)
    <3>1. i + 1 \in T /\ i + 2 \in T
      BY <1>1, <2>3
    <3>. QED  BY <2>1, <2>3, <3>1
  <2>. QED  BY <2>2, <2>3
<1>2. 3 .. n \subseteq T
  <2>. HIDE DEF T, n
  <2>. QED  BY <1>0, <1>1, DownTo
<1>. QED  BY <1>2

\* What is added to a suboption without an end does not end it within.
LEMMA EndBehind ==
    ASSUME NEW s \in Seq(Octet), NEW t \in Seq(Octet), Len(s) > 2,
           SuboptionEnd(s) = 0
    PROVE  SuboptionEnd(s \o t) = 0 \/ SuboptionEnd(s \o t) > Len(s)
<1>. DEFINE m == Len(s)
            r == s \o t
<1>0. /\ m \in Nat /\ r \in Seq(Octet) /\ Len(r) \in Nat /\ Len(r) >= m
      /\ \A i \in 1 .. m : r[i] = s[i]
  <2>1. /\ r \in Seq(Octet) /\ Len(r) = Len(s) + Len(t) /\ Len(t) \in Nat
        /\ \A i \in 1 .. Len(s) + Len(t) : r[i] = IF i <= Len(s) THEN s[i] ELSE t[i - Len(s)]
    BY ConcatProperties
  <2>. HIDE DEF r
  <2>. QED  BY <2>1
<1>. HIDE DEF r
<1>1. PICK g : EndFrom(s, g) /\ g[3] = 0
  BY SuboptionEndIs
<1>2. PICK h : EndFrom(r, h) /\ SuboptionEnd(r) = h[3]
  BY <1>0, SuboptionEndIs
<1>3. \A i \in 3 .. Len(r) + 1 : h[i] = 0 \/ h[i] \in i + 1 .. Len(r)
  BY <1>0, <1>2, EndWithin
<1>. DEFINE T == {i \in 3 .. m + 1 : g[i] = 0 => h[i] = 0 \/ h[i] > m}
<1>4. ASSUME NEW i \in 3 .. m + 1, \A j \in i + 1 .. m + 1 : j \in T PROVE i \in T
  <2>0. i \in 3 .. Len(r) + 1
    BY <1>0
  <2>1. g[i] = IF i >= Len(s) THEN 0
               ELSE IF s[i].code # "IAC" THEN g[i + 1]
               ELSE IF s[i + 1].code = "SE" THEN i + 1
               ELSE g[i + 2]
    BY <1>1 DEF EndFrom
  <2>2. h[i] = IF i >= Len(r) THEN 0
               ELSE IF r[i].code # "IAC" THEN h[i + 1]
               ELSE IF r[i + 1].code = "SE" THEN i + 1
               ELSE h[i + 2]
    BY <1>2, <2>0 DEF EndFrom
  <2>3. CASE i >= m
    BY <1>0, <1>3, <2>0, <2>3
  <2>4. CASE i < m
    <3>1. i + 1 \in T /\ i + 2 \in T
      BY <1>4, <2>4
    <3>2. r[i] = s[i] /\ r[i + 1] = s[i + 1] /\ i < Len(r)
      <4>1. i \in 1 .. m /\ i + 1 \in 1 .. m
        BY <1>0, <2>4
      <4>2. i < Len(r)
        BY <1>0, <2>4
      <4>. QED  BY <1>0, <4>1, <4>2
    <3>. QED  BY <2>1, <2>2, <2>4, <3>1, <3>2
  <2>. QED  BY <1>0, <2>3, <2>4
<1>5. 3 \in T
  <2>0. m + 1 \in Nat /\ 3 \in Nat /\ 3 \in 3 .. m + 1
    OBVIOUS
  <2>. DEFINE n == m + 1
  <2>1. \A i \in 3 .. n : (\A j \in i + 1 .. n : j \in T) => i \in T
    BY <1>4
  <2>. HIDE DEF T, m, n
  <2>2. n \in Nat
    BY <2>0 DEF n
  <2>3. 3 .. n \subseteq T
    BY <2>0, <2>1, <2>2, DownTo
  <2>. QED  BY <2>0, <2>3 DEF n
<1>. QED  BY <1>1, <1>2, <1>5 DEF r

LEMMA ItemLengthType ==
    ASSUME NEW s \in Seq(Octet), s # <<>>
    PROVE  ItemLength(s) \in Nat /\ (ItemLength(s) = 0 => s[1].code = "IAC")
<1>. DEFINE I == {i \in 1 .. Len(Tail(s)) : Tail(s)[i].code = "IAC"}
            iac == IF I # {} THEN Min(I) ELSE 0
            end == SuboptionEnd(s)
<1>0. Len(s) \in Nat /\ Len(s) # 0
  OBVIOUS
<1>1. iac \in Nat
  <2>1. I \in SUBSET Nat
    OBVIOUS
  <2>. HIDE DEF I
  <2>2. I # {} => Min(I) \in I
    BY <2>1, LeastIs
  <2>. QED  BY <2>1, <2>2
<1>2. Len(s) > 2 => end \in Nat
  <2>. SUFFICES ASSUME Len(s) > 2 PROVE end \in Nat
    OBVIOUS
  <2>1. PICK g : EndFrom(s, g) /\ end = g[3]
    BY SuboptionEndIs
  <2>. HIDE DEF end
  <2>2. \A i \in 3 .. Len(s) + 1 : g[i] = 0 \/ g[i] \in i + 1 .. Len(s)
    BY <2>1, EndWithin
  <2>3. 3 \in 3 .. Len(s) + 1
    BY <1>0
  <2>. QED  BY <1>0, <2>1, <2>2, <2>3
<1>3. SelectInSeq(Tail(s), LAMBDA c : c.code = "IAC") = iac
  BY DEF SelectInSeq
<1>. HIDE DEF iac, end
<1>4. ItemLength(s) =
        IF s[1].code # "IAC" THEN IF iac = 0 THEN Len(s) ELSE iac + 1
        ELSE IF Len(s) = 1 THEN 0
        ELSE CASE s[2].code = "WILL" -> 3
               [] s[2].code = "SB" /\ Len(s) = 2 -> 0
               [] s[2].code = "SB" /\ Len(s) > 2 -> end
               [] OTHER -> 2
  BY <1>3 DEF ItemLength, end
<1>5. CASE s[1].code # "IAC"
  BY <1>0, <1>1, <1>4, <1>5
<1>6. CASE s[1].code = "IAC"
  BY <1>0, <1>2, <1>4, <1>6
<1>. QED  BY <1>5, <1>6

\* An item without its end, or a Synch.
Open(s) == ItemLength(s) = 0 \/ s = Synch

LEMMA ItemGoesOn ==
    ASSUME NEW s \in Seq(Octet), s # <<>>, Open(s), NEW t \in Seq(Octet), t # <<>>
    PROVE  ItemLength(s \o t) = 0 \/ ItemLength(s \o t) >= Len(s)
<1>. DEFINE r == s \o t
            m == Len(s)
            n == Len(r)
            l == ItemLength(r)
<1>0. /\ m \in Nat /\ m >= 1 /\ n \in Nat /\ n > m /\ r \in Seq(Octet) /\ r # <<>>
      /\ \A i \in 1 .. m : r[i] = s[i]
  <2>1. /\ r \in Seq(Octet) /\ Len(r) = Len(s) + Len(t)
        /\ \A i \in 1 .. Len(s) + Len(t) : r[i] = IF i <= Len(s) THEN s[i] ELSE t[i - Len(s)]
    BY ConcatProperties
  <2>2. Len(s) \in Nat /\ Len(t) \in Nat /\ Len(s) >= 1 /\ Len(t) >= 1
    OBVIOUS
  <2>. HIDE DEF r
  <2>. QED  BY <2>1, <2>2
<1>. HIDE DEF r
<1>1. l \in Nat
  BY <1>0, ItemLengthType
<1>2. r[1].code = "IAC" =>
        l = CASE r[2].code = "WILL" -> 3
              [] r[2].code = "SB" /\ n = 2 -> 0
              [] r[2].code = "SB" /\ n > 2 -> SuboptionEnd(r)
              [] OTHER -> 2
  BY <1>0 DEF ItemLength
<1>3. s[1].code = "IAC" /\ m # 1 =>
        ItemLength(s) = CASE s[2].code = "WILL" -> 3
                          [] s[2].code = "SB" /\ m = 2 -> 0
                          [] s[2].code = "SB" /\ m > 2 -> SuboptionEnd(s)
                          [] OTHER -> 2
  BY <1>0 DEF ItemLength
<1>4. n > 2 => SuboptionEnd(r) = 0 \/ SuboptionEnd(r) >= 4
  <2>. SUFFICES ASSUME n > 2 PROVE SuboptionEnd(r) = 0 \/ SuboptionEnd(r) >= 4
    OBVIOUS
  <2>1. PICK g : EndFrom(r, g) /\ SuboptionEnd(r) = g[3]
    BY <1>0, SuboptionEndIs
  <2>2. \A i \in 3 .. n + 1 : g[i] = 0 \/ g[i] \in i + 1 .. n
    BY <1>0, <2>1, EndWithin
  <2>3. 3 \in 3 .. n + 1
    BY <1>0
  <2>. QED  BY <1>0, <2>1, <2>2, <2>3
<1>5. m > 2 /\ SuboptionEnd(s) = 0 => SuboptionEnd(r) = 0 \/ SuboptionEnd(r) > m
  BY EndBehind DEF r
<1>6. CASE s = Synch
  <2>1. m = 2 /\ s[1].code = "IAC" /\ s[2].code = "DM"
    BY <1>6 DEF Synch, Command
  <2>2. r[1].code = "IAC" /\ r[2].code = "DM"
    BY <1>0, <2>1
  <2>3. l = 2
    BY <1>2, <2>2
  <2>. QED  BY <2>1, <2>3 DEF r
<1>7. CASE ItemLength(s) = 0
  <2>1. s[1].code = "IAC" /\ r[1].code = "IAC"
    BY <1>0, <1>7, ItemLengthType
  <2>. HIDE DEF l, m, n
  <2>2. CASE m = 1
    BY <1>1, <2>2 DEF l, m, r
  <2>3. CASE m > 1
    <3>1. r[2] = s[2]
      BY <1>0, <2>3
    <3>2. s[2].code = "SB"
      BY <1>3, <1>7, <2>1, <2>3
    <3>3. n > 2
      BY <1>0, <2>3
    <3>4. l = SuboptionEnd(r)
      BY <1>2, <2>1, <3>1, <3>2, <3>3
    <3>5. m = 2 \/ SuboptionEnd(s) = 0
      <4>1. m # 2 => m > 2
        BY <1>0, <2>3
      <4>. QED  BY <1>3, <1>7, <2>1, <2>3, <3>2, <4>1
    <3>6. l = 0 \/ l >= m
      <4>1. CASE m = 2
        BY <1>1, <1>4, <3>3, <3>4, <4>1
      <4>2. CASE m # 2
        <5>1. m > 2
          BY <1>0, <2>3, <4>2
        <5>. QED  BY <1>0, <1>1, <1>5, <3>4, <3>5, <4>2, <5>1
      <4>. QED  BY <4>1, <4>2
    <3>. QED  BY <3>6 DEF l, m, r
  <2>. QED  BY <1>0, <2>2, <2>3
<1>. QED  BY <1>6, <1>7 DEF Open

Item == [item : Seq(Octet), length : Nat]

\* The octets of what netwrite() has cut.
Pieces(items) == [i \in DOMAIN items |-> items[i].item]

\* s has been cut into items.
Cut(items, s) ==
    /\ items \in Seq(Item) /\ items # <<>>
    /\ Pieces(items) \in Seq(Seq(Octet)) /\ FlattenSeq(Pieces(items)) = s
    /\ Last(items).item # <<>> /\ Last(items).length = ItemLength(Last(items).item)

LEMMA PiecesType ==
    ASSUME NEW items \in Seq(Item)
    PROVE  Pieces(items) \in Seq(Seq(Octet)) /\ Len(Pieces(items)) = Len(items)
<1>. DEFINE g == Pieces(items)
            n == Len(items)
            Piece == Seq(Octet)
<1>1. n \in Nat /\ DOMAIN items = 1 .. n /\ \A i \in 1 .. n : items[i].item \in Piece
  <2>1. n \in Nat /\ DOMAIN items = 1 .. n /\ \A i \in 1 .. n : items[i] \in Item
    OBVIOUS
  <2>2. \A x \in Item : x.item \in Piece
    BY DEF Item
  <2>. QED  BY <2>1, <2>2
<1>2. g = [i \in 1 .. n |-> g[i]] /\ \A i \in 1 .. n : g[i] \in Piece
  BY <1>1 DEF Pieces
<1>. HIDE DEF g, n, Piece
<1>3. g \in Seq(Piece) /\ Len(g) = n
  BY <1>1, <1>2, ListedSeq
<1>. QED  BY <1>3 DEF g, n, Piece

\* One item is cut off last, all that is left.
LEMMA CutLast ==
    ASSUME NEW s \in Seq(Octet), s # <<>>
    PROVE  Cut(<<[item |-> s, length |-> ItemLength(s)]>>, s)
<1>. DEFINE x == [item |-> s, length |-> ItemLength(s)]
            items == <<x>>
<1>1. x \in Item /\ x.item = s /\ x.length = ItemLength(s)
  BY ItemLengthType DEF Item
<1>. HIDE DEF x
<1>2. items \in Seq(Item) /\ items # <<>> /\ Last(items) = x /\ DOMAIN items = {1} /\ Len(items) = 1
      /\ items[1] = x
  BY <1>1 DEF Last
<1>. HIDE DEF items
<1>3. Pieces(items) = <<s>>
  <2>1. Pieces(items) \in Seq(Seq(Octet)) /\ Len(Pieces(items)) = 1
    BY <1>2, PiecesType
  <2>2. Pieces(items)[1] = s
    BY <1>1, <1>2 DEF Pieces
  <2>. DEFINE Piece == Seq(Octet)
              g == Pieces(items)
  <2>3. g \in Seq(Piece) /\ Len(g) <= 1 /\ Len(g) = 1
    BY <2>1
  <2>. HIDE DEF Piece, g
  <2>4. g = <<>> \/ g = <<g[1]>>
    BY <2>3, SingleSeq
  <2>5. g # <<>>
    <3>1. g \in Seq(Piece) /\ Len(g) # 0
      BY <2>3
    <3>. QED  BY <3>1, NotEmpty
  <2>. QED  BY <2>2, <2>4, <2>5 DEF g
<1>4. FlattenSeq(<<s>>) = s
  BY FlattenOne
<1>5. Pieces(items) \in Seq(Seq(Octet))
  BY <1>2, PiecesType
<1>. QED  BY <1>1, <1>2, <1>3, <1>4, <1>5 DEF Cut, items, x

\* An item is cut off first.
LEMMA CutFirst ==
    ASSUME NEW items, NEW t, Cut(items, t), NEW u \in Seq(Octet), NEW l \in Nat
    PROVE  Cut(<<[item |-> u, length |-> l]>> \o items, u \o t)
<1>. DEFINE x == [item |-> u, length |-> l]
            one == <<x>>
            more == one \o items
            n == Len(items)
            Piece == Seq(Octet)
            p == <<u>>
<1>1. x \in Item /\ x.item = u
  BY DEF Item
<1>2. items \in Seq(Item) /\ items # <<>> /\ Pieces(items) \in Seq(Piece)
      /\ FlattenSeq(Pieces(items)) = t
  BY DEF Cut
<1>. HIDE DEF x
<1>3. /\ more \in Seq(Item) /\ more # <<>> /\ Len(more) = n + 1 /\ n \in Nat
      /\ more[1] = x /\ \A i \in 2 .. n + 1 : more[i] = items[i - 1]
      /\ DOMAIN more = 1 .. n + 1
  BY <1>1, <1>2
<1>4. Last(more) = Last(items)
  <2>1. n >= 1
    BY <1>2
  <2>. HIDE DEF more
  <2>. QED  BY <1>3, <2>1 DEF Last
<1>. HIDE DEF more
<1>5. Pieces(more) = p \o Pieces(items) /\ p \in Seq(Piece)
  <2>0. u \in Piece
    OBVIOUS
  <2>. HIDE DEF Piece
  <2>. DEFINE q == Pieces(items)
  <2>2. q \in Seq(Piece) /\ Len(q) = n /\ \A i \in 1 .. n : q[i] = items[i].item
    BY <1>2, PiecesType DEF Pieces, Piece
  <2>. HIDE DEF q
  <2>3. /\ p \o q \in Seq(Piece) /\ Len(p \o q) = n + 1
        /\ \A i \in 1 .. n + 1 : (p \o q)[i] = IF i = 1 THEN u ELSE q[i - 1]
    BY <2>0, <2>2, InFront
  <2>. DEFINE r == Pieces(more)
  <2>4. r \in Seq(Piece) /\ Len(r) = n + 1 /\ \A i \in 1 .. n + 1 : r[i] = more[i].item
    BY <1>3, PiecesType DEF Pieces, Piece
  <2>. HIDE DEF r
  <2>5. ASSUME NEW i \in 1 .. n + 1 PROVE r[i] = (p \o q)[i]
    <3>1. CASE i = 1
      BY <1>1, <1>3, <2>3, <2>4, <3>1
    <3>2. CASE i # 1
      <4>1. i \in 2 .. n + 1 /\ i - 1 \in 1 .. n
        BY <1>3, <3>2
      <4>. QED  BY <1>3, <2>2, <2>3, <2>4, <3>2, <4>1
    <3>. QED  BY <3>1, <3>2
  <2>6. r = p \o q
    <3>1. \A y, z \in Seq(Piece) : Len(y) = Len(z) /\ (\A i \in 1 .. Len(y) : y[i] = z[i]) => y = z
      BY SeqEqual
    <3>. QED  BY <2>3, <2>4, <2>5, <3>1
  <2>7. p \in Seq(Piece)
    BY <2>0, ShortSeq
  <2>. HIDE DEF p
  <2>. QED  BY <2>6, <2>7 DEF q, r
<1>6. FlattenSeq(Pieces(more)) = u \o t
  <2>1. FlattenSeq(p) = u
    BY FlattenOne
  <2>. HIDE DEF p
  <2>2. FlattenSeq(p \o Pieces(items)) = FlattenSeq(p) \o FlattenSeq(Pieces(items))
    BY <1>2, <1>5, FlattenJoin DEF Piece
  <2>. QED  BY <1>2, <1>5, <2>1, <2>2
<1>7. Pieces(more) \in Seq(Seq(Octet))
  BY <1>3, PiecesType
<1>8. Last(items).item # <<>> /\ Last(items).length = ItemLength(Last(items).item)
  BY DEF Cut
<1>. QED  BY <1>3, <1>4, <1>6, <1>7, <1>8 DEF Cut, more, x

LEMMA ItemsCut ==
    ASSUME NEW s \in Seq(Octet), s # <<>>
    PROVE  Cut(Items(s), s)
<1>. DEFINE len == Len(s)
            n == len + 1
            Rest(i) == SubSeq(s, i, len)
            L(i) == ItemLength(Rest(i))
            Ends(i) == L(i) = 0 \/ L(i) >= Len(Rest(i))
            One(i) == <<[item |-> Rest(i), length |-> L(i)]>>
            First(i) == <<[item |-> SubSeq(Rest(i), 1, L(i)), length |-> L(i)]>>
            stop == {i \in 1 .. n : i > len \/ Ends(i)}
            next == [i \in 1 .. n |-> IF i \in stop THEN 0 ELSE i + L(i)]
            base == [i \in 1 .. n |-> IF i > len \/ i \notin stop THEN <<>> ELSE One(i)]
            f == [p \in (1 .. n) \X Seq(Item) |-> IF p[1] \in stop THEN <<>> ELSE First(p[1]) \o p[2]]
            Step(g) == g = [i \in 1 .. len + 1 |->
                              IF i > len THEN <<>>
                              ELSE IF Ends(i) THEN One(i) ELSE First(i) \o g[i + L(i)]]
            cut == CHOOSE g : Step(g)
<1>0. len \in Nat /\ n \in Nat /\ 1 \in Nat /\ 1 <= n /\ len >= 1
  OBVIOUS
<1>1. ASSUME NEW i \in 1 .. len
      PROVE  /\ Rest(i) \in Seq(Octet) /\ Rest(i) # <<>> /\ Len(Rest(i)) = n - i
             /\ L(i) \in Nat
  <2>1. Rest(i) \in Seq(Octet) /\ Len(Rest(i)) = n - i /\ n - i >= 1
    OBVIOUS
  <2>2. Rest(i) # <<>>
    BY <2>1
  <2>. QED  BY <2>1, <2>2, ItemLengthType
<1>. HIDE DEF Rest, L
<1>2. ASSUME NEW i \in 1 .. n, i \notin stop
      PROVE  i \in 1 .. len /\ L(i) \in 1 .. n - i - 1 /\ i + L(i) \in i + 1 .. len
  <2>1. i \in 1 .. len
    BY <1>0, <1>2
  <2>2. L(i) \in Nat /\ L(i) # 0 /\ L(i) < Len(Rest(i)) /\ Len(Rest(i)) = n - i
    BY <1>1, <1>2, <2>1
  <2>. QED  BY <1>0, <2>1, <2>2
<1>3. Jumps(1, n, stop, next)
  <2>1. \A i \in 1 .. n : next[i] \in Nat
    BY <1>0, <1>2
  <2>2. \A i \in 1 .. n : i \notin stop => next[i] \in i + 1 .. n
    <3>. SUFFICES ASSUME NEW i \in 1 .. n, i \notin stop PROVE next[i] \in i + 1 .. n
      OBVIOUS
    <3>1. next[i] = i + L(i)
      OBVIOUS
    <3>2. i + L(i) \in i + 1 .. len
      BY <1>2
    <3>. QED  BY <1>0, <3>1, <3>2
  <2>3. next \in [1 .. n -> Nat]
    BY <2>1
  <2>. HIDE DEF next, stop
  <2>. QED  BY <2>2, <2>3 DEF Jumps
<1>4. base \in [1 .. n -> Seq(Item)]
  <2>1. ASSUME NEW i \in 1 .. len PROVE One(i) \in Seq(Item)
    <3>1. [item |-> Rest(i), length |-> L(i)] \in Item
      BY <1>1 DEF Item
    <3>. QED  BY <3>1
  <2>2. <<>> \in Seq(Item)
    OBVIOUS
  <2>. HIDE DEF One, stop
  <2>. QED  BY <1>0, <2>1, <2>2
<1>5. f \in [(1 .. n) \X Seq(Item) -> Seq(Item)]
  <2>1. ASSUME NEW i \in 1 .. n, i \notin stop PROVE First(i) \in Seq(Item)
    <3>0. i \in 1 .. len /\ L(i) \in 1 .. n - i - 1
      BY <1>2, <2>1
    <3>1. SubSeq(Rest(i), 1, L(i)) \in Seq(Octet)
      <4>1. Rest(i) \in Seq(Octet) /\ L(i) \in Nat /\ L(i) <= Len(Rest(i))
        BY <1>0, <1>1, <3>0
      <4>. QED  BY <4>1
    <3>2. [item |-> SubSeq(Rest(i), 1, L(i)), length |-> L(i)] \in Item
      BY <1>1, <3>0, <3>1 DEF Item
    <3>. QED  BY <3>2
  <2>. HIDE DEF First, stop
  <2>2. \A q \in Seq(Item) : \A i \in 1 .. n : i \notin stop => First(i) \o q \in Seq(Item)
    BY <2>1
  <2>3. <<>> \in Seq(Item)
    OBVIOUS
  <2>. QED  BY <2>2, <2>3
<1>6. PICK g \in [1 .. n -> Seq(Item)] : Backwards(g, 1, n, stop, next, base, f)
  <2>. HIDE DEF n, stop, next, base, f
  <2>. QED  BY <1>0, <1>3, <1>4, <1>5, BackwardsExists
<1>7. ASSUME NEW i \in 1 .. n
      PROVE  g[i] = IF i > len THEN <<>>
                    ELSE IF Ends(i) THEN One(i) ELSE First(i) \o g[i + L(i)]
  <2>1. g[i] = IF i \in stop THEN base[i] ELSE f[<<i, g[next[i]]>>]
    BY <1>6 DEF Backwards
  <2>2. CASE i \in stop
    <3>. HIDE DEF Ends, One, First, f
    <3>. QED  BY <2>1, <2>2
  <2>3. CASE i \notin stop
    <3>1. i \in 1 .. len /\ i + L(i) \in 1 .. n /\ next[i] = i + L(i)
      <4>1. i \in 1 .. len /\ i + L(i) \in i + 1 .. len
        BY <1>2, <2>3
      <4>. QED  BY <1>0, <2>3, <4>1
    <3>. HIDE DEF next
    <3>2. g[i + L(i)] \in Seq(Item)
      BY <1>6, <3>1
    <3>. DEFINE q == g[i + L(i)]
    <3>3. g[i] = f[<<i, q>>]
      BY <2>1, <2>3, <3>1
    <3>. HIDE DEF q
    <3>4. f[<<i, q>>] = First(i) \o q
      <4>. HIDE DEF First, stop
      <4>. QED  BY <2>3, <3>2 DEF q
    <3>5. ~ (i > len) /\ ~ Ends(i)
      BY <2>3
    <3>. HIDE DEF Ends, First
    <3>. QED  BY <3>3, <3>4, <3>5 DEF q
  <2>. QED  BY <2>2, <2>3
<1>8. Step(g)
  <2>1. g = [i \in 1 .. n |-> g[i]]
    BY <1>6
  <2>. HIDE DEF Ends, One, First
  <2>. QED  BY <1>7, <2>1
<1>9. Step(cut)
  <2>. HIDE DEF Step
  <2>. QED  BY <1>8
<1>10. Items(s) = cut[1]
  BY DEF Items, Ends, One, First, Rest, L
<1>. HIDE DEF cut
<1>11. ASSUME NEW i \in 1 .. n
       PROVE  cut[i] = IF i > len THEN <<>>
                       ELSE IF Ends(i) THEN One(i) ELSE First(i) \o cut[i + L(i)]
  <2>. HIDE DEF Ends, One, First
  <2>. QED  BY <1>9
<1>. HIDE DEF Step
<1>. DEFINE T == {i \in 1 .. n : i <= len => Cut(cut[i], Rest(i))}
<1>12. ASSUME NEW i \in 1 .. n, \A j \in i + 1 .. n : j \in T PROVE i \in T
  <2>. SUFFICES ASSUME i <= len PROVE Cut(cut[i], Rest(i))
    OBVIOUS
  <2>0. i \in 1 .. len
    BY <1>0
  <2>1. CASE Ends(i)
    <3>1. cut[i] = One(i)
      <4>. HIDE DEF One, First, Ends
      <4>. QED  BY <1>0, <1>11, <2>0, <2>1
    <3>2. Rest(i) \in Seq(Octet) /\ Rest(i) # <<>>
      BY <1>1, <2>0
    <3>3. Cut(One(i), Rest(i))
      BY <3>2, CutLast DEF L
    <3>. QED  BY <3>1, <3>3
  <2>2. CASE ~Ends(i)
    <3>1. i \notin stop
      BY <1>0, <2>0, <2>2
    <3>. DEFINE j == i + L(i)
                u == SubSeq(Rest(i), 1, L(i))
    <3>2. j \in i + 1 .. len /\ j \in i + 1 .. n /\ L(i) \in Nat
      BY <1>0, <1>2, <3>1
    <3>3. cut[i] = First(i) \o cut[j]
      <4>1. i \in 1 .. n /\ ~ (i > len)
        BY <1>0, <2>0
      <4>. HIDE DEF One, First, Ends
      <4>. QED  BY <1>11, <2>2, <4>1
    <3>4. Cut(cut[j], Rest(j))
      <4>1. j \in T
        BY <1>12, <3>2
      <4>. HIDE DEF j
      <4>. QED  BY <1>0, <3>2, <4>1
    <3>5. u \in Seq(Octet) /\ u \o Rest(j) = Rest(i)
      <4>1. L(i) \in 1 .. n - i - 1
        BY <1>2, <3>1
      <4>. HIDE DEF L
      <4>2. u = SubSeq(s, i, j - 1)
        BY <1>0, <2>0, <4>1 DEF Rest
      <4>3. SubSeq(s, i, j - 1) \in Seq(Octet)
        BY <1>0, <2>0, <4>1
      <4>4. SubSeq(s, i, j - 1) \o SubSeq(s, j, len) = SubSeq(s, i, len)
        <5>1. i \in 1 .. len + 1 /\ j - 1 \in i - 1 .. len /\ len \in j - 1 .. len
              /\ (j - 1) + 1 = j
          BY <1>0, <2>0, <4>1
        <5>. HIDE DEF j
        <5>2. SubSeq(s, i, j - 1) \o SubSeq(s, (j - 1) + 1, len) = SubSeq(s, i, len)
          BY <5>1, ConcatAdjacentSubSeq
        <5>. QED  BY <5>1, <5>2
      <4>. QED  BY <4>2, <4>3, <4>4 DEF Rest
    <3>. HIDE DEF j, u
    <3>6. Cut(First(i) \o cut[j], Rest(i))
      <4>1. Cut(<<[item |-> u, length |-> L(i)]>> \o cut[j], u \o Rest(j))
        BY <3>2, <3>4, <3>5, CutFirst
      <4>. QED  BY <3>5, <4>1 DEF u
    <3>. QED  BY <3>3, <3>6
  <2>. QED  BY <2>1, <2>2
<1>13. 1 \in T
  <2>. HIDE DEF T, n
  <2>1. 1 .. n \subseteq T
    BY <1>0, <1>12, DownTo
  <2>. QED  BY <1>0, <2>1
<1>14. Rest(1) = s
  BY DEF Rest
<1>. QED  BY <1>0, <1>10, <1>13, <1>14

-----------------------------------------------------------------------------
(* The list of items                                                       *)

\* Joining octets is associative.
LEMMA OctetsAssociative == \A s, t, u \in Seq(Octet) : (s \o t) \o u = s \o (t \o u)
BY Associative

\* A Synch is the two octets IAC DM.
LEMMA SynchType == Synch \in Seq(Octet) /\ Len(Synch) = 2 /\ Synch # <<>>
<1>1. /\ [code |-> "IAC", own |-> "command"] \in Octet
      /\ [code |-> "DM", own |-> "command"] \in Octet
  BY DEF Octet, Code
<1>2. Synch = <<[code |-> "IAC", own |-> "command"], [code |-> "DM", own |-> "command"]>>
  BY DEF Synch, Command
<1>3. \A c, d \in Octet : <<c, d>> \in Seq(Octet) /\ Len(<<c, d>>) = 2 /\ <<c, d>> # <<>>
  OBVIOUS
<1>. QED  BY <1>1, <1>2, <1>3

\* The list in two parts.
Parts(list, a, b) ==
    /\ a \in Seq(Seq(Octet)) /\ b \in Seq(Seq(Octet)) /\ list \in Seq(Seq(Octet))
    /\ FlattenSeq(list) = FlattenSeq(a) \o FlattenSeq(b)
    /\ FlattenSeq(list) \in Seq(Octet) /\ FlattenSeq(a) \in Seq(Octet)
    /\ FlattenSeq(b) \in Seq(Octet)
    /\ Length(a) \in Nat /\ Length(b) \in Nat /\ Length(list) = Length(a) + Length(b)

\* Joined lists are such parts, and so are the two pieces of a list that is cut.
LEMMA JoinedParts ==
    ASSUME NEW a \in Seq(Seq(Octet)), NEW b \in Seq(Seq(Octet))
    PROVE  Parts(a \o b, a, b)
<1>1. a \o b \in Seq(Seq(Octet))
  <2>. DEFINE Piece == Seq(Octet)
  <2>1. a \in Seq(Piece) /\ b \in Seq(Piece)
    OBVIOUS
  <2>. HIDE DEF Piece
  <2>2. a \o b \in Seq(Piece)
    BY <2>1, JoinedSeq
  <2>. QED  BY <2>2 DEF Piece
<1>2. FlattenSeq(a) \in Seq(Octet) /\ FlattenSeq(b) \in Seq(Octet)
  BY FlattenType
<1>3. FlattenSeq(a \o b) = FlattenSeq(a) \o FlattenSeq(b)
  BY FlattenJoin
<1>. DEFINE p == FlattenSeq(a)
            q == FlattenSeq(b)
<1>4. p \o q \in Seq(Octet) /\ Len(p \o q) = Len(p) + Len(q) /\ Len(p) \in Nat /\ Len(q) \in Nat
  <2>1. p \in Seq(Octet) /\ q \in Seq(Octet)
    BY <1>2
  <2>. HIDE DEF p, q
  <2>. QED  BY <2>1
<1>. QED  BY <1>1, <1>2, <1>3, <1>4 DEF Parts, Length

LEMMA SplitParts ==
    ASSUME NEW list \in Seq(Seq(Octet)), NEW k \in 0 .. Len(list)
    PROVE  Parts(list, SubSeq(list, 1, k), SubSeq(list, k + 1, Len(list)))
<1>. DEFINE Piece == Seq(Octet)
            a == SubSeq(list, 1, k)
            b == SubSeq(list, k + 1, Len(list))
<1>1. a \in Seq(Piece) /\ b \in Seq(Piece) /\ a \o b = list
  <2>1. list \in Seq(Piece)
    OBVIOUS
  <2>. HIDE DEF Piece
  <2>. QED  BY <2>1, Rejoined
<1>. HIDE DEF a, b
<1>2. Parts(a \o b, a, b)
  BY <1>1, JoinedParts
<1>. QED  BY <1>1, <1>2 DEF a, b

\* How long the first k items are.
Upto(list, k) == Length(SubSeq(list, 1, k))

\* It grows item by item from 0 to the length of them all.
LEMMA UptoIs ==
    ASSUME NEW list \in Seq(Seq(Octet))
    PROVE  /\ Upto(list, 0) = 0
           /\ \A k \in 0 .. Len(list) : Upto(list, k) \in Nat /\ Upto(list, k) <= Length(list)
           /\ \A j, k \in 0 .. Len(list) : j <= k => Upto(list, j) <= Upto(list, k)
           /\ \A k \in 1 .. Len(list) : Upto(list, k) = Upto(list, k - 1) + Len(list[k])
           /\ Upto(list, Len(list)) = Length(list)
<1>. DEFINE n == Len(list)
            Piece == Seq(Octet)
            Sub(k) == SubSeq(list, 1, k)
<1>0. n \in Nat /\ list \in Seq(Piece)
  OBVIOUS
<1>1. Upto(list, 0) = 0
  <2>1. SubSeq(list, 1, 0) = <<>>
    OBVIOUS
  <2>2. Length(<<>>) = 0
    BY FlattenEmpty DEF Length
  <2>. QED  BY <2>1, <2>2 DEF Upto
<1>2. ASSUME NEW k \in 0 .. n
      PROVE  Sub(k) \in Seq(Piece) /\ Upto(list, k) \in Nat /\ Upto(list, k) <= Length(list)
  <2>1. Parts(list, SubSeq(list, 1, k), SubSeq(list, k + 1, Len(list)))
    BY <1>2, SplitParts
  <2>2. /\ Sub(k) \in Seq(Piece) /\ Length(Sub(k)) \in Nat
        /\ \E m \in Nat : Length(list) = Length(Sub(k)) + m
    BY <2>1 DEF Parts
  <2>. HIDE DEF Sub
  <2>3. Upto(list, k) = Length(Sub(k))
    BY DEF Upto, Sub
  <2>. QED  BY <2>2, <2>3
<1>3. ASSUME NEW j \in 0 .. n, NEW k \in 0 .. n, j <= k
      PROVE  Upto(list, j) <= Upto(list, k)
  <2>. DEFINE l == Sub(k)
  <2>1. l \in Seq(Seq(Octet)) /\ Len(l) = k /\ SubSeq(l, 1, j) = Sub(j)
    <3>. HIDE DEF Piece
    <3>1. l \in Seq(Piece) /\ Len(l) = k /\ SubSeq(l, 1, j) = Sub(j)
      BY <1>0, <1>3
    <3>. QED  BY <3>1 DEF Piece
  <2>. HIDE DEF l
  <2>2. Parts(l, SubSeq(l, 1, j), SubSeq(l, j + 1, Len(l)))
    BY <1>3, <2>1, SplitParts
  <2>3. Length(Sub(j)) \in Nat /\ \E m \in Nat : Length(l) = Length(Sub(j)) + m
    BY <2>1, <2>2 DEF Parts
  <2>4. Upto(list, j) = Length(Sub(j)) /\ Upto(list, k) = Length(l)
    BY DEF Upto, Sub, l
  <2>. HIDE DEF Sub
  <2>. QED  BY <2>3, <2>4
<1>4. ASSUME NEW k \in 1 .. n
      PROVE  Upto(list, k) = Upto(list, k - 1) + Len(list[k])
  <2>. DEFINE a == Sub(k - 1)
              b == <<list[k]>>
  <2>1. a \in Seq(Piece) /\ b \in Seq(Piece) /\ Sub(k) = a \o b /\ list[k] \in Piece
    <3>. HIDE DEF Piece
    <3>. QED  BY <1>0, <1>4
  <2>2. FlattenSeq(b) = list[k]
    BY <2>1, FlattenOne
  <2>. HIDE DEF a, b
  <2>3. Parts(a \o b, a, b)
    BY <2>1, JoinedParts
  <2>4. Length(Sub(k)) = Length(a) + Length(b)
    BY <2>1, <2>3 DEF Parts
  <2>. QED  BY <2>2, <2>4 DEF Upto, Length, a
<1>5. Upto(list, n) = Length(list)
  <2>1. SubSeq(list, 1, n) = list
    <3>. HIDE DEF Piece
    <3>. QED  BY <1>0
  <2>. QED  BY <2>1 DEF Upto
<1>. QED  BY <1>1, <1>2, <1>3, <1>4, <1>5

\* The item to be sent as urgent data is a Synch, and no part of it has been sent.
Urgent(b) ==
    b.urg # 0 =>
        /\ b.urg <= Len(b.list)
        /\ b.list[b.urg] = Synch
        /\ b.urg = 1 => b.skip = 0

\* What the buffers always satisfy.  The trailing item, which the next
\* netwrite() completes, is not empty and still open: otherwise the end found
\* for it could lie before what is new.
Good(b) ==
    /\ b \in Buffers
    /\ b.skip <= Length(b.list)
    /\ Urgent(b)
    /\ b.trailing => b.list # <<>> /\ Last(b.list) # <<>> /\ Open(Last(b.list))

\* The types that Good gives.
LEMMA BufferTypes ==
    ASSUME NEW b, Good(b)
    PROVE  /\ b.file \in Seq(Octet) /\ b.list \in Seq(Seq(Octet)) /\ b.skip \in Nat
           /\ b.trailing \in BOOLEAN /\ b.urg \in Nat /\ b.corrupt \in BOOLEAN
           /\ b.skip <= Length(b.list) /\ Length(b.list) \in Nat /\ Len(b.list) \in Nat
           /\ FlattenSeq(b.list) \in Seq(Octet)
<1>1. /\ b.file \in Seq(Octet) /\ b.list \in Seq(Seq(Octet)) /\ b.skip \in Nat
      /\ b.trailing \in BOOLEAN /\ b.urg \in Nat /\ b.corrupt \in BOOLEAN
  BY DEF Good, Buffers
<1>2. FlattenSeq(b.list) \in Seq(Octet)
  BY <1>1, FlattenType
<1>3. Length(b.list) \in Nat
  BY <1>2 DEF Length
<1>4. Len(b.list) \in Nat
  BY <1>1
<1>. QED  BY <1>1, <1>2, <1>3, <1>4 DEF Good

-----------------------------------------------------------------------------
(* netwritebuf()                                                           *)

\* It frees a number of items from the first on, all of which are sent, and
\* never the trailing one.
LEMMA FreedIs ==
    ASSUME NEW b, Good(b), NEW n \in Nat
    PROVE  /\ Freed(b, n) \in 0 .. Len(b.list)
           /\ Upto(b.list, Freed(b, n)) <= n + b.skip
           /\ b.trailing => Freed(b, n) < Len(b.list)
           /\ \A j \in 1 .. Len(b.list) : Upto(b.list, j) > n + b.skip => Freed(b, n) < j
<1>. DEFINE list == b.list
            len == Len(list)
            most == n + b.skip
            P == {k \in DOMAIN list : /\ Length(SubSeq(list, 1, k)) <= most
                                      /\ b.trailing => k < len}
<1>0. /\ list \in Seq(Seq(Octet)) /\ len \in Nat /\ most \in Nat /\ DOMAIN list = 1 .. len
      /\ b.trailing \in BOOLEAN
  <2>1. /\ b.list \in Seq(Seq(Octet)) /\ b.skip \in Nat /\ b.trailing \in BOOLEAN
    BY BufferTypes
  <2>. QED  BY <2>1
<1>1. /\ Upto(list, 0) = 0
      /\ \A k \in 0 .. len : Upto(list, k) \in Nat
      /\ \A j, k \in 0 .. len : j <= k => Upto(list, j) <= Upto(list, k)
  BY <1>0, UptoIs
<1>. HIDE DEF list, len, most
<1>2. \A k \in 1 .. len : k \in P <=> Upto(list, k) <= most /\ (b.trailing => k < len)
  BY <1>0 DEF Upto
<1>3. P \in SUBSET (1 .. len)
  BY <1>0
<1>. HIDE DEF P
<1>4. \A i, j \in 1 .. len : j \in P /\ i <= j => i \in P
  <2>. SUFFICES ASSUME NEW i \in 1 .. len, NEW j \in 1 .. len, j \in P, i <= j
                PROVE  i \in P
    OBVIOUS
  <2>1. Upto(list, j) <= most /\ (b.trailing => j < len)
    BY <1>2
  <2>2. Upto(list, i) <= Upto(list, j) /\ Upto(list, i) \in Nat /\ Upto(list, j) \in Nat
    BY <1>0, <1>1
  <2>3. Upto(list, i) <= most
    BY <1>0, <2>1, <2>2
  <2>4. b.trailing => i < len
    BY <1>0, <2>1
  <2>. QED  BY <1>2, <2>3, <2>4
<1>5. PICK m \in 0 .. len : P = 1 .. m
  BY <1>0, <1>3, <1>4, DownClosed
<1>6. Cardinality(P) = m
  <2>1. Cardinality(1 .. m) = IF 1 > m THEN 0 ELSE m - 1 + 1
    BY <1>0, <1>5, FS_Interval
  <2>. QED  BY <1>0, <1>5, <2>1
<1>7. Freed(b, n) = m
  BY <1>6 DEF Freed, P, list, len, most
<1>8. Upto(list, m) <= most
  <2>1. CASE m = 0
    BY <1>0, <1>1, <2>1
  <2>2. CASE m # 0
    <3>1. m \in 1 .. len /\ m \in P
      BY <1>0, <1>5, <2>2
    <3>. QED  BY <1>2, <3>1
  <2>. QED  BY <2>1, <2>2
<1>9. b.trailing => m < len
  <2>. SUFFICES ASSUME b.trailing PROVE m < len
    OBVIOUS
  <2>1. CASE m = 0
    <3>1. list # <<>>
      BY DEF Good, list
    <3>2. len # 0
      BY <1>0, <3>1 DEF len
    <3>. QED  BY <1>0, <2>1, <3>2
  <2>2. CASE m # 0
    <3>1. m \in 1 .. len /\ m \in P
      BY <1>0, <1>5, <2>2
    <3>. QED  BY <1>2, <3>1
  <2>. QED  BY <2>1, <2>2
<1>10. ASSUME NEW j \in 1 .. len, Upto(list, j) > most PROVE m < j
  <2>1. j \notin P
    <3>1. Upto(list, j) \in Nat
      BY <1>0, <1>1
    <3>. QED  BY <1>0, <1>2, <1>10, <3>1
  <2>. QED  BY <1>0, <1>5, <2>1
<1>. QED  BY <1>5, <1>7, <1>8, <1>9, <1>10 DEF list, len, most

\* What the socket takes is within the list, and before the Synch that is to
\* be sent as urgent data.
LEMMA RoomFits ==
    ASSUME NEW b, Good(b), b.list # <<>>, NEW clear \in BOOLEAN, NEW n \in Room(b, clear)
    PROVE  /\ n \in Nat /\ n + b.skip <= Length(b.list)
           /\ b.urg > 1 => n + b.skip <= Upto(b.list, b.urg - 1)
<1>. DEFINE list == b.list
            len == Len(list)
            off == Offered(b, clear)
            offered == IF b.urg = 1 THEN 1
                       ELSE IF off = << >> THEN 0
                       ELSE Length(off) - b.skip
<1>0. /\ list \in Seq(Seq(Octet)) /\ len \in Nat /\ len >= 1 /\ b.skip \in Nat /\ b.urg \in Nat
      /\ b.skip <= Length(list) /\ Length(list) \in Nat
      /\ b.urg # 0 => b.urg <= len
  <2>1. /\ list \in Seq(Seq(Octet)) /\ b.skip \in Nat /\ b.urg \in Nat
        /\ b.skip <= Length(list) /\ Length(list) \in Nat
    BY BufferTypes
  <2>2. b.urg # 0 => b.urg <= len
    BY DEF Good, Urgent
  <2>3. len \in Nat /\ len >= 1
    <3>1. list # <<>>
      OBVIOUS
    <3>. HIDE DEF list
    <3>. QED  BY <2>1, <3>1
  <2>. QED  BY <2>1, <2>2, <2>3
<1>1. n \in IF offered = 0 THEN {0} ELSE 1 .. offered
  BY DEF Room
<1>2. /\ Upto(list, 0) = 0
      /\ \A k \in 0 .. len : Upto(list, k) \in Nat /\ Upto(list, k) <= Length(list)
      /\ \A k \in 1 .. len : Upto(list, k) = Upto(list, k - 1) + Len(list[k])
      /\ Upto(list, len) = Length(list)
  BY <1>0, UptoIs
<1>3. off \in {SubSeq(list, 1, b.urg - 1), SubSeq(list, 1, len - 1), list}
      /\ (b.urg > 0 => off = SubSeq(list, 1, b.urg - 1))
  BY <1>0 DEF Offered, Front
<1>. HIDE DEF off
<1>4. CASE b.urg = 1
  <2>1. b.skip = 0 /\ list[1] = Synch
    BY <1>4 DEF Good, Urgent
  <2>2. Upto(list, 1) = 2
    <3>1. 1 \in 1 .. len /\ 1 - 1 = 0
      BY <1>0
    <3>2. Upto(list, 1) = Upto(list, 0) + Len(list[1])
      BY <1>2, <3>1
    <3>. QED  BY <1>2, <2>1, <3>2, SynchType
  <2>3. Length(list) >= 2
    <3>1. Upto(list, 1) <= Length(list)
      BY <1>0, <1>2
    <3>. QED  BY <1>0, <2>2, <3>1
  <2>4. n = 1
    BY <1>1, <1>4
  <2>. QED  BY <1>0, <1>4, <2>1, <2>3, <2>4
<1>5. CASE b.urg # 1
  <2>1. PICK j \in 0 .. len : off = SubSeq(list, 1, j) /\ (b.urg > 1 => j = b.urg - 1 /\ j >= 1)
    <3>1. CASE b.urg > 0
      <4>1. b.urg - 1 \in 0 .. len /\ b.urg - 1 >= 1
        BY <1>0, <1>5, <3>1
      <4>. QED  BY <1>3, <3>1, <4>1
    <3>2. CASE b.urg = 0
      <4>1. off = SubSeq(list, 1, len - 1) \/ off = SubSeq(list, 1, len)
        <5>. DEFINE Piece == Seq(Octet)
        <5>1. list \in Seq(Piece)
          BY <1>0
        <5>. HIDE DEF Piece, list, len
        <5>2. SubSeq(list, 1, Len(list)) = list
          BY <5>1
        <5>3. off = SubSeq(list, 1, len - 1) \/ off = list
          BY <3>2 DEF off, Offered, Front, list, len
        <5>. QED  BY <5>2, <5>3 DEF len
      <4>2. len - 1 \in 0 .. len /\ len \in 0 .. len /\ ~ (b.urg > 1)
        BY <1>0, <3>2
      <4>. QED  BY <4>1, <4>2
    <3>3. b.urg > 0 \/ b.urg = 0
      BY <1>0
    <3>. HIDE DEF list, len
    <3>. QED  BY <3>1, <3>2, <3>3
  <2>2. Length(off) = Upto(list, j) /\ Upto(list, j) \in Nat /\ Upto(list, j) <= Length(list)
    BY <1>2, <2>1 DEF Upto
  <2>3. CASE off = << >>
    <3>1. n = 0
      BY <1>1, <1>5, <2>3
    <3>2. ~ (b.urg > 1)
      <4>. SUFFICES ASSUME b.urg > 1 PROVE FALSE
        OBVIOUS
      <4>1. j >= 1
        BY <2>1
      <4>2. Len(SubSeq(list, 1, j)) = j
        <5>. DEFINE Piece == Seq(Octet)
        <5>1. list \in Seq(Piece)
          BY <1>0
        <5>. HIDE DEF Piece, list
        <5>. QED  BY <5>1, <2>1
      <4>3. Len(<<>>) = 0
        OBVIOUS
      <4>. QED  BY <2>1, <2>3, <4>1, <4>2, <4>3
    <3>. QED  BY <1>0, <3>1, <3>2
  <2>4. CASE off # << >>
    <3>1. offered = Upto(list, j) - b.skip
      BY <1>5, <2>2, <2>4
    <3>2. n \in Nat /\ n + b.skip <= Upto(list, j)
      BY <1>0, <1>1, <2>2, <3>1
    <3>. HIDE DEF list, offered
    <3>3. n + b.skip <= Length(list)
      BY <1>0, <2>2, <3>2
    <3>4. b.urg > 1 => Upto(list, j) = Upto(list, b.urg - 1)
      BY <2>1
    <3>. QED  BY <3>2, <3>3, <3>4 DEF list
  <2>. QED  BY <2>3, <2>4
<1>. QED  BY <1>4, <1>5

\* What a call of netwritebuf() does: o is an outcome of it.
Written(b, o) ==
    /\ Good(o.net) /\ o.net.file = b.file /\ o.net.corrupt = b.corrupt
    /\ o.sent \in Seq(Octet) /\ o.sent \o ListUnsent(o.net) = ListUnsent(b)

LEMMA ListUnsentType ==
    ASSUME NEW b, Good(b)
    PROVE  ListUnsent(b) \in Seq(Octet)
<1>. DEFINE f == FlattenSeq(b.list)
<1>1. f \in Seq(Octet) /\ Length(b.list) = Len(f) /\ b.skip \in Nat
  BY BufferTypes DEF Length
<1>. HIDE DEF f
<1>2. SubSeq(f, b.skip + 1, Len(f)) \in Seq(Octet)
  BY <1>1
<1>. QED  BY <1>1, <1>2 DEF ListUnsent, f

\* After n octets are taken and the items they complete are freed, the rest is unsent.
LEMMA TakeGood ==
    ASSUME NEW b, Good(b), b.list # <<>>, NEW clear \in BOOLEAN, NEW n \in Room(b, clear)
    PROVE  Good(Take(b, n)) /\ n \in Nat /\ n + b.skip <= Length(b.list)
           /\ ListUnsent(Take(b, n)) = SubSeq(FlattenSeq(b.list), n + b.skip + 1, Length(b.list))
<1>. DEFINE list == b.list
            len == Len(list)
            k == Freed(b, n)
            front == SubSeq(list, 1, k)
            rest == SubSeq(list, k + 1, len)
            skip == n + b.skip - Upto(list, k)
            urg == IF b.urg > 1 THEN b.urg - k ELSE 0
            c == [b EXCEPT !.list = rest, !.skip = skip, !.urg = urg]
            Piece == Seq(Octet)
<1>0. /\ n \in Nat /\ n + b.skip <= Length(list)
      /\ b.urg > 1 => n + b.skip <= Upto(list, b.urg - 1)
  BY RoomFits
<1>1. /\ list \in Seq(Seq(Octet)) /\ len \in Nat /\ b.skip \in Nat /\ b.urg \in Nat
      /\ Length(list) \in Nat
  BY BufferTypes
<1>2. /\ k \in 0 .. len /\ Upto(list, k) <= n + b.skip
      /\ b.trailing => k < len
      /\ \A j \in 1 .. len : Upto(list, j) > n + b.skip => k < j
  BY <1>0, FreedIs
<1>3. /\ \A i \in 0 .. len : Upto(list, i) \in Nat
      /\ \A i \in 1 .. len : Upto(list, i) = Upto(list, i - 1) + Len(list[i])
  BY <1>1, UptoIs
<1>4. Take(b, n) = c
  BY DEF Take, Upto
<1>. HIDE DEF k
<1>5. Parts(list, front, rest)
  BY <1>1, <1>2, SplitParts
<1>6. /\ rest \in Seq(Piece) /\ Len(rest) = len - k
      /\ \A i \in 1 .. len - k : rest[i] = list[k + i]
  <2>1. list \in Seq(Piece)
    BY <1>1
  <2>. HIDE DEF Piece, list
  <2>. QED  BY <1>1, <1>2, <2>1
<1>7. Length(front) = Upto(list, k)
  BY DEF Upto
<1>. HIDE DEF list, len, front, rest
<1>8. skip \in Nat /\ skip <= Length(rest)
  <2>1. Length(rest) \in Nat /\ Length(list) = Upto(list, k) + Length(rest)
    BY <1>5, <1>7 DEF Parts
  <2>2. Upto(list, k) \in Nat
    BY <1>2, <1>3
  <2>. DEFINE u == Upto(list, k)
              r == Length(rest)
              l == Length(list)
  <2>3. /\ u \in Nat /\ r \in Nat /\ l \in Nat /\ l = u + r /\ u <= n + b.skip /\ n + b.skip <= l
        /\ skip = n + b.skip - u
    BY <1>0, <1>1, <1>2, <2>1, <2>2
  <2>. HIDE DEF u, r, l, skip
  <2>4. skip \in Nat /\ skip <= r
    BY <1>0, <1>1, <2>3
  <2>. QED  BY <2>4 DEF r
<1>9. /\ urg \in Nat
      /\ urg # 0 => urg <= Len(rest) /\ rest[urg] = Synch /\ (urg = 1 => skip = 0)
  <2>1. CASE b.urg > 1
    <3>1. b.urg \in 1 .. len /\ list[b.urg] = Synch
      BY <1>1, <2>1 DEF Good, Urgent, list, len
    <3>2. Upto(list, b.urg) = Upto(list, b.urg - 1) + 2
      BY <1>3, <3>1, SynchType
    <3>3. n + b.skip <= Upto(list, b.urg - 1)
      BY <1>0, <2>1
    <3>4. Upto(list, b.urg - 1) \in Nat
      <4>1. b.urg - 1 \in 0 .. len
        BY <1>1, <3>1
      <4>. QED  BY <1>3, <4>1
    <3>5. k < b.urg
      BY <1>0, <1>1, <1>2, <3>1, <3>2, <3>3, <3>4
    <3>6. urg = b.urg - k /\ urg \in 1 .. len - k /\ k + urg = b.urg
      BY <1>1, <1>2, <2>1, <3>1, <3>5
    <3>7. rest[urg] = Synch
      BY <1>6, <3>1, <3>6
    <3>8. urg = 1 => skip = 0
      <4>. SUFFICES ASSUME urg = 1 PROVE skip = 0
        OBVIOUS
      <4>1. b.urg - 1 = k
        BY <1>1, <1>2, <3>6
      <4>. QED  BY <1>0, <1>1, <1>2, <3>3, <3>4, <4>1
    <3>. QED  BY <1>6, <3>6, <3>7, <3>8
  <2>2. CASE ~ (b.urg > 1)
    BY <2>2
  <2>. QED  BY <2>1, <2>2
<1>10. b.trailing => rest # <<>> /\ Last(rest) = Last(list)
  <2>. SUFFICES ASSUME b.trailing PROVE rest # <<>> /\ Last(rest) = Last(list)
    OBVIOUS
  <2>1. Len(rest) \in 1 .. len - k /\ k + Len(rest) = len
    BY <1>1, <1>2, <1>6
  <2>2. rest[Len(rest)] = list[len]
    BY <1>6, <2>1
  <2>3. rest # <<>>
    <3>. HIDE DEF Piece
    <3>1. Len(rest) # 0
      BY <2>1
    <3>. QED  BY <1>6, <3>1, NotEmpty
  <2>. QED  BY <2>2, <2>3 DEF Last, len
<1>. HIDE DEF skip, urg
<1>11. /\ c.list = rest /\ c.skip = skip /\ c.urg = urg /\ c.trailing = b.trailing
       /\ c \in Buffers
  <2>1. b \in Buffers
    BY DEF Good
  <2>. QED  BY <1>6, <1>8, <1>9, <2>1 DEF Buffers
<1>. HIDE DEF c
<1>12. Good(c)
  <2>1. c.skip <= Length(c.list)
    BY <1>8, <1>11
  <2>2. Urgent(c)
    BY <1>9, <1>11 DEF Urgent
  <2>3. c.trailing => c.list # <<>> /\ Last(c.list) # <<>> /\ Open(Last(c.list))
    BY <1>10, <1>11 DEF Good, list
  <2>. QED  BY <1>11, <2>1, <2>2, <2>3 DEF Good
<1>13. ListUnsent(c) = SubSeq(FlattenSeq(list), n + b.skip + 1, Length(list))
  <2>. DEFINE x == FlattenSeq(front)
              y == FlattenSeq(rest)
              m == n + b.skip
  <2>1. /\ x \in Seq(Octet) /\ y \in Seq(Octet) /\ FlattenSeq(list) = x \o y
        /\ Len(x) = Upto(list, k) /\ Len(y) = Length(rest) /\ Length(list) = Len(x) + Len(y)
        /\ Length(list) = Len(x \o y)
    BY <1>5, <1>7 DEF Parts, Length
  <2>2. m \in Nat /\ Len(x) <= m /\ m <= Len(x) + Len(y)
    BY <1>0, <1>1, <1>2, <2>1
  <2>3. skip = m - Len(x)
    <3>1. Len(x) = Upto(list, k)
      BY <2>1
    <3>2. Upto(list, k) \in Nat
      BY <1>2, <1>3
    <3>. HIDE DEF x
    <3>. QED  BY <1>0, <1>1, <3>1, <3>2 DEF skip
  <2>4. ListUnsent(c) = SubSeq(y, skip + 1, Len(y))
    BY <1>11, <2>1 DEF ListUnsent
  <2>. HIDE DEF x, y, m
  <2>5. SubSeq(x \o y, m + 1, Len(x \o y)) = SubSeq(y, m - Len(x) + 1, Len(y))
    BY <2>1, <2>2, EndOfJoined
  <2>. QED  BY <2>1, <2>3, <2>4, <2>5 DEF m
<1>. QED  BY <1>0, <1>4, <1>12, <1>13 DEF list

\* Whatever the socket takes, what it takes and what is left are what there was.
LEMMA WriteBufWrites ==
    ASSUME NEW b, Good(b), NEW clear \in BOOLEAN, NEW o \in WriteBuf(b, clear)
    PROVE  Written(b, o)
<1>1. CASE o = [net |-> b, sent |-> << >>]
  <2>1. o.net = b /\ o.sent = <<>>
    BY <1>1
  <2>2. ListUnsent(b) \in Seq(Octet)
    BY ListUnsentType
  <2>3. <<>> \o ListUnsent(b) = ListUnsent(b) /\ <<>> \in Seq(Octet)
    BY <2>2
  <2>. QED  BY <2>1, <2>3 DEF Written
<1>2. CASE o # [net |-> b, sent |-> << >>]
  <2>. DEFINE f == FlattenSeq(b.list)
  <2>1. b.list # <<>>
    BY <1>2 DEF WriteBuf
  <2>2. PICK n \in Room(b, clear) :
          o = [net |-> Take(b, n), sent |-> SubSeq(f, b.skip + 1, b.skip + n)]
    BY <1>2, <2>1 DEF WriteBuf
  <2>3. o.net = Take(b, n) /\ o.sent = SubSeq(f, b.skip + 1, b.skip + n)
    BY <2>2
  <2>4. /\ Good(Take(b, n)) /\ n \in Nat /\ n + b.skip <= Length(b.list)
        /\ ListUnsent(Take(b, n)) = SubSeq(f, n + b.skip + 1, Length(b.list))
    BY <2>1, TakeGood
  <2>5. Take(b, n).file = b.file /\ Take(b, n).corrupt = b.corrupt
    BY DEF Take, Good, Buffers
  <2>6. f \in Seq(Octet) /\ Length(b.list) = Len(f) /\ b.skip \in Nat
    BY BufferTypes DEF Length
  <2>. HIDE DEF f
  <2>7. /\ SubSeq(f, b.skip + 1, b.skip + n) \in Seq(Octet)
        /\ SubSeq(f, b.skip + 1, b.skip + n) \o SubSeq(f, b.skip + n + 1, Len(f))
             = SubSeq(f, b.skip + 1, Len(f))
    <3>1. b.skip + n <= Len(f)
      BY <2>4, <2>6
    <3>. QED  BY <2>4, <2>6, <3>1, EndSplit
  <2>8. n + b.skip = b.skip + n
    BY <2>4, <2>6
  <2>9. ListUnsent(b) = SubSeq(f, b.skip + 1, Len(f))
    BY <2>6 DEF ListUnsent, f
  <2>. QED  BY <2>3, <2>4, <2>5, <2>6, <2>7, <2>8, <2>9 DEF Written
<1>. QED  BY <1>1, <1>2

\* c has t behind everything that b still has to send.
Sends(b, c, t) ==
    /\ Good(c) /\ c.file = b.file
    /\ ListUnsent(c) = ListUnsent(b) \o t

\* The list with t as its last bytes.
LEMMA MoreUnsent ==
    ASSUME NEW b, Good(b), NEW c, NEW t \in Seq(Octet),
           FlattenSeq(c.list) = FlattenSeq(b.list) \o t, c.skip = b.skip
    PROVE  c.skip <= Length(c.list) /\ ListUnsent(c) = ListUnsent(b) \o t
<1>. DEFINE f == FlattenSeq(b.list)
<1>1. f \in Seq(Octet) /\ b.skip \in Nat /\ b.skip <= Len(f)
  BY BufferTypes DEF Length
<1>2. ListUnsent(b) = SubSeq(f, b.skip + 1, Len(f))
  BY DEF ListUnsent, Length
<1>3. ListUnsent(c) = SubSeq(f \o t, b.skip + 1, Len(f \o t))
  BY DEF ListUnsent, Length
<1>4. Length(c.list) = Len(f \o t)
  BY DEF Length
<1>. HIDE DEF f
<1>5. b.skip \in 0 .. Len(f) /\ Len(f \o t) = Len(f) + Len(t)
  BY <1>1
<1>6. ListUnsent(c) = ListUnsent(b) \o t
  BY <1>1, <1>2, <1>3, <1>5, EndGrows
<1>7. b.skip <= Len(f \o t)
  BY <1>1, <1>5
<1>. QED  BY <1>4, <1>6, <1>7

-----------------------------------------------------------------------------
(* netwrite(): the trailing item                                           *)

\* The last item gets longer.
LEMMA LastGrows ==
    ASSUME NEW list \in Seq(Seq(Octet)), list # <<>>, NEW u \in Seq(Octet)
    PROVE  /\ Append(Front(list), Last(list) \o u) \in Seq(Seq(Octet))
           /\ Len(Append(Front(list), Last(list) \o u)) = Len(list)
           /\ Append(Front(list), Last(list) \o u)[Len(list)] = Last(list) \o u
           /\ \A i \in 1 .. Len(list) - 1 : Append(Front(list), Last(list) \o u)[i] = list[i]
           /\ FlattenSeq(Append(Front(list), Last(list) \o u)) = FlattenSeq(list) \o u
           /\ Last(list) \in Seq(Octet)
<1>. DEFINE Piece == Seq(Octet)
            len == Len(list)
            front == SubSeq(list, 1, len - 1)
            last == list[len]
            more == last \o u
            new == Append(front, more)
<1>1. list \in Seq(Piece) /\ len \in Nat /\ len >= 1
  <2>1. list \in Seq(Piece)
    OBVIOUS
  <2>. HIDE DEF Piece
  <2>. QED  BY <2>1
<1>2. /\ front \in Seq(Piece) /\ Len(front) = len - 1 /\ last \in Piece
      /\ \A i \in 1 .. len - 1 : front[i] = list[i]
  <2>. HIDE DEF Piece
  <2>. QED  BY <1>1, FrontLast
<1>3. more \in Piece
  <2>1. last \in Seq(Octet)
    BY <1>2
  <2>. HIDE DEF last
  <2>. QED  BY <2>1
<1>4. list = Append(front, last)
  <2>. HIDE DEF Piece
  <2>. QED  BY <1>1, FrontLast
<1>5. Append(front, last) = front \o <<last>> /\ new = front \o <<more>>
  <2>. HIDE DEF Piece, front, last, more
  <2>. QED  BY <1>2, <1>3, AppendIsConcat
<1>6. FlattenSeq(list) = FlattenSeq(front) \o last /\ FlattenSeq(new) = FlattenSeq(front) \o more
  <2>1. front \in Seq(Seq(Octet)) /\ last \in Seq(Octet) /\ more \in Seq(Octet)
    BY <1>2, <1>3
  <2>. HIDE DEF front, last, more, new
  <2>2. FlattenSeq(front \o <<last>>) = FlattenSeq(front) \o last
    BY <2>1, FlattenConcat
  <2>3. FlattenSeq(front \o <<more>>) = FlattenSeq(front) \o more
    BY <2>1, FlattenConcat
  <2>. QED  BY <1>4, <1>5, <2>2, <2>3
<1>7. FlattenSeq(new) = FlattenSeq(list) \o u
  <2>. DEFINE f == FlattenSeq(front)
  <2>1. f \in Seq(Octet)
    BY <1>2, FlattenType
  <2>2. last \in Seq(Octet)
    BY <1>2
  <2>. HIDE DEF f, last, front, new
  <2>3. (f \o last) \o u = f \o (last \o u)
    BY <2>1, <2>2, OctetsAssociative
  <2>. QED  BY <1>6, <2>3 DEF f
<1>8. /\ new \in Seq(Piece) /\ Len(new) = len /\ new[len] = more
      /\ \A i \in 1 .. len - 1 : new[i] = list[i]
  <2>. HIDE DEF Piece, front, last, more
  <2>. QED  BY <1>1, <1>2, <1>3
<1>9. Front(list) = front /\ Last(list) = last
  BY DEF Front, Last
<1>. HIDE DEF front, last
<1>. QED  BY <1>2, <1>7, <1>8, <1>9

\* The trailing item takes the first l bytes of s, or nextitem() has looked
\* past the end.
LEMMA ContinuedGood ==
    ASSUME NEW b, Good(b), ~b.corrupt, NEW s \in Seq(Octet), s # <<>>
    PROVE  /\ Good(Continued(b, s)) /\ Continued(b, s).file = b.file
           /\ ~Continued(b, s).corrupt =>
                /\ Completion(b, s) \in 0 .. Len(s)
                /\ ListUnsent(Continued(b, s)) = ListUnsent(b) \o SubSeq(s, 1, Completion(b, s))
                /\ Continued(b, s).trailing => Completion(b, s) = Len(s)
<1>. DEFINE l == Completion(b, s)
            list == b.list
            len == Len(list)
            last == Last(list)
            whole == last \o s
            u == SubSeq(s, 1, l)
            new == Append(Front(list), last \o u)
            tr == ItemLength(whole) = 0
            c == [b EXCEPT !.list = new, !.trailing = tr]
            d == [b EXCEPT !.corrupt = TRUE]
<1>0. /\ list \in Seq(Seq(Octet)) /\ len \in Nat /\ b.skip \in Nat /\ b \in Buffers
      /\ b.urg \in Nat /\ Len(s) \in Nat
  BY BufferTypes DEF Good
<1>1. CASE ~b.trailing
  <2>1. l = 0 /\ Continued(b, s) = b
    BY <1>1 DEF Continued, Completion
  <2>2. ListUnsent(b) \o SubSeq(s, 1, 0) = ListUnsent(b)
    <3>1. ListUnsent(b) \in Seq(Octet) /\ SubSeq(s, 1, 0) = <<>>
      BY ListUnsentType
    <3>. QED  BY <3>1
  <2>3. l \in 0 .. Len(s)
    BY <1>0, <2>1
  <2>. QED  BY <1>1, <2>1, <2>2, <2>3
<1>2. CASE b.trailing
  <2>1. list # <<>> /\ last # <<>> /\ Open(last)
    BY <1>2 DEF Good
  <2>2. len >= 1
    <3>. HIDE DEF list
    <3>1. len # 0
      BY <1>0, <2>1
    <3>. QED  BY <1>0, <3>1
  <2>3. last \in Seq(Octet) /\ last = list[len]
    BY <1>0, <2>1, LastGrows DEF Last
  <2>. HIDE DEF list, len, last
  <2>4. whole \in Seq(Octet) /\ whole # <<>> /\ Len(last) \in Nat
    <3>1. whole \in Seq(Octet) /\ Len(whole) = Len(last) + Len(s)
      BY <2>3, JoinedSeq
    <3>2. Len(last) \in Nat /\ Len(last) # 0
      BY <2>1, <2>3
    <3>3. Len(whole) # 0
      BY <1>0, <3>1, <3>2
    <3>. QED  BY <3>1, <3>2, <3>3, NotEmpty
  <2>5. ItemLength(whole) \in Nat /\ (ItemLength(whole) = 0 \/ ItemLength(whole) >= Len(last))
    <3>1. ItemLength(whole) \in Nat
      BY <2>4, ItemLengthType
    <3>. QED  BY <2>1, <2>3, <3>1, ItemGoesOn
  <2>6. l = IF ItemLength(whole) = 0 THEN Len(s) ELSE ItemLength(whole) - Len(last)
    BY <1>2 DEF Completion, last, list
  <2>7. l \in Nat /\ (tr => l = Len(s))
    BY <1>0, <2>4, <2>5, <2>6
  <2>8. Continued(b, s) = IF l > Len(s) THEN d ELSE c
    BY <1>2 DEF Continued, last, list
  <2>9. CASE l > Len(s)
    <3>1. Continued(b, s) = d
      BY <2>8, <2>9
    <3>2. d.corrupt /\ d.file = b.file /\ Good(d)
      BY DEF Good, Urgent, Buffers
    <3>. QED  BY <3>1, <3>2
  <2>10. CASE ~ (l > Len(s))
    <3>0. l \in 0 .. Len(s) /\ Continued(b, s) = c
      BY <1>0, <2>7, <2>8, <2>10
    <3>1. u \in Seq(Octet)
      BY <3>0
    <3>. HIDE DEF l, u, tr
    <3>2. /\ new \in Seq(Seq(Octet)) /\ Len(new) = len /\ new[len] = last \o u
          /\ \A i \in 1 .. len - 1 : new[i] = list[i]
          /\ FlattenSeq(new) = FlattenSeq(list) \o u
      BY <1>0, <2>1, <3>1, LastGrows DEF last, len
    <3>. HIDE DEF new
    <3>3. /\ c.list = new /\ c.trailing = tr /\ c.skip = b.skip /\ c.urg = b.urg
          /\ c.file = b.file /\ c.corrupt = b.corrupt /\ c \in Buffers
      <4>1. tr \in BOOLEAN
        BY DEF tr
      <4>. QED  BY <1>0, <3>2, <4>1 DEF Buffers
    <3>. HIDE DEF c
    <3>4. c.skip <= Length(c.list) /\ ListUnsent(c) = ListUnsent(b) \o u
      BY <3>1, <3>2, <3>3, MoreUnsent DEF list
    <3>5. Urgent(c)
      <4>. SUFFICES ASSUME b.urg # 0
                    PROVE  b.urg <= len /\ new[b.urg] = Synch /\ (b.urg = 1 => b.skip = 0)
        BY <3>2, <3>3 DEF Urgent
      <4>1. b.urg <= len /\ list[b.urg] = Synch /\ (b.urg = 1 => b.skip = 0)
        BY DEF Good, Urgent, list, len
      <4>2. CASE b.urg < len
        <5>1. b.urg \in 1 .. len - 1
          BY <1>0, <4>2
        <5>. QED  BY <3>2, <4>1, <5>1
      <4>3. CASE b.urg = len
        <5>1. last = Synch
          BY <2>3, <4>1, <4>3
        <5>2. ItemLength(whole) = 2
          <6>1. Len(last) = 2 /\ last[1].code = "IAC" /\ last[2].code = "DM"
            BY <5>1 DEF Synch, Command
          <6>2. Len(whole) # 1 /\ whole[1] = last[1] /\ whole[2] = last[2]
            <7>1. /\ Len(whole) = Len(last) + Len(s)
                  /\ \A i \in 1 .. Len(last) + Len(s) :
                       whole[i] = IF i <= Len(last) THEN last[i] ELSE s[i - Len(last)]
              BY <2>3, ConcatProperties
            <7>2. 1 \in 1 .. Len(last) + Len(s) /\ 2 \in 1 .. Len(last) + Len(s)
              BY <1>0, <6>1
            <7>. HIDE DEF whole
            <7>. QED  BY <1>0, <6>1, <7>1, <7>2
          <6>. HIDE DEF whole
          <6>. QED  BY <6>1, <6>2 DEF ItemLength
        <5>3. l = 0
          <6>1. Len(last) = 2
            BY <5>1, SynchType
          <6>. QED  BY <2>6, <5>2, <6>1
        <5>4. u = <<>>
          BY <5>3 DEF u
        <5>5. last \o u = last
          BY <2>3, <5>4
        <5>. QED  BY <3>2, <4>1, <4>3, <5>1, <5>5
      <4>. QED  BY <1>0, <4>1, <4>2, <4>3
    <3>6. c.trailing => c.list # <<>> /\ Last(c.list) # <<>> /\ Open(Last(c.list))
      <4>. SUFFICES ASSUME tr PROVE new # <<>> /\ Last(new) # <<>> /\ Open(Last(new))
        BY <3>3
      <4>1. l = Len(s)
        BY <2>7
      <4>2. u = s
        BY <4>1 DEF u
      <4>3. Last(new) = whole
        BY <3>2, <4>2 DEF Last
      <4>4. ItemLength(whole) = 0
        BY DEF tr
      <4>5. new # <<>>
        <5>1. Len(new) # 0
          BY <1>0, <2>2, <3>2
        <5>. QED  BY <3>2, <5>1, NotEmpty
      <4>. QED  BY <2>4, <4>3, <4>4, <4>5 DEF Open
    <3>7. Good(c)
      BY <3>3, <3>4, <3>5, <3>6 DEF Good
    <3>. QED  BY <2>7, <3>0, <3>3, <3>4, <3>7 DEF l, u
  <2>. QED  BY <2>9, <2>10
<1>. QED  BY <1>0, <1>1, <1>2 DEF Buffers

\* What netclear() leaves; the urgent pointer follows its item or is reset.
LEMMA ClearedGood ==
    ASSUME NEW b, Good(b), NEW spared
    PROVE  /\ Good(Cleared(b, spared)) /\ Cleared(b, spared).file = b.file
           /\ Cleared(b, spared).corrupt = b.corrupt
           /\ Cleared(b, spared).trailing = b.trailing
<1>. DEFINE list == b.list
            len == Len(list)
            ids == [k \in DOMAIN list |-> k]
            keep == {k \in DOMAIN list : \/ ~Unwanted(list[k], k \in spared)
                                         \/ b.trailing /\ k = len}
            kept == Kept(b, spared)
            n == Len(kept)
            new == [i \in DOMAIN kept |-> list[kept[i]]]
            I == {i \in 1 .. n : kept[i] = b.urg}
            urg == IF I # {} THEN Min(I) ELSE 0
            c == [b EXCEPT !.list = new, !.skip = 0, !.urg = urg]
<1>0. /\ list \in Seq(Seq(Octet)) /\ len \in Nat /\ b \in Buffers
      /\ DOMAIN list = 1 .. len /\ \A i \in 1 .. len : list[i] \in Seq(Octet)
  <2>1. b.list \in Seq(Seq(Octet)) /\ b \in Buffers
    BY BufferTypes DEF Good
  <2>. QED  BY <2>1
<1>1. Cleared(b, spared) = c
  <2>1. SelectInSeq(kept, LAMBDA k : k = b.urg) = urg
    BY DEF SelectInSeq
  <2>. HIDE DEF urg, kept
  <2>. QED  BY <2>1 DEF Cleared, kept
<1>. HIDE DEF list, len
<1>2. ids \in Seq(1 .. len) /\ Len(ids) = len /\ \A k \in 1 .. len : ids[k] = k
  BY <1>0
<1>3. kept = Only(ids, keep)
  BY DEF Kept, list, len
<1>. HIDE DEF kept, keep, ids
<1>4. kept \in Seq(1 .. len)
  BY <1>2, <1>3, OnlyType
<1>5. n \in Nat /\ DOMAIN kept = 1 .. n /\ \A i \in 1 .. n : kept[i] \in 1 .. len
  <2>. DEFINE S == 1 .. len
  <2>1. kept \in Seq(S)
    BY <1>4
  <2>. HIDE DEF S
  <2>2. n \in Nat /\ DOMAIN kept = 1 .. n /\ \A i \in 1 .. n : kept[i] \in S
    BY <2>1
  <2>. QED  BY <2>2 DEF S
<1>. HIDE DEF n
<1>6. new \in Seq(Seq(Octet)) /\ Len(new) = n /\ \A i \in 1 .. n : new[i] = list[kept[i]]
  <2>. DEFINE Piece == Seq(Octet)
  <2>1. \A i \in 1 .. n : list[kept[i]] \in Piece
    BY <1>0, <1>5
  <2>2. new = [i \in 1 .. n |-> list[kept[i]]]
    BY <1>5
  <2>. HIDE DEF Piece
  <2>3. new \in Seq(Piece) /\ Len(new) = n /\ \A i \in 1 .. n : new[i] = list[kept[i]]
    BY <1>5, <2>1, <2>2
  <2>. QED  BY <2>3 DEF Piece
<1>7. urg \in Nat /\ (urg # 0 => urg \in 1 .. n /\ kept[urg] = b.urg)
  <2>1. I \in SUBSET Nat
    BY <1>5
  <2>2. I # {} => Min(I) \in I
    <3>. HIDE DEF I
    <3>. QED  BY <2>1, LeastIs
  <2>. QED  BY <1>5, <2>2
<1>. HIDE DEF urg, new
<1>8. /\ c.list = new /\ c.skip = 0 /\ c.urg = urg /\ c.trailing = b.trailing
      /\ c.file = b.file /\ c.corrupt = b.corrupt /\ c \in Buffers
  BY <1>0, <1>6, <1>7 DEF Buffers
<1>. HIDE DEF c
<1>9. c.skip <= Length(c.list)
  <2>1. FlattenSeq(new) \in Seq(Octet)
    BY <1>6, FlattenType
  <2>2. Len(FlattenSeq(new)) \in Nat
    BY <2>1
  <2>. QED  BY <1>8, <2>2 DEF Length
<1>10. Urgent(c)
  <2>. SUFFICES ASSUME urg # 0 PROVE urg <= Len(new) /\ new[urg] = Synch
    BY <1>8 DEF Urgent
  <2>1. urg \in 1 .. n /\ kept[urg] = b.urg /\ b.urg \in 1 .. len
    BY <1>5, <1>7
  <2>2. list[b.urg] = Synch
    BY <1>0, <2>1 DEF Good, Urgent, list
  <2>. QED  BY <1>5, <1>6, <2>1, <2>2
<1>11. c.trailing => c.list # <<>> /\ Last(c.list) # <<>> /\ Open(Last(c.list))
  <2>. SUFFICES ASSUME b.trailing
                PROVE  new # <<>> /\ Last(new) # <<>> /\ Open(Last(new))
    BY <1>8
  <2>1. list # <<>> /\ Last(list) # <<>> /\ Open(Last(list))
    BY DEF Good, list
  <2>2. len # 0
    BY <1>0, <2>1 DEF len
  <2>3. len \in keep /\ len \in 1 .. len
    BY <1>0, <2>2 DEF keep
  <2>4. ids # <<>>
    BY <1>2, <2>2
  <2>5. kept # <<>> /\ Last(kept) = ids[len]
    BY <1>2, <1>3, <2>3, <2>4, OnlyEnds
  <2>6. n # 0 /\ kept[n] = len
    BY <1>2, <1>4, <2>3, <2>5 DEF Last, n
  <2>7. Last(new) = Last(list)
    BY <1>5, <1>6, <2>6 DEF Last, len
  <2>8. new # <<>>
    BY <1>6, <2>6, NotEmpty
  <2>. QED  BY <2>1, <2>7, <2>8
<1>12. Good(c)
  BY <1>8, <1>9, <1>10, <1>11 DEF Good
<1>. QED  BY <1>1, <1>8, <1>12

-----------------------------------------------------------------------------
(* netwrite(): what is left becomes items                                  *)

\* More items are put behind those of b.
More(b, ps, tr, co) == [b EXCEPT !.list = b.list \o ps, !.trailing = tr, !.corrupt = co]

\* They are sent after what is unsent of b.
LEMMA MoreSends ==
    ASSUME NEW b, Good(b), NEW ps \in Seq(Seq(Octet)), NEW tr \in BOOLEAN, NEW co \in BOOLEAN,
           tr => ps # <<>> /\ Last(ps) # <<>> /\ Open(Last(ps))
    PROVE  /\ Good(More(b, ps, tr, co)) /\ More(b, ps, tr, co).file = b.file
           /\ ListUnsent(More(b, ps, tr, co)) = ListUnsent(b) \o FlattenSeq(ps)
<1>. DEFINE list == b.list
            new == list \o ps
            c == More(b, ps, tr, co)
            Piece == Seq(Octet)
<1>0. list \in Seq(Seq(Octet)) /\ b \in Buffers /\ b.urg \in Nat
  BY BufferTypes DEF Good
<1>. HIDE DEF list
<1>1. Parts(new, list, ps)
  BY <1>0, JoinedParts
<1>2. /\ new \in Seq(Piece) /\ Len(new) = Len(list) + Len(ps) /\ Len(list) \in Nat /\ Len(ps) \in Nat
      /\ \A i \in 1 .. Len(list) : new[i] = list[i]
      /\ \A i \in 1 .. Len(ps) : new[Len(list) + i] = ps[i]
      /\ ps # <<>> => Len(ps) # 0
  <2>1. list \in Seq(Piece) /\ ps \in Seq(Piece)
    BY <1>0
  <2>. HIDE DEF Piece, list
  <2>. QED  BY <2>1
<1>. HIDE DEF new
<1>3. /\ c.list = new /\ c.skip = b.skip /\ c.urg = b.urg /\ c.trailing = tr
      /\ c.file = b.file /\ c.corrupt = co /\ c \in Buffers
  BY <1>0, <1>2 DEF Buffers, More, new, list
<1>. HIDE DEF c
<1>4. /\ FlattenSeq(ps) \in Seq(Octet) /\ FlattenSeq(new) = FlattenSeq(list) \o FlattenSeq(ps)
  BY <1>1 DEF Parts
<1>5. c.skip <= Length(c.list) /\ ListUnsent(c) = ListUnsent(b) \o FlattenSeq(ps)
  <2>. DEFINE t == FlattenSeq(ps)
  <2>. HIDE DEF t
  <2>1. c.skip <= Length(c.list) /\ ListUnsent(c) = ListUnsent(b) \o t
    BY <1>3, <1>4, MoreUnsent DEF list, t
  <2>. QED  BY <2>1 DEF t
<1>6. Urgent(c)
  <2>. SUFFICES ASSUME b.urg # 0
                PROVE  b.urg <= Len(new) /\ new[b.urg] = Synch /\ (b.urg = 1 => b.skip = 0)
    BY <1>3 DEF Urgent
  <2>1. b.urg <= Len(list) /\ list[b.urg] = Synch /\ (b.urg = 1 => b.skip = 0)
    BY DEF Good, Urgent, list
  <2>2. b.urg \in 1 .. Len(list)
    BY <1>0, <1>2, <2>1
  <2>. QED  BY <1>2, <2>1, <2>2
<1>7. c.trailing => c.list # <<>> /\ Last(c.list) # <<>> /\ Open(Last(c.list))
  <2>. SUFFICES ASSUME tr PROVE new # <<>> /\ Last(new) # <<>> /\ Open(Last(new))
    BY <1>3
  <2>1. ps # <<>> /\ Last(ps) # <<>> /\ Open(Last(ps))
    OBVIOUS
  <2>2. Len(ps) \in 1 .. Len(ps) /\ Len(new) # 0
    BY <1>2, <2>1
  <2>3. Last(new) = Last(ps)
    BY <1>2, <2>2 DEF Last
  <2>4. new # <<>>
    <3>. HIDE DEF Piece
    <3>. QED  BY <1>2, <2>2, NotEmpty
  <2>. QED  BY <2>1, <2>3, <2>4
<1>. QED  BY <1>3, <1>5, <1>6, <1>7 DEF Good, list, c

\* The items of s; those that netclear() does not want may be left out.
LEMMA AddedGood ==
    ASSUME NEW b, Good(b), ~b.corrupt, NEW s \in Seq(Octet), NEW clear \in BOOLEAN, NEW spared
    PROVE  /\ Good(Added(b, s, clear, spared)) /\ Added(b, s, clear, spared).file = b.file
           /\ ~clear => ListUnsent(Added(b, s, clear, spared)) = ListUnsent(b) \o s
<1>1. CASE s = <<>>
  <2>1. Added(b, s, clear, spared) = b
    BY <1>1 DEF Added
  <2>2. ListUnsent(b) \o <<>> = ListUnsent(b)
    <3>1. ListUnsent(b) \in Seq(Octet)
      BY ListUnsentType
    <3>. QED  BY <3>1
  <2>. QED  BY <1>1, <2>1, <2>2
<1>2. CASE s # <<>>
  <2>. DEFINE items == Items(s)
              keep == {i \in DOMAIN items : ~Unwanted(items[i].item, 0 \in spared)}
              wanted == IF ~clear THEN items ELSE Only(items, keep)
              tr == Last(items).length = 0
              co == Last(items).length > Len(Last(items).item)
  <2>1. Added(b, s, clear, spared) = More(b, Pieces(wanted), tr, co)
    <3>. HIDE DEF items
    <3>1. Pieces(wanted) = [i \in DOMAIN wanted |-> wanted[i].item]
      BY DEF Pieces
    <3>2. Added(b, s, clear, spared) =
            [b EXCEPT !.list = b.list \o [i \in DOMAIN wanted |-> wanted[i].item],
                      !.trailing = tr, !.corrupt = co]
      BY <1>2, Zenon DEF Added, items
    <3>. HIDE DEF wanted, tr, co
    <3>. QED  BY <3>1, <3>2, Zenon DEF More
  <2>2. Cut(items, s)
    BY <1>2, ItemsCut
  <2>. HIDE DEF items, keep
  <2>3. /\ items \in Seq(Item) /\ items # <<>> /\ Pieces(items) \in Seq(Seq(Octet))
        /\ FlattenSeq(Pieces(items)) = s
        /\ Last(items).item # <<>> /\ Last(items).length = ItemLength(Last(items).item)
    BY <2>2 DEF Cut
  <2>4. Last(items) \in Item /\ Last(items) = items[Len(items)] /\ Len(items) \in DOMAIN items
    BY <2>3 DEF Last
  <2>5. wanted \in Seq(Item) /\ (tr => wanted # <<>> /\ Last(wanted) = Last(items))
    <3>1. CASE ~clear
      BY <2>3, <3>1
    <3>2. CASE clear
      <4>1. Only(items, keep) \in Seq(Item)
        BY <2>3, OnlyType
      <4>2. ASSUME tr PROVE Only(items, keep) # <<>> /\ Last(Only(items, keep)) = Last(items)
        <5>1. Last(items).item \in Seq(Octet)
          BY <2>4 DEF Item
        <5>2. Last(items).item[1].code = "IAC"
          BY <2>3, <4>2, <5>1, ItemLengthType
        <5>3. Len(items) \in keep
          BY <2>4, <5>2 DEF keep, Unwanted
        <5>. QED  BY <2>3, <2>4, <5>3, OnlyEnds
      <4>. QED  BY <3>2, <4>1, <4>2
    <3>. QED  BY <3>1, <3>2
  <2>. DEFINE ps == Pieces(wanted)
  <2>6. ps \in Seq(Seq(Octet)) /\ Len(ps) = Len(wanted)
    <3>. HIDE DEF wanted
    <3>. QED  BY <2>5, PiecesType
  <2>7. tr => ps # <<>> /\ Last(ps) # <<>> /\ Open(Last(ps))
    <3>. SUFFICES ASSUME tr PROVE ps # <<>> /\ Last(ps) # <<>> /\ Open(Last(ps))
      OBVIOUS
    <3>0. wanted \in Seq(Item) /\ wanted # <<>> /\ Last(wanted) = Last(items)
      BY <2>5
    <3>. HIDE DEF wanted
    <3>1. Len(wanted) # 0 /\ Len(wanted) \in DOMAIN wanted
      BY <3>0
    <3>2. ps[Len(wanted)] = wanted[Len(wanted)].item
      BY <3>1 DEF Pieces
    <3>3. Last(ps) = Last(items).item
      BY <2>6, <3>0, <3>2 DEF Last
    <3>4. ps # <<>>
      <4>. HIDE DEF ps
      <4>. QED  BY <2>6, <3>1, NotEmpty
    <3>. QED  BY <2>3, <3>3, <3>4 DEF Open
  <2>8. tr \in BOOLEAN /\ co \in BOOLEAN
    OBVIOUS
  <2>9. ~clear => ps = Pieces(items)
    BY Zenon
  <2>. HIDE DEF wanted, ps, tr, co
  <2>10. /\ Good(More(b, ps, tr, co)) /\ More(b, ps, tr, co).file = b.file
         /\ ListUnsent(More(b, ps, tr, co)) = ListUnsent(b) \o FlattenSeq(ps)
    BY <2>6, <2>7, <2>8, MoreSends
  <2>11. Added(b, s, clear, spared) = More(b, ps, tr, co)
    BY <2>1 DEF ps
  <2>. QED  BY <2>3, <2>9, <2>10, <2>11
<1>. QED  BY <1>1, <1>2

\* netwrite() loses and moves nothing but for netclear(), or is corrupt.
LEMMA NetWriteGood ==
    ASSUME NEW b, Good(b), ~b.corrupt, NEW s \in Seq(Octet), s # <<>>,
           NEW clear \in BOOLEAN, NEW spared
    PROVE  /\ Good(NetWrite(b, s, clear, spared)) /\ NetWrite(b, s, clear, spared).file = b.file
           /\ ~clear /\ ~NetWrite(b, s, clear, spared).corrupt =>
                ListUnsent(NetWrite(b, s, clear, spared)) = ListUnsent(b) \o s
<1>. DEFINE l == Completion(b, s)
            rest == SubSeq(s, l + 1, Len(s))
            c == Continued(b, s)
            d == IF clear THEN Cleared(c, spared) ELSE c
            w == NetWrite(b, s, clear, spared)
<1>1. /\ Good(c) /\ c.file = b.file
      /\ ~c.corrupt => l \in 0 .. Len(s) /\ ListUnsent(c) = ListUnsent(b) \o SubSeq(s, 1, l)
  BY ContinuedGood
<1>2. w = IF c.corrupt THEN c ELSE Added(d, rest, clear, spared)
  BY DEF NetWrite
<1>. HIDE DEF l, c, w
<1>3. CASE c.corrupt
  BY <1>1, <1>2, <1>3 DEF w
<1>4. CASE ~c.corrupt
  <2>1. /\ SubSeq(s, 1, l) \in Seq(Octet) /\ rest \in Seq(Octet) /\ SubSeq(s, 1, l) \o rest = s
    BY <1>1, <1>4, Rejoined
  <2>2. /\ Good(Cleared(c, spared)) /\ Cleared(c, spared).file = c.file
        /\ Cleared(c, spared).corrupt = c.corrupt
    BY <1>1, ClearedGood
  <2>3. Good(d) /\ d.file = b.file /\ ~d.corrupt
    BY <1>1, <1>4, <2>2
  <2>4. ~clear => d = c
    OBVIOUS
  <2>. HIDE DEF rest, d
  <2>5. /\ Good(Added(d, rest, clear, spared)) /\ Added(d, rest, clear, spared).file = d.file
        /\ ~clear => ListUnsent(Added(d, rest, clear, spared)) = ListUnsent(d) \o rest
    BY <2>1, <2>3, AddedGood
  <2>6. (ListUnsent(b) \o SubSeq(s, 1, l)) \o rest = ListUnsent(b) \o s
    <3>1. ListUnsent(b) \in Seq(Octet)
      BY ListUnsentType
    <3>. DEFINE x == ListUnsent(b)
                y == SubSeq(s, 1, l)
    <3>2. x \in Seq(Octet) /\ y \in Seq(Octet) /\ rest \in Seq(Octet) /\ y \o rest = s
      BY <2>1, <3>1
    <3>. HIDE DEF x, y
    <3>3. (x \o y) \o rest = x \o (y \o rest)
      BY <3>2, OctetsAssociative
    <3>. QED  BY <3>2, <3>3 DEF x, y
  <2>7. w = Added(d, rest, clear, spared)
    BY <1>2, <1>4
  <2>. QED  BY <1>1, <1>4, <2>3, <2>4, <2>5, <2>6, <2>7 DEF w
<1>. QED  BY <1>3, <1>4

-----------------------------------------------------------------------------
(* stdio, netflush() and sendurg()                                         *)

\* An outcome of a call by which t is written.
Keeping(b, o, t) ==
    /\ Good(o.net) /\ o.sent \in Seq(Octet)
    /\ ~o.net.corrupt => o.sent \o Unsent(o.net) = Unsent(b) \o t

\* Good does not depend on the stdio buffer.
LEMMA FileChanged ==
    ASSUME NEW b, Good(b), NEW file \in Seq(Octet)
    PROVE  /\ Good([b EXCEPT !.file = file]) /\ [b EXCEPT !.file = file].file = file
           /\ [b EXCEPT !.file = file].corrupt = b.corrupt
           /\ ListUnsent([b EXCEPT !.file = file]) = ListUnsent(b)
<1>. DEFINE c == [b EXCEPT !.file = file]
<1>1. /\ c \in Buffers /\ c.file = file /\ c.list = b.list /\ c.skip = b.skip
      /\ c.trailing = b.trailing /\ c.urg = b.urg /\ c.corrupt = b.corrupt
  BY DEF Good, Buffers
<1>. HIDE DEF c
<1>2. Good(c) /\ ListUnsent(c) = ListUnsent(b)
  BY <1>1 DEF Good, Urgent, ListUnsent
<1>. QED  BY <1>1, <1>2 DEF c

LEMMA SilentIs ==
    ASSUME NEW b
    PROVE  Silent(b).net = b /\ Silent(b).sent = <<>>
BY DEF Silent

\* What netwrite() does when it has the items.
Out(w, clear) == IF w.corrupt THEN {Silent(w)} ELSE WriteBuf(w, clear)

\* An outcome of netwrite() of s.
PutOut(b, s, clear, o) ==
    /\ Good(o.net) /\ o.sent \in Seq(Octet) /\ o.net.file = b.file
    /\ ~clear /\ ~o.net.corrupt => o.sent \o ListUnsent(o.net) = ListUnsent(b) \o s

\* netwrite() of s: what it does and what the socket takes.
LEMMA WriteOut ==
    ASSUME NEW b, Good(b), ~b.corrupt, NEW s \in Seq(Octet), s # <<>>,
           NEW clear \in BOOLEAN, NEW spared,
           NEW o \in Out(NetWrite(b, s, clear, spared), clear)
    PROVE  PutOut(b, s, clear, o)
<1>. DEFINE w == NetWrite(b, s, clear, spared)
<1>. HIDE DEF w
<1>0. o \in Out(w, clear)
  BY DEF w
<1>1. /\ Good(w) /\ w.file = b.file
      /\ ~clear /\ ~w.corrupt => ListUnsent(w) = ListUnsent(b) \o s
  BY NetWriteGood DEF w
<1>2. CASE w.corrupt
  <2>1. o.net = w /\ o.sent = <<>>
    BY <1>0, <1>2, SilentIs DEF Out
  <2>2. <<>> \in Seq(Octet)
    OBVIOUS
  <2>. QED  BY <1>1, <1>2, <2>1, <2>2 DEF PutOut
<1>3. CASE ~w.corrupt
  <2>1. Written(w, o)
    BY <1>0, <1>1, <1>3, WriteBufWrites DEF Out
  <2>. QED  BY <1>1, <1>3, <2>1 DEF Written, PutOut
<1>. QED  BY <1>2, <1>3

LEMMA UnsentType ==
    ASSUME NEW b, Good(b)
    PROVE  Unsent(b) \in Seq(Octet)
<1>1. ListUnsent(b) \in Seq(Octet) /\ b.file \in Seq(Octet)
  BY ListUnsentType, BufferTypes
<1>. QED  BY <1>1, JoinedSeq DEF Unsent

\* putc() and fputs(): stdio keeps octets back, and what it has is written before more.
LEMMA PutsKeep ==
    ASSUME NEW b, Good(b), ~b.corrupt, NEW u \in Seq(Octet), NEW o \in Puts(b, u)
    PROVE  Keeping(b, o, u)
<1>. DEFINE all == b.file \o u
            s == SubSeq(all, 1, FileSize)
            rest == SubSeq(all, FileSize + 1, Len(all))
            x == ListUnsent(b)
<1>1. /\ all \in Seq(Octet) /\ x \in Seq(Octet) /\ b.file \in Seq(Octet)
      /\ Len(all) \in Nat /\ FileSize \in Nat /\ FileSize >= 5
  <2>1. b.file \in Seq(Octet)
    BY BufferTypes
  <2>2. all \in Seq(Octet)
    BY <2>1, JoinedSeq
  <2>. HIDE DEF all
  <2>. QED  BY <2>1, <2>2, ListUnsentType, FileSizeAssumption
<1>2. x \o all = Unsent(b) \o u
  <2>1. (x \o b.file) \o u = x \o (b.file \o u)
    <3>. HIDE DEF x
    <3>. QED  BY <1>1, OctetsAssociative
  <2>. QED  BY <2>1 DEF Unsent
<1>. HIDE DEF x, all
<1>3. CASE Len(all) <= FileSize
  <2>1. o = Silent([b EXCEPT !.file = all])
    BY <1>3 DEF Puts, all
  <2>2. o.net = [b EXCEPT !.file = all] /\ o.sent = <<>>
    BY <2>1, SilentIs
  <2>3. /\ Good(o.net) /\ o.net.file = all /\ ListUnsent(o.net) = x
    BY <1>1, <2>2, FileChanged DEF x
  <2>4. Unsent(o.net) = Unsent(b) \o u
    BY <1>2, <2>3 DEF Unsent
  <2>5. o.sent \o Unsent(o.net) = Unsent(o.net) /\ o.sent \in Seq(Octet)
    <3>1. Unsent(o.net) \in Seq(Octet)
      BY <2>3, UnsentType
    <3>. QED  BY <2>2, <3>1
  <2>. QED  BY <2>3, <2>4, <2>5 DEF Keeping
<1>4. CASE ~ (Len(all) <= FileSize)
  <2>. DEFINE c == [b EXCEPT !.file = rest]
              w == NetWrite(c, s, FALSE, {})
  <2>1. /\ s \in Seq(Octet) /\ Len(s) = FileSize /\ rest \in Seq(Octet) /\ s \o rest = all
    <3>1. FileSize \in 0 .. Len(all)
      BY <1>1, <1>4
    <3>. QED  BY <1>1, <3>1, Rejoined
  <2>2. s # <<>>
    <3>. HIDE DEF s
    <3>1. Len(s) # 0
      BY <1>1, <2>1
    <3>. QED  BY <2>1, <3>1, NotEmpty
  <2>3. o \in Out(w, FALSE)
    <3>1. Puts(b, u) = UNION {IF d.corrupt THEN {Silent(d)} ELSE WriteBuf(d, FALSE) : d \in {w}}
      BY <1>4, Zenon DEF Puts, all
    <3>. HIDE DEF w
    <3>. QED  BY <3>1 DEF Out
  <2>. HIDE DEF s, rest, w
  <2>4. /\ Good(c) /\ c.file = rest /\ c.corrupt = b.corrupt /\ ListUnsent(c) = x
    BY <2>1, FileChanged DEF x
  <2>. HIDE DEF c
  <2>0. o \in Out(NetWrite(c, s, FALSE, {}), FALSE) /\ FALSE \in BOOLEAN /\ ~c.corrupt
    BY <2>3, <2>4 DEF w
  <2>5. /\ Good(o.net) /\ o.sent \in Seq(Octet) /\ o.net.file = rest
        /\ ~o.net.corrupt => o.sent \o ListUnsent(o.net) = x \o s
    <3>1. PutOut(c, s, FALSE, o)
      BY <2>0, <2>1, <2>2, <2>4, WriteOut
    <3>. QED  BY <2>4, <3>1 DEF PutOut
  <2>6. ASSUME ~o.net.corrupt PROVE o.sent \o Unsent(o.net) = Unsent(b) \o u
    <3>. DEFINE y == ListUnsent(o.net)
                z == o.sent
    <3>1. y \in Seq(Octet) /\ z \in Seq(Octet) /\ z \o y = x \o s
      BY <2>5, <2>6, ListUnsentType
    <3>2. Unsent(o.net) = y \o rest
      BY <2>5 DEF Unsent
    <3>. HIDE DEF y, z
    <3>3. /\ x \in Seq(Octet) /\ y \in Seq(Octet) /\ z \in Seq(Octet) /\ s \in Seq(Octet)
          /\ rest \in Seq(Octet)
      BY <1>1, <2>1, <3>1
    <3>4. (z \o y) \o rest = z \o (y \o rest)
      BY <3>3, OctetsAssociative
    <3>5. (x \o s) \o rest = x \o (s \o rest)
      BY <3>3, OctetsAssociative
    <3>. QED  BY <1>2, <2>1, <3>1, <3>2, <3>5, <3>4 DEF z
  <2>. QED  BY <2>5, <2>6 DEF Keeping
<1>. QED  BY <1>3, <1>4

\* fflush() of the buffer.
LEMMA FileFlushesKeep ==
    ASSUME NEW b, Good(b), ~b.corrupt, NEW clear \in BOOLEAN, NEW spared,
           NEW o \in FileFlushes(b, clear, spared)
    PROVE  /\ Good(o.net) /\ o.sent \in Seq(Octet)
           /\ ~clear /\ ~o.net.corrupt => o.sent \o Unsent(o.net) = Unsent(b)
<1>1. CASE b.file = <<>>
  <2>1. o.net = b /\ o.sent = <<>>
    BY <1>1, SilentIs DEF FileFlushes
  <2>2. Unsent(b) \in Seq(Octet)
    BY UnsentType
  <2>3. <<>> \o Unsent(b) = Unsent(b) /\ <<>> \in Seq(Octet)
    BY <2>2
  <2>. QED  BY <2>1, <2>3
<1>2. CASE b.file # <<>>
  <2>. DEFINE c == [b EXCEPT !.file = << >>]
              w == NetWrite(c, b.file, clear, spared)
  <2>1. o \in Out(w, clear)
    <3>1. FileFlushes(b, clear, spared)
            = UNION {IF d.corrupt THEN {Silent(d)} ELSE WriteBuf(d, clear) : d \in {w}}
      BY <1>2, Zenon DEF FileFlushes
    <3>. HIDE DEF w
    <3>. QED  BY <3>1 DEF Out
  <2>2. b.file \in Seq(Octet) /\ <<>> \in Seq(Octet)
    BY BufferTypes
  <2>3. Good(c) /\ c.file = <<>> /\ c.corrupt = b.corrupt /\ ListUnsent(c) = ListUnsent(b)
    BY <2>2, FileChanged
  <2>. HIDE DEF c, w
  <2>4. /\ Good(o.net) /\ o.sent \in Seq(Octet) /\ o.net.file = <<>>
        /\ ~clear /\ ~o.net.corrupt => o.sent \o ListUnsent(o.net) = ListUnsent(b) \o b.file
    <3>1. o \in Out(NetWrite(c, b.file, clear, spared), clear) /\ ~c.corrupt
      BY <2>1, <2>3 DEF w
    <3>2. PutOut(c, b.file, clear, o)
      BY <1>2, <2>2, <2>3, <3>1, WriteOut
    <3>. QED  BY <2>3, <3>2 DEF PutOut
  <2>5. Unsent(o.net) = ListUnsent(o.net)
    <3>1. ListUnsent(o.net) \in Seq(Octet)
      BY <2>4, ListUnsentType
    <3>2. ListUnsent(o.net) \o <<>> = ListUnsent(o.net)
      BY <3>1
    <3>. QED  BY <2>4, <3>2 DEF Unsent
  <2>. QED  BY <2>4, <2>5 DEF Unsent
<1>. QED  BY <1>1, <1>2

\* An outcome of netflush().
Flushed(b, clear, o) ==
    /\ Good(o.net) /\ o.sent \in Seq(Octet) /\ o = [net |-> o.net, sent |-> o.sent]
    /\ ~clear /\ ~o.net.corrupt => o.sent \o Unsent(o.net) = Unsent(b)

\* netflush() writes all of what stdio holds.
LEMMA FlushesKeep ==
    ASSUME NEW b, Good(b), ~b.corrupt, NEW clear \in BOOLEAN, NEW spared,
           NEW o \in Flushes(b, clear, spared)
    PROVE  Flushed(b, clear, o)
<1>0. PICK f \in FileFlushes(b, clear, spared) :
        \E p \in Out(f.net, clear) : o = [net |-> p.net, sent |-> f.sent \o p.sent]
  BY DEF Flushes, Out
<1>1. PICK p \in Out(f.net, clear) : o = [net |-> p.net, sent |-> f.sent \o p.sent]
  BY <1>0
<1>2. /\ Good(f.net) /\ f.sent \in Seq(Octet)
      /\ ~clear /\ ~f.net.corrupt => f.sent \o Unsent(f.net) = Unsent(b)
  BY FileFlushesKeep
<1>3. /\ Good(p.net) /\ p.sent \in Seq(Octet) /\ (f.net.corrupt => p.net.corrupt)
      /\ ~f.net.corrupt => p.sent \o Unsent(p.net) = Unsent(f.net)
  <2>1. CASE f.net.corrupt
    <3>1. p.net = f.net /\ p.sent = <<>>
      BY <2>1, SilentIs DEF Out
    <3>2. <<>> \in Seq(Octet)
      OBVIOUS
    <3>. QED  BY <1>2, <2>1, <3>1, <3>2
  <2>2. CASE ~f.net.corrupt
    <3>1. Written(f.net, p)
      BY <1>1, <1>2, <2>2, WriteBufWrites DEF Out
    <3>2. /\ Good(p.net) /\ p.net.file = f.net.file /\ p.sent \in Seq(Octet)
          /\ p.sent \o ListUnsent(p.net) = ListUnsent(f.net)
      BY <3>1 DEF Written
    <3>. DEFINE x == p.sent
                y == ListUnsent(p.net)
                z == f.net.file
    <3>3. x \in Seq(Octet) /\ y \in Seq(Octet) /\ z \in Seq(Octet)
      BY <1>2, <3>2, ListUnsentType, BufferTypes
    <3>. HIDE DEF x, y, z
    <3>4. (x \o y) \o z = x \o (y \o z)
      BY <3>3, OctetsAssociative
    <3>5. p.sent \o Unsent(p.net) = Unsent(f.net)
      BY <3>2, <3>4 DEF Unsent, x, y, z
    <3>. QED  BY <2>2, <3>2, <3>5
  <2>. QED  BY <2>1, <2>2
<1>4. o.net = p.net /\ o.sent = f.sent \o p.sent
  BY <1>1
<1>5. o.sent \in Seq(Octet)
  BY <1>2, <1>3, <1>4, JoinedSeq
<1>6. ASSUME ~clear, ~o.net.corrupt PROVE o.sent \o Unsent(o.net) = Unsent(b)
  <2>. DEFINE x == f.sent
              y == p.sent
              z == Unsent(p.net)
  <2>1. x \in Seq(Octet) /\ y \in Seq(Octet) /\ z \in Seq(Octet)
    BY <1>2, <1>3, UnsentType
  <2>2. y \o z = Unsent(f.net) /\ x \o Unsent(f.net) = Unsent(b)
    BY <1>2, <1>3, <1>4, <1>6
  <2>3. o.sent \o Unsent(o.net) = (x \o y) \o z
    BY <1>4
  <2>. HIDE DEF x, y, z
  <2>4. (x \o y) \o z = x \o (y \o z)
    BY <2>1, OctetsAssociative
  <2>. QED  BY <2>2, <2>3, <2>4
<1>. QED  BY <1>1, <1>3, <1>4, <1>5, <1>6 DEF Flushed

\* sendurg() puts the Synch behind everything, and the pointer at it.
LEMMA SendUrgGood ==
    ASSUME NEW b, Good(b), NEW not42 \in BOOLEAN
    PROVE  Good(SendUrg(b, not42))
<1>1. CASE ~not42
  <2>1. b.file \o Synch \in Seq(Octet)
    BY BufferTypes, SynchType, JoinedSeq
  <2>. QED  BY <1>1, <2>1, FileChanged DEF SendUrg
<1>2. CASE not42
  <2>. DEFINE list == b.list
              synch == Synch
              n == Len(list) + 1
              c == More(b, <<synch>>, b.trailing, b.corrupt)
              d == [c EXCEPT !.urg = n]
              Piece == Seq(Octet)
  <2>1. /\ b.list \in Seq(Seq(Octet)) /\ b.trailing \in BOOLEAN /\ b.corrupt \in BOOLEAN
        /\ b \in Buffers /\ b.skip \in Nat /\ b.skip <= Length(b.list)
    BY BufferTypes DEF Good
  <2>2. synch \in Piece /\ list \in Seq(Piece)
    BY <2>1, SynchType
  <2>. HIDE DEF synch
  <2>3. /\ <<synch>> \in Seq(Piece) /\ <<synch>> # <<>> /\ Last(<<synch>>) = synch
        /\ list \o <<synch>> = Append(list, synch) /\ n \in Nat /\ Len(list \o <<synch>>) = n
        /\ (list \o <<synch>>)[n] = synch
        /\ n = 1 => list = <<>>
    <3>. HIDE DEF Piece, list
    <3>1. <<synch>> \in Seq(Piece) /\ <<synch>> # <<>> /\ Last(<<synch>>) = synch
      BY <2>2 DEF Last
    <3>2. list \o <<synch>> = Append(list, synch) /\ Len(list) \in Nat
      BY <2>2, AppendIsConcat
    <3>3. Len(list \o <<synch>>) = n /\ (list \o <<synch>>)[n] = synch
      BY <2>2, <3>2
    <3>4. n = 1 => list = <<>>
      BY <2>2, <3>2
    <3>. QED  BY <3>1, <3>2, <3>3, <3>4
  <2>4. Last(<<synch>>) # <<>> /\ Open(Last(<<synch>>))
    BY <2>3, SynchType DEF Open, synch
  <2>5. Good(c)
    BY <2>1, <2>3, <2>4, MoreSends
  <2>6. c.list = list \o <<synch>> /\ c.skip = b.skip
    BY <2>1 DEF More, Buffers
  <2>7. SendUrg(b, not42) = d
    <3>1. SendUrg(b, not42) = [b EXCEPT !.list = list \o <<synch>>, !.urg = n]
      BY <1>2, <2>3 DEF SendUrg, synch
    <3>2. d = [b EXCEPT !.list = list \o <<synch>>, !.urg = n]
      <4>. DEFINE new == list \o <<synch>>
      <4>. HIDE DEF new, n
      <4>1. c = [b EXCEPT !.list = new, !.trailing = b.trailing, !.corrupt = b.corrupt]
        BY DEF More, new
      <4>. HIDE DEF c
      <4>2. d = [b EXCEPT !.list = new, !.urg = n]
        BY <2>1, <4>1 DEF Buffers
      <4>. QED  BY <4>2 DEF new
    <3>. QED  BY <3>1, <3>2
  <2>. HIDE DEF c, n, list
  <2>8. /\ d \in Buffers /\ d.list = c.list /\ d.skip = c.skip /\ d.trailing = c.trailing
        /\ d.urg = n
    BY <2>3, <2>5 DEF Good, Buffers
  <2>. HIDE DEF d
  <2>9. Urgent(d)
    <3>1. n = 1 => d.skip = 0
      <4>1. ASSUME n = 1 PROVE d.skip = 0
        <5>1. Length(b.list) = 0
          <6>1. list = <<>>
            BY <2>3, <4>1
          <6>. QED  BY <6>1, FlattenEmpty DEF Length, list
        <5>. QED  BY <2>1, <2>6, <2>8, <5>1
      <4>. QED  BY <4>1
    <3>2. n <= Len(d.list) /\ d.list[n] = Synch
      BY <2>3, <2>6, <2>8 DEF synch
    <3>. QED  BY <2>8, <3>1, <3>2 DEF Urgent
  <2>10. Good(d)
    BY <2>5, <2>8, <2>9 DEF Good
  <2>. QED  BY <2>7, <2>10
<1>. QED  BY <1>1, <1>2

\* netclear() flushes, and sendurg() follows.
ClearFlushes(b, spared) == Flushes(b, TRUE, spared)

SentUrg(f, not42) == [f EXCEPT !.net = IF @.corrupt THEN @ ELSE SendUrg(@, not42)]

\* netclear() may drop items, but what it leaves is Good.
LEMMA ClearsGood ==
    ASSUME NEW b, Good(b), ~b.corrupt, NEW o \in Clears(b)
    PROVE  Good(o.net) /\ o.sent \in Seq(Octet)
<1>. DEFINE After(x) == {SentUrg(o1, not42) : o1 \in ClearFlushes(b, x), not42 \in BOOLEAN}
<1>1. Clears(b) = UNION {After(x) : x \in SUBSET OneByte(b)}
  BY DEF Clears, SentUrg, ClearFlushes
<1>2. PICK spared : o \in After(spared)
  <2>. HIDE DEF After
  <2>. QED  BY <1>1
<1>3. PICK f \in ClearFlushes(b, spared), not42 \in BOOLEAN : o = SentUrg(f, not42)
  BY <1>2
<1>4. Flushed(b, TRUE, f)
  <2>1. f \in Flushes(b, TRUE, spared) /\ TRUE \in BOOLEAN
    BY <1>3 DEF ClearFlushes
  <2>. QED  BY <2>1, FlushesKeep
<1>5. Good(f.net) /\ f.sent \in Seq(Octet) /\ f = [net |-> f.net, sent |-> f.sent]
  BY <1>4 DEF Flushed
<1>6. Good(SendUrg(f.net, not42))
  BY <1>5, SendUrgGood
<1>7. o.net = (IF f.net.corrupt THEN f.net ELSE SendUrg(f.net, not42)) /\ o.sent = f.sent
  <2>. DEFINE x == f.net
              y == f.sent
              z == IF x.corrupt THEN x ELSE SendUrg(x, not42)
  <2>1. f = [net |-> x, sent |-> y] /\ o = [f EXCEPT !.net = z]
    BY <1>3, <1>5 DEF SentUrg
  <2>. HIDE DEF x, y, z
  <2>2. o.net = z /\ o.sent = y
    BY <2>1
  <2>. QED  BY <2>2 DEF x, y, z
<1>. QED  BY <1>5, <1>6, <1>7

-----------------------------------------------------------------------------
(* Sequences                                                               *)

\* What is left behind the first k elements.
LEMMA DropType ==
    ASSUME NEW S, NEW s \in Seq(S), NEW k \in Nat
    PROVE  Drop(s, k) \in Seq(S) /\ (k <= Len(s) => Len(Drop(s, k)) = Len(s) - k)
BY DEF Drop

\* The first k elements.
LEMMA FirstType ==
    ASSUME NEW S, NEW s \in Seq(S), NEW k \in Int, k <= Len(s)
    PROVE  SubSeq(s, 1, k) \in Seq(S)
OBVIOUS

LEMMA HeadType ==
    ASSUME NEW S, NEW s \in Seq(S), s # << >>
    PROVE  Head(s) \in S /\ Tail(s) \in Seq(S)
OBVIOUS

LEMMA EmptyType ==
    ASSUME NEW S
    PROVE  << >> \in Seq(S)
OBVIOUS

LEMMA AppendType ==
    ASSUME NEW S, NEW s \in Seq(S), NEW c \in S
    PROVE  /\ Append(s, c) \in Seq(S) /\ Len(Append(s, c)) = Len(s) + 1
           /\ <<c>> \in Seq(S)
OBVIOUS

LEMMA Codes ==
    ASSUME NEW s \in Seq(InCode), NEW c \in InCode, NEW k \in Int, k <= Len(s)
    PROVE  /\ Append(s, c) \in Seq(InCode) /\ Len(Append(s, c)) = Len(s) + 1
           /\ <<c>> \in Seq(InCode)
           /\ SubSeq(s, 1, k) \in Seq(InCode)
           /\ k >= 0 => Drop(s, k) \in Seq(InCode) /\ Len(Drop(s, k)) = Len(s) - k
<1>1. Append(s, c) \in Seq(InCode) /\ Len(Append(s, c)) = Len(s) + 1 /\ <<c>> \in Seq(InCode)
  BY AppendType
<1>2. SubSeq(s, 1, k) \in Seq(InCode)
  BY FirstType
<1>3. k >= 0 => Drop(s, k) \in Seq(InCode) /\ Len(Drop(s, k)) = Len(s) - k
  BY DropType
<1>. QED  BY <1>1, <1>2, <1>3

LEMMA ShortType ==
    ASSUME NEW S, NEW c \in S, NEW d \in S
    PROVE  <<c>> \in Seq(S) /\ <<c, d>> \in Seq(S)
OBVIOUS

LEMMA ShortCodes ==
    ASSUME NEW c \in InCode
    PROVE  <<c>> \in Seq(InCode) /\ <<"IAC", c>> \in Seq(InCode) /\ <<"WILL", c>> \in Seq(InCode)
<1>1. "IAC" \in InCode /\ "WILL" \in InCode
  BY DEF InCode
<1>. QED  BY <1>1, ShortType

\* Min() of two numbers.
LEMMA MinOfTwo ==
    ASSUME NEW a \in Int, NEW b \in Int
    PROVE  Min({a, b}) \in Int /\ Min({a, b}) <= a /\ Min({a, b}) <= b
BY DEF Min

\* What SB_ACCUM makes of the buffer.
LEMMA AccumulateType ==
    ASSUME NEW sub \in Seq(InCode), NEW cs \in Seq(InCode)
    PROVE  Accumulate(sub, cs) \in Seq(InCode)
<1>. DEFINE a == Len(cs)
            b == SubSize - 1 - Len(sub)
            k == Min({a, b})
<1>1. a \in Int /\ b \in Int
  BY SizesAssumption
<1>. HIDE DEF a, b
<1>2. k \in Int /\ k <= a
  BY <1>1, MinOfTwo
<1>. HIDE DEF k
<1>3. SubSeq(cs, 1, k) \in Seq(InCode)
  BY <1>2, Codes DEF a
<1>4. Accumulate(sub, cs) = sub \o SubSeq(cs, 1, k)
  BY DEF Accumulate, a, b, k
<1>. QED  BY <1>3, <1>4

-----------------------------------------------------------------------------
(* telrcv()                                                                *)

\* t is s after at most one store into ptyobuf.
Grows(s, t) ==
    /\ t \in ServerState
    /\ t.back = s.back /\ Len(t.ptyobuf) <= Len(s.ptyobuf) + 1
    /\ t.pc = s.pc /\ t.ended = s.ended

\* The same with none.
Keeps(s, t) ==
    /\ t \in ServerState
    /\ t.back = s.back /\ t.ptyobuf = s.ptyobuf
    /\ t.pc = s.pc /\ t.ended = s.ended

\* A store into ptyobuf.
LEMMA ToPtyGrows ==
    ASSUME NEW s \in ServerState, NEW t, Keeps(s, t), NEW c \in InCode
    PROVE  Grows(s, ToPty(t, c))
<1>. DEFINE q == t.ptyobuf
            more == Append(q, c)
<1>1. q \in Seq(InCode) /\ t \in ServerState
  BY DEF Keeps, ServerState
<1>. HIDE DEF q
<1>2. more \in Seq(InCode) /\ Len(more) = Len(q) + 1
  BY <1>1, AppendType
<1>. HIDE DEF more
<1>3. ToPty(t, c) = [t EXCEPT !.ptyobuf = more]
  BY DEF ToPty, more, q
<1>4. /\ [t EXCEPT !.ptyobuf = more] \in ServerState
      /\ [t EXCEPT !.ptyobuf = more].ptyobuf = more
      /\ [t EXCEPT !.ptyobuf = more].back = t.back
      /\ [t EXCEPT !.ptyobuf = more].pc = t.pc
      /\ [t EXCEPT !.ptyobuf = more].ended = t.ended
  BY <1>1, <1>2 DEF ServerState
<1>. QED  BY <1>1, <1>2, <1>3, <1>4 DEF Keeps, Grows, q

\* A command is noted.
LEMMA DoneKeeps ==
    ASSUME NEW s \in ServerState, NEW command \in Seq(InCode)
    PROVE  Keeps(s, Done(s, command))
<1>. DEFINE done == Append(s.done, command)
<1>1. done \in Seq(Seq(InCode))
  <2>1. s.done \in Seq(Seq(InCode))
    BY DEF ServerState
  <2>. QED  BY <2>1, AppendType
<1>. HIDE DEF done
<1>2. Done(s, command) = [s EXCEPT !.done = done]
  BY DEF Done, done
<1>. QED  BY <1>1, <1>2 DEF Keeps, ServerState

LEMMA DoneGrows ==
    ASSUME NEW s, NEW t, Grows(s, t), NEW command \in Seq(InCode)
    PROVE  Grows(s, Done(t, command))
BY DoneKeeps DEF Keeps, Grows

\* The parser moves on.
LEMMA StateKeeps ==
    ASSUME NEW s \in ServerState, NEW state \in ParserState
    PROVE  Keeps(s, [s EXCEPT !.state = state])
BY DEF Keeps, ServerState

\* Steps that store nothing, one after the other.
LEMMA KeepsMore ==
    ASSUME NEW s, NEW t, NEW u, Keeps(s, t)
    PROVE  /\ Keeps(t, u) => Keeps(s, u)
           /\ Grows(t, u) => Grows(s, u)
BY DEF Keeps, Grows

\* A step that stores nothing stores at most one character.
LEMMA KeepsGrows ==
    ASSUME NEW s \in ServerState, NEW t, Keeps(s, t)
    PROVE  Grows(s, t)
<1>1. s.ptyobuf \in Seq(InCode)
  BY DEF ServerState
<1>2. Len(s.ptyobuf) <= Len(s.ptyobuf) + 1
  BY <1>1
<1>. QED  BY <1>2 DEF Keeps, Grows

LEMMA ReceiveDataGrows ==
    ASSUME NEW s \in ServerState, NEW c \in InCode
    PROVE  Grows(s, ReceiveData(s, c))
<1>1. Keeps(s, s) /\ Keeps(s, [s EXCEPT !.state = "iac"]) /\ Keeps(s, [s EXCEPT !.state = "cr"])
  BY StateKeeps DEF Keeps, ParserState
<1>2. /\ Grows(s, [s EXCEPT !.state = "iac"])
      /\ Grows(s, ToPty([s EXCEPT !.state = "cr"], c))
      /\ Grows(s, ToPty(s, c))
  BY <1>1, ToPtyGrows, KeepsGrows
<1>. QED  BY <1>2, Zenon DEF ReceiveData

LEMMA ReceiveAfterCrGrows ==
    ASSUME NEW s \in ServerState, NEW c \in InCode
    PROVE  Grows(s, ReceiveAfterCr(s, c))
<1>. DEFINE t == [s EXCEPT !.state = "data"]
<1>1. Keeps(s, t) /\ t \in ServerState
  BY StateKeeps DEF Keeps, ParserState
<1>. HIDE DEF t
<1>2. Grows(s, t) /\ Grows(s, ReceiveData(t, c))
  BY <1>1, KeepsGrows, KeepsMore, ReceiveDataGrows
<1>. QED  BY <1>2 DEF ReceiveAfterCr, t

LEMMA ReceiveCommandGrows ==
    ASSUME NEW s \in ServerState, NEW c \in InCode, NEW pending \in BOOLEAN
    PROVE  Grows(s, ReceiveCommand(s, c, pending))
<1>. DEFINE t == [s EXCEPT !.state = "data"]
            sb == [s EXCEPT !.state = "sb", !.sub = << >>]
            will == [s EXCEPT !.state = "WILL"]
            dm == [t EXCEPT !.SYNCHing = pending]
<1>1. Keeps(s, t) /\ t \in ServerState
  BY StateKeeps DEF Keeps, ParserState
<1>2. Keeps(s, will) /\ Keeps(s, sb)
  BY EmptyType DEF Keeps, ServerState, ParserState
<1>0. Keeps(s, dm)
  <2>. HIDE DEF t
  <2>1. Keeps(t, dm)
    BY <1>1 DEF Keeps, ServerState
  <2>. QED  BY <1>1, <2>1, KeepsMore
<1>. HIDE DEF t, sb, will, dm
<1>3. Grows(s, t) /\ Grows(s, will) /\ Grows(s, sb) /\ Grows(s, dm)
  BY <1>0, <1>1, <1>2, KeepsGrows
<1>4. Grows(s, ToPty(t, c)) /\ Grows(s, Done(ToPty(t, c), <<c>>)) /\ Grows(s, Done(t, <<c>>))
  <2>1. <<c>> \in Seq(InCode)
    BY ShortCodes
  <2>. QED  BY <1>1, <1>3, <2>1, ToPtyGrows, DoneGrows
<1>. QED  BY <1>3, <1>4, Zenon DEF ReceiveCommand, t, sb, will, dm

LEMMA SuboptionKeeps ==
    ASSUME NEW s \in ServerState, NEW c \in InCode
    PROVE  Keeps(s, Suboption(s, c))
<1>. DEFINE all == Accumulate(s.sub, <<"IAC", c>>)
            t == [s EXCEPT !.sub = << >>]
            command == <<"SB">> \o SubSeq(all, 1, Len(all) - 2)
<1>1. all \in Seq(InCode)
  <2>1. s.sub \in Seq(InCode) /\ <<"IAC", c>> \in Seq(InCode)
    BY ShortCodes DEF ServerState
  <2>. QED  BY <2>1, AccumulateType
<1>. HIDE DEF all
<1>2. SubSeq(all, 1, Len(all) - 2) \in Seq(InCode)
  BY <1>1, Codes
<1>3. command \in Seq(InCode)
  <2>1. <<"SB">> \in Seq(InCode)
    BY ShortCodes DEF InCode
  <2>. QED  BY <1>2, <2>1
<1>4. Keeps(s, t) /\ t \in ServerState
  BY EmptyType DEF Keeps, ServerState
<1>. HIDE DEF t, command
<1>5. Keeps(s, Done(t, command))
  BY <1>3, <1>4, DoneKeeps, KeepsMore
<1>. QED  BY <1>5 DEF Suboption, all, t, command

LEMMA ReceiveSubEndGrows ==
    ASSUME NEW s \in ServerState, NEW c \in InCode, NEW pending \in BOOLEAN
    PROVE  Grows(s, ReceiveSubEnd(s, c, pending))
<1>. DEFINE sb == [s EXCEPT !.state = "sb", !.sub = Accumulate(@, <<c>>)]
            t == [s EXCEPT !.state = "data"]
            u == Suboption(s, c)
<1>1. Grows(s, sb)
  <2>. DEFINE q == Accumulate(s.sub, <<c>>)
  <2>1. s.sub \in Seq(InCode) /\ <<c>> \in Seq(InCode)
    BY ShortCodes DEF ServerState
  <2>2. q \in Seq(InCode)
    BY <2>1, AccumulateType
  <2>. HIDE DEF q
  <2>3. Keeps(s, [s EXCEPT !.state = "sb", !.sub = q])
    BY <2>2 DEF Keeps, ServerState, ParserState
  <2>. QED  BY <2>3, KeepsGrows DEF q
<1>2. Keeps(s, t) /\ t \in ServerState
  BY StateKeeps DEF Keeps, ParserState
<1>3. Keeps(s, u) /\ u \in ServerState
  BY SuboptionKeeps DEF Keeps
<1>. HIDE DEF sb, t, u
<1>4. Grows(s, Suboption(t, c)) /\ Grows(s, ReceiveCommand(u, c, pending))
  BY <1>2, <1>3, SuboptionKeeps, ReceiveCommandGrows, KeepsMore, KeepsGrows
<1>. QED  BY <1>1, <1>4, Zenon DEF ReceiveSubEnd, sb, t, u

\* Whatever the next octet is, it costs at most one place in ptyobuf.
LEMMA ReceivedGrows ==
    ASSUME NEW s \in ServerState, s.netibuf # << >>, NEW pending \in BOOLEAN
    PROVE  Grows(s, Received(s, pending))
<1>. DEFINE c == Head(s.netibuf)
            t == [s EXCEPT !.netibuf = Tail(@)]
            data == [t EXCEPT !.state = "data"]
            se == [t EXCEPT !.state = "se"]
            sub == [t EXCEPT !.sub = Accumulate(@, <<c>>)]
            rest == Tail(s.netibuf)
<1>1. c \in InCode /\ rest \in Seq(InCode)
  <2>1. s.netibuf \in Seq(InCode)
    BY DEF ServerState
  <2>. QED  BY <2>1, HeadType
<1>2. Keeps(s, t) /\ t \in ServerState /\ t.state = s.state
  <2>. HIDE DEF rest
  <2>1. t = [s EXCEPT !.netibuf = rest]
    BY DEF rest
  <2>2. /\ [s EXCEPT !.netibuf = rest] \in ServerState
        /\ [s EXCEPT !.netibuf = rest].state = s.state
        /\ Keeps(s, [s EXCEPT !.netibuf = rest])
    BY <1>1 DEF Keeps, ServerState
  <2>. QED  BY <2>1, <2>2
<1>. HIDE DEF c, t
<1>3. Keeps(t, data) /\ data \in ServerState /\ Keeps(t, se)
  BY <1>2, StateKeeps DEF Keeps, ParserState
<1>4. Keeps(t, sub)
  <2>. DEFINE q == Accumulate(t.sub, <<c>>)
  <2>1. t.sub \in Seq(InCode) /\ <<c>> \in Seq(InCode)
    BY <1>1, <1>2, ShortCodes DEF ServerState
  <2>2. q \in Seq(InCode)
    BY <2>1, AccumulateType
  <2>. HIDE DEF q
  <2>3. Keeps(t, [t EXCEPT !.sub = q])
    BY <1>2, <2>2 DEF Keeps, ServerState
  <2>. QED  BY <2>3 DEF q
<1>5. Keeps(t, Done(data, <<"WILL", c>>))
  <2>1. <<"WILL", c>> \in Seq(InCode)
    BY <1>1, ShortCodes
  <2>. HIDE DEF data
  <2>. QED  BY <1>3, <2>1, DoneKeeps, KeepsMore
<1>. HIDE DEF data, se, sub
<1>6. /\ Grows(t, ReceiveData(t, c)) /\ Grows(t, ReceiveAfterCr(t, c))
      /\ Grows(t, ReceiveCommand(t, c, pending)) /\ Grows(t, ReceiveSubEnd(t, c, pending))
      /\ Grows(t, Done(data, <<"WILL", c>>)) /\ Grows(t, se) /\ Grows(t, sub)
  BY <1>1, <1>2, <1>3, <1>4, <1>5, KeepsGrows, ReceiveDataGrows, ReceiveAfterCrGrows,
     ReceiveCommandGrows, ReceiveSubEndGrows
<1>7. s.state \in ParserState
  BY DEF ServerState
<1>8. Grows(t, Received(s, pending))
  BY <1>6, <1>7 DEF Received, ParserState, c, t, data, se, sub
<1>. QED  BY <1>2, <1>8, KeepsMore

-----------------------------------------------------------------------------
(* The invariant                                                           *)

\* What holds of the program's own state.
Sound(s) ==
    /\ s \in ServerState
    /\ s.back + Len(s.ptyobuf) <= PtySize
    /\ s.ended = "eof" => s.pc = "exited" /\ s.netibuf = << >> /\ s.ptyobuf = << >>

IndInv ==
    /\ TypeOK /\ Sound(server)
    /\ server.pc = "readpty" => packets # << >>

\* The program goes on, ptyobuf being as it was.
LEMMA KeepsSound ==
    ASSUME NEW s, Sound(s), s.pc # "exited", NEW t, Keeps(s, t), NEW pc \in Pc
    PROVE  /\ Sound(t) /\ Sound([t EXCEPT !.pc = pc]) /\ [t EXCEPT !.pc = pc].pc = pc
           /\ t.pc = s.pc
<1>1. s.ended # "eof" /\ t.ended # "eof"
  BY DEF Sound, Keeps
<1>2. Sound(t)
  BY <1>1 DEF Sound, Keeps
<1>3. /\ [t EXCEPT !.pc = pc] \in ServerState /\ [t EXCEPT !.pc = pc].pc = pc
      /\ [t EXCEPT !.pc = pc].ptyobuf = t.ptyobuf /\ [t EXCEPT !.pc = pc].back = t.back
      /\ [t EXCEPT !.pc = pc].ended = t.ended
  BY <1>2 DEF Sound, ServerState
<1>. QED  BY <1>1, <1>2, <1>3 DEF Sound, Keeps

LEMMA GoesOn ==
    ASSUME NEW s, Sound(s), s.pc # "exited", NEW pc \in Pc
    PROVE  Sound([s EXCEPT !.pc = pc]) /\ [s EXCEPT !.pc = pc].pc = pc
BY KeepsSound DEF Sound, Keeps

\* Something else happens.
LEMMA HappensType ==
    ASSUME TypeOK, NEW kind \in {"units", "packets", "signals"}, Happens(kind)
    PROVE  budget' \in BudgetRecord
BY DEF TypeOK, Happens, BudgetRecord

\* A read stays within the stream.
LEMMA ReadBoundFits ==
    ASSUME TypeOK
    PROVE  ReadBound \in Int /\ ReadBound <= Len(stream)
<1>. DEFINE b == IF urgent > 1 THEN urgent - 1 ELSE Len(stream)
<1>1. b \in Int /\ b <= Len(stream) /\ NetSize \in Int
  BY SizesAssumption DEF TypeOK
<1>. HIDE DEF b
<1>2. Min({NetSize, b}) \in Int /\ Min({NetSize, b}) <= b
  BY <1>1, MinOfTwo
<1>3. Len(stream) \in Int
  BY DEF TypeOK
<1>. QED  BY <1>1, <1>2, <1>3 DEF ReadBound, b

LEMMA StreamReadType ==
    ASSUME TypeOK, NEW k \in 0 .. Len(stream), StreamRead(k)
    PROVE  stream' \in Seq(InCode) /\ urgent' \in 0 .. Len(stream')
<1>1. stream \in Seq(InCode) /\ urgent \in 0 .. Len(stream)
  BY DEF TypeOK
<1>2. stream' \in Seq(InCode) /\ Len(stream') = Len(stream) - k
  <2>1. k \in Nat /\ k <= Len(stream) /\ stream' = Drop(stream, k)
    BY <1>1 DEF StreamRead
  <2>. QED  BY <1>1, <2>1, DropType
<1>. QED  BY <1>1, <1>2 DEF StreamRead

LEMMA NetReadKeeps ==
    ASSUME TypeOK, NEW k \in 0 .. Len(stream)
    PROVE  Keeps(server, NetRead(server, k))
<1>. DEFINE q == SubSeq(stream, 1, k)
            skipped == server.skipped \/ server.netibuf # << >>
<1>1. q \in Seq(InCode)
  BY FirstType DEF TypeOK
<1>2. skipped \in BOOLEAN
  BY DEF TypeOK, ServerState
<1>3. NetRead(server, k) = [server EXCEPT !.netibuf = q, !.skipped = skipped]
  BY DEF NetRead
<1>. HIDE DEF q, skipped
<1>. QED  BY <1>1, <1>2, <1>3 DEF Keeps, TypeOK, ServerState

LEMMA InitInv == Init => IndInv
<1>. SUFFICES ASSUME Init  PROVE IndInv
  OBVIOUS
<1>1. PICK pc \in {"ttloop", "loop"}, binary \in BOOLEAN : server = ServerInit(pc, binary)
  BY DEF Init
<1>2. server \in ServerState
  <2>1. << >> \in Seq(InCode) /\ << >> \in Seq(Code) /\ << >> \in Seq(Seq(InCode))
    BY EmptyType
  <2>2. ServerInit(pc, binary) \in ServerState
    BY <2>1 DEF ServerInit, ServerState, Pc, ParserState
  <2>. QED  BY <1>1, <2>2
<1>3. server.back = 0 /\ server.ptyobuf = << >> /\ server.ended = "" /\ server.pc # "readpty"
  BY <1>1 DEF ServerInit
<1>4. /\ stream \in Seq(InCode) /\ urgent \in 0 .. Len(stream) /\ packets \in Seq(Packet)
      /\ pty \in Seq(InCode) /\ told \in Seq(Unit) /\ budget \in BudgetRecord
  BY BudgetsAssumption, EmptyType DEF Init
<1>5. Sound(server)
  <2>1. server.ended # "eof"
    BY <1>3
  <2>2. server.back + Len(server.ptyobuf) <= PtySize
    <3>1. Len(server.ptyobuf) = 0
      BY <1>3
    <3>2. PtySize \in Nat
      BY SizesAssumption
    <3>3. server.back = 0
      BY <1>3
    <3>. QED  BY <3>1, <3>2, <3>3
  <2>. QED  BY <1>2, <2>1, <2>2 DEF Sound
<1>. QED  BY <1>2, <1>3, <1>4, <1>5 DEF IndInv, TypeOK

\* ptyflush() leaves as much room as there was, or all of it.
LEMMA PtyFlushedSound ==
    ASSUME NEW s, Sound(s), s.pc # "exited", NEW k \in 0 .. Len(s.ptyobuf)
    PROVE  /\ Sound(PtyFlushed(s, k)) /\ PtyFlushed(s, k).pc = s.pc
           /\ PtyFlushed(s, k).netibuf = s.netibuf
           /\ PtyFlushed(s, k).back + Len(PtyFlushed(s, k).ptyobuf) <= s.back + Len(s.ptyobuf)
<1>1. s \in ServerState /\ s.ptyobuf \in Seq(InCode) /\ s.back \in Nat /\ s.ended # "eof"
  BY DEF Sound, ServerState
<1>4. PtySize \in Nat /\ s.back + Len(s.ptyobuf) <= PtySize
  BY SizesAssumption DEF Sound
<1>2. CASE k = Len(s.ptyobuf)
  <2>. DEFINE t == [s EXCEPT !.ptyobuf = << >>, !.back = 0]
  <2>1. /\ t \in ServerState /\ t.ptyobuf = << >> /\ t.back = 0
        /\ t.pc = s.pc /\ t.netibuf = s.netibuf /\ t.ended = s.ended
    BY <1>1, EmptyType DEF ServerState
  <2>. HIDE DEF t
  <2>2. Len(t.ptyobuf) = 0 /\ PtyFlushed(s, k) = t
    BY <1>2, <2>1 DEF PtyFlushed, t
  <2>3. t.back + Len(t.ptyobuf) <= s.back + Len(s.ptyobuf)
    BY <1>1, <2>1, <2>2
  <2>4. t.back + Len(t.ptyobuf) <= PtySize
    BY <1>4, <2>1, <2>2
  <2>. QED  BY <1>1, <2>1, <2>2, <2>3, <2>4 DEF Sound
<1>3. CASE k # Len(s.ptyobuf)
  <2>. DEFINE q == Drop(s.ptyobuf, k)
              n == s.back + k
              t == [s EXCEPT !.ptyobuf = q, !.back = n]
  <2>0. k \in Nat /\ k <= Len(s.ptyobuf)
    BY <1>1
  <2>1. q \in Seq(InCode) /\ Len(q) = Len(s.ptyobuf) - k /\ n \in Nat
    <3>. DEFINE l == s.ptyobuf
    <3>1. l \in Seq(InCode)
      BY <1>1
    <3>. HIDE DEF l
    <3>2. Drop(l, k) \in Seq(InCode) /\ Len(Drop(l, k)) = Len(l) - k
      BY <2>0, <3>1, DropType DEF l
    <3>. QED  BY <1>1, <2>0, <3>2 DEF l
  <2>2. n + Len(q) = s.back + Len(s.ptyobuf)
    BY <1>1, <2>1
  <2>. HIDE DEF q, n
  <2>3. /\ t \in ServerState /\ t.ptyobuf = q /\ t.back = n
        /\ t.pc = s.pc /\ t.netibuf = s.netibuf /\ t.ended = s.ended
    BY <1>1, <2>1 DEF ServerState
  <2>. HIDE DEF t
  <2>4. PtyFlushed(s, k) = t
    BY <1>3 DEF PtyFlushed, q, n, t
  <2>5. t.back + Len(t.ptyobuf) <= s.back + Len(s.ptyobuf)
    BY <1>1, <2>1, <2>2, <2>3
  <2>6. t.back + Len(t.ptyobuf) <= PtySize
    BY <1>1, <1>4, <2>1, <2>2, <2>3
  <2>. QED  BY <1>1, <2>3, <2>4, <2>5, <2>6 DEF Sound
<1>. QED  BY <1>2, <1>3

-----------------------------------------------------------------------------
(* The steps                                                               *)

LEMMA TtloopInv ==
    ASSUME IndInv, Ttloop
    PROVE  IndInv'
<1>1. TypeOK /\ Sound(server) /\ server.pc = "ttloop" /\ stream # << >>
  BY DEF IndInv, Ttloop, Running
<1>2. UNCHANGED <<told, packets, pty, budget>>
  BY DEF Ttloop
<1>3. ASSUME NEW k \in 0 .. Len(stream), StreamRead(k), NEW t, Keeps(server, t),
             NEW pc \in {"ttloop", "first"}, server' = [t EXCEPT !.pc = pc]
      PROVE  IndInv'
  <2>1. pc \in Pc /\ pc # "readpty" /\ server.pc # "exited"
    BY <1>1 DEF Pc
  <2>2. Sound(server') /\ server'.pc = pc
    BY <1>1, <1>3, <2>1, KeepsSound
  <2>3. stream' \in Seq(InCode) /\ urgent' \in 0 .. Len(stream')
    BY <1>1, <1>3, StreamReadType
  <2>. QED  BY <1>1, <1>2, <2>1, <2>2, <2>3 DEF IndInv, TypeOK, Sound
<1>4. CASE urgent = 1
  <2>. DEFINE t == [server EXCEPT !.skewed = TRUE]
  <2>1. Keeps(server, t) /\ t = [t EXCEPT !.pc = "ttloop"]
    BY <1>1 DEF Keeps, Sound, ServerState
  <2>2. server' = t /\ StreamRead(1)
    BY <1>4 DEF Ttloop
  <2>3. 1 \in 0 .. Len(stream)
    BY <1>1, <1>4 DEF TypeOK
  <2>. HIDE DEF t
  <2>. QED  BY <1>3, <2>1, <2>2, <2>3
<1>5. CASE urgent # 1
  <2>1. PICK k \in 1 .. ReadBound :
           server' = [NetRead(server, k) EXCEPT !.pc = "first"] /\ StreamRead(k)
    BY <1>5 DEF Ttloop
  <2>2. k \in 0 .. Len(stream)
    <3>1. ReadBound \in Int /\ ReadBound <= Len(stream) /\ Len(stream) \in Int
      BY <1>1, ReadBoundFits DEF TypeOK
    <3>. QED  BY <3>1
  <2>3. Keeps(server, NetRead(server, k))
    BY <1>1, <2>2, NetReadKeeps
  <2>. QED  BY <1>3, <2>1, <2>2, <2>3
<1>. QED  BY <1>4, <1>5

\* The state of the program is all that changes, but for what is written.
LEMMA ProgramOnly ==
    ASSUME IndInv, NEW pc, Sound(server'), server'.pc = pc, pc # "readpty",
           UNCHANGED <<stream, urgent, packets, told, budget>>,
           pty' \in Seq(InCode)
    PROVE  IndInv'
BY DEF IndInv, TypeOK, Sound

LEMMA TtloopAgainInv ==
    ASSUME IndInv, TtloopAgain
    PROVE  IndInv'
<1>1. /\ Sound(server) /\ server.pc = "first" /\ server.pc # "exited"
      /\ UNCHANGED <<stream, urgent, packets, told, budget>> /\ pty' \in Seq(InCode)
  BY DEF IndInv, TypeOK, TtloopAgain, Running, ivars
<1>2. CASE server.netibuf = << >>
  <2>1. server' = [server EXCEPT !.pc = "ttloop"]
    BY <1>2 DEF TtloopAgain
  <2>2. Sound(server') /\ server'.pc = "ttloop"
    BY <1>1, <2>1, GoesOn DEF Pc
  <2>. QED  BY <1>1, <2>2, ProgramOnly
<1>3. CASE server.netibuf # << >>
  <2>. DEFINE t == [server EXCEPT !.pc = "again", !.lost = TRUE, !.ptyobuf = << >>, !.back = 0]
  <2>1. server' = t
    BY <1>3 DEF TtloopAgain
  <2>2. /\ t \in ServerState /\ t.pc = "again" /\ t.ptyobuf = << >> /\ t.back = 0
        /\ t.ended = server.ended
    BY <1>1, EmptyType DEF Sound, ServerState, Pc
  <2>. HIDE DEF t
  <2>3. Len(t.ptyobuf) = 0 /\ 0 <= PtySize
    BY <2>2, SizesAssumption
  <2>4. Sound(t)
    BY <1>1, <2>2, <2>3 DEF Sound
  <2>. QED  BY <1>1, <2>1, <2>2, <2>4, ProgramOnly
<1>. QED  BY <1>2, <1>3

\* Steps of the program's counter alone: TtloopEnds, MainLoop, NetFlush.
LEMMA CounterInv ==
    ASSUME IndInv, TtloopEnds \/ MainLoop \/ NetFlush
    PROVE  IndInv'
<1>1. /\ Sound(server) /\ server.pc # "exited"
      /\ UNCHANGED <<stream, urgent, packets, told, budget>> /\ pty' \in Seq(InCode)
  BY DEF IndInv, TypeOK, TtloopEnds, MainLoop, NetFlush, Running, ivars
<1>2. PICK pc \in {"ttloop", "telrcv"} : server' = [server EXCEPT !.pc = pc]
  BY DEF TtloopEnds, MainLoop, NetFlush
<1>3. Sound(server') /\ server'.pc = pc
  BY <1>1, <1>2, GoesOn DEF Pc
<1>. QED  BY <1>1, <1>2, <1>3, ProgramOnly

LEMMA RoundInv ==
    ASSUME IndInv, Round
    PROVE  IndInv'
<1>1. TypeOK /\ Sound(server) /\ server.pc = "loop" /\ UNCHANGED <<told, packets, pty, budget>>
  BY DEF IndInv, Round, Running
<1>2. PICK o, ready :
         /\ ready \in SUBSET (Watched(server, o.net) \cap Available)
         /\ \E k \in IF "netr" \in ready THEN 1 .. ReadBound ELSE {0} :
               LET s == IF "netr" \in ready THEN NetRead(server, k) ELSE server
               IN  /\ server' =
                        [s EXCEPT !.ready = ready, !.SYNCHing = @ \/ "exc" \in ready,
                                  !.pc = IF ready = {} THEN "loop"
                                         ELSE IF "ptyr" \in ready THEN "readpty"
                                         ELSE "data"]
                   /\ StreamRead(k)
  BY DEF Round
<1>3. PICK k \in IF "netr" \in ready THEN 1 .. ReadBound ELSE {0} :
         LET s == IF "netr" \in ready THEN NetRead(server, k) ELSE server
         IN  /\ server' =
                  [s EXCEPT !.ready = ready, !.SYNCHing = @ \/ "exc" \in ready,
                            !.pc = IF ready = {} THEN "loop"
                                   ELSE IF "ptyr" \in ready THEN "readpty"
                                   ELSE "data"]
             /\ StreamRead(k)
  BY <1>2
<1>. DEFINE s == IF "netr" \in ready THEN NetRead(server, k) ELSE server
            pc == IF ready = {} THEN "loop" ELSE IF "ptyr" \in ready THEN "readpty" ELSE "data"
            synching == s.SYNCHing \/ "exc" \in ready
            t == [s EXCEPT !.ready = ready, !.SYNCHing = synching]
<1>4. server' = [s EXCEPT !.ready = ready, !.SYNCHing = synching, !.pc = pc] /\ StreamRead(k)
  BY <1>3
<1>5. k \in 0 .. Len(stream)
  <2>1. ReadBound \in Int /\ ReadBound <= Len(stream) /\ Len(stream) \in Nat
    BY <1>1, ReadBoundFits DEF TypeOK
  <2>. QED  BY <2>1
<1>6. Keeps(server, s)
  <2>1. Keeps(server, server)
    BY <1>1 DEF Keeps, Sound
  <2>. QED  BY <1>1, <1>5, <2>1, NetReadKeeps
<1>7. pc \in Pc /\ (pc = "readpty" => packets # << >>)
  <2>1. "ptyr" \in ready => packets # << >>
    BY <1>2 DEF Available
  <2>. QED  BY <2>1 DEF Pc
<1>8. ready \in SUBSET {"netw", "netr", "ptyw", "ptyr", "exc"}
  BY <1>2 DEF Available
<1>. HIDE DEF s, pc
<1>9. synching \in BOOLEAN
  OBVIOUS
<1>. HIDE DEF synching
<1>10. Keeps(s, t) /\ server' = [t EXCEPT !.pc = pc]
  BY <1>4, <1>6, <1>8, <1>9 DEF Keeps, ServerState
<1>. HIDE DEF t
<1>11. Keeps(server, t)
  BY <1>6, <1>10, KeepsMore
<1>12. Sound(server') /\ server'.pc = pc
  BY <1>1, <1>7, <1>10, <1>11, KeepsSound
<1>13. stream' \in Seq(InCode) /\ urgent' \in 0 .. Len(stream')
  BY <1>1, <1>4, <1>5, StreamReadType
<1>. QED  BY <1>1, <1>7, <1>12, <1>13 DEF IndInv, TypeOK, Sound

LEMMA ReadPtyInv ==
    ASSUME IndInv, ReadPty
    PROVE  IndInv'
<1>. DEFINE packet == Head(packets)
            text == packet.text
            shown == server.shown \o text
            s == [server EXCEPT !.pc = "data", !.ptyibuf = text, !.shown = shown]
            t == [server EXCEPT !.ptyibuf = text, !.shown = shown]
            v == [t EXCEPT !.cleared = TRUE]
<1>1. /\ TypeOK /\ Sound(server) /\ server.pc = "readpty" /\ packets # << >>
      /\ UNCHANGED <<stream, urgent, told, pty, budget>>
  BY DEF IndInv, ReadPty, Running, ivars
<1>2. packet \in Packet /\ packets' \in Seq(Packet)
  <2>1. packets \in Seq(Packet) /\ packets' = Tail(packets)
    BY <1>1 DEF TypeOK, ReadPty
  <2>. QED  BY <1>1, <2>1, HeadType
<1>3. text \in Seq(Code)
  <2>. HIDE DEF packet
  <2>. QED  BY <1>2, PacketAssumption
<1>4. server' \in {s, [s EXCEPT !.cleared = TRUE]}
  <2>1. packet.event \in {"data", "flushwrite", "dostop"}
    <3>. HIDE DEF packet
    <3>. QED  BY <1>2, PacketAssumption
  <2>2. CASE packet.event = "data"
    BY <2>2 DEF ReadPty
  <2>3. CASE packet.event = "dostop"
    BY <2>3 DEF ReadPty
  <2>4. CASE packet.event = "flushwrite"
    BY <2>4 DEF ReadPty
  <2>. HIDE DEF packet, s
  <2>. QED  BY <2>1, <2>2, <2>3, <2>4
<1>. HIDE DEF packet, text
<1>5. shown \in Seq(Code)
  <2>1. server.shown \in Seq(Code)
    BY <1>1 DEF TypeOK, ServerState
  <2>. QED  BY <1>3, <2>1
<1>. HIDE DEF shown
<1>6. /\ Keeps(server, t) /\ s = [t EXCEPT !.pc = "data"]
      /\ Keeps(server, v) /\ [s EXCEPT !.cleared = TRUE] = [v EXCEPT !.pc = "data"]
  BY <1>1, <1>3, <1>5 DEF Keeps, TypeOK, ServerState
<1>. HIDE DEF s, t, v
<1>7. Sound(server') /\ server'.pc = "data"
  <2>1. "data" \in Pc /\ server.pc # "exited"
    BY <1>1 DEF Pc
  <2>2. Sound(s) /\ s.pc = "data"
    BY <1>1, <1>6, <2>1, KeepsSound
  <2>3. Sound([s EXCEPT !.cleared = TRUE]) /\ [s EXCEPT !.cleared = TRUE].pc = "data"
    BY <1>1, <1>6, <2>1, KeepsSound
  <2>. QED  BY <1>4, <2>2, <2>3
<1>. QED  BY <1>1, <1>2, <1>7 DEF IndInv, TypeOK, Sound

LEMMA PutCharInv ==
    ASSUME IndInv, PutChar
    PROVE  IndInv'
<1>. DEFINE r == Taken(server.ptyibuf, server.binary)
            q == Drop(server.ptyibuf, r.n)
<1>1. /\ TypeOK /\ Sound(server) /\ server.pc = "data"
      /\ UNCHANGED <<stream, urgent, packets, told, pty, budget>>
      /\ server' = [server EXCEPT !.ptyibuf = q]
  BY DEF IndInv, PutChar, Running, ivars
<1>2. r.n \in Nat
  BY DEF Taken
<1>. HIDE DEF r
<1>3. q \in Seq(Code)
  BY <1>1, <1>2, DropType DEF TypeOK, ServerState
<1>. HIDE DEF q
<1>4. Keeps(server, server') /\ server'.pc = "data"
  BY <1>1, <1>3 DEF Keeps, TypeOK, ServerState
<1>5. Sound(server')
  BY <1>1, <1>4, KeepsSound DEF Pc
<1>. QED  BY <1>1, <1>4, <1>5, ProgramOnly DEF TypeOK

\* Room for two characters is room for the one that an octet may store.
LEMMA TelrcvInv ==
    ASSUME IndInv, Telrcv
    PROVE  IndInv'
<1>1. /\ TypeOK /\ Sound(server) /\ server.pc \in {"telrcv", "first", "again"}
      /\ CanReceive(server) /\ UNCHANGED <<stream, urgent, packets, told, budget>>
  BY DEF IndInv, Telrcv, Running, ivars
<1>2. PICK k \in IF Flushing(server) THEN 0 .. Len(server.ptyobuf) ELSE {0} :
         \E s \in {Received(PtyFlushed(server, k), urgent # 0)} :
            /\ server' = [s EXCEPT !.cleared =
                  @ \/ (Len(s.done) > Len(server.done) /\ Last(s.done) = <<"AO">>)]
            /\ pty' = pty \o SubSeq(server.ptyobuf, 1, k)
  BY DEF Telrcv
<1>. DEFINE u == PtyFlushed(server, k)
            s == Received(u, urgent # 0)
            cleared == s.cleared \/ (Len(s.done) > Len(server.done) /\ Last(s.done) = <<"AO">>)
<1>3. server' = [s EXCEPT !.cleared = cleared] /\ cleared \in BOOLEAN
  BY <1>2
<1>4. server.ptyobuf \in Seq(InCode) /\ server.netibuf \in Seq(InCode) /\ server.back \in Nat
  BY <1>1 DEF TypeOK, ServerState
<1>5. k \in 0 .. Len(server.ptyobuf)
  BY <1>2, <1>4
<1>6. server.netibuf # << >> /\ PtySize - (server.back + Len(server.ptyobuf)) >= 2
  BY <1>1 DEF CanReceive
<1>7. /\ Sound(u) /\ u.pc = server.pc /\ u.netibuf # << >>
      /\ u.back + Len(u.ptyobuf) <= server.back + Len(server.ptyobuf)
  BY <1>1, <1>5, <1>6, PtyFlushedSound
<1>. HIDE DEF u
<1>8. Grows(u, s)
  BY <1>7, ReceivedGrows DEF Sound
<1>. HIDE DEF s, cleared
<1>9. u.ended # "eof"
  BY <1>1, <1>7 DEF Sound
<1>10. /\ server' \in ServerState /\ server'.ptyobuf = s.ptyobuf /\ server'.back = u.back
       /\ server'.pc = server.pc /\ server'.ended # "eof"
  BY <1>3, <1>7, <1>8, <1>9 DEF Grows, ServerState
<1>11. server'.back + Len(server'.ptyobuf) <= PtySize
  <2>. DEFINE was == Len(server.ptyobuf)
              between == Len(u.ptyobuf)
              is == Len(s.ptyobuf)
  <2>1. u.back \in Nat /\ u.ptyobuf \in Seq(InCode) /\ s.ptyobuf \in Seq(InCode)
    BY <1>7, <1>8 DEF Grows, Sound, ServerState
  <2>2. PtySize \in Nat
    BY SizesAssumption
  <2>3. was \in Nat /\ between \in Nat /\ is \in Nat
    BY <1>4, <2>1
  <2>4. is <= between + 1
    BY <1>8 DEF Grows
  <2>5. u.back + between <= server.back + was /\ PtySize - (server.back + was) >= 2
    BY <1>6, <1>7
  <2>6. server'.back + Len(server'.ptyobuf) = u.back + is
    BY <1>10
  <2>. HIDE DEF was, between, is
  <2>. QED  BY <1>4, <2>1, <2>2, <2>3, <2>4, <2>5, <2>6
<1>12. Sound(server')
  BY <1>10, <1>11 DEF Sound
<1>13. pty' \in Seq(InCode)
  <2>1. SubSeq(server.ptyobuf, 1, k) \in Seq(InCode)
    BY <1>4, <1>5, FirstType
  <2>. QED  BY <1>1, <1>2, <2>1 DEF TypeOK
<1>. QED  BY <1>1, <1>10, <1>12, <1>13, ProgramOnly

LEMMA PtyFlushInv ==
    ASSUME IndInv, PtyFlush
    PROVE  IndInv'
<1>1. /\ TypeOK /\ Sound(server) /\ server.pc = "telrcv"
      /\ UNCHANGED <<stream, urgent, packets, told, budget>>
  BY DEF IndInv, PtyFlush, Running, ivars
<1>2. PICK k \in IF "ptyw" \in server.ready /\ server.ptyobuf # << >>
                 THEN 1 .. Len(server.ptyobuf) ELSE {0} :
         /\ server' = [(IF k = 0 THEN server ELSE PtyFlushed(server, k)) EXCEPT !.pc = "loop"]
         /\ pty' = pty \o SubSeq(server.ptyobuf, 1, k)
  BY DEF PtyFlush
<1>. DEFINE u == IF k = 0 THEN server ELSE PtyFlushed(server, k)
<1>3. server.ptyobuf \in Seq(InCode)
  BY <1>1 DEF TypeOK, ServerState
<1>4. k \in 0 .. Len(server.ptyobuf)
  BY <1>2, <1>3
<1>5. Sound(u) /\ u.pc = server.pc
  BY <1>1, <1>4, PtyFlushedSound
<1>6. server' = [u EXCEPT !.pc = "loop"]
  BY <1>2
<1>. HIDE DEF u
<1>7. Sound(server') /\ server'.pc = "loop"
  BY <1>1, <1>5, <1>6, GoesOn DEF Pc
<1>8. pty' \in Seq(InCode)
  <2>1. SubSeq(server.ptyobuf, 1, k) \in Seq(InCode)
    BY <1>3, <1>4, FirstType
  <2>. QED  BY <1>1, <1>2, <2>1 DEF TypeOK
<1>. QED  BY <1>1, <1>7, <1>8, ProgramOnly

\* The program ends: of its own at a hang-up, when both input buffers are
\* empty, since else it would not have read.
LEMMA EofInv ==
    ASSUME IndInv, Eof
    PROVE  IndInv'
<1>1. /\ TypeOK /\ Sound(server) /\ server.pc = "loop"
      /\ UNCHANGED <<stream, urgent, packets, told, pty>>
      /\ server' = [server EXCEPT !.pc = "exited", !.ended = "eof"]
  BY DEF IndInv, Eof, Ended, Running, ivars
<1>2. budget' \in BudgetRecord
  BY <1>1, HappensType DEF Eof
<1>3. server.netibuf = << >> /\ server.ptyobuf = << >>
  <2>1. PICK o : "netr" \in Watched(server, o.net)
    BY DEF Eof
  <2>. QED  BY <2>1 DEF Watched
<1>4. /\ server' \in ServerState /\ server'.pc = "exited"
      /\ server'.ptyobuf = server.ptyobuf /\ server'.back = server.back
      /\ server'.netibuf = server.netibuf
  BY <1>1 DEF Sound, ServerState, Pc
<1>5. Sound(server')
  BY <1>1, <1>3, <1>4 DEF Sound
<1>. QED  BY <1>1, <1>2, <1>4, <1>5 DEF IndInv, TypeOK

LEMMA SigchldInv ==
    ASSUME IndInv, Sigchld
    PROVE  IndInv'
<1>1. /\ TypeOK /\ Sound(server) /\ server.pc # "exited"
      /\ UNCHANGED <<stream, urgent, packets, told, pty>>
      /\ server' = [server EXCEPT !.pc = "exited", !.ended = "child"]
  BY DEF IndInv, Sigchld, Ended, ivars
<1>2. budget' \in BudgetRecord
  BY <1>1, HappensType DEF Sigchld
<1>3. /\ server' \in ServerState /\ server'.pc = "exited" /\ server'.ended = "child"
      /\ server'.ptyobuf = server.ptyobuf /\ server'.back = server.back
  BY <1>1 DEF Sound, ServerState, Pc
<1>4. Sound(server')
  BY <1>1, <1>3 DEF Sound
<1>. QED  BY <1>1, <1>2, <1>3, <1>4 DEF IndInv, TypeOK

\* The client writes, or the programs behind the pty.
LEMMA ClientWritesInv ==
    ASSUME IndInv, NEW unit \in Unit, ClientWrites(unit)
    PROVE  IndInv'
<1>1. TypeOK /\ UNCHANGED <<server, packets, pty>> /\ server \in ServerState
  BY DEF IndInv, TypeOK, ClientWrites
<1>2. budget' \in BudgetRecord
  BY <1>1, HappensType DEF ClientWrites
<1>3. unit.octets \in Seq(InCode)
  BY UnitAssumption
<1>4. stream' \in Seq(InCode) /\ Len(stream') = Len(stream) + Len(unit.octets)
  BY <1>1, <1>3 DEF TypeOK, ClientWrites
<1>5. urgent' \in 0 .. Len(stream')
  <2>1. urgent \in 0 .. Len(stream) /\ Len(stream) \in Nat /\ Len(unit.octets) \in Nat
    BY <1>1, <1>3 DEF TypeOK
  <2>2. CASE unit.octets = <<"IAC", "DM">>
    <3>1. Len(unit.octets) = 2 /\ urgent' = Len(stream) + 2
      BY <2>2 DEF ClientWrites
    <3>. QED  BY <1>4, <2>1, <3>1
  <2>3. CASE unit.octets # <<"IAC", "DM">>
    BY <1>4, <2>1, <2>3 DEF ClientWrites
  <2>. QED  BY <2>2, <2>3
<1>6. told' \in Seq(Unit)
  BY <1>1, AppendType DEF TypeOK, ClientWrites
<1>. QED  BY <1>1, <1>2, <1>4, <1>5, <1>6 DEF IndInv, TypeOK, Sound

LEMMA PtyHasInv ==
    ASSUME IndInv, NEW packet \in Packet, PtyHas(packet)
    PROVE  IndInv'
<1>1. TypeOK /\ UNCHANGED <<server, stream, urgent, told, pty>>
  BY DEF IndInv, PtyHas, ivars
<1>2. budget' \in BudgetRecord
  BY <1>1, HappensType DEF PtyHas
<1>3. packets' \in Seq(Packet)
  BY <1>1, AppendType DEF TypeOK, PtyHas
<1>4. server.pc # "readpty"
  BY DEF PtyHas, Waiting
<1>. QED  BY <1>1, <1>2, <1>3, <1>4 DEF IndInv, TypeOK, Sound

LEMMA Inductive == Init /\ [][Next]_vars => []IndInv
<1>1. ASSUME IndInv, [Next]_vars  PROVE IndInv'
  <2>1. CASE UNCHANGED vars
    BY <1>1, <2>1 DEF vars, ivars, IndInv, TypeOK, Sound
  <2>2. CASE Next
    BY <1>1, <2>2, ClientWritesInv, PtyHasInv, TtloopInv, TtloopAgainInv, CounterInv,
       RoundInv, ReadPtyInv, PutCharInv, TelrcvInv, PtyFlushInv, EofInv, SigchldInv DEF Next
  <2>. QED  BY <1>1, <2>1, <2>2
<1>. QED  BY InitInv, <1>1, PTL

-----------------------------------------------------------------------------
(* What is written                                                         *)

LEMMA DataType ==
    ASSUME NEW codes \in Seq(Code)
    PROVE  Data(codes) \in Seq(Octet) /\ Command(codes) \in Seq(Octet)
<1>. DEFINE n == Len(codes)
            g == [i \in 1 .. n |-> [code |-> codes[i], own |-> "data"]]
            h == [i \in 1 .. n |-> [code |-> codes[i], own |-> "command"]]
<1>1. n \in Nat /\ DOMAIN codes = 1 .. n /\ \A i \in 1 .. n : codes[i] \in Code
  OBVIOUS
<1>2. Data(codes) = g /\ Command(codes) = h
  BY <1>1 DEF Data, Command
<1>3. \A i \in 1 .. n : g[i] \in Octet /\ h[i] \in Octet
  BY <1>1 DEF Octet
<1>. HIDE DEF g, h, n
<1>4. g = [i \in 1 .. n |-> g[i]] /\ h = [i \in 1 .. n |-> h[i]]
  BY DEF g, h
<1>5. g \in Seq(Octet)
  BY <1>1, <1>3, <1>4, ListedSeq
<1>6. h \in Seq(Octet)
  BY <1>1, <1>3, <1>4, ListedSeq
<1>. QED  BY <1>2, <1>5, <1>6

LEMMA TakenType ==
    ASSUME NEW cs \in Seq(Code), cs # <<>>, NEW binary
    PROVE  Data(Taken(cs, binary).octets) \in Seq(Octet)
<1>1. cs[1] \in Code /\ "IAC" \in Code /\ "CR" \in Code /\ "LF" \in Code /\ "NUL" \in Code
  BY DEF Code
<1>2. \A c, d \in Code : <<c>> \in Seq(Code) /\ <<c, d>> \in Seq(Code)
  BY ShortType
<1>3. Taken(cs, binary).octets \in
        {<<"IAC", "IAC">>, <<"CR", "LF">>, <<"CR", "NUL">>, <<cs[1]>>}
  BY DEF Taken
<1>4. Taken(cs, binary).octets \in Seq(Code)
  BY <1>1, <1>2, <1>3
<1>. QED  BY <1>4, DataType

LEMMA StopType == LflowStop \in Seq(Octet)
<1>1. <<"IAC", "SB", "x", "IAC", "SE">> \in Seq(Code)
  BY DEF Code
<1>. QED  BY <1>1, DataType DEF LflowStop

LEMMA ReplyType ==
    ASSUME NEW done \in Seq(Seq(InCode)), NEW m \in Nat
    PROVE  Reply(done, m) \in Seq(Octet)
<1>. DEFINE will == Command(<<"IAC", "WILL", "x">>)
            yes == Data(<<"yes">>)
            l == Len(done) - m
            n == IF l < 0 THEN 0 ELSE l
            g == [i \in 1 .. l |->
                    CASE done[m + i][1] = "WILL" -> will
                      [] done[m + i][1] = "AYT" -> yes
                      [] OTHER -> << >>]
            Piece == Seq(Octet)
<1>1. will \in Piece /\ yes \in Piece /\ <<>> \in Piece
  <2>1. <<"IAC", "WILL", "x">> \in Seq(Code) /\ <<"yes">> \in Seq(Code)
    BY DEF Code
  <2>2. will \in Seq(Octet)
    BY <2>1, DataType
  <2>3. yes \in Seq(Octet)
    BY <2>1, DataType
  <2>4. <<>> \in Seq(Octet)
    OBVIOUS
  <2>. QED  BY <2>2, <2>3, <2>4
<1>2. l \in Int
  <2>. DEFINE S == Seq(InCode)
  <2>1. done \in Seq(S)
    OBVIOUS
  <2>. HIDE DEF S
  <2>. QED  BY <2>1
<1>3. Reply(done, m) = FlattenSeq(g)
  BY DEF Reply
<1>. HIDE DEF will, yes, Piece, l
<1>4. n \in Nat /\ 1 .. l = 1 .. n
  BY <1>2
<1>5. \A i \in 1 .. n : g[i] \in Piece
  BY <1>1, <1>4
<1>6. g = [i \in 1 .. n |-> g[i]]
  BY <1>4
<1>. HIDE DEF g, n
<1>7. g \in Seq(Piece)
  BY <1>4, <1>5, <1>6, ListedSeq
<1>8. g \in Seq(Seq(Octet))
  BY <1>7 DEF Piece
<1>9. FlattenSeq(g) \in Seq(Octet)
  BY <1>8, FlattenType
<1>. QED  BY <1>3, <1>9

-----------------------------------------------------------------------------
(* The output's invariant                                                  *)

\* What every step preserves: Good and the types make InOrder inductive.
NetSound ==
    /\ Good(net) /\ wire \in Seq(Octet)
    /\ InOrder

\* t is written.
LEMMA StepKeeps ==
    ASSUME NetSound, ~net.corrupt, NEW t \in Seq(Octet), NEW o, Keeping(net, o, t),
           net' = o.net, wire' = wire \o o.sent, due' = due \o t
    PROVE  NetSound'
<1>. DEFINE x == Unsent(net)
            y == Unsent(o.net)
            z == o.sent
<1>1. /\ Good(net) /\ wire \in Seq(Octet) /\ wire \o x = due
      /\ Good(o.net) /\ z \in Seq(Octet) /\ (~o.net.corrupt => z \o y = x \o t)
  BY DEF NetSound, InOrder, Keeping
<1>2. x \in Seq(Octet) /\ y \in Seq(Octet) /\ wire \o z \in Seq(Octet)
  BY <1>1, UnsentType, JoinedSeq
<1>3. ASSUME ~net'.corrupt PROVE wire' \o Unsent(net') = due'
  <2>. HIDE DEF x, y, z
  <2>1. (wire \o z) \o y = wire \o (z \o y)
    BY <1>1, <1>2, OctetsAssociative
  <2>2. (wire \o x) \o t = wire \o (x \o t)
    BY <1>1, <1>2, OctetsAssociative
  <2>. QED  BY <1>1, <1>3, <2>1, <2>2 DEF y, z
<1>. QED  BY <1>1, <1>2, <1>3 DEF NetSound, InOrder

\* What has been written goes out.
LEMMA StepFlushes ==
    ASSUME NetSound, ~net.corrupt, NEW o, Flushed(net, FALSE, o),
           net' = o.net, wire' = wire \o o.sent, due' = due
    PROVE  NetSound'
<1>. DEFINE x == Unsent(net)
            y == Unsent(o.net)
            z == o.sent
<1>1. /\ Good(net) /\ wire \in Seq(Octet) /\ wire \o x = due
      /\ Good(o.net) /\ z \in Seq(Octet) /\ (~o.net.corrupt => z \o y = x)
  BY DEF NetSound, InOrder, Flushed
<1>2. x \in Seq(Octet) /\ y \in Seq(Octet) /\ wire \o z \in Seq(Octet)
  BY <1>1, UnsentType, JoinedSeq
<1>3. ASSUME ~net'.corrupt PROVE wire' \o Unsent(net') = due'
  <2>. HIDE DEF x, y, z
  <2>1. (wire \o z) \o y = wire \o (z \o y)
    BY <1>1, <1>2, OctetsAssociative
  <2>. QED  BY <1>1, <1>3, <2>1 DEF y, z
<1>. QED  BY <1>1, <1>2, <1>3 DEF NetSound, InOrder

\* What has been written is cleared.
LEMMA StepClears ==
    ASSUME NetSound, ~net.corrupt, NEW o \in Clears(net),
           net' = o.net, wire' = wire \o o.sent, due' = wire' \o Unsent(net')
    PROVE  NetSound'
<1>1. Good(o.net) /\ o.sent \in Seq(Octet)
  BY ClearsGood DEF NetSound
<1>2. wire \o o.sent \in Seq(Octet)
  BY <1>1, JoinedSeq DEF NetSound
<1>. QED  BY <1>1, <1>2 DEF NetSound, InOrder

LEMMA NetSame ==
    ASSUME NetSound, UNCHANGED <<net, wire, due>>
    PROVE  NetSound'
BY DEF NetSound, InOrder

LEMMA InitNet == Init => NetSound
<1>. SUFFICES ASSUME Init PROVE NetSound
  OBVIOUS
<1>1. net = NetInit /\ wire = <<>> /\ due = <<>>
  BY DEF Init
<1>2. /\ <<>> \in Seq(Octet) /\ <<>> \in Seq(Seq(Octet))
  BY EmptyType
<1>3. /\ net.file = <<>> /\ net.list = <<>> /\ net.skip = 0 /\ net.trailing = FALSE
      /\ net.urg = 0 /\ net \in Buffers
  BY <1>1, <1>2 DEF NetInit, Buffers
<1>4. FlattenSeq(net.list) = <<>> /\ Length(net.list) = 0
  BY <1>3, FlattenEmpty DEF Length
<1>5. Good(net)
  BY <1>3, <1>4 DEF Good, Urgent
<1>6. Unsent(net) = <<>>
  <2>1. ListUnsent(net) = <<>>
    BY <1>3, <1>4 DEF ListUnsent
  <2>. QED  BY <1>3, <2>1 DEF Unsent
<1>. QED  BY <1>1, <1>2, <1>5, <1>6 DEF NetSound, InOrder

\* netflush(): the first of these is done by Ttloop, Round, Eof and NetFlush.
LEMMA FlushInv ==
    ASSUME NetSound, ~net.corrupt, due' = due,
           \E o \in Flushes(net, FALSE, {}) : net' = o.net /\ wire' = wire \o o.sent
    PROVE  NetSound'
<1>1. PICK o \in Flushes(net, FALSE, {}) : net' = o.net /\ wire' = wire \o o.sent
  OBVIOUS
<1>2. Flushed(net, FALSE, o)
  <2>1. Good(net) /\ FALSE \in BOOLEAN
    BY DEF NetSound
  <2>. QED  BY <2>1, FlushesKeep
<1>. QED  BY <1>1, <1>2, StepFlushes

\* stdio gets t.
LEMMA PutsInv ==
    ASSUME NetSound, ~net.corrupt, NEW t \in Seq(Octet), due' = due \o t,
           \E o \in Puts(net, t) : net' = o.net /\ wire' = wire \o o.sent
    PROVE  NetSound'
<1>1. PICK o \in Puts(net, t) : net' = o.net /\ wire' = wire \o o.sent
  OBVIOUS
<1>2. Keeping(net, o, t)
  BY PutsKeep DEF NetSound
<1>. QED  BY <1>1, <1>2, StepKeeps

\* netclear()
LEMMA ClearsInv ==
    ASSUME NetSound, ~net.corrupt, due' = wire' \o Unsent(net'),
           \E o \in Clears(net) : net' = o.net /\ wire' = wire \o o.sent
    PROVE  NetSound'
BY StepClears

-----------------------------------------------------------------------------
(* The steps                                                               *)

\* The steps that only flush.
LEMMA FlushStepsNet ==
    ASSUME NetSound, Ttloop \/ Round \/ Eof \/ NetFlush
    PROVE  NetSound'
<1>1. ~net.corrupt /\ due' = due
  BY DEF Ttloop, Round, Eof, NetFlush, Running, Ended
<1>2. CASE Ttloop
  <2>1. \E o \in Flushes(net, FALSE, {}) : net' = o.net /\ wire' = wire \o o.sent
    BY <1>2 DEF Ttloop
  <2>. QED  BY <1>1, <2>1, FlushInv
<1>3. CASE Round
  <2>1. \E o \in Flushes(net, FALSE, {}) : net' = o.net /\ wire' = wire \o o.sent
    BY <1>3 DEF Round
  <2>. QED  BY <1>1, <2>1, FlushInv
<1>4. CASE Eof
  <2>1. \E o \in Flushes(net, FALSE, {}) : net' = o.net /\ wire' = wire \o o.sent
    BY <1>4 DEF Eof
  <2>. QED  BY <1>1, <2>1, FlushInv
<1>5. CASE NetFlush
  <2>1. CASE "netw" \in server.ready
    <3>1. \E o \in Flushes(net, FALSE, {}) : net' = o.net /\ wire' = wire \o o.sent
      BY <1>5, <2>1 DEF NetFlush
    <3>. QED  BY <1>1, <3>1, FlushInv
  <2>2. CASE "netw" \notin server.ready
    <3>1. UNCHANGED <<net, wire>>
      BY <1>5, <2>2 DEF NetFlush
    <3>. QED  BY <1>1, <3>1, NetSame
  <2>. QED  BY <2>1, <2>2
<1>. QED  BY <1>2, <1>3, <1>4, <1>5

\* A packet from the pty: netclear() and a Synch, or an answer about flow control.
LEMMA ReadPtyNet ==
    ASSUME IndInv, NetSound, ReadPty
    PROVE  NetSound'
<1>. DEFINE packet == Head(packets)
<1>1. ~net.corrupt /\ packets # <<>>
  BY DEF IndInv, ReadPty, Running
<1>2. packet.event \in {"data", "flushwrite", "dostop"}
  <2>1. packet \in Packet
    BY <1>1, HeadType DEF IndInv, TypeOK
  <2>. HIDE DEF packet
  <2>. QED  BY <2>1, PacketAssumption
<1>3. CASE packet.event = "data"
  <2>1. UNCHANGED <<net, wire, due>>
    BY <1>3 DEF ReadPty
  <2>. QED  BY <2>1, NetSame
<1>4. CASE packet.event = "dostop"
  <2>1. /\ \E o \in Puts(net, LflowStop) : net' = o.net /\ wire' = wire \o o.sent
        /\ due' = due \o LflowStop
    BY <1>4 DEF ReadPty
  <2>. QED  BY <1>1, <2>1, StopType, PutsInv
<1>5. CASE packet.event = "flushwrite"
  <2>1. /\ \E o \in Clears(net) : net' = o.net /\ wire' = wire \o o.sent
        /\ due' = wire' \o Unsent(net')
    BY <1>5 DEF ReadPty
  <2>. QED  BY <1>1, <2>1, ClearsInv
<1>. QED  BY <1>2, <1>3, <1>4, <1>5

\* An octet of the program's output goes to the network.
LEMMA PutCharNet ==
    ASSUME IndInv, NetSound, PutChar
    PROVE  NetSound'
<1>. DEFINE t == Data(Taken(server.ptyibuf, server.binary).octets)
<1>1. /\ ~net.corrupt /\ server.ptyibuf # <<>> /\ server.ptyibuf \in Seq(Code)
      /\ \E o \in Puts(net, t) : net' = o.net /\ wire' = wire \o o.sent
      /\ due' = due \o t
  BY DEF IndInv, TypeOK, ServerState, PutChar, Running
<1>2. t \in Seq(Octet)
  BY <1>1, TakenType
<1>. HIDE DEF t
<1>. QED  BY <1>1, <1>2, PutsInv

\* What telrcv() makes of the program when k characters go to the pty before.
LEMMA ReceivedType ==
    ASSUME IndInv, CanReceive(server), server.pc # "exited",
           NEW k \in IF Flushing(server) THEN 0 .. Len(server.ptyobuf) ELSE {0}
    PROVE  Received(PtyFlushed(server, k), urgent # 0) \in ServerState
<1>. DEFINE u == PtyFlushed(server, k)
<1>1. Sound(server) /\ server.ptyobuf \in Seq(InCode) /\ server.netibuf # <<>>
  BY DEF IndInv, Sound, ServerState, CanReceive
<1>2. k \in 0 .. Len(server.ptyobuf)
  BY <1>1
<1>3. Sound(u) /\ u.netibuf # << >>
  BY <1>1, <1>2, PtyFlushedSound
<1>. HIDE DEF u
<1>4. Grows(u, Received(u, urgent # 0))
  BY <1>3, ReceivedGrows DEF Sound
<1>. QED  BY <1>4 DEF Grows, u

\* An octet of input: only the answers to commands are output.
LEMMA TelrcvNet ==
    ASSUME IndInv, NetSound, Telrcv
    PROVE  NetSound'
<1>1. /\ ~net.corrupt /\ CanReceive(server) /\ server.pc # "exited"
      /\ server \in ServerState
  BY DEF IndInv, TypeOK, Telrcv, Running
<1>. DEFINE reply(s) == Reply(s.done, Len(server.done))
            aborted(s) == Len(s.done) > Len(server.done) /\ Last(s.done) = <<"AO">>
            Writes(s) ==
              IF aborted(s)
              THEN /\ \E o \in Clears(net) : net' = o.net /\ wire' = wire \o o.sent
                   /\ due' = wire' \o Unsent(net')
              ELSE /\ \E o \in Puts(net, reply(s)) : net' = o.net /\ wire' = wire \o o.sent
                   /\ due' = due \o reply(s)
<1>2. PICK k \in IF Flushing(server) THEN 0 .. Len(server.ptyobuf) ELSE {0} :
        \E s \in {Received(PtyFlushed(server, k), urgent # 0)} : Writes(s)
  BY DEF Telrcv
<1>3. PICK s \in {Received(PtyFlushed(server, k), urgent # 0)} : Writes(s)
  BY <1>2
<1>4. s \in ServerState
  BY <1>1, <1>3, ReceivedType
<1>5. reply(s) \in Seq(Octet)
  <2>1. s.done \in Seq(Seq(InCode)) /\ server.done \in Seq(Seq(InCode))
    BY <1>1, <1>4 DEF ServerState
  <2>. DEFINE S == Seq(InCode)
              d == server.done
  <2>2. Len(d) \in Nat
    <3>1. d \in Seq(S)
      BY <2>1
    <3>. HIDE DEF S, d
    <3>. QED  BY <3>1
  <2>. QED  BY <2>1, <2>2, ReplyType
<1>. HIDE DEF aborted, reply
<1>6. CASE aborted(s)
  BY <1>1, <1>3, <1>6, ClearsInv
<1>7. CASE ~aborted(s)
  BY <1>1, <1>3, <1>5, <1>7, PutsInv
<1>. QED  BY <1>6, <1>7

LEMMA NetInductive == Init /\ [][Next]_vars => []NetSound
<1>1. ASSUME IndInv, NetSound, [Next]_vars PROVE NetSound'
  <2>1. CASE UNCHANGED vars
    BY <1>1, <2>1, NetSame DEF vars
  <2>2. CASE Next
    <3>1. ASSUME \/ \E unit \in Unit : ClientWrites(unit)
                 \/ \E packet \in Packet : PtyHas(packet)
                 \/ TtloopAgain \/ TtloopEnds \/ MainLoop \/ PtyFlush \/ Sigchld
          PROVE  NetSound'
      <4>1. UNCHANGED <<net, wire, due>>
        BY <3>1 DEF ClientWrites, PtyHas, TtloopAgain, TtloopEnds, MainLoop, PtyFlush,
                    Sigchld, Ended
      <4>. QED  BY <1>1, <4>1, NetSame
    <3>. QED  BY <1>1, <2>2, <3>1, FlushStepsNet, ReadPtyNet, PutCharNet, TelrcvNet DEF Next
  <2>. QED  BY <1>1, <2>1, <2>2
<1>. QED  BY InitNet, Inductive, <1>1, PTL

-----------------------------------------------------------------------------
(* What the client reads: Decoded().                                       *)

\* Where the next character begins that a client takes from s.
Skip(s, binary, i) ==
    IF \/ s[i].code = "IAC"
       \/ s[i].code = "CR" /\ ~binary /\ i < Len(s) /\ s[i + 1].code = "NUL"
    THEN i + 2 ELSE i + 1

\* g[i] is what Decoded of s makes of it from the i-th octet on.
DecodedFrom(s, binary, g) ==
    /\ g \in [1 .. Len(s) + 2 -> Seq(Code)]
    /\ \A i \in 1 .. Len(s) + 2 :
         g[i] = IF i > Len(s) THEN << >> ELSE <<s[i].code>> \o g[Skip(s, binary, i)]

LEMMA DecodedIs ==
    ASSUME NEW s \in Seq(Octet), NEW binary \in BOOLEAN
    PROVE  \E g : DecodedFrom(s, binary, g) /\ Decoded(s, binary) = g[1]
<1>. DEFINE n == Len(s) + 2
            Chars == Seq(Code)
            stop == {i \in 1 .. n : i > Len(s)}
            next == [i \in 1 .. n |-> Skip(s, binary, i)]
            base == [i \in 1 .. n |-> << >>]
            Step(g) == g = [i \in 1 .. Len(s) + 2 |->
                               IF i > Len(s) THEN << >>
                               ELSE <<s[i].code>> \o g[Skip(s, binary, i)]]
            from == CHOOSE g : Step(g)
<1>0. n \in Nat /\ 1 <= n /\ 1 \in Nat /\ 1 \in 1 .. n
  OBVIOUS
<1>a. \A i \in 1 .. n : Skip(s, binary, i) \in Nat
  BY DEF Skip
<1>b. \A i \in 1 .. n : i \notin stop => Skip(s, binary, i) \in i + 1 .. n
  BY DEF Skip
<1>1. Jumps(1, n, stop, next)
  <2>. HIDE DEF n, stop
  <2>. QED  BY <1>a, <1>b DEF Jumps
<1>. DEFINE fits == \A i \in 1 .. n : i \notin stop => s[i].code \in Code
<1>2. fits
  <2>1. \A i \in 1 .. n : i \notin stop => i \in 1 .. Len(s)
    OBVIOUS
  <2>2. \A i \in 1 .. Len(s) : s[i] \in Octet
    OBVIOUS
  <2>. HIDE DEF n, stop
  <2>. QED  BY <2>1, <2>2 DEF Octet
<1>. DEFINE h == [p \in (1 .. n) \X Chars |-> IF p[1] \in stop THEN << >> ELSE <<s[p[1]].code>> \o p[2]]
<1>3. base \in [1 .. n -> Chars] /\ h \in [(1 .. n) \X Chars -> Chars]
  <2>1. << >> \in Chars
    OBVIOUS
  <2>2. \A c \in Code : \A q \in Chars : <<c>> \o q \in Chars
    OBVIOUS
  <2>. HIDE DEF Chars, n, stop
  <2>. QED  BY <1>2, <2>1, <2>2
<1>4. PICK g \in [1 .. n -> Chars] : Backwards(g, 1, n, stop, next, base, h)
  <2>. HIDE DEF n, stop, next, base, h, Chars
  <2>. QED  BY <1>0, <1>1, <1>3, BackwardsExists
<1>5. ASSUME NEW i \in 1 .. n
      PROVE  g[i] = IF i > Len(s) THEN << >> ELSE <<s[i].code>> \o g[Skip(s, binary, i)]
  <2>1. g[i] = IF i \in stop THEN base[i] ELSE h[<<i, g[next[i]]>>]
    BY <1>4 DEF Backwards
  <2>2. CASE i \in stop
    BY <2>1, <2>2
  <2>3. CASE i \notin stop
    <3>. DEFINE q == g[Skip(s, binary, i)]
    <3>1. q \in Chars
      <4>1. Skip(s, binary, i) \in 1 .. n
        BY <1>b, <2>3
      <4>. HIDE DEF Chars, n
      <4>. QED  BY <1>4, <4>1
    <3>2. g[i] = h[<<i, q>>]
      <4>. HIDE DEF h, base, stop
      <4>. QED  BY <2>1, <2>3
    <3>. HIDE DEF q
    <3>3. h[<<i, q>>] = <<s[i].code>> \o q
      <4>. HIDE DEF Chars, n, stop
      <4>. QED  BY <2>3, <3>1
    <3>4. ~ (i > Len(s))
      BY <2>3
    <3>. HIDE DEF h
    <3>. QED  BY <3>2, <3>3, <3>4 DEF q
  <2>. QED  BY <2>2, <2>3
<1>6. Step(g)
  <2>1. g = [i \in 1 .. n |-> g[i]]
    BY <1>4
  <2>. QED  BY <1>5, <2>1
<1>7. Step(from)
  <2>. HIDE DEF Step
  <2>. QED  BY <1>6
<1>8. Decoded(s, binary) = from[1]
  BY DEF Decoded, Skip
<1>. HIDE DEF from
<1>9. \A i \in 1 .. n : from[i] = IF i > Len(s) THEN << >> ELSE <<s[i].code>> \o from[Skip(s, binary, i)]
  BY <1>7
<1>10. from \in [1 .. n -> Chars]
  <2>. DEFINE T == {i \in 1 .. n : from[i] \in Chars}
  <2>1. ASSUME NEW i \in 1 .. n, \A j \in i + 1 .. n : j \in T PROVE i \in T
    <3>1. CASE i \in stop
      <4>1. from[i] = << >>
        BY <1>9, <3>1
      <4>2. << >> \in Chars
        OBVIOUS
      <4>. HIDE DEF n, stop, Chars
      <4>. QED  BY <4>1, <4>2
    <3>2. CASE i \notin stop
      <4>. DEFINE q == from[Skip(s, binary, i)]
      <4>1. q \in Chars
        <5>1. Skip(s, binary, i) \in T
          <6>. HIDE DEF T
          <6>. QED  BY <1>b, <2>1, <3>2
        <5>. HIDE DEF Chars
        <5>. QED  BY <5>1
      <4>2. from[i] = <<s[i].code>> \o q
        BY <1>9, <3>2
      <4>3. s[i].code \in Code
        <5>. HIDE DEF n, stop
        <5>. QED  BY <1>2, <3>2
      <4>. HIDE DEF q
      <4>4. <<s[i].code>> \o q \in Chars
        BY <4>1, <4>3
      <4>. HIDE DEF Chars
      <4>. QED  BY <4>2, <4>4
    <3>. QED  BY <3>1, <3>2
  <2>2. 1 .. n \subseteq T
    <3>. HIDE DEF T, n
    <3>. QED  BY <1>0, <2>1, DownTo
  <2>3. from = [i \in 1 .. n |-> from[i]]
    <3>1. DOMAIN from = 1 .. n
      BY <1>7
    <3>2. \E w : from = [i \in 1 .. n |-> w[i]]
      <4>. DEFINE W(i) == IF i > Len(s) THEN << >> ELSE <<s[i].code>> \o from[Skip(s, binary, i)]
      <4>1. from = [i \in 1 .. n |-> W(i)]
        BY <1>7
      <4>2. [i \in 1 .. n |-> W(i)] = [i \in 1 .. n |-> [j \in 1 .. n |-> W(j)][i]]
        <5>. HIDE DEF W, n
        <5>. QED  OBVIOUS
      <4>. HIDE DEF W
      <4>. QED  BY <4>1, <4>2
    <3>. HIDE DEF n
    <3>. QED  BY <3>1, <3>2
  <2>. HIDE DEF n, Chars
  <2>. QED  BY <2>2, <2>3
<1>. QED  BY <1>8, <1>9, <1>10 DEF DecodedFrom

\* What follows p is taken as if p were not there.
LEMMA DecodedBehind ==
    ASSUME NEW p \in Seq(Octet), NEW s \in Seq(Octet), NEW binary \in BOOLEAN,
           NEW g, DecodedFrom(p \o s, binary, g), NEW h, DecodedFrom(s, binary, h)
    PROVE  g[Len(p) + 1] = h[1]
<1>. DEFINE m == Len(p)
            l == Len(s)
            r == p \o s
            T == {i \in 1 .. l + 2 : g[m + i] = h[i]}
<1>0. /\ m \in Nat /\ l \in Nat /\ r \in Seq(Octet) /\ Len(r) = m + l
      /\ \A i \in 1 .. l : r[m + i] = s[i]
  <2>1. Len(r) = m + l /\ \A i \in 1 .. m + l : r[i] = IF i <= m THEN p[i] ELSE s[i - m]
    BY ConcatProperties
  <2>2. m \in Nat /\ l \in Nat /\ r \in Seq(Octet)
    OBVIOUS
  <2>. HIDE DEF m, l, r
  <2>3. ASSUME NEW i \in 1 .. l PROVE r[m + i] = s[i]
    <3>1. m + i \in 1 .. m + l /\ ~ (m + i <= m) /\ m + i - m = i
      BY <2>2
    <3>. DEFINE j == m + i
    <3>2. j \in 1 .. m + l /\ ~ (j <= m) /\ j - m = i
      BY <2>2, <3>1
    <3>. HIDE DEF j
    <3>3. r[j] = s[j - m]
      BY <2>1, <3>2
    <3>. QED  BY <3>2, <3>3 DEF j
  <2>. QED  BY <2>1, <2>2, <2>3
<1>1. /\ \A i \in 1 .. m + l + 2 :
           g[i] = IF i > m + l THEN << >> ELSE <<r[i].code>> \o g[Skip(r, binary, i)]
      /\ \A i \in 1 .. l + 2 : h[i] = IF i > l THEN << >> ELSE <<s[i].code>> \o h[Skip(s, binary, i)]
  BY <1>0 DEF DecodedFrom
<1>. HIDE DEF m, l, r
<1>2. ASSUME NEW i \in 1 .. l PROVE Skip(r, binary, m + i) = m + Skip(s, binary, i)
  <2>1. m + (i + 1) = m + i + 1 /\ (i < l => i + 1 \in 1 .. l)
    BY <1>0
  <2>2. r[m + i] = s[i] /\ (i < l => r[m + i + 1] = s[i + 1])
    BY <1>0, <2>1
  <2>3. m + i < m + l <=> i < l
    BY <1>0
  <2>4. Len(r) = m + l /\ Len(s) = l
    BY <1>0 DEF l
  <2>. QED  BY <1>0, <2>2, <2>3, <2>4 DEF Skip
<1>3. ASSUME NEW i \in 1 .. l + 2, \A j \in i + 1 .. l + 2 : j \in T PROVE i \in T
  <2>0. m + i \in 1 .. m + l + 2 /\ (m + i > m + l <=> i > l)
    BY <1>0
  <2>1. CASE i > l
    <3>1. g[m + i] = << >> /\ h[i] = << >>
      BY <1>1, <2>0, <2>1
    <3>. QED  BY <3>1
  <2>2. CASE ~ (i > l)
    <3>. DEFINE k == Skip(s, binary, i)
    <3>1. i \in 1 .. l /\ k \in i + 1 .. l + 2
      BY <1>0, <2>2 DEF Skip
    <3>2. g[m + i] = <<r[m + i].code>> \o g[m + k] /\ h[i] = <<s[i].code>> \o h[k]
      <4>1. Skip(r, binary, m + i) = m + k
        BY <1>2, <3>1
      <4>. QED  BY <1>1, <2>0, <2>2, <4>1
    <3>. HIDE DEF k
    <3>3. g[m + k] = h[k] /\ r[m + i] = s[i]
      BY <1>0, <1>3, <3>1
    <3>. QED  BY <3>2, <3>3
  <2>. QED  BY <2>1, <2>2
<1>4. 1 .. l + 2 \subseteq T
  <2>. DEFINE n == l + 2
  <2>1. 1 \in Nat /\ n \in Nat
    BY <1>0
  <2>2. ASSUME NEW i \in 1 .. n, \A j \in i + 1 .. n : j \in T PROVE i \in T
    BY <1>3, <2>2
  <2>. HIDE DEF T, n
  <2>3. 1 .. n \subseteq T
    BY <2>1, <2>2, DownTo
  <2>. QED  BY <2>3 DEF n
<1>5. 1 \in T
  <2>1. 1 \in 1 .. l + 2
    BY <1>0
  <2>. HIDE DEF T
  <2>. QED  BY <1>4, <2>1
<1>. QED  BY <1>5 DEF m

LEMMA DecodedType ==
    ASSUME NEW s \in Seq(Octet), NEW binary \in BOOLEAN
    PROVE  Decoded(s, binary) \in Seq(Code)
<1>1. PICK g : DecodedFrom(s, binary, g) /\ Decoded(s, binary) = g[1]
  BY DecodedIs
<1>2. 1 \in 1 .. Len(s) + 2
  OBVIOUS
<1>. QED  BY <1>1, <1>2 DEF DecodedFrom

LEMMA DecodedEmpty ==
    ASSUME NEW binary \in BOOLEAN
    PROVE  Decoded(<<>>, binary) = <<>>
<1>. DEFINE s == <<>>
<1>1. s \in Seq(Octet) /\ Len(s) = 0
  OBVIOUS
<1>. HIDE DEF s
<1>2. PICK g : DecodedFrom(s, binary, g) /\ Decoded(s, binary) = g[1]
  BY <1>1, DecodedIs
<1>3. 1 \in 1 .. Len(s) + 2 /\ 1 > Len(s)
  BY <1>1
<1>4. g[1] = << >>
  BY <1>2, <1>3 DEF DecodedFrom
<1>. QED  BY <1>2, <1>4 DEF s

\* The octets that stand for a character, or for a line end.
LEMMA DecodedPieces ==
    ASSUME NEW a \in Octet, NEW b \in Octet, NEW s \in Seq(Octet), NEW binary \in BOOLEAN
    PROVE  /\ a.code # "IAC" /\ (a.code = "CR" => binary)
                => Decoded(<<a>> \o s, binary) = <<a.code>> \o Decoded(s, binary)
           /\ a.code = "IAC" \/ (a.code = "CR" /\ ~binary /\ b.code = "NUL")
                => Decoded(<<a, b>> \o s, binary) = <<a.code>> \o Decoded(s, binary)
           /\ a.code = "CR" /\ b.code = "LF"
                => Decoded(<<a, b>> \o s, binary) = <<a.code>> \o (<<b.code>> \o Decoded(s, binary))
<1>. DEFINE p == <<a>>
            q == <<a, b>>
            x == p \o s
            y == q \o s
<1>0. /\ p \in Seq(Octet) /\ Len(p) = 1 /\ q \in Seq(Octet) /\ Len(q) = 2
      /\ x \in Seq(Octet) /\ Len(x) = Len(s) + 1 /\ x[1] = a
      /\ y \in Seq(Octet) /\ Len(y) = Len(s) + 2 /\ y[1] = a /\ y[2] = b
      /\ Len(s) \in Nat
  OBVIOUS
<1>. HIDE DEF x, y, p, q
<1>1. PICK h : DecodedFrom(s, binary, h) /\ Decoded(s, binary) = h[1]
  BY DecodedIs
<1>2. PICK g : DecodedFrom(x, binary, g) /\ Decoded(x, binary) = g[1]
  BY <1>0, DecodedIs
<1>3. PICK f : DecodedFrom(y, binary, f) /\ Decoded(y, binary) = f[1]
  BY <1>0, DecodedIs
<1>4. g[Len(p) + 1] = h[1]
  BY <1>0, <1>1, <1>2, DecodedBehind DEF x
<1>5. f[Len(q) + 1] = h[1]
  BY <1>0, <1>1, <1>3, DecodedBehind DEF y
<1>6. g[2] = h[1] /\ f[3] = h[1]
  BY <1>0, <1>4, <1>5
<1>7. ASSUME a.code # "IAC", a.code = "CR" => binary
      PROVE  g[1] = <<a.code>> \o h[1]
  <2>1. Skip(x, binary, 1) = 2
    BY <1>0, <1>7 DEF Skip
  <2>2. 1 \in 1 .. Len(x) + 2 /\ ~ (1 > Len(x))
    BY <1>0
  <2>. QED  BY <1>0, <1>2, <1>6, <2>1, <2>2 DEF DecodedFrom
<1>8. ASSUME a.code = "IAC" \/ (a.code = "CR" /\ ~binary /\ b.code = "NUL")
      PROVE  f[1] = <<a.code>> \o h[1]
  <2>1. Skip(y, binary, 1) = 3
    BY <1>0, <1>8 DEF Skip
  <2>2. 1 \in 1 .. Len(y) + 2 /\ ~ (1 > Len(y))
    BY <1>0
  <2>. QED  BY <1>0, <1>3, <1>6, <2>1, <2>2 DEF DecodedFrom
<1>9. ASSUME a.code = "CR", b.code = "LF"
      PROVE  f[1] = <<a.code>> \o (<<b.code>> \o h[1])
  <2>1. Skip(y, binary, 1) = 2 /\ Skip(y, binary, 2) = 3
    BY <1>0, <1>9 DEF Skip
  <2>2. 1 \in 1 .. Len(y) + 2 /\ ~ (1 > Len(y)) /\ 2 \in 1 .. Len(y) + 2 /\ ~ (2 > Len(y))
    BY <1>0
  <2>3. f[1] = <<a.code>> \o f[2]
    BY <1>0, <1>3, <2>1, <2>2 DEF DecodedFrom
  <2>4. f[2] = <<b.code>> \o f[3]
    BY <1>0, <1>3, <2>1, <2>2 DEF DecodedFrom
  <2>. QED  BY <1>6, <2>3, <2>4
<1>. QED  BY <1>1, <1>2, <1>3, <1>7, <1>8, <1>9 DEF x, y, p, q

LEMMA DecodedOne ==
    ASSUME NEW a \in Octet, NEW binary \in BOOLEAN, a.code # "IAC", a.code = "CR" => binary,
           NEW s \in Seq(Octet)
    PROVE  Decoded(<<a>> \o s, binary) = <<a.code>> \o Decoded(s, binary)
BY DecodedPieces

LEMMA DecodedIac ==
    ASSUME NEW a \in Octet, NEW binary \in BOOLEAN, a.code = "IAC", NEW s \in Seq(Octet)
    PROVE  Decoded(<<a, a>> \o s, binary) = <<a.code>> \o Decoded(s, binary)
BY DecodedPieces

LEMMA DecodedCr ==
    ASSUME NEW a \in Octet, NEW b \in Octet, NEW binary \in BOOLEAN, ~binary,
           a.code = "CR", b.code = "NUL", NEW s \in Seq(Octet)
    PROVE  Decoded(<<a, b>> \o s, binary) = <<a.code>> \o Decoded(s, binary)
BY DecodedPieces

LEMMA DecodedLine ==
    ASSUME NEW a \in Octet, NEW b \in Octet, NEW binary \in BOOLEAN,
           a.code = "CR", b.code = "LF", NEW s \in Seq(Octet)
    PROVE  Decoded(<<a, b>> \o s, binary) = <<a.code, b.code>> \o Decoded(s, binary)
<1>. DEFINE d == Decoded(s, binary)
            c == a.code
            e == b.code
<1>1. Decoded(<<a, b>> \o s, binary) = <<c>> \o (<<e>> \o d)
  BY DecodedPieces
<1>2. d \in Seq(Code) /\ c \in Code /\ e \in Code
  BY DecodedType DEF Octet
<1>. HIDE DEF c, d, e
<1>3. <<c>> \in Seq(Code) /\ <<e>> \in Seq(Code)
  BY <1>2
<1>4. <<c>> \o (<<e>> \o d) = (<<c>> \o <<e>>) \o d
  BY <1>2, <1>3, Associative
<1>5. <<c>> \o <<e>> = <<c, e>>
  BY <1>2, PairSeq
<1>. QED  BY <1>1, <1>4, <1>5 DEF c, d, e

-----------------------------------------------------------------------------
(* FromPty()                                                               *)

IsFromPty(o) == o.own = "data" /\ o.code # "yes"

Sifted(s) == [i \in 1 .. Len(s) |-> IF IsFromPty(s[i]) THEN <<s[i]>> ELSE << >>]

LEMMA SiftedType ==
    ASSUME NEW s \in Seq(Octet)
    PROVE  /\ Sifted(s) \in Seq(Seq(Octet)) /\ Len(Sifted(s)) = Len(s)
           /\ \A i \in 1 .. Len(s) : Sifted(s)[i] = IF IsFromPty(s[i]) THEN <<s[i]>> ELSE << >>
           /\ FromPty(s) = FlattenSeq(Sifted(s))
<1>. DEFINE n == Len(s)
            Piece == Seq(Octet)
            g == Sifted(s)
<1>1. n \in Nat /\ DOMAIN s = 1 .. n /\ \A i \in 1 .. n : s[i] \in Octet
  OBVIOUS
<1>2. FromPty(s) = FlattenSeq(g)
  <2>. DEFINE keep == {i \in DOMAIN s : s[i].own = "data" /\ s[i].code # "yes"}
  <2>1. [i \in DOMAIN s |-> IF i \in keep THEN <<s[i]>> ELSE << >>] = g
    BY <1>1 DEF Sifted, IsFromPty
  <2>2. Only(s, keep) = FlattenSeq([i \in DOMAIN s |-> IF i \in keep THEN <<s[i]>> ELSE << >>])
    BY DEF Only
  <2>. QED  BY <2>1, <2>2, Zenon DEF FromPty
<1>3. \A i \in 1 .. n : g[i] = IF IsFromPty(s[i]) THEN <<s[i]>> ELSE << >>
  BY DEF Sifted
<1>4. \A o \in Octet : <<o>> \in Piece
  OBVIOUS
<1>5. << >> \in Piece
  OBVIOUS
<1>6. g = [i \in 1 .. n |-> g[i]]
  BY DEF Sifted
<1>. HIDE DEF g, n, Piece
<1>7. \A i \in 1 .. n : g[i] \in Piece
  BY <1>1, <1>3, <1>4, <1>5
<1>8. g \in Seq(Piece) /\ Len(g) = n
  BY <1>1, <1>6, <1>7, ListedSeq
<1>. QED  BY <1>2, <1>3, <1>8 DEF g, n, Piece

LEMMA FromPtyType ==
    ASSUME NEW s \in Seq(Octet)
    PROVE  FromPty(s) \in Seq(Octet)
BY SiftedType, FlattenType

LEMMA FromPtyJoin ==
    ASSUME NEW s \in Seq(Octet), NEW t \in Seq(Octet)
    PROVE  FromPty(s \o t) = FromPty(s) \o FromPty(t)
<1>. DEFINE m == Len(s)
            n == Len(t)
            r == s \o t
            a == Sifted(s)
            b == Sifted(t)
            c == Sifted(r)
            Piece == Seq(Octet)
<1>1. /\ r \in Seq(Octet) /\ Len(r) = m + n /\ m \in Nat /\ n \in Nat
      /\ \A i \in 1 .. m + n : r[i] = IF i <= m THEN s[i] ELSE t[i - m]
  BY ConcatProperties
<1>. HIDE DEF r
<1>2. /\ a \in Seq(Piece) /\ Len(a) = m
      /\ \A i \in 1 .. m : a[i] = IF IsFromPty(s[i]) THEN <<s[i]>> ELSE << >>
      /\ FromPty(s) = FlattenSeq(a)
  BY SiftedType
<1>3. /\ b \in Seq(Piece) /\ Len(b) = n
      /\ \A i \in 1 .. n : b[i] = IF IsFromPty(t[i]) THEN <<t[i]>> ELSE << >>
      /\ FromPty(t) = FlattenSeq(b)
  BY SiftedType
<1>4. /\ c \in Seq(Piece) /\ Len(c) = m + n
      /\ \A i \in 1 .. m + n : c[i] = IF IsFromPty(r[i]) THEN <<r[i]>> ELSE << >>
      /\ FromPty(r) = FlattenSeq(c)
  BY <1>1, SiftedType
<1>. HIDE DEF a, b, c, Piece, m, n
<1>5. /\ a \o b \in Seq(Piece) /\ Len(a \o b) = m + n
      /\ \A i \in 1 .. m + n : (a \o b)[i] = IF i <= m THEN a[i] ELSE b[i - m]
  BY <1>2, <1>3, ConcatProperties
<1>6. ASSUME NEW i \in 1 .. m + n PROVE c[i] = (a \o b)[i]
  <2>1. CASE i <= m
    <3>1. i \in 1 .. m
      BY <1>1, <2>1
    <3>. QED  BY <1>1, <1>2, <1>4, <1>5, <2>1, <3>1
  <2>2. CASE ~ (i <= m)
    <3>. DEFINE j == i - m
    <3>1. j \in 1 .. n
      BY <1>1, <2>2
    <3>2. r[i] = t[j] /\ (a \o b)[i] = b[j]
      BY <1>1, <1>5, <2>2
    <3>. HIDE DEF j
    <3>. QED  BY <1>3, <1>4, <3>1, <3>2
  <2>. QED  BY <2>1, <2>2
<1>7. c = a \o b
  <2>. DEFINE d == a \o b
              k == m + n
  <2>1. /\ c \in Seq(Piece) /\ d \in Seq(Piece) /\ Len(c) = k /\ Len(d) = k /\ k \in Nat
        /\ \A i \in 1 .. k : c[i] = d[i]
    BY <1>1, <1>4, <1>5, <1>6
  <2>. HIDE DEF d, k
  <2>2. c = [i \in 1 .. k |-> c[i]] /\ d = [i \in 1 .. k |-> d[i]]
    BY <2>1
  <2>. QED  BY <2>1, <2>2 DEF d
<1>8. FlattenSeq(a \o b) = FlattenSeq(a) \o FlattenSeq(b)
  BY <1>2, <1>3, FlattenJoin DEF Piece
<1>. QED  BY <1>2, <1>3, <1>4, <1>7, <1>8 DEF r

\* No octet of a command, or of telnetd's own text.
None(s) == \A i \in 1 .. Len(s) : ~ IsFromPty(s[i])

LEMMA FromPtyNone ==
    ASSUME NEW s \in Seq(Octet), None(s)
    PROVE  FromPty(s) = << >>
<1>. DEFINE E == Octet
            R == {<<(<<>>), (<<>>)>>}
            a == Sifted(s)
<1>1. a \in Seq(Seq(E)) /\ \A i \in 1 .. Len(a) : a[i] = << >>
  BY SiftedType DEF None
<1>2. Multiplicative(R, E)
  <2>1. \A x, y, u, v \in Seq(E) : <<x, y>> \in R /\ <<u, v>> \in R => <<x \o u, y \o v>> \in R
    <3>1. << >> \o << >> = << >>
      OBVIOUS
    <3>. QED  BY <3>1
  <2>. QED  BY <2>1 DEF Multiplicative
<1>. HIDE DEF E, a
<1>3. \A i \in 1 .. Len(a) : <<a[i], a[i]>> \in R
  BY <1>1
<1>. HIDE DEF R
<1>4. <<FlattenSeq(a), FlattenSeq(a)>> \in R
  BY <1>1, <1>2, <1>3, FlattenRelated
<1>5. FlattenSeq(a) = << >>
  BY <1>4 DEF R
<1>. QED  BY <1>5, SiftedType DEF a

LEMMA FromPtyAll ==
    ASSUME NEW s \in Seq(Octet), \A i \in 1 .. Len(s) : IsFromPty(s[i])
    PROVE  FromPty(s) = s
<1>. DEFINE a == Sifted(s)
            b == [i \in DOMAIN s |-> <<s[i]>>]
<1>1. DOMAIN s = 1 .. Len(s)
  OBVIOUS
<1>2. a = b
  BY <1>1 DEF Sifted
<1>3. FlattenSeq(b) = s
  BY FlattenSingles
<1>. QED  BY <1>2, <1>3, SiftedType

-----------------------------------------------------------------------------
(* What a turn of the loop, an answer and an event write.                  *)

InData(c) == [code |-> c, own |-> "data"]

LEMMA DataIs ==
    ASSUME NEW c \in Code \ {"yes"}, NEW d \in Code \ {"yes"}
    PROVE  /\ InData(c) \in Octet /\ InData(c).code = c /\ IsFromPty(InData(c))
           /\ Data(<<c>>) = <<InData(c)>> /\ Data(<<c, d>>) = <<InData(c), InData(d)>>
           /\ FromPty(Data(<<c>>)) = Data(<<c>>) /\ FromPty(Data(<<c, d>>)) = Data(<<c, d>>)
<1>1. /\ InData(c) \in Octet /\ InData(c).code = c /\ IsFromPty(InData(c))
      /\ InData(d) \in Octet /\ IsFromPty(InData(d))
  BY DEF InData, Octet, IsFromPty
<1>2. Data(<<c>>) = <<InData(c)>> /\ Data(<<c, d>>) = <<InData(c), InData(d)>>
  <2>1. DOMAIN <<c>> = 1 .. 1 /\ DOMAIN <<c, d>> = 1 .. 2
    OBVIOUS
  <2>. DEFINE f == [i \in 1 .. 1 |-> [code |-> <<c>>[i], own |-> "data"]]
              g == [i \in 1 .. 2 |-> [code |-> <<c, d>>[i], own |-> "data"]]
  <2>2. Data(<<c>>) = f /\ Data(<<c, d>>) = g
    BY <2>1 DEF Data
  <2>3. f[1] = InData(c) /\ g[1] = InData(c) /\ g[2] = InData(d)
    BY DEF InData
  <2>4. f = [i \in 1 .. 1 |-> f[i]] /\ g = [i \in 1 .. 2 |-> g[i]]
    OBVIOUS
  <2>. HIDE DEF f, g
  <2>5. f = <<InData(c)>> /\ g = <<InData(c), InData(d)>>
    BY <2>3, <2>4
  <2>. QED  BY <2>2, <2>5
<1>. DEFINE a == InData(c)
            b == InData(d)
            s == <<a>>
            t == <<a, b>>
<1>. HIDE DEF a, b
<1>3. /\ s \in Seq(Octet) /\ t \in Seq(Octet)
      /\ \A i \in 1 .. Len(s) : IsFromPty(s[i])
      /\ \A i \in 1 .. Len(t) : IsFromPty(t[i])
  BY <1>1 DEF a, b
<1>. HIDE DEF s, t
<1>4. FromPty(s) = s /\ FromPty(t) = t
  BY <1>3, FromPtyAll
<1>. QED  BY <1>1, <1>2, <1>4 DEF a, b, s, t

LEMMA FirstTwo ==
    ASSUME NEW S, NEW cs \in Seq(S), cs # <<>>
    PROVE  /\ 1 \in 0 .. Len(cs) /\ SubSeq(cs, 1, 1) = <<cs[1]>>
           /\ Len(cs) > 1 => 2 \in 0 .. Len(cs) /\ SubSeq(cs, 1, 2) = <<cs[1], cs[2]>>
<1>1. Len(cs) \in Nat /\ Len(cs) >= 1
  OBVIOUS
<1>2. SubSeq(cs, 1, 1) = <<cs[1]>>
  <2>. DEFINE a == SubSeq(cs, 1, 1)
  <2>1. a \in Seq(S) /\ Len(a) = 1 /\ a[1] = cs[1]
    BY <1>1
  <2>. HIDE DEF a
  <2>2. a = <<cs[1]>>
    BY <2>1
  <2>. QED  BY <2>2 DEF a
<1>3. ASSUME Len(cs) > 1 PROVE SubSeq(cs, 1, 2) = <<cs[1], cs[2]>>
  <2>. DEFINE a == SubSeq(cs, 1, 2)
  <2>1. a \in Seq(S) /\ Len(a) = 2 /\ a[1] = cs[1] /\ a[2] = cs[2]
    BY <1>1, <1>3
  <2>. HIDE DEF a
  <2>2. a = <<cs[1], cs[2]>>
    BY <2>1
  <2>. QED  BY <2>2 DEF a
<1>. QED  BY <1>1, <1>2, <1>3

\* Whatever follows: the octets p read as the first n characters of cs.
Says(p, cs, n, binary) ==
    /\ n \in 0 .. Len(cs)
    /\ p \in Seq(Octet) /\ FromPty(p) = p
    /\ \A s \in Seq(Octet) : Decoded(p \o s, binary) = SubSeq(cs, 1, n) \o Decoded(s, binary)

\* What a turn writes reads as the characters it took.
LEMMA TakenSays ==
    ASSUME NEW cs \in Seq(Code \ {"yes"}), cs # <<>>, NEW binary \in BOOLEAN,
           NEW r, r = Taken(cs, binary)
    PROVE  Says(Data(r.octets), cs, r.n, binary)
<1>. DEFINE c == cs[1]
            Text == Code \ {"yes"}
<1>1. c \in Text /\ {"IAC", "CR", "LF", "NUL"} \subseteq Text /\ cs \in Seq(Code)
  BY DEF Code
<1>2. /\ 1 \in 0 .. Len(cs) /\ SubSeq(cs, 1, 1) = <<c>>
      /\ Len(cs) > 1 => 2 \in 0 .. Len(cs) /\ SubSeq(cs, 1, 2) = <<c, cs[2]>>
  BY <1>1, FirstTwo
<1>3. Data(r.octets) \in Seq(Octet)
  BY <1>1, TakenType
<1>4. CASE c = "IAC"
  <2>. DEFINE a == InData("IAC")
              p == <<a, a>>
  <2>1. r.n = 1 /\ r.octets = <<"IAC", "IAC">>
    BY <1>4 DEF Taken
  <2>2. /\ a \in Octet /\ a.code = "IAC" /\ Data(<<"IAC", "IAC">>) = <<a, a>>
        /\ FromPty(Data(<<"IAC", "IAC">>)) = Data(<<"IAC", "IAC">>)
    BY <1>1, DataIs
  <2>. HIDE DEF a
  <2>3. \A s \in Seq(Octet) : Decoded(p \o s, binary) = <<"IAC">> \o Decoded(s, binary)
    BY <2>2, DecodedIac
  <2>4. Data(r.octets) = p
    BY <2>1, <2>2
  <2>. HIDE DEF p
  <2>5. Says(p, cs, 1, binary)
    BY <1>2, <1>3, <1>4, <2>1, <2>2, <2>3, <2>4 DEF Says
  <2>. QED  BY <2>1, <2>4, <2>5
<1>5. CASE c = "CR" /\ ~binary /\ Len(cs) > 1 /\ cs[2] = "LF"
  <2>. DEFINE a == InData("CR")
              b == InData("LF")
              p == <<a, b>>
  <2>1. r.n = 2 /\ r.octets = <<"CR", "LF">>
    BY <1>5 DEF Taken
  <2>2. /\ a \in Octet /\ a.code = "CR" /\ b \in Octet /\ b.code = "LF"
        /\ Data(<<"CR", "LF">>) = <<a, b>>
        /\ FromPty(Data(<<"CR", "LF">>)) = Data(<<"CR", "LF">>)
    BY <1>1, DataIs
  <2>. HIDE DEF a, b
  <2>3. \A s \in Seq(Octet) : Decoded(p \o s, binary) = <<"CR", "LF">> \o Decoded(s, binary)
    <3>. SUFFICES ASSUME NEW s \in Seq(Octet)
                  PROVE  Decoded(p \o s, binary) = <<"CR", "LF">> \o Decoded(s, binary)
      OBVIOUS
    <3>1. Decoded(<<a, b>> \o s, binary) = <<a.code, b.code>> \o Decoded(s, binary)
      BY <2>2, DecodedLine
    <3>. QED  BY <2>2, <3>1
  <2>4. Data(r.octets) = p
    BY <2>1, <2>2
  <2>. HIDE DEF p
  <2>5. Says(p, cs, 2, binary)
    BY <1>2, <1>3, <1>5, <2>1, <2>2, <2>3, <2>4 DEF Says
  <2>. QED  BY <2>1, <2>4, <2>5
<1>6. CASE c = "CR" /\ ~binary /\ ~ (Len(cs) > 1 /\ cs[2] = "LF")
  <2>. DEFINE a == InData("CR")
              b == InData("NUL")
              p == <<a, b>>
  <2>1. r.n = 1 /\ r.octets = <<"CR", "NUL">>
    BY <1>6 DEF Taken
  <2>2. /\ a \in Octet /\ a.code = "CR" /\ b \in Octet /\ b.code = "NUL"
        /\ Data(<<"CR", "NUL">>) = <<a, b>>
        /\ FromPty(Data(<<"CR", "NUL">>)) = Data(<<"CR", "NUL">>)
    BY <1>1, DataIs
  <2>. HIDE DEF a, b
  <2>3. \A s \in Seq(Octet) : Decoded(p \o s, binary) = <<"CR">> \o Decoded(s, binary)
    <3>. SUFFICES ASSUME NEW s \in Seq(Octet)
                  PROVE  Decoded(p \o s, binary) = <<"CR">> \o Decoded(s, binary)
      OBVIOUS
    <3>1. Decoded(<<a, b>> \o s, binary) = <<a.code>> \o Decoded(s, binary)
      BY <1>6, <2>2, DecodedCr
    <3>. QED  BY <2>2, <3>1
  <2>4. Data(r.octets) = p
    BY <2>1, <2>2
  <2>. HIDE DEF p
  <2>5. Says(p, cs, 1, binary)
    BY <1>2, <1>3, <1>6, <2>1, <2>2, <2>3, <2>4 DEF Says
  <2>. QED  BY <2>1, <2>4, <2>5
<1>7. CASE c # "IAC" /\ (c = "CR" => binary)
  <2>. DEFINE a == InData(c)
              p == <<a>>
  <2>1. r.n = 1 /\ r.octets = <<c>>
    BY <1>7 DEF Taken
  <2>2. /\ a \in Octet /\ a.code = c /\ Data(<<c>>) = <<a>>
        /\ FromPty(Data(<<c>>)) = Data(<<c>>)
    BY <1>1, DataIs
  <2>. HIDE DEF a
  <2>3. \A s \in Seq(Octet) : Decoded(p \o s, binary) = <<c>> \o Decoded(s, binary)
    BY <1>7, <2>2, DecodedOne
  <2>4. Data(r.octets) = p
    BY <2>1, <2>2
  <2>. HIDE DEF p
  <2>5. Says(p, cs, 1, binary)
    BY <1>2, <1>3, <1>7, <2>1, <2>2, <2>3, <2>4 DEF Says
  <2>. QED  BY <2>1, <2>4, <2>5
<1>. QED  BY <1>4, <1>5, <1>6, <1>7

LEMMA CommandSilent ==
    ASSUME NEW codes \in Seq(Code)
    PROVE  FromPty(Command(codes)) = << >>
<1>. DEFINE s == Command(codes)
<1>1. s \in Seq(Octet)
  BY DataType
<1>2. None(s)
  <2>1. DOMAIN codes = 1 .. Len(codes) /\ Len(codes) \in Nat
    OBVIOUS
  <2>2. Len(s) = Len(codes)
    BY <1>1, <2>1 DEF Command
  <2>3. \A i \in 1 .. Len(codes) : s[i].own = "command"
    BY <2>1 DEF Command
  <2>. QED  BY <2>2, <2>3 DEF None, IsFromPty
<1>. HIDE DEF s
<1>3. FromPty(s) = << >>
  BY <1>1, <1>2, FromPtyNone
<1>. QED  BY <1>3 DEF s

LEMMA StopSilent == FromPty(LflowStop) = << >>
<1>1. <<"IAC", "SB", "x", "IAC", "SE">> \in Seq(Code)
  BY DEF Code
<1>. QED  BY <1>1, CommandSilent DEF LflowStop

LEMMA ReplySilent ==
    ASSUME NEW done \in Seq(Seq(InCode)), NEW m \in Nat
    PROVE  FromPty(Reply(done, m)) = << >>
<1>. DEFINE will == Command(<<"IAC", "WILL", "x">>)
            yes == Data(<<"yes">>)
            l == Len(done) - m
            n == IF l < 0 THEN 0 ELSE l
            g == [i \in 1 .. l |->
                    CASE done[m + i][1] = "WILL" -> will
                      [] done[m + i][1] = "AYT" -> yes
                      [] OTHER -> << >>]
            E == Octet
            R == {x \in Seq(E) \X Seq(E) : FromPty(x[1]) = << >>}
            Piece == {t \in Seq(E) : FromPty(t) = << >>}
<1>1. will \in Piece /\ yes \in Piece /\ <<>> \in Piece
  <2>1. <<"IAC", "WILL", "x">> \in Seq(Code) /\ <<"yes">> \in Seq(Code)
    BY DEF Code
  <2>2. will \in Seq(Octet) /\ FromPty(will) = << >>
    BY <2>1, DataType, CommandSilent
  <2>3. yes \in Seq(Octet) /\ FromPty(yes) = << >>
    <3>1. yes \in Seq(Octet)
      BY <2>1, DataType
    <3>2. None(yes)
      <4>1. DOMAIN <<"yes">> = 1 .. 1
        OBVIOUS
      <4>2. yes = [i \in 1 .. 1 |-> [code |-> <<"yes">>[i], own |-> "data"]]
        BY <4>1 DEF Data
      <4>. HIDE DEF yes
      <4>3. Len(yes) = 1 /\ yes[1].code = "yes"
        BY <3>1, <4>2
      <4>. QED  BY <4>3 DEF None, IsFromPty
    <3>. HIDE DEF yes
    <3>. QED  BY <3>1, <3>2, FromPtyNone
  <2>4. <<>> \in Seq(Octet) /\ FromPty(<<>>) = << >>
    <3>. DEFINE t == <<>>
    <3>1. t \in Seq(Octet) /\ Len(t) = 0
      OBVIOUS
    <3>. HIDE DEF t
    <3>2. None(t)
      BY <3>1 DEF None
    <3>3. FromPty(t) = << >>
      BY <3>1, <3>2, FromPtyNone
    <3>. QED  BY <3>1, <3>3 DEF t
  <2>. HIDE DEF will, yes
  <2>. QED  BY <2>2, <2>3, <2>4
<1>2. l \in Int
  <2>. DEFINE S == Seq(InCode)
  <2>1. done \in Seq(S)
    OBVIOUS
  <2>. HIDE DEF S
  <2>. QED  BY <2>1
<1>3. Reply(done, m) = FlattenSeq(g)
  BY DEF Reply
<1>. HIDE DEF will, yes, Piece, l
<1>4. n \in Nat /\ 1 .. l = 1 .. n
  BY <1>2
<1>5. \A i \in 1 .. n : g[i] \in Piece
  BY <1>1, <1>4
<1>6. g = [i \in 1 .. n |-> g[i]]
  BY <1>4
<1>. HIDE DEF g, n
<1>7. g \in Seq(Piece) /\ Len(g) = n
  BY <1>4, <1>5, <1>6, ListedSeq
<1>8. Multiplicative(R, E)
  <2>1. \A x, y, u, v \in Seq(E) : <<x, y>> \in R /\ <<u, v>> \in R => <<x \o u, y \o v>> \in R
    <3>. SUFFICES ASSUME NEW x \in Seq(E), NEW y \in Seq(E), NEW u \in Seq(E), NEW v \in Seq(E),
                         <<x, y>> \in R, <<u, v>> \in R
                  PROVE  <<x \o u, y \o v>> \in R
      OBVIOUS
    <3>1. FromPty(x \o u) = FromPty(x) \o FromPty(u)
      BY FromPtyJoin
    <3>2. FromPty(x) = << >> /\ FromPty(u) = << >>
      OBVIOUS
    <3>3. << >> \o << >> = << >>
      OBVIOUS
    <3>4. x \o u \in Seq(E) /\ y \o v \in Seq(E)
      BY JoinedSeq
    <3>. QED  BY <3>1, <3>2, <3>3, <3>4
  <2>2. << >> \in Seq(E) /\ FromPty(<< >>) = << >>
    BY <1>1 DEF Piece
  <2>3. <<(<<>>), (<<>>)>> \in R
    BY <2>2
  <2>. HIDE DEF R
  <2>. QED  BY <2>1, <2>3 DEF Multiplicative
<1>9. \A t \in Piece : t \in Seq(E) /\ <<t, t>> \in R
  BY DEF Piece
<1>10. g \in Seq(Seq(E)) /\ \A i \in 1 .. Len(g) : <<g[i], g[i]>> \in R
  <2>. DEFINE Q == Seq(E)
  <2>1. Piece \subseteq Q
    BY <1>9
  <2>. HIDE DEF Q, R
  <2>2. g \in Seq(Q)
    BY <1>7, <2>1
  <2>3. \A i \in 1 .. Len(g) : <<g[i], g[i]>> \in R
    BY <1>5, <1>7, <1>9
  <2>. QED  BY <2>2, <2>3 DEF Q
<1>11. <<FlattenSeq(g), FlattenSeq(g)>> \in R
  <2>. HIDE DEF R
  <2>. QED  BY <1>8, <1>10, FlattenRelated
<1>. QED  BY <1>3, <1>11

-----------------------------------------------------------------------------
(* What input leaves alone: the fields that the output depends on.         *)

SameOutput(s, t) ==
    /\ t.ptyibuf = s.ptyibuf /\ t.binary = s.binary
    /\ t.shown = s.shown /\ t.cleared = s.cleared

\* What telrcv() leaves alone besides.
LeavesAlone(s, t) ==
    /\ SameOutput(s, t)
    /\ t.lost = s.lost /\ t.skewed = s.skewed /\ t.skipped = s.skipped

LEMMA ToPtySame ==
    ASSUME NEW s \in ServerState, NEW c
    PROVE  LeavesAlone(s, ToPty(s, c))
BY DEF LeavesAlone, SameOutput, ToPty, ServerState

LEMMA DoneSame ==
    ASSUME NEW s \in ServerState, NEW command
    PROVE  LeavesAlone(s, Done(s, command))
BY DEF LeavesAlone, SameOutput, Done, ServerState

LEMMA StateSame ==
    ASSUME NEW s \in ServerState, NEW state
    PROVE  LeavesAlone(s, [s EXCEPT !.state = state])
BY DEF LeavesAlone, SameOutput, ServerState

LEMMA SameMore ==
    ASSUME NEW s, NEW t, LeavesAlone(s, t), NEW u
    PROVE  LeavesAlone(t, u) => LeavesAlone(s, u)
BY DEF LeavesAlone, SameOutput

LEMMA ReceiveDataSame ==
    ASSUME NEW s \in ServerState, NEW c \in InCode
    PROVE  LeavesAlone(s, ReceiveData(s, c))
<1>. DEFINE t == [s EXCEPT !.state = "cr"]
            u == [s EXCEPT !.state = "iac"]
<1>1. t \in ServerState
  BY StateKeeps DEF Keeps, ParserState
<1>2. LeavesAlone(s, t) /\ LeavesAlone(s, u) /\ LeavesAlone(s, ToPty(s, c))
  BY StateSame, ToPtySame
<1>. HIDE DEF t, u
<1>3. LeavesAlone(s, ToPty(t, c))
  BY <1>1, <1>2, SameMore, ToPtySame
<1>. QED  BY <1>2, <1>3, Zenon DEF ReceiveData, t, u

LEMMA ReceiveAfterCrSame ==
    ASSUME NEW s \in ServerState, NEW c \in InCode
    PROVE  LeavesAlone(s, ReceiveAfterCr(s, c))
<1>. DEFINE t == [s EXCEPT !.state = "data"]
<1>1. t \in ServerState
  BY StateKeeps DEF Keeps, ParserState
<1>2. LeavesAlone(s, t)
  BY StateSame
<1>. HIDE DEF t
<1>3. LeavesAlone(s, ReceiveData(t, c))
  BY <1>1, <1>2, SameMore, ReceiveDataSame
<1>. QED  BY <1>2, <1>3 DEF ReceiveAfterCr, t

LEMMA ReceiveCommandSame ==
    ASSUME NEW s \in ServerState, NEW c \in InCode, NEW pending \in BOOLEAN
    PROVE  LeavesAlone(s, ReceiveCommand(s, c, pending))
<1>. DEFINE t == [s EXCEPT !.state = "data"]
            sb == [s EXCEPT !.state = "sb", !.sub = << >>]
            will == [s EXCEPT !.state = "WILL"]
            dm == [t EXCEPT !.SYNCHing = pending]
            p == ToPty(t, c)
<1>1. t \in ServerState
  BY StateKeeps DEF Keeps, ParserState
<1>2. LeavesAlone(s, t) /\ LeavesAlone(s, will)
  BY StateSame
<1>3. LeavesAlone(s, sb)
  BY DEF LeavesAlone, SameOutput, ServerState
<1>. HIDE DEF t, sb, will
<1>4. LeavesAlone(s, dm)
  <2>1. LeavesAlone(t, dm)
    BY <1>1 DEF LeavesAlone, SameOutput, ServerState
  <2>. QED  BY <1>2, <2>1, SameMore
<1>5. p \in ServerState
  <2>1. Keeps(t, t)
    BY <1>1 DEF Keeps
  <2>. QED  BY <1>1, <2>1, ToPtyGrows DEF Grows
<1>6. LeavesAlone(s, p)
  BY <1>1, <1>2, ToPtySame, SameMore
<1>. HIDE DEF p, dm
<1>7. LeavesAlone(s, Done(p, <<c>>)) /\ LeavesAlone(s, Done(t, <<c>>))
  BY <1>1, <1>2, <1>5, <1>6, DoneSame, SameMore
<1>. QED  BY <1>2, <1>3, <1>4, <1>6, <1>7, Zenon DEF ReceiveCommand, t, sb, will, dm, p

LEMMA SuboptionSame ==
    ASSUME NEW s \in ServerState, NEW c
    PROVE  LeavesAlone(s, Suboption(s, c))
<1>. DEFINE all == Accumulate(s.sub, <<"IAC", c>>)
            t == [s EXCEPT !.sub = << >>]
            command == <<"SB">> \o SubSeq(all, 1, Len(all) - 2)
<1>1. t \in ServerState /\ LeavesAlone(s, t)
  BY EmptyType DEF LeavesAlone, SameOutput, ServerState
<1>. HIDE DEF t, command
<1>2. LeavesAlone(s, Done(t, command))
  BY <1>1, DoneSame, SameMore
<1>. QED  BY <1>2 DEF Suboption, t, command

LEMMA ReceiveSubEndSame ==
    ASSUME NEW s \in ServerState, NEW c \in InCode, NEW pending \in BOOLEAN
    PROVE  LeavesAlone(s, ReceiveSubEnd(s, c, pending))
<1>. DEFINE sb == [s EXCEPT !.state = "sb", !.sub = Accumulate(@, <<c>>)]
            t == [s EXCEPT !.state = "data"]
            u == Suboption(s, c)
<1>1. LeavesAlone(s, sb)
  BY DEF LeavesAlone, SameOutput, ServerState
<1>2. t \in ServerState /\ LeavesAlone(s, t)
  BY StateKeeps, StateSame DEF Keeps, ParserState
<1>3. u \in ServerState /\ LeavesAlone(s, u)
  BY SuboptionKeeps, SuboptionSame DEF Keeps
<1>. HIDE DEF sb, t, u
<1>4. LeavesAlone(s, Suboption(t, c)) /\ LeavesAlone(s, ReceiveCommand(u, c, pending))
  BY <1>2, <1>3, SuboptionSame, ReceiveCommandSame, SameMore
<1>. QED  BY <1>1, <1>4, Zenon DEF ReceiveSubEnd, sb, t, u

LEMMA ReceivedSame ==
    ASSUME NEW s \in ServerState, s.netibuf # << >>, NEW pending \in BOOLEAN
    PROVE  LeavesAlone(s, Received(s, pending))
<1>. DEFINE c == Head(s.netibuf)
            t == [s EXCEPT !.netibuf = Tail(@)]
            data == [t EXCEPT !.state = "data"]
            se == [t EXCEPT !.state = "se"]
            sub == [t EXCEPT !.sub = Accumulate(@, <<c>>)]
            rest == Tail(s.netibuf)
<1>1. c \in InCode /\ rest \in Seq(InCode)
  <2>1. s.netibuf \in Seq(InCode)
    BY DEF ServerState
  <2>. QED  BY <2>1, HeadType
<1>2. t \in ServerState /\ t.state = s.state /\ LeavesAlone(s, t)
  <2>. HIDE DEF rest
  <2>1. t = [s EXCEPT !.netibuf = rest]
    BY DEF rest
  <2>2. /\ [s EXCEPT !.netibuf = rest] \in ServerState
        /\ [s EXCEPT !.netibuf = rest].state = s.state
        /\ LeavesAlone(s, [s EXCEPT !.netibuf = rest])
    BY <1>1 DEF LeavesAlone, SameOutput, ServerState
  <2>. QED  BY <2>1, <2>2
<1>. HIDE DEF c, t
<1>3. data \in ServerState /\ LeavesAlone(t, data) /\ LeavesAlone(t, se)
  BY <1>2, StateKeeps, StateSame DEF Keeps, ParserState
<1>4. LeavesAlone(t, sub)
  BY <1>2 DEF LeavesAlone, SameOutput, ServerState
<1>. HIDE DEF data, se, sub
<1>5. LeavesAlone(t, Done(data, <<"WILL", c>>))
  BY <1>3, DoneSame, SameMore
<1>6. /\ LeavesAlone(t, ReceiveData(t, c)) /\ LeavesAlone(t, ReceiveAfterCr(t, c))
      /\ LeavesAlone(t, ReceiveCommand(t, c, pending)) /\ LeavesAlone(t, ReceiveSubEnd(t, c, pending))
  BY <1>1, <1>2, ReceiveDataSame, ReceiveAfterCrSame, ReceiveCommandSame, ReceiveSubEndSame
<1>7. s.state \in ParserState
  BY DEF ServerState
<1>8. LeavesAlone(t, Received(s, pending))
  BY <1>3, <1>4, <1>5, <1>6, <1>7 DEF Received, ParserState, c, t, data, se, sub
<1>. QED  BY <1>2, <1>8, SameMore

LEMMA PtyFlushedSame ==
    ASSUME NEW s \in ServerState, NEW k
    PROVE  LeavesAlone(s, PtyFlushed(s, k))
BY DEF LeavesAlone, SameOutput, PtyFlushed, ServerState

-----------------------------------------------------------------------------
(* The invariant of OutputDecodes: whatever is written next, the client    *)
(* reads what is due so far, and that is c.                                *)

Reads(data, c, binary) ==
    \A t \in Seq(Octet) : Decoded(data \o t, binary) = c \o Decoded(t, binary)

Legible ==
    /\ server.pc = "readpty" => server.ptyibuf = << >>
    /\ server.ptyibuf \in Seq(Code \ {"yes"})
    /\ ~server.cleared =>
         /\ due \in Seq(Octet)
         /\ \E c \in Seq(Code) : /\ c \o server.ptyibuf = server.shown
                                 /\ Reads(FromPty(due), c, server.binary)

\* Only octets that are not the pty's are written, if any.
Silently(t) == t \in Seq(Octet) /\ FromPty(t) = << >> /\ due' = due \o t

LEMMA SilentlySame ==
    ASSUME due \in Seq(Octet), NEW t, Silently(t)
    PROVE  due' \in Seq(Octet) /\ FromPty(due') = FromPty(due)
<1>1. FromPty(due') = FromPty(due) \o << >> /\ due' \in Seq(Octet)
  BY FromPtyJoin, JoinedSeq DEF Silently
<1>. DEFINE f == FromPty(due)
<1>2. f \in Seq(Octet)
  BY FromPtyType
<1>. HIDE DEF f
<1>3. f \o << >> = f
  BY <1>2
<1>. QED  BY <1>1, <1>3 DEF f

LEMMA InputLegible ==
    ASSUME Legible, SameOutput(server, server'),
           server'.pc = "readpty" => server.ptyibuf = << >>,
           due' = due \/ \E t : Silently(t)
    PROVE  Legible'
<1>1. due \in Seq(Octet) => due' \in Seq(Octet) /\ FromPty(due') = FromPty(due)
  BY SilentlySame
<1>. QED  BY <1>1 DEF Legible, SameOutput

LEMMA ClearedLegible ==
    ASSUME server'.pc # "readpty", server'.ptyibuf \in Seq(Code \ {"yes"}), server'.cleared
    PROVE  Legible'
BY DEF Legible

LEMMA InitLegible == Init => Legible
<1>. SUFFICES ASSUME Init PROVE Legible
  OBVIOUS
<1>1. /\ server.pc # "readpty" /\ server.ptyibuf = << >> /\ server.shown = << >>
      /\ server.binary \in BOOLEAN /\ due = << >>
  <2>1. PICK pc \in {"ttloop", "loop"}, binary \in BOOLEAN : server = ServerInit(pc, binary)
    BY DEF Init
  <2>2. due = << >>
    BY DEF Init
  <2>. QED  BY <2>1, <2>2 DEF ServerInit
<1>2. << >> \in Seq(Octet) /\ << >> \in Seq(Code) /\ << >> \in Seq(Code \ {"yes"})
  OBVIOUS
<1>3. FromPty(due) = << >>
  <2>1. Len(due) = 0 /\ due \in Seq(Octet)
    BY <1>1, <1>2
  <2>2. None(due)
    BY <2>1 DEF None
  <2>. QED  BY <2>1, <2>2, FromPtyNone
<1>4. Reads(FromPty(due), << >>, server.binary)
  <2>. SUFFICES ASSUME NEW t \in Seq(Octet)
                PROVE  Decoded(<< >> \o t, server.binary) = << >> \o Decoded(t, server.binary)
    BY <1>3 DEF Reads
  <2>. DEFINE d == Decoded(t, server.binary)
  <2>1. << >> \o t = t
    OBVIOUS
  <2>2. d \in Seq(Code)
    BY <1>1, DecodedType
  <2>. HIDE DEF d
  <2>3. << >> \o d = d
    BY <2>2
  <2>. QED  BY <2>1, <2>3 DEF d
<1>5. << >> \o server.ptyibuf = server.shown
  BY <1>1
<1>. QED  BY <1>1, <1>2, <1>4, <1>5 DEF Legible

\* The program's own steps, but for those that write the pty's characters.
LEMMA QuietLegible ==
    ASSUME IndInv, Legible,
           \/ \E unit \in Unit : ClientWrites(unit)
           \/ \E packet \in Packet : PtyHas(packet)
           \/ Ttloop \/ TtloopAgain \/ TtloopEnds \/ MainLoop \/ NetFlush \/ PtyFlush
           \/ Eof \/ Sigchld
    PROVE  Legible'
<1>0. server \in ServerState /\ stream \in Seq(InCode)
  BY DEF IndInv, TypeOK
<1>1. due' = due
  BY DEF ClientWrites, PtyHas, Ttloop, TtloopAgain, TtloopEnds, MainLoop, NetFlush, PtyFlush, Eof,
         Sigchld, Ended
<1>2. CASE (\E unit \in Unit : ClientWrites(unit)) \/ (\E packet \in Packet : PtyHas(packet))
  <2>1. server' = server
    BY <1>2 DEF ClientWrites, PtyHas
  <2>. QED  BY <1>1, <2>1, InputLegible DEF SameOutput, Legible
<1>3. CASE Ttloop
  <2>1. server'.pc # "readpty" /\ SameOutput(server, server')
    <3>1. CASE urgent = 1
      <4>1. server' = [server EXCEPT !.skewed = TRUE] /\ server.pc = "ttloop"
        BY <1>3, <3>1 DEF Ttloop, Running
      <4>. QED  BY <1>0, <4>1 DEF SameOutput, ServerState
    <3>2. CASE urgent # 1
      <4>1. PICK k : server' = [NetRead(server, k) EXCEPT !.pc = "first"]
        BY <1>3, <3>2 DEF Ttloop
      <4>. QED  BY <1>0, <4>1 DEF SameOutput, NetRead, ServerState
    <3>. QED  BY <3>1, <3>2
  <2>. QED  BY <1>1, <2>1, InputLegible
<1>4. CASE TtloopAgain
  <2>1. server'.pc # "readpty" /\ SameOutput(server, server')
    BY <1>0, <1>4 DEF TtloopAgain, SameOutput, ServerState
  <2>. QED  BY <1>1, <2>1, InputLegible
<1>5. CASE TtloopEnds \/ MainLoop \/ NetFlush
  <2>1. server'.pc # "readpty" /\ SameOutput(server, server')
    BY <1>0, <1>5 DEF TtloopEnds, MainLoop, NetFlush, SameOutput, ServerState
  <2>. QED  BY <1>1, <2>1, InputLegible
<1>6. CASE PtyFlush
  <2>1. server'.pc # "readpty" /\ SameOutput(server, server')
    <3>1. PICK k : server' = [(IF k = 0 THEN server ELSE PtyFlushed(server, k)) EXCEPT !.pc = "loop"]
      BY <1>6 DEF PtyFlush
    <3>2. SameOutput(server, server)
      BY DEF SameOutput
    <3>3. DOMAIN PtyFlushed(server, k) = DOMAIN server
      BY DEF PtyFlushed
    <3>4. SameOutput(server, PtyFlushed(server, k))
      BY <1>0, PtyFlushedSame DEF LeavesAlone
    <3>. DEFINE u == IF k = 0 THEN server ELSE PtyFlushed(server, k)
    <3>5. SameOutput(server, u) /\ DOMAIN u = DOMAIN server /\ server' = [u EXCEPT !.pc = "loop"]
      BY <3>1, <3>2, <3>3, <3>4
    <3>. HIDE DEF u
    <3>. QED  BY <1>0, <3>5 DEF SameOutput, ServerState
  <2>. QED  BY <1>1, <2>1, InputLegible
<1>7. CASE Eof \/ Sigchld
  <2>1. server'.pc # "readpty" /\ SameOutput(server, server')
    BY <1>0, <1>7 DEF Eof, Sigchld, Ended, SameOutput, ServerState
  <2>. QED  BY <1>1, <2>1, InputLegible
<1>. QED  BY <1>2, <1>3, <1>4, <1>5, <1>6, <1>7

\* The pty is read only when nothing of it is left.
LEMMA RoundLegible ==
    ASSUME IndInv, Legible, Round
    PROVE  Legible'
<1>0. server \in ServerState /\ due' = due
  BY DEF IndInv, TypeOK, Round
<1>1. PICK o, ready, k :
         /\ ready \subseteq Watched(server, o.net)
         /\ LET s == IF "netr" \in ready THEN NetRead(server, k) ELSE server
            IN  server' = [s EXCEPT !.ready = ready, !.SYNCHing = @ \/ "exc" \in ready,
                                    !.pc = IF ready = {} THEN "loop"
                                           ELSE IF "ptyr" \in ready THEN "readpty"
                                           ELSE "data"]
  BY DEF Round
<1>. DEFINE s == IF "netr" \in ready THEN NetRead(server, k) ELSE server
            pc == IF ready = {} THEN "loop" ELSE IF "ptyr" \in ready THEN "readpty" ELSE "data"
            synching == s.SYNCHing \/ "exc" \in ready
<1>2. server' = [s EXCEPT !.ready = ready, !.SYNCHing = synching, !.pc = pc]
  BY <1>1
<1>3. pc = "readpty" => server.ptyibuf = << >>
  <2>1. "ptyr" \in Watched(server, o.net) => server.ptyibuf = << >>
    BY DEF Watched
  <2>. QED  BY <1>1, <2>1
<1>4. SameOutput(server, s) /\ DOMAIN s = DOMAIN server
  <2>1. SameOutput(server, NetRead(server, k)) /\ DOMAIN NetRead(server, k) = DOMAIN server
    BY <1>0 DEF SameOutput, NetRead, ServerState
  <2>. QED  BY <2>1 DEF SameOutput
<1>. HIDE DEF s, pc, synching
<1>5. SameOutput(server, server') /\ server'.pc = pc
  BY <1>0, <1>2, <1>4 DEF SameOutput, ServerState
<1>. QED  BY <1>0, <1>3, <1>5, InputLegible

\* A packet: its characters are to be shown, and none was left to show.
LEMMA ReadPtyLegible ==
    ASSUME IndInv, Legible, ReadPty
    PROVE  Legible'
<1>. DEFINE packet == Head(packets)
            text == packet.text
            shown == server.shown \o text
            s == [server EXCEPT !.pc = "data", !.ptyibuf = text, !.shown = shown]
<1>1. /\ server \in ServerState /\ server.pc = "readpty" /\ packets # << >>
      /\ server.ptyibuf = << >>
  BY DEF IndInv, TypeOK, ReadPty, Running, Legible
<1>2. packet \in Packet
  <2>1. packets \in Seq(Packet)
    BY DEF IndInv, TypeOK
  <2>. QED  BY <1>1, <2>1, HeadType
<1>3. text \in Seq(Code \ {"yes"}) /\ packet.event \in {"data", "flushwrite", "dostop"}
  <2>. HIDE DEF packet
  <2>. QED  BY <1>2, PacketAssumption
<1>4. /\ s.pc = "data" /\ s.ptyibuf = text /\ s.shown = shown
      /\ s.binary = server.binary /\ s.cleared = server.cleared
  <2>. HIDE DEF text, shown
  <2>. QED  BY <1>1 DEF ServerState
<1>5. \/ server' = s /\ (due' = due \/ Silently(LflowStop))
      \/ server' = [s EXCEPT !.cleared = TRUE]
  <2>1. CASE packet.event = "data"
    BY <2>1 DEF ReadPty
  <2>2. CASE packet.event = "dostop"
    <3>1. server' = s /\ due' = due \o LflowStop
      BY <2>2 DEF ReadPty
    <3>. QED  BY <3>1, StopType, StopSilent DEF Silently
  <2>3. CASE packet.event = "flushwrite"
    BY <2>3 DEF ReadPty
  <2>. HIDE DEF packet, s
  <2>. QED  BY <1>3, <2>1, <2>2, <2>3
<1>6. CASE server' = [s EXCEPT !.cleared = TRUE]
  <2>1. DOMAIN s = DOMAIN server
    OBVIOUS
  <2>. HIDE DEF s
  <2>2. server'.pc = "data" /\ server'.ptyibuf = text /\ server'.cleared
    BY <1>1, <1>4, <1>6, <2>1 DEF ServerState
  <2>. QED  BY <1>3, <2>2, ClearedLegible
<1>7. CASE server' = s /\ (due' = due \/ Silently(LflowStop))
  <2>. HIDE DEF text, s, packet
  <2>1. server'.pc # "readpty" /\ server'.ptyibuf \in Seq(Code \ {"yes"})
    BY <1>3, <1>4, <1>7
  <2>2. ASSUME ~server'.cleared
        PROVE  /\ due' \in Seq(Octet)
               /\ \E c \in Seq(Code) : /\ c \o server'.ptyibuf = server'.shown
                                       /\ Reads(FromPty(due'), c, server'.binary)
    <3>1. due \in Seq(Octet)
      BY <1>4, <1>7, <2>2 DEF Legible
    <3>2. PICK c \in Seq(Code) : c \o << >> = server.shown /\ Reads(FromPty(due), c, server.binary)
      BY <1>1, <1>4, <1>7, <2>2 DEF Legible
    <3>3. c \o << >> = c
      OBVIOUS
    <3>4. due' \in Seq(Octet) /\ FromPty(due') = FromPty(due)
      BY <1>7, <3>1, SilentlySame
    <3>5. c \o server'.ptyibuf = server'.shown
      BY <1>4, <1>7, <3>2, <3>3
    <3>. QED  BY <1>4, <1>7, <3>2, <3>4, <3>5
  <2>. QED  BY <2>1, <2>2 DEF Legible
<1>. QED  BY <1>5, <1>6, <1>7

\* A turn of the loop over the pty's characters.
LEMMA PutCharLegible ==
    ASSUME IndInv, Legible, PutChar
    PROVE  Legible'
<1>. DEFINE cs == server.ptyibuf
            r == Taken(cs, server.binary)
            q == Drop(cs, r.n)
            p == Data(r.octets)
            Text == Code \ {"yes"}
<1>1. /\ server \in ServerState /\ server.pc = "data" /\ cs # << >> /\ cs \in Seq(Text)
      /\ server.binary \in BOOLEAN
      /\ server' = [server EXCEPT !.ptyibuf = q] /\ due' = due \o p
  BY DEF IndInv, TypeOK, PutChar, Running, Legible, ServerState
<1>2. Says(p, cs, r.n, server.binary)
  BY <1>1, TakenSays
<1>. HIDE DEF r, p
<1>3. r.n \in 0 .. Len(cs)
  BY <1>2 DEF Says
<1>. DEFINE a == SubSeq(cs, 1, r.n)
<1>4. a \in Seq(Text) /\ q \in Seq(Text) /\ a \o q = cs
  <2>. DEFINE n == r.n
  <2>1. cs \in Seq(Text) /\ n \in 0 .. Len(cs)
    BY <1>1, <1>3
  <2>. HIDE DEF cs, n, Text
  <2>2. /\ SubSeq(cs, 1, n) \in Seq(Text) /\ SubSeq(cs, n + 1, Len(cs)) \in Seq(Text)
        /\ SubSeq(cs, 1, n) \o SubSeq(cs, n + 1, Len(cs)) = cs
    BY <2>1, Rejoined
  <2>. QED  BY <2>2 DEF Drop, n
<1>5. /\ p \in Seq(Octet) /\ FromPty(p) = p
      /\ \A s \in Seq(Octet) :
           Decoded(p \o s, server.binary) = a \o Decoded(s, server.binary)
  BY <1>2 DEF Says
<1>. HIDE DEF q, a, cs
<1>6. /\ server'.ptyibuf = q /\ server'.binary = server.binary /\ server'.shown = server.shown
      /\ server'.cleared = server.cleared /\ server'.pc = "data"
  BY <1>1 DEF ServerState
<1>7. ASSUME ~server'.cleared
      PROVE  /\ due' \in Seq(Octet)
             /\ \E c \in Seq(Code) : /\ c \o server'.ptyibuf = server'.shown
                                     /\ Reads(FromPty(due'), c, server'.binary)
  <2>1. due \in Seq(Octet)
    BY <1>6, <1>7 DEF Legible
  <2>2. PICK c \in Seq(Code) : c \o cs = server.shown /\ Reads(FromPty(due), c, server.binary)
    BY <1>6, <1>7 DEF Legible, cs
  <2>. DEFINE f == FromPty(due)
              e == c \o a
  <2>3. due' \in Seq(Octet) /\ FromPty(due') = f \o p /\ f \in Seq(Octet)
    BY <1>1, <1>5, <2>1, FromPtyJoin, FromPtyType, JoinedSeq
  <2>4. a \in Seq(Code) /\ q \in Seq(Code)
    BY <1>4
  <2>5. e \in Seq(Code) /\ e \o q = server.shown
    <3>1. (c \o a) \o q = c \o (a \o q)
      BY <2>4, Associative
    <3>. QED  BY <1>4, <2>2, <2>4, <3>1, JoinedSeq
  <2>. HIDE DEF f
  <2>6. Reads(f \o p, e, server.binary)
    <3>. SUFFICES ASSUME NEW t \in Seq(Octet)
                  PROVE  Decoded((f \o p) \o t, server.binary) = e \o Decoded(t, server.binary)
      BY DEF Reads
    <3>. DEFINE d == Decoded(t, server.binary)
    <3>1. (f \o p) \o t = f \o (p \o t)
      BY <1>5, <2>3, OctetsAssociative
    <3>2. p \o t \in Seq(Octet)
      BY <1>5, JoinedSeq
    <3>3. Decoded(f \o (p \o t), server.binary) = c \o Decoded(p \o t, server.binary)
      BY <2>2, <3>2 DEF Reads, f
    <3>4. Decoded(p \o t, server.binary) = a \o d
      BY <1>5
    <3>5. d \in Seq(Code)
      BY <1>1, DecodedType
    <3>. HIDE DEF d
    <3>6. c \o (a \o d) = (c \o a) \o d
      BY <2>4, <3>5, Associative
    <3>. QED  BY <3>1, <3>3, <3>4, <3>6 DEF d
  <2>. HIDE DEF e
  <2>. QED  BY <1>6, <2>3, <2>5, <2>6
<1>. QED  BY <1>4, <1>6, <1>7 DEF Legible

\* An octet of input: answers to commands are not the pty's.
LEMMA TelrcvLegible ==
    ASSUME IndInv, Legible, Telrcv
    PROVE  Legible'
<1>1. /\ CanReceive(server) /\ server.pc \in {"telrcv", "first", "again"}
      /\ server \in ServerState /\ Sound(server) /\ server.netibuf # << >>
  BY DEF IndInv, TypeOK, Telrcv, Running, CanReceive
<1>. DEFINE reply(s) == Reply(s.done, Len(server.done))
            aborted(s) == Len(s.done) > Len(server.done) /\ Last(s.done) = <<"AO">>
            Writes(s) == /\ server' = [s EXCEPT !.cleared = @ \/ aborted(s)]
                         /\ aborted(s) \/ due' = due \o reply(s)
<1>2. PICK k \in IF Flushing(server) THEN 0 .. Len(server.ptyobuf) ELSE {0} :
        \E s \in {Received(PtyFlushed(server, k), urgent # 0)} : Writes(s)
  BY ZenonT(60) DEF Telrcv
<1>. DEFINE u == PtyFlushed(server, k)
            s == Received(u, urgent # 0)
<1>3. Writes(s)
  BY <1>2
<1>4. k \in 0 .. Len(server.ptyobuf)
  <2>1. server.ptyobuf \in Seq(InCode)
    BY <1>1 DEF ServerState
  <2>. QED  BY <1>2, <2>1
<1>5. /\ u \in ServerState /\ u.netibuf # << >> /\ u.pc = server.pc
      /\ LeavesAlone(server, u)
  BY <1>1, <1>4, PtyFlushedSound, PtyFlushedSame DEF Sound
<1>6. s \in ServerState /\ s.pc = server.pc /\ SameOutput(server, s)
  <2>. HIDE DEF u
  <2>1. Grows(u, s) /\ LeavesAlone(u, s)
    BY <1>5, ReceivedGrows, ReceivedSame
  <2>. QED  BY <1>5, <2>1, SameMore DEF Grows, LeavesAlone
<1>. HIDE DEF s
<1>7. FromPty(reply(s)) = << >> /\ reply(s) \in Seq(Octet)
  <2>1. s.done \in Seq(Seq(InCode)) /\ server.done \in Seq(Seq(InCode))
    BY <1>1, <1>6 DEF ServerState
  <2>. DEFINE S == Seq(InCode)
              d == server.done
  <2>2. Len(d) \in Nat
    <3>1. d \in Seq(S)
      BY <2>1
    <3>. HIDE DEF S, d
    <3>. QED  BY <3>1
  <2>. QED  BY <2>1, <2>2, ReplyType, ReplySilent
<1>. HIDE DEF reply, aborted
<1>8. CASE aborted(s)
  <2>1. server' = [s EXCEPT !.cleared = TRUE]
    BY <1>3, <1>8
  <2>2. server'.pc # "readpty" /\ server'.ptyibuf = server.ptyibuf /\ server'.cleared
    BY <1>1, <1>6, <2>1 DEF SameOutput, ServerState
  <2>. QED  BY <2>2, ClearedLegible DEF Legible
<1>9. CASE ~aborted(s)
  <2>1. server' = [s EXCEPT !.cleared = s.cleared] /\ s.cleared \in BOOLEAN
    BY <1>3, <1>6, <1>9 DEF ServerState
  <2>2. SameOutput(server, server') /\ server'.pc # "readpty"
    BY <1>1, <1>6, <2>1 DEF SameOutput, ServerState
  <2>3. Silently(reply(s))
    BY <1>3, <1>7, <1>9 DEF Silently
  <2>. QED  BY <2>2, <2>3, InputLegible
<1>. QED  BY <1>8, <1>9

LEMMA LegibleInductive == Init /\ [][Next]_vars => []Legible
<1>1. ASSUME IndInv, Legible, [Next]_vars PROVE Legible'
  <2>1. CASE UNCHANGED vars
    BY <1>1, <2>1 DEF vars, Legible
  <2>2. CASE Next
    BY <1>1, <2>2, QuietLegible, RoundLegible, ReadPtyLegible, PutCharLegible, TelrcvLegible DEF Next
  <2>. QED  BY <1>1, <2>1, <2>2
<1>. QED  BY InitLegible, Inductive, <1>1, PTL

LEMMA LegibleDecodes ==
    ASSUME IndInv, Legible
    PROVE  OutputDecodes
<1>. SUFFICES ASSUME ~server.cleared
              PROVE  Decoded(FromPty(due), server.binary) \o server.ptyibuf = server.shown
  BY DEF OutputDecodes
<1>1. due \in Seq(Octet) /\ server.binary \in BOOLEAN
  BY DEF Legible, IndInv, TypeOK, ServerState
<1>2. PICK c \in Seq(Code) : /\ c \o server.ptyibuf = server.shown
                             /\ Reads(FromPty(due), c, server.binary)
  BY DEF Legible
<1>. DEFINE f == FromPty(due)
<1>3. f \in Seq(Octet) /\ << >> \in Seq(Octet)
  BY <1>1, FromPtyType
<1>4. Decoded(f \o << >>, server.binary) = c \o Decoded(<< >>, server.binary)
  BY <1>2, <1>3 DEF Reads
<1>5. Decoded(<< >>, server.binary) = << >>
  BY <1>1, DecodedEmpty
<1>. HIDE DEF f
<1>6. f \o << >> = f /\ c \o << >> = c
  BY <1>3
<1>. QED  BY <1>2, <1>4, <1>5, <1>6 DEF f

-----------------------------------------------------------------------------
(* What the client means, as a run through its octets.                     *)

\* The reader of the client's octets, for the fold over them.
Reader(binary) == [p \in Meaning \X InCode |-> MeansNext(p[1], p[2], binary)]

\* A character typed, and a command asked for, leave a meaning; so does each octet.
LEMMA GivesType ==
    ASSUME NEW m \in Meaning, NEW c \in InCode
    PROVE  Gives(m, c) \in Meaning
<1>. DEFINE q == Append(m.text, c)
<1>1. q \in Seq(InCode)
  BY DEF Meaning
<1>. HIDE DEF q
<1>2. Gives(m, c) = [m EXCEPT !.text = q]
  BY DEF Gives, q
<1>. QED  BY <1>1, <1>2 DEF Meaning

LEMMA AsksType ==
    ASSUME NEW m \in Meaning, NEW command \in Seq(InCode)
    PROVE  Asks(m, command) \in Meaning
<1>. DEFINE q == Append(m.commands, command)
<1>1. q \in Seq(Seq(InCode))
  <2>1. m.commands \in Seq(Seq(InCode))
    BY DEF Meaning
  <2>. QED  BY <2>1, AppendType
<1>. HIDE DEF q
<1>2. Asks(m, command) = [m EXCEPT !.commands = q]
  BY DEF Asks, q
<1>. QED  BY <1>1, <1>2 DEF Meaning

LEMMA InType ==
    ASSUME NEW m \in Meaning, NEW state \in ParserState
    PROVE  In(m, state) \in Meaning /\ In(m, state).sub = m.sub
BY DEF In, Meaning

LEMMA SubType ==
    ASSUME NEW m \in Meaning, NEW sub \in Seq(InCode)
    PROVE  [m EXCEPT !.sub = sub] \in Meaning
BY DEF Meaning

LEMMA CharacterMeansType ==
    ASSUME NEW m \in Meaning, NEW c \in InCode, NEW binary
    PROVE  CharacterMeans(m, c, binary) \in Meaning
<1>1. \A s \in ParserState : In(m, s) \in Meaning /\ Gives(In(m, s), c) \in Meaning
  BY InType, GivesType
<1>. QED  BY <1>1 DEF CharacterMeans, ParserState

LEMMA CommandMeansType ==
    ASSUME NEW m \in Meaning, NEW c \in InCode
    PROVE  CommandMeans(m, c) \in Meaning
<1>0. <<c>> \in Seq(InCode) /\ << >> \in Seq(InCode)
  BY ShortCodes, EmptyType
<1>1. \A s \in ParserState : In(m, s) \in Meaning /\ Gives(In(m, s), c) \in Meaning
  BY InType, GivesType
<1>2. \A s \in ParserState : /\ Asks(Gives(In(m, s), c), <<c>>) \in Meaning
                             /\ Asks(In(m, s), <<c>>) \in Meaning
                             /\ [In(m, s) EXCEPT !.sub = << >>] \in Meaning
  BY <1>0, <1>1, AsksType, SubType
<1>. QED  BY <1>1, <1>2 DEF CommandMeans, ParserState

LEMMA SuboptionMeansType ==
    ASSUME NEW m \in Meaning
    PROVE  SuboptionMeans(m) \in Meaning
<1>. DEFINE command == <<"SB">> \o m.sub
            t == [m EXCEPT !.sub = << >>]
<1>1. t \in Meaning
  BY EmptyType, SubType
<1>2. command \in Seq(InCode)
  <2>1. <<"SB">> \in Seq(InCode) /\ m.sub \in Seq(InCode)
    BY ShortCodes DEF InCode, Meaning
  <2>. QED  BY <2>1, JoinedSeq
<1>. HIDE DEF t, command
<1>3. Asks(t, command) \in Meaning
  BY <1>1, <1>2, AsksType
<1>. QED  BY <1>3 DEF SuboptionMeans, t, command

LEMMA MeansNextType ==
    ASSUME NEW m \in Meaning, NEW c \in InCode, NEW binary
    PROVE  MeansNext(m, c, binary) \in Meaning
<1>1. /\ CharacterMeans(m, c, binary) \in Meaning /\ CommandMeans(m, c) \in Meaning
      /\ SuboptionMeans(m) \in Meaning
  BY CharacterMeansType, CommandMeansType, SuboptionMeansType
<1>2. \A s \in ParserState : In(m, s) \in Meaning /\ In(SuboptionMeans(m), s) \in Meaning
  BY <1>1, InType
<1>3. CommandMeans(SuboptionMeans(m), c) \in Meaning
  BY <1>1, CommandMeansType
<1>4. \A s \in ParserState : Asks(In(m, s), <<"WILL", c>>) \in Meaning
  <2>1. <<"WILL", c>> \in Seq(InCode)
    BY ShortCodes DEF InCode
  <2>. QED  BY <1>2, <2>1, AsksType
<1>5. [m EXCEPT !.sub = Append(@, c)] \in Meaning /\ [In(m, "sb") EXCEPT !.sub = Append(@, c)] \in Meaning
  <2>. DEFINE q == Append(m.sub, c)
              t == In(m, "sb")
  <2>1. q \in Seq(InCode) /\ t \in Meaning /\ t.sub = m.sub
    <3>1. m.sub \in Seq(InCode) /\ "sb" \in ParserState
      BY DEF Meaning, ParserState
    <3>. QED  BY <3>1, AppendType, InType
  <2>2. [m EXCEPT !.sub = q] \in Meaning
    BY <2>1, SubType
  <2>. HIDE DEF t
  <2>3. [t EXCEPT !.sub = q] \in Meaning
    BY <2>1, SubType
  <2>. QED  BY <2>1, <2>2, <2>3 DEF t
<1>6. m.state \in ParserState
  BY DEF Meaning
<1>. QED  BY <1>1, <1>2, <1>3, <1>4, <1>5, <1>6 DEF MeansNext, ParserState

LEMMA ReaderIsStep ==
    ASSUME NEW binary
    PROVE  /\ IsStep(Reader(binary), Meaning, InCode)
           /\ \A m \in Meaning : \A c \in InCode : Reader(binary)[<<m, c>>] = MeansNext(m, c, binary)
<1>1. \A m \in Meaning : \A c \in InCode : MeansNext(m, c, binary) \in Meaning
  BY MeansNextType
<1>. QED  BY <1>1 DEF Reader, IsStep

LEMMA NoMeaningType == NoMeaning \in Meaning
BY EmptyType DEF NoMeaning, Meaning, ParserState

\* Meant is the run of the reader over the octets.
LEMMA MeantIsFold ==
    ASSUME NEW octets \in Seq(InCode), NEW binary
    PROVE  Meant(octets, binary) = Fold(Reader(binary), NoMeaning, octets)
<1>. DEFINE f == Reader(binary)
            n == Len(octets)
            Step(g) == g = [i \in 0 .. Len(octets) |->
                               IF i = 0 THEN NoMeaning ELSE MeansNext(g[i - 1], octets[i], binary)]
            m == CHOOSE g : Step(g)
            h == Run(f, NoMeaning, octets)
<1>0. /\ IsStep(f, Meaning, InCode) /\ NoMeaning \in Meaning /\ n \in Nat
      /\ \A x \in Meaning : \A c \in InCode : f[<<x, c>>] = MeansNext(x, c, binary)
      /\ \A i \in 1 .. n : octets[i] \in InCode
  BY ReaderIsStep, NoMeaningType
<1>. HIDE DEF f
<1>1. /\ h \in [0 .. n -> Meaning] /\ h[0] = NoMeaning
      /\ \A i \in 1 .. n : h[i] = f[<<h[i - 1], octets[i]>>]
  BY <1>0, RunIs
<1>. HIDE DEF h
<1>2. \A i \in 1 .. n : h[i] = MeansNext(h[i - 1], octets[i], binary)
  <2>1. \A i \in 1 .. n : i - 1 \in 0 .. n
    BY <1>0
  <2>. QED  BY <1>0, <1>1, <2>1
<1>3. Step(h)
  <2>1. h = [i \in 0 .. n |-> h[i]]
    BY <1>1
  <2>2. \A i \in 0 .. n : h[i] = IF i = 0 THEN NoMeaning ELSE MeansNext(h[i - 1], octets[i], binary)
    BY <1>0, <1>1, <1>2
  <2>. QED  BY <2>1, <2>2
<1>4. Step(m)
  <2>. HIDE DEF Step
  <2>. QED  BY <1>3
<1>5. Meant(octets, binary) = m[n]
  BY DEF Meant
<1>. HIDE DEF m
<1>6. m[0] = NoMeaning /\ \A i \in 1 .. n : m[i] = MeansNext(m[i - 1], octets[i], binary)
  <2>1. /\ \A i \in 1 .. n : i \in 0 .. n /\ i # 0
        /\ 0 \in 0 .. n
    BY <1>0
  <2>. QED  BY <1>4, <2>1
<1>7. m[n] = Fold(f, NoMeaning, octets)
  <2>1. \A i \in 1 .. n : m[i - 1] \in Meaning => m[i] = f[<<m[i - 1], octets[i]>>]
    BY <1>0, <1>6
  <2>. QED  BY <1>0, <1>6, <2>1, RunUnique
<1>. QED  BY <1>5, <1>7 DEF f

-----------------------------------------------------------------------------
(* What a client has said before does not change what it means by the rest. *)

\* n is m with a said before m's text and b before its commands.
Shifted(m, n, a, b) ==
    /\ m \in Meaning /\ n \in Meaning /\ a \in Seq(InCode) /\ b \in Seq(Seq(InCode))
    /\ n.state = m.state /\ n.sub = m.sub
    /\ n.text = a \o m.text /\ n.commands = b \o m.commands

\* What is put behind the second part is put behind the whole.
LEMMA AppendJoin ==
    ASSUME NEW S, NEW a \in Seq(S), NEW s \in Seq(S), NEW c \in S
    PROVE  a \o Append(s, c) = Append(a \o s, c)
OBVIOUS

\* The reader never looks at what it has given: each of its steps keeps the shift.
LEMMA ShiftedIn ==
    ASSUME NEW m, NEW n, NEW a, NEW b, Shifted(m, n, a, b), NEW state \in ParserState
    PROVE  Shifted(In(m, state), In(n, state), a, b)
<1>1. In(m, state) \in Meaning /\ In(n, state) \in Meaning
  BY InType DEF Shifted
<1>. QED  BY <1>1 DEF Shifted, In, Meaning

LEMMA ShiftedGives ==
    ASSUME NEW m, NEW n, NEW a, NEW b, Shifted(m, n, a, b), NEW c \in InCode
    PROVE  Shifted(Gives(m, c), Gives(n, c), a, b)
<1>. DEFINE x == Append(m.text, c)
            y == Append(n.text, c)
<1>0. Gives(m, c) \in Meaning /\ Gives(n, c) \in Meaning
  BY GivesType DEF Shifted
<1>1. y = a \o x
  <2>1. m.text \in Seq(InCode) /\ a \in Seq(InCode) /\ n.text = a \o m.text
    BY DEF Shifted, Meaning
  <2>2. a \o Append(m.text, c) = Append(a \o m.text, c)
    <3>. DEFINE t == m.text
    <3>1. t \in Seq(InCode)
      BY <2>1
    <3>. HIDE DEF t
    <3>2. a \o Append(t, c) = Append(a \o t, c)
      BY <2>1, <3>1, AppendJoin
    <3>. QED  BY <3>2 DEF t
  <2>. QED  BY <2>1, <2>2
<1>2. Gives(m, c) = [m EXCEPT !.text = x] /\ Gives(n, c) = [n EXCEPT !.text = y]
  BY DEF Gives, x, y
<1>. HIDE DEF x, y
<1>. QED  BY <1>0, <1>1, <1>2 DEF Shifted, Meaning

LEMMA ShiftedAsks ==
    ASSUME NEW m, NEW n, NEW a, NEW b, Shifted(m, n, a, b), NEW command \in Seq(InCode)
    PROVE  Shifted(Asks(m, command), Asks(n, command), a, b)
<1>. DEFINE x == Append(m.commands, command)
            y == Append(n.commands, command)
            Words == Seq(InCode)
<1>0. Asks(m, command) \in Meaning /\ Asks(n, command) \in Meaning
  BY AsksType DEF Shifted
<1>1. y = b \o x
  <2>1. m.commands \in Seq(Words) /\ b \in Seq(Words) /\ n.commands = b \o m.commands
    BY DEF Shifted, Meaning
  <2>2. command \in Words
    OBVIOUS
  <2>. HIDE DEF Words
  <2>3. b \o Append(m.commands, command) = Append(b \o m.commands, command)
    <3>. DEFINE t == m.commands
    <3>1. t \in Seq(Words)
      BY <2>1
    <3>. HIDE DEF t
    <3>2. b \o Append(t, command) = Append(b \o t, command)
      BY <2>1, <2>2, <3>1, AppendJoin
    <3>. QED  BY <3>2 DEF t
  <2>. QED  BY <2>1, <2>3
<1>2. Asks(m, command) = [m EXCEPT !.commands = x] /\ Asks(n, command) = [n EXCEPT !.commands = y]
  BY DEF Asks, x, y
<1>. HIDE DEF x, y
<1>. QED  BY <1>0, <1>1, <1>2 DEF Shifted, Meaning

LEMMA ShiftedSub ==
    ASSUME NEW m, NEW n, NEW a, NEW b, Shifted(m, n, a, b), NEW sub \in Seq(InCode)
    PROVE  Shifted([m EXCEPT !.sub = sub], [n EXCEPT !.sub = sub], a, b)
<1>1. [m EXCEPT !.sub = sub] \in Meaning /\ [n EXCEPT !.sub = sub] \in Meaning
  BY SubType DEF Shifted
<1>. QED  BY <1>1 DEF Shifted, Meaning

LEMMA ShiftedCharacter ==
    ASSUME NEW m, NEW n, NEW a, NEW b, Shifted(m, n, a, b), NEW c \in InCode, NEW binary
    PROVE  Shifted(CharacterMeans(m, c, binary), CharacterMeans(n, c, binary), a, b)
<1>1. \A s \in ParserState : Shifted(In(m, s), In(n, s), a, b)
  BY ShiftedIn
<1>2. \A s \in ParserState : Shifted(Gives(In(m, s), c), Gives(In(n, s), c), a, b)
  BY <1>1, ShiftedGives
<1>3. {"iac", "cr", "data"} \subseteq ParserState
  BY DEF ParserState
<1>. QED  BY <1>1, <1>2, <1>3, Zenon DEF CharacterMeans

LEMMA ShiftedCommand ==
    ASSUME NEW m, NEW n, NEW a, NEW b, Shifted(m, n, a, b), NEW c \in InCode
    PROVE  Shifted(CommandMeans(m, c), CommandMeans(n, c), a, b)
<1>0. <<c>> \in Seq(InCode) /\ << >> \in Seq(InCode) /\ {"sb", "data", "WILL"} \subseteq ParserState
  BY ShortCodes, EmptyType DEF ParserState
<1>1. \A s \in ParserState : Shifted(In(m, s), In(n, s), a, b)
  BY ShiftedIn
<1>2. \A s \in ParserState :
        /\ Shifted(Gives(In(m, s), c), Gives(In(n, s), c), a, b)
        /\ Shifted(Asks(In(m, s), <<c>>), Asks(In(n, s), <<c>>), a, b)
        /\ Shifted([In(m, s) EXCEPT !.sub = << >>], [In(n, s) EXCEPT !.sub = << >>], a, b)
  BY <1>0, <1>1, ShiftedGives, ShiftedAsks, ShiftedSub
<1>3. \A s \in ParserState : Shifted(Asks(Gives(In(m, s), c), <<c>>), Asks(Gives(In(n, s), c), <<c>>), a, b)
  BY <1>0, <1>2, ShiftedAsks
<1>. QED  BY <1>0, <1>1, <1>2, <1>3, Zenon DEF CommandMeans

LEMMA ShiftedSuboption ==
    ASSUME NEW m, NEW n, NEW a, NEW b, Shifted(m, n, a, b)
    PROVE  Shifted(SuboptionMeans(m), SuboptionMeans(n), a, b)
<1>. DEFINE command == <<"SB">> \o m.sub
            t == [m EXCEPT !.sub = << >>]
            u == [n EXCEPT !.sub = << >>]
<1>1. Shifted(t, u, a, b) /\ n.sub = m.sub
  <2>1. << >> \in Seq(InCode)
    BY EmptyType
  <2>2. Shifted(t, u, a, b)
    BY <2>1, ShiftedSub, Zenon
  <2>. QED  BY <2>2 DEF Shifted
<1>2. command \in Seq(InCode)
  <2>1. <<"SB">> \in Seq(InCode) /\ m.sub \in Seq(InCode)
    BY ShortCodes DEF InCode, Shifted, Meaning
  <2>. QED  BY <2>1, JoinedSeq
<1>. HIDE DEF t, u, command
<1>3. Shifted(Asks(t, command), Asks(u, command), a, b)
  BY <1>1, <1>2, ShiftedAsks
<1>. QED  BY <1>1, <1>3 DEF SuboptionMeans, t, u, command

LEMMA ShiftedNext ==
    ASSUME NEW m, NEW n, NEW a, NEW b, Shifted(m, n, a, b), NEW c \in InCode, NEW binary
    PROVE  Shifted(MeansNext(m, c, binary), MeansNext(n, c, binary), a, b)
<1>. DEFINE t == SuboptionMeans(m)
            u == SuboptionMeans(n)
            will == <<"WILL", c>>
<1>1. Shifted(t, u, a, b)
  BY ShiftedSuboption
<1>2. /\ Shifted(CharacterMeans(m, c, binary), CharacterMeans(n, c, binary), a, b)
      /\ Shifted(CommandMeans(m, c), CommandMeans(n, c), a, b)
      /\ Shifted(CommandMeans(t, c), CommandMeans(u, c), a, b)
  BY <1>1, ShiftedCharacter, ShiftedCommand
<1>3. /\ Shifted(In(m, "data"), In(n, "data"), a, b) /\ Shifted(In(m, "se"), In(n, "se"), a, b)
      /\ Shifted(In(t, "data"), In(u, "data"), a, b) /\ Shifted(In(m, "sb"), In(n, "sb"), a, b)
  BY <1>1, ShiftedIn DEF ParserState
<1>4. Shifted(Asks(In(m, "data"), will), Asks(In(n, "data"), will), a, b)
  <2>1. will \in Seq(InCode)
    BY ShortCodes DEF InCode
  <2>. HIDE DEF will
  <2>. QED  BY <1>3, <2>1, ShiftedAsks
<1>. HIDE DEF t, u
<1>5. /\ Shifted([m EXCEPT !.sub = Append(@, c)], [n EXCEPT !.sub = Append(@, c)], a, b)
      /\ Shifted([In(m, "sb") EXCEPT !.sub = Append(@, c)], [In(n, "sb") EXCEPT !.sub = Append(@, c)], a, b)
  <2>. DEFINE q == Append(m.sub, c)
              x == In(m, "sb")
              y == In(n, "sb")
  <2>1. q \in Seq(InCode) /\ n.sub = m.sub /\ x.sub = m.sub /\ y.sub = m.sub
    <3>1. m.sub \in Seq(InCode) /\ n.sub = m.sub /\ "sb" \in ParserState /\ m \in Meaning /\ n \in Meaning
      BY DEF Shifted, Meaning, ParserState
    <3>. QED  BY <3>1, AppendType, InType
  <2>. HIDE DEF x, y
  <2>2. /\ [m EXCEPT !.sub = Append(@, c)] = [m EXCEPT !.sub = q] /\ [n EXCEPT !.sub = Append(@, c)] = [n EXCEPT !.sub = q]
        /\ [x EXCEPT !.sub = Append(@, c)] = [x EXCEPT !.sub = q] /\ [y EXCEPT !.sub = Append(@, c)] = [y EXCEPT !.sub = q]
    BY <2>1 DEF q
  <2>. HIDE DEF q
  <2>3. Shifted(x, y, a, b)
    BY <1>3 DEF x, y
  <2>4. /\ Shifted([m EXCEPT !.sub = q], [n EXCEPT !.sub = q], a, b)
        /\ Shifted([x EXCEPT !.sub = q], [y EXCEPT !.sub = q], a, b)
    BY <2>1, <2>3, ShiftedSub
  <2>. QED  BY <2>2, <2>4 DEF x, y
<1>6. n.state = m.state /\ m.state \in ParserState
  BY DEF Shifted, Meaning
<1>. QED  BY <1>1, <1>2, <1>3, <1>4, <1>5, <1>6, Zenon DEF MeansNext, ParserState, t, u, will

\* So does a run.
LEMMA ShiftedFold ==
    ASSUME NEW m, NEW n, NEW a, NEW b, Shifted(m, n, a, b), NEW s \in Seq(InCode), NEW binary
    PROVE  Shifted(Fold(Reader(binary), m, s), Fold(Reader(binary), n, s), a, b)
<1>. DEFINE f == Reader(binary)
            g == Run(f, m, s)
            h == Run(f, n, s)
            l == Len(s)
            T == {i \in 0 .. l : Shifted(g[i], h[i], a, b)}
<1>0. /\ IsStep(f, Meaning, InCode) /\ m \in Meaning /\ n \in Meaning /\ l \in Nat
      /\ \A x \in Meaning : \A c \in InCode : f[<<x, c>>] = MeansNext(x, c, binary)
      /\ \A i \in 1 .. l : s[i] \in InCode
  BY ReaderIsStep DEF Shifted
<1>. HIDE DEF f
<1>1. /\ g \in [0 .. l -> Meaning] /\ g[0] = m
      /\ \A i \in 1 .. l : g[i] = f[<<g[i - 1], s[i]>>]
  BY <1>0, RunIs
<1>2. /\ h \in [0 .. l -> Meaning] /\ h[0] = n
      /\ \A i \in 1 .. l : h[i] = f[<<h[i - 1], s[i]>>]
  BY <1>0, RunIs
<1>3. Fold(f, m, s) = g[l] /\ Fold(f, n, s) = h[l]
  BY DEF Fold
<1>. HIDE DEF g, h
<1>4. \A i \in 1 .. l : i - 1 \in T => i \in T
  <2>. SUFFICES ASSUME NEW i \in 1 .. l, i - 1 \in T  PROVE i \in T
    OBVIOUS
  <2>. DEFINE j == i - 1
  <2>1. j \in 0 .. l /\ Shifted(g[j], h[j], a, b) /\ s[i] \in InCode /\ i \in 0 .. l
    BY <1>0
  <2>2. g[i] = f[<<g[j], s[i]>>] /\ h[i] = f[<<h[j], s[i]>>]
    BY <1>1, <1>2
  <2>. HIDE DEF j
  <2>3. g[i] = MeansNext(g[j], s[i], binary) /\ h[i] = MeansNext(h[j], s[i], binary)
    <3>1. g[j] \in Meaning /\ h[j] \in Meaning
      BY <2>1 DEF Shifted
    <3>. QED  BY <1>0, <2>1, <2>2, <3>1
  <2>4. Shifted(g[i], h[i], a, b)
    BY <2>1, <2>3, ShiftedNext
  <2>. QED  BY <2>1, <2>4
<1>5. 0 \in T
  BY <1>0, <1>1, <1>2
<1>. HIDE DEF T
<1>6. 0 .. l \subseteq T
  BY <1>0, <1>4, <1>5, UpTo
<1>7. l \in T
  BY <1>0, <1>6
<1>. QED  BY <1>3, <1>7 DEF T, f

-----------------------------------------------------------------------------
(* What telnetd keeps of a suboption, and carries out.                     *)

\* The smaller of two.
LEMMA MinIs ==
    ASSUME NEW a \in Int, NEW b \in Int
    PROVE  Min({a, b}) = IF a <= b THEN a ELSE b
BY DEF Min

\* Sequences that agree on the first k elements begin alike.
LEMMA FirstAgree ==
    ASSUME NEW S, NEW s \in Seq(S), NEW t \in Seq(S), NEW j \in 0 .. Len(s), Len(s) <= Len(t),
           \A i \in 1 .. Len(s) : t[i] = s[i]
    PROVE  SubSeq(t, 1, j) = SubSeq(s, 1, j)
<1>. DEFINE u == SubSeq(s, 1, j)
            v == SubSeq(t, 1, j)
<1>1. /\ u \in Seq(S) /\ Len(u) = j /\ \A i \in 1 .. j : u[i] = s[i]
      /\ v \in Seq(S) /\ Len(v) = j /\ \A i \in 1 .. j : v[i] = t[i]
  OBVIOUS
<1>2. \A i \in 1 .. j : u[i] = v[i]
  BY <1>1
<1>. HIDE DEF u, v
<1>3. u = v
  BY <1>1, <1>2
<1>. QED  BY <1>3 DEF u, v

\* The elements of two sequences joined.
LEMMA JoinedIs ==
    ASSUME NEW S, NEW a \in Seq(S), NEW b \in Seq(S)
    PROVE  /\ a \o b \in Seq(S) /\ Len(a \o b) = Len(a) + Len(b)
           /\ \A i \in 1 .. Len(a) + Len(b) : (a \o b)[i] = IF i <= Len(a) THEN a[i] ELSE b[i - Len(a)]
OBVIOUS

\* What subbuffer holds of a suboption.
Stored(sub) == SubSeq(sub, 1, Min({Len(sub), SubSize - 1}))

\* What is kept, element by element.
LEMMA KeptIs ==
    ASSUME NEW sub \in Seq(InCode)
    PROVE  /\ Stored(sub) \in Seq(InCode)
           /\ Len(sub) <= SubSize - 1 => Stored(sub) = sub
           /\ Len(sub) >= SubSize - 1 => Stored(sub) = SubSeq(sub, 1, SubSize - 1) /\ Len(Stored(sub)) = SubSize - 1
<1>. DEFINE n == Len(sub)
            m == SubSize - 1
<1>1. n \in Int /\ m \in Int /\ m >= 3
  BY SizesAssumption
<1>2. Stored(sub) = SubSeq(sub, 1, IF n <= m THEN n ELSE m)
  <2>1. Min({n, m}) = IF n <= m THEN n ELSE m
    BY <1>1, MinIs
  <2>. QED  BY <2>1 DEF Stored
<1>3. /\ SubSeq(sub, 1, n) = sub
      /\ m <= n => SubSeq(sub, 1, m) \in Seq(InCode) /\ Len(SubSeq(sub, 1, m)) = m
  <2>. HIDE DEF m
  <2>. QED  BY <1>1
<1>. HIDE DEF m, n
<1>. QED  BY <1>1, <1>2, <1>3 DEF m, n

\* SB_ACCUM keeps an octet while there is room, and drops it where Stored drops it.
LEMMA KeptGrows ==
    ASSUME NEW sub \in Seq(InCode), NEW c \in InCode
    PROVE  Accumulate(Stored(sub), <<c>>) = Stored(Append(sub, c))
<1>. DEFINE n == Len(sub)
            m == SubSize - 1
            y == Stored(sub)
            more == Append(sub, c)
            t == <<c>>
<1>1. n \in Nat /\ m \in Int /\ m >= 3
  BY SizesAssumption
<1>2. /\ more \in Seq(InCode) /\ Len(more) = n + 1 /\ sub \o t = more
      /\ t \in Seq(InCode) /\ Len(t) = 1
  OBVIOUS
<1>. HIDE DEF more, t
<1>3. Accumulate(y, t) = y \o SubSeq(t, 1, Min({1, m - Len(y)}))
  BY <1>2 DEF Accumulate
<1>4. CASE n < m
  <2>1. y = sub
    BY <1>1, <1>4, KeptIs
  <2>2. Min({1, m - n}) = 1
    <3>. DEFINE d == m - n
    <3>1. d \in Int /\ 1 <= d
      BY <1>1, <1>4
    <3>. HIDE DEF d
    <3>2. Min({1, d}) = 1
      BY <3>1, MinIs
    <3>. QED  BY <3>2 DEF d
  <2>3. SubSeq(t, 1, 1) = t
    BY <1>2
  <2>4. Stored(more) = more
    BY <1>1, <1>2, <1>4, KeptIs
  <2>. QED  BY <1>2, <1>3, <2>1, <2>2, <2>3, <2>4 DEF more, t
<1>5. CASE n >= m
  <2>1. y = SubSeq(sub, 1, m) /\ Len(y) = m /\ y \in Seq(InCode)
    BY <1>1, <1>5, KeptIs
  <2>2. Min({1, m - Len(y)}) = 0
    <3>1. m - Len(y) = 0
      BY <1>1, <2>1
    <3>2. Min({1, 0}) = 0
      BY MinIs
    <3>. QED  BY <3>1, <3>2
  <2>3. SubSeq(t, 1, 0) = << >> /\ y \o << >> = y
    <3>. HIDE DEF y
    <3>. QED  BY <1>2, <2>1
  <2>4. Stored(more) = SubSeq(more, 1, m)
    BY <1>1, <1>2, <1>5, KeptIs
  <2>5. SubSeq(more, 1, m) = SubSeq(sub, 1, m)
    <3>. HIDE DEF m
    <3>. QED  BY <1>1, <1>5 DEF more
  <2>. QED  BY <1>3, <2>1, <2>2, <2>3, <2>4, <2>5 DEF more, t
<1>. QED  BY <1>1, <1>4, <1>5

\* SB_TERM takes off the two octets it has put behind, or would have.
LEMMA KeptCarried ==
    ASSUME NEW sub \in Seq(InCode), NEW c \in InCode,
           NEW all, all = Accumulate(Stored(sub), <<"IAC", c>>)
    PROVE  <<"SB">> \o SubSeq(all, 1, Len(all) - 2) = AsCarriedOut(<<"SB">> \o sub)
<1>. DEFINE l == Len(sub)
            m == SubSize - 1
            y == Stored(sub)
            n == Len(y)
            t == <<"IAC", c>>
            j == IF l <= m - 2 THEN l ELSE m - 2
            d == m - n
            k == IF 2 <= d THEN 2 ELSE d
            whole == <<"SB">> \o sub
<1>1. /\ l \in Nat /\ m \in Int /\ m >= 3 /\ j \in Nat /\ j <= l
      /\ y \in Seq(InCode) /\ n = IF l <= m THEN l ELSE m
      /\ d \in Int /\ d >= 0 /\ k \in 0 .. 2 /\ n + k - 2 = j /\ j <= n /\ n \in Nat
  <2>1. l \in Nat /\ m \in Int /\ m >= 3
    BY SizesAssumption
  <2>2. y \in Seq(InCode) /\ n = IF l <= m THEN l ELSE m
    BY <2>1, KeptIs
  <2>. HIDE DEF l, m, n, y
  <2>. QED  BY <2>1, <2>2
<1>2. t \in Seq(InCode) /\ Len(t) = 2 /\ "SB" \in InCode
  BY DEF InCode
<1>3. all = y \o SubSeq(t, 1, k)
  <2>1. Min({2, d}) = k
    <3>. HIDE DEF d
    <3>. QED  BY <1>1, MinIs
  <2>. QED  BY <1>2, <2>1 DEF Accumulate
<1>4. SubSeq(all, 1, Len(all) - 2) = SubSeq(sub, 1, j)
  <2>. DEFINE z == SubSeq(t, 1, k)
  <2>0. z \in Seq(InCode) /\ Len(z) = k
    <3>1. k \in 0 .. Len(t)
      BY <1>1, <1>2
    <3>. HIDE DEF t, k
    <3>. QED  BY <1>2, <3>1, Rejoined
  <2>. HIDE DEF z, k, d
  <2>1. Len(all) - 2 = j
    <3>. HIDE DEF j, n, y
    <3>1. Len(all) = Len(y) + k
      BY <1>1, <1>3, <2>0 DEF z
    <3>. QED  BY <1>1, <3>1 DEF n
  <2>2. SubSeq(all, 1, j) = SubSeq(y, 1, j)
    <3>. HIDE DEF j, y
    <3>1. all = y \o z
      BY <1>3 DEF z
    <3>2. y \in Seq(InCode) /\ j \in 0 .. Len(y)
      BY <1>1 DEF n
    <3>3. /\ y \o z \in Seq(InCode) /\ Len(y \o z) >= Len(y)
          /\ \A i \in 1 .. Len(y) : (y \o z)[i] = y[i]
      BY <2>0, <3>2
    <3>4. /\ all \in Seq(InCode) /\ Len(all) >= Len(y)
          /\ \A i \in 1 .. Len(y) : all[i] = y[i]
      BY <3>1, <3>3
    <3>. QED  BY <3>2, <3>4, FirstAgree
  <2>3. SubSeq(y, 1, j) = SubSeq(sub, 1, j)
    <3>1. CASE l <= m
      BY <1>1, <3>1, KeptIs
    <3>2. CASE ~ (l <= m)
      <4>1. y = SubSeq(sub, 1, m) /\ m <= Len(sub) /\ j <= m
        BY <1>1, <3>2, KeptIs
      <4>. HIDE DEF y, m, j
      <4>. QED  BY <1>1, <4>1
    <3>. QED  BY <3>1, <3>2
  <2>. QED  BY <2>1, <2>2, <2>3
<1>5. AsCarriedOut(whole) = <<"SB">> \o SubSeq(sub, 1, j)
  <2>1. whole \in Seq(InCode) /\ whole[1] = "SB" /\ Len(whole) = l + 1
    BY <1>2
  <2>2. Min({Len(whole), SubSize - 2}) = j + 1
    <3>. DEFINE e == Len(whole)
                f == SubSize - 2
    <3>1. e \in Int /\ f \in Int /\ j + 1 = IF e <= f THEN e ELSE f
      <4>1. e = l + 1 /\ f = m - 1
        BY <1>1, <2>1, SizesAssumption
      <4>. HIDE DEF e, f, l, m
      <4>. QED  BY <1>1, <4>1
    <3>. HIDE DEF e, f, j
    <3>2. Min({e, f}) = IF e <= f THEN e ELSE f
      BY <3>1, MinIs
    <3>. QED  BY <3>1, <3>2 DEF e, f
  <2>3. AsCarriedOut(whole) = SubSeq(whole, 1, j + 1)
    <3>. HIDE DEF whole, j
    <3>. QED  BY <2>1, <2>2 DEF AsCarriedOut
  <2>4. SubSeq(whole, 1, j + 1) = <<"SB">> \o SubSeq(sub, 1, j)
    <3>. HIDE DEF j
    <3>. QED  BY <1>1, <1>2
  <2>. QED  BY <2>3, <2>4
<1>. QED  BY <1>4, <1>5

\* Other commands are carried out as they are.
LEMMA ShortCarried ==
    ASSUME NEW c \in InCode, c # "SB", NEW e \in InCode
    PROVE  AsCarriedOut(<<c>>) = <<c>> /\ AsCarriedOut(<<c, e>>) = <<c, e>>
BY DEF AsCarriedOut

\* Commands, carried out, are commands.
LEMMA AsCarriedOutType ==
    ASSUME NEW command \in Seq(InCode)
    PROVE  AsCarriedOut(command) \in Seq(InCode)
<1>. DEFINE e == Len(command)
            f == SubSize - 2
            k == Min({e, f})
<1>1. e \in Int /\ f \in Int
  BY SizesAssumption
<1>. HIDE DEF f
<1>2. k \in Int /\ k <= e
  BY <1>1, MinOfTwo
<1>. HIDE DEF k
<1>3. SubSeq(command, 1, k) \in Seq(InCode)
  BY <1>2, FirstType
<1>. QED  BY <1>3 DEF AsCarriedOut, k, f

\* Commands, as telnetd carries them out.
Carried(cs) == [i \in DOMAIN cs |-> AsCarriedOut(cs[i])]

LEMMA CarriedType ==
    ASSUME NEW cs \in Seq(Seq(InCode))
    PROVE  /\ Carried(cs) \in Seq(Seq(InCode)) /\ Len(Carried(cs)) = Len(cs)
           /\ \A i \in 1 .. Len(cs) : Carried(cs)[i] = AsCarriedOut(cs[i])
<1>. DEFINE Words == Seq(InCode)
            n == Len(cs)
            g == Carried(cs)
<1>1. n \in Nat /\ DOMAIN cs = 1 .. n /\ \A i \in 1 .. n : cs[i] \in Words
  <2>. HIDE DEF Words
  <2>1. cs \in Seq(Words)
    BY DEF Words
  <2>. QED  BY <2>1
<1>2. \A i \in 1 .. n : AsCarriedOut(cs[i]) \in Words
  BY <1>1, AsCarriedOutType
<1>3. g = [i \in 1 .. n |-> AsCarriedOut(cs[i])]
  BY <1>1 DEF Carried
<1>. HIDE DEF g, Words, n
<1>4. g = [i \in 1 .. n |-> g[i]] /\ \A i \in 1 .. n : g[i] = AsCarriedOut(cs[i]) /\ g[i] \in Words
  BY <1>2, <1>3
<1>5. g \in Seq(Words) /\ Len(g) = n
  BY <1>1, <1>4, ListedSeq
<1>. QED  BY <1>4, <1>5 DEF g, Words, n

\* Commands are carried out one by one.
LEMMA CarriedJoin ==
    ASSUME NEW cs \in Seq(Seq(InCode)), NEW ds \in Seq(Seq(InCode))
    PROVE  Carried(cs \o ds) = Carried(cs) \o Carried(ds)
<1>. DEFINE Words == Seq(InCode)
            all == cs \o ds
            a == Carried(cs)
            b == Carried(ds)
            g == Carried(all)
            n == Len(cs)
            l == Len(ds)
<1>1. /\ all \in Seq(Words) /\ Len(all) = n + l /\ n \in Nat /\ l \in Nat
      /\ \A i \in 1 .. n + l : all[i] = IF i <= n THEN cs[i] ELSE ds[i - n]
  <2>. HIDE DEF Words
  <2>1. cs \in Seq(Words) /\ ds \in Seq(Words)
    BY DEF Words
  <2>. QED  BY <2>1
<1>. HIDE DEF all
<1>2. /\ g \in Seq(Words) /\ Len(g) = n + l
      /\ \A i \in 1 .. n + l : g[i] = AsCarriedOut(all[i])
  BY <1>1, CarriedType
<1>3. /\ a \in Seq(Words) /\ Len(a) = n /\ \A i \in 1 .. n : a[i] = AsCarriedOut(cs[i])
      /\ b \in Seq(Words) /\ Len(b) = l /\ \A i \in 1 .. l : b[i] = AsCarriedOut(ds[i])
  BY CarriedType
<1>. HIDE DEF a, b, g, Words, n, l
<1>5. /\ a \o b \in Seq(Words) /\ Len(a \o b) = n + l
      /\ \A i \in 1 .. n + l : (a \o b)[i] = IF i <= n THEN a[i] ELSE b[i - n]
  <2>1. a \in Seq(Words) /\ b \in Seq(Words) /\ Len(a) = n /\ Len(b) = l
    BY <1>3
  <2>. QED  BY <2>1, JoinedIs
<1>4. \A i \in 1 .. n + l : g[i] = (a \o b)[i]
  <2>. SUFFICES ASSUME NEW i \in 1 .. n + l PROVE g[i] = (a \o b)[i]
    OBVIOUS
  <2>1. CASE i <= n
    <3>1. all[i] = cs[i] /\ (a \o b)[i] = a[i] /\ i \in 1 .. n
      BY <1>1, <1>5, <2>1
    <3>. QED  BY <1>2, <1>3, <3>1
  <2>2. CASE ~ (i <= n)
    <3>. DEFINE j == i - n
    <3>1. j \in 1 .. l
      BY <1>1, <2>2
    <3>2. all[i] = ds[j] /\ (a \o b)[i] = b[j]
      BY <1>1, <1>5, <2>2
    <3>. HIDE DEF j
    <3>. QED  BY <1>2, <1>3, <3>1, <3>2
  <2>. QED  BY <2>1, <2>2
<1>6. g = a \o b
  <2>. DEFINE y == a \o b
  <2>. HIDE DEF y
  <2>. QED  BY <1>1, <1>2, <1>4, <1>5 DEF y
<1>. QED  BY <1>6 DEF a, b, g, all

LEMMA CarriedAppend ==
    ASSUME NEW cs \in Seq(Seq(InCode)), NEW command \in Seq(InCode)
    PROVE  Carried(Append(cs, command)) = Append(Carried(cs), AsCarriedOut(command))
<1>. DEFINE Words == Seq(InCode)
            more == Append(cs, command)
            a == Carried(cs)
            g == Carried(more)
            n == Len(cs)
            e == AsCarriedOut(command)
<1>1. /\ more \in Seq(Words) /\ Len(more) = n + 1 /\ n \in Nat
      /\ \A i \in 1 .. n : more[i] = cs[i]
      /\ more[n + 1] = command
  <2>. HIDE DEF Words
  <2>1. cs \in Seq(Words) /\ command \in Words
    BY DEF Words
  <2>. QED  BY <2>1
<1>. HIDE DEF more
<1>2. /\ g \in Seq(Words) /\ Len(g) = n + 1
      /\ \A i \in 1 .. n + 1 : g[i] = AsCarriedOut(more[i])
  BY <1>1, CarriedType
<1>3. /\ a \in Seq(Words) /\ Len(a) = n /\ \A i \in 1 .. n : a[i] = AsCarriedOut(cs[i])
      /\ e \in Words
  BY CarriedType, AsCarriedOutType
<1>4. g[n + 1] = e
  BY <1>1, <1>2
<1>. HIDE DEF a, g, Words, n, e
<1>5. \A i \in 1 .. n : g[i] = a[i]
  BY <1>1, <1>2, <1>3
<1>6. g = Append(a, e)
  BY <1>1, <1>2, <1>3, <1>4, <1>5
<1>. QED  BY <1>6 DEF a, g, e, more

-----------------------------------------------------------------------------
(* telrcv() follows what the client means.                                 *)

\* What telrcv() leaves as it is in o.
SameInput(s, o) ==
    /\ s.netibuf = o.netibuf /\ s.binary = o.binary
    /\ s.lost = o.lost /\ s.skewed = o.skewed /\ s.skipped = o.skipped

\* The program s has understood r so far.  p is what has left ptyobuf.
Follows(s, r, p, o) ==
    /\ s \in ServerState /\ r \in Meaning /\ p \in Seq(InCode) /\ SameInput(s, o)
    /\ s.state = r.state /\ s.sub = Stored(r.sub)
    /\ s.done = Carried(r.commands) /\ r.text = p \o s.ptyobuf

\* The parts of telrcv(), one lemma for each: a change of its state,
LEMMA FollowsState ==
    ASSUME NEW s, NEW r, NEW p, NEW o, Follows(s, r, p, o), NEW state \in ParserState
    PROVE  Follows([s EXCEPT !.state = state], In(r, state), p, o)
<1>1. [s EXCEPT !.state = state] \in ServerState /\ In(r, state) \in Meaning
  BY StateKeeps, InType DEF Follows, Keeps
<1>. QED  BY <1>1 DEF Follows, SameInput, In, ServerState, Meaning

\* a character for the pty,
LEMMA FollowsToPty ==
    ASSUME NEW s, NEW r, NEW p, NEW o, Follows(s, r, p, o), NEW c \in InCode
    PROVE  Follows(ToPty(s, c), Gives(r, c), p, o)
<1>. DEFINE q == s.ptyobuf
            x == Append(q, c)
            y == Append(r.text, c)
<1>1. ToPty(s, c) \in ServerState /\ Gives(r, c) \in Meaning
  BY ToPtyGrows, GivesType DEF Follows, Keeps, Grows
<1>2. y = p \o x
  <2>1. q \in Seq(InCode) /\ p \in Seq(InCode) /\ r.text = p \o q
    BY DEF Follows, ServerState
  <2>. HIDE DEF q
  <2>2. p \o Append(q, c) = Append(p \o q, c)
    BY <2>1, AppendJoin
  <2>. QED  BY <2>1, <2>2
<1>3. ToPty(s, c) = [s EXCEPT !.ptyobuf = x] /\ Gives(r, c) = [r EXCEPT !.text = y]
  BY DEF ToPty, Gives, x, y, q
<1>. HIDE DEF x, y
<1>. QED  BY <1>1, <1>2, <1>3 DEF Follows, SameInput, ServerState, Meaning

\* a command carried out,
LEMMA FollowsDone ==
    ASSUME NEW s, NEW r, NEW p, NEW o, Follows(s, r, p, o), NEW command \in Seq(InCode),
           NEW done, done = AsCarriedOut(command)
    PROVE  Follows(Done(s, done), Asks(r, command), p, o)
<1>. DEFINE x == Append(s.done, done)
            y == Append(r.commands, command)
<1>1. Done(s, done) \in ServerState /\ Asks(r, command) \in Meaning
  <2>1. done \in Seq(InCode)
    BY AsCarriedOutType
  <2>. QED  BY <2>1, DoneKeeps, AsksType DEF Follows, Keeps
<1>2. x = Carried(y)
  <2>. DEFINE cs == r.commands
  <2>1. cs \in Seq(Seq(InCode)) /\ s.done = Carried(cs)
    BY DEF Follows, Meaning
  <2>. HIDE DEF cs
  <2>2. Carried(Append(cs, command)) = Append(Carried(cs), AsCarriedOut(command))
    BY <2>1, CarriedAppend
  <2>. QED  BY <2>1, <2>2 DEF cs
<1>3. Done(s, done) = [s EXCEPT !.done = x] /\ Asks(r, command) = [r EXCEPT !.commands = y]
  BY DEF Done, Asks, x, y
<1>. HIDE DEF x, y
<1>. QED  BY <1>1, <1>2, <1>3 DEF Follows, SameInput, ServerState, Meaning

\* a change of subbuffer,
LEMMA FollowsSub ==
    ASSUME NEW s, NEW r, NEW p, NEW o, Follows(s, r, p, o), NEW sub \in Seq(InCode),
           NEW kept, kept = Stored(sub)
    PROVE  Follows([s EXCEPT !.sub = kept], [r EXCEPT !.sub = sub], p, o)
<1>1. [r EXCEPT !.sub = sub] \in Meaning /\ kept \in Seq(InCode)
  BY SubType, KeptIs DEF Follows
<1>2. [s EXCEPT !.sub = kept] \in ServerState
  BY <1>1 DEF Follows, ServerState
<1>. QED  BY <1>1, <1>2 DEF Follows, SameInput, ServerState, Meaning

\* an octet of a suboption,
LEMMA FollowsAccumulate ==
    ASSUME NEW s, NEW r, NEW p, NEW o, Follows(s, r, p, o), NEW c \in InCode
    PROVE  Follows([s EXCEPT !.sub = Accumulate(@, <<c>>)], [r EXCEPT !.sub = Append(@, c)], p, o)
<1>. DEFINE x == Append(r.sub, c)
            y == Accumulate(s.sub, <<c>>)
<1>1. r.sub \in Seq(InCode) /\ s.sub = Stored(r.sub)
  BY DEF Follows, Meaning
<1>2. x \in Seq(InCode) /\ y = Stored(x)
  <2>. DEFINE t == r.sub
  <2>. HIDE DEF t
  <2>1. Append(t, c) \in Seq(InCode) /\ Accumulate(Stored(t), <<c>>) = Stored(Append(t, c))
    BY <1>1, AppendType, KeptGrows DEF t
  <2>. QED  BY <1>1, <2>1 DEF t
<1>3. /\ [s EXCEPT !.sub = Accumulate(@, <<c>>)] = [s EXCEPT !.sub = y]
      /\ [r EXCEPT !.sub = Append(@, c)] = [r EXCEPT !.sub = x]
  BY DEF x, y
<1>. HIDE DEF x, y
<1>. QED  BY <1>2, <1>3, FollowsSub

\* the end of a Synch,
LEMMA FollowsSynching ==
    ASSUME NEW s, NEW r, NEW p, NEW o, Follows(s, r, p, o), NEW pending \in BOOLEAN
    PROVE  Follows([s EXCEPT !.SYNCHing = pending], r, p, o)
BY DEF Follows, SameInput, ServerState

\* an octet within a suboption,
LEMMA FollowsSuboption ==
    ASSUME NEW s, NEW r, NEW p, NEW o, Follows(s, r, p, o), NEW c \in InCode
    PROVE  Follows(Suboption(s, c), SuboptionMeans(r), p, o)
<1>. DEFINE all == Accumulate(s.sub, <<"IAC", c>>)
            t == [s EXCEPT !.sub = << >>]
            u == [r EXCEPT !.sub = << >>]
            command == <<"SB">> \o r.sub
            done == <<"SB">> \o SubSeq(all, 1, Len(all) - 2)
<1>1. r.sub \in Seq(InCode) /\ s.sub = Stored(r.sub)
  BY DEF Follows, Meaning
<1>2. command \in Seq(InCode)
  <2>1. <<"SB">> \in Seq(InCode)
    BY ShortCodes DEF InCode
  <2>. QED  BY <1>1, <2>1, JoinedSeq
<1>3. done = AsCarriedOut(command)
  <2>. HIDE DEF all
  <2>1. all = Accumulate(Stored(r.sub), <<"IAC", c>>)
    BY <1>1 DEF all
  <2>. QED  BY <1>1, <2>1, KeptCarried
<1>4. Follows(t, u, p, o)
  <2>1. << >> \in Seq(InCode) /\ << >> = Stored(<< >>)
    <3>1. << >> \in Seq(InCode) /\ Len(<< >>) <= SubSize - 1
      BY SizesAssumption, EmptyType
    <3>. QED  BY <3>1, KeptIs
  <2>. QED  BY <2>1, FollowsSub, Zenon
<1>. HIDE DEF t, u, command, done
<1>5. Follows(Done(t, done), Asks(u, command), p, o)
  BY <1>2, <1>3, <1>4, FollowsDone
<1>. QED  BY <1>5 DEF Suboption, SuboptionMeans, t, u, command, done

\* an octet of the data,
LEMMA FollowsData ==
    ASSUME NEW s, NEW r, NEW p, NEW o, Follows(s, r, p, o), NEW c \in InCode, r.state = "data"
    PROVE  Follows(ReceiveData(s, c), CharacterMeans(r, c, s.binary), p, o)
<1>1. \A state \in ParserState : Follows([s EXCEPT !.state = state], In(r, state), p, o)
  BY FollowsState
<1>2. Follows([s EXCEPT !.state = "iac"], In(r, "iac"), p, o)
  BY <1>1 DEF ParserState
<1>3. Follows(ToPty([s EXCEPT !.state = "cr"], c), Gives(In(r, "cr"), c), p, o)
  <2>1. Follows([s EXCEPT !.state = "cr"], In(r, "cr"), p, o)
    BY <1>1 DEF ParserState
  <2>. QED  BY <2>1, FollowsToPty, Zenon
<1>4. Follows(ToPty(s, c), Gives(In(r, "data"), c), p, o)
  <2>1. Follows(s, In(r, "data"), p, o)
    <3>1. In(r, "data") \in Meaning
      BY InType DEF Follows, ParserState
    <3>. QED  BY <3>1 DEF Follows, In, Meaning
  <2>. QED  BY <2>1, FollowsToPty, Zenon
<1>. QED  BY <1>2, <1>3, <1>4, Zenon DEF ReceiveData, CharacterMeans

\* the octet after a carriage return,
LEMMA FollowsAfterCr ==
    ASSUME NEW s, NEW r, NEW p, NEW o, Follows(s, r, p, o), NEW c \in InCode
    PROVE  /\ c \in {"NUL", "LF"} => Follows(ReceiveAfterCr(s, c), In(r, "data"), p, o)
           /\ c \notin {"NUL", "LF"} => Follows(ReceiveAfterCr(s, c), CharacterMeans(r, c, s.binary), p, o)
<1>. DEFINE t == [s EXCEPT !.state = "data"]
            u == In(r, "data")
<1>1. Follows(t, u, p, o) /\ u.state = "data"
  <2>1. Follows(t, u, p, o)
    BY FollowsState DEF ParserState
  <2>. QED  BY <2>1 DEF Follows, In, Meaning
<1>2. t.binary = s.binary
  BY DEF Follows, ServerState
<1>3. CharacterMeans(u, c, s.binary) = CharacterMeans(r, c, s.binary)
  <2>1. \A state : In(u, state) = In(r, state)
    BY DEF In, Follows, Meaning
  <2>. HIDE DEF u
  <2>2. In(u, "iac") = In(r, "iac") /\ In(u, "cr") = In(r, "cr") /\ In(u, "data") = In(r, "data")
    BY <2>1
  <2>. QED  BY <2>2 DEF CharacterMeans
<1>. HIDE DEF t, u
<1>4. Follows(ReceiveData(t, c), CharacterMeans(u, c, t.binary), p, o)
  BY <1>1, FollowsData
<1>. QED  BY <1>1, <1>2, <1>3, <1>4 DEF ReceiveAfterCr, t, u

\* the octet after IAC,
LEMMA FollowsCommand ==
    ASSUME NEW s, NEW r, NEW p, NEW o, Follows(s, r, p, o), NEW c \in InCode,
           NEW pending \in BOOLEAN
    PROVE  Follows(ReceiveCommand(s, c, pending), CommandMeans(r, c), p, o)
<1>. DEFINE t == [s EXCEPT !.state = "data"]
            u == In(r, "data")
            sb == [s EXCEPT !.state = "sb", !.sub = << >>]
            will == [s EXCEPT !.state = "WILL"]
            dm == [t EXCEPT !.SYNCHing = pending]
            meant == [In(r, "sb") EXCEPT !.sub = << >>]
<1>1. \A state \in ParserState : Follows([s EXCEPT !.state = state], In(r, state), p, o)
  BY FollowsState
<1>2. Follows(t, u, p, o) /\ Follows(will, In(r, "WILL"), p, o)
  BY <1>1 DEF ParserState
<1>3. Follows(sb, meant, p, o)
  <2>. DEFINE x == [s EXCEPT !.state = "sb"]
              y == In(r, "sb")
  <2>1. Follows(x, y, p, o)
    BY <1>1 DEF ParserState
  <2>2. << >> \in Seq(InCode) /\ << >> = Stored(<< >>)
    <3>1. << >> \in Seq(InCode) /\ Len(<< >>) <= SubSize - 1
      BY SizesAssumption, EmptyType
    <3>. QED  BY <3>1, KeptIs
  <2>3. sb = [x EXCEPT !.sub = << >>]
    BY DEF Follows, ServerState
  <2>. HIDE DEF x, y
  <2>4. Follows([x EXCEPT !.sub = << >>], [y EXCEPT !.sub = << >>], p, o)
    BY <2>1, <2>2, FollowsSub, Zenon
  <2>. QED  BY <2>3, <2>4 DEF y
<1>. HIDE DEF t, u, sb, will, meant
<1>4. Follows(dm, u, p, o)
  BY <1>2, FollowsSynching
<1>. HIDE DEF dm
<1>5. Follows(ToPty(t, c), Gives(u, c), p, o)
  BY <1>2, FollowsToPty
<1>6. c # "SB" => /\ Follows(Done(ToPty(t, c), <<c>>), Asks(Gives(u, c), <<c>>), p, o)
                  /\ Follows(Done(t, <<c>>), Asks(u, <<c>>), p, o)
  <2>. SUFFICES ASSUME c # "SB"
                PROVE  /\ Follows(Done(ToPty(t, c), <<c>>), Asks(Gives(u, c), <<c>>), p, o)
                       /\ Follows(Done(t, <<c>>), Asks(u, <<c>>), p, o)
    OBVIOUS
  <2>1. <<c>> \in Seq(InCode) /\ <<c>> = AsCarriedOut(<<c>>)
    BY ShortCodes, ShortCarried
  <2>. QED  BY <1>2, <1>5, <2>1, FollowsDone
<1>. QED  BY <1>2, <1>3, <1>4, <1>5, <1>6, Zenon DEF ReceiveCommand, CommandMeans, t, u, sb, will, dm, meant

\* and the octet after IAC within a suboption.
LEMMA FollowsSubEnd ==
    ASSUME NEW s, NEW r, NEW p, NEW o, Follows(s, r, p, o), NEW c \in InCode,
           NEW pending \in BOOLEAN
    PROVE  /\ c = "IAC" => Follows(ReceiveSubEnd(s, c, pending), [In(r, "sb") EXCEPT !.sub = Append(@, c)], p, o)
           /\ c = "SE" => Follows(ReceiveSubEnd(s, c, pending), In(SuboptionMeans(r), "data"), p, o)
           /\ c \notin {"IAC", "SE"} =>
                Follows(ReceiveSubEnd(s, c, pending), CommandMeans(SuboptionMeans(r), c), p, o)
<1>. DEFINE sb == [s EXCEPT !.state = "sb", !.sub = Accumulate(@, <<c>>)]
            meant == [In(r, "sb") EXCEPT !.sub = Append(@, c)]
            t == [s EXCEPT !.state = "data"]
            u == In(r, "data")
            v == Suboption(s, c)
            w == SuboptionMeans(r)
<1>1. \A state \in ParserState : Follows([s EXCEPT !.state = state], In(r, state), p, o)
  BY FollowsState
<1>2. Follows(sb, meant, p, o)
  <2>. DEFINE x == [s EXCEPT !.state = "sb"]
              y == In(r, "sb")
  <2>1. Follows(x, y, p, o)
    BY <1>1 DEF ParserState
  <2>2. sb = [x EXCEPT !.sub = Accumulate(@, <<c>>)]
    BY DEF Follows, ServerState
  <2>. HIDE DEF x, y
  <2>3. Follows([x EXCEPT !.sub = Accumulate(@, <<c>>)], [y EXCEPT !.sub = Append(@, c)], p, o)
    BY <2>1, FollowsAccumulate, Zenon
  <2>. QED  BY <2>2, <2>3 DEF y
<1>3. Follows(v, w, p, o)
  BY FollowsSuboption
<1>4. Follows(Suboption(t, c), In(w, "data"), p, o)
  <2>1. Follows(t, u, p, o)
    BY <1>1 DEF ParserState
  <2>2. SuboptionMeans(u) = In(w, "data")
    BY DEF SuboptionMeans, Asks, In, Follows, Meaning
  <2>. HIDE DEF t, u, w
  <2>3. Follows(Suboption(t, c), SuboptionMeans(u), p, o)
    BY <2>1, FollowsSuboption
  <2>. QED  BY <2>2, <2>3
<1>. HIDE DEF v, w, t, sb, meant
<1>5. Follows(ReceiveCommand(v, c, pending), CommandMeans(w, c), p, o)
  BY <1>3, FollowsCommand
<1>. QED  BY <1>2, <1>4, <1>5, Zenon DEF ReceiveSubEnd, sb, meant, t, v, w

\* Whatever the next octet is, telrcv() takes it as it is meant.
LEMMA FollowsReceived ==
    ASSUME NEW s \in ServerState, NEW r, NEW p, Follows(s, r, p, s), s.netibuf # << >>,
           NEW pending \in BOOLEAN
    PROVE  Follows(Received(s, pending), MeansNext(r, Head(s.netibuf), s.binary), p,
                   [s EXCEPT !.netibuf = Tail(@)])
<1>. DEFINE c == Head(s.netibuf)
            t == [s EXCEPT !.netibuf = Tail(@)]
            data == [t EXCEPT !.state = "data"]
            se == [t EXCEPT !.state = "se"]
            sub == [t EXCEPT !.sub = Accumulate(@, <<c>>)]
            rest == Tail(s.netibuf)
<1>1. c \in InCode /\ rest \in Seq(InCode)
  <2>1. s.netibuf \in Seq(InCode)
    BY DEF ServerState
  <2>. QED  BY <2>1, HeadType
<1>2. Follows(t, r, p, t) /\ t.binary = s.binary
  <2>. HIDE DEF rest
  <2>1. t = [s EXCEPT !.netibuf = rest]
    BY DEF rest
  <2>2. /\ Follows([s EXCEPT !.netibuf = rest], r, p, [s EXCEPT !.netibuf = rest])
        /\ [s EXCEPT !.netibuf = rest].binary = s.binary
    BY <1>1 DEF Follows, SameInput, ServerState
  <2>. QED  BY <2>1, <2>2
<1>3. s.state = r.state /\ r.state \in ParserState
  BY DEF Follows, Meaning
<1>. HIDE DEF c, t
<1>4. Follows(data, In(r, "data"), p, t) /\ Follows(se, In(r, "se"), p, t)
  BY <1>2, FollowsState DEF ParserState
<1>5. Follows(sub, [r EXCEPT !.sub = Append(@, c)], p, t)
  BY <1>1, <1>2, FollowsAccumulate, Zenon
<1>. HIDE DEF data, se, sub
<1>6. Follows(Done(data, <<"WILL", c>>), Asks(In(r, "data"), <<"WILL", c>>), p, t)
  <2>1. <<"WILL", c>> \in Seq(InCode) /\ <<"WILL", c>> = AsCarriedOut(<<"WILL", c>>)
    BY <1>1, ShortCodes, ShortCarried DEF InCode
  <2>. QED  BY <1>4, <2>1, FollowsDone
<1>7. /\ r.state = "data" => Follows(ReceiveData(t, c), CharacterMeans(r, c, s.binary), p, t)
      /\ c \in {"NUL", "LF"} => Follows(ReceiveAfterCr(t, c), In(r, "data"), p, t)
      /\ c \notin {"NUL", "LF"} => Follows(ReceiveAfterCr(t, c), CharacterMeans(r, c, s.binary), p, t)
  BY <1>1, <1>2, FollowsData, FollowsAfterCr
<1>8. Follows(ReceiveCommand(t, c, pending), CommandMeans(r, c), p, t)
  BY <1>1, <1>2, FollowsCommand
<1>9. /\ c = "IAC" => Follows(ReceiveSubEnd(t, c, pending), [In(r, "sb") EXCEPT !.sub = Append(@, c)], p, t)
      /\ c = "SE" => Follows(ReceiveSubEnd(t, c, pending), In(SuboptionMeans(r), "data"), p, t)
      /\ c \notin {"IAC", "SE"} =>
           Follows(ReceiveSubEnd(t, c, pending), CommandMeans(SuboptionMeans(r), c), p, t)
  BY <1>1, <1>2, FollowsSubEnd
<1>10. Follows(Received(s, pending), MeansNext(r, c, s.binary), p, t)
  <2>1. Received(s, pending) =
          CASE s.state = "data" -> ReceiveData(t, c)
            [] s.state = "cr" -> ReceiveAfterCr(t, c)
            [] s.state = "iac" -> ReceiveCommand(t, c, pending)
            [] s.state = "WILL" -> Done(data, <<"WILL", c>>)
            [] s.state = "sb" -> IF c = "IAC" THEN se ELSE sub
            [] s.state = "se" -> ReceiveSubEnd(t, c, pending)
    BY DEF Received, c, t, data, se, sub
  <2>2. CASE r.state = "data"
    BY <1>3, <1>7, <2>1, <2>2 DEF MeansNext
  <2>3. CASE r.state = "cr"
    BY <1>3, <1>7, <2>1, <2>3 DEF MeansNext
  <2>4. CASE r.state = "iac"
    BY <1>3, <1>8, <2>1, <2>4 DEF MeansNext
  <2>5. CASE r.state = "WILL"
    BY <1>3, <1>6, <2>1, <2>5 DEF MeansNext
  <2>6. CASE r.state = "sb"
    BY <1>3, <1>4, <1>5, <2>1, <2>6 DEF MeansNext
  <2>7. CASE r.state = "se"
    BY <1>3, <1>9, <2>1, <2>7 DEF MeansNext
  <2>. QED  BY <1>3, <2>2, <2>3, <2>4, <2>5, <2>6, <2>7 DEF ParserState
<1>. QED  BY <1>10 DEF c, t

-----------------------------------------------------------------------------
(* What the units written mean.                                            *)

\* What the units type.
Typed(units, binary) ==
    FlattenSeq([i \in DOMAIN units |-> IF binary THEN units[i].binary ELSE units[i].text])

\* The commands the units ask for.
Requested(units) == FlattenSeq([i \in DOMAIN units |-> units[i].commands])

\* The type of what a unit is for.
UnitType ==
    \A u \in Unit : /\ u.octets \in Seq(InCode) /\ u.text \in Seq(InCode)
                    /\ u.binary \in Seq(InCode) /\ u.commands \in Seq(Seq(InCode))

\* What a unit types and asks for, by its type.
LEMMA UnitsTyped == UnitType
BY UnitAssumption DEF UnitType

\* f of each element.
Mapped(f, s) == [i \in DOMAIN s |-> f[s[i]]]

\* One element more, one part more.
LEMMA FlattenMapped ==
    ASSUME NEW S, NEW E, NEW f \in [S -> Seq(E)], NEW s \in Seq(S), NEW c \in S
    PROVE  /\ FlattenSeq(Mapped(f, s)) \in Seq(E)
           /\ FlattenSeq(Mapped(f, Append(s, c))) = FlattenSeq(Mapped(f, s)) \o f[c]
<1>. DEFINE T == Seq(E)
            n == Len(s)
            r == Append(s, c)
            a == Mapped(f, s)
            b == Mapped(f, r)
            e == f[c]
            d == <<e>>
<1>0. f \in [S -> T]
  OBVIOUS
<1>. HIDE DEF T
<1>1. /\ n \in Nat /\ DOMAIN s = 1 .. n /\ r \in Seq(S) /\ Len(r) = n + 1 /\ DOMAIN r = 1 .. n + 1
      /\ \A i \in 1 .. n : r[i] = s[i] /\ s[i] \in S
      /\ r[n + 1] = c
  OBVIOUS
<1>. HIDE DEF r, n
<1>2. a = [i \in 1 .. n |-> a[i]] /\ \A i \in 1 .. n : a[i] = f[s[i]] /\ a[i] \in T
  BY <1>0, <1>1 DEF Mapped
<1>3. \A i \in 1 .. n + 1 : b[i] = f[r[i]] /\ b[i] \in T
  <2>1. \A i \in 1 .. n + 1 : r[i] \in S
    BY <1>1
  <2>. QED  BY <1>0, <1>1, <2>1 DEF Mapped
<1>4. b = [i \in 1 .. n + 1 |-> b[i]]
  BY <1>1 DEF Mapped
<1>. HIDE DEF a, b
<1>5. a \in Seq(T) /\ Len(a) = n
  BY <1>1, <1>2, ListedSeq
<1>6. b \in Seq(T) /\ Len(b) = n + 1
  <2>. DEFINE m == n + 1
  <2>1. m \in Nat /\ b = [i \in 1 .. m |-> b[i]] /\ \A i \in 1 .. m : b[i] \in T
    BY <1>1, <1>3, <1>4
  <2>. HIDE DEF m
  <2>2. b \in Seq(T) /\ Len(b) = m
    BY <2>1, ListedSeq
  <2>. QED  BY <2>2 DEF m
<1>7. d \in Seq(T) /\ Len(d) = 1 /\ d[1] = f[c]
  <2>1. f[c] \in T
    BY <1>0
  <2>. QED  BY <2>1
<1>8. b[n + 1] = f[c] /\ \A i \in 1 .. n : b[i] = a[i]
  <2>1. n + 1 \in 1 .. n + 1 /\ \A i \in 1 .. n : i \in 1 .. n + 1
    BY <1>1
  <2>2. b[n + 1] = f[r[n + 1]] /\ \A i \in 1 .. n : b[i] = f[r[i]]
    BY <1>3, <2>1
  <2>. QED  BY <1>1, <1>2, <2>2
<1>. HIDE DEF d
<1>9. /\ a \o d \in Seq(T) /\ Len(a \o d) = n + 1
      /\ \A i \in 1 .. n : (a \o d)[i] = a[i]
      /\ (a \o d)[n + 1] = d[1]
  <2>1. /\ a \o d \in Seq(T) /\ Len(a \o d) = Len(a) + Len(d)
        /\ \A i \in 1 .. Len(a) + Len(d) : (a \o d)[i] = IF i <= Len(a) THEN a[i] ELSE d[i - Len(a)]
    BY <1>5, <1>7, JoinedIs
  <2>2. n + 1 - n = 1
    BY <1>1
  <2>. QED  BY <1>1, <1>5, <1>7, <2>1, <2>2
<1>10. b = a \o d
  <2>. DEFINE y == a \o d
  <2>1. /\ y \in Seq(T) /\ Len(y) = n + 1 /\ (\A i \in 1 .. n : y[i] = b[i]) /\ y[n + 1] = b[n + 1]
    BY <1>7, <1>8, <1>9
  <2>. HIDE DEF y
  <2>2. \A i \in 1 .. n + 1 : y[i] = b[i]
    BY <1>1, <2>1
  <2>3. b = y
    BY <1>1, <1>6, <2>1, <2>2
  <2>. QED  BY <2>3 DEF y
<1>. HIDE DEF e
<1>11. FlattenSeq(a \o <<e>>) = FlattenSeq(a) \o e /\ FlattenSeq(a) \in Seq(E)
  <2>1. e \in Seq(E) /\ a \in Seq(Seq(E))
    BY <1>0, <1>5 DEF e, T
  <2>. QED  BY <2>1, FlattenConcat, FlattenType
<1>. QED  BY <1>10, <1>11 DEF a, b, d, e, r

\* A unit more types what it types behind the rest, and asks for what it asks for.
LEMMA TypedAppend ==
    ASSUME NEW units \in Seq(Unit), NEW u \in Unit, NEW binary \in BOOLEAN
    PROVE  /\ Typed(units, binary) \in Seq(InCode)
           /\ Typed(Append(units, u), binary) = Typed(units, binary) \o (IF binary THEN u.binary ELSE u.text)
<1>. DEFINE f == [x \in Unit |-> IF binary THEN x.binary ELSE x.text]
            more == Append(units, u)
            a == Mapped(f, units)
            b == Mapped(f, more)
<1>1. f \in [Unit -> Seq(InCode)]
  BY UnitsTyped DEF UnitType
<1>2. \A x \in Unit : f[x] = IF binary THEN x.binary ELSE x.text
  OBVIOUS
<1>3. /\ \A i \in DOMAIN units : units[i] \in Unit
      /\ \A i \in DOMAIN more : more[i] \in Unit
  OBVIOUS
<1>4. Typed(units, binary) = FlattenSeq(a) /\ Typed(more, binary) = FlattenSeq(b)
  <2>. HIDE DEF f, more
  <2>1. /\ a = [i \in DOMAIN units |-> IF binary THEN units[i].binary ELSE units[i].text]
        /\ b = [i \in DOMAIN more |-> IF binary THEN more[i].binary ELSE more[i].text]
    BY <1>2, <1>3 DEF Mapped
  <2>. QED  BY <2>1 DEF Typed
<1>. HIDE DEF f
<1>5. FlattenSeq(a) \in Seq(InCode) /\ FlattenSeq(b) = FlattenSeq(a) \o f[u]
  BY <1>1, FlattenMapped
<1>. QED  BY <1>2, <1>4, <1>5

LEMMA RequestedAppend ==
    ASSUME NEW units \in Seq(Unit), NEW u \in Unit
    PROVE  /\ Requested(units) \in Seq(Seq(InCode))
           /\ Requested(Append(units, u)) = Requested(units) \o u.commands
<1>. DEFINE Words == Seq(InCode)
            f == [x \in Unit |-> x.commands]
            more == Append(units, u)
            a == Mapped(f, units)
            b == Mapped(f, more)
<1>1. f \in [Unit -> Seq(Words)]
  BY UnitsTyped DEF UnitType
<1>2. \A x \in Unit : f[x] = x.commands
  OBVIOUS
<1>3. /\ \A i \in DOMAIN units : units[i] \in Unit
      /\ \A i \in DOMAIN more : more[i] \in Unit
  OBVIOUS
<1>4. Requested(units) = FlattenSeq(a) /\ Requested(more) = FlattenSeq(b)
  <2>. HIDE DEF f, more
  <2>1. /\ a = [i \in DOMAIN units |-> units[i].commands]
        /\ b = [i \in DOMAIN more |-> more[i].commands]
    BY <1>2, <1>3 DEF Mapped
  <2>. QED  BY <2>1 DEF Requested
<1>. HIDE DEF f, Words
<1>5. FlattenSeq(a) \in Seq(Words) /\ FlattenSeq(b) = FlattenSeq(a) \o f[u]
  BY <1>1, FlattenMapped, SMTT(40)
<1>. QED  BY <1>2, <1>4, <1>5 DEF Words

\* No unit, nothing typed.
LEMMA NothingTyped ==
    /\ \A binary : Typed(<< >>, binary) = << >>
    /\ Requested(<< >>) = << >>
<1>1. DOMAIN << >> = {} /\ \A f : [i \in {} |-> f[i]] = << >>
  OBVIOUS
<1>. QED  BY <1>1, FlattenEmpty DEF Typed, Requested

-----------------------------------------------------------------------------
(* Ahead of the program, its octets mean what was written.                 *)

\* m is where no command is open, with that text and those commands.
Ends(m, text, commands) ==
    m.state = "data" /\ m.sub = << >> /\ m.text = text /\ m.commands = commands

\* The program s has understood r, and the octets it has not looked at lead from r
\* to what the units mean.
Understands(s, r, p, octets, units) ==
    /\ Follows(s, r, p, s)
    /\ Ends(Fold(Reader(s.binary), r, s.netibuf \o octets), Typed(units, s.binary), Requested(units))

\* In step, the program has understood some r of what the client wrote; what has left
\* ptyobuf is what the pty has, when ttloop() never dropped any.
Attends ==
    InStep => \E r, p : Understands(server, r, p, stream, told) /\ (~server.lost => p = pty)

\* t is s for the parser.
SameParser(s, t) ==
    /\ t \in ServerState
    /\ t.state = s.state /\ t.sub = s.sub /\ t.done = s.done /\ t.ptyobuf = s.ptyobuf

\* What the parser does not see is left out.
LEMMA FollowsSame ==
    ASSUME NEW s, NEW r, NEW p, NEW o, Follows(s, r, p, o), NEW t, SameParser(s, t)
    PROVE  Follows(t, r, p, t)
BY DEF Follows, SameParser, SameInput

\* Nothing was written, and nothing understood.
LEMMA InitAttends == Init => Attends
<1>. SUFFICES ASSUME Init PROVE Attends
  OBVIOUS
<1>1. /\ server \in ServerState /\ server.state = "data" /\ server.sub = << >>
      /\ server.ptyobuf = << >> /\ server.netibuf = << >> /\ server.done = << >>
      /\ server.binary \in BOOLEAN
      /\ stream = << >> /\ told = << >> /\ pty = << >>
  <2>1. server \in ServerState
    BY InitInv DEF IndInv, TypeOK
  <2>2. PICK pc \in {"ttloop", "loop"}, binary \in BOOLEAN : server = ServerInit(pc, binary)
    BY Zenon DEF Init
  <2>. QED  BY <2>1, <2>2 DEF Init, ServerInit
<1>2. << >> \in Seq(InCode) /\ << >> \in Seq(Seq(InCode)) /\ << >> \o << >> = << >>
  BY EmptyType
<1>3. Stored(<< >>) = << >> /\ Carried(<< >>) = << >>
  <2>1. Len(<< >>) <= SubSize - 1
    BY SizesAssumption
  <2>2. Stored(<< >>) = << >>
    BY <1>2, <2>1, KeptIs
  <2>3. DOMAIN << >> = {} /\ \A f : [i \in {} |-> f[i]] = << >>
    OBVIOUS
  <2>. QED  BY <2>2, <2>3 DEF Carried
<1>4. Follows(server, NoMeaning, << >>, server)
  <2>1. NoMeaning.state = "data" /\ NoMeaning.sub = << >> /\ NoMeaning.text = << >> /\ NoMeaning.commands = << >>
    BY DEF NoMeaning
  <2>. QED  BY <1>1, <1>2, <1>3, <2>1, NoMeaningType DEF Follows, SameInput
<1>5. Fold(Reader(server.binary), NoMeaning, << >>) = NoMeaning
  BY ReaderIsStep, NoMeaningType, FoldEmpty
<1>6. Understands(server, NoMeaning, << >>, stream, told)
  BY <1>1, <1>2, <1>4, <1>5, NothingTyped DEF Understands, Ends, NoMeaning
<1>. QED  BY <1>1, <1>6 DEF Attends

\* Most steps leave the parser, its octets and the pty alone.
LEMMA AttendsSame ==
    ASSUME Attends, SameParser(server, server'), SameInput(server', server),
           UNCHANGED <<stream, told, pty>>
    PROVE  Attends'
<1>. SUFFICES ASSUME InStep'
              PROVE  \E r, p : Understands(server', r, p, stream, told) /\ (~server'.lost => p = pty)
  BY DEF Attends
<1>1. InStep
  BY DEF InStep, SameInput
<1>2. PICK r, p : Understands(server, r, p, stream, told) /\ (~server.lost => p = pty)
  BY <1>1 DEF Attends
<1>3. Follows(server', r, p, server')
  BY <1>2, FollowsSame DEF Understands
<1>4. Understands(server', r, p, stream, told)
  BY <1>2, <1>3 DEF Understands, SameInput
<1>. QED  BY <1>2, <1>4 DEF SameInput

\* The network is read.
LEMMA AttendsRead ==
    ASSUME Attends, SameParser(server, server'), stream \in Seq(InCode), NEW k \in 0 .. Len(stream),
           server.netibuf = << >> => server'.netibuf = SubSeq(stream, 1, k),
           server.netibuf # << >> => server'.skipped,
           server.skipped => server'.skipped,
           server'.binary = server.binary, server'.lost = server.lost, server'.skewed = server.skewed,
           stream' = Drop(stream, k), UNCHANGED <<told, pty>>
    PROVE  Attends'
<1>. SUFFICES ASSUME InStep'
              PROVE  \E r, p : Understands(server', r, p, stream', told) /\ (~server'.lost => p = pty)
  BY DEF Attends
<1>1. InStep /\ server.netibuf = << >> /\ server'.netibuf = SubSeq(stream, 1, k)
  BY DEF InStep
<1>2. PICK r, p : Understands(server, r, p, stream, told) /\ (~server.lost => p = pty)
  BY <1>1 DEF Attends
<1>3. Follows(server', r, p, server')
  BY <1>2, FollowsSame DEF Understands
<1>4. server'.netibuf \o stream' = server.netibuf \o stream
  <2>1. SubSeq(stream, 1, k) \o SubSeq(stream, k + 1, Len(stream)) = stream
    BY Rejoined
  <2>2. << >> \o stream = stream
    OBVIOUS
  <2>. QED  BY <1>1, <2>1, <2>2 DEF Drop
<1>5. Understands(server', r, p, stream', told)
  BY <1>2, <1>3, <1>4 DEF Understands
<1>. QED  BY <1>2, <1>5

\* Joining octets is associative.
LEMMA CodesAssociative == \A s, t, u \in Seq(InCode) : (s \o t) \o u = s \o (t \o u)
BY Associative

\* The client writes a unit.
LEMMA UnitMeant ==
    ASSUME NEW m \in Meaning, NEW units \in Seq(Unit), NEW u \in Unit, NEW binary \in BOOLEAN,
           Ends(m, Typed(units, binary), Requested(units))
    PROVE  Ends(Fold(Reader(binary), m, u.octets), Typed(Append(units, u), binary),
                Requested(Append(units, u)))
<1>. DEFINE a == Typed(units, binary)
            b == Requested(units)
            text == IF binary THEN u.binary ELSE u.text
            x == Fold(Reader(binary), NoMeaning, u.octets)
            y == Fold(Reader(binary), m, u.octets)
<1>1. a \in Seq(InCode) /\ b \in Seq(Seq(InCode)) /\ u.octets \in Seq(InCode)
  BY TypedAppend, RequestedAppend, UnitsTyped DEF UnitType
<1>2. /\ NoMeaning \in Meaning /\ NoMeaning.state = "data" /\ NoMeaning.sub = << >>
      /\ NoMeaning.text = << >> /\ NoMeaning.commands = << >>
  BY NoMeaningType DEF NoMeaning
<1>3. x.state = "data" /\ x.sub = << >> /\ x.text = text /\ x.commands = u.commands
  <2>1. x = [NoMeaning EXCEPT !.text = text, !.commands = u.commands]
    BY <1>1, MeantIsFold, MeaningAssumption
  <2>. HIDE DEF x, text
  <2>. QED  BY <1>2, <2>1 DEF NoMeaning
<1>. HIDE DEF a, b
<1>4. a \o << >> = a /\ b \o << >> = b
  BY <1>1
<1>5. Shifted(NoMeaning, m, a, b)
  BY <1>1, <1>2, <1>4 DEF Ends, Shifted, a, b
<1>6. Shifted(x, y, a, b)
  BY <1>1, <1>5, ShiftedFold
<1>. HIDE DEF x, y, text
<1>7. y.state = "data" /\ y.sub = << >> /\ y.text = a \o text /\ y.commands = b \o u.commands
  BY <1>3, <1>6 DEF Shifted
<1>8. /\ Typed(Append(units, u), binary) = a \o text
      /\ Requested(Append(units, u)) = b \o u.commands
  BY TypedAppend, RequestedAppend DEF a, b, text
<1>. QED  BY <1>7, <1>8 DEF Ends, y

\* What is written leads on to what the unit means.
LEMMA ClientWritesAttends ==
    ASSUME IndInv, Attends, NEW unit \in Unit, ClientWrites(unit)
    PROVE  Attends'
<1>. SUFFICES ASSUME InStep'
              PROVE  \E r, p : Understands(server', r, p, stream', told') /\ (~server'.lost => p = pty')
  BY DEF Attends
<1>1. /\ server' = server /\ pty' = pty /\ told' = Append(told, unit)
      /\ stream' = stream \o unit.octets
  BY DEF ClientWrites
<1>2. /\ server.netibuf \in Seq(InCode) /\ stream \in Seq(InCode) /\ told \in Seq(Unit)
      /\ server.binary \in BOOLEAN /\ unit.octets \in Seq(InCode)
  BY UnitsTyped DEF IndInv, TypeOK, ServerState, UnitType
<1>3. PICK r, p : Understands(server, r, p, stream, told) /\ (~server.lost => p = pty)
  BY <1>1 DEF Attends, InStep
<1>. DEFINE R == Reader(server.binary)
            w == server.netibuf \o stream
            m == Fold(R, r, w)
<1>4. r \in Meaning /\ IsStep(R, Meaning, InCode)
  BY <1>3, ReaderIsStep DEF Understands, Follows
<1>5. w \in Seq(InCode) /\ server.netibuf \o (stream \o unit.octets) = w \o unit.octets
  <2>. DEFINE n == server.netibuf
              o == unit.octets
  <2>1. n \in Seq(InCode) /\ o \in Seq(InCode)
    BY <1>2
  <2>. HIDE DEF n, o
  <2>2. n \o stream \in Seq(InCode)
    BY <1>2, <2>1, JoinedSeq
  <2>3. n \o (stream \o o) = (n \o stream) \o o
    BY <1>2, <2>1, CodesAssociative
  <2>. QED  BY <2>2, <2>3 DEF n, o
<1>. HIDE DEF w, R
<1>6. m \in Meaning /\ Fold(R, r, w \o unit.octets) = Fold(R, m, unit.octets)
  BY <1>2, <1>4, <1>5, FoldType, FoldConcat
<1>7. Ends(m, Typed(told, server.binary), Requested(told))
  BY <1>3 DEF Understands, R, w
<1>. HIDE DEF m
<1>8. Ends(Fold(R, m, unit.octets), Typed(told', server.binary), Requested(told'))
  BY <1>1, <1>2, <1>6, <1>7, UnitMeant DEF R
<1>9. Understands(server', r, p, stream', told')
  BY <1>1, <1>3, <1>5, <1>6, <1>8 DEF Understands, R
<1>. QED  BY <1>1, <1>3, <1>9

\* ptyflush() leaves the input and the parser alone.
LEMMA PtyFlushedInput ==
    ASSUME NEW s \in ServerState, NEW k
    PROVE  SameInput(PtyFlushed(s, k), s)
BY DEF SameInput, PtyFlushed, ServerState

\* ptyflush(): what the pty has taken is not in ptyobuf any more.
LEMMA FollowsPtyFlushed ==
    ASSUME NEW s, NEW r, NEW p, Follows(s, r, p, s), NEW k \in 0 .. Len(s.ptyobuf)
    PROVE  /\ Follows(PtyFlushed(s, k), r, p \o SubSeq(s.ptyobuf, 1, k), PtyFlushed(s, k))
           /\ SameInput(PtyFlushed(s, k), s)
<1>. DEFINE q == s.ptyobuf
            front == SubSeq(q, 1, k)
            rest == SubSeq(q, k + 1, Len(q))
            v == PtyFlushed(s, k)
            more == s.back + k
<1>1. s \in ServerState /\ q \in Seq(InCode) /\ p \in Seq(InCode) /\ r.text = p \o q
      /\ k \in 0 .. Len(q)
  BY DEF Follows, ServerState
<1>2. /\ front \in Seq(InCode) /\ rest \in Seq(InCode) /\ front \o rest = q
      /\ Len(rest) = Len(q) - k
  <2>. HIDE DEF q
  <2>. QED  BY <1>1, Rejoined
<1>3. more \in Nat
  <2>. HIDE DEF q
  <2>1. s.back \in Nat
    BY <1>1 DEF ServerState
  <2>2. k \in Nat
    BY <1>1
  <2>. QED  BY <2>1, <2>2
<1>4. v \in ServerState /\ v.ptyobuf = rest /\ v.state = s.state /\ v.sub = s.sub /\ v.done = s.done
      /\ SameInput(v, s)
  <2>1. CASE k = Len(q)
    <3>1. rest = << >>
      <4>. HIDE DEF rest, q
      <4>. QED  BY <1>1, <1>2, <2>1
    <3>2. v = [s EXCEPT !.ptyobuf = << >>, !.back = 0]
      BY <2>1 DEF PtyFlushed
    <3>. HIDE DEF v, rest
    <3>. QED  BY <1>1, <3>1, <3>2, EmptyType DEF SameInput, ServerState
  <2>2. CASE k # Len(q)
    <3>1. v = [s EXCEPT !.ptyobuf = rest, !.back = more]
      BY <2>2 DEF PtyFlushed, Drop
    <3>. HIDE DEF v, rest, more
    <3>. QED  BY <1>1, <1>2, <1>3, <3>1 DEF SameInput, ServerState
  <2>. QED  BY <2>1, <2>2
<1>. HIDE DEF front, rest, v, q
<1>5. p \o front \in Seq(InCode) /\ (p \o front) \o rest = p \o (front \o rest)
  BY <1>1, <1>2, JoinedSeq, CodesAssociative
<1>6. Follows(v, r, p \o front, v)
  BY <1>1, <1>2, <1>4, <1>5 DEF Follows, SameInput
<1>. QED  BY <1>4, <1>6 DEF v, front, q

\* What the pty takes only moves.
LEMMA PtyFlushAttends ==
    ASSUME IndInv, IndInv', Attends, PtyFlush
    PROVE  Attends'
<1>. SUFFICES ASSUME InStep'
              PROVE  \E r, p : Understands(server', r, p, stream', told') /\ (~server'.lost => p = pty')
  BY DEF Attends
<1>1. stream' = stream /\ told' = told /\ server.ptyobuf \in Seq(InCode) /\ pty \in Seq(InCode)
      /\ server' \in ServerState
  BY DEF PtyFlush, ivars, IndInv, TypeOK, ServerState
<1>2. PICK k \in IF "ptyw" \in server.ready /\ server.ptyobuf # << >>
                 THEN 1 .. Len(server.ptyobuf) ELSE {0} :
         /\ server' = [(IF k = 0 THEN server ELSE PtyFlushed(server, k)) EXCEPT !.pc = "loop"]
         /\ pty' = pty \o SubSeq(server.ptyobuf, 1, k)
  BY DEF PtyFlush
<1>. DEFINE u == IF k = 0 THEN server ELSE PtyFlushed(server, k)
            front == SubSeq(server.ptyobuf, 1, k)
<1>3. k \in 0 .. Len(server.ptyobuf)
  BY <1>1, <1>2
<1>4. SameInput(u, server) /\ u \in ServerState
  <2>1. PtyFlushed(server, k) \in ServerState /\ server \in ServerState
    <3>1. Sound(server) /\ server.pc # "exited"
      BY DEF PtyFlush, Running, IndInv
    <3>. QED  BY <1>3, <3>1, PtyFlushedSound DEF Sound
  <2>2. SameInput(PtyFlushed(server, k), server) /\ SameInput(server, server)
    BY <2>1, PtyFlushedInput DEF SameInput
  <2>. QED  BY <2>1, <2>2
<1>5. SameParser(u, server') /\ SameInput(server', u)
  <2>1. server' = [u EXCEPT !.pc = "loop"]
    BY <1>2
  <2>. HIDE DEF u
  <2>. QED  BY <1>1, <1>4, <2>1 DEF SameParser, SameInput, ServerState
<1>6. InStep
  BY <1>4, <1>5 DEF InStep, SameInput
<1>7. PICK r, p : Understands(server, r, p, stream, told) /\ (~server.lost => p = pty)
  BY <1>6 DEF Attends
<1>8. Follows(u, r, p \o front, u)
  <2>1. CASE k = 0
    <3>1. front = << >> /\ p \in Seq(InCode)
      BY <1>1, <1>7, <2>1 DEF Understands, Follows
    <3>2. p \o front = p
      BY <3>1
    <3>. QED  BY <1>7, <2>1, <3>2 DEF Understands
  <2>2. CASE k # 0
    <3>1. Follows(PtyFlushed(server, k), r, p \o SubSeq(server.ptyobuf, 1, k), PtyFlushed(server, k))
      BY <1>3, <1>7, FollowsPtyFlushed DEF Understands
    <3>. QED  BY <2>2, <3>1
  <2>. QED  BY <2>1, <2>2
<1>. HIDE DEF u, front
<1>9. Follows(server', r, p \o front, server')
  BY <1>5, <1>8, FollowsSame
<1>10. Understands(server', r, p \o front, stream', told')
  BY <1>1, <1>4, <1>5, <1>7, <1>9 DEF Understands, SameInput
<1>. QED  BY <1>2, <1>4, <1>5, <1>7, <1>10 DEF SameInput, front

\* ttloop() drops what is in ptyobuf.
LEMMA TtloopAgainAttends ==
    ASSUME IndInv, IndInv', Attends, TtloopAgain
    PROVE  Attends'
<1>1. /\ UNCHANGED <<stream, told, pty>> /\ server' \in ServerState /\ server \in ServerState
  BY DEF TtloopAgain, ivars, IndInv, TypeOK
<1>2. CASE server.netibuf = << >>
  <2>1. server' = [server EXCEPT !.pc = "ttloop"]
    BY <1>2 DEF TtloopAgain
  <2>2. SameParser(server, server') /\ SameInput(server', server)
    BY <1>1, <2>1 DEF SameParser, SameInput, ServerState
  <2>. QED  BY <1>1, <2>2, AttendsSame
<1>3. CASE server.netibuf # << >>
  <2>. SUFFICES ASSUME InStep'
                PROVE  \E r, p : Understands(server', r, p, stream', told') /\ (~server'.lost => p = pty')
    BY DEF Attends
  <2>1. server' = [server EXCEPT !.pc = "again", !.lost = TRUE, !.ptyobuf = << >>, !.back = 0]
    BY <1>3 DEF TtloopAgain
  <2>2. /\ server'.state = server.state /\ server'.sub = server.sub /\ server'.done = server.done
        /\ server'.ptyobuf = << >> /\ server'.netibuf = server.netibuf /\ server'.lost
        /\ server'.binary = server.binary /\ server'.skewed = server.skewed
        /\ server'.skipped = server.skipped
    BY <1>1, <2>1 DEF ServerState
  <2>3. PICK r, p : Understands(server, r, p, stream, told)
    BY <2>2 DEF Attends, InStep
  <2>4. r.text \in Seq(InCode) /\ r.text \o << >> = r.text
    <3>. DEFINE t == r.text
    <3>1. t \in Seq(InCode)
      BY <2>3 DEF Understands, Follows, Meaning
    <3>. HIDE DEF t
    <3>2. t \o << >> = t
      BY <3>1
    <3>. QED  BY <3>1, <3>2 DEF t
  <2>5. Follows(server', r, r.text, server')
    BY <1>1, <2>2, <2>3, <2>4 DEF Understands, Follows, SameInput
  <2>6. Understands(server', r, r.text, stream', told')
    BY <1>1, <2>2, <2>3, <2>5 DEF Understands
  <2>. QED  BY <2>2, <2>6
<1>. QED  BY <1>2, <1>3

\* telrcv() takes an octet, and understands it as it is meant.
LEMMA TelrcvAttends ==
    ASSUME IndInv, IndInv', Attends, Telrcv
    PROVE  Attends'
<1>. SUFFICES ASSUME InStep'
              PROVE  \E r, p : Understands(server', r, p, stream', told') /\ (~server'.lost => p = pty')
  BY DEF Attends
<1>1. /\ stream' = stream /\ told' = told /\ server.netibuf # << >>
      /\ server \in ServerState /\ server' \in ServerState /\ Sound(server) /\ server.pc # "exited"
      /\ CanReceive(server)
  BY DEF Telrcv, Running, CanReceive, ivars, IndInv, TypeOK
<1>2. PICK k \in IF Flushing(server) THEN 0 .. Len(server.ptyobuf) ELSE {0} :
         \E s \in {Received(PtyFlushed(server, k), urgent # 0)} :
            /\ server' = [s EXCEPT !.cleared =
                  @ \/ (Len(s.done) > Len(server.done) /\ Last(s.done) = <<"AO">>)]
            /\ pty' = pty \o SubSeq(server.ptyobuf, 1, k)
  BY DEF Telrcv
<1>. DEFINE u == PtyFlushed(server, k)
            s == Received(u, urgent # 0)
            cleared == s.cleared \/ (Len(s.done) > Len(server.done) /\ Last(s.done) = <<"AO">>)
            front == SubSeq(server.ptyobuf, 1, k)
            c == Head(server.netibuf)
            rest == Tail(server.netibuf)
            R == Reader(server.binary)
<1>3. server' = [s EXCEPT !.cleared = cleared] /\ pty' = pty \o front
  BY <1>2
<1>4. k \in 0 .. Len(server.ptyobuf)
  <2>1. server.ptyobuf \in Seq(InCode)
    BY <1>1 DEF ServerState
  <2>. QED  BY <1>2, <2>1
<1>5. /\ u \in ServerState /\ u.netibuf = server.netibuf /\ u.netibuf # << >> /\ SameInput(u, server)
  BY <1>1, <1>4, PtyFlushedSound, PtyFlushedInput DEF Sound
<1>6. s \in ServerState /\ LeavesAlone(u, s)
  <2>. HIDE DEF u
  <2>1. Grows(u, s) /\ LeavesAlone(u, s)
    BY <1>5, ReceivedGrows, ReceivedSame
  <2>. QED  BY <2>1 DEF Grows
<1>. HIDE DEF cleared, s
<1>7. SameParser(s, server') /\ SameInput(server', s)
  BY <1>1, <1>3, <1>6 DEF SameParser, SameInput, ServerState
<1>8. /\ server'.binary = server.binary /\ server'.lost = server.lost
      /\ server'.skewed = server.skewed /\ server'.skipped = server.skipped
  <2>. HIDE DEF u
  <2>. QED  BY <1>5, <1>6, <1>7 DEF SameInput, LeavesAlone, SameOutput
<1>9. PICK r, p : Understands(server, r, p, stream, told) /\ (~server.lost => p = pty)
  BY <1>8 DEF Attends, InStep
<1>. DEFINE next == MeansNext(r, c, server.binary)
<1>10. Follows(u, r, p \o front, u)
  BY <1>4, <1>9, FollowsPtyFlushed DEF Understands
<1>. HIDE DEF u
<1>11. Follows(s, next, p \o front, [u EXCEPT !.netibuf = Tail(@)]) /\ u.binary = server.binary
  <2>1. Follows(s, MeansNext(r, Head(u.netibuf), u.binary), p \o front, [u EXCEPT !.netibuf = Tail(@)])
    BY <1>5, <1>10, FollowsReceived DEF s
  <2>. QED  BY <1>5, <2>1 DEF SameInput
<1>12. server'.netibuf = rest
  <2>. DEFINE v == [u EXCEPT !.netibuf = Tail(@)]
  <2>1. v.netibuf = rest
    BY <1>5 DEF ServerState
  <2>2. s.netibuf = v.netibuf
    BY <1>11 DEF Follows, SameInput
  <2>. QED  BY <1>7, <2>1, <2>2 DEF SameInput
<1>13. Follows(server', next, p \o front, server')
  BY <1>7, <1>11, FollowsSame
<1>14. /\ r \in Meaning /\ IsStep(R, Meaning, InCode) /\ c \in InCode /\ rest \in Seq(InCode)
       /\ server.netibuf = <<c>> \o rest /\ <<c>> \in Seq(InCode)
       /\ stream \in Seq(InCode)
       /\ R[<<r, c>>] = next
  <2>1. server.netibuf \in Seq(InCode) /\ stream \in Seq(InCode)
    BY <1>1 DEF ServerState, IndInv, TypeOK
  <2>2. c \in InCode /\ rest \in Seq(InCode) /\ server.netibuf = <<c>> \o rest /\ <<c>> \in Seq(InCode)
    <3>. DEFINE n == server.netibuf
    <3>1. n \in Seq(InCode) /\ n # << >>
      BY <1>1, <2>1
    <3>. HIDE DEF n
    <3>2. /\ Head(n) \in InCode /\ Tail(n) \in Seq(InCode) /\ n = <<Head(n)>> \o Tail(n)
          /\ <<Head(n)>> \in Seq(InCode)
      BY <3>1
    <3>. QED  BY <3>2 DEF n
  <2>3. r \in Meaning
    BY <1>9 DEF Understands, Follows
  <2>. QED  BY <2>1, <2>2, <2>3, ReaderIsStep
<1>. HIDE DEF next, c, rest, R
<1>15. Fold(R, r, server.netibuf \o stream) = Fold(R, next, rest \o stream)
  <2>1. server.netibuf \o stream = <<c>> \o (rest \o stream) /\ rest \o stream \in Seq(InCode)
    BY <1>14, CodesAssociative, JoinedSeq
  <2>. DEFINE t == rest \o stream
              one == <<c>>
  <2>2. Fold(R, r, one \o t) = Fold(R, Fold(R, r, one), t)
    <3>1. t \in Seq(InCode) /\ one \in Seq(InCode)
      BY <1>14, <2>1
    <3>. HIDE DEF t, one
    <3>. QED  BY <1>14, <3>1, FoldConcat
  <2>3. Fold(R, r, <<c>>) = next
    BY <1>14, FoldOne
  <2>. QED  BY <2>1, <2>2, <2>3
<1>16. Understands(server', next, p \o front, stream', told')
  BY <1>1, <1>8, <1>9, <1>12, <1>13, <1>15 DEF Understands, R
<1>. QED  BY <1>3, <1>8, <1>9, <1>16

\* The two places that read the network.
LEMMA ReadingAttends ==
    ASSUME IndInv, IndInv', Attends, Ttloop \/ Round
    PROVE  Attends'
<1>1. /\ server \in ServerState /\ server' \in ServerState /\ stream \in Seq(InCode)
      /\ UNCHANGED <<told, pty>>
  BY DEF Ttloop, Round, IndInv, TypeOK
<1>2. ReadBound \in Int /\ ReadBound <= Len(stream)
  BY ReadBoundFits DEF IndInv
<1>3. CASE Ttloop /\ urgent = 1
  <2>1. server'.skewed
    BY <1>1, <1>3 DEF Ttloop, ServerState
  <2>. QED  BY <2>1 DEF Attends, InStep
<1>4. ASSUME NEW k \in 1 .. ReadBound, StreamRead(k), NEW t, t = NetRead(server, k),
             DOMAIN server' = DOMAIN t,
             SameParser(t, server'), SameInput(server', t)
      PROVE  Attends'
  <2>1. k \in 0 .. Len(stream)
    BY <1>1, <1>2
  <2>. DEFINE q == SubSeq(stream, 1, k)
  <2>2. /\ t.netibuf = q /\ t.state = server.state /\ t.sub = server.sub /\ t.done = server.done
        /\ t.ptyobuf = server.ptyobuf /\ t.binary = server.binary /\ t.lost = server.lost
        /\ t.skewed = server.skewed
        /\ (server.skipped => t.skipped) /\ (server.netibuf # << >> => t.skipped)
    <3>. DEFINE skipped == server.skipped \/ server.netibuf # << >>
    <3>1. t = [server EXCEPT !.netibuf = q, !.skipped = skipped]
      BY <1>4 DEF NetRead
    <3>2. (server.skipped => skipped) /\ (server.netibuf # << >> => skipped)
      OBVIOUS
    <3>. HIDE DEF q, skipped
    <3>3. t.skipped = skipped
      BY <1>1, <3>1 DEF ServerState
    <3>. QED  BY <1>1, <3>1, <3>2, <3>3 DEF ServerState
  <2>3. SameParser(server, server')
    BY <1>4, <2>2 DEF SameParser
  <2>4. stream' = Drop(stream, k)
    BY <1>4 DEF StreamRead
  <2>. HIDE DEF q
  <2>5. /\ server'.netibuf = q /\ (server.netibuf # << >> => server'.skipped)
        /\ (server.skipped => server'.skipped) /\ server'.binary = server.binary
        /\ server'.lost = server.lost /\ server'.skewed = server.skewed
    BY <1>4, <2>2 DEF SameInput
  <2>. QED  BY <1>1, <2>1, <2>3, <2>4, <2>5, AttendsRead DEF q
<1>5. CASE Ttloop /\ urgent # 1
  <2>1. PICK k \in 1 .. ReadBound :
           server' = [NetRead(server, k) EXCEPT !.pc = "first"] /\ StreamRead(k)
    BY <1>5 DEF Ttloop
  <2>. DEFINE t == NetRead(server, k)
  <2>2. DOMAIN t = DOMAIN server
    BY <1>1 DEF NetRead
  <2>. HIDE DEF t
  <2>3. server' = [t EXCEPT !.pc = "first"]
    BY <2>1 DEF t
  <2>4. SameParser(t, server') /\ SameInput(server', t)
    BY <1>1, <2>2, <2>3 DEF SameParser, SameInput, ServerState
  <2>. QED  BY <1>4, <2>1, <2>3, <2>4 DEF t
<1>6. CASE Round
  <2>1. PICK o, ready :
         \E k \in IF "netr" \in ready THEN 1 .. ReadBound ELSE {0} :
               LET s == IF "netr" \in ready THEN NetRead(server, k) ELSE server
               IN  /\ server' =
                        [s EXCEPT !.ready = ready, !.SYNCHing = @ \/ "exc" \in ready,
                                  !.pc = IF ready = {} THEN "loop"
                                         ELSE IF "ptyr" \in ready THEN "readpty"
                                         ELSE "data"]
                   /\ StreamRead(k)
    BY <1>6 DEF Round
  <2>2. PICK k \in IF "netr" \in ready THEN 1 .. ReadBound ELSE {0} :
               LET s == IF "netr" \in ready THEN NetRead(server, k) ELSE server
               IN  /\ server' =
                        [s EXCEPT !.ready = ready, !.SYNCHing = @ \/ "exc" \in ready,
                                  !.pc = IF ready = {} THEN "loop"
                                         ELSE IF "ptyr" \in ready THEN "readpty"
                                         ELSE "data"]
                   /\ StreamRead(k)
    BY <2>1
  <2>. DEFINE s == IF "netr" \in ready THEN NetRead(server, k) ELSE server
              pc == IF ready = {} THEN "loop" ELSE IF "ptyr" \in ready THEN "readpty" ELSE "data"
              synching == s.SYNCHing \/ "exc" \in ready
  <2>3. server' = [s EXCEPT !.ready = ready, !.SYNCHing = synching, !.pc = pc] /\ StreamRead(k)
    BY <2>2
  <2>4. DOMAIN s = DOMAIN server
    <3>1. DOMAIN NetRead(server, k) = DOMAIN server
      BY <1>1 DEF NetRead
    <3>. QED  BY <3>1
  <2>5. SameParser(s, server') /\ SameInput(server', s)
    <3>. HIDE DEF s, pc, synching
    <3>. QED  BY <1>1, <2>3, <2>4 DEF SameParser, SameInput, ServerState
  <2>6. CASE "netr" \in ready
    <3>1. k \in 1 .. ReadBound /\ s = NetRead(server, k) /\ DOMAIN server' = DOMAIN s
      BY <2>2, <2>3, <2>6
    <3>. HIDE DEF s
    <3>. QED  BY <1>4, <2>3, <2>5, <3>1
  <2>7. CASE "netr" \notin ready
    <3>1. k = 0 /\ s = server
      BY <2>2, <2>7
    <3>2. stream' = stream
      BY <1>1, <2>3, <3>1 DEF StreamRead, Drop
    <3>. HIDE DEF s
    <3>. QED  BY <1>1, <2>5, <3>1, <3>2, AttendsSame
  <2>. QED  BY <2>6, <2>7
<1>. QED  BY <1>3, <1>5, <1>6

\* All that is left is not about the parser.
LEMMA QuietAttends ==
    ASSUME IndInv, IndInv', Attends,
           \/ \E packet \in Packet : PtyHas(packet)
           \/ TtloopEnds \/ MainLoop \/ ReadPty \/ PutChar \/ NetFlush \/ Eof \/ Sigchld
    PROVE  Attends'
<1>1. /\ server \in ServerState /\ server' \in ServerState /\ UNCHANGED <<stream, told, pty>>
  BY DEF PtyHas, TtloopEnds, MainLoop, ReadPty, PutChar, NetFlush, Eof, Sigchld, Ended, ivars,
         IndInv, TypeOK
<1>2. CASE \/ \E packet \in Packet : PtyHas(packet)
           \/ TtloopEnds \/ MainLoop \/ NetFlush \/ Eof \/ Sigchld
  <2>1. \E pc, why : server' = server \/ server' = [server EXCEPT !.pc = pc]
                                   \/ server' = [server EXCEPT !.pc = pc, !.ended = why]
    BY <1>2 DEF PtyHas, TtloopEnds, MainLoop, NetFlush, Eof, Sigchld, Ended
  <2>2. SameParser(server, server') /\ SameInput(server', server)
    BY <1>1, <2>1 DEF SameParser, SameInput, ServerState
  <2>. QED  BY <1>1, <2>2, AttendsSame
<1>3. CASE PutChar
  <2>1. PICK q : server' = [server EXCEPT !.ptyibuf = q]
    BY <1>3 DEF PutChar
  <2>2. SameParser(server, server') /\ SameInput(server', server)
    BY <1>1, <2>1 DEF SameParser, SameInput, ServerState
  <2>. QED  BY <1>1, <2>2, AttendsSame
<1>4. CASE ReadPty
  <2>. DEFINE text == Head(packets).text
              shown == server.shown \o text
              s == [server EXCEPT !.pc = "data", !.ptyibuf = text, !.shown = shown]
  <2>1. server' = s \/ server' = [s EXCEPT !.cleared = TRUE]
    <3>1. Head(packets).event \in {"data", "dostop", "flushwrite"}
      <4>1. packets \in Seq(Packet) /\ packets # << >>
        BY <1>4 DEF IndInv, TypeOK, ReadPty, Running
      <4>2. Head(packets) \in Packet
        BY <4>1, HeadType
      <4>. QED  BY <4>2, PacketAssumption
    <3>. QED  BY <1>4, <3>1 DEF ReadPty
  <2>2. SameParser(server, server') /\ SameInput(server', server)
    <3>. HIDE DEF text, shown
    <3>. QED  BY <1>1, <2>1 DEF SameParser, SameInput, ServerState
  <2>. QED  BY <1>1, <2>2, AttendsSame
<1>. QED  BY <1>2, <1>3, <1>4

\* Nor is what changes nothing.
LEMMA StutterAttends ==
    ASSUME Attends, UNCHANGED vars
    PROVE  Attends'
BY DEF Attends, InStep, vars, ivars

\* Whatever happens, the program attends.
LEMMA AttendsInductive == Init /\ [][Next]_vars => []Attends
<1>1. ASSUME IndInv, IndInv', Attends, [Next]_vars PROVE Attends'
  <2>1. CASE UNCHANGED vars
    BY <1>1, <2>1, StutterAttends
  <2>2. CASE Next
    BY <1>1, <2>2, ClientWritesAttends, TtloopAgainAttends, PtyFlushAttends, TelrcvAttends,
       ReadingAttends, QuietAttends DEF Next
  <2>. QED  BY <1>1, <2>1, <2>2
<1>. QED  BY InitAttends, Inductive, <1>1, PTL

\* What r says comes first of what the units say, and is all of it when no octet is left.
ComesFirst(s, r, octets, units) ==
    /\ \E x \in Seq(InCode) : Typed(units, s.binary) = r.text \o x
    /\ \E y \in Seq(Seq(InCode)) : Requested(units) = r.commands \o y
    /\ s.netibuf = << >> /\ octets = << >> => r.text = Typed(units, s.binary)

\* What was understood so far is what comes first of what was written.
LEMMA UnderstoodFirst ==
    ASSUME NEW s, NEW r, NEW p, NEW octets, octets \in Seq(InCode), NEW units,
           Understands(s, r, p, octets, units)
    PROVE  ComesFirst(s, r, octets, units)
<1>. DEFINE R == Reader(s.binary)
            w == s.netibuf \o octets
            r0 == [r EXCEPT !.text = << >>, !.commands = << >>]
            m0 == Fold(R, r0, w)
            m == Fold(R, r, w)
<1>1. r \in Meaning /\ s \in ServerState
  BY DEF Understands, Follows
<1>2. w \in Seq(InCode)
  <2>1. s.netibuf \in Seq(InCode)
    BY <1>1 DEF ServerState
  <2>. QED  BY <2>1, JoinedSeq
<1>3. /\ r.text \in Seq(InCode) /\ r.commands \in Seq(Seq(InCode))
      /\ r.text \o << >> = r.text /\ r.commands \o << >> = r.commands
  <2>. DEFINE t == r.text
              cs == r.commands
  <2>1. t \in Seq(InCode) /\ cs \in Seq(Seq(InCode))
    BY <1>1 DEF Meaning
  <2>. HIDE DEF t, cs
  <2>2. t \o << >> = t /\ cs \o << >> = cs
    BY <2>1
  <2>. QED  BY <2>1, <2>2 DEF t, cs
<1>4. /\ r0 \in Meaning /\ r0.state = r.state /\ r0.sub = r.sub /\ r0.text = << >>
      /\ r0.commands = << >>
  BY <1>1, EmptyType DEF Meaning
<1>. HIDE DEF r0, w
<1>5. Shifted(r0, r, r.text, r.commands)
  BY <1>1, <1>3, <1>4 DEF Shifted
<1>6. Shifted(m0, m, r.text, r.commands)
  BY <1>2, <1>5, ShiftedFold
<1>7. m.text = Typed(units, s.binary) /\ m.commands = Requested(units)
  BY DEF Understands, Ends, w
<1>8. s.netibuf = << >> /\ octets = << >> => m = r
  <2>. SUFFICES ASSUME s.netibuf = << >>, octets = << >> PROVE m = r
    OBVIOUS
  <2>1. w = << >>
    BY DEF w
  <2>. QED  BY <1>1, <2>1, ReaderIsStep, FoldEmpty
<1>. HIDE DEF m0, m
<1>9. m0.text \in Seq(InCode) /\ m0.commands \in Seq(Seq(InCode))
  BY <1>6 DEF Shifted, Meaning
<1>. QED  BY <1>6, <1>7, <1>8, <1>9 DEF Shifted, ComesFirst

\* The first of two sequences begins both joined.
LEMMA PrefixOfJoined ==
    ASSUME NEW S, NEW a \in Seq(S), NEW b \in Seq(S)
    PROVE  IsPrefix(a, a \o b)
<1>1. a \o b \in Seq(S) /\ Len(a) <= Len(a \o b) /\ \A i \in 1 .. Len(a) : (a \o b)[i] = a[i]
  OBVIOUS
<1>. DEFINE t == a \o b
<1>. HIDE DEF t
<1>2. t \in Seq(S) /\ Len(a) <= Len(t) /\ (\A i \in 1 .. Len(a) : t[i] = a[i]) /\ Len(a) \in 0 .. Len(a)
  BY <1>1 DEF t
<1>3. SubSeq(t, 1, Len(a)) = SubSeq(a, 1, Len(a))
  BY <1>2, FirstAgree
<1>. QED  BY <1>2, <1>3 DEF IsPrefix, t

\* Commands carried out are the first of those asked for.
LEMMA AttendsCommands ==
    ASSUME IndInv, Attends
    PROVE  CommandsCarriedOut
<1>. DEFINE all == Requested(told)
<1>. SUFFICES ASSUME InStep
              PROVE  IsPrefix(server.done, Carried(all))
  BY DEF CommandsCarriedOut, Requested, Carried
<1>1. PICK r, p : Understands(server, r, p, stream, told)
  BY DEF Attends
<1>2. PICK y \in Seq(Seq(InCode)) : all = r.commands \o y
  <2>1. stream \in Seq(InCode)
    BY DEF IndInv, TypeOK
  <2>2. ComesFirst(server, r, stream, told)
    BY <1>1, <2>1, UnderstoodFirst, Zenon
  <2>. QED  BY <2>2 DEF ComesFirst
<1>3. r.commands \in Seq(Seq(InCode)) /\ server.done = Carried(r.commands)
  BY <1>1 DEF Understands, Follows, Meaning
<1>. DEFINE a == r.commands
            x == Carried(a)
            z == Carried(y)
<1>4. Carried(a \o y) = x \o z
  BY <1>3, CarriedJoin
<1>5. x \in Seq(Seq(InCode)) /\ z \in Seq(Seq(InCode))
  BY <1>3, CarriedType
<1>. HIDE DEF x, z
<1>6. IsPrefix(x, x \o z)
  BY <1>5, PrefixOfJoined
<1>. QED  BY <1>2, <1>3, <1>4, <1>6 DEF x

\* What reached the pty is the first of what was typed.
LEMMA AttendsInput ==
    ASSUME IndInv, Attends
    PROVE  InputArrives
<1>. DEFINE typed == Typed(told, server.binary)
            got == pty \o server.ptyobuf
<1>. SUFFICES ASSUME InStep, ~server.lost
              PROVE  /\ IsPrefix(got, typed)
                     /\ stream = << >> /\ server.netibuf = << >> => got = typed
  BY DEF InputArrives, Typed
<1>1. PICK r, p : Understands(server, r, p, stream, told) /\ p = pty
  BY DEF Attends
<1>2. r.text = got /\ got \in Seq(InCode)
  BY <1>1 DEF Understands, Follows, Meaning
<1>3. /\ \E x \in Seq(InCode) : typed = r.text \o x
      /\ server.netibuf = << >> /\ stream = << >> => r.text = typed
  <2>1. stream \in Seq(InCode)
    BY DEF IndInv, TypeOK
  <2>2. ComesFirst(server, r, stream, told)
    BY <1>1, <2>1, UnderstoodFirst, Zenon
  <2>. QED  BY <2>2 DEF ComesFirst
<1>. HIDE DEF got, typed
<1>4. PICK x \in Seq(InCode) : typed = got \o x
  BY <1>2, <1>3
<1>. QED  BY <1>2, <1>3, <1>4, PrefixOfJoined

-----------------------------------------------------------------------------
(***************************************************************************)
(* Type correctness: among other things, every read takes octets that are  *)
(* there, and the urgent pointer stays within the stream.                  *)
(***************************************************************************)
THEOREM ServerIOTypes == Spec => []TypeOK
<1>1. IndInv => TypeOK
  BY DEF IndInv
<1>. QED  BY <1>1, Inductive, PTL DEF Spec

(***************************************************************************)
(* ptyobuf is never overrun, whatever the sizes of the buffers, the octets *)
(* from the client, and how little ptyflush() gets rid of: the test before *)
(* each octet in telrcv() is enough for all that an octet may store.       *)
(***************************************************************************)
THEOREM ServerIOPtyBufferHolds == Spec => []PtyBufferHolds
<1>1. IndInv => PtyBufferHolds
  BY DEF IndInv, Sound, PtyBufferHolds
<1>. QED  BY <1>1, Inductive, PTL DEF Spec

(***************************************************************************)
(* When telnet() sees the connection closed, nothing that was read from it *)
(* is left in netibuf or ptyobuf: it does not read while there is.         *)
(***************************************************************************)
THEOREM ServerIOHangupLosesNoInput == Spec => []HangupLosesNoInput
<1>1. IndInv => HangupLosesNoInput
  BY DEF IndInv, Sound, HangupLosesNoInput
<1>. QED  BY <1>1, Inductive, PTL DEF Spec

(***************************************************************************)
(* While an item is to be sent as urgent data, it is a whole Synch, IAC    *)
(* DM, that is still in the list: neither netclear()'s dropping of items,  *)
(* nor the joining of a trailing item with what is written next, nor the   *)
(* freeing of sent items after a short write lets the pointer drift to     *)
(* another item or past the end of the list.                               *)
(***************************************************************************)
THEOREM ServerIOUrgentIsSynch == Spec => []UrgentIsSynch
<1>1. NetSound => UrgentIsSynch
  BY DEF NetSound, Good, Urgent, UrgentIsSynch
<1>. QED  BY <1>1, NetInductive, PTL DEF Spec

(***************************************************************************)
(* What the socket has taken and then what stdio and the list still hold   *)
(* is all that was to be sent, in the order in which telnetd wrote it,     *)
(* whatever the sizes of the buffers, however short the writes are and     *)
(* however what is written falls into items.  netclear() sets anew what is *)
(* to be sent.                                                             *)
(***************************************************************************)
THEOREM ServerIOInOrder == Spec => []InOrder
<1>1. NetSound => InOrder
  BY DEF NetSound
<1>. QED  BY <1>1, NetInductive, PTL DEF Spec

(***************************************************************************)
(* What goes to the client can be read: IAC is doubled, a carriage return  *)
(* never stands alone outside of binary, and so the octets of the pty's    *)
(* characters decode to these characters, in their order, whatever the     *)
(* packets from the pty and wherever answers, flow control and the ends of *)
(* packets cut them, until output is cleared.                              *)
(***************************************************************************)
THEOREM ServerIOOutputDecodes == Spec => []OutputDecodes
<1>1. IndInv /\ Legible => OutputDecodes
  BY LegibleDecodes
<1>. QED  BY <1>1, Inductive, LegibleInductive, PTL DEF Spec

(***************************************************************************)
(* The commands telnetd has carried out are the first of those the client  *)
(* has given, in their order and each as it was given, but for the         *)
(* suboption that does not fit subbuffer, which is cut: none is skipped,   *)
(* made up or split, wherever the reads cut the octets and however full    *)
(* ptyobuf gets.                                                           *)
(***************************************************************************)
THEOREM ServerIOCommandsCarriedOut == Spec => []CommandsCarriedOut
<1>1. IndInv /\ Attends => CommandsCarriedOut
  BY AttendsCommands
<1>. QED  BY <1>1, Inductive, AttendsInductive, PTL DEF Spec

(***************************************************************************)
(* What the pty has, and then what waits for it in ptyobuf, is the first   *)
(* of what the client typed, and all of it once every octet was read and   *)
(* looked at: IAC IAC is one octet, and a carriage return is what the mode *)
(* makes of it, even when the octet behind it came with another read.      *)
(***************************************************************************)
THEOREM ServerIOInputArrives == Spec => []InputArrives
<1>1. IndInv /\ Attends => InputArrives
  BY AttendsInput
<1>. QED  BY <1>1, Inductive, AttendsInductive, PTL DEF Spec
=============================================================================
