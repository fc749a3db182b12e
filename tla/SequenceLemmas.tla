--------------------------- MODULE SequenceLemmas ---------------------------
(***************************************************************************)
(* Lemmas about sequences that the proofs of several components rest on:   *)
(* induction over the numbers of an interval, functions that run through a *)
(* sequence step by step, and FlattenSeq.  A predicate is given as the set *)
(* of what satisfies it, and a step as a function.                         *)
(***************************************************************************)
EXTENDS Integers, SequencesExt, SequenceTheorems, WellFoundedInduction, TLAPS

-----------------------------------------------------------------------------
(* Induction.                                                              *)

LEMMA LeastElement ==
    ASSUME NEW T \in SUBSET Nat, T # {}
    PROVE  \E n \in T : \A m \in T : ~ (m < n)
<1>. DEFINE R == OpToRel(<, Nat)
<1>1. IsWellFoundedOn(R, Nat)
  BY NatLessThanWellFounded
<1>2. \A m, n \in Nat : m < n => <<m, n>> \in R
  BY DEF OpToRel
<1>. HIDE DEF R
<1>3. \E n \in T : \A m \in T : ~ (<<m, n>> \in R)
  BY <1>1, WFMin
<1>. QED  BY <1>2, <1>3

\* A set that holds 0 and, with each number below n, the next.
LEMMA UpTo ==
    ASSUME NEW n \in Nat, NEW S, 0 \in S, \A i \in 1 .. n : i - 1 \in S => i \in S
    PROVE  0 .. n \subseteq S
<1>. DEFINE T == {i \in 0 .. n : i \notin S}
<1>. SUFFICES ASSUME T # {} PROVE FALSE
  OBVIOUS
<1>1. T \in SUBSET Nat
  OBVIOUS
<1>2. PICK i \in T : \A j \in T : ~ (j < i)
  <2>. HIDE DEF T
  <2>. QED  BY <1>1, LeastElement
<1>3. i \in 1 .. n /\ i - 1 \in 0 .. n
  BY <1>2
<1>4. i - 1 \in S
  BY <1>2, <1>3
<1>. QED  BY <1>2, <1>3, <1>4

-----------------------------------------------------------------------------
(* Types.                                                                  *)

LEMMA ShortSeq ==
    ASSUME NEW S, NEW c \in S, NEW d \in S
    PROVE  <<c>> \in Seq(S) /\ <<c, d>> \in Seq(S)
OBVIOUS

LEMMA SingleSeq ==
    ASSUME NEW S, NEW s \in Seq(S), Len(s) <= 1
    PROVE  s = <<>> \/ (s[1] \in S /\ s = <<s[1]>>)
<1>1. CASE Len(s) = 0
  BY <1>1
<1>2. CASE Len(s) = 1
  BY <1>2
<1>3. Len(s) = 0 \/ Len(s) = 1
  <2>1. \A n \in Nat : n <= 1 => n = 0 \/ n = 1
    OBVIOUS
  <2>2. Len(s) \in Nat /\ Len(s) <= 1
    OBVIOUS
  <2>. QED  BY <2>1, <2>2, Zenon
<1>. QED  BY <1>1, <1>2, <1>3, Zenon

LEMMA JoinedSeq ==
    ASSUME NEW S, NEW s \in Seq(S), NEW t \in Seq(S)
    PROVE  s \o t \in Seq(S) /\ Len(s \o t) = Len(s) + Len(t)
BY ConcatProperties

LEMMA PairSeq ==
    ASSUME NEW E, NEW b \in E, NEW c \in E
    PROVE  <<b>> \o <<c>> = <<b, c>>
<1>. DEFINE s == <<b>>
            t == <<c>>
            u == <<b, c>>
<1>1. s \in Seq(E) /\ t \in Seq(E) /\ Len(s) = 1 /\ Len(t) = 1 /\ s[1] = b /\ t[1] = c
  OBVIOUS
<1>2. u \in Seq(E) /\ Len(u) = 2 /\ u[1] = b /\ u[2] = c
  OBVIOUS
<1>. HIDE DEF s, t, u
<1>3. s \o t \in Seq(E) /\ Len(s \o t) = 2 /\ (s \o t)[1] = b /\ (s \o t)[2] = c
  <2>1. /\ s \o t \in Seq(E) /\ Len(s \o t) = Len(s) + Len(t)
        /\ \A i \in 1 .. Len(s) + Len(t) : (s \o t)[i] = IF i <= Len(s) THEN s[i] ELSE t[i - Len(s)]
    BY <1>1, ConcatProperties
  <2>. QED  BY <1>1, <2>1
<1>4. s \o t = u
  <2>1. Len(s \o t) = Len(u) /\ \A i \in 1 .. Len(s \o t) : (s \o t)[i] = u[i]
    BY <1>2, <1>3
  <2>2. \A x, y \in Seq(E) : Len(x) = Len(y) /\ (\A i \in 1 .. Len(x) : x[i] = y[i]) => x = y
    BY SeqEqual
  <2>. QED  BY <1>2, <1>3, <2>1, <2>2
<1>. QED  BY <1>4 DEF s, t, u

LEMMA ListedSeq ==
    ASSUME NEW S, NEW n \in Nat, NEW g, g = [i \in 1 .. n |-> g[i]],
           \A i \in 1 .. n : g[i] \in S
    PROVE  g \in Seq(S) /\ Len(g) = n /\ DOMAIN g = 1 .. n
OBVIOUS

-----------------------------------------------------------------------------
(* Running through a sequence: g[i] is what f makes of g[i - 1] and the    *)
(* i-th element.                                                           *)

IsStep(f, S, E) == f \in [S \X E -> S]

Runs(f, a, s, g) ==
    g = [i \in 0 .. Len(s) |-> IF i = 0 THEN a ELSE f[<<g[i - 1], s[i]>>]]

Run(f, a, s) == CHOOSE g : Runs(f, a, s, g)

Fold(f, a, s) == Run(f, a, s)[Len(s)]

SameSteps(g, h, n) ==
    g[0] = h[0] /\ \A i \in 1 .. n : g[i - 1] = h[i - 1] => g[i] = h[i]

\* There is such a function for each sequence, and it stays where f leads.
LEMMA RunExists ==
    ASSUME NEW S, NEW E, NEW f, IsStep(f, S, E), NEW a \in S, NEW s \in Seq(E)
    PROVE  \E g \in [0 .. Len(s) -> S] : Runs(f, a, s, g)
<1>. DEFINE n == Len(s)
            Upto(m, g) == /\ g \in [0 .. m -> S] /\ g[0] = a
                          /\ \A i \in 1 .. m : g[i] = f[<<g[i - 1], s[i]>>]
            T == {m \in 0 .. n : \E g : Upto(m, g)}
<1>0. n \in Nat /\ \A i \in 1 .. n : s[i] \in E
  OBVIOUS
<1>. HIDE DEF n
<1>1. 0 \in T
  <2>1. Upto(0, [i \in 0 .. 0 |-> a])
    OBVIOUS
  <2>. HIDE DEF Upto
  <2>. QED  BY <2>1, <1>0
<1>2. ASSUME NEW m \in 1 .. n, m - 1 \in T PROVE m \in T
  <2>1. PICK g : Upto(m - 1, g)
    BY <1>2
  <2>. DEFINE h == [i \in 0 .. m |-> IF i = m THEN f[<<g[m - 1], s[m]>>] ELSE g[i]]
  <2>2. g[m - 1] \in S /\ s[m] \in E
    BY <2>1, <1>0
  <2>3. h \in [0 .. m -> S]
    <3>1. \A i \in 0 .. m : i # m => i \in 0 .. m - 1
      OBVIOUS
    <3>. QED  BY <2>1, <2>2, <3>1 DEF IsStep
  <2>4. h[0] = a
    BY <2>1, <1>0
  <2>5. ASSUME NEW i \in 1 .. m PROVE h[i] = f[<<h[i - 1], s[i]>>]
    <3>0. i \in 0 .. m /\ i - 1 \in 0 .. m /\ i - 1 # m
      BY <1>0
    <3>1. CASE i = m
      BY <3>0, <3>1
    <3>2. CASE i # m
      <4>1. i \in 1 .. m - 1
        BY <3>2
      <4>. QED  BY <2>1, <3>0, <3>2, <4>1
    <3>. QED  BY <3>1, <3>2
  <2>6. Upto(m, h)
    BY <2>3, <2>4, <2>5
  <2>. HIDE DEF Upto
  <2>7. m \in 0 .. n
    BY <1>0
  <2>. QED  BY <2>6, <2>7
<1>3. n \in T
  <2>. HIDE DEF T
  <2>1. 0 .. n \subseteq T
    BY <1>0, <1>1, <1>2, UpTo
  <2>. QED  BY <2>1, <1>0
<1>4. PICK g : Upto(n, g)
  BY <1>3
<1>5. Runs(f, a, s, g)
  BY <1>4, <1>0 DEF Runs, n
<1>. QED  BY <1>4, <1>5 DEF n

\* Two runs that take the same steps are the same.
LEMMA RunsAgree ==
    ASSUME NEW n \in Nat, NEW g, NEW h, SameSteps(g, h, n)
    PROVE  \A i \in 0 .. n : g[i] = h[i]
<1>. DEFINE T == {i \in 0 .. n : g[i] = h[i]}
<1>1. 0 \in T /\ \A i \in 1 .. n : i - 1 \in T => i \in T
  BY DEF SameSteps
<1>2. 0 .. n \subseteq T
  <2>. HIDE DEF T
  <2>. QED  BY <1>1, UpTo
<1>. QED  BY <1>2

LEMMA RunIs ==
    ASSUME NEW S, NEW E, NEW f, IsStep(f, S, E), NEW a \in S, NEW s \in Seq(E)
    PROVE  /\ Run(f, a, s) \in [0 .. Len(s) -> S]
           /\ Run(f, a, s)[0] = a
           /\ \A i \in 1 .. Len(s) : Run(f, a, s)[i] = f[<<Run(f, a, s)[i - 1], s[i]>>]
<1>. DEFINE g == Run(f, a, s)
            n == Len(s)
<1>0. n \in Nat
  OBVIOUS
<1>1. PICK h \in [0 .. n -> S] : Runs(f, a, s, h)
  BY RunExists
<1>2. Runs(f, a, s, g)
  BY <1>1 DEF Run
<1>. HIDE DEF g
<1>3. h[0] = a /\ \A i \in 1 .. n : h[i] = f[<<h[i - 1], s[i]>>]
  <2>1. h = [i \in 0 .. n |-> IF i = 0 THEN a ELSE f[<<h[i - 1], s[i]>>]]
    BY <1>1 DEF Runs
  <2>2. \A i \in 0 .. n : h[i] = IF i = 0 THEN a ELSE f[<<h[i - 1], s[i]>>]
    BY <2>1
  <2>. QED  BY <1>0, <2>2
<1>4. g[0] = a /\ \A i \in 1 .. n : g[i] = f[<<g[i - 1], s[i]>>]
  BY <1>0, <1>2 DEF Runs
<1>5. SameSteps(g, h, n)
  BY <1>3, <1>4 DEF SameSteps
<1>6. \A i \in 0 .. n : g[i] = h[i]
  <2>. HIDE DEF n
  <2>. QED  BY <1>0, <1>5, RunsAgree
<1>7. g = [i \in 0 .. n |-> g[i]]
  BY <1>2 DEF Runs
<1>8. g = h
  BY <1>6, <1>7
<1>. QED  BY <1>4, <1>8 DEF g

\* Any function that takes the steps of f is the run of f.
LEMMA RunUnique ==
    ASSUME NEW S, NEW E, NEW f, IsStep(f, S, E), NEW a \in S, NEW s \in Seq(E),
           NEW g, g[0] = a,
           \A i \in 1 .. Len(s) : g[i - 1] \in S => g[i] = f[<<g[i - 1], s[i]>>]
    PROVE  g[Len(s)] = Fold(f, a, s)
<1>. DEFINE h == Run(f, a, s)
            n == Len(s)
<1>0. n \in Nat
  OBVIOUS
<1>1. /\ h \in [0 .. n -> S] /\ h[0] = a
      /\ \A i \in 1 .. n : h[i] = f[<<h[i - 1], s[i]>>]
  BY RunIs
<1>. HIDE DEF h
<1>2. \A i \in 1 .. n : g[i - 1] = h[i - 1] => g[i] = h[i]
  <2>1. \A i \in 1 .. n : i - 1 \in 0 .. n
    BY <1>0
  <2>. QED  BY <1>1, <2>1
<1>3. g[n] = h[n]
  <2>. HIDE DEF n
  <2>1. SameSteps(g, h, n)
    BY <1>1, <1>2 DEF SameSteps
  <2>2. \A i \in 0 .. n : g[i] = h[i]
    BY <1>0, <2>1, RunsAgree
  <2>. QED  BY <1>0, <2>2
<1>. QED  BY <1>3 DEF Fold, h

LEMMA FoldType ==
    ASSUME NEW S, NEW E, NEW f, IsStep(f, S, E), NEW a \in S, NEW s \in Seq(E)
    PROVE  Fold(f, a, s) \in S
<1>1. Run(f, a, s) \in [0 .. Len(s) -> S] /\ Len(s) \in 0 .. Len(s)
  BY RunIs
<1>. QED  BY <1>1 DEF Fold

LEMMA FoldEmpty ==
    ASSUME NEW S, NEW E, NEW f, IsStep(f, S, E), NEW a \in S
    PROVE  Fold(f, a, <<>>) = a
<1>1. \A s \in Seq(E) : Run(f, a, s)[0] = a
  BY RunIs
<1>2. <<>> \in Seq(E) /\ Len(<<>>) = 0
  OBVIOUS
<1>. QED  BY <1>1, <1>2 DEF Fold

LEMMA FoldOne ==
    ASSUME NEW S, NEW E, NEW f, IsStep(f, S, E), NEW a \in S, NEW e \in E
    PROVE  Fold(f, a, <<e>>) = f[<<a, e>>]
<1>1. \A s \in Seq(E) : Len(s) = 1 => Run(f, a, s)[1] = f[<<a, s[1]>>]
  <2>1. \A s \in Seq(E) :
          /\ Run(f, a, s)[0] = a
          /\ \A i \in 1 .. Len(s) : Run(f, a, s)[i] = f[<<Run(f, a, s)[i - 1], s[i]>>]
    BY RunIs
  <2>. QED  BY <2>1
<1>2. <<e>> \in Seq(E) /\ Len(<<e>>) = 1 /\ <<e>>[1] = e
  OBVIOUS
<1>. QED  BY <1>1, <1>2 DEF Fold

\* The steps through s \o t are those through s and, from there, through t.
LEMMA FoldConcat ==
    ASSUME NEW S, NEW E, NEW f, IsStep(f, S, E), NEW a \in S,
           NEW s \in Seq(E), NEW t \in Seq(E)
    PROVE  Fold(f, a, s \o t) = Fold(f, Fold(f, a, s), t)
<1>. DEFINE m == Len(s)
            n == Len(t)
            r == s \o t
            g == Run(f, a, s)
            h == Run(f, a, r)
            k == [i \in 0 .. n |-> h[m + i]]
<1>0. /\ r \in Seq(E) /\ m \in Nat /\ n \in Nat /\ Len(r) = m + n
      /\ \A i \in 1 .. m : r[i] = s[i]
      /\ \A i \in 1 .. n : r[m + i] = t[i]
  BY ConcatProperties
<1>. HIDE DEF r
<1>1. /\ g \in [0 .. m -> S] /\ g[0] = a
      /\ \A i \in 1 .. m : g[i] = f[<<g[i - 1], s[i]>>]
  BY RunIs
<1>2. /\ h \in [0 .. Len(r) -> S] /\ h[0] = a
      /\ \A i \in 1 .. Len(r) : h[i] = f[<<h[i - 1], r[i]>>]
  <2>1. \A q \in Seq(E) :
          /\ Run(f, a, q) \in [0 .. Len(q) -> S] /\ Run(f, a, q)[0] = a
          /\ \A i \in 1 .. Len(q) : Run(f, a, q)[i] = f[<<Run(f, a, q)[i - 1], q[i]>>]
    BY RunIs
  <2>. QED  BY <2>1, <1>0
<1>. HIDE DEF g, h
<1>3. g[m] = h[m]
  <2>. HIDE DEF m, n
  <2>1. \A i \in 1 .. m : i \in 1 .. Len(r)
    BY <1>0
  <2>2. \A i \in 1 .. m : g[i - 1] = h[i - 1] => g[i] = h[i]
    BY <1>0, <1>1, <1>2, <2>1
  <2>3. SameSteps(g, h, m)
    BY <1>1, <1>2, <2>2 DEF SameSteps
  <2>4. \A i \in 0 .. m : g[i] = h[i]
    BY <1>0, <2>3, RunsAgree
  <2>. QED  BY <1>0, <2>4
<1>4. Fold(f, a, s) = h[m] /\ h[m] \in S /\ Fold(f, a, r) = h[Len(r)]
  <2>1. m \in 0 .. Len(r)
    BY <1>0
  <2>2. Fold(f, a, s) = g[m] /\ Fold(f, a, r) = h[Len(r)]
    BY DEF Fold, g, h
  <2>. QED  BY <1>2, <1>3, <2>1, <2>2
<1>5. k[0] = h[m]
  BY <1>0
<1>6. ASSUME NEW i \in 1 .. n PROVE k[i] = f[<<k[i - 1], t[i]>>]
  <2>. HIDE DEF m, n
  <2>1. /\ m + i \in 1 .. Len(r) /\ (m + i) - 1 = m + (i - 1)
        /\ i - 1 \in 0 .. n /\ i \in 0 .. n
    BY <1>0
  <2>2. h[m + i] = f[<<h[m + (i - 1)], r[m + i]>>]
    BY <1>2, <2>1
  <2>. QED  BY <1>0, <2>1, <2>2
<1>7. k[n] = Fold(f, h[m], t)
  <2>. HIDE DEF k
  <2>1. \A i \in 1 .. n : k[i - 1] \in S => k[i] = f[<<k[i - 1], t[i]>>]
    BY <1>6
  <2>. QED  BY <1>4, <1>5, <2>1, RunUnique
<1>8. k[n] = h[Len(r)]
  BY <1>0
<1>. QED  BY <1>4, <1>7, <1>8 DEF r

-----------------------------------------------------------------------------
(* FlattenSeq.                                                             *)

Concat(E) == [p \in Seq(E) \X Seq(E) |-> p[1] \o p[2]]

LEMMA ConcatIsStep ==
    ASSUME NEW E
    PROVE  /\ IsStep(Concat(E), Seq(E), Seq(E))
           /\ \A s, t \in Seq(E) : Concat(E)[<<s, t>>] = s \o t
<1>1. \A p \in Seq(E) \X Seq(E) : p[1] \o p[2] \in Seq(E)
  OBVIOUS
<1>2. ASSUME NEW s \in Seq(E), NEW t \in Seq(E) PROVE Concat(E)[<<s, t>>] = s \o t
  <2>1. <<s, t>> \in Seq(E) \X Seq(E) /\ <<s, t>>[1] = s /\ <<s, t>>[2] = t
    OBVIOUS
  <2>. QED  BY <2>1 DEF Concat
<1>. QED  BY <1>1, <1>2 DEF IsStep, Concat

\* The run that Flatten makes.
LEMMA ConcatRun ==
    ASSUME NEW E, NEW ss \in Seq(Seq(E))
    PROVE  \E r \in [0 .. Len(ss) -> Seq(E)] :
             /\ r[0] = <<>> /\ r[Len(ss)] = Fold(Concat(E), <<>>, ss)
             /\ \A i \in 1 .. Len(ss) : r[i] = r[i - 1] \o ss[i]
<1>. DEFINE n == Len(ss)
            f == Concat(E)
<1>0. n \in Nat /\ \A i \in 1 .. n : i - 1 \in 0 .. n /\ ss[i] \in Seq(E)
  OBVIOUS
<1>1. IsStep(f, Seq(E), Seq(E)) /\ \A s, t \in Seq(E) : f[<<s, t>>] = s \o t
  BY ConcatIsStep
<1>2. ASSUME NEW a \in Seq(E)
      PROVE  /\ Run(f, a, ss) \in [0 .. n -> Seq(E)] /\ Run(f, a, ss)[0] = a
             /\ \A i \in 1 .. n : Run(f, a, ss)[i] = f[<<Run(f, a, ss)[i - 1], ss[i]>>]
  <2>. HIDE DEF f
  <2>. QED  BY <1>1, RunIs
<1>3. <<>> \in Seq(E)
  OBVIOUS
<1>. DEFINE r == Run(f, <<>>, ss)
<1>4. /\ r \in [0 .. n -> Seq(E)] /\ r[0] = <<>>
      /\ \A i \in 1 .. n : r[i] = f[<<r[i - 1], ss[i]>>]
  <2>. HIDE DEF f, n
  <2>. QED  BY <1>2, <1>3
<1>5. r[n] = Fold(f, <<>>, ss)
  BY DEF Fold
<1>. HIDE DEF r, f
<1>6. \A i \in 1 .. n : r[i] = r[i - 1] \o ss[i]
  <2>1. \A i \in 1 .. n : r[i - 1] \in Seq(E)
    BY <1>0, <1>4
  <2>. QED  BY <1>0, <1>1, <1>4, <2>1
<1>. QED  BY <1>4, <1>5, <1>6 DEF f

LEMMA FlattenIsFold ==
    ASSUME NEW E, NEW ss \in Seq(Seq(E))
    PROVE  FlattenSeq(ss) = Fold(Concat(E), <<>>, ss)
<1>. DEFINE n == Len(ss)
            Flat(g) == g = [i \in 1 .. n |-> IF i = 1 THEN ss[i] ELSE g[i - 1] \o ss[i]]
            g == CHOOSE g : Flat(g)
<1>0. /\ n \in Nat /\ \A i \in 1 .. n : ss[i] \in Seq(E)
      /\ \A i \in 1 .. n : i # 1 => i - 1 \in 1 .. n
  OBVIOUS
<1>1. PICK r \in [0 .. n -> Seq(E)] :
        /\ r[0] = <<>> /\ r[n] = Fold(Concat(E), <<>>, ss)
        /\ \A i \in 1 .. n : r[i] = r[i - 1] \o ss[i]
  BY ConcatRun
<1>2. CASE n = 0
  <2>1. ss = <<>> /\ r[n] = <<>>
    BY <1>1, <1>2
  <2>2. FlattenSeq(ss) = ss
    BY <1>2 DEF FlattenSeq
  <2>. QED  BY <1>1, <2>1, <2>2
<1>3. CASE n # 0
  <2>1. 1 \in 1 .. n /\ r[1] = ss[1]
    <3>1. 1 \in 1 .. n /\ ss[1] \in Seq(E)
      BY <1>0, <1>3
    <3>2. r[1] = r[0] \o ss[1]
      <4>1. r[1] = r[1 - 1] \o ss[1]
        BY <1>1, <3>1
      <4>. QED  BY <4>1
    <3>3. \A s \in Seq(E) : r[0] \o s = s
      BY <1>1
    <3>. QED  BY <3>1, <3>2, <3>3
  <2>2. Flat([i \in 1 .. n |-> r[i]])
    BY <1>0, <1>1, <2>1
  <2>3. Flat(g)
    <3>. HIDE DEF Flat
    <3>. QED  BY <2>2
  <2>4. FlattenSeq(ss) = g[n]
    BY <1>3 DEF FlattenSeq
  <2>. HIDE DEF g
  <2>5. ASSUME NEW i \in 1 .. n PROVE g[i] = IF i = 1 THEN ss[i] ELSE g[i - 1] \o ss[i]
    BY <2>3
  <2>. DEFINE h == [i \in 0 .. n |-> IF i = 0 THEN r[0] ELSE g[i]]
  <2>6. SameSteps(h, r, n)
    <3>1. h[0] = r[0]
      BY <1>0
    <3>2. ASSUME NEW i \in 1 .. n, h[i - 1] = r[i - 1] PROVE h[i] = r[i]
      <4>0. i \in 0 .. n /\ i - 1 \in 0 .. n /\ h[i] = g[i]
        BY <1>0
      <4>1. CASE i = 1
        BY <2>1, <2>5, <4>0, <4>1
      <4>2. CASE i # 1
        <5>1. h[i - 1] = g[i - 1]
          BY <4>0, <4>2
        <5>. QED  BY <1>1, <2>5, <3>2, <4>0, <4>2, <5>1
      <4>. QED  BY <4>1, <4>2
    <3>. QED  BY <3>1, <3>2 DEF SameSteps
  <2>7. h[n] = r[n]
    <3>. HIDE DEF h, n
    <3>1. \A i \in 0 .. n : h[i] = r[i]
      BY <1>0, <2>6, RunsAgree
    <3>. QED  BY <1>0, <3>1
  <2>8. h[n] = g[n]
    BY <1>0, <1>3
  <2>. QED  BY <1>1, <2>4, <2>7, <2>8
<1>. QED  BY <1>2, <1>3

\* What FlattenSeq computes, step by step.
FlattenSteps(r, ss, E) ==
    /\ r \in [0 .. Len(ss) -> Seq(E)]
    /\ r[0] = <<>> /\ r[Len(ss)] = FlattenSeq(ss)
    /\ \A i \in 1 .. Len(ss) : r[i] = r[i - 1] \o ss[i]

LEMMA FlattenRun ==
    ASSUME NEW E, NEW ss \in Seq(Seq(E))
    PROVE  \E r : FlattenSteps(r, ss, E)
<1>1. PICK r \in [0 .. Len(ss) -> Seq(E)] :
        /\ r[0] = <<>> /\ r[Len(ss)] = Fold(Concat(E), <<>>, ss)
        /\ \A i \in 1 .. Len(ss) : r[i] = r[i - 1] \o ss[i]
  BY ConcatRun
<1>2. r[Len(ss)] = FlattenSeq(ss)
  BY <1>1, FlattenIsFold
<1>3. FlattenSteps(r, ss, E)
  BY <1>1, <1>2 DEF FlattenSteps
<1>. QED  BY <1>3

LEMMA FlattenType ==
    ASSUME NEW E, NEW ss \in Seq(Seq(E))
    PROVE  FlattenSeq(ss) \in Seq(E)
<1>1. Len(ss) \in 0 .. Len(ss)
  OBVIOUS
<1>2. PICK r : FlattenSteps(r, ss, E)
  BY FlattenRun
<1>. QED  BY <1>1, <1>2 DEF FlattenSteps

LEMMA FlattenConcat ==
    ASSUME NEW E, NEW ss \in Seq(Seq(E)), NEW s \in Seq(E)
    PROVE  FlattenSeq(ss \o <<s>>) = FlattenSeq(ss) \o s
<1>. DEFINE n == Len(ss)
            ts == ss \o <<s>>
<1>0. /\ n \in Nat /\ ts \in Seq(Seq(E)) /\ Len(ts) = n + 1 /\ ts[n + 1] = s
      /\ \A i \in 1 .. n : ts[i] = ss[i]
  OBVIOUS
<1>. HIDE DEF ts
<1>1. PICK p :
        /\ p \in [0 .. n -> Seq(E)] /\ p[0] = <<>> /\ p[n] = FlattenSeq(ss)
        /\ \A i \in 1 .. n : p[i] = p[i - 1] \o ss[i]
  <2>1. PICK x : FlattenSteps(x, ss, E)
    BY FlattenRun
  <2>. QED  BY <2>1 DEF FlattenSteps
<1>2. PICK q :
        /\ q \in [0 .. n + 1 -> Seq(E)] /\ q[0] = <<>> /\ q[n + 1] = FlattenSeq(ts)
        /\ \A i \in 1 .. n + 1 : q[i] = q[i - 1] \o ts[i]
  <2>1. PICK x : FlattenSteps(x, ts, E)
    BY <1>0, FlattenRun
  <2>. QED  BY <1>0, <2>1 DEF FlattenSteps
<1>. HIDE DEF n
<1>3. SameSteps(p, q, n)
  <2>1. \A i \in 1 .. n : i \in 1 .. n + 1
    BY <1>0
  <2>. QED  BY <1>0, <1>1, <1>2, <2>1 DEF SameSteps
<1>4. p[n] = q[n]
  <2>1. \A i \in 0 .. n : p[i] = q[i]
    BY <1>0, <1>3, RunsAgree
  <2>. QED  BY <1>0, <2>1
<1>5. q[n + 1] = q[n] \o ts[n + 1]
  <2>1. n + 1 \in 1 .. n + 1 /\ (n + 1) - 1 = n
    BY <1>0
  <2>. QED  BY <1>2, <2>1
<1>. QED  BY <1>0, <1>1, <1>2, <1>4, <1>5 DEF ts

LEMMA FlattenOne ==
    ASSUME NEW E, NEW s \in Seq(E)
    PROVE  FlattenSeq(<<s>>) = s
<1>. DEFINE ss == <<s>>
<1>0. ss \in Seq(Seq(E)) /\ Len(ss) = 1 /\ ss[1] = s
  <2>. DEFINE S == Seq(E)
  <2>. HIDE DEF S
  <2>. QED  BY ShortSeq DEF S
<1>. HIDE DEF ss
<1>1. PICK r : FlattenSteps(r, ss, E)
  BY <1>0, FlattenRun
<1>2. r[0] = <<>> /\ r[1] = FlattenSeq(ss) /\ r[1] = r[0] \o s
  <2>1. 1 \in 1 .. 1 /\ 1 - 1 = 0
    OBVIOUS
  <2>. QED  BY <1>0, <1>1, <2>1 DEF FlattenSteps
<1>3. <<>> \o s = s
  OBVIOUS
<1>. QED  BY <1>2, <1>3 DEF ss

\* A relation that holds between pieces holds between what they add up to.
Multiplicative(R, E) ==
    /\ <<(<<>>), (<<>>)>> \in R
    /\ \A s, t, u, v \in Seq(E) :
         <<s, t>> \in R /\ <<u, v>> \in R => <<s \o u, t \o v>> \in R

LEMMA FlattenRelated ==
    ASSUME NEW E, NEW R, Multiplicative(R, E),
           NEW ss \in Seq(Seq(E)), NEW ts \in Seq(Seq(E)), Len(ss) = Len(ts),
           \A i \in 1 .. Len(ss) : <<ss[i], ts[i]>> \in R
    PROVE  <<FlattenSeq(ss), FlattenSeq(ts)>> \in R
<1>. DEFINE n == Len(ss)
<1>0. n \in Nat /\ \A i \in 1 .. n : ss[i] \in Seq(E) /\ ts[i] \in Seq(E)
  OBVIOUS
<1>1. PICK p :
        /\ p \in [0 .. n -> Seq(E)] /\ p[0] = <<>> /\ p[n] = FlattenSeq(ss)
        /\ \A i \in 1 .. n : p[i] = p[i - 1] \o ss[i]
  <2>1. PICK x : FlattenSteps(x, ss, E)
    BY FlattenRun
  <2>. QED  BY <2>1 DEF FlattenSteps
<1>2. PICK q :
        /\ q \in [0 .. n -> Seq(E)] /\ q[0] = <<>> /\ q[n] = FlattenSeq(ts)
        /\ \A i \in 1 .. n : q[i] = q[i - 1] \o ts[i]
  <2>1. PICK x : FlattenSteps(x, ts, E)
    BY FlattenRun
  <2>. QED  BY <2>1 DEF FlattenSteps
<1>. DEFINE T == {i \in 0 .. n : <<p[i], q[i]>> \in R}
<1>3. 0 \in T
  <2>1. <<p[0], q[0]>> \in R
    <3>1. <<p[0], q[0]>> = <<(<<>>), (<<>>)>>
      BY <1>1, <1>2
    <3>. QED  BY <3>1 DEF Multiplicative
  <2>. QED  BY <1>0, <2>1
<1>4. ASSUME NEW i \in 1 .. n, i - 1 \in T PROVE i \in T
  <2>0. i - 1 \in 0 .. n /\ i \in 0 .. n
    BY <1>0
  <2>1. p[i - 1] \in Seq(E) /\ q[i - 1] \in Seq(E) /\ <<p[i - 1], q[i - 1]>> \in R
    BY <1>1, <1>2, <1>4, <2>0
  <2>2. <<p[i - 1] \o ss[i], q[i - 1] \o ts[i]>> \in R
    BY <1>0, <2>1 DEF Multiplicative
  <2>. QED  BY <1>1, <1>2, <2>0, <2>2
<1>5. n \in T
  <2>. HIDE DEF T, n
  <2>1. 0 .. n \subseteq T
    BY <1>0, <1>3, <1>4, UpTo
  <2>. QED  BY <1>0, <2>1
<1>. QED  BY <1>1, <1>2, <1>5

LEMMA FlattenSingles ==
    ASSUME NEW E, NEW s \in Seq(E)
    PROVE  FlattenSeq([i \in DOMAIN s |-> <<s[i]>>]) = s
<1>. DEFINE n == Len(s)
            ss == [i \in DOMAIN s |-> <<s[i]>>]
<1>0. /\ n \in Nat /\ ss \in Seq(Seq(E)) /\ Len(ss) = n
      /\ \A i \in 1 .. n : ss[i] = <<s[i]>>
  <2>1. n \in Nat /\ DOMAIN s = 1 .. n /\ \A i \in 1 .. n : <<s[i]>> \in Seq(E)
    OBVIOUS
  <2>. QED  BY <2>1
<1>. HIDE DEF ss
<1>1. PICK p :
        /\ p \in [0 .. n -> Seq(E)] /\ p[0] = <<>> /\ p[n] = FlattenSeq(ss)
        /\ \A i \in 1 .. n : p[i] = p[i - 1] \o ss[i]
  <2>1. PICK x : FlattenSteps(x, ss, E)
    BY <1>0, FlattenRun
  <2>. QED  BY <1>0, <2>1 DEF FlattenSteps
<1>. DEFINE T == {i \in 0 .. n : p[i] = SubSeq(s, 1, i)}
<1>2. 0 \in T
  BY <1>0, <1>1
<1>3. ASSUME NEW i \in 1 .. n, i - 1 \in T PROVE i \in T
  <2>1. p[i] = SubSeq(s, 1, i - 1) \o <<s[i]>>
    BY <1>0, <1>1, <1>3
  <2>2. SubSeq(s, 1, i - 1) \o <<s[i]>> = SubSeq(s, 1, i)
    BY <1>0
  <2>3. i \in 0 .. n
    BY <1>0
  <2>4. p[i] = SubSeq(s, 1, i)
    BY <2>1, <2>2, Zenon
  <2>. QED  BY <2>3, <2>4
<1>4. n \in T
  <2>. HIDE DEF T, n
  <2>1. 0 .. n \subseteq T
    BY <1>0, <1>2, <1>3, UpTo
  <2>. QED  BY <1>0, <2>1
<1>5. SubSeq(s, 1, n) = s
  OBVIOUS
<1>. QED  BY <1>1, <1>4, <1>5 DEF ss

-----------------------------------------------------------------------------
(* Sequences taken apart and put together; functions that run backwards.   *)

\* Downwards: a set that holds each number from which on it holds all.
LEMMA DownTo ==
    ASSUME NEW a \in Nat, NEW n \in Nat, NEW S,
           \A i \in a .. n : (\A j \in i + 1 .. n : j \in S) => i \in S
    PROVE  a .. n \subseteq S
<1>. DEFINE T == {m \in Nat : m <= n - a /\ n - m \notin S}
<1>. SUFFICES ASSUME NEW i \in a .. n, i \notin S PROVE FALSE
  OBVIOUS
<1>1. T \in SUBSET Nat /\ n - i \in T
  <2>1. n - i \in Nat /\ n - i <= n - a /\ n - (n - i) = i
    OBVIOUS
  <2>. QED  BY <2>1
<1>2. PICK m \in T : \A k \in T : ~ (k < m)
  <2>. HIDE DEF T
  <2>. QED  BY <1>1, LeastElement
<1>3. m \in Nat /\ m <= n - a /\ n - m \notin S /\ n - m \in a .. n
  BY <1>2
<1>4. ASSUME NEW j \in (n - m) + 1 .. n PROVE j \in S
  <2>1. n - j \in Nat /\ n - j < m /\ n - j <= n - a /\ n - (n - j) = j
    BY <1>3
  <2>2. n - j \notin T
    BY <1>2, <2>1
  <2>. QED  BY <2>1, <2>2
<1>. QED  BY <1>3, <1>4

\* The initial segments are the sets closed under going down.
LEMMA DownClosed ==
    ASSUME NEW n \in Nat, NEW P \in SUBSET (1 .. n),
           \A i, j \in 1 .. n : j \in P /\ i <= j => i \in P
    PROVE  \E k \in 0 .. n : P = 1 .. k
<1>. DEFINE T == {i \in Nat : i >= 1 /\ i \notin P}
<1>1. T \in SUBSET Nat /\ n + 1 \in T
  OBVIOUS
<1>2. PICK m \in T : \A i \in T : ~ (i < m)
  <2>. HIDE DEF T
  <2>. QED  BY <1>1, LeastElement
<1>3. m \in Nat /\ m >= 1 /\ m \notin P /\ m <= n + 1
  BY <1>1, <1>2
<1>4. \A i \in 1 .. m - 1 : i \in P
  <2>. SUFFICES ASSUME NEW i \in 1 .. m - 1 PROVE i \in P
    OBVIOUS
  <2>1. i \in Nat /\ i >= 1 /\ i < m
    BY <1>3
  <2>. QED  BY <1>2, <2>1
<1>5. \A j \in P : j \in 1 .. m - 1
  <2>. SUFFICES ASSUME NEW j \in P, ~ (j < m) PROVE FALSE
    BY <1>3
  <2>1. j \in 1 .. n /\ m \in 1 .. n /\ m <= j
    BY <1>3
  <2>. QED  BY <1>3, <2>1
<1>6. P = 1 .. m - 1
  BY <1>4, <1>5
<1>7. m - 1 \in 0 .. n
  BY <1>3
<1>. QED  BY <1>6, <1>7

-----------------------------------------------------------------------------
(* Going through a sequence from a place on by jumps.                      *)

Jumps(a, n, stop, next) ==
    /\ next \in [a .. n -> Nat]
    /\ \A i \in a .. n : i \notin stop => next[i] \in i + 1 .. n

\* What g has at a place depends on what it has at the next.
Backwards(g, a, n, stop, next, base, f) ==
    \A i \in a .. n : g[i] = IF i \in stop THEN base[i] ELSE f[<<i, g[next[i]]>>]

LEMMA BackwardsExists ==
    ASSUME NEW a \in Nat, NEW n \in Nat, a <= n, NEW S, NEW stop, NEW next,
           Jumps(a, n, stop, next),
           NEW base \in [a .. n -> S], NEW f \in [(a .. n) \X S -> S]
    PROVE  \E g \in [a .. n -> S] : Backwards(g, a, n, stop, next, base, f)
<1>. DEFINE Value(i, h) == IF i \in stop THEN base[i] ELSE f[<<i, h[next[i]]>>]
            From(k, g) == g \in [k .. n -> S] /\ \A i \in k .. n : g[i] = Value(i, g)
            T == {k \in a .. n : \E g : From(k, g)}
<1>0. /\ \A i \in a .. n : i \notin stop => next[i] \in i + 1 .. n
      /\ \A i \in a .. n : base[i] \in S
  BY DEF Jumps
<1>1. ASSUME NEW k \in a .. n, \A j \in k + 1 .. n : j \in T PROVE k \in T
  <2>1. PICK h : h \in [k + 1 .. n -> S] /\ \A i \in k + 1 .. n : h[i] = Value(i, h)
    <3>1. CASE k = n
      <4>1. k + 1 .. n = {}
        BY <3>1
      <4>. DEFINE h == [i \in k + 1 .. n |-> base[i]]
      <4>2. h \in [k + 1 .. n -> S] /\ \A i \in k + 1 .. n : h[i] = Value(i, h)
        BY <4>1
      <4>. HIDE DEF h, Value
      <4>. QED  BY <4>2
    <3>2. CASE k # n
      <4>1. k + 1 \in k + 1 .. n
        BY <3>2
      <4>2. k + 1 \in T
        BY <1>1, <4>1
      <4>. QED  BY <4>2
    <3>. QED  BY <3>1, <3>2
  <2>. DEFINE g == [i \in k .. n |-> IF i = k THEN Value(k, h) ELSE h[i]]
  <2>2. Value(k, h) \in S
    <3>1. CASE k \in stop
      BY <1>0, <3>1
    <3>2. CASE k \notin stop
      <4>1. next[k] \in k + 1 .. n
        BY <1>0, <3>2
      <4>2. h[next[k]] \in S
        BY <2>1, <4>1
      <4>. QED  BY <3>2, <4>2
    <3>. QED  BY <3>1, <3>2
  <2>3. \A i \in k .. n : i # k => i \in k + 1 .. n
    OBVIOUS
  <2>4. g \in [k .. n -> S]
    <3>. HIDE DEF Value
    <3>. QED  BY <2>1, <2>2, <2>3
  <2>5. \A j \in k + 1 .. n : g[j] = h[j]
    <3>1. \A j \in k + 1 .. n : j \in k .. n /\ j # k
      OBVIOUS
    <3>. QED  BY <3>1
  <2>6. ASSUME NEW i \in k .. n PROVE Value(i, g) = Value(i, h)
    <3>1. i \in a .. n
      OBVIOUS
    <3>2. CASE i \in stop
      BY <3>2
    <3>3. CASE i \notin stop
      <4>1. next[i] \in i + 1 .. n
        BY <1>0, <3>1, <3>3
      <4>2. next[i] \in k + 1 .. n
        BY <4>1
      <4>3. g[next[i]] = h[next[i]]
        BY <2>5, <4>2
      <4>. HIDE DEF g
      <4>. QED  BY <3>3, <4>3
    <3>. QED  BY <3>2, <3>3
  <2>7. ASSUME NEW i \in k .. n PROVE g[i] = Value(i, g)
    <3>1. CASE i = k
      <4>1. g[i] = Value(i, h)
        BY <3>1
      <4>. QED  BY <2>6, <4>1
    <3>2. CASE i # k
      <4>1. i \in k + 1 .. n
        BY <2>3, <3>2
      <4>2. g[i] = h[i] /\ h[i] = Value(i, h)
        BY <2>1, <2>5, <4>1
      <4>. QED  BY <2>6, <4>2
    <3>. QED  BY <3>1, <3>2
  <2>8. From(k, g)
    <3>. HIDE DEF g, Value
    <3>. QED  BY <2>4, <2>7
  <2>. HIDE DEF From, g
  <2>. QED  BY <2>8
<1>2. a \in T
  <2>. HIDE DEF T
  <2>1. a .. n \subseteq T
    BY <1>1, DownTo
  <2>. QED  BY <2>1
<1>3. PICK g : From(a, g)
  BY <1>2
<1>4. Backwards(g, a, n, stop, next, base, f)
  BY <1>3 DEF Backwards
<1>. QED  BY <1>3, <1>4

-----------------------------------------------------------------------------
(* More about FlattenSeq.                                                  *)

LEMMA Associative ==
    ASSUME NEW S
    PROVE  \A s, t, u \in Seq(S) : (s \o t) \o u = s \o (t \o u)
BY ConcatAssociative

LEMMA FlattenEmpty == FlattenSeq(<<>>) = <<>>
BY DEF FlattenSeq

LEMMA FlattenJoin ==
    ASSUME NEW E, NEW ss \in Seq(Seq(E)), NEW tt \in Seq(Seq(E))
    PROVE  FlattenSeq(ss \o tt) = FlattenSeq(ss) \o FlattenSeq(tt)
<1>. DEFINE n == Len(tt)
            Piece == Seq(E)
            Upto(i) == SubSeq(tt, 1, i)
            T == {i \in 0 .. n : FlattenSeq(ss \o Upto(i)) = FlattenSeq(ss) \o FlattenSeq(Upto(i))}
<1>5. \A x, y, z \in Seq(Piece) : (x \o y) \o z = x \o (y \o z)
  <2>. HIDE DEF Piece
  <2>. QED  BY Associative
<1>6. \A x, y, z \in Seq(E) : (x \o y) \o z = x \o (y \o z)
  BY Associative
<1>0. n \in Nat /\ FlattenSeq(ss) \in Seq(E)
  BY FlattenType
<1>1. 0 \in T
  <2>1. Upto(0) = <<>> /\ ss \o <<>> = ss
    OBVIOUS
  <2>2. FlattenSeq(ss) \o <<>> = FlattenSeq(ss)
    BY <1>0
  <2>3. FlattenSeq(ss \o Upto(0)) = FlattenSeq(ss)
    BY <2>1
  <2>4. FlattenSeq(Upto(0)) = <<>>
    BY <2>1, FlattenEmpty
  <2>5. 0 \in 0 .. n
    BY <1>0
  <2>. HIDE DEF Upto, n
  <2>. QED  BY <2>2, <2>3, <2>4, <2>5
<1>2. ASSUME NEW i \in 1 .. n, i - 1 \in T PROVE i \in T
  <2>1. i - 1 \in 0 .. n /\ i \in 0 .. n /\ tt[i] \in Seq(E)
    BY <1>0
  <2>2. Upto(i) = Upto(i - 1) \o <<tt[i]>>
    <3>. HIDE DEF Piece
    <3>1. tt \in Seq(Piece)
      BY DEF Piece
    <3>. QED  BY <1>0, <3>1
  <2>3. Upto(i - 1) \in Seq(Piece) /\ ss \o Upto(i - 1) \in Seq(Piece)
    <3>. HIDE DEF Piece
    <3>1. tt \in Seq(Piece) /\ ss \in Seq(Piece)
      BY DEF Piece
    <3>. QED  BY <1>0, <3>1
  <2>4. ss \o (Upto(i - 1) \o <<tt[i]>>) = (ss \o Upto(i - 1)) \o <<tt[i]>>
    <3>. HIDE DEF Upto
    <3>. DEFINE u == <<tt[i]>>
    <3>1. u \in Seq(Piece)
      BY <2>1, ShortSeq
    <3>. HIDE DEF u, Piece
    <3>2. ss \in Seq(Piece)
      BY DEF Piece
    <3>3. ss \o (Upto(i - 1) \o u) = (ss \o Upto(i - 1)) \o u
      <4>. QED  BY <1>5, <2>3, <3>1, <3>2
    <3>. QED  BY <3>3 DEF u
  <2>. HIDE DEF Upto
  <2>5. FlattenSeq(ss \o Upto(i - 1)) = FlattenSeq(ss) \o FlattenSeq(Upto(i - 1))
    BY <1>2
  <2>6. FlattenSeq(ss \o Upto(i)) = FlattenSeq(ss \o Upto(i - 1)) \o tt[i]
    BY <2>1, <2>2, <2>3, <2>4, FlattenConcat
  <2>7. FlattenSeq(Upto(i)) = FlattenSeq(Upto(i - 1)) \o tt[i]
    BY <2>1, <2>2, <2>3, FlattenConcat
  <2>8. FlattenSeq(Upto(i - 1)) \in Seq(E)
    BY <2>3, FlattenType
  <2>9. (FlattenSeq(ss) \o FlattenSeq(Upto(i - 1))) \o tt[i]
          = FlattenSeq(ss) \o (FlattenSeq(Upto(i - 1)) \o tt[i])
    BY <1>6, <1>0, <2>1, <2>8
  <2>10. FlattenSeq(ss \o Upto(i)) = FlattenSeq(ss) \o FlattenSeq(Upto(i))
    BY <2>5, <2>6, <2>7, <2>9
  <2>. QED  BY <2>1, <2>10
<1>3. n \in T
  <2>. HIDE DEF T, n
  <2>1. 0 .. n \subseteq T
    BY <1>0, <1>1, <1>2, UpTo
  <2>. QED  BY <1>0, <2>1
<1>4. Upto(n) = tt
  OBVIOUS
<1>. HIDE DEF n, Upto
<1>. QED  BY <1>3, <1>4

LEMMA NotEmpty ==
    ASSUME NEW S, NEW s \in Seq(S), Len(s) # 0
    PROVE  s # <<>>
OBVIOUS

LEMMA InFront ==
    ASSUME NEW S, NEW c \in S, NEW s \in Seq(S)
    PROVE  /\ <<c>> \in Seq(S) /\ <<c>> \o s \in Seq(S) /\ Len(<<c>> \o s) = Len(s) + 1
           /\ \A i \in 1 .. Len(s) + 1 : (<<c>> \o s)[i] = IF i = 1 THEN c ELSE s[i - 1]
OBVIOUS

LEMMA Rejoined ==
    ASSUME NEW S, NEW s \in Seq(S), NEW k \in 0 .. Len(s)
    PROVE  /\ SubSeq(s, 1, k) \in Seq(S) /\ Len(SubSeq(s, 1, k)) = k
           /\ SubSeq(s, k + 1, Len(s)) \in Seq(S) /\ Len(SubSeq(s, k + 1, Len(s))) = Len(s) - k
           /\ SubSeq(s, 1, k) \o SubSeq(s, k + 1, Len(s)) = s
<1>1. 1 \in 1 .. Len(s) + 1 /\ k \in 1 - 1 .. Len(s) /\ Len(s) \in k .. Len(s)
  OBVIOUS
<1>2. SubSeq(s, 1, k) \o SubSeq(s, k + 1, Len(s)) = SubSeq(s, 1, Len(s))
  BY <1>1, ConcatAdjacentSubSeq
<1>3. SubSeq(s, 1, Len(s)) = s
  BY SubSeqFull
<1>4. /\ SubSeq(s, 1, k) \in Seq(S) /\ Len(SubSeq(s, 1, k)) = k
      /\ SubSeq(s, k + 1, Len(s)) \in Seq(S) /\ Len(SubSeq(s, k + 1, Len(s))) = Len(s) - k
  OBVIOUS
<1>. QED  BY <1>2, <1>3, <1>4

\* The end of two sequences is in the second.
LEMMA EndOfJoined ==
    ASSUME NEW S, NEW a \in Seq(S), NEW b \in Seq(S), NEW m \in Nat,
           Len(a) <= m, m <= Len(a) + Len(b)
    PROVE  SubSeq(a \o b, m + 1, Len(a \o b)) = SubSeq(b, m - Len(a) + 1, Len(b))
<1>. DEFINE x == SubSeq(a \o b, m + 1, Len(a \o b))
            y == SubSeq(b, m - Len(a) + 1, Len(b))
            n == Len(a) + Len(b) - m
<1>0. /\ a \o b \in Seq(S) /\ Len(a \o b) = Len(a) + Len(b) /\ n \in Nat
      /\ \A i \in 1 .. Len(a) + Len(b) : (a \o b)[i] = IF i <= Len(a) THEN a[i] ELSE b[i - Len(a)]
  BY ConcatProperties
<1>1. x \in Seq(S) /\ Len(x) = n /\ \A i \in 1 .. n : x[i] = (a \o b)[m + i]
  <2>. DEFINE s == a \o b
  <2>. HIDE DEF s
  <2>. QED  BY <1>0 DEF s
<1>2. y \in Seq(S) /\ Len(y) = n /\ \A i \in 1 .. n : y[i] = b[m - Len(a) + i]
  OBVIOUS
<1>3. \A i \in 1 .. n : (a \o b)[m + i] = b[m - Len(a) + i]
  <2>. SUFFICES ASSUME NEW i \in 1 .. n PROVE (a \o b)[m + i] = b[m - Len(a) + i]
    OBVIOUS
  <2>1. m + i \in 1 .. Len(a) + Len(b) /\ ~ (m + i <= Len(a)) /\ m + i - Len(a) = m - Len(a) + i
    OBVIOUS
  <2>. QED  BY <1>0, <2>1
<1>. HIDE DEF x, y, n
<1>4. x = y
  BY <1>0, <1>1, <1>2, <1>3, SeqEqual
<1>. QED  BY <1>4 DEF x, y

\* A sequence's end in two parts.
LEMMA EndSplit ==
    ASSUME NEW S, NEW s \in Seq(S), NEW i \in Nat, NEW n \in Nat, i + n <= Len(s)
    PROVE  /\ SubSeq(s, i + 1, i + n) \in Seq(S)
           /\ SubSeq(s, i + 1, i + n) \o SubSeq(s, i + n + 1, Len(s)) = SubSeq(s, i + 1, Len(s))
<1>1. i + 1 \in 1 .. Len(s) + 1 /\ i + n \in (i + 1) - 1 .. Len(s) /\ Len(s) \in i + n .. Len(s)
  OBVIOUS
<1>2. SubSeq(s, i + 1, i + n) \o SubSeq(s, i + n + 1, Len(s)) = SubSeq(s, i + 1, Len(s))
  BY <1>1, ConcatAdjacentSubSeq
<1>3. SubSeq(s, i + 1, i + n) \in Seq(S)
  OBVIOUS
<1>. QED  BY <1>2, <1>3

\* The end of a sequence to which another is joined.
LEMMA EndGrows ==
    ASSUME NEW S, NEW f \in Seq(S), NEW t \in Seq(S), NEW k \in 0 .. Len(f)
    PROVE  SubSeq(f \o t, k + 1, Len(f \o t)) = SubSeq(f, k + 1, Len(f)) \o t
<1>. DEFINE x == SubSeq(f \o t, k + 1, Len(f \o t))
            z == SubSeq(f, k + 1, Len(f))
            y == z \o t
            n == Len(f) + Len(t) - k
            m == Len(f) - k
<1>0. /\ f \o t \in Seq(S) /\ Len(f \o t) = Len(f) + Len(t) /\ n \in Nat /\ m \in Nat
      /\ \A i \in 1 .. Len(f) + Len(t) : (f \o t)[i] = IF i <= Len(f) THEN f[i] ELSE t[i - Len(f)]
      /\ n = m + Len(t) /\ Len(f) = m + k /\ Len(t) \in Nat /\ k \in Nat
  BY ConcatProperties
<1>1. x \in Seq(S) /\ Len(x) = n /\ \A i \in 1 .. n : x[i] = (f \o t)[k + i]
  <2>. DEFINE s == f \o t
  <2>. HIDE DEF s
  <2>. QED  BY <1>0 DEF s
<1>2. z \in Seq(S) /\ Len(z) = m /\ \A i \in 1 .. m : z[i] = f[k + i]
  OBVIOUS
<1>. HIDE DEF z
<1>3. /\ y \in Seq(S) /\ Len(y) = m + Len(t)
      /\ \A i \in 1 .. m + Len(t) : y[i] = IF i <= m THEN z[i] ELSE t[i - m]
  <2>. HIDE DEF m, x, n
  <2>. QED  BY <1>2, ConcatProperties
<1>. HIDE DEF x, y, m, n
<1>4. \A i \in 1 .. n : x[i] = y[i]
  <2>. SUFFICES ASSUME NEW i \in 1 .. n PROVE x[i] = y[i]
    OBVIOUS
  <2>0. k + i \in 1 .. Len(f) + Len(t) /\ i \in 1 .. m + Len(t)
    BY <1>0
  <2>1. CASE i <= m
    <3>1. k + i <= Len(f)
      BY <1>0, <2>1
    <3>2. i \in 1 .. m
      BY <1>0, <2>1
    <3>3. x[i] = f[k + i]
      BY <1>0, <1>1, <2>0, <3>1
    <3>4. y[i] = f[k + i]
      BY <1>2, <1>3, <2>0, <2>1, <3>2
    <3>. QED  BY <3>3, <3>4
  <2>2. CASE ~ (i <= m)
    <3>1. ~ (k + i <= Len(f)) /\ k + i - Len(f) = i - m
      BY <1>0, <2>2
    <3>2. x[i] = t[i - m]
      BY <1>0, <1>1, <2>0, <3>1
    <3>3. y[i] = t[i - m]
      BY <1>3, <2>0, <2>2
    <3>. QED  BY <3>2, <3>3
  <2>. QED  BY <2>1, <2>2
<1>5. Len(x) = Len(y) /\ Len(x) = n
  BY <1>0, <1>1, <1>3
<1>6. x = y
  BY <1>0, <1>1, <1>3, <1>4, <1>5, SeqEqual
<1>. QED  BY <1>6 DEF x, y, z

LEMMA FrontLast ==
    ASSUME NEW S, NEW s \in Seq(S), s # <<>>
    PROVE  /\ s = Append(SubSeq(s, 1, Len(s) - 1), s[Len(s)])
           /\ SubSeq(s, 1, Len(s) - 1) \in Seq(S) /\ Len(SubSeq(s, 1, Len(s) - 1)) = Len(s) - 1
           /\ \A i \in 1 .. Len(s) - 1 : SubSeq(s, 1, Len(s) - 1)[i] = s[i]
           /\ s[Len(s)] \in S
<1>1. PICK t \in Seq(S), e \in S : s = Append(t, e)
  BY SequenceEmptyOrAppend
<1>2. Len(s) = Len(t) + 1 /\ s[Len(s)] = e
  BY <1>1
<1>3. SubSeq(s, 1, Len(s) - 1) = t
  BY <1>1, <1>2
<1>4. Len(s) - 1 = Len(t) /\ \A i \in 1 .. Len(t) : t[i] = s[i]
  BY <1>1, <1>2
<1>. QED  BY <1>1, <1>2, <1>3, <1>4
=============================================================================
