---------------------------- MODULE LoginProofs ----------------------------
(***************************************************************************)
(* For every set of octets, table of variables, size of subbuffer, command *)
(* and number of steps: what the client quotes telnetd reads as it is      *)
(* meant, nothing leaves the client that was not exported, login is given  *)
(* the terminal type that getterminaltype() promises, and the pty the      *)
(* size of the window.                                                     *)
(***************************************************************************)
EXTENDS Login, SequenceLemmas

-----------------------------------------------------------------------------
(* The client's table of variables.                                        *)

\* An entry of the table.
Entry == [name : Octet, value : Seq(Octet), export : BOOLEAN]

\* The table has each name once.
Unique(table) == \A i, j \in DOMAIN table : table[i].name = table[j].name => i = j

LEMMA OptValues ==
    /\ <<>> \in OptValue
    /\ \A v \in Seq(Octet) : <<v>> \in OptValue /\ <<v>> # <<>> /\ <<v>>[1] = v
    /\ \A o \in OptValue : o # <<>> => o[1] \in Seq(Octet) /\ o = <<o[1]>>
<1>1. <<>> \in Seq(Seq(Octet)) /\ Len(<<>>) <= 1
  OBVIOUS
<1>2. ASSUME NEW v \in Seq(Octet)
      PROVE  <<v>> \in Seq(Seq(Octet)) /\ Len(<<v>>) <= 1 /\ <<v>> # <<>> /\ <<v>>[1] = v
  <2>. DEFINE S == Seq(Octet)
  <2>. HIDE DEF S
  <2>. QED  BY ShortSeq DEF S
<1>3. ASSUME NEW o \in Seq(Seq(Octet)), Len(o) <= 1, o # <<>>
      PROVE  o[1] \in Seq(Octet) /\ o = <<o[1]>>
  BY <1>3, SingleSeq
<1>. QED  BY <1>1, <1>2, <1>3 DEF OptValue

\* env_find() finds the entry with the name, or there is none.
LEMMA Found ==
    ASSUME NEW table \in Table, NEW name
    PROVE  /\ Find(table, name) \in 0 .. Len(table)
           /\ Find(table, name) # 0 => /\ Find(table, name) \in DOMAIN table
                                       /\ table[Find(table, name)] \in Entry
                                       /\ table[Find(table, name)].name = name
           /\ Find(table, name) = 0 => \A i \in DOMAIN table : table[i].name # name
<1>. DEFINE I == {i \in 1 .. Len(table) : table[i].name = name}
<1>0. Len(table) \in Nat /\ DOMAIN table = 1 .. Len(table)
      /\ \A i \in 1 .. Len(table) : table[i] \in Entry
  <2>1. table \in Seq(Entry)
    BY DEF Table, Entry
  <2>. QED  BY <2>1
<1>1. Find(table, name) = IF I # {} THEN Min(I) ELSE 0
  BY DEF Find, SelectInSeq
<1>2. CASE I = {}
  BY <1>0, <1>1, <1>2
<1>3. CASE I # {}
  <2>1. \E n \in I : \A m \in I : ~ (m < n)
    <3>1. I \in SUBSET Nat
      BY <1>0
    <3>. HIDE DEF I
    <3>. QED  BY <1>3, <3>1, LeastElement
  <2>2. Min(I) \in I
    <3>1. \E n \in I : \A m \in I : n =< m
      BY <1>0, <2>1
    <3>. QED  BY <3>1 DEF Min
  <2>. QED  BY <1>0, <1>1, <1>3, <2>2
<1>. QED  BY <1>2, <1>3

\* env_put(), env_export() and env_unexport(), and env_undefine() keep the names unique.
LEMMA PutTable ==
    ASSUME NEW table \in Table, Unique(table), NEW name \in Octet,
           NEW value \in Seq(Octet), NEW export \in BOOLEAN
    PROVE  Put(table, name, value, export) \in Table /\ Unique(Put(table, name, value, export))
<1>. DEFINE entry == [name |-> name, value |-> value, export |-> export]
            i == Find(table, name)
<1>0. entry \in Entry /\ entry.name = name /\ table \in Seq(Entry)
  BY DEF Entry, Table
<1>. HIDE DEF entry
<1>1. CASE i = 0
  <2>1. Put(table, name, value, export) = Append(table, entry)
    BY <1>1 DEF Put, entry
  <2>2. \A j \in DOMAIN table : table[j].name # name
    BY <1>1, Found
  <2>3. Append(table, entry) \in Seq(Entry)
    BY <1>0
  <2>4. Unique(Append(table, entry))
    BY <1>0, <2>2 DEF Unique
  <2>. QED  BY <2>1, <2>3, <2>4 DEF Table, Entry
<1>2. CASE i # 0
  <2>1. Put(table, name, value, export) = [table EXCEPT ![i] = entry]
    BY <1>2 DEF Put, entry
  <2>2. i \in DOMAIN table /\ table[i].name = name
    BY <1>2, Found
  <2>. HIDE DEF i
  <2>3. [table EXCEPT ![i] = entry] \in Seq(Entry)
    BY <1>0, <2>2
  <2>4. Unique([table EXCEPT ![i] = entry])
    <3>1. \A j \in DOMAIN table : [table EXCEPT ![i] = entry][j].name = table[j].name
      BY <1>0, <2>2
    <3>2. DOMAIN [table EXCEPT ![i] = entry] = DOMAIN table
      OBVIOUS
    <3>. QED  BY <3>1, <3>2 DEF Unique
  <2>. QED  BY <2>1, <2>3, <2>4 DEF Table, Entry
<1>. QED  BY <1>1, <1>2

LEMMA SetExportTable ==
    ASSUME NEW table \in Table, Unique(table), NEW name, NEW export \in BOOLEAN
    PROVE  SetExport(table, name, export) \in Table /\ Unique(SetExport(table, name, export))
<1>. DEFINE i == Find(table, name)
            new == [table EXCEPT ![i].export = export]
<1>1. CASE i # 0
  <2>1. i \in DOMAIN table /\ table[i] \in Entry /\ table \in Seq(Entry)
    <3>1. table \in Seq(Entry)
      BY DEF Table, Entry
    <3>. QED  BY <1>1, <3>1, Found
  <2>2. SetExport(table, name, export) = new
    BY <1>1 DEF SetExport
  <2>. HIDE DEF i
  <2>3. [table[i] EXCEPT !.export = export] \in Entry
        /\ [table[i] EXCEPT !.export = export].name = table[i].name
    BY <2>1 DEF Entry
  <2>4. new \in Seq(Entry)
    BY <2>1, <2>3
  <2>5. \A j \in DOMAIN table : new[j].name = table[j].name
    BY <2>1, <2>3
  <2>6. DOMAIN new = DOMAIN table
    OBVIOUS
  <2>. QED  BY <2>2, <2>4, <2>5, <2>6 DEF Unique, Table, Entry
<1>. QED  BY <1>1 DEF SetExport

LEMMA UndefineTable ==
    ASSUME NEW table \in Table, Unique(table), NEW name
    PROVE  /\ Undefine(table, name) \in Table /\ Unique(Undefine(table, name))
           /\ \A k \in DOMAIN Undefine(table, name) :
                \E l \in DOMAIN table : Undefine(table, name)[k] = table[l]
<1>. DEFINE i == Find(table, name)
            new == RemoveAt(table, i)
<1>1. CASE i # 0
  <2>1. i \in 1 .. Len(table) /\ table \in Seq(Entry) /\ Len(table) \in Nat
    <3>1. table \in Seq(Entry)
      BY DEF Table, Entry
    <3>. QED  BY <1>1, <3>1, Found
  <2>2. Undefine(table, name) = new
    BY <1>1 DEF Undefine
  <2>. HIDE DEF i
  <2>3. /\ new \in Seq(Entry) /\ Len(new) = Len(table) - 1
        /\ \A j \in 1 .. Len(table) - 1 : new[j] = IF j < i THEN table[j] ELSE table[j + 1]
    <3>1. /\ SubSeq(table, 1, i - 1) \in Seq(Entry) /\ Len(SubSeq(table, 1, i - 1)) = i - 1
          /\ \A j \in 1 .. i - 1 : SubSeq(table, 1, i - 1)[j] = table[j]
      BY <2>1
    <3>2. /\ SubSeq(table, i + 1, Len(table)) \in Seq(Entry)
          /\ Len(SubSeq(table, i + 1, Len(table))) = Len(table) - i
          /\ \A j \in 1 .. Len(table) - i :
               SubSeq(table, i + 1, Len(table))[j] = table[j + i]
      BY <2>1
    <3>. DEFINE a == SubSeq(table, 1, i - 1)
                b == SubSeq(table, i + 1, Len(table))
    <3>3. new = a \o b
      BY DEF RemoveAt
    <3>. HIDE DEF a, b, new
    <3>4. /\ a \o b \in Seq(Entry) /\ Len(a \o b) = Len(table) - 1
          /\ \A j \in 1 .. Len(table) - 1 :
               (a \o b)[j] = IF j < i THEN a[j] ELSE b[j - (i - 1)]
      <4>1. /\ a \in Seq(Entry) /\ Len(a) = i - 1
            /\ b \in Seq(Entry) /\ Len(b) = Len(table) - i
        BY <3>1, <3>2 DEF a, b
      <4>2. /\ a \o b \in Seq(Entry) /\ Len(a \o b) = Len(a) + Len(b)
            /\ \A j \in 1 .. Len(a) + Len(b) :
                 (a \o b)[j] = IF j <= Len(a) THEN a[j] ELSE b[j - Len(a)]
        BY <4>1, ConcatProperties
      <4>. QED  BY <2>1, <4>1, <4>2
    <3>5. ASSUME NEW j \in 1 .. Len(table) - 1
          PROVE  new[j] = IF j < i THEN table[j] ELSE table[j + 1]
      <4>1. CASE j < i
        BY <2>1, <3>1, <3>3, <3>4, <4>1 DEF a
      <4>2. CASE j >= i
        <5>1. j - (i - 1) \in 1 .. Len(table) - i /\ (j - (i - 1)) + i = j + 1 /\ ~(j < i)
          BY <2>1, <4>2
        <5>. QED  BY <3>2, <3>3, <3>4, <5>1 DEF b
      <4>. QED  BY <2>1, <4>1, <4>2
    <3>. QED  BY <3>3, <3>4, <3>5
  <2>. HIDE DEF new
  <2>4. DOMAIN new = 1 .. Len(table) - 1 /\ DOMAIN table = 1 .. Len(table)
    BY <2>1, <2>3
  <2>5. Unique(new)
    <3>. SUFFICES ASSUME NEW k \in DOMAIN new, NEW l \in DOMAIN new, new[k].name = new[l].name
                  PROVE  k = l
      BY DEF Unique
    <3>. DEFINE At(x) == IF x < i THEN x ELSE x + 1
    <3>1. At(k) \in DOMAIN table /\ At(l) \in DOMAIN table
      BY <2>1, <2>4
    <3>2. new[k] = table[At(k)] /\ new[l] = table[At(l)]
      BY <2>3, <2>4
    <3>3. At(k) = At(l)
      BY <3>1, <3>2 DEF Unique
    <3>. QED  BY <2>1, <2>4, <3>3
  <2>6. ASSUME NEW k \in DOMAIN new PROVE \E l \in DOMAIN table : new[k] = table[l]
    <3>. DEFINE l == IF k < i THEN k ELSE k + 1
    <3>1. l \in DOMAIN table /\ new[k] = table[l]
      BY <2>1, <2>3, <2>4
    <3>. QED  BY <3>1
  <2>. QED  BY <2>2, <2>3, <2>5, <2>6 DEF Table, Entry
<1>2. CASE i = 0
  BY <1>2 DEF Undefine
<1>. QED  BY <1>1, <1>2

\* What env_getvalue() answers is in the table.
LEMMA GetValueIs ==
    ASSUME NEW table \in Table, NEW name, NEW exportedOnly \in BOOLEAN
    PROVE  /\ GetValue(table, name, exportedOnly) \in OptValue
           /\ exportedOnly /\ GetValue(table, name, exportedOnly) # <<>> =>
                <<name, GetValue(table, name, exportedOnly)[1]>> \in Pairs(table)
<1>. DEFINE i == Find(table, name)
<1>1. CASE i # 0 /\ (exportedOnly => table[i].export)
  <2>1. GetValue(table, name, exportedOnly) = <<table[i].value>>
    BY <1>1 DEF GetValue
  <2>2. i \in DOMAIN table /\ table[i] \in Entry /\ table[i].name = name
    BY <1>1, Found
  <2>3. table[i].value \in Seq(Octet)
    BY <2>2 DEF Entry
  <2>4. exportedOnly => <<name, table[i].value>> \in Pairs(table)
    BY <1>1, <2>2 DEF Pairs, Range
  <2>. HIDE DEF i
  <2>. QED  BY <2>1, <2>3, <2>4, OptValues
<1>2. CASE ~(i # 0 /\ (exportedOnly => table[i].export))
  <2>1. GetValue(table, name, exportedOnly) = <<>>
    BY <1>2 DEF GetValue
  <2>. QED  BY <2>1, OptValues
<1>. QED  BY <1>1, <1>2

\* env_init() makes a table with each name once.
LEMMA CopiedTable ==
    ASSUME NEW environ \in Seq(Octet \X Seq(Octet))
    PROVE  Copied(environ) \in Table /\ Unique(Copied(environ))
<1>. DEFINE S == {t \in Table : Unique(t)}
            E == Octet \X Seq(Octet)
            no == FALSE
            f == [p \in S \X E |-> Put(p[1], p[2][1], p[2][2], no)]
            n == Len(environ)
            none == <<>>
            Step(g) == g = [i \in 0 .. n |->
                IF i = 0 THEN none ELSE Put(g[i - 1], environ[i][1], environ[i][2], no)]
            g == CHOOSE g : Step(g)
<1>0. n \in Nat /\ none \in S /\ \A i \in 1 .. n : environ[i] \in E
  BY DEF Table, Unique
<1>1. IsStep(f, S, E)
  BY PutTable DEF IsStep
<1>2. \A t \in S, e \in E : f[<<t, e>>] = Put(t, e[1], e[2], no)
  OBVIOUS
<1>. HIDE DEF f, S, none, no
<1>. DEFINE r == Run(f, none, environ)
<1>3. /\ r \in [0 .. n -> S] /\ r[0] = none
      /\ \A i \in 1 .. n : r[i] = f[<<r[i - 1], environ[i]>>]
  <2>1. ASSUME NEW a \in S
        PROVE  /\ Run(f, a, environ) \in [0 .. n -> S] /\ Run(f, a, environ)[0] = a
               /\ \A i \in 1 .. n : Run(f, a, environ)[i] = f[<<Run(f, a, environ)[i - 1], environ[i]>>]
    BY <1>1, RunIs
  <2>. QED  BY <1>0, <2>1
<1>. HIDE DEF r, n
<1>4. \A i \in 1 .. n : i - 1 \in 0 .. n /\ r[i - 1] \in S
  BY <1>0, <1>3
<1>5. Step(r)
  <2>1. \A i \in 1 .. n : r[i] = Put(r[i - 1], environ[i][1], environ[i][2], no)
    BY <1>0, <1>2, <1>3, <1>4
  <2>2. \A i \in 0 .. n :
          r[i] = IF i = 0 THEN none ELSE Put(r[i - 1], environ[i][1], environ[i][2], no)
    BY <1>0, <1>3, <2>1
  <2>. QED  BY <1>3, <2>2
<1>6. Step(g)
  <2>. HIDE DEF Step
  <2>. QED  BY <1>5
<1>7. Copied(environ) = g[n]
  BY DEF Copied, n, none, no
<1>. HIDE DEF g
<1>8. SameSteps(g, r, n)
  <2>1. \A h : Step(h) => /\ h[0] = none
                         /\ \A i \in 1 .. n : h[i] = Put(h[i - 1], environ[i][1], environ[i][2], no)
    BY <1>0
  <2>. HIDE DEF Step
  <2>. QED  BY <1>5, <1>6, <2>1 DEF SameSteps
<1>9. g[n] = r[n]
  <2>. HIDE DEF n, Step
  <2>. QED  BY <1>0, <1>8, RunsAgree
<1>. QED  BY <1>0, <1>3, <1>7, <1>9 DEF S

LEMMA EnvInitTable ==
    ASSUME NEW environ \in Seq(Octet \X Seq(Octet)), NEW user \in Seq(Seq(Octet))
    PROVE  EnvInit(environ, user) \in Table /\ Unique(EnvInit(environ, user))
<1>. DEFINE copied == Copied(environ)
            fixed == FixDisplay(copied)
            named == DefineUser(fixed)
            table == SetExport(named, "PRINTER", TRUE)
<1>1. copied \in Table /\ Unique(copied)
  BY CopiedTable
<1>2. fixed \in Table /\ Unique(fixed)
  <2>. DEFINE i == Find(copied, "DISPLAY")
              value == copied[i].value
              final == IF value # <<>> /\ value[1] = ":" THEN <<"h">> \o value ELSE value
              entry == [copied[i] EXCEPT !.export = TRUE, !.value = final]
              new == [copied EXCEPT ![i] = entry]
  <2>. HIDE DEF copied
  <2>1. CASE i # 0
    <3>1. i \in DOMAIN copied /\ copied[i] \in Entry /\ copied \in Seq(Entry)
      BY <1>1, <2>1, Found DEF Table, Entry
    <3>2. value \in Seq(Octet)
      BY <3>1 DEF Entry
    <3>3. final \in Seq(Octet)
      <4>. HIDE DEF value
      <4>1. <<"h">> \in Seq(Octet)
        BY OctetAssumption, ShortSeq
      <4>2. <<"h">> \o value \in Seq(Octet)
        BY <3>2, <4>1, JoinedSeq
      <4>. QED  BY <3>2, <4>2
    <3>4. fixed = new
      <4>1. FixDisplay(copied) = [copied EXCEPT ![i].export = TRUE, ![i].value = final]
        BY <2>1 DEF FixDisplay
      <4>2. [copied EXCEPT ![i].export = TRUE, ![i].value = final] = new
        <5>. HIDE DEF i, final
        <5>. QED  BY <3>1 DEF Entry
      <4>. QED  BY <4>1, <4>2
    <3>. HIDE DEF final
    <3>5. entry \in Entry /\ entry.name = copied[i].name
      BY <3>1, <3>3 DEF Entry
    <3>. HIDE DEF entry, i
    <3>6. new \in Seq(Entry) /\ DOMAIN new = DOMAIN copied
          /\ \A j \in DOMAIN copied : new[j].name = copied[j].name
      BY <3>1, <3>5
    <3>. QED  BY <1>1, <3>4, <3>6 DEF Table, Entry, Unique
  <2>2. CASE i = 0
    BY <1>1, <2>2 DEF FixDisplay
  <2>. QED  BY <2>1, <2>2
<1>3. named \in Table /\ Unique(named)
  <2>. DEFINE logname == GetValue(fixed, "LOGNAME", FALSE)
  <2>. HIDE DEF fixed
  <2>1. logname # <<>> => logname[1] \in Seq(Octet)
    BY <1>2, GetValueIs, OptValues
  <2>2. named = fixed \/ (logname # <<>> /\ named = Put(fixed, "USER", logname[1], FALSE))
    BY DEF DefineUser
  <2>. HIDE DEF logname
  <2>3. ASSUME NEW v \in Seq(Octet)
        PROVE  Put(fixed, "USER", v, FALSE) \in Table /\ Unique(Put(fixed, "USER", v, FALSE))
    <3>1. \A name \in Octet, e \in BOOLEAN :
            Put(fixed, name, v, e) \in Table /\ Unique(Put(fixed, name, v, e))
      BY <1>2, PutTable
    <3>2. "USER" \in Octet
      BY OctetAssumption DEF Allowed
    <3>. QED  BY <3>1, <3>2, Zenon
  <2>. QED  BY <1>2, <2>1, <2>2, <2>3
<1>4. table \in Table /\ Unique(table)
  <2>. HIDE DEF named
  <2>1. \A name : \A e \in BOOLEAN : SetExport(named, name, e) \in Table /\ Unique(SetExport(named, name, e))
    BY <1>3, SetExportTable
  <2>. DEFINE yes == TRUE
  <2>2. yes \in BOOLEAN
    OBVIOUS
  <2>. HIDE DEF yes
  <2>3. \A name : SetExport(named, name, yes) \in Table /\ Unique(SetExport(named, name, yes))
    BY <2>1, <2>2
  <2>. QED  BY <2>3 DEF yes
<1>5. ASSUME NEW v \in Seq(Octet)
      PROVE  Put(table, "USER", v, TRUE) \in Table /\ Unique(Put(table, "USER", v, TRUE))
  <2>. HIDE DEF table
  <2>1. \A name \in Octet, e \in BOOLEAN :
          Put(table, name, v, e) \in Table /\ Unique(Put(table, name, v, e))
    BY <1>4, PutTable
  <2>2. "USER" \in Octet
    BY OctetAssumption DEF Allowed
  <2>. QED  BY <2>1, <2>2, Zenon
<1>6. EnvInit(environ, user) = IF user = <<>> THEN table ELSE Put(table, "USER", user[1], TRUE)
  BY DEF EnvInit
<1>7. user # <<>> => user[1] \in Seq(Octet)
  OBVIOUS
<1>. HIDE DEF table
<1>. QED  BY <1>4, <1>5, <1>6, <1>7

LEMMA ExportedTable ==
    ASSUME NEW table \in Table
    PROVE  /\ Exported(table) \in Table
           /\ \A k \in DOMAIN Exported(table) :
                /\ Exported(table)[k].export
                /\ \E l \in DOMAIN table : Exported(table)[k] = table[l]
<1>. DEFINE E == {e \in Entry : \E l \in DOMAIN table : e = table[l]}
            S == Seq({e \in E : e.export})
            Listed(t, e) == IF e.export THEN Append(t, e) ELSE t
            f == [p \in S \X E |-> Listed(p[1], p[2])]
            n == Len(table)
            none == <<>>
            Step(g) == g = [i \in 0 .. n |-> IF i = 0 THEN none ELSE Listed(g[i - 1], table[i])]
            g == CHOOSE g : Step(g)
<1>0. n \in Nat /\ none \in S /\ table \in Seq(E) /\ \A i \in 1 .. n : table[i] \in E
  <2>1. table \in Seq(Entry)
    BY DEF Table, Entry
  <2>. QED  BY <2>1
<1>1. \A t \in S, e \in E : Listed(t, e) \in S
  OBVIOUS
<1>2. Exported(table) = g[n]
  BY DEF Exported
<1>. HIDE DEF S, E, none, n, Listed
<1>3. IsStep(f, S, E) /\ \A t \in S, e \in E : f[<<t, e>>] = Listed(t, e)
  BY <1>1 DEF IsStep
<1>. HIDE DEF f
<1>4. PICK r \in [0 .. n -> S] : Runs(f, none, table, r)
  BY <1>0, <1>3, RunExists DEF n
<1>5. \A i \in 1 .. n : i - 1 \in 0 .. n /\ r[i - 1] \in S
  BY <1>0, <1>4
<1>6. Step(r)
  <2>1. \A i \in 0 .. n : r[i] = IF i = 0 THEN none ELSE f[<<r[i - 1], table[i]>>]
    BY <1>4 DEF Runs, n
  <2>2. ASSUME NEW i \in 1 .. n PROVE r[i] = Listed(r[i - 1], table[i])
    <3>1. r[i] = f[<<r[i - 1], table[i]>>]
      BY <1>0, <2>1
    <3>2. f[<<r[i - 1], table[i]>>] = Listed(r[i - 1], table[i])
      BY <1>0, <1>3, <1>5
    <3>. QED  BY <3>1, <3>2
  <2>3. r[0] = none
    <3>1. 0 \in 0 .. n
      BY <1>0
    <3>. QED  BY <2>1, <3>1
  <2>4. \A i \in 0 .. n : r[i] = IF i = 0 THEN none ELSE Listed(r[i - 1], table[i])
    BY <1>0, <2>2, <2>3
  <2>. QED  BY <1>4, <2>4
<1>7. Step(g)
  <2>. HIDE DEF Step
  <2>. QED  BY <1>6
<1>. HIDE DEF g
<1>8. /\ g[0] = none
      /\ \A i \in 1 .. n : g[i - 1] \in S => g[i] = f[<<g[i - 1], table[i]>>]
  BY <1>0, <1>3, <1>7
<1>9. g[n] = Fold(f, none, table)
  <2>. HIDE DEF Step
  <2>. QED  BY <1>0, <1>3, <1>8, RunUnique DEF n
<1>10. Exported(table) \in S
  BY <1>0, <1>2, <1>3, <1>9, FoldType
<1>11. Exported(table) \in Seq(Entry)
  BY <1>10 DEF S, E
<1>. QED  BY <1>10, <1>11 DEF S, E, Table, Entry

LEMMA MeantType ==
    ASSUME NEW table \in Table, NEW names \in Seq(Octet)
    PROVE  /\ Meant(table, names) \in Seq(Octet \X OptValue)
           /\ \A k \in DOMAIN Meant(table, names) :
                Meant(table, names)[k][2] # <<>> =>
                    <<Meant(table, names)[k][1], Meant(table, names)[k][2][1]>> \in Pairs(table)
<1>1. \A k \in DOMAIN names : <<names[k], GetValue(table, names[k], TRUE)>> \in Octet \X OptValue
  <2>1. \A k \in DOMAIN names : names[k] \in Octet
    OBVIOUS
  <2>. QED  BY <2>1, GetValueIs
<1>2. DOMAIN names = 1 .. Len(names) /\ Len(names) \in Nat
  OBVIOUS
<1>3. ASSUME NEW k \in DOMAIN names, GetValue(table, names[k], TRUE) # <<>>
      PROVE  <<names[k], GetValue(table, names[k], TRUE)[1]>> \in Pairs(table)
  BY <1>3, GetValueIs
<1>4. Meant(table, names) \in Seq(Octet \X OptValue)
  <2>. DEFINE g == Meant(table, names)
              n == Len(names)
  <2>1. g = [i \in 1 .. n |-> g[i]] /\ \A i \in 1 .. n : g[i] \in Octet \X OptValue
    BY <1>1, <1>2 DEF Meant
  <2>2. n \in Nat
    OBVIOUS
  <2>. HIDE DEF g, n
  <2>. QED  BY <2>1, <2>2, ListedSeq DEF g
<1>5. ASSUME NEW k \in DOMAIN names
      PROVE  /\ Meant(table, names)[k][1] = names[k]
             /\ Meant(table, names)[k][2] = GetValue(table, names[k], TRUE)
  BY DEF Meant
<1>6. DOMAIN Meant(table, names) = DOMAIN names
  BY DEF Meant
<1>. QED  BY <1>3, <1>4, <1>5, <1>6, Zenon

LEMMA NamesType ==
    ASSUME NEW table \in Table
    PROVE  Names(table) \in Seq(Octet)
<1>1. \A i \in 1 .. Len(table) : table[i] \in Entry
  <2>1. table \in Seq(Entry)
    BY DEF Table, Entry
  <2>. QED  BY <2>1
<1>2. \A i \in 1 .. Len(table) : table[i].name \in Octet
  BY <1>1 DEF Entry
<1>3. DOMAIN table = 1 .. Len(table) /\ Len(table) \in Nat
  BY DEF Table
<1>. QED  BY <1>2, <1>3 DEF Names

-----------------------------------------------------------------------------
(* What telrcv() makes of what the client quoted.                          *)

Escape(c) == IF c \in {VAR, VALUE, ESC} THEN <<ESC, c>> ELSE <<c>>

Escaped(octets) == FlattenSeq([i \in DOMAIN octets |-> Escape(octets[i])])

Quote(c) == IF c = IAC THEN <<IAC, IAC>> ELSE Escape(c)

LEMMA Marks == {IAC, VAR, VALUE, ESC, SE} \subseteq Octet
<1>1. IAC \in Octet /\ VAR \in Octet /\ VALUE \in Octet /\ ESC \in Octet /\ SE \in Octet
  BY OctetAssumption
<1>. QED  BY <1>1

LEMMA MarksDiffer ==
    /\ IAC # VAR /\ IAC # VALUE /\ IAC # ESC /\ IAC # SE
    /\ VAR # VALUE /\ VAR # ESC /\ VALUE # ESC
BY DEF IAC, VAR, VALUE, ESC, SE

LEMMA EscapeType ==
    ASSUME NEW c \in Octet
    PROVE  Escape(c) \in Seq(Octet) /\ Quote(c) \in Seq(Octet)
BY Marks, ShortSeq DEF Escape, Quote

\* Quoted() is one octet after the other.
LEMMA QuotedIs ==
    ASSUME NEW octets \in Seq(Octet)
    PROVE  /\ Quoted(octets) = FlattenSeq([i \in DOMAIN octets |-> Quote(octets[i])])
           /\ Quoted(octets) \in Seq(Octet)
           /\ Escaped(octets) \in Seq(Octet)
<1>. DEFINE n == Len(octets)
            q == [i \in DOMAIN octets |-> Quote(octets[i])]
            x == [i \in DOMAIN octets |-> Escape(octets[i])]
<1>1. q \in Seq(Seq(Octet)) /\ x \in Seq(Seq(Octet))
  <2>1. n \in Nat /\ DOMAIN octets = 1 .. n /\ \A i \in 1 .. n : octets[i] \in Octet
    OBVIOUS
  <2>2. \A i \in 1 .. n : Quote(octets[i]) \in Seq(Octet) /\ Escape(octets[i]) \in Seq(Octet)
    BY <2>1, EscapeType
  <2>. DEFINE S == Seq(Octet)
  <2>. HIDE DEF n, S
  <2>. QED  BY <2>1, <2>2 DEF S
<1>2. Quoted(octets) = FlattenSeq(q)
  <2>1. \A c : Quote(c) = IF c = IAC THEN <<IAC, IAC>>
                          ELSE IF c \in {VAR, VALUE, ESC} THEN <<ESC, c>> ELSE <<c>>
    BY DEF Quote, Escape
  <2>. QED  BY <2>1, Zenon DEF Quoted
<1>3. Escaped(octets) = FlattenSeq(x)
  BY DEF Escaped
<1>. HIDE DEF q, x
<1>. QED  BY <1>1, <1>2, <1>3, FlattenType DEF q

\* The state of telrcv() in a suboption, and its step.
Telrcv == [octets : Seq(Octet), half : BOOLEAN, over : BOOLEAN]

Whole(octets) == [octets |-> octets, half |-> FALSE, over |-> FALSE]

UndoubleStep == [p \in Telrcv \X Octet |-> Undouble(p[1], p[2])]

LEMMA UndoubleIsStep ==
    /\ IsStep(UndoubleStep, Telrcv, Octet)
    /\ \A a \in Telrcv, c \in Octet : UndoubleStep[<<a, c>>] = Undouble(a, c)
    /\ \A octets \in Seq(Octet) : Whole(octets) \in Telrcv
<1>1. \A a \in Telrcv, c \in Octet : Undouble(a, c) \in Telrcv
  <2>. SUFFICES ASSUME NEW a \in Telrcv, NEW c \in Octet PROVE Undouble(a, c) \in Telrcv
    OBVIOUS
  <2>1. Append(a.octets, IAC) \in Seq(Octet) /\ Append(a.octets, c) \in Seq(Octet)
    BY Marks DEF Telrcv
  <2>. QED  BY <2>1 DEF Undouble, Telrcv
<1>2. \A octets \in Seq(Octet) : Whole(octets) \in Telrcv
  BY DEF Whole, Telrcv
<1>. QED  BY <1>1, <1>2 DEF UndoubleStep, IsStep

LEMMA UndoubledIs ==
    ASSUME NEW octets \in Seq(Octet)
    PROVE  /\ octets \o <<IAC, SE>> \in Seq(Octet)
           /\ Undoubled(octets)
                = Fold(UndoubleStep, Whole(<<>>), octets \o <<IAC, SE>>).octets
<1>. DEFINE wire == octets \o <<IAC, SE>>
            n == Len(wire)
            none == Whole(<<>>)
            Step(g) == g = [i \in 0 .. n |-> IF i = 0 THEN none ELSE Undouble(g[i - 1], wire[i])]
            g == CHOOSE g : Step(g)
<1>1. wire \in Seq(Octet)
  <2>1. <<IAC, SE>> \in Seq(Octet)
    BY Marks, ShortSeq
  <2>. QED  BY <2>1, JoinedSeq
<1>2. Undoubled(octets) = g[n].octets
  BY DEF Undoubled, Undoubling, Whole
<1>. HIDE DEF none, wire
<1>0. n \in Nat /\ none \in Telrcv /\ \A i \in 1 .. n : wire[i] \in Octet
  <2>1. <<>> \in Seq(Octet)
    OBVIOUS
  <2>2. none \in Telrcv
    BY <2>1, UndoubleIsStep DEF none
  <2>. QED  BY <1>1, <2>2
<1>. HIDE DEF n
<1>4. PICK r \in [0 .. n -> Telrcv] : Runs(UndoubleStep, none, wire, r)
  BY <1>0, <1>1, UndoubleIsStep, RunExists DEF n
<1>5. \A i \in 1 .. n : i - 1 \in 0 .. n /\ r[i - 1] \in Telrcv
  BY <1>0, <1>4
<1>6. Step(r)
  <2>1. \A i \in 0 .. n : r[i] = IF i = 0 THEN none ELSE UndoubleStep[<<r[i - 1], wire[i]>>]
    BY <1>4 DEF Runs, n
  <2>2. ASSUME NEW i \in 1 .. n PROVE r[i] = Undouble(r[i - 1], wire[i])
    <3>1. r[i] = UndoubleStep[<<r[i - 1], wire[i]>>]
      BY <1>0, <2>1
    <3>2. UndoubleStep[<<r[i - 1], wire[i]>>] = Undouble(r[i - 1], wire[i])
      BY <1>0, <1>5, UndoubleIsStep
    <3>. QED  BY <3>1, <3>2
  <2>3. r[0] = none
    <3>1. 0 \in 0 .. n
      BY <1>0
    <3>. QED  BY <2>1, <3>1
  <2>4. \A i \in 0 .. n : r[i] = IF i = 0 THEN none ELSE Undouble(r[i - 1], wire[i])
    BY <1>0, <2>2, <2>3
  <2>. QED  BY <1>4, <2>4
<1>7. Step(g)
  <2>. HIDE DEF Step
  <2>. QED  BY <1>6
<1>. HIDE DEF g
<1>8. /\ g[0] = none
      /\ \A i \in 1 .. n : g[i - 1] \in Telrcv => g[i] = UndoubleStep[<<g[i - 1], wire[i]>>]
  BY <1>0, <1>7, UndoubleIsStep
<1>9. g[n] = Fold(UndoubleStep, none, wire)
  <2>. HIDE DEF Step
  <2>. QED  BY <1>0, <1>1, <1>8, UndoubleIsStep, RunUnique DEF n
<1>. QED  BY <1>1, <1>2, <1>9 DEF none, wire

LEMMA UndoubledType ==
    ASSUME NEW octets \in Seq(Octet)
    PROVE  Undoubled(octets) \in Seq(Octet)
<1>. DEFINE wire == octets \o <<IAC, SE>>
<1>1. <<>> \in Seq(Octet)
  OBVIOUS
<1>2. wire \in Seq(Octet) /\ Undoubled(octets) = Fold(UndoubleStep, Whole(<<>>), wire).octets
  BY UndoubledIs
<1>. HIDE DEF wire
<1>3. Fold(UndoubleStep, Whole(<<>>), wire) \in Telrcv
  BY <1>1, <1>2, UndoubleIsStep, FoldType
<1>. QED  BY <1>2, <1>3 DEF Telrcv

\* s is read as t, behind whatever was read before.
ReadAs ==
    {p \in Seq(Octet) \X Seq(Octet) :
        \A o \in Seq(Octet) : Fold(UndoubleStep, Whole(o), p[1]) = Whole(o \o p[2])}

LEMMA ReadAsMultiplicative == Multiplicative(ReadAs, Octet)
<1>1. <<(<<>>), (<<>>)>> \in ReadAs
  <2>1. \A o \in Seq(Octet) : Fold(UndoubleStep, Whole(o), <<>>) = Whole(o)
    BY UndoubleIsStep, FoldEmpty
  <2>2. \A o \in Seq(Octet) : o \o <<>> = o
    OBVIOUS
  <2>3. \A o \in Seq(Octet) : Fold(UndoubleStep, Whole(o), <<>>) = Whole(o \o <<>>)
    BY <2>1, <2>2
  <2>4. <<>> \in Seq(Octet)
    OBVIOUS
  <2>. QED  BY <2>3, <2>4 DEF ReadAs
<1>2. ASSUME NEW s \in Seq(Octet), NEW t \in Seq(Octet), NEW u \in Seq(Octet), NEW v \in Seq(Octet),
             <<s, t>> \in ReadAs, <<u, v>> \in ReadAs
      PROVE  <<s \o u, t \o v>> \in ReadAs
  <2>1. s \o u \in Seq(Octet) /\ t \o v \in Seq(Octet)
    BY JoinedSeq
  <2>2. ASSUME NEW o \in Seq(Octet)
        PROVE  Fold(UndoubleStep, Whole(o), s \o u) = Whole(o \o (t \o v))
    <3>1. Fold(UndoubleStep, Whole(o), s \o u)
            = Fold(UndoubleStep, Fold(UndoubleStep, Whole(o), s), u)
      BY UndoubleIsStep, FoldConcat
    <3>2. Fold(UndoubleStep, Whole(o), s) = Whole(o \o t) /\ o \o t \in Seq(Octet)
      BY <1>2, JoinedSeq DEF ReadAs
    <3>3. Fold(UndoubleStep, Whole(o \o t), u) = Whole((o \o t) \o v)
      BY <1>2, <3>2 DEF ReadAs
    <3>4. (o \o t) \o v = o \o (t \o v)
      OBVIOUS
    <3>. QED  BY <3>1, <3>2, <3>3, <3>4
  <2>. QED  BY <2>1, <2>2 DEF ReadAs
<1>. QED  BY <1>1, <1>2 DEF Multiplicative

LEMMA ReadAsOne ==
    ASSUME NEW c \in Octet, c # IAC
    PROVE  <<(<<c>>), (<<c>>)>> \in ReadAs
<1>1. ASSUME NEW o \in Seq(Octet) PROVE Fold(UndoubleStep, Whole(o), <<c>>) = Whole(o \o <<c>>)
  <2>1. Fold(UndoubleStep, Whole(o), <<c>>) = Undouble(Whole(o), c)
    <3>1. Fold(UndoubleStep, Whole(o), <<c>>) = UndoubleStep[<<Whole(o), c>>]
      BY UndoubleIsStep, FoldOne
    <3>. QED  BY <3>1, UndoubleIsStep
  <2>2. Undouble(Whole(o), c) = Whole(Append(o, c))
    BY DEF Undouble, Whole
  <2>3. Append(o, c) = o \o <<c>>
    OBVIOUS
  <2>. QED  BY <2>1, <2>2, <2>3
<1>2. <<c>> \in Seq(Octet)
  BY ShortSeq
<1>. QED  BY <1>1, <1>2 DEF ReadAs

LEMMA ReadAsDoubled ==
    <<(<<IAC, IAC>>), (<<IAC>>)>> \in ReadAs
<1>0. IAC \in Octet
  BY Marks
<1>1. ASSUME NEW o \in Seq(Octet)
      PROVE  Fold(UndoubleStep, Whole(o), <<IAC, IAC>>) = Whole(o \o <<IAC>>)
  <2>. DEFINE half == [octets |-> o, half |-> TRUE, over |-> FALSE]
  <2>0. half \in Telrcv
    BY DEF Telrcv
  <2>1. Undouble(Whole(o), IAC) = half
    BY DEF Undouble, Whole
  <2>2. Undouble(half, IAC) = Whole(Append(o, IAC))
    BY DEF Undouble, Whole
  <2>. HIDE DEF half
  <2>3. ASSUME NEW a \in Telrcv PROVE Fold(UndoubleStep, a, <<IAC>>) = Undouble(a, IAC)
    <3>1. ASSUME NEW c \in Octet PROVE Fold(UndoubleStep, a, <<c>>) = UndoubleStep[<<a, c>>]
      BY UndoubleIsStep, FoldOne
    <3>. QED  BY <1>0, <3>1, UndoubleIsStep
  <2>4. Fold(UndoubleStep, Whole(o), <<IAC>> \o <<IAC>>)
          = Fold(UndoubleStep, Fold(UndoubleStep, Whole(o), <<IAC>>), <<IAC>>)
    <3>1. <<IAC>> \in Seq(Octet) /\ Whole(o) \in Telrcv
      BY <1>0, ShortSeq, UndoubleIsStep
    <3>2. ASSUME NEW s \in Seq(Octet), NEW t \in Seq(Octet)
          PROVE  Fold(UndoubleStep, Whole(o), s \o t)
                   = Fold(UndoubleStep, Fold(UndoubleStep, Whole(o), s), t)
      BY <3>1, UndoubleIsStep, FoldConcat
    <3>. QED  BY <3>1, <3>2
  <2>5. <<IAC>> \o <<IAC>> = <<IAC, IAC>> /\ Append(o, IAC) = o \o <<IAC>>
    <3>1. \A c \in Octet : <<c>> \o <<c>> = <<c, c>>
      BY PairSeq
    <3>2. \A c \in Octet : Append(o, c) = o \o <<c>>
      OBVIOUS
    <3>. QED  BY <1>0, <3>1, <3>2
  <2>6. Whole(o) \in Telrcv
    BY UndoubleIsStep
  <2>. QED  BY <2>0, <2>1, <2>2, <2>3, <2>4, <2>5, <2>6
<1>2. <<IAC>> \in Seq(Octet) /\ <<IAC, IAC>> \in Seq(Octet)
  BY <1>0, ShortSeq
<1>. QED  BY <1>1, <1>2 DEF ReadAs

LEMMA QuoteReadAs ==
    ASSUME NEW c \in Octet
    PROVE  <<Quote(c), Escape(c)>> \in ReadAs
<1>1. CASE c = IAC
  <2>1. Quote(c) = <<IAC, IAC>> /\ Escape(c) = <<IAC>>
    BY <1>1, MarksDiffer DEF Quote, Escape
  <2>. QED  BY <2>1, ReadAsDoubled
<1>2. CASE c # IAC /\ c \in {VAR, VALUE, ESC}
  <2>1. Quote(c) = <<ESC, c>> /\ Escape(c) = <<ESC, c>>
    BY <1>2 DEF Quote, Escape
  <2>2. <<(<<ESC>>), (<<ESC>>)>> \in ReadAs /\ <<(<<c>>), (<<c>>)>> \in ReadAs
    BY <1>2, Marks, MarksDiffer, ReadAsOne
  <2>3. <<ESC>> \in Seq(Octet) /\ <<c>> \in Seq(Octet)
    BY Marks, ShortSeq
  <2>4. <<(<<ESC>> \o <<c>>), (<<ESC>> \o <<c>>)>> \in ReadAs
    BY <2>2, <2>3, ReadAsMultiplicative DEF Multiplicative
  <2>5. <<ESC>> \o <<c>> = <<ESC, c>>
    <3>1. \A b \in Octet : <<b>> \o <<c>> = <<b, c>>
      BY PairSeq
    <3>. QED  BY <3>1, Marks
  <2>. QED  BY <2>1, <2>4, <2>5
<1>3. CASE c # IAC /\ c \notin {VAR, VALUE, ESC}
  <2>1. Quote(c) = <<c>> /\ Escape(c) = <<c>>
    BY <1>3 DEF Quote, Escape
  <2>. QED  BY <1>3, <2>1, ReadAsOne
<1>. QED  BY <1>1, <1>2, <1>3

LEMMA QuotedReadAs ==
    ASSUME NEW octets \in Seq(Octet)
    PROVE  <<Quoted(octets), Escaped(octets)>> \in ReadAs
<1>. DEFINE n == Len(octets)
            q == [i \in DOMAIN octets |-> Quote(octets[i])]
            x == [i \in DOMAIN octets |-> Escape(octets[i])]
<1>0. n \in Nat /\ DOMAIN octets = 1 .. n /\ \A i \in 1 .. n : octets[i] \in Octet
  OBVIOUS
<1>1. q \in Seq(Seq(Octet)) /\ x \in Seq(Seq(Octet)) /\ Len(q) = n /\ Len(x) = n
  <2>2. \A i \in 1 .. n : Quote(octets[i]) \in Seq(Octet) /\ Escape(octets[i]) \in Seq(Octet)
    BY <1>0, EscapeType
  <2>. DEFINE S == Seq(Octet)
  <2>. HIDE DEF n, S
  <2>. QED  BY <1>0, <2>2 DEF S
<1>2. \A i \in 1 .. n : <<q[i], x[i]>> \in ReadAs
  BY <1>0, QuoteReadAs
<1>3. Quoted(octets) = FlattenSeq(q) /\ Escaped(octets) = FlattenSeq(x)
  BY QuotedIs DEF Escaped
<1>. HIDE DEF q, x, n
<1>. QED  BY <1>1, <1>2, <1>3, ReadAsMultiplicative, FlattenRelated

-----------------------------------------------------------------------------
(* What suboption() reads in what env_opt_add() wrote.                     *)

\* What suboption() sets, and the state of its parser.
Read == Seq(Seq(Octet) \X OptValue)

Parser == [done : Read, name : Seq(Octet), value : OptValue, escaped : BOOLEAN]

At(done, name, value) == [done |-> done, name |-> name, value |-> value, escaped |-> FALSE]

ParseStep == [p \in Parser \X Octet |-> Parse(p[1], p[2])]

LEMMA ParseType ==
    ASSUME NEW a \in Parser, NEW c \in Octet
    PROVE  Parse(a, c) \in Parser
<1>. DEFINE add == IF a.value = <<>> THEN [a EXCEPT !.name = Append(@, c)]
                                     ELSE [a EXCEPT !.value = <<Append(@[1], c)>>]
<1>0. /\ a.done \in Read /\ a.name \in Seq(Octet) /\ a.value \in OptValue
      /\ a.escaped \in BOOLEAN
  BY DEF Parser
<1>1. add \in Parser
  <2>1. Append(a.name, c) \in Seq(Octet)
    BY <1>0
  <2>2. a.value # <<>> => <<Append(a.value[1], c)>> \in OptValue
    <3>1. a.value # <<>> => a.value[1] \in Seq(Octet)
      BY <1>0, OptValues
    <3>2. a.value # <<>> => Append(a.value[1], c) \in Seq(Octet)
      BY <3>1
    <3>. QED  BY <3>2, OptValues
  <2>3. a.value = <<>> => [a EXCEPT !.name = Append(@, c)] \in Parser
    BY <2>1 DEF Parser
  <2>4. a.value # <<>> => [a EXCEPT !.value = <<Append(@[1], c)>>] \in Parser
    BY <2>2 DEF Parser
  <2>. QED  BY <2>3, <2>4
<1>2. Parse(a, c) =
        IF a.escaped THEN [add EXCEPT !.escaped = FALSE]
        ELSE IF c = ESC THEN [a EXCEPT !.escaped = TRUE]
        ELSE IF c = VALUE THEN [a EXCEPT !.value = <<(<<>>)>>]
        ELSE IF c = VAR THEN At(Append(a.done, <<a.name, a.value>>), <<>>, <<>>)
        ELSE add
  BY DEF Parse, At
<1>. HIDE DEF add
<1>3. [add EXCEPT !.escaped = FALSE] \in Parser
  BY <1>1 DEF Parser
<1>4. [a EXCEPT !.escaped = TRUE] \in Parser
  BY DEF Parser
<1>5. [a EXCEPT !.value = <<(<<>>)>>] \in Parser
  <2>1. <<>> \in Seq(Octet)
    OBVIOUS
  <2>2. <<(<<>>)>> \in OptValue
    BY <2>1, OptValues
  <2>. QED  BY <2>2 DEF Parser
<1>6. At(Append(a.done, <<a.name, a.value>>), <<>>, <<>>) \in Parser
  <2>1. Append(a.done, <<a.name, a.value>>) \in Read
    BY <1>0 DEF Read
  <2>2. <<>> \in Seq(Octet) /\ <<>> \in OptValue
    BY OptValues
  <2>. QED  BY <2>1, <2>2 DEF At, Parser
<1>. QED  BY <1>1, <1>2, <1>3, <1>4, <1>5, <1>6, Zenon

LEMMA ParseIsStep ==
    /\ IsStep(ParseStep, Parser, Octet)
    /\ \A a \in Parser, c \in Octet : ParseStep[<<a, c>>] = Parse(a, c)
    /\ \A done \in Read, name \in Seq(Octet), value \in OptValue : At(done, name, value) \in Parser
    /\ At(<<>>, <<>>, <<>>) \in Parser
<1>1. \A a \in Parser, c \in Octet : Parse(a, c) \in Parser
  BY ParseType
<1>2. \A done \in Read, name \in Seq(Octet), value \in OptValue : At(done, name, value) \in Parser
  BY DEF At, Parser
<1>3. <<>> \in Read /\ <<>> \in Seq(Octet) /\ <<>> \in OptValue
  BY OptValues DEF Read
<1>. QED  BY <1>1, <1>2, <1>3 DEF ParseStep, IsStep

\* What is read of a list that begins with VAR.
VariablesOf(list) ==
    LET end == Fold(ParseStep, At(<<>>, <<>>, <<>>), list)
    IN  Append(end.done, <<end.name, end.value>>)

LEMMA VariablesIs ==
    ASSUME NEW octets \in Seq(Octet)
    PROVE  /\ Variables(octets) = <<>>
              \/ \E first \in 1 .. Len(octets) :
                   /\ octets[first] = VAR /\ \A j \in 1 .. first - 1 : octets[j] # VAR
                   /\ SubSeq(octets, first + 1, Len(octets)) # <<>>
                   /\ Variables(octets) = VariablesOf(SubSeq(octets, first + 1, Len(octets)))
           /\ octets # <<>> /\ octets[1] = VAR /\ Tail(octets) # <<>> =>
                Variables(octets) = VariablesOf(Tail(octets))
           /\ octets = <<>> => Variables(octets) = <<>>
<1>. DEFINE I == {i \in 1 .. Len(octets) : octets[i] = VAR}
            first == SelectInSeq(octets, LAMBDA c : c = VAR)
            list == SubSeq(octets, first + 1, Len(octets))
            n == Len(list)
            none == At(<<>>, <<>>, <<>>)
            Step(g) == g = [i \in 0 .. n |-> IF i = 0 THEN none ELSE Parse(g[i - 1], list[i])]
            g == CHOOSE g : Step(g)
            end == g[n]
            skip == first = 0 \/ list = <<>>
<1>1. Variables(octets) = IF skip THEN <<>> ELSE Append(end.done, <<end.name, end.value>>)
  BY Zenon DEF Variables, At
<1>2. first = IF I # {} THEN Min(I) ELSE 0
  BY DEF SelectInSeq
<1>3. I # {} => Min(I) \in I /\ \A m \in I : Min(I) <= m
  <2>1. I # {} => \E x \in I : \A m \in I : ~ (m < x)
    <3>1. I \in SUBSET Nat
      OBVIOUS
    <3>. HIDE DEF I
    <3>. QED  BY <3>1, LeastElement
  <2>2. I # {} => \E x \in I : \A m \in I : x =< m
    BY <2>1
  <2>. QED  BY <2>2 DEF Min
<1>4. first \in 0 .. Len(octets) /\ (first # 0 => first \in I /\ \A m \in I : first <= m)
      /\ (first = 0 => I = {})
  <2>. HIDE DEF first
  <2>. QED  BY <1>2, <1>3
<1>. HIDE DEF first
<1>5. list \in Seq(Octet)
  BY <1>4
<1>. HIDE DEF list, none
<1>6. n \in Nat /\ none \in Parser /\ \A i \in 1 .. n : list[i] \in Octet
  BY <1>5, ParseIsStep DEF none
<1>. HIDE DEF n
<1>7. PICK r \in [0 .. n -> Parser] : Runs(ParseStep, none, list, r)
  BY <1>5, <1>6, ParseIsStep, RunExists DEF n
<1>8. \A i \in 1 .. n : i - 1 \in 0 .. n /\ r[i - 1] \in Parser
  BY <1>6, <1>7
<1>9. Step(r)
  <2>1. \A i \in 0 .. n : r[i] = IF i = 0 THEN none ELSE ParseStep[<<r[i - 1], list[i]>>]
    BY <1>7 DEF Runs, n
  <2>2. ASSUME NEW i \in 1 .. n PROVE r[i] = Parse(r[i - 1], list[i])
    <3>1. r[i] = ParseStep[<<r[i - 1], list[i]>>]
      BY <1>6, <2>1
    <3>2. ParseStep[<<r[i - 1], list[i]>>] = Parse(r[i - 1], list[i])
      BY <1>6, <1>8, ParseIsStep
    <3>. QED  BY <3>1, <3>2
  <2>3. r[0] = none
    <3>1. 0 \in 0 .. n
      BY <1>6
    <3>. QED  BY <2>1, <3>1
  <2>4. \A i \in 0 .. n : r[i] = IF i = 0 THEN none ELSE Parse(r[i - 1], list[i])
    BY <1>6, <2>2, <2>3
  <2>. QED  BY <1>7, <2>4
<1>10. Step(g)
  <2>. HIDE DEF Step
  <2>. QED  BY <1>9
<1>. HIDE DEF g
<1>11. /\ g[0] = none
       /\ \A i \in 1 .. n : g[i - 1] \in Parser => g[i] = ParseStep[<<g[i - 1], list[i]>>]
  BY <1>6, <1>10, ParseIsStep
<1>12. end = Fold(ParseStep, none, list)
  <2>. HIDE DEF Step
  <2>. QED  BY <1>5, <1>6, <1>11, ParseIsStep, RunUnique DEF n
<1>. HIDE DEF end, Step
<1>13. skip \/ Variables(octets) = VariablesOf(list)
  <2>. HIDE DEF skip
  <2>. QED  BY <1>1, <1>12 DEF VariablesOf, none
<1>14. Variables(octets) = <<>>
         \/ \E k \in 1 .. Len(octets) :
               /\ octets[k] = VAR /\ \A j \in 1 .. k - 1 : octets[j] # VAR
               /\ SubSeq(octets, k + 1, Len(octets)) # <<>>
               /\ Variables(octets) = VariablesOf(SubSeq(octets, k + 1, Len(octets)))
  <2>1. CASE skip
    BY <1>1, <2>1
  <2>2. CASE ~skip
    <3>1. first \in 1 .. Len(octets) /\ octets[first] = VAR
          /\ \A j \in 1 .. first - 1 : octets[j] # VAR
      BY <1>4, <2>2
    <3>2. list # <<>> /\ Variables(octets) = VariablesOf(list)
      BY <1>13, <2>2
    <3>. QED  BY <3>1, <3>2 DEF list
  <2>. QED  BY <2>1, <2>2
<1>15. ASSUME octets # <<>>, octets[1] = VAR, Tail(octets) # <<>>
       PROVE  Variables(octets) = VariablesOf(Tail(octets))
  <2>1. 1 \in I
    BY <1>15
  <2>2. first = 1
    BY <1>4, <2>1
  <2>3. list = Tail(octets)
    BY <1>15, <2>2 DEF list
  <2>. QED  BY <1>13, <1>15, <2>2, <2>3
<1>16. octets = <<>> => Variables(octets) = <<>>
  <2>1. octets = <<>> => first = 0
    BY <1>4
  <2>. QED  BY <1>1, <2>1
<1>. QED  BY <1>14, <1>15, <1>16

LEMMA VariablesType ==
    ASSUME NEW octets \in Seq(Octet)
    PROVE  Variables(octets) \in Read
<1>1. ASSUME NEW list \in Seq(Octet) PROVE VariablesOf(list) \in Read
  <2>. DEFINE end == Fold(ParseStep, At(<<>>, <<>>, <<>>), list)
  <2>1. end \in Parser
    <3>1. \A a \in Parser : Fold(ParseStep, a, list) \in Parser
      BY ParseIsStep, FoldType
    <3>. QED  BY <3>1, ParseIsStep
  <2>2. VariablesOf(list) = Append(end.done, <<end.name, end.value>>)
    BY DEF VariablesOf
  <2>. HIDE DEF end
  <2>. QED  BY <2>1, <2>2 DEF Parser, Read
<1>2. \A k \in 1 .. Len(octets) : SubSeq(octets, k + 1, Len(octets)) \in Seq(Octet)
  OBVIOUS
<1>3. <<>> \in Read
  BY DEF Read
<1>. QED  BY <1>1, <1>2, <1>3, VariablesIs

\* Reading s adds t to the name, or to the value.
AddsTo(s, t) ==
    \A d \in Read, n \in Seq(Octet) :
        /\ Fold(ParseStep, At(d, n, <<>>), s) = At(d, n \o t, <<>>)
        /\ \A v \in Seq(Octet) : Fold(ParseStep, At(d, n, <<v>>), s) = At(d, n, <<v \o t>>)

Adds == {p \in Seq(Octet) \X Seq(Octet) : AddsTo(p[1], p[2])}

LEMMA InAdds ==
    ASSUME NEW s \in Seq(Octet), NEW t \in Seq(Octet)
    PROVE  <<s, t>> \in Adds <=> AddsTo(s, t)
BY DEF Adds

LEMMA AtType ==
    ASSUME NEW d \in Read, NEW n \in Seq(Octet)
    PROVE  /\ At(d, n, <<>>) \in Parser
           /\ \A v \in Seq(Octet) : At(d, n, <<v>>) \in Parser
BY ParseIsStep, OptValues

LEMMA AddsMultiplicative == Multiplicative(Adds, Octet)
<1>1. <<(<<>>), (<<>>)>> \in Adds
  <2>1. \A a \in Parser : Fold(ParseStep, a, <<>>) = a
    BY ParseIsStep, FoldEmpty
  <2>2. \A o \in Seq(Octet) : o \o <<>> = o
    OBVIOUS
  <2>3. <<>> \in Seq(Octet)
    OBVIOUS
  <2>4. ASSUME NEW d \in Read, NEW n \in Seq(Octet), NEW v \in Seq(Octet)
        PROVE  /\ Fold(ParseStep, At(d, n, <<>>), <<>>) = At(d, n \o <<>>, <<>>)
               /\ Fold(ParseStep, At(d, n, <<v>>), <<>>) = At(d, n, <<v \o <<>>>>)
    <3>1. At(d, n, <<>>) \in Parser /\ At(d, n, <<v>>) \in Parser
      BY AtType
    <3>. QED  BY <2>1, <2>2, <3>1
  <2>5. AddsTo(<<>>, <<>>)
    BY <2>4, Zenon DEF AddsTo
  <2>. QED  BY <2>3, <2>5, InAdds
<1>2. ASSUME NEW s \in Seq(Octet), NEW t \in Seq(Octet), NEW u \in Seq(Octet), NEW w \in Seq(Octet),
             <<s, t>> \in Adds, <<u, w>> \in Adds
      PROVE  <<s \o u, t \o w>> \in Adds
  <2>0. AddsTo(s, t) /\ AddsTo(u, w)
    BY <1>2, InAdds
  <2>1. s \o u \in Seq(Octet) /\ t \o w \in Seq(Octet)
    BY JoinedSeq
  <2>2. ASSUME NEW d \in Read, NEW n \in Seq(Octet)
        PROVE  Fold(ParseStep, At(d, n, <<>>), s \o u) = At(d, n \o (t \o w), <<>>)
    <3>1. Fold(ParseStep, At(d, n, <<>>), s \o u)
            = Fold(ParseStep, Fold(ParseStep, At(d, n, <<>>), s), u)
      BY AtType, ParseIsStep, FoldConcat
    <3>2. Fold(ParseStep, At(d, n, <<>>), s) = At(d, n \o t, <<>>) /\ n \o t \in Seq(Octet)
      BY <2>0, JoinedSeq, Zenon DEF AddsTo
    <3>3. Fold(ParseStep, At(d, n \o t, <<>>), u) = At(d, (n \o t) \o w, <<>>)
      BY <2>0, <3>2, Zenon DEF AddsTo
    <3>4. (n \o t) \o w = n \o (t \o w)
      OBVIOUS
    <3>. QED  BY <3>1, <3>2, <3>3, <3>4
  <2>3. ASSUME NEW d \in Read, NEW n \in Seq(Octet), NEW v \in Seq(Octet)
        PROVE  Fold(ParseStep, At(d, n, <<v>>), s \o u) = At(d, n, <<v \o (t \o w)>>)
    <3>1. Fold(ParseStep, At(d, n, <<v>>), s \o u)
            = Fold(ParseStep, Fold(ParseStep, At(d, n, <<v>>), s), u)
      <4>1. At(d, n, <<v>>) \in Parser
        BY AtType
      <4>. QED  BY <4>1, ParseIsStep, FoldConcat
    <3>2. Fold(ParseStep, At(d, n, <<v>>), s) = At(d, n, <<v \o t>>) /\ v \o t \in Seq(Octet)
      BY <2>0, JoinedSeq, Zenon DEF AddsTo
    <3>3. Fold(ParseStep, At(d, n, <<v \o t>>), u) = At(d, n, <<(v \o t) \o w>>)
      BY <2>0, <3>2, Zenon DEF AddsTo
    <3>4. (v \o t) \o w = v \o (t \o w)
      OBVIOUS
    <3>. QED  BY <3>1, <3>2, <3>3, <3>4
  <2>4. AddsTo(s \o u, t \o w)
    BY <2>2, <2>3, Zenon DEF AddsTo
  <2>. QED  BY <2>1, <2>4, InAdds
<1>. QED  BY <1>1, <1>2 DEF Multiplicative

LEMMA FoldParse ==
    ASSUME NEW a \in Parser, NEW c \in Octet
    PROVE  Fold(ParseStep, a, <<c>>) = Parse(a, c)
<1>1. Fold(ParseStep, a, <<c>>) = ParseStep[<<a, c>>]
  BY ParseIsStep, FoldOne
<1>. QED  BY <1>1, ParseIsStep

LEMMA EscapeAdds ==
    ASSUME NEW c \in Octet
    PROVE  <<Escape(c), (<<c>>)>> \in Adds
<1>0. \A o \in Seq(Octet) : Append(o, c) = o \o <<c>>
  OBVIOUS
<1>1. CASE c \notin {VAR, VALUE, ESC}
  <2>1. Escape(c) = <<c>>
    BY <1>1 DEF Escape
  <2>2. ASSUME NEW d \in Read, NEW n \in Seq(Octet)
        PROVE  Fold(ParseStep, At(d, n, <<>>), <<c>>) = At(d, n \o <<c>>, <<>>)
    <3>1. Fold(ParseStep, At(d, n, <<>>), <<c>>) = Parse(At(d, n, <<>>), c)
      BY AtType, FoldParse
    <3>2. Parse(At(d, n, <<>>), c) = At(d, Append(n, c), <<>>)
      BY <1>1 DEF Parse, At
    <3>. QED  BY <1>0, <3>1, <3>2
  <2>3. ASSUME NEW d \in Read, NEW n \in Seq(Octet), NEW v \in Seq(Octet)
        PROVE  Fold(ParseStep, At(d, n, <<v>>), <<c>>) = At(d, n, <<v \o <<c>>>>)
    <3>1. Fold(ParseStep, At(d, n, <<v>>), <<c>>) = Parse(At(d, n, <<v>>), c)
      BY AtType, FoldParse
    <3>2. Parse(At(d, n, <<v>>), c) = At(d, n, <<Append(v, c)>>)
      <4>1. <<v>> # <<>> /\ <<v>>[1] = v
        BY OptValues
      <4>. QED  BY <1>1, <4>1 DEF Parse, At
    <3>. QED  BY <1>0, <3>1, <3>2
  <2>4. <<c>> \in Seq(Octet)
    BY ShortSeq
  <2>5. AddsTo(<<c>>, <<c>>)
    BY <2>2, <2>3, Zenon DEF AddsTo
  <2>. QED  BY <2>1, <2>4, <2>5, InAdds
<1>2. CASE c \in {VAR, VALUE, ESC}
  <2>0. ESC \in Octet /\ <<ESC>> \in Seq(Octet) /\ <<c>> \in Seq(Octet) /\ <<ESC, c>> \in Seq(Octet)
    BY Marks, ShortSeq
  <2>1. Escape(c) = <<ESC, c>> /\ <<ESC, c>> = <<ESC>> \o <<c>>
    <3>1. \A b \in Octet : <<b>> \o <<c>> = <<b, c>>
      BY PairSeq
    <3>. QED  BY <1>2, <2>0, <3>1 DEF Escape
  <2>. DEFINE Behind(a) == [a EXCEPT !.escaped = TRUE]
  <2>2. ASSUME NEW a \in Parser, ~a.escaped
        PROVE  Fold(ParseStep, a, <<ESC, c>>) = Parse(Behind(a), c)
    <3>1. Fold(ParseStep, a, <<ESC>> \o <<c>>) = Fold(ParseStep, Fold(ParseStep, a, <<ESC>>), <<c>>)
      <4>1. \A s, t \in Seq(Octet) :
              Fold(ParseStep, a, s \o t) = Fold(ParseStep, Fold(ParseStep, a, s), t)
        BY ParseIsStep, FoldConcat
      <4>. QED  BY <2>0, <4>1
    <3>2. Fold(ParseStep, a, <<ESC>>) = Behind(a)
      <4>1. Fold(ParseStep, a, <<ESC>>) = Parse(a, ESC)
        BY <2>0, FoldParse
      <4>. QED  BY <2>2, <4>1 DEF Parse
    <3>3. Behind(a) \in Parser
      BY DEF Parser
    <3>. HIDE DEF Behind
    <3>4. Fold(ParseStep, Behind(a), <<c>>) = Parse(Behind(a), c)
      BY <3>3, FoldParse
    <3>. QED  BY <2>1, <3>1, <3>2, <3>4
  <2>3. ASSUME NEW d \in Read, NEW n \in Seq(Octet)
        PROVE  Fold(ParseStep, At(d, n, <<>>), <<ESC, c>>) = At(d, n \o <<c>>, <<>>)
    <3>1. Fold(ParseStep, At(d, n, <<>>), <<ESC, c>>) = Parse(Behind(At(d, n, <<>>)), c)
      <4>1. At(d, n, <<>>) \in Parser /\ ~At(d, n, <<>>).escaped
        BY AtType DEF At
      <4>. HIDE DEF Behind
      <4>. QED  BY <2>2, <4>1
    <3>2. Parse(Behind(At(d, n, <<>>)), c) = At(d, Append(n, c), <<>>)
      BY DEF Parse, At
    <3>. QED  BY <1>0, <3>1, <3>2
  <2>4. ASSUME NEW d \in Read, NEW n \in Seq(Octet), NEW v \in Seq(Octet)
        PROVE  Fold(ParseStep, At(d, n, <<v>>), <<ESC, c>>) = At(d, n, <<v \o <<c>>>>)
    <3>1. Fold(ParseStep, At(d, n, <<v>>), <<ESC, c>>) = Parse(Behind(At(d, n, <<v>>)), c)
      <4>1. At(d, n, <<v>>) \in Parser /\ ~At(d, n, <<v>>).escaped
        BY AtType DEF At
      <4>. HIDE DEF Behind
      <4>. QED  BY <2>2, <4>1
    <3>2. Parse(Behind(At(d, n, <<v>>)), c) = At(d, n, <<Append(v, c)>>)
      <4>1. <<v>> # <<>> /\ <<v>>[1] = v
        BY OptValues
      <4>. QED  BY <4>1 DEF Parse, At
    <3>. QED  BY <1>0, <3>1, <3>2
  <2>5. AddsTo(<<ESC, c>>, <<c>>)
    BY <2>3, <2>4, Zenon DEF AddsTo
  <2>. QED  BY <2>0, <2>1, <2>5, InAdds
<1>. QED  BY <1>1, <1>2

LEMMA EscapedAdds ==
    ASSUME NEW octets \in Seq(Octet)
    PROVE  <<Escaped(octets), octets>> \in Adds
<1>. DEFINE n == Len(octets)
            x == [i \in DOMAIN octets |-> Escape(octets[i])]
            y == [i \in DOMAIN octets |-> <<octets[i]>>]
<1>0. n \in Nat /\ DOMAIN octets = 1 .. n /\ \A i \in 1 .. n : octets[i] \in Octet
  OBVIOUS
<1>1. x \in Seq(Seq(Octet)) /\ y \in Seq(Seq(Octet)) /\ Len(x) = n /\ Len(y) = n
  <2>2. \A i \in 1 .. n : Escape(octets[i]) \in Seq(Octet) /\ <<octets[i]>> \in Seq(Octet)
    BY <1>0, EscapeType, ShortSeq
  <2>. DEFINE S == Seq(Octet)
  <2>. HIDE DEF n, S
  <2>. QED  BY <1>0, <2>2 DEF S
<1>2. \A i \in 1 .. n : <<x[i], y[i]>> \in Adds
  BY <1>0, EscapeAdds
<1>3. FlattenSeq(y) = octets /\ Escaped(octets) = FlattenSeq(x)
  BY FlattenSingles DEF Escaped
<1>. HIDE DEF x, y, n
<1>. QED  BY <1>1, <1>2, <1>3, AddsMultiplicative, FlattenRelated

\* What env_opt_add() writes, without the doubled IACs.
Body(name, value) ==
    Escaped(<<name>>) \o (IF value = <<>> THEN <<>> ELSE <<VALUE>> \o Escaped(value[1]))

Item(name, value) == <<VAR>> \o Body(name, value)

Written(means) == FlattenSeq([i \in DOMAIN means |-> Item(means[i][1], means[i][2])])

LEMMA BodyRead ==
    ASSUME NEW name \in Octet, NEW value \in OptValue
    PROVE  /\ Body(name, value) \in Seq(Octet) /\ Body(name, value) # <<>>
           /\ \A d \in Read :
                Fold(ParseStep, At(d, <<>>, <<>>), Body(name, value)) = At(d, <<name>>, value)
<1>. DEFINE s == Escaped(<<name>>)
            t == <<VALUE>> \o Escaped(value[1])
            none == <<>>
<1>0. /\ <<name>> \in Seq(Octet) /\ s \in Seq(Octet) /\ none \in Seq(Octet) /\ none \in OptValue
      /\ none \o <<name>> = <<name>>
  <2>1. <<name>> \in Seq(Octet)
    BY ShortSeq
  <2>2. s \in Seq(Octet)
    BY <2>1, QuotedIs
  <2>3. none \in Seq(Octet) /\ \A o \in Seq(Octet) : none \o o = o
    OBVIOUS
  <2>. QED  BY <2>1, <2>2, <2>3, OptValues
<1>1. ASSUME NEW d \in Read PROVE Fold(ParseStep, At(d, none, none), s) = At(d, <<name>>, none)
  <2>1. AddsTo(s, <<name>>)
    BY <1>0, EscapedAdds, InAdds
  <2>2. Fold(ParseStep, At(d, none, none), s) = At(d, none \o <<name>>, none)
    BY <1>0, <2>1, Zenon DEF AddsTo
  <2>. QED  BY <1>0, <2>2
<1>2. ASSUME value # <<>>
      PROVE  /\ t \in Seq(Octet)
             /\ \A d \in Read : Fold(ParseStep, At(d, <<name>>, none), t) = At(d, <<name>>, value)
  <2>0. value[1] \in Seq(Octet) /\ value = <<value[1]>>
    BY <1>2, OptValues
  <2>. DEFINE v == value[1]
  <2>1. v \in Seq(Octet) /\ Escaped(v) \in Seq(Octet) /\ <<VALUE>> \in Seq(Octet) /\ VALUE \in Octet
    BY <2>0, QuotedIs, Marks, ShortSeq
  <2>. HIDE DEF v
  <2>2. <<VALUE>> \o Escaped(v) \in Seq(Octet)
    BY <2>1, JoinedSeq
  <2>3. ASSUME NEW d \in Read
        PROVE  Fold(ParseStep, At(d, <<name>>, none), <<VALUE>> \o Escaped(v)) = At(d, <<name>>, <<v>>)
    <3>0. At(d, <<name>>, none) \in Parser
      BY <1>0, ParseIsStep
    <3>1. Fold(ParseStep, At(d, <<name>>, none), <<VALUE>> \o Escaped(v))
            = Fold(ParseStep, Fold(ParseStep, At(d, <<name>>, none), <<VALUE>>), Escaped(v))
      <4>1. ASSUME NEW a \in Parser, NEW p \in Seq(Octet), NEW q \in Seq(Octet)
            PROVE  Fold(ParseStep, a, p \o q) = Fold(ParseStep, Fold(ParseStep, a, p), q)
        BY ParseIsStep, FoldConcat
      <4>. QED  BY <2>1, <3>0, <4>1
    <3>2. Fold(ParseStep, At(d, <<name>>, none), <<VALUE>>) = Parse(At(d, <<name>>, none), VALUE)
      BY <2>1, <3>0, FoldParse
    <3>3. Parse(At(d, <<name>>, none), VALUE) = At(d, <<name>>, <<none>>)
      BY MarksDiffer DEF Parse, At
    <3>4. Fold(ParseStep, At(d, <<name>>, <<none>>), Escaped(v)) = At(d, <<name>>, <<none \o v>>)
      <4>1. AddsTo(Escaped(v), v)
        BY <2>1, EscapedAdds, InAdds
      <4>. QED  BY <1>0, <4>1, Zenon DEF AddsTo
    <3>5. none \o v = v
      BY <2>1
    <3>. QED  BY <3>1, <3>2, <3>3, <3>4, <3>5
  <2>. QED  BY <2>0, <2>2, <2>3 DEF v
<1>. DEFINE b == Body(name, value)
<1>3. b \in Seq(Octet) /\ \A d \in Read : Fold(ParseStep, At(d, none, none), b) = At(d, <<name>>, value)
  <2>1. CASE value = <<>>
    <3>1. b = s \o none
      BY <2>1 DEF Body
    <3>2. \A o \in Seq(Octet) : o \o none = o
      OBVIOUS
    <3>3. b = s
      BY <1>0, <3>1, <3>2
    <3>. QED  BY <1>0, <1>1, <2>1, <3>3
  <2>2. CASE value # <<>>
    <3>1. b = s \o t
      BY <2>2 DEF Body
    <3>. HIDE DEF b, s, t
    <3>2. ASSUME NEW d \in Read PROVE Fold(ParseStep, At(d, none, none), b) = At(d, <<name>>, value)
      <4>1. At(d, none, none) \in Parser
        BY <1>0, ParseIsStep
      <4>2. Fold(ParseStep, At(d, none, none), s \o t)
              = Fold(ParseStep, Fold(ParseStep, At(d, none, none), s), t)
        BY <1>0, <1>2, <2>2, <4>1, ParseIsStep, FoldConcat
      <4>. QED  BY <1>1, <1>2, <2>2, <3>1, <4>2
    <3>3. s \o t \in Seq(Octet)
      BY <1>0, <1>2, <2>2, JoinedSeq
    <3>. QED  BY <3>1, <3>2, <3>3
  <2>. QED  BY <2>1, <2>2
<1>4. b # <<>>
  <2>. DEFINE d == <<>>
  <2>1. d \in Read
    BY DEF Read
  <2>. HIDE DEF d, b
  <2>2. Fold(ParseStep, At(d, none, none), b) = At(d, <<name>>, value)
    BY <1>3, <2>1
  <2>3. Fold(ParseStep, At(d, none, none), <<>>) = At(d, none, none)
    <3>1. At(d, none, none) \in Parser
      BY <1>0, <2>1, ParseIsStep
    <3>. QED  BY <3>1, ParseIsStep, FoldEmpty
  <2>4. At(d, <<name>>, value).name # At(d, none, none).name
    BY DEF At
  <2>. QED  BY <2>2, <2>3, <2>4
<1>. QED  BY <1>3, <1>4

\* The end of one variable is the beginning of the next.
LEMMA NextRead ==
    ASSUME NEW d \in Read, NEW n \in Seq(Octet), NEW v \in OptValue,
           NEW name \in Octet, NEW value \in OptValue
    PROVE  Fold(ParseStep, At(d, n, v), Item(name, value))
             = At(Append(d, <<n, v>>), <<name>>, value)
<1>. DEFINE b == Body(name, value)
<1>0. b \in Seq(Octet) /\ VAR \in Octet /\ <<VAR>> \in Seq(Octet) /\ At(d, n, v) \in Parser
  BY BodyRead, Marks, ShortSeq, ParseIsStep
<1>1. Append(d, <<n, v>>) \in Read
  BY DEF Read
<1>2. Fold(ParseStep, At(d, n, v), <<VAR>>) = At(Append(d, <<n, v>>), <<>>, <<>>)
  <2>1. Fold(ParseStep, At(d, n, v), <<VAR>>) = Parse(At(d, n, v), VAR)
    BY <1>0, FoldParse
  <2>. QED  BY <2>1, MarksDiffer DEF Parse, At
<1>3. Fold(ParseStep, At(Append(d, <<n, v>>), <<>>, <<>>), b)
        = At(Append(d, <<n, v>>), <<name>>, value)
  BY <1>1, BodyRead
<1>. HIDE DEF b
<1>4. Fold(ParseStep, At(d, n, v), <<VAR>> \o b)
        = Fold(ParseStep, Fold(ParseStep, At(d, n, v), <<VAR>>), b)
  BY <1>0, ParseIsStep, FoldConcat
<1>. QED  BY <1>2, <1>3, <1>4 DEF Item, b

LEMMA ItemType ==
    ASSUME NEW name \in Octet, NEW value \in OptValue
    PROVE  Item(name, value) \in Seq(Octet)
<1>1. Body(name, value) \in Seq(Octet) /\ <<VAR>> \in Seq(Octet)
  BY BodyRead, Marks, ShortSeq
<1>. QED  BY <1>1, JoinedSeq DEF Item

LEMMA SettingsType ==
    ASSUME NEW means \in Seq(Octet \X OptValue)
    PROVE  /\ Settings(means) \in Read /\ Len(Settings(means)) = Len(means)
           /\ DOMAIN Settings(means) = DOMAIN means
           /\ \A i \in DOMAIN means : /\ means[i] \in Octet \X OptValue
                                      /\ Settings(means)[i] = <<(<<means[i][1]>>), means[i][2]>>
<1>1. DOMAIN means = 1 .. Len(means) /\ Len(means) \in Nat
      /\ \A i \in DOMAIN means : means[i] \in Octet \X OptValue
  OBVIOUS
<1>2. \A i \in DOMAIN means : Settings(means)[i] = <<(<<means[i][1]>>), means[i][2]>>
      /\ DOMAIN Settings(means) = DOMAIN means
  BY DEF Settings
<1>3. ASSUME NEW i \in 1 .. Len(means) PROVE Settings(means)[i] \in Seq(Octet) \X OptValue
  <2>1. means[i][1] \in Octet /\ means[i][2] \in OptValue
    BY <1>1
  <2>2. <<means[i][1]>> \in Seq(Octet)
    BY <2>1, ShortSeq
  <2>3. Settings(means)[i] = <<(<<means[i][1]>>), means[i][2]>>
    BY <1>1, <1>2
  <2>. DEFINE a == <<means[i][1]>>
              b == means[i][2]
  <2>. HIDE DEF a, b
  <2>4. <<a, b>> \in Seq(Octet) \X OptValue
    BY <2>1, <2>2 DEF a, b
  <2>. QED  BY <2>3, <2>4, Zenon DEF a, b
<1>4. Settings(means) \in Read /\ Len(Settings(means)) = Len(means)
  <2>. DEFINE g == Settings(means)
              n == Len(means)
              E == Seq(Octet) \X OptValue
  <2>1. n \in Nat /\ g = [i \in 1 .. n |-> g[i]] /\ \A i \in 1 .. n : g[i] \in E
    BY <1>1, <1>3 DEF Settings
  <2>. HIDE DEF g, n, E
  <2>2. g \in Seq(E) /\ Len(g) = n
    BY <2>1, ListedSeq
  <2>. QED  BY <2>2 DEF g, n, E, Read
<1>5. DOMAIN Settings(means) = DOMAIN means
  BY DEF Settings
<1>. QED  BY <1>1, <1>2, <1>4, <1>5

LEMMA FirstAndRest ==
    ASSUME NEW E, NEW c \in E, NEW t \in Seq(E)
    PROVE  /\ <<c>> \o t \in Seq(E) /\ <<c>> \o t # <<>>
           /\ (<<c>> \o t)[1] = c /\ Tail(<<c>> \o t) = t
<1>. DEFINE s == <<c>>
            u == s \o t
<1>1. s \in Seq(E) /\ Len(s) = 1 /\ s[1] = c
  OBVIOUS
<1>. HIDE DEF s
<1>2. /\ u \in Seq(E) /\ Len(u) = 1 + Len(t) /\ Len(t) \in Nat
      /\ \A i \in 1 .. 1 + Len(t) : u[i] = IF i <= 1 THEN s[i] ELSE t[i - 1]
  <2>1. /\ u \in Seq(E) /\ Len(u) = Len(s) + Len(t)
        /\ \A i \in 1 .. Len(s) + Len(t) : u[i] = IF i <= Len(s) THEN s[i] ELSE t[i - Len(s)]
    BY <1>1, ConcatProperties
  <2>. QED  BY <1>1, <2>1
<1>. HIDE DEF u
<1>3. u[1] = c /\ u # <<>>
  BY <1>1, <1>2
<1>4. Tail(u) = t
  <2>1. Tail(u) \in Seq(E) /\ Len(Tail(u)) = Len(t) /\ \A i \in 1 .. Len(t) : Tail(u)[i] = u[i + 1]
    BY <1>2, <1>3
  <2>2. \A i \in 1 .. Len(t) : Tail(u)[i] = t[i]
    BY <1>2, <2>1
  <2>3. \A x, y \in Seq(E) : Len(x) = Len(y) /\ (\A i \in 1 .. Len(x) : x[i] = y[i]) => x = y
    BY SeqEqual
  <2>. QED  BY <2>1, <2>2, <2>3
<1>. QED  BY <1>2, <1>3, <1>4 DEF u, s

LEMMA WrittenRead ==
    ASSUME NEW means \in Seq(Octet \X OptValue)
    PROVE  Written(means) \in Seq(Octet) /\ Variables(Written(means)) = Settings(means)
<1>. DEFINE n == Len(means)
            set == Settings(means)
            ss == [i \in DOMAIN means |-> Item(means[i][1], means[i][2])]
            start == At(<<>>, <<>>, <<>>)
<1>0. /\ n \in Nat /\ set \in Read /\ Len(set) = n
      /\ \A i \in 1 .. n : /\ means[i][1] \in Octet /\ means[i][2] \in OptValue
                           /\ set[i] = <<(<<means[i][1]>>), means[i][2]>>
  <2>1. DOMAIN means = 1 .. n /\ n \in Nat
    OBVIOUS
  <2>2. \A i \in 1 .. n : means[i] \in Octet \X OptValue
    BY <2>1, SettingsType
  <2>3. \A p \in Octet \X OptValue : p[1] \in Octet /\ p[2] \in OptValue
    OBVIOUS
  <2>4. \A i \in 1 .. n : set[i] = <<(<<means[i][1]>>), means[i][2]>>
    BY <2>1, SettingsType
  <2>5. \A i \in 1 .. n : means[i][1] \in Octet /\ means[i][2] \in OptValue
    BY <2>2, <2>3, Zenon
  <2>. HIDE DEF set
  <2>6. set \in Read /\ Len(set) = n
    BY SettingsType DEF set
  <2>. QED  BY <2>1, <2>4, <2>5, <2>6, Zenon
<1>1. /\ ss \in Seq(Seq(Octet)) /\ Len(ss) = n /\ Written(means) = FlattenSeq(ss)
      /\ \A i \in 1 .. n : ss[i] = Item(means[i][1], means[i][2]) /\ ss[i] \in Seq(Octet)
  <2>1. DOMAIN means = 1 .. n
    OBVIOUS
  <2>2. \A i \in 1 .. n : Item(means[i][1], means[i][2]) \in Seq(Octet)
    BY <1>0, ItemType
  <2>3. Written(means) = FlattenSeq(ss)
    BY DEF Written
  <2>4. \A i \in 1 .. n : ss[i] = Item(means[i][1], means[i][2])
    BY <2>1
  <2>5. ss = [i \in 1 .. n |-> ss[i]]
    BY <2>1
  <2>. DEFINE S == Seq(Octet)
  <2>. HIDE DEF ss, n, S
  <2>6. \A i \in 1 .. n : ss[i] \in S
    BY <2>2, <2>4 DEF S
  <2>7. ss \in Seq(S) /\ Len(ss) = n
    BY <1>0, <2>5, <2>6, ListedSeq
  <2>. QED  BY <2>3, <2>4, <2>6, <2>7 DEF S
<1>. HIDE DEF ss, n, set, start
<1>2. PICK r :
        /\ r \in [0 .. n -> Seq(Octet)] /\ r[0] = <<>> /\ r[n] = FlattenSeq(ss)
        /\ \A i \in 1 .. n : r[i] = r[i - 1] \o ss[i]
  <2>1. PICK x : FlattenSteps(x, ss, Octet)
    BY <1>1, FlattenRun
  <2>. QED  BY <1>1, <2>1 DEF FlattenSteps
<1>. DEFINE Upto(k, t, d, m, v) ==
              /\ r[k] = <<VAR>> \o t /\ t # <<>>
              /\ Fold(ParseStep, start, t) = At(d, m, v)
              /\ Append(d, <<m, v>>) = SubSeq(set, 1, k)
            T == {k \in 0 .. n : k # 0 =>
                    \E t \in Seq(Octet), d \in Read, m \in Seq(Octet), v \in OptValue :
                        Upto(k, t, d, m, v)}
<1>3. 0 \in T
  BY <1>0
<1>4. ASSUME NEW k \in 1 .. n, k - 1 \in T PROVE k \in T
  <2>. DEFINE name == means[k][1]
              value == means[k][2]
  <2>0. /\ name \in Octet /\ value \in OptValue /\ set[k] = <<(<<name>>), value>>
        /\ ss[k] = Item(name, value) /\ r[k] = r[k - 1] \o ss[k]
        /\ k \in 0 .. n /\ <<name>> \in Seq(Octet) /\ ss[k] \in Seq(Octet)
    <3>1. <<name>> \in Seq(Octet)
      BY <1>0, ShortSeq
    <3>2. /\ name \in Octet /\ value \in OptValue /\ set[k] = <<(<<name>>), value>>
          /\ ss[k] = Item(name, value) /\ r[k] = r[k - 1] \o ss[k] /\ ss[k] \in Seq(Octet)
      BY <1>0, <1>1, <1>2, Zenon
    <3>3. k \in 0 .. n
      BY <1>0
    <3>. QED  BY <3>1, <3>2, <3>3
  <2>. HIDE DEF name, value, Upto
  <2>1. CASE k = 1
    <3>. DEFINE t == Body(name, value)
                d == <<>>
    <3>1. t \in Seq(Octet) /\ t # <<>> /\ d \in Read
      BY <2>0, BodyRead DEF Read
    <3>2. r[k] = <<VAR>> \o t
      <4>1. r[k] = r[0] \o ss[k]
        BY <2>0, <2>1
      <4>2. r[0] \o ss[k] = ss[k]
        BY <1>2, <2>0
      <4>. QED  BY <2>0, <4>1, <4>2 DEF Item
    <3>3. Fold(ParseStep, start, t) = At(d, <<name>>, value)
      BY <2>0, <3>1, BodyRead DEF start
    <3>4. Append(d, <<(<<name>>), value>>) = SubSeq(set, 1, k)
      <4>. DEFINE e == <<(<<name>>), value>>
                  E == Seq(Octet) \X OptValue
      <4>1. e \in E /\ set \in Seq(E)
        BY <1>0, <2>0 DEF Read
      <4>2. Len(set) = n /\ 1 <= n /\ set[1] = e
        BY <1>0, <2>0, <2>1
      <4>. HIDE DEF e, E
      <4>3. Append(<<>>, e) = SubSeq(set, 1, 1)
        BY <1>0, <4>1, <4>2
      <4>. QED  BY <2>1, <4>3 DEF e
    <3>. HIDE DEF t, d
    <3>5. Upto(k, t, d, <<name>>, value)
      BY <3>1, <3>2, <3>3, <3>4 DEF Upto
    <3>. QED  BY <2>0, <3>1, <3>5
  <2>2. CASE k # 1
    <3>0. k - 1 # 0 /\ k - 1 \in 0 .. n
      BY <1>0, <2>2
    <3>1. PICK t \in Seq(Octet), d \in Read, m \in Seq(Octet), v \in OptValue :
            Upto(k - 1, t, d, m, v)
      BY <1>4, <3>0
    <3>. DEFINE u == t \o ss[k]
                c == Append(d, <<m, v>>)
    <3>2. u \in Seq(Octet) /\ u # <<>>
      <4>1. u \in Seq(Octet) /\ Len(u) = Len(t) + Len(ss[k])
        BY <2>0, JoinedSeq
      <4>2. Len(t) # 0 /\ Len(t) \in Nat /\ Len(ss[k]) \in Nat
        BY <2>0, <3>1 DEF Upto
      <4>3. Len(u) # 0
        BY <4>1, <4>2
      <4>. HIDE DEF u
      <4>. QED  BY <4>1, <4>3
    <3>3. r[k] = <<VAR>> \o u
      <4>1. r[k] = (<<VAR>> \o t) \o ss[k]
        BY <2>0, <3>1 DEF Upto
      <4>2. <<VAR>> \in Seq(Octet)
        BY Marks, ShortSeq
      <4>3. \A x, y, z \in Seq(Octet) : (x \o y) \o z = x \o (y \o z)
        BY ConcatAssociative
      <4>. QED  BY <2>0, <4>1, <4>2, <4>3
    <3>4. Fold(ParseStep, start, u) = At(c, <<name>>, value)
      <4>1. Fold(ParseStep, start, t) = At(d, m, v) /\ start \in Parser
        BY <3>1, ParseIsStep DEF Upto, start
      <4>2. Fold(ParseStep, start, u) = Fold(ParseStep, Fold(ParseStep, start, t), ss[k])
        BY <2>0, <4>1, ParseIsStep, FoldConcat
      <4>3. Fold(ParseStep, At(d, m, v), ss[k]) = At(c, <<name>>, value)
        BY <2>0, NextRead
      <4>. QED  BY <4>1, <4>2, <4>3
    <3>5. c = SubSeq(set, 1, k - 1) /\ c \in Read
      <4>1. c = SubSeq(set, 1, k - 1)
        BY <3>1 DEF Upto
      <4>2. Append(d, <<m, v>>) \in Read
        BY DEF Read
      <4>. QED  BY <4>1, <4>2
    <3>6. Append(c, <<(<<name>>), value>>) = SubSeq(set, 1, k)
      <4>. DEFINE E == Seq(Octet) \X OptValue
      <4>1. set \in Seq(E)
        BY <1>0 DEF Read
      <4>. HIDE DEF E
      <4>2. Append(SubSeq(set, 1, k - 1), set[k]) = SubSeq(set, 1, k)
        BY <1>0, <4>1
      <4>. QED  BY <2>0, <3>5, <4>2
    <3>. HIDE DEF u, c
    <3>7. Upto(k, u, c, <<name>>, value)
      BY <3>2, <3>3, <3>4, <3>6 DEF Upto
    <3>. QED  BY <2>0, <3>2, <3>5, <3>7
  <2>. QED  BY <2>1, <2>2
<1>5. n \in T
  <2>. HIDE DEF T
  <2>1. 0 .. n \subseteq T
    BY <1>0, <1>3, <1>4, UpTo
  <2>. QED  BY <1>0, <2>1
<1>6. CASE n = 0
  <2>1. r[n] = <<>> /\ set = <<>>
    <3>1. set \in Seq(Seq(Octet) \X OptValue) /\ Len(set) = 0
      BY <1>0, <1>6 DEF Read
    <3>. QED  BY <1>2, <1>6, <3>1
  <2>2. \A o \in Seq(Octet) : o = <<>> => Variables(o) = <<>>
    BY VariablesIs
  <2>3. r[n] \in Seq(Octet)
    BY <2>1
  <2>. QED  BY <1>1, <1>2, <2>1, <2>2, <2>3 DEF set
<1>7. CASE n # 0
  <2>. HIDE DEF Upto
  <2>1. PICK t \in Seq(Octet), d \in Read, m \in Seq(Octet), v \in OptValue : Upto(n, t, d, m, v)
    BY <1>5, <1>7
  <2>2. r[n] \in Seq(Octet) /\ r[n] # <<>> /\ r[n][1] = VAR /\ Tail(r[n]) = t /\ t # <<>>
    <3>1. VAR \in Octet
      BY Marks
    <3>2. r[n] = <<VAR>> \o t /\ t # <<>>
      BY <2>1 DEF Upto
    <3>. HIDE DEF T
    <3>. QED  BY <3>1, <3>2, FirstAndRest
  <2>3. Variables(r[n]) = VariablesOf(t)
    BY <2>2, VariablesIs
  <2>4. Fold(ParseStep, start, t) = At(d, m, v) /\ Append(d, <<m, v>>) = SubSeq(set, 1, n)
    BY <2>1 DEF Upto
  <2>5. VariablesOf(t) = Append(d, <<m, v>>)
    BY <2>4 DEF VariablesOf, start, At
  <2>6. SubSeq(set, 1, n) = set
    <3>. DEFINE E == Seq(Octet) \X OptValue
    <3>1. set \in Seq(E)
      BY <1>0 DEF Read
    <3>. HIDE DEF E
    <3>. QED  BY <1>0, <3>1
  <2>. QED  BY <1>1, <1>2, <2>2, <2>3, <2>4, <2>5, <2>6 DEF set
<1>. QED  BY <1>6, <1>7

LEMMA EnvOptAddReadAs ==
    ASSUME NEW table \in Table, NEW name \in Octet
    PROVE  <<EnvOptAdd(table, name), Item(name, GetValue(table, name, TRUE))>> \in ReadAs
<1>. DEFINE value == GetValue(table, name, TRUE)
            p == IF value = <<>> THEN <<>> ELSE <<VALUE>> \o Quoted(value[1])
            q == IF value = <<>> THEN <<>> ELSE <<VALUE>> \o Escaped(value[1])
            s == Quoted(<<name>>)
            t == Escaped(<<name>>)
            bar == <<VAR>>
<1>0. value \in OptValue /\ <<name>> \in Seq(Octet)
  BY GetValueIs, ShortSeq
<1>1. EnvOptAdd(table, name) = bar \o s \o p
  BY DEF EnvOptAdd
<1>2. Item(name, value) = bar \o (t \o q)
  BY DEF Item, Body
<1>. HIDE DEF value
<1>3. <<s, t>> \in ReadAs /\ s \in Seq(Octet) /\ t \in Seq(Octet)
  BY <1>0, QuotedReadAs, QuotedIs
<1>4. <<bar, bar>> \in ReadAs /\ bar \in Seq(Octet)
  BY Marks, MarksDiffer, ReadAsOne, ShortSeq
<1>5. <<p, q>> \in ReadAs /\ p \in Seq(Octet) /\ q \in Seq(Octet)
  <2>1. CASE value = <<>>
    <3>1. p = <<>> /\ q = <<>>
      BY <2>1
    <3>2. <<>> \in Seq(Octet)
      OBVIOUS
    <3>. HIDE DEF p, q
    <3>. QED  BY <3>1, <3>2, ReadAsMultiplicative DEF Multiplicative
  <2>2. CASE value # <<>>
    <3>. DEFINE v == value[1]
    <3>1. v \in Seq(Octet)
      BY <1>0, <2>2, OptValues
    <3>2. p = <<VALUE>> \o Quoted(v) /\ q = <<VALUE>> \o Escaped(v)
      BY <2>2
    <3>. HIDE DEF v, p, q
    <3>3. <<Quoted(v), Escaped(v)>> \in ReadAs /\ Quoted(v) \in Seq(Octet) /\ Escaped(v) \in Seq(Octet)
      BY <3>1, QuotedReadAs, QuotedIs
    <3>4. <<(<<VALUE>>), (<<VALUE>>)>> \in ReadAs /\ <<VALUE>> \in Seq(Octet)
      BY Marks, MarksDiffer, ReadAsOne, ShortSeq
    <3>5. <<VALUE>> \o Quoted(v) \in Seq(Octet) /\ <<VALUE>> \o Escaped(v) \in Seq(Octet)
      BY <3>3, <3>4, JoinedSeq
    <3>6. <<(<<VALUE>> \o Quoted(v)), (<<VALUE>> \o Escaped(v))>> \in ReadAs
      BY <3>3, <3>4, ReadAsMultiplicative DEF Multiplicative
    <3>. QED  BY <3>2, <3>5, <3>6
  <2>. QED  BY <2>1, <2>2
<1>. HIDE DEF s, t, p, q, bar
<1>6. <<(bar \o s), (bar \o t)>> \in ReadAs /\ bar \o s \in Seq(Octet) /\ bar \o t \in Seq(Octet)
  BY <1>3, <1>4, ReadAsMultiplicative, JoinedSeq DEF Multiplicative
<1>7. <<((bar \o s) \o p), ((bar \o t) \o q)>> \in ReadAs
  BY <1>5, <1>6, ReadAsMultiplicative DEF Multiplicative
<1>8. (bar \o t) \o q = bar \o (t \o q)
  <2>1. bar \in Seq(Octet) /\ t \in Seq(Octet) /\ q \in Seq(Octet)
    BY <1>3, <1>4, <1>5
  <2>2. \A x, y, z \in Seq(Octet) : (x \o y) \o z = x \o (y \o z)
    BY Associative
  <2>. QED  BY <2>1, <2>2, Zenon
<1>. QED  BY <1>1, <1>2, <1>7, <1>8 DEF value

\* The IAC SE behind them ends the octets, and adds none.
LEMMA EndsBehind ==
    ASSUME NEW o \in Seq(Octet)
    PROVE  /\ Whole(o) \in Telrcv
           /\ Fold(UndoubleStep, Whole(o), <<IAC, SE>>)
                = [octets |-> o, half |-> TRUE, over |-> TRUE]
<1>. DEFINE half == [octets |-> o, half |-> TRUE, over |-> FALSE]
            over == [octets |-> o, half |-> TRUE, over |-> TRUE]
<1>0. IAC \in Octet /\ SE \in Octet /\ Whole(o) \in Telrcv /\ half \in Telrcv
  BY Marks, UndoubleIsStep DEF Telrcv
<1>1. Undouble(Whole(o), IAC) = half
  BY DEF Undouble, Whole
<1>2. Undouble(half, SE) = over
  BY MarksDiffer DEF Undouble
<1>. HIDE DEF half, over
<1>3. ASSUME NEW a \in Telrcv, NEW c \in Octet
      PROVE  Fold(UndoubleStep, a, <<c>>) = Undouble(a, c)
  <2>1. Fold(UndoubleStep, a, <<c>>) = UndoubleStep[<<a, c>>]
    BY UndoubleIsStep, FoldOne
  <2>. QED  BY <2>1, UndoubleIsStep
<1>4. ASSUME NEW b \in Octet, NEW c \in Octet
      PROVE  Fold(UndoubleStep, Whole(o), <<b, c>>)
               = Fold(UndoubleStep, Fold(UndoubleStep, Whole(o), <<b>>), <<c>>)
  <2>1. <<b>> \in Seq(Octet) /\ <<c>> \in Seq(Octet) /\ <<b>> \o <<c>> = <<b, c>>
    BY ShortSeq, PairSeq
  <2>2. ASSUME NEW s \in Seq(Octet), NEW t \in Seq(Octet)
        PROVE  Fold(UndoubleStep, Whole(o), s \o t)
                 = Fold(UndoubleStep, Fold(UndoubleStep, Whole(o), s), t)
    BY <1>0, UndoubleIsStep, FoldConcat
  <2>3. Fold(UndoubleStep, Whole(o), <<b>> \o <<c>>)
          = Fold(UndoubleStep, Fold(UndoubleStep, Whole(o), <<b>>), <<c>>)
    BY <2>1, <2>2
  <2>. QED  BY <2>1, <2>3
<1>5. Fold(UndoubleStep, Whole(o), <<IAC>>) = half
  BY <1>0, <1>1, <1>3
<1>6. Fold(UndoubleStep, half, <<SE>>) = over
  BY <1>0, <1>2, <1>3
<1>. QED  BY <1>0, <1>4, <1>5, <1>6 DEF over

\* Quoting and undoubling leave the escaped octets.
LEMMA ReadAsUndoubled ==
    ASSUME NEW s, NEW t, <<s, t>> \in ReadAs
    PROVE  s \in Seq(Octet) /\ Undoubled(s) = t
<1>1. s \in Seq(Octet) /\ t \in Seq(Octet)
      /\ \A o \in Seq(Octet) : Fold(UndoubleStep, Whole(o), s) = Whole(o \o t)
  BY DEF ReadAs
<1>2. <<>> \in Seq(Octet) /\ <<>> \o t = t
  BY <1>1
<1>3. Fold(UndoubleStep, Whole(<<>>), s) = Whole(t)
  <2>1. Fold(UndoubleStep, Whole(<<>>), s) = Whole(<<>> \o t)
    BY <1>1, <1>2
  <2>. QED  BY <1>2, <2>1
<1>. DEFINE end == <<IAC, SE>>
<1>4. Undoubled(s) = Fold(UndoubleStep, Whole(<<>>), s \o end).octets
  BY <1>1, UndoubledIs
<1>5. Fold(UndoubleStep, Whole(t), end) = [octets |-> t, half |-> TRUE, over |-> TRUE]
      /\ end \in Seq(Octet) /\ Whole(<<>>) \in Telrcv
  BY <1>1, <1>2, EndsBehind, Marks, ShortSeq
<1>. HIDE DEF end
<1>6. Fold(UndoubleStep, Whole(<<>>), s \o end)
        = Fold(UndoubleStep, Fold(UndoubleStep, Whole(<<>>), s), end)
  BY <1>1, <1>5, UndoubleIsStep, FoldConcat
<1>7. Fold(UndoubleStep, Whole(<<>>), s \o end) = [octets |-> t, half |-> TRUE, over |-> TRUE]
  BY <1>3, <1>5, <1>6
<1>. QED  BY <1>1, <1>4, <1>7

\* What has no IAC in it is read as it is.
LEMMA PlainUndoubled ==
    ASSUME NEW octets \in Seq(Octet), IAC \notin Range(octets)
    PROVE  Undoubled(octets) = octets
<1>. DEFINE n == Len(octets)
            y == [i \in DOMAIN octets |-> <<octets[i]>>]
<1>0. n \in Nat /\ DOMAIN octets = 1 .. n /\ \A i \in 1 .. n : octets[i] \in Octet
  OBVIOUS
<1>1. y \in Seq(Seq(Octet)) /\ Len(y) = n
  <2>2. \A i \in 1 .. n : <<octets[i]>> \in Seq(Octet)
    BY <1>0, ShortSeq
  <2>. DEFINE S == Seq(Octet)
  <2>. HIDE DEF n, S
  <2>. QED  BY <1>0, <2>2 DEF S
<1>2. \A i \in 1 .. n : <<y[i], y[i]>> \in ReadAs
  <2>1. \A i \in 1 .. n : octets[i] # IAC
    BY <1>0 DEF Range
  <2>. QED  BY <1>0, <2>1, ReadAsOne
<1>3. FlattenSeq(y) = octets
  BY FlattenSingles
<1>. HIDE DEF y, n
<1>4. <<FlattenSeq(y), FlattenSeq(y)>> \in ReadAs
  BY <1>1, <1>2, ReadAsMultiplicative, FlattenRelated
<1>. QED  BY <1>3, <1>4, ReadAsUndoubled

\* A list that is not cut reads as it is meant: the two forms of ENVIRON.
LEMMA AddDecodes ==
    ASSUME NEW table \in Table, NEW name \in Octet
    PROVE  /\ EnvOptAdd(table, name) \in Seq(Octet)
           /\ Variables(Undoubled(EnvOptAdd(table, name))) = Settings(Meant(table, <<name>>))
<1>. DEFINE names == <<name>>
            value == GetValue(table, name, TRUE)
            item == Item(name, value)
<1>0. /\ names \in Seq(Octet) /\ DOMAIN names = {1} /\ names[1] = name
      /\ item \in Seq(Octet)
  <2>1. names \in Seq(Octet)
    BY ShortSeq
  <2>2. item \in Seq(Octet)
    BY GetValueIs, ItemType
  <2>3. DOMAIN names = {1} /\ names[1] = name
    BY <2>1
  <2>. QED  BY <2>1, <2>2, <2>3
<1>1. Undoubled(EnvOptAdd(table, name)) = item /\ EnvOptAdd(table, name) \in Seq(Octet)
  BY EnvOptAddReadAs, ReadAsUndoubled
<1>. HIDE DEF names
<1>2. Meant(table, names) \in Seq(Octet \X OptValue)
  BY <1>0, MeantType
<1>3. Written(Meant(table, names)) = item
  <2>1. Meant(table, names) = [i \in {1} |-> <<name, value>>]
    BY <1>0 DEF Meant
  <2>2. Written(Meant(table, names)) = FlattenSeq([i \in {1} |-> item])
    <3>. DEFINE m == Meant(table, names)
    <3>1. DOMAIN m = {1} /\ \A i \in {1} : m[i][1] = name /\ m[i][2] = value
      BY <2>1
    <3>. HIDE DEF m, value
    <3>2. \A i \in {1} : Item(m[i][1], m[i][2]) = Item(name, value)
      BY <3>1
    <3>. QED  BY <3>1, <3>2 DEF Written, m
  <2>. HIDE DEF item
  <2>3. [i \in {1} |-> item] = <<item>>
    OBVIOUS
  <2>. QED  BY <1>0, <2>2, <2>3, FlattenOne
<1>4. Variables(item) = Settings(Meant(table, names))
  BY <1>2, <1>3, WrittenRead
<1>. QED  BY <1>1, <1>4 DEF names

\* What env_opt_add() writes for all exported variables, telrcv() and
\* suboption() read as these variables with these values, whatever the octets.
THEOREM AllDecodes ==
    ASSUME NEW table \in Table
    PROVE  /\ EnvOptAll(table) \in Seq(Octet)
           /\ Variables(Undoubled(EnvOptAll(table)))
                = Settings(Meant(table, Names(Exported(table))))
<1>. DEFINE exported == Exported(table)
            names == Names(exported)
            means == Meant(table, names)
            n == Len(names)
            ss == [i \in DOMAIN exported |-> EnvOptAdd(table, exported[i].name)]
            ts == [i \in DOMAIN means |-> Item(means[i][1], means[i][2])]
<1>0. /\ names \in Seq(Octet) /\ n \in Nat /\ DOMAIN names = 1 .. n
      /\ \A i \in 1 .. n : names[i] \in Octet
  BY ExportedTable, NamesType
<1>1. DOMAIN exported = 1 .. n /\ \A i \in 1 .. n : exported[i].name = names[i]
  BY <1>0 DEF Names
<1>2. /\ means \in Seq(Octet \X OptValue) /\ DOMAIN means = 1 .. n
      /\ \A i \in 1 .. n : means[i][1] = names[i] /\ means[i][2] = GetValue(table, names[i], TRUE)
  <2>1. means \in Seq(Octet \X OptValue)
    BY <1>0, MeantType
  <2>. QED  BY <1>0, <2>1 DEF Meant
<1>3. EnvOptAll(table) = FlattenSeq(ss) /\ Written(means) = FlattenSeq(ts)
  BY DEF EnvOptAll, Written
<1>. HIDE DEF exported, names, means, n
<1>4. ASSUME NEW i \in 1 .. n
      PROVE  <<ss[i], ts[i]>> \in ReadAs /\ ss[i] \in Seq(Octet) /\ ts[i] \in Seq(Octet)
  <2>1. ss[i] = EnvOptAdd(table, names[i]) /\ ts[i] = Item(names[i], GetValue(table, names[i], TRUE))
    BY <1>1, <1>2
  <2>2. names[i] \in Octet
    BY <1>0
  <2>3. <<EnvOptAdd(table, names[i]), Item(names[i], GetValue(table, names[i], TRUE))>> \in ReadAs
    BY <2>2, EnvOptAddReadAs
  <2>. HIDE DEF ss, ts
  <2>4. <<ss[i], ts[i]>> \in ReadAs
    BY <2>1, <2>3
  <2>. QED  BY <2>4 DEF ReadAs
<1>5. ss \in Seq(Seq(Octet)) /\ ts \in Seq(Seq(Octet)) /\ Len(ss) = n /\ Len(ts) = n
  <2>1. ss = [i \in 1 .. n |-> ss[i]] /\ ts = [i \in 1 .. n |-> ts[i]]
    BY <1>1, <1>2
  <2>. HIDE DEF ss, ts
  <2>. DEFINE S == Seq(Octet)
  <2>2. \A i \in 1 .. n : ss[i] \in S /\ ts[i] \in S
    BY <1>4
  <2>. HIDE DEF S
  <2>3. ss \in Seq(S) /\ ts \in Seq(S) /\ Len(ss) = n /\ Len(ts) = n
    BY <1>0, <2>1, <2>2, ListedSeq
  <2>. QED  BY <2>3 DEF S
<1>. HIDE DEF ss, ts
<1>6. <<FlattenSeq(ss), FlattenSeq(ts)>> \in ReadAs
  BY <1>4, <1>5, ReadAsMultiplicative, FlattenRelated
<1>7. EnvOptAll(table) \in Seq(Octet) /\ Undoubled(EnvOptAll(table)) = Written(means)
  BY <1>3, <1>6, ReadAsUndoubled
<1>8. Variables(Written(means)) = Settings(means)
  BY <1>2, WrittenRead
<1>. QED  BY <1>7, <1>8 DEF means, names, exported

\* The value was exported once.
Honest(name, value) == value # <<>> => <<name, value[1]>> \in shown

\* The variables that only ENVIRON sets.
Free == Allowed \ {"TERM", "DISPLAY"}

SetStep(env, e) == SetVariable(env, e[1], e[2])

LEMMA SetVariableType ==
    ASSUME NEW env \in Environment, NEW e \in Seq(Octet) \X OptValue
    PROVE  /\ SetStep(env, e) \in Environment
           /\ \A v \in Allowed :
                SetStep(env, e)[v] = IF e[1] = <<v>> THEN e[2] ELSE env[v]
<1>1. CASE \E v \in Allowed : e[1] = <<v>>
  <2>1. PICK w \in Allowed : e[1] = <<w>>
    BY <1>1
  <2>2. SetStep(env, e) = [env EXCEPT ![w] = e[2]]
    BY <2>1 DEF SetStep, SetVariable
  <2>3. \A v \in Allowed : e[1] = <<v>> <=> v = w
    BY <2>1
  <2>. QED  BY <2>2, <2>3 DEF Environment
<1>2. CASE ~ \E v \in Allowed : e[1] = <<v>>
  BY <1>2 DEF SetStep, SetVariable
<1>. QED  BY <1>1, <1>2

LEMMA SetVariablesRun ==
    ASSUME NEW env \in Environment, NEW list \in Read
    PROVE  \E r : /\ r \in [0 .. Len(list) -> Environment] /\ r[0] = env
                  /\ r[Len(list)] = SetVariables(env, list)
                  /\ \A i \in 1 .. Len(list) : r[i] = SetStep(r[i - 1], list[i])
<1>. DEFINE n == Len(list)
            E == Seq(Octet) \X OptValue
            f == [p \in Environment \X E |-> SetStep(p[1], p[2])]
            Step(g) == g = [i \in 0 .. n |->
                IF i = 0 THEN env ELSE SetVariable(g[i - 1], list[i][1], list[i][2])]
            g == CHOOSE g : Step(g)
<1>0. n \in Nat /\ list \in Seq(E) /\ \A i \in 1 .. n : list[i] \in E
  BY DEF Read
<1>1. SetVariables(env, list) = g[n]
  BY DEF SetVariables
<1>2. IsStep(f, Environment, E) /\ \A a \in Environment, e \in E : f[<<a, e>>] = SetStep(a, e)
  BY SetVariableType DEF IsStep
<1>. HIDE DEF f, E, n
<1>3. PICK r \in [0 .. n -> Environment] : Runs(f, env, list, r)
  BY <1>0, <1>2, RunExists DEF n
<1>4. r[0] = env /\ \A i \in 1 .. n : r[i] = SetStep(r[i - 1], list[i])
  <2>1. \A i \in 0 .. n : r[i] = IF i = 0 THEN env ELSE f[<<r[i - 1], list[i]>>]
    BY <1>3 DEF Runs, n
  <2>2. ASSUME NEW i \in 1 .. n PROVE r[i] = SetStep(r[i - 1], list[i])
    <3>0. i \in 0 .. n /\ i # 0 /\ i - 1 \in 0 .. n
      BY <1>0
    <3>1. r[i] = f[<<r[i - 1], list[i]>>]
      BY <2>1, <3>0
    <3>2. r[i - 1] \in Environment /\ list[i] \in E
      BY <1>0, <1>3, <3>0
    <3>. QED  BY <1>2, <3>1, <3>2
  <2>3. 0 \in 0 .. n
    BY <1>0
  <2>. QED  BY <2>1, <2>2, <2>3
<1>5. Step(r)
  <2>1. \A i \in 0 .. n : i # 0 => i \in 1 .. n
    BY <1>0
  <2>2. \A i \in 0 .. n :
          r[i] = IF i = 0 THEN env ELSE SetVariable(r[i - 1], list[i][1], list[i][2])
    BY <1>4, <2>1 DEF SetStep
  <2>. QED  BY <1>3, <2>2
<1>6. Step(g)
  <2>. HIDE DEF Step
  <2>. QED  BY <1>5
<1>. HIDE DEF g
<1>7. /\ g[0] = env
      /\ \A i \in 1 .. n : g[i - 1] = r[i - 1] => g[i] = r[i]
  <2>1. g[0] = env /\ \A i \in 1 .. n : g[i] = SetVariable(g[i - 1], list[i][1], list[i][2])
    BY <1>0, <1>6
  <2>. QED  BY <1>4, <2>1 DEF SetStep
<1>8. g[n] = r[n]
  <2>. HIDE DEF Step
  <2>1. SameSteps(g, r, n)
    BY <1>4, <1>7 DEF SameSteps
  <2>2. \A i \in 0 .. n : g[i] = r[i]
    BY <1>0, <2>1, RunsAgree
  <2>. QED  BY <1>0, <2>2
<1>. QED  BY <1>1, <1>3, <1>4, <1>8 DEF n

LEMMA SetVariablesType ==
    ASSUME NEW env \in Environment, NEW list \in Read
    PROVE  SetVariables(env, list) \in Environment
<1>1. Len(list) \in 0 .. Len(list)
  BY DEF Read
<1>. QED  BY <1>1, SetVariablesRun

\* The same settings set a variable to the same, or leave it as it was.
LEMMA SetVariablesEither ==
    ASSUME NEW env \in Environment, NEW other \in Environment, NEW list \in Read,
           NEW v \in Allowed
    PROVE  \/ SetVariables(env, list)[v] = SetVariables(other, list)[v]
           \/ SetVariables(env, list)[v] = env[v] /\ SetVariables(other, list)[v] = other[v]
<1>. DEFINE n == Len(list)
<1>0. n \in Nat /\ \A i \in 1 .. n : list[i] \in Seq(Octet) \X OptValue
  BY DEF Read
<1>1. PICK r : /\ r \in [0 .. n -> Environment] /\ r[0] = env /\ r[n] = SetVariables(env, list)
               /\ \A i \in 1 .. n : r[i] = SetStep(r[i - 1], list[i])
  BY SetVariablesRun
<1>2. PICK q : /\ q \in [0 .. n -> Environment] /\ q[0] = other /\ q[n] = SetVariables(other, list)
               /\ \A i \in 1 .. n : q[i] = SetStep(q[i - 1], list[i])
  BY SetVariablesRun
<1>. DEFINE T == {i \in 0 .. n : r[i][v] = q[i][v] \/ (r[i][v] = env[v] /\ q[i][v] = other[v])}
<1>. HIDE DEF n
<1>3. 0 \in T
  BY <1>0, <1>1, <1>2
<1>4. ASSUME NEW i \in 1 .. n, i - 1 \in T PROVE i \in T
  <2>0. i \in 0 .. n /\ i - 1 \in 0 .. n
    BY <1>0
  <2>1. r[i - 1] \in Environment /\ q[i - 1] \in Environment /\ list[i] \in Seq(Octet) \X OptValue
    BY <1>0, <1>1, <1>2, <2>0
  <2>2. /\ r[i][v] = IF list[i][1] = <<v>> THEN list[i][2] ELSE r[i - 1][v]
        /\ q[i][v] = IF list[i][1] = <<v>> THEN list[i][2] ELSE q[i - 1][v]
    BY <1>1, <1>2, <2>1, SetVariableType
  <2>. QED  BY <1>4, <2>0, <2>2
<1>5. n \in T
  <2>. HIDE DEF T
  <2>1. 0 .. n \subseteq T
    BY <1>0, <1>3, <1>4, UpTo
  <2>. QED  BY <1>0, <2>1
<1>. QED  BY <1>1, <1>2, <1>5

\* A list of one variable sets that, and no other.
LEMMA SetVariablesOne ==
    ASSUME NEW env \in Environment, NEW e \in Seq(Octet) \X OptValue, <<e>> \in Read
    PROVE  \A v \in Allowed :
             SetVariables(env, <<e>>)[v] = IF e[1] = <<v>> THEN e[2] ELSE env[v]
<1>. DEFINE list == <<e>>
<1>0. Len(list) = 1 /\ list[1] = e /\ list \in Read
  OBVIOUS
<1>. HIDE DEF list
<1>1. PICK r : /\ r[0] = env /\ r[Len(list)] = SetVariables(env, list)
               /\ \A i \in 1 .. Len(list) : r[i] = SetStep(r[i - 1], list[i])
  BY <1>0, SetVariablesRun
<1>2. r[1] = SetStep(r[0], e)
  <2>1. 1 \in 1 .. Len(list) /\ 1 - 1 = 0
    BY <1>0
  <2>. QED  BY <1>0, <1>1, <2>1
<1>3. SetVariables(env, list) = SetStep(env, e)
  BY <1>0, <1>1, <1>2
<1>. QED  BY <1>3, SetVariableType DEF list

\* Settings that were exported leave what was exported.
LEMMA SetVariablesHonest ==
    ASSUME NEW env \in Environment, NEW means \in Seq(Octet \X OptValue),
           \A v \in Free : Honest(v, env[v]),
           \A k \in DOMAIN means : means[k][1] \in Free => Honest(means[k][1], means[k][2])
    PROVE  \A v \in Free : Honest(v, SetVariables(env, Settings(means))[v])
<1>. DEFINE list == Settings(means)
            n == Len(list)
<1>0. /\ n \in Nat /\ list \in Read /\ DOMAIN means = 1 .. n
      /\ \A i \in 1 .. n : list[i] \in Seq(Octet) \X OptValue
      /\ \A i \in 1 .. n : list[i] = <<(<<means[i][1]>>), means[i][2]>>
  <2>1. list \in Read /\ DOMAIN list = DOMAIN means
        /\ \A i \in DOMAIN means : list[i] = <<(<<means[i][1]>>), means[i][2]>>
    BY SettingsType
  <2>. HIDE DEF list
  <2>2. DOMAIN list = 1 .. n /\ n \in Nat /\ \A i \in 1 .. n : list[i] \in Seq(Octet) \X OptValue
    BY <2>1 DEF Read
  <2>. QED  BY <2>1, <2>2
<1>. HIDE DEF list
<1>1. PICK r : /\ r \in [0 .. n -> Environment] /\ r[0] = env /\ r[n] = SetVariables(env, list)
               /\ \A i \in 1 .. n : r[i] = SetStep(r[i - 1], list[i])
  BY <1>0, SetVariablesRun
<1>. DEFINE T == {i \in 0 .. n : \A v \in Free : Honest(v, r[i][v])}
<1>. HIDE DEF n
<1>3. 0 \in T
  BY <1>0, <1>1
<1>4. ASSUME NEW i \in 1 .. n, i - 1 \in T PROVE i \in T
  <2>0. i \in 0 .. n /\ i - 1 \in 0 .. n
    BY <1>0
  <2>1. r[i - 1] \in Environment /\ list[i] \in Seq(Octet) \X OptValue
    BY <1>0, <1>1, <2>0
  <2>2. \A v \in Allowed :
          r[i][v] = IF list[i][1] = <<v>> THEN list[i][2] ELSE r[i - 1][v]
    <3>1. r[i] = SetStep(r[i - 1], list[i])
      BY <1>1
    <3>. QED  BY <2>1, <3>1, SetVariableType
  <2>3. list[i][1] = <<means[i][1]>> /\ list[i][2] = means[i][2]
    BY <1>0
  <2>4. ASSUME NEW v \in Free PROVE Honest(v, r[i][v])
    <3>0. v \in Allowed
      BY DEF Free
    <3>1. CASE list[i][1] = <<v>>
      <4>1. means[i][1] = v /\ r[i][v] = means[i][2]
        BY <2>2, <2>3, <3>0, <3>1
      <4>2. i \in DOMAIN means
        BY <1>0
      <4>. QED  BY <4>1, <4>2
    <3>2. CASE list[i][1] # <<v>>
      <4>1. r[i][v] = r[i - 1][v]
        BY <2>2, <3>0, <3>2
      <4>. QED  BY <1>4, <4>1
    <3>. QED  BY <3>1, <3>2
  <2>. QED  BY <2>0, <2>4
<1>5. n \in T
  <2>. HIDE DEF T
  <2>1. 0 .. n \subseteq T
    BY <1>0, <1>3, <1>4, UpTo
  <2>. QED  BY <1>0, <2>1
<1>. QED  BY <1>1, <1>5 DEF list

-----------------------------------------------------------------------------
(* What telnetd makes of a message, and the types.                         *)

\* A message that is text, not a size.
Textual ==
    {m \in [opt : Question, kind : {"IS", "INFO", "WONT"}, octets : Seq(Octet),
            means : Seq(Octet \X OptValue)] :
        (m.kind = "INFO" => m.opt = "ENVIRON") /\ (m.kind = "WONT" => m.opt = "XDISPLOC")}

LEMMA MessageCases ==
    ASSUME NEW m \in Message
    PROVE  \/ m.opt = "NAWS" /\ m.size \in 1 .. MaxSize
           \/ m \in Textual /\ m.opt = "TSPEED" /\ m.kind = "IS"
           \/ m \in Textual /\ m.opt = "TTYPE" /\ m.kind = "IS"
           \/ m \in Textual /\ m.opt = "XDISPLOC" /\ m.kind = "WONT"
           \/ m \in Textual /\ m.opt = "XDISPLOC" /\ m.kind = "IS"
           \/ m \in Textual /\ m.opt = "ENVIRON" /\ m.kind \in {"IS", "INFO"}
<1>1. CASE m \in [opt : {"NAWS"}, size : 1 .. MaxSize]
  BY <1>1
<1>2. CASE m \in Textual
  BY <1>2 DEF Textual, Question
<1>. QED  BY <1>1, <1>2 DEF Message, Textual

\* suboption(), case by case.
LEMMA SuboptionIs ==
    ASSUME NEW s, NEW m \in Message
    PROVE  /\ m.opt = "NAWS" => Suboption(s, m) = [s EXCEPT !.size = m.size]
           /\ m.opt = "TSPEED" \/ (m.opt = "XDISPLOC" /\ m.kind = "WONT") =>
                Suboption(s, m) = [s EXCEPT !.answered = @ \union {m.opt}]
           /\ m.opt = "TTYPE" =>
                Suboption(s, m) =
                  [[s EXCEPT !.answered = @ \union {m.opt}] EXCEPT
                     !.terminaltype = Lowered(Undoubled(m.octets)),
                     !.heard = Hear(@, Lowered(Undoubled(m.octets)), s.pc # "oncemore")]
           /\ m.opt = "XDISPLOC" /\ m.kind = "IS" =>
                Suboption(s, m) =
                  Variable(s, m, Undoubled(m.octets),
                           <<<<(<<"DISPLAY">>), <<Accumulated(Undoubled(m.octets))>>>>>>)
           /\ m.opt = "ENVIRON" =>
                Suboption(s, m) =
                  Variable(s, m, Undoubled(m.octets), Variables(Accumulated(Undoubled(m.octets))))
<1>1. CASE m.opt = "NAWS"
  BY <1>1 DEF Suboption
<1>2. CASE m.opt = "TSPEED" /\ m.kind = "IS"
  BY <1>2 DEF Suboption, Timed
<1>3. CASE m.opt = "TTYPE" /\ m.kind = "IS"
  BY <1>3 DEF Suboption, Timed
<1>4. CASE m.opt = "XDISPLOC" /\ m.kind = "WONT"
  BY <1>4 DEF Suboption, Timed
<1>5. CASE m.opt = "XDISPLOC" /\ m.kind = "IS"
  BY <1>5 DEF Suboption
<1>6. CASE m.opt = "ENVIRON" /\ m.kind \in {"IS", "INFO"}
  BY <1>6 DEF Suboption
<1>. QED  BY <1>1, <1>2, <1>3, <1>4, <1>5, <1>6, MessageCases

\* The list that telnetd reads, and the one that was meant.
LEMMA AccumulatedType ==
    ASSUME NEW octets \in Seq(Octet)
    PROVE  /\ Accumulated(octets) \in Seq(Octet)
           /\ Fits(octets) => Accumulated(octets) = octets
<1>1. ~Fits(octets) => SubSeq(octets, 1, Room) \in Seq(Octet)
  BY SubSizeAssumption DEF Fits, Room
<1>. QED  BY <1>1 DEF Accumulated

LEMMA DisplayList ==
    ASSUME NEW octets \in Seq(Octet)
    PROVE  /\ <<<<(<<"DISPLAY">>), <<octets>>>>>> \in Read
           /\ <<<<"DISPLAY", <<octets>>>>>> \in Seq(Octet \X OptValue)
           /\ Settings(<<<<"DISPLAY", <<octets>>>>>>) = <<<<(<<"DISPLAY">>), <<octets>>>>>>
<1>. DEFINE d == "DISPLAY"
            v == <<octets>>
            p == <<d, v>>
            q == <<(<<d>>), v>>
            m == <<p>>
<1>1. d \in Octet /\ v \in OptValue
  <2>1. d \in Octet
    BY OctetAssumption DEF Allowed
  <2>. QED  BY <2>1, OptValues
<1>2. <<d>> \in Seq(Octet)
  BY <1>1, ShortSeq
<1>. HIDE DEF d, v
<1>3. p \in Octet \X OptValue /\ q \in Seq(Octet) \X OptValue /\ p[1] = d /\ p[2] = v
  BY <1>1, <1>2
<1>. HIDE DEF p
<1>4. m \in Seq(Octet \X OptValue) /\ DOMAIN m = {1} /\ m[1] = p
  <2>. DEFINE E == Octet \X OptValue
  <2>. HIDE DEF E
  <2>1. m \in Seq(E) /\ DOMAIN m = {1} /\ m[1] = p
    BY <1>3, ShortSeq DEF E
  <2>. QED  BY <2>1 DEF E
<1>5. Settings(m) = [i \in {1} |-> q]
  <2>. HIDE DEF m
  <2>. QED  BY <1>3, <1>4 DEF Settings
<1>. HIDE DEF q
<1>6. [i \in {1} |-> q] = <<q>>
  OBVIOUS
<1>7. <<q>> \in Read
  <2>. DEFINE E == Seq(Octet) \X OptValue
  <2>. HIDE DEF E
  <2>1. <<q>> \in Seq(E)
    BY <1>3, ShortSeq DEF E
  <2>. QED  BY <2>1 DEF E, Read
<1>. QED  BY <1>4, <1>5, <1>6, <1>7 DEF m, p, q, d, v

LEMMA VariableType ==
    ASSUME NEW s \in Server, NEW m \in Textual, NEW octets \in Seq(Octet), NEW list \in Read
    PROVE  Variable(s, m, octets, list) \in Server
<1>1. SetVariables(s.env, list) \in Environment /\ SetVariables(s.meant, Settings(m.means)) \in Environment
  <2>1. s.env \in Environment /\ s.meant \in Environment
    BY DEF Server
  <2>2. Settings(m.means) \in Read
    BY SettingsType DEF Textual
  <2>. QED  BY <2>1, <2>2, SetVariablesType
<1>2. Timed(s, m) \in Server /\ Timed(s, m).env = s.env /\ Timed(s, m).meant = s.meant
      /\ Timed(s, m).cut = s.cut
  BY DEF Timed, Textual, Server
<1>3. (s.cut \/ ~Fits(octets)) \in BOOLEAN
  BY DEF Server
<1>4. Variable(s, m, octets, list) =
        [Timed(s, m) EXCEPT !.env = SetVariables(s.env, list),
                            !.meant = SetVariables(s.meant, Settings(m.means)),
                            !.cut = s.cut \/ ~Fits(octets)]
  <2>. HIDE DEF Server
  <2>. QED  BY <1>2, Zenon DEF Variable
<1>. HIDE DEF Timed
<1>. DEFINE t == Timed(s, m)
            a == SetVariables(s.env, list)
            b == SetVariables(s.meant, Settings(m.means))
            c == s.cut \/ ~Fits(octets)
<1>5. t \in Server /\ a \in Environment /\ b \in Environment /\ c \in BOOLEAN
  BY <1>1, <1>2, <1>3
<1>. HIDE DEF t, a, b, c
<1>6. [t EXCEPT !.env = a, !.meant = b, !.cut = c] \in Server
  BY <1>5 DEF Server
<1>. QED  BY <1>4, <1>6 DEF t, a, b, c

LEMMA LoweredType ==
    ASSUME NEW name \in Seq(Octet)
    PROVE  Lowered(name) \in Seq(Octet)
<1>. DEFINE n == Len(name)
            g == Lowered(name)
<1>1. "x" \in Octet
  BY OctetAssumption
<1>2. n \in Nat /\ DOMAIN name = 1 .. n /\ \A i \in 1 .. n : name[i] \in Octet
  OBVIOUS
<1>3. g = [i \in 1 .. n |-> g[i]] /\ \A i \in 1 .. n : g[i] = IF name[i] = "X" THEN "x" ELSE name[i]
  BY <1>2 DEF Lowered
<1>. HIDE DEF g, n
<1>4. \A i \in 1 .. n : g[i] \in Octet
  BY <1>1, <1>2, <1>3, Zenon
<1>. QED  BY <1>2, <1>3, <1>4, ListedSeq DEF g

LEMMA HearType ==
    ASSUME NEW heard \in [first : OptValue, good : OptValue], NEW name \in Seq(Octet), NEW counts
    PROVE  Hear(heard, name, counts) \in [first : OptValue, good : OptValue]
BY OptValues DEF Hear

LEMMA TimedType ==
    ASSUME NEW s \in Server, NEW m \in Textual
    PROVE  /\ [s EXCEPT !.answered = @ \union {m.opt}] \in Server
           /\ [s EXCEPT !.answered = @ \union {m.opt}].pc = s.pc
<1>. DEFINE a == s.answered \union {m.opt}
<1>1. a \subseteq Question
  BY DEF Server, Textual
<1>2. [s EXCEPT !.answered = @ \union {m.opt}] = [s EXCEPT !.answered = a]
  BY DEF Server
<1>. HIDE DEF a
<1>. QED  BY <1>1, <1>2 DEF Server

LEMMA SuboptionType ==
    ASSUME NEW s \in Server, NEW m \in Message
    PROVE  /\ Suboption(s, m) \in Server
           /\ Suboption(s, m).pc = s.pc
<1>1. CASE m.opt = "NAWS" /\ m.size \in 1 .. MaxSize
  <2>1. Suboption(s, m) = [s EXCEPT !.size = m.size]
    BY <1>1, SuboptionIs
  <2>2. m.size \in 0 .. MaxSize
    BY <1>1
  <2>. DEFINE n == m.size
  <2>. HIDE DEF n
  <2>3. [s EXCEPT !.size = n] \in Server /\ [s EXCEPT !.size = n].pc = s.pc
    BY <2>2 DEF Server, n
  <2>. QED  BY <2>1, <2>3 DEF n
<1>2. CASE m \in Textual /\ m.opt \in {"TSPEED", "XDISPLOC"} /\ (m.opt = "XDISPLOC" => m.kind = "WONT")
  <2>1. Suboption(s, m) = [s EXCEPT !.answered = @ \union {m.opt}]
    <3>1. m.opt = "TSPEED" \/ (m.opt = "XDISPLOC" /\ m.kind = "WONT")
      BY <1>2
    <3>. QED  BY <3>1, SuboptionIs
  <2>. QED  BY <1>2, <2>1, TimedType
<1>3. CASE m \in Textual /\ m.opt = "TTYPE"
  <2>. DEFINE name == Lowered(Undoubled(m.octets))
              heard == Hear(s.heard, name, s.pc # "oncemore")
  <2>1. name \in Seq(Octet)
    BY <1>3, UndoubledType, LoweredType DEF Textual
  <2>. HIDE DEF name
  <2>2. heard \in [first : OptValue, good : OptValue]
    BY <2>1, HearType DEF Server
  <2>3. Suboption(s, m) = [[s EXCEPT !.answered = @ \union {m.opt}] EXCEPT
                              !.terminaltype = name, !.heard = heard]
                 /\ [s EXCEPT !.answered = @ \union {m.opt}] \in Server
                 /\ [s EXCEPT !.answered = @ \union {m.opt}].pc = s.pc
    <3>0. /\ [s EXCEPT !.answered = @ \union {m.opt}] \in Server
          /\ [s EXCEPT !.answered = @ \union {m.opt}].pc = s.pc
      BY <1>3, TimedType
    <3>1. Suboption(s, m) = [[s EXCEPT !.answered = @ \union {m.opt}] EXCEPT
                              !.terminaltype = name, !.heard = Hear(@, name, s.pc # "oncemore")]
      BY <1>3, SuboptionIs DEF name
    <3>2. [s EXCEPT !.answered = @ \union {m.opt}].heard = s.heard
      BY DEF Server
    <3>. QED  BY <3>0, <3>1, <3>2 DEF Server
  <2>. HIDE DEF heard
  <2>. DEFINE t == [s EXCEPT !.answered = @ \union {m.opt}]
  <2>. HIDE DEF t
  <2>4. t \in Server => /\ [t EXCEPT !.terminaltype = name, !.heard = heard] \in Server
                        /\ [t EXCEPT !.terminaltype = name, !.heard = heard].pc = t.pc
    BY <2>1, <2>2 DEF Server
  <2>. QED  BY <2>3, <2>4 DEF t
<1>4. CASE m \in Textual /\ m.opt = "XDISPLOC" /\ m.kind = "IS"
  <2>. DEFINE octets == Undoubled(m.octets)
              list == <<<<(<<"DISPLAY">>), <<Accumulated(octets)>>>>>>
  <2>1. octets \in Seq(Octet)
    BY <1>4, UndoubledType DEF Textual
  <2>2. list \in Read
    <3>. HIDE DEF octets
    <3>1. Accumulated(octets) \in Seq(Octet)
      BY <2>1, AccumulatedType
    <3>. QED  BY <3>1, DisplayList
  <2>3. Suboption(s, m) = Variable(s, m, octets, list)
    BY <1>4, SuboptionIs
  <2>. HIDE DEF list, octets
  <2>4. Variable(s, m, octets, list).pc = s.pc
    BY DEF Variable, Timed, Server
  <2>. QED  BY <1>4, <2>1, <2>2, <2>3, <2>4, VariableType
<1>5. CASE m \in Textual /\ m.opt = "ENVIRON"
  <2>. DEFINE octets == Undoubled(m.octets)
              list == Variables(Accumulated(octets))
  <2>1. octets \in Seq(Octet)
    BY <1>5, UndoubledType DEF Textual
  <2>. HIDE DEF octets
  <2>2. list \in Read
    BY <2>1, AccumulatedType, VariablesType
  <2>3. Suboption(s, m) = Variable(s, m, octets, list)
    BY <1>5, SuboptionIs DEF octets
  <2>. HIDE DEF list
  <2>4. Variable(s, m, octets, list).pc = s.pc
    BY DEF Variable, Timed, Server
  <2>. QED  BY <1>5, <2>1, <2>2, <2>3, <2>4, VariableType
<1>. QED  BY <1>1, <1>2, <1>3, <1>4, <1>5, MessageCases

-----------------------------------------------------------------------------
(* Types.                                                                  *)

LEMMA InitTypes == Init => TypeOK
<1>. SUFFICES ASSUME Init PROVE TypeOK
  OBVIOUS
<1>1. PICK start \in Start : /\ vars = EnvInit(start.environ, start.user)
                             /\ agreed = start.options /\ shown = Pairs(vars)
  BY DEF Init
<1>2. /\ start.environ \in Seq(Octet \X Seq(Octet)) /\ start.user \in Seq(Seq(Octet))
      /\ start.options \subseteq Question
  BY StartAssumption
<1>3. vars \in Table /\ Unique(vars)
  BY <1>1, <1>2, EnvInitTable
<1>4. shown \subseteq Octet \X Seq(Octet)
  <2>1. vars \in Seq(Entry)
    BY <1>3 DEF Table, Entry
  <2>2. Range(vars) \subseteq Entry
    BY <2>1 DEF Range
  <2>. QED  BY <1>1, <2>2 DEF Pairs, Entry
<1>5. AllUnset \in Environment
  BY OptValues DEF AllUnset, Environment
<1>6. MaxSize \in Nat /\ Budget \in Nat
  BY BoundAssumption
<1>7. <<>> \in Seq(Octet) /\ <<>> \in OptValue
  BY OptValues
<1>8. server \in Server
  BY <1>5, <1>6, <1>7 DEF Init, ServerInit, Server
<1>9. child \in [pc : {"none", "forked", "slave", "wrapper", "login", "exited"},
                 env : Environment, size : 0 .. MaxSize]
  BY <1>5, <1>6 DEF Init
<1>10. toServer \in Seq(Message) /\ toClient \in Seq(Question)
  BY DEF Init
<1>11. /\ termtypes \in [kind : {"none", "literal", "value", "freed"}, name : Seq(Octet)]
       /\ pty \in 0 .. MaxSize /\ window \in 0 .. MaxSize /\ crossed \in BOOLEAN
       /\ budget \in 0 .. Budget
  <2>1. termtypes \in [kind : {"none", "literal", "value", "freed"}, name : Seq(Octet)]
    BY <1>7 DEF Init
  <2>2. /\ pty \in 0 .. MaxSize /\ window \in 0 .. MaxSize /\ crossed \in BOOLEAN
        /\ budget \in 0 .. Budget
    <3>1. pty = 0 /\ window = 0 /\ crossed = FALSE /\ budget = Budget
      BY DEF Init
    <3>2. 0 \in 0 .. MaxSize /\ Budget \in 0 .. Budget
      BY <1>6
    <3>. QED  BY <3>1, <3>2
  <2>. QED  BY <2>1, <2>2
<1>. QED  BY <1>1, <1>2, <1>3, <1>4, <1>8, <1>9, <1>10, <1>11 DEF TypeOK, Unique

Child ==
    [pc : {"none", "forked", "slave", "wrapper", "login", "exited"},
     env : Environment, size : 0 .. MaxSize]

LEMMA AppendType ==
    ASSUME NEW E, NEW s \in Seq(E), NEW e \in E
    PROVE  Append(s, e) \in Seq(E)
OBVIOUS

LEMMA GettermnameType ==
    ASSUME NEW s \in Server, NEW pc \in {"ask", "wait", "again", "oncemore", "fork", "serving", "exited"},
           NEW a \in SUBSET Question
    PROVE  [s EXCEPT !.pc = pc, !.answered = a] \in Server /\ [s EXCEPT !.pc = pc] \in Server
BY DEF Server

LEMMA RequestType ==
    ASSUME NEW opt \in Question
    PROVE  Request(opt) \in Seq(Question) /\ Request(opt) \in {<<>>, <<opt>>}
BY ShortSeq DEF Request

LEMMA ServerTypes ==
    ASSUME TypeOK, Ask \/ FirstName \/ NextName \/ OnceMore \/ Fork \/ Cleanup
    PROVE  TypeOK'
<1>0. server \in Server /\ toClient \in Seq(Question) /\ {} \subseteq Question
      /\ server.terminaltype \in Seq(Octet) /\ server.first \in Seq(Octet)
  BY DEF TypeOK, Server
<1>a. ASSUME NEW s \in Seq(Question), toClient' = toClient \o s
      PROVE  toClient' \in Seq(Question)
  BY <1>0, <1>a, JoinedSeq
<1>b. <<"TTYPE">> \in Seq(Question)
  <2>1. "TTYPE" \in Question
    BY DEF Question
  <2>. QED  BY <2>1, ShortSeq
<1>1. CASE Ask
  <2>1. server' \in Server
    BY <1>0, <1>1, GettermnameType DEF Ask
  <2>2. toClient' \in Seq(Question)
    <3>. DEFINE p == Request("TSPEED")
                q == Request("XDISPLOC")
                r == Request("ENVIRON")
                s == Request("TTYPE")
    <3>1. p \in Seq(Question) /\ q \in Seq(Question) /\ r \in Seq(Question) /\ s \in Seq(Question)
      BY RequestType DEF Question
    <3>2. toClient' = toClient \o (p \o q \o r \o s)
      BY <1>1 DEF Ask, Send
    <3>. HIDE DEF p, q, r, s
    <3>3. p \o q \o r \o s \in Seq(Question)
      BY <3>1
    <3>. QED  BY <1>a, <3>2, <3>3
  <2>. QED  BY <1>1, <2>1, <2>2 DEF TypeOK, Ask, clientVars
<1>2. CASE FirstName
  <2>1. server' \in Server
    <3>1. CASE server' = [server EXCEPT !.pc = "fork"]
      BY <1>0, <3>1, GettermnameType
    <3>2. CASE server' = [Gettermname(server, "again") EXCEPT !.first = server.terminaltype,
                                                              !.last = server.terminaltype]
      <4>1. Gettermname(server, "again") \in Server
        BY <1>0, GettermnameType DEF Gettermname
      <4>. QED  BY <1>0, <3>2, <4>1 DEF Server
    <3>. QED  BY <1>2, <3>1, <3>2 DEF FirstName
  <2>2. toClient' \in Seq(Question)
    BY <1>0, <1>2, <1>a, <1>b DEF FirstName, Send
  <2>. QED  BY <1>2, <2>1, <2>2 DEF TypeOK, FirstName, clientVars
<1>3. CASE NextName
  <2>1. server' \in Server
    <3>1. CASE server' = [server EXCEPT !.pc = "fork"]
      BY <1>0, <3>1, GettermnameType
    <3>2. CASE server' = Gettermname(server, "oncemore")
      BY <1>0, <3>2, GettermnameType DEF Gettermname
    <3>3. CASE server' = [Gettermname(server, "again") EXCEPT !.last = server.terminaltype]
      <4>1. Gettermname(server, "again") \in Server
        BY <1>0, GettermnameType DEF Gettermname
      <4>. QED  BY <1>0, <3>3, <4>1 DEF Server
    <3>. QED  BY <1>3, <3>1, <3>2, <3>3 DEF NextName
  <2>2. toClient' \in Seq(Question)
    BY <1>0, <1>3, <1>a, <1>b DEF NextName, Send
  <2>. QED  BY <1>3, <2>1, <2>2 DEF TypeOK, NextName, clientVars
<1>4. CASE OnceMore
  <2>1. server' \in Server
    BY <1>0, <1>4 DEF OnceMore, Server
  <2>. QED  BY <1>4, <2>1 DEF TypeOK, OnceMore, clientVars
<1>5. CASE Fork
  <2>. DEFINE term == IF "TTYPE" \in agreed THEN server.terminaltype ELSE <<"network">>
              env == [server.env EXCEPT !["TERM"] = <<term>>]
  <2>1. term \in Seq(Octet)
    <3>1. "network" \in Octet
      BY OctetAssumption
    <3>2. <<"network">> \in Seq(Octet)
      BY <3>1, ShortSeq
    <3>. QED  BY <1>0, <3>2
  <2>. HIDE DEF term
  <2>2. env \in Environment
    <3>1. <<term>> \in OptValue
      BY <2>1, OptValues
    <3>. QED  BY <1>0, <3>1 DEF Environment, Server
  <2>3. /\ server' = [server EXCEPT !.pc = "serving", !.env = env]
        /\ child' = [pc |-> "forked", env |-> env, size |-> server.size]
    BY <1>5 DEF Fork, term
  <2>. HIDE DEF env
  <2>4. server' \in Server
    BY <1>0, <2>2, <2>3 DEF Server
  <2>5. child' \in Child
    BY <1>0, <2>2, <2>3 DEF Child, Server
  <2>. QED  BY <1>5, <2>4, <2>5 DEF TypeOK, Fork, clientVars, Child
<1>6. CASE Cleanup
  <2>1. server' \in Server
    BY <1>0, <1>6, GettermnameType DEF Cleanup
  <2>. QED  BY <1>6, <2>1 DEF TypeOK, Cleanup, clientVars
<1>. QED  BY <1>1, <1>2, <1>3, <1>4, <1>5, <1>6

LEMMA ChildTypes ==
    ASSUME TypeOK, Getptyslave \/ StartLogin \/ Telnetlogin
    PROVE  TypeOK'
<1>0. child \in Child /\ pty \in 0 .. MaxSize
  BY DEF TypeOK, Child
<1>1. CASE Getptyslave
  <2>1. child' \in Child /\ pty' \in 0 .. MaxSize
    BY <1>0, <1>1 DEF Getptyslave, Child
  <2>. QED  BY <1>1, <2>1 DEF TypeOK, Getptyslave, clientVars, Child
<1>2. CASE StartLogin
  <2>1. child' \in Child
    BY <1>0, <1>2 DEF StartLogin, Child
  <2>. QED  BY <1>2, <2>1 DEF TypeOK, StartLogin, clientVars, Child
<1>3. CASE Telnetlogin
  <2>1. child' \in Child
    BY <1>0, <1>3 DEF Telnetlogin, Child
  <2>. QED  BY <1>3, <2>1 DEF TypeOK, Telnetlogin, clientVars, Child
<1>. QED  BY <1>1, <1>2, <1>3

\* The message received, and what it does to telnetd.
LEMMA Received ==
    ASSUME TypeOK, ServerReceives
    PROVE  /\ Head(toServer) \in Message /\ toServer # <<>>
           /\ Tail(toServer) \in Seq(Message) /\ toServer' = Tail(toServer)
           /\ \E more \in BOOLEAN :
                server' = [Suboption(server, Head(toServer)) EXCEPT !.reading = more]
           /\ server' \in Server
<1>1. toServer \in Seq(Message) /\ toServer # <<>> /\ server \in Server
  BY DEF TypeOK, ServerReceives, CanReceive, Receivable
<1>2. Head(toServer) \in Message /\ Tail(toServer) \in Seq(Message)
  BY <1>1
<1>3. PICK more \in BOOLEAN :
        server' = [Suboption(server, Head(toServer)) EXCEPT !.reading = more]
  BY DEF ServerReceives
<1>4. Suboption(server, Head(toServer)) \in Server
  BY <1>1, <1>2, SuboptionType
<1>5. server' \in Server
  BY <1>3, <1>4 DEF Server
<1>. QED  BY <1>1, <1>2, <1>3, <1>5 DEF ServerReceives

LEMMA ReceiveTypes ==
    ASSUME TypeOK, ServerReceives
    PROVE  TypeOK'
<1>1. server' \in Server /\ toServer' \in Seq(Message)
  BY Received
<1>2. pty' \in 0 .. MaxSize
  <2>1. pty \in 0 .. MaxSize /\ Head(toServer) \in Message
    BY Received DEF TypeOK
  <2>2. pty' = IF Head(toServer).opt = "NAWS" THEN Head(toServer).size ELSE pty
    BY DEF ServerReceives
  <2>3. \A m \in Message : m.opt = "NAWS" => m.size \in 1 .. MaxSize
    <3>1. "NAWS" \notin Question
      BY DEF Question
    <3>. QED  BY <3>1, MessageCases
  <2>4. Head(toServer).opt = "NAWS" => Head(toServer).size \in 0 .. MaxSize
    BY <2>1, <2>3
  <2>. QED  BY <2>1, <2>2, <2>4
<1>3. crossed' \in BOOLEAN
  BY DEF TypeOK, ServerReceives
<1>. QED  BY <1>1, <1>2, <1>3 DEF TypeOK, ServerReceives, clientVars

LEMMA SubType ==
    ASSUME NEW opt \in Question, NEW kind \in {"IS", "INFO", "WONT"}, NEW octets \in Seq(Octet),
           NEW means \in Seq(Octet \X OptValue),
           kind = "INFO" => opt = "ENVIRON", kind = "WONT" => opt = "XDISPLOC"
    PROVE  Sub(opt, kind, octets, means) \in Message
<1>1. Sub(opt, kind, octets, means) \in Textual
  BY DEF Sub, Textual
<1>. QED  BY <1>1 DEF Message, Textual

LEMMA TermtypesType ==
    ASSUME TypeOK
    PROVE  Termtypes \in [kind : {"none", "literal", "value", "freed"}, name : Seq(Octet)]
<1>. DEFINE term == GetValue(vars, "TERM", FALSE)
            T == [kind : {"none", "literal", "value", "freed"}, name : Seq(Octet)]
<1>1. term \in OptValue
  BY GetValueIs DEF TypeOK
<1>. HIDE DEF term
<1>2. term # <<>> => [kind |-> "value", name |-> term[1]] \in T
  BY <1>1, OptValues
<1>3. [kind |-> "literal", name |-> <<"UNKNOWN">>] \in T
  <2>1. "UNKNOWN" \in Octet
    BY OctetAssumption
  <2>2. <<"UNKNOWN">> \in Seq(Octet)
    BY <2>1, ShortSeq
  <2>. QED  BY <2>2
<1>4. termtypes \in T
  BY DEF TypeOK
<1>5. Termtypes = IF termtypes.kind # "none" THEN termtypes
                  ELSE IF term = <<>> THEN [kind |-> "literal", name |-> <<"UNKNOWN">>]
                  ELSE [kind |-> "value", name |-> term[1]]
  BY DEF Termtypes, term
<1>. QED  BY <1>2, <1>3, <1>4, <1>5, Zenon

\* The answer to each question.
IsAnswer(q, m) ==
    \/ q = "TSPEED" /\ m = Sub("TSPEED", "IS", <<>>, <<>>)
    \/ q = "XDISPLOC" /\ m = Sub("XDISPLOC", "WONT", <<>>, <<>>)
    \/ q = "XDISPLOC" /\ \E octets \in Seq(Octet) :
          m = Sub("XDISPLOC", "IS", octets, <<<<"DISPLAY", <<octets>>>>>>)
    \/ q = "ENVIRON" /\ m = Environ("IS", vars, Names(Exported(vars)), EnvOptAll(vars))
    \/ q = "TTYPE" /\ \E name \in Seq(Octet) : m = Sub("TTYPE", "IS", name, <<>>)

LEMMA Answered ==
    ASSUME TypeOK, ClientAnswers
    PROVE  /\ Head(toClient) \in Question /\ toClient # <<>>
           /\ toClient' = Tail(toClient) /\ Tail(toClient) \in Seq(Question)
           /\ \E m \in Message : toServer' = Append(toServer, m) /\ IsAnswer(Head(toClient), m)
<1>. DEFINE q == Head(toClient)
            display == GetValue(vars, "DISPLAY", FALSE)
            names == IF Termtypes.kind = "freed" THEN Garbage ELSE {Termtypes.name}
<1>1. q \in Question /\ toClient # <<>> /\ toClient' = Tail(toClient) /\ Tail(toClient) \in Seq(Question)
  BY DEF TypeOK, ClientAnswers
<1>2. /\ q = "TSPEED" => toServer' = Append(toServer, Sub("TSPEED", "IS", <<>>, <<>>))
      /\ q = "XDISPLOC" /\ display = <<>> =>
           toServer' = Append(toServer, Sub("XDISPLOC", "WONT", <<>>, <<>>))
      /\ q = "XDISPLOC" /\ display # <<>> =>
           toServer' = Append(toServer, Sub("XDISPLOC", "IS", display[1], <<<<"DISPLAY", display>>>>))
      /\ q = "ENVIRON" =>
           toServer' = Append(toServer, Environ("IS", vars, Names(Exported(vars)), EnvOptAll(vars)))
      /\ q = "TTYPE" =>
           \E name \in names : toServer' = Append(toServer, Sub("TTYPE", "IS", name, <<>>))
  <2>. HIDE DEF display, names
  <2>1. CASE q = "TSPEED"
    BY <2>1 DEF ClientAnswers, Answer
  <2>2. CASE q = "XDISPLOC"
    <3>1. CASE display = <<>>
      BY <2>2, <3>1 DEF ClientAnswers, Answer, display
    <3>2. CASE display # <<>>
      BY <2>2, <3>2 DEF ClientAnswers, Answer, display
    <3>. QED  BY <2>2, <3>1, <3>2
  <2>3. CASE q = "ENVIRON"
    BY <2>3 DEF ClientAnswers, Answer
  <2>4. CASE q = "TTYPE"
    BY <2>4 DEF ClientAnswers, Answer, names
  <2>. QED  BY <1>1, <2>1, <2>2, <2>3, <2>4 DEF Question
<1>3. display \in OptValue
  BY GetValueIs DEF TypeOK
<1>4. names \subseteq Seq(Octet)
  BY TermtypesType, GarbageAssumption
<1>. HIDE DEF display, names, q
<1>5. <<>> \in Seq(Octet) /\ <<>> \in Seq(Octet \X OptValue)
  OBVIOUS
<1>6. CASE q = "TSPEED"
  <2>. DEFINE m == Sub("TSPEED", "IS", <<>>, <<>>)
  <2>1. m \in Message
    <3>1. "TSPEED" \in Question
      BY DEF Question
    <3>. QED  BY <1>5, <3>1, SubType
  <2>2. IsAnswer(q, m)
    BY <1>6, Zenon DEF IsAnswer
  <2>. QED  BY <1>1, <1>2, <1>6, <2>1, <2>2 DEF q
<1>7. CASE q = "XDISPLOC" /\ display = <<>>
  <2>. DEFINE m == Sub("XDISPLOC", "WONT", <<>>, <<>>)
  <2>1. m \in Message
    <3>1. "XDISPLOC" \in Question
      BY DEF Question
    <3>. QED  BY <1>5, <3>1, SubType
  <2>2. IsAnswer(q, m)
    BY <1>7, Zenon DEF IsAnswer
  <2>. QED  BY <1>1, <1>2, <1>7, <2>1, <2>2 DEF q
<1>8. CASE q = "XDISPLOC" /\ display # <<>>
  <2>. DEFINE octets == display[1]
              m == Sub("XDISPLOC", "IS", octets, <<<<"DISPLAY", <<octets>>>>>>)
  <2>0. octets \in Seq(Octet) /\ display = <<octets>>
    BY <1>3, <1>8, OptValues
  <2>1. m \in Message
    <3>1. "XDISPLOC" \in Question
      BY DEF Question
    <3>2. <<<<"DISPLAY", <<octets>>>>>> \in Seq(Octet \X OptValue)
      BY <2>0, DisplayList
    <3>. QED  BY <2>0, <3>1, <3>2, SubType
  <2>2. IsAnswer(q, m)
    BY <1>8, <2>0, Zenon DEF IsAnswer
  <2>3. toServer' = Append(toServer, m)
    BY <1>2, <1>8, <2>0, Zenon
  <2>. QED  BY <1>1, <2>1, <2>2, <2>3 DEF q
<1>9. CASE q = "ENVIRON"
  <2>. DEFINE m == Environ("IS", vars, Names(Exported(vars)), EnvOptAll(vars))
  <2>1. m \in Message
    <3>1. "ENVIRON" \in Question
      BY DEF Question
    <3>2. Meant(vars, Names(Exported(vars))) \in Seq(Octet \X OptValue) /\ EnvOptAll(vars) \in Seq(Octet)
      BY ExportedTable, NamesType, MeantType, AllDecodes DEF TypeOK
    <3>. QED  BY <3>1, <3>2, SubType DEF Environ
  <2>2. IsAnswer(q, m)
    BY <1>9, Zenon DEF IsAnswer
  <2>. QED  BY <1>1, <1>2, <1>9, <2>1, <2>2 DEF q
<1>10. CASE q = "TTYPE"
  <2>1. PICK name \in Seq(Octet) : toServer' = Append(toServer, Sub("TTYPE", "IS", name, <<>>))
    BY <1>2, <1>4, <1>10
  <2>. DEFINE m == Sub("TTYPE", "IS", name, <<>>)
  <2>2. m \in Message
    <3>1. "TTYPE" \in Question
      BY DEF Question
    <3>. QED  BY <1>5, <3>1, SubType
  <2>3. IsAnswer(q, m)
    BY <1>10, Zenon DEF IsAnswer
  <2>. QED  BY <1>1, <2>1, <2>2, <2>3 DEF q
<1>. QED  BY <1>1, <1>6, <1>7, <1>8, <1>9, <1>10 DEF q, Question

LEMMA ChangedType ==
    ASSUME TypeOK, NEW c \in Command
    PROVE  Changed(c) \in Table /\ Unique(Changed(c))
<1>0. vars \in Table /\ Unique(vars) /\ c.name \in Octet /\ c.value \in Seq(Octet) /\ c.op \in Operation
  BY CommandAssumption DEF TypeOK, Unique
<1>. DEFINE yes == TRUE
            no == FALSE
<1>1. yes \in BOOLEAN /\ no \in BOOLEAN
  OBVIOUS
<1>2. /\ c.op = "define" => Changed(c) = Put(vars, c.name, c.value, yes)
      /\ c.op = "undefine" => Changed(c) = Undefine(vars, c.name)
      /\ c.op = "export" => Changed(c) = SetExport(vars, c.name, yes)
      /\ c.op = "unexport" => Changed(c) = SetExport(vars, c.name, no)
      /\ c.op = "send" => Changed(c) = vars
  BY DEF Changed
<1>. HIDE DEF yes, no
<1>3. Put(vars, c.name, c.value, yes) \in Table /\ Unique(Put(vars, c.name, c.value, yes))
  BY <1>0, <1>1, PutTable
<1>4. Undefine(vars, c.name) \in Table /\ Unique(Undefine(vars, c.name))
  BY <1>0, UndefineTable
<1>5. ASSUME NEW e \in BOOLEAN
      PROVE  SetExport(vars, c.name, e) \in Table /\ Unique(SetExport(vars, c.name, e))
  BY <1>0, SetExportTable
<1>. QED  BY <1>0, <1>1, <1>2, <1>3, <1>4, <1>5 DEF Operation

LEMMA PairsType ==
    ASSUME NEW table \in Table
    PROVE  Pairs(table) \subseteq Octet \X Seq(Octet)
<1>1. table \in Seq(Entry)
  BY DEF Table, Entry
<1>2. Range(table) \subseteq Entry
  BY <1>1 DEF Range
<1>. QED  BY <1>2 DEF Pairs, Entry

\* What "environ send" sends.
LEMMA Sent ==
    ASSUME TypeOK, NEW c \in Command
    PROVE  Environ("INFO", vars, <<c.name>>, EnvOptAdd(vars, c.name)) \in Message
<1>1. c.name \in Octet /\ vars \in Table
  BY CommandAssumption DEF TypeOK
<1>2. <<c.name>> \in Seq(Octet)
  BY <1>1, ShortSeq
<1>3. Meant(vars, <<c.name>>) \in Seq(Octet \X OptValue) /\ EnvOptAdd(vars, c.name) \in Seq(Octet)
  BY <1>1, <1>2, MeantType, AddDecodes
<1>4. "ENVIRON" \in Question
  BY DEF Question
<1>. QED  BY <1>3, <1>4, SubType DEF Environ

LEMMA ClientTypes ==
    ASSUME TypeOK, ClientAnswers \/ (\E c \in Command : UserDoes(c)) \/ Sendnaws
    PROVE  TypeOK'
<1>0. /\ toServer \in Seq(Message) /\ budget \in 0 .. Budget /\ Budget \in Nat /\ MaxSize \in Nat
      /\ termtypes \in [kind : {"none", "literal", "value", "freed"}, name : Seq(Octet)]
  BY BoundAssumption DEF TypeOK
<1>1. CASE ClientAnswers
  <2>1. toServer' \in Seq(Message) /\ toClient' \in Seq(Question)
    <3>1. PICK m \in Message : toServer' = Append(toServer, m)
      BY <1>1, Answered
    <3>. QED  BY <1>0, <1>1, <3>1, Answered, AppendType
  <2>2. termtypes' \in [kind : {"none", "literal", "value", "freed"}, name : Seq(Octet)]
    BY <1>0, <1>1, TermtypesType DEF ClientAnswers
  <2>. QED  BY <1>1, <2>1, <2>2 DEF TypeOK, ClientAnswers
<1>2. ASSUME NEW c \in Command, UserDoes(c) PROVE TypeOK'
  <2>1. vars' \in Table /\ Unique(vars)'
    <3>1. vars' = Changed(c)
      BY <1>2 DEF UserDoes
    <3>2. Changed(c) \in Table /\ Unique(Changed(c))
      BY ChangedType
    <3>. QED  BY <3>1, <3>2 DEF Unique
  <2>2. shown' \subseteq Octet \X Seq(Octet)
    <3>1. shown' = shown \union Pairs(vars')
      BY <1>2 DEF UserDoes
    <3>2. Pairs(vars') \subseteq Octet \X Seq(Octet)
      BY <2>1, PairsType
    <3>. QED  BY <3>1, <3>2 DEF TypeOK
  <2>3. termtypes' \in [kind : {"none", "literal", "value", "freed"}, name : Seq(Octet)]
    <3>1. termtypes' = Freed(c)
      BY <1>2 DEF UserDoes
    <3>2. Freed(c) = termtypes \/ Freed(c) = [termtypes EXCEPT !.kind = "freed"]
      BY DEF Freed
    <3>. QED  BY <1>0, <3>1, <3>2
  <2>4. toServer' \in Seq(Message)
    <3>. DEFINE m == Environ("INFO", vars, <<c.name>>, EnvOptAdd(vars, c.name))
    <3>1. m \in Message
      BY Sent
    <3>2. toServer' = toServer \/ toServer' = Append(toServer, m)
      BY <1>2 DEF UserDoes, Answer
    <3>. HIDE DEF m
    <3>. QED  BY <1>0, <3>1, <3>2, AppendType
  <2>5. budget' \in 0 .. Budget
    BY <1>0, <1>2 DEF UserDoes
  <2>. QED  BY <1>2, <2>1, <2>2, <2>3, <2>4, <2>5 DEF TypeOK, UserDoes, Unique
<1>3. CASE Sendnaws
  <2>1. PICK n \in (1 .. MaxSize) \ {window} : window' = n /\ toServer' = Append(toServer, Naws(n))
    BY <1>3 DEF Sendnaws, Answer
  <2>2. window' \in 0 .. MaxSize
    BY <1>0, <2>1
  <2>3. Naws(n) \in Message
    BY DEF Naws, Message
  <2>4. toServer' \in Seq(Message)
    BY <1>0, <2>1, <2>3, AppendType
  <2>5. budget' \in 0 .. Budget
    BY <1>0, <1>3 DEF Sendnaws
  <2>. QED  BY <1>3, <2>2, <2>4, <2>5 DEF TypeOK, Sendnaws
<1>. QED  BY <1>1, <1>2, <1>3

LEMMA StepTypes == TypeOK /\ [Next]_allVars => TypeOK'
<1>. SUFFICES ASSUME TypeOK, [Next]_allVars PROVE TypeOK'
  OBVIOUS
<1>1. CASE Ask \/ FirstName \/ NextName \/ OnceMore \/ Fork \/ Cleanup
  BY <1>1, ServerTypes
<1>2. CASE ServerReceives
  BY <1>2, ReceiveTypes
<1>3. CASE Getptyslave \/ StartLogin \/ Telnetlogin
  BY <1>3, ChildTypes
<1>4. CASE ClientAnswers \/ (\E c \in Command : UserDoes(c)) \/ Sendnaws
  BY <1>4, ClientTypes
<1>5. CASE UNCHANGED allVars
  BY <1>5 DEF TypeOK, allVars, clientVars
<1>. QED  BY <1>1, <1>2, <1>3, <1>4, <1>5 DEF Next

\* The two programs and the child hold what they can hold.
THEOREM LoginTypes == Spec => []TypeOK
<1>1. Init => TypeOK
  BY InitTypes
<1>2. TypeOK /\ [Next]_allVars => TypeOK'
  BY StepTypes
<1>. QED  BY <1>1, <1>2, PTL DEF Spec

\* What a message leaves alone, and what it changes.
Affects(s, m, t) ==
    /\ t \in Server /\ t.pc = s.pc /\ t.first = s.first /\ t.last = s.last
    /\ m.opt = "NAWS" => t.size = m.size
    /\ m.opt # "NAWS" => t.size = s.size
    /\ m.opt # "TTYPE" => /\ t.terminaltype = s.terminaltype /\ t.heard = s.heard
                          /\ "TTYPE" \in t.answered <=> "TTYPE" \in s.answered
    /\ m.opt = "TTYPE" => /\ t.terminaltype = Lowered(Undoubled(m.octets))
                          /\ "TTYPE" \in t.answered
                          /\ t.heard = Hear(s.heard, Lowered(Undoubled(m.octets)),
                                            s.pc # "oncemore")
    /\ \/ t.env = s.env /\ t.meant = s.meant /\ t.cut = s.cut
       \/ /\ m \in Textual /\ m.opt = "XDISPLOC" /\ m.kind = "IS"
          /\ t.env = SetVariables(s.env,
                        <<<<(<<"DISPLAY">>), <<Accumulated(Undoubled(m.octets))>>>>>>)
          /\ t.meant = SetVariables(s.meant, Settings(m.means))
          /\ t.cut = (s.cut \/ ~Fits(Undoubled(m.octets)))
       \/ /\ m \in Textual /\ m.opt = "ENVIRON"
          /\ t.env = SetVariables(s.env, Variables(Accumulated(Undoubled(m.octets))))
          /\ t.meant = SetVariables(s.meant, Settings(m.means))
          /\ t.cut = (s.cut \/ ~Fits(Undoubled(m.octets)))

LEMMA SuboptionFields ==
    ASSUME NEW s \in Server, NEW m \in Message, NEW t, t = Suboption(s, m)
    PROVE  Affects(s, m, t)
<1>0. t \in Server /\ t.pc = s.pc
  BY SuboptionType
<1>1. CASE m.opt = "NAWS"
  <2>1. t = [s EXCEPT !.size = m.size]
    BY <1>1, SuboptionIs
  <2>. QED  BY <1>0, <1>1, <2>1 DEF Server, Affects
<1>2. CASE m.opt = "TSPEED" \/ (m.opt = "XDISPLOC" /\ m.kind = "WONT")
  <2>1. t = [s EXCEPT !.answered = @ \union {m.opt}]
    BY <1>2, SuboptionIs
  <2>2. "TTYPE" \in t.answered <=> "TTYPE" \in s.answered
    BY <1>2, <2>1 DEF Server
  <2>. QED  BY <1>0, <1>2, <2>1, <2>2 DEF Server, Affects
<1>3. CASE m.opt = "TTYPE"
  <2>. DEFINE u == [s EXCEPT !.answered = @ \union {m.opt}]
              name == Lowered(Undoubled(m.octets))
              counts == s.pc # "oncemore"
  <2>1. t = [u EXCEPT !.terminaltype = name, !.heard = Hear(@, name, counts)]
    BY <1>3, SuboptionIs
  <2>2. /\ u \in Server /\ u.first = s.first /\ u.last = s.last /\ u.size = s.size
        /\ u.env = s.env /\ u.meant = s.meant /\ u.cut = s.cut /\ u.heard = s.heard
        /\ "TTYPE" \in u.answered
    <3>1. m \in Textual
      BY <1>3, MessageCases
    <3>2. u \in Server
      BY <3>1, TimedType
    <3>. QED  BY <1>3, <3>2 DEF Server
  <2>. HIDE DEF u, name, counts
  <2>3. /\ t.first = s.first /\ t.last = s.last /\ t.size = s.size
        /\ t.env = s.env /\ t.meant = s.meant /\ t.cut = s.cut
        /\ t.heard = Hear(s.heard, name, counts) /\ t.terminaltype = name
        /\ "TTYPE" \in t.answered
    BY <2>1, <2>2 DEF Server
  <2>. QED  BY <1>0, <1>3, <2>3 DEF name, counts, Affects
<1>4. ASSUME NEW octets, NEW list, t = Variable(s, m, octets, list), m \in Textual, m.opt # "TTYPE"
      PROVE  /\ t.first = s.first /\ t.last = s.last /\ t.size = s.size
             /\ t.terminaltype = s.terminaltype /\ t.heard = s.heard
             /\ "TTYPE" \in t.answered <=> "TTYPE" \in s.answered
             /\ t.env = SetVariables(s.env, list)
             /\ t.meant = SetVariables(s.meant, Settings(m.means))
             /\ t.cut = (s.cut \/ ~Fits(octets))
  <2>. DEFINE u == Timed(s, m)
  <2>1. /\ u \in Server /\ u.first = s.first /\ u.last = s.last /\ u.size = s.size
        /\ u.env = s.env /\ u.meant = s.meant /\ u.cut = s.cut /\ u.heard = s.heard
        /\ u.terminaltype = s.terminaltype
        /\ "TTYPE" \in u.answered <=> "TTYPE" \in s.answered
    <3>1. CASE m.kind = "INFO"
      BY <3>1 DEF Timed
    <3>2. CASE m.kind # "INFO"
      <4>1. u = [s EXCEPT !.answered = @ \union {m.opt}] /\ u \in Server
        BY <1>4, <3>2, TimedType DEF Timed
      <4>2. "TTYPE" \in u.answered <=> "TTYPE" \in s.answered
        BY <1>4, <4>1 DEF Server
      <4>. QED  BY <4>1, <4>2 DEF Server
    <3>. QED  BY <3>1, <3>2
  <2>2. t = [u EXCEPT !.env = SetVariables(@, list),
                      !.meant = SetVariables(@, Settings(m.means)),
                      !.cut = @ \/ ~Fits(octets)]
    BY <1>4 DEF Variable
  <2>. HIDE DEF u
  <2>. QED  BY <2>1, <2>2 DEF Server
<1>5. CASE m \in Textual /\ m.opt = "XDISPLOC" /\ m.kind = "IS"
  <2>. DEFINE octets == Undoubled(m.octets)
              list == <<<<(<<"DISPLAY">>), <<Accumulated(octets)>>>>>>
  <2>1. t = Variable(s, m, octets, list)
    BY <1>5, SuboptionIs
  <2>. HIDE DEF list
  <2>2. /\ t.first = s.first /\ t.last = s.last /\ t.size = s.size
        /\ t.terminaltype = s.terminaltype /\ t.heard = s.heard
        /\ "TTYPE" \in t.answered <=> "TTYPE" \in s.answered
        /\ t.env = SetVariables(s.env, list)
        /\ t.meant = SetVariables(s.meant, Settings(m.means))
        /\ t.cut = (s.cut \/ ~Fits(octets))
    BY <1>4, <1>5, <2>1
  <2>. QED  BY <1>0, <1>5, <2>2 DEF list, Affects
<1>6. CASE m \in Textual /\ m.opt = "ENVIRON"
  <2>1. t = Variable(s, m, Undoubled(m.octets), Variables(Accumulated(Undoubled(m.octets))))
    BY <1>6, SuboptionIs
  <2>. QED  BY <1>0, <1>4, <1>6, <2>1 DEF Affects
<1>. QED  BY <1>1, <1>2, <1>3, <1>5, <1>6, MessageCases DEF Affects

-----------------------------------------------------------------------------
(* Variables.                                                              *)

\* A list that is not cut reads as it is meant.
Decodes(m) ==
    /\ m.opt = "ENVIRON" /\ Fits(Undoubled(m.octets)) =>
         Variables(Undoubled(m.octets)) = Settings(m.means)
    /\ m.opt = "XDISPLOC" /\ m.kind = "IS" => m.means = <<<<"DISPLAY", <<m.octets>>>>>>

Faithful == {m \in Message : Decodes(m)}

\* Every message on its way reads as it is meant.
MessagesDecode == toServer \in Seq(Faithful)

\* There is no IAC in the value, if it may come by XDISPLOC.
Sure(v, value) == v = "DISPLAY" => \A octets \in Range(value) : IAC \notin Range(octets)

Carried(env, meant) == \A v \in Allowed \ {"TERM"} : Sure(v, meant[v]) => env[v] = meant[v]

LEMMA CarriedIs == EnvironCarried <=> (~server.cut => Carried(server.env, server.meant))
BY DEF EnvironCarried, Carried, Sure

\* DISPLAY by XDISPLOC.
LEMMA DisplayCarried ==
    ASSUME NEW env \in Environment, NEW meant \in Environment, Carried(env, meant),
           NEW octets \in Seq(Octet)
    PROVE  Carried(SetVariables(env, <<<<(<<"DISPLAY">>), <<Undoubled(octets)>>>>>>),
                   SetVariables(meant, <<<<(<<"DISPLAY">>), <<octets>>>>>>))
<1>. DEFINE read == <<(<<"DISPLAY">>), <<Undoubled(octets)>>>>
            sent == <<(<<"DISPLAY">>), <<octets>>>>
<1>1. <<read>> \in Read /\ <<sent>> \in Read
  BY UndoubledType, DisplayList
<1>2. read \in Seq(Octet) \X OptValue /\ sent \in Seq(Octet) \X OptValue
  <2>1. "DISPLAY" \in Octet
    BY OctetAssumption DEF Allowed
  <2>2. <<"DISPLAY">> \in Seq(Octet)
    BY <2>1, ShortSeq
  <2>3. <<Undoubled(octets)>> \in OptValue /\ <<octets>> \in OptValue
    BY UndoubledType, OptValues
  <2>. QED  BY <2>2, <2>3
<1>3. /\ read[1] = <<"DISPLAY">> /\ read[2] = <<Undoubled(octets)>>
      /\ sent[1] = <<"DISPLAY">> /\ sent[2] = <<octets>>
  OBVIOUS
<1>. HIDE DEF read, sent
<1>4. ASSUME NEW v \in Allowed \ {"TERM"}, Sure(v, SetVariables(meant, <<sent>>)[v])
      PROVE  SetVariables(env, <<read>>)[v] = SetVariables(meant, <<sent>>)[v]
  <2>1. /\ SetVariables(env, <<read>>)[v]
             = IF read[1] = <<v>> THEN read[2] ELSE env[v]
        /\ SetVariables(meant, <<sent>>)[v]
             = IF sent[1] = <<v>> THEN sent[2] ELSE meant[v]
    BY <1>1, <1>2, SetVariablesOne
  <2>2. CASE v = "DISPLAY"
    <3>1. SetVariables(meant, <<sent>>)[v] = <<octets>>
      BY <1>3, <2>1, <2>2
    <3>2. IAC \notin Range(octets)
      <4>1. octets \in Range(<<octets>>)
        <5>1. 1 \in DOMAIN <<octets>> /\ <<octets>>[1] = octets
          OBVIOUS
        <5>. QED  BY <5>1 DEF Range
      <4>. QED  BY <1>4, <2>2, <3>1, <4>1 DEF Sure
    <3>. QED  BY <1>3, <2>1, <2>2, <3>1, <3>2, PlainUndoubled
  <2>3. CASE v # "DISPLAY"
    <3>1. <<"DISPLAY">> # <<v>>
      BY <2>3
    <3>2. SetVariables(env, <<read>>)[v] = env[v] /\ SetVariables(meant, <<sent>>)[v] = meant[v]
      BY <1>3, <2>1, <3>1
    <3>. QED  BY <1>4, <3>2 DEF Carried
  <2>. QED  BY <2>2, <2>3
<1>. QED  BY <1>4 DEF Carried, read, sent

LEMMA CarriedReceived ==
    ASSUME NEW s \in Server, NEW m \in Faithful, NEW t, t = Suboption(s, m),
           ~s.cut => Carried(s.env, s.meant)
    PROVE  ~t.cut => Carried(t.env, t.meant)
<1>. SUFFICES ASSUME ~t.cut PROVE Carried(t.env, t.meant)
  OBVIOUS
<1>. DEFINE means == Settings(m.means)
            octets == Undoubled(m.octets)
<1>0. m \in Message /\ Decodes(m) /\ s.env \in Environment /\ s.meant \in Environment
  BY DEF Faithful, Server
<1>1. Affects(s, m, t)
  BY <1>0, SuboptionFields
<1>2. CASE t.env = s.env /\ t.meant = s.meant /\ t.cut = s.cut
  BY <1>2
<1>3. CASE /\ m \in Textual /\ m.opt = "XDISPLOC" /\ m.kind = "IS"
           /\ t.env = SetVariables(s.env, <<<<(<<"DISPLAY">>), <<Accumulated(octets)>>>>>>)
           /\ t.meant = SetVariables(s.meant, means)
           /\ t.cut = (s.cut \/ ~Fits(octets))
  <2>1. m.octets \in Seq(Octet) /\ octets \in Seq(Octet) /\ Fits(octets) /\ ~s.cut
    BY <1>3, UndoubledType DEF Textual
  <2>2. m.means = <<<<"DISPLAY", <<m.octets>>>>>> /\ Accumulated(octets) = octets
    <3>1. m.means = <<<<"DISPLAY", <<m.octets>>>>>>
      BY <1>0, <1>3 DEF Decodes
    <3>. HIDE DEF octets
    <3>. QED  BY <2>1, <3>1, AccumulatedType
  <2>3. means = <<<<(<<"DISPLAY">>), <<m.octets>>>>>>
    BY <2>1, <2>2, DisplayList
  <2>4. Carried(SetVariables(s.env, <<<<(<<"DISPLAY">>), <<octets>>>>>>),
                SetVariables(s.meant, <<<<(<<"DISPLAY">>), <<m.octets>>>>>>))
    BY <1>0, <2>1, DisplayCarried
  <2>. HIDE DEF octets, means
  <2>. QED  BY <1>3, <2>2, <2>3, <2>4
<1>4. CASE /\ m \in Textual /\ m.opt = "ENVIRON"
           /\ t.env = SetVariables(s.env, Variables(Accumulated(octets)))
           /\ t.meant = SetVariables(s.meant, means)
           /\ t.cut = (s.cut \/ ~Fits(octets))
  <2>1. octets \in Seq(Octet) /\ Fits(octets) /\ ~s.cut
    BY <1>4, UndoubledType DEF Textual
  <2>2. Variables(octets) = means /\ means \in Read
    <3>1. means \in Read
      BY <1>4, SettingsType DEF Textual
    <3>. QED  BY <1>0, <1>4, <2>1, <3>1 DEF Decodes
  <2>. HIDE DEF octets, means
  <2>3. Accumulated(octets) = octets
    BY <2>1, AccumulatedType
  <2>4. t.env = SetVariables(s.env, means) /\ t.meant = SetVariables(s.meant, means)
    BY <1>4, <2>2, <2>3
  <2>5. ASSUME NEW v \in Allowed \ {"TERM"}, Sure(v, t.meant[v]) PROVE t.env[v] = t.meant[v]
    <3>1. \/ t.env[v] = t.meant[v]
          \/ t.env[v] = s.env[v] /\ t.meant[v] = s.meant[v]
      BY <1>0, <2>2, <2>4, SetVariablesEither
    <3>2. Sure(v, s.meant[v]) => s.env[v] = s.meant[v]
      BY <2>1 DEF Carried
    <3>. QED  BY <2>5, <3>1, <3>2
  <2>. QED  BY <2>5 DEF Carried
<1>. QED  BY <1>1, <1>2, <1>3, <1>4 DEF Affects

\* What the client sends, it sends behind what is on its way.
LEMMA Faithfully ==
    ASSUME TypeOK, MessagesDecode, ClientAnswers \/ (\E c \in Command : UserDoes(c)) \/ Sendnaws
    PROVE  MessagesDecode'
<1>. SUFFICES ASSUME toServer' # toServer PROVE \E m \in Message : toServer' = Append(toServer, m) /\ Decodes(m)
  <2>1. ASSUME NEW m \in Message, toServer' = Append(toServer, m), Decodes(m) PROVE MessagesDecode'
    <3>1. m \in Faithful
      BY <2>1 DEF Faithful
    <3>. QED  BY <2>1, <3>1, AppendType DEF MessagesDecode
  <2>. QED  BY <2>1 DEF MessagesDecode
<1>0. vars \in Table
  BY DEF TypeOK
<1>1. CASE ClientAnswers
  <2>1. PICK m \in Message : toServer' = Append(toServer, m) /\ IsAnswer(Head(toClient), m)
    BY <1>1, Answered
  <2>2. CASE m = Environ("IS", vars, Names(Exported(vars)), EnvOptAll(vars))
    <3>1. m.opt = "ENVIRON" /\ m.octets = EnvOptAll(vars)
          /\ m.means = Meant(vars, Names(Exported(vars)))
      BY <2>2 DEF Environ, Sub
    <3>2. Decodes(m)
      BY <1>0, <3>1, AllDecodes DEF Decodes
    <3>. QED  BY <2>1, <3>2
  <2>3. CASE \E octets \in Seq(Octet) : m = Sub("XDISPLOC", "IS", octets, <<<<"DISPLAY", <<octets>>>>>>)
    <3>1. Decodes(m)
      BY <2>3 DEF Decodes, Sub
    <3>. QED  BY <2>1, <3>1
  <2>4. CASE \/ m = Sub("TSPEED", "IS", <<>>, <<>>)
             \/ m = Sub("XDISPLOC", "WONT", <<>>, <<>>)
             \/ \E name \in Seq(Octet) : m = Sub("TTYPE", "IS", name, <<>>)
    <3>1. Decodes(m)
      BY <2>4 DEF Decodes, Sub
    <3>. QED  BY <2>1, <3>1
  <2>. QED  BY <2>1, <2>2, <2>3, <2>4, Zenon DEF IsAnswer
<1>2. ASSUME NEW c \in Command, UserDoes(c)
      PROVE  \E m \in Message : toServer' = Append(toServer, m) /\ Decodes(m)
  <2>. DEFINE m == Environ("INFO", vars, <<c.name>>, EnvOptAdd(vars, c.name))
  <2>1. m \in Message
    BY Sent
  <2>2. toServer' = Append(toServer, m)
    BY <1>2 DEF UserDoes, Answer
  <2>3. m.opt = "ENVIRON" /\ m.octets = EnvOptAdd(vars, c.name) /\ m.means = Meant(vars, <<c.name>>)
    BY DEF Environ, Sub
  <2>. HIDE DEF m
  <2>4. Decodes(m)
    <3>1. c.name \in Octet
      BY CommandAssumption
    <3>. QED  BY <1>0, <2>3, <3>1, AddDecodes DEF Decodes
  <2>. QED  BY <2>1, <2>2, <2>4
<1>3. CASE Sendnaws
  <2>1. PICK n \in (1 .. MaxSize) \ {window} : toServer' = Append(toServer, Naws(n))
    BY <1>3 DEF Sendnaws, Answer
  <2>2. Naws(n) \in Message
    BY DEF Naws, Message
  <2>3. Decodes(Naws(n))
    BY DEF Naws, Decodes
  <2>. QED  BY <2>1, <2>2, <2>3
<1>. QED  BY <1>1, <1>2, <1>3

CarriedInv == TypeOK /\ MessagesDecode /\ EnvironCarried

LEMMA InitCarried == Init => CarriedInv
<1>. SUFFICES ASSUME Init PROVE CarriedInv
  OBVIOUS
<1>1. TypeOK
  BY InitTypes
<1>2. MessagesDecode
  BY DEF Init, MessagesDecode
<1>3. EnvironCarried
  BY DEF Init, ServerInit, EnvironCarried
<1>. QED  BY <1>1, <1>2, <1>3 DEF CarriedInv

LEMMA StepCarried == CarriedInv /\ [Next]_allVars => CarriedInv'
<1>. SUFFICES ASSUME CarriedInv, [Next]_allVars PROVE CarriedInv'
  OBVIOUS
<1>0. TypeOK /\ MessagesDecode /\ EnvironCarried /\ server \in Server
  BY DEF CarriedInv, TypeOK
<1>1. TypeOK'
  BY <1>0, StepTypes
<1>2. CASE Ask \/ FirstName \/ NextName \/ OnceMore \/ Cleanup
  <2>1. toServer' = toServer
    BY <1>2 DEF Ask, FirstName, NextName, OnceMore, Cleanup
  <2>2. server'.env = server.env /\ server'.meant = server.meant /\ server'.cut = server.cut
    <3>1. CASE Ask
      BY <1>0, <3>1 DEF Ask, Server
    <3>2. CASE FirstName
      BY <1>0, <3>2 DEF FirstName, Gettermname, Server
    <3>3. CASE NextName
      BY <1>0, <3>3 DEF NextName, Gettermname, Server
    <3>4. CASE OnceMore
      BY <1>0, <3>4 DEF OnceMore, Server
    <3>5. CASE Cleanup
      BY <1>0, <3>5 DEF Cleanup, Server
    <3>. QED  BY <1>2, <3>1, <3>2, <3>3, <3>4, <3>5
  <2>. QED  BY <1>0, <1>1, <2>1, <2>2 DEF CarriedInv, MessagesDecode, EnvironCarried
<1>3. CASE Fork
  <2>1. toServer' = toServer
    BY <1>3 DEF Fork
  <2>2. \E e : server' = [server EXCEPT !.pc = "serving", !.env = [server.env EXCEPT !["TERM"] = e]]
    BY <1>3 DEF Fork
  <2>3. /\ server'.meant = server.meant /\ server'.cut = server.cut
        /\ \A v \in Allowed \ {"TERM"} : server'.env[v] = server.env[v]
    BY <1>0, <2>2 DEF Server, Environment
  <2>. QED  BY <1>0, <1>1, <2>1, <2>3 DEF CarriedInv, MessagesDecode, EnvironCarried
<1>4. CASE ServerReceives
  <2>. DEFINE m == Head(toServer)
              t == Suboption(server, m)
  <2>1. toServer # <<>> /\ m \in Faithful /\ toServer' = Tail(toServer) /\ Tail(toServer) \in Seq(Faithful)
    BY <1>0, <1>4, Received DEF MessagesDecode
  <2>2. PICK more \in BOOLEAN : server' = [t EXCEPT !.reading = more]
    BY <1>0, <1>4, Received
  <2>3. t \in Server
    BY <1>0, <1>4, Received, SuboptionType
  <2>. HIDE DEF t, m
  <2>4. server'.env = t.env /\ server'.meant = t.meant /\ server'.cut = t.cut
    BY <2>2, <2>3 DEF Server
  <2>5. ~t.cut => Carried(t.env, t.meant)
    <3>1. ~server.cut => Carried(server.env, server.meant)
      BY <1>0, CarriedIs
    <3>. QED  BY <1>0, <2>1, <3>1, CarriedReceived DEF t
  <2>6. EnvironCarried'
    BY <2>4, <2>5 DEF EnvironCarried, Carried, Sure
  <2>7. MessagesDecode'
    BY <2>1 DEF MessagesDecode
  <2>. QED  BY <1>1, <2>6, <2>7 DEF CarriedInv
<1>5. CASE Getptyslave \/ StartLogin \/ Telnetlogin
  <2>1. UNCHANGED <<toServer, server>>
    BY <1>5 DEF Getptyslave, StartLogin, Telnetlogin
  <2>. QED  BY <1>0, <1>1, <2>1 DEF CarriedInv, MessagesDecode, EnvironCarried
<1>6. CASE ClientAnswers \/ (\E c \in Command : UserDoes(c)) \/ Sendnaws
  <2>1. MessagesDecode'
    BY <1>0, <1>6, Faithfully
  <2>2. UNCHANGED server
    BY <1>6 DEF ClientAnswers, UserDoes, Sendnaws
  <2>. QED  BY <1>0, <1>1, <2>1, <2>2 DEF CarriedInv, EnvironCarried
<1>7. CASE UNCHANGED allVars
  BY <1>0, <1>1, <1>7 DEF CarriedInv, MessagesDecode, EnvironCarried, allVars
<1>. QED  BY <1>2, <1>3, <1>4, <1>5, <1>6, <1>7 DEF Next

\* env_opt_add() and suboption() agree: whatever octets the values are made of,
\* and whatever the user does between the messages, telnetd holds the variables
\* that the client meant, unless a list was cut, or DISPLAY, which XDISPLOC
\* carries unquoted, has an IAC in it.
THEOREM LoginEnvironCarried == Spec => []EnvironCarried
<1>1. Init => CarriedInv
  BY InitCarried
<1>2. CarriedInv /\ [Next]_allVars => CarriedInv'
  BY StepCarried
<1>3. CarriedInv => EnvironCarried
  BY DEF CarriedInv
<1>. QED  BY <1>1, <1>2, <1>3, PTL DEF Spec

\* All values in the message were exported once.
HonestMessage(m) ==
    m.opt = "ENVIRON" => \A k \in DOMAIN m.means : Honest(m.means[k][1], m.means[k][2])

\* What is on its way, and what either process holds, was exported once.
ShownInv ==
    /\ Pairs(vars) \subseteq shown
    /\ toServer \in Seq({m \in Message : HonestMessage(m)})
    /\ \A v \in Free : Honest(v, server.meant[v])
    /\ ~server.cut => \A v \in Free : Honest(v, child.env[v])

\* What was shown stays shown.
LEMMA StaysHonest ==
    ASSUME shown \subseteq shown'
    PROVE  /\ \A name, value : Honest(name, value) => Honest(name, value)'
           /\ \A m : HonestMessage(m) => HonestMessage(m)'
           /\ Seq({m \in Message : HonestMessage(m)})
                \subseteq Seq({m \in Message : HonestMessage(m)'})
<1>1. \A name, value : Honest(name, value) => Honest(name, value)'
  BY DEF Honest
<1>2. \A m : HonestMessage(m) => HonestMessage(m)'
  BY <1>1 DEF HonestMessage
<1>3. {m \in Message : HonestMessage(m)} \subseteq {m \in Message : HonestMessage(m)'}
  BY <1>2
<1>. DEFINE A == {m \in Message : HonestMessage(m)}
            B == {m \in Message : HonestMessage(m)'}
<1>. HIDE DEF A, B
<1>4. A \subseteq B
  BY <1>3 DEF A, B
<1>5. Seq(A) \subseteq Seq(B)
  BY <1>4, SeqMonotonic
<1>. QED  BY <1>1, <1>2, <1>5 DEF A, B

\* What the client sends was exported when it is sent.
LEMMA Honestly ==
    ASSUME TypeOK, ShownInv, ClientAnswers \/ (\E c \in Command : UserDoes(c)) \/ Sendnaws
    PROVE  /\ shown \subseteq shown' /\ Pairs(vars)' \subseteq shown'
           /\ toServer' \in Seq({m \in Message : HonestMessage(m)'})
<1>. DEFINE A == {m \in Message : HonestMessage(m)}
            B == {m \in Message : HonestMessage(m)'}
<1>0. vars \in Table /\ Pairs(vars) \subseteq shown /\ toServer \in Seq(A)
  BY DEF TypeOK, ShownInv
<1>1. shown \subseteq shown' /\ Pairs(vars)' \subseteq shown'
  <2>1. CASE ClientAnswers \/ Sendnaws
    BY <1>0, <2>1 DEF ClientAnswers, Sendnaws
  <2>2. ASSUME NEW c \in Command, UserDoes(c)
        PROVE  shown \subseteq shown' /\ Pairs(vars)' \subseteq shown'
    BY <2>2 DEF UserDoes
  <2>. QED  BY <2>1, <2>2
<1>2. ASSUME NEW names \in Seq(Octet), NEW m \in Message, m.means = Meant(vars, names)
      PROVE  HonestMessage(m)
  <2>1. ASSUME NEW k \in DOMAIN Meant(vars, names)
        PROVE  Honest(Meant(vars, names)[k][1], Meant(vars, names)[k][2])
    BY <1>0, MeantType DEF Honest
  <2>. QED  BY <1>2, <2>1 DEF HonestMessage
<1>3. toServer' = toServer \/ \E m \in A : toServer' = Append(toServer, m)
  <2>1. CASE ClientAnswers
    <3>1. PICK m \in Message : toServer' = Append(toServer, m) /\ IsAnswer(Head(toClient), m)
      BY <2>1, Answered
    <3>2. HonestMessage(m)
      <4>1. CASE m = Environ("IS", vars, Names(Exported(vars)), EnvOptAll(vars))
        <5>1. Names(Exported(vars)) \in Seq(Octet)
          BY <1>0, ExportedTable, NamesType
        <5>2. m.means = Meant(vars, Names(Exported(vars)))
          BY <4>1 DEF Environ, Sub
        <5>. QED  BY <1>2, <5>1, <5>2
      <4>2. CASE \/ m = Sub("TSPEED", "IS", <<>>, <<>>)
                 \/ m = Sub("XDISPLOC", "WONT", <<>>, <<>>)
                 \/ \E name \in Seq(Octet) : m = Sub("TTYPE", "IS", name, <<>>)
                 \/ \E octets \in Seq(Octet) :
                      m = Sub("XDISPLOC", "IS", octets, <<<<"DISPLAY", <<octets>>>>>>)
        BY <4>2 DEF Sub, HonestMessage
      <4>. QED  BY <3>1, <4>1, <4>2, Zenon DEF IsAnswer
    <3>. QED  BY <3>1, <3>2
  <2>2. ASSUME NEW c \in Command, UserDoes(c)
        PROVE  toServer' = toServer \/ \E m \in A : toServer' = Append(toServer, m)
    <3>. DEFINE m == Environ("INFO", vars, <<c.name>>, EnvOptAdd(vars, c.name))
    <3>1. m \in Message /\ m.means = Meant(vars, <<c.name>>)
      BY Sent DEF Environ, Sub
    <3>2. toServer' = toServer \/ toServer' = Append(toServer, m)
      BY <2>2 DEF UserDoes, Answer
    <3>. HIDE DEF m
    <3>3. HonestMessage(m)
      <4>1. <<c.name>> \in Seq(Octet)
        BY CommandAssumption, ShortSeq
      <4>. QED  BY <1>2, <3>1, <4>1
    <3>. QED  BY <3>1, <3>2, <3>3
  <2>3. CASE Sendnaws
    <3>1. PICK n \in (1 .. MaxSize) \ {window} : toServer' = Append(toServer, Naws(n))
      BY <2>3 DEF Sendnaws, Answer
    <3>2. Naws(n) \in Message /\ HonestMessage(Naws(n))
      BY DEF Naws, Message, HonestMessage
    <3>. QED  BY <3>1, <3>2
  <2>. QED  BY <2>1, <2>2, <2>3
<1>. HIDE DEF A
<1>4. toServer' \in Seq(A)
  BY <1>0, <1>3, AppendType
<1>. QED  BY <1>1, <1>4, StaysHonest DEF A

\* What a message does to what is meant.
LEMMA SuboptionMeant ==
    ASSUME NEW s \in Server, NEW m \in Message, NEW t, t = Suboption(s, m)
    PROVE  \/ t.meant = s.meant /\ t.cut = s.cut
           \/ /\ m \in Textual /\ (m.opt = "ENVIRON" \/ (m.opt = "XDISPLOC" /\ m.kind = "IS"))
              /\ t.meant = SetVariables(s.meant, Settings(m.means))
              /\ s.cut => t.cut
<1>1. \/ t.env = s.env /\ t.meant = s.meant /\ t.cut = s.cut
      \/ /\ m \in Textual /\ m.opt = "XDISPLOC" /\ m.kind = "IS"
         /\ t.env = SetVariables(s.env,
                       <<<<(<<"DISPLAY">>), <<Accumulated(Undoubled(m.octets))>>>>>>)
         /\ t.meant = SetVariables(s.meant, Settings(m.means))
         /\ t.cut = (s.cut \/ ~Fits(Undoubled(m.octets)))
      \/ /\ m \in Textual /\ m.opt = "ENVIRON"
         /\ t.env = SetVariables(s.env, Variables(Accumulated(Undoubled(m.octets))))
         /\ t.meant = SetVariables(s.meant, Settings(m.means))
         /\ t.cut = (s.cut \/ ~Fits(Undoubled(m.octets)))
  BY SuboptionFields DEF Affects
<1>2. s.cut \in BOOLEAN /\ t \in Server /\ t.cut \in BOOLEAN
  <2>1. t \in Server
    BY SuboptionType
  <2>. QED  BY <2>1 DEF Server
<1>. QED  BY <1>1, <1>2

LEMMA InitShown == Init => ShownInv
<1>. SUFFICES ASSUME Init PROVE ShownInv
  OBVIOUS
<1>1. Pairs(vars) \subseteq shown
  BY DEF Init
<1>2. toServer \in Seq({m \in Message : HonestMessage(m)})
  BY DEF Init
<1>3. \A v \in Free : Honest(v, AllUnset[v])
  BY DEF Honest, AllUnset, Free
<1>4. server.meant = AllUnset /\ child.env = AllUnset
  BY DEF Init, ServerInit
<1>. QED  BY <1>1, <1>2, <1>3, <1>4 DEF ShownInv

LEMMA StepShown == CarriedInv /\ ShownInv /\ [Next]_allVars => ShownInv'
<1>. SUFFICES ASSUME CarriedInv, ShownInv, [Next]_allVars PROVE ShownInv'
  OBVIOUS
<1>. DEFINE A == {m \in Message : HonestMessage(m)}
<1>0. /\ TypeOK /\ MessagesDecode /\ EnvironCarried /\ server \in Server /\ child \in Child
      /\ Pairs(vars) \subseteq shown /\ toServer \in Seq(A)
      /\ \A v \in Free : Honest(v, server.meant[v])
      /\ ~server.cut => \A v \in Free : Honest(v, child.env[v])
  BY DEF CarriedInv, TypeOK, ShownInv, Child
<1>a. ASSUME UNCHANGED <<vars, shown>>, toServer' \in Seq(A),
             \A v \in Free : Honest(v, server'.meant[v]),
             ~server'.cut => \A v \in Free : Honest(v, child'.env[v])
      PROVE  ShownInv'
  <2>1. shown \subseteq shown' /\ Pairs(vars)' = Pairs(vars)
    BY <1>a DEF Pairs
  <2>2. toServer' \in Seq({m \in Message : HonestMessage(m)'})
    BY <1>a, <2>1, StaysHonest
  <2>3. (\A v \in Free : Honest(v, server.meant[v]))'
    BY <1>a, <2>1 DEF Honest
  <2>4. (~server.cut => \A v \in Free : Honest(v, child.env[v]))'
    BY <1>a, <2>1 DEF Honest
  <2>5. Message' = Message
    BY DEF Message
  <2>. QED  BY <1>0, <1>a, <2>1, <2>2, <2>3, <2>4, <2>5 DEF ShownInv
<1>1. CASE Ask \/ FirstName \/ NextName \/ OnceMore \/ Cleanup
  <2>1. UNCHANGED <<vars, shown, toServer, child>>
    BY <1>1 DEF Ask, FirstName, NextName, OnceMore, Cleanup, clientVars
  <2>2. server'.meant = server.meant /\ server'.cut = server.cut
    <3>1. CASE Ask
      BY <1>0, <3>1 DEF Ask, Server
    <3>2. CASE FirstName
      BY <1>0, <3>2 DEF FirstName, Gettermname, Server
    <3>3. CASE NextName
      BY <1>0, <3>3 DEF NextName, Gettermname, Server
    <3>4. CASE OnceMore
      BY <1>0, <3>4 DEF OnceMore, Server
    <3>5. CASE Cleanup
      BY <1>0, <3>5 DEF Cleanup, Server
    <3>. QED  BY <1>1, <3>1, <3>2, <3>3, <3>4, <3>5
  <2>. HIDE DEF A
  <2>. QED  BY <1>0, <1>a, <2>1, <2>2
<1>2. CASE Fork
  <2>1. UNCHANGED <<vars, shown, toServer>>
    BY <1>2 DEF Fork, clientVars
  <2>2. PICK e : /\ server' = [server EXCEPT !.pc = "serving", !.env = [server.env EXCEPT !["TERM"] = e]]
                 /\ child' = [pc |-> "forked", env |-> [server.env EXCEPT !["TERM"] = e],
                              size |-> server.size]
    BY <1>2 DEF Fork
  <2>3. server'.meant = server.meant /\ server'.cut = server.cut
    BY <1>0, <2>2 DEF Server
  <2>4. \A v \in Free : child'.env[v] = server.env[v]
    BY <1>0, <2>2 DEF Server, Environment, Free
  <2>5. ~server.cut => \A v \in Free : server.env[v] = server.meant[v]
    BY <1>0, CarriedIs DEF Carried, Sure, Free
  <2>6. ~server'.cut => \A v \in Free : Honest(v, child'.env[v])
    BY <1>0, <2>3, <2>4, <2>5
  <2>. HIDE DEF A
  <2>. QED  BY <1>0, <1>a, <2>1, <2>3, <2>6
<1>3. CASE ServerReceives
  <2>. DEFINE m == Head(toServer)
              t == Suboption(server, m)
  <2>1. /\ toServer # <<>> /\ m \in Faithful /\ m \in A
        /\ toServer' = Tail(toServer) /\ Tail(toServer) \in Seq(A)
    <3>1. toServer # <<>> /\ m \in A /\ toServer' = Tail(toServer) /\ Tail(toServer) \in Seq(A)
      BY <1>0, <1>3, Received
    <3>2. m \in Faithful
      BY <1>0, <3>1 DEF MessagesDecode
    <3>. QED  BY <3>1, <3>2
  <2>2. PICK more \in BOOLEAN : server' = [t EXCEPT !.reading = more]
    BY <1>0, <1>3, Received
  <2>3. t \in Server /\ UNCHANGED <<vars, shown, child>>
    BY <1>0, <1>3, Received, SuboptionType DEF ServerReceives, clientVars
  <2>4. HonestMessage(m) /\ Decodes(m) /\ m \in Message
    BY <2>1 DEF Faithful
  <2>. HIDE DEF t, m
  <2>5. server'.meant = t.meant /\ server'.cut = t.cut
    BY <2>2, <2>3 DEF Server
  <2>6. (t.meant = server.meant /\ t.cut = server.cut)
          \/ /\ m \in Textual /\ (m.opt = "ENVIRON" \/ (m.opt = "XDISPLOC" /\ m.kind = "IS"))
             /\ t.meant = SetVariables(server.meant, Settings(m.means))
             /\ server.cut => t.cut
    <3>0. server \in Server /\ m \in Message /\ t = Suboption(server, m)
      BY <1>0, <2>4 DEF t
    <3>. QED  BY <3>0, SuboptionMeant
  <2>7. ASSUME m \in Textual, m.opt = "ENVIRON" \/ (m.opt = "XDISPLOC" /\ m.kind = "IS")
        PROVE  \A v \in Free : Honest(v, SetVariables(server.meant, Settings(m.means))[v])
    <3>1. m.means \in Seq(Octet \X OptValue) /\ server.meant \in Environment
      BY <1>0, <2>7 DEF Textual, Server
    <3>2. \A k \in DOMAIN m.means : m.means[k][1] \in Free => Honest(m.means[k][1], m.means[k][2])
      <4>1. CASE m.opt = "ENVIRON"
        BY <2>4, <4>1 DEF HonestMessage
      <4>2. CASE m.opt = "XDISPLOC" /\ m.kind = "IS"
        <5>1. m.means = <<<<"DISPLAY", <<m.octets>>>>>>
          BY <2>4, <4>2 DEF Decodes
        <5>2. \A k \in DOMAIN m.means : m.means[k][1] = "DISPLAY"
          BY <5>1
        <5>. QED  BY <5>2 DEF Free
      <4>. QED  BY <2>7, <4>1, <4>2
    <3>. QED  BY <1>0, <3>1, <3>2, SetVariablesHonest
  <2>8. \A v \in Free : Honest(v, server'.meant[v])
    BY <1>0, <2>5, <2>6, <2>7
  <2>9. ~server'.cut => \A v \in Free : Honest(v, child'.env[v])
    <3>1. server.cut => server'.cut
      BY <2>5, <2>6
    <3>. QED  BY <1>0, <2>3, <3>1
  <2>. HIDE DEF A
  <2>. QED  BY <1>a, <2>1, <2>3, <2>8, <2>9
<1>4. CASE Getptyslave \/ StartLogin \/ Telnetlogin
  <2>1. UNCHANGED <<vars, shown, toServer, server>>
    BY <1>4 DEF Getptyslave, StartLogin, Telnetlogin, clientVars
  <2>2. child'.env = child.env
    <3>1. CASE Getptyslave
      BY <1>0, <3>1 DEF Getptyslave, Child
    <3>2. CASE StartLogin
      BY <1>0, <3>2 DEF StartLogin, Child
    <3>3. CASE Telnetlogin
      BY <1>0, <3>3 DEF Telnetlogin, Child
    <3>. QED  BY <1>4, <3>1, <3>2, <3>3
  <2>. HIDE DEF A
  <2>. QED  BY <1>0, <1>a, <2>1, <2>2
<1>5. CASE ClientAnswers \/ (\E c \in Command : UserDoes(c)) \/ Sendnaws
  <2>1. /\ shown \subseteq shown' /\ Pairs(vars)' \subseteq shown'
        /\ toServer' \in Seq({m \in Message : HonestMessage(m)'})
    BY <1>0, <1>5, Honestly
  <2>2. UNCHANGED <<server, child>>
    BY <1>5 DEF ClientAnswers, UserDoes, Sendnaws
  <2>3. (\A v \in Free : Honest(v, server.meant[v]))'
    BY <1>0, <2>1, <2>2 DEF Honest
  <2>4. (~server.cut => \A v \in Free : Honest(v, child.env[v]))'
    BY <1>0, <2>1, <2>2 DEF Honest
  <2>5. Message' = Message
    BY DEF Message
  <2>. QED  BY <2>1, <2>3, <2>4, <2>5 DEF ShownInv
<1>6. CASE UNCHANGED allVars
  BY <1>0, <1>a, <1>6 DEF allVars, clientVars
<1>. QED  BY <1>1, <1>2, <1>3, <1>4, <1>5, <1>6 DEF Next

\* Neither telnetd nor the child ever holds a value that was not exported when
\* it was the variable's.
THEOREM LoginOnlyExported == Spec => []OnlyExported
<1>1. Init => CarriedInv /\ ShownInv
  BY InitCarried, InitShown
<1>2. CarriedInv /\ ShownInv /\ [Next]_allVars => (CarriedInv /\ ShownInv)'
  BY StepCarried, StepShown
<1>3. CarriedInv /\ ShownInv => OnlyExported
  <2>. SUFFICES ASSUME CarriedInv, ShownInv, ~server.cut, NEW v \in Free
                PROVE  Honest(v, server.env[v]) /\ Honest(v, child.env[v])
    BY DEF OnlyExported, Honest, Free
  <2>. QED  BY CarriedIs DEF CarriedInv, Carried, Sure, ShownInv, Free
<1>. QED  BY <1>1, <1>2, <1>3, PTL DEF Spec

-----------------------------------------------------------------------------
(* The terminal's type.                                                    *)

\* No element of the sequence, or one at most, is in the set.
None(s, S) == \A i \in DOMAIN s : s[i] \notin S

One(s, S) == \A i, j \in DOMAIN s : s[i] \in S /\ s[j] \in S => i = j

LEMMA NoneOfTail ==
    ASSUME NEW E, NEW S, NEW s \in Seq(E), s # <<>>
    PROVE  /\ None(s, S) => None(Tail(s), S) /\ Head(s) \notin S
           /\ One(s, S) => One(Tail(s), S)
           /\ One(s, S) /\ Head(s) \in S => None(Tail(s), S)
           /\ Head(s) \notin S /\ None(Tail(s), S) => None(s, S)
<1>. DEFINE t == Tail(s)
            n == Len(s)
<1>0. /\ n \in Nat /\ n # 0 /\ DOMAIN s = 1 .. n /\ DOMAIN t = 1 .. n - 1 /\ Head(s) = s[1]
      /\ \A i \in 1 .. n - 1 : t[i] = s[i + 1] /\ i + 1 \in 1 .. n
  OBVIOUS
<1>1. 1 \in 1 .. n /\ \A i \in 1 .. n : i # 1 => i - 1 \in 1 .. n - 1 /\ (i - 1) + 1 = i
  BY <1>0
<1>. HIDE DEF t, n
<1>2. None(s, S) => None(t, S) /\ Head(s) \notin S
  BY <1>0, <1>1 DEF None
<1>3. One(s, S) => One(t, S)
  BY <1>0, <1>1 DEF One
<1>4. ASSUME One(s, S), Head(s) \in S, NEW i \in DOMAIN t PROVE t[i] \notin S
  <2>1. i \in 1 .. n - 1 /\ i + 1 # 1
    BY <1>0
  <2>. QED  BY <1>0, <1>1, <1>4, <2>1 DEF One
<1>5. Head(s) \notin S /\ None(t, S) => None(s, S)
  BY <1>0, <1>1 DEF None
<1>. QED  BY <1>2, <1>3, <1>4, <1>5 DEF t, None

LEMMA NoneOfAppend ==
    ASSUME NEW E, NEW S, NEW s \in Seq(E), NEW e \in E
    PROVE  /\ e \notin S => /\ None(Append(s, e), S) <=> None(s, S)
                            /\ One(s, S) => One(Append(s, e), S)
           /\ None(s, S) => One(Append(s, e), S)
<1>. DEFINE t == Append(s, e)
            n == Len(s)
<1>0. /\ n \in Nat /\ DOMAIN s = 1 .. n /\ DOMAIN t = 1 .. n + 1 /\ t[n + 1] = e
      /\ \A i \in 1 .. n : t[i] = s[i]
  OBVIOUS
<1>1. n + 1 \in 1 .. n + 1 /\ \A i \in 1 .. n + 1 : i \in 1 .. n \/ i = n + 1
  BY <1>0
<1>2. \A i \in 1 .. n : i \in 1 .. n + 1
  BY <1>0
<1>. HIDE DEF t, n
<1>3. e \notin S => (None(t, S) <=> None(s, S))
  BY <1>0, <1>1, <1>2 DEF None
<1>4. e \notin S => (One(s, S) => One(t, S))
  BY <1>0, <1>1, <1>2 DEF One
<1>5. None(s, S) => One(t, S)
  BY <1>0, <1>1, <1>2 DEF None, One
<1>. QED  BY <1>3, <1>4, <1>5 DEF t

LEMMA NoneOfJoined ==
    ASSUME NEW E, NEW S, NEW s \in Seq(E), NEW t \in Seq(E), None(s, S)
    PROVE  /\ s \o t \in Seq(E)
           /\ None(t, S) => None(s \o t, S)
           /\ One(t, S) => One(s \o t, S)
<1>. DEFINE u == s \o t
            n == Len(s)
            m == Len(t)
<1>0. /\ u \in Seq(E) /\ Len(u) = n + m /\ n \in Nat /\ m \in Nat
      /\ \A i \in 1 .. n + m : u[i] = IF i <= n THEN s[i] ELSE t[i - n]
  BY ConcatProperties
<1>1. DOMAIN s = 1 .. n /\ DOMAIN t = 1 .. m
  OBVIOUS
<1>. HIDE DEF u, n, m
<1>2. DOMAIN u = 1 .. n + m
  BY <1>0
<1>3. ASSUME NEW i \in 1 .. n + m, u[i] \in S
      PROVE  i - n \in 1 .. m /\ u[i] = t[i - n]
  <2>1. ~ (i <= n)
    <3>. SUFFICES ASSUME i <= n PROVE FALSE
      OBVIOUS
    <3>1. i \in 1 .. n /\ u[i] = s[i]
      BY <1>0
    <3>. QED  BY <1>1, <1>3, <3>1 DEF None
  <2>. QED  BY <1>0, <2>1
<1>4. None(t, S) => None(u, S)
  BY <1>1, <1>2, <1>3 DEF None
<1>5. ASSUME One(t, S), NEW i \in 1 .. n + m, NEW j \in 1 .. n + m, u[i] \in S, u[j] \in S
      PROVE  i = j
  <2>1. i - n \in 1 .. m /\ u[i] = t[i - n] /\ j - n \in 1 .. m /\ u[j] = t[j - n]
    BY <1>3, <1>5
  <2>2. i - n = j - n
    BY <1>1, <1>5, <2>1 DEF One
  <2>. QED  BY <1>0, <2>2
<1>6. One(t, S) => One(u, S)
  BY <1>2, <1>5 DEF One
<1>. QED  BY <1>0, <1>4, <1>6 DEF u

\* The question for the type, and the answers to it.
Term == {"TTYPE"}

TermAnswers == {m \in Message : m.opt = "TTYPE"}

\* There is one question for a terminal type at a time, or its answer.
OneQuestion ==
    /\ One(toClient, Term) /\ One(toServer, TermAnswers)
    /\ None(toClient, Term) \/ None(toServer, TermAnswers)
    /\ ~None(toClient, Term) \/ ~None(toServer, TermAnswers) =>
         /\ server.pc \in {"wait", "again", "oncemore"}
         /\ "TTYPE" \in agreed /\ "TTYPE" \notin server.answered

\* The answers to the questions of Ask, of which one may be for the type.
LEMMA Requests ==
    ASSUME NEW s, s = Request("TSPEED") \o Request("XDISPLOC") \o Request("ENVIRON") \o Request("TTYPE")
    PROVE  /\ s \in Seq(Question) /\ One(s, Term)
           /\ "TTYPE" \notin agreed => None(s, Term)
<1>. DEFINE p == Request("TSPEED")
            q == Request("XDISPLOC")
            r == Request("ENVIRON")
            u == Request("TTYPE")
<1>1. \A opt \in Question : Request(opt) \in Seq(Question) /\ Request(opt) \in {<<>>, <<opt>>}
  BY RequestType
<1>2. ASSUME NEW opt \in Question, opt # "TTYPE" PROVE None(Request(opt), Term)
  BY <1>1, <1>2 DEF None, Term
<1>3. /\ p \in Seq(Question) /\ q \in Seq(Question) /\ r \in Seq(Question) /\ u \in Seq(Question)
      /\ None(p, Term) /\ None(q, Term) /\ None(r, Term)
  BY <1>1, <1>2 DEF Question
<1>4. One(u, Term) /\ ("TTYPE" \notin agreed => None(u, Term))
  BY DEF Request, One, None
<1>5. s = ((p \o q) \o r) \o u
  OBVIOUS
<1>. HIDE DEF p, q, r, u
<1>6. p \o q \in Seq(Question) /\ None(p \o q, Term)
  BY <1>3, NoneOfJoined
<1>7. (p \o q) \o r \in Seq(Question) /\ None((p \o q) \o r, Term)
  BY <1>3, <1>6, NoneOfJoined
<1>8. /\ ((p \o q) \o r) \o u \in Seq(Question) /\ One(((p \o q) \o r) \o u, Term)
      /\ None(u, Term) => None(((p \o q) \o r) \o u, Term)
  BY <1>3, <1>4, <1>7, NoneOfJoined
<1>. QED  BY <1>4, <1>5, <1>8

\* The first name that will do, if this is the only one.
Good(name) == IF terminaltypeok(name) THEN <<name>> ELSE <<>>

HasAnswer == "TTYPE" \in server.answered

\* The name that login is to have.
Best(heard) == IF heard.good # <<>> THEN heard.good ELSE heard.first

\* What the names heard have to do with the names kept.
NamesInv ==
    /\ server.pc = "ask" => ~HasAnswer
    /\ server.pc \in {"ask", "wait"} /\ ~HasAnswer =>
         server.heard.first = <<>> /\ server.heard.good = <<>>
    /\ server.pc = "wait" /\ HasAnswer =>
         /\ server.heard.first = <<server.terminaltype>>
         /\ server.heard.good = Good(server.terminaltype)
    /\ server.pc \in {"again", "oncemore"} =>
         "TTYPE" \in agreed /\ server.heard.first = <<server.first>>
    /\ server.pc = "again" =>
         server.heard.good = IF HasAnswer THEN Good(server.terminaltype) ELSE <<>>
    /\ server.pc = "oncemore" => server.heard.good = <<>>
    /\ server.pc = "fork" /\ "TTYPE" \in agreed =>
         <<server.terminaltype>> = Best(server.heard)
    /\ child.pc = "none" <=> server.pc \notin {"serving", "exited"}

TermInv == TypeOK /\ OneQuestion /\ NamesInv /\ TermIsBest

LEMMA OneQuestionKept ==
    ASSUME OneQuestion,
           UNCHANGED <<toClient, toServer, agreed>>,
           server'.pc = server.pc \/ "TTYPE" \notin agreed \/ HasAnswer
             \/ server.pc \notin {"wait", "again", "oncemore"},
           server'.pc = server.pc => server'.answered = server.answered
    PROVE  OneQuestion'
<1>1. None(toClient, Term)' = None(toClient, Term) /\ One(toClient, Term)' = One(toClient, Term)
  BY DEF None, One, Term
<1>2. None(toServer, TermAnswers)' = None(toServer, TermAnswers)
      /\ One(toServer, TermAnswers)' = One(toServer, TermAnswers)
  BY DEF None, One, TermAnswers, Message
<1>. QED  BY <1>1, <1>2 DEF OneQuestion, HasAnswer

LEMMA NoQuestion ==
    ASSUME OneQuestion, HasAnswer \/ "TTYPE" \notin agreed \/ server.pc \notin {"wait", "again", "oncemore"}
    PROVE  None(toClient, Term) /\ None(toServer, TermAnswers)
BY DEF OneQuestion, HasAnswer

\* The next question.
LEMMA OneMoreQuestion ==
    ASSUME TypeOK, OneQuestion, HasAnswer, UNCHANGED <<toServer, agreed>>,
           toClient' = toClient \o <<"TTYPE">>, "TTYPE" \in agreed,
           server'.pc \in {"wait", "again", "oncemore"}, server'.answered = {}
    PROVE  OneQuestion'
<1>1. None(toClient, Term) /\ None(toServer, TermAnswers)
  BY NoQuestion
<1>2. toClient \in Seq(Question)
  BY DEF TypeOK
<1>. DEFINE s == <<"TTYPE">>
<1>3. s \in Seq(Question) /\ One(s, Term)
  <2>1. "TTYPE" \in Question
    BY DEF Question
  <2>2. s \in Seq(Question)
    BY <2>1, ShortSeq
  <2>. QED  BY <2>2 DEF One
<1>. HIDE DEF s
<1>4. One(toClient \o s, Term)
  BY <1>1, <1>2, <1>3, NoneOfJoined
<1>5. None(toServer, TermAnswers)' = None(toServer, TermAnswers)
  BY DEF None, TermAnswers, Message
<1>6. One(toServer, TermAnswers)'
  BY <1>1, <1>5 DEF One, None
<1>7. One(toClient, Term)'
  BY <1>4 DEF s, One, Term
<1>. QED  BY <1>1, <1>5, <1>6, <1>7 DEF OneQuestion

LEMMA InitTerm == Init => TermInv
<1>. SUFFICES ASSUME Init PROVE TermInv
  OBVIOUS
<1>1. TypeOK
  BY InitTypes
<1>2. OneQuestion
  <2>1. toClient = <<>> /\ toServer = <<>>
    BY DEF Init
  <2>2. DOMAIN toClient = {} /\ DOMAIN toServer = {}
    BY <2>1
  <2>. QED  BY <2>2 DEF OneQuestion, One, None
<1>3. NamesInv
  BY DEF Init, ServerInit, NamesInv, HasAnswer
<1>4. TermIsBest
  BY DEF Init, TermIsBest
<1>. QED  BY <1>1, <1>2, <1>3, <1>4 DEF TermInv

LEMMA AskTerm == TermInv /\ Ask => (OneQuestion /\ NamesInv /\ TermIsBest)'
<1>. SUFFICES ASSUME TermInv, Ask PROVE (OneQuestion /\ NamesInv /\ TermIsBest)'
  OBVIOUS
<1>0. TypeOK /\ OneQuestion /\ NamesInv /\ TermIsBest /\ server \in Server /\ toClient \in Seq(Question)
  BY DEF TermInv, TypeOK
<1>1. /\ server.pc = "ask" /\ server' = [server EXCEPT !.pc = "wait"]
      /\ UNCHANGED <<toServer, agreed, child>>
  BY DEF Ask
<1>2. /\ server'.pc = "wait" /\ server'.answered = server.answered
      /\ server'.heard = server.heard
  BY <1>0, <1>1 DEF Server
<1>3. OneQuestion'
  <2>. DEFINE s == Request("TSPEED") \o Request("XDISPLOC") \o Request("ENVIRON") \o Request("TTYPE")
  <2>1. toClient' = toClient \o s
    BY DEF Ask, Send
  <2>. HIDE DEF s
  <2>2. s \in Seq(Question) /\ One(s, Term) /\ ("TTYPE" \notin agreed => None(s, Term))
    BY Requests DEF s
  <2>3. None(toClient, Term) /\ None(toServer, TermAnswers)
    BY <1>0, <1>1, NoQuestion
  <2>4. One(toClient \o s, Term) /\ ("TTYPE" \notin agreed => None(toClient \o s, Term))
    BY <1>0, <2>2, <2>3, NoneOfJoined
  <2>5. One(toClient, Term)' /\ ("TTYPE" \notin agreed => None(toClient, Term)')
    BY <2>1, <2>4 DEF One, None, Term
  <2>6. None(toServer, TermAnswers)' = None(toServer, TermAnswers)
    BY <1>1 DEF None, TermAnswers, Message
  <2>7. One(toServer, TermAnswers)'
    BY <2>3, <2>6 DEF One, None
  <2>8. "TTYPE" \notin server.answered
    BY <1>0, <1>1 DEF NamesInv, HasAnswer
  <2>. QED  BY <1>1, <1>2, <2>3, <2>5, <2>6, <2>7, <2>8 DEF OneQuestion
<1>4. NamesInv'
  BY <1>0, <1>1, <1>2 DEF NamesInv, HasAnswer
<1>5. TermIsBest'
  BY <1>0, <1>1, <1>2 DEF TermIsBest
<1>. QED  BY <1>3, <1>4, <1>5

LEMMA GettermnameFields ==
    ASSUME NEW s \in Server, NEW pc
    PROVE  /\ Gettermname(s, pc).pc = pc /\ Gettermname(s, pc).answered = {}
           /\ Gettermname(s, pc).heard = s.heard /\ Gettermname(s, pc).first = s.first
           /\ Gettermname(s, pc).last = s.last /\ Gettermname(s, pc).terminaltype = s.terminaltype
           /\ [s EXCEPT !.pc = pc].pc = pc /\ [s EXCEPT !.pc = pc].answered = s.answered
           /\ [s EXCEPT !.pc = pc].heard = s.heard /\ [s EXCEPT !.pc = pc].first = s.first
           /\ [s EXCEPT !.pc = pc].terminaltype = s.terminaltype
           /\ \A name : /\ [Gettermname(s, pc) EXCEPT !.last = name].pc = pc
                        /\ [Gettermname(s, pc) EXCEPT !.last = name].answered = {}
                        /\ [Gettermname(s, pc) EXCEPT !.last = name].heard = s.heard
                        /\ [Gettermname(s, pc) EXCEPT !.last = name].first = s.first
                        /\ [Gettermname(s, pc) EXCEPT !.first = name, !.last = name].pc = pc
                        /\ [Gettermname(s, pc) EXCEPT !.first = name, !.last = name].answered = {}
                        /\ [Gettermname(s, pc) EXCEPT !.first = name, !.last = name].heard = s.heard
                        /\ [Gettermname(s, pc) EXCEPT !.first = name, !.last = name].first = name
BY DEF Gettermname, Server

LEMMA FirstNameTerm == TermInv /\ FirstName => (OneQuestion /\ NamesInv /\ TermIsBest)'
<1>. SUFFICES ASSUME TermInv, FirstName PROVE (OneQuestion /\ NamesInv /\ TermIsBest)'
  OBVIOUS
<1>. DEFINE name == server.terminaltype
<1>0. TypeOK /\ OneQuestion /\ NamesInv /\ TermIsBest /\ server \in Server
  BY DEF TermInv, TypeOK
<1>1. /\ server.pc = "wait" /\ agreed \subseteq server.answered
      /\ UNCHANGED <<toServer, agreed, child>> /\ child.pc = "none"
  BY <1>0 DEF FirstName, Ready, Waiting, NamesInv
<1>2. "TTYPE" \in agreed => HasAnswer /\ server.heard.first = <<name>> /\ server.heard.good = Good(name)
  BY <1>0, <1>1 DEF NamesInv, HasAnswer
<1>3. CASE "TTYPE" \in agreed /\ ~terminaltypeok(name)
  <2>1. /\ server' = [Gettermname(server, "again") EXCEPT !.first = name, !.last = name]
        /\ toClient' = toClient \o <<"TTYPE">>
    BY <1>3 DEF FirstName, Send
  <2>2. /\ server'.pc = "again" /\ server'.answered = {} /\ server'.heard = server.heard
        /\ server'.first = name
    BY <1>0, <2>1, GettermnameFields
  <2>3. OneQuestion'
    BY <1>0, <1>1, <1>2, <1>3, <2>1, <2>2, OneMoreQuestion
  <2>4. NamesInv'
    BY <1>1, <1>2, <1>3, <2>2 DEF NamesInv, HasAnswer, Good
  <2>. QED  BY <1>1, <2>3, <2>4 DEF TermIsBest
<1>4. CASE ~ ("TTYPE" \in agreed /\ ~terminaltypeok(name))
  <2>1. server' = [server EXCEPT !.pc = "fork"] /\ toClient' = toClient
    BY <1>4 DEF FirstName
  <2>2. /\ server'.pc = "fork" /\ server'.answered = server.answered /\ server'.heard = server.heard
        /\ server'.terminaltype = name
    BY <1>0, <2>1, GettermnameFields
  <2>3. OneQuestion'
    BY <1>0, <1>1, <1>2, <2>1, <2>2, OneQuestionKept
  <2>4. NamesInv'
    <3>1. "TTYPE" \in agreed => <<name>> = Best(server.heard)
      <4>1. <<name>> # <<>>
        OBVIOUS
      <4>. QED  BY <1>2, <1>4, <4>1 DEF Good, Best
    <3>. QED  BY <1>1, <2>2, <3>1 DEF NamesInv, HasAnswer, Best
  <2>. QED  BY <1>1, <2>3, <2>4 DEF TermIsBest
<1>. QED  BY <1>3, <1>4

LEMMA NextNameTerm == TermInv /\ NextName => (OneQuestion /\ NamesInv /\ TermIsBest)'
<1>. SUFFICES ASSUME TermInv, NextName PROVE (OneQuestion /\ NamesInv /\ TermIsBest)'
  OBVIOUS
<1>. DEFINE name == server.terminaltype
<1>0. TypeOK /\ OneQuestion /\ NamesInv /\ TermIsBest /\ server \in Server
  BY DEF TermInv, TypeOK
<1>1. /\ server.pc = "again" /\ HasAnswer
      /\ UNCHANGED <<toServer, agreed, child>> /\ child.pc = "none"
  BY <1>0 DEF NextName, Ready, Waiting, NamesInv, HasAnswer
<1>2. "TTYPE" \in agreed /\ server.heard.first = <<server.first>> /\ server.heard.good = Good(name)
  BY <1>0, <1>1 DEF NamesInv, HasAnswer
<1>3. CASE terminaltypeok(name) \/ (name = server.last /\ name = server.first)
  <2>1. server' = [server EXCEPT !.pc = "fork"] /\ toClient' = toClient
    BY <1>3 DEF NextName
  <2>2. /\ server'.pc = "fork" /\ server'.answered = server.answered /\ server'.heard = server.heard
        /\ server'.terminaltype = name
    BY <1>0, <2>1, GettermnameFields
  <2>3. OneQuestion'
    BY <1>0, <1>1, <1>2, <2>1, <2>2, OneQuestionKept
  <2>4. NamesInv'
    <3>1. <<name>> = Best(server.heard)
      <4>1. <<name>> # <<>>
        OBVIOUS
      <4>. QED  BY <1>2, <1>3, <4>1 DEF Good, Best
    <3>. QED  BY <1>1, <2>2, <3>1 DEF NamesInv, HasAnswer, Best
  <2>. QED  BY <1>1, <2>3, <2>4 DEF TermIsBest
<1>4. CASE ~ (terminaltypeok(name) \/ (name = server.last /\ name = server.first))
  <2>1. /\ server' = IF name = server.last THEN Gettermname(server, "oncemore")
                     ELSE [Gettermname(server, "again") EXCEPT !.last = name]
        /\ toClient' = toClient \o <<"TTYPE">>
    BY <1>4 DEF NextName, Send
  <2>2. /\ server'.pc \in {"again", "oncemore"} /\ server'.answered = {}
        /\ server'.heard = server.heard /\ server'.first = server.first
    <3>1. CASE name = server.last
      BY <1>0, <2>1, <3>1, GettermnameFields
    <3>2. CASE name # server.last
      BY <1>0, <2>1, <3>2, GettermnameFields
    <3>. QED  BY <3>1, <3>2
  <2>3. OneQuestion'
    BY <1>0, <1>1, <1>2, <2>1, <2>2, OneMoreQuestion
  <2>4. NamesInv'
    BY <1>1, <1>2, <1>4, <2>2 DEF NamesInv, HasAnswer, Good
  <2>. QED  BY <1>1, <2>3, <2>4 DEF TermIsBest
<1>. QED  BY <1>3, <1>4

LEMMA OnceMoreTerm == TermInv /\ OnceMore => (OneQuestion /\ NamesInv /\ TermIsBest)'
<1>. SUFFICES ASSUME TermInv, OnceMore PROVE (OneQuestion /\ NamesInv /\ TermIsBest)'
  OBVIOUS
<1>0. TypeOK /\ OneQuestion /\ NamesInv /\ TermIsBest /\ server \in Server
  BY DEF TermInv, TypeOK
<1>1. /\ server.pc = "oncemore" /\ HasAnswer
      /\ UNCHANGED <<toClient, toServer, agreed, child>> /\ child.pc = "none"
      /\ server' = [server EXCEPT !.pc = "fork", !.terminaltype = server.first]
  BY <1>0 DEF OnceMore, Ready, Waiting, NamesInv, HasAnswer
<1>2. server.heard.first = <<server.first>> /\ server.heard.good = <<>>
  BY <1>0, <1>1 DEF NamesInv
<1>3. /\ server'.pc = "fork" /\ server'.answered = server.answered /\ server'.heard = server.heard
      /\ server'.terminaltype = server.first
  BY <1>0, <1>1 DEF Server
<1>4. OneQuestion'
  BY <1>0, <1>1, <1>3, OneQuestionKept
<1>5. NamesInv'
  BY <1>1, <1>2, <1>3 DEF NamesInv, HasAnswer, Best
<1>. QED  BY <1>1, <1>4, <1>5 DEF TermIsBest

LEMMA ForkTerm == TermInv /\ (Fork \/ Cleanup) => (OneQuestion /\ NamesInv /\ TermIsBest)'
<1>. SUFFICES ASSUME TermInv, Fork \/ Cleanup PROVE (OneQuestion /\ NamesInv /\ TermIsBest)'
  OBVIOUS
<1>0. TypeOK /\ OneQuestion /\ NamesInv /\ TermIsBest /\ server \in Server
  BY DEF TermInv, TypeOK
<1>1. CASE Fork
  <2>. DEFINE term == IF "TTYPE" \in agreed THEN server.terminaltype ELSE <<"network">>
              env == [server.env EXCEPT !["TERM"] = <<term>>]
  <2>1. /\ server.pc = "fork" /\ UNCHANGED <<toClient, toServer, agreed>>
        /\ server' = [server EXCEPT !.pc = "serving", !.env = env]
        /\ child' = [pc |-> "forked", env |-> env, size |-> server.size]
    BY <1>1 DEF Fork
  <2>2. env["TERM"] = <<term>>
    BY <1>0 DEF Server, Environment, Allowed
  <2>3. "TTYPE" \in agreed => <<server.terminaltype>> = Best(server.heard)
    BY <1>0, <2>1 DEF NamesInv, Best
  <2>4. /\ server'.pc = "serving" /\ server'.heard = server.heard /\ server'.answered = server.answered
        /\ child'.pc = "forked" /\ child'.env = env
    <3>. HIDE DEF env
    <3>. QED  BY <1>0, <2>1 DEF Server
  <2>5. OneQuestion'
    BY <1>0, <2>1, <2>4, OneQuestionKept
  <2>6. NamesInv'
    BY <2>4 DEF NamesInv
  <2>7. TermIsBest'
    <3>. HIDE DEF env
    <3>1. child'.env["TERM"] = <<term>>
      BY <2>2, <2>4
    <3>. QED  BY <2>1, <2>3, <2>4, <3>1 DEF TermIsBest, Best
  <2>. QED  BY <2>5, <2>6, <2>7
<1>2. CASE Cleanup
  <2>1. /\ server.pc = "serving" /\ server' = [server EXCEPT !.pc = "exited"]
        /\ UNCHANGED <<toClient, toServer, agreed, child>>
    BY <1>2 DEF Cleanup
  <2>2. server'.pc = "exited" /\ server'.heard = server.heard /\ server'.answered = server.answered
    BY <1>0, <2>1 DEF Server
  <2>3. OneQuestion'
    BY <1>0, <2>1, <2>2, OneQuestionKept
  <2>4. NamesInv' /\ TermIsBest'
    BY <1>0, <2>1, <2>2 DEF NamesInv, TermIsBest
  <2>. QED  BY <2>3, <2>4
<1>. QED  BY <1>1, <1>2

\* A name that is heard.
LEMMA HeardName ==
    ASSUME NEW heard, NEW name, NEW counts \in BOOLEAN, NEW h, h = Hear(heard, name, counts)
    PROVE  /\ heard.first = <<>> => h.first = <<name>>
           /\ heard.first # <<>> => h.first = heard.first
           /\ heard.good = <<>> /\ counts => h.good = Good(name)
           /\ ~counts => h.good = heard.good
BY DEF Hear, Good

\* The answer to the question for a name.
LEMMA NameReceived ==
    ASSUME NamesInv, server.pc \in {"wait", "again", "oncemore"}, ~HasAnswer, "TTYPE" \in agreed,
           NEW name,
           server'.pc = server.pc, server'.first = server.first, server'.terminaltype = name,
           "TTYPE" \in server'.answered,
           server'.heard = Hear(server.heard, name, server.pc # "oncemore"),
           UNCHANGED <<agreed, child>>
    PROVE  NamesInv' /\ TermIsBest'
<1>. DEFINE counts == server.pc # "oncemore"
<1>1. counts \in BOOLEAN
  OBVIOUS
<1>2. server'.heard = Hear(server.heard, name, counts)
  OBVIOUS
<1>3. counts <=> server.pc # "oncemore"
  OBVIOUS
<1>. HIDE DEF counts
<1>4. /\ server.heard.first = <<>> => server'.heard.first = <<name>>
      /\ server.heard.first # <<>> => server'.heard.first = server.heard.first
      /\ server.heard.good = <<>> /\ counts => server'.heard.good = Good(name)
      /\ ~counts => server'.heard.good = server.heard.good
  BY <1>1, <1>2, HeardName
<1>5. <<server.first>> # <<>>
  OBVIOUS
<1>6. child.pc = "none"
  BY DEF NamesInv
<1>7. CASE server.pc = "wait"
  BY <1>3, <1>4, <1>6, <1>7 DEF NamesInv, HasAnswer, TermIsBest
<1>8. CASE server.pc = "again"
  BY <1>3, <1>4, <1>5, <1>6, <1>8 DEF NamesInv, HasAnswer, TermIsBest
<1>9. CASE server.pc = "oncemore"
  BY <1>3, <1>4, <1>5, <1>6, <1>9 DEF NamesInv, HasAnswer, TermIsBest
<1>. QED  BY <1>7, <1>8, <1>9

\* What a message does to the names.
LEMMA SuboptionNames ==
    ASSUME NEW s \in Server, NEW m \in Message, NEW t, t = Suboption(s, m)
    PROVE  /\ t \in Server /\ t.pc = s.pc /\ t.first = s.first
           /\ m.opt # "TTYPE" => /\ t.terminaltype = s.terminaltype /\ t.heard = s.heard
                                 /\ "TTYPE" \in t.answered <=> "TTYPE" \in s.answered
           /\ m.opt = "TTYPE" => /\ t.terminaltype = Lowered(Undoubled(m.octets))
                                 /\ "TTYPE" \in t.answered
                                 /\ t.heard = Hear(s.heard, Lowered(Undoubled(m.octets)),
                                                   s.pc # "oncemore")
<1>1. Affects(s, m, t)
  BY SuboptionFields
<1>. QED  BY <1>1 DEF Affects

LEMMA ReceiveTerm == TermInv /\ ServerReceives => (OneQuestion /\ NamesInv /\ TermIsBest)'
<1>. SUFFICES ASSUME TermInv, ServerReceives PROVE (OneQuestion /\ NamesInv /\ TermIsBest)'
  OBVIOUS
<1>. DEFINE m == Head(toServer)
            t == Suboption(server, m)
<1>0. TypeOK /\ OneQuestion /\ NamesInv /\ TermIsBest /\ server \in Server /\ toServer \in Seq(Message)
  BY DEF TermInv, TypeOK
<1>1. /\ toServer # <<>> /\ m \in Message /\ toServer' = Tail(toServer)
      /\ UNCHANGED <<toClient, agreed, child>>
  BY <1>0, Received DEF ServerReceives
<1>2. PICK more \in BOOLEAN : server' = [t EXCEPT !.reading = more]
  BY <1>0, Received
<1>3. /\ t \in Server /\ t.pc = server.pc /\ t.first = server.first
      /\ m.opt # "TTYPE" => /\ t.terminaltype = server.terminaltype /\ t.heard = server.heard
                            /\ "TTYPE" \in t.answered <=> "TTYPE" \in server.answered
      /\ m.opt = "TTYPE" => /\ t.terminaltype = Lowered(Undoubled(m.octets))
                            /\ "TTYPE" \in t.answered
                            /\ t.heard = Hear(server.heard, Lowered(Undoubled(m.octets)),
                                              server.pc # "oncemore")
  BY <1>0, <1>1, SuboptionNames
<1>. HIDE DEF t
<1>4. /\ server'.pc = t.pc /\ server'.first = t.first /\ server'.terminaltype = t.terminaltype
      /\ server'.heard = t.heard /\ server'.answered = t.answered
  BY <1>2, <1>3 DEF Server
<1>5. /\ None(toServer, TermAnswers) => None(Tail(toServer), TermAnswers) /\ m \notin TermAnswers
      /\ One(toServer, TermAnswers) => One(Tail(toServer), TermAnswers)
      /\ One(toServer, TermAnswers) /\ m \in TermAnswers => None(Tail(toServer), TermAnswers)
      /\ m \notin TermAnswers /\ None(Tail(toServer), TermAnswers) => None(toServer, TermAnswers)
  BY <1>0, <1>1, NoneOfTail
<1>6. m \in TermAnswers <=> m.opt = "TTYPE"
  BY <1>1 DEF TermAnswers
<1>7. /\ None(toServer, TermAnswers)' <=> None(Tail(toServer), TermAnswers)
      /\ One(toServer, TermAnswers)' <=> One(Tail(toServer), TermAnswers)
      /\ None(toClient, Term)' <=> None(toClient, Term)
      /\ One(toClient, Term)' <=> One(toClient, Term)
  BY <1>1 DEF None, One, Term, TermAnswers, Message
<1>. HIDE DEF m
<1>8. CASE m.opt = "TTYPE"
  <2>1. /\ server.pc \in {"wait", "again", "oncemore"} /\ "TTYPE" \in agreed /\ ~HasAnswer
        /\ None(toClient, Term)
    BY <1>0, <1>5, <1>6, <1>8 DEF OneQuestion, HasAnswer
  <2>2. OneQuestion'
    BY <1>0, <1>1, <1>5, <1>6, <1>7, <1>8, <2>1 DEF OneQuestion
  <2>3. NamesInv' /\ TermIsBest'
    BY <1>0, <1>1, <1>3, <1>4, <1>8, <2>1, NameReceived
  <2>. QED  BY <2>2, <2>3
<1>9. CASE m.opt # "TTYPE"
  <2>1. /\ server'.pc = server.pc /\ server'.first = server.first
        /\ server'.terminaltype = server.terminaltype /\ server'.heard = server.heard
        /\ "TTYPE" \in server'.answered <=> "TTYPE" \in server.answered
    BY <1>3, <1>4, <1>9
  <2>2. OneQuestion'
    BY <1>0, <1>1, <1>5, <1>6, <1>7, <1>9, <2>1 DEF OneQuestion
  <2>3. NamesInv'
    BY <1>0, <1>1, <2>1 DEF NamesInv, HasAnswer
  <2>4. TermIsBest'
    BY <1>0, <1>1, <2>1 DEF TermIsBest
  <2>. QED  BY <2>2, <2>3, <2>4
<1>. QED  BY <1>8, <1>9

LEMMA ChildTerm == TermInv /\ (Getptyslave \/ StartLogin \/ Telnetlogin)
                     => (OneQuestion /\ NamesInv /\ TermIsBest)'
<1>. SUFFICES ASSUME TermInv, Getptyslave \/ StartLogin \/ Telnetlogin
              PROVE  (OneQuestion /\ NamesInv /\ TermIsBest)'
  OBVIOUS
<1>0. OneQuestion /\ NamesInv /\ TermIsBest /\ child \in Child
  BY DEF TermInv, TypeOK, Child
<1>1. UNCHANGED <<toClient, toServer, agreed, server>>
  BY DEF Getptyslave, StartLogin, Telnetlogin
<1>2. child'.env = child.env /\ child.pc # "none" /\ child'.pc # "none"
  <2>1. CASE Getptyslave
    BY <1>0, <2>1 DEF Getptyslave, Child
  <2>2. CASE StartLogin
    BY <1>0, <2>2 DEF StartLogin, Child
  <2>3. CASE Telnetlogin
    BY <1>0, <2>3 DEF Telnetlogin, Child
  <2>. QED  BY <2>1, <2>2, <2>3
<1>3. OneQuestion'
  BY <1>0, <1>1, OneQuestionKept
<1>. QED  BY <1>0, <1>1, <1>2, <1>3 DEF NamesInv, HasAnswer, TermIsBest

\* An answer is for the option asked about.
LEMMA AnswersAlike ==
    ASSUME TypeOK, ClientAnswers
    PROVE  \E m \in Message : toServer' = Append(toServer, m) /\ m.opt = Head(toClient)
<1>1. PICK m \in Message : toServer' = Append(toServer, m) /\ IsAnswer(Head(toClient), m)
  BY Answered
<1>2. m.opt = Head(toClient)
  <2>1. CASE m = Environ("IS", vars, Names(Exported(vars)), EnvOptAll(vars)) /\ Head(toClient) = "ENVIRON"
    BY <2>1 DEF Environ, Sub
  <2>2. CASE \E octets \in Seq(Octet) : m = Sub("XDISPLOC", "IS", octets, <<<<"DISPLAY", <<octets>>>>>>)
             /\ Head(toClient) = "XDISPLOC"
    BY <2>2 DEF Sub
  <2>3. CASE \/ m = Sub("TSPEED", "IS", <<>>, <<>>) /\ Head(toClient) = "TSPEED"
             \/ m = Sub("XDISPLOC", "WONT", <<>>, <<>>) /\ Head(toClient) = "XDISPLOC"
             \/ (\E name \in Seq(Octet) : m = Sub("TTYPE", "IS", name, <<>>)) /\ Head(toClient) = "TTYPE"
    BY <2>3 DEF Sub
  <2>. QED  BY <1>1, <2>1, <2>2, <2>3, Zenon DEF IsAnswer
<1>. QED  BY <1>1, <1>2

\* What the client appends is an answer for the type, and takes the question,
\* or has nothing to do with it.
LEMMA ClientSends ==
    ASSUME TypeOK, ClientAnswers \/ (\E c \in Command : UserDoes(c)) \/ Sendnaws
    PROVE  \/ /\ toClient # <<>> /\ toClient' = Tail(toClient)
              /\ \E m \in Message : /\ toServer' = Append(toServer, m)
                                    /\ m.opt = Head(toClient)
           \/ /\ toClient' = toClient
              /\ \/ toServer' = toServer
                 \/ \E m \in Message : m.opt # "TTYPE" /\ toServer' = Append(toServer, m)
<1>1. CASE ClientAnswers
  BY <1>1, Answered, AnswersAlike
<1>2. ASSUME NEW c \in Command, UserDoes(c)
      PROVE  /\ toClient' = toClient
             /\ \/ toServer' = toServer
                \/ \E m \in Message : m.opt # "TTYPE" /\ toServer' = Append(toServer, m)
  <2>. DEFINE m == Environ("INFO", vars, <<c.name>>, EnvOptAdd(vars, c.name))
  <2>1. m \in Message /\ m.opt = "ENVIRON"
    BY Sent DEF Environ, Sub
  <2>. HIDE DEF m
  <2>2. toServer' = toServer \/ toServer' = Append(toServer, m)
    BY <1>2 DEF UserDoes, Answer, m
  <2>. QED  BY <1>2, <2>1, <2>2 DEF UserDoes
<1>3. CASE Sendnaws
  <2>1. PICK n \in (1 .. MaxSize) \ {window} : toServer' = Append(toServer, Naws(n))
    BY <1>3 DEF Sendnaws, Answer
  <2>2. Naws(n) \in Message /\ Naws(n).opt = "NAWS"
    BY DEF Naws, Message
  <2>. QED  BY <1>3, <2>1, <2>2 DEF Sendnaws
<1>. QED  BY <1>1, <1>2, <1>3

LEMMA ClientTerm ==
    TermInv /\ (ClientAnswers \/ (\E c \in Command : UserDoes(c)) \/ Sendnaws)
      => (OneQuestion /\ NamesInv /\ TermIsBest)'
<1>. SUFFICES ASSUME TermInv, ClientAnswers \/ (\E c \in Command : UserDoes(c)) \/ Sendnaws
              PROVE  (OneQuestion /\ NamesInv /\ TermIsBest)'
  OBVIOUS
<1>0. /\ TypeOK /\ OneQuestion /\ NamesInv /\ TermIsBest
      /\ toServer \in Seq(Message) /\ toClient \in Seq(Question)
  BY DEF TermInv, TypeOK
<1>1. UNCHANGED <<agreed, server, child>>
  BY DEF ClientAnswers, UserDoes, Sendnaws
<1>2. NamesInv' /\ TermIsBest'
  BY <1>0, <1>1 DEF NamesInv, HasAnswer, TermIsBest
<1>. DEFINE NoneAsked(s) == None(s, Term)
            OneAsked(s) == One(s, Term)
            NoneSaid(s) == None(s, TermAnswers)
            OneSaid(s) == One(s, TermAnswers)
<1>3. OneQuestion <=>
        /\ OneAsked(toClient) /\ OneSaid(toServer)
        /\ NoneAsked(toClient) \/ NoneSaid(toServer)
        /\ ~NoneAsked(toClient) \/ ~NoneSaid(toServer) =>
             /\ server.pc \in {"wait", "again", "oncemore"}
             /\ "TTYPE" \in agreed /\ "TTYPE" \notin server.answered
  BY DEF OneQuestion
<1>4. OneQuestion' <=>
        /\ OneAsked(toClient') /\ OneSaid(toServer')
        /\ NoneAsked(toClient') \/ NoneSaid(toServer')
        /\ ~NoneAsked(toClient') \/ ~NoneSaid(toServer') =>
             /\ server.pc \in {"wait", "again", "oncemore"}
             /\ "TTYPE" \in agreed /\ "TTYPE" \notin server.answered
  BY <1>1 DEF OneQuestion, One, None, Term, TermAnswers, Message
<1>5. CASE toClient' = toClient /\ toServer' = toServer
  <2>. HIDE DEF NoneAsked, OneAsked, NoneSaid, OneSaid
  <2>. QED  BY <1>0, <1>2, <1>3, <1>4, <1>5
<1>6. ASSUME NEW m \in Message, toServer' = Append(toServer, m)
      PROVE  /\ m.opt # "TTYPE" => /\ NoneSaid(toServer') <=> NoneSaid(toServer)
                                   /\ OneSaid(toServer) => OneSaid(toServer')
             /\ NoneSaid(toServer) => OneSaid(toServer')
  <2>1. /\ m \notin TermAnswers => /\ None(Append(toServer, m), TermAnswers) <=> None(toServer, TermAnswers)
                                   /\ One(toServer, TermAnswers) => One(Append(toServer, m), TermAnswers)
        /\ None(toServer, TermAnswers) => One(Append(toServer, m), TermAnswers)
    BY <1>0, NoneOfAppend
  <2>. QED  BY <1>6, <2>1 DEF TermAnswers
<1>7. CASE toClient' = toClient /\ \E m \in Message : m.opt # "TTYPE" /\ toServer' = Append(toServer, m)
  <2>1. (NoneSaid(toServer') <=> NoneSaid(toServer)) /\ (OneSaid(toServer) => OneSaid(toServer'))
    BY <1>6, <1>7
  <2>. HIDE DEF NoneAsked, OneAsked, NoneSaid, OneSaid
  <2>. QED  BY <1>0, <1>2, <1>3, <1>4, <1>7, <2>1
<1>8. CASE /\ toClient # <<>> /\ toClient' = Tail(toClient)
           /\ \E m \in Message : toServer' = Append(toServer, m) /\ m.opt = Head(toClient)
  <2>1. PICK m \in Message : toServer' = Append(toServer, m) /\ m.opt = Head(toClient)
    BY <1>8
  <2>2. /\ NoneAsked(toClient) => NoneAsked(toClient') /\ Head(toClient) \notin Term
        /\ OneAsked(toClient) => OneAsked(toClient')
        /\ OneAsked(toClient) /\ Head(toClient) \in Term => NoneAsked(toClient')
        /\ Head(toClient) \notin Term /\ NoneAsked(toClient') => NoneAsked(toClient)
    <3>1. /\ None(toClient, Term) => None(Tail(toClient), Term) /\ Head(toClient) \notin Term
          /\ One(toClient, Term) => One(Tail(toClient), Term)
          /\ One(toClient, Term) /\ Head(toClient) \in Term => None(Tail(toClient), Term)
          /\ Head(toClient) \notin Term /\ None(Tail(toClient), Term) => None(toClient, Term)
      BY <1>0, <1>8, NoneOfTail
    <3>. QED  BY <1>8, <3>1
  <2>3. Head(toClient) \in Term <=> m.opt = "TTYPE"
    BY <2>1 DEF Term
  <2>4. /\ m.opt # "TTYPE" => /\ NoneSaid(toServer') <=> NoneSaid(toServer)
                              /\ OneSaid(toServer) => OneSaid(toServer')
        /\ NoneSaid(toServer) => OneSaid(toServer')
    BY <1>6, <2>1
  <2>. HIDE DEF NoneAsked, OneAsked, NoneSaid, OneSaid
  <2>5. OneQuestion'
    <3>1. CASE m.opt = "TTYPE"
      BY <1>0, <1>3, <1>4, <2>2, <2>3, <2>4, <3>1
    <3>2. CASE m.opt # "TTYPE"
      BY <1>0, <1>3, <1>4, <2>2, <2>3, <2>4, <3>2
    <3>. QED  BY <3>1, <3>2
  <2>. QED  BY <1>2, <2>5
<1>. QED  BY <1>0, <1>5, <1>7, <1>8, ClientSends

LEMMA StepTerm == TermInv /\ [Next]_allVars => TermInv'
<1>. SUFFICES ASSUME TermInv, [Next]_allVars PROVE TermInv'
  OBVIOUS
<1>0. TypeOK /\ OneQuestion /\ NamesInv /\ TermIsBest
  BY DEF TermInv
<1>1. TypeOK'
  BY <1>0, StepTypes
<1>2. (OneQuestion /\ NamesInv /\ TermIsBest)'
  <2>1. CASE Ask
    BY <2>1, AskTerm
  <2>2. CASE FirstName
    BY <2>2, FirstNameTerm
  <2>3. CASE NextName
    BY <2>3, NextNameTerm
  <2>4. CASE OnceMore
    BY <2>4, OnceMoreTerm
  <2>5. CASE Fork \/ Cleanup
    BY <2>5, ForkTerm
  <2>6. CASE ServerReceives
    BY <2>6, ReceiveTerm
  <2>7. CASE Getptyslave \/ StartLogin \/ Telnetlogin
    BY <2>7, ChildTerm
  <2>8. CASE ClientAnswers \/ (\E c \in Command : UserDoes(c)) \/ Sendnaws
    BY <2>8, ClientTerm
  <2>9. CASE UNCHANGED allVars
    <3>1. UNCHANGED <<toClient, toServer, agreed, server, child>>
      BY <2>9 DEF allVars
    <3>2. OneQuestion'
      BY <1>0, <3>1, OneQuestionKept
    <3>. QED  BY <1>0, <3>1, <3>2 DEF NamesInv, HasAnswer, TermIsBest
  <2>. QED  BY <2>1, <2>2, <2>3, <2>4, <2>5, <2>6, <2>7, <2>8, <2>9 DEF Next
<1>. QED  BY <1>1, <1>2 DEF TermInv

\* getterminaltype() gives login the first name that will do, or else the first.
THEOREM LoginTermIsBest == Spec => []TermIsBest
<1>1. Init => TermInv
  BY InitTerm
<1>2. TermInv /\ [Next]_allVars => TermInv'
  BY StepTerm
<1>3. TermInv => TermIsBest
  BY DEF TermInv
<1>. QED  BY <1>1, <1>2, <1>3, PTL DEF Spec

-----------------------------------------------------------------------------
(* The size of the window.                                                 *)

Resizes == {m \in Message : m.opt = "NAWS"}

\* When all of s is received the size is n.
Ends(s, size, n) ==
    \/ None(s, Resizes) /\ size = n
    \/ \E i \in DOMAIN s : /\ s[i] \in Resizes /\ s[i].size = n
                           /\ \A j \in DOMAIN s : s[j] \in Resizes => j <= i

LEMMA EndsOfTail ==
    ASSUME NEW s \in Seq(Message), s # <<>>, NEW size, NEW n, Ends(s, size, n)
    PROVE  Ends(Tail(s), IF Head(s) \in Resizes THEN Head(s).size ELSE size, n)
<1>. DEFINE t == Tail(s)
            k == Len(s)
            later == IF Head(s) \in Resizes THEN Head(s).size ELSE size
<1>0. /\ k \in Nat /\ k # 0 /\ DOMAIN s = 1 .. k /\ DOMAIN t = 1 .. k - 1 /\ Head(s) = s[1]
      /\ \A i \in 1 .. k - 1 : t[i] = s[i + 1] /\ i + 1 \in 1 .. k
  OBVIOUS
<1>1. ASSUME None(s, Resizes), size = n PROVE Ends(t, later, n)
  <2>1. None(t, Resizes) /\ Head(s) \notin Resizes
    BY <1>1, NoneOfTail
  <2>. QED  BY <1>1, <2>1 DEF Ends
<1>2. ASSUME NEW i \in DOMAIN s, s[i] \in Resizes, s[i].size = n,
             \A j \in DOMAIN s : s[j] \in Resizes => j <= i
      PROVE  Ends(t, later, n)
  <2>1. CASE i = 1
    <3>. HIDE DEF t, k
    <3>1. \A j \in 1 .. k - 1 : t[j] \notin Resizes
      <4>. SUFFICES ASSUME NEW j \in 1 .. k - 1, t[j] \in Resizes PROVE FALSE
        OBVIOUS
      <4>1. j + 1 \in DOMAIN s /\ s[j + 1] \in Resizes
        BY <1>0
      <4>2. j + 1 <= i
        BY <1>2, <4>1
      <4>. QED  BY <1>0, <2>1, <4>2
    <3>2. None(t, Resizes)
      BY <1>0, <3>1 DEF None
    <3>3. later = n
      BY <1>0, <1>2, <2>1
    <3>. QED  BY <3>2, <3>3 DEF Ends
  <2>2. CASE i # 1
    <3>. HIDE DEF t, k
    <3>1. i - 1 \in 1 .. k - 1 /\ t[i - 1] = s[i]
      <4>1. i \in 1 .. k /\ i # 1
        BY <1>0, <2>2
      <4>2. i - 1 \in 1 .. k - 1 /\ (i - 1) + 1 = i
        BY <1>0, <4>1
      <4>. QED  BY <1>0, <4>2
    <3>2. ASSUME NEW j \in 1 .. k - 1, t[j] \in Resizes PROVE j <= i - 1
      <4>1. j + 1 \in DOMAIN s /\ s[j + 1] \in Resizes
        BY <1>0, <3>2
      <4>2. j + 1 <= i /\ i \in 1 .. k
        BY <1>0, <1>2, <4>1
      <4>. QED  BY <1>0, <4>2
    <3>3. i - 1 \in DOMAIN t /\ \A j \in DOMAIN t : t[j] \in Resizes => j <= i - 1
      BY <1>0, <3>1, <3>2
    <3>. HIDE DEF later
    <3>. QED  BY <1>2, <3>1, <3>3 DEF Ends
  <2>. QED  BY <2>1, <2>2
<1>. HIDE DEF t, later
<1>3. \/ None(s, Resizes) /\ size = n
      \/ \E i \in DOMAIN s : /\ s[i] \in Resizes /\ s[i].size = n
                             /\ \A j \in DOMAIN s : s[j] \in Resizes => j <= i
  BY DEF Ends
<1>4. Ends(t, later, n)
  BY <1>1, <1>2, <1>3
<1>. QED  BY <1>4 DEF t, later

LEMMA EndsOfAppend ==
    ASSUME NEW s \in Seq(Message), NEW m \in Message, NEW size, NEW n
    PROVE  /\ m \notin Resizes /\ Ends(s, size, n) => Ends(Append(s, m), size, n)
           /\ m \in Resizes => Ends(Append(s, m), size, m.size)
<1>. DEFINE t == Append(s, m)
            k == Len(s)
<1>0. /\ k \in Nat /\ DOMAIN s = 1 .. k /\ DOMAIN t = 1 .. k + 1 /\ t[k + 1] = m
      /\ \A i \in 1 .. k : t[i] = s[i]
  OBVIOUS
<1>1. ASSUME m \notin Resizes, None(s, Resizes), size = n PROVE Ends(t, size, n)
  <2>1. None(t, Resizes)
    BY <1>1, NoneOfAppend
  <2>. QED  BY <1>1, <2>1 DEF Ends
<1>. HIDE DEF t, k
<1>2. ASSUME m \notin Resizes, NEW i \in DOMAIN s, s[i] \in Resizes, s[i].size = n,
             \A j \in DOMAIN s : s[j] \in Resizes => j <= i
      PROVE  Ends(t, size, n)
  <2>1. i \in DOMAIN t /\ t[i] = s[i]
    BY <1>0
  <2>2. ASSUME NEW j \in DOMAIN t, t[j] \in Resizes PROVE j <= i
    <3>1. j \in 1 .. k \/ j = k + 1
      BY <1>0
    <3>. QED  BY <1>0, <1>2, <2>2, <3>1
  <2>. QED  BY <1>2, <2>1, <2>2 DEF Ends
<1>3. ASSUME m \in Resizes PROVE Ends(t, size, m.size)
  <2>1. k + 1 \in DOMAIN t /\ \A j \in DOMAIN t : j <= k + 1
    BY <1>0
  <2>. QED  BY <1>0, <1>3, <2>1 DEF Ends
<1>. QED  BY <1>1, <1>2, <1>3 DEF Ends, t

\* The newest size on its way, or the last received, is the window's; the
\* parent's is the pty's unless the child has set an older one.
SizeInv ==
    /\ Ends(toServer, server.size, window)
    /\ child.pc = "forked" /\ child.size # 0 => child.size = server.size \/ crossed
    /\ server.pc \notin {"serving", "exited"} => child.pc = "none"
    /\ pty = server.size \/ (crossed /\ child.pc \notin {"none", "forked"})

WindowInv == TypeOK /\ SizeInv

LEMMA InitWindow == Init => WindowInv
<1>. SUFFICES ASSUME Init PROVE WindowInv
  OBVIOUS
<1>1. TypeOK
  BY InitTypes
<1>2. toServer = <<>> /\ server.size = 0 /\ window = 0 /\ child.pc = "none" /\ pty = 0
  BY DEF Init, ServerInit
<1>3. Ends(toServer, server.size, window)
  BY <1>2 DEF Ends, None
<1>. QED  BY <1>1, <1>2, <1>3 DEF WindowInv, SizeInv

LEMMA EndsKept ==
    ASSUME UNCHANGED <<toServer, window>>, server'.size = server.size
    PROVE  Ends(toServer, server.size, window)' = Ends(toServer, server.size, window)
BY DEF Ends, None, Resizes, Message

LEMMA ClientResizes ==
    ASSUME TypeOK, ClientAnswers \/ \E c \in Command : UserDoes(c)
    PROVE  \/ toServer' = toServer
           \/ \E m \in Message : m \notin Resizes /\ toServer' = Append(toServer, m)
<1>1. CASE ClientAnswers
  <2>1. PICK m \in Message : toServer' = Append(toServer, m) /\ m.opt = Head(toClient)
    BY <1>1, AnswersAlike
  <2>2. Head(toClient) \in Question
    BY <1>1, Answered
  <2>. QED  BY <2>1, <2>2 DEF Resizes, Question
<1>2. ASSUME NEW c \in Command, UserDoes(c)
      PROVE  \/ toServer' = toServer
             \/ \E m \in Message : m \notin Resizes /\ toServer' = Append(toServer, m)
  <2>. DEFINE m == Environ("INFO", vars, <<c.name>>, EnvOptAdd(vars, c.name))
  <2>1. m \in Message /\ m.opt = "ENVIRON"
    BY Sent DEF Environ, Sub
  <2>. HIDE DEF m
  <2>2. toServer' = toServer \/ toServer' = Append(toServer, m)
    BY <1>2 DEF UserDoes, Answer, m
  <2>. QED  BY <2>1, <2>2 DEF Resizes
<1>. QED  BY <1>1, <1>2

LEMMA ReceiveWindow == WindowInv /\ ServerReceives => SizeInv'
<1>. SUFFICES ASSUME WindowInv, ServerReceives PROVE SizeInv'
  OBVIOUS
<1>. DEFINE m == Head(toServer)
            t == Suboption(server, m)
<1>0. TypeOK /\ SizeInv /\ server \in Server /\ toServer \in Seq(Message)
  BY DEF WindowInv, TypeOK
<1>1. toServer # <<>> /\ m \in Message /\ toServer' = Tail(toServer)
  BY <1>0, Received
<1>2. PICK more \in BOOLEAN : server' = [t EXCEPT !.reading = more]
  BY <1>0, Received
<1>3. t \in Server /\ t.pc = server.pc /\ t.size = IF m.opt = "NAWS" THEN m.size ELSE server.size
  <2>1. Affects(server, m, t)
    BY <1>0, <1>1, SuboptionFields
  <2>. HIDE DEF t, m
  <2>. QED  BY <2>1 DEF Affects
<1>. HIDE DEF t
<1>4. server'.pc = server.pc /\ server'.size = IF m.opt = "NAWS" THEN m.size ELSE server.size
  BY <1>2, <1>3 DEF Server
<1>5. /\ pty' = IF m.opt = "NAWS" THEN m.size ELSE pty
      /\ crossed' = (crossed \/ (m.opt = "NAWS" /\ child.pc = "forked" /\ child.size # 0))
      /\ UNCHANGED <<window, child>>
  BY DEF ServerReceives, clientVars
<1>6. Ends(Tail(toServer), IF m \in Resizes THEN m.size ELSE server.size, window)
  BY <1>0, <1>1, EndsOfTail DEF SizeInv
<1>7. Ends(Tail(toServer), server'.size, window)
  BY <1>1, <1>4, <1>6 DEF Resizes
<1>8. Ends(toServer, server.size, window)'
  BY <1>1, <1>5, <1>7 DEF Ends, None, Resizes, Message
<1>. HIDE DEF m
<1>9. crossed \in BOOLEAN
  BY <1>0 DEF TypeOK
<1>10. CASE m.opt = "NAWS"
  BY <1>0, <1>4, <1>5, <1>8, <1>9, <1>10 DEF SizeInv
<1>11. CASE m.opt # "NAWS"
  BY <1>0, <1>4, <1>5, <1>8, <1>9, <1>11 DEF SizeInv
<1>. QED  BY <1>10, <1>11

LEMMA StepWindow == WindowInv /\ [Next]_allVars => WindowInv'
<1>. SUFFICES ASSUME WindowInv, [Next]_allVars PROVE WindowInv'
  OBVIOUS
<1>0. /\ TypeOK /\ SizeInv /\ server \in Server /\ child \in Child
      /\ toServer \in Seq(Message) /\ crossed \in BOOLEAN
  BY DEF WindowInv, TypeOK, Child
<1>. SUFFICES SizeInv'
  BY <1>0, StepTypes DEF WindowInv
<1>1. CASE Ask \/ FirstName \/ NextName \/ OnceMore \/ Cleanup
  <2>1. UNCHANGED <<toServer, window, child, pty, crossed>>
    BY <1>1 DEF Ask, FirstName, NextName, OnceMore, Cleanup, clientVars
  <2>2. /\ server'.size = server.size
        /\ server'.pc \in {"serving", "exited"} <=> server.pc \in {"serving", "exited"}
    <3>1. CASE Ask
      BY <1>0, <3>1 DEF Ask, Server
    <3>2. CASE FirstName
      BY <1>0, <3>2 DEF FirstName, Gettermname, Ready, Server
    <3>3. CASE NextName
      BY <1>0, <3>3 DEF NextName, Gettermname, Ready, Server
    <3>4. CASE OnceMore
      BY <1>0, <3>4 DEF OnceMore, Ready, Server
    <3>5. CASE Cleanup
      BY <1>0, <3>5 DEF Cleanup, Server
    <3>. QED  BY <1>1, <3>1, <3>2, <3>3, <3>4, <3>5
  <2>. QED  BY <1>0, <2>1, <2>2, EndsKept DEF SizeInv
<1>2. CASE Fork
  <2>1. /\ UNCHANGED <<toServer, window, pty, crossed>> /\ server.pc = "fork"
        /\ \E e : /\ server' = [server EXCEPT !.pc = "serving", !.env = e]
                  /\ child' = [pc |-> "forked", env |-> e, size |-> server.size]
    BY <1>2 DEF Fork, clientVars
  <2>2. server'.size = server.size /\ child'.size = server.size /\ child'.pc = "forked"
    BY <1>0, <2>1 DEF Server
  <2>3. Ends(toServer, server.size, window)'
    BY <1>0, <2>1, <2>2, EndsKept DEF SizeInv
  <2>4. pty = server.size
    BY <1>0, <2>1 DEF SizeInv
  <2>. QED  BY <2>1, <2>2, <2>3, <2>4 DEF SizeInv
<1>3. CASE ServerReceives
  BY <1>3, ReceiveWindow
<1>4. CASE Getptyslave
  <2>1. /\ child.pc = "forked" /\ child'.pc = "slave"
        /\ UNCHANGED <<toServer, window, server, crossed>>
        /\ pty' = IF child.size # 0 THEN child.size ELSE pty
    BY <1>0, <1>4 DEF Getptyslave, Child, clientVars
  <2>. QED  BY <1>0, <2>1, EndsKept DEF SizeInv
<1>5. CASE StartLogin \/ Telnetlogin
  <2>1. UNCHANGED <<toServer, window, server, pty, crossed>>
    BY <1>5 DEF StartLogin, Telnetlogin, clientVars
  <2>2. child.pc \notin {"none", "forked"} /\ child'.pc \notin {"none", "forked"}
    <3>1. CASE StartLogin
      BY <1>0, <3>1 DEF StartLogin, Child
    <3>2. CASE Telnetlogin
      BY <1>0, <3>2 DEF Telnetlogin, Child
    <3>. QED  BY <1>5, <3>1, <3>2
  <2>. QED  BY <1>0, <2>1, <2>2, EndsKept DEF SizeInv
<1>6. CASE ClientAnswers \/ \E c \in Command : UserDoes(c)
  <2>1. UNCHANGED <<window, server, child, pty, crossed>>
    BY <1>6 DEF ClientAnswers, UserDoes
  <2>2. toServer' = toServer \/ \E m \in Message : m \notin Resizes /\ toServer' = Append(toServer, m)
    BY <1>0, <1>6, ClientResizes
  <2>3. Ends(toServer', server.size, window)
    BY <1>0, <2>2, EndsOfAppend DEF SizeInv
  <2>4. Ends(toServer, server.size, window)'
    BY <2>1, <2>3 DEF Ends, None, Resizes, Message
  <2>. QED  BY <1>0, <2>1, <2>4 DEF SizeInv
<1>7. CASE Sendnaws
  <2>1. PICK n \in (1 .. MaxSize) \ {window} : window' = n /\ toServer' = Append(toServer, Naws(n))
    BY <1>7 DEF Sendnaws, Answer
  <2>2. Naws(n) \in Resizes /\ Naws(n).size = n
    BY DEF Naws, Resizes, Message
  <2>3. Ends(toServer', server.size, n)
    BY <1>0, <2>1, <2>2, EndsOfAppend DEF Resizes
  <2>4. UNCHANGED <<server, child, pty, crossed>>
    BY <1>7 DEF Sendnaws
  <2>5. Ends(toServer, server.size, window)'
    BY <2>1, <2>3, <2>4 DEF Ends, None, Resizes, Message
  <2>. QED  BY <1>0, <2>4, <2>5 DEF SizeInv
<1>8. CASE UNCHANGED allVars
  <2>1. UNCHANGED <<toServer, window, server, child, pty, crossed>>
    BY <1>8 DEF allVars, clientVars
  <2>. QED  BY <1>0, <2>1, EndsKept DEF SizeInv
<1>. QED  BY <1>1, <1>2, <1>3, <1>4, <1>5, <1>6, <1>7, <1>8 DEF Next

\* When all sizes are delivered the pty has the client's, unless one came
\* between the fork and getptyslave().
THEOREM LoginWindowKept == Spec => []WindowKept
<1>1. Init => WindowInv
  BY InitWindow
<1>2. WindowInv /\ [Next]_allVars => WindowInv'
  BY StepWindow
<1>3. WindowInv => WindowKept
  <2>. SUFFICES ASSUME WindowInv, child.pc \notin {"none", "forked"},
                       \A i \in DOMAIN toServer : toServer[i].opt # "NAWS"
                PROVE  pty = window \/ crossed
    BY DEF WindowKept
  <2>1. server.size = window
    BY DEF WindowInv, SizeInv, Ends, None, Resizes
  <2>. QED  BY <2>1 DEF WindowInv, SizeInv
<1>. QED  BY <1>1, <1>2, <1>3, PTL DEF Spec
=============================================================================
