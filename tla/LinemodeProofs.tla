--------------------------- MODULE LinemodeProofs ---------------------------
(***************************************************************************)
(* Proofs about Linemode, for every set of functions, characters and edit  *)
(* modes: what was negotiated is in use, the modes follow the programs,    *)
(* and the ends agree about the characters.                                *)
(***************************************************************************)
EXTENDS Linemode, TLAPS

\* What a client may send: an SLC suboption of its own never speaks of the
\* default level of a character that has a place in the terminal.
FromClient ==
    {m \in Message :
        /\ m.kind = "slc" =>
              \A f \in DOMAIN m.settings : f \in Placed => m.settings[f].level # DEFAULT
        /\ m.kind = "all" => m.level \in {VARIABLE_, DEFAULT}}

\* What a server may send.
FromServer == {m \in Message : m.kind # "all"}

\* SLC suboptions of either.
ClientSlcs == {m \in FromClient : m.kind = "slc"}

ServerSlcs == {m \in FromServer : m.kind = "slc"}

\* What may wait for the first localstat().
Held == {m \in FromClient : m.kind # "mode"}

\* spc_data has nothing acknowledged that the terminal does not have.
ClientGood(c) ==
    /\ c \in ClientState
    /\ \A f \in Func :
        /\ c.spc[f].ack = FALSE
        /\ f \in Placed => c.spc[f].level # DEFAULT
        /\ HasValp(f) /\ f \notin c.unset => c.term[f] = c.spc[f].val

InUse(s) ==
    \A f \in Func : f \in Placed /\ s.current[f].level # NOSUPPORT
                      => s.tty.chars[f] = s.current[f].val

\* The pty has what slctab says unless a program has just changed it.
ServerGood(s) ==
    /\ s \in ServerState
    /\ s.deferred \in Seq(Held)
    /\ ~s.changed => InUse(s)

IndInv ==
    /\ ClientGood(client) /\ ServerGood(server)
    /\ toServer \in Seq(FromClient) /\ toClient \in Seq(FromServer)
    /\ budget \in BudgetRecord

-----------------------------------------------------------------------------
(* Messages.                                                               *)

LEMMA Levels ==
    /\ NOSUPPORT \in Level /\ VARIABLE_ \in Level /\ DEFAULT \in Level
    /\ NOSUPPORT # VARIABLE_ /\ NOSUPPORT # DEFAULT /\ VARIABLE_ # DEFAULT
    /\ DEFAULT > VARIABLE_ /\ VARIABLE_ > NOSUPPORT
BY DEF Level, NOSUPPORT, VARIABLE_, DEFAULT

LEMMA LevelsOrdered ==
    ASSUME NEW l \in Level
    PROVE  /\ l <= DEFAULT /\ (l <= VARIABLE_ <=> l # DEFAULT)
           /\ (l <= NOSUPPORT <=> l = NOSUPPORT)
           /\ l # NOSUPPORT /\ l # DEFAULT => l = VARIABLE_
BY DEF Level, NOSUPPORT, VARIABLE_, DEFAULT

LEMMA SetType ==
    ASSUME NEW val \in AnyChar, NEW level \in Level, NEW ack \in BOOLEAN
    PROVE  /\ Set(val, level, ack) \in Setting
           /\ Set(val, level, ack).val = val /\ Set(val, level, ack).level = level
           /\ Set(val, level, ack).ack = ack
BY DEF Set, Setting

LEMMA SettingFields ==
    ASSUME NEW t \in Setting
    PROVE  t.val \in AnyChar /\ t.level \in Level /\ t.ack \in BOOLEAN
BY DEF Setting

LEMMA SettingsMember ==
    ASSUME NEW fs \in SUBSET Func, NEW t \in [fs -> Setting]
    PROVE  t \in Settings
BY DEF Settings

LEMMA SettingsMembers ==
    ASSUME NEW t \in Settings
    PROVE  DOMAIN t \subseteq Func /\ \A f \in DOMAIN t : t[f] \in Setting
<1>1. PICK fs \in SUBSET Func : t \in [fs -> Setting]
  BY DEF Settings
<1>. QED  BY <1>1

LEMMA MessageFields ==
    ASSUME NEW m \in Message
    PROVE  /\ m.kind \in {"slc", "all", "mode"}
           /\ m.kind = "slc" => m.settings \in Settings
           /\ m.kind = "all" => m.level \in Level
           /\ m.kind = "mode" => m.modes \in SUBSET Bit /\ m.ack \in BOOLEAN
BY DEF Message

LEMMA AboutType ==
    ASSUME NEW m \in Message
    PROVE  About(m) \in SUBSET Func
BY MessageFields, SettingsMembers DEF About

LEMMA SlcMessage ==
    ASSUME NEW fs \in SUBSET Func, NEW table, \A f \in fs : table[f] \in Setting
    PROVE  /\ Slc([f \in fs |-> table[f]]) \in ServerSlcs
           /\ (\A f \in fs : f \in Placed => table[f].level # DEFAULT)
                => Slc([f \in fs |-> table[f]]) \in ClientSlcs
<1>. DEFINE t == [f \in fs |-> table[f]]
<1>1. t \in Settings
  BY SettingsMember
<1>2. Slc(t) \in Message /\ Slc(t).kind = "slc" /\ Slc(t).settings = t
  BY <1>1 DEF Slc, Message
<1>3. DOMAIN t = fs /\ \A f \in fs : t[f] = table[f]
  OBVIOUS
<1>. HIDE DEF t
<1>4. Slc(t) \in ServerSlcs
  BY <1>2 DEF FromServer, ServerSlcs
<1>5. (\A f \in fs : f \in Placed => table[f].level # DEFAULT) => Slc(t) \in ClientSlcs
  BY <1>2, <1>3 DEF FromClient, ClientSlcs
<1>. QED  BY <1>4, <1>5 DEF t

LEMMA ReportType ==
    ASSUME NEW fs \in SUBSET Func, NEW table, \A f \in fs : table[f] \in Setting
    PROVE  /\ Report(fs, table) \in Seq(ServerSlcs)
           /\ (\A f \in fs : f \in Placed => table[f].level # DEFAULT)
                => Report(fs, table) \in Seq(ClientSlcs)
<1>. DEFINE m == Slc([f \in fs |-> table[f]])
<1>1. m \in ServerSlcs
  BY SlcMessage
<1>2. (\A f \in fs : f \in Placed => table[f].level # DEFAULT) => m \in ClientSlcs
  BY SlcMessage
<1>3. Report(fs, table) = IF fs = {} THEN << >> ELSE <<m>>
  BY DEF Report
<1>. HIDE DEF m
<1>. QED  BY <1>1, <1>2, <1>3

LEMMA ModeType ==
    ASSUME NEW modes \in SUBSET Bit, NEW ack \in BOOLEAN
    PROVE  Mode(modes, ack) \in FromClient /\ Mode(modes, ack) \in FromServer
<1>1. Mode(modes, ack) \in Message /\ Mode(modes, ack).kind = "mode"
  BY DEF Mode, Message
<1>. QED  BY <1>1 DEF FromClient, FromServer

LEMMA AllType ==
    ASSUME NEW level \in {VARIABLE_, DEFAULT}
    PROVE  All(level) \in FromClient
<1>1. All(level) \in Message /\ All(level).kind = "all" /\ All(level).level = level
  BY Levels DEF All, Message
<1>. QED  BY <1>1 DEF FromClient

-----------------------------------------------------------------------------
(* The client.                                                             *)

LEMMA LevelForType ==
    ASSUME NEW val, NEW level \in Level
    PROVE  LevelFor(val, level) \in {NOSUPPORT, level} /\ LevelFor(val, level) \in Level
BY Levels DEF LevelFor

\* A character's own level.
LEMMA MyLevelType ==
    ASSUME NEW f \in Func
    PROVE  /\ MyLevel(f) \in Level
           /\ f \in Placed => MyLevel(f) # DEFAULT
           /\ HasValp(f) => MyLevel(f) = VARIABLE_ /\ f \in Placed
BY Levels DEF MyLevel, HasValp

\* What slc() makes of one character is acknowledged, or the value is kept.
LEMMA NewSettingGood ==
    ASSUME NEW f \in Func, NEW have \in Setting, have.ack = FALSE,
           f \in Placed => have.level # DEFAULT, NEW said \in Setting
    PROVE  /\ NewSetting(f, have, said) \in Setting
           /\ f \in Placed => NewSetting(f, have, said).level # DEFAULT
           /\ HasValp(f) => \/ NewSetting(f, have, said).ack = TRUE
                            \/ NewSetting(f, have, said).val = have.val
<1>. DEFINE own == IF MyLevel(f) = DEFAULT THEN NOSUPPORT ELSE MyLevel(f)
            taken == IF said.level <= MyLevel(f) THEN Set(said.val, said.level, TRUE) ELSE have
            made == NewSetting(f, have, said)
<1>1. /\ said.val \in AnyChar /\ said.level \in Level
      /\ have.val \in AnyChar /\ have.level \in Level
  BY SettingFields
<1>2. own \in Level /\ own # DEFAULT
  BY MyLevelType, Levels
<1>3. /\ taken \in Setting /\ taken.val \in AnyChar
      /\ said.level <= MyLevel(f)
           => taken.val = said.val /\ taken.level = said.level /\ taken.ack = TRUE
      /\ ~(said.level <= MyLevel(f)) => taken = have
  BY <1>1, SetType
<1>4. CASE Same(have, said)
  BY <1>4 DEF NewSetting, Acknowledges
<1>5. CASE Acknowledges(have, said)
  <2>1. NewSetting(f, have, said) = Set(said.val, said.level, said.level # DEFAULT)
    BY <1>5 DEF NewSetting, Acknowledges
  <2>2. said.level = have.level
    BY <1>5 DEF Acknowledges
  <2>3. Set(said.val, said.level, said.level # DEFAULT) \in Setting
    BY <1>1, SetType
  <2>4. /\ Set(said.val, said.level, said.level # DEFAULT).level = said.level
        /\ said.level # DEFAULT => Set(said.val, said.level, said.level # DEFAULT).ack = TRUE
    BY DEF Set
  <2>5. HasValp(f) => f \in Placed
    BY MyLevelType
  <2>. QED  BY <2>1, <2>2, <2>3, <2>4, <2>5
<1>6. CASE ~Same(have, said) /\ ~Acknowledges(have, said)
  <2>1. NewSetting(f, have, said)
          = IF said.level = DEFAULT THEN Set(taken.val, own, FALSE) ELSE taken
    BY <1>6 DEF NewSetting
  <2>2. CASE said.level = DEFAULT
    <3>1. NewSetting(f, have, said) = Set(taken.val, own, FALSE)
      BY <2>1, <2>2
    <3>2. /\ Set(taken.val, own, FALSE) \in Setting
          /\ Set(taken.val, own, FALSE).val = taken.val
          /\ Set(taken.val, own, FALSE).level = own
      BY <1>2, <1>3, SetType
    <3>3. HasValp(f) => ~(said.level <= MyLevel(f))
      BY <2>2, MyLevelType, Levels, LevelsOrdered, <1>1
    <3>. HIDE DEF own, taken, made
    <3>4. made \in Setting /\ made.level # DEFAULT /\ (HasValp(f) => made.val = have.val)
      BY <1>2, <1>3, <3>1, <3>2, <3>3 DEF made
    <3>. QED  BY <3>4 DEF made
  <2>3. CASE said.level # DEFAULT
    <3>1. NewSetting(f, have, said) = taken
      BY <2>1, <2>3
    <3>2. f \in Placed => taken.level # DEFAULT
      BY <1>3, <2>3
    <3>3. taken.ack = TRUE \/ taken.val = have.val
      BY <1>3
    <3>. QED  BY <1>3, <3>1, <3>2, <3>3
  <2>. QED  BY <2>2, <2>3
<1>. QED  BY <1>4, <1>5, <1>6 DEF Acknowledges

LEMMA ClientFields ==
    ASSUME NEW c \in ClientState
    PROVE  /\ c.spc \in [Func -> Setting] /\ c.term \in [Func -> AnyChar]
           /\ c.linemode \in SUBSET Bit /\ c.unset \in SUBSET Func /\ c.moded \in BOOLEAN
BY DEF ClientState

\* slc_update()
LEMMA UpdatedGood ==
    ASSUME NEW c \in ClientState,
           \A f \in Func :
               /\ f \in Placed => c.spc[f].level # DEFAULT
               /\ HasValp(f) /\ f \notin c.unset
                    => c.spc[f].ack = TRUE \/ c.term[f] = c.spc[f].val
    PROVE  ClientGood(Updated(c))
<1>. DEFINE spc == [f \in Func |-> [c.spc[f] EXCEPT !.ack = FALSE]]
            term == [f \in Func |-> IF c.spc[f].ack /\ HasValp(f) THEN c.spc[f].val ELSE c.term[f]]
            unset == {f \in c.unset : ~c.spc[f].ack}
<1>1. \A f \in Func : /\ spc[f] \in Setting /\ spc[f].ack = FALSE
                      /\ spc[f].val = c.spc[f].val /\ spc[f].level = c.spc[f].level
  BY DEF ClientState, Setting
<1>2. spc \in [Func -> Setting]
  BY <1>1
<1>3. term \in [Func -> AnyChar] /\ unset \in SUBSET Func
  BY ClientFields, SettingFields
<1>4. Updated(c) = [c EXCEPT !.spc = spc, !.term = term, !.unset = unset]
  BY DEF Updated
<1>5. \A f \in Func : HasValp(f) /\ f \notin unset => term[f] = spc[f].val
  <2>. SUFFICES ASSUME NEW f \in Func, HasValp(f), f \notin unset
                PROVE  term[f] = spc[f].val
    OBVIOUS
  <2>1. c.spc[f].ack \in BOOLEAN
    BY DEF ClientState, Setting
  <2>2. CASE c.spc[f].ack
    BY <2>2, <1>1
  <2>3. CASE ~c.spc[f].ack
    BY <2>1, <2>3, <1>1
  <2>. QED  BY <2>2, <2>3
<1>. HIDE DEF spc, term, unset
<1>6. Updated(c) \in ClientState
  BY <1>2, <1>3, <1>4 DEF ClientState
<1>7. Updated(c).spc = spc /\ Updated(c).term = term /\ Updated(c).unset = unset
  BY <1>4 DEF ClientState
<1>. QED  BY <1>1, <1>5, <1>6, <1>7 DEF ClientGood

LEMMA ClientSlcGood ==
    ASSUME NEW c, ClientGood(c), NEW settings \in Settings
    PROVE  /\ ClientGood(ClientSlc(c, settings).c)
           /\ ClientSlc(c, settings).out \in Seq(ClientSlcs)
<1>. DEFINE spc == [f \in Func |-> IF f \in DOMAIN settings
                                   THEN NewSetting(f, c.spc[f], settings[f]) ELSE c.spc[f]]
            fs == {f \in DOMAIN settings : Answered(c.spc[f], settings[f])}
<1>1. c \in ClientState /\ c.spc \in [Func -> Setting]
  BY ClientFields DEF ClientGood
<1>2. \A f \in Func : /\ spc[f] \in Setting
                      /\ f \in Placed => spc[f].level # DEFAULT
                      /\ HasValp(f) => spc[f].ack = TRUE \/ spc[f].val = c.spc[f].val
  <2>. TAKE f \in Func
  <2>1. c.spc[f] \in Setting /\ c.spc[f].ack = FALSE /\ (f \in Placed => c.spc[f].level # DEFAULT)
    BY <1>1 DEF ClientGood
  <2>2. CASE f \in DOMAIN settings
    BY <2>1, <2>2, SettingsMembers, NewSettingGood
  <2>3. CASE f \notin DOMAIN settings
    BY <2>1, <2>3
  <2>. QED  BY <2>2, <2>3
<1>3. spc \in [Func -> Setting] /\ fs \in SUBSET Func
  BY <1>2, SettingsMembers
<1>4. /\ ClientSlc(c, settings).c = Updated([c EXCEPT !.spc = spc])
      /\ ClientSlc(c, settings).out = Report(fs, spc)
  BY DEF ClientSlc
<1>. HIDE DEF spc, fs
<1>5. /\ [c EXCEPT !.spc = spc] \in ClientState
      /\ [c EXCEPT !.spc = spc].spc = spc /\ [c EXCEPT !.spc = spc].term = c.term
      /\ [c EXCEPT !.spc = spc].unset = c.unset
  BY <1>1, <1>3 DEF ClientState
<1>6. \A f \in Func : HasValp(f) /\ f \notin c.unset
                        => spc[f].ack = TRUE \/ c.term[f] = spc[f].val
  BY <1>2 DEF ClientGood
<1>7. ClientGood(Updated([c EXCEPT !.spc = spc]))
  BY <1>2, <1>5, <1>6, UpdatedGood
<1>8. Report(fs, spc) \in Seq(ClientSlcs)
  BY <1>2, <1>3, ReportType
<1>. QED  BY <1>4, <1>7, <1>8

\* slc_export()
LEMMA ExportedGood ==
    ASSUME NEW c \in ClientState,
           \A f \in Func : c.spc[f].ack = FALSE /\ (f \in Placed => c.spc[f].level # DEFAULT)
    PROVE  ClientGood(Exported(c).c) /\ Exported(c).out \in Seq(ClientSlcs)
<1>. DEFINE known == {f \in Func : MyLevel(f) # NOSUPPORT}
            own(f) == Set(IF HasValp(f) THEN DefaultChars[f] ELSE c.spc[f].val,
                          LevelFor(c.spc[f].val, MyLevel(f)), FALSE)
            spc == [f \in Func |-> IF f \notin known THEN c.spc[f] ELSE own(f)]
<1>1. /\ Exported(c).c = [c EXCEPT !.term = DefaultChars, !.spc = spc, !.unset = {}]
      /\ Exported(c).out = Report(known, spc)
  BY DEF Exported
<1>2. DefaultChars \in [Func -> AnyChar]
  BY DEF DefaultChars, AnyChar
<1>3. \A f \in Func : /\ spc[f] \in Setting /\ spc[f].ack = FALSE
                      /\ f \in Placed => spc[f].level # DEFAULT
                      /\ HasValp(f) => spc[f].val = DefaultChars[f]
  <2>. TAKE f \in Func
  <2>1. c.spc[f] \in Setting /\ c.spc[f].val \in AnyChar
    BY ClientFields, SettingFields
  <2>2. CASE f \notin known
    <3>1. ~HasValp(f)
      BY <2>2, MyLevelType, Levels
    <3>. QED  BY <2>1, <2>2, <3>1
  <2>3. CASE f \in known
    <3>1. LevelFor(c.spc[f].val, MyLevel(f)) \in Level
          /\ LevelFor(c.spc[f].val, MyLevel(f)) \in {NOSUPPORT, MyLevel(f)}
      BY MyLevelType, LevelForType
    <3>2. (IF HasValp(f) THEN DefaultChars[f] ELSE c.spc[f].val) \in AnyChar
      BY <1>2, <2>1
    <3>3. /\ own(f) \in Setting /\ own(f).ack = FALSE
          /\ own(f).val = IF HasValp(f) THEN DefaultChars[f] ELSE c.spc[f].val
          /\ own(f).level = LevelFor(c.spc[f].val, MyLevel(f))
      BY <3>1, <3>2, SetType
    <3>4. spc[f] = own(f)
      BY <2>3
    <3>. HIDE DEF own, spc
    <3>. QED  BY <3>1, <3>3, <3>4, MyLevelType, Levels
  <2>. QED  BY <2>2, <2>3
<1>4. spc \in [Func -> Setting] /\ known \in SUBSET Func
  BY <1>3
<1>. HIDE DEF spc, known
<1>5. /\ Exported(c).c \in ClientState
      /\ Exported(c).c.spc = spc /\ Exported(c).c.term = DefaultChars
  BY <1>1, <1>2, <1>4 DEF ClientState
<1>6. Exported(c).out \in Seq(ClientSlcs)
  BY <1>1, <1>3, <1>4, ReportType
<1>. QED  BY <1>3, <1>5, <1>6 DEF ClientGood

\* slc_check()
LEMMA CheckedGood ==
    ASSUME NEW c \in ClientState,
           \A f \in Func : c.spc[f].ack = FALSE /\ (f \in Placed => c.spc[f].level # DEFAULT)
    PROVE  ClientGood(Checked(c).c) /\ Checked(c).out \in Seq(ClientSlcs)
<1>. DEFINE changed == {f \in Func : HasValp(f) /\ c.spc[f].val # c.term[f]}
            own(f) == Set(c.term[f], LevelFor(c.term[f], MyLevel(f)), FALSE)
            spc == [f \in Func |-> IF f \in changed THEN own(f) ELSE c.spc[f]]
<1>1. /\ Checked(c).c = [c EXCEPT !.spc = spc, !.unset = c.unset \ changed]
      /\ Checked(c).out = Report(changed, spc)
  BY DEF Checked
<1>2. \A f \in Func : /\ spc[f] \in Setting /\ spc[f].ack = FALSE
                      /\ f \in Placed => spc[f].level # DEFAULT
                      /\ HasValp(f) => spc[f].val = c.term[f]
  <2>. TAKE f \in Func
  <2>1. c.spc[f] \in Setting /\ c.term[f] \in AnyChar
    BY ClientFields
  <2>2. CASE f \notin changed
    BY <2>1, <2>2
  <2>3. CASE f \in changed
    <3>1. LevelFor(c.term[f], MyLevel(f)) \in Level
          /\ LevelFor(c.term[f], MyLevel(f)) \in {NOSUPPORT, MyLevel(f)}
      BY MyLevelType, LevelForType
    <3>2. /\ own(f) \in Setting /\ own(f).ack = FALSE /\ own(f).val = c.term[f]
          /\ own(f).level = LevelFor(c.term[f], MyLevel(f))
      BY <2>1, <3>1, SetType
    <3>3. spc[f] = own(f)
      BY <2>3
    <3>. HIDE DEF own, spc
    <3>. QED  BY <3>1, <3>2, <3>3, MyLevelType, Levels
  <2>. QED  BY <2>2, <2>3
<1>3. spc \in [Func -> Setting] /\ changed \in SUBSET Func
  BY <1>2
<1>. HIDE DEF spc, changed
<1>4. c.unset \ changed \in SUBSET Func
  BY ClientFields
<1>5. /\ Checked(c).c \in ClientState
      /\ Checked(c).c.spc = spc /\ Checked(c).c.term = c.term
  BY <1>1, <1>3, <1>4 DEF ClientState
<1>6. Checked(c).out \in Seq(ClientSlcs)
  BY <1>1, <1>2, <1>3, ReportType
<1>. QED  BY <1>2, <1>5, <1>6 DEF ClientGood

\* lm_mode()
LEMMA ClientModeGood ==
    ASSUME NEW c, ClientGood(c), NEW modes \in SUBSET Bit, NEW ack \in BOOLEAN,
           NEW init \in BOOLEAN
    PROVE  /\ ClientGood(ClientMode(c, modes, ack, init).c)
           /\ ClientMode(c, modes, ack, init).out \in Seq(FromClient)
<1>1. CASE ack \/ modes = c.linemode
  BY <1>1 DEF ClientMode
<1>2. CASE ~(ack \/ modes = c.linemode)
  <2>1. /\ ClientMode(c, modes, ack, init).c = [c EXCEPT !.linemode = modes]
        /\ ClientMode(c, modes, ack, init).out = <<Mode(modes, ~init)>>
    BY <1>2 DEF ClientMode
  <2>2. ClientGood([c EXCEPT !.linemode = modes])
    BY DEF ClientGood, ClientState
  <2>3. Mode(modes, ~init) \in FromClient
    BY ModeType
  <2>. QED  BY <2>1, <2>2, <2>3
<1>. QED  BY <1>1, <1>2

\* The SLC functions leave the edit modes alone.
LEMMA ClientKeepsModes ==
    ASSUME NEW c \in ClientState, NEW settings
    PROVE  /\ ClientSlc(c, settings).c.linemode = c.linemode
           /\ ClientSlc(c, settings).c.moded = c.moded
           /\ Exported(c).c.linemode = c.linemode /\ Exported(c).c.moded = c.moded
           /\ Checked(c).c.linemode = c.linemode /\ Checked(c).c.moded = c.moded
BY DEF ClientSlc, Updated, Exported, Checked, ClientState

-----------------------------------------------------------------------------
(* The server.                                                             *)

LEMMA ServerFields ==
    ASSUME NEW s \in ServerState
    PROVE  /\ s.tty.chars \in [Func -> AnyChar] /\ s.tty.modes \in SUBSET Bit
           /\ s.current \in [Func -> Setting] /\ s.editmode \in SUBSET Bit
           /\ s.terminit \in BOOLEAN /\ s.changed \in BOOLEAN /\ s.stty \in SUBSET Bit
           /\ s.deferred \in Seq(Message) /\ s.dumped \in SUBSET Func
BY DEF ServerState

\* What is said changes only dumped.
LEMMA SpokenIs ==
    ASSUME NEW r, r.s \in ServerState
    PROVE  /\ Spoken(r) \in ServerState
           /\ Spoken(r).tty = r.s.tty /\ Spoken(r).current = r.s.current
           /\ Spoken(r).editmode = r.s.editmode /\ Spoken(r).terminit = r.s.terminit
           /\ Spoken(r).deferred = r.s.deferred /\ Spoken(r).changed = r.s.changed
           /\ Spoken(r).stty = r.s.stty
           /\ Spoken(r).dumped = r.s.dumped \ UNION {About(r.out[i]) : i \in DOMAIN r.out}
<1>. DEFINE t == r.s
            said == UNION {About(r.out[i]) : i \in DOMAIN r.out}
<1>1. Spoken(r) = [t EXCEPT !.dumped = t.dumped \ said] /\ t \in ServerState
  BY DEF Spoken
<1>. HIDE DEF t, said
<1>2. t.dumped \ said \in SUBSET Func
  BY <1>1, ServerFields
<1>3. /\ Spoken(r) \in ServerState
      /\ Spoken(r).tty = t.tty /\ Spoken(r).current = t.current
      /\ Spoken(r).editmode = t.editmode /\ Spoken(r).terminit = t.terminit
      /\ Spoken(r).deferred = t.deferred /\ Spoken(r).changed = t.changed
      /\ Spoken(r).stty = t.stty /\ Spoken(r).dumped = t.dumped \ said
  BY <1>1, <1>2 DEF ServerState
<1>. QED  BY <1>3 DEF t, said

LEMMA SpokenGood ==
    ASSUME NEW r, ServerGood(r.s)
    PROVE  ServerGood(Spoken(r))
<1>1. r.s \in ServerState
  BY DEF ServerGood
<1>. QED  BY <1>1, SpokenIs DEF ServerGood, InUse

LEMMA DefaultsType ==
    ASSUME NEW f \in Func
    PROVE  /\ DefLevel(f) \in Level /\ DefVal(f) \in AnyChar
           /\ LevelFor(DefVal(f), DefLevel(f)) \in Level
           /\ f \in Placed => DefLevel(f) = VARIABLE_
BY Levels, LevelForType DEF DefLevel, DefVal, AnyChar

\* default_slc()
LEMMA DefaultSlcGood ==
    ASSUME NEW s \in ServerState
    PROVE  LET t == DefaultSlc(s)
           IN  /\ t \in ServerState /\ InUse(t)
               /\ t.tty.modes = s.tty.modes /\ t.editmode = s.editmode
               /\ t.deferred = s.deferred /\ t.changed = s.changed /\ t.stty = s.stty
               /\ t.terminit = s.terminit /\ t.dumped = s.dumped
<1>. DEFINE default(f) == Set(DefVal(f), LevelFor(DefVal(f), DefLevel(f)), FALSE)
            current == [f \in Func |-> default(f)]
            chars == [f \in Func |-> DefVal(f)]
<1>1. \A f \in Func : default(f) \in Setting /\ default(f).val = DefVal(f)
  BY DefaultsType, SetType
<1>. HIDE DEF default
<1>2. current \in [Func -> Setting] /\ chars \in [Func -> AnyChar]
  BY <1>1, DefaultsType
<1>3. DefaultSlc(s) = [s EXCEPT !.current = current, !.tty.chars = chars]
  BY DEF DefaultSlc, default
<1>4. \A f \in Func : current[f].val = chars[f]
  BY <1>1
<1>. HIDE DEF current, chars
<1>. DEFINE t == DefaultSlc(s)
<1>5. /\ t \in ServerState /\ t.current = current /\ t.tty.chars = chars
      /\ t.tty.modes = s.tty.modes /\ t.editmode = s.editmode
      /\ t.deferred = s.deferred /\ t.changed = s.changed /\ t.stty = s.stty
      /\ t.terminit = s.terminit /\ t.dumped = s.dumped
  <2>. DEFINE tty == [s.tty EXCEPT !.chars = chars]
  <2>1. tty \in [chars : [Func -> AnyChar], modes : SUBSET Bit]
        /\ tty.chars = chars /\ tty.modes = s.tty.modes
    BY <1>2 DEF ServerState
  <2>2. t = [s EXCEPT !.current = current, !.tty = tty]
    BY <1>3 DEF ServerState
  <2>. HIDE DEF t, tty
  <2>. QED  BY <1>2, <2>1, <2>2 DEF ServerState
<1>. HIDE DEF t
<1>6. InUse(t)
  BY <1>4, <1>5 DEF InUse
<1>. QED  BY <1>5, <1>6 DEF t

\* change_slc(): what becomes of one character.
LEMMA ChangeSlcGood ==
    ASSUME NEW f \in Func, NEW said \in Setting, f \in Placed => said.level # DEFAULT,
           NEW char \in AnyChar
    PROVE  LET r == ChangeSlc(f, said, char)
           IN  /\ r.new \in Setting /\ r.answer \in Setting /\ r.char \in AnyChar
               /\ f \in Placed => r.new.level = NOSUPPORT \/ r.char = r.new.val
<1>. DEFINE own == IF DefLevel(f) = DEFAULT THEN NOSUPPORT ELSE DefLevel(f)
            default == Set(DefVal(f), own, FALSE)
            accepted == Set(said.val, said.level, TRUE)
            none == Set(VDISABLE, NOSUPPORT, FALSE)
<1>1. said.val \in AnyChar /\ said.level \in Level /\ own \in Level /\ DefVal(f) \in AnyChar
  BY SettingFields, DefaultsType, Levels
<1>2. VDISABLE \in AnyChar
  BY DEF AnyChar
<1>3. /\ default \in Setting /\ accepted \in Setting
      /\ none \in Setting /\ none.level = NOSUPPORT
  BY <1>1, <1>2, SetType, Levels
<1>. HIDE DEF own, default, accepted, none
<1>4. CASE said.level = NOSUPPORT
  <2>1. ChangeSlc(f, said, char) = [new |-> none, answer |-> accepted, char |-> char]
    BY <1>4, Levels DEF ChangeSlc, accepted, none
  <2>. QED  BY <1>3, <2>1
<1>5. CASE said.level = DEFAULT
  <2>1. ChangeSlc(f, said, char) = [new |-> default, answer |-> default, char |-> char]
    BY <1>5, Levels DEF ChangeSlc, default, own
  <2>. QED  BY <1>3, <1>5, <2>1
<1>6. CASE said.level = VARIABLE_
  <2>1. ChangeSlc(f, said, char)
          = [new |-> said, answer |-> accepted, char |-> IF f \in Placed THEN said.val ELSE char]
    BY <1>6, Levels DEF ChangeSlc, accepted
  <2>. QED  BY <1>1, <1>3, <2>1
<1>7. said.level \in {NOSUPPORT, VARIABLE_, DEFAULT}
  BY <1>1 DEF Level
<1>. QED  BY <1>4, <1>5, <1>6, <1>7

\* What an SLC suboption does not touch.
Keeps(s, t) ==
    /\ t.tty.modes = s.tty.modes /\ t.editmode = s.editmode
    /\ t.deferred = s.deferred /\ t.changed = s.changed /\ t.stty = s.stty
    /\ t.terminit = s.terminit /\ t.dumped = s.dumped

LEMMA ProcessedSlcs ==
    ASSUME NEW s \in ServerState, NEW m \in FromClient, m.kind = "slc"
    PROVE  /\ ProcessSlc(s, m).s \in ServerState /\ Keeps(s, ProcessSlc(s, m).s)
           /\ ProcessSlc(s, m).out \in Seq(ServerSlcs)
           /\ InUse(s) => InUse(ProcessSlc(s, m).s)
<1>. DEFINE change == [f \in {g \in DOMAIN m.settings : ~Ignored(s.current[g], m.settings[g])} |->
                          ChangeSlc(f, m.settings[f], s.tty.chars[f])]
            changed == DOMAIN change
            current == [f \in Func |-> IF f \in changed THEN change[f].new ELSE s.current[f]]
            chars == [f \in Func |-> IF f \in changed THEN change[f].char ELSE s.tty.chars[f]]
            answers == [f \in changed |-> change[f].answer]
            t == ProcessSlc(s, m).s
<1>1. m \in Message /\ m.settings \in Settings /\ changed \in SUBSET Func
  BY MessageFields, SettingsMembers DEF FromClient
<1>2. \A f \in changed :
         /\ f \in Func
         /\ change[f].new \in Setting /\ change[f].answer \in Setting
         /\ change[f].char \in AnyChar
         /\ f \in Placed => change[f].new.level = NOSUPPORT \/ change[f].char = change[f].new.val
  <2>. TAKE f \in changed
  <2>1. f \in Func /\ f \in DOMAIN m.settings /\ m.settings[f] \in Setting
    BY <1>1, SettingsMembers
  <2>2. f \in Placed => m.settings[f].level # DEFAULT
    BY <2>1 DEF FromClient
  <2>3. s.tty.chars[f] \in AnyChar
    BY <2>1, ServerFields
  <2>4. change[f] = ChangeSlc(f, m.settings[f], s.tty.chars[f])
    OBVIOUS
  <2>. QED  BY <2>1, <2>2, <2>3, <2>4, ChangeSlcGood
<1>3. /\ t = [s EXCEPT !.current = current, !.tty.chars = chars]
      /\ ProcessSlc(s, m).out = Report(changed, answers)
  <2>1. /\ ~(m.kind = "all" /\ m.level = DEFAULT) /\ ~(m.kind = "all" /\ m.level = VARIABLE_)
    OBVIOUS
  <2>. QED  BY <2>1 DEF ProcessSlc
<1>. HIDE DEF change, changed, t
<1>4. current \in [Func -> Setting] /\ chars \in [Func -> AnyChar]
  BY <1>2, ServerFields
<1>5. \A f \in changed : answers[f] \in Setting
  BY <1>2
<1>6. Report(changed, answers) \in Seq(ServerSlcs)
  BY <1>1, <1>5, ReportType
<1>7. \A f \in Func :
         /\ f \in changed => current[f] = change[f].new /\ chars[f] = change[f].char
         /\ f \notin changed => current[f] = s.current[f] /\ chars[f] = s.tty.chars[f]
  OBVIOUS
<1>. HIDE DEF current, chars, answers
<1>8. /\ t \in ServerState /\ t.current = current /\ t.tty.chars = chars
      /\ Keeps(s, t)
  BY <1>3, <1>4 DEF ServerState, Keeps
<1>9. ASSUME InUse(s)  PROVE InUse(t)
  <2>. SUFFICES ASSUME NEW f \in Func, f \in Placed, current[f].level # NOSUPPORT
                PROVE  chars[f] = current[f].val
    BY <1>8 DEF InUse
  <2>1. CASE f \in changed
    BY <2>1, <1>2, <1>7
  <2>2. CASE f \notin changed
    BY <2>2, <1>7, <1>9 DEF InUse
  <2>. QED  BY <2>1, <2>2
<1>. QED  BY <1>3, <1>6, <1>8, <1>9 DEF t

\* process_slc()
LEMMA ProcessSlcGood ==
    ASSUME NEW s \in ServerState, NEW m \in FromClient, m.kind # "mode"
    PROVE  /\ ProcessSlc(s, m).s \in ServerState /\ Keeps(s, ProcessSlc(s, m).s)
           /\ ProcessSlc(s, m).out \in Seq(ServerSlcs)
           /\ InUse(s) => InUse(ProcessSlc(s, m).s)
<1>1. m.kind \in {"slc", "all"} /\ (m.kind = "all" => m.level \in {VARIABLE_, DEFAULT})
  BY MessageFields DEF FromClient
<1>2. CASE m.kind = "slc"
  BY <1>2, ProcessedSlcs
<1>3. CASE m.kind = "all" /\ m.level = DEFAULT
  <2>1. /\ ProcessSlc(s, m).s = DefaultSlc(s)
        /\ ProcessSlc(s, m).out = Report(Func, DefaultSlc(s).current)
    BY <1>3, Levels DEF ProcessSlc
  <2>2. DefaultSlc(s) \in ServerState /\ InUse(DefaultSlc(s)) /\ Keeps(s, DefaultSlc(s))
    BY DefaultSlcGood DEF Keeps
  <2>3. \A f \in Func : DefaultSlc(s).current[f] \in Setting
    BY <2>2, ServerFields
  <2>4. Report(Func, DefaultSlc(s).current) \in Seq(ServerSlcs)
    BY <2>3, ReportType
  <2>. QED  BY <2>1, <2>2, <2>4
<1>4. CASE m.kind = "all" /\ m.level = VARIABLE_
  <2>1. ProcessSlc(s, m).s = s /\ ProcessSlc(s, m).out = Report(Func, s.current)
    BY <1>4, Levels DEF ProcessSlc
  <2>2. \A f \in Func : s.current[f] \in Setting
    BY ServerFields
  <2>3. Report(Func, s.current) \in Seq(ServerSlcs)
    BY <2>2, ReportType
  <2>. QED  BY <2>1, <2>3 DEF Keeps
<1>. QED  BY <1>1, <1>2, <1>3, <1>4

\* check_slc()
LEMMA CheckSlcGood ==
    ASSUME NEW s \in ServerState
    PROVE  /\ CheckSlc(s).s \in ServerState /\ Keeps(s, CheckSlc(s).s) /\ InUse(CheckSlc(s).s)
           /\ CheckSlc(s).out \in Seq(ServerSlcs)
<1>. DEFINE changed == {f \in Func : f \in Placed /\ s.tty.chars[f] # s.current[f].val}
            own(f) == Set(s.tty.chars[f], LevelFor(s.tty.chars[f], DefLevel(f)), FALSE)
            current == [f \in Func |-> IF f \in changed THEN own(f) ELSE s.current[f]]
            t == CheckSlc(s).s
<1>1. t = [s EXCEPT !.current = current] /\ CheckSlc(s).out = Report(changed, current)
  BY DEF CheckSlc
<1>2. \A f \in Func : own(f) \in Setting /\ own(f).val = s.tty.chars[f]
  BY ServerFields, DefaultsType, LevelForType, SetType
<1>. HIDE DEF own, t
<1>3. \A f \in Func : current[f] \in Setting /\ (f \in Placed => current[f].val = s.tty.chars[f])
  BY <1>2, ServerFields
<1>4. current \in [Func -> Setting] /\ changed \in SUBSET Func
  BY <1>3
<1>. HIDE DEF changed, current
<1>5. /\ t \in ServerState /\ t.current = current /\ t.tty = s.tty /\ Keeps(s, t)
  BY <1>1, <1>4 DEF ServerState, Keeps
<1>6. InUse(t)
  BY <1>3, <1>5 DEF InUse
<1>7. Report(changed, current) \in Seq(ServerSlcs)
  BY <1>3, <1>4, ReportType
<1>. QED  BY <1>1, <1>5, <1>6, <1>7 DEF t

LEMMA HeldTypes ==
    ASSUME NEW d \in Seq(Held), d # << >>
    PROVE  /\ Head(d) \in FromClient /\ Head(d).kind # "mode"
BY DEF Held

\* deferslc()
LEMMA DeferSlcGood ==
    ASSUME NEW s \in ServerState, s.deferred \in Seq(Held)
    PROVE  /\ DeferSlc(s).s \in ServerState /\ DeferSlc(s).s.deferred \in Seq(Held)
           /\ DeferSlc(s).s.tty.modes = s.tty.modes /\ DeferSlc(s).s.editmode = s.editmode
           /\ DeferSlc(s).s.changed = s.changed /\ DeferSlc(s).s.stty = s.stty
           /\ DeferSlc(s).out \in Seq(ServerSlcs)
           /\ InUse(s) => InUse(DeferSlc(s).s)
<1>1. CASE s.deferred = << >>
  <2>1. DeferSlc(s).s = s /\ DeferSlc(s).out = << >>
    BY <1>1 DEF DeferSlc
  <2>. QED  BY <2>1
<1>2. CASE s.deferred # << >>
  <2>. DEFINE d == [s EXCEPT !.deferred = << >>]
              m == Head(s.deferred)
  <2>1. /\ d \in ServerState /\ d.deferred = << >> /\ d.tty = s.tty /\ d.editmode = s.editmode
        /\ d.changed = s.changed /\ d.stty = s.stty /\ d.current = s.current
    <3>1. << >> \in Seq(Message)
      OBVIOUS
    <3>. QED  BY <3>1 DEF ServerState
  <2>2. m \in FromClient /\ m.kind # "mode"
    BY <1>2, HeldTypes
  <2>3. DeferSlc(s) = ProcessSlc(d, m)
    BY <1>2 DEF DeferSlc
  <2>4. InUse(s) => InUse(d)
    BY <2>1 DEF InUse
  <2>. HIDE DEF d, m
  <2>5. /\ ProcessSlc(d, m).s \in ServerState /\ Keeps(d, ProcessSlc(d, m).s)
        /\ ProcessSlc(d, m).out \in Seq(ServerSlcs)
        /\ InUse(d) => InUse(ProcessSlc(d, m).s)
    BY <2>1, <2>2, ProcessSlcGood
  <2>. QED  BY <2>1, <2>3, <2>4, <2>5 DEF Keeps
<1>. QED  BY <1>1, <1>2

\* What localstat() says of the modes.
ModesNews(s) == IF s.tty.modes = s.editmode THEN << >> ELSE <<Mode(s.tty.modes, FALSE)>>

LEMMA ModesNewsType ==
    ASSUME NEW s \in ServerState
    PROVE  ModesNews(s) \in Seq(FromServer)
<1>. DEFINE m == Mode(s.tty.modes, FALSE)
<1>1. m \in FromServer
  BY ServerFields, ModeType
<1>2. ModesNews(s) = IF s.tty.modes = s.editmode THEN << >> ELSE <<m>>
  BY DEF ModesNews
<1>. HIDE DEF m
<1>. QED  BY <1>1, <1>2

LEMMA LocalstatGood ==
    ASSUME NEW s \in ServerState, s.deferred \in Seq(Held)
    PROVE  /\ Localstat(s).s \in ServerState /\ Localstat(s).s.deferred \in Seq(Held)
           /\ Localstat(s).s.changed = FALSE /\ InUse(Localstat(s).s)
           /\ Localstat(s).s.editmode = s.tty.modes /\ Localstat(s).s.tty.modes = s.tty.modes
           /\ Localstat(s).s.stty = s.stty
           /\ \E one, two \in Seq(ServerSlcs) : Localstat(s).out = ModesNews(s) \o one \o two
<1>. DEFINE e == [s EXCEPT !.editmode = s.tty.modes, !.changed = FALSE]
            c == CheckSlc(e)
            f == [c.s EXCEPT !.terminit = TRUE]
            d == DeferSlc(f)
            first == IF s.deferred = << >> THEN c.out ELSE << >>
<1>1. Localstat(s).s = d.s /\ Localstat(s).out = ModesNews(s) \o first \o d.out
  BY DEF Localstat, ModesNews
<1>2. /\ e \in ServerState /\ e.tty = s.tty /\ e.editmode = s.tty.modes
      /\ e.changed = FALSE /\ e.deferred = s.deferred /\ e.stty = s.stty
  BY ServerFields DEF ServerState
<1>. HIDE DEF e
<1>3. /\ c.s \in ServerState /\ Keeps(e, c.s) /\ InUse(c.s) /\ c.out \in Seq(ServerSlcs)
  BY <1>2, CheckSlcGood
<1>. HIDE DEF c
<1>4. /\ f \in ServerState /\ f.tty = c.s.tty /\ f.editmode = c.s.editmode
      /\ f.changed = c.s.changed /\ f.deferred = c.s.deferred /\ f.stty = c.s.stty
      /\ f.current = c.s.current
  BY <1>3 DEF ServerState
<1>. HIDE DEF f
<1>5. f.deferred \in Seq(Held) /\ InUse(f)
  BY <1>2, <1>3, <1>4 DEF InUse, Keeps
<1>6. /\ d.s \in ServerState /\ d.s.deferred \in Seq(Held)
      /\ d.s.tty.modes = f.tty.modes /\ d.s.editmode = f.editmode
      /\ d.s.changed = f.changed /\ d.s.stty = f.stty
      /\ d.out \in Seq(ServerSlcs) /\ InUse(d.s)
  BY <1>4, <1>5, DeferSlcGood
<1>. HIDE DEF d
<1>7. first \in Seq(ServerSlcs)
  BY <1>3
<1>. HIDE DEF first
<1>. QED  BY <1>1, <1>2, <1>3, <1>4, <1>6, <1>7 DEF Keeps

\* Sequences of SLC suboptions are sequences of messages.
LEMMA Wider ==
    /\ \A s \in Seq(ServerSlcs) : s \in Seq(FromServer)
    /\ \A s \in Seq(ClientSlcs) : s \in Seq(FromClient)
BY DEF ServerSlcs, ClientSlcs

LEMMA LocalstatSends ==
    ASSUME NEW s \in ServerState, s.deferred \in Seq(Held)
    PROVE  Localstat(s).out \in Seq(FromServer)
<1>1. PICK one, two \in Seq(ServerSlcs) : Localstat(s).out = ModesNews(s) \o one \o two
  BY LocalstatGood
<1>2. one \in Seq(FromServer) /\ two \in Seq(FromServer)
  BY Wider
<1>. QED  BY <1>1, <1>2, ModesNewsType

\* clientstat(LM_MODE)
LEMMA ServerModeGood ==
    ASSUME NEW s, ServerGood(s), NEW m \in FromClient, m.kind = "mode"
    PROVE  ServerGood(ServerMode(s, m).s) /\ ServerMode(s, m).out \in Seq(FromServer)
<1>1. m.modes \in SUBSET Bit /\ m.ack \in BOOLEAN
  BY MessageFields DEF FromClient
<1>2. s \in ServerState /\ s.deferred \in Seq(Held)
  BY DEF ServerGood
<1>. DEFINE changed == SymDiff(m.modes, s.editmode)
            l == IF m.ack THEN Localstat(s) ELSE [s |-> s, out |-> << >>]
            use == IF m.ack THEN s.tty.modes ELSE m.modes
            modes == (s.tty.modes \ changed) \cup (use \cap changed)
            reply == IF m.ack THEN << >> ELSE <<Mode(use, TRUE)>>
<1>3. CASE changed = {}
  <2>1. ServerMode(s, m).s = s /\ ServerMode(s, m).out = << >>
    BY <1>3 DEF ServerMode
  <2>. QED  BY <2>1
<1>4. CASE changed # {}
  <2>1. /\ ServerMode(s, m).s = [l.s EXCEPT !.tty.modes = modes, !.editmode = use]
        /\ ServerMode(s, m).out = l.out \o reply
    BY <1>4 DEF ServerMode
  <2>2. ServerGood(l.s) /\ l.out \in Seq(FromServer)
    <3>1. CASE m.ack
      BY <1>2, <3>1, LocalstatGood, LocalstatSends DEF ServerGood
    <3>2. CASE ~m.ack
      BY <3>2
    <3>. QED  BY <3>1, <3>2
  <2>3. use \in SUBSET Bit /\ modes \in SUBSET Bit
    BY <1>1, <1>2, ServerFields
  <2>4. reply \in Seq(FromServer)
    <3>. DEFINE a == Mode(use, TRUE)
    <3>1. a \in FromServer
      BY <2>3, ModeType
    <3>2. reply = IF m.ack THEN << >> ELSE <<a>>
      OBVIOUS
    <3>. HIDE DEF a, reply
    <3>. QED  BY <3>1, <3>2
  <2>. HIDE DEF l, use, modes, reply
  <2>5. ServerGood([l.s EXCEPT !.tty.modes = modes, !.editmode = use])
    BY <2>2, <2>3 DEF ServerGood, ServerState, InUse
  <2>. QED  BY <2>1, <2>2, <2>4, <2>5
<1>. QED  BY <1>3, <1>4

\* do_opt_slc()
LEMMA ServerSlcGood ==
    ASSUME NEW s, ServerGood(s), NEW m \in FromClient, m.kind # "mode"
    PROVE  /\ ServerGood(ServerSlc(s, m).s) /\ ServerSlc(s, m).out \in Seq(ServerSlcs)
           /\ ServerSlc(s, m).s.tty.modes = s.tty.modes /\ ServerSlc(s, m).s.stty = s.stty
           /\ ServerSlc(s, m).s.editmode = s.editmode /\ ServerSlc(s, m).s.changed = s.changed
<1>1. s \in ServerState /\ s.deferred \in Seq(Held)
  BY DEF ServerGood
<1>2. CASE s.terminit
  <2>1. ServerSlc(s, m) = ProcessSlc(s, m)
    BY <1>2 DEF ServerSlc
  <2>2. /\ ProcessSlc(s, m).s \in ServerState /\ Keeps(s, ProcessSlc(s, m).s)
        /\ ProcessSlc(s, m).out \in Seq(ServerSlcs)
        /\ InUse(s) => InUse(ProcessSlc(s, m).s)
    BY <1>1, ProcessSlcGood
  <2>. QED  BY <1>1, <2>1, <2>2 DEF Keeps, ServerGood
<1>3. CASE ~s.terminit
  <2>. DEFINE u == [s EXCEPT !.dumped = s.dumped \cup About(m)]
  <2>1. /\ ServerSlc(s, m).s = IF s.deferred = << >> THEN [s EXCEPT !.deferred = <<m>>] ELSE u
        /\ ServerSlc(s, m).out = << >>
    BY <1>3 DEF ServerSlc
  <2>2. m \in Message /\ m \in Held
    BY DEF FromClient, Held
  <2>3. <<m>> \in Seq(Message) /\ <<m>> \in Seq(Held)
    BY <2>2
  <2>. DEFINE t == [s EXCEPT !.deferred = <<m>>]
  <2>4. /\ t \in ServerState /\ t.deferred = <<m>> /\ t.tty = s.tty /\ t.current = s.current
        /\ t.changed = s.changed /\ t.stty = s.stty /\ t.editmode = s.editmode
    BY <1>1, <2>3 DEF ServerState
  <2>. HIDE DEF t
  <2>5. ServerGood(t)
    BY <2>3, <2>4 DEF ServerGood, InUse
  <2>6. /\ u \in ServerState /\ u.deferred = s.deferred /\ u.tty = s.tty
        /\ u.current = s.current /\ u.changed = s.changed /\ u.stty = s.stty
        /\ u.editmode = s.editmode
    <3>1. s.dumped \cup About(m) \in SUBSET Func
      BY <1>1, <2>2, AboutType, ServerFields
    <3>. QED  BY <1>1, <3>1 DEF ServerState
  <2>. HIDE DEF u
  <2>7. ServerGood(u)
    BY <1>1, <2>6 DEF ServerGood, InUse
  <2>. QED  BY <2>1, <2>4, <2>5, <2>6, <2>7 DEF t
<1>. QED  BY <1>2, <1>3

-----------------------------------------------------------------------------
(* The characters in use.                                                  *)

LEMMA ClientInitGood ==
    ClientInit \in ClientState /\ ClientGood(ClientInit)
<1>. DEFINE one(f) == Set(IF HasValp(f) THEN Local ELSE VDISABLE, NOSUPPORT, FALSE)
            spc == [f \in Func |-> one(f)]
<1>1. \A f \in Func :
         /\ one(f) \in Setting /\ one(f).ack = FALSE /\ one(f).level = NOSUPPORT
         /\ HasValp(f) => one(f).val = Local
  <2>1. Local \in AnyChar /\ VDISABLE \in AnyChar
    BY DEF AnyChar
  <2>. QED  BY <2>1, SetType, Levels
<1>. HIDE DEF one
<1>2. spc \in [Func -> Setting] /\ DefaultChars \in [Func -> AnyChar]
  BY <1>1 DEF DefaultChars, AnyChar
<1>3. ClientInit = [spc |-> spc, term |-> DefaultChars, linemode |-> {}, unset |-> {}, moded |-> FALSE]
  BY DEF ClientInit, one
<1>4. \A f \in Func : HasValp(f) => DefaultChars[f] = Local
  BY DEF HasValp, DefaultChars
<1>5. \A f \in Func : spc[f] = one(f)
  OBVIOUS
<1>. HIDE DEF spc
<1>6. ClientInit \in ClientState
  BY <1>2, <1>3 DEF ClientState
<1>. QED  BY <1>1, <1>3, <1>4, <1>5, <1>6, Levels DEF ClientGood

LEMMA ServerInitGood == ServerGood(ServerInit)
<1>1. \A f \in Func : Set(VDISABLE, NOSUPPORT, FALSE) \in Setting /\ DefVal(f) \in AnyChar
  BY SetType, Levels, DefaultsType DEF AnyChar
<1>2. << >> \in Seq(Message) /\ << >> \in Seq(Held)
  OBVIOUS
<1>. QED  BY <1>1, <1>2 DEF ServerGood, ServerInit, ServerState

LEMMA InitInd == Init => IndInv
<1>. SUFFICES ASSUME Init  PROVE IndInv
  OBVIOUS
<1>. DEFINE e == Exported(ClientInit)
<1>1. ClientGood(e.c) /\ e.out \in Seq(FromClient)
  <2>1. \A f \in Func : ClientInit.spc[f].ack = FALSE
                        /\ (f \in Placed => ClientInit.spc[f].level # DEFAULT)
    BY ClientInitGood DEF ClientGood
  <2>. QED  BY <2>1, ClientInitGood, ExportedGood, Wider
<1>2. <<All(DEFAULT)>> \in Seq(FromClient) /\ <<All(VARIABLE_)>> \in Seq(FromClient)
  BY AllType
<1>. HIDE DEF e
<1>3. ClientGood(client) /\ toServer \in Seq(FromClient)
  <2>1. PICK slc_mode \in {"export", "import", "check"} :
           /\ client = IF slc_mode = "export" THEN e.c ELSE ClientInit
           /\ toServer = IF slc_mode = "export" THEN e.out
                         ELSE <<All(IF slc_mode = "import" THEN DEFAULT ELSE VARIABLE_)>>
    BY DEF Init, e
  <2>2. CASE slc_mode = "export"
    BY <1>1, <2>1, <2>2
  <2>3. CASE slc_mode = "import"
    BY <1>2, <2>1, <2>3, ClientInitGood
  <2>4. CASE slc_mode = "check"
    BY <1>2, <2>1, <2>4, ClientInitGood
  <2>. QED  BY <2>2, <2>3, <2>4
<1>4. ServerGood(server) /\ budget \in BudgetRecord
  BY ServerInitGood, BudgetsAssumption DEF Init
<1>5. toClient \in Seq(FromServer)
  <2>. DEFINE a == Mode(Bit, FALSE)
  <2>1. a \in FromServer
    BY ModeType
  <2>2. toClient = <<a>>
    BY DEF Init
  <2>. HIDE DEF a
  <2>. QED  BY <2>1, <2>2
<1>. QED  BY <1>3, <1>4, <1>5 DEF IndInv

LEMMA SpendBudget ==
    ASSUME budget \in BudgetRecord, NEW who \in {"user", "program"}, Spend(who)
    PROVE  budget' \in BudgetRecord
BY DEF Spend, BudgetRecord

\* A step of the user.
LEMMA UserStep ==
    ASSUME IndInv, NEW r, UserDoes(r), ClientGood(r.c), r.out \in Seq(FromClient)
    PROVE  IndInv'
<1>1. client' = r.c /\ toServer' = toServer \o r.out
  BY DEF UserDoes, ClientDoes
<1>2. UNCHANGED <<server, toClient>> /\ budget' \in BudgetRecord
  BY SpendBudget DEF UserDoes, IndInv
<1>. QED  BY <1>1, <1>2 DEF IndInv

LEMMA ClientReceivesGood ==
    ASSUME IndInv, ClientReceives
    PROVE  IndInv'
<1>. DEFINE m == Head(toClient)
            r == IF m.kind = "slc" THEN ClientSlc(client, m.settings)
                 ELSE ClientMode(client, m.modes, m.ack, FALSE)
<1>1. m \in FromServer /\ Tail(toClient) \in Seq(FromServer)
  BY DEF ClientReceives, IndInv
<1>2. client' = r.c /\ toServer' = toServer \o r.out
  BY DEF ClientReceives, ClientDoes
<1>3. toClient' = Tail(toClient) /\ UNCHANGED <<server, budget>>
  BY DEF ClientReceives
<1>4. ClientGood(client)
  BY DEF IndInv
<1>. HIDE DEF m
<1>5. /\ m.kind = "slc" => m.settings \in Settings
      /\ m.kind # "slc" => m.modes \in SUBSET Bit /\ m.ack \in BOOLEAN
  BY <1>1, MessageFields DEF FromServer
<1>6. ClientGood(r.c) /\ r.out \in Seq(FromClient)
  <2>1. CASE m.kind = "slc"
    BY <1>4, <1>5, <2>1, ClientSlcGood, Wider
  <2>2. CASE m.kind # "slc"
    <3>1. r = ClientMode(client, m.modes, m.ack, FALSE)
      BY <2>2
    <3>. HIDE DEF r
    <3>. QED  BY <1>4, <1>5, <2>2, <3>1, ClientModeGood
  <2>. QED  BY <2>1, <2>2
<1>. HIDE DEF r
<1>. QED  BY <1>1, <1>2, <1>3, <1>6 DEF IndInv

\* A step of the server.
LEMMA ServerStep ==
    ASSUME IndInv, NEW r, server' = Spoken(r), toClient' = toClient \o r.out,
           ServerGood(r.s), r.out \in Seq(FromServer),
           toServer' = toServer \/ (toServer' = Tail(toServer) /\ toServer # << >>),
           UNCHANGED <<client, budget>>
    PROVE  IndInv'
<1>1. toServer' \in Seq(FromClient)
  <2>1. toServer \in Seq(FromClient)
    BY DEF IndInv
  <2>2. toServer # << >> => Tail(toServer) \in Seq(FromClient)
    BY <2>1
  <2>. QED  BY <2>1, <2>2
<1>2. toClient' \in Seq(FromServer)
  BY DEF IndInv
<1>. QED  BY <1>1, <1>2, SpokenGood DEF IndInv

LEMMA ServerReceivesGood ==
    ASSUME IndInv, ServerReceives
    PROVE  IndInv'
<1>. DEFINE m == Head(toServer)
            r == IF m.kind = "mode" THEN ServerMode(server, m) ELSE ServerSlc(server, m)
<1>1. m \in FromClient
  BY DEF ServerReceives, IndInv
<1>2. server' = Spoken(r) /\ toClient' = toClient \o r.out
  BY DEF ServerReceives, ServerDoes
<1>3. toServer # << >> /\ toServer' = Tail(toServer) /\ UNCHANGED <<client, budget>>
  BY DEF ServerReceives
<1>4. ServerGood(server)
  BY DEF IndInv
<1>. HIDE DEF m
<1>5. ServerGood(r.s) /\ r.out \in Seq(FromServer)
  <2>1. CASE m.kind = "mode"
    BY <1>1, <1>4, <2>1, ServerModeGood
  <2>2. CASE m.kind # "mode"
    BY <1>1, <1>4, <2>2, ServerSlcGood, Wider
  <2>. QED  BY <2>1, <2>2
<1>. HIDE DEF r
<1>. QED  BY <1>2, <1>3, <1>5, ServerStep

LEMMA ProgramStep ==
    ASSUME IndInv, NEW tty \in [chars : [Func -> AnyChar], modes : SUBSET Bit], ProgramDoes(tty)
    PROVE  IndInv'
<1>1. server' = [server EXCEPT !.tty = tty, !.changed = TRUE, !.stty = tty.modes]
  BY DEF ProgramDoes
<1>2. UNCHANGED <<client, toServer, toClient>> /\ budget' \in BudgetRecord
  BY SpendBudget DEF ProgramDoes, IndInv
<1>3. ServerGood(server)'
  BY <1>1 DEF IndInv, ServerGood, ServerState
<1>. QED  BY <1>2, <1>3 DEF IndInv

LEMMA NextInd == IndInv /\ [Next]_vars => IndInv'
<1>. SUFFICES ASSUME IndInv, [Next]_vars  PROVE IndInv'
  OBVIOUS
<1>1. /\ client \in ClientState /\ ClientGood(client)
      /\ \A f \in Func : client.spc[f].ack = FALSE /\ (f \in Placed => client.spc[f].level # DEFAULT)
  BY DEF IndInv, ClientGood
<1>2. server \in ServerState /\ server.deferred \in Seq(Held) /\ ServerGood(server)
  BY DEF IndInv, ServerGood
<1>3. ASSUME NEW f \in Func, NEW ch \in Char \cup {VDISABLE}, SetChar(f, ch)
      PROVE  IndInv'
  <2>. DEFINE c == [client EXCEPT !.term[f] = ch]
  <2>1. /\ c \in ClientState
        /\ \A g \in Func : c.spc[g].ack = FALSE /\ (g \in Placed => c.spc[g].level # DEFAULT)
    BY <1>1 DEF ClientState, AnyChar
  <2>2. UserDoes(Checked(c))
    BY <1>3 DEF SetChar
  <2>. HIDE DEF c
  <2>3. ClientGood(Checked(c).c) /\ Checked(c).out \in Seq(FromClient)
    BY <2>1, CheckedGood, Wider
  <2>. QED  BY <2>2, <2>3, UserStep
<1>4. ASSUME NEW f \in Func, UnsetChar(f)  PROVE IndInv'
  <2>. DEFINE c == [client EXCEPT !.term[f] = VDISABLE, !.unset = @ \cup {f}]
  <2>1. ClientGood(c)
    BY <1>1 DEF ClientGood, ClientState, AnyChar
  <2>. DEFINE r == [c |-> c, out |-> << >>]
  <2>2. UserDoes(r)
    BY <1>4 DEF UnsetChar
  <2>3. r.c = c /\ r.out = << >>
    OBVIOUS
  <2>. HIDE DEF c, r
  <2>4. r.out \in Seq(FromClient)
    BY <2>3
  <2>. QED  BY <2>1, <2>2, <2>3, <2>4, UserStep
<1>5. CASE SlcExport
  <2>1. UserDoes(Exported(client))
    BY <1>5 DEF SlcExport
  <2>2. ClientGood(Exported(client).c) /\ Exported(client).out \in Seq(FromClient)
    BY <1>1, ExportedGood, Wider
  <2>. QED  BY <2>1, <2>2, UserStep
<1>6. ASSUME NEW level \in {VARIABLE_, DEFAULT}, SlcImport(level)  PROVE IndInv'
  <2>. DEFINE r == [c |-> client, out |-> <<All(level)>>]
  <2>1. UserDoes(r)
    BY <1>6 DEF SlcImport
  <2>2. r.c = client /\ r.out \in Seq(FromClient)
    BY AllType
  <2>. HIDE DEF r
  <2>. QED  BY <1>1, <2>1, <2>2, UserStep
<1>7. ASSUME NEW modes \in SUBSET Bit, SetMode(modes)  PROVE IndInv'
  <2>. DEFINE c == [client EXCEPT !.moded = TRUE]
              r == ClientMode(c, modes, FALSE, TRUE)
  <2>1. ClientGood(c)
    BY <1>1 DEF ClientGood, ClientState
  <2>2. UserDoes(r)
    BY <1>7 DEF SetMode
  <2>. HIDE DEF c
  <2>3. ClientGood(r.c) /\ r.out \in Seq(FromClient)
    BY <2>1, ClientModeGood
  <2>. HIDE DEF r
  <2>. QED  BY <2>2, <2>3, UserStep
<1>8. CASE ClientReceives
  BY <1>8, ClientReceivesGood
<1>9. CASE ServerReceives
  BY <1>9, ServerReceivesGood
<1>10. CASE PtyChanged
  <2>. DEFINE r == Localstat(server)
  <2>1. server' = Spoken(r) /\ toClient' = toClient \o r.out /\ UNCHANGED <<client, toServer, budget>>
    BY <1>10 DEF PtyChanged, ServerDoes
  <2>2. ServerGood(r.s) /\ r.out \in Seq(FromServer)
    BY <1>2, LocalstatGood, LocalstatSends DEF ServerGood
  <2>. HIDE DEF r
  <2>. QED  BY <2>1, <2>2, ServerStep
<1>11. ASSUME NEW f \in Func, NEW ch \in Char \cup {VDISABLE}, Stty(f, ch)  PROVE IndInv'
  <2>1. [server.tty EXCEPT !.chars[f] = ch] \in [chars : [Func -> AnyChar], modes : SUBSET Bit]
    BY <1>2 DEF ServerState, AnyChar
  <2>. QED  BY <1>11, <2>1, ProgramStep DEF Stty
<1>12. ASSUME NEW modes \in SUBSET Bit, SttyMode(modes)  PROVE IndInv'
  <2>1. [server.tty EXCEPT !.modes = modes] \in [chars : [Func -> AnyChar], modes : SUBSET Bit]
    BY <1>2 DEF ServerState
  <2>. QED  BY <1>12, <2>1, ProgramStep DEF SttyMode
<1>13. CASE UNCHANGED vars
  BY <1>13 DEF vars, IndInv
<1>. QED  BY <1>3, <1>4, <1>5, <1>6, <1>7, <1>8, <1>9, <1>10, <1>11, <1>12, <1>13 DEF Next

\* The inductive invariant holds.
THEOREM Inductive == Spec => []IndInv
<1>. QED  BY InitInd, NextInd, PTL DEF Spec

\* The variables have their types.
THEOREM LinemodeTypes == Spec => []TypeOK
<1>1. IndInv => TypeOK
  <2>1. FromClient \subseteq Message /\ FromServer \subseteq Message
    BY DEF FromClient, FromServer
  <2>. QED  BY <2>1 DEF IndInv, TypeOK, ClientGood, ServerGood
<1>. QED  BY <1>1, Inductive, PTL

(***************************************************************************)
(* Whatever the user, the programs and the two ends change, and however    *)
(* the suboptions cross, the characters that were negotiated are those in  *)
(* use: process_slc(), slc() and slc_update() never leave a table and its  *)
(* terminal apart, but for "unset" and for a program whose change has not  *)
(* been looked at.                                                         *)
(***************************************************************************)
THEOREM LinemodeCharsInUse == Spec => []CharsInUse
<1>1. IndInv => CharsInUse
  BY DEF IndInv, CharsInUse, Quiet, ClientGood, ServerGood, InUse, HasValp
<1>. QED  BY <1>1, Inductive, PTL

-----------------------------------------------------------------------------
(* The edit modes.                                                         *)

\* With what is in q, a client that has "have" will come to have "want".
Latest(have, q, want) ==
    \/ have = want /\ \A i \in 1 .. Len(q) : q[i].kind # "mode"
    \/ \E i \in 1 .. Len(q) :
          /\ q[i].kind = "mode" /\ q[i].modes = want
          /\ \A j \in i + 1 .. Len(q) : q[j].kind # "mode"

\* Every change of modes in q has the flag ack.
Flagged(q, ack) == \A i \in 1 .. Len(q) : q[i].kind = "mode" => q[i].ack = ack

(***************************************************************************)
(* Until the user changes modes the client only acknowledges, the server   *)
(* never does, the pty has what the programs have set, useeditmode has it  *)
(* once localstat() has looked, and the last change on its way to the      *)
(* client is the one that useeditmode has.                                 *)
(***************************************************************************)
ModesInv ==
    ~client.moded =>
        /\ Flagged(toServer, TRUE) /\ Flagged(toClient, FALSE)
        /\ server.tty.modes = server.stty
        /\ ~server.changed => server.editmode = server.tty.modes
        /\ Latest(client.linemode, toClient, server.editmode)

LEMMA FlaggedMore ==
    ASSUME NEW S, NEW q \in Seq(S), NEW r \in Seq(S), NEW ack, Flagged(q, ack), Flagged(r, ack)
    PROVE  Flagged(q \o r, ack)
<1>. SUFFICES ASSUME NEW i \in 1 .. Len(q \o r), (q \o r)[i].kind = "mode"
              PROVE  (q \o r)[i].ack = ack
  BY DEF Flagged
<1>1. CASE i <= Len(q)
  BY <1>1 DEF Flagged
<1>2. CASE i > Len(q)
  <2>1. i - Len(q) \in 1 .. Len(r) /\ (q \o r)[i] = r[i - Len(q)]
    BY <1>2
  <2>. QED  BY <2>1 DEF Flagged
<1>. QED  BY <1>1, <1>2

LEMMA FlaggedTail ==
    ASSUME NEW S, NEW q \in Seq(S), q # << >>, NEW ack, Flagged(q, ack)
    PROVE  Flagged(Tail(q), ack)
<1>. SUFFICES ASSUME NEW i \in 1 .. Len(Tail(q)), Tail(q)[i].kind = "mode"
              PROVE  Tail(q)[i].ack = ack
  BY DEF Flagged
<1>1. i + 1 \in 1 .. Len(q) /\ Tail(q)[i] = q[i + 1]
  OBVIOUS
<1>. QED  BY <1>1 DEF Flagged

LEMMA SlcsFlagged ==
    ASSUME NEW r, r \in Seq(ClientSlcs) \/ r \in Seq(ServerSlcs), NEW ack
    PROVE  Flagged(r, ack)
BY DEF Flagged, ClientSlcs, ServerSlcs

LEMMA LatestSlcs ==
    ASSUME NEW q \in Seq(FromServer), NEW r \in Seq(ServerSlcs), NEW have, NEW want,
           Latest(have, q, want)
    PROVE  Latest(have, q \o r, want)
<1>. DEFINE p == q \o r
<1>1. \A i \in 1 .. Len(q) : p[i] = q[i]
  OBVIOUS
<1>2. \A i \in Len(q) + 1 .. Len(p) : p[i].kind # "mode"
  <2>. TAKE i \in Len(q) + 1 .. Len(p)
  <2>1. i - Len(q) \in 1 .. Len(r) /\ p[i] = r[i - Len(q)]
    OBVIOUS
  <2>. QED  BY <2>1 DEF ServerSlcs
<1>3. Len(p) = Len(q) + Len(r) /\ Len(q) \in Nat /\ Len(r) \in Nat
  OBVIOUS
<1>. HIDE DEF p
<1>4. ASSUME have = want, \A i \in 1 .. Len(q) : q[i].kind # "mode"
      PROVE  Latest(have, p, want)
  <2>1. \A i \in 1 .. Len(p) : p[i].kind # "mode"
    BY <1>1, <1>2, <1>3, <1>4
  <2>. QED  BY <1>4, <2>1 DEF Latest
<1>5. ASSUME NEW i \in 1 .. Len(q), q[i].kind = "mode", q[i].modes = want,
             \A j \in i + 1 .. Len(q) : q[j].kind # "mode"
      PROVE  Latest(have, p, want)
  <2>1. i \in 1 .. Len(p) /\ p[i].kind = "mode" /\ p[i].modes = want
    BY <1>1, <1>3, <1>5
  <2>2. \A j \in i + 1 .. Len(p) : p[j].kind # "mode"
    BY <1>1, <1>2, <1>3, <1>5
  <2>. QED  BY <2>1, <2>2 DEF Latest
<1>. QED  BY <1>4, <1>5 DEF Latest, p

LEMMA LatestMode ==
    ASSUME NEW q \in Seq(FromServer), NEW m \in FromServer, m.kind = "mode", NEW have
    PROVE  Latest(have, q \o <<m>>, m.modes)
<1>1. Len(q \o <<m>>) = Len(q) + 1 /\ (q \o <<m>>)[Len(q) + 1] = m
  OBVIOUS
<1>2. \A j \in Len(q) + 2 .. Len(q \o <<m>>) : FALSE
  BY <1>1
<1>. QED  BY <1>1, <1>2 DEF Latest

LEMMA LatestTail ==
    ASSUME NEW q \in Seq(FromServer), q # << >>, NEW have, NEW want, Latest(have, q, want)
    PROVE  Latest(IF Head(q).kind = "mode" THEN Head(q).modes ELSE have, Tail(q), want)
<1>. DEFINE t == Tail(q)
            had == IF Head(q).kind = "mode" THEN Head(q).modes ELSE have
<1>1. /\ Len(t) \in Nat /\ Len(q) = Len(t) + 1 /\ Head(q) = q[1]
      /\ \A i \in 1 .. Len(t) : t[i] = q[i + 1]
  OBVIOUS
<1>. HIDE DEF t
<1>2. ASSUME have = want, \A i \in 1 .. Len(q) : q[i].kind # "mode"
      PROVE  Latest(had, t, want)
  <2>1. had = want
    BY <1>1, <1>2
  <2>2. \A i \in 1 .. Len(t) : t[i].kind # "mode"
    BY <1>1, <1>2
  <2>. QED  BY <2>1, <2>2 DEF Latest
<1>3. ASSUME NEW i \in 1 .. Len(q), q[i].kind = "mode", q[i].modes = want,
             \A j \in i + 1 .. Len(q) : q[j].kind # "mode"
      PROVE  Latest(had, t, want)
  <2>1. CASE i = 1
    <3>1. had = want
      BY <1>1, <1>3, <2>1
    <3>2. \A j \in 1 .. Len(t) : t[j].kind # "mode"
      BY <1>1, <1>3, <2>1
    <3>. QED  BY <3>1, <3>2 DEF Latest
  <2>2. CASE i # 1
    <3>1. i - 1 \in 1 .. Len(t) /\ t[i - 1] = q[i]
      BY <1>1, <2>2
    <3>2. \A j \in (i - 1) + 1 .. Len(t) : t[j].kind # "mode"
      BY <1>1, <1>3, <2>2
    <3>. QED  BY <1>3, <3>1, <3>2 DEF Latest
  <2>. QED  BY <2>1, <2>2
<1>. QED  BY <1>2, <1>3 DEF Latest, t

\* Whatever the server does about the modes it says last, and the pty keeps
\* those that it has.
Speaks(s, r) ==
    /\ r.s.tty.modes = s.tty.modes /\ r.s.stty = s.stty
    /\ ~r.s.changed => r.s.editmode = r.s.tty.modes
    /\ \E one, two \in Seq(ServerSlcs) :
          \/ r.s.editmode = s.editmode /\ r.out = one \o two
          \/ r.out = <<Mode(r.s.editmode, FALSE)>> \o one \o two

LEMMA LocalstatSpeaks ==
    ASSUME NEW s \in ServerState, s.deferred \in Seq(Held)
    PROVE  Speaks(s, Localstat(s))
<1>. DEFINE r == Localstat(s)
<1>1. PICK one, two \in Seq(ServerSlcs) : r.out = ModesNews(s) \o one \o two
  BY LocalstatGood
<1>2. /\ r.s.editmode = s.tty.modes /\ r.s.tty.modes = s.tty.modes /\ r.s.stty = s.stty
  BY LocalstatGood
<1>. HIDE DEF r
<1>3. CASE s.tty.modes = s.editmode
  <2>1. r.out = << >> \o one \o two
    BY <1>1, <1>3 DEF ModesNews
  <2>2. r.out = one \o two
    BY <2>1
  <2>. QED  BY <1>2, <1>3, <2>2 DEF Speaks, r
<1>4. CASE s.tty.modes # s.editmode
  <2>1. r.out = <<Mode(s.tty.modes, FALSE)>> \o one \o two
    BY <1>1, <1>4 DEF ModesNews
  <2>. QED  BY <1>2, <2>1 DEF Speaks, r
<1>. QED  BY <1>3, <1>4

LEMMA ServerSlcSpeaks ==
    ASSUME NEW s, ServerGood(s), ~s.changed => s.editmode = s.tty.modes,
           NEW m \in FromClient, m.kind # "mode"
    PROVE  Speaks(s, ServerSlc(s, m))
<1>. DEFINE r == ServerSlc(s, m)
<1>1. /\ r.out \in Seq(ServerSlcs) /\ r.s.tty.modes = s.tty.modes /\ r.s.stty = s.stty
      /\ r.s.editmode = s.editmode /\ r.s.changed = s.changed
  BY ServerSlcGood
<1>. HIDE DEF r
<1>2. << >> \in Seq(ServerSlcs) /\ r.out = r.out \o << >>
  BY <1>1
<1>. QED  BY <1>1, <1>2 DEF Speaks, r

\* An acknowledgement, even one that comes late
LEMMA ServerModeSpeaks ==
    ASSUME NEW s, ServerGood(s), ~s.changed => s.editmode = s.tty.modes,
           NEW m \in FromClient, m.kind = "mode", m.ack = TRUE
    PROVE  Speaks(s, ServerMode(s, m))
<1>1. s \in ServerState /\ s.deferred \in Seq(Held)
  BY DEF ServerGood
<1>. DEFINE changed == SymDiff(m.modes, s.editmode)
            l == Localstat(s)
            modes == (s.tty.modes \ changed) \cup (s.tty.modes \cap changed)
            r == ServerMode(s, m)
<1>2. CASE changed = {}
  <2>1. r.s = s /\ r.out = << >>
    BY <1>2 DEF ServerMode
  <2>. HIDE DEF r
  <2>2. << >> \in Seq(ServerSlcs) /\ r.out = << >> \o << >>
    BY <2>1
  <2>. QED  BY <2>1, <2>2 DEF Speaks, r
<1>3. CASE changed # {}
  <2>1. r.s = [l.s EXCEPT !.tty.modes = modes, !.editmode = s.tty.modes] /\ r.out = l.out \o << >>
    BY <1>3 DEF ServerMode
  <2>2. modes = s.tty.modes
    OBVIOUS
  <2>3. /\ l.s \in ServerState /\ l.out \in Seq(FromServer) /\ Speaks(s, l)
        /\ l.s.editmode = s.tty.modes /\ l.s.stty = s.stty
    BY <1>1, LocalstatGood, LocalstatSends, LocalstatSpeaks
  <2>. HIDE DEF l, r, modes
  <2>4. /\ r.s.tty.modes = s.tty.modes /\ r.s.editmode = s.tty.modes /\ r.s.stty = s.stty
    BY <2>1, <2>2, <2>3 DEF ServerState
  <2>5. r.out = l.out
    BY <2>1, <2>3
  <2>. QED  BY <2>3, <2>4, <2>5 DEF Speaks, r
<1>. QED  BY <1>2, <1>3

LEMMA ModesInit == Init => ModesInv
<1>. SUFFICES ASSUME Init  PROVE ModesInv
  OBVIOUS
<1>. DEFINE e == Exported(ClientInit)
            m == Mode(Bit, FALSE)
<1>1. m \in FromServer /\ m.kind = "mode" /\ m.modes = Bit /\ m.ack = FALSE
  BY ModeType DEF Mode
<1>2. e.out \in Seq(ClientSlcs)
  <2>1. \A f \in Func : ClientInit.spc[f].ack = FALSE
                        /\ (f \in Placed => ClientInit.spc[f].level # DEFAULT)
    BY ClientInitGood DEF ClientGood
  <2>. QED  BY <2>1, ClientInitGood, ExportedGood
<1>3. All(DEFAULT).kind = "all" /\ All(VARIABLE_).kind = "all"
  BY DEF All
<1>4. toClient = <<m>> /\ server = ServerInit
  BY DEF Init
<1>. HIDE DEF m, e
<1>5. Flagged(toServer, TRUE)
  <2>1. PICK slc_mode \in {"export", "import", "check"} :
           toServer = IF slc_mode = "export" THEN e.out
                      ELSE <<All(IF slc_mode = "import" THEN DEFAULT ELSE VARIABLE_)>>
    BY DEF Init, e
  <2>2. CASE slc_mode = "export"
    BY <1>2, <2>1, <2>2, SlcsFlagged
  <2>3. CASE slc_mode # "export"
    BY <1>3, <2>1, <2>3 DEF Flagged
  <2>. QED  BY <2>2, <2>3
<1>6. Flagged(toClient, FALSE)
  BY <1>1, <1>4 DEF Flagged
<1>7. Latest(client.linemode, toClient, Bit)
  <2>1. << >> \in Seq(FromServer) /\ toClient = << >> \o <<m>>
    BY <1>1, <1>4
  <2>. QED  BY <1>1, <2>1, LatestMode
<1>. QED  BY <1>4, <1>5, <1>6, <1>7 DEF ModesInv, ServerInit

\* A step of the user who does not change modes.
LEMMA UserModes ==
    ASSUME IndInv, ModesInv, NEW r, UserDoes(r), r.c.linemode = client.linemode,
           r.c.moded = client.moded, r.out \in Seq(FromClient), Flagged(r.out, TRUE)
    PROVE  ModesInv'
<1>1. client' = r.c /\ toServer' = toServer \o r.out /\ UNCHANGED <<server, toClient>>
  BY DEF UserDoes, ClientDoes
<1>2. Flagged(toServer, TRUE) => Flagged(toServer \o r.out, TRUE)
  BY FlaggedMore DEF IndInv
<1>. QED  BY <1>1, <1>2 DEF ModesInv

LEMMA ServerModes ==
    ASSUME IndInv, ModesInv, ~client.moded, NEW r, server' = Spoken(r), toClient' = toClient \o r.out,
           Speaks(server, r), ServerGood(r.s),
           toServer' = toServer \/ (toServer' = Tail(toServer) /\ toServer # << >>),
           UNCHANGED client
    PROVE  ModesInv'
<1>1. /\ toClient \in Seq(FromServer) /\ toServer \in Seq(FromClient)
      /\ Flagged(toServer, TRUE) /\ Flagged(toClient, FALSE)
      /\ Latest(client.linemode, toClient, server.editmode)
  BY DEF IndInv, ModesInv
<1>2. Flagged(toServer', TRUE)
  BY <1>1, FlaggedTail
<1>3. Flagged(toClient', FALSE) /\ Latest(client.linemode, toClient', r.s.editmode)
  <2>1. PICK one, two \in Seq(ServerSlcs) :
           \/ r.s.editmode = server.editmode /\ r.out = one \o two
           \/ r.out = <<Mode(r.s.editmode, FALSE)>> \o one \o two
    BY DEF Speaks
  <2>2. /\ one \in Seq(FromServer) /\ two \in Seq(FromServer)
        /\ Flagged(one, FALSE) /\ Flagged(two, FALSE)
    BY Wider, SlcsFlagged
  <2>3. ASSUME r.s.editmode = server.editmode, r.out = one \o two
        PROVE  Flagged(toClient', FALSE) /\ Latest(client.linemode, toClient', r.s.editmode)
    <3>1. toClient' = (toClient \o one) \o two
      BY <1>1, <2>2, <2>3
    <3>2. Latest(client.linemode, toClient \o one, r.s.editmode) /\ toClient \o one \in Seq(FromServer)
      BY <1>1, <2>2, <2>3, LatestSlcs
    <3>3. Flagged(toClient \o one, FALSE)
      BY <1>1, <2>2, FlaggedMore
    <3>. QED  BY <2>2, <3>1, <3>2, <3>3, LatestSlcs, FlaggedMore
  <2>4. ASSUME r.out = <<Mode(r.s.editmode, FALSE)>> \o one \o two
        PROVE  Flagged(toClient', FALSE) /\ Latest(client.linemode, toClient', r.s.editmode)
    <3>. DEFINE m == Mode(r.s.editmode, FALSE)
                q == toClient \o <<m>>
    <3>1. m \in FromServer /\ m.kind = "mode" /\ m.modes = r.s.editmode /\ m.ack = FALSE
      <4>1. r.s.editmode \in SUBSET Bit
        BY ServerFields DEF ServerGood
      <4>2. m \in FromServer
        BY <4>1, ModeType
      <4>. QED  BY <4>2 DEF Mode
    <3>2. q \in Seq(FromServer) /\ Latest(client.linemode, q, r.s.editmode)
      <4>. HIDE DEF m
      <4>1. q \in Seq(FromServer)
        BY <1>1, <3>1
      <4>2. Latest(client.linemode, toClient \o <<m>>, m.modes)
        BY <1>1, <3>1, LatestMode
      <4>. QED  BY <3>1, <4>1, <4>2
    <3>3. Flagged(q, FALSE)
      <4>1. <<m>> \in Seq(FromServer) /\ Flagged(<<m>>, FALSE)
        <5>. HIDE DEF m
        <5>. QED  BY <3>1 DEF Flagged
      <4>. QED  BY <1>1, <4>1, FlaggedMore
    <3>4. toClient' = q \o one \o two
      <4>1. toClient' = toClient \o (<<m>> \o one \o two)
        BY <2>4
      <4>. HIDE DEF m
      <4>. QED  BY <1>1, <2>2, <3>1, <4>1
    <3>. HIDE DEF q, m
    <3>5. q \o one \in Seq(FromServer) /\ Latest(client.linemode, q \o one, r.s.editmode)
      BY <2>2, <3>2, LatestSlcs
    <3>6. Flagged(q \o one, FALSE)
      BY <2>2, <3>2, <3>3, FlaggedMore
    <3>. DEFINE p == q \o one
    <3>. HIDE DEF p
    <3>7. Latest(client.linemode, p \o two, r.s.editmode)
      BY <3>5, LatestSlcs DEF p
    <3>8. Flagged(p \o two, FALSE)
      BY <2>2, <3>5, <3>6, FlaggedMore DEF p
    <3>. QED  BY <3>4, <3>7, <3>8 DEF p
  <2>. QED  BY <2>1, <2>3, <2>4
<1>4. r.s \in ServerState
  BY DEF ServerGood
<1>. QED  BY <1>2, <1>3, <1>4, SpokenIs DEF ModesInv, Speaks

LEMMA ClientModes ==
    ASSUME IndInv, ModesInv, ~client.moded, ClientReceives
    PROVE  ModesInv'
<1>. DEFINE m == Head(toClient)
            r == IF m.kind = "slc" THEN ClientSlc(client, m.settings)
                 ELSE ClientMode(client, m.modes, m.ack, FALSE)
<1>1. /\ toClient \in Seq(FromServer) /\ toServer \in Seq(FromClient) /\ toClient # << >>
      /\ Flagged(toServer, TRUE) /\ Flagged(toClient, FALSE)
      /\ Latest(client.linemode, toClient, server.editmode)
  BY DEF IndInv, ModesInv, ClientReceives
<1>2. client' = r.c /\ toServer' = toServer \o r.out
  BY DEF ClientReceives, ClientDoes
<1>3. toClient' = Tail(toClient) /\ server' = server
  BY DEF ClientReceives
<1>4. m \in FromServer /\ (m.kind = "mode" => m.ack = FALSE)
  <2>1. m = toClient[1] /\ 1 \in 1 .. Len(toClient)
    BY <1>1
  <2>. QED  BY <1>1, <2>1 DEF Flagged
<1>5. Flagged(toClient', FALSE)
  BY <1>1, <1>3, FlaggedTail
<1>6. Latest(IF m.kind = "mode" THEN m.modes ELSE client.linemode, toClient', server.editmode)
  BY <1>1, <1>3, LatestTail
<1>7. /\ m.kind = "slc" => m.settings \in Settings
      /\ m.kind # "slc" => m.kind = "mode" /\ m.modes \in SUBSET Bit
  BY <1>4, MessageFields DEF FromServer
<1>8. client \in ClientState /\ ClientGood(client)
  BY DEF IndInv, ClientGood
<1>. HIDE DEF m
<1>9. /\ r.out \in Seq(FromClient) /\ Flagged(r.out, TRUE) /\ r.c.moded = client.moded
      /\ r.c.linemode = IF m.kind = "mode" THEN m.modes ELSE client.linemode
  <2>1. CASE m.kind = "slc"
    <3>1. r = ClientSlc(client, m.settings)
      BY <2>1
    <3>. HIDE DEF r
    <3>2. r.out \in Seq(ClientSlcs)
      BY <1>7, <1>8, <2>1, <3>1, ClientSlcGood
    <3>3. r.c.linemode = client.linemode /\ r.c.moded = client.moded
      BY <1>8, <3>1, ClientKeepsModes
    <3>. QED  BY <2>1, <3>2, <3>3, Wider, SlcsFlagged
  <2>2. CASE m.kind = "mode" /\ m.modes = client.linemode
    <3>1. r.c = client /\ r.out = << >>
      BY <2>2 DEF ClientMode
    <3>. HIDE DEF r
    <3>. QED  BY <2>2, <3>1 DEF Flagged
  <2>3. CASE m.kind = "mode" /\ m.modes # client.linemode
    <3>. DEFINE a == Mode(m.modes, ~FALSE)
    <3>1. r.c = [client EXCEPT !.linemode = m.modes] /\ r.out = <<a>>
      BY <1>4, <2>3 DEF ClientMode
    <3>2. a \in FromClient /\ a.ack = TRUE
      BY <1>7, <2>3, ModeType DEF Mode
    <3>. HIDE DEF a, r
    <3>3. r.out \in Seq(FromClient) /\ Flagged(r.out, TRUE)
      BY <3>1, <3>2 DEF Flagged
    <3>4. r.c.linemode = m.modes /\ r.c.moded = client.moded
      BY <1>8, <3>1 DEF ClientState
    <3>. QED  BY <2>3, <3>3, <3>4
  <2>. QED  BY <1>7, <2>1, <2>2, <2>3
<1>. HIDE DEF r
<1>10. Flagged(toServer', TRUE)
  BY <1>1, <1>2, <1>9, FlaggedMore
<1>. QED  BY <1>2, <1>3, <1>5, <1>6, <1>9, <1>10 DEF ModesInv

\* A change of modes by the user is remembered.
LEMMA ClientReceivesModed ==
    ASSUME IndInv, ClientReceives, client.moded
    PROVE  client'.moded
<1>. DEFINE m == Head(toClient)
<1>1. client' = IF m.kind = "slc" THEN ClientSlc(client, m.settings).c
                ELSE ClientMode(client, m.modes, m.ack, FALSE).c
  BY DEF ClientReceives, ClientDoes
<1>2. client \in ClientState
  BY DEF IndInv, ClientGood
<1>. HIDE DEF m
<1>3. CASE m.kind = "slc"
  BY <1>1, <1>2, <1>3, ClientKeepsModes
<1>4. CASE m.kind # "slc"
  <2>1. [client EXCEPT !.linemode = m.modes].moded = client.moded
    BY <1>2 DEF ClientState
  <2>. QED  BY <1>1, <1>4, <2>1 DEF ClientMode
<1>. QED  BY <1>3, <1>4

\* Only lm_mode() and localstat() touch the edit modes; a step of Next either
\* is the user's change or keeps ModesInv.
LEMMA ModesNext == IndInv /\ ModesInv /\ [Next]_vars => ModesInv'
<1>. SUFFICES ASSUME IndInv, ModesInv, [Next]_vars  PROVE ModesInv'
  OBVIOUS
<1>1. /\ client \in ClientState /\ ClientGood(client)
      /\ \A f \in Func : client.spc[f].ack = FALSE /\ (f \in Placed => client.spc[f].level # DEFAULT)
  BY DEF IndInv, ClientGood
<1>2. server \in ServerState /\ server.deferred \in Seq(Held) /\ ServerGood(server)
  BY DEF IndInv, ServerGood
<1>3. ASSUME NEW f \in Func, NEW ch \in Char \cup {VDISABLE}, SetChar(f, ch)
      PROVE  ModesInv'
  <2>. DEFINE c == [client EXCEPT !.term[f] = ch]
  <2>1. /\ c \in ClientState
        /\ \A g \in Func : c.spc[g].ack = FALSE /\ (g \in Placed => c.spc[g].level # DEFAULT)
        /\ c.linemode = client.linemode /\ c.moded = client.moded
    BY <1>1 DEF ClientState, AnyChar
  <2>2. UserDoes(Checked(c))
    BY <1>3 DEF SetChar
  <2>. HIDE DEF c
  <2>3. Checked(c).out \in Seq(ClientSlcs)
    BY <2>1, CheckedGood
  <2>4. Checked(c).c.linemode = client.linemode /\ Checked(c).c.moded = client.moded
    BY <2>1, ClientKeepsModes
  <2>. QED  BY <2>2, <2>3, <2>4, Wider, SlcsFlagged, UserModes
<1>4. ASSUME NEW f \in Func, UnsetChar(f)  PROVE ModesInv'
  <2>. DEFINE c == [client EXCEPT !.term[f] = VDISABLE, !.unset = @ \cup {f}]
              r == [c |-> c, out |-> << >>]
  <2>1. c.linemode = client.linemode /\ c.moded = client.moded
    BY <1>1 DEF ClientState
  <2>2. UserDoes(r) /\ r.c = c /\ r.out = << >>
    BY <1>4 DEF UnsetChar
  <2>. HIDE DEF c, r
  <2>3. r.out \in Seq(FromClient) /\ Flagged(r.out, TRUE)
    BY <2>2 DEF Flagged
  <2>. QED  BY <2>1, <2>2, <2>3, UserModes
<1>5. CASE SlcExport
  <2>1. UserDoes(Exported(client))
    BY <1>5 DEF SlcExport
  <2>2. Exported(client).out \in Seq(ClientSlcs)
    BY <1>1, ExportedGood
  <2>3. Exported(client).c.linemode = client.linemode /\ Exported(client).c.moded = client.moded
    BY <1>1, ClientKeepsModes
  <2>. QED  BY <2>1, <2>2, <2>3, Wider, SlcsFlagged, UserModes
<1>6. ASSUME NEW level \in {VARIABLE_, DEFAULT}, SlcImport(level)  PROVE ModesInv'
  <2>. DEFINE r == [c |-> client, out |-> <<All(level)>>]
  <2>1. UserDoes(r) /\ r.c = client
    BY <1>6 DEF SlcImport
  <2>2. r.out \in Seq(FromClient)
    BY AllType
  <2>3. Flagged(r.out, TRUE)
    BY DEF Flagged, All
  <2>. HIDE DEF r
  <2>. QED  BY <2>1, <2>2, <2>3, UserModes
<1>7. ASSUME NEW modes \in SUBSET Bit, SetMode(modes)  PROVE ModesInv'
  <2>. DEFINE c == [client EXCEPT !.moded = TRUE]
  <2>1. c.moded = TRUE /\ [c EXCEPT !.linemode = modes].moded = TRUE
    BY <1>1 DEF ClientState
  <2>2. client' = ClientMode(c, modes, FALSE, TRUE).c
    BY <1>7 DEF SetMode, UserDoes, ClientDoes
  <2>. HIDE DEF c
  <2>3. client'.moded = TRUE
    BY <2>1, <2>2 DEF ClientMode
  <2>. QED  BY <2>3 DEF ModesInv
<1>8. CASE ClientReceives
  <2>1. CASE ~client.moded
    BY <1>8, <2>1, ClientModes
  <2>2. CASE client.moded
    <3>1. client'.moded
      BY <1>8, <2>2, ClientReceivesModed
    <3>. QED  BY <3>1 DEF ModesInv
  <2>. QED  BY <2>1, <2>2
<1>9. CASE ServerReceives /\ ~client.moded
  <2>. DEFINE m == Head(toServer)
              r == IF m.kind = "mode" THEN ServerMode(server, m) ELSE ServerSlc(server, m)
  <2>1. m \in FromClient
    BY <1>9 DEF ServerReceives, IndInv
  <2>2. server' = Spoken(r) /\ toClient' = toClient \o r.out
    BY <1>9 DEF ServerReceives, ServerDoes
  <2>3. toServer # << >> /\ toServer' = Tail(toServer) /\ UNCHANGED <<client, budget>>
    BY <1>9 DEF ServerReceives
  <2>4. m.kind = "mode" => m.ack = TRUE
    <3>1. m = toServer[1] /\ 1 \in 1 .. Len(toServer)
      BY <2>3 DEF IndInv
    <3>. QED  BY <1>9, <3>1 DEF Flagged, ModesInv
  <2>5. ~server.changed => server.editmode = server.tty.modes
    BY <1>9 DEF ModesInv
  <2>. HIDE DEF m
  <2>6. ServerGood(r.s) /\ Speaks(server, r)
    <3>1. CASE m.kind = "mode"
      BY <1>2, <2>1, <2>4, <2>5, <3>1, ServerModeGood, ServerModeSpeaks
    <3>2. CASE m.kind # "mode"
      BY <1>2, <2>1, <2>5, <3>2, ServerSlcGood, ServerSlcSpeaks
    <3>. QED  BY <3>1, <3>2
  <2>. HIDE DEF r
  <2>. QED  BY <1>9, <2>2, <2>3, <2>6, ServerModes
<1>10. CASE PtyChanged /\ ~client.moded
  <2>. DEFINE r == Localstat(server)
  <2>1. server' = Spoken(r) /\ toClient' = toClient \o r.out /\ UNCHANGED <<client, toServer, budget>>
    BY <1>10 DEF PtyChanged, ServerDoes
  <2>2. ServerGood(r.s) /\ Speaks(server, r)
    BY <1>2, LocalstatGood, LocalstatSpeaks DEF ServerGood
  <2>. HIDE DEF r
  <2>. QED  BY <1>10, <2>1, <2>2, ServerModes
<1>11. CASE (ServerReceives \/ PtyChanged) /\ client.moded
  BY <1>11 DEF ServerReceives, PtyChanged, ModesInv
<1>12. ASSUME NEW tty, tty.modes \in SUBSET Bit, ProgramDoes(tty)  PROVE ModesInv'
  <2>1. /\ server'.tty.modes = tty.modes /\ server'.stty = tty.modes /\ server'.changed = TRUE
        /\ server'.editmode = server.editmode
    BY <1>2, <1>12 DEF ProgramDoes, ServerState
  <2>. QED  BY <1>12, <2>1 DEF ProgramDoes, ModesInv
<1>13. ASSUME NEW f \in Func, NEW ch \in Char \cup {VDISABLE}, Stty(f, ch)  PROVE ModesInv'
  <2>1. [server.tty EXCEPT !.chars[f] = ch].modes \in SUBSET Bit
    BY <1>2 DEF ServerState
  <2>. QED  BY <1>12, <1>13, <2>1 DEF Stty
<1>14. ASSUME NEW modes \in SUBSET Bit, SttyMode(modes)  PROVE ModesInv'
  <2>1. [server.tty EXCEPT !.modes = modes].modes \in SUBSET Bit
    BY <1>2 DEF ServerState
  <2>. QED  BY <1>12, <1>14, <2>1 DEF SttyMode
<1>15. CASE UNCHANGED vars
  BY <1>15 DEF vars, ModesInv
<1>. QED  BY <1>3, <1>4, <1>5, <1>6, <1>7, <1>8, <1>9, <1>10, <1>11, <1>13, <1>14, <1>15 DEF Next

(***************************************************************************)
(* However fast the programs change the modes of the pty, and however late *)
(* the acknowledgements of localstat()'s changes come, with nothing on its *)
(* way both ends are in the modes the programs set: clientstat() looks at  *)
(* the pty before it believes an acknowledgement.                          *)
(***************************************************************************)
THEOREM LinemodeModesFollow == Spec => []ModesFollow
<1>1. ModesInv => ModesFollow
  <2>. SUFFICES ASSUME ModesInv, Quiet, ~client.moded
                PROVE  /\ client.linemode = server.editmode
                       /\ server.editmode = server.tty.modes
                       /\ server.tty.modes = server.stty
    BY DEF ModesFollow
  <2>1. Latest(client.linemode, toClient, server.editmode) /\ toClient = << >>
    BY DEF ModesInv, Quiet
  <2>2. client.linemode = server.editmode
    BY <2>1 DEF Latest
  <2>. QED  BY <2>2 DEF ModesInv, Quiet
<1>. QED  BY <1>1, Inductive, ModesInit, ModesNext, PTL DEF Spec

-----------------------------------------------------------------------------
(* What the ends think of a character.  First what a queue says of it.     *)

\* One setting is the other, but for the value of a disabled character.
Fits(t, u) == t.level = u.level /\ (t.level # NOSUPPORT => t.val = u.val)

\* m is more than the acknowledgement of a setting of f.
Proposes(m, f) == f \in About(m) /\ ~m.settings[f].ack

\* Nothing in q is about f.
Untold(q, f) == \A i \in 1 .. Len(q) : f \notin About(q[i])

\* What q says last of f, if anything, is u.
LastWord(q, f, u) ==
    \A i \in 1 .. Len(q) :
        f \in About(q[i]) /\ (\A j \in i + 1 .. Len(q) : f \notin About(q[j]))
            => Fits(q[i].settings[f], u)

Unproposed(q, f) == \A i \in 1 .. Len(q) : ~Proposes(q[i], f)

\* The last proposal for f in q is u.
WasProposed(q, f, u) ==
    \E i \in 1 .. Len(q) :
        /\ Proposes(q[i], f) /\ Same(u, q[i].settings[f])
        /\ \A j \in i + 1 .. Len(q) : ~Proposes(q[j], f)

\* The elements of joined sequences, and of a tail.
LEMMA JoinedAt ==
    ASSUME NEW S, NEW p \in Seq(S), NEW q \in Seq(S)
    PROVE  /\ p \o q \in Seq(S) /\ Len(p \o q) = Len(p) + Len(q)
           /\ Len(p) \in Nat /\ Len(q) \in Nat
           /\ \A i \in 1 .. Len(p) : (p \o q)[i] = p[i]
           /\ \A i \in 1 .. Len(q) : (p \o q)[Len(p) + i] = q[i]
           /\ \A i \in Len(p) + 1 .. Len(p) + Len(q) : (p \o q)[i] = q[i - Len(p)]
OBVIOUS

LEMMA TailAt ==
    ASSUME NEW S, NEW q \in Seq(S), q # << >>
    PROVE  /\ Tail(q) \in Seq(S) /\ Len(q) \in Nat /\ Len(q) > 0 /\ Len(Tail(q)) = Len(q) - 1
           /\ Head(q) = q[1] /\ Head(q) \in S
           /\ \A i \in 1 .. Len(q) - 1 : Tail(q)[i] = q[i + 1]
OBVIOUS

LEMMA UntoldMore ==
    ASSUME NEW S, NEW p \in Seq(S), NEW q \in Seq(S), NEW f
    PROVE  Untold(p \o q, f) <=> Untold(p, f) /\ Untold(q, f)
<1>. DEFINE r == p \o q
<1>1. /\ Len(r) = Len(p) + Len(q) /\ Len(p) \in Nat /\ Len(q) \in Nat
      /\ \A i \in 1 .. Len(p) : r[i] = p[i]
      /\ \A i \in 1 .. Len(q) : r[Len(p) + i] = q[i]
      /\ \A i \in Len(p) + 1 .. Len(p) + Len(q) : r[i] = q[i - Len(p)]
  BY JoinedAt
<1>. HIDE DEF r
<1>2. ASSUME Untold(r, f) PROVE Untold(p, f) /\ Untold(q, f)
  <2>1. ASSUME NEW i \in 1 .. Len(p) PROVE f \notin About(p[i])
    <3>1. i \in 1 .. Len(r)
      BY <1>1
    <3>. QED  BY <1>1, <1>2, <3>1 DEF Untold
  <2>2. ASSUME NEW i \in 1 .. Len(q) PROVE f \notin About(q[i])
    <3>1. Len(p) + i \in 1 .. Len(r)
      BY <1>1
    <3>. QED  BY <1>1, <1>2, <3>1 DEF Untold
  <2>. QED  BY <2>1, <2>2 DEF Untold
<1>3. ASSUME Untold(p, f), Untold(q, f) PROVE Untold(r, f)
  <2>. SUFFICES ASSUME NEW i \in 1 .. Len(r) PROVE f \notin About(r[i])
    BY DEF Untold
  <2>1. CASE i <= Len(p)
    <3>1. i \in 1 .. Len(p)
      BY <1>1, <2>1
    <3>. QED  BY <1>1, <1>3, <3>1 DEF Untold
  <2>2. CASE i > Len(p)
    <3>1. i \in Len(p) + 1 .. Len(p) + Len(q) /\ i - Len(p) \in 1 .. Len(q)
      BY <1>1, <2>2
    <3>. QED  BY <1>1, <1>3, <3>1 DEF Untold
  <2>. QED  BY <1>1, <2>1, <2>2
<1>. QED  BY <1>2, <1>3 DEF r

\* What is said later counts.
LEMMA LastWordMore ==
    ASSUME NEW S, NEW p \in Seq(S), NEW q \in Seq(S), NEW f, NEW u,
           LastWord(q, f, u), Untold(q, f) => LastWord(p, f, u)
    PROVE  LastWord(p \o q, f, u)
<1>. DEFINE r == p \o q
<1>1. /\ Len(r) = Len(p) + Len(q) /\ Len(p) \in Nat /\ Len(q) \in Nat
      /\ \A i \in 1 .. Len(p) : r[i] = p[i]
      /\ \A i \in 1 .. Len(q) : r[Len(p) + i] = q[i]
      /\ \A i \in Len(p) + 1 .. Len(p) + Len(q) : r[i] = q[i - Len(p)]
  BY JoinedAt
<1>. HIDE DEF r
<1>2. ASSUME NEW i \in 1 .. Len(r), f \in About(r[i]),
             \A j \in i + 1 .. Len(r) : f \notin About(r[j])
      PROVE  Fits(r[i].settings[f], u)
  <2>1. CASE i <= Len(p)
    <3>1. i \in 1 .. Len(p) /\ r[i] = p[i]
      BY <1>1, <2>1
    <3>2. ASSUME NEW j \in 1 .. Len(q) PROVE f \notin About(q[j])
      <4>1. Len(p) + j \in i + 1 .. Len(r)
        BY <1>1, <2>1
      <4>. QED  BY <1>1, <1>2, <4>1
    <3>3. ASSUME NEW j \in i + 1 .. Len(p) PROVE f \notin About(p[j])
      <4>1. j \in i + 1 .. Len(r) /\ j \in 1 .. Len(p)
        BY <1>1, <3>1
      <4>. QED  BY <1>1, <1>2, <4>1
    <3>4. LastWord(p, f, u)
      BY <3>2 DEF Untold
    <3>. QED  BY <1>2, <3>1, <3>3, <3>4 DEF LastWord
  <2>2. CASE i > Len(p)
    <3>. DEFINE k == i - Len(p)
    <3>1. k \in 1 .. Len(q) /\ r[i] = q[k]
      BY <1>1, <2>2
    <3>2. ASSUME NEW j \in k + 1 .. Len(q) PROVE f \notin About(q[j])
      <4>1. Len(p) + j \in i + 1 .. Len(r) /\ j \in 1 .. Len(q)
        BY <1>1, <2>2, <3>1
      <4>. QED  BY <1>1, <1>2, <4>1
    <3>. HIDE DEF k
    <3>. QED  BY <1>2, <3>1, <3>2 DEF LastWord
  <2>. QED  BY <1>1, <2>1, <2>2
<1>. QED  BY <1>2 DEF LastWord, r

\* What is left when the first message is taken.
LEMMA LastWordTail ==
    ASSUME NEW S, NEW q \in Seq(S), q # << >>, NEW f, NEW u, LastWord(q, f, u)
    PROVE  /\ LastWord(Tail(q), f, u)
           /\ Untold(Tail(q), f) => \/ Untold(q, f)
                                    \/ f \in About(Head(q)) /\ Fits(Head(q).settings[f], u)
<1>. DEFINE t == Tail(q)
            n == Len(q)
<1>1. /\ n \in Nat /\ n > 0 /\ Len(t) = n - 1 /\ Head(q) = q[1]
      /\ \A i \in 1 .. n - 1 : t[i] = q[i + 1]
  BY TailAt
<1>2. \A i \in 2 .. n : i - 1 \in 1 .. n - 1 /\ t[i - 1] = q[i]
  BY <1>1
<1>. HIDE DEF t
<1>3. ASSUME NEW i \in 1 .. Len(t), f \in About(t[i]),
             \A j \in i + 1 .. Len(t) : f \notin About(t[j])
      PROVE  Fits(t[i].settings[f], u)
  <2>1. i + 1 \in 1 .. n /\ t[i] = q[i + 1]
    BY <1>1
  <2>2. ASSUME NEW j \in (i + 1) + 1 .. n PROVE f \notin About(q[j])
    <3>1. j \in 2 .. n /\ j - 1 \in i + 1 .. Len(t)
      BY <1>1
    <3>. QED  BY <1>2, <1>3, <3>1
  <2>. HIDE DEF n
  <2>. QED  BY <1>3, <2>1, <2>2 DEF LastWord, n
<1>4. ASSUME Untold(t, f)
      PROVE  Untold(q, f) \/ (f \in About(q[1]) /\ Fits(q[1].settings[f], u))
  <2>1. ASSUME NEW i \in 2 .. n PROVE f \notin About(q[i])
    <3>1. i - 1 \in 1 .. Len(t) /\ t[i - 1] = q[i]
      BY <1>1, <1>2
    <3>. QED  BY <1>4, <3>1 DEF Untold
  <2>2. 1 \in 1 .. n /\ \A j \in 1 + 1 .. n : j \in 2 .. n
    BY <1>1
  <2>3. CASE f \in About(q[1])
    BY <2>1, <2>2, <2>3 DEF LastWord
  <2>4. CASE f \notin About(q[1])
    <3>1. \A i \in 1 .. n : i = 1 \/ i \in 2 .. n
      BY <1>1
    <3>. QED  BY <2>1, <2>4, <3>1 DEF Untold
  <2>. QED  BY <2>3, <2>4
<1>. QED  BY <1>1, <1>3, <1>4 DEF LastWord, t

\* A proposal stays the last until there is another.
LEMMA ProposedMore ==
    ASSUME NEW S, NEW p \in Seq(S), NEW q \in Seq(S), NEW f
    PROVE  /\ Unproposed(p \o q, f) <=> Unproposed(p, f) /\ Unproposed(q, f)
           /\ \A u : WasProposed(p \o q, f, u)
                       <=> WasProposed(q, f, u) \/ (Unproposed(q, f) /\ WasProposed(p, f, u))
<1>. DEFINE r == p \o q
<1>1. /\ Len(r) = Len(p) + Len(q) /\ Len(p) \in Nat /\ Len(q) \in Nat
      /\ \A i \in 1 .. Len(p) : r[i] = p[i]
      /\ \A i \in 1 .. Len(q) : r[Len(p) + i] = q[i]
      /\ \A i \in Len(p) + 1 .. Len(p) + Len(q) : r[i] = q[i - Len(p)]
  BY JoinedAt
<1>. HIDE DEF r
<1>2. Unproposed(r, f) <=> Unproposed(p, f) /\ Unproposed(q, f)
  <2>1. ASSUME Unproposed(r, f) PROVE Unproposed(p, f) /\ Unproposed(q, f)
    <3>1. ASSUME NEW i \in 1 .. Len(p) PROVE ~Proposes(p[i], f)
      <4>1. i \in 1 .. Len(r)
        BY <1>1
      <4>. QED  BY <1>1, <2>1, <4>1 DEF Unproposed
    <3>2. ASSUME NEW i \in 1 .. Len(q) PROVE ~Proposes(q[i], f)
      <4>1. Len(p) + i \in 1 .. Len(r)
        BY <1>1
      <4>. QED  BY <1>1, <2>1, <4>1 DEF Unproposed
    <3>. QED  BY <3>1, <3>2 DEF Unproposed
  <2>2. ASSUME Unproposed(p, f), Unproposed(q, f), NEW i \in 1 .. Len(r) PROVE ~Proposes(r[i], f)
    <3>1. CASE i <= Len(p)
      <4>1. i \in 1 .. Len(p)
        BY <1>1, <3>1
      <4>. QED  BY <1>1, <2>2, <4>1 DEF Unproposed
    <3>2. CASE i > Len(p)
      <4>1. i \in Len(p) + 1 .. Len(p) + Len(q) /\ i - Len(p) \in 1 .. Len(q)
        BY <1>1, <3>2
      <4>. QED  BY <1>1, <2>2, <4>1 DEF Unproposed
    <3>. QED  BY <1>1, <3>1, <3>2
  <2>. QED  BY <2>1, <2>2 DEF Unproposed
<1>3. ASSUME NEW u, WasProposed(r, f, u)
      PROVE  WasProposed(q, f, u) \/ (Unproposed(q, f) /\ WasProposed(p, f, u))
  <2>1. PICK i \in 1 .. Len(r) : /\ Proposes(r[i], f) /\ Same(u, r[i].settings[f])
                                 /\ \A j \in i + 1 .. Len(r) : ~Proposes(r[j], f)
    BY <1>3 DEF WasProposed
  <2>2. CASE i <= Len(p)
    <3>1. i \in 1 .. Len(p) /\ r[i] = p[i]
      BY <1>1, <2>2
    <3>2. ASSUME NEW j \in 1 .. Len(q) PROVE ~Proposes(q[j], f)
      <4>1. Len(p) + j \in i + 1 .. Len(r)
        BY <1>1, <2>2
      <4>. QED  BY <1>1, <2>1, <4>1
    <3>3. ASSUME NEW j \in i + 1 .. Len(p) PROVE ~Proposes(p[j], f)
      <4>1. j \in i + 1 .. Len(r) /\ j \in 1 .. Len(p)
        BY <1>1, <3>1
      <4>. QED  BY <1>1, <2>1, <4>1
    <3>. QED  BY <2>1, <3>1, <3>2, <3>3 DEF Unproposed, WasProposed
  <2>3. CASE i > Len(p)
    <3>. DEFINE k == i - Len(p)
    <3>1. k \in 1 .. Len(q) /\ r[i] = q[k]
      BY <1>1, <2>3
    <3>2. ASSUME NEW j \in k + 1 .. Len(q) PROVE ~Proposes(q[j], f)
      <4>1. Len(p) + j \in i + 1 .. Len(r) /\ j \in 1 .. Len(q)
        BY <1>1, <2>3, <3>1
      <4>. QED  BY <1>1, <2>1, <4>1
    <3>. HIDE DEF k
    <3>. QED  BY <2>1, <3>1, <3>2 DEF WasProposed
  <2>. QED  BY <1>1, <2>2, <2>3
<1>4. ASSUME NEW u, WasProposed(q, f, u) PROVE WasProposed(r, f, u)
  <2>1. PICK i \in 1 .. Len(q) : /\ Proposes(q[i], f) /\ Same(u, q[i].settings[f])
                                 /\ \A j \in i + 1 .. Len(q) : ~Proposes(q[j], f)
    BY <1>4 DEF WasProposed
  <2>2. Len(p) + i \in 1 .. Len(r) /\ r[Len(p) + i] = q[i]
    BY <1>1
  <2>3. ASSUME NEW j \in (Len(p) + i) + 1 .. Len(r) PROVE ~Proposes(r[j], f)
    <3>1. j - Len(p) \in i + 1 .. Len(q) /\ j \in Len(p) + 1 .. Len(p) + Len(q)
      BY <1>1
    <3>. QED  BY <1>1, <2>1, <3>1
  <2>. QED  BY <2>1, <2>2, <2>3 DEF WasProposed
<1>5. ASSUME NEW u, Unproposed(q, f), WasProposed(p, f, u) PROVE WasProposed(r, f, u)
  <2>1. PICK i \in 1 .. Len(p) : /\ Proposes(p[i], f) /\ Same(u, p[i].settings[f])
                                 /\ \A j \in i + 1 .. Len(p) : ~Proposes(p[j], f)
    BY <1>5 DEF WasProposed
  <2>2. i \in 1 .. Len(r) /\ r[i] = p[i]
    BY <1>1
  <2>3. ASSUME NEW j \in i + 1 .. Len(r) PROVE ~Proposes(r[j], f)
    <3>1. CASE j <= Len(p)
      <4>1. j \in i + 1 .. Len(p) /\ j \in 1 .. Len(p)
        BY <1>1, <3>1
      <4>. QED  BY <1>1, <2>1, <4>1
    <3>2. CASE j > Len(p)
      <4>1. j \in Len(p) + 1 .. Len(p) + Len(q) /\ j - Len(p) \in 1 .. Len(q)
        BY <1>1, <3>2
      <4>. QED  BY <1>1, <1>5, <4>1 DEF Unproposed
    <3>. QED  BY <1>1, <3>1, <3>2
  <2>. QED  BY <2>1, <2>2, <2>3 DEF WasProposed
<1>. QED  BY <1>2, <1>3, <1>4, <1>5 DEF r

\* The last proposal is the first message, or it stays.
LEMMA ProposedTail ==
    ASSUME NEW S, NEW q \in Seq(S), q # << >>, NEW f
    PROVE  /\ Unproposed(q, f) => Unproposed(Tail(q), f)
           /\ \A u : WasProposed(q, f, u) =>
                \/ WasProposed(Tail(q), f, u)
                \/ Proposes(Head(q), f) /\ Same(u, Head(q).settings[f])
<1>. DEFINE a == Head(q)
            t == Tail(q)
<1>1. a \in S /\ t \in Seq(S) /\ q = <<a>> \o t
  OBVIOUS
<1>2. <<a>> \in Seq(S) /\ Len(<<a>>) = 1 /\ <<a>>[1] = a
  BY <1>1
<1>. DEFINE b == <<a>>
<1>3. /\ Unproposed(b \o t, f) <=> Unproposed(b, f) /\ Unproposed(t, f)
      /\ \A u : WasProposed(b \o t, f, u)
                  <=> WasProposed(t, f, u) \/ (Unproposed(t, f) /\ WasProposed(b, f, u))
  BY <1>1, <1>2, ProposedMore
<1>4. \A u : WasProposed(b, f, u) => Proposes(a, f) /\ Same(u, a.settings[f])
  <2>1. \A i \in 1 .. Len(b) : b[i] = a
    BY <1>2
  <2>. HIDE DEF b, a
  <2>. QED  BY <2>1 DEF WasProposed
<1>. HIDE DEF a, t, b
<1>. QED  BY <1>1, <1>3, <1>4 DEF a, t, b

\* A message that is no proposal is taken from behind d.
LEMMA ProposedSkip ==
    ASSUME NEW S, NEW d \in Seq(S), NEW q \in Seq(S), q # << >>, NEW f, ~Proposes(Head(q), f)
    PROVE  /\ Unproposed(d \o q, f) => Unproposed(d \o Tail(q), f)
           /\ \A u : WasProposed(d \o q, f, u) => WasProposed(d \o Tail(q), f, u)
<1>1. Tail(q) \in Seq(S)
  OBVIOUS
<1>2. /\ Unproposed(q, f) => Unproposed(Tail(q), f)
      /\ \A u : WasProposed(q, f, u) => WasProposed(Tail(q), f, u)
  BY ProposedTail
<1>. QED  BY <1>1, <1>2, ProposedMore

-----------------------------------------------------------------------------
(* What the server says of its characters.                                 *)

\* out says of f what it has become, unless it is what it was.
Tells(out, f, old, new) == LastWord(out, f, new) /\ (Untold(out, f) => new = old)

\* Messages and servers that leave no level to be decided.
Definite == {m \in FromServer : \A f \in About(m) : m.settings[f].level # DEFAULT}

Decided(s) == s \in ServerState /\ \A f \in Func : s.current[f].level # DEFAULT

LEMMA TellsMore ==
    ASSUME NEW S, NEW p \in Seq(S), NEW q \in Seq(S), NEW f, NEW a, NEW b, NEW c,
           Tells(p, f, a, b), Tells(q, f, b, c)
    PROVE  Tells(p \o q, f, a, c)
<1>1. LastWord(p \o q, f, c)
  <2>1. Untold(q, f) => LastWord(p, f, c)
    BY DEF Tells
  <2>. QED  BY <2>1, LastWordMore DEF Tells
<1>2. Untold(p \o q, f) => c = a
  BY UntoldMore DEF Tells
<1>. QED  BY <1>1, <1>2 DEF Tells

\* A sequence that is not about f.
LEMMA UntoldTells ==
    ASSUME NEW q, NEW f, NEW a, Untold(q, f)
    PROVE  Tells(q, f, a, a)
BY DEF Untold, LastWord, Tells

LEMMA ModeUntold ==
    ASSUME NEW modes, NEW ack
    PROVE  About(Mode(modes, ack)) = {}
BY DEF Mode, About

LEMMA ReportTells ==
    ASSUME NEW fs \in SUBSET Func, NEW table, NEW f
    PROVE  /\ Untold(Report(fs, table), f) <=> f \notin fs
           /\ \A a, b : /\ f \in fs => Fits(table[f], b)
                        /\ f \notin fs => a = b
                        => Tells(Report(fs, table), f, a, b)
<1>. DEFINE t == [g \in fs |-> table[g]]
            m == Slc(t)
<1>1. m.kind = "slc" /\ m.settings = t
  BY DEF Slc
<1>2. About(m) = fs /\ (f \in fs => m.settings[f] = table[f])
  BY <1>1 DEF About
<1>3. Report(fs, table) = IF fs = {} THEN << >> ELSE <<m>>
  BY DEF Report
<1>. HIDE DEF m
<1>4. CASE fs = {}
  <2>1. Untold(<< >>, f)
    BY DEF Untold
  <2>. QED  BY <1>3, <1>4, <2>1, UntoldTells
<1>5. CASE fs # {}
  <2>. DEFINE q == <<m>>
  <2>1. Len(q) = 1 /\ q[1] = m
    OBVIOUS
  <2>2. \A i \in 1 .. Len(q) : q[i] = m
    BY <2>1
  <2>3. 1 \in 1 .. Len(q)
    BY <2>1
  <2>4. Report(fs, table) = q
    BY <1>3, <1>5
  <2>. HIDE DEF q
  <2>5. Untold(q, f) <=> f \notin fs
    BY <1>2, <2>2, <2>3 DEF Untold
  <2>6. ASSUME NEW b, f \in fs => Fits(table[f], b)  PROVE LastWord(q, f, b)
    BY <1>2, <2>2, <2>6 DEF LastWord
  <2>. QED  BY <2>4, <2>5, <2>6 DEF Tells
<1>. QED  BY <1>4, <1>5

LEMMA ReportDefinite ==
    ASSUME NEW fs \in SUBSET Func, NEW table,
           \A f \in fs : table[f] \in Setting /\ table[f].level # DEFAULT
    PROVE  Report(fs, table) \in Seq(Definite)
<1>. DEFINE t == [g \in fs |-> table[g]]
            m == Slc(t)
<1>1. m \in ServerSlcs
  BY SlcMessage
<1>2. m.kind = "slc" /\ m.settings = t
  BY DEF Slc
<1>3. \A f \in About(m) : m.settings[f].level # DEFAULT
  BY <1>2 DEF About
<1>4. Report(fs, table) = IF fs = {} THEN << >> ELSE <<m>>
  BY DEF Report
<1>. HIDE DEF m
<1>5. m \in Definite
  BY <1>1, <1>3 DEF ServerSlcs, Definite
<1>. QED  BY <1>4, <1>5

LEMMA FitsItself ==
    ASSUME NEW t
    PROVE  Fits(t, t)
BY DEF Fits

\* change_slc(): the answer says what there is now.
LEMMA ChangeSlcFits ==
    ASSUME NEW f \in Func, NEW said \in Setting, NEW char
    PROVE  LET r == ChangeSlc(f, said, char)
           IN  Fits(r.answer, r.new) /\ r.new.level # DEFAULT /\ r.answer.level # DEFAULT
<1>. DEFINE own == IF DefLevel(f) = DEFAULT THEN NOSUPPORT ELSE DefLevel(f)
            default == Set(DefVal(f), own, FALSE)
            accepted == Set(said.val, said.level, TRUE)
            none == Set(VDISABLE, NOSUPPORT, FALSE)
<1>1. said.level \in Level /\ own # DEFAULT
  BY SettingFields, Levels
<1>2. /\ default.level = own /\ none.level = NOSUPPORT
      /\ accepted.level = said.level /\ accepted.val = said.val
  BY DEF Set
<1>. HIDE DEF own, default, accepted, none
<1>3. CASE said.level = NOSUPPORT
  <2>1. ChangeSlc(f, said, char) = [new |-> none, answer |-> accepted, char |-> char]
    BY <1>3, Levels DEF ChangeSlc, accepted, none
  <2>. QED  BY <1>2, <1>3, <2>1, Levels DEF Fits
<1>4. CASE said.level = DEFAULT
  <2>1. ChangeSlc(f, said, char) = [new |-> default, answer |-> default, char |-> char]
    BY <1>4, Levels DEF ChangeSlc, default, own
  <2>. QED  BY <1>1, <1>2, <2>1, FitsItself
<1>5. CASE said.level = VARIABLE_
  <2>1. ChangeSlc(f, said, char)
          = [new |-> said, answer |-> accepted, char |-> IF f \in Placed THEN said.val ELSE char]
    BY <1>5, Levels DEF ChangeSlc, accepted
  <2>. QED  BY <1>2, <1>5, <2>1, Levels DEF Fits
<1>. QED  BY <1>1, <1>3, <1>4, <1>5 DEF Level

\* What a suboption with no answer says of f is what there is already.
Heard(m, f, have) == m.kind = "slc" /\ (f \in About(m) => Ignored(have, m.settings[f]))

LEMMA SlcsTell ==
    ASSUME NEW s, Decided(s), NEW m \in FromClient, m.kind = "slc"
    PROVE  /\ Decided(ProcessSlc(s, m).s) /\ ProcessSlc(s, m).out \in Seq(Definite)
           /\ \A f \in Func :
                 /\ Tells(ProcessSlc(s, m).out, f, s.current[f], ProcessSlc(s, m).s.current[f])
                 /\ Untold(ProcessSlc(s, m).out, f) => Heard(m, f, s.current[f])
<1>. DEFINE change == [f \in {g \in DOMAIN m.settings : ~Ignored(s.current[g], m.settings[g])} |->
                          ChangeSlc(f, m.settings[f], s.tty.chars[f])]
            changed == DOMAIN change
            current == [f \in Func |-> IF f \in changed THEN change[f].new ELSE s.current[f]]
            chars == [f \in Func |-> IF f \in changed THEN change[f].char ELSE s.tty.chars[f]]
            answers == [f \in changed |-> change[f].answer]
            t == ProcessSlc(s, m).s
<1>1. /\ s \in ServerState /\ m.settings \in Settings /\ changed \in SUBSET Func
      /\ changed = {g \in DOMAIN m.settings : ~Ignored(s.current[g], m.settings[g])}
  BY MessageFields, SettingsMembers DEF FromClient, Decided
<1>2. \A f \in changed :
         /\ Fits(change[f].answer, change[f].new)
         /\ change[f].new.level # DEFAULT /\ change[f].answer.level # DEFAULT
         /\ change[f].answer \in Setting
  <2>. TAKE f \in changed
  <2>1. f \in Func /\ m.settings[f] \in Setting /\ s.tty.chars[f] \in AnyChar
    BY <1>1, SettingsMembers, ServerFields
  <2>2. f \in Placed => m.settings[f].level # DEFAULT
    BY <1>1 DEF FromClient
  <2>3. change[f] = ChangeSlc(f, m.settings[f], s.tty.chars[f])
    OBVIOUS
  <2>. HIDE DEF change, changed
  <2>. QED  BY <2>1, <2>2, <2>3, ChangeSlcFits, ChangeSlcGood
<1>3. /\ t = [s EXCEPT !.current = current, !.tty.chars = chars]
      /\ ProcessSlc(s, m).out = Report(changed, answers)
  <2>1. /\ ~(m.kind = "all" /\ m.level = DEFAULT) /\ ~(m.kind = "all" /\ m.level = VARIABLE_)
    OBVIOUS
  <2>. QED  BY <2>1 DEF ProcessSlc
<1>4. t \in ServerState
  BY <1>1, ProcessedSlcs
<1>. HIDE DEF change, changed, t
<1>5. t.current = current
  BY <1>1, <1>3 DEF ServerState
<1>6. \A f \in Func : /\ f \in changed => current[f] = change[f].new
                      /\ f \notin changed => current[f] = s.current[f]
  OBVIOUS
<1>7. \A f \in changed : answers[f] = change[f].answer
  OBVIOUS
<1>. HIDE DEF current, chars, answers
<1>8. Decided(t)
  BY <1>2, <1>4, <1>5, <1>6 DEF Decided
<1>9. Report(changed, answers) \in Seq(Definite)
  BY <1>1, <1>2, <1>7, ReportDefinite
<1>10. ASSUME NEW f \in Func
       PROVE  /\ Tells(Report(changed, answers), f, s.current[f], t.current[f])
              /\ Untold(Report(changed, answers), f) => Heard(m, f, s.current[f])
  <2>1. /\ f \in changed => Fits(answers[f], t.current[f])
        /\ f \notin changed => t.current[f] = s.current[f]
    BY <1>2, <1>5, <1>6, <1>7
  <2>2. /\ Untold(Report(changed, answers), f) <=> f \notin changed
        /\ Tells(Report(changed, answers), f, s.current[f], t.current[f])
    BY <1>1, <2>1, ReportTells
  <2>3. f \notin changed => Heard(m, f, s.current[f])
    BY <1>1 DEF Heard, About
  <2>. QED  BY <2>2, <2>3
<1>. QED  BY <1>3, <1>8, <1>9, <1>10 DEF t

\* process_slc()
LEMMA ProcessSlcTells ==
    ASSUME NEW s, Decided(s), NEW m \in FromClient, m.kind # "mode"
    PROVE  /\ Decided(ProcessSlc(s, m).s) /\ ProcessSlc(s, m).out \in Seq(Definite)
           /\ \A f \in Func :
                 /\ Tells(ProcessSlc(s, m).out, f, s.current[f], ProcessSlc(s, m).s.current[f])
                 /\ Untold(ProcessSlc(s, m).out, f) => Heard(m, f, s.current[f])
<1>0. s \in ServerState /\ \A f \in Func : s.current[f] \in Setting
  BY ServerFields DEF Decided
<1>1. m.kind \in {"slc", "all"} /\ (m.kind = "all" => m.level \in {VARIABLE_, DEFAULT})
  BY MessageFields DEF FromClient
<1>2. CASE m.kind = "slc"
  BY <1>2, SlcsTell
<1>3. CASE m.kind = "all" /\ m.level = DEFAULT
  <2>. DEFINE d == DefaultSlc(s)
  <2>1. ProcessSlc(s, m).s = d /\ ProcessSlc(s, m).out = Report(Func, d.current)
    BY <1>3, Levels DEF ProcessSlc
  <2>2. d \in ServerState
    BY <1>0, DefaultSlcGood
  <2>3. \A f \in Func : d.current[f] = Set(DefVal(f), LevelFor(DefVal(f), DefLevel(f)), FALSE)
    BY <1>0 DEF DefaultSlc, ServerState
  <2>4. \A f \in Func : LevelFor(DefVal(f), DefLevel(f)) # DEFAULT
    BY Levels DEF LevelFor, DefVal, DefLevel
  <2>5. \A f \in Func : d.current[f].level # DEFAULT
    <3>. HIDE DEF d
    <3>. TAKE f \in Func
    <3>1. d.current[f] = Set(DefVal(f), LevelFor(DefVal(f), DefLevel(f)), FALSE)
      BY <2>3
    <3>2. d.current[f].level = LevelFor(DefVal(f), DefLevel(f))
      BY <3>1 DEF Set
    <3>. QED  BY <2>4, <3>2
  <2>. HIDE DEF d
  <2>6. \A f \in Func : d.current[f] \in Setting
    BY <2>2, ServerFields
  <2>7. Report(Func, d.current) \in Seq(Definite)
    BY <2>5, <2>6, ReportDefinite
  <2>8. \A f \in Func : /\ Tells(Report(Func, d.current), f, s.current[f], d.current[f])
                        /\ ~Untold(Report(Func, d.current), f)
    BY ReportTells, FitsItself
  <2>. QED  BY <2>1, <2>2, <2>5, <2>7, <2>8 DEF Decided
<1>4. CASE m.kind = "all" /\ m.level = VARIABLE_
  <2>1. ProcessSlc(s, m).s = s /\ ProcessSlc(s, m).out = Report(Func, s.current)
    BY <1>4, Levels DEF ProcessSlc
  <2>2. Report(Func, s.current) \in Seq(Definite)
    BY <1>0, ReportDefinite DEF Decided
  <2>3. \A f \in Func : /\ Tells(Report(Func, s.current), f, s.current[f], s.current[f])
                        /\ ~Untold(Report(Func, s.current), f)
    BY ReportTells, FitsItself
  <2>. QED  BY <2>1, <2>2, <2>3
<1>. QED  BY <1>1, <1>2, <1>3, <1>4

\* check_slc()
LEMMA CheckSlcTells ==
    ASSUME NEW s, Decided(s)
    PROVE  /\ Decided(CheckSlc(s).s) /\ CheckSlc(s).out \in Seq(Definite)
           /\ \A f \in Func :
                 Tells(CheckSlc(s).out, f, s.current[f], CheckSlc(s).s.current[f])
<1>. DEFINE changed == {f \in Func : f \in Placed /\ s.tty.chars[f] # s.current[f].val}
            own(f) == Set(s.tty.chars[f], LevelFor(s.tty.chars[f], DefLevel(f)), FALSE)
            current == [f \in Func |-> IF f \in changed THEN own(f) ELSE s.current[f]]
            t == CheckSlc(s).s
<1>0. s \in ServerState
  BY DEF Decided
<1>1. t = [s EXCEPT !.current = current] /\ CheckSlc(s).out = Report(changed, current)
  BY DEF CheckSlc
<1>2. \A f \in changed : own(f).level # DEFAULT
  <2>. TAKE f \in changed
  <2>1. DefLevel(f) = VARIABLE_
    BY DEF DefLevel
  <2>2. LevelFor(s.tty.chars[f], DefLevel(f)) # DEFAULT
    BY <2>1, Levels DEF LevelFor
  <2>. QED  BY <2>2 DEF Set
<1>3. \A f \in Func : own(f) \in Setting
  BY <1>0, ServerFields, DefaultsType, LevelForType, SetType
<1>. HIDE DEF own, t
<1>4. \A f \in Func : current[f] \in Setting /\ current[f].level # DEFAULT
  BY <1>0, <1>2, <1>3, ServerFields DEF Decided
<1>5. changed \in SUBSET Func /\ \A f \in Func : f \notin changed => current[f] = s.current[f]
  OBVIOUS
<1>6. t \in ServerState /\ t.current = current
  <2>1. current \in [Func -> Setting]
    BY <1>4
  <2>. HIDE DEF current
  <2>. QED  BY <1>0, <1>1, <2>1 DEF ServerState
<1>. HIDE DEF changed, current
<1>7. Report(changed, current) \in Seq(Definite)
  BY <1>4, <1>5, ReportDefinite
<1>8. \A f \in Func : Tells(Report(changed, current), f, s.current[f], current[f])
  BY <1>5, ReportTells, FitsItself
<1>. QED  BY <1>1, <1>4, <1>6, <1>7, <1>8 DEF Decided, t

\* A step of the server that leaves the characters alone.
Quietly(s, r) ==
    /\ Decided(r.s) /\ r.s.current = s.current /\ r.s.dumped = s.dumped
    /\ r.s.terminit = s.terminit /\ r.s.deferred = s.deferred /\ r.s.changed = s.changed
    /\ r.out \in Seq(Definite)
    /\ \A i \in 1 .. Len(r.out) : r.out[i].kind = "mode"

\* A step with localstat() in it: what was deferred has been dealt with.
Opened(s, r) ==
    /\ Decided(r.s) /\ r.s.dumped = s.dumped
    /\ r.s.terminit = TRUE /\ r.s.deferred = << >>
    /\ r.out \in Seq(Definite)
    /\ \A f \in Func :
          /\ LastWord(r.out, f, r.s.current[f])
          /\ s.deferred = << >> => Tells(r.out, f, s.current[f], r.s.current[f])
          /\ s.deferred # << >> /\ Untold(r.out, f)
                => Heard(Head(s.deferred), f, r.s.current[f])

\* A message about modes.
LEMMA ModeDefinite ==
    ASSUME NEW modes \in SUBSET Bit, NEW ack \in BOOLEAN
    PROVE  /\ <<Mode(modes, ack)>> \in Seq(Definite)
           /\ \A i \in 1 .. Len(<<Mode(modes, ack)>>) : <<Mode(modes, ack)>>[i].kind = "mode"
           /\ \A f : Untold(<<Mode(modes, ack)>>, f)
<1>. DEFINE m == Mode(modes, ack)
<1>1. m \in FromServer /\ About(m) = {} /\ m.kind = "mode"
  BY ModeType, ModeUntold DEF Mode
<1>. HIDE DEF m
<1>2. m \in Definite
  BY <1>1 DEF Definite
<1>3. \A i \in 1 .. Len(<<m>>) : <<m>>[i] = m
  OBVIOUS
<1>. QED  BY <1>1, <1>2, <1>3 DEF Untold, m

LEMMA ModesNewsTell ==
    ASSUME NEW s \in ServerState
    PROVE  ModesNews(s) \in Seq(Definite) /\ \A f : Untold(ModesNews(s), f)
<1>1. s.tty.modes \in SUBSET Bit
  BY ServerFields
<1>2. << >> \in Seq(Definite) /\ \A f : Untold(<< >>, f)
  BY DEF Untold
<1>. QED  BY <1>1, <1>2, ModeDefinite DEF ModesNews

\* localstat()
LEMMA LocalstatOpens ==
    ASSUME NEW s, Decided(s), s.deferred \in Seq(Held)
    PROVE  Opened(s, Localstat(s))
<1>. DEFINE e == [s EXCEPT !.editmode = s.tty.modes, !.changed = FALSE]
            c == CheckSlc(e)
            g == [c.s EXCEPT !.terminit = TRUE]
            d == DeferSlc(g)
            first == IF s.deferred = << >> THEN c.out ELSE << >>
            modes == ModesNews(s)
            r == Localstat(s)
<1>0. s \in ServerState
  BY DEF Decided
<1>1. r.s = d.s /\ r.out = modes \o first \o d.out
  BY DEF Localstat, ModesNews
<1>2. /\ Decided(e) /\ e.current = s.current /\ e.deferred = s.deferred /\ e.dumped = s.dumped
  <2>1. /\ e \in ServerState /\ e.current = s.current /\ e.deferred = s.deferred
        /\ e.dumped = s.dumped
    BY <1>0, ServerFields DEF ServerState
  <2>. QED  BY <2>1 DEF Decided
<1>. HIDE DEF e
<1>3. /\ Decided(c.s) /\ c.out \in Seq(Definite) /\ Keeps(e, c.s)
      /\ \A f \in Func : Tells(c.out, f, s.current[f], c.s.current[f])
  <2>1. Keeps(e, c.s)
    BY <1>2, CheckSlcGood DEF Decided
  <2>. QED  BY <1>2, <2>1, CheckSlcTells
<1>. HIDE DEF c
<1>4. /\ Decided(g) /\ g.current = c.s.current /\ g.deferred = s.deferred
      /\ g.dumped = s.dumped /\ g.terminit = TRUE
  <2>1. /\ g \in ServerState /\ g.current = c.s.current /\ g.deferred = c.s.deferred
        /\ g.dumped = c.s.dumped /\ g.terminit = TRUE
    BY <1>3 DEF ServerState, Decided
  <2>. HIDE DEF g
  <2>. QED  BY <1>2, <1>3, <2>1 DEF Decided, Keeps
<1>. HIDE DEF g
<1>5. modes \in Seq(Definite) /\ \A f : Untold(modes, f)
  BY <1>0, ModesNewsTell
<1>. HIDE DEF modes, r
<1>6. CASE s.deferred = << >>
  <2>1. d.s = g /\ d.out = << >>
    BY <1>4, <1>6 DEF DeferSlc
  <2>2. << >> \in Seq(Definite) /\ \A f : Untold(<< >>, f)
    BY DEF Untold
  <2>3. r.s = g /\ r.out = modes \o c.out
    BY <1>1, <1>3, <1>5, <1>6, <2>1
  <2>4. r.out \in Seq(Definite)
    BY <1>3, <1>5, <2>3
  <2>5. ASSUME NEW f \in Func PROVE Tells(r.out, f, s.current[f], r.s.current[f])
    <3>1. Tells(modes, f, s.current[f], s.current[f])
      BY <1>5, UntoldTells
    <3>2. Tells(c.out, f, s.current[f], g.current[f])
      BY <1>3, <1>4
    <3>. QED  BY <1>3, <1>5, <2>3, <3>1, <3>2, TellsMore
  <2>6. \A f \in Func : LastWord(r.out, f, r.s.current[f])
    BY <2>5 DEF Tells
  <2>7. Opened(s, r)
    BY <1>4, <1>6, <2>3, <2>4, <2>5, <2>6 DEF Opened
  <2>. QED  BY <2>7 DEF r
<1>7. CASE s.deferred # << >>
  <2>. DEFINE m == Head(s.deferred)
              h == [g EXCEPT !.deferred = << >>]
              p == ProcessSlc(h, m)
  <2>1. /\ Decided(h) /\ h.current = g.current /\ h.deferred = << >>
        /\ h.dumped = g.dumped /\ h.terminit = TRUE
    <3>1. << >> \in Seq(Message)
      OBVIOUS
    <3>2. /\ h \in ServerState /\ h.current = g.current /\ h.deferred = << >>
          /\ h.dumped = g.dumped /\ h.terminit = TRUE
      BY <1>4, <3>1 DEF ServerState, Decided
    <3>. HIDE DEF h
    <3>. QED  BY <1>4, <3>2 DEF Decided
  <2>2. m \in FromClient /\ m.kind # "mode"
    BY <1>7, HeldTypes
  <2>3. d = p
    BY <1>4, <1>7 DEF DeferSlc
  <2>. HIDE DEF h, m
  <2>4. /\ Decided(p.s) /\ p.out \in Seq(Definite) /\ Keeps(h, p.s)
        /\ \A f \in Func : /\ Tells(p.out, f, h.current[f], p.s.current[f])
                           /\ Untold(p.out, f) => Heard(m, f, h.current[f])
    <3>1. Keeps(h, p.s)
      BY <2>1, <2>2, ProcessSlcGood DEF Decided
    <3>. QED  BY <2>1, <2>2, <3>1, ProcessSlcTells
  <2>. HIDE DEF p
  <2>5. r.s = p.s /\ r.out = modes \o p.out
    BY <1>1, <1>5, <1>7, <2>3, <2>4
  <2>6. r.out \in Seq(Definite)
    BY <1>5, <2>4, <2>5
  <2>7. ASSUME NEW f \in Func
        PROVE  /\ LastWord(r.out, f, r.s.current[f])
               /\ Untold(r.out, f) => Heard(m, f, r.s.current[f])
    <3>1. LastWord(modes, f, r.s.current[f])
      BY <1>5 DEF LastWord, Untold
    <3>2. LastWord(r.out, f, r.s.current[f])
      BY <1>5, <2>4, <2>5, <3>1, LastWordMore DEF Tells
    <3>3. Untold(r.out, f) => Untold(p.out, f)
      BY <1>5, <2>4, <2>5, UntoldMore
    <3>. QED  BY <2>4, <2>5, <3>2, <3>3 DEF Tells
  <2>8. /\ Decided(r.s) /\ r.s.dumped = s.dumped
        /\ r.s.terminit = TRUE /\ r.s.deferred = << >>
    BY <1>4, <2>1, <2>4, <2>5 DEF Keeps
  <2>9. Opened(s, r)
    BY <1>7, <2>6, <2>7, <2>8 DEF Opened, m
  <2>. QED  BY <2>9 DEF r
<1>. QED  BY <1>6, <1>7 DEF r

\* clientstat(LM_MODE)
LEMMA ServerModeTells ==
    ASSUME NEW s, Decided(s), s.deferred \in Seq(Held), NEW m \in FromClient, m.kind = "mode"
    PROVE  Quietly(s, ServerMode(s, m)) \/ Opened(s, ServerMode(s, m))
<1>. DEFINE changed == SymDiff(m.modes, s.editmode)
            l == IF m.ack THEN Localstat(s) ELSE [s |-> s, out |-> << >>]
            use == IF m.ack THEN s.tty.modes ELSE m.modes
            modes == (s.tty.modes \ changed) \cup (use \cap changed)
            reply == IF m.ack THEN << >> ELSE <<Mode(use, TRUE)>>
            r == ServerMode(s, m)
<1>0. s \in ServerState /\ m.modes \in SUBSET Bit /\ m.ack \in BOOLEAN
  BY MessageFields DEF FromClient, Decided
<1>1. CASE changed = {}
  <2>1. r.s = s /\ r.out = << >>
    BY <1>1 DEF ServerMode
  <2>2. << >> \in Seq(Definite)
    OBVIOUS
  <2>. QED  BY <2>1, <2>2 DEF Quietly
<1>2. CASE changed # {}
  <2>1. r.s = [l.s EXCEPT !.tty.modes = modes, !.editmode = use] /\ r.out = l.out \o reply
    BY <1>2 DEF ServerMode
  <2>2. use \in SUBSET Bit /\ modes \in SUBSET Bit
    BY <1>0, ServerFields
  <2>3. ASSUME Decided(l.s)
        PROVE  /\ Decided(r.s) /\ r.s.current = l.s.current /\ r.s.dumped = l.s.dumped
               /\ r.s.terminit = l.s.terminit /\ r.s.deferred = l.s.deferred
               /\ r.s.changed = l.s.changed
    <3>. DEFINE t == l.s
    <3>1. t \in ServerState /\ r.s = [t EXCEPT !.tty.modes = modes, !.editmode = use]
      BY <2>1, <2>3 DEF Decided
    <3>. HIDE DEF l, use, modes, t, r
    <3>2. /\ r.s \in ServerState /\ r.s.current = t.current /\ r.s.dumped = t.dumped
          /\ r.s.terminit = t.terminit /\ r.s.deferred = t.deferred
          /\ r.s.changed = t.changed
      <4>. DEFINE tty == [t.tty EXCEPT !.modes = modes]
      <4>1. tty \in [chars : [Func -> AnyChar], modes : SUBSET Bit]
        BY <2>2, <3>1 DEF ServerState
      <4>2. r.s = [t EXCEPT !.tty = tty, !.editmode = use]
        BY <3>1 DEF ServerState
      <4>. HIDE DEF tty
      <4>. QED  BY <2>2, <3>1, <4>1, <4>2 DEF ServerState
    <3>. QED  BY <2>3, <3>2 DEF Decided, t
  <2>4. CASE m.ack
    <3>1. l = Localstat(s) /\ Opened(s, l)
      BY <2>4, LocalstatOpens
    <3>2. reply = << >>
      BY <2>4
    <3>. HIDE DEF l, use, modes, r, reply
    <3>3. l.out \in Seq(Definite) /\ Decided(l.s)
      BY <3>1 DEF Opened
    <3>4. r.out = l.out
      BY <2>1, <3>2, <3>3
    <3>5. /\ Decided(r.s) /\ r.s.current = l.s.current /\ r.s.dumped = l.s.dumped
          /\ r.s.terminit = l.s.terminit /\ r.s.deferred = l.s.deferred
      BY <2>3, <3>3
    <3>6. Opened(s, r)
      BY <3>1, <3>4, <3>5 DEF Opened
    <3>. QED  BY <3>6 DEF r
  <2>5. CASE ~m.ack
    <3>1. l.s = s /\ l.out = << >> /\ reply = <<Mode(use, TRUE)>>
      BY <2>5
    <3>. DEFINE q == <<Mode(use, TRUE)>>
    <3>2. q \in Seq(Definite) /\ \A i \in 1 .. Len(q) : q[i].kind = "mode"
      BY <2>2, ModeDefinite
    <3>3. r.out = << >> \o q
      BY <2>1, <3>1
    <3>. HIDE DEF l, use, modes, q, r
    <3>4. r.out = q
      BY <3>2, <3>3
    <3>5. Quietly(s, r)
      BY <2>3, <3>1, <3>2, <3>4 DEF Quietly
    <3>. QED  BY <3>5 DEF r
  <2>. QED  BY <1>0, <2>4, <2>5
<1>. QED  BY <1>1, <1>2

-----------------------------------------------------------------------------
(* What the client makes of a character and says of it.                    *)

\* What was not proposed is left as it was.
Offers(c, r) ==
    \A f \in Func \cap Known :
        WasProposed(r.out, f, r.c.spc[f]) \/ (Unproposed(r.out, f) /\ r.c.spc[f] = c.spc[f])

\* What m says is taken, and nothing is proposed.
Adopts(c, m, r) ==
    \A f \in Func \cap Known :
        /\ Unproposed(r.out, f)
        /\ IF f \in About(m) THEN Fits(r.c.spc[f], m.settings[f]) ELSE r.c.spc[f] = c.spc[f]

LEMMA AboutNothing ==
    ASSUME NEW q, NEW f, \A i \in 1 .. Len(q) : q[i].kind # "slc"
    PROVE  Untold(q, f) /\ Unproposed(q, f)
BY DEF Untold, Unproposed, Proposes, About

LEMMA KnownLevel ==
    ASSUME NEW f \in Func \cap Known
    PROVE  MyLevel(f) \in {VARIABLE_, DEFAULT} /\ f \in Func
BY DEF MyLevel

LEMMA ReportProposes ==
    ASSUME NEW fs \in SUBSET Func, NEW table, NEW f
    PROVE  /\ f \in fs /\ table[f].ack = FALSE => WasProposed(Report(fs, table), f, table[f])
           /\ f \notin fs \/ table[f].ack = TRUE => Unproposed(Report(fs, table), f)
<1>. DEFINE t == [g \in fs |-> table[g]]
            m == Slc(t)
            q == <<m>>
<1>1. m.kind = "slc" /\ m.settings = t
  BY DEF Slc
<1>2. About(m) = fs /\ (f \in fs => m.settings[f] = table[f])
  BY <1>1 DEF About
<1>3. Report(fs, table) = IF fs = {} THEN << >> ELSE q
  BY DEF Report
<1>. HIDE DEF m
<1>4. Len(q) = 1 /\ q[1] = m /\ 1 \in 1 .. Len(q) /\ \A j \in 1 + 1 .. Len(q) : FALSE
  OBVIOUS
<1>5. \A i \in 1 .. Len(q) : q[i] = m
  BY <1>4
<1>. HIDE DEF q
<1>6. ASSUME f \in fs, table[f].ack = FALSE  PROVE WasProposed(Report(fs, table), f, table[f])
  <2>1. Proposes(m, f) /\ Same(table[f], m.settings[f])
    BY <1>2, <1>6 DEF Proposes, Same
  <2>2. WasProposed(q, f, table[f])
    BY <1>4, <2>1 DEF WasProposed
  <2>. QED  BY <1>3, <1>6, <2>2
<1>7. ASSUME f \notin fs \/ table[f].ack = TRUE  PROVE Unproposed(Report(fs, table), f)
  <2>1. ~Proposes(m, f)
    BY <1>2, <1>7 DEF Proposes
  <2>2. Unproposed(q, f)
    BY <1>5, <2>1 DEF Unproposed
  <2>3. Unproposed(<< >>, f)
    BY DEF Unproposed
  <2>. QED  BY <1>3, <2>2, <2>3
<1>. QED  BY <1>6, <1>7

\* slc_check() and slc_export()
LEMMA CheckedOffers ==
    ASSUME NEW c \in ClientState
    PROVE  Offers(c, Checked(c))
<1>. DEFINE changed == {f \in Func : HasValp(f) /\ c.spc[f].val # c.term[f]}
            own(f) == Set(c.term[f], LevelFor(c.term[f], MyLevel(f)), FALSE)
            spc == [f \in Func |-> IF f \in changed THEN own(f) ELSE c.spc[f]]
            r == Checked(c)
<1>1. /\ r.c = [c EXCEPT !.spc = spc, !.unset = c.unset \ changed] /\ r.out = Report(changed, spc)
  BY DEF Checked
<1>2. \A f \in Func : /\ f \in changed => spc[f].ack = FALSE
                      /\ f \notin changed => spc[f] = c.spc[f]
  BY DEF Set
<1>3. changed \in SUBSET Func
  OBVIOUS
<1>. HIDE DEF own, changed, spc, r
<1>4. r.c.spc = spc
  BY <1>1 DEF ClientState
<1>5. ASSUME NEW f \in Func \cap Known
      PROVE  WasProposed(r.out, f, r.c.spc[f]) \/ (Unproposed(r.out, f) /\ r.c.spc[f] = c.spc[f])
  <2>1. /\ f \in changed /\ spc[f].ack = FALSE => WasProposed(Report(changed, spc), f, spc[f])
        /\ f \notin changed => Unproposed(Report(changed, spc), f)
    BY <1>3, ReportProposes
  <2>2. f \in Func
    OBVIOUS
  <2>. QED  BY <1>1, <1>2, <1>4, <2>1, <2>2
<1>. QED  BY <1>5 DEF Offers, r

LEMMA ExportedOffers ==
    ASSUME NEW c \in ClientState
    PROVE  /\ Offers(c, Exported(c))
           /\ \A f \in Func \cap Known :
                 WasProposed(Exported(c).out, f, Exported(c).c.spc[f])
<1>. DEFINE known == {f \in Func : MyLevel(f) # NOSUPPORT}
            own(f) == Set(IF HasValp(f) THEN DefaultChars[f] ELSE c.spc[f].val,
                          LevelFor(c.spc[f].val, MyLevel(f)), FALSE)
            spc == [f \in Func |-> IF f \notin known THEN c.spc[f] ELSE own(f)]
            r == Exported(c)
<1>1. r.c = [c EXCEPT !.term = DefaultChars, !.spc = spc, !.unset = {}] /\ r.out = Report(known, spc)
  BY DEF Exported
<1>2. \A f \in Func : f \in known => spc[f].ack = FALSE
  BY DEF Set
<1>3. known \in SUBSET Func /\ \A f \in Func \cap Known : f \in known
  BY KnownLevel, Levels
<1>. HIDE DEF own, known, spc, r
<1>4. r.c.spc = spc
  BY <1>1 DEF ClientState
<1>5. ASSUME NEW f \in Func \cap Known
      PROVE  WasProposed(r.out, f, r.c.spc[f])
  <2>1. f \in known /\ spc[f].ack = FALSE => WasProposed(Report(known, spc), f, spc[f])
    BY <1>3, ReportProposes
  <2>2. f \in Func
    OBVIOUS
  <2>. QED  BY <1>1, <1>2, <1>3, <1>4, <2>1, <2>2
<1>. QED  BY <1>5 DEF Offers, r

\* slc() takes what it is told of a known character, whatever it was.
LEMMA NewSettingTakes ==
    ASSUME NEW f \in Func \cap Known, NEW have \in Setting, NEW said \in Setting,
           said.level # DEFAULT
    PROVE  /\ Fits(NewSetting(f, have, said), said)
           /\ Answered(have, said) => NewSetting(f, have, said).ack = TRUE
<1>. DEFINE taken == Set(said.val, said.level, TRUE)
<1>1. taken.val = said.val /\ taken.level = said.level /\ taken.ack = TRUE
  BY DEF Set
<1>2. said.level <= MyLevel(f)
  BY SettingFields, KnownLevel, LevelsOrdered
<1>3. CASE Same(have, said)
  <2>1. NewSetting(f, have, said) = have
    BY <1>3 DEF NewSetting, Acknowledges
  <2>. QED  BY <1>3, <2>1 DEF Same, Fits, Answered
<1>4. CASE Acknowledges(have, said)
  <2>. DEFINE t == Set(said.val, said.level, said.level # DEFAULT)
  <2>1. NewSetting(f, have, said) = t
    BY <1>4 DEF NewSetting, Acknowledges
  <2>2. t.val = said.val /\ t.level = said.level
    BY DEF Set
  <2>. HIDE DEF t
  <2>. QED  BY <1>4, <2>1, <2>2 DEF Fits, Answered
<1>5. CASE ~Same(have, said) /\ ~Acknowledges(have, said)
  <2>1. NewSetting(f, have, said) = taken
    BY <1>2, <1>5 DEF NewSetting
  <2>. HIDE DEF taken
  <2>. QED  BY <1>1, <2>1 DEF Fits
<1>. QED  BY <1>3, <1>4, <1>5

LEMMA ClientSlcAdopts ==
    ASSUME NEW c, ClientGood(c), NEW m \in Definite, m.kind = "slc"
    PROVE  Adopts(c, m, ClientSlc(c, m.settings))
<1>. DEFINE settings == m.settings
            spc == [f \in Func |-> IF f \in DOMAIN settings
                                   THEN NewSetting(f, c.spc[f], settings[f]) ELSE c.spc[f]]
            fs == {f \in DOMAIN settings : Answered(c.spc[f], settings[f])}
            d == [c EXCEPT !.spc = spc]
            r == ClientSlc(c, settings)
<1>1. /\ c \in ClientState /\ c.spc \in [Func -> Setting]
      /\ \A f \in Func : c.spc[f] \in Setting /\ c.spc[f].ack = FALSE
  BY ClientFields DEF ClientGood
<1>2. settings \in Settings /\ About(m) = DOMAIN settings
  BY MessageFields DEF Definite, FromServer, About
<1>3. r.c = Updated(d) /\ r.out = Report(fs, spc)
  BY DEF ClientSlc
<1>4. fs \in SUBSET Func
  BY <1>2, SettingsMembers
<1>5. \A f \in Func \cap Known :
         /\ IF f \in DOMAIN settings THEN Fits(spc[f], settings[f]) ELSE spc[f] = c.spc[f]
         /\ f \in fs => spc[f].ack = TRUE
  <2>. TAKE f \in Func \cap Known
  <2>1. CASE f \in DOMAIN settings
    <3>1. settings[f] \in Setting /\ settings[f].level # DEFAULT
      BY <1>2, <2>1, SettingsMembers DEF Definite
    <3>2. spc[f] = NewSetting(f, c.spc[f], settings[f])
      BY <2>1
    <3>3. /\ Fits(NewSetting(f, c.spc[f], settings[f]), settings[f])
          /\ Answered(c.spc[f], settings[f]) => NewSetting(f, c.spc[f], settings[f]).ack = TRUE
      BY <1>1, <3>1, NewSettingTakes
    <3>4. f \in fs => Answered(c.spc[f], settings[f])
      OBVIOUS
    <3>. HIDE DEF spc, fs, settings
    <3>. QED  BY <2>1, <3>2, <3>3, <3>4
  <2>2. CASE f \notin DOMAIN settings
    BY <2>2
  <2>. QED  BY <2>1, <2>2
<1>6. spc = [f \in Func |-> spc[f]]
  OBVIOUS
<1>. HIDE DEF spc, fs, settings
<1>7. d.spc = spc
  BY <1>1 DEF ClientState
<1>. HIDE DEF d, r
<1>8. r.c.spc = [f \in Func |-> [spc[f] EXCEPT !.ack = FALSE]]
  <2>1. Updated(d).spc = [f \in Func |-> [d.spc[f] EXCEPT !.ack = FALSE]]
    BY <1>1 DEF Updated, d, ClientState
  <2>. QED  BY <1>3, <1>7, <2>1
<1>9. ASSUME NEW f \in Func \cap Known
      PROVE  /\ Unproposed(r.out, f)
             /\ IF f \in About(m) THEN Fits(r.c.spc[f], settings[f]) ELSE r.c.spc[f] = c.spc[f]
  <2>1. Unproposed(r.out, f)
    BY <1>3, <1>4, <1>5, ReportProposes
  <2>2. r.c.spc[f] = [spc[f] EXCEPT !.ack = FALSE]
    BY <1>8
  <2>3. CASE f \in About(m)
    BY <1>2, <1>5, <2>1, <2>2, <2>3 DEF Fits
  <2>4. CASE f \notin About(m)
    <3>1. spc[f] = c.spc[f] /\ c.spc[f] \in Setting /\ c.spc[f].ack = FALSE
      BY <1>1, <1>2, <1>5, <2>4
    <3>2. [c.spc[f] EXCEPT !.ack = FALSE] = c.spc[f]
      BY <3>1 DEF Setting
    <3>. QED  BY <2>1, <2>2, <2>4, <3>1, <3>2
  <2>. QED  BY <2>3, <2>4
<1>. QED  BY <1>9 DEF Adopts, r, settings

\* lm_mode()
LEMMA ClientModeOffers ==
    ASSUME NEW c \in ClientState, NEW modes, NEW ack, NEW init
    PROVE  LET r == ClientMode(c, modes, ack, init)
           IN  r.c.spc = c.spc /\ \A f : Unproposed(r.out, f)
<1>. DEFINE r == ClientMode(c, modes, ack, init)
<1>1. CASE ack \/ modes = c.linemode
  <2>1. r.c = c /\ r.out = << >>
    BY <1>1 DEF ClientMode
  <2>. HIDE DEF r
  <2>. QED  BY <2>1 DEF Unproposed, r
<1>2. CASE ~(ack \/ modes = c.linemode)
  <2>. DEFINE q == <<Mode(modes, ~init)>>
  <2>1. r.c = [c EXCEPT !.linemode = modes] /\ r.out = q
    BY <1>2 DEF ClientMode
  <2>2. \A i \in 1 .. Len(q) : q[i].kind # "slc"
    BY DEF Mode
  <2>. HIDE DEF q, r
  <2>3. r.c.spc = c.spc
    BY <2>1 DEF ClientState
  <2>. QED  BY <2>1, <2>2, <2>3, AboutNothing DEF r
<1>. QED  BY <1>1, <1>2

-----------------------------------------------------------------------------
(* The ends agree.                                                         *)

\* m makes the server say what it has of f, unless that is what m says.
Asks(m, f) == m.kind = "all" \/ Proposes(m, f)

\* The first suboption of q that is about characters does.
Asked(q, f) ==
    \E i \in 1 .. Len(q) : Asks(q[i], f) /\ \A j \in 1 .. i - 1 : q[j].kind = "mode"

(***************************************************************************)
(* What the server has of f is what it says last of it; and once the       *)
(* client has heard all that, what it has is the same or it is the last    *)
(* that it proposes, unless that was discarded.  Before the first          *)
(* localstat() nothing has been said of f, and the first word that the     *)
(* server will hear makes it speak.                                        *)
(***************************************************************************)
AgreesOn(f, have, s, up, down) ==
    /\ LastWord(down, f, s.current[f])
    /\ f \notin s.dumped /\ Untold(down, f)
         => Fits(have, s.current[f]) \/ WasProposed(s.deferred \o up, f, have)
    /\ ~s.terminit =>
         /\ s.deferred = << >> => Asked(up, f)
         /\ s.deferred # << >> => Asks(Head(s.deferred), f)
         /\ f \notin s.dumped => \/ Unproposed(s.deferred \o up, f)
                                 \/ WasProposed(s.deferred \o up, f, have)

\* localstat() has been called, or will be, and nothing but modes is sent.
Starts(s, down) ==
    /\ Decided(s) /\ s.deferred \in Seq(Held)
    /\ down \in Seq(Definite)
    /\ s.terminit => s.deferred = << >>
    /\ ~s.terminit => /\ s.changed
                      /\ Len(s.deferred) <= 1
                      /\ \A i \in 1 .. Len(down) : down[i].kind = "mode"

AgreeInv ==
    /\ Starts(server, toClient)
    /\ \A f \in Func \cap Known :
          AgreesOn(f, client.spc[f], server, toServer, toClient)

LEMMA AskedMore ==
    ASSUME NEW S, NEW p \in Seq(S), NEW q \in Seq(S), NEW f, Asked(p, f)
    PROVE  Asked(p \o q, f)
<1>. DEFINE r == p \o q
<1>1. /\ Len(r) = Len(p) + Len(q) /\ Len(p) \in Nat /\ Len(q) \in Nat
      /\ \A i \in 1 .. Len(p) : r[i] = p[i]
  BY JoinedAt
<1>. HIDE DEF r
<1>2. PICK i \in 1 .. Len(p) : Asks(p[i], f) /\ \A j \in 1 .. i - 1 : p[j].kind = "mode"
  BY DEF Asked
<1>3. i \in 1 .. Len(r) /\ \A j \in 1 .. i - 1 : j \in 1 .. Len(p)
  BY <1>1
<1>. QED  BY <1>1, <1>2, <1>3 DEF Asked, r

LEMMA AskedTail ==
    ASSUME NEW S, NEW q \in Seq(S), q # << >>, NEW f, Asked(q, f)
    PROVE  IF Head(q).kind = "mode" THEN Asked(Tail(q), f) ELSE Asks(Head(q), f)
<1>. DEFINE t == Tail(q)
            n == Len(q)
<1>1. /\ n \in Nat /\ n > 0 /\ Len(t) = n - 1 /\ Head(q) = q[1]
      /\ \A i \in 1 .. n - 1 : t[i] = q[i + 1]
  BY TailAt
<1>2. PICK i \in 1 .. n : Asks(q[i], f) /\ \A j \in 1 .. i - 1 : q[j].kind = "mode"
  BY DEF Asked
<1>. HIDE DEF t, n
<1>3. CASE i = 1
  BY <1>1, <1>2, <1>3 DEF Asks, Proposes, About
<1>4. CASE i # 1
  <2>1. 1 \in 1 .. i - 1
    BY <1>1, <1>4
  <2>2. Head(q).kind = "mode"
    BY <1>1, <1>2, <2>1
  <2>3. i - 1 \in 1 .. Len(t) /\ t[i - 1] = q[i]
    BY <1>1, <1>4
  <2>4. ASSUME NEW j \in 1 .. (i - 1) - 1 PROVE t[j].kind = "mode"
    <3>1. j + 1 \in 1 .. i - 1 /\ t[j] = q[j + 1]
      BY <1>1
    <3>. QED  BY <1>2, <3>1
  <2>5. Asked(t, f)
    BY <1>2, <2>3, <2>4 DEF Asked
  <2>. QED  BY <2>2, <2>5 DEF t
<1>. QED  BY <1>3, <1>4

\* Definite messages are the server's.
LEMMA DefiniteWide == \A q \in Seq(Definite) : q \in Seq(FromServer)
BY DEF Definite

\* What the server sends, and of what it is silent.
LEMMA SpokenDumped ==
    ASSUME NEW r, r.s \in ServerState, r.out \in Seq(Definite), NEW f
    PROVE  f \notin Spoken(r).dumped /\ Untold(r.out, f) => f \notin r.s.dumped
<1>1. DOMAIN r.out = 1 .. Len(r.out)
  OBVIOUS
<1>2. Spoken(r).dumped = r.s.dumped \ UNION {About(r.out[i]) : i \in DOMAIN r.out}
  BY SpokenIs
<1>. QED  BY <1>1, <1>2 DEF Untold

\* Without more from the server.
LEMMA SpokenNothing ==
    ASSUME NEW r, r.s \in ServerState, r.out \in Seq(Definite), \A f : Untold(r.out, f)
    PROVE  Spoken(r).dumped = r.s.dumped
<1>1. DOMAIN r.out = 1 .. Len(r.out)
  OBVIOUS
<1>2. Spoken(r).dumped = r.s.dumped \ UNION {About(r.out[i]) : i \in DOMAIN r.out}
  BY SpokenIs
<1>3. UNION {About(r.out[i]) : i \in DOMAIN r.out} = {}
  BY <1>1 DEF Untold
<1>. QED  BY <1>2, <1>3

LEMMA FitsTransitive ==
    ASSUME NEW t, NEW u, NEW v, Fits(t, u), Fits(u, v)
    PROVE  Fits(t, v)
BY DEF Fits

\* Of the messages up, one about modes at most is taken.
Taken(up, rest) == rest = up \/ (up # << >> /\ Head(up).kind = "mode" /\ rest = Tail(up))

LEMMA ModesTaken ==
    ASSUME NEW d \in Seq(FromClient), NEW up \in Seq(FromClient), NEW rest, Taken(up, rest)
    PROVE  /\ rest \in Seq(FromClient)
           /\ \A f : /\ Asked(up, f) => Asked(rest, f)
                     /\ Unproposed(d \o up, f) => Unproposed(d \o rest, f)
                     /\ \A u : WasProposed(d \o up, f, u) => WasProposed(d \o rest, f, u)
<1>1. CASE rest = up
  BY <1>1
<1>2. CASE up # << >> /\ Head(up).kind = "mode" /\ rest = Tail(up)
  <2>1. rest \in Seq(FromClient)
    BY <1>2
  <2>2. ASSUME NEW f PROVE ~Proposes(Head(up), f)
    BY <1>2 DEF Proposes, About
  <2>. QED  BY <1>2, <2>1, <2>2, AskedTail, ProposedSkip
<1>. QED  BY <1>1, <1>2 DEF Taken

LEMMA HeldWide == \A d \in Seq(Held) : d \in Seq(FromClient)
BY DEF Held

\* A step of the server that has localstat() in it.
LEMMA OpenedAgrees ==
    ASSUME NEW s, NEW down, Starts(s, down), NEW r, Opened(s, r),
           NEW up \in Seq(FromClient), NEW rest, Taken(up, rest)
    PROVE  /\ Starts(Spoken(r), down \o r.out)
           /\ \A f \in Func \cap Known : \A have :
                 AgreesOn(f, have, s, up, down)
                    => AgreesOn(f, have, Spoken(r), rest, down \o r.out)
<1>. DEFINE t == Spoken(r)
            far == down \o r.out
<1>1. /\ r.s \in ServerState /\ r.s.dumped = s.dumped /\ r.out \in Seq(Definite)
      /\ down \in Seq(Definite) /\ s.deferred \in Seq(FromClient)
  BY HeldWide DEF Opened, Starts, Decided
<1>2. /\ t \in ServerState /\ t.current = r.s.current /\ t.terminit = TRUE
      /\ t.deferred = << >>
      /\ \A f : f \notin t.dumped /\ Untold(r.out, f) => f \notin s.dumped
  BY <1>1, SpokenIs, SpokenDumped DEF Opened
<1>3. Starts(t, far)
  <2>1. Decided(t)
    BY <1>2 DEF Opened, Decided
  <2>2. << >> \in Seq(Held) /\ far \in Seq(Definite)
    BY <1>1
  <2>. QED  BY <1>2, <2>1, <2>2 DEF Starts
<1>4. /\ rest \in Seq(FromClient) /\ << >> \in Seq(FromClient) /\ << >> \o rest = rest
      /\ \A f, u : WasProposed(s.deferred \o up, f, u) => WasProposed(s.deferred \o rest, f, u)
      /\ \A f : Unproposed(s.deferred \o up, f) => Unproposed(s.deferred \o rest, f)
  <2>1. rest \in Seq(FromClient)
    BY <1>1, ModesTaken
  <2>2. << >> \o rest = rest
    BY <2>1
  <2>3. << >> \in Seq(FromClient)
    OBVIOUS
  <2>4. \A f : /\ Unproposed(s.deferred \o up, f) => Unproposed(s.deferred \o rest, f)
               /\ \A u : WasProposed(s.deferred \o up, f, u) => WasProposed(s.deferred \o rest, f, u)
    BY <1>1, ModesTaken
  <2>. QED  BY <2>1, <2>2, <2>3, <2>4
<1>5. ASSUME NEW f \in Func \cap Known, NEW have, AgreesOn(f, have, s, up, down)
      PROVE  AgreesOn(f, have, t, rest, far)
  <2>1. /\ LastWord(r.out, f, t.current[f])
        /\ Untold(far, f) <=> Untold(down, f) /\ Untold(r.out, f)
    BY <1>1, <1>2, UntoldMore DEF Opened
  <2>2. CASE s.deferred = << >>
    <3>1. Tells(r.out, f, s.current[f], t.current[f])
      BY <1>2, <2>2 DEF Opened
    <3>2. LastWord(far, f, t.current[f])
      <4>1. Untold(r.out, f) => LastWord(down, f, t.current[f])
        BY <1>5, <3>1 DEF Tells, AgreesOn
      <4>. QED  BY <1>1, <2>1, <4>1, LastWordMore
    <3>3. ASSUME f \notin t.dumped, Untold(far, f)
          PROVE  Fits(have, t.current[f]) \/ WasProposed(rest, f, have)
      <4>1. f \notin s.dumped /\ Untold(down, f) /\ t.current[f] = s.current[f]
        BY <1>2, <2>1, <3>1, <3>3 DEF Tells
      <4>2. Fits(have, s.current[f]) \/ WasProposed(s.deferred \o rest, f, have)
        BY <1>4, <1>5, <4>1 DEF AgreesOn
      <4>. QED  BY <1>4, <2>2, <4>1, <4>2
    <3>. QED  BY <1>2, <1>4, <3>2, <3>3 DEF AgreesOn
  <2>3. CASE s.deferred # << >>
    <3>. DEFINE h == Head(s.deferred)
    <3>1. ~s.terminit /\ s.deferred = <<h>> /\ h \in FromClient /\ h.kind # "mode"
      <4>1. ~s.terminit /\ Len(s.deferred) <= 1
        BY <2>3 DEF Starts
      <4>2. s.deferred = <<h>>
        BY <1>1, <2>3, <4>1
      <4>. QED  BY <2>3, <4>1, <4>2, HeldTypes DEF Starts
    <3>2. Untold(down, f) /\ \A u : LastWord(down, f, u)
      <4>1. \A i \in 1 .. Len(down) : f \notin About(down[i])
        BY <3>1 DEF Starts, About
      <4>. QED  BY <4>1 DEF Untold, LastWord
    <3>3. LastWord(far, f, t.current[f])
      BY <1>1, <2>1, <3>2, LastWordMore
    <3>4. ASSUME f \notin t.dumped, Untold(far, f)
          PROVE  Fits(have, t.current[f]) \/ WasProposed(rest, f, have)
      <4>1. f \notin s.dumped /\ Heard(h, f, t.current[f]) /\ Asks(h, f)
        BY <1>2, <1>5, <2>1, <2>3, <3>1, <3>4 DEF Opened, AgreesOn
      <4>2. Proposes(h, f) /\ Same(t.current[f], h.settings[f])
        BY <4>1 DEF Heard, Asks, Proposes, Ignored
      <4>3. \/ Unproposed(<<h>> \o rest, f)
            \/ WasProposed(<<h>> \o rest, f, have)
        BY <1>4, <1>5, <3>1, <4>1 DEF AgreesOn
      <4>. DEFINE d == <<h>>
      <4>4. d \in Seq(FromClient) /\ 1 \in 1 .. Len(d) /\ \A i \in 1 .. Len(d) : d[i] = h
        BY <3>1
      <4>. HIDE DEF d, h
      <4>5. ~Unproposed(d, f) /\ (WasProposed(d, f, have) => Same(have, h.settings[f]))
        <5>1. ~Unproposed(d, f)
          BY <4>2, <4>4 DEF Unproposed
        <5>2. WasProposed(d, f, have) => Same(have, h.settings[f])
          BY <4>4 DEF WasProposed
        <5>. QED  BY <5>1, <5>2
      <4>6. WasProposed(rest, f, have) \/ WasProposed(d, f, have)
        BY <1>4, <4>3, <4>4, <4>5, ProposedMore DEF d
      <4>7. Same(have, h.settings[f]) => Fits(have, t.current[f])
        BY <4>2 DEF Same, Fits
      <4>. QED  BY <4>5, <4>6, <4>7
    <3>. HIDE DEF h, far, t
    <3>. QED  BY <1>2, <1>4, <3>3, <3>4 DEF AgreesOn
  <2>. QED  BY <2>2, <2>3
<1>. QED  BY <1>3, <1>5

\* A step of the server that is only about modes.
LEMMA QuietlyAgrees ==
    ASSUME NEW s, NEW down, Starts(s, down), NEW r, Quietly(s, r),
           NEW up \in Seq(FromClient), NEW rest, Taken(up, rest)
    PROVE  /\ Starts(Spoken(r), down \o r.out)
           /\ \A f \in Func \cap Known : \A have :
                 AgreesOn(f, have, s, up, down)
                    => AgreesOn(f, have, Spoken(r), rest, down \o r.out)
<1>. DEFINE t == Spoken(r)
            far == down \o r.out
<1>1. /\ r.s \in ServerState /\ r.s.dumped = s.dumped /\ r.out \in Seq(Definite)
      /\ down \in Seq(Definite) /\ s.deferred \in Seq(FromClient)
  BY HeldWide DEF Quietly, Starts, Decided
<1>2. \A f : Untold(r.out, f) /\ \A u : LastWord(r.out, f, u)
  <2>1. \A i \in 1 .. Len(r.out) : r.out[i].kind # "slc"
    BY DEF Quietly
  <2>. QED  BY <2>1, AboutNothing DEF LastWord, Untold
<1>3. /\ t \in ServerState /\ t.current = s.current /\ t.terminit = s.terminit
      /\ t.deferred = s.deferred /\ t.changed = s.changed /\ t.dumped = s.dumped
  BY <1>1, <1>2, SpokenIs, SpokenNothing DEF Quietly
<1>4. Starts(t, far)
  <2>1. Decided(t)
    BY <1>3 DEF Starts, Decided
  <2>2. far \in Seq(Definite)
    BY <1>1
  <2>3. ASSUME ~s.terminit, NEW i \in 1 .. Len(far)  PROVE far[i].kind = "mode"
    <3>1. /\ Len(far) = Len(down) + Len(r.out) /\ Len(down) \in Nat /\ Len(r.out) \in Nat
          /\ \A j \in 1 .. Len(down) : far[j] = down[j]
          /\ \A j \in Len(down) + 1 .. Len(down) + Len(r.out) : far[j] = r.out[j - Len(down)]
      BY <1>1, JoinedAt
    <3>. HIDE DEF far
    <3>2. i \in 1 .. Len(down) \/ (i \in Len(down) + 1 .. Len(down) + Len(r.out)
                                   /\ i - Len(down) \in 1 .. Len(r.out))
      BY <3>1
    <3>. QED  BY <2>3, <3>1, <3>2 DEF Starts, Quietly
  <2>. HIDE DEF t, far
  <2>. QED  BY <1>3, <2>1, <2>2, <2>3 DEF Starts
<1>5. /\ \A f, u : WasProposed(s.deferred \o up, f, u) => WasProposed(s.deferred \o rest, f, u)
      /\ \A f : Unproposed(s.deferred \o up, f) => Unproposed(s.deferred \o rest, f)
      /\ \A f : Asked(up, f) => Asked(rest, f)
  BY <1>1, ModesTaken
<1>6. ASSUME NEW f \in Func \cap Known, NEW have, AgreesOn(f, have, s, up, down)
      PROVE  AgreesOn(f, have, t, rest, far)
  <2>1. Untold(far, f) <=> Untold(down, f)
    BY <1>1, <1>2, UntoldMore
  <2>2. LastWord(far, f, s.current[f])
    BY <1>1, <1>2, <1>6, LastWordMore DEF AgreesOn
  <2>. HIDE DEF t, far
  <2>. QED  BY <1>3, <1>5, <1>6, <2>1, <2>2 DEF AgreesOn
<1>. QED  BY <1>4, <1>6

\* process_slc(), after the first localstat()
LEMMA ProcessedAgrees ==
    ASSUME NEW s, NEW down, Starts(s, down), s.terminit,
           NEW up \in Seq(FromClient), up # << >>, Head(up).kind # "mode"
    PROVE  LET r == ProcessSlc(s, Head(up))
           IN  /\ Starts(Spoken(r), down \o r.out)
               /\ \A f \in Func \cap Known : \A have :
                     AgreesOn(f, have, s, up, down)
                        => AgreesOn(f, have, Spoken(r), Tail(up), down \o r.out)
<1>. DEFINE m == Head(up)
            rest == Tail(up)
            r == ProcessSlc(s, m)
            t == Spoken(r)
            far == down \o r.out
<1>1. /\ s \in ServerState /\ Decided(s) /\ s.deferred = << >> /\ down \in Seq(Definite)
      /\ m \in FromClient /\ rest \in Seq(FromClient)
  BY DEF Starts, Decided
<1>2. /\ Decided(r.s) /\ r.out \in Seq(Definite) /\ Keeps(s, r.s)
      /\ \A f \in Func : /\ Tells(r.out, f, s.current[f], r.s.current[f])
                         /\ Untold(r.out, f) => Heard(m, f, s.current[f])
  BY <1>1, ProcessSlcTells, ProcessSlcGood
<1>3. \A f, u : /\ Unproposed(up, f) => Unproposed(rest, f)
                /\ WasProposed(up, f, u) => \/ WasProposed(rest, f, u)
                                            \/ Proposes(m, f) /\ Same(u, m.settings[f])
  BY ProposedTail
<1>. HIDE DEF r
<1>4. /\ t \in ServerState /\ t.current = r.s.current /\ t.terminit = s.terminit
      /\ t.deferred = << >>
      /\ \A f : f \notin t.dumped /\ Untold(r.out, f) => f \notin s.dumped
  BY <1>1, <1>2, SpokenIs, SpokenDumped DEF Decided, Keeps
<1>5. Starts(t, far)
  <2>1. Decided(t)
    BY <1>2, <1>4 DEF Decided
  <2>2. << >> \in Seq(Held) /\ far \in Seq(Definite)
    BY <1>1, <1>2
  <2>. QED  BY <1>4, <2>1, <2>2 DEF Starts
<1>6. << >> \o up = up /\ << >> \o rest = rest
  BY <1>1
<1>7. ASSUME NEW f \in Func \cap Known, NEW have, AgreesOn(f, have, s, up, down)
      PROVE  AgreesOn(f, have, t, rest, far)
  <2>1. /\ Tells(r.out, f, s.current[f], t.current[f])
        /\ Untold(r.out, f) => Heard(m, f, s.current[f])
        /\ Untold(far, f) <=> Untold(down, f) /\ Untold(r.out, f)
    BY <1>1, <1>2, <1>4, UntoldMore
  <2>2. LastWord(far, f, t.current[f])
    <3>1. Untold(r.out, f) => LastWord(down, f, t.current[f])
      BY <1>7, <2>1 DEF Tells, AgreesOn
    <3>. QED  BY <1>1, <1>2, <2>1, <3>1, LastWordMore DEF Tells
  <2>3. ASSUME f \notin t.dumped, Untold(far, f)
        PROVE  Fits(have, t.current[f]) \/ WasProposed(rest, f, have)
    <3>1. /\ f \notin s.dumped /\ Untold(down, f) /\ t.current[f] = s.current[f]
          /\ Heard(m, f, s.current[f])
      BY <1>4, <2>1, <2>3 DEF Tells
    <3>2. Fits(have, s.current[f]) \/ WasProposed(up, f, have)
      BY <1>1, <1>6, <1>7, <3>1 DEF AgreesOn
    <3>3. Proposes(m, f) /\ Same(have, m.settings[f]) => Fits(have, s.current[f])
      BY <3>1 DEF Heard, Proposes, Ignored, Same, Fits
    <3>. QED  BY <1>3, <3>1, <3>2, <3>3
  <2>. HIDE DEF t, far, rest, m
  <2>. QED  BY <1>4, <1>6, <2>2, <2>3 DEF AgreesOn
<1>. QED  BY <1>5, <1>7 DEF r

\* do_opt_slc(), before it
LEMMA WaitsAgrees ==
    ASSUME NEW s, NEW down, Starts(s, down), ~s.terminit,
           NEW up \in Seq(FromClient), up # << >>, Head(up).kind # "mode"
    PROVE  LET r == ServerSlc(s, Head(up))
           IN  /\ Starts(Spoken(r), down \o r.out)
               /\ \A f \in Func \cap Known : \A have :
                     AgreesOn(f, have, s, up, down)
                        => AgreesOn(f, have, Spoken(r), Tail(up), down \o r.out)
<1>. DEFINE m == Head(up)
            rest == Tail(up)
            r == ServerSlc(s, m)
            t == Spoken(r)
<1>1. /\ s \in ServerState /\ Decided(s) /\ down \in Seq(Definite)
      /\ s.deferred \in Seq(FromClient) /\ s.deferred \in Seq(Held)
      /\ m \in FromClient /\ m \in Held /\ m \in Message /\ rest \in Seq(FromClient)
      /\ up = <<m>> \o rest
  BY HeldWide DEF Starts, Decided, Held, FromClient
<1>2. /\ r.s = IF s.deferred = << >> THEN [s EXCEPT !.deferred = <<m>>]
               ELSE [s EXCEPT !.dumped = s.dumped \cup About(m)]
      /\ r.out = << >>
  BY DEF ServerSlc
<1>3. down \o r.out = down
  BY <1>1, <1>2
<1>4. r.out \in Seq(Definite) /\ \A f : Untold(r.out, f)
  <2>1. << >> \in Seq(Definite) /\ \A f : Untold(<< >>, f)
    BY DEF Untold
  <2>. HIDE DEF r
  <2>. QED  BY <1>2, <2>1
<1>5. CASE s.deferred = << >>
  <2>1. /\ r.s \in ServerState /\ r.s.current = s.current /\ r.s.terminit = s.terminit
        /\ r.s.deferred = <<m>> /\ r.s.changed = s.changed /\ r.s.dumped = s.dumped
    <3>1. <<m>> \in Seq(Message)
      BY <1>1
    <3>2. r.s = [s EXCEPT !.deferred = <<m>>]
      BY <1>2, <1>5
    <3>. HIDE DEF r, m
    <3>. QED  BY <1>1, <3>1, <3>2 DEF ServerState
  <2>. HIDE DEF r
  <2>2. /\ t \in ServerState /\ t.current = s.current /\ t.terminit = s.terminit
        /\ t.deferred = <<m>> /\ t.changed = s.changed /\ t.dumped = s.dumped
    BY <1>4, <2>1, SpokenIs, SpokenNothing
  <2>. HIDE DEF t
  <2>3. Starts(t, down)
    <3>1. Decided(t)
      BY <1>1, <2>2 DEF Decided
    <3>. DEFINE d == <<m>>
    <3>2. d \in Seq(Held) /\ Len(d) <= 1
      BY <1>1
    <3>. HIDE DEF d
    <3>. QED  BY <2>2, <3>1, <3>2 DEF Starts, d
  <2>4. t.deferred \o rest = s.deferred \o up /\ t.deferred # << >> /\ Head(t.deferred) = m
    BY <1>1, <1>5, <2>2
  <2>5. ASSUME NEW f \in Func \cap Known, NEW have, AgreesOn(f, have, s, up, down)
        PROVE  AgreesOn(f, have, t, rest, down)
    <3>1. Asks(m, f)
      <4>1. Asked(up, f)
        BY <1>5, <2>5 DEF AgreesOn
      <4>. QED  BY <4>1, AskedTail
    <3>. HIDE DEF m, rest
    <3>. QED  BY <2>2, <2>4, <2>5, <3>1 DEF AgreesOn
  <2>. QED  BY <1>3, <2>3, <2>5 DEF r, t
<1>6. CASE s.deferred # << >>
  <2>1. /\ r.s \in ServerState /\ r.s.current = s.current /\ r.s.terminit = s.terminit
        /\ r.s.deferred = s.deferred /\ r.s.changed = s.changed
        /\ r.s.dumped = s.dumped \cup About(m)
    <3>1. s.dumped \cup About(m) \in SUBSET Func
      BY <1>1, AboutType, ServerFields
    <3>2. r.s = [s EXCEPT !.dumped = s.dumped \cup About(m)]
      BY <1>2, <1>6
    <3>. HIDE DEF r, m
    <3>. QED  BY <1>1, <3>1, <3>2 DEF ServerState
  <2>. HIDE DEF r
  <2>2. /\ t \in ServerState /\ t.current = s.current /\ t.terminit = s.terminit
        /\ t.deferred = s.deferred /\ t.changed = s.changed
        /\ t.dumped = s.dumped \cup About(m)
    BY <1>4, <2>1, SpokenIs, SpokenNothing
  <2>. HIDE DEF t
  <2>3. Starts(t, down)
    <3>1. Decided(t)
      BY <1>1, <2>2 DEF Decided
    <3>. QED  BY <2>2, <3>1 DEF Starts
  <2>4. ASSUME NEW f \in Func \cap Known, NEW have, AgreesOn(f, have, s, up, down)
        PROVE  AgreesOn(f, have, t, rest, down)
    <3>1. f \notin t.dumped => f \notin s.dumped /\ ~Proposes(m, f)
      BY <2>2 DEF Proposes
    <3>2. f \notin t.dumped
            => /\ Unproposed(s.deferred \o up, f) => Unproposed(s.deferred \o rest, f)
               /\ WasProposed(s.deferred \o up, f, have)
                    => WasProposed(s.deferred \o rest, f, have)
      BY <1>1, <3>1, ProposedSkip
    <3>. HIDE DEF m, rest
    <3>. QED  BY <1>6, <2>2, <2>4, <3>1, <3>2 DEF AgreesOn
  <2>. QED  BY <1>3, <2>3, <2>4 DEF r, t
<1>. QED  BY <1>5, <1>6

\* The client has heard what came first.
LEMMA AdoptsAgrees ==
    ASSUME NEW s, NEW down, Starts(s, down), down # << >>,
           NEW c, NEW r, Adopts(c, Head(down), r), r.out \in Seq(FromClient),
           NEW up \in Seq(FromClient)
    PROVE  /\ Starts(s, Tail(down))
           /\ \A f \in Func \cap Known :
                 AgreesOn(f, c.spc[f], s, up, down)
                    => AgreesOn(f, r.c.spc[f], s, up \o r.out, Tail(down))
<1>. DEFINE m == Head(down)
            near == Tail(down)
            all == s.deferred \o up
            more == s.deferred \o (up \o r.out)
<1>1. /\ down \in Seq(Definite) /\ s.deferred \in Seq(FromClient)
      /\ near \in Seq(Definite) /\ m \in Definite
      /\ all \in Seq(FromClient) /\ more = all \o r.out
  <2>1. s.deferred \in Seq(FromClient) /\ down \in Seq(Definite)
    BY HeldWide DEF Starts
  <2>. DEFINE d == s.deferred
              o == r.out
  <2>2. d \in Seq(FromClient) /\ o \in Seq(FromClient)
    BY <2>1
  <2>. HIDE DEF d, o
  <2>3. d \o up \in Seq(FromClient) /\ d \o (up \o o) = (d \o up) \o o
    BY <2>2
  <2>. QED  BY <2>1, <2>3 DEF d, o
<1>2. ~s.terminit => About(m) = {} /\ \A i \in 1 .. Len(near) : near[i].kind = "mode"
  <2>. SUFFICES ASSUME ~s.terminit
                PROVE  About(m) = {} /\ \A i \in 1 .. Len(near) : near[i].kind = "mode"
    OBVIOUS
  <2>1. \A i \in 1 .. Len(down) : down[i].kind = "mode"
    BY DEF Starts
  <2>2. /\ Len(down) \in Nat /\ Len(down) > 0 /\ Len(near) = Len(down) - 1 /\ m = down[1]
        /\ \A i \in 1 .. Len(down) - 1 : near[i] = down[i + 1]
    BY TailAt DEF Starts
  <2>. HIDE DEF m, near
  <2>3. m.kind = "mode"
    BY <2>1, <2>2
  <2>4. \A i \in 1 .. Len(near) : near[i].kind = "mode"
    BY <2>1, <2>2
  <2>. QED  BY <2>3, <2>4 DEF About
<1>3. Starts(s, near)
  BY <1>1, <1>2 DEF Starts
<1>4. ASSUME NEW f \in Func \cap Known, AgreesOn(f, c.spc[f], s, up, down)
      PROVE  AgreesOn(f, r.c.spc[f], s, up \o r.out, near)
  <2>. DEFINE have == c.spc[f]
              now == r.c.spc[f]
              u == s.current[f]
  <2>1. /\ Unproposed(r.out, f)
        /\ IF f \in About(m) THEN Fits(now, m.settings[f]) ELSE now = have
    BY DEF Adopts
  <2>2. /\ LastWord(near, f, u)
        /\ Untold(near, f) => Untold(down, f) \/ (f \in About(m) /\ Fits(m.settings[f], u))
    BY <1>1, <1>4, LastWordTail DEF AgreesOn
  <2>3. Untold(down, f) => f \notin About(m)
    <3>1. 1 \in 1 .. Len(down) /\ m = down[1]
      BY <1>1
    <3>. QED  BY <3>1 DEF Untold
  <2>4. /\ Unproposed(more, f) <=> Unproposed(all, f)
        /\ WasProposed(all, f, have) => WasProposed(more, f, have)
    <3>. HIDE DEF all, more
    <3>1. /\ Unproposed(all \o r.out, f) <=> Unproposed(all, f) /\ Unproposed(r.out, f)
          /\ WasProposed(all \o r.out, f, have)
               <=> \/ WasProposed(r.out, f, have)
                   \/ Unproposed(r.out, f) /\ WasProposed(all, f, have)
      BY <1>1, ProposedMore
    <3>. QED  BY <1>1, <2>1, <3>1
  <2>5. ASSUME f \notin s.dumped, Untold(near, f)
        PROVE  Fits(now, u) \/ WasProposed(more, f, now)
    <3>1. CASE f \in About(m)
      BY <2>1, <2>2, <2>3, <2>5, <3>1, FitsTransitive
    <3>2. CASE f \notin About(m)
      BY <1>4, <2>1, <2>2, <2>4, <2>5, <3>2 DEF AgreesOn
    <3>. QED  BY <3>1, <3>2
  <2>6. s.deferred = << >> /\ Asked(up, f) => Asked(up \o r.out, f)
    BY AskedMore
  <2>7. ~s.terminit => now = have
    BY <1>2, <2>1
  <2>. HIDE DEF have, now, u, more, all, near
  <2>8. AgreesOn(f, now, s, up \o r.out, near)
    BY <1>4, <2>2, <2>4, <2>5, <2>6, <2>7 DEF AgreesOn, more, all, have, u
  <2>. QED  BY <2>8 DEF now
<1>. QED  BY <1>3, <1>4

\* The client has changed what it proposes.
LEMMA OffersAgrees ==
    ASSUME NEW s, NEW down, Starts(s, down),
           NEW c, NEW r, Offers(c, r), r.out \in Seq(FromClient), NEW up \in Seq(FromClient)
    PROVE  \A f \in Func \cap Known :
              AgreesOn(f, c.spc[f], s, up, down)
                 => AgreesOn(f, r.c.spc[f], s, up \o r.out, down)
<1>. DEFINE all == s.deferred \o up
            more == s.deferred \o (up \o r.out)
<1>1. s.deferred \in Seq(FromClient) /\ all \in Seq(FromClient) /\ more = all \o r.out
  <2>1. s.deferred \in Seq(FromClient)
    BY HeldWide DEF Starts
  <2>. DEFINE d == s.deferred
              o == r.out
  <2>2. d \in Seq(FromClient) /\ o \in Seq(FromClient)
    BY <2>1
  <2>. HIDE DEF d, o
  <2>3. d \o up \in Seq(FromClient) /\ d \o (up \o o) = (d \o up) \o o
    BY <2>2
  <2>. QED  BY <2>1, <2>3 DEF d, o
<1>2. ASSUME NEW f \in Func \cap Known, AgreesOn(f, c.spc[f], s, up, down)
      PROVE  AgreesOn(f, r.c.spc[f], s, up \o r.out, down)
  <2>. DEFINE have == c.spc[f]
              now == r.c.spc[f]
  <2>1. WasProposed(r.out, f, now) \/ (Unproposed(r.out, f) /\ now = have)
    BY DEF Offers
  <2>2. \/ WasProposed(more, f, now)
        \/ /\ now = have /\ (Unproposed(more, f) <=> Unproposed(all, f))
           /\ WasProposed(all, f, have) => WasProposed(more, f, have)
    <3>. HIDE DEF all, more, now, have
    <3>1. /\ Unproposed(all \o r.out, f) <=> Unproposed(all, f) /\ Unproposed(r.out, f)
          /\ \A u : WasProposed(all \o r.out, f, u)
                      <=> \/ WasProposed(r.out, f, u)
                          \/ Unproposed(r.out, f) /\ WasProposed(all, f, u)
      BY <1>1, ProposedMore
    <3>. QED  BY <1>1, <2>1, <3>1
  <2>3. s.deferred = << >> /\ Asked(up, f) => Asked(up \o r.out, f)
    BY AskedMore
  <2>. HIDE DEF have, now, more, all
  <2>4. AgreesOn(f, now, s, up \o r.out, down)
    BY <1>2, <2>2, <2>3 DEF AgreesOn, more, all, have
  <2>. QED  BY <2>4 DEF now
<1>. QED  BY <1>2

\* A step of the user.
LEMMA UserAgrees ==
    ASSUME IndInv, AgreeInv, NEW c, c.spc = client.spc, NEW r, UserDoes(r), Offers(c, r),
           r.out \in Seq(FromClient)
    PROVE  AgreeInv'
<1>1. client' = r.c /\ toServer' = toServer \o r.out /\ UNCHANGED <<server, toClient>>
  BY DEF UserDoes, ClientDoes
<1>2. Starts(server, toClient) /\ toServer \in Seq(FromClient)
  BY DEF AgreeInv, IndInv
<1>3. \A f \in Func \cap Known :
         AgreesOn(f, r.c.spc[f], server, toServer \o r.out, toClient)
  BY <1>2, OffersAgrees DEF AgreeInv
<1>. QED  BY <1>1, <1>2, <1>3 DEF AgreeInv

LEMMA ClientAgrees ==
    ASSUME IndInv, AgreeInv, ClientReceives
    PROVE  AgreeInv'
<1>. DEFINE m == Head(toClient)
            r == IF m.kind = "slc" THEN ClientSlc(client, m.settings)
                 ELSE ClientMode(client, m.modes, m.ack, FALSE)
<1>1. client' = r.c /\ toServer' = toServer \o r.out
  BY DEF ClientReceives, ClientDoes
<1>2. toClient # << >> /\ toClient' = Tail(toClient) /\ server' = server
  BY DEF ClientReceives
<1>3. /\ Starts(server, toClient) /\ toServer \in Seq(FromClient) /\ m \in Definite
      /\ ClientGood(client) /\ client \in ClientState
  BY <1>2 DEF AgreeInv, IndInv, ClientGood, Starts
<1>4. m \in FromServer
  BY <1>3 DEF Definite
<1>5. Adopts(client, m, r) /\ r.out \in Seq(FromClient)
  <2>1. CASE m.kind = "slc"
    <3>1. r = ClientSlc(client, m.settings) /\ m.settings \in Settings
      BY <1>4, <2>1, MessageFields DEF FromServer
    <3>. HIDE DEF m, r
    <3>. QED  BY <1>3, <2>1, <3>1, ClientSlcAdopts, ClientSlcGood, Wider
  <2>2. CASE m.kind # "slc"
    <3>1. r = ClientMode(client, m.modes, m.ack, FALSE)
      BY <2>2
    <3>2. m.modes \in SUBSET Bit /\ m.ack \in BOOLEAN /\ About(m) = {}
      BY <1>4, <2>2, MessageFields DEF FromServer, About
    <3>. HIDE DEF m, r
    <3>. DEFINE e == ClientMode(client, m.modes, m.ack, FALSE)
    <3>3. r.c.spc = client.spc /\ \A f : Unproposed(r.out, f)
      <4>1. e.c.spc = client.spc /\ \A f : Unproposed(e.out, f)
        BY <1>3, ClientModeOffers
      <4>. QED  BY <3>1, <4>1
    <3>4. r.out \in Seq(FromClient)
      BY <1>3, <3>1, <3>2, ClientModeGood
    <3>. QED  BY <3>2, <3>3, <3>4 DEF Adopts
  <2>. QED  BY <2>1, <2>2
<1>. HIDE DEF r
<1>6. /\ Starts(server, Tail(toClient))
      /\ \A f \in Func \cap Known :
            AgreesOn(f, r.c.spc[f], server, toServer \o r.out, Tail(toClient))
  BY <1>2, <1>3, <1>5, AdoptsAgrees DEF AgreeInv
<1>. QED  BY <1>1, <1>2, <1>6 DEF AgreeInv

LEMMA ServerAgrees ==
    ASSUME IndInv, AgreeInv, ServerReceives
    PROVE  AgreeInv'
<1>. DEFINE m == Head(toServer)
            r == IF m.kind = "mode" THEN ServerMode(server, m) ELSE ServerSlc(server, m)
            d == Spoken(r)
            down == toClient \o r.out
<1>1. server' = d /\ toClient' = down
  BY DEF ServerReceives, ServerDoes
<1>2. toServer # << >> /\ toServer' = Tail(toServer) /\ client' = client
  BY DEF ServerReceives
<1>3. /\ Starts(server, toClient) /\ toServer \in Seq(FromClient) /\ m \in FromClient
      /\ Decided(server) /\ server.deferred \in Seq(Held)
  BY <1>2 DEF AgreeInv, IndInv, Starts
<1>4. /\ Starts(d, down)
      /\ \A f \in Func \cap Known : AgreesOn(f, client.spc[f], d, Tail(toServer), down)
  <2>1. CASE m.kind = "mode"
    <3>1. r = ServerMode(server, m)
      BY <2>1
    <3>2. Taken(toServer, Tail(toServer))
      BY <1>2, <2>1 DEF Taken
    <3>. HIDE DEF m, r
    <3>3. Quietly(server, r) \/ Opened(server, r)
      BY <1>3, <2>1, <3>1, ServerModeTells
    <3>4. CASE Quietly(server, r)
      BY <1>3, <3>2, <3>4, QuietlyAgrees DEF AgreeInv
    <3>5. CASE Opened(server, r)
      BY <1>3, <3>2, <3>5, OpenedAgrees DEF AgreeInv
    <3>. QED  BY <3>3, <3>4, <3>5
  <2>2. CASE m.kind # "mode" /\ server.terminit
    <3>1. r = ProcessSlc(server, m)
      BY <2>2 DEF ServerSlc
    <3>. HIDE DEF r
    <3>. QED  BY <1>2, <1>3, <2>2, <3>1, ProcessedAgrees DEF AgreeInv
  <2>3. CASE m.kind # "mode" /\ ~server.terminit
    <3>1. r = ServerSlc(server, m)
      BY <2>3
    <3>. HIDE DEF r
    <3>. QED  BY <1>2, <1>3, <2>3, <3>1, WaitsAgrees DEF AgreeInv
  <2>. QED  BY <2>1, <2>2, <2>3
<1>. HIDE DEF d, down
<1>. QED  BY <1>1, <1>2, <1>4 DEF AgreeInv

LEMMA PtyAgrees ==
    ASSUME IndInv, AgreeInv, PtyChanged
    PROVE  AgreeInv'
<1>. DEFINE r == Localstat(server)
            d == Spoken(r)
            down == toClient \o r.out
<1>1. server' = d /\ toClient' = down /\ client' = client /\ toServer' = toServer
  BY DEF PtyChanged, ServerDoes
<1>2. /\ Starts(server, toClient) /\ toServer \in Seq(FromClient)
      /\ Decided(server) /\ server.deferred \in Seq(Held)
  BY DEF AgreeInv, IndInv, Starts
<1>3. Opened(server, r) /\ Taken(toServer, toServer)
  BY <1>2, LocalstatOpens DEF Taken
<1>. HIDE DEF r
<1>4. /\ Starts(d, down)
      /\ \A f \in Func \cap Known : AgreesOn(f, client.spc[f], d, toServer, down)
  BY <1>2, <1>3, OpenedAgrees DEF AgreeInv
<1>. HIDE DEF d, down
<1>. QED  BY <1>1, <1>4 DEF AgreeInv

\* A program leaves slctab to localstat().
LEMMA ProgramAgrees ==
    ASSUME AgreeInv, NEW tty \in [chars : [Func -> AnyChar], modes : SUBSET Bit], ProgramDoes(tty)
    PROVE  AgreeInv'
<1>1. server' = [server EXCEPT !.tty = tty, !.changed = TRUE, !.stty = tty.modes]
  BY DEF ProgramDoes
<1>2. UNCHANGED <<client, toServer, toClient>>
  BY DEF ProgramDoes
<1>3. Decided(server) /\ Starts(server, toClient)
  BY DEF AgreeInv, Starts
<1>4. /\ server' \in ServerState /\ server'.current = server.current
      /\ server'.terminit = server.terminit /\ server'.deferred = server.deferred
      /\ server'.changed = TRUE /\ server'.dumped = server.dumped
  BY <1>1, <1>3 DEF Decided, ServerState
<1>5. Starts(server', toClient)
  BY <1>3, <1>4 DEF Starts, Decided
<1>6. \A f \in Func \cap Known :
         AgreesOn(f, client.spc[f], server', toServer, toClient)
  BY <1>4 DEF AgreeInv, AgreesOn
<1>. QED  BY <1>2, <1>5, <1>6 DEF AgreeInv

LEMMA AgreeInit == Init => AgreeInv
<1>. SUFFICES ASSUME Init  PROVE AgreeInv
  OBVIOUS
<1>. DEFINE e == Exported(ClientInit)
            m == Mode(Bit, FALSE)
<1>1. server = ServerInit /\ toClient = <<m>>
  BY DEF Init
<1>2. /\ server \in ServerState /\ server.deferred = << >> /\ ~server.terminit
      /\ server.changed /\ server.dumped = {}
      /\ \A f \in Func : server.current[f].level = NOSUPPORT
  <2>1. server \in ServerState
    BY <1>1, ServerInitGood DEF ServerGood
  <2>. QED  BY <1>1, <2>1 DEF ServerInit, Set
<1>3. /\ toClient \in Seq(Definite)
      /\ \A i \in 1 .. Len(toClient) : toClient[i].kind = "mode"
      /\ \A f : Untold(toClient, f) /\ \A u : LastWord(toClient, f, u)
  <2>1. toClient \in Seq(Definite) /\ \A i \in 1 .. Len(toClient) : toClient[i].kind = "mode"
    BY <1>1, ModeDefinite
  <2>2. \A f : Untold(toClient, f)
    BY <2>1, AboutNothing
  <2>. QED  BY <2>1, <2>2 DEF Untold, LastWord
<1>4. Starts(server, toClient)
  BY <1>2, <1>3, Levels DEF Starts, Decided
<1>5. PICK slc_mode \in {"export", "import", "check"} :
         /\ client = IF slc_mode = "export" THEN e.c ELSE ClientInit
         /\ toServer = IF slc_mode = "export" THEN e.out
                       ELSE <<All(IF slc_mode = "import" THEN DEFAULT ELSE VARIABLE_)>>
  BY DEF Init
<1>6. toServer \in Seq(FromClient) /\ << >> \o toServer = toServer
  <2>1. toServer \in Seq(FromClient)
    BY InitInd DEF IndInv
  <2>. QED  BY <2>1
<1>7. ASSUME NEW f \in Func \cap Known
      PROVE  AgreesOn(f, client.spc[f], server, toServer, toClient)
  <2>1. CASE slc_mode = "export"
    <3>1. WasProposed(toServer, f, client.spc[f])
      BY <1>5, <2>1, ClientInitGood, ExportedOffers
    <3>2. Asked(toServer, f)
      <4>1. \E fs \in SUBSET Func : \E table : toServer = Report(fs, table)
        BY <1>5, <2>1 DEF Exported
      <4>2. PICK i \in 1 .. Len(toServer) : Proposes(toServer[i], f)
        BY <3>1 DEF WasProposed
      <4>3. Len(toServer) <= 1
        BY <4>1 DEF Report
      <4>4. \A j \in 1 .. i - 1 : FALSE
        BY <4>2, <4>3, <1>6
      <4>. QED  BY <4>2, <4>4 DEF Asked, Asks
    <3>. QED  BY <1>2, <1>3, <1>6, <3>1, <3>2 DEF AgreesOn
  <2>2. CASE slc_mode # "export"
    <3>. DEFINE a == All(IF slc_mode = "import" THEN DEFAULT ELSE VARIABLE_)
                q == <<a>>
    <3>1. client = ClientInit /\ toServer = q /\ a.kind = "all"
      BY <1>5, <2>2 DEF All
    <3>. HIDE DEF a
    <3>2. Len(q) = 1 /\ q[1] = a /\ 1 \in 1 .. Len(q) /\ \A j \in 1 .. 1 - 1 : FALSE
      OBVIOUS
    <3>3. Asked(q, f)
      BY <3>1, <3>2 DEF Asked, Asks
    <3>4. \A i \in 1 .. Len(q) : q[i].kind # "slc"
      BY <3>1
    <3>5. Unproposed(q, f)
      BY <3>4, AboutNothing
    <3>. HIDE DEF q
    <3>6. Fits(client.spc[f], server.current[f])
      <4>1. client.spc[f].level = NOSUPPORT
        BY <3>1 DEF ClientInit, Set
      <4>. QED  BY <1>2, <4>1 DEF Fits
    <3>. QED  BY <1>2, <1>3, <1>6, <3>1, <3>3, <3>5, <3>6 DEF AgreesOn
  <2>. QED  BY <2>1, <2>2
<1>. QED  BY <1>4, <1>7 DEF AgreeInv

LEMMA AgreeNext == IndInv /\ AgreeInv /\ [Next]_vars => AgreeInv'
<1>. SUFFICES ASSUME IndInv, AgreeInv, [Next]_vars  PROVE AgreeInv'
  OBVIOUS
<1>1. /\ client \in ClientState /\ ClientGood(client)
      /\ \A f \in Func : client.spc[f].ack = FALSE /\ (f \in Placed => client.spc[f].level # DEFAULT)
  BY DEF IndInv, ClientGood
<1>2. server \in ServerState
  BY DEF IndInv, ServerGood
<1>3. ASSUME NEW f \in Func, NEW ch \in Char \cup {VDISABLE}, SetChar(f, ch)
      PROVE  AgreeInv'
  <2>. DEFINE c == [client EXCEPT !.term[f] = ch]
  <2>1. /\ c \in ClientState /\ c.spc = client.spc
        /\ \A g \in Func : c.spc[g].ack = FALSE /\ (g \in Placed => c.spc[g].level # DEFAULT)
    BY <1>1 DEF ClientState, AnyChar
  <2>2. UserDoes(Checked(c))
    BY <1>3 DEF SetChar
  <2>. HIDE DEF c
  <2>3. Offers(c, Checked(c)) /\ Checked(c).out \in Seq(FromClient)
    BY <2>1, CheckedOffers, CheckedGood, Wider
  <2>. QED  BY <2>1, <2>2, <2>3, UserAgrees
<1>4. ASSUME NEW f \in Func, UnsetChar(f)  PROVE AgreeInv'
  <2>. DEFINE c == [client EXCEPT !.term[f] = VDISABLE, !.unset = @ \cup {f}]
              r == [c |-> c, out |-> << >>]
  <2>1. c.spc = client.spc
    BY <1>1 DEF ClientState
  <2>2. UserDoes(r) /\ r.c = c /\ r.out = << >>
    BY <1>4 DEF UnsetChar
  <2>. HIDE DEF c, r
  <2>3. r.out \in Seq(FromClient) /\ Offers(c, r)
    BY <2>2 DEF Offers, Unproposed
  <2>. QED  BY <2>1, <2>2, <2>3, UserAgrees
<1>5. CASE SlcExport
  <2>1. UserDoes(Exported(client))
    BY <1>5 DEF SlcExport
  <2>2. Offers(client, Exported(client)) /\ Exported(client).out \in Seq(FromClient)
    BY <1>1, ExportedOffers, ExportedGood, Wider
  <2>. QED  BY <2>1, <2>2, UserAgrees
<1>6. ASSUME NEW level \in {VARIABLE_, DEFAULT}, SlcImport(level)  PROVE AgreeInv'
  <2>. DEFINE q == <<All(level)>>
              r == [c |-> client, out |-> q]
  <2>1. UserDoes(r) /\ r.c = client /\ r.out = q
    BY <1>6 DEF SlcImport
  <2>2. q \in Seq(FromClient) /\ \A i \in 1 .. Len(q) : q[i].kind # "slc"
    BY AllType DEF All
  <2>. HIDE DEF q, r
  <2>3. Offers(client, r)
    BY <2>1, <2>2, AboutNothing DEF Offers
  <2>. QED  BY <2>1, <2>2, <2>3, UserAgrees
<1>7. ASSUME NEW modes \in SUBSET Bit, SetMode(modes)  PROVE AgreeInv'
  <2>. DEFINE c == [client EXCEPT !.moded = TRUE]
              r == ClientMode(c, modes, FALSE, TRUE)
  <2>1. ClientGood(c) /\ c \in ClientState /\ c.spc = client.spc
    BY <1>1 DEF ClientGood, ClientState
  <2>2. UserDoes(r)
    BY <1>7 DEF SetMode
  <2>. HIDE DEF c
  <2>3. r.out \in Seq(FromClient)
    BY <2>1, ClientModeGood
  <2>4. r.c.spc = c.spc /\ \A f : Unproposed(r.out, f)
    BY <2>1, ClientModeOffers
  <2>. HIDE DEF r
  <2>5. Offers(c, r)
    BY <2>4 DEF Offers
  <2>. QED  BY <2>1, <2>2, <2>3, <2>5, UserAgrees
<1>8. CASE ClientReceives
  BY <1>8, ClientAgrees
<1>9. CASE ServerReceives
  BY <1>9, ServerAgrees
<1>10. CASE PtyChanged
  BY <1>10, PtyAgrees
<1>11. ASSUME NEW f \in Func, NEW ch \in Char \cup {VDISABLE}, Stty(f, ch)  PROVE AgreeInv'
  <2>1. [server.tty EXCEPT !.chars[f] = ch] \in [chars : [Func -> AnyChar], modes : SUBSET Bit]
    BY <1>2 DEF ServerState, AnyChar
  <2>. QED  BY <1>11, <2>1, ProgramAgrees DEF Stty
<1>12. ASSUME NEW modes \in SUBSET Bit, SttyMode(modes)  PROVE AgreeInv'
  <2>1. [server.tty EXCEPT !.modes = modes] \in [chars : [Func -> AnyChar], modes : SUBSET Bit]
    BY <1>2 DEF ServerState
  <2>. QED  BY <1>12, <2>1, ProgramAgrees DEF SttyMode
<1>13. CASE UNCHANGED vars
  BY <1>13 DEF vars, AgreeInv
<1>. QED  BY <1>3, <1>4, <1>5, <1>6, <1>7, <1>8, <1>9, <1>10, <1>11, <1>12, <1>13 DEF Next

(***************************************************************************)
(* However the settings that the user, the programs and the two ends make  *)
(* cross each other, and whatever each end then thinks of the other's,     *)
(* with nothing on its way both have the same idea of every character that *)
(* the client knows: what slc() takes it does not answer with a proposal,  *)
(* what it answers process_slc() has said, and what telnetd does not       *)
(* answer it has already.  Only a suboption that do_opt_slc() discards     *)
(* before the first localstat() can leave them apart.                      *)
(***************************************************************************)
THEOREM LinemodeCharsAgree == Spec => []CharsAgree
<1>1. AgreeInv => CharsAgree
  <2>. SUFFICES ASSUME AgreeInv, Quiet, NEW f \in (Func \cap Known) \ server.dumped
                PROVE  Alike(f)
    BY DEF CharsAgree
  <2>1. Starts(server, toClient) /\ AgreesOn(f, client.spc[f], server, toServer, toClient)
    BY DEF AgreeInv
  <2>2. toServer = << >> /\ toClient = << >> /\ server.deferred = << >>
    BY <2>1 DEF Quiet, Starts
  <2>3. Untold(toClient, f) /\ server.deferred \o toServer = << >>
    BY <2>2 DEF Untold
  <2>4. Fits(client.spc[f], server.current[f]) \/ WasProposed(<< >>, f, client.spc[f])
    BY <2>1, <2>3 DEF AgreesOn
  <2>5. ~WasProposed(<< >>, f, client.spc[f])
    BY DEF WasProposed
  <2>. QED  BY <2>4, <2>5 DEF Fits, Alike
<1>. QED  BY <1>1, Inductive, AgreeInit, AgreeNext, PTL DEF Spec
=============================================================================
