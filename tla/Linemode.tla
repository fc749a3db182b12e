------------------------------ MODULE Linemode ------------------------------
(***************************************************************************)
(* The LINEMODE option once both ends have agreed on it: which modes the   *)
(* client edits lines in, and which special characters it uses.  The       *)
(* client is telnet.cc and commands.cc; the server is slc.c and            *)
(* termstat.c, which take part only in a build with -DLINEMODE: the one    *)
(* that telnetd/Makefile makes refuses the option.                         *)
(*                                                                         *)
(* A message is a suboption.  Each end handles one from beginning to end   *)
(* before the next, and the connection delivers them in order.             *)
(***************************************************************************)
EXTENDS Integers, SequencesExt

CONSTANTS
    Func,        \* the special characters there are, of AllFunc
    Char,        \* the characters they may be set to
    Local,       \* the character that each end's terminal begins with
    Remote,
    Bit,         \* the edit modes there are
    Budgets      \* how often the user and the programs behind the pty act

\* What the levels are, and the order in which slc() compares them.
NOSUPPORT == 0
VARIABLE_ == 2
DEFAULT == 3
Level == {NOSUPPORT, VARIABLE_, DEFAULT}

\* _POSIX_VDISABLE
VDISABLE == "off"
AnyChar == Char \cup {VDISABLE, Local, Remote}

\* The functions that have a place among the terminal's characters.
Placed == {"IP", "ABORT", "EOF", "EC", "EL", "XON", "XOFF", "FORW1", "FORW2", "AO",
           "SUSP", "EW", "RP", "LNEXT"}

AllFunc == Placed \cup {"SYNCH", "BRK", "AYT", "EOR"}

\* Those that slc_init() makes known to the client.
Known == AllFunc \ {"BRK", "EOR", "EW", "RP", "LNEXT"}

ASSUME FuncAssumption == Func \subseteq AllFunc

BudgetRecord == [user : Nat, program : Nat]

ASSUME BudgetsAssumption == Budgets \subseteq BudgetRecord /\ Budgets # {}

VARIABLES
    client, server,          \* the ends
    toServer, toClient,      \* suboptions on their way
    budget                   \* how often the world may still act

vars == <<client, server, toServer, toClient, budget>>

-----------------------------------------------------------------------------
(* Messages                                                                *)

\* What one end says of a character, or thinks of it.
Setting == [val : AnyChar, level : Level, ack : BOOLEAN]

Set(val, level, ack) == [val |-> val, level |-> level, ack |-> ack]

\* An SLC suboption with the settings of some characters; one for function 0;
\* and the edit modes.
Slc(settings) == [kind |-> "slc", settings |-> settings]

All(level) == [kind |-> "all", level |-> level]

Mode(modes, ack) == [kind |-> "mode", modes |-> modes, ack |-> ack]

\* The settings of some characters.
Settings == UNION {[fs -> Setting] : fs \in SUBSET Func}

Message ==
    [kind : {"slc"}, settings : Settings]
      \cup [kind : {"all"}, level : Level]
      \cup [kind : {"mode"}, modes : SUBSET Bit, ack : BOOLEAN]

\* slc_end_reply() and end_slc(): the settings of fs are sent, if there are any.
Report(fs, table) == IF fs = {} THEN << >> ELSE <<Slc([f \in fs |-> table[f]])>>

-----------------------------------------------------------------------------
(* The client                                                              *)

(***************************************************************************)
(* spc: spc_data.  term: the terminal's characters, which spc_data points  *)
(* to.  linemode: the edit modes.  unset, moded: history, the characters   *)
(* that were changed by "unset", and whether the user has changed modes.   *)
(***************************************************************************)
ClientState ==
    [spc : [Func -> Setting], term : [Func -> AnyChar], linemode : SUBSET Bit,
     unset : SUBSET Func, moded : BOOLEAN]

\* mylevel, and whether there is a valp.
MyLevel(f) ==
    IF f \notin Known THEN NOSUPPORT ELSE IF f \in Placed THEN VARIABLE_ ELSE DEFAULT

HasValp(f) == f \in Known \cap Placed

LevelFor(val, level) == IF val = VDISABLE THEN NOSUPPORT ELSE level

\* The terminal's characters as they are, and TerminalDefaultChars().
DefaultChars == [f \in Func |-> IF f \in Placed THEN Local ELSE VDISABLE]

\* slc_init(), before it exports or imports.
ClientInit ==
    [spc |-> [f \in Func |-> Set(IF HasValp(f) THEN Local ELSE VDISABLE, NOSUPPORT, FALSE)],
     term |-> DefaultChars, linemode |-> {}, unset |-> {}, moded |-> FALSE]

\* slc_export(): the level comes from the value there was before.
Exported(c) ==
    LET known == {f \in Func : MyLevel(f) # NOSUPPORT}
        spc == [f \in Func |->
                   IF f \notin known THEN c.spc[f]
                   ELSE Set(IF HasValp(f) THEN DefaultChars[f] ELSE c.spc[f].val,
                            LevelFor(c.spc[f].val, MyLevel(f)), FALSE)]
    IN  [c |-> [c EXCEPT !.term = DefaultChars, !.spc = spc, !.unset = {}],
         out |-> Report(known, spc)]

\* slc_check(): what differs from the terminal's characters is made known.
Checked(c) ==
    LET changed == {f \in Func : HasValp(f) /\ c.spc[f].val # c.term[f]}
        spc == [f \in Func |->
                   IF f \in changed
                   THEN Set(c.term[f], LevelFor(c.term[f], MyLevel(f)), FALSE)
                   ELSE c.spc[f]]
    IN  [c |-> [c EXCEPT !.spc = spc, !.unset = @ \ changed],
         out |-> Report(changed, spc)]

Same(have, said) == said.val = have.val /\ said.level = have.level

Acknowledges(have, said) == ~Same(have, said) /\ said.ack /\ said.level = have.level

\* Wrong: the value that comes with an acknowledgement is not taken.
NewSettingKeepsOwn(f, have, said) ==
    IF Same(have, said) \/ said.ack THEN have
    ELSE IF said.level <= MyLevel(f) THEN Set(said.val, said.level, TRUE)
    ELSE have

(***************************************************************************)
(* A turn of the loop in slc().  An acknowledgement for the level that     *)
(* spc_data has is taken as it is; else the level is taken if the client   *)
(* supports as much.  DEFAULT is answered with the client's own level.     *)
(***************************************************************************)
NewSetting(f, have, said) ==
    LET taken == IF said.level <= MyLevel(f) THEN Set(said.val, said.level, TRUE) ELSE have
        own == IF MyLevel(f) = DEFAULT THEN NOSUPPORT ELSE MyLevel(f)
    IN  CASE Same(have, said) -> have
          [] Acknowledges(have, said) ->
               Set(said.val, said.level, said.level # DEFAULT)
          [] ~Same(have, said) /\ ~Acknowledges(have, said) ->
               IF said.level = DEFAULT THEN Set(taken.val, own, FALSE) ELSE taken

\* Is there an answer?
Answered(have, said) == ~Same(have, said) /\ ~Acknowledges(have, said)

\* Wrong: the terminal keeps its characters.
UpdatedNotTerm(c) ==
    [c EXCEPT !.spc = [f \in Func |-> [c.spc[f] EXCEPT !.ack = FALSE]]]

\* slc_update(): the terminal gets what was acknowledged, either way.
Updated(c) ==
    [c EXCEPT
        !.spc = [f \in Func |-> [c.spc[f] EXCEPT !.ack = FALSE]],
        !.term = [f \in Func |->
                     IF c.spc[f].ack /\ HasValp(f) THEN c.spc[f].val ELSE c.term[f]],
        !.unset = {f \in c.unset : ~c.spc[f].ack}]

\* slc(), which ignores function 0
ClientSlc(c, settings) ==
    LET spc == [f \in Func |-> IF f \in DOMAIN settings
                               THEN NewSetting(f, c.spc[f], settings[f]) ELSE c.spc[f]]
    IN  [c |-> Updated([c EXCEPT !.spc = spc]),
         out |-> Report({f \in DOMAIN settings : Answered(c.spc[f], settings[f])}, spc)]

\* lm_mode(): what is acknowledged is in force already.
ClientMode(c, modes, ack, init) ==
    IF ack \/ modes = c.linemode THEN [c |-> c, out |-> << >>]
    ELSE [c |-> [c EXCEPT !.linemode = modes], out |-> <<Mode(modes, ~init)>>]

-----------------------------------------------------------------------------
(* The server                                                              *)

(***************************************************************************)
(* tty: the pty's characters and edit modes, which termbuf has a copy of.  *)
(* current: slctab.  terminit, deferred: nothing is processed before the   *)
(* first localstat(), and the first SLC suboption waits for it.  changed:  *)
(* a packet tells of an ioctl on the pty.  stty, dumped: history, the      *)
(* modes that the programs have set, and the characters of which the       *)
(* client's last word was discarded and nothing has been sent since.       *)
(***************************************************************************)
ServerState ==
    [tty : [chars : [Func -> AnyChar], modes : SUBSET Bit],
     current : [Func -> Setting], editmode : SUBSET Bit,
     terminit : BOOLEAN, deferred : Seq(Message), changed : BOOLEAN,
     stty : SUBSET Bit, dumped : SUBSET Func]

\* defset, from spcset(), and whether there is an sptr.
DefLevel(f) == IF f \in Placed THEN VARIABLE_ ELSE DEFAULT

DefVal(f) == IF f \in Placed THEN Remote ELSE VDISABLE

\* get_slc_defaults(); a new pty edits lines and has signal characters.
ServerInit ==
    [tty |-> [chars |-> [f \in Func |-> DefVal(f)], modes |-> Bit],
     current |-> [f \in Func |-> Set(VDISABLE, NOSUPPORT, FALSE)],
     editmode |-> Bit, terminit |-> FALSE, deferred |-> << >>, changed |-> TRUE,
     stty |-> Bit, dumped |-> {}]

\* default_slc()
DefaultSlc(s) ==
    [s EXCEPT
        !.current = [f \in Func |-> Set(DefVal(f), LevelFor(DefVal(f), DefLevel(f)), FALSE)],
        !.tty.chars = [f \in Func |-> DefVal(f)]]

\* check_slc()
CheckSlc(s) ==
    LET changed == {f \in Func : f \in Placed /\ s.tty.chars[f] # s.current[f].val}
        current == [f \in Func |->
                       IF f \in changed
                       THEN Set(s.tty.chars[f], LevelFor(s.tty.chars[f], DefLevel(f)), FALSE)
                       ELSE s.current[f]]
    IN  [s |-> [s EXCEPT !.current = current], out |-> Report(changed, current)]

\* Wrong: a character that the client does not support is offered again.
ChangeSlcInsists(f, said, char) ==
    LET default == Set(DefVal(f), DefLevel(f), FALSE)
    IN  IF said.level = VARIABLE_
        THEN [new |-> said, answer |-> Set(said.val, said.level, TRUE), char |-> said.val]
        ELSE [new |-> default, answer |-> default, char |-> char]

(***************************************************************************)
(* change_slc(): the new setting, the answer, and the pty's character.  A  *)
(* request to disable a character leaves the pty's alone.                  *)
(***************************************************************************)
ChangeSlc(f, said, char) ==
    LET own == IF DefLevel(f) = DEFAULT THEN NOSUPPORT ELSE DefLevel(f)
        default == Set(DefVal(f), own, FALSE)
        accepted == Set(said.val, said.level, TRUE)
    IN  CASE said.level = NOSUPPORT ->
               [new |-> Set(VDISABLE, NOSUPPORT, FALSE), answer |-> accepted, char |-> char]
          [] said.level = DEFAULT ->
               [new |-> default, answer |-> default, char |-> char]
          [] said.level = VARIABLE_ ->
               [new |-> said, answer |-> accepted,
                char |-> IF f \in Placed THEN said.val ELSE char]

\* process_slc() for one character: is it left as it is?
Ignored(have, said) == said.ack \/ Same(have, said)

\* process_slc()
ProcessSlc(s, m) ==
    LET change == [f \in {g \in DOMAIN m.settings : ~Ignored(s.current[g], m.settings[g])} |->
                      ChangeSlc(f, m.settings[f], s.tty.chars[f])]
        changed == DOMAIN change
        d == DefaultSlc(s)
    IN  CASE m.kind = "all" /\ m.level = DEFAULT -> [s |-> d, out |-> Report(Func, d.current)]
          [] m.kind = "all" /\ m.level = VARIABLE_ -> [s |-> s, out |-> Report(Func, s.current)]
          [] m.kind = "slc" ->
               [s |-> [s EXCEPT
                          !.current = [f \in Func |-> IF f \in changed THEN change[f].new ELSE @[f]],
                          !.tty.chars = [f \in Func |-> IF f \in changed THEN change[f].char ELSE @[f]]],
                out |-> Report(changed, [f \in changed |-> change[f].answer])]

\* The characters that m speaks of.
About(m) == IF m.kind = "slc" THEN DOMAIN m.settings ELSE {}

\* do_opt_slc(): an SLC suboption before the first localstat() waits, or is
\* discarded when another one does.
ServerSlc(s, m) ==
    IF s.terminit THEN ProcessSlc(s, m)
    ELSE [s |-> IF s.deferred = << >> THEN [s EXCEPT !.deferred = <<m>>]
                ELSE [s EXCEPT !.dumped = @ \cup About(m)],
          out |-> << >>]

\* deferslc()
DeferSlc(s) ==
    LET r == ProcessSlc([s EXCEPT !.deferred = << >>], Head(s.deferred))
    IN  IF s.deferred = << >> THEN [s |-> s, out |-> << >>] ELSE r

(***************************************************************************)
(* localstat(), as far as LINEMODE goes: the pty's modes and characters    *)
(* are made known where they have changed.  While a suboption is deferred  *)
(* end_slc() sends nothing.  The first call does what was deferred.        *)
(***************************************************************************)
Localstat(s) ==
    LET modes == IF s.tty.modes = s.editmode THEN << >> ELSE <<Mode(s.tty.modes, FALSE)>>
        c == CheckSlc([s EXCEPT !.editmode = s.tty.modes, !.changed = FALSE])
        d == DeferSlc([c.s EXCEPT !.terminit = TRUE])
    IN  [s |-> d.s, out |-> modes \o (IF s.deferred = << >> THEN c.out ELSE << >>) \o d.out]

\* Wrong: an acknowledgement is taken for what the pty is to do, although a
\* program may have changed the pty since.
ServerModeTakesAck(s, m) ==
    LET changed == SymDiff(m.modes, s.editmode)
    IN  IF changed = {} THEN [s |-> s, out |-> << >>]
        ELSE [s |-> [s EXCEPT !.tty.modes = m.modes, !.editmode = m.modes],
              out |-> IF m.ack THEN << >> ELSE <<Mode(m.modes, TRUE)>>]

(***************************************************************************)
(* clientstat(LM_MODE): a change that the client asks for.  For an         *)
(* acknowledgement localstat() comes first, and puts the pty's own modes   *)
(* into useeditmode.                                                       *)
(***************************************************************************)
ServerMode(s, m) ==
    LET changed == SymDiff(m.modes, s.editmode)
        l == IF m.ack THEN Localstat(s) ELSE [s |-> s, out |-> << >>]
        use == IF m.ack THEN s.tty.modes ELSE m.modes
        modes == (s.tty.modes \ changed) \cup (use \cap changed)
    IN  IF changed = {} THEN [s |-> s, out |-> << >>]
        ELSE [s |-> [l.s EXCEPT !.tty.modes = modes, !.editmode = use],
              out |-> l.out \o IF m.ack THEN << >> ELSE <<Mode(use, TRUE)>>]

-----------------------------------------------------------------------------
(* DO LINEMODE has been answered with WILL LINEMODE: the client exports or *)
(* imports, as "slc" has said before, and the server sends its modes.      *)
Init ==
    \E slc_mode \in {"export", "import", "check"} :
        LET e == Exported(ClientInit)
        IN  /\ client = IF slc_mode = "export" THEN e.c ELSE ClientInit
            /\ toServer = IF slc_mode = "export" THEN e.out ELSE <<All(IF slc_mode = "import" THEN DEFAULT ELSE VARIABLE_)>>
            /\ server = ServerInit
            /\ toClient = <<Mode(Bit, FALSE)>>
            /\ budget \in Budgets

Spend(who) ==
    /\ budget[who] > 0
    /\ budget' = [budget EXCEPT ![who] = @ - 1]

\* The client becomes r.c and sends r.out.
ClientDoes(r) ==
    \E d \in {r} : client' = d.c /\ toServer' = toServer \o d.out

UserDoes(r) ==
    /\ Spend("user")
    /\ ClientDoes(r)
    /\ UNCHANGED <<server, toClient>>

\* "set" calls slc_check(), "unset" does not.
SetChar(f, ch) == UserDoes(Checked([client EXCEPT !.term[f] = ch]))

UnsetChar(f) ==
    UserDoes([c |-> [client EXCEPT !.term[f] = VDISABLE, !.unset = @ \cup {f}], out |-> << >>])

\* "slc export", "slc import" and "slc check".
SlcExport == UserDoes(Exported(client))

SlcImport(level) == UserDoes([c |-> client, out |-> <<All(level)>>])

\* "mode": dolmmode() sets or clears a bit.
SetMode(modes) ==
    /\ modes # client.linemode
    /\ UserDoes(ClientMode([client EXCEPT !.moded = TRUE], modes, FALSE, TRUE))

ClientReceives ==
    /\ toClient # << >>
    /\ \E m \in {Head(toClient)} :
          ClientDoes(IF m.kind = "slc" THEN ClientSlc(client, m.settings)
                     ELSE ClientMode(client, m.modes, m.ack, FALSE))
    /\ toClient' = Tail(toClient)
    /\ UNCHANGED <<server, budget>>

\* r.s when r.out has been sent.
Spoken(r) == [r.s EXCEPT !.dumped = @ \ UNION {About(r.out[i]) : i \in DOMAIN r.out}]

ServerDoes(r) ==
    \E d \in {r} : server' = Spoken(d) /\ toClient' = toClient \o d.out

ServerReceives ==
    /\ toServer # << >>
    /\ \E m \in {Head(toServer)} :
          ServerDoes(IF m.kind = "mode" THEN ServerMode(server, m) ELSE ServerSlc(server, m))
    /\ toServer' = Tail(toServer)
    /\ UNCHANGED <<client, budget>>

\* The loop of telnet() begins, or a packet tells of a change.
PtyChanged ==
    /\ server.changed
    /\ ServerDoes(Localstat(server))
    /\ UNCHANGED <<client, toServer, budget>>

\* A program changes the pty's characters or modes.
ProgramDoes(tty) ==
    /\ tty # server.tty
    /\ Spend("program")
    /\ server' = [server EXCEPT !.tty = tty, !.changed = TRUE, !.stty = tty.modes]
    /\ UNCHANGED <<client, toServer, toClient>>

Stty(f, ch) == ProgramDoes([server.tty EXCEPT !.chars[f] = ch])

SttyMode(modes) == ProgramDoes([server.tty EXCEPT !.modes = modes])

Next ==
    \/ \E f \in Func \cap Placed, ch \in Char \cup {VDISABLE} :
          (HasValp(f) /\ SetChar(f, ch)) \/ Stty(f, ch)
    \/ \E f \in Func : HasValp(f) /\ UnsetChar(f)
    \/ SlcExport
    \/ \E level \in {VARIABLE_, DEFAULT} : SlcImport(level)
    \/ \E modes \in SUBSET Bit : SetMode(modes) \/ SttyMode(modes)
    \/ ClientReceives \/ ServerReceives \/ PtyChanged

\* Both programs run.  Nothing makes the user or the programs act.
Spec ==
    Init /\ [][Next]_vars
         /\ WF_vars(ClientReceives) /\ WF_vars(ServerReceives) /\ WF_vars(PtyChanged)

-----------------------------------------------------------------------------
(* Properties                                                              *)

\* The variables have their types.
TypeOK ==
    /\ client \in ClientState /\ server \in ServerState
    /\ toServer \in Seq(Message) /\ toClient \in Seq(Message)
    /\ budget \in BudgetRecord

Quiet == toServer = << >> /\ toClient = << >> /\ ~server.changed

(***************************************************************************)
(* The negotiation ends once nobody changes anything: no answer is         *)
(* answered for ever, whatever crosses on the way.                         *)
(***************************************************************************)
Settles == <>[]Quiet

\* The ends have the same idea of a character; what the value of a disabled
\* one is means nothing.
Alike(f) ==
    /\ client.spc[f].level = server.current[f].level
    /\ client.spc[f].level # NOSUPPORT => client.spc[f].val = server.current[f].val

(***************************************************************************)
(* When nothing is on its way both ends have the same idea of every        *)
(* character that the client knows, whichever changes have crossed, unless *)
(* what the client said last of it was discarded by do_opt_slc() and the   *)
(* server has not spoken of it since.                                      *)
(***************************************************************************)
CharsAgree == Quiet => \A f \in (Func \cap Known) \ server.dumped : Alike(f)


(***************************************************************************)
(* The characters that were negotiated are those in use: in the client's   *)
(* terminal unless they were unset, and on the pty unless disabled.        *)
(***************************************************************************)
CharsInUse ==
    Quiet => \A f \in Func \cap Known \cap Placed :
        /\ f \notin client.unset => client.term[f] = client.spc[f].val
        /\ server.current[f].level # NOSUPPORT =>
               server.tty.chars[f] = server.current[f].val

(***************************************************************************)
(* README.old:147: when nothing is on its way both ends and the pty are in *)
(* the modes that the programs have set, "several times very quickly" or   *)
(* not: no late acknowledgement undoes a change.                           *)
(***************************************************************************)
ModesFollow ==
    Quiet /\ ~client.moded =>
        /\ client.linemode = server.editmode
        /\ server.editmode = server.tty.modes
        /\ server.tty.modes = server.stty

=============================================================================
