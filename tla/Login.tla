------------------------------- MODULE Login -------------------------------
(***************************************************************************)
(* From the first suboption to the login program: the questions of         *)
(* getterminaltype() in telnetd.c, the client's answers and its table of   *)
(* environment variables (telnet.cc, environ.cc), what suboption() of      *)
(* state.c makes of them, and the child that sys_term.c starts, which      *)
(* becomes telnetlogin and then login, beside the parent that serves the   *)
(* connection.                                                             *)
(*                                                                         *)
(* Which options are on is settled (TelnetdOptions): it does not change    *)
(* here.  A variable's name is one octet, a value is a sequence of octets. *)
(***************************************************************************)
EXTENDS Integers, SequencesExt

CONSTANTS
    Octet,         \* what names and values are made of
    SubSize,       \* the size of the server's subbuffer
    Start,         \* what the client is started with, and the options agreed on
    Command,       \* the arguments of environ that the user may give
    Garbage,       \* what may be found where a freed string was
    MaxSize,       \* window sizes are 1 .. MaxSize; 0 is a size not known
    Budget         \* how often the user may change a variable or the window

IAC == "IAC"
VAR == "VAR"
VALUE == "VALUE"
ESC == "ESC"
SE == "SE"

\* The options that are asked about.
Question == {"TSPEED", "XDISPLOC", "ENVIRON", "TTYPE"}

\* Operations of environ that change or send a variable.
Operation == {"define", "undefine", "export", "unexport", "send"}

\* The variables that the server knows, in envvarok(); POSIXLY_CORRECT is like
\* the others.
Allowed == {"TERM", "DISPLAY", "USER", "LOGNAME"}

\* A name that the programs use stands for the octets that it is made of.
ASSUME OctetAssumption ==
    Allowed \union {"PRINTER", "UNKNOWN", "network", "h", ":", "-", "/", "X", "x",
                    IAC, VAR, VALUE, ESC, SE} \subseteq Octet

ASSUME SubSizeAssumption == SubSize \in Nat /\ SubSize > 5

ASSUME StartAssumption ==
    Start \subseteq [environ : Seq(Octet \X Seq(Octet)), user : Seq(Seq(Octet)),
                     options : SUBSET Question]

ASSUME CommandAssumption ==
    Command \subseteq [op : Operation, name : Octet, value : Seq(Octet)]

ASSUME GarbageAssumption == Garbage \subseteq Seq(Octet) /\ Garbage # {}

ASSUME BoundAssumption == MaxSize \in Nat \ {0} /\ Budget \in Nat

VARIABLES
    vars,        \* the client's table of variables
    termtypes,   \* what gettermname() points to
    toServer, toClient,
    agreed,      \* the options that are on
    server,      \* telnetd
    child,       \* the process that becomes login
    pty,         \* the window size of the pty
    window,      \* the size the client sent last
    crossed,     \* history: a size was received while the child had an older one
    shown,       \* history: the variables and values that were ever exported
    budget

clientVars == <<vars, termtypes, window, shown, budget>>
allVars == <<clientVars, toServer, toClient, agreed, server, child, pty, crossed>>

(***************************************************************************)
(* The client's variables.  What a variable holds, and whether there is    *)
(* one, is a sequence of at most one value.                                *)
(***************************************************************************)
Find(table, name) == SelectInSeq(table, LAMBDA e : e.name = name)

\* Wrong: a defined variable is given a second entry.
PutAnother(table, name, value, export) ==
    Append(table, [name |-> name, value |-> value, export |-> export])

Put(table, name, value, export) ==
    LET entry == [name |-> name, value |-> value, export |-> export]
        i == Find(table, name)
    IN  IF i = 0 THEN Append(table, entry) ELSE [table EXCEPT ![i] = entry]

SetExport(table, name, export) ==
    LET i == Find(table, name)
    IN  IF i = 0 THEN table ELSE [table EXCEPT ![i].export = export]

Undefine(table, name) ==
    LET i == Find(table, name)
    IN  IF i = 0 THEN table ELSE RemoveAt(table, i)

GetValue(table, name, exportedOnly) ==
    LET i == Find(table, name)
    IN  IF i # 0 /\ (exportedOnly => table[i].export) THEN <<table[i].value>> ELSE <<>>

\* env_copy(): nothing of the program's own environment is exported.
Copied(environ) ==
    LET table[i \in 0 .. Len(environ)] ==
            IF i = 0 THEN <<>> ELSE Put(table[i - 1], environ[i][1], environ[i][2], FALSE)
    IN  table[Len(environ)]

\* env_fix_display(): a display of this host is given the host's name.
FixDisplay(table) ==
    LET i == Find(table, "DISPLAY")
        value == table[i].value
        local == value # <<>> /\ value[1] = ":"
    IN  IF i = 0 THEN table
        ELSE [table EXCEPT ![i].export = TRUE,
                           ![i].value = IF local THEN <<"h">> \o value ELSE value]

DefineUser(table) ==
    LET logname == GetValue(table, "LOGNAME", FALSE)
    IN  IF Find(table, "USER") = 0 /\ logname # <<>>
        THEN Put(table, "USER", logname[1], FALSE)
        ELSE table

\* env_init(), and the USER that tn() defines for -l or -a.
EnvInit(environ, user) ==
    LET table == SetExport(DefineUser(FixDisplay(Copied(environ))), "PRINTER", TRUE)
    IN  IF user = <<>> THEN table ELSE Put(table, "USER", user[1], TRUE)

Exported(table) ==
    LET listed[i \in 0 .. Len(table)] ==
            IF i = 0 THEN <<>>
            ELSE IF table[i].export THEN Append(listed[i - 1], table[i]) ELSE listed[i - 1]
    IN  listed[Len(table)]

Pairs(table) == {<<e.name, e.value>> : e \in {f \in Range(table) : f.export}}

(***************************************************************************)
(* ENVIRON: what the client puts into a message and what the server takes  *)
(* out of it.                                                              *)
(***************************************************************************)
\* Wrong: ESC itself is not quoted.
QuotedButEsc(octets) ==
    FlattenSeq([i \in DOMAIN octets |->
        IF octets[i] = IAC THEN <<IAC, IAC>>
        ELSE IF octets[i] \in {VAR, VALUE} THEN <<ESC, octets[i]>>
        ELSE <<octets[i]>>])

Quoted(octets) ==
    FlattenSeq([i \in DOMAIN octets |->
        IF octets[i] = IAC THEN <<IAC, IAC>>
        ELSE IF octets[i] \in {VAR, VALUE, ESC} THEN <<ESC, octets[i]>>
        ELSE <<octets[i]>>])

\* Wrong: the value is sent whether the variable is exported or not.
EnvOptAddAlways(table, name) ==
    LET value == GetValue(table, name, FALSE)
    IN  <<VAR>> \o Quoted(<<name>>)
            \o (IF value = <<>> THEN <<>> ELSE <<VALUE>> \o Quoted(value[1]))

\* env_opt_add(): a variable that is not exported is sent without a value.
EnvOptAdd(table, name) ==
    LET value == GetValue(table, name, TRUE)
    IN  <<VAR>> \o Quoted(<<name>>)
            \o (IF value = <<>> THEN <<>> ELSE <<VALUE>> \o Quoted(value[1]))

\* The answer to a request for all variables; the other form of SEND names
\* variables, and telnetd does not use it.
EnvOptAll(table) ==
    FlattenSeq([i \in DOMAIN Exported(table) |-> EnvOptAdd(table, Exported(table)[i].name)])

\* What a message about these variables means.
Meant(table, names) == [i \in DOMAIN names |-> <<names[i], GetValue(table, names[i], TRUE)>>]

Names(table) == [i \in DOMAIN table |-> table[i].name]

\* telrcv() takes IAC IAC in a suboption for an octet, and IAC with anything
\* else behind it, not only SE, for the end.  Octets after that are for the
\* pty, or are dropped.
Undouble(a, c) ==
    IF a.over THEN a
    ELSE IF a.half /\ c = IAC THEN [a EXCEPT !.octets = Append(@, IAC), !.half = FALSE]
    ELSE IF a.half THEN [a EXCEPT !.over = TRUE]
    ELSE IF c = IAC THEN [a EXCEPT !.half = TRUE]
    ELSE [a EXCEPT !.octets = Append(@, c)]

\* What it makes of what a message sends, the IAC SE at its end included.
Undoubling(octets) ==
    LET wire == octets \o <<IAC, SE>>
        read[i \in 0 .. Len(wire)] ==
            IF i = 0 THEN [octets |-> <<>>, half |-> FALSE, over |-> FALSE]
            ELSE Undouble(read[i - 1], wire[i])
    IN  read[Len(wire)]

Undoubled(octets) == Undoubling(octets).octets

\* It keeps what subbuffer has room for: IAC SE, stored behind the suboption
\* for printing, is taken off whether it found room or not.  The option and IS
\* or INFO are stored before the list.
Room == SubSize - 5

Fits(octets) == Len(octets) <= Room

Accumulated(octets) == IF Fits(octets) THEN octets ELSE SubSeq(octets, 1, Room)

\* One octet of the list, for a parser that is in a name, or in a value, or
\* behind ESC.
Parse(a, c) ==
    LET add == IF a.value = <<>> THEN [a EXCEPT !.name = Append(@, c)]
                                 ELSE [a EXCEPT !.value = <<Append(@[1], c)>>]
    IN  IF a.escaped THEN [add EXCEPT !.escaped = FALSE]
        ELSE IF c = ESC THEN [a EXCEPT !.escaped = TRUE]
        ELSE IF c = VALUE THEN [a EXCEPT !.value = <<(<<>>)>>]
        ELSE IF c = VAR THEN [done |-> Append(a.done, <<a.name, a.value>>),
                              name |-> <<>>, value |-> <<>>, escaped |-> FALSE]
        ELSE add

\* The variables in an accumulated suboption: from the first VAR on, the
\* last of them ended by the end of the list.
Variables(octets) ==
    LET first == SelectInSeq(octets, LAMBDA c : c = VAR)
        list == SubSeq(octets, first + 1, Len(octets))
        read[i \in 0 .. Len(list)] ==
            IF i = 0 THEN [done |-> <<>>, name |-> <<>>, value |-> <<>>, escaped |-> FALSE]
            ELSE Parse(read[i - 1], list[i])
        end == read[Len(list)]
    IN  IF first = 0 \/ list = <<>> THEN <<>> ELSE Append(end.done, <<end.name, end.value>>)

SetVariable(env, name, value) ==
    IF \E v \in Allowed : name = <<v>> THEN [env EXCEPT ![name[1]] = value] ELSE env

\* setenv() or unsetenv() for each.
SetVariables(env, list) ==
    LET after[i \in 0 .. Len(list)] ==
            IF i = 0 THEN env ELSE SetVariable(after[i - 1], list[i][1], list[i][2])
    IN  after[Len(list)]

(***************************************************************************)
(* Messages.  means is what the variables in it stand for, for the         *)
(* properties only.                                                        *)
(***************************************************************************)
Sub(opt, kind, octets, means) ==
    [opt |-> opt, kind |-> kind, octets |-> octets, means |-> means]

Environ(kind, table, names, octets) == Sub("ENVIRON", kind, octets, Meant(table, names))

Naws(n) == [opt |-> "NAWS", size |-> n]

(***************************************************************************)
(* telnetd.  answered holds the suboptions whose clock is not behind       *)
(* baseline: settimer(baseline) empties it.  reading says that telrcv() is *)
(* in the middle of what one read has brought.                             *)
(***************************************************************************)
AllUnset == [v \in Allowed |-> <<>>]

ServerInit ==
    [pc |-> "ask", terminaltype |-> <<>>, first |-> <<>>, last |-> <<>>, answered |-> {},
     env |-> AllUnset, size |-> 0, meant |-> AllUnset, cut |-> FALSE, reading |-> FALSE,
     heard |-> [first |-> <<>>, good |-> <<>>]]

terminaltypeok(name) == "/" \notin Range(name)

Lowered(name) == [i \in DOMAIN name |-> IF name[i] = "X" THEN "x" ELSE name[i]]

Hear(heard, name, counts) ==
    [first |-> IF heard.first = <<>> THEN <<name>> ELSE heard.first,
     good |-> IF heard.good = <<>> /\ counts /\ terminaltypeok(name) THEN <<name>>
              ELSE heard.good]

\* Wrong: an option that is turned off does not end the wait for it.
TimedByAnswer(s, m) ==
    IF m.kind # "IS" THEN s ELSE [s EXCEPT !.answered = @ \union {m.opt}]

\* settimer(), for a message that counts as an answer.
Timed(s, m) ==
    IF m.kind = "INFO" THEN s ELSE [s EXCEPT !.answered = @ \union {m.opt}]

\* What a message sets if it is understood as it is meant.
Settings(means) == [i \in DOMAIN means |-> <<(<<means[i][1]>>), means[i][2]>>]

\* suboption() for ENVIRON and XDISPLOC.
Variable(s, m, octets, list) ==
    [Timed(s, m) EXCEPT !.env = SetVariables(@, list),
                        !.meant = SetVariables(@, Settings(m.means)),
                        !.cut = @ \/ ~Fits(octets)]

Suboption(s, m) ==
    CASE m.opt = "NAWS" -> [s EXCEPT !.size = m.size]
      [] m.opt # "NAWS" /\ m.kind = "WONT" -> Timed(s, m)
      [] m.opt = "TSPEED" -> Timed(s, m)
      [] m.opt = "TTYPE" /\ m.kind # "WONT" ->
            [Timed(s, m) EXCEPT
                !.terminaltype = Lowered(Undoubled(m.octets)),
                !.heard = Hear(@, Lowered(Undoubled(m.octets)), s.pc # "oncemore")]
      [] m.opt = "XDISPLOC" /\ m.kind # "WONT" ->
            LET octets == Undoubled(m.octets)
            IN  Variable(s, m, octets, <<<<(<<"DISPLAY">>), <<Accumulated(octets)>>>>>>)
      [] m.opt = "ENVIRON" /\ m.kind # "WONT" ->
            LET octets == Undoubled(m.octets)
            IN  Variable(s, m, octets, Variables(Accumulated(octets)))

Send(opts) == toClient' = toClient \o opts

Request(opt) == IF opt \in agreed THEN <<opt>> ELSE <<>>

\* The four requests; what is answered is waited for in the same order, and
\* a wait that is already over reads nothing.
Ask ==
    /\ server.pc = "ask" /\ ~server.reading
    /\ server' = [server EXCEPT !.pc = "wait"]
    /\ Send(Request("TSPEED") \o Request("XDISPLOC") \o Request("ENVIRON") \o Request("TTYPE"))
    /\ UNCHANGED <<clientVars, toServer, agreed, child, pty, crossed>>

Waiting ==
    \/ server.pc = "wait" /\ ~(agreed \subseteq server.answered)
    \/ server.pc \in {"again", "oncemore"} /\ "TTYPE" \notin server.answered

\* The client puts a name and DISPLAY into its answer as they are.  When IAC SE
\* is read as IAC and an octet, since an IAC is before it, the suboption goes
\* on, and the IAC that begins the next message ends it.
Ended(m) == m.opt # "NAWS" /\ m.kind # "WONT" => Undoubling(m.octets).over

Receivable(messages) == messages # <<>> /\ (Len(messages) = 1 => Ended(messages[1]))

CanReceive ==
    /\ Waiting \/ server.pc \in {"ask", "serving"} \/ (server.reading /\ server.pc # "exited")
    /\ Receivable(toServer)

\* ttloop(), or telrcv() in the main loop: one of the messages that a read has
\* brought.  Those behind it in the same read are dealt with although the
\* wait may be over.
ServerReceives ==
    /\ CanReceive
    /\ LET m == Head(toServer)
           resized == m.opt = "NAWS"
       IN  /\ \E more \in BOOLEAN :
                /\ more => Receivable(Tail(toServer))
                /\ server' = [Suboption(server, m) EXCEPT !.reading = more]
           /\ pty' = IF resized THEN m.size ELSE pty
           /\ crossed' = (crossed \/ (resized /\ child.pc = "forked" /\ child.size # 0))
    /\ toServer' = Tail(toServer)
    /\ UNCHANGED <<clientVars, toClient, agreed, child>>

\* _gettermname(), up to the wait for the answer.
Gettermname(s, pc) == [s EXCEPT !.pc = pc, !.answered = {}]

Ready(pc) == server.pc = pc /\ ~server.reading /\ ~Waiting

\* The first name, or none, is there: it will do, or the next is asked for.
FirstName ==
    /\ Ready("wait")
    /\ IF "TTYPE" \in agreed /\ ~terminaltypeok(server.terminaltype)
       THEN /\ server' = [Gettermname(server, "again") EXCEPT !.first = server.terminaltype,
                                                              !.last = server.terminaltype]
            /\ Send(<<"TTYPE">>)
       ELSE /\ server' = [server EXCEPT !.pc = "fork"]
            /\ UNCHANGED toClient
    /\ UNCHANGED <<clientVars, toServer, agreed, child, pty, crossed>>

\* A name that is given twice is the end of the client's list.
NextName ==
    /\ Ready("again")
    /\ LET name == server.terminaltype
       IN  IF terminaltypeok(name) \/ (name = server.last /\ name = server.first)
           THEN server' = [server EXCEPT !.pc = "fork"] /\ UNCHANGED toClient
           ELSE /\ server' = IF name = server.last THEN Gettermname(server, "oncemore")
                             ELSE [Gettermname(server, "again") EXCEPT !.last = name]
                /\ Send(<<"TTYPE">>)
    /\ UNCHANGED <<clientVars, toServer, agreed, child, pty, crossed>>

\* Wrong: the name that came last is kept.
OnceMoreKeepsLast ==
    /\ Ready("oncemore")
    /\ server' = [server EXCEPT !.pc = "fork"]
    /\ UNCHANGED <<clientVars, toServer, toClient, agreed, child, pty, crossed>>

\* After the end of the list, the first name whatever comes.
OnceMore ==
    /\ Ready("oncemore")
    /\ server' = [server EXCEPT !.pc = "fork", !.terminaltype = server.first]
    /\ UNCHANGED <<clientVars, toServer, toClient, agreed, child, pty, crossed>>

\* TERM is set, and startslave() forks: the child has the environment and
\* the size of this moment.
Fork ==
    /\ server.pc = "fork"
    /\ LET term == IF "TTYPE" \in agreed THEN server.terminaltype ELSE <<"network">>
           env == [server.env EXCEPT !["TERM"] = <<term>>]
       IN  /\ server' = [server EXCEPT !.pc = "serving", !.env = env]
           /\ child' = [pc |-> "forked", env |-> env, size |-> server.size]
    /\ UNCHANGED <<clientVars, toServer, toClient, agreed, pty, crossed>>

\* Wrong: a size that was never received is set like another.
GetptyslaveAnySize ==
    /\ child.pc = "forked"
    /\ child' = [child EXCEPT !.pc = "slave"]
    /\ pty' = child.size
    /\ UNCHANGED <<clientVars, toServer, toClient, agreed, server, crossed>>

\* getptyslave(): the size known at the fork is set again.
Getptyslave ==
    /\ child.pc = "forked"
    /\ child' = [child EXCEPT !.pc = "slave"]
    /\ pty' = IF child.size # 0 THEN child.size ELSE pty
    /\ UNCHANGED <<clientVars, toServer, toClient, agreed, server, crossed>>

IsOption(word) == word # <<>> /\ word[1] = "-"

\* start_login(): USER, if there is one, is login's argument, and it is no option.
StartLogin ==
    /\ child.pc = "slave"
    /\ LET user == child.env["USER"]
       IN  child' = [child EXCEPT !.pc = IF user # <<>> /\ IsOption(user[1]) THEN "exited"
                                         ELSE "wrapper"]
    /\ UNCHANGED <<clientVars, toServer, toClient, agreed, server, pty, crossed>>

\* check_term() of telnetlogin, for octets of which these are no letters,
\* digits or one of + . _ - and for names shorter than 33.
check_term(name) == Range(name) \cap {"/", ":", IAC, VAR, VALUE, ESC, SE} = {}

\* telnetlogin: what it was given by telnetd is in the order it expects, and
\* it checks TERM; REMOTEHOST passes any test it makes.
Telnetlogin ==
    /\ child.pc = "wrapper"
    /\ child' = [child EXCEPT !.pc = IF check_term(child.env["TERM"][1]) THEN "login"
                                     ELSE "exited"]
    /\ UNCHANGED <<clientVars, toServer, toClient, agreed, server, pty, crossed>>

\* SIGCHLD: cleanup() ends telnetd.
Cleanup ==
    /\ child.pc = "exited" /\ server.pc = "serving"
    /\ server' = [server EXCEPT !.pc = "exited"]
    /\ UNCHANGED <<clientVars, toServer, toClient, agreed, child, pty, crossed>>

(***************************************************************************)
(* The client.                                                             *)
(***************************************************************************)
\* gettermname() looks TERM up once, and keeps a pointer to its value.
Termtypes ==
    LET term == GetValue(vars, "TERM", FALSE)
    IN  IF termtypes.kind # "none" THEN termtypes
        ELSE IF term = <<>> THEN [kind |-> "literal", name |-> <<"UNKNOWN">>]
        ELSE [kind |-> "value", name |-> term[1]]

\* define and undefine free the value that was there.
Freed(c) ==
    IF /\ c.op \in {"define", "undefine"} /\ c.name = "TERM"
       /\ termtypes.kind = "value" /\ Find(vars, "TERM") # 0
    THEN [termtypes EXCEPT !.kind = "freed"]
    ELSE termtypes

Answer(m) == toServer' = Append(toServer, m)

\* suboption(): the client answers what it is asked.
ClientAnswers ==
    /\ toClient # <<>>
    /\ toClient' = Tail(toClient)
    /\ LET display == GetValue(vars, "DISPLAY", FALSE)
           exported == Exported(vars)
       IN  CASE Head(toClient) = "TSPEED" -> Answer(Sub("TSPEED", "IS", <<>>, <<>>))
             [] Head(toClient) = "XDISPLOC" /\ display = <<>> ->
                   Answer(Sub("XDISPLOC", "WONT", <<>>, <<>>))
             [] Head(toClient) = "XDISPLOC" /\ display # <<>> ->
                   Answer(Sub("XDISPLOC", "IS", display[1], <<<<"DISPLAY", display>>>>))
             [] Head(toClient) = "ENVIRON" ->
                   Answer(Environ("IS", vars, Names(exported), EnvOptAll(vars)))
             [] Head(toClient) = "TTYPE" ->
                   \E name \in (IF Termtypes.kind = "freed" THEN Garbage ELSE {Termtypes.name}) :
                        Answer(Sub("TTYPE", "IS", name, <<>>))
    /\ termtypes' = IF Head(toClient) = "TTYPE" THEN Termtypes ELSE termtypes
    /\ UNCHANGED <<vars, window, shown, budget, agreed, server, child, pty, crossed>>

\* env_define(), env_undefine(), env_export() and env_unexport(); the rest
\* leave the table as it is.
Changed(c) ==
    CASE c.op = "define" -> Put(vars, c.name, c.value, TRUE)
      [] c.op = "undefine" -> Undefine(vars, c.name)
      [] c.op = "export" -> SetExport(vars, c.name, TRUE)
      [] c.op = "unexport" -> SetExport(vars, c.name, FALSE)
      [] c.op = "send" -> vars

\* env_cmd(): a command of the user.
UserDoes(c) ==
    /\ budget > 0 /\ budget' = budget - 1
    /\ vars' = Changed(c)
    /\ shown' = shown \union Pairs(vars')
    /\ termtypes' = Freed(c)
    /\ IF c.op = "send" /\ "ENVIRON" \in agreed /\ Find(vars, c.name) # 0
       THEN Answer(Environ("INFO", vars, <<c.name>>, EnvOptAdd(vars, c.name)))
       ELSE UNCHANGED toServer
    /\ UNCHANGED <<window, toClient, agreed, server, child, pty, crossed>>

\* sendnaws(), for another size of the window.
Sendnaws ==
    /\ budget > 0 /\ budget' = budget - 1
    /\ \E n \in (1 .. MaxSize) \ {window} : window' = n /\ Answer(Naws(n))
    /\ UNCHANGED <<vars, termtypes, shown, toClient, agreed, server, child, pty, crossed>>

Init ==
    /\ \E start \in Start :
         /\ vars = EnvInit(start.environ, start.user)
         /\ agreed = start.options
         /\ shown = Pairs(vars)
    /\ termtypes = [kind |-> "none", name |-> <<>>]
    /\ toServer = <<>> /\ toClient = <<>>
    /\ server = ServerInit
    /\ child = [pc |-> "none", env |-> AllUnset, size |-> 0]
    /\ pty = 0 /\ window = 0
    /\ crossed = FALSE
    /\ budget = Budget

ServerSteps == Ask \/ FirstName \/ NextName \/ OnceMore \/ Fork \/ Cleanup

ChildSteps == Getptyslave \/ StartLogin \/ Telnetlogin

Next ==
    \/ Ask \/ FirstName \/ NextName \/ OnceMore \/ Fork \/ Cleanup
    \/ ServerReceives
    \/ Getptyslave \/ StartLogin \/ Telnetlogin
    \/ ClientAnswers
    \/ \E c \in Command : UserDoes(c)
    \/ Sendnaws

Spec == Init /\ [][Next]_allVars

\* The two programs and the child are run while they have something to do;
\* the user owes nothing.  The last two conjuncts are the weak fairness of
\* ServerReceives and ClientAnswers with the ENABLED written out: no other
\* action shortens these channels.
FairSpec ==
    /\ Spec
    /\ WF_allVars(ServerSteps) /\ WF_allVars(ChildSteps)
    /\ []<>~CanReceive \/ []<><<Len(toServer') < Len(toServer)>>_toServer
    /\ []<>(toClient = <<>>) \/ []<><<Len(toClient') < Len(toClient)>>_toClient

(***************************************************************************)
(* Properties.                                                             *)
(***************************************************************************)
OptValue == {s \in Seq(Seq(Octet)) : Len(s) <= 1}

Environment == [Allowed -> OptValue]

Table == Seq([name : Octet, value : Seq(Octet), export : BOOLEAN])

Message ==
    [opt : {"NAWS"}, size : 1 .. MaxSize] \union
    {m \in [opt : Question, kind : {"IS", "INFO", "WONT"}, octets : Seq(Octet),
            means : Seq(Octet \X OptValue)] :
        (m.kind = "INFO" => m.opt = "ENVIRON") /\ (m.kind = "WONT" => m.opt = "XDISPLOC")}

Server ==
    [pc : {"ask", "wait", "again", "oncemore", "fork", "serving", "exited"},
     terminaltype : Seq(Octet), first : Seq(Octet), last : Seq(Octet),
     answered : SUBSET Question, env : Environment, size : 0 .. MaxSize,
     meant : Environment, cut : BOOLEAN, reading : BOOLEAN,
     heard : [first : OptValue, good : OptValue]]

\* The state is what the two programs can hold: the table has each name once
\* (env_put() and env_find()), the environment of telnetd only the names that
\* envvarok() lets through, and what is on its way is of the kinds that the
\* option has.
TypeOK ==
    /\ vars \in Table
    /\ \A i, j \in DOMAIN vars : vars[i].name = vars[j].name => i = j
    /\ termtypes \in [kind : {"none", "literal", "value", "freed"}, name : Seq(Octet)]
    /\ toServer \in Seq(Message)
    /\ toClient \in Seq(Question) /\ agreed \subseteq Question
    /\ server \in Server
    /\ child \in [pc : {"none", "forked", "slave", "wrapper", "login", "exited"},
                 env : Environment, size : 0 .. MaxSize]
    /\ pty \in 0 .. MaxSize /\ window \in 0 .. MaxSize
    /\ crossed \in BOOLEAN
    /\ shown \subseteq Octet \X Seq(Octet)
    /\ budget \in 0 .. Budget

\* getterminaltype() asks for names until one will do or the list ends
\* (telnetd.c 510-570): login is given the first name that will do, and the
\* first of all if none did, whatever the client's names were in between.
TermIsBest ==
    child.pc # "none" =>
        child.env["TERM"] =
            IF "TTYPE" \notin agreed THEN <<(<<"network">>)>>
            ELSE IF server.heard.good # <<>> THEN server.heard.good
            ELSE server.heard.first

\* What env_opt_add() wrote, with VAR, VALUE, ESC and IAC among the octets of
\* the values, suboption() reads as the variables that were meant, as long as
\* the list found room in subbuffer.  DISPLAY also comes by XDISPLOC, for
\* which nothing is quoted (telnet.cc 784): it is what was meant if there is no
\* IAC in it.
EnvironCarried ==
    ~server.cut => \A v \in Allowed \ {"TERM"} :
        (v = "DISPLAY" => \A value \in Range(server.meant[v]) : IAC \notin Range(value))
        => server.env[v] = server.meant[v]

\* "environ export" and "environ unexport" decide what leaves the client: the
\* server and login never hold a value that was not exported when it was the
\* variable's, however the commands cross the requests; DISPLAY also has an
\* option of its own.
OnlyExported ==
    ~server.cut => \A v \in Allowed \ {"TERM", "DISPLAY"} :
        \A env \in {server.env, child.env} :
            env[v] # <<>> => <<v, env[v][1]>> \in shown

\* When all is delivered the pty has the size of the client's window,
\* although parent and child both set it: only a size that arrives between the
\* fork and the child's own setting of the older one is lost.
WindowKept ==
    /\ child.pc \notin {"none", "forked"} /\ server.pc = "serving"
    /\ \A i \in DOMAIN toServer : toServer[i].opt # "NAWS"
    => pty = window \/ crossed

\* The questions end and login, or a refusal, follows: unless the string that
\* gettermname() points to is freed by the user, when the names may differ
\* each time they are asked for, or an answer stays without its end, since it
\* ends in an IAC and the client has nothing more to send.
LoginStarts ==
    <>[](termtypes.kind # "freed") /\ []<>(toServer = <<>> \/ Receivable(toServer))
    => <>(child.pc \in {"login", "exited"})
=============================================================================
