# A formal model of netkit-telnet

TLA+ modules, TLC configurations and TLAPS proofs for the telnet client and the
telnetd server of netkit-telnet 0.17. Paths below are relative to
`src/netkit-telnet-0.17/`.

The build that is modelled is the one the Makefiles make: telnetd **without**
`LINEMODE`, `AUTHENTICATE` and `ENCRYPT`, with `KLUDGELINEMODE` and
`DIAGNOSTICS`; the client with termios and `KLUDGELINEMODE`, without `TN3270`,
and with its assertions enabled. The one exception is `Linemode`: `slc.c` and
`termstat.c` do their work only in a telnetd built with `-DLINEMODE`, and that
module is about the code as it is in such a build.

## 1. The system

Two programs and a TCP connection between them; behind the client a terminal and
its user, behind telnetd a pty and the login program.

| Component | State it keeps | Operations | Modelled in |
|---|---|---|---|
| telnetd option negotiation (`telnetd/state.c`, `defs.h`, `ext.h`) | per option the DO/DONT and WILL/WONT bits of `options[]` (state and wanted state), the counters `do_dont_resp`, `will_wont_resp`; `turn_on_sga`, `not42`; the suboption clocks | `willoption`, `wontoption`, `dooption`, `dontoption`, `send_do` ..., `suboption`, `send_status` | `TelnetdOptions`; suboption data in `Login` |
| telnetd start-up and main loop (`telnetd/telnetd.c`) | how far `main` has got, the clocks, the terminal type | `getterminaltype`, `telnet()`, the select loop | `TelnetdOptions` (waits), `Login` (terminal names), `ServerIO` (the loop) |
| telnetd parser and buffers (`state.c` `telrcv`, `utility.c`) | parser state, `subbuffer`, `netibuf`, `ptyibuf`, `ptyobuf`, the stdio buffer of `netfile` and the list of items behind it | `telrcv`, `ttloop`, `ptyflush`, `nextitem`, `netwrite`, `netwritebuf`, `netflush`, `netclear`, `sendurg`, `netbuflen` | `NetBuffers`, `NetBuf`, `ServerIO` |
| telnetd line mode, SLC, terminal state (`slc.c`, `termstat.c`) | `slctab`, `editmode`, deferred suboptions | `process_slc`, `change_slc`, `check_slc`, `do_opt_slc`, `deferslc`, `localstat`, `clientstat` | `Linemode` |
| telnetd pty and login (`sys_term.c`), `telnetlogin` | window size, environment, the child | `startslave`, `getptyslave`, `start_login`, `cleanup`, `check_term` | `Login` |
| client option negotiation (`telnet/telnet.cc`) | the same table and counters; `flushout`, `kludgelinemode` | the four handlers, the senders, `telnet()` on connecting, `doflush` | `TelnetOptions`; LINEMODE's data in `Linemode` |
| client data path (`telnet.cc` `telrcv`, `telsnd`; `sys_bsd.cc`, `terminal.cc`, `network.cc`) | the four rings, parser state, `SYNCHing`, `flushout`, `bol`, the rlogin escape | `process_rings`, `ttyflush`, `Scheduler`, handlers of SIGINT, SIGTSTP, SIGWINCH | `ClientIO` |
| client ring buffers (`ring.cc`) | `buf`, `head`, `tail`, `count`, `marked` | `write`/`putch`, `set_mark`, `flush`, `read_source`, `getch`, `ungetch`, `gets` | `Ring`, `ByteFifo`; `gets` in `ClientIO` |
| client commands (`commands.cc`, `main.cc`) | the connection, modes, special characters, environment | `send`, `mode`, `toggle binary`, `logout`, `close`, `open`; `set`, `unset`, `slc`; `environ` | `TelnetOptions`, `ClientIO`, `Linemode`, `Login` |
| client environment (`environ.cc`) | the list of variables and whether each is exported | `env_define` ... `env_opt_add` | `Login` |
| client utilities, tn3270, authentication | none, or not compiled | printing, abbreviations | not modelled |

**Interaction.** The programs exchange commands and text over two byte streams
that lose and reorder nothing, but for urgent data, whose notice overtakes.
Inside telnetd everything is sequential, except that SIGCHLD may end it at any
point and that the child it forks shares the pty with it; `main` waits in loops
that call `ttloop`, and each `ttloop` runs the handlers on everything one `read`
has delivered before the loop's condition is looked at again. The client is a
select loop that signal handlers interrupt: they write to the network ring and
mark it for a Synch while the interrupted code may be inside `flush`. The user
gives commands, and the programs on the pty change its modes, at any moment.

**What is hard here.** Requests and answers look alike: a WILL is a request, an
answer, or an acknowledgement of a change, and the counters decide which. They
go wrong only after several messages cross; special characters and edit modes
are negotiated by a second protocol with the same difficulty and no counters.
The start-up loops wait on differences between state and wanted state that only
some handlers resolve. Both parsers keep their place over reads of any size
while the buffer they write to may be full. Which descriptors telnetd's select
watches depends on five buffers. Output is dropped for a Synch or a flush and
must be dropped no further. A ring has to be right about wrapping, marks and
fullness at the same time. The line-by-line list is `hazards` in
`PROJECT.json`; each entry names the properties that cover it or says why none
does.

**What makes each part correct.**

* Option table: with nothing outstanding, the state is the wanted state; the
  counters are neither negative nor large; the two sides agree when the line is
  quiet; the exchange ends.
* Start-up: every wait ends, however the options are answered; login gets the
  best terminal name, the variables that were meant and no other, and the
  window's size.
* Data paths, each way: what arrives is what was sent, translated once, in
  order, however it is cut into reads and writes; commands are carried out
  whole; no buffer is overrun; both programs come to rest.
* Synch and flush: nothing behind the Synch is dropped, and dropped output
  resumes.
* Line mode: both ends agree on the characters and modes, what they agree on is
  in use, and the negotiation ends.
* Ring: what is put in comes out once and in order, the marked byte goes out as
  urgent data, alone or first in its write; no assertion fails.

## 2. Modules

| Module | Models |
|---|---|
| `OptionFsm` | the option state machine common to both programs: one cell (`state`, `want`, `resp`), the test at the head of every sender, the counting at the head of every handler, and the ways a handler ends |
| `TelnetdOptions` | `telnetd/state.c`'s handlers and senders, and the waits of `telnetd/telnetd.c`'s start-up |
| `TelnetOptions` | `telnet/telnet.cc`'s handlers and senders, and the commands that negotiate |
| `TelnetSession` | a `TelnetOptions` and a `TelnetdOptions` joined by their two streams, with a user |
| `ByteFifo` | abstract: a queue of bytes with an urgent mark |
| `Ring` | `telnet/ring.cc`, with signal handlers acting during `flush`; implements `ByteFifo` |
| `NetBuffers` | operators: telnetd's output to the network (stdio buffer, list of items, short writes, urgent data, clearing) |
| `NetBuf` | `NetBuffers` with any operation at any time |
| `ServerIO` | telnetd between network and pty: `ttloop`, `telrcv`, the loop of `telnet()`, `ptyflush`, on top of `NetBuffers` |
| `ClientIO` | the client between its four rings: `process_rings`, `telrcv`, `telsnd`, the signal handlers |
| `Linemode` | LINEMODE at both ends: special characters (SLC) and edit modes |
| `Login` | terminal type, environment and window size, from the first question to the start of login |
| `MC...` | bounds and sample inputs for TLC |
| `TelnetdOptionsProofs`, `TelnetSessionProofs`, `RingProofs`, `LinemodeProofs`, `ServerIOProofs`, `ClientIOProofs`, `LoginProofs` | the proofs |
| `SequenceLemmas` | induction, runs of a step function through a sequence, functions that run backwards, `FlattenSeq`: the lemmas that proofs of several components rest on |

Definitions whose comment begins with "Wrong:" are deliberately faulty variants
of the definition that follows. No specification uses them; each one, put in
the place of its neighbour, makes a property fail, which shows that the property
depends on that piece of code (`mutants` in `PROJECT.json`).

### The option cells

`options[o]` holds four bits for each option and there are two counters. A
program keeps one cell for what the peer does (`his[o]`: the bits `MY_STATE_DO`
and `MY_WANT_STATE_DO`, and `do_dont_resp[o]`) and one for what it does itself
(`my[o]`: `MY_STATE_WILL`, `MY_WANT_STATE_WILL`, `will_wont_resp[o]`).
`NothingToAsk` is the condition of the senders, `Answered` the decrement and
conditional second decrement at the head of the handlers; `Accepted`, `Refused`
and `Noted` are the assignments at their ends. The switch statements differ
between the programs and are written out in each program's module, branch by
branch.

Each C function is an operator from the program's state, a record, to its next
state; a handler that calls two senders is the composition of the operators, so
that one action is always the whole handler. `out` is what the program has put
on the wire and the peer has not read. In the server this is slightly generous:
the client may read a command before `netflush` has run, which only adds
behaviours. A message is a command and an option; SB stands for a suboption
whose content does not matter here.

### TelnetdOptions

`phase` is the point `main` has reached: `start`, then one phase per waiting
loop (`options`; the four clocks `TSPEED`, `XDISPLOC`, `ENVIRON`, `TTYPE`;
`NAWS`; `ECHO`), `login` between `getterminaltype` and `telnet()`, `main` for
the select loop and `exit`. `Waits` is the condition of the loop at a phase.
`chunk` records that the loop has called `ttloop`: from then on commands of the
same `read` may still be handled after the loop has nothing left to wait for,
and an `if` around the loop, which the code evaluates once, is not evaluated
again. `EchoDone` is the simulated `willoption(TELOPT_ECHO)` of telnetd.c:822
with the `send_will` after it. The loop that asks for further terminal names is
in `Login`. `answered` is the set of options whose clock is later than
`baseline`. `Spec` runs the server against a peer that may send any command at
any time, which is what makes its theorems hold against every client.

### TelnetOptions

The record adds `flushout`, `kludge` (`kludgelinemode`), `display` (the
environment exports DISPLAY, which decides about XDISPLOC) and `connected`.
`Open` is what `telnet()` requests on connecting; `LineMode`, `CharMode` and
`KludgeMode` are the mode commands; `Flush` is `doflush`. `Close` clears
`options[]` and leaves the counters, `flushout` and `kludgelinemode` as they
are, as `dobye` and `tninit` do.

### TelnetSession

`ServerReceive` and `ClientReceive` take the head of the other program's `out`.
After LOGOUT telnetd exits and the client, at end of file, exits too
(`ClientEof`); `UserCloses` is the `close` command, after which the user may open a
new connection to a new telnetd. `User` covers the requests named in `Request`
and the four `send` commands for the options in `SendOption`.

### Ring and ByteFifo

`use` says whether the ring is an output or an input ring, since no ring of the
client is used both ways. `FlushBegin` is `flush` up to the system call,
`FlushWrote(n)`, `FlushBlocked` and `FlushFailed` what follows its return, so
that `Write` and `SetMark`, called by a signal handler, come in between; the
static `busy` makes a second `flush` do nothing, which is `chunk = NoChunk`. The
three assertions are conditions whose failure sets `aborted`. `wasFull` is a
history variable. `ByteFifo` promises nothing once its queue has been full,
because the code does not: `flush` of a ring filled to its last byte fails the
assertion at ring.cc:143. A write of `ByteFifo` carries whether it went as
urgent data: the marked byte must, and nothing else may, but for one case that
the code has. If a handler moves the mark while its byte is being written, that
write was urgent and the mark is elsewhere when it ends; `overtaken` records it.

### NetBuffers and NetBuf

`net` is a record with the static variables of `utility.c`, and each C function
an operator on it that answers the set of its outcomes. `file` is the stdio
buffer: output that fits is put there; output that does not fills it, so that
`netwrite` is called with a chunk that may end anywhere, and the rest starts the
next chunk (`Overflow`). `NetWrite` completes a trailing item (`Continued`),
drops what a clear does not keep (`Cleared`) and cuts the rest into items
(`Added`). `WriteBuf` is one `netwritebuf`: the socket takes nothing, or any
number of bytes of what `writev` was offered. `netflush` calls `netwritebuf`
twice, once from within `fflush`, and so does `Flushes`; if the stdio buffer is
empty the first call, and with it all of a clear, does not happen.

EL stands for the codes `wewant` has a case for, WILL for the verbs. Three
things the code does and its comments do not say are kept as they are: a data
item runs up to and including the next IAC; the macro `wewant` is not
parenthesised, so `!wewant(p)` negates its first clause only, and looks one byte
behind an item of one byte (`spared`: any outcome); a verb is given a third byte
whether it is there or not. Where that byte is beyond the chunk the byte count
wraps, `corrupt` is set, and nothing is claimed of what follows.

### ServerIO

One record `server` for the program, with `pc` for the place between two steps:
`ttloop` and, inside it, `telrcv` for the `first` time and `again`; then `loop`,
`readpty`, `data`, `telrcv` of a round of the main loop. `telrcv` takes one
octet per step, so urgent data may arrive between any two; a round ends with
`ptyflush`. What an option means is elsewhere: here a command is carried out
(`done`) and perhaps answered. `Round` is `netbuflen`, `select` and the read;
`Watched` is what the loop asks of select, and any non-empty part of what is
available may be reported. Facts of the code that the model keeps:

* `ttloop` empties `ptyobuf` when `telrcv` stops because it is full, and calls
  `telrcv` again (`lost`); octets that are still unread after that are written
  over by the next read (`skipped`).
* `SO_OOBINLINE` is set only at telnetd.c:860. A byte sent as urgent data
  during start-up is never read, and the octet behind it is taken for the
  second half of the command (`skewed`).
* `SB_ACCUM` drops what finds no room, and the two octets that `subpointer -= 2`
  takes off were perhaps never stored: a suboption that fills the buffer loses
  its last two.
* `ptyflush` may have written nothing when a special character is stored.

`lost`, `skipped`, `skewed`, `cleared` and `corrupt` are the conditions under
which a property promises less, and nothing else is.

The client writes units: octets, together with what they type (`text`, or
`binary` in that mode) and the commands they give. `Meant` says what octets
mean, as Telnet has it: without a buffer, with suboptions of any length and all
octets at hand at once. `MeaningAssumption` says that each unit means what it
claims and ends between two characters or commands; TLC evaluates it on the
instance. A packet from the pty has any characters but telnetd's own answer to
AYT, which the model writes as one octet.

### ClientIO

A ring is a queue here, which `RingProofs` justifies until the ring is
full; filling the network ring sets `overrun`, behind which nothing is claimed
(`NETADD` drops what finds no room). `ProcessRings` moves any amounts that the
rings and the urgent mark allow; `Telrcv` and `Telsnd` take one octet or key per
step and go on, or return, as the loops of the code do; `WriteOut` is what the
main program writes, whole or, with `SignalAnywhere`, a byte at a time. `Intr`,
`Susp` and `Winch` are the signal handlers, which may run inside `flush`: then
`busy`, which all rings share, is set (`Busy`), `ttyflush(1)` does nothing, and a
change of modes waits for a flush that cannot go on before the handler returns.
The one handler that changes modes is `susp` in rlogin mode, behind a tilde
(`RloginSusp`, `HandlersMode`): if the terminal has output to come, the client is
`stuck`. SIGINT and SIGWINCH still get their handlers. Changes of modes are one
step, so a signal inside the flush of one is not distinguished from a signal
before it. `mode` has the settings that change the translation. Histories: `shown` and `seen` since output was last dropped,
`refused`, `lastDropped`, `meant`. `Heard` and `Text` are the reference
definitions of what a byte stream means in each direction: `Heard` over the
whole stream at once, `Text` octet by octet, without a ring, a pause or a look at
the next octet.

With `crmod` on, what a CR shows as depends on whether the next octet has been
read, so `ChunkingInvisible` is stated for `~crmod`.

### Linemode

`ClientSlc`, `ClientMode`, `Checked`, `Exported` are the client's `slc`,
`lm_mode`, `slc_check`, `slc_export`; `ProcessSlc`, `ChangeSlc`, `CheckSlc`,
`DefaultSlc`, `ServerSlc`, `Localstat`, `ServerMode` are telnetd's. A suboption
is handled in one step and carries the settings of any number of characters.
`tty` is the pty, which programs on it change (`Stty`, `SttyMode`); a packet
tells telnetd (`changed`), and `PtyChanged` is its `localstat`. The first SLC
suboption before the first `localstat` is deferred, another one is discarded;
`dumped` has the characters whose last setting from the client went that way
and of which telnetd has said nothing since. They can stay apart for good:
telnetd answers nothing that the pty has already, so if a program has given the
pty what the deferred suboption asks for, the client never learns that its
later change was dropped. do_opt_slc's comment says that it is dropped; nothing
makes up for it, and `CharsAgree` leaves these characters out.
Kept as they are: `slc_export` computes the level from the value there was
before; `unset` calls no `slc_check`, so the terminal and the table differ until
something else is negotiated (`unset`).

### Login

The four questions, the terminal names asked for again, the answers and the
user's `environ` commands, up to the fork; then `getptyslave`, `start_login` and
telnetlogin's checks beside the parent. A list of variables is quoted
(`EnvOptAdd`), undone by `telrcv` (`Undoubled`), cut at the buffer
(`Accumulated`) and parsed (`Variables`). A terminal name and DISPLAY by XDISPLOC
the client sends as they are (telnet.cc:685, 784), so that an IAC in them means
something else to `telrcv`: `Undoubling` reads every suboption up to the IAC that
ends it. If the value ends in an IAC, the IAC of the closing IAC SE is taken for
its second half, and the suboption goes on until the IAC of the next message
(`Ended`), with the SE in the value. Without a next message the answer never
comes (`Receivable`). telnetd handles one message per step; while it is in the
middle of what one `read` brought (`reading`) its loops look at no clock, as
`ttloop` hands all of it to `telrcv`. Octets are any set (`Octet`) that has the
codes of RFC 1572, IAC and the names that telnetlogin allows in it.
`termtypes` is the pointer `gettermname` keeps into the environment: `environ
define TERM` frees what it points to, and then the answer is any of `Garbage`.
`crossed` records a window size that arrives between the fork and the child's
setting of the older one. Not what the names suggest, and kept: the duplicate of
the last name that `mklist` adds is never reached, because `gettermname` starts
again before it; a client with one name gives that name each time.

## 3. Runs

All bounds are constants of the configurations or definitions of the MC modules.

| Run | Configuration | States | What it shows |
|---|---|---|---|
| `open_server` | `MCTelnetdOptions.cfg` | 1.5M | telnetd against a client that may send anything |
| `open_client` | `MCTelnetOptions.cfg` | 1.1M | the client, its user and reconnections against a server that may send anything |
| `session` | `Session.cfg` | 57k | both programs, ten options, a user who acts twice |
| `renegotiate` | `Renegotiate.cfg` | 366k | a user who sends option requests faster than they are answered, flushes output, closes and reconnects |
| `ring` | `Ring.cfg` | 65k | every state of a four-byte ring, and the refinement to `ByteFifo` |
| `client_io` | `ClientIO.cfg` | 544k | the client's data path in three modes |
| `server_io` | `ServerIO.cfg` | 127k | telnetd's data path both ways, start-up and hang-up included |
| `linemode` | `Linemode.cfg` | 348k | SLC and edit modes while both ends change them |
| `login` | `Login.cfg` | 120k | what the client tells of itself, up to login |
| `clear_loses` | `ClearLosesCommands.cfg` | | violates `CommandsKept` |
| `startup_hangs` | `StartupHangs.cfg` | | violates `StartupEnds` |
| `signal_splits` | `SignalSplits.cfg` | | violates `InterruptIsSent` |

**Properties of the passing runs.**

* Option negotiation. `MySettled` (telnetd), `AllSettled` (client): a cell with
  no outstanding request is in its wanted state, against any peer.
  `HisWantHonest`: telnetd's `wontoption` never clears the state, so the full
  statement is false of `his`; what remains true is that an option wanted on with
  nothing outstanding is on. `FewOutstanding`: telnetd's `char` counters never
  exceed 2, whatever the client sends, so they cannot wrap; the client has no
  such bound, since its user may ask, close and reopen without limit.
* The two together. `Agreement`: when nothing is on its way, the programs agree
  on each option for which neither counts an unanswered request; the
  qualification is needed because a refusal counts as a request and is never
  acknowledged. `NothingForgotten`: on a quiet line a count that is still up
  belongs to such a refusal and never to a change that took effect.
  `StartupEnds`, `Terminates`: liveness. `OutputResumes`: once
  `doflush` has asked for a mark, output resumes or the connection is closed, as
  long as no "send do" or "send dont" of the user's for the timing mark is
  pending. Without that exception it is false of the code. It says nothing of a
  flush that a closed connection left behind: `dobye` does not reset `flushout`,
  and its mark is gone.
* Ring. `AbortsOnlyIfFull`, `InputNeverFull`, `ImplementsFifo`: the ring is right
  until an output ring fills up, and an input ring never does.
* Client data path. `WireMeans`: the server hears every key and every command
  exactly as meant, whoever wrote them. `ChunkingInvisible`: the text shown does
  not depend on where reads end or the terminal pauses `telrcv`.
  `OnlyBeforeSynch`: a Synch costs no text behind its DM, whenever its notice
  comes. `TtyNeverFull`: one test for room suffices for two characters.
  `Quiesces`: nothing is left behind, no Synch and no flush stays on, unless a
  suspension in rlogin mode does not return.
* telnetd's data path. `InOrder`, `UrgentIsSynch`, `OutputDecodes`: every
  chunking and every short write keeps the octets in order, the urgent pointer
  at its Synch, and the pty's characters decodable. `CommandsCarriedOut`,
  `InputArrives`: commands whole, once, in order; typed characters on the pty in
  order. `PtyBufferHolds`: no store beyond `ptyobuf`. `HangupLosesNoInput`: end
  of file does not overtake input. `Quiesces`: no combination of full buffers
  leaves the loop waiting for ever.
* Line mode. `Settles`: no answer is answered for ever. `CharsAgree`: both ends
  have the same idea of each character when all is quiet, whatever crossed,
  except of what telnetd discarded before it looked at the pty (`dumped`).
  `CharsInUse`: and it is what terminal and pty use. `ModesFollow`: no late
  acknowledgement undoes a newer change by a program, as README.old:147 claims;
  it is stated while the user changes no modes: where a change of the user's
  crosses one of the pty's the two ends may come to rest in different modes.
* Login. `TermIsBest`, `OnlyExported`, `WindowKept` as their comments say.
  `EnvironCarried`: every variable arrives as it was meant, whatever octets it
  has; DISPLAY, which XDISPLOC does not quote, only if there is no IAC in it.
  `LoginStarts`: the questions end, unless the name in use is freed under
  `gettermname` or an answer is left without its end. `TypeOK` has that a name is
  in the client's list once.

**Bounds.** `open_server` has the six options with a case of their own in a
handler or in a loop; every other option takes the branch of one of these.
Program and peer take turns in the open runs, which loses nothing because no
operator reads `out`. `open_client` has the two options "mode" switches and the
timing mark, and the user acts while at most `MaxAwaited = 3` answers are
awaited: the least that has an overtaken request (two for one option) beside one
for another. `session` has every option with a role in start-up, in a mode
command or in a special case; TSPEED and ENVIRON are handled as TTYPE is, LFLOW
as NAWS. Two user requests are enough for one to overtake the other;
`renegotiate` has three on fewer options, which is a flush with a request for the
mark and its withdrawal before, around or behind it, and a second connection. A ring of four
bytes has every relation of head, tail, mark and chunk that the code
distinguishes; the proofs cover every size.

`client_io` has rings of three and four bytes: `telrcv` pauses after each
character, a read ends anywhere, an rlogin escape and its key come in one read
or two. Its `MCBudgets` are four kinds of session (three units of the server; two
and a signal; one of each; two keys and a signal), its `MCModes` line mode, rlogin mode in
binary, and `crmod` with kludge editing. The network ring (nine bytes) is filled
in some of them, which ends the claim but not the run. `server_io` has buffers
of three octets, a stdio buffer of five and a suboption buffer of six: a unit
does not fit one read, a suboption does not fit its buffer, `ptyobuf` fills in
every longer input, four items get into the list. Two units, two packets, or one
of each with a hang-up, which is what it takes for output, input and a Synch to
cross; `lost`, `skipped` and `skewed` all arise, `corrupt` only in `NetBuf`. `linemode` has a character that both ends place (EC) and one only the
server knows (EW), one edit mode, a pty that begins with another character than the
client and may be given the client's, and three changes (two of them the user's, or
all by programs): the least in which a change, its answer and another change
cross. `login` has six clients that differ in TERM (acceptable, with a slash, with
an IAC in it, absent), in DISPLAY (without an IAC, with one in front, with one at
the end), in what they export and in what options are on, values with every
octet that needs quoting, three acts of the user, two window sizes, and a buffer
in which the longest list that arises does not fit.

`CHECK_DEADLOCK FALSE` stands where the system may really stop: a session with
nothing to say waits for input, a closed client may stay closed, a failed
assertion or an exit ends the program.

**Fairness.** Always weak, and only of a program's own steps. Both programs sit
in select loops that come back to a connection with something to read
(`telnet.cc:1759`, `telnetd.c:918`), and between two waits they run on without
anybody's help. In `ServerIO` a round with something available reports some of
it, a socket reported writable takes at least a byte and so does the pty: that
is what select promises, and it needs a client and programs that go on reading.
In `ClientIO` the steps of the scheduler, and the server's answer to a timing
mark, are fair; a round moves any amounts that are possible, as long as it moves
something. In `Login` the weak fairness of the two receiving actions is
written out, as "the channel is empty (or not read), or it becomes shorter,
again and again", which no other action brings about. Nothing makes the user,
the programs on the pty, a hang-up, a close or a new connection happen.

**Findings.** Three statements of the documentation or of comments that the code
does not keep; the quotations are in `PROJECT.json`.

* `startup_hangs`. `wontoption` of telnetd clears the wanted state only. A
  client that says WONT TTYPE after WILL TTYPE, before telnetd has passed the
  loop at telnetd.c:463, keeps it there for good, although the comment at
  state.c:708 describes precautions for just that case.
* `clear_loses`. `nextitem` puts the IAC of a command into the data item before
  it, and `netclear` drops that item and, as data, the rest of the command.
* `signal_splits`. `intr` runs as a signal handler and writes IAC IP at once,
  also between two bytes the main program writes: the pair IAC IAC is then a
  data byte, the IP a character, and no interrupt is heard. The other runs of
  `ClientIO` let handlers run between writes only, so that everything else they
  say is not hidden by this.

Other divergences met on the way are in the models, without a run of their own:

* After `send do timing-mark` the user wants the option, and `willoption`
  (telnet.cc:310) takes the acknowledgement of a flush for the answer to a request
  and leaves `flushout` set: the terminal stays dark, although telnet.1:1013 says
  that output is dropped until the mark is acknowledged.
* In rlogin mode `susp` changes terminal modes inside the signal handler, although
  the ring's `busy` may be set by the `flush` that the signal interrupted. If the
  terminal has output to come, the loop of `TerminalNewMode` (terminal.cc:357)
  waits for ever, and "~^Z" (telnet.1:111) does not suspend telnet but hang it.

Smaller ones: the client's counters survive "reset options" on closing (commands.cc:1373);
terminal names and DISPLAY are sent with any IAC in them as it is
(telnet.cc:685, 784); after a refused offer is repeated the STATUS report,
which goes by the wanted states, is wrong (state.c:993); the comment in `flush`
says the arithmetic allows for a full ring and the assertion at ring.cc:143 does
not; DO ECHO turns the pty's echo on again (state.c:812).

## 4. Proofs

TLC checks an instance; the theorems below hold for every value of the
constants, under the assumptions named in the modules: any set `Option` (none
needed); in `TelnetSession` any of the user's requests that `UserAsks` names, any
options for `send`, any number of acts and of connections; any ring size above one (`SizeAssumption`) and any `NoByte` that is not
a byte; in `ServerIO` any buffers with `NetSize <= PtySize`, as both are BUFSIZ,
and at least two octets, any packets of the octets named there, any client that
writes whole characters and commands (`MeaningAssumption`); in
`ClientIO` any rings of three bytes or more, any keys, and any server that writes
whole commands, a DM only as a Synch (`WholeAssumption`; telnetd sends IAC DM
with `sendurg` only); in `Linemode` any functions of
those the code has, any characters, any edit modes and any number of changes; in
`Login` any octets among which the codes are distinct (`OctetAssumption`), any
size of the suboption buffer, clients, commands and garbage of the types named
there.

| Theorem | States |
|---|---|
| `RingTypes`, `RingAborts`, `RingInput` | `TypeOK`, `AbortsOnlyIfFull` and `InputNeverFull` of `Ring` |
| `RingImplementsFifo` | `ImplementsFifo`: `Ring` implements `ByteFifo` |
| `ClientTypes`, `ClientSettles` | `ClientTypeOK` and `AllSettled` of `TelnetOptions`, against any peer |
| `SessionTypes`, `SessionAgreement` | `TypeOK` and `Agreement` of `TelnetSession` |
| `ServerTypes`, `ServerSettles`, `ServerWantHonest`, `ServerFewOutstanding` | `TypeOK`, `MySettled`, `HisWantHonest` and `FewOutstanding` of `TelnetdOptions` |
| `LinemodeTypes`, `LinemodeCharsInUse`, `LinemodeModesFollow`, `LinemodeCharsAgree` | `TypeOK`, `CharsInUse`, `ModesFollow` and `CharsAgree` of `Linemode` |
| `ServerIOTypes`, `ServerIOPtyBufferHolds`, `ServerIOHangupLosesNoInput` | `TypeOK`, `PtyBufferHolds` and `HangupLosesNoInput` of `ServerIO` |
| `ServerIOUrgentIsSynch`, `ServerIOInOrder`, `ServerIOOutputDecodes` | `UrgentIsSynch`, `InOrder` and `OutputDecodes` of `ServerIO` |
| `ServerIOCommandsCarriedOut`, `ServerIOInputArrives` | `CommandsCarriedOut` and `InputArrives` of `ServerIO` |
| `ClientIOTtyNeverFull`, `ClientIOOnlyBeforeSynch`, `ClientIOWireMeans` | `TtyNeverFull`, `OnlyBeforeSynch` and, for `~SignalAnywhere`, `WireMeans` of `ClientIO` |
| `ClientIOChunkingInvisible` | `ChunkingInvisible` of `ClientIO`: the text shown is the text read, wherever reads end and `telrcv` pauses |
| `LoginTypes`, `LoginEnvironCarried`, `LoginOnlyExported`, `LoginTermIsBest`, `LoginWindowKept` | `TypeOK`, `EnvironCarried`, `OnlyExported`, `TermIsBest` and `WindowKept` of `Login` |
| `AllDecodes` | any list of variables, quoted by `env_opt_add`, undone by `telrcv` and parsed by `suboption`, is the list again |

**Ring.** The inductive invariant adds to the three properties what they rest
on: the indices agree with the count (`IndicesAgree`), a full ring is recorded
in `wasFull`, a mark lies between tail and head until the ring has been full,
the chunk of a write in progress lies within what the ring held when it was
chosen and still holds (handlers only add), and an input ring keeps its slot
free, two while a byte may be given back. `AbortsOnlyIfFull` is not inductive
without the chunk: the assertion after the system call compares indices that
were read before it.

**Ring implements ByteFifo.** `RefInv` adds that the byte before the tail is
`got` while it may be given back (`GotInv`), and that a write in progress was
begun as urgent if the byte at the tail is marked when it ends (`UrgentInv`: a
mark set meanwhile is never at the tail). Lemmas on the contents of the ring say
what storing, taking and giving back a byte does to the sequence `Contents`,
over the wrap of the index; the refinement has one step per action, each an
action of `ByteFifo` or a stutter, and the step that fills the ring is `Fill`.

**Client options.** `AllSettled` with the types is inductive for the handlers
taken one at a time, so `Good` is their conjunction. The proof has a lemma for
each sender, handler and command, and lemmas about cells shared by both programs
at the head of both option modules.

**The two together.** `Agreement` speaks of quiet states only, and no statement
about the four cells of an option is inductive: what they must satisfy depends on
what is on the line. The proof keeps an account of it. `Reading` goes through the
messages on one direction of the line that are about the option, as their hearer
will: it yields the last word and how much hearing them uses up, two for each
message and one less where the message changes the hearer's state. `Share` is
what a side's counter has left after that. A link (`Linked`) between the side
that asks and the side that does the option says that the two shares are together
not below zero, and that a side whose last word is not what it wants wants the
option off, having given it up in silence. Every end of a handler keeps the
account (`TurnKeeps`): what it uses up of the one reading it takes off its
counter, or adds to the other by what it says; and a request adds one to the
counter, and says it. `(resp > 1) && state = new` in the handlers, which takes
off two, is what makes this come out. On a quiet line both readings are empty;
counters at zero then leave no room for a difference (`LinkQuiet`).

Links hold of both directions of every option that counts, except where telnetd
asks: `wontoption` never clears its state, so that its counter means nothing once
it has seen the option on. `Held` claims then that telnetd's last word is what it
wants, and the link only as long as it has not (`HisOK`: at most one request is
then outstanding). Two more facts are about single options: telnetd never sends
DO LINEMODE (`Sayable`), to which the client would answer outside the state
machine, and the WILL ECHO telnetd takes as heard after start-up (`EchoDone`)
keeps `Held` (`HeldOn`). `SessionInv` has this of a connected client, and of one
that is not that it starts anew (`Fresh`): `Close` forgets all and the next
telnetd is a new process.

**Server options.** `FewOutstanding` is not inductive: a counter at two could be
raised by a further request. `Bounded` adds that the second request outstanding
is always one that switches the option on, since telnetd withdraws nothing while
it waits, and a further request to switch it on is then one `NothingToAsk`
stops. `HisCell` and `MyCell` join this with `HisWantHonest` and `MySettled`;
the lemma `ConfirmedGood` carries the one handler that calls a sender half-way
(`willoption` for ECHO).

**Line mode.** `CharsInUse` speaks of quiet states only and is not inductive.
`IndInv` has it of each end by itself: the client's terminal has what `spc_data`
says of every character that was not unset, and no acknowledgement is pending
between two suboptions (`ClientGood`); the pty has what `slctab` says unless a
program has just changed it (`ServerGood`). It also restricts what is on its
way: a client never proposes the default level for a character of the terminal
(`FromClient`), to which the server would answer with its own default, in
`slctab` but not on the pty. `ModesFollow` needs `ModesInv`, which is about the messages
on their way: until the user changes modes, everything for the server is an
acknowledgement, nothing for the client is, and the last change on its way to
the client (or the client's modes, if there is none) is the server's
`editmode`.

`CharsAgree` needs `AgreeInv`, which follows one character through the messages
(`AgreesOn`). What telnetd has of it is what it last said of it, if that is
still on its way (`LastWord`). Once the client has heard all, what it has is the
same, or it is the last setting it proposed, which telnetd has still to hear
(`WasProposed`); acknowledgements do not count as proposals. Each end then owes
one fact about each handler: telnetd says of a character what it has become,
and is silent only if nothing changed and it was asked for what it has
(`Tells`, `Heard`); the client takes what it is told of a character it knows and
answers with acknowledgements only (`Adopts`), and what it changes by itself it
proposes (`Offers`). No level DEFAULT may come from telnetd (`Decided`,
`Definite`), which the client could not take. Before the first `localstat` the
claim is about the deferred suboption followed by the queue, and nothing but
modes has been sent. The proof allows the same character at both ends and on
every key; it failed for the statement without `dumped`, which holds only while
these differ.

**telnetd's data path.** `PtyBufferHolds` rests on the count from the start of
`ptyobuf`, not from `pbackp`: each octet stores at most one character and is
taken only with room for two, and `ptyflush` moves `back` by what it takes
(`Sound`, with a lemma for each branch of the parser). `HangupLosesNoInput`
needs that the end of file is read only in a round that watches the network,
which a round with input left does not. `IndInv` adds `TypeOK` and that a read
from the pty has a packet.

`UrgentIsSynch` and `InOrder` are about the buffers to the network, and neither
is inductive. `NetSound` has both and `Good` of `net`: what is sent of the first
item lies within the list, and a trailing item is never empty and still open,
having no end yet or being a Synch. Without the latter the end that `netwrite`
finds for it might lie before what it is given, and octets be sent twice
(`ItemGoesOn`: more octets only move the end of an open item into what is new).
Three more facts carry the steps: the items that a chunk is cut into are the
chunk, and only the last may be open (`ItemsCut`, an induction over the cuts);
the items a short write frees are sent whole and the item at the urgent pointer
is never among them half sent (`FreedIs`, `RoomFits`); and `netclear` moves the
pointer along with its Synch (`ClearedGood`). `SuboptionEnd`, whose function runs from the end
of a sequence to its beginning, is known by `BackwardsExists`. The proof claims
nothing once `corrupt` is set, as the properties do not.

`OutputDecodes` says that what is due so far reads as what the pty showed, which
says nothing of the octets to come: a carriage return at the end would take the
next octet with it. `Legible` asks for more: whatever is written next, the client
first reads what the pty showed and then the rest by itself (`Reads`). Each turn
of the loop over the pty's characters keeps it, because what it writes for a
character, IAC IAC, CR NUL or CR LF, is read as that character whatever stands
behind it. Answers, flow control and the mark at a flush are no characters of
the pty and leave what is read alone (`SilentlySame`).

`CommandsCarriedOut` and `InputArrives` compare what telnetd has done with all
that was written, and neither says where the parser stands. `Attends` does: there
is a meaning `r` of the octets so far, and the program has understood it
(`Follows`: the same state of the parser, `r`'s commands carried out, its text on
the pty and in `ptyobuf`, its open suboption in `subbuffer`), and the octets
telnetd has not looked at, in `netibuf` and in the stream, lead from `r` to what
the units mean. A read moves octets from the stream to `netibuf` and `ptyflush`
moves characters from `ptyobuf` to the pty, which changes nothing of this; an
octet in `telrcv` takes program and meaning one step further
(`FollowsReceived`, with a lemma for each part of the parser). The subbuffer holds
only as much of the suboption as fits (`Stored`), and so telnetd carries out
commands that are cut there (`Carried`): `KeptGrows` and `KeptCarried` follow
`SB_ACCUM` and `SB_TERM` to the end of the buffer and past it. The properties
follow since a meaning that is only continued keeps what it has said
(`UnderstoodFirst`), which rests on `ShiftedFold`: the reader never looks back at
what it has given. `Attends` claims nothing once `skewed` or `skipped` is set, and
nothing of what the pty has once `lost` is.

**Client's data path.** `TtyNeverFull` is not inductive, since a step of
`telrcv` adds up to two bytes: `Sound` adds that the program is in `telrcv` only
while there is room for more than two, which its loop re-establishes after every
octet and no handler spoils, as handlers only remove (`Keeps`).

`WireMeans` compares what `Heard` makes of all the bytes with what was meant, and
is not inductive: that bytes so far are heard rightly says nothing of those
behind them. `WireInv` says that what has gone out, what is in the ring and what
is still to be written are together a sequence of whole items (`Item`: a
character, a doubled IAC, a command, an answer) whose meanings are `meant`. Each
branch of `telsnd` and `telrcv`, and each handler, adds whole items and their
meanings or nothing (`Speaks`, `HandledWire`), and `HeardItems` says that `Heard`
reads any such sequence back item by item: no item ends early, whatever stands
behind it, and none is taken for the beginning of a longer one. The keys may be
any values at all. The hypothesis `~SignalAnywhere` is that a handler finds
nothing half written; without it the claim is false, as `signal_splits` shows.

`OnlyBeforeSynch` compares the number of the octet last dropped with that of the
last DM, and needs to know when the DM is taken. `NumInv` numbers the octets that
are in the client's ring and in the stream, from what has been taken on, and says
how the parser will go through them (`Unread`): there is a phase of the parser
before each of them, the last command is whole, and what it will take for a DM is
no later than the last Synch's. What has been taken is `Tidy`: the ring to the
terminal holds only octets with smaller numbers, and while `SYNCHing` is set the
ring is empty and the DM has not been taken, so that what is dropped then stands
before it. The notice of urgent data sets `SYNCHing` at a time when the urgent
byte is unread and hence the DM is, wherever `process_rings` and the reads have
got to (`NoticedBefore`); at the DM `telrcv` drops what it has taken up to there
and sets `SYNCHing` only if a later one is pending. The parser may take the octet
behind a carriage return, which is no DM in that place (`ReceivedTook`).

`ChunkingInvisible` says nothing of the state `telrcv` is left in, and two texts
that are the same up to idle carriage returns may differ once more comes behind
them: a CR at the end is idle if a line feed follows. `ReadInv` therefore asks that
what is shown and what is read are `Alike`, the same whatever is put behind both,
and that `telrcv` stands where the reader does (`InStep`), but for one place: when
`telrcv` has looked at the octet behind a carriage return and left it in the ring
it is back in text while the reader is behind the CR, and that octet is no NUL
(`Stands`). The reader shows a carriage return at once and `telrcv` may show the
line feed alone: `ReturnsMakeNone` and `AlikeReturn` prove that nothing behind
tells the two apart. That what `TTYADD` refuses is no later than what is read, and
all that is shown behind it is kept (`Below`), needs the numbers of `NumInv`. The
octets are taken one by one, or two at a carriage return (`ReceivedInStep`), and
whatever else happens leaves both texts as they are or drops both (`Leaves`,
`DropInStep`).

**Induction over sequences.** The library's induction theorems take an operator
as a parameter, which the provers cannot instantiate. `SequenceLemmas` does
without: `UpTo` is induction over an interval with the predicate given as the
set of what satisfies it, from the well-foundedness of `<` on the naturals, and
a function that goes through a sequence is a run of a step function, given as a
function on pairs (`RunExists`, `RunUnique`, `FoldConcat`). What a recursive
function of a model computes for every input follows when its equations are
shown to be the steps of such a run.

**Login.** `AllDecodes` is the round trip through the three programs' code: what
`env_opt_add` doubles and escapes is what `telrcv` and `suboption` take off
again, name by name, whatever octets the values have. `EnvironCarried` is
inductive once every message on its way decodes to what it means
(`MessagesDecode`), which `AllDecodes` gives for those the client makes and, of
XDISPLOC, `DisplayCarried` for a DISPLAY without an IAC: what has none in it
`telrcv` takes as it is (`PlainUndoubled`).
`OnlyExported` needs that every value on its way, and every one telnetd means or
the child has, was exported once (`ShownInv`). `TermIsBest` needs that at most
one question about the terminal type or one answer is under way, and only while
telnetd waits (`OneQuestion`), and what telnetd has heard at each stage of the
dialogue (`NamesInv`). `WindowKept` needs that the last size on its way, or the
one telnetd has, is the client's (`Ends`), and that the child's differs from it
only if `crossed` (`SizeInv`).

**Only model-checked.** The liveness properties. `NothingForgotten`, which does
not hold of every set of requests but of those of the `session` run: a user who
sends options by hand can leave a count behind.

## 5. Not modelled

* Terminal and pty ioctls, utmp, `exec`, name and address lookup, arguments,
  the banner and host name, the command parser, help and display: calls and
  text with no protocol state. Printing of options for traces, and the text of
  the STATUS report.
* Code that is not compiled: authentication, encryption, tn3270. Of LINEMODE,
  `telrcv`'s clause at state.c:127, which in line mode makes a line feed of CR
  LF by looking at the next octet of the same read; the flush bits and
  `SLC_CANTCHANGE`; turning LINEMODE off again; kludge line mode in telnetd.
* The client's `suboption` for an ENVIRON SEND with a list of names
  (telnet.cc:1118), whose loop telnetd never starts, since it asks for all
  variables; and `env_opt_add` of an empty name.
* In `Login`, octets 236 to 254 other than SE as values' contents; the 256 bytes
  of the client's buffer for an answer and the 41 of `terminalname`; the octets
  behind an IAC in a name, which end the suboption and reach the pty or are
  dropped; and what the user types while a suboption has no end.
* `ring.cc`'s `xprintf`; a failing read or write of the network, which ends
  either program.
* What login has written and telnetd has not sent when SIGCHLD comes, and what a
  ring loses when it is full: the code has nothing to recover it and says
  nothing of it, so there is no property to state (`hazards` with a note).
* `authenc.c` and `authenc.cc` on either side.

Out of the provers' reach: liveness and ENABLED.
