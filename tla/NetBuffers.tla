----------------------------- MODULE NetBuffers -----------------------------
(***************************************************************************)
(* The server's output to the network, telnetd/utility.c: the stdio buffer *)
(* netfile, the list of items that netwrite() cuts it into, and            *)
(* netwritebuf(), which sends as much of the list as the socket takes.     *)
(*                                                                         *)
(* The buffers' state is a record and each C function an operator on it,   *)
(* which answers its outcomes: the buffers and the bytes that went out.    *)
(* Bytes carry a tag, own, that says whether they were written as part of  *)
(* a command; only properties look at it.                                  *)
(***************************************************************************)
EXTENDS Integers, SequencesExt

CONSTANT FileSize   \* the size of the stdio buffer

\* Every piece of output fits the empty stdio buffer.
ASSUME FileSizeAssumption == FileSize \in Nat /\ FileSize >= 5

\* "x" is user data or an option, "EL" the code of Erase Line, which may also
\* be a data byte, "WILL" any verb that an option follows, "yes" an answer to
\* "Are you there?".
Code == {"IAC", "WILL", "SB", "SE", "DM", "EL", "CR", "LF", "NUL", "yes", "x"}

Octet == [code : Code, own : {"command", "data"}]

Command(codes) == [i \in DOMAIN codes |-> [code |-> codes[i], own |-> "command"]]

Data(codes) == [i \in DOMAIN codes |-> [code |-> codes[i], own |-> "data"]]

Synch == Command(<<"IAC", "DM">>)

(***************************************************************************)
(* file: the stdio buffer.  list: the items from head.next to tail.  skip: *)
(* how much of the first item is sent.  trailing: the last item is a       *)
(* command whose end has not been written.  urg: the place in list of the  *)
(* item to be sent as urgent data, or 0.  corrupt: a length computed past  *)
(* the end of the data was used.                                           *)
(***************************************************************************)
Buffers ==
    [file : Seq(Octet), list : Seq(Seq(Octet)), skip : Nat,
     trailing : BOOLEAN, urg : Nat, corrupt : BOOLEAN]

NetInit ==
    [file |-> << >>, list |-> << >>, skip |-> 0,
     trailing |-> FALSE, urg |-> 0, corrupt |-> FALSE]

-----------------------------------------------------------------------------
(* nextitem()                                                              *)

\* Where the IAC SE is that ends the suboption s, read two bytes at a time
\* from each IAC on; 0 if it is not there.
SuboptionEnd(s) ==
    LET end[i \in 3 .. Len(s) + 1] ==
            IF i >= Len(s) THEN 0
            ELSE IF s[i].code # "IAC" THEN end[i + 1]
            ELSE IF s[i + 1].code = "SE" THEN i + 1
            ELSE end[i + 2]
    IN  end[3]

(***************************************************************************)
(* The length of the first item of s, or 0 if its end is missing.  Data    *)
(* ends behind the next IAC, not before it; a verb counts three bytes      *)
(* whether or not the third is there.                                      *)
(***************************************************************************)
ItemLength(s) ==
    LET iac == SelectInSeq(Tail(s), LAMBDA c : c.code = "IAC")
    IN  IF s[1].code # "IAC" THEN IF iac = 0 THEN Len(s) ELSE iac + 1
        ELSE IF Len(s) = 1 THEN 0
        ELSE CASE s[2].code = "WILL" -> 3
               [] s[2].code = "SB" /\ Len(s) = 2 -> 0
               [] s[2].code = "SB" /\ Len(s) > 2 -> SuboptionEnd(s)
               [] OTHER -> 2

(***************************************************************************)
(* "! wewant(item)" as the macro expands: the negation covers its first    *)
(* clause only, so that data with EL in second place is not dropped.       *)
(* spared: the byte behind an item of one byte happens to be such a code.  *)
(***************************************************************************)
Unwanted(item, spared) ==
    /\ item[1].code # "IAC"
    /\ IF Len(item) > 1 THEN item[2].code # "EL" ELSE ~spared

-----------------------------------------------------------------------------
(* netwritebuf()                                                           *)

Length(items) == Len(FlattenSeq(items))

\* The items that one call of writev() is given.
Offered(b, clear) ==
    IF b.urg > 0 THEN SubSeq(b.list, 1, b.urg - 1)
    ELSE IF clear /\ b.trailing THEN Front(b.list)
    ELSE b.list

\* How much the socket may take.  It cannot refuse nothing at all.
Room(b, clear) ==
    LET offered == IF b.urg = 1 THEN 1
                   ELSE IF Offered(b, clear) = << >> THEN 0
                   ELSE Length(Offered(b, clear)) - b.skip
    IN  IF offered = 0 THEN {0} ELSE 1 .. offered

\* How many items are freed: those sent whole, but never one that is trailing.
Freed(b, n) ==
    Cardinality({k \in DOMAIN b.list :
                    /\ Length(SubSeq(b.list, 1, k)) <= n + b.skip
                    /\ b.trailing => k < Len(b.list)})

\* Wrong: the urgent pointer stays at the item it has sent a byte of.
TakeKeepsUrgent(b, n) ==
    LET k == Freed(b, n)
    IN  [b EXCEPT !.list = SubSeq(b.list, k + 1, Len(b.list)),
                  !.skip = n + b.skip - Length(SubSeq(b.list, 1, k)),
                  !.urg = IF b.urg > 1 THEN b.urg - k ELSE b.urg]

Take(b, n) ==
    LET k == Freed(b, n)
    IN  [b EXCEPT !.list = SubSeq(b.list, k + 1, Len(b.list)),
                  !.skip = n + b.skip - Length(SubSeq(b.list, 1, k)),
                  !.urg = IF b.urg > 1 THEN b.urg - k ELSE 0]

\* Wrong: the first item is sent from its start.
WriteBufFromStart(b, clear) ==
    {[net |-> b, sent |-> << >>]} \cup
    IF b.list = << >> THEN {}
    ELSE {[net |-> Take(b, n), sent |-> SubSeq(FlattenSeq(b.list), 1, n)] :
             n \in Room(b, clear)}

\* The outcomes of a call: the buffers and the bytes that went out.
WriteBuf(b, clear) ==
    {[net |-> b, sent |-> << >>]} \cup
    IF b.list = << >> THEN {}
    ELSE {[net |-> Take(b, n),
           sent |-> SubSeq(FlattenSeq(b.list), b.skip + 1, b.skip + n)] :
             n \in Room(b, clear)}

-----------------------------------------------------------------------------
(* netwrite()                                                              *)

\* New data cut into items, with the length nextitem() gives for each; that
\* of the last may be 0, or more than there is.
Items(s) ==
    LET cut[i \in 1 .. Len(s) + 1] ==
            IF i > Len(s) THEN << >>
            ELSE LET rest == SubSeq(s, i, Len(s))
                     l == ItemLength(rest)
                 IN  IF l = 0 \/ l >= Len(rest)
                         THEN <<[item |-> rest, length |-> l]>>
                         ELSE <<[item |-> SubSeq(rest, 1, l), length |-> l]>>
                                 \o cut[i + l]
    IN  cut[1]

\* How much of s belongs to the trailing item.
Completion(b, s) ==
    LET whole == Last(b.list) \o s
    IN  IF ~b.trailing THEN 0
        ELSE IF ItemLength(whole) = 0 THEN Len(s)
        ELSE ItemLength(whole) - Len(Last(b.list))

\* First the trailing item gets it.
Continued(b, s) ==
    LET l == Completion(b, s)
    IN  IF ~b.trailing THEN b
        ELSE IF l > Len(s) THEN [b EXCEPT !.corrupt = TRUE]
        ELSE [b EXCEPT
                !.list = Append(Front(b.list), Last(b.list) \o SubSeq(s, 1, l)),
                !.trailing = ItemLength(Last(b.list) \o s) = 0]

\* What s has at the places in keep, in its order.
Only(s, keep) == FlattenSeq([i \in DOMAIN s |-> IF i \in keep THEN <<s[i]>> ELSE << >>])

\* The places in the list of what netclear() leaves there, in their order.
Kept(b, spared) ==
    Only([k \in DOMAIN b.list |-> k],
         {k \in DOMAIN b.list : \/ ~Unwanted(b.list[k], k \in spared)
                                \/ b.trailing /\ k = Len(b.list)})

\* Then, for netclear(), the unwanted items go.
Cleared(b, spared) ==
    LET kept == Kept(b, spared)
    IN  [b EXCEPT !.list = [i \in DOMAIN kept |-> b.list[kept[i]]],
                  !.skip = 0,
                  !.urg = SelectInSeq(kept, LAMBDA k : k = b.urg)]

\* Last, what is left of s becomes items of its own.  Of these only the last
\* can be data of one byte: 0 \in spared is about that one.
Added(b, s, clear, spared) ==
    LET items == Items(s)
        wanted == IF ~clear THEN items
                  ELSE Only(items, {i \in DOMAIN items : ~Unwanted(items[i].item, 0 \in spared)})
    IN  IF s = << >> THEN b
        ELSE [b EXCEPT
                !.list = b.list \o [i \in DOMAIN wanted |-> wanted[i].item],
                !.trailing = Last(items).length = 0,
                !.corrupt = Last(items).length > Len(Last(items).item)]

\* netwrite() up to its call of netwritebuf()
NetWrite(b, s, clear, spared) ==
    LET rest == SubSeq(s, Completion(b, s) + 1, Len(s))
        c == Continued(b, s)
        d == IF clear THEN Cleared(c, spared) ELSE c
    IN  IF c.corrupt THEN c ELSE Added(d, rest, clear, spared)

-----------------------------------------------------------------------------
(* stdio: netwrite() is called with a full buffer when what is written     *)
(* does not fit, and with what there is in fflush().                       *)

Silent(b) == [net |-> b, sent |-> << >>]

\* u is put into the stdio buffer; if it does not fit the buffer is filled and
\* written, and the rest is put into it.
Puts(b, u) ==
    LET all == b.file \o u
        written == NetWrite([b EXCEPT !.file = SubSeq(all, FileSize + 1, Len(all))],
                            SubSeq(all, 1, FileSize), FALSE, {})
    IN  IF Len(all) <= FileSize THEN {Silent([b EXCEPT !.file = all])}
        ELSE UNION {IF c.corrupt THEN {Silent(c)} ELSE WriteBuf(c, FALSE) : c \in {written}}

\* fflush(), which calls netwrite() if there is something in the stdio buffer.
FileFlushes(b, clear, spared) ==
    IF b.file = << >> THEN {Silent(b)}
    ELSE UNION {IF c.corrupt THEN {Silent(c)} ELSE WriteBuf(c, clear) :
                   c \in {NetWrite([b EXCEPT !.file = << >>], b.file, clear, spared)}}

\* netflush(): fflush() and netwritebuf().
Flushes(b, clear, spared) ==
    UNION {{[net |-> p.net, sent |-> o.sent \o p.sent] :
               p \in IF o.net.corrupt THEN {Silent(o.net)} ELSE WriteBuf(o.net, clear)} :
           o \in FileFlushes(b, clear, spared)}

\* sendurg() of the Synch; as normal data if the client seems to be a 4.2
\* system.
SendUrg(b, not42) ==
    IF not42
    THEN [b EXCEPT !.list = Append(b.list, Synch), !.urg = Len(b.list) + 1]
    ELSE [b EXCEPT !.file = b.file \o Synch]

\* The items of one byte, whose next byte may be anything; 0: see Added.
OneByte(b) == {0} \cup {k \in DOMAIN b.list : Len(b.list[k]) = 1}

\* netclear() and sendurg()
Clears(b) ==
    UNION {{[o EXCEPT !.net = IF @.corrupt THEN @ ELSE SendUrg(@, not42)] :
               o \in Flushes(b, TRUE, spared), not42 \in BOOLEAN} :
           spared \in SUBSET OneByte(b)}

\* What is still to be sent of the list, and of everything.
ListUnsent(b) == SubSeq(FlattenSeq(b.list), b.skip + 1, Length(b.list))

Unsent(b) == ListUnsent(b) \o b.file

\* What netbuflen() tells the main loop.
NetBufLen(b) ==
    IF Len(b.list) # 1 THEN Len(b.list) ELSE Len(b.list[1]) - b.skip
=============================================================================
