---------------------------- MODULE SysexParser -----------------------------
(***************************************************************************)
(* sysex.js: system exclusive messages out of the chunks of bytes that the *)
(* 'message' events of midi.input bring.                                   *)
(*                                                                         *)
(* Bytes are numbers, as the comparisons with 128, 240 and 247 need them.  *)
(* Indices start at 1 here and at 0 in the code; start = 0 stands for -1.  *)
(* A chunk is a JavaScript Array.  concat takes an Array for a list of     *)
(* buffers, makes each of its numbers n a new Buffer(n), n bytes of old    *)
(* memory, and does not look at its second argument; a Buffer it joins     *)
(* with the chunk.  Old memory is any bytes of OldMemory, cut to one byte  *)
(* more than the Array had.                                                *)
(***************************************************************************)
EXTENDS Integers, FiniteSetsExt, SequencesExt

CONSTANTS
    FlowChunks,    \* the chunks that may come
    MaxChunks, \* bound: how many come
    OldMemory, \* the bytes that may be found in a new Buffer(n)
    Null       \* no bytes kept

Byte == 0..255

\* What comes are bytes, and what is kept is not nothing.
ASSUME ParserAssumption ==
    /\ FlowChunks \subseteq Seq(Byte)
    /\ OldMemory \subseteq Byte
    /\ Null \notin [class : {"Array", "Buffer"}, bytes : Seq(Byte)]

VARIABLES
    fed,       \* the chunks parsed so far
    buf,       \* sysex_buf: Null, or its class and bytes
    start,     \* sysex_start
    offset,    \* sysex_offset
    len,       \* sysex_len
    hung,      \* the copying loop has not ended
    called  \* the messages the callback was called with

parserVars == <<fed, buf, start, offset, len, hung, called>>

F0 == 240
F7 == 247
IsData(b) == b < 128

Array(b)  == [class |-> "Array", bytes |-> b]
Buffer(b) == [class |-> "Buffer", bytes |-> b]

-----------------------------------------------------------------------------

ParserInit ==
    /\ fed = <<>>
    /\ buf = Null
    /\ start = 0
    /\ offset = 0
    /\ len = 0
    /\ hung = FALSE
    /\ called = <<>>

-----------------------------------------------------------------------------

\* What sysex_buf may be once the chunk has been added to it.
Added(chunk) ==
    IF buf = Null THEN {Array(chunk)}
    ELSE IF buf.class = "Buffer" THEN {Buffer(buf.bytes \o chunk)}
    ELSE { Buffer(g) : g \in [1..(Len(buf.bytes) + 1) -> OldMemory] }

\* The index of the first F0, or 0.
FirstF0(b) == IF F0 \in ToSet(b) THEN SelectInSeq(b, LAMBDA x : x = F0) ELSE 0

DataBetween(b, i, j) == { k \in i..j : IsData(b[k]) }

\* Mutant: sysex_len counts one byte more than F0 and F7.
InitialLen_OffByOne == 3

InitialLen == 2

\* Mutant: what is left of the last chunk is kept.
Rest_Kept(b, i) == [b EXCEPT !.bytes = SubSeq(b.bytes, i, Len(b.bytes))]

\* After a message: nothing is kept if index i is the last one.
Rest(b, i) ==
    IF i = Len(b.bytes) THEN Null
    ELSE [b EXCEPT !.bytes = SubSeq(b.bytes, i, Len(b.bytes))]

\* The first n - 2 data bytes from index s on.
Copied(b, s, n) ==
    SubSeq(SelectSeq(SubSeq(b, s, Len(b)), IsData), 1, n - 2)

\* Where the copying loop stops: after the last byte it copied.
StopsBefore(b, s, n) ==
    Min({ k \in s..Len(b) : Cardinality(DataBetween(b, s, k - 1)) >= n - 2 })

\* sysex_end is at e: copy n bytes from s on, keep the rest, call back.
Finish(b, s, e, n) ==
    /\ start' = 0
    /\ offset' = 0
    /\ len' = n
    /\ IF Cardinality(DataBetween(b.bytes, s, Len(b.bytes))) < n - 2
       THEN /\ hung' = TRUE  \* the loop runs on past the end of the bytes
            /\ buf' = b
            /\ UNCHANGED called
       ELSE /\ called' = Append(called,
                               <<F0>> \o Copied(b.bytes, s, n) \o <<F7>>)
            /\ buf' = Rest(b, StopsBefore(b.bytes, s, n))
            /\ UNCHANGED hung

\* Look for the end from where the last call stopped.
Scan(b, s) ==
    LET from  == IF offset = 0 THEN s ELSE offset
        known == IF offset = 0 THEN InitialLen ELSE len
        ends  == { k \in from..Len(b.bytes) : b.bytes[k] = F7 }
        upTo(k) == known + Cardinality(DataBetween(b.bytes, from, k - 1))
    IN  IF ends # {}
        THEN Finish(b, s, Min(ends), upTo(Min(ends)))
        ELSE /\ start' = s
             /\ offset' = Len(b.bytes) + 1
             /\ len' = upTo(Len(b.bytes) + 1)
             /\ buf' = b
             /\ UNCHANGED <<hung, called>>

\* sysex(chunk, callback, timestamp)
Parse(chunk) ==
    /\ ~hung
    /\ Len(fed) < MaxChunks
    /\ fed' = Append(fed, chunk)
    /\ \E b \in Added(chunk) :
          LET s == IF buf = Null \/ start = 0 THEN FirstF0(b.bytes) ELSE start
          IN  IF s # 0
              THEN Scan(b, s)
              ELSE /\ buf' = Null
                   /\ start' = 0
                   /\ offset' = 0
                   /\ len' = 0
                   /\ UNCHANGED <<hung, called>>

ParserNext == \E chunk \in FlowChunks : Parse(chunk)

ParserSpec == ParserInit /\ [][ParserNext]_parserVars

-----------------------------------------------------------------------------

\* The messages in a flow of bytes: from an F0 to the next F7, the data bytes
\* between them and nothing else.
MessagesIn(flow) ==
    LET EndOf(i) == { k \in i..Len(flow) : flow[k] = F7 }
        At(i) == IF flow[i] = F0 /\ EndOf(i) # {}
                 THEN << <<F0>> \o SelectSeq(SubSeq(flow, i, Min(EndOf(i))),
                                             IsData) \o <<F7>> >>
                 ELSE <<>>
    IN  FlattenSeq([i \in DOMAIN flow |-> At(i)])

\* Every message that begins in the chunk ends in it.
Uncut(chunk) ==
    \A i \in DOMAIN chunk :
       chunk[i] = F0 => \E j \in i..Len(chunk) : chunk[j] = F7

\* Nothing is kept of an uncut chunk if there is no F0 in it, or if the first
\* F7 after the first F0 is its last byte and comes right after a data byte.
LeavesNothing(chunk) ==
    \/ F0 \notin ToSet(chunk)
    \/ /\ IsData(chunk[Len(chunk) - 1])
       /\ \A k \in FirstF0(chunk)..(Len(chunk) - 1) : chunk[k] # F7

\* When no byte was kept from an earlier chunk, the callback is called with the
\* first message of an uncut chunk and with no other (sysex.js:89-108).  What
\* is kept is nothing only where LeavesNothing says so: the test of line 99
\* looks at where the copying loop stopped, after the last byte of data, and
\* not at where the F7 is.  F0 F7, F0 01 F8 F7, F0 01 F7 F8 and a chunk of two
\* messages leave bytes for the next call, whose message is lost (line 52),
\* although line 2 says "parse sysex messages from MIDI flow".
FlowParsed ==
    [][buf = Null /\ Uncut(Last(fed')) =>
          LET messages == MessagesIn(Last(fed'))
          IN  /\ called' = IF messages = <<>> THEN called
                           ELSE Append(called, Head(messages))
              /\ (buf' = Null) <=> LeavesNothing(Last(fed'))]_parserVars

\* The loop that copies the message ends (lines 91-96): sysex_len never asks
\* for more data bytes than there are.  Old memory, which replaces what was
\* kept of a message that was cut (concat, line 52), may ask for more.
NeverHangs == (\A i \in DOMAIN fed : Uncut(fed[i])) => ~hung
=============================================================================
