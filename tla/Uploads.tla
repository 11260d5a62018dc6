------------------------------- MODULE Uploads -------------------------------
(***************************************************************************)
(* Files that a user sends to the device: the form that mpxedit.js makes   *)
(* of them, form.js, which receives and parses it, and the handler of      *)
(* /upload in main.js, which hands each system exclusive message in it to  *)
(* midi_message, beside what else is sent (MidiOutput).                    *)
(*                                                                         *)
(* The text of a form is a sequence of tokens: CR, LF, a dash, the         *)
(* boundary, a header line and the text of a file.  What form.js does with *)
(* characters up to a colon or a CR is done here with one token.           *)
(*                                                                         *)
(* A body that comes in more than one chunk meets the undefined variable   *)
(* buffer, a form that is not well-formed a throw: both end the program.   *)
(* So does the name of a file that has a semicolon, where form.js splits   *)
(* the header line it is in.                                               *)
(***************************************************************************)
EXTENDS MidiOutput

CONSTANTS
    Files,     \* the user's files
    Content,   \* file -> the message it holds, NoMessage or Empty
    NoMessage, \* something else than one system exclusive message
    Empty,     \* nothing
    OddNames,  \* the files whose names have a semicolon
    MaxFiles,  \* bound: files in an upload
    MaxChunks  \* bound: chunks of a body

Uploaded == { Content[f] : f \in Files } \cap Messages

ASSUME UploadsAssumption ==
    /\ NoMessage \notin Messages
    /\ Empty \notin Messages
    /\ \A f \in Files : Content[f] \in Messages \cup {NoMessage, Empty}
    /\ MaxFiles \in Nat
    /\ MaxChunks \in Nat

VARIABLES
    reading, \* the files being read in the browser
    added,   \* those in the payload, in its order
    payload, \* the text of the form
    at,      \* the upload: "none", "reading", "sent", "handled" or "failed"
    body,    \* the chunks on their way
    data,    \* the text received, or <<>>
    handing, \* the parts that the handler is still to look at
    server   \* the program: "on" or "dead"

uploadVars == <<reading, added, payload, at, body, data, handing, server>>
vars == <<outputVars, uploadVars>>

-----------------------------------------------------------------------------
(* The form *)

CRLF == <<"CR", "LF">>
Boundary == <<"boundary">>
Dashes == <<"-", "-">>

\* The header lines that are parsed without a throw.
HeaderLines == {"Content-Disposition", "Content-Type"}

Disposition(f) == IF f \in OddNames THEN "odd name" ELSE "Content-Disposition"

Text(f) == IF Content[f] = Empty THEN <<>> ELSE <<f>>

\* payload_addFile
WithFile(p, f) ==
    (IF p = <<>> THEN Boundary ELSE p) \o CRLF
    \o <<Disposition(f)>> \o CRLF \o <<"Content-Type">> \o CRLF \o CRLF
    \o Text(f) \o CRLF \o Boundary

\* payload_send
Ended(p) == p \o Dashes \o CRLF \o CRLF

Marker == CRLF \o Boundary

\* Where the headers from i on have ended, or 0 for a throw.
HeadersEnd(d, i) ==
    LET end[k \in 1..Len(d)] ==
            LET next == k + 3
            IN  IF next + 1 > Len(d) \/ d[k] \notin HeaderLines THEN 0
                ELSE IF d[next] = "CR" THEN next + 2
                ELSE end[next]
    IN  IF i > Len(d) THEN 0 ELSE end[i]

\* The first marker from i on, or 0 for a throw.
MarkerAt(d, i) ==
    LET found == { k \in i..(Len(d) - 2) : SubSeq(d, k, k + 2) = Marker }
    IN  IF found = {} THEN 0 ELSE Min(found)

\* Mutant: the blank line after the headers belongs to the text.
BodyStart_Line(d, i) == HeadersEnd(d, i) - 2

BodyStart(d, i) == HeadersEnd(d, i)

Throw == <<"throw">>

\* The texts of the parts from i on, where a marker has ended.
Parts(d, i) ==
    LET parts[k \in Nat] ==
            LET start == BodyStart(d, k + 2)
                end   == MarkerAt(d, start)
                after == end + 3
            IN  IF HeadersEnd(d, k + 2) = 0 \/ end = 0 \/ after + 1 > Len(d)
                THEN <<Throw>>
                ELSE <<SubSeq(d, start, end - 1)>>
                     \o IF SubSeq(d, after, after + 1) = Dashes THEN <<>>
                        ELSE parts[after]
    IN  parts[i]

\* form_parse: the marker is what is there before the first CR.
form_parse(d) == IF Head(d) = "CR" THEN <<Throw>> ELSE Parts(d, 2)

\* A text is a message if it is F0 ... F7 when decoded.
IsMessage(t) == Len(t) = 1 /\ Content[t[1]] \in Messages

-----------------------------------------------------------------------------

UploadsInit ==
    /\ Init
    /\ reading = {}
    /\ added = <<>>
    /\ payload = <<>>
    /\ at = "none"
    /\ body = <<>>
    /\ data = <<>>
    /\ handing = <<>>
    /\ server = "on"

\* addFileList: each file is read.
Upload ==
    /\ at = "none"
    /\ \E fs \in SUBSET Files :
          /\ Cardinality(fs) \in 1..MaxFiles
          /\ reading' = fs
    /\ at' = "reading"
    /\ UNCHANGED <<outputVars, added, payload, body, data, handing, server>>

\* The chunks a text may be cut into.
Chunks(d) ==
    {<<d>>} \cup
    IF MaxChunks < 2 THEN {}
    ELSE { <<SubSeq(d, 1, k), SubSeq(d, k + 1, Len(d))>> : k \in 1..(Len(d) - 1) }

\* reader.onload: when all have been read, the form is sent.
FileRead(f) ==
    /\ f \in reading
    /\ reading' = reading \ {f}
    /\ added' = Append(added, f)
    /\ payload' = WithFile(payload, f)
    /\ IF reading = {f}
       THEN at' = "sent" /\ body' \in Chunks(Ended(payload'))
       ELSE UNCHANGED <<at, body>>
    /\ UNCHANGED <<outputVars, data, handing, server>>

\* reader.onerror: nothing will be sent.
FileFails(f) ==
    /\ f \in reading
    /\ reading' = {}
    /\ at' = "failed"
    /\ UNCHANGED <<outputVars, added, payload, body, data, handing, server>>

\* 'data': data=data?buffer.concat(data,chunk):chunk
Chunk ==
    /\ at = "sent"
    /\ body # <<>>
    /\ IF data = <<>>
       THEN /\ data' = Head(body)
            /\ body' = Tail(body)
            /\ UNCHANGED server
       ELSE server' = "dead" /\ UNCHANGED <<body, data>>
    /\ UNCHANGED <<outputVars, reading, added, payload, at, handing>>

\* 'end': the form is parsed, the browser answered.
End ==
    /\ at = "sent"
    /\ body = <<>>
    /\ LET form == form_parse(data)
       IN  IF Throw \in ToSet(form)
           THEN server' = "dead" /\ UNCHANGED <<at, handing>>
           ELSE /\ at' = "handled"
                /\ handing' = form
                /\ UNCHANGED server
    /\ UNCHANGED <<outputVars, reading, added, payload, body, data>>

\* The next part of the form: if it is a message it is handed to midi_message.
HandFile ==
    /\ handing # <<>>
    /\ handing' = Tail(handing)
    /\ IF IsMessage(Head(handing)) THEN Send(Content[Head(handing)[1]])
                                   ELSE UNCHANGED outputVars
    /\ UNCHANGED <<reading, added, payload, at, body, data, server>>

\* The rest of the program goes on: messages that nobody uploads, timers.
Output ==
    /\ \/ \E m \in Messages \ Uploaded : Send(m)
       \/ \E m \in Messages : LoopAgain(m)
       \/ Tick
    /\ UNCHANGED uploadVars

\* A handler runs to its end before anything else does.
UploadsNext ==
    /\ server = "on"
    /\ \/ HandFile
       \/ /\ handing = <<>>
          /\ \/ Upload \/ Chunk \/ End \/ Output
             \/ \E f \in Files : FileRead(f) \/ FileFails(f)

\* What the server does without a user: time passes, a timer that is due
\* fires, what was sent arrives and is handled.
UploadsSpec ==
    /\ UploadsInit
    /\ [][UploadsNext]_vars
    /\ WF_vars(server = "on" /\ HandFile)
    /\ WF_vars(server = "on" /\ handing = <<>> /\ (Chunk \/ End))
    /\ WF_vars(server = "on" /\ handing = <<>> /\ Tick /\ UNCHANGED uploadVars)
    /\ \A m \in Messages :
          WF_vars(server = "on" /\ handing = <<>> /\ LoopAgain(m)
                  /\ UNCHANGED uploadVars)

-----------------------------------------------------------------------------

\* What was asked for is sent to its last byte: the timer of a long message
\* is set again until nothing is left (lexicon.js, lines 1194-1196), unless an
\* upload has ended the program.
EverySent ==
    \A m \in Messages : m \in asked ~> index[m] = Length[m] \/ server = "dead"

\* The uploaded messages, in the order in which they went out.
WentOut ==
    LET first == SelectSeq(wire, LAMBDA c : c.msg \in Uploaded /\ c.from = 0)
    IN  [k \in DOMAIN first |-> first[k].msg]

\* The messages among the texts of a form, in its order.
Held(texts) ==
    LET found == SelectSeq(texts, IsMessage)
    IN  [k \in DOMAIN found |-> Content[found[k][1]]]

\* Of the files of an upload, those that hold a message go out, each once and
\* in the order of the form, whatever else is in it (form.js lines 30-172,
\* main.js lines 935-981); and the program goes on, if the form came in one
\* chunk (form.js line 23) and can be split (form.js line 88).
UploadRight ==
    /\ at = "handled" =>
          WentOut \o Held(handing) = Held([k \in DOMAIN added |-> Text(added[k])])
    /\ at # "handled" => WentOut = <<>>
    /\ server = "dead" => body # <<>> \/ ToSet(added) \cap OddNames # {}
=============================================================================
