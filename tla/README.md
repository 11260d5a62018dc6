# Lexicon MPX G2 editor: TLA+ models, TLC runs and TLAPS proofs

The repository is a fork of node 0.6 into which an editor for the Lexicon MPX G2
effects processor is built. This directory holds the formal models of the
editor's own logic: the part that talks MIDI to the device, keeps its requests
and their timers, reads its control tree, saves its programs and shows its
parameters in several browser windows. node itself, v8, libuv, npm and the
other vendored code are out of scope, except where the editor's correctness
hangs on what they do (the event loop, `fs.writeFile`, the patched RtMidi).

How to run, from this directory:

    tlc -config MCSysexRequests_readers.cfg MCSysexRequests
    tlapm SysexRequestsProofs.tla

`PROJECT.json` lists every run, the source lines of every definition (`map`),
the mutation of the code that each property detects (`mutants`), the theorems,
the hazards and the findings.

## 1. The system

| Part | Code | State it keeps | Operations |
|---|---|---|---|
| Requests to the device | `lexicon.js` `midi_message`, `sysex_callback`, `*_request` | `sysex_hook` (list of message objects), per message `remove`, `timeout.retry`, timer | send, answer, timeout and retry, pass on as automation |
| Message formats | `lexicon.js` `nibblize`, `*_parse`, `getProgramAddr` | none | encode, parse |
| Control tree | `lexicon.js` `controlTree_loop`, `getLevel`, `patching_destinations_rebuild` | `config.controlTree`, `controlTreeStack`, `levels` | walk, look up |
| Startup and configuration | `lexicon.js` `init`, `device_inquiry`, `config_read`, `config_init`, `config_build`, `config_save` | `config`, its files, `buildingControlTree`, `deviceAlive` | handshake, read a file, build, save |
| Processing steps | `lexicon.js` `getUsedSteps` | `getting_usedSteps`, `algorithm_num`, `usedSteps_callbacks` | read, join |
| MIDI output | `lexicon.js` `midi_message`, `midioutq_loop`, `midi_message_send` | `midioutq`, `midiout_lock`, `midiout_timestamp`, pieces of a long message | queue, send, send in pieces |
| System exclusive parser | `sysex.js` | `sysex_buf`, `sysex_len`, `sysex_on` | parse a chunk |
| MIDI input | `src/src/node_midi.cc`, `RtMidi.cpp` (ALSA) | `continueSysex`, `message`, `message_queue`, its mutex, the `uv_async` | read an event, queue, wake up, emit |
| MIDI interfaces | `main.js`, `lexicon.js` `midi_init`, `node_midi.cc` | open port, references, `mpxg2edit.ini` | list, choose, open, close, save |
| Windows and automation | `main.js`, `src/main/js/mpxedit.js` | value shown, 50 ms timer, sockets, `disable_automation` | edit, broadcast, load, register, close |
| Program dumps and library | `main.js` | `library`, `library.mpx`, `library_timeout`, dump of all programs | dump, save, restart |
| Effect bypass | `main.js` `bypass` | none of its own | read, write the complement |
| Upload form | `mpxedit.js`, `src/lib/form.js`, `main.js` `/upload` | files read, payload, `data` | make a form, receive, parse, send what it holds |
| Page generation | `main.js` `loop`, `controlTree_gui`, `lexicon.js` `getLevel`, `getObjectValue` | `levels`, the page so far, `config.ready` | walk the nodes, ask for values, make controls |
| Client widgets, HTTP and file helpers, bundling scripts | `mpxedit.js`, `server.js`, `file.js`, `mime.js` | none that matters here | text, I/O |

How they interact. The MIDI input thread (a real thread) pushes messages on a
queue under a mutex and wakes node's event loop; `EmitMessage` empties the queue
there and calls the `message` listener, which is the system exclusive parser;
the parser calls `sysex_callback`; that walks the hooks and calls callbacks,
which send further requests; what no hook stops goes to `dataMessage_process`,
which stores programs in the library and broadcasts parameters to the windows.
Everything except the input thread runs in the event loop, **one handler at a
time**: this is the atomicity of all the models of JavaScript code. The
interleavings that remain are those of handlers: timers, answers, sockets, HTTP
requests, completed writes.

What makes it hard:

- requests are repeated on a timeout, so answers come late, twice, or for
  another address, and all waiting requests share one list that callbacks extend
  while it is walked;
- chains of callbacks stop for good when one link is lost;
- two threads share the input queue and their wake-ups are coalesced;
- system exclusive messages are cut by the sequencer and by the chunks;
- several windows, the front panel and pages that are loading change and read
  the same parameter;
- files are written in place, by timers that do not know of each other, and read
  again after a restart;
- interfaces come and go between starts.

What makes each part correct:

- Requests: a callback runs at most once, with the answer to its own request; an
  answered request is never sent again; no hook is dropped or missed.
- MIDI input: nothing lost, repeated, reordered or left in the queue;
  a message arrives whole.
- Parser: the message of each chunk, and the parser always returns.
- Output: every byte once and in order; messages apart from each other.
- Interfaces: references follow the port; a start opens what was chosen.
- Windows: at rest all show what the device has; nothing is echoed.
- Steps: each caller gets one answer, and not an old one.
- Library: what was dumped is in the file and stays there; each dump answers.
- Startup: ends, with a configuration that is closed and of the right firmware.
- Pages: all the parameters under a node, each once and in order; a page asked for after
  startup is not dropped by an exception.
- Parameters: read, shown, changed, sent and announced, a value means the same
  everywhere.
- Bypass: a click makes one change, which is a toggle where the program asks the device. Upload: what the files hold is sent, in order.

## 2. The modules

| Module | Models | Remarks |
|---|---|---|
| `RequestReply` | what callers expect of a request | abstract: new, pending, done |
| `SysexRequests` | hooks, timers, retries, the dispatch loop | implements `RequestReply` |
| `SysexRequestsProofs` | | proofs |
| `MessageChannel` | what `midi.input` promises its user | abstract: a FIFO channel |
| `MidiInput` | input thread, mutex, queue, wake-up, `EmitMessage` | implements `MessageChannel` |
| `MidiInputProofs` | | proofs |
| `SysexParser` | `sysex()` byte for byte | proved in `MidiInputProofs` |
| `MidiOutput` | `midi_message` to `sendMessage`, with the pieces | proved in `MidiOutputProofs` |
| `Uploads` | files, form, parser, `/upload` | extends `MidiOutput`, whose actions send what a form holds beside everything else; implements `MidiOutput`, proved in `MidiOutputProofs` |
| `MidiPorts` | choice and reference count of the interfaces | proved in `HandlersProofs` |
| `Automation` | one parameter in several windows | proved in `AutomationProofs` |
| `EffectBypass` | the bypass button | proved in `HandlersProofs` |
| `UsedSteps` | `getUsedSteps` | proved in `LexiconProofs` |
| `ProgramLibrary` | program dumps, `library.mpx`, restarts | proved in `ProgramLibraryProofs` |
| `Startup` | `init` to its callback, the configuration files, the walk of the control tree | proved in `StartupProofs` |
| `Pages` | pages asked for while `init` runs and after | extends `Startup`: the walks share the configuration; proved in `StartupProofs` |
| `MessageFormats` | the bytes of messages, as functions | proved to be undone by its parsers in `LexiconProofs` |
| `Parameters` | one parameter of each option type, from the device to the controls and back | extends `MessageFormats`; its parsing and dumps proved in `LexiconProofs` |

`MC*` modules give the constants their values and `MC*_<case>.cfg` the bounds of
each run.

### State and actions against the code

**SysexRequests.** `hooks` is `sysex_hook` with one entry per send, so that a
request that was repeated is there twice, as the same object is in the code;
`removed` is the `remove` flag, `armed` the timer that `clearTimeout` would
stop, `retry` is `timeout.retry`. `dispatch` is the message `sysex_callback`
works on and its index `i`. A step is one iteration of its loop, because the
callbacks it calls push hooks on the list it walks: `Splice` (an entry already
flagged is removed), `Skip` (it waits for another type), `PassOn` (for another
address: the timer is cleared all the same), `Answer` (timer cleared, flag set,
callback run, follow-up sent), `Unhooked` (nobody stopped the message). No timer and no caller runs while `dispatch` is under way. `FollowUp`
gives the request that a callback makes. `toDevice`, `fromDevice` and the losses
are the environment.

**MidiInput.** `thread` and `main` are the program counters of the ALSA handler
and of the event loop, with one action for each lock, access and unlock of the
queue. `async` is the pending `uv_async`: sending it twice before it is
handled wakes the loop once. `bytes` and `continueSysex` are the handler's message under
construction. `taken` records what was read, for the properties only. `PortChanges` is
another interface opened while a message is under way: the rest of that message never
comes, and the input thread keeps what it has. `cut` records those messages. `Overrun` is the
-ENOSPC of the sequencer (`RtMidi.cpp:929`): what waits to be read is lost, and the handler goes on with
the bytes it has.

**Asking the device, or not.** `dataMessage_request` asks the device only if `config.ready` is
set and the device has answered the handshake; otherwise it calls back at once with zeros
(`lexicon.js:250`, `272-283`). `Startup` and `Pages` have `ready` and `alive` as they are. `Automation`,
`EffectBypass` and `UsedSteps` have `asks` for both, which may be true or false at first. It becomes
true (`Hears`) when the handshake is answered and the configuration was read from a file. It stays
false if the configuration was built from the device, as nothing sets `ready` then, and it never becomes
false again before a restart, as the editor makes no handshake after the one that is answered
(`DEBUG` is set, `lexicon.js:1252`, `1260`).

**SysexParser.** A chunk is a sequence of bytes; `sysex_buf` may be null, a
Buffer or an Array, and `concat` treats the last two differently, as the code
does. `OldMemory` has the bytes that a new `Buffer(n)` may contain; of those bytes
one more than the Array had is kept, where the code has as many as their sum.

**MidiOutput.** A message is its length and `index` how much of it was handed over; time is
counted in ticks of 50 ms. `Threshold` and `PieceSize` stand for 20480 and 16 bytes.

**Uploads.** The text of a form is a sequence of tokens: CR, LF, a dash, the boundary, a
header line, the text of a file. `payload` is what `payload_addFile` and `payload_send` of
`mpxedit.js` make of the files in the order in which they have been read, `body` the chunks in
which it arrives, `data` what `form_receive` has, `form_parse` the parser, `handing` the parts
that the loop of the handler is still to look at: it sends a part that is a message and
passes over the others. An exception anywhere makes `server` `"dead"`.

**MidiPorts.** Interfaces are numbered as they are listed, so that a number changes
when another one is unplugged. `refs` is the reference count of the input's
`ObjectWrap`, `up = "aborted"` the end of the program by its assertion.
`prefs` is `mpxg2edit.ini`.

**Automation.** One parameter. Per window: the page's state, the value shown, the
50 ms timer of `input_change`, messages in each direction. `disable_automation`
is one flag. `Load` asks for the value (`AskFor`) or makes the page of zeros at once (`ShowZero`), and
`guessed` has the windows with such a page. `raced` is a history variable: some user acted while what another
one had done was still on its way.

**UsedSteps.** The index and the flag of the reader, the callers that joined, and
the reads on the wire. The first read has retries; a later one is sent from the
callback of its predecessor, within the dispatch that clears its timer. Any of them may be
lost; `orphaned` records that one without a timer was. `sinceCall` records which algorithms
were loaded since a call was made. A call that does not ask the device ends in one step, with zeros.

**EffectBypass.** `hooks` holds the reads that wait, as in `SysexRequests`, of which it
needs only what three clicks for the same address see: what arrives goes to the first
hook. A read that is sent again has another hook behind its first, which takes what comes; the list
has its click once. A click that does not ask the device writes 1 at once (`ZeroAnswered`: the
complement of zero). `expected` is what the user and the front panel have asked for, or what the click
is bound to write; `raced` says that one acted while something was on its way.

**ProgramLibrary.** `library` is in memory, `file` is what is on the disk, a
write is an open that empties the file and then the write of the text. Two
timers write it, the one of `writeLib_timeout` and the one that ends a dump.
`Restart` reads the file, an unreadable file as an empty library. `torn` and
`rivals` are history variables: writes overlapped or were cut, dumps overlapped.

**Startup.** `files` holds the content of each configuration file, by firmware version; a
description is kept as the version it is of. `Tree` gives the control tree of each
version and `Children` how many children a node of a type has. `path` is
`levels[0..numLevels-1]` and `stack` is `controlTreeStack`; `Visit` is
`controlTree_add_callback`: down to the first child, or to the next child of the
deepest level that has one (the `while` loop that pops), or the end. A timer that fires
before the answer repeats the request, and the device then answers twice: `ahead` has the
answers that come before the one to the present request, and the walk takes them for it.
The device is silent about a node it has not. A
file that a crash or an error has cut is `Torn`, and reading it is the end of the program,
as `JSON.parse` throws.

**Pages.** `page` is one page being made: where its walk is (`levels`), the node whose children it
lists (`base`), what it has so far (`html`) and the descriptions that its `loop` has
(`seen`). `Asks` is the test of `dataMessage_request` that answers zeros at once, without
the device, and then the whole page is made in one step, as in the code. `Down`,
`Going` and `After` are the walk. A node that is not there is an exception, which does not end the
program: `server.js:39-53` catches it in `GET` itself, and the callback of an answer is called by
`EmitMessage`, which passes over it (`node_midi.cc:246-250`). But nothing ends the response then: the page is
`Dropped`, the browser waits, and a page of an effect leaves `disable_automation` set. `Automation` has no
such pages: its `PagesAnswered` and `EventuallyAgree` suppose that none is dropped, which is `NoPageDropped`
here. `same` records that the configuration did not change meanwhile,
`blind` that the page was asked for before the callback of `init` or began at a node, or
with an algorithm, that the configuration does not have.

**MessageFormats, Parameters.** The first has the bytes: nibbles, addresses, messages and
their parsers. In the second `truth` is what the ROM says of a parameter, `device` its bytes in the
device and `Meaning` what they mean by the manual (outside of the program); the rest is the
program: the description as parsed (`od`), `getObjectValue` and the control it
makes, the limits of `mpxedit.js`, `get_value`, the message that the handler of
changes makes, and the scripts of `automation_q_dosend`, each with its own switch over the
option type. One change at a time: `Automation` has the races.

## 3. The runs

### Runs that pass

| Run | Distinct states | Shows |
|---|---|---|
| `requests` | 73 618 | callbacks run at most once and with their own answer; an answered request is never sent again; a pending one keeps its hook, and its retries if it is not for DATA; the loop misses no hook and loses no DATA message; every request is answered unless more is lost than it tolerates; implements `RequestReply` |
| `input` | 215 096 | no message stranded in the queue, be there an overrun or not; whole messages as long as no clock comes and nothing is overrun, and after a change of port one longer message at most; implements `MessageChannel` with liveness |
| `parser` | 1 606 841 | with nothing kept, the first message of an uncut chunk is delivered and no other, and bytes are kept exactly where its end does not come right after a byte of data at the end of the chunk; the copying loop ends as long as nothing is cut |
| `output` | 77 741 | every byte handed over once and in order, pieces paced; of an upload the messages go out once, in the order of the form, whatever else it holds; every message sent to its end |
| `ports` | 12 638 | the input's reference follows its port; a start opens the interface that was chosen if it is there |
| `windows` | 1 651 841 | no echo; every page is owed a value, and the ones that disabled automation enable it again; when users act in turn all windows come to agree with the device, but for those whose page was made of zeros |
| `bypass` | 202 053 | clicks in turn make one change each, though reads are lost, late and repeated: a toggle where the device is asked, a 1 where it is not; every click comes to its write unless its read is given up |
| `steps` | 242 450 | every call is answered unless a read without a timer was lost; a call that reads gets nothing older than itself |
| `library` | 374 495 | unless writes overlap or are cut, what was dumped gets into the file and survives restarts; unless dumps overlap, answers are whole and dumps end |
| `startup` | 433 234 | startup ends; the control tree is closed (every node has its description and all the children it says); the configuration is that of the device, each node visited once, if its file was there or none was read and no answer came late; a page made in one configuration has every parameter under its node once and in order; no page asked for after startup, of a node that is there, is dropped by an exception |
| `parameters` | 31 264 | descriptions and configuration are read as sent; windows agree with a new page after any change; what a user sets is what the device gets; dumps are of the program asked for and load again |

`TypeOK` is checked where it is not proved to follow: of `SysexRequests`; elsewhere a
type error would show as a value outside the sets of the other properties, and the
types of `MidiInput`, `MidiOutput`, `MidiPorts`, `UsedSteps`, `Automation`,
`ProgramLibrary` and `Parameters` are proved.

### A run that finds a disagreement

`input_clock_cuts` checks what a comment of `RtMidi.cpp` says (lines 998-1000: sysex segments are
concatenated "into a single sysex message"), and TLC gives a behaviour of the code that contradicts
it: a MIDI clock between two segments ends the message, which is delivered in pieces
(`RtMidi.cpp:1006`).

`findings` in `PROJECT.json` quotes the code and the comment.

Three more facts that came up do not have a run: the parser does not "parse sysex messages from MIDI
flow" (`sysex.js:2`), even if each chunk is a whole message: after an empty one, or one with a clock before
its `F7`, it keeps bytes (`sysex.js:99`) as an Array, and the next message is lost when `concat` takes that for
a list of buffers (`sysex.js:52`; `FlowParsed` says when); messages go out back to back, not
with "50ms between each message" (CHANGELOG line 6, `lexicon.js:1106`); choosing an
interface after a start without any ends the program (`node_midi.cc:340`, a state of
`MidiPorts`).

### Conditions of the properties

Some properties above hold under a condition that a history variable or a bound
states. They are weaker than a user would like because the code is; remove the
condition and TLC shows the behaviour.

| Property | Condition | Without it |
|---|---|---|
| `EveryRequestAnswered` | nothing lost, or as much as `Retries` if not for DATA | the answer to another reader clears the timer of a DATA request (`lexicon.js:124`) |
| `WholeWithoutClocks` | no clock has come, and nothing was overrun | see `input_clock_cuts`; after an overrun the handler goes on with the beginning of one message and the rest of another (`RtMidi.cpp:929`) |
| `WholeWithoutClocks` | a message may begin with pieces of those that a change of port has cut | the input thread goes on with the bytes it had (`RtMidi.cpp:1267`) |
| `FlowParsed` | nothing kept, and the chunk cuts no message | `concat` takes the kept Array for a list of buffers: the message is lost or is replaced by old memory (`sysex.js:52`). Bytes are kept after a cut message, an empty one, one with a clock before its `F7`, one with something behind its `F7`, which may be a second message: `LeavesNothing` says when they are not |
| `NeverHangs` | no chunk has cut a message | old memory in the place of a kept Buffer has another number of data bytes than `sysex_len` asks for, and the loop does not end (`sysex.js:91`) |
| `EventuallyAgree` | users act in turn (`raced`) | two windows that change a parameter at once exchange their values (`main.js:604`); a change between the filling of a page and its `register` never reaches it (`main.js:88`) |
| `EventuallyAgree` | the page was not made of zeros (`guessed`), and no page was dropped | a program that does not ask the device shows zeros until the parameter changes (`lexicon.js:250`); a dropped page leaves `disable_automation` set, see `NoPageDropped` |
| `EveryCallAnswered` | no read without a timer lost (`orphaned`) | `getting_usedSteps` stays set, and no call is answered until the next start (`lexicon.js:1697`) |
| `ReaderFresh` | the call reads | a call that joins a reading gets algorithms older than itself (`lexicon.js:1662`); one that does not ask the device gets zeros (`lexicon.js:250`) |
| `NothingLost` | no write cut or overlapped (`torn`) | the end of the program between open and write empties the library for good (`main.js:393`) |
| `EveryDumpSaved` | the same | of two overlapping writes the older may end last, and the end of the longer remains (`main.js:384`) |
| `DumpEnds`, `AnswerWhole` | no other dump under way (`rivals`) | the second request takes the callback of the first, which gets no answer (`main.js:1412`) |
| `RightFile` | the device's file is right, or none was read; no answer after its timer (`slow`) | what the file of another firmware says is kept and saved as the device's (`lexicon.js:492`, `500`); one late answer is taken for the type of the next node, and every later one for the node after its own (`lexicon.js:478`) |
| `PageWhole` | one configuration while the page is made; if nothing was asked of the device, all its values are zeros | a configuration built from the device does not set `ready`: until the next start every page has zeros (`lexicon.js:250`) |
| `NoPageDropped` | the page was asked for after `init` has called back, and its node and its algorithm are there (`blind`) | before, a page needs nodes that are not read yet (`lexicon.js:875`); a configuration built on the file of another firmware may lack the algorithm that the device reports (`lexicon.js:350`): the page is never answered, and if it is of an effect, `disable_automation` stays set |
| `Toggled` | a click is a toggle only if the program asks the device | in a program that does not, because its configuration was built or the handshake was not answered, every click writes 1, also if the effect is at 1 (`lexicon.js:250`, `272-283`) |
| `Toggled` | users act in turn, and no write lost | two clicks read the same state (`main.js:313`); a write is sent once. A hook of a read that was given up takes the answer to the next click, whose timer reads again: both write |
| `EveryClickDone` | at most `Retries` lost or late | the retries of a read are used up (`lexicon.js:1173`) |
| `PagesAgree` | not for the option 0x13a, for names with an apostrophe or names like `1,1` | `getObjectValue` takes the option for a unit (`lexicon.js:1545`); the apostrophe ends the string of the script (`main.js:566`); the name is taken for a value and its option (`main.js:175`) |
| `ChangeTaken`, `DescribedRight` | no negative maximum, no such name | the sign of the maximum goes to the minimum (`lexicon.js:571`), and the fields are limited by it |
| `UploadRight`, `EverySent` | one chunk, no semicolon in a file's name | the second chunk meets an undefined variable (`form.js:23`); the header line is split at the semicolon (`form.js:88`): both end the program |

### Bounds, and why they are enough

- *Requests*: four requests, two addresses, two types, one retry, one message lost or
  caused by the front panel. Two readers of DATA are what it takes for an answer to
  meet the wrong hook, and two of the same address for one message to answer both; a
  follow-up of the same type extends the list that is being walked; one retry puts an
  object on the list twice, and a timer that fires early makes late answers. The
  theorems remove the bounds for the safety properties.
- *Input*: four messages of two, three, one and two segments, a clock, two changes of port, an overrun: first, middle
  and last segments, a queue longer than one, a clock and a change of port at every place, two cut messages in a row. Theorems
  remove the bounds again.
- *Parser*: two chunks, each of one to four bytes in every combination of a byte of data, `F0`, `F7` and
  another status; the first one brings the parser to what it may keep, the second meets that. A
  chunk after nothing was kept is as the first one, since every variable is set again. Old memory may
  hold `F0` and `F7`.
- *Output*: a message below the threshold, one that ends with a piece and one that
  ends within one. `Threshold` and `PieceSize` are scaled from 20480 and 16 bytes to 4
  and 2; a real message has more pieces, each like the others.
- *Uploads*: two of five files: a short and a long message, two that hold none, an empty one; one
  name with a semicolon; the body in one chunk or in two, cut at every place.
- *Interfaces*: three interfaces, three times plugged or unplugged, two starts:
  enough for a number to designate another interface, and for a port to be
  opened, closed and opened again.
- *Windows, steps, bypass*: in a program that asks the device from the start, one that begins to, and one that
  never does.
- *Windows*: three windows, two of which edit; two values, one change in each window
  and one on the panel, two pages loaded, so that two pages disable automation at the
  same time.
- *Steps*: three callers (one reads, one joins, one comes after), two effects
  where the code has five: a first read and a later one, which differ.
- *Bypass*: three clicks, so that one is given up, one is answered to its hook, and one follows;
  as many losses as a read has retries and one more, two timers that fire early.
- *Library*: two numbered programs, so that one is first and one is last, and one
  without a number; two requests, one single program, one restart; `MaxTries` 2 for 3.
- *Startup*: two firmware versions and every combination of their files; three object
  types, trees of three levels in which the first, an inner and the last node are a
  level or a parameter, and which differ between the versions, so that a tree built with the
  descriptions of the other one goes to nodes that are not there, or lacks the algorithm
  that the device reports; as many losses as a
  request has retries and one more, so that one may give up, and one answer after its
  timer; `SystemRetries` 3 for 10.
  Pages of an effect, whose algorithm is asked for first, and of a level; algorithms with one and two parameters.
- *Parameters*: the description of one parameter of each option type, size and sign that
  the device's tree has (ROM V01.10), with values at the ends of their ranges and
  around a change of byte, sign or unit; two windows; programs at the ends of each bank.

### Fairness

- Timers fire, and handlers that are due run: node's event loop gives this (weak
  fairness of timers, receiving, dispatching and of `Progress` in the other models).
- The device answers what it receives (weak fairness of `DeviceAnswers`). Loss is
  a separate action bounded by `MaxDisturbances`, never fair.
- In `MidiInput` the two `lock` actions have strong fairness: a thread that waits for
  a mutex, which the other takes and releases again and again, gets it in the end.
  Everything else has weak fairness. No fairness is assumed of the device.
- `Hears` is not fair either: the handshake may never be answered.
- Users are never fair: nobody has to click, edit, load a page or plug anything.

Deadlock is not checked: every model has states in which nothing is left to be
sent, changed or requested within the bounds, and the program then waits for a user.

## 4. What is proved

All proofs are checked by TLAPS for every value of the constants that meets the
assumptions of the modules.

**SysexRequests** (`SysexRequestsProofs`), from `RequestsAssumption`
(every request is made by at most one callback and not by its own; answers are never of
the type of requests) and `BoundsAssumption` (the counters' bounds are numbers):

- `TypeCorrect`, `OnceAndItsOwn`, `PendingStaysHooked`, `NoHookIsMissed`,
  `RetriesNeverStop`: invariants of the run, for any number of requests, addresses,
  retries and losses; `AnsweredStaysOver`: an answered request has no timer;
- `NeverAnsweredSentAgain`: the action property;
- `Implementation`: `Spec => Service!SafeSpec`, that is the refinement of `RequestReply`.

`IndInv` is what makes them inductive. None of them is by itself: that a callback
runs once needs `removed` to be exactly the answered requests, which needs a timer
never to be armed for an answered one, which needs a follow-up to be made only by
an answered request; that no hook is missed needs to know what a `splice` does to
the entries after the index. The proof has one lemma per action, after the theory of
`RemoveAt` and of suffixes of the list.

- `NoDataDisappears`: the balance of `NoDataLost`. Its invariant `DataInv` adds that no
  answer is of the type of the requests, which any hook would take, and that finitely
  many callbacks have run; it uses `IndInv`, since a callback that ran twice would be
  counted once.

**MidiInput** (`MidiInputProofs`), from `MidiInputAssumption` (messages have at
least one segment):

- `InputTypeCorrect`, `MutualExclusion`, `NeverStranded`;
- `ChannelImplementation`: `Spec => Channel!SafeSpec`, what was completed is
  delivered once and in order;
- `WholeMessagesArrive`: messages arrive whole as long as no clock has come and nothing was overrun.

Its `IndInv` adds to those that the message in hand is not empty between the lock and
the push, that a segment in progress is one only while the thread reads, and that the
device has not sent more parts than a message has. That no message is stranded rests on
this: between the push and the wake-up the input thread is on its way to send one, and
the main thread does not leave the queue before it is empty. `WholeInv`, for the last of the
theorems, says what follows what in the line, with the segments in it and the part that the device
sends next (`StreamInv`), and that the bytes in hand, in the queue and delivered are runs of
such pieces, of which all but the last run were cut by a change of port (`BytesInv`).

**MidiOutput** (`MidiOutputProofs`), from `MidiOutputAssumption` (lengths and the size of pieces are
positive): `BytesOnce` and `Paced`, for the real 20480 and 16 as for any others. The
invariant says that `index` is where the last call of `sendMessage` for a message has come to, and that
the timer of a message and the time since its last piece add up to the delay at least.
`UploadsImplementOutput` says that `UploadsSpec` implements the safety part of `MidiOutput` (every
step of a form is one of its steps or stutters), so that `BytesOnceBesideUploads` and
`PacedBesideUploads` hold of uploads beside everything else.

**MidiPorts** (`HandlersProofs`), from `MidiPortsAssumption`: `References` and
`StartOpensChosen`, for any interfaces, plugged in and out as often as one likes.
What is remembered on disk is what was answered `'1'` last, and what a running
program has in its variables.

**Automation** (`AutomationProofs`), from `AutomationAssumption`: `NothingSentBack` and
`EveryPageAnswered`, for any windows, edits and pages. The second counts the reads in
the line to the device; its invariant is that only pages of effects disable automation.

**EffectBypass** (`HandlersProofs`): `ClicksToggle` (`Toggled`), from no assumption, for programs that
ask the device and programs that do not. As long as users act in turn and no write is lost, either one click waits, nothing but
reads are on their way to the device, and it and all that it has said are what the click is to
change (`Waiting`); or none waits, no timer is set, and the device is as expected or
one write on its way will make it so (`Settled`).

**SysexParser** (`MidiInputProofs`): `ParserNeverHangs` (`NeverHangs`), from `ParserAssumption`
(chunks and old memory are bytes). `ParserInv`: as long as no chunk cuts a message, an
Array is kept only between messages, and if a message is begun (in a `Buffer`, out of old memory)
`sysex_len` is two more than the data bytes from its start to where the search stopped. Hence the loop
finds what it is to copy.

**UsedSteps** (`LexiconProofs`), from `UsedStepsAssumption` (the device has more than one
effect): `AnsweredOnce`, `WaitsForReading` and `ReaderGetsFresh`. `StepsInv` says where each call is
(`Calls`), that nothing is on its way but reads and answers for the effect being read and repeated
first ones (`Line`), and that none of what was read or is on its way is older than the call that reads (`Fresh`).
With one effect only it would not hold: a repeated read of a finished call would answer the next one.

**ProgramLibrary** (`ProgramLibraryProofs`): `LibraryKept`, for any programs, requests and restarts.
As long as no write was cut or overlapped there is at most one, what it writes contains everything
that must not be lost, or a timer that will write is set. And `DumpAnsweredWhole`: without a rival or a
single program in between, at most one request is under way, nothing is sent before the dump itself, and
what has come and what is still to come are all the programs, or none (`DumpInv`).

**Startup, Pages** (`StartupProofs`), from `StartupAssumption`: the control tree of each firmware is
a finite tree (with a node, the one above it), its types are described, and a node has the children that
the description of its type announces. Nothing bounds its depth or its width, and the device may be
of any version, lose anything, answer late and be turned off at any time. `PagesAssumption` says that
pages are of nodes below the root, and that an algorithm is a number.

- `StartupInvariance`: `StartupInv` says what the files hold (`FilesOK`), that one handshake
  was answered (`InitOnce`) and, for each phase, what the configuration is (`ConfigInv`).
  During the walk, that is `Walk`: each node read so far is described and has all its
  children, but for those on `path`, of which the children before the next level are
  there; and `stack` has what is left of each level. `Visit` needs the deepest level with something
  left, and that the ones below it are complete.
- `ExactInvariance`: as long as no answer came late and no file was read first, the
  configuration is part of the tree of the device, with every node before `path` in the
  order of the walk. At the end, that is the whole tree: a node that is missing of
  least length would have one above it that is there, and complete.
- `PagesInvariance`: pages change nothing of this, whatever `init` is at; hence
  `CompleteAtCallback` (`CompleteWhenDone`) and `RightFileRead` (`RightFile`) for `PagesSpec`.
- `PagesWhole` (`PageWhole`) and `PagesNotDropped` (`NoPageDropped`), from `PageInv`, which
  `PagesInvariance` has too. For a page that asks the device, it says that what it has so far, and
  where it is, are parameters under its node, in the order of the tree and with every one up
  to the last (`Track`): one step of the walk, down to the first child or on to the next child
  of the deepest level that has one, skips none. For a page of zeros, which is made at
  once, the same holds of each prefix of `Reached`; it ends because the
  nodes are finitely many and none comes twice. That no page asked for after
  the callback is dropped rests on `Sure`: the configuration is then closed, whatever it was built on, and nothing
  changes it before the next start.

**MessageFormats, Parameters** (`LexiconProofs`), from `ParametersAssumption`: the fields of
a description and of the configuration are bytes, words and signed numbers of 16 bits where the messages have
them (`WellDescribed`, `WellConfigured`), a description has limits and a unit for each display unit, and
the values of a parameter are of the size it says. `WellDescribed` also says that what is no name
has one or two bytes, how many an option has, and that option types are those the program knows. Hence
the theorems are not about the descriptions that the device has beside those: "no effect" (0123, of
no bytes), dumps and the panel (0159 and up), 013B and 015B, and the options 0135, 0137 and 0138, which
are in no node of the control tree and which automation does not know (`main.js:594-597`). It is not
assumed which values there are, nor that they are within their limits.

- `AnswerParsed`: what `nibblize`, `nibblize16` and `midi_message_send` make of data and of an address,
  `dataMessage_parse` turns into the same again, for all bytes and lengths that the fields can hold. It
  rests on where each part of a message is (`Holds`) and on what `Nibbles` and `Byte` or `Word` do
  to a number (`WordOfNibbles`: of a negative one, they make its two's complement).
- `DescriptionsRight` (`DescribedRight`): the same for `objectDescription_parse`, with a list of
  limits of any length behind a name of any length, and for `systemConfiguration_parse`.
- `DumpsRight` (`DumpRight`): the address of the program reaches the device and comes back, and
  the file of a dump, whose end is spelled out in `sendDump`, is the message for the active
  program.
- `ParametersInvariance`: `ParametersInv`. A dump is right only if the device has bytes, as many as
  the parameter, and it gets them from the controls: so every control has to have the fields that its option
  type needs (`Control`), whether a page, `param_update` or a script made it, for any limits, and what it
  sends has to be nibbles. `Alike` says that only limits may differ from the ROM.

About induction: the library's theorems that take an operator cannot be used, but that a set of
naturals that is not empty has a least element (`NatLessThanWellFounded`) can, and it is what the walk
of the tree and the trimming of names need.

Only model-checked:

- all liveness (`EveryRequestAnswered`, the live channel, `EventuallyAgree`, `EverySent`,
  `StartupEnds` and so on): the prover has no rules for fairness;
- `UploadRight`: what the recursive functions of the parser of forms compute for every body;
- `FlowParsed` of `SysexParser`: it counts on what `SelectSeq` and `FlattenSeq` compute, of which the
  prover knows nothing;
- `PagesAgree` and `ChangeTaken` of `Parameters`: they hold of the parameters the device has, in which
  limits, units and option types agree with each other; a ROM in which they do not would
  break them.

## 5. What is not modelled, and why

- The text of pages and templates, client widgets, HTTP and file helpers, `printf`,
  bundling scripts: text and pass-through I/O without state.
- node, v8, libuv, npm, jQuery, jQuery Mobile, socket.io: third-party, and by far most of the
  lines of the repository. The event loop and `fs.writeFile` appear as assumptions. What the models cover
  is the editor's own code: more than half of `lexicon.js` and `main.js`, most of `sysex.js` and
  `form.js`, and the parts of `mpxedit.js`, `node_midi.cc` and `RtMidi.cpp` that take part in it.
- In `Parameters` what `WellDescribed` leaves out (section 4): no effect, dumps, the panel.
- In `Startup` a missing info file, at which `config_build` ends with an exception (`file.js:78`): only
  the file of V01.10 comes with the program.
- In `MidiInput` errors of the sequencer other than -ENOSPC, which change nothing, the back ends other than ALSA, the timestamps and the
  polling interface, which the editor does not use.
- In `SysexRequests` a callback makes at most one request, each request is made
  once, and program changes and other messages that wait for no answer are left out: they
  do not touch the hooks.
- In `Automation` and `Parameters` changes of the algorithm or the program, after which the
  browser loads its pages again.
- In `ProgramLibrary` system dumps to a browser and the dump of the list of programs, which stops at 250.
- In `MidiPorts` the device identifier (`/deviceID`), in `Startup` the labels of the tree.
- `getLevelsByName` only reads the tree;
  `patching_destinations_rebuild` is not called (its calls are commented out,
  `main.js:282`, `464`).

## 6. Plan

Done: `RequestReply`, `SysexRequests` and its proofs; `MessageChannel`,
`MidiInput` and its proofs; `SysexParser`; `MidiOutput`, `Uploads` and proofs; `Automation` and
proofs; `EffectBypass`; `UsedSteps` and proofs; `ProgramLibrary` and proofs; `Startup`,
`Pages` and proofs; `MidiPorts` and proofs; `MessageFormats`, `Parameters` and proofs.

To extend the model: algorithm and program changes in `Automation`; a composition of `MidiInput`
and `SysexParser`, that is what the sequencer sends against what `sysex_callback` gets; `/deviceID` in
`MidiPorts`.

To prove more: `FlowParsed`, with functions in the place of `SelectSeq`; `PagesAgree` and
`ChangeTaken`, from an assumption that says for each option type which limits and units a parameter has.
