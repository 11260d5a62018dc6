----------------------------- MODULE Parameters -----------------------------
(***************************************************************************)
(* One parameter of the device on its way to the controls of the windows   *)
(* and back: its description and its data are parsed (lexicon.js), shown   *)
(* by controls (main.js), changed there (mpxedit.js), put in a message     *)
(* again (main.js, lexicon.js), and announced to the other windows.  What  *)
(* the bytes mean, and which control there is for the option, depends on   *)
(* the option type; each of these parts has its own switch over it.        *)
(*                                                                         *)
(* One change at a time: Automation has the races.  An answer to a dump is *)
(* here too, for the addresses of programs.                                *)
(***************************************************************************)
EXTENDS MessageFormats, FiniteSets

CONSTANTS Windows,
          Descriptions,   \* what the ROM says of a parameter: see MCParameters
          Configuration,  \* the system configuration of the device
          Programs,       \* what /dump is asked for
          Null

VARIABLES
    truth,      \* the description in the ROM
    device,     \* the bytes of the parameter in the device
    configuration, \* config.systemConfiguration, Null before there is one
    od,         \* config.objectDescription[...], Null before there is one
    shown,      \* per window: its controls, Null without a page
    wanted,     \* what the last change meant, any of these
    dump        \* the last /dump: program asked for, address and number it came with

parametersVars == <<truth, device, configuration, od, shown, wanted, dump>>

Min2(a, b) == IF a < b THEN a ELSE b
Max2(a, b) == IF a > b THEN a ELSE b
Clamped(x, min, max) == Min2(Max2(x, min), max)

Rates == {\h12f, \h130, \h131}
Times == {\h132, \h136}
HasOption(d) == d.optionType # \hffff
IsName(d) == d.displayUnits[1] = \h30
\* dataSize of the option's own description
OptionSize(d) == IF d.optionType \in {\hffff, \h13b} THEN 0 ELSE 1

\* What the fields of the messages hold, and what the parameters of the ROM have in common that
\* get controls: limits and a unit for each display unit, an option type that the switches have,
\* and a value of one or two bytes, unless it is a name.  Of the control tree's parameters this
\* leaves out those without data (0123) and the dumps (0159 and up); the option types 0135, 0137
\* and 0138, at which automation ends the program (main.js:594-597), are of none of them.
OptionTypes ==
    Rates \cup Times
        \cup {\h12c, \h12d, \h12e, \h133, \h134, \h139, \h13a, \h13b, \hffff}
ByteValue == {x \in Nat : x <= 255}
WordValue == {x \in Nat : x <= 65535}
LimitValue == {x \in Int : -32768 <= x /\ x <= 32767}
WellDescribed(d) ==
    /\ d \in [objectType : WordValue, name : Seq(ByteValue), dataSize : WordValue \ {0},
              controlFlags : ByteValue, optionType : OptionTypes,
              minValue : Seq(LimitValue), maxValue : Seq(LimitValue), displayUnits : Seq(WordValue),
              values : SUBSET Seq(ByteValue)]
    /\ Len(d.name) \in ByteValue
    /\ Len(d.displayUnits) \in ByteValue \ {0}
    /\ Len(d.minValue) = Len(d.displayUnits) /\ Len(d.maxValue) = Len(d.displayUnits)
    /\ IsName(d) => ~HasOption(d)
    /\ ~IsName(d) => d.dataSize \in {1, 2}
    /\ d.optionType \in Rates \cup Times => d.dataSize = 2
    /\ \A b \in d.values : Len(b) = d.dataSize + OptionSize(d)
WellConfigured(c) ==
    /\ c \in [majorVersion : ByteValue, minorVersion : ByteValue,
              timeString : Seq(ByteValue), dateString : Seq(ByteValue),
              numberOfObjectTypes : WordValue, reserved : WordValue,
              numberOfControlLevels : WordValue]
    /\ Len(c.timeString) = 8 /\ Len(c.dateString) = 11

ASSUME ParametersAssumption ==
    /\ \A d \in Descriptions : WellDescribed(d)
    /\ WellConfigured(Configuration)

Little(bytes) == bytes[1] + (IF Len(bytes) > 1 THEN 256 * bytes[2] ELSE 0)
SignedUnit(d, unit) ==
    unit + 1 \in DOMAIN d.displayUnits /\ d.displayUnits[unit + 1] >= 32768
Number(d, unit, val) ==
    CASE ~SignedUnit(d, unit) -> val
      [] d.dataSize = 1 -> Signed8(val)
      [] OTHER -> Signed16(val)

\* String.trim() of a name
Trimmed(s) ==
    LET ink == {i \in DOMAIN s : s[i] # 32}
        first == CHOOSE i \in ink : \A j \in ink : i <= j
        last == CHOOSE i \in ink : \A j \in ink : j <= i
    IN IF ink = {} THEN <<>> ELSE SubSeq(s, first, last)

-----------------------------------------------------------------------------
(* The device, by its manual: what its bytes mean, and which it takes.       *)

Meaning(d, b) ==
    LET n == d.dataSize
        signed == d.minValue[1] < 0
        number == IF n = 1 THEN IF signed THEN Signed8(b[1]) ELSE b[1]
                  ELSE IF signed THEN Signed16(Little(b)) ELSE Little(b)
    IN CASE IsName(d) -> [main |-> Trimmed(b), option |-> <<>>]
         [] d.optionType = \h13b ->
                [main |-> <<Signed8(b[1])>>, option |-> <<IF b[1] >= 128 THEN 1 ELSE 0>>]
         [] d.optionType = \h139 -> [main |-> <<number>>, option |-> <<b[2] - 1>>]
         [] d.optionType \in Rates \cup Times ->
                [main |-> IF b[3] = 1 THEN <<b[1], b[2]>> ELSE <<Little(b)>>, option |-> <<b[3]>>]
         [] HasOption(d) /\ d.optionType \notin Rates \cup Times \cup {\h139, \h13b} ->
                [main |-> <<number>>, option |-> <<b[n + 1]>>]
         [] ~HasOption(d) /\ ~IsName(d) -> [main |-> <<number>>, option |-> <<>>]

\* A change of unit makes it choose a value of that unit; a message of another size is ignored.
Taken(d, old, new) ==
    IF Len(new) # Len(old) THEN {old}
    ELSE IF d.optionType \in Rates \cup Times /\ new[3] # old[3]
    THEN {b \in d.values : b[3] = new[3]}
    ELSE {new}

\* The description message and the data message it answers with
DescriptionMessage(d) ==
    Header(OBJECT_DESCRIPTION) \o nibblize16(d.objectType) \o nibblize(<<Len(d.name)>>)
        \o nibblize(d.name) \o nibblize16(d.dataSize) \o nibblize(<<d.controlFlags>>)
        \o nibblize16(d.optionType) \o nibblize(<<Len(d.minValue)>>)
        \o NibblesOf([k \in 1 .. 3 * Len(d.minValue) |->
                        LET j == 1 + ((k - 1) \div 3)
                        IN CASE k % 3 = 1 -> d.minValue[j]
                             [] k % 3 = 2 -> d.maxValue[j]
                             [] k % 3 = 0 -> d.displayUnits[j]], 4)
        \o <<247>>
ConfigurationMessage(c) ==
    Header(SYSTEM_CONFIGURATION)
        \o nibblize(<<c.majorVersion, c.minorVersion>> \o c.timeString \o c.dateString)
        \o NibblesOf(<<c.numberOfObjectTypes, c.reserved, c.numberOfControlLevels>>, 4)
        \o <<247>>
Answer(levels, bytes) == DataMessage(levels, nibblize(bytes))

-----------------------------------------------------------------------------
(* What a page shows: the value, the option, and the unit of its fieldset.   *)

getObjectValue(d, value) ==
    LET last == value[Len(value)]
        control(main, option, unit) ==
            [main |-> main, option |-> option, loaded |-> option, unit |-> unit]
        one(unit, val, option) == control(<<Number(d, unit, val)>>, option, unit)
        pair(unit) == control(<<value[1], value[2]>>, <<last>>, unit)
        T == d.optionType
    IN CASE T = \h12c /\ d.dataSize = 2 -> one(0, Little(value), <<value[3]>>)
         [] T = \h12c /\ d.dataSize # 2 -> one(0, value[1], <<value[2]>>)
         [] T \in {\h12d, \h12e, \h133, \h134} -> one(0, value[1], <<value[2]>>)
         [] T \in Rates /\ last # 0 -> pair(last)
         [] T \in Times \cup {\h13a} /\ last = 1 -> pair(last)
         [] \/ T \in Rates /\ last = 0
            \/ T \in Times \cup {\h13a} /\ last # 1 -> one(last, Little(value), <<last>>)
         [] T = \h139 -> one(0, value[1], <<value[2] - 1>>)
         [] T = \h13b ->
                LET dry == IF value[1] > 100 THEN 1 ELSE 0 IN one(dry, value[1], <<dry>>)
         [] ~HasOption(d) /\ IsName(d) -> control(Trimmed(value), <<>>, 0)
         [] ~HasOption(d) /\ ~IsName(d) -> one(0, Little(value), <<>>)

Levels == <<0, 2, 2, 2>>
Page(b) == getObjectValue(od, dataMessage_parse(Answer(Levels, b)).data)

\* Mutant: it is never fetched again.
param_updateNever(s, option, now) == s
\* param_update: a control that was made for another option is fetched again.
param_update(s, option, now) == IF s.loaded = <<option>> THEN s ELSE Page(now)

\* automation_q_dosend: what the script for data b makes of a control, when the device has now
Announced(s, b, now) ==
    LET T == od.optionType
        val == Number(od, 0, Little(SubSeq(b, 1, od.dataSize)))
        with(main, option) ==
            [main |-> <<main>>, option |-> <<option>>, loaded |-> s.loaded, unit |-> s.unit]
        dry == IF b[1] >= 128 THEN 1 ELSE 0
    IN CASE T = \h133 -> with(val, b[2])
         [] T = \h12c -> with(val, b[od.dataSize + 1])
         [] T \in {\h12d, \h12e, \h13a, \h134} -> with(b[1], b[2])
         [] T \in Rates \cup Times ->
                IF s.loaded = <<b[3]>>
                THEN [s EXCEPT !.main = IF b[3] = 1 THEN <<b[1], b[2]>> ELSE <<val>>]
                ELSE Page(now)
         [] T = \h139 -> with(IF b[1] = 0 THEN 0 ELSE b[1] - 256, b[2] - 1)
         [] T = \h13b ->
                IF s.loaded = <<dry>> THEN with(IF dry = 1 THEN b[1] - 256 ELSE val, dry) ELSE Page(now)
         \* an apostrophe ends the string of the script
         [] ~HasOption(od) /\ IsName(od) ->
                IF \E i \in DOMAIN b : b[i] = 39 THEN s ELSE [s EXCEPT !.main = Trimmed(b)]
         [] ~HasOption(od) /\ ~IsName(od) -> [s EXCEPT !.main = <<val>>]

-----------------------------------------------------------------------------
(* From the controls to the message                                          *)

\* Mutant: the fields are swapped.
get_valueSwapped(s) ==
    [main |-> IF IsName(od) THEN s.main
              ELSE IF Len(s.main) = 2 THEN <<s.main[2] + 256 * s.main[1]>> ELSE s.main,
     option |-> s.option]
\* get_value: two fields make one number
get_value(s) ==
    [main |-> IF IsName(od) THEN s.main
              ELSE IF Len(s.main) = 2 THEN <<s.main[1] + 256 * s.main[2]>> ELSE s.main,
     option |-> s.option]

\* /^[\-0-9]+,[0-9,]+$/ for names of the characters of the model: 49 is a digit, 44 the comma
LooksNumeric(s) ==
    \E i \in 2 .. Len(s) - 1 :
        /\ s[i] = 44
        /\ \A j \in 1 .. Len(s) : s[j] = 49 \/ (j > i /\ s[j] = 44) \/ j = i

\* The sign of a mix goes with its option.
Mixed(v) ==
    CASE v.option = <<1>> /\ v.main[1] >= 0 -> -97
      [] v.option = <<0>> /\ v.main[1] < 0 -> 100
      [] OTHER -> v.main[1]

\* The data of the message, in nibbles.
Message(v) ==
    LET number == IF od.optionType = \h13b THEN Mixed(v) ELSE v.main[1]
        size == Min2(Max2(od.dataSize, 1), 2)
        option == IF od.optionType = \h139 THEN v.option[1] + 1 ELSE v.option[1]
        padded == [i \in 1 .. od.dataSize |-> IF i > Len(v.main) THEN 32 ELSE v.main[i]]
    IN CASE HasOption(od) ->
                Nibbles(number, 2 * size) \o (IF OptionSize(od) > 0 THEN nibblize(<<option>>) ELSE <<>>)
         [] ~HasOption(od) /\ IsName(od) ->
                IF LooksNumeric(v.main) THEN nibblize(<<1>>) ELSE nibblize(padded)
         [] ~HasOption(od) /\ ~IsName(od) -> Nibbles(v.main[1], 2 * size)

-----------------------------------------------------------------------------
ParametersInit ==
    /\ truth \in Descriptions
    /\ device \in truth.values
    /\ configuration = Null
    /\ od = Null
    /\ shown = [w \in Windows |-> Null]
    /\ wanted = {Meaning(truth, device)}
    /\ dump = Null

Description ==
    [objectType |-> truth.objectType, name |-> truth.name, dataSize |-> truth.dataSize,
     controlFlags |-> truth.controlFlags, optionType |-> truth.optionType,
     minValue |-> truth.minValue, maxValue |-> truth.maxValue,
     displayUnits |-> truth.displayUnits]

\* config_init without a file: the system configuration, then the descriptions, each asked for.
Describe ==
    /\ od = Null
    /\ configuration' = systemConfiguration_parse(ConfigurationMessage(Configuration))
    /\ Word(DescriptionRequest(truth.objectType), 8) = truth.objectType
    /\ od' = objectDescription_parse(DescriptionMessage(truth))
    /\ UNCHANGED <<truth, device, shown, wanted, dump>>

\* config_read: the file that comes with the program
ReadConfiguration ==
    /\ od = Null
    /\ configuration' = Configuration
    /\ od' = Description
    /\ UNCHANGED <<truth, device, shown, wanted, dump>>

\* A page, or the control on its own
Open(w) ==
    /\ od # Null
    /\ shown[w] = Null
    /\ shown' = [shown EXCEPT ![w] = Page(device)]
    /\ UNCHANGED <<truth, device, configuration, od, wanted, dump>>

Reloaded == Rates \cup Times \cup {\h133, \h135, \h13b}

\* The script in another window, for a message of the parameter's size
Told(x, data, now) ==
    IF shown[x] = Null \/ Len(data) # Len(now) THEN shown[x] ELSE Announced(shown[x], data, now)

\* The control of window w has become s: it sends its message, the device takes it, the window
\* updates the control and the others get theirs.
Send(w, s, meanings) ==
    LET data == dataMessage_parse(DataMessage(Levels, Message(get_value(s)))).data
    IN \E new \in Taken(truth, device, data) :
        /\ device' = new
        /\ wanted' = meanings
        /\ shown' = [x \in Windows |->
                CASE x = w /\ od.optionType \in Reloaded -> param_update(s, s.option[1], new)
                  [] x = w /\ od.optionType \notin Reloaded -> s
                  [] x # w -> Told(x, data, new)]
        /\ UNCHANGED <<truth, configuration, od, dump>>

\* The fields are limited to what the description says, each half of a pair to its byte.
Limited(m, unit) ==
    IF IsName(od) \/ unit + 1 \notin DOMAIN od.minValue THEN m
    ELSE LET min == od.minValue[unit + 1]
             max == od.maxValue[unit + 1]
         IN IF Len(m) = 1 THEN <<Clamped(m[1], min, max)>>
            ELSE <<Clamped(m[1], min \div 256, max \div 256), Clamped(m[2], min % 256, max % 256)>>

\* input_change of the value: to what another value of the same unit shows
ChangeValue(w) ==
    /\ shown[w] # Null
    /\ \E b \in truth.values :
        LET m == Meaning(truth, b)
        IN /\ m.option = Meaning(truth, device).option
           /\ Send(w, [shown[w] EXCEPT !.main = Limited(m.main, shown[w].unit)], {m})

\* input_change or select_change of the option
ChangeOption(w) ==
    /\ shown[w] # Null
    /\ \E b \in truth.values :
        LET m == Meaning(truth, b)
            now == Meaning(truth, device)
            same == {Meaning(truth, c) : c \in truth.values}
        IN /\ m.option # now.option
           /\ Send(w, [shown[w] EXCEPT !.option = m.option],
                   IF od.optionType \in Rates \cup Times \cup {\h13b}
                   THEN {x \in same : x.option = m.option}
                   ELSE {[main |-> now.main, option |-> m.option]})

\* The front panel: the device announces it to every window.
Panel ==
    /\ \E b \in truth.values \ {device} :
        /\ device' = b
        /\ wanted' = {Meaning(truth, b)}
        /\ shown' = [x \in Windows |-> Told(x, dataMessage_parse(Answer(Levels, b)).data, b)]
    /\ UNCHANGED <<truth, configuration, od, dump>>

\* /dump, the answer to it, and the file that the browser gets
Dump(p) ==
    LET request == DataRequest(getProgramAddr(p))
        asked == Words(request, 12, Word(request, 8))
        answer == dataMessage_parse(Answer(asked, device))
    IN /\ dump' = [asked |-> p, at |-> asked,
                   number |-> parseProgramAddr(answer.levels),
                   file |-> Header(DATA) \o nibblize16(Len(answer.data)) \o nibblize(answer.data)
                            \o <<4,0,0,0, 1,0,0,0, 10,0,0,0, 2,0,0,0, 4,6,0,0, 247>>,
                   data |-> device]
       /\ UNCHANGED <<truth, device, configuration, od, shown, wanted>>

ParametersNext ==
    \/ Describe
    \/ ReadConfiguration
    \/ \E w \in Windows : Open(w) \/ ChangeValue(w) \/ ChangeOption(w)
    \/ Panel
    \/ \E p \in Programs : Dump(p)

ParametersSpec == ParametersInit /\ [][ParametersNext]_parametersVars

-----------------------------------------------------------------------------
\* The last change was of a name that looks like a value with an option (main.js:175).
NumericName == IsName(truth) /\ \E m \in wanted : LooksNumeric(m.main)

(* Every window shows the controls that a page made now would show: the    *)
(* scripts of automation_q_dosend read the bytes as getObjectValue does.   *)
(* Not for the option 0x13a, which getObjectValue takes for a unit         *)
(* (lexicon.js:1545), nor for names with an apostrophe (main.js:566).      *)
Visible(s) == [s EXCEPT !.loaded = 0]

PagesAgree ==
    \A w \in Windows :
        \/ shown[w] = Null
        \/ od.optionType = \h13a
        \/ IsName(od) /\ \E i \in DOMAIN device : device[i] = 39
        \/ NumericName
        \/ Visible(shown[w]) = Visible(Page(device))

(* What a user sets in a control is what the device gets, whatever the     *)
(* option type, unless the limits of the control are wrong or it is a name *)
(* that looks like a value with an option.                                 *)
ChangeTaken ==
    \/ Meaning(truth, device) \in wanted
    \/ od.minValue # truth.minValue
    \/ NumericName

(* The configuration and a description are what the device sent, limits    *)
(* included, if no maximum is negative (lexicon.js:571).                           *)
DescribedRight ==
    od # Null =>
        /\ configuration = Configuration
        /\ \/ od = Description
           \/ \E j \in DOMAIN truth.maxValue : truth.maxValue[j] < 0

(* The answer to /dump is the program asked for; the file that the browser *)
(* gets loads the same data as the active program.                         *)
DumpRight ==
    dump # Null =>
        /\ dump.number = IF dump.asked \in 1 .. 300 THEN dump.asked ELSE 0
        /\ dataMessage_parse(dump.file) = [data |-> dump.data, levels |-> ActiveProgram]
=============================================================================
