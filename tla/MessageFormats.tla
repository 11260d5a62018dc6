--------------------------- MODULE MessageFormats ---------------------------
(***************************************************************************)
(* The bytes of the messages between the editor and the device: everything *)
(* above seven bits travels in nibbles, the lowest first.  A sequence is   *)
(* numbered from 1 here and a buffer from 0 there.                         *)
(***************************************************************************)
EXTENDS Integers, Sequences

\* message_type
DATA == 1
SYSTEM_CONFIGURATION == 0
OBJECT_DESCRIPTION == 4
REQUEST == 6

\* data & 0xF, (data >> 4) & 0xF ...: of a negative number, the nibbles of its two's complement.
Weights == <<1, 16, 256, 4096>>
Nibbles(x, n) == [k \in 1 .. n |-> (x \div Weights[k]) % 16]

NibblesOf(s, n) ==
    [i \in 1 .. n * Len(s) |-> Nibbles(s[1 + ((i - 1) \div n)], n)[1 + ((i - 1) % n)]]

nibblize(s) == NibblesOf(s, 2)
nibblize16(x) == Nibbles(x, 4)

\* buf[i]+(buf[i+1]<<4), and the same of four nibbles
Byte(buf, i) == buf[i] + 16 * buf[i + 1]
Word(buf, i) == Byte(buf, i) + 256 * Byte(buf, i + 2)

Bytes(buf, i, n) == [j \in 1 .. n |-> Byte(buf, i + 2 * (j - 1))]
Words(buf, i, n) == [j \in 1 .. n |-> Word(buf, i + 4 * (j - 1))]

\* Mutant: the sign is not looked at.
Signed16Dropped(x) == x
\* if (value & 0x8000) value = -(65536 - value)
Signed16(x) == IF x >= 32768 THEN x - 65536 ELSE x
Signed8(x) == IF x >= 128 THEN x - 256 ELSE x

-----------------------------------------------------------------------------
\* F0, COMPANY_ID, PRODUCT_ID, DEVICE_ID
Header(type) == <<240, 6, 15, 0, type>>

Address(levels) == nibblize16(Len(levels)) \o NibblesOf(levels, 4)

\* midi_message_send for the message of dataMessage(): data is in nibbles, and its size is left
\* out when there is none.
DataMessage(levels, data) ==
    Header(DATA) \o (IF data = <<>> THEN <<>> ELSE nibblize16(Len(data) \div 2))
        \o data \o Address(levels) \o <<247>>

\* the same for dataMessage_request()
DataRequest(levels) == Header(REQUEST) \o nibblize(<<DATA>>) \o Address(levels) \o <<247>>

\* the same for objectDescription_request()
DescriptionRequest(objectType) ==
    Header(REQUEST) \o nibblize(<<OBJECT_DESCRIPTION>>) \o nibblize16(objectType) \o <<247>>

-----------------------------------------------------------------------------
dataMessage_parse(buf) ==
    LET dataLength == Word(buf, 6)
        at == 10 + 2 * dataLength
    IN [data |-> Bytes(buf, 10, dataLength), levels |-> Words(buf, at + 4, Word(buf, at))]

\* The sign of a maximum goes to the minimum.
objectDescription_parse(buf) ==
    LET n == Byte(buf, 10)
        at == 12 + 2 * n
        count == Byte(buf, at + 10)
        Limit(j, k) == Word(buf, at + 12 * j + 4 * k)
    IN [objectType |-> Word(buf, 6),
        name |-> Bytes(buf, 12, n),
        dataSize |-> Word(buf, at),
        controlFlags |-> Byte(buf, at + 4),
        optionType |-> Word(buf, at + 6),
        minValue |-> [j \in 1 .. count |->
            IF Limit(j, 1) >= 32768 THEN Signed16(Limit(j, 1)) ELSE Signed16(Limit(j, 0))],
        maxValue |-> [j \in 1 .. count |-> Limit(j, 1)],
        displayUnits |-> [j \in 1 .. count |-> Limit(j, 2)]]

\* The version, a time of 8 and a date of 11 characters, three numbers.
systemConfiguration_parse(buf) ==
    [majorVersion |-> Byte(buf, 6),
     minorVersion |-> Byte(buf, 8),
     timeString |-> Bytes(buf, 10, 8),
     dateString |-> Bytes(buf, 26, 11),
     numberOfObjectTypes |-> Word(buf, 48),
     reserved |-> Word(buf, 52),
     numberOfControlLevels |-> Word(buf, 56)]

-----------------------------------------------------------------------------
ActiveProgram == <<1, 10, 2, 100>>

\* NaN stands for a number that is none
getProgramAddr(n) ==
    IF n \notin 1 .. 300 THEN ActiveProgram
    ELSE <<1, 10, (n - 1) \div 100, (n - 1) % 100>>

\* Mutant: the programs of a bank from 0.
parseProgramAddrFromZero(levels) ==
    IF Len(levels) = 4 /\ levels[3] \in 0 .. 2 /\ (levels[3] = 2 => levels[4] < 100)
    THEN 100 * levels[3] + levels[4]
    ELSE 0
\* 0 where the code returns undefined
parseProgramAddr(levels) ==
    IF /\ Len(levels) = 4
       /\ levels[1] = 1 /\ levels[2] = 10
       /\ levels[3] \in 0 .. 2
       /\ levels[3] = 2 => levels[4] < 100
    THEN 100 * levels[3] + levels[4] + 1
    ELSE 0
=============================================================================
