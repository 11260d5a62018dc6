---------------------------- MODULE MCParameters ----------------------------
(* Parameters of the ROM V01.10 (src/main/MPXG2PARAM1.1.txt): of those in    *)
(* the control tree that have one or two bytes or a name, one of each option *)
(* type, size and sign, with values at the ends of their ranges and around a *)
(* change of byte or sign.                                                   *)
EXTENDS Parameters

Number16(x) == <<x % 256, (x \div 256) % 256>>
OneByte(xs, options) == {<<x % 256, o>> : x \in xs, o \in options}
Plain(xs) == {<<x % 256>> : x \in xs}
Plain16(xs) == {Number16(x) : x \in xs}
Dual(xs, unit) == {<<x % 256, (x \div 256) % 256, unit>> : x \in xs}
Parameter(type, size, option, min, max, units, values) ==
    [objectType |-> type, name |-> <<84, 49>>, dataSize |-> size, controlFlags |-> 67,
     optionType |-> option, minValue |-> min, maxValue |-> max, displayUnits |-> units,
     values |-> values]

\* V01.10 of the ROM
MCConfiguration ==
    [majorVersion |-> 1, minorVersion |-> 10,
     timeString |-> <<49, 55, 58, 50, 50, 58, 49, 51>>,
     dateString |-> <<65, 112, 114, 32, 50, 52, 32, 50, 48, 48, 50>>,
     numberOfObjectTypes |-> 733, reserved |-> 0, numberOfControlLevels |-> 5]

MCDescriptions == {
    Parameter(\h0002, 2, \h12f, <<0, 257>>, <<5000, 6168>>, <<\h17, \h08>>,
              Dual({0, 255, 256, 5000}, 0) \cup Dual({257, 513, 6168}, 1)),
    Parameter(\h0011, 2, \h132, <<0, 257, 0, 0, 0, 0>>, <<20000, 6168, 22600, 6880, 20000, 32767>>,
              <<\h3b, \h08, \h45, \h46, \h3b, \h6c>>,
              Dual({0, 20000}, 0) \cup Dual({257, 6168}, 1) \cup Dual({0, 22600}, 2) \cup Dual({32767}, 5)),
    Parameter(\h00c0, 1, \h133, <<-100>>, <<100>>, <<\h8002>>, OneByte({-100, -1, 0, 100}, {0, 6})),
    Parameter(\h0030, 1, \h133, <<0>>, <<100>>, <<\h0003>>, OneByte({0, 100}, {0, 1, 6})),
    Parameter(\h0128, 1, \h13b, <<0, -97>>, <<100, -1>>, <<\h0000, \h800e>>, Plain({0, 99, 100, -97, -2, -1})),
    Parameter(\h00d1, 1, \h134, <<0>>, <<100>>, <<\h0001>>, OneByte({0, 50, 100}, {0, 1})),
    Parameter(\h0122, 1, \h139, <<-83>>, <<0>>, <<\h8009>>, OneByte({-83, -1, 0}, {1, 2})),
    Parameter(\h0071, 2, \h12c, <<-4800>>, <<1900>>, <<\h8001>>,
              Dual({-4800, -1, 255, 1900}, 0) \cup Dual({-4800, 0}, 100)),
    Parameter(\h0033, 1, \h12c, <<0>>, <<25>>, <<\h0062>>, OneByte({0, 25}, {0, 1, 100})),
    Parameter(\h0077, 1, \h12d, <<0>>, <<100>>, <<\h0001>>, OneByte({0, 100}, {10, 60})),
    Parameter(\h007a, 1, \h12e, <<0>>, <<100>>, <<\h0001>>, OneByte({0, 100}, {10, 40})),
    Parameter(\h0127, 1, \h13a, <<0>>, <<100>>, <<\h0001>>, OneByte({0, 100}, {10, 23})),
    Parameter(\h0019, 1, \hffff, <<0>>, <<63>>, <<\h0039>>, Plain({0, 1, 63})),
    Parameter(\h0040, 1, \hffff, <<-64>>, <<0>>, <<\h8003>>, Plain({-64, -1, 0})),
    Parameter(\h0064, 2, \hffff, <<0>>, <<2000>>, <<\h003b>>, Plain16({0, 255, 256, 2000})),
    Parameter(\h0074, 2, \hffff, <<-4800>>, <<1900>>, <<\h8001>>, Plain16({-4800, -256, -1, 0, 1900})),
    Parameter(\h00fc, 3, \hffff, <<32>>, <<126>>, <<\h0030>>,
              {<<65, 49, 32>>, <<49, 44, 49>>, <<65, 32, 65>>, <<65, 39, 32>>, <<32, 32, 32>>})}
=============================================================================
