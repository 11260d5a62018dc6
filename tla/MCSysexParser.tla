--------------------------- MODULE MCSysexParser ----------------------------
(* SysexParser for TLC.                                                    *)
EXTENDS SysexParser

\* A byte of data, the two ends of a message, and a byte that is none of them.
Bytes == {1, 240, 247, 248}

\* Every chunk of up to four bytes.
ShortChunks == UNION { [1..n -> Bytes] : n \in 1..4 }

SomeMemory == {240, 247}
=============================================================================
