---------------------------- MODULE MCLineReader ----------------------------
(***************************************************************************)
(* LineReader with a ring of three slots and a line buffer of three        *)
(* characters, so that lines of up to four overflow it once and leave a    *)
(* rest, and the ring is full after two bytes.                             *)
(***************************************************************************)
EXTENDS LineReader, TLC

MCBytes == StreamBytes
MCNul == SkipByte
MCSymmetry == Permutations(Lines)
=============================================================================
