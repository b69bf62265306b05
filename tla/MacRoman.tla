------------------------------ MODULE MacRoman ------------------------------
(***************************************************************************)
(* MacRoman names (macroman.rs) and encode_name (volume.rs): which strings *)
(* can name a file, how many bytes the name takes, and which names answer  *)
(* to each other.  A string is a sequence of code points.                  *)
(***************************************************************************)
EXTENDS Integers, Sequences, SequencesExt

\* The characters of bytes 16r80 to 16rFF.
HIGH ==
  << \h00C4, \h00C5, \h00C7, \h00C9, \h00D1, \h00D6, \h00DC, \h00E1,
     \h00E0, \h00E2, \h00E4, \h00E3, \h00E5, \h00E7, \h00E9, \h00E8,
     \h00EA, \h00EB, \h00ED, \h00EC, \h00EE, \h00EF, \h00F1, \h00F3,
     \h00F2, \h00F4, \h00F6, \h00F5, \h00FA, \h00F9, \h00FB, \h00FC,
     \h2020, \h00B0, \h00A2, \h00A3, \h00A7, \h2022, \h00B6, \h00DF,
     \h00AE, \h00A9, \h2122, \h00B4, \h00A8, \h2260, \h00C6, \h00D8,
     \h221E, \h00B1, \h2264, \h2265, \h00A5, \h00B5, \h2202, \h2211,
     \h220F, \h03C0, \h222B, \h00AA, \h00BA, \h03A9, \h00E6, \h00F8,
     \h00BF, \h00A1, \h00AC, \h221A, \h0192, \h2248, \h2206, \h00AB,
     \h00BB, \h2026, \h00A0, \h00C0, \h00C3, \h00D5, \h0152, \h0153,
     \h2013, \h2014, \h201C, \h201D, \h2018, \h2019, \h00F7, \h25CA,
     \h00FF, \h0178, \h2044, \h20AC, \h2039, \h203A, \hFB01, \hFB02,
     \h2021, \h00B7, \h201A, \h201E, \h2030, \h00C2, \h00CA, \h00C1,
     \h00CB, \h00C8, \h00CD, \h00CE, \h00CF, \h00CC, \h00D3, \h00D4,
     \hF8FF, \h00D2, \h00DA, \h00DB, \h00D9, \h0131, \h02C6, \h02DC,
     \h00AF, \h02D8, \h02D9, \h02DA, \h00B8, \h02DD, \h02DB, \h02C7 >>

Representable(c) == c < 128 \/ c \in ToSet(HIGH)

\* decode: every byte stands for a character.
CharOf(b) == IF b < 128 THEN b ELSE HIGH[b - 127]

Decode(bytes) == [i \in DOMAIN bytes |-> CharOf(bytes[i])]

\* encode fails at the first character MacRoman has no byte for.
Encodes(s) == \A i \in DOMAIN s : Representable(s[i])

ByteFor(c) ==
  IF c < 128 THEN c
  ELSE 127 + (CHOOSE i \in DOMAIN HIGH : HIGH[i] = c /\ \A h \in 1 .. i - 1 : HIGH[h] # c)

Encode(s) == [i \in DOMAIN s |-> ByteFor(s[i])]

-----------------------------------------------------------------------------
\* char::to_uppercase of the characters MacRoman has.  Three become two
\* characters, and some become one that MacRoman has no byte for.
Lowercase == (97 .. 122) \cup ((\h00E0 .. \h00FC) \ {\h00F7})

Upper(c) ==
  CASE c \in Lowercase -> <<c - 32>>
    [] c = \h00FF -> <<\h0178>>     [] c = \h0153 -> <<\h0152>>
    [] c = \h00B5 -> <<\h039C>>     [] c = \h03C0 -> <<\h03A0>>
    [] c = \h0192 -> <<\h0191>>     [] c = \h0131 -> <<73>>
    [] c = \h00DF -> <<83, 83>>
    [] c = \hFB01 -> <<70, 73>>     [] c = \hFB02 -> <<70, 76>>
    [] OTHER -> <<c>>

\* eq_ignore_case compares these.
Uppercase(s) == FlattenSeq([i \in DOMAIN s |-> Upper(s[i])])

\* What encode_name finds fault with beside the length: a character MacRoman has
\* no byte for, a colon, a NUL.
Refused(s) == ~Encodes(s) \/ (\E i \in DOMAIN s : Encode(s)[i] \in {0, 58})
=============================================================================
