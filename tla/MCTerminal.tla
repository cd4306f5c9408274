------------------------------ MODULE MCTerminal ------------------------------
(* Terminal with two terminals and one printable character.  The keyboard  *)
(* buffer keeps the code's ratio of buffer size to index range (128 bytes, *)
(* an 8-bit index): 2 bytes and a 2-bit index, lines "", "a" and "aa"; or, *)
(* for the run of every action, 1 byte and a 1-bit index.                  *)
EXTENDS Terminal

MCNumTerms == 2
MCBufSize == 2
MCBufSizeOne == 1
MCIdxWidth == 4
MCIdxWidthOne == 2
MCChars == {"a"}

=============================================================================
