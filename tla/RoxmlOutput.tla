----------------------------- MODULE RoxmlOutput -----------------------------
(***************************************************************************)
(* The output buffer of roxml_commit_buffer (src/src/roxml_commit.c).  It  *)
(* is grown before a write that would not fit; the write itself does not   *)
(* look at its length.                                                     *)
(***************************************************************************)
EXTENDS RoxmlDefines

VARIABLES
    offset,  \* the number of characters written
    len      \* the size of the buffer

outputVars == <<offset, len>>

OutputInit == offset = 0 /\ len = BaseLen

\* Mutant: the length asked for is taken as it is, without the terminator.
GrowthExact(min_len) == (min_len \div BaseLen) * BaseLen

\* roxml_realloc_buf: (min_len | (ROXML_BASE_LEN - 1)) + 1, the first multiple
\* of ROXML_BASE_LEN, a power of two, above min_len.
Growth(min_len) == (min_len \div BaseLen + 1) * BaseLen

\* roxml_write_string of a string of size characters.
WriteString(size) ==
    /\ len' = IF offset + size >= len THEN len + Growth(size) ELSE len
    /\ offset' = offset + size

\* roxml_print_spaces: a new line, but at the very beginning, and lvl spaces.
PrintSpaces(lvl) ==
    /\ len' = IF offset + lvl + 1 >= len THEN len + Growth(lvl) ELSE len
    /\ offset' = offset + lvl + (IF offset > 0 THEN 1 ELSE 0)

OutputNext == \E size \in Nat : WriteString(size) \/ PrintSpaces(size)

OutputSpec == OutputInit /\ [][OutputNext]_outputVars

-----------------------------------------------------------------------------

\* What roxml_write_string and roxml_print_spaces write, and the zero after
\* it, are inside the buffer that roxml_realloc_buf has made for it.
Fits == offset < len

=============================================================================
