----------------------------- MODULE RoxmlDefines -----------------------------
(***************************************************************************)
(* The sizes of src/src/roxml_defines.h that behaviour depends on.         *)
(***************************************************************************)
EXTENDS Integers

CONSTANTS
    BulkReads,  \* ROXML_BULK_READ: the sizes of the chunks of a file
    BaseLen     \* ROXML_BASE_LEN: the part of a chunk kept for reading ahead,
                \* and the unit an output buffer grows by

ASSUME BaseLenAssumption == BaseLen \in Nat \ {0}

ASSUME BulkAssumption ==
    BulkReads \subseteq Nat /\ BulkReads # {} /\ \A b \in BulkReads : b > BaseLen

=============================================================================
