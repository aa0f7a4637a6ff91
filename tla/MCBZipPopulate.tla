--------------------------- MODULE MCBZipPopulate ---------------------------
(***************************************************************************)
(* Files of up to three blocks of one or three bytes, one file without a    *)
(* block, and one whose blocks decompress to nothing.                      *)
(***************************************************************************)
EXTENDS BZipPopulate, SequencesExt

(* The cut points of a file whose blocks hold that many bytes. *)
Cuts(occupancies) ==
    [i \in 0 .. Len(occupancies) |-> FoldLeft(+, 0, SubSeq(occupancies, 1, i))]

MCFiles == {Cuts(o) : o \in BoundedSeq({1, 3}, 3) \cup {<<0, 0>>}}

MCGarbage == {0, 50}
=============================================================================
