---------------------------- MODULE MCSliceFind ----------------------------
(* All texts and patterns over two characters, up to a length, for TLC. *)
EXTENDS SliceFind, SequencesExt

MCTexts == BoundedSeq(Char, 6)
MCPatterns == BoundedSeq(Char, 5)
=============================================================================
