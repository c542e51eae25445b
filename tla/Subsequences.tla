---------------------------- MODULE Subsequences ----------------------------
(***************************************************************************)
(* The members of a sequence that are in a set, in their order: what       *)
(* SelectSeq gives, written with FlattenSeq so that it can be proved       *)
(* about.                                                                  *)
(***************************************************************************)
EXTENDS Naturals, SequencesExt

Among(s, T) == FlattenSeq([i \in DOMAIN s |-> IF s[i] \in T THEN <<s[i]>> ELSE <<>>])
=============================================================================
