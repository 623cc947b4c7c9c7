---------------------------- MODULE MCCollections ----------------------------
(* Two collections of one kind.  The keys are texts, two of them equal at  *)
(* different addresses, and an enum value; growth starts at one cell so    *)
(* that every insertion may move the arrays.                               *)
EXTENDS Collections, StructuralValues, TLC

\* The helpers of StructuralValues are such as the refinement theorem asks for.
ASSUME MCHelpersAgree == HelpersAgree

Symmetry == Permutations(Names)
MCKeys == {Str(1, 1), Str(1, 2), Str(2, 1)}
MCIndices == 0..2
=============================================================================
