---- MODULE MCAdmin ----
(* A small instance of Admin: slots are interchangeable, and so are        *)
(* documents, as all are archived and match.                               *)
EXTENDS Admin, TLC

(* A list with an entry that cannot be read in front of one that can. *)
MixedLog == <<None, 0>>

(* TLC's configurations have no negative numbers. *)
LimitsOfBothSigns == {-1, 1}

Symmetry == Permutations(Slots) \union Permutations(Docs)

====
