---- MODULE MCAclService ----
(* Instances of AclService for TLC: requests are interchangeable, and so   *)
(* are documents.                                                          *)
EXTENDS AclService, TLC

Symmetry == Permutations(Reqs) \union Permutations(Docs)

====
