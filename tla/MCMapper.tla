---- MODULE MCMapper ----
(* Instances of Mapper for TLC: the hash of one method is the command that *)
(* another may register.                                                   *)
EXTENDS Mapper

CONSTANTS A, B, one, two

MCHash == [m \in Methods |-> one]

====
