---- MODULE MCSearchSetup ----
(* A small instance of SearchSetup: two instances that start and restart. *)
EXTENDS SearchSetup

====
