---- MODULE MCConnHandler ----
(***************************************************************************)
(* Small instances of ConnHandler.  One unit stands for several bytes: a   *)
(* header of two units can arrive in two reads, a read returns up to four  *)
(* units, the quota is nine and, as in the code, less than the largest     *)
(* body a header may announce.                                             *)
(***************************************************************************)
EXTENDS ConnHandler

F(len, flags, body, cmd) ==
    [valid |-> TRUE, len |-> len, flags |-> flags, body |-> body, cmd |-> cmd]

MCHandlers ==
    [c \in {"ping", "bare", "log", "bad", "dump"} |->
        CASE c = "ping" -> "reply"
          [] c = "bare" -> "zeroid"
          [] c = "log"  -> "none"
          [] c = "bad"  -> "fail"
          [] c = "dump" -> "huge"]

(* One frame for every way through Decode and handleFrame. *)
MCFrames ==
    { F(1, {}, "message", "ping"),
      F(4, {}, "message", "ping"),
      F(8, {}, "message", "ping"),
      F(1, {"oneway"}, "message", "ping"),
      F(2, {"compressed"}, "message", "bare"),
      F(1, {}, "message", "log"),
      F(1, {}, "message", "bad"),
      F(1, {"compressed"}, "message", "dump"),
      F(1, {}, "message", "nosuch"),
      F(1, {"encrypted"}, "message", "ping"),
      F(1, {"compressed"}, "garbage", "ping"),
      F(0, {}, "short", "ping"),
      F(11, {}, "message", "ping"),
      [F(1, {}, "message", "ping") EXCEPT !.valid = FALSE] }

====
