---- MODULE MCConfig ----
(* The inputs of Config for TLC: one duration and one string.              *)
EXTENDS Config

key(p, l) == [primary |-> p, legacy |-> l]

none == key("missing", "missing")

Readable(a, i) == [state |-> "yaml", keys |-> [s \in Settings |-> IF s = "addr" THEN a ELSE i]]

MCFileContents ==
    {[state |-> st, keys |-> [s \in Settings |-> none]] : st \in {"absent", "broken"}}
      \union {Readable(none, i) : i \in {none, key("missing", "good"), key("missing", "bad"),
                                         key("bad", "good")}}
      \union {Readable(key("good", "missing"), key("good", "bad"))}

MCEnvironments ==
    {[s \in Settings |-> IF s = "addr" THEN a ELSE b] :
        a \in {"good", "missing"}, b \in Found}

arg == {[flag |-> "config", path |-> p] : p \in {OtherPath, NoPath}}
         \union {[flag |-> "addr", value |-> "good"], [flag |-> "word"], [flag |-> "unknown"]}
         \union {[flag |-> "idle-timeout", value |-> v] : v \in {"good", "bad"}}

MCCommandLines == UNION {[1..n -> arg] : n \in 0..2}

====
