---- MODULE MCPrograms ----
(* The example programs. *)
EXTENDS Programs, TLC

CONSTANTS feed, fast, slow, book, risk

Roles  == {feed, fast, slow, book, risk}
Nobody == {}
All    == {"fanout", "race", "desk"}
\* The order of the desk's names.
ByName == (book :> 1) @@ (fast :> 2) @@ (feed :> 3) @@ (risk :> 4) @@ (slow :> 5) @@ (World :> 6)
====
