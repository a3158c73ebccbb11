---- MODULE MCLogWriter ----
(* Small instances of the log writer. *)
EXTENDS LogWriter
====
