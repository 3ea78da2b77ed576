----------------------------- MODULE AppendOnly ------------------------------
(***************************************************************************)
(* What the transparency log promises its readers: entries are only added  *)
(* at the end, one at a time, and a published head commits to the log as   *)
(* it stood.  AuditLog implements this specification.                      *)
(***************************************************************************)
EXTENDS Naturals, Sequences

CONSTANT Body   \* what an entry records

VARIABLES
    log,        \* the bodies of the entries, in order
    heads       \* the published logs

vars == <<log, heads>>

Init == log = <<>> /\ heads = {}

Record == \E b \in Body : log' = Append(log, b) /\ UNCHANGED heads

Publish == heads' = heads \union {log} /\ UNCHANGED log

Next == Record \/ Publish

Spec == Init /\ [][Next]_vars

=============================================================================
