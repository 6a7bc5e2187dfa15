--------------------------- MODULE MCDaemonUpload ---------------------------
(* Instances of DaemonUpload for TLC: small files s1, s2, s3, a big b1. *)
EXTENDS DaemonUpload

CONSTANTS s1, s2, s3, b1, p1, p2, p3

MCSize == [t \in Tasks |-> IF t = b1 THEN 4 ELSE 1]

\* Every task has a path of its own.
OwnRemote == [t \in Tasks |-> CASE t = s1 -> p1 [] t = s2 -> p2 [] OTHER -> p3]
=============================================================================
