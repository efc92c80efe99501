----------------------------- MODULE MCAuditLog -----------------------------
(* AuditLog on small instances: the processes are interchangeable, and so   *)
(* are the events.                                                          *)
EXTENDS AuditLog, TLC

Symmetry == Permutations(Procs) \union Permutations(Events)
=============================================================================
