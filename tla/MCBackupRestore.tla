--------------------------- MODULE MCBackupRestore ---------------------------
(***************************************************************************)
(* Small instances of BackupRestore: three runs under Keep = 2, which      *)
(* overlap, fail and prune each other in every order, one photo and one    *)
(* governed event, either of which can be written on either side of every  *)
(* step of a backup or a restore.                                          *)
(***************************************************************************)
EXTENDS BackupRestore

CONSTANTS dev, iso, p1, e1

InProgress == {r \in Run : ~At(r, "idle")}

\* Bound: with data beside it a third run, which makes prune remove
\* something, comes one at a time with the others.
LittleAtOnce ==
  \/ started <= 2
  \/ used = {}
  \/ Cardinality(used) = 1 /\ Cardinality(InProgress) <= 1
=============================================================================
