----------------------------- MODULE MCDatabase -----------------------------
(* Instances of Database for TLC.                                           *)
EXTENDS Database

CONSTANTS o1, o2, k1, v1, v2

\* Clearing the database, and a backup with one owner.
MCBackups == {Nothing, [o \in Owners |-> [k \in Keys |-> CHOOSE v \in Mutable : TRUE]]}
=============================================================================
