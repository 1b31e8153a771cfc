----------------------------- MODULE MCKeyedLock -----------------------------
(***************************************************************************)
(* Three callers over two keys, nesting two deep: enough for a queue of    *)
(* two behind an owner, re-entry, and a lock-order cycle.                  *)
(***************************************************************************)
EXTENDS KeyedLock

CONSTANTS c1, c2, c3, k1, k2

MCCallers == {c1, c2, c3}
MCKeys    == {k1, k2}
=============================================================================
