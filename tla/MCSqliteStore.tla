---------------------------- MODULE MCSqliteStore ----------------------------
(* SqliteStore on a small instance: a namespace object and two objects in   *)
(* it, two writers and one reader.                                          *)
EXTENDS SqliteStore, TLC

CONSTANTS nsKey, k1, k2

MCKeys   == {nsKey, k1, k2}
MCNsKeys == {nsKey}
MCNsOf   == [k \in MCKeys |-> IF k = nsKey THEN NoNs ELSE nsKey]

\* Writers are interchangeable, and so are the two objects.
MCSymmetry == Permutations(Writers) \cup Permutations({k1, k2})
===============================================================================
