---------------------------- MODULE MCWatchCache -----------------------------
(* WatchCache on one resource type, with an object in each of two namespaces *)
(* or with one object only.                                                  *)
EXTENDS WatchCache

CONSTANTS x, y, rt, n1, n2, w1

TwoKeys    == {x, y}
OneKey     == {x}
MCRootOf   == [k \in Keys |-> rt]
MCNsOf     == [k \in Keys |-> IF k = x THEN n1 ELSE n2]
BothScopes == {<<rt, All>>, <<rt, n1>>}
RootScope  == {<<rt, All>>}
===============================================================================
