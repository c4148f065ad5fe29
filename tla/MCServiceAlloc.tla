---------------------------- MODULE MCServiceAlloc ----------------------------
(* ServiceAlloc with two values, the second one kept for the Service boot,   *)
(* which the start-up stores itself (default/kubernetes) or does not         *)
(* (kube-system/kube-dns).                                                   *)
EXTENDS ServiceAlloc, TLC

CONSTANTS boot, web, port, vip

MCOwner == [v \in {port, vip} |-> IF v = vip THEN boot ELSE Nobody]

RequestSymmetry == Permutations(Requests)

\* What a request still uses: once its write has landed or it is dropped, what
\* it has to settle, for which Service, and whether it keeps others from it (Sent).
InUse(r) ==
  CASE req[r].pc = "commit" -> <<"commit", req[r].svc, req[r].op \in Deletions, req[r].stale>>
    [] req[r].pc = "drop"   -> <<"drop", req[r].svc, req[r].op \in Deletions, req[r].created>>
    [] OTHER -> req[r]

\* States that differ only in what no later step or invariant depends on are one.
View == <<svc, sentinel, [r \in Requests |-> InUse(r)], phase, todo, rev, seeded, lost>>
===============================================================================
