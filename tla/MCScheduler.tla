----------------------------- MODULE MCScheduler -----------------------------
(* Two pods that fill a node and two of higher priority that want their    *)
(* room.  top needs the room of lo1, and evicts lo2 too when the order of  *)
(* the two puts it first; then hi fits into what top leaves while both     *)
(* still run.  hi may also evict lo1 alone, and top counts on the rest of  *)
(* its room.                                                               *)
EXTENDS Scheduler

CONSTANTS lo1, lo2, hi, top, n1

MCPrio == [p \in Pods |-> IF p \in {lo1, lo2} THEN 0 ELSE IF p = hi THEN 1 ELSE 2]
MCSize == [p \in Pods |-> IF p \in {lo1, top} THEN 2 ELSE 1]
MCCap == [n \in Nodes |-> 3]
MCStart == [p \in Pods |-> IF p \in {lo1, lo2} THEN n1 ELSE NoNode]

===============================================================================
