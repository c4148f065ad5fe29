----------------------------- MODULE RevisionLog -----------------------------
(***************************************************************************)
(* What the store promises to everything that watches it, with no word of  *)
(* connections, mutexes or transactions.                                   *)
(*                                                                         *)
(* `log' is the durable history: its r-th element is the event that was    *)
(* given revision r.  `stream' is what the running process has announced,  *)
(* and `base' the length of the log when that process started.  Announcing *)
(* takes the log's next event and no other, so the stream is at any time a *)
(* gap-free piece of the log in revision order; a restart starts a new     *)
(* stream at the end of the log.                                           *)
(***************************************************************************)
EXTENDS Naturals, Sequences

CONSTANT Event          \* the events a revision can stand for

VARIABLES log, stream, base

absVars == <<log, stream, base>>

AbsTypeOK ==
  /\ log \in Seq(Event)
  /\ stream \in Seq(Event)
  /\ base \in Nat

AbsInit ==
  /\ log = <<>>
  /\ stream = <<>>
  /\ base = 0

\* A transaction makes one event or, for a namespace, several events durable.
\* Nothing already in the log changes.
Extend ==
  /\ log' \in Seq(Event)
  /\ Len(log') > Len(log)
  /\ \A i \in 1 .. Len(log) : log'[i] = log[i]
  /\ UNCHANGED <<stream, base>>

\* The next event in revision order reaches the subscribers.
Announce ==
  /\ base + Len(stream) < Len(log)
  /\ stream' = Append(stream, log[base + Len(stream) + 1])
  /\ UNCHANGED <<log, base>>

\* The process is replaced; subscribers of the old one are gone.
Reopen ==
  /\ stream' = <<>>
  /\ base' = Len(log)
  /\ UNCHANGED log

AbsNext ==
  \/ Extend
  \/ Announce
  \/ Reopen

AbsSpec == AbsInit /\ [][AbsNext]_absVars
===============================================================================
