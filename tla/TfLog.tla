------------------------------- MODULE TfLog -------------------------------
(***************************************************************************)
(* What the transforms in the file of a project promise, whatever the      *)
(* steps in which they are written: per frame pair a log that only grows,  *)
(* by whole transforms, and a sender that was told "added transform" finds *)
(* its transform in the log from then on.  No restart takes one away.      *)
(***************************************************************************)
EXTENDS Sequences

CONSTANTS
  Groups,   \* the logs
  Rows      \* the transforms of one frame pair

VARIABLES
  log,      \* per group: the transforms stored
  acked     \* <<group, row>> of the requests that were answered with success

Init ==
  /\ log = [g \in Groups |-> <<>>]
  /\ acked = {}

Store(g, r) ==
  /\ log' = [log EXCEPT ![g] = Append(@, r)]
  /\ UNCHANGED acked

Answer(g, r) ==
  /\ \E i \in DOMAIN log[g] : log[g][i] = r
  /\ acked' = acked \cup {<<g, r>>}
  /\ UNCHANGED log

Next == \E g \in Groups, r \in Rows : Store(g, r) \/ Answer(g, r)

Spec == Init /\ [][Next]_<<log, acked>>

=============================================================================
