---------------------------- MODULE SnapshotLog ----------------------------
(***************************************************************************)
(* What versioning promises, whatever a handler does to the nodes: a log of *)
(* entries that never change, each one on top of the one before, the last   *)
(* of them being what is stored.  A change adds an entry; a pruning        *)
(* rollback cuts the log after an entry it names, and adds one there.      *)
(* Numbers grow, and are not used again after a cut.                       *)
(***************************************************************************)
EXTENDS Naturals

CONSTANT Empty   \* what is stored before the first entry

VARIABLES
  log,      \* the entries, by number
  stored    \* what is stored

logVars == <<log, stored>>

Numbers == DOMAIN log

Newest(k) == k \in Numbers \cup {0} /\ \A s \in Numbers : s <= k

Init ==
  /\ Numbers = {}
  /\ stored = Empty

\* One entry more, on top of parent, with kept of the others.
Adds(kept, parent) ==
  \E id \in Numbers' :
     /\ \A s \in Numbers : s < id
     /\ Numbers' = kept \cup {id}
     /\ \A s \in kept : log'[s] = log[s]
     /\ log'[id].parent = parent
     /\ log'[id].stored = stored'

Append == \E parent \in Numbers \cup {0} : Newest(parent) /\ Adds(Numbers, parent)

CutBack == \E k \in Numbers : ~Newest(k) /\ Adds({s \in Numbers : s <= k}, k)

Next == Append \/ CutBack

Spec == Init /\ [][Next]_logVars
=============================================================================
