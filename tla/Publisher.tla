----------------------------- MODULE Publisher -----------------------------
(***************************************************************************)
(* The Publisher of resource updates: a mutator touches the URI it changed, *)
(* and a timer per URI sends one notification when its window passes        *)
(* without another touch.  A timer that runs out starts a goroutine for     *)
(* fire, which waits for the mutex, drops the URI's entry and sends; touches *)
(* and other goroutines come in between.                                   *)
(*                                                                         *)
(* Every critical section of Publisher.mu is one action.  Timers of the Go  *)
(* library are modelled from how Touch and Close use them: Reset of a timer *)
(* that has run out starts it again, Stop does not recall a goroutine that  *)
(* has started.  MaxTouches bounds how often mutators touch.               *)
(***************************************************************************)
EXTENDS Naturals

CONSTANTS
  perURI,      \* the window of each subscribable URI
  Timer,       \* enough timers for MaxTouches
  NoTimer,
  MaxTouches

URI == DOMAIN perURI

ASSUME PublisherAssumption ==
  /\ perURI \in [URI -> Nat]
  /\ NoTimer \notin Timer
  /\ MaxTouches \in Nat

VARIABLES
  timers,      \* the entry of each URI, or NoTimer
  left,        \* the time left to each armed timer
  uriOf,       \* the URI in each timer's closure
  locking,     \* goroutines of each URI that wait for the mutex in fire
  sending,     \* goroutines of each URI that have let it go
  unsent,      \* history variable: touched since the last send of the URI
  closed,
  touches

publisherVars == <<timers, left, uriOf, locking, sending, unsent, closed, touches>>

-----------------------------------------------------------------------------
\* The timer, armed or not, is to run out after d.
Reset(t, d) == [x \in DOMAIN left \cup {t} |-> IF x = t THEN d ELSE left[x]]

\* Mutant: the timer is stopped and not started again.
RearmStopped(u) ==
  /\ timers[u] # NoTimer
  /\ left' = [x \in DOMAIN left \ {timers[u]} |-> left[x]]
  /\ UNCHANGED <<timers, uriOf>>

\* An entry: its timer starts again, even one that has run out.
Rearm(u) ==
  /\ timers[u] # NoTimer
  /\ left' = Reset(timers[u], perURI[u])
  /\ UNCHANGED <<timers, uriOf>>

\* No entry: a new timer, with the URI in its closure.
AfterFunc(u) ==
  /\ timers[u] = NoTimer
  /\ \E t \in Timer :
       /\ t \notin DOMAIN left
       /\ \A v \in URI : timers[v] # t
       /\ timers' = [timers EXCEPT ![u] = t]
       /\ uriOf' = [uriOf EXCEPT ![t] = u]
       /\ left' = [x \in DOMAIN left \cup {t} |-> IF x = t THEN perURI[u] ELSE left[x]]

Touch(u) ==
  /\ touches < MaxTouches
  /\ touches' = touches + 1
  /\ Rearm(u) \/ AfterFunc(u)
  /\ unsent' = [unsent EXCEPT ![u] = TRUE]
  /\ UNCHANGED <<locking, sending, closed>>

\* A timer runs out and its goroutine starts, sooner or later after its time.
Expire(t) ==
  /\ t \in DOMAIN left
  /\ left[t] = 0
  /\ left' = [x \in DOMAIN left \ {t} |-> left[x]]
  /\ locking' = [locking EXCEPT ![uriOf[t]] = @ + 1]
  /\ UNCHANGED <<timers, uriOf, sending, unsent, closed, touches>>

\* Mutant: fire gives way to a timer armed again, and stops it.
UntrackGivesWay(u) ==
  LET rearmed == timers[u] \in DOMAIN left IN
  /\ locking[u] > 0
  /\ locking' = [locking EXCEPT ![u] = @ - 1]
  /\ timers' = [timers EXCEPT ![u] = NoTimer]
  /\ left' = [x \in DOMAIN left \ {timers[u]} |-> left[x]]
  /\ sending' = [sending EXCEPT ![u] = IF rearmed THEN @ ELSE @ + 1]
  /\ UNCHANGED <<uriOf, unsent, closed, touches>>

\* Mutant: fire leaves the entry in the map.
UntrackNothing(u) ==
  /\ locking[u] > 0
  /\ locking' = [locking EXCEPT ![u] = @ - 1]
  /\ sending' = [sending EXCEPT ![u] = @ + 1]
  /\ UNCHANGED <<timers, left, uriOf, unsent, closed, touches>>

\* The critical section of fire: whatever timer is the URI's entry by now.
Untrack(u) ==
  /\ locking[u] > 0
  /\ locking' = [locking EXCEPT ![u] = @ - 1]
  /\ timers' = [timers EXCEPT ![u] = NoTimer]
  /\ sending' = [sending EXCEPT ![u] = @ + 1]
  /\ UNCHANGED <<left, uriOf, unsent, closed, touches>>

\* ResourceUpdated, whether or not it fails: a failure is logged only.
Send(u) ==
  /\ sending[u] > 0
  /\ sending' = [sending EXCEPT ![u] = @ - 1]
  /\ unsent' = [unsent EXCEPT ![u] = FALSE]
  /\ UNCHANGED <<timers, left, uriOf, locking, closed, touches>>

Close ==
  /\ ~closed
  /\ closed' = TRUE
  /\ left' = [x \in {x \in DOMAIN left : \A u \in URI : timers[u] # x} |-> left[x]]
  /\ timers' = [u \in URI |-> NoTimer]
  /\ UNCHANGED <<uriOf, locking, sending, unsent, touches>>

Pass ==
  /\ \E t \in DOMAIN left : left[t] > 0
  /\ left' = [t \in DOMAIN left |-> IF left[t] = 0 THEN 0 ELSE left[t] - 1]
  /\ UNCHANGED <<timers, uriOf, locking, sending, unsent, closed, touches>>

PublisherInit ==
  /\ timers = [u \in URI |-> NoTimer]
  /\ left = [t \in {} |-> 0]
  /\ uriOf \in [Timer -> URI]
  /\ locking = [u \in URI |-> 0]
  /\ sending = [u \in URI |-> 0]
  /\ unsent = [u \in URI |-> FALSE]
  /\ closed = FALSE
  /\ touches = 0

PublisherNext ==
  \/ \E u \in URI : Touch(u) \/ Untrack(u) \/ Send(u)
  \/ \E t \in Timer : Expire(t)
  \/ Close
  \/ Pass

\* Time passes, timers run out and goroutines run; nobody has to touch or close.
Fairness ==
  /\ WF_publisherVars(Pass)
  /\ \A t \in Timer : WF_publisherVars(Expire(t))
  /\ \A u \in URI : WF_publisherVars(Untrack(u)) /\ WF_publisherVars(Send(u))

PublisherSpec == PublisherInit /\ [][PublisherNext]_publisherVars /\ Fairness

-----------------------------------------------------------------------------
(* Properties.                                                             *)

\* The entry of a URI is a timer whose closure has that URI.
TypeOK ==
  /\ timers \in [URI -> Timer \cup {NoTimer}]
  /\ DOMAIN left \subseteq Timer
  /\ left \in [DOMAIN left -> Nat]
  /\ uriOf \in [Timer -> URI]
  /\ \A u \in URI : timers[u] # NoTimer => uriOf[timers[u]] = u
  /\ locking \in [URI -> Nat] /\ sending \in [URI -> Nat]
  /\ unsent \in [URI -> BOOLEAN]
  /\ closed \in BOOLEAN
  /\ touches \in 0..MaxTouches

\* An entry of the map is a timer that will fire, or whose fire is
\* about to drop it: Touch may rely on it and start no other.
NoDeadEntry ==
  \A u \in URI :
    timers[u] # NoTimer => timers[u] \in DOMAIN left \/ locking[u] > 0

\* While the server is up, a touch not followed by a send has an armed timer or
\* a goroutine that will send, whatever fire and Touch did in between.
NoTouchLost ==
  \A u \in URI : unsent[u] /\ ~closed =>
    \/ locking[u] + sending[u] > 0
    \/ \E t \in DOMAIN left : uriOf[t] = u

\* A touch is followed by a send, unless the publisher is closed.
Delivered == \A u \in URI : unsent[u] ~> (~unsent[u] \/ closed)
=============================================================================
