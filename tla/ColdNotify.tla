---------------------------- MODULE ColdNotify ----------------------------
(***************************************************************************)
(* The temperature ticker of serve and the cold-node warnings it sends: the*)
(* decay, the query for the coldest nodes, the suppression of those warned *)
(* about lately, and the send, between which handlers boost, pin and unpin *)
(* nodes, clients come and go, and config.json is rewritten: it can disable*)
(* the ticker, enable it again or be unfit to be read.                     *)
(*                                                                         *)
(* A temperature is a level and a tick takes one level off; the time since *)
(* a warning is counted in ticks and stops counting when it is past every  *)
(* comparison.  A session that has set no logging level is sent nothing,   *)
(* and counts as reached all the same: ss.Log returns no error.  Left out: *)
(* the other knobs of the policy; the errors of the store, after which the *)
(* loop waits for the next tick; and the errors of ss.Log, after which a   *)
(* session is as good as gone.                                             *)
(***************************************************************************)
EXTENDS Naturals, FiniteSets, FiniteSetsExt, Functions

CONSTANTS
  Node,
  Hottest,          \* the level of temperature 1.0
  AccessBoost,
  ColdThreshold,    \* below it, a node is in the cold query
  NotifyThreshold,  \* below it, a node is warned about
  ColdNotifyTTL,    \* in ticks
  ColdNotifyLimit

ASSUME ColdAssumption ==
  /\ {Hottest, AccessBoost, ColdThreshold, NotifyThreshold} \subseteq Nat
  /\ {ColdNotifyTTL, ColdNotifyLimit} \subseteq Nat \ {0}

VARIABLES
  temperature,
  pinned,
  config,             \* what config.json says of the ticker: "on", "off" or "invalid"
  enabled,            \* Tracker.enabled
  client,             \* the sessions: "none", "silent", which set no level, or some "listening"
  recentlyNotified,   \* ticks since each node in the map was warned about
  decayed,            \* whether a tick is between its decay and its query
  cold,               \* the nodes the tick hands to the handler, with the temperatures it read
  armed,              \* history variable: at or above NotifyThreshold since its last warning
  last,               \* history variable: ticks since the last warning of each node
  unheard             \* history variable: the nodes marked last when nobody was listening

vars ==
  <<temperature, pinned, config, enabled, client, recentlyNotified, decayed, cold, armed, last, unheard>>
switch == <<config, enabled>>

Nobody == [n \in {} |-> 0]

Long == ColdNotifyTTL + 1
Older(k) == IF k = Long THEN Long ELSE k + 1

\* What the history variables make of new temperatures.
Rearmed(temps) == [n \in Node |-> armed[n] \/ temps[n] >= NotifyThreshold]

-----------------------------------------------------------------------------
\* A boost never goes past the hottest; pinned nodes are boosted too.
Boosted(t) == Min({t + AccessBoost, Hottest})

\* RecordAccess of the nodes a handler returned.
Boost(n) ==
  /\ temperature' = [temperature EXCEPT ![n] = Boosted(@)]
  /\ armed' = Rearmed(temperature')
  /\ UNCHANGED <<switch, pinned, client, recentlyNotified, decayed, cold, last, unheard>>

SetPinned(n, pin, t) ==
  /\ pinned' = [pinned EXCEPT ![n] = pin]
  /\ temperature' = [temperature EXCEPT ![n] = t]
  /\ armed' = Rearmed(temperature')
  /\ UNCHANGED <<switch, client, recentlyNotified, decayed, cold, last, unheard>>

\* MemoryPin, which may set the temperature, and MemoryUnpin, which may not.
Pin(n, t) == SetPinned(n, TRUE, t)
Unpin(n) == SetPinned(n, FALSE, temperature[n])

\* Clients connect, set their level with SetLoggingLevel, and leave.
Connect(c) ==
  /\ client' = c
  /\ UNCHANGED <<switch, temperature, pinned, recentlyNotified, decayed, cold, armed, last, unheard>>

\* config.json is rewritten, or removed, which is "on".
Reconfigure(c) ==
  /\ config' = c
  /\ UNCHANGED <<enabled, temperature, pinned, client, recentlyNotified, decayed, cold, armed, last,
                 unheard>>

-----------------------------------------------------------------------------
\* Mutant: a ticker that was disabled no longer reads the configuration.
ReenableTrap == enabled /\ config # "off"

\* reloadConfig, at the top of a tick: what cannot be read leaves what was.
Reloaded == IF config = "invalid" THEN enabled ELSE config = "on"

BetweenTicks == ~decayed /\ cold = Nobody

\* A tick of a disabled ticker; the time it takes passes all the same.
SkippedTick ==
  /\ BetweenTicks
  /\ ~Reloaded
  /\ enabled' = FALSE
  /\ recentlyNotified' = [n \in DOMAIN recentlyNotified |-> Older(recentlyNotified[n])]
  /\ last' = [n \in Node |-> Older(last[n])]
  /\ UNCHANGED <<config, temperature, pinned, client, decayed, cold, armed, unheard>>

\* Pinned nodes keep their temperature.
Cooled(n) == IF pinned[n] \/ temperature[n] = 0 THEN temperature[n] ELSE temperature[n] - 1

\* DecayTemperatures, the first statement of a tick; the time it takes passes here.
Decay ==
  /\ BetweenTicks
  /\ Reloaded
  /\ enabled' = TRUE
  /\ decayed' = TRUE
  /\ temperature' = [n \in Node |-> Cooled(n)]
  /\ last' = [n \in Node |-> Older(last[n])]
  /\ UNCHANGED <<config, pinned, client, recentlyNotified, cold, armed, unheard>>

\* GetColdNodes: the coldest first, and at most ColdNotifyLimit; ties in any order.
Coldest(C) ==
  LET all  == {n \in Node : temperature[n] < ColdThreshold /\ ~pinned[n]}
      size == IF Cardinality(all) < ColdNotifyLimit THEN Cardinality(all) ELSE ColdNotifyLimit
  IN  /\ C \in kSubset(size, all)
      /\ \A n \in C, m \in all \ C : temperature[n] <= temperature[m]

\* Mutant: entries are never evicted.
KeptForEver == [n \in DOMAIN recentlyNotified |-> Older(recentlyNotified[n])]

\* Mutant: entries are evicted when they are as old as ColdNotifyTTL.
EvictedEarly ==
  [n \in {n \in DOMAIN recentlyNotified : Older(recentlyNotified[n]) < ColdNotifyTTL}
     |-> Older(recentlyNotified[n])]

\* A tick later, without the entries older than ColdNotifyTTL.
Evicted ==
  [n \in {n \in DOMAIN recentlyNotified : Older(recentlyNotified[n]) <= ColdNotifyTTL}
     |-> Older(recentlyNotified[n])]

Recent(n) == n \in DOMAIN Evicted

\* The rest of the tick: the query and dedupCold.
Query ==
  /\ decayed
  /\ decayed' = FALSE
  /\ \E C \in SUBSET Node : /\ Coldest(C)
                            /\ cold' = [n \in {n \in C : ~Recent(n)} |-> temperature[n]]
  /\ recentlyNotified' = Evicted
  /\ unheard' = unheard \cap DOMAIN Evicted
  /\ UNCHANGED <<switch, temperature, pinned, client, armed, last>>

\* Mutant: nodes are marked although there is no session.
ReturnedAll(C) == C

\* What NotifyColdNodes returns: all, if the call of ss.Log succeeded for one session or more.
Returned(C) == IF client # "none" THEN C ELSE {}

\* The handler: the warning, then MarkNotified.
Handle ==
  LET below == {n \in DOMAIN cold : cold[n] < NotifyThreshold}
      told  == IF client = "listening" THEN below ELSE {}
  IN
  /\ cold # Nobody
  /\ cold' = Nobody
  /\ recentlyNotified' = [n \in DOMAIN recentlyNotified \cup Returned(below) |->
                            IF n \in Returned(below) THEN 0 ELSE recentlyNotified[n]]
  /\ last' = [n \in Node |-> IF n \in told THEN 0 ELSE last[n]]
  /\ armed' = [n \in Node |-> IF n \in told THEN temperature[n] >= NotifyThreshold ELSE armed[n]]
  /\ unheard' = (unheard \ told) \cup (IF client = "silent" THEN below ELSE {})
  /\ UNCHANGED <<switch, temperature, pinned, client, decayed>>

Init ==
  /\ temperature = [n \in Node |-> Hottest]
  /\ pinned = [n \in Node |-> FALSE]
  /\ config = "on"
  /\ enabled = TRUE
  /\ client = "none"
  /\ recentlyNotified = Nobody
  /\ decayed = FALSE
  /\ cold = Nobody
  /\ armed = [n \in Node |-> TRUE]
  /\ last = [n \in Node |-> Long]
  /\ unheard = {}

Next ==
  \/ \E n \in Node : Boost(n) \/ Unpin(n)
  \/ \E n \in Node, t \in 0..Hottest : Pin(n, t)
  \/ \E c \in {"none", "silent", "listening"} : Connect(c)
  \/ \E c \in {"on", "off", "invalid"} : Reconfigure(c)
  \/ SkippedTick
  \/ Decay
  \/ Query
  \/ Handle

\* The ticker ticks and the handler runs in its goroutine.
Spec == Init /\ [][Next]_vars /\ WF_vars(SkippedTick \/ Decay) /\ WF_vars(Query) /\ WF_vars(Handle)

-----------------------------------------------------------------------------
(* Properties.                                                             *)

Told(n) == last[n] # 0 /\ last'[n] = 0

\* The age of an entry is the time since a warning of its node was sent.
SentThen(n) == last[n] = recentlyNotified[n] \/ (decayed /\ last[n] = Older(recentlyNotified[n]))

\* A node is suppressed only since a warning that some client was sent, or since one that every
\* client there was too silent to be sent.
MarkedWasSent == \A n \in DOMAIN recentlyNotified \ unheard : SentThen(n)

\* Nobody is warned twice of a node within ColdNotifyTTL.
NotTwice == [][\A n \in Node : Told(n) => last[n] > ColdNotifyTTL]_vars

\* A node that has cooled down and stays cold while a client listens is warned about, unless
\* the configuration says off: no "re-enable trap", and none in one that cannot be read.
Frozen == config = "off" \/ (config = "invalid" /\ ~enabled)

Due(n) ==
  /\ armed[n]
  /\ temperature[n] < NotifyThreshold
  /\ ~pinned[n]
  /\ client = "listening"

ColdIsNotified == \A n \in Node : []<>(~Due(n) \/ Frozen)
=============================================================================
