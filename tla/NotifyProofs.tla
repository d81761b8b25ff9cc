---------------------------- MODULE NotifyProofs ----------------------------
(***************************************************************************)
(* Theorems about what clients are notified of: the warnings of ColdNotify, *)
(* for any nodes, thresholds and limits, through boosts, pins, clients and  *)
(* configurations that change between any two steps of a tick; and the      *)
(* updates of Publisher, for any URIs, windows and timers.                 *)
(***************************************************************************)
EXTENDS ColdNotify, Publisher, TLAPS

-----------------------------------------------------------------------------
(* Warnings.  Nobody is warned twice of a node within ColdNotifyTTL, and a  *)
(* node is suppressed only since a warning that some client was sent, or    *)
(* since one that nobody was listening for.                                *)

\* The time since each entry's warning is the age of the entry, one more between the decay
\* and the query; a node without an entry was warned about too long ago to matter, and so were
\* one that is handed to the handler and one that was marked when nobody was listening.
AgesAgree ==
  \A n \in DOMAIN recentlyNotified \ unheard :
    last[n] = IF decayed THEN Older(recentlyNotified[n]) ELSE recentlyNotified[n]

LongSince(S) == \A n \in S : last[n] = Long

ColdInv ==
  /\ last \in [Node -> 0..Long]
  /\ DOMAIN recentlyNotified \subseteq Node
  /\ recentlyNotified \in [DOMAIN recentlyNotified -> 0..Long]
  /\ decayed \in BOOLEAN
  /\ DOMAIN cold \subseteq Node
  /\ cold # Nobody => ~decayed
  /\ AgesAgree
  /\ LongSince(Node \ DOMAIN recentlyNotified)
  /\ LongSince(DOMAIN cold)
  /\ unheard \subseteq DOMAIN recentlyNotified
  /\ LongSince(unheard)
  /\ client \in {"none", "silent", "listening"}

\* Ages grow and stop at Long, which is past ColdNotifyTTL and not zero.
LEMMA Aging ==
  /\ Long \in Nat /\ Long > ColdNotifyTTL /\ Long # 0
  /\ Older(Long) = Long
  /\ \A k \in 0..Long : Older(k) \in 0..Long /\ Older(k) # 0
BY ColdAssumption DEF Long, Older

LEMMA ColdInvInit == Init => ColdInv
<1> SUFFICES ASSUME Init PROVE ColdInv
  OBVIOUS
<1>1. DOMAIN recentlyNotified = {} /\ DOMAIN cold = {} /\ recentlyNotified \in [{} -> 0..Long]
  BY DEF Init, Nobody
<1>2. last \in [Node -> 0..Long] /\ LongSince(Node)
  BY Aging DEF Init, LongSince
<1> QED
  BY <1>1, <1>2 DEF Init, ColdInv, AgesAgree, LongSince

\* What the handlers and clients do leaves ages alone.
LEMMA ColdInvUnaged ==
  /\ ColdInv
  /\ UNCHANGED <<recentlyNotified, decayed, cold, last, unheard>>
  /\ client' \in {"none", "silent", "listening"}
  => ColdInv'
BY DEF ColdInv, AgesAgree, LongSince

LEMMA SkippedTickAges == ColdInv /\ SkippedTick => ColdInv'
<1> SUFFICES ASSUME ColdInv, SkippedTick PROVE ColdInv'
  OBVIOUS
<1>1. last' \in [Node -> 0..Long] /\ DOMAIN recentlyNotified' = DOMAIN recentlyNotified
  BY Aging DEF ColdInv, SkippedTick
<1>2. recentlyNotified' \in [DOMAIN recentlyNotified' -> 0..Long]
  BY Aging DEF ColdInv, SkippedTick
<1>3. AgesAgree'
  BY <1>1 DEF ColdInv, SkippedTick, AgesAgree, BetweenTicks
<1>4. LongSince(Node \ DOMAIN recentlyNotified)'
  BY <1>1, Aging DEF ColdInv, SkippedTick, LongSince
<1>5. unheard' = unheard /\ (unheard \subseteq DOMAIN recentlyNotified)' /\ LongSince(unheard)'
  BY <1>1, Aging DEF ColdInv, SkippedTick, LongSince
<1> QED
  BY <1>1, <1>2, <1>3, <1>4, <1>5 DEF ColdInv, SkippedTick, BetweenTicks, LongSince, Nobody

LEMMA DecayAges == ColdInv /\ Decay => ColdInv'
<1> SUFFICES ASSUME ColdInv, Decay PROVE ColdInv'
  OBVIOUS
<1>1. last' \in [Node -> 0..Long]
  BY Aging DEF ColdInv, Decay
<1>2. AgesAgree'
  BY DEF ColdInv, Decay, AgesAgree, BetweenTicks
<1>3. LongSince(Node \ DOMAIN recentlyNotified)'
  BY Aging DEF ColdInv, Decay, LongSince
<1>4. unheard' = unheard /\ (unheard \subseteq DOMAIN recentlyNotified)' /\ LongSince(unheard)'
  BY Aging DEF ColdInv, Decay, LongSince
<1> QED
  BY <1>1, <1>2, <1>3, <1>4 DEF ColdInv, Decay, BetweenTicks, LongSince, Nobody

\* An entry goes when its age is past ColdNotifyTTL, which is Long; what has no entry then can
\* be handed on.
LEMMA QueryEvicts == ColdInv /\ Query => ColdInv'
<1> SUFFICES ASSUME ColdInv, Query PROVE ColdInv'
  OBVIOUS
<1>1. PICK C \in SUBSET Node : cold' = [n \in {n \in C : ~Recent(n)} |-> temperature[n]]
  BY DEF Query
<1>2. DOMAIN Evicted \subseteq DOMAIN recentlyNotified
  BY DEF Evicted
<1>3. \A n \in DOMAIN Evicted : Evicted[n] = Older(recentlyNotified[n]) /\ Evicted[n] \in 0..Long
  BY Aging, <1>2 DEF ColdInv, Evicted
<1>4. \A n \in DOMAIN recentlyNotified \ DOMAIN Evicted : last[n] = Long
  <2> SUFFICES ASSUME NEW n \in DOMAIN recentlyNotified, n \notin DOMAIN Evicted, n \notin unheard
               PROVE  last[n] = Long
    BY DEF ColdInv, LongSince
  <2>1. ~(Older(recentlyNotified[n]) <= ColdNotifyTTL)
    BY DEF Evicted
  <2>2. last[n] = Older(recentlyNotified[n]) /\ last[n] \in 0..Long
    BY DEF ColdInv, Query, AgesAgree
  <2> QED
    BY <2>1, <2>2, ColdAssumption DEF Long
<1>5. AgesAgree'
  BY <1>2, <1>3 DEF ColdInv, Query, AgesAgree
<1>9. (unheard \subseteq DOMAIN recentlyNotified)' /\ LongSince(unheard)'
  BY DEF ColdInv, Query, LongSince
<1>6. LongSince(Node \ DOMAIN recentlyNotified)'
  BY <1>4 DEF ColdInv, Query, LongSince
<1>7. LongSince(DOMAIN cold)'
  BY <1>1, <1>4 DEF ColdInv, Query, LongSince, Recent
<1>8. recentlyNotified' \in [DOMAIN recentlyNotified' -> 0..Long]
  BY <1>3 DEF Query, Evicted
<1> QED
  BY <1>1, <1>2, <1>5, <1>6, <1>7, <1>8, <1>9 DEF ColdInv, Query

\* What is returned is told or missed; what is told is as old as its new entry, and what is
\* missed was handed on, so it was warned about long ago.
LEMMA HandleMarks == ColdInv /\ Handle => ColdInv'
<1> SUFFICES ASSUME ColdInv, Handle PROVE ColdInv'
  OBVIOUS
<1> DEFINE below == {n \in DOMAIN cold : cold[n] < NotifyThreshold}
           told == IF client = "listening" THEN below ELSE {}
           missed == IF client = "silent" THEN below ELSE {}
           marked == Returned(below)
<1>1. /\ marked = told \cup missed
      /\ marked \subseteq DOMAIN cold /\ marked \subseteq Node
      /\ told \cap missed = {}
  BY DEF Returned, ColdInv
<1>2. last' = [n \in Node |-> IF n \in told THEN 0 ELSE last[n]]
  BY DEF Handle
<1>3. recentlyNotified' = [n \in DOMAIN recentlyNotified \cup marked |->
                             IF n \in marked THEN 0 ELSE recentlyNotified[n]]
  BY DEF Handle
<1>4. unheard' = (unheard \ told) \cup missed
  BY DEF Handle
<1>5. ~decayed /\ decayed' = decayed /\ cold' = Nobody /\ client' = client
  BY DEF ColdInv, Handle
<1> HIDE DEF told, missed, marked
<1>6. DOMAIN recentlyNotified' = DOMAIN recentlyNotified \cup marked
  BY <1>3
<1>7. last' \in [Node -> 0..Long] /\ 0 \in 0..Long
  BY <1>2, Aging DEF ColdInv
<1>8. recentlyNotified' \in [DOMAIN recentlyNotified' -> 0..Long]
  BY <1>3, <1>6, <1>7 DEF ColdInv
<1>9. AgesAgree'
  <2> SUFFICES ASSUME NEW n \in DOMAIN recentlyNotified', n \notin unheard'
               PROVE  last'[n] = recentlyNotified'[n]
    BY <1>5 DEF AgesAgree
  <2>1. n \in Node /\ n \notin missed
    BY <1>1, <1>4, <1>6 DEF ColdInv
  <2>2. CASE n \in told
    BY <1>1, <1>2, <1>3, <1>6, <2>1, <2>2
  <2>3. CASE n \notin told
    <3>1. n \in DOMAIN recentlyNotified \ unheard /\ n \notin marked
      BY <1>1, <1>4, <1>6, <2>1, <2>3
    <3>2. last[n] = recentlyNotified[n]
      BY <1>5, <3>1 DEF ColdInv, AgesAgree
    <3> QED
      BY <1>2, <1>3, <1>6, <2>1, <2>3, <3>1, <3>2
  <2> QED
    BY <2>2, <2>3
<1>10. LongSince(Node \ DOMAIN recentlyNotified)'
  BY <1>1, <1>2, <1>6 DEF ColdInv, LongSince
<1>11. (unheard \subseteq DOMAIN recentlyNotified)' /\ LongSince(unheard)'
  BY <1>1, <1>2, <1>4, <1>6 DEF ColdInv, LongSince
<1> QED
  BY <1>1, <1>5, <1>6, <1>7, <1>8, <1>9, <1>10, <1>11 DEF ColdInv, LongSince, Nobody

LEMMA ColdInvPreserved == ColdInv /\ [Next]_vars => ColdInv'
<1> SUFFICES ASSUME ColdInv, [Next]_vars PROVE ColdInv'
  OBVIOUS
<1>1. CASE /\ UNCHANGED <<recentlyNotified, decayed, cold, last, unheard>>
           /\ client' = client \/ \E c \in {"none", "silent", "listening"} : Connect(c)
  <2>1. client' \in {"none", "silent", "listening"}
    BY <1>1 DEF ColdInv, Connect
  <2> QED
    BY <1>1, <2>1, ColdInvUnaged
<1>2. CASE SkippedTick \/ Decay \/ Query \/ Handle
  BY <1>2, SkippedTickAges, DecayAges, QueryEvicts, HandleMarks
<1> QED
  BY <1>1, <1>2 DEF Next, Boost, Pin, Unpin, SetPinned, Connect, Reconfigure, vars

\* A node is suppressed only since a warning that some client was sent, or since one for which
\* every client there was silent (MarkNotified, dedupCold).
THEOREM Marked == Spec => []MarkedWasSent
<1>1. ColdInv => MarkedWasSent
  BY DEF ColdInv, AgesAgree, MarkedWasSent, SentThen
<1> QED
  BY <1>1, ColdInvInit, ColdInvPreserved, PTL DEF Spec

\* Nobody is warned twice of a node within ColdNotifyTTL: only the handler warns, and it has
\* none but nodes last warned about longer ago.
THEOREM NobodyTwice == Spec => NotTwice
<1>1. ColdInv /\ [Next]_vars => [\A n \in Node : Told(n) => last[n] > ColdNotifyTTL]_vars
  <2> SUFFICES ASSUME ColdInv, Next, NEW n \in Node, Told(n) PROVE last[n] > ColdNotifyTTL
    BY DEF vars
  <2>1. CASE UNCHANGED last
    BY <2>1 DEF Told
  <2>2. CASE SkippedTick \/ Decay
    BY <2>2, Aging DEF SkippedTick, Decay, ColdInv, Told
  <2>3. CASE Handle
    <3>1. n \in DOMAIN cold
      BY <2>3 DEF Handle, Told
    <3> QED
      BY <3>1, Aging DEF ColdInv, LongSince
  <2> QED
    BY <2>1, <2>2, <2>3 DEF Next, Boost, Pin, Unpin, SetPinned, Connect, Reconfigure, Query
<1> QED
  BY <1>1, ColdInvInit, ColdInvPreserved, PTL DEF Spec, NotTwice

-----------------------------------------------------------------------------
(* Updates.  What Touch relies on is inductive together: NoTouchLost needs *)
(* that the timer Touch resets is the URI's own (TypeOK), and NoDeadEntry   *)
(* needs the same when a timer of the map runs out.                        *)

PublisherInv == TypeOK /\ NoDeadEntry /\ NoTouchLost

LEMMA PublisherInvInit == PublisherInit => PublisherInv
<1> SUFFICES ASSUME PublisherInit PROVE PublisherInv
  OBVIOUS
<1>1. TypeOK
  <2>1. left \in [{} -> Nat] /\ DOMAIN left = {}
    BY DEF PublisherInit
  <2>2. left \in [DOMAIN left -> Nat] /\ DOMAIN left \subseteq Timer
    BY <2>1
  <2>3. touches \in 0..MaxTouches
    BY PublisherAssumption DEF PublisherInit, PublisherAssumption
  <2>4. unsent \in [URI -> BOOLEAN] /\ closed \in BOOLEAN
    BY DEF PublisherInit
  <2> QED
    BY <2>2, <2>3, <2>4 DEF PublisherInit, TypeOK
<1>2. NoDeadEntry /\ NoTouchLost
  BY DEF PublisherInit, NoDeadEntry, NoTouchLost
<1> QED
  BY <1>1, <1>2 DEF PublisherInv

\* The map after Touch has an entry for the URI, armed and with the URI in its closure.
LEMMA TouchPreserves == ASSUME PublisherInv, NEW u \in URI, Touch(u) PROVE PublisherInv'
<1> USE PublisherAssumption DEF PublisherAssumption, PublisherInv
<1>1. CASE Rearm(u)
  <2>1. timers[u] \in Timer /\ uriOf[timers[u]] = u
    BY <1>1 DEF Rearm, TypeOK
  <2>2. DOMAIN left' = DOMAIN left \cup {timers[u]}
    BY <1>1 DEF Rearm, Reset
  <2>3. TypeOK'
    <3>1. perURI[u] \in Nat
      BY DEF URI
    <3>2. left' \in [DOMAIN left' -> Nat] /\ DOMAIN left' \subseteq Timer
      BY <1>1, <2>1, <2>2, <3>1 DEF Rearm, Reset, TypeOK
    <3> QED
      BY <1>1, <3>2 DEF Touch, Rearm, TypeOK
  <2>4. NoDeadEntry'
    BY <1>1, <2>2 DEF Touch, Rearm, NoDeadEntry
  <2>5. NoTouchLost'
    BY <1>1, <2>1, <2>2 DEF Touch, Rearm, NoTouchLost, TypeOK
  <2> QED
    BY <2>3, <2>4, <2>5
<1>2. CASE AfterFunc(u)
  <2>1. PICK t \in Timer :
          /\ t \notin DOMAIN left
          /\ \A v \in URI : timers[v] # t
          /\ timers' = [timers EXCEPT ![u] = t]
          /\ uriOf' = [uriOf EXCEPT ![t] = u]
          /\ left' = [x \in DOMAIN left \cup {t} |-> IF x = t THEN perURI[u] ELSE left[x]]
    BY <1>2 DEF AfterFunc
  <2>2. DOMAIN left' = DOMAIN left \cup {t}
    BY <2>1
  <2>3. TypeOK'
    BY <2>1 DEF Touch, TypeOK
  <2>4. NoDeadEntry'
    BY <2>1, <2>2 DEF Touch, NoDeadEntry, TypeOK
  <2>5. NoTouchLost'
    BY <2>1, <2>2 DEF Touch, NoTouchLost, TypeOK
  <2> QED
    BY <2>3, <2>4, <2>5
<1> QED
  BY <1>1, <1>2 DEF Touch

\* The timer that ran out leaves a goroutine of its URI behind.
LEMMA ExpirePreserves == ASSUME PublisherInv, NEW t \in Timer, Expire(t) PROVE PublisherInv'
<1> USE PublisherAssumption DEF PublisherAssumption, PublisherInv
<1>1. DOMAIN left' = DOMAIN left \ {t} /\ uriOf[t] \in URI
  BY DEF Expire, TypeOK
<1>2. TypeOK'
  BY <1>1 DEF Expire, TypeOK
<1>3. NoDeadEntry'
  BY <1>1 DEF Expire, NoDeadEntry, TypeOK
<1>4. NoTouchLost'
  BY <1>1 DEF Expire, NoTouchLost, TypeOK
<1> QED
  BY <1>2, <1>3, <1>4

\* fire: the goroutine goes from the mutex to the send, and the send serves every touch before it.
LEMMA FirePreserves ==
  ASSUME PublisherInv, NEW u \in URI, Untrack(u) \/ Send(u) PROVE PublisherInv'
<1> USE PublisherAssumption DEF PublisherAssumption, PublisherInv
<1>1. CASE Untrack(u)
  <2>1. TypeOK'
    BY <1>1 DEF Untrack, TypeOK
  <2>2. NoDeadEntry'
    BY <1>1 DEF Untrack, NoDeadEntry, TypeOK
  <2>3. NoTouchLost'
    BY <1>1 DEF Untrack, NoTouchLost, TypeOK
  <2> QED
    BY <2>1, <2>2, <2>3
<1>2. CASE Send(u)
  <2>1. TypeOK'
    BY <1>2 DEF Send, TypeOK
  <2>2. NoDeadEntry'
    BY <1>2 DEF Send, NoDeadEntry
  <2>3. NoTouchLost'
    BY <1>2 DEF Send, NoTouchLost, TypeOK
  <2> QED
    BY <2>1, <2>2, <2>3
<1> QED
  BY <1>1, <1>2

LEMMA ClosePreserves == ASSUME PublisherInv, Close PROVE PublisherInv'
<1> USE PublisherAssumption DEF PublisherAssumption, PublisherInv
<1>1. TypeOK'
  BY DEF Close, TypeOK
<1>2. NoDeadEntry' /\ NoTouchLost'
  BY DEF Close, NoDeadEntry, NoTouchLost
<1> QED
  BY <1>1, <1>2

LEMMA PassPreserves == ASSUME PublisherInv, Pass PROVE PublisherInv'
<1> USE PublisherAssumption DEF PublisherAssumption, PublisherInv
<1>1. DOMAIN left' = DOMAIN left
  BY DEF Pass
<1>2. TypeOK'
  BY DEF Pass, TypeOK
<1>3. NoDeadEntry' /\ NoTouchLost'
  BY <1>1 DEF Pass, NoDeadEntry, NoTouchLost
<1> QED
  BY <1>2, <1>3

LEMMA StutterPreserves == ASSUME PublisherInv, UNCHANGED publisherVars PROVE PublisherInv'
BY DEF PublisherInv, publisherVars, TypeOK, NoDeadEntry, NoTouchLost

LEMMA PublisherInvPreserved == PublisherInv /\ [PublisherNext]_publisherVars => PublisherInv'
BY TouchPreserves, ExpirePreserves, FirePreserves, ClosePreserves, PassPreserves,
   StutterPreserves DEF PublisherNext

THEOREM PublisherInvariant == PublisherSpec => []PublisherInv
BY PublisherInvInit, PublisherInvPreserved, PTL DEF PublisherSpec

\* Every entry has the timer of its own URI, and counts of goroutines stay counts.
THEOREM TypeCorrect == PublisherSpec => []TypeOK
<1>1. PublisherInv => TypeOK
  BY DEF PublisherInv
<1> QED
  BY <1>1, PublisherInvariant, PTL

\* Touch may always rely on the entry it finds.
THEOREM EntriesAlive == PublisherSpec => []NoDeadEntry
<1>1. PublisherInv => NoDeadEntry
  BY DEF PublisherInv
<1> QED
  BY <1>1, PublisherInvariant, PTL

\* A touch not yet sent has a timer or a goroutine that will send it, until Close.
THEOREM TouchesKept == PublisherSpec => []NoTouchLost
<1>1. PublisherInv => NoTouchLost
  BY DEF PublisherInv
<1> QED
  BY <1>1, PublisherInvariant, PTL
=============================================================================
