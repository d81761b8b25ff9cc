---------------------------- MODULE RescanProofs ----------------------------
(***************************************************************************)
(* No edit is missed, for any files and bounds, if files settle for at      *)
(* least one unit of the file system's time.  A modification time the loop  *)
(* goes by is older than any an edit can still give a file; so a text that  *)
(* was read, while its file is not newer than the walk found it, is the     *)
(* file's text, and remains so until the tick commits it.                  *)
(***************************************************************************)
EXTENDS RescanLoop, TLAPS

Times(S) == UNION {[T -> Nat] : T \in SUBSET S}

DiskTimes == \A f \in DOMAIN disk : disk[f].mtime \in 0..clock

\* A recorded time is too old for an edit to come.
Past(times) == times \in Times(File) /\ \A f \in DOMAIN times : times[f] + Settle <= clock

WalkShape ==
  /\ tick = [phase |-> "walk", now |-> tick.now, there |-> tick.there, left |-> tick.left,
             seen |-> tick.seen, changed |-> tick.changed]
  /\ tick.now \in 0..clock
  /\ Past(tick.changed)

ReadShape ==
  /\ tick = [phase |-> "read", changed |-> tick.changed, read |-> tick.read]
  /\ Past(tick.changed)
  /\ DOMAIN tick.read \subseteq DOMAIN tick.changed
  /\ tick.read = [f \in DOMAIN tick.read |-> tick.read[f]]

\* What a worker has read of a file that is not newer than the walk found it.
ReadIsCurrent ==
  tick.phase = "read" =>
    \A f \in DOMAIN tick.read \cap DOMAIN disk :
       disk[f].mtime <= tick.changed[f] => tick.read[f] = OnDisk(f)

RescanInv ==
  /\ clock \in Nat
  /\ stored = [f \in File |-> stored[f]]
  /\ DiskTimes
  /\ Past(modTimes)
  /\ tick = Idle \/ WalkShape \/ ReadShape
  /\ ReadIsCurrent
  /\ NoLostEdit

LEMMA RescanInvInit == Init => RescanInv
<1> SUFFICES ASSUME Init PROVE RescanInv
  OBVIOUS
<1>1. Nothing \in [{} -> Nat] /\ DOMAIN Nothing = {}
  BY DEF Nothing
<1>2. Nothing \in Times(File)
  BY <1>1 DEF Times
<1> QED
  BY <1>1, <1>2 DEF Init, RescanInv, DiskTimes, Past, ReadIsCurrent, NoLostEdit, Idle

\* Steps that leave the files and the times as they are.
LEMMA Calm ==
  RescanInv /\ UNCHANGED <<clock, disk, stored, modTimes, tick>> => RescanInv'
BY DEF RescanInv, DiskTimes, Past, WalkShape, ReadShape, ReadIsCurrent, NoLostEdit, OnDisk

LEMMA TimePasses == RescanInv /\ Pass => RescanInv'
<1> SUFFICES ASSUME RescanInv, Pass PROVE RescanInv'
  OBVIOUS
<1>1. clock' = clock + 1 /\ clock \in Nat
  BY DEF Pass, RescanInv
<1>2. \A times : Past(times) => Past(times)'
  <2> SUFFICES ASSUME NEW times, Past(times) PROVE times \in Times(File) /\ \A f \in DOMAIN times : times[f] + Settle <= clock'
    BY DEF Past
  <2>1. \A f \in DOMAIN times : times[f] \in Nat
    BY DEF Past, Times
  <2> QED
    BY <1>1, <2>1, RescanAssumption DEF Past
<1>3. DiskTimes'
  BY <1>1 DEF Pass, RescanInv, DiskTimes
<1>4. WalkShape => WalkShape'
  BY <1>1, <1>2 DEF WalkShape, Pass, Past
<1>5. ReadShape => ReadShape'
  BY <1>1, <1>2 DEF ReadShape, Pass, Past
<1>6. Past(modTimes)'
  BY <1>2 DEF RescanInv, Pass, Past
<1> QED
  BY <1>1, <1>3, <1>4, <1>5, <1>6 DEF RescanInv, Pass, Idle, ReadIsCurrent, NoLostEdit, OnDisk

\* A file that is edited gets the time of the edit: the recorded times are past.
LEMMA Edited ==
  ASSUME Settle # 0, RescanInv, NEW f \in File, NEW text, Edit(f, text)
  PROVE  RescanInv'
<1>1. clock \in Nat /\ clock' = clock /\ Settle \in Nat \ {0}
  BY RescanAssumption DEF RescanInv, Edit
<1>2. /\ DOMAIN disk' = DOMAIN disk \cup {f}
      /\ disk'[f].mtime = clock
      /\ \A g \in DOMAIN disk \ {f} : disk'[g] = disk[g]
  BY DEF Edit
<1>3. \A times : Past(times) => \A g \in DOMAIN times : times[g] \in Nat /\ times[g] < clock
  BY <1>1 DEF Past, Times
<1>4. DiskTimes'
  BY <1>1, <1>2 DEF RescanInv, DiskTimes
<1>5. \A g \in DOMAIN disk' \ {f} : OnDisk(g)' = OnDisk(g)
  BY <1>2 DEF OnDisk
<1>6. NoLostEdit'
  <2> SUFFICES ASSUME NEW g \in DOMAIN disk' \cap DOMAIN modTimes', disk'[g].mtime <= modTimes'[g]
               PROVE  stored'[g] = OnDisk(g)'
    BY DEF NoLostEdit
  <2>1. modTimes' = modTimes /\ stored' = stored /\ Past(modTimes)
    BY DEF Edit, RescanInv
  <2>2. g # f
    BY <1>1, <1>2, <1>3, <2>1
  <2> QED
    BY <1>2, <1>5, <2>1, <2>2 DEF RescanInv, NoLostEdit
<1>7. ReadIsCurrent'
  <2> SUFFICES ASSUME tick'.phase = "read", NEW g \in DOMAIN tick'.read \cap DOMAIN disk',
                      disk'[g].mtime <= tick'.changed[g]
               PROVE  tick'.read[g] = OnDisk(g)'
    BY DEF ReadIsCurrent
  <2>1. tick' = tick /\ Past(tick.changed) /\ DOMAIN tick.read \subseteq DOMAIN tick.changed
    BY DEF Edit, RescanInv, ReadShape, WalkShape, Idle
  <2>2. g # f
    BY <1>1, <1>2, <1>3, <2>1
  <2> QED
    BY <1>2, <1>5, <2>1, <2>2 DEF RescanInv, ReadIsCurrent
<1>8. (tick = Idle \/ WalkShape \/ ReadShape)' /\ Past(modTimes)'
  BY <1>1 DEF RescanInv, Edit, WalkShape, ReadShape, Past
<1> QED
  BY <1>1, <1>4, <1>6, <1>7, <1>8 DEF RescanInv, Edit

LEMMA Removed == ASSUME RescanInv, NEW f \in File, Remove(f) PROVE RescanInv'
<1>1. /\ disk' = [g \in DOMAIN disk \ {f} |-> disk[g]]
      /\ UNCHANGED <<clock, stored, modTimes, tick>>
  BY DEF Remove, Restrict
<1>2. \A g \in DOMAIN disk' : disk'[g] = disk[g] /\ OnDisk(g)' = OnDisk(g)
  BY <1>1 DEF OnDisk
<1>3. DiskTimes' /\ NoLostEdit' /\ ReadIsCurrent'
  BY <1>1, <1>2 DEF RescanInv, DiskTimes, NoLostEdit, ReadIsCurrent
<1> QED
  BY <1>1, <1>3 DEF RescanInv, WalkShape, ReadShape, Past

LEMMA ClientCompiled == ASSUME RescanInv, NEW f \in File, ClientCompile(f) PROVE RescanInv'
<1>1. stored' = [stored EXCEPT ![f] = OnDisk(f)] /\ UNCHANGED <<clock, disk, modTimes, tick>>
  BY DEF ClientCompile, env
<1>2. \A g \in File : stored'[g] = IF g = f THEN OnDisk(f) ELSE stored[g]
  BY <1>1 DEF RescanInv
<1>3. stored' = [g \in File |-> stored'[g]]
  BY <1>1 DEF RescanInv
<1>4. NoLostEdit'
  BY <1>1, <1>2 DEF RescanInv, NoLostEdit, OnDisk, Past, Times
<1> QED
  BY <1>1, <1>3, <1>4
  DEF RescanInv, DiskTimes, Past, WalkShape, ReadShape, ReadIsCurrent, OnDisk

LEMMA Restarted == RescanInv /\ Restart => RescanInv'
<1> SUFFICES ASSUME RescanInv, Restart PROVE RescanInv'
  OBVIOUS
<1>1. Nothing \in [{} -> Nat] /\ DOMAIN Nothing = {}
  BY DEF Nothing
<1>2. Nothing \in Times(File)
  BY <1>1 DEF Times
<1> QED
  BY <1>1, <1>2 DEF RescanInv, Restart, DiskTimes, Past, ReadIsCurrent, NoLostEdit, Idle

\* A step that ends the tick, or begins one, and leaves the rest.
LEMMA TickOnly ==
  ASSUME RescanInv, UNCHANGED <<clock, disk, stored, modTimes>>,
         tick' = Idle \/ WalkShape' \/ (ReadShape /\ ReadIsCurrent)'
  PROVE  RescanInv'
BY DEF RescanInv, DiskTimes, Past, WalkShape, ReadShape, ReadIsCurrent, NoLostEdit, OnDisk, Idle

LEMMA Started == RescanInv /\ Start => RescanInv'
<1> SUFFICES ASSUME RescanInv, Start PROVE RescanInv'
  OBVIOUS
<1>1. Nothing \in [{} -> Nat] /\ DOMAIN Nothing = {}
  BY DEF Nothing
<1>2. Nothing \in Times(File)
  BY <1>1 DEF Times
<1>3. UNCHANGED <<clock, disk, stored, modTimes>>
  BY DEF Start, env
<1>4. CASE Reloaded
  <2>1. tick' = [phase |-> "walk", now |-> clock, there |-> DOMAIN disk,
                 left |-> File, seen |-> {}, changed |-> Nothing]
    BY <1>4 DEF Start
  <2>2. Past(tick.changed)'
    BY <1>1, <1>2, <1>3, <2>1 DEF Past
  <2>3. WalkShape'
    BY <1>3, <2>1, <2>2 DEF WalkShape, RescanInv
  <2> QED
    BY <1>3, <2>3, TickOnly
<1>5. CASE ~Reloaded
  BY <1>3, <1>5, TickOnly DEF Start
<1> QED
  BY <1>4, <1>5

\* Only files that have settled by the start of the tick are taken up.
LEMMA Visited == ASSUME RescanInv, NEW f \in File, Visit(f) PROVE RescanInv'
<1>1. tick.phase = "walk" /\ WalkShape
  BY DEF Visit, RescanInv, Idle, ReadShape
<1>2. UNCHANGED <<clock, disk, stored, modTimes>>
  BY DEF Visit, env
<1>3. PICK listed \in BOOLEAN :
        tick' = [tick EXCEPT
            !.left = @ \ {f},
            !.seen = IF listed THEN @ \cup {f} ELSE @,
            !.changed = IF f \in DOMAIN disk /\ Settled(f) /\ Changed(f)
                        THEN [g \in DOMAIN @ \cup {f} |-> IF g = f THEN disk[f].mtime ELSE @[g]]
                        ELSE @]
  BY DEF Visit
<1> DEFINE taken == [g \in DOMAIN tick.changed \cup {f} |->
                       IF g = f THEN disk[f].mtime ELSE tick.changed[g]]
<1>4. f \in DOMAIN disk /\ Settled(f) => Past(taken)
  <2> SUFFICES ASSUME f \in DOMAIN disk, Settled(f) PROVE Past(taken)
    OBVIOUS
  <2>1. disk[f].mtime \in Nat /\ disk[f].mtime + Settle <= clock
    BY <1>1, RescanAssumption DEF RescanInv, DiskTimes, Settled, WalkShape
  <2>2. \A g \in DOMAIN tick.changed : tick.changed[g] \in Nat /\ g \in File
    BY <1>1 DEF WalkShape, Past, Times
  <2>3. DOMAIN taken \in SUBSET File /\ taken \in [DOMAIN taken -> Nat]
    BY <2>1, <2>2
  <2>4. taken \in Times(File)
    BY <2>3 DEF Times
  <2> QED
    BY <1>1, <2>1, <2>4 DEF WalkShape, Past
<1>5. Past(tick'.changed)
  BY <1>1, <1>3, <1>4 DEF WalkShape
<1>6. WalkShape'
  BY <1>1, <1>2, <1>3, <1>5 DEF WalkShape, Past
<1> QED
  BY <1>2, <1>6, TickOnly

LEMMA ReadStep == ASSUME RescanInv, NEW f \in File, Read(f) PROVE RescanInv'
<1>1. tick.phase = "read" /\ ReadShape
  BY DEF Read, RescanInv, Idle, WalkShape
<1>2. UNCHANGED <<clock, disk, stored, modTimes>>
  BY DEF Read, env
<1>3. tick' = [tick EXCEPT !.read = [g \in DOMAIN tick.read \cup {f} |->
                                       IF g = f THEN disk[f].text ELSE tick.read[g]]]
  BY DEF Read
<1>4. f \in DOMAIN tick.changed /\ f \in DOMAIN disk
  BY DEF Read
<1>5. ReadShape'
  BY <1>1, <1>2, <1>3, <1>4 DEF ReadShape, Past
<1>6. ReadIsCurrent'
  BY <1>1, <1>2, <1>3, <1>4 DEF RescanInv, ReadIsCurrent, OnDisk, ReadShape
<1> QED
  BY <1>2, <1>5, <1>6, TickOnly

LEMMA Emptied == ASSUME NEW times, Past(times), NEW S PROVE Past(Restrict(times, DOMAIN times \ S))
<1>1. \A f \in DOMAIN times : times[f] \in Nat /\ f \in File
  BY DEF Past, Times
<1>2. Restrict(times, DOMAIN times \ S) \in [DOMAIN times \ S -> Nat]
  BY <1>1 DEF Restrict
<1>3. Restrict(times, DOMAIN times \ S) \in Times(File)
  BY <1>1, <1>2 DEF Times
<1> QED
  BY <1>3 DEF Past, Restrict

\* What a tick goes on with has read nothing yet.
LEMMA GoesOn ==
  ASSUME WalkShape, AfterPurge, clock' = clock
  PROVE  tick' = Idle \/ (ReadShape /\ ReadIsCurrent)'
<1>1. DOMAIN Nothing = {}
  BY DEF Nothing
<1>2. Nothing = [f \in DOMAIN Nothing |-> Nothing[f]]
  BY DEF Nothing
<1> QED
  BY <1>1, <1>2 DEF AfterPurge, ReadShape, ReadIsCurrent, WalkShape, Past

LEMMA Purged == RescanInv /\ (Purge \/ PurgeFailed) => RescanInv'
<1> SUFFICES ASSUME RescanInv, Purge \/ PurgeFailed PROVE RescanInv'
  OBVIOUS
<1>1. WalkShape /\ AfterPurge /\ UNCHANGED <<clock, disk>>
  BY DEF Purge, PurgeFailed, RescanInv, Idle, ReadShape, env
<1>2. tick' = Idle \/ (ReadShape /\ ReadIsCurrent)'
  BY <1>1, GoesOn
<1>3. DiskTimes'
  BY <1>1 DEF RescanInv, DiskTimes
<1>4. CASE Purge
  <2>1. /\ stored' = [f \in File |-> IF f \in Deleted THEN NoNodes ELSE stored[f]]
        /\ modTimes' = Restrict(modTimes, DOMAIN modTimes \ Deleted)
    BY <1>4 DEF Purge
  <2>2. Past(modTimes)'
    BY <1>1, <2>1, Emptied DEF RescanInv, Past
  <2>3. NoLostEdit'
    BY <1>1, <2>1 DEF RescanInv, NoLostEdit, OnDisk, Restrict, Past, Times
  <2> QED
    BY <1>1, <1>2, <1>3, <2>1, <2>2, <2>3 DEF RescanInv, ReadIsCurrent, Idle
<1>5. CASE PurgeFailed
  BY <1>1, <1>2, <1>5, TickOnly DEF PurgeFailed, Unpurged
<1> QED
  BY <1>4, <1>5

\* The times of the walk go with the texts that were read after it.
LEMMA Committed == RescanInv /\ Commit => RescanInv'
<1> SUFFICES ASSUME RescanInv, Commit PROVE RescanInv'
  OBVIOUS
<1>1. tick.phase = "read" /\ ReadShape /\ DOMAIN tick.read = DOMAIN tick.changed
  BY DEF Commit, RescanInv, Idle, WalkShape
<1>2. UNCHANGED <<clock, disk>> /\ tick' = Idle
  BY DEF Commit, env
<1>3. /\ stored' = [f \in File |-> IF f \in DOMAIN tick.read THEN tick.read[f] ELSE stored[f]]
      /\ modTimes' = [f \in DOMAIN modTimes \cup DOMAIN tick.changed |->
                        IF f \in DOMAIN tick.changed THEN tick.changed[f] ELSE modTimes[f]]
  BY DEF Commit, TimesOfWalk
<1>4. /\ \A f \in DOMAIN modTimes : f \in File /\ modTimes[f] \in Nat
      /\ \A f \in DOMAIN tick.changed : f \in File /\ tick.changed[f] \in Nat
  BY <1>1 DEF RescanInv, ReadShape, Past, Times
<1>5. Past(modTimes)'
  <2>1. DOMAIN modTimes' \in SUBSET File /\ modTimes' \in [DOMAIN modTimes' -> Nat]
    BY <1>3, <1>4
  <2>2. modTimes' \in Times(File)
    BY <2>1 DEF Times
  <2> QED
    BY <1>1, <1>2, <1>3, <2>2 DEF RescanInv, ReadShape, Past
<1>6. NoLostEdit'
  BY <1>1, <1>2, <1>3, <1>4 DEF RescanInv, ReadIsCurrent, NoLostEdit, OnDisk
<1> QED
  BY <1>2, <1>3, <1>5, <1>6 DEF RescanInv, DiskTimes, ReadIsCurrent, Idle

LEMMA RescanInvPreserved == ASSUME Settle # 0 PROVE RescanInv /\ [Next]_vars => RescanInv'
<1> SUFFICES ASSUME RescanInv, [Next]_vars PROVE RescanInv'
  OBVIOUS
<1>1. CASE UNCHANGED vars
  BY <1>1, Calm DEF vars
<1>2. CASE Pass \/ Restart
  BY <1>2, TimePasses, Restarted
<1>3. CASE \E f \in File : \/ \E text \in {Malformed, edits + 1} : Edit(f, text)
                           \/ Remove(f)
                           \/ ClientCompile(f)
  BY <1>3, Edited, Removed, ClientCompiled
<1>4. CASE \E c \in {"on", "off", "invalid"} : Reconfigure(c)
  BY <1>4, Calm DEF Reconfigure
<1>5. CASE Start \/ \E f \in File : Visit(f) \/ Read(f)
  BY <1>5, Started, Visited, ReadStep
<1>6. CASE WalkAborted \/ CompileFailed
  BY <1>6, TickOnly DEF WalkAborted, CompileFailed, env
<1>7. CASE Purge \/ PurgeFailed \/ Commit
  BY <1>7, Purged, Committed
<1> QED
  BY <1>1, <1>2, <1>3, <1>4, <1>5, <1>6, <1>7 DEF Next, Scan

\* A file the loop counts as compiled was compiled from the text it has (scan).  With a settle
\* time of 0, which the configuration allows, a second edit within one unit of time is missed.
THEOREM EditsNotLost == ASSUME Settle # 0 PROVE Spec => []NoLostEdit
<1>1. RescanInv => NoLostEdit
  BY DEF RescanInv
<1> QED
  BY <1>1, RescanInvInit, RescanInvPreserved, PTL DEF Spec
=============================================================================
