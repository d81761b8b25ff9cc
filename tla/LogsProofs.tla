----------------------------- MODULE LogsProofs -----------------------------
(***************************************************************************)
(* Theorems about Logs, for any number of goroutines, records, failures and *)
(* crashes, any cap on a file and any capacity of the ring.                 *)
(***************************************************************************)
EXTENDS Logs, SequenceTheorems, WellFoundedInduction, TLAPS

Line == [n : Nat, size : Size]

-----------------------------------------------------------------------------
(* Sequences and sums.                                                     *)

\* A set of natural numbers with 0, and with n + 1 when it has n, is all of Nat.
LEMMA SetInduction ==
  ASSUME NEW S \in SUBSET Nat, 0 \in S, \A n \in S : n + 1 \in S
  PROVE  S = Nat
<1> SUFFICES ASSUME Nat \ S # {} PROVE FALSE
  OBVIOUS
<1>1. PICK m \in Nat \ S : \A k \in Nat \ S : m <= k
  <2>1. PICK m \in Nat \ S : \A k \in Nat \ S : ~(<<k, m>> \in OpToRel(<, Nat))
    BY NatLessThanWellFounded, WFMin
  <2>2. \A k \in Nat \ S : ~(k < m)
    BY <2>1 DEF OpToRel
  <2> QED
    BY <2>2
<1>2. m # 0 /\ m - 1 \in Nat /\ m - 1 \in S
  BY <1>1
<1> QED
  BY <1>1, <1>2

\* The sums Bytes takes: total[i] is the length of the first i lines.
IsTotal(total, lines) ==
  total = [i \in 0..Len(lines) |-> IF i = 0 THEN 0 ELSE total[i - 1] + lines[i].size]

LEMMA TotalExists ==
  ASSUME NEW lines \in Seq(Line)
  PROVE  \E total \in [0..Len(lines) -> Nat] : IsTotal(total, lines)
<1> DEFINE IsPart(f, n) == \A i \in 0..n : f[i] = IF i = 0 THEN 0 ELSE f[i - 1] + lines[i].size
           S == {n \in Nat : n <= Len(lines) => \E f \in [0..n -> Nat] : IsPart(f, n)}
<1>1. 0 \in S
  <2>1. [i \in 0..0 |-> 0] \in [0..0 -> Nat] /\ IsPart([i \in 0..0 |-> 0], 0)
    OBVIOUS
  <2> QED
    BY <2>1
<1>2. ASSUME NEW n \in S PROVE n + 1 \in S
  <2> SUFFICES ASSUME n + 1 <= Len(lines)
               PROVE  \E f \in [0..(n + 1) -> Nat] : IsPart(f, n + 1)
    <3>1. n + 1 \in Nat
      OBVIOUS
    <3> QED
      BY <3>1, Zenon
  <2>1. PICK f \in [0..n -> Nat] : IsPart(f, n)
    OBVIOUS
  <2>2. lines[n + 1].size \in Nat
    <3>1. lines[n + 1] \in Line
      OBVIOUS
    <3> QED
      BY <3>1, LogAssumption DEF Line
  <2> DEFINE g == [i \in 0..(n + 1) |-> IF i = n + 1 THEN f[n] + lines[n + 1].size ELSE f[i]]
  <2>3. g \in [0..(n + 1) -> Nat]
    BY <2>2
  <2>4. ASSUME NEW i \in 0..(n + 1) PROVE g[i] = IF i = 0 THEN 0 ELSE g[i - 1] + lines[i].size
    <3>1. CASE i = n + 1
      <4>1. i - 1 = n /\ i - 1 # n + 1 /\ i - 1 \in 0..(n + 1) /\ i # 0
        BY <3>1
      <4> QED
        BY <3>1, <4>1
    <3>2. CASE i # n + 1
      <4>1. i \in 0..n /\ (i # 0 => i - 1 # n + 1 /\ i - 1 \in 0..(n + 1))
        BY <3>2
      <4>2. g[i] = f[i] /\ (i # 0 => g[i - 1] = f[i - 1])
        BY <3>2, <4>1
      <4>3. f[i] = IF i = 0 THEN 0 ELSE f[i - 1] + lines[i].size
        BY <2>1, <4>1
      <4> QED
        BY <4>2, <4>3
    <3> QED
      BY <3>1, <3>2
  <2> HIDE DEF g
  <2> QED
    BY <2>3, <2>4
<1> HIDE DEF S
<1>3. S = Nat
  <2>1. S \in SUBSET Nat
    BY DEF S
  <2> QED
    BY <1>1, <1>2, <2>1, SetInduction
<1>4. Len(lines) \in Nat /\ Len(lines) <= Len(lines)
  OBVIOUS
<1>5. PICK f \in [0..Len(lines) -> Nat] : IsPart(f, Len(lines))
  BY <1>3, <1>4 DEF S
<1>6. IsTotal(f, lines)
  BY <1>5 DEF IsTotal
<1> QED
  BY <1>6

AddsUp(f, n, lines) ==
  \A i \in 0..n : f[i] = IF i = 0 THEN 0 ELSE f[i - 1] + lines[i].size

LEMMA TotalUnique ==
  ASSUME NEW lines, NEW n \in Nat, NEW f, NEW g, AddsUp(f, n, lines), AddsUp(g, n, lines)
  PROVE  f[n] = g[n]
<1> DEFINE S == {i \in Nat : i <= n => f[i] = g[i]}
<1>1. 0 \in S
  BY DEF AddsUp
<1>2. ASSUME NEW i \in S PROVE i + 1 \in S
  <2> SUFFICES ASSUME i + 1 <= n PROVE f[i + 1] = g[i + 1]
    OBVIOUS
  <2>1. i \in Nat /\ f[i] = g[i] /\ i + 1 \in 0..n /\ i + 1 # 0 /\ (i + 1) - 1 = i
    OBVIOUS
  <2> QED
    BY <2>1 DEF AddsUp
<1> HIDE DEF S
<1>3. S = Nat
  <2>1. S \in SUBSET Nat
    BY DEF S
  <2> QED
    BY <1>1, <1>2, <2>1, SetInduction
<1> QED
  BY <1>3 DEF S

LEMMA BytesIs ==
  ASSUME NEW lines \in Seq(Line)
  PROVE  \E total \in [0..Len(lines) -> Nat] : IsTotal(total, lines) /\ Bytes(lines) = total[Len(lines)]
<1> DEFINE total == CHOOSE total : IsTotal(total, lines)
<1>1. IsTotal(total, lines)
  BY TotalExists
<1>2. Bytes(lines) = total[Len(lines)]
  BY DEF Bytes, IsTotal
<1>3. PICK f \in [0..Len(lines) -> Nat] : IsTotal(f, lines)
  BY TotalExists
<1> HIDE DEF total
<1>4. Len(lines) \in Nat
  OBVIOUS
<1>5. AddsUp(total, Len(lines), lines) /\ AddsUp(f, Len(lines), lines)
  BY <1>1, <1>3 DEF IsTotal, AddsUp
<1>6. total[Len(lines)] = f[Len(lines)]
  BY <1>4, <1>5, TotalUnique
<1> QED
  BY <1>2, <1>3, <1>6

LEMMA BytesOfNone == Bytes(<<>>) = 0
<1>1. <<>> \in Seq(Line) /\ Len(<<>>) = 0
  OBVIOUS
<1>2. PICK total \in [0..0 -> Nat] : IsTotal(total, <<>>) /\ Bytes(<<>>) = total[0]
  BY <1>1, BytesIs
<1> QED
  BY <1>1, <1>2 DEF IsTotal

LEMMA BytesOfMore ==
  ASSUME NEW lines \in Seq(Line), NEW l \in Line
  PROVE  Bytes(lines) \in Nat /\ Bytes(Append(lines, l)) = Bytes(lines) + l.size
<1>1. PICK f \in [0..Len(lines) -> Nat] : IsTotal(f, lines) /\ Bytes(lines) = f[Len(lines)]
  BY BytesIs
<1>2. PICK more : more = Append(lines, l)
  OBVIOUS
<1>3. more \in Seq(Line) /\ Len(more) = Len(lines) + 1 /\ more[Len(more)] = l
      /\ \A i \in 1..Len(lines) : more[i] = lines[i]
  BY <1>2
<1>4. PICK g \in [0..Len(more) -> Nat] : IsTotal(g, more) /\ Bytes(more) = g[Len(more)]
  BY <1>3, BytesIs
<1>5. /\ \A i \in 0..Len(lines) : f[i] = IF i = 0 THEN 0 ELSE f[i - 1] + lines[i].size
      /\ \A i \in 0..Len(more) : g[i] = IF i = 0 THEN 0 ELSE g[i - 1] + more[i].size
  BY <1>1, <1>4 DEF IsTotal
<1>6. \A i \in 0..Len(lines) : g[i] = IF i = 0 THEN 0 ELSE g[i - 1] + lines[i].size
  BY <1>3, <1>5
<1>7. f[Len(lines)] = g[Len(lines)]
  <2>1. Len(lines) \in Nat /\ AddsUp(f, Len(lines), lines) /\ AddsUp(g, Len(lines), lines)
    BY <1>5, <1>6 DEF AddsUp
  <2> QED
    BY <2>1, TotalUnique
<1>8. g[Len(more)] = g[Len(lines)] + l.size
  <2>1. PICK n \in Nat : n = Len(lines) /\ Len(more) = n + 1 /\ n + 1 # 0 /\ n + 1 \in 0..Len(more)
    BY <1>3
  <2>2. g[n + 1] = g[(n + 1) - 1] + more[n + 1].size
    BY <1>5, <2>1
  <2> QED
    BY <1>3, <2>1, <2>2
<1> QED
  BY <1>1, <1>2, <1>4, <1>7, <1>8

\* A suffix, element by element.
LEMMA SuffixIs ==
  ASSUME NEW S, NEW s \in Seq(S), NEW t \in Seq(S), NEW d \in Nat, Len(t) = d + Len(s),
         \A i \in 1..Len(s) : s[i] = t[d + i]
  PROVE  IsSuffix(s, t)
<1> DEFINE r == Reverse(s)  q == Reverse(t)
<1>1. Len(s) \in Nat /\ Len(t) \in Nat
  OBVIOUS
<1>2. /\ DOMAIN r = 1..Len(s) /\ \A i \in 1..Len(s) : r[i] = s[(Len(s) - i) + 1]
      /\ DOMAIN q = 1..Len(t) /\ \A i \in 1..Len(t) : q[i] = t[(Len(t) - i) + 1]
  BY <1>1 DEF Reverse
<1>3. r \in Seq(S) /\ q \in Seq(S) /\ Len(r) = Len(s) /\ Len(q) = Len(t)
  <2>1. \A i \in 1..Len(s) : s[(Len(s) - i) + 1] \in S
    OBVIOUS
  <2>2. \A i \in 1..Len(t) : t[(Len(t) - i) + 1] \in S
    OBVIOUS
  <2>3. r \in Seq(S) /\ Len(r) = Len(s)
    BY <1>1, <2>1, IsASeq DEF Reverse
  <2>4. q \in Seq(S) /\ Len(q) = Len(t)
    BY <1>1, <2>2, IsASeq DEF Reverse
  <2> QED
    BY <2>3, <2>4
<1>4. ASSUME NEW i \in 1..Len(s) PROVE r[i] = q[i]
  <2>1. (Len(s) - i) + 1 \in 1..Len(s) /\ d + ((Len(s) - i) + 1) = (Len(t) - i) + 1 /\ i \in 1..Len(t)
    BY <1>1
  <2>2. s[(Len(s) - i) + 1] = t[d + ((Len(s) - i) + 1)]
    BY <2>1
  <2> QED
    BY <1>2, <2>1, <2>2
<1> HIDE DEF r, q
<1>5. SubSeq(r, 1, Len(r)) = SubSeq(q, 1, Len(r))
  <2>1. /\ SubSeq(r, 1, Len(r)) = [i \in 1..Len(s) |-> r[i]]
        /\ SubSeq(q, 1, Len(r)) = [i \in 1..Len(s) |-> q[i]]
    BY <1>1, <1>3
  <2> QED
    BY <1>4, <2>1
<1>6. Len(r) <= Len(q)
  BY <1>1, <1>3
<1> QED
  BY <1>5, <1>6 DEF IsSuffix, IsPrefix, r, q

-----------------------------------------------------------------------------
(* The ring.                                                               *)

\* A place in the ring, or one round further.
Wrapped(x) == IF x < BufferSize THEN x ELSE x - BufferSize

LEMMA RemainderIs ==
  ASSUME NEW x \in Nat, x < 2 * BufferSize
  PROVE  x % BufferSize = Wrapped(x)
<1>1. BufferSize \in Nat /\ BufferSize > 0
  BY LogAssumption
<1> QED
  BY <1>1 DEF Wrapped

Oldest == IF ring.count < BufferSize THEN 0 ELSE ring.next

\* The ring holds the last records buffered, in order; the others are counted as dropped.
RingInv ==
  /\ buffered \in Seq(Nat)
  /\ ring.next \in 0..(BufferSize - 1)
  /\ ring.count \in 0..BufferSize
  /\ ring.dropped \in Nat
  /\ DOMAIN ring.slots = 0..(BufferSize - 1)
  /\ Len(buffered) = ring.dropped + ring.count
  /\ ring.count < BufferSize => ring.next = ring.count /\ ring.dropped = 0
  /\ \A i \in 1..ring.count : ring.slots[Wrapped(Oldest + i - 1)] = buffered[ring.dropped + i]

\* What a console was shown ends where the records did, and what is missing at the front was
\* dropped by then, hence by the time it asks for the count.
ConsoleInv ==
  \/ console = Idle
  \/ /\ console.at \in {"records", "answered"}
     /\ console.of \in Seq(Nat) /\ console.records \in Seq(Nat)
     /\ \E missing \in Nat :
          /\ Len(console.of) = missing + Len(console.records)
          /\ \A i \in 1..Len(console.records) : console.records[i] = console.of[missing + i]
          /\ missing <= IF console.at = "records" THEN ring.dropped ELSE console.dropped

LEMMA PutKeeps ==
  ASSUME RingInv, NEW r \in Nat, Put(r), buffered' = Append(buffered, r)
  PROVE  RingInv' /\ ring'.dropped >= ring.dropped
<1> DEFINE B == BufferSize
<1>1. B \in Nat /\ B > 0
  BY LogAssumption
<1>2. PICK slots, next, count, dropped :
        /\ slots = ring.slots /\ next = ring.next /\ count = ring.count /\ dropped = ring.dropped
  OBVIOUS
<1>3. /\ next \in 0..(B - 1) /\ count \in 0..B /\ dropped \in Nat /\ DOMAIN slots = 0..(B - 1)
      /\ buffered \in Seq(Nat) /\ Len(buffered) = dropped + count
      /\ count < B => next = count /\ dropped = 0
  BY <1>2 DEF RingInv
<1>4. ring' = [slots   |-> [slots EXCEPT ![next] = r],
               next    |-> (next + 1) % B,
               count   |-> Min({count + 1, B}),
               dropped |-> IF count = B THEN dropped + 1 ELSE dropped]
  BY <1>2 DEF Put
<1>5. (next + 1) % B = Wrapped(next + 1)
  BY <1>1, <1>3, RemainderIs
<1>6. Min({count + 1, B}) = IF count < B THEN count + 1 ELSE B
  BY <1>1, <1>3 DEF Min
<1>7. PICK slots1, next1, count1, dropped1 :
        /\ slots1 = ring'.slots /\ next1 = ring'.next /\ count1 = ring'.count /\ dropped1 = ring'.dropped
  OBVIOUS
<1>8. /\ slots1 = [slots EXCEPT ![next] = r]
      /\ next1 = Wrapped(next + 1)
      /\ count1 = IF count < B THEN count + 1 ELSE B
      /\ dropped1 = IF count = B THEN dropped + 1 ELSE dropped
  BY <1>4, <1>5, <1>6, <1>7
<1>9. /\ DOMAIN slots1 = 0..(B - 1) /\ slots1[next] = r
      /\ \A x \in 0..(B - 1) : x # next => slots1[x] = slots[x]
  BY <1>3, <1>8
<1>10. /\ buffered' \in Seq(Nat) /\ Len(buffered') = Len(buffered) + 1
       /\ buffered'[Len(buffered) + 1] = r
       /\ \A i \in 1..Len(buffered) : buffered'[i] = buffered[i]
  <2>1. PICK more : more = buffered'
    OBVIOUS
  <2>2. more = Append(buffered, r)
    BY <2>1
  <2> QED
    BY <1>3, <2>1, <2>2, AppendProperties
<1>11. /\ next1 \in 0..(B - 1) /\ count1 \in 0..B /\ dropped1 \in Nat
       /\ Len(buffered') = dropped1 + count1
       /\ count1 < B => next1 = count1 /\ dropped1 = 0
  BY <1>1, <1>3, <1>8, <1>10 DEF Wrapped
<1> DEFINE oldest == IF count < B THEN 0 ELSE next
           oldest1 == IF count1 < B THEN 0 ELSE next1
<1>12. \A i \in 1..count : slots[Wrapped(oldest + i - 1)] = buffered[dropped + i]
  BY <1>2 DEF RingInv, Oldest
<1> HIDE DEF B
<1>13. ASSUME NEW i \in 1..count1
       PROVE  slots1[Wrapped(oldest1 + i - 1)] = buffered'[dropped1 + i]
  <2>1. CASE count < B /\ i <= count
    <3>1. Wrapped(oldest1 + i - 1) = i - 1 /\ Wrapped(oldest + i - 1) = i - 1
      BY <1>1, <1>3, <1>8, <2>1 DEF Wrapped, B
    <3>2. i - 1 \in 0..(B - 1) /\ i - 1 # next /\ i \in 1..count /\ dropped1 + i = dropped + i
          /\ dropped + i \in 1..Len(buffered)
      BY <1>1, <1>3, <1>8, <2>1
    <3> QED
      BY <1>9, <1>10, <1>12, <3>1, <3>2
  <2>2. CASE count < B /\ i = count + 1
    <3>1. Wrapped(oldest1 + i - 1) = next
      BY <1>1, <1>3, <1>8, <2>2 DEF Wrapped, B
    <3>2. dropped1 + i = Len(buffered) + 1
      BY <1>3, <1>8, <2>2
    <3> QED
      BY <1>9, <1>10, <3>1, <3>2
  <2>3. CASE count = B /\ i < B
    <3>1. Wrapped(oldest1 + i - 1) = Wrapped(oldest + (i + 1) - 1)
      BY <1>1, <1>3, <1>8, <2>3 DEF Wrapped, B
    <3>2. Wrapped(oldest + (i + 1) - 1) \in 0..(B - 1) /\ Wrapped(oldest + (i + 1) - 1) # next
      BY <1>1, <1>3, <1>8, <2>3 DEF Wrapped, B
    <3>3. i + 1 \in 1..count /\ dropped1 + i = dropped + (i + 1) /\ dropped + (i + 1) \in 1..Len(buffered)
      BY <1>1, <1>3, <1>8, <2>3
    <3> QED
      BY <1>9, <1>10, <1>12, <3>1, <3>2, <3>3
  <2>4. CASE count = B /\ i = B
    <3>1. Wrapped(oldest1 + i - 1) = next
      BY <1>1, <1>3, <1>8, <2>4 DEF Wrapped, B
    <3>2. dropped1 + i = Len(buffered) + 1
      BY <1>1, <1>3, <1>8, <2>4
    <3> QED
      BY <1>9, <1>10, <3>1, <3>2
  <2>5. \/ count < B /\ i <= count
        \/ count < B /\ i = count + 1
        \/ count = B /\ i < B
        \/ count = B /\ i = B
    BY <1>1, <1>3, <1>8
  <2> QED
    BY <2>1, <2>2, <2>3, <2>4, <2>5
<1>14. dropped1 >= dropped
  BY <1>3, <1>8
<1> QED
  BY <1>2, <1>7, <1>9, <1>10, <1>11, <1>13, <1>14 DEF RingInv, Oldest, B

LEMMA RecordsAre ==
  ASSUME RingInv
  PROVE  /\ Records \in Seq(Nat) /\ Len(Records) = ring.count
         /\ \A i \in 1..ring.count : Records[i] = buffered[ring.dropped + i]
<1>1. BufferSize \in Nat /\ BufferSize > 0
  BY LogAssumption
<1>2. ASSUME NEW i \in 1..ring.count
      PROVE  ring.slots[(Oldest + i - 1) % BufferSize] = buffered[ring.dropped + i]
  <2>1. Oldest + i - 1 \in Nat /\ Oldest + i - 1 < 2 * BufferSize
    BY <1>1 DEF RingInv, Oldest
  <2>2. (Oldest + i - 1) % BufferSize = Wrapped(Oldest + i - 1)
    BY <2>1, RemainderIs
  <2> QED
    BY <2>2 DEF RingInv
<1>3. Records = [i \in 1..ring.count |-> ring.slots[(Oldest + i - 1) % BufferSize]]
  BY DEF Records, Oldest
<1>4. ring.count \in Nat /\ \A i \in 1..ring.count : buffered[ring.dropped + i] \in Nat
  <2>1. ring.count \in Nat /\ ring.dropped \in Nat /\ buffered \in Seq(Nat)
        /\ Len(buffered) = ring.dropped + ring.count
    BY <1>1 DEF RingInv
  <2>2. \A i \in 1..ring.count : ring.dropped + i \in 1..Len(buffered)
    BY <2>1
  <2> QED
    BY <2>1, <2>2, ElementOfSeq
<1>5. Records = [i \in 1..ring.count |-> buffered[ring.dropped + i]]
  BY <1>2, <1>3
<1> QED
  BY <1>4, <1>5, IsASeq

\* Log calls.
IsCall(c) ==
  \/ c = Idle
  \/ /\ c = [at |-> c.at, enabled |-> c.enabled, line |-> c.line, file |-> c.file]
     /\ c.at \in {"lock", "rotate", "open", "write", "ring"}
     /\ c.line \in Line

CallInv ==
  /\ made \in Nat
  /\ DOMAIN call = Goroutine
  /\ \A g \in Goroutine : IsCall(call[g])

\* A step of g changes the call of g only.
LEMMA CallMoves ==
  ASSUME CallInv, made' \in Nat, NEW g \in Goroutine, NEW c, IsCall(c),
         call' = [call EXCEPT ![g] = c]
  PROVE  /\ CallInv'
         /\ call'[g] = c /\ \A h \in Goroutine \ {g} : call'[h] = call[h]
<1>1. DOMAIN call' = Goroutine /\ call'[g] = c /\ \A h \in Goroutine \ {g} : call'[h] = call[h]
  BY DEF CallInv
<1>2. \A h \in Goroutine : IsCall(call'[h])
  BY <1>1 DEF CallInv
<1>3. PICK calls : calls = call'
  OBVIOUS
<1>4. \A h \in Goroutine : IsCall(calls[h])
  BY <1>2, <1>3
<1> QED
  BY <1>1, <1>3, <1>4 DEF CallInv, IsCall

\* What a step does to a call that is under way.
LEMMA CallGoes ==
  ASSUME NEW c, IsCall(c), c # Idle, NEW step \in {"lock", "rotate", "open", "write", "ring"},
         NEW d, d = [c EXCEPT !.at = step]
  PROVE  IsCall(d) /\ d.at = step /\ d.line = c.line
<1>1. d = [at |-> step, enabled |-> c.enabled, line |-> c.line, file |-> c.file]
  BY DEF IsCall
<1>2. c.line \in Line
  BY DEF IsCall
<1> QED
  BY <1>1, <1>2 DEF IsCall

LEMMA CallInvInit == Init => CallInv
  BY DEF Init, CallInv, IsCall

\* A call under way is not idle.
LEMMA UnderWay ==
  ASSUME NEW g, call[g].at # "idle"
  PROVE  call[g] # Idle
  BY DEF Idle

LEMMA ReleaseMoves ==
  ASSUME CallInv, NEW g \in Goroutine, call[g] # Idle, Release(g)
  PROVE  \E c : IsCall(c) /\ c.at \in {"ring", "idle"} /\ call' = [call EXCEPT ![g] = c]
<1>1. CASE call[g].enabled
  <2>1. PICK old, c : old = call[g] /\ c = [old EXCEPT !.at = "ring"]
    OBVIOUS
  <2>2. IsCall(old)
    BY <2>1 DEF CallInv
  <2>3. IsCall(c) /\ c.at = "ring"
    BY <2>1, <2>2, CallGoes
  <2>4. call' = [call EXCEPT ![g] = c]
    BY <1>1, <2>1 DEF Release, CallInv
  <2> QED
    BY <2>3, <2>4
<1>2. CASE ~call[g].enabled
  <2>1. call' = [call EXCEPT ![g] = Idle]
    BY <1>2 DEF Release, CallInv
  <2>2. IsCall(Idle) /\ Idle.at = "idle"
    BY DEF IsCall, Idle
  <2> QED
    BY <2>1, <2>2
<1> QED
  BY <1>1, <1>2

\* How each step moves the call of its goroutine.
LEMMA LogMoves ==
  ASSUME CallInv, NEW g \in Goroutine, Log(g)
  PROVE  /\ CallInv'
         /\ call'[g].at \in {"lock", "ring"}
         /\ \A h \in Goroutine \ {g} : call'[h] = call[h]
<1>1. PICK size \in Size, captured \in BOOLEAN, enabled \in BOOLEAN :
        call' = [call EXCEPT ![g] =
            [at |-> IF captured THEN "lock" ELSE "ring", enabled |-> enabled,
             line |-> [n |-> made + 1, size |-> size], file |-> None]]
  BY DEF Log
<1>2. PICK c : c = [at |-> IF captured THEN "lock" ELSE "ring", enabled |-> enabled,
             line |-> [n |-> made + 1, size |-> size], file |-> None]
  OBVIOUS
<1>3. c.at \in {"lock", "ring"} /\ IsCall(c)
  BY <1>2 DEF IsCall, Line, CallInv
<1>4. made' \in Nat
  BY DEF Log, CallInv
<1> QED
  BY <1>1, <1>2, <1>3, <1>4, CallMoves

LEMMA GoMoves ==
  ASSUME CallInv, made' = made, NEW g \in Goroutine, call[g].at # "idle",
         NEW step \in {"lock", "rotate", "open", "write", "ring"}, Goes(g, step)
  PROVE  /\ CallInv'
         /\ call'[g].at = step /\ call'[g].line = call[g].line
         /\ \A h \in Goroutine \ {g} : call'[h] = call[h]
<1>1. PICK old, c : old = call[g] /\ c = [old EXCEPT !.at = step]
  OBVIOUS
<1>2. IsCall(c) /\ c.at = step /\ c.line = call[g].line
  <2>1. IsCall(old) /\ old # Idle
    BY <1>1, UnderWay DEF CallInv
  <2> QED
    BY <1>1, <2>1, CallGoes
<1>3. call' = [call EXCEPT ![g] = c]
  BY <1>1 DEF Goes, CallInv
<1>4. made' \in Nat
  BY DEF CallInv
<1> QED
  BY <1>2, <1>3, <1>4, CallMoves

LEMMA OpenMoves ==
  ASSUME CallInv, NEW g \in Goroutine, Open(g)
  PROVE  /\ CallInv'
         /\ call'[g].at = "write" /\ call'[g].line = call[g].line /\ call'[g].file = active'
         /\ \A h \in Goroutine \ {g} : call'[h] = call[h]
<1>1. PICK old, c, file : old = call[g] /\ c = [old EXCEPT !.at = "write", !.file = file] /\ file = active'
  OBVIOUS
<1>2. IsCall(c) /\ c.at = "write" /\ c.line = call[g].line /\ c.file = file
  <2>1. IsCall(old) /\ old # Idle
    BY <1>1, UnderWay DEF CallInv, Open, At
  <2>2. old = [at |-> old.at, enabled |-> old.enabled, line |-> old.line, file |-> old.file]
        /\ old.line \in Line
    BY <2>1 DEF IsCall
  <2>3. c = [at |-> "write", enabled |-> old.enabled, line |-> old.line, file |-> file]
    BY <1>1, <2>2
  <2>4. IsCall(c)
    BY <2>2, <2>3 DEF IsCall
  <2> QED
    BY <1>1, <2>3, <2>4
<1>3. call' = [call EXCEPT ![g] = c]
  BY <1>1, Zenon DEF Open, CallInv
<1>4. made' \in Nat
  BY DEF CallInv, Open, bounds
<1> QED
  BY <1>1, <1>2, <1>3, <1>4, CallMoves

LEMMA EndMoves ==
  ASSUME CallInv, made' = made, NEW g \in Goroutine, call[g].at # "idle", Release(g)
  PROVE  /\ CallInv'
         /\ call'[g].at \in {"ring", "idle"}
         /\ \A h \in Goroutine \ {g} : call'[h] = call[h]
<1>1. PICK c : IsCall(c) /\ c.at \in {"ring", "idle"} /\ call' = [call EXCEPT ![g] = c]
  BY UnderWay, ReleaseMoves
<1>2. made' \in Nat
  BY DEF CallInv
<1> QED
  BY <1>1, <1>2, CallMoves

LEMMA BufferMoves ==
  ASSUME CallInv, NEW g \in Goroutine, Buffer(g)
  PROVE  /\ CallInv'
         /\ call'[g].at = "idle"
         /\ \A h \in Goroutine \ {g} : call'[h] = call[h]
<1>1. PICK c : c = Idle
  OBVIOUS
<1>2. IsCall(c) /\ c.at = "idle"
  BY <1>1 DEF IsCall, Idle
<1>3. call' = [call EXCEPT ![g] = c]
  BY <1>1 DEF Buffer
<1>4. made' \in Nat
  BY DEF Buffer, CallInv, bounds
<1> QED
  BY <1>2, <1>3, <1>4, CallMoves

LEMMA CallInvNext == CallInv /\ [Next]_vars => CallInv'
<1> SUFFICES ASSUME CallInv, [Next]_vars PROVE CallInv'
  OBVIOUS
<1>1. CASE UNCHANGED <<call, made>>
  BY <1>1 DEF CallInv
<1>2. ASSUME NEW g \in Goroutine, Step(g) PROVE CallInv'
  <2>1. CASE Lock(g)
    BY <2>1, GoMoves DEF Lock, At, bounds
  <2>2. CASE Rotate(g)
    BY <2>2, GoMoves DEF Rotate, At, bounds
  <2>3. CASE Write(g)
    BY <2>3, EndMoves DEF Write, At, bounds
  <2>4. CASE Fail(g)
    BY <2>4, EndMoves DEF Fail, At
  <2> QED
    BY <1>2, <2>1, <2>2, <2>3, <2>4, LogMoves, OpenMoves, BufferMoves DEF Step
<1>3. CASE Crash
  BY <1>3 DEF Crash, CallInv, IsCall
<1> QED
  BY <1>1, <1>2, <1>3 DEF Next, ReadRecords, ReadDropped, OpenLog, Scan, Leave, vars, bounds

-----------------------------------------------------------------------------
(* The console.                                                            *)

ToldInv == CallInv /\ RingInv /\ ConsoleInv

LEMMA SameTold ==
  ASSUME RingInv, ConsoleInv, UNCHANGED <<ring, buffered, console>>
  PROVE  RingInv' /\ ConsoleInv'
  BY DEF RingInv, Oldest, Wrapped, ConsoleInv, Idle

LEMMA NewBufferIs ==
  ASSUME NEW r, r = NewBuffer
  PROVE  /\ r.next = 0 /\ r.count = 0 /\ r.dropped = 0
         /\ DOMAIN r.slots = 0..(BufferSize - 1)
  BY DEF NewBuffer

LEMMA EmptyRing ==
  ASSUME ring = NewBuffer, buffered = <<>>
  PROVE  RingInv
<1>1. BufferSize \in Nat /\ BufferSize > 0
  BY LogAssumption
<1>2. ring.next = 0 /\ ring.count = 0 /\ ring.dropped = 0 /\ DOMAIN ring.slots = 0..(BufferSize - 1)
  BY NewBufferIs
<1>3. buffered \in Seq(Nat) /\ Len(buffered) = 0
  OBVIOUS
<1> QED
  BY <1>1, <1>2, <1>3 DEF RingInv

LEMMA ToldInvInit == Init => ToldInv
  BY CallInvInit, EmptyRing DEF Init, ToldInv, ConsoleInv

LEMMA BufferTold ==
  ASSUME ToldInv, NEW g \in Goroutine, Buffer(g)
  PROVE  RingInv' /\ ConsoleInv'
<1>1. PICK c : c = call[g]
  OBVIOUS
<1>2. IsCall(c) /\ c # Idle
  BY <1>1, UnderWay DEF ToldInv, CallInv, Buffer, At
<1>3. c.line.n \in Nat
  BY <1>2 DEF IsCall, Line
<1>4. PICK r \in Nat : Put(r) /\ buffered' = Append(buffered, r)
  BY <1>1, <1>3 DEF Buffer
<1>5. RingInv' /\ ring'.dropped >= ring.dropped
  BY <1>4, PutKeeps DEF ToldInv
<1>6. UNCHANGED console /\ ring.dropped \in Nat /\ ring'.dropped \in Nat
  BY <1>5 DEF Buffer, clients, ToldInv, RingInv
<1>7. ConsoleInv'
  <2>1. CASE console = Idle
    BY <1>6, <2>1 DEF ConsoleInv
  <2>2. CASE console # Idle
    <3>1. PICK missing \in Nat :
            /\ Len(console.of) = missing + Len(console.records)
            /\ \A i \in 1..Len(console.records) : console.records[i] = console.of[missing + i]
            /\ missing <= IF console.at = "records" THEN ring.dropped ELSE console.dropped
      BY <2>2 DEF ToldInv, ConsoleInv
    <3>2. missing <= IF console.at = "records" THEN ring'.dropped ELSE console.dropped
      BY <1>5, <1>6, <3>1
    <3>3. /\ console.at \in {"records", "answered"}
          /\ console.of \in Seq(Nat) /\ console.records \in Seq(Nat)
      BY <2>2 DEF ToldInv, ConsoleInv
    <3> QED
      BY <1>6, <3>1, <3>2, <3>3 DEF ConsoleInv
  <2> QED
    BY <2>1, <2>2
<1> QED
  BY <1>5, <1>7

LEMMA ReadRecordsTold ==
  ASSUME ToldInv, ReadRecords
  PROVE  RingInv' /\ ConsoleInv'
<1>1. UNCHANGED <<ring, buffered>>
  BY DEF ReadRecords
<1>2. RingInv'
  BY <1>1 DEF ToldInv, RingInv, Oldest, Wrapped
<1>3. PICK rs : rs = Records
  OBVIOUS
<1>4. console' = [at |-> "records", records |-> rs, dropped |-> 0, of |-> buffered]
  BY <1>3 DEF ReadRecords
<1>5. /\ rs \in Seq(Nat) /\ Len(rs) = ring.count
      /\ \A i \in 1..ring.count : rs[i] = buffered[ring.dropped + i]
  BY <1>3, RecordsAre DEF ToldInv
<1>6. buffered \in Seq(Nat) /\ ring.dropped \in Nat /\ Len(buffered) = ring.dropped + ring.count
  BY DEF ToldInv, RingInv
<1>7. ring.dropped <= ring.dropped
  BY <1>6
<1>8. ConsoleInv'
  BY <1>1, <1>4, <1>5, <1>6, <1>7 DEF ConsoleInv
<1> QED
  BY <1>2, <1>8

LEMMA ReadDroppedTold ==
  ASSUME ToldInv, ReadDropped
  PROVE  RingInv' /\ ConsoleInv'
<1>1. UNCHANGED <<ring, buffered>>
  BY DEF ReadDropped
<1>2. RingInv'
  BY <1>1 DEF ToldInv, RingInv, Oldest, Wrapped
<1>3. /\ console'.at = "answered" /\ console'.dropped = ring.dropped
      /\ console'.of = console.of /\ console'.records = console.records
  BY DEF ReadDropped, ToldInv, ConsoleInv, Idle
<1>4. ConsoleInv'
  BY <1>1, <1>3 DEF ReadDropped, ToldInv, ConsoleInv, Idle
<1> QED
  BY <1>2, <1>4

LEMMA ToldInvNext == ToldInv /\ [Next]_vars => ToldInv'
<1> SUFFICES ASSUME ToldInv, [Next]_vars PROVE RingInv' /\ ConsoleInv'
  BY CallInvNext DEF ToldInv
<1>1. CASE UNCHANGED <<ring, buffered, console>>
  BY <1>1, SameTold DEF ToldInv
<1>2. ASSUME NEW g \in Goroutine, Step(g) PROVE RingInv' /\ ConsoleInv'
  <2>1. CASE Buffer(g)
    BY <2>1, BufferTold
  <2>2. CASE Log(g) \/ Lock(g) \/ Rotate(g) \/ Open(g) \/ Write(g) \/ Fail(g)
    BY <1>1, <2>2 DEF Log, Lock, Rotate, Open, Write, Fail, clients
  <2> QED
    BY <1>2, <2>1, <2>2 DEF Step
<1>3. CASE Leave
  <2>1. CASE UNCHANGED console
    BY <1>1, <1>3, <2>1 DEF Leave
  <2>2. CASE console' = Idle /\ UNCHANGED <<ring, buffered>>
    BY <2>2 DEF ToldInv, RingInv, Oldest, Wrapped, ConsoleInv
  <2> QED
    BY <1>3, <2>1, <2>2 DEF Leave
<1>4. CASE Crash
  <2>1. ring' = NewBuffer /\ buffered' = <<>> /\ console' = Idle
    BY <1>4 DEF Crash
  <2>2. RingInv'
    <3>1. ring'.next = 0 /\ ring'.count = 0 /\ ring'.dropped = 0 /\ DOMAIN ring'.slots = 0..(BufferSize - 1)
      BY <2>1, NewBufferIs
    <3>2. buffered' \in Seq(Nat) /\ Len(buffered') = 0 /\ BufferSize \in Nat /\ BufferSize > 0
      BY <2>1, LogAssumption
    <3> QED
      BY <3>1, <3>2 DEF RingInv
  <2> QED
    BY <2>1, <2>2 DEF ConsoleInv
<1>5. CASE OpenLog \/ Scan \/ UNCHANGED vars
  BY <1>1, <1>5 DEF OpenLog, Scan, vars, clients
<1> QED
  BY <1>2, <1>3, <1>4, <1>5, ReadRecordsTold, ReadDroppedTold DEF Next

\* A console of remindb://logs is shown the newest records in order, and the count it asks for
\* next, records later, covers every record it was not shown: Buffer.Records, Buffer.Dropped.
THEOREM MissingIsTold == Spec => []MissingTold
<1>1. Init => ToldInv
  BY ToldInvInit
<1>2. ToldInv /\ [Next]_vars => ToldInv'
  BY ToldInvNext
<1>3. ToldInv => MissingTold
  <2> SUFFICES ASSUME ToldInv, console.at = "answered" PROVE MissingTold
    BY DEF MissingTold
  <2>1. PICK of, rs : of = console.of /\ rs = console.records
    OBVIOUS
  <2>2. console # Idle
    BY DEF Idle
  <2>3. PICK missing \in Nat :
          /\ of \in Seq(Nat) /\ rs \in Seq(Nat)
          /\ Len(of) = missing + Len(rs)
          /\ \A i \in 1..Len(rs) : rs[i] = of[missing + i]
          /\ missing <= console.dropped
    BY <2>1, <2>2 DEF ToldInv, ConsoleInv
  <2>4. IsSuffix(rs, of)
    BY <2>3, SuffixIs
  <2>5. Len(of) - Len(rs) <= console.dropped
    <3>1. Len(of) \in Nat /\ Len(rs) \in Nat /\ Len(of) - Len(rs) = missing
      BY <2>3
    <3> QED
      BY <2>3, <3>1
  <2> QED
    BY <2>1, <2>4, <2>5 DEF MissingTold
<1> QED
  BY <1>1, <1>2, <1>3, PTL DEF Spec

-----------------------------------------------------------------------------
(* The session's file.                                                     *)

\* OverCap of other files.
Over(line, cs, file) ==
  /\ MaxFileSize > 0 /\ file # None
  /\ cs[file] # <<>>
  /\ Bytes(cs[file]) + line.size > MaxFileSize

\* Between Lock and Release there is one goroutine, whose line fits the file it writes to.
LockInv ==
  \A g \in Goroutine :
    /\ call[g].at \in {"rotate", "open", "write"} => holder = g
    /\ call[g].at \in {"open", "write"} => ~Over(call[g].line, content, active)
    /\ call[g].at = "write" => active # None /\ call[g].file = active

\* The names of the session's log are the last inodes made, and only the active one is empty.
NamesInv ==
  /\ content \in Seq(Seq(Line))
  /\ \/ active = None /\ content = <<>> /\ older = None
     \/ active = None /\ content # <<>> /\ older = Len(content)
     \/ active = Len(content) /\ Len(content) = 1 /\ older = None
     \/ active = Len(content) /\ Len(content) > 1 /\ older = Len(content) - 1
  /\ \A k \in 1..Len(content) : k = active \/ content[k] # <<>>
  /\ \A k \in 1..Len(content) :
       MaxFileSize > 0 => Bytes(content[k]) <= MaxFileSize \/ Len(content[k]) = 1

\* Inode k has the lines appended after the first before[k].
Splits(before) ==
  /\ appended \in Seq(Line)
  /\ before \in [1..(Len(content) + 1) -> Nat]
  /\ before[1] = 0 /\ before[Len(content) + 1] = Len(appended)
  /\ \A k \in 1..(Len(content) + 1) : before[k] <= Len(appended)
  /\ \A k \in 1..Len(content) :
       /\ before[k + 1] = before[k] + Len(content[k])
       /\ \A i \in 1..Len(content[k]) : content[k][i] = appended[before[k] + i]

\* A client has the first lines of its file, all that were there when it asked once it is answered.
Reads(before) ==
  \/ reader = Idle
  \/ /\ reader = [at |-> reader.at, file |-> reader.file, entries |-> reader.entries,
                  since |-> reader.since]
     /\ reader.at \in {"reading", "answered"}
     /\ reader.file \in 1..Len(content)
     /\ reader.since \in before[reader.file]..before[reader.file + 1]
     /\ reader.entries \in Seq(Line) /\ Len(reader.entries) <= Len(content[reader.file])
     /\ \A i \in 1..Len(reader.entries) : reader.entries[i] = content[reader.file][i]
     /\ reader.at = "answered" => reader.since <= before[reader.file] + Len(reader.entries)

LinesInv == \E before : Splits(before) /\ Reads(before)

FilesInv == CallInv /\ LockInv /\ NamesInv /\ LinesInv

LEMMA FilesInvInit == Init => FilesInv
<1> SUFFICES ASSUME Init PROVE FilesInv
  OBVIOUS
<1>1. LockInv
  BY DEF Init, LockInv, Idle
<1>2. content \in Seq(Seq(Line)) /\ Len(content) = 0 /\ appended \in Seq(Line) /\ Len(appended) = 0
  BY DEF Init
<1>3. NamesInv
  BY <1>2 DEF Init, NamesInv
<1> DEFINE before == [k \in 1..(Len(content) + 1) |-> 0]
<1>4. Splits(before) /\ Reads(before)
  BY <1>2 DEF Init, Splits, Reads
<1> HIDE DEF before
<1> QED
  BY <1>1, <1>3, <1>4, CallInvInit DEF FilesInv, LinesInv

LEMMA FilesSame ==
  ASSUME UNCHANGED <<files, appended, reader>>
  PROVE  (NamesInv => NamesInv') /\ (LinesInv => LinesInv')
<1>1. UNCHANGED <<content, active, older, appended, reader>>
  BY DEF files
<1>2. NamesInv => NamesInv'
  BY <1>1 DEF NamesInv
<1>3. ASSUME NEW before, Splits(before), Reads(before) PROVE Splits(before)' /\ Reads(before)'
  BY <1>1, <1>3 DEF Splits, Reads
<1> QED
  BY <1>2, <1>3 DEF LinesInv

\* A step of g, alone behind the mutex or outside of it, leaves the other calls as they were.
LEMMA LockKept ==
  ASSUME LockInv, NEW g \in Goroutine,
         \A h \in Goroutine \ {g} : call'[h] = call[h],
         \/ UNCHANGED <<files, holder>>
         \/ UNCHANGED files /\ holder \in {None, g}
         \/ holder = g,
         call'[g].at \in {"rotate", "open", "write"} => holder' = g,
         call'[g].at \in {"open", "write"} => ~Over(call'[g].line, content', active'),
         call'[g].at = "write" => active' # None /\ call'[g].file = active'
  PROVE  LockInv'
<1>1. None \notin Goroutine
  BY LogAssumption
<1>2. ASSUME NEW h \in Goroutine
      PROVE  /\ call'[h].at \in {"rotate", "open", "write"} => holder' = h
             /\ call'[h].at \in {"open", "write"} => ~Over(call'[h].line, content', active')
             /\ call'[h].at = "write" => active' # None /\ call'[h].file = active'
  <2>1. CASE h = g
    BY <2>1
  <2>2. CASE h # g /\ call[h].at \in {"rotate", "open", "write"}
    <3>1. holder = h /\ holder \notin {None, g}
      BY <1>1, <2>2 DEF LockInv
    <3>2. UNCHANGED <<content, active, holder>> /\ call'[h] = call[h]
      BY <2>2, <3>1 DEF files
    <3> QED
      BY <2>2, <3>2 DEF LockInv
  <2>3. CASE h # g /\ call[h].at \notin {"rotate", "open", "write"}
    <3>1. call'[h] = call[h]
      BY <2>3
    <3> QED
      BY <2>3, <3>1
  <2> QED
    BY <2>1, <2>2, <2>3
<1> QED
  BY <1>2 DEF LockInv

LEMMA LockKeeps ==
  ASSUME FilesInv, NEW g \in Goroutine, Lock(g)
  PROVE  FilesInv'
<1>1. /\ CallInv' /\ call'[g].at = "rotate" /\ \A h \in Goroutine \ {g} : call'[h] = call[h]
  BY GoMoves DEF Lock, At, bounds, FilesInv
<1>2. UNCHANGED <<files, appended, reader>> /\ holder = None /\ holder' = g
  BY DEF Lock, clients
<1>3. LockInv'
  BY <1>1, <1>2, LockKept DEF FilesInv
<1> QED
  BY <1>1, <1>2, <1>3, FilesSame DEF FilesInv

LEMMA RotateKeeps ==
  ASSUME FilesInv, NEW g \in Goroutine, Rotate(g)
  PROVE  FilesInv'
<1>1. /\ CallInv' /\ call'[g].at = "open" /\ call'[g].line = call[g].line
      /\ \A h \in Goroutine \ {g} : call'[h] = call[h]
  BY GoMoves DEF Rotate, At, bounds, FilesInv
<1>2. UNCHANGED <<content, appended, reader, holder>> /\ holder = g
  BY DEF Rotate, clients, files, Rename, FilesInv, LockInv, At
<1>3. PICK line : line = call[g].line
  OBVIOUS
<1>4. CASE OverCap(line)
  <2>1. older' = active /\ active' = None /\ active # None
    BY <1>3, <1>4 DEF Rotate, Rename, OverCap
  <2>2. LockInv'
    BY <1>1, <1>2, <2>1, LockKept DEF FilesInv, Over
  <2>3. content[active] # <<>>
    BY <1>4 DEF OverCap
  <2>4. active = Len(content) /\ content # <<>>
    <3>1. active = Len(content) /\ Len(content) >= 1
      BY <2>1 DEF FilesInv, NamesInv
    <3> QED
      BY <3>1
  <2>5. NamesInv'
    BY <1>2, <2>1, <2>3, <2>4 DEF FilesInv, NamesInv
  <2>6. LinesInv'
    BY <1>2 DEF FilesInv, LinesInv, Splits, Reads
  <2> QED
    BY <1>1, <2>2, <2>5, <2>6 DEF FilesInv
<1>5. CASE ~OverCap(line)
  <2>1. UNCHANGED files
    BY <1>3, <1>5 DEF Rotate
  <2>2. ~Over(line, content', active')
    BY <1>5, <2>1 DEF OverCap, Over, files
  <2>3. LockInv'
    BY <1>1, <1>2, <1>3, <2>1, <2>2, LockKept DEF FilesInv
  <2> QED
    BY <1>1, <1>2, <2>1, <2>3, FilesSame DEF FilesInv
<1> QED
  BY <1>4, <1>5

LEMMA OpenKeeps ==
  ASSUME FilesInv, NEW g \in Goroutine, Open(g)
  PROVE  FilesInv'
<1>1. /\ CallInv' /\ call'[g].at = "write" /\ call'[g].line = call[g].line /\ call'[g].file = active'
      /\ \A h \in Goroutine \ {g} : call'[h] = call[h]
  BY OpenMoves DEF FilesInv
<1>2. UNCHANGED <<older, appended, reader, holder>> /\ holder = g
  BY DEF Open, clients, FilesInv, LockInv, At
<1>3. PICK line : line = call[g].line
  OBVIOUS
<1>4. CASE active # None
  <2>1. UNCHANGED files
    BY <1>4 DEF Open, files
  <2>2. ~Over(line, content', active')
    BY <1>3, <2>1 DEF FilesInv, LockInv, Open, At, files
  <2>3. LockInv'
    BY <1>1, <1>2, <1>3, <1>4, <2>1, <2>2, LockKept DEF FilesInv, files
  <2> QED
    BY <1>1, <1>2, <2>1, <2>3, FilesSame DEF FilesInv
<1>5. CASE active = None
  <2>1. PICK n \in Nat : n = Len(content)
    BY DEF FilesInv, NamesInv
  <2>2. PICK cs : cs = content'
    OBVIOUS
  <2>3. active' = n + 1 /\ cs = Append(content, <<>>) /\ content \in Seq(Seq(Line))
    BY <1>5, <2>1, <2>2 DEF Open, FilesInv, NamesInv
  <2>4. /\ cs \in Seq(Seq(Line)) /\ Len(cs) = n + 1 /\ cs[n + 1] = <<>>
        /\ \A k \in 1..n : cs[k] = content[k]
    BY <2>1, <2>3, AppendProperties
  <2>5. None # n + 1
    BY LogAssumption
  <2>6. ~Over(line, content', active')
    BY <2>2, <2>3, <2>4 DEF Over
  <2>7. LockInv'
    BY <1>1, <1>2, <1>3, <2>3, <2>5, <2>6, LockKept DEF FilesInv
  <2>8. NamesInv'
    <3>1. \A k \in 1..n : content[k] # <<>>
      BY <1>5, <2>1, LogAssumption DEF FilesInv, NamesInv
    <3>2. \A k \in 1..(n + 1) : k = n + 1 \/ cs[k] # <<>>
      BY <2>4, <3>1
    <3>3. \A k \in 1..(n + 1) : MaxFileSize > 0 => Bytes(cs[k]) <= MaxFileSize \/ Len(cs[k]) = 1
      <4> SUFFICES ASSUME NEW k \in 1..(n + 1), MaxFileSize > 0
                   PROVE  Bytes(cs[k]) <= MaxFileSize \/ Len(cs[k]) = 1
        OBVIOUS
      <4>1. CASE k = n + 1
        BY <2>4, <4>1, BytesOfNone, LogAssumption
      <4>2. CASE k # n + 1
        <5>1. k \in 1..n /\ cs[k] = content[k]
          BY <2>4, <4>2
        <5>2. Bytes(content[k]) <= MaxFileSize \/ Len(content[k]) = 1
          BY <2>1, <5>1 DEF FilesInv, NamesInv
        <5> QED
          BY <5>1, <5>2
      <4> QED
        BY <4>1, <4>2
    <3>4. older = IF n + 1 = 1 THEN None ELSE (n + 1) - 1
      BY <1>5, <2>1, LogAssumption DEF FilesInv, NamesInv
    <3> QED
      BY <1>2, <2>1, <2>2, <2>3, <2>4, <3>2, <3>3, <3>4 DEF NamesInv
  <2>9. LinesInv'
    <3>1. PICK before : Splits(before) /\ Reads(before)
      BY DEF FilesInv, LinesInv
    <3> DEFINE before1 == [k \in 1..(n + 2) |-> IF k = n + 2 THEN before[n + 1] ELSE before[k]]
    <3>2. PICK b : b = before1
      OBVIOUS
    <3>3. /\ before \in [1..(n + 1) -> Nat] /\ before[n + 1] = Len(appended)
          /\ b[n + 2] = before[n + 1] /\ b[n + 1] = before[n + 1]
          /\ \A k \in 1..(n + 1) : b[k] = before[k]
      BY <2>1, <3>1, <3>2 DEF Splits
    <3>4. b \in [1..((n + 1) + 1) -> Nat]
      BY <3>2, <3>3
    <3>5. Splits(b)'
      <4>1. appended \in Seq(Line) /\ b[1] = 0 /\ b[n + 2] = Len(appended)
        BY <2>1, <3>1, <3>3 DEF Splits
      <4>2. \A k \in 1..(n + 2) : b[k] <= Len(appended)
        BY <2>1, <3>1, <3>3, <4>1 DEF Splits
      <4>3. ASSUME NEW k \in 1..(n + 1)
            PROVE  /\ b[k + 1] = b[k] + Len(cs[k])
                   /\ \A i \in 1..Len(cs[k]) : cs[k][i] = appended[b[k] + i]
        <5>1. CASE k = n + 1
          <6>1. Len(cs[k]) = 0 /\ k + 1 = n + 2 /\ b[n + 1] \in Nat
            BY <2>4, <3>4, <5>1
          <6> QED
            BY <3>3, <5>1, <6>1
        <5>2. CASE k # n + 1
          <6>1. k \in 1..n /\ k + 1 \in 1..(n + 1) /\ cs[k] = content[k] /\ b[k] = before[k]
                /\ b[k + 1] = before[k + 1]
            <7>1. k \in 1..n /\ k \in 1..(n + 1) /\ k + 1 \in 1..(n + 1)
              BY <5>2
            <7> QED
              BY <2>4, <3>3, <7>1
          <6> QED
            BY <2>1, <3>1, <6>1 DEF Splits
        <5> QED
          BY <5>1, <5>2
      <4>4. content' = cs /\ appended' = appended /\ Len(cs) = n + 1 /\ (n + 1) + 1 = n + 2
        BY <1>2, <2>1, <2>2, <2>4
      <4>5. /\ b \in [1..(Len(content') + 1) -> Nat]
            /\ b[Len(content') + 1] = Len(appended')
            /\ \A k \in 1..(Len(content') + 1) : b[k] <= Len(appended')
        BY <3>4, <4>1, <4>2, <4>4
      <4>6. \A k \in 1..Len(content') :
              /\ b[k + 1] = b[k] + Len(content'[k])
              /\ \A i \in 1..Len(content'[k]) : content'[k][i] = appended'[b[k] + i]
        BY <4>3, <4>4
      <4> QED
        BY <4>1, <4>4, <4>5, <4>6 DEF Splits
    <3>6. Reads(b)'
      <4>1. CASE reader = Idle
        BY <1>2, <4>1 DEF Reads
      <4>2. CASE reader # Idle
        <5>1. reader.file \in 1..n /\ reader.file + 1 \in 1..(n + 1)
          BY <2>1, <3>1, <4>2 DEF Reads
        <5>2. cs[reader.file] = content[reader.file]
          BY <2>4, <5>1
        <5>3. reader.file \in 1..(n + 1) /\ b[reader.file] = before[reader.file]
              /\ b[reader.file + 1] = before[reader.file + 1]
          BY <3>3, <5>1
        <5> QED
          BY <1>2, <2>2, <2>4, <3>1, <4>2, <5>2, <5>3 DEF Reads
      <4> QED
        BY <4>1, <4>2
    <3> QED
      BY <3>5, <3>6 DEF LinesInv
  <2> QED
    BY <1>1, <2>7, <2>8, <2>9 DEF FilesInv
<1> QED
  BY <1>4, <1>5

\* A goroutine is done with the file.
LEMMA ReleaseKeeps ==
  ASSUME FilesInv, made' = made, NEW g \in Goroutine, call[g].at # "idle", Release(g),
         holder = g
  PROVE  CallInv' /\ LockInv'
<1>1. /\ CallInv' /\ call'[g].at \in {"ring", "idle"}
      /\ \A h \in Goroutine \ {g} : call'[h] = call[h]
  BY EndMoves DEF FilesInv
<1>2. call'[g].at \notin {"rotate", "open", "write"}
  BY <1>1
<1> QED
  BY <1>1, <1>2, LockKept DEF FilesInv

LEMMA WriteKeeps ==
  ASSUME FilesInv, NEW g \in Goroutine, Write(g)
  PROVE  FilesInv'
<1>1. /\ holder = g /\ active # None /\ call[g].file = active /\ call[g].at = "write"
      /\ ~Over(call[g].line, content, active)
  BY DEF Write, At, FilesInv, LockInv
<1>2. CallInv' /\ LockInv'
  BY <1>1, ReleaseKeeps DEF Write, bounds
<1>3. PICK line, n, m, cs, ls, more :
        /\ line = call[g].line /\ n = Len(content) /\ m = Len(appended)
        /\ cs = content' /\ ls = content[active] /\ more = appended'
  OBVIOUS
<1>4. line \in Line
  <2>1. PICK c : c = call[g]
    OBVIOUS
  <2>2. IsCall(c) /\ c # Idle
    BY <1>1, <2>1, UnderWay DEF FilesInv, CallInv
  <2> QED
    BY <1>3, <2>1, <2>2 DEF IsCall
<1>5. /\ content \in Seq(Seq(Line)) /\ n \in Nat /\ n >= 1 /\ active = n /\ ls \in Seq(Line)
      /\ UNCHANGED <<active, older, reader>>
  <2>1. content \in Seq(Seq(Line)) /\ active = n /\ n >= 1 /\ n \in Nat
    BY <1>1, <1>3 DEF FilesInv, NamesInv
  <2>2. ls \in Seq(Line)
    BY <1>3, <2>1
  <2> QED
    BY <2>1, <2>2 DEF Write, clients
<1>6. PICK new : new = Append(ls, line)
  OBVIOUS
<1>7. /\ new \in Seq(Line) /\ Len(new) = Len(ls) + 1 /\ new[Len(ls) + 1] = line /\ Len(ls) \in Nat
      /\ \A i \in 1..Len(ls) : new[i] = ls[i]
  BY <1>4, <1>5, <1>6, AppendProperties
<1>8. cs = [content EXCEPT ![n] = new] /\ more = Append(appended, line)
  BY <1>1, <1>3, <1>5, <1>6 DEF Write
<1>9. /\ cs \in Seq(Seq(Line)) /\ Len(cs) = n /\ cs[n] = new
      /\ \A k \in 1..n : k # n => cs[k] = content[k]
  BY <1>3, <1>5, <1>7, <1>8, ExceptSeq
<1>10. NamesInv'
  <2>1. new # <<>>
    BY <1>7
  <2>2. \A k \in 1..n : k = n \/ cs[k] # <<>>
    BY <1>3, <1>5, <1>9 DEF FilesInv, NamesInv
  <2>3. ASSUME NEW k \in 1..n, MaxFileSize > 0
        PROVE  Bytes(cs[k]) <= MaxFileSize \/ Len(cs[k]) = 1
    <3>1. CASE k = n /\ ls = <<>>
      BY <1>7, <1>9, <3>1
    <3>2. CASE k = n /\ ls # <<>>
      <4>1. Bytes(ls) \in Nat /\ Bytes(new) = Bytes(ls) + line.size /\ line.size \in Nat
        BY <1>4, <1>5, <1>6, BytesOfMore, LogAssumption DEF Line
      <4>2. ~(Bytes(ls) + line.size > MaxFileSize)
        BY <1>1, <1>3, <2>3, <3>2 DEF Over
      <4>3. Bytes(new) <= MaxFileSize
        BY <4>1, <4>2, LogAssumption
      <4> QED
        BY <1>9, <3>2, <4>3
    <3>3. CASE k # n
      <4>1. cs[k] = content[k]
        BY <1>9, <3>3
      <4>2. Bytes(content[k]) <= MaxFileSize \/ Len(content[k]) = 1
        BY <1>3, <2>3 DEF FilesInv, NamesInv
      <4> QED
        BY <4>1, <4>2
    <3> QED
      BY <3>1, <3>2, <3>3
  <2>4. \/ n = 1 /\ older = None
        \/ n > 1 /\ older = n - 1
    BY <1>1, <1>3, <1>5 DEF FilesInv, NamesInv
  <2> QED
    BY <1>3, <1>5, <1>9, <2>2, <2>3, <2>4 DEF NamesInv
<1>11. LinesInv'
  <2>1. PICK before : Splits(before) /\ Reads(before)
    BY DEF FilesInv, LinesInv
  <2>2. /\ before \in [1..(n + 1) -> Nat] /\ before[1] = 0 /\ before[n + 1] = m
        /\ appended \in Seq(Line) /\ m \in Nat
        /\ \A k \in 1..(n + 1) : before[k] <= m
        /\ \A k \in 1..n :
             /\ before[k + 1] = before[k] + Len(content[k])
             /\ \A i \in 1..Len(content[k]) : content[k][i] = appended[before[k] + i]
    <3>1. appended \in Seq(Line) /\ m \in Nat
      BY <1>3, <2>1 DEF Splits
    <3>2. Len(content) = n /\ Len(appended) = m
      BY <1>3
    <3> QED
      BY <2>1, <3>1, <3>2 DEF Splits
  <2>3. PICK b : b = [before EXCEPT ![n + 1] = m + 1]
    OBVIOUS
  <2>4. /\ b \in [1..(n + 1) -> Nat] /\ b[n + 1] = m + 1
        /\ \A k \in 1..(n + 1) : k # n + 1 => b[k] = before[k]
    BY <1>5, <2>2, <2>3
  <2>5. /\ more \in Seq(Line) /\ Len(more) = m + 1 /\ more[m + 1] = line
        /\ \A i \in 1..m : more[i] = appended[i]
    BY <1>3, <1>4, <1>8, <2>2, AppendProperties
  <2>6. b[n] = before[n] /\ before[n] \in Nat /\ before[n] + Len(ls) = m /\ n \in 1..n
    <3>1. n \in 1..n /\ n \in 1..(n + 1) /\ n # n + 1
      BY <1>5
    <3> QED
      BY <1>3, <1>5, <2>2, <2>4, <3>1
  <2>7. ASSUME NEW k \in 1..n
        PROVE  /\ b[k + 1] = b[k] + Len(cs[k])
               /\ \A i \in 1..Len(cs[k]) : cs[k][i] = more[b[k] + i]
    <3>1. CASE k = n
      <4>1. b[n + 1] = b[n] + Len(new)
        <5>1. m \in Nat /\ Len(ls) \in Nat /\ b[n] + Len(ls) = m /\ b[n] \in Nat
          BY <1>7, <2>2, <2>6
        <5> QED
          BY <1>7, <2>4, <5>1
      <4>2. ASSUME NEW i \in 1..Len(new) PROVE new[i] = more[b[n] + i]
        <5>1. CASE i = Len(ls) + 1
          BY <1>7, <2>5, <2>6, <5>1
        <5>2. CASE i # Len(ls) + 1
          <6>1. i \in 1..Len(ls) /\ before[n] + i \in 1..m
            BY <1>7, <2>2, <2>6, <5>2
          <6>2. ls[i] = appended[before[n] + i]
            BY <1>3, <1>5, <2>2, <2>6, <6>1
          <6> QED
            BY <1>7, <2>5, <2>6, <6>1, <6>2
        <5> QED
          BY <5>1, <5>2
      <4> QED
        BY <1>9, <3>1, <4>1, <4>2
    <3>2. CASE k # n
      <4>1. k \in 1..(n + 1) /\ k + 1 \in 1..(n + 1) /\ k # n + 1 /\ k + 1 # n + 1
        BY <1>5, <3>2
      <4>2. cs[k] = content[k] /\ b[k] = before[k] /\ b[k + 1] = before[k + 1]
        BY <1>9, <2>4, <3>2, <4>1
      <4>3. ASSUME NEW i \in 1..Len(content[k]) PROVE content[k][i] = more[before[k] + i]
        <5>1. Len(content[k]) \in Nat /\ before[k] \in Nat /\ before[k] + Len(content[k]) <= m
          BY <1>3, <1>5, <2>2, <4>1
        <5>2. before[k] + i \in 1..m
          BY <2>2, <5>1
        <5> QED
          BY <2>2, <2>5, <5>2
      <4> QED
        BY <2>2, <4>2, <4>3
    <3> QED
      BY <3>1, <3>2
  <2>8. b[1] = 0
    BY <1>5, <2>2, <2>4
  <2>9. \A k \in 1..(n + 1) : b[k] <= m + 1
    BY <2>2, <2>4
  <2>10. Splits(b)'
    BY <1>3, <1>9, <2>4, <2>5, <2>7, <2>8, <2>9 DEF Splits
  <2>11. Reads(b)'
    <3>1. CASE reader = Idle
      BY <1>5, <3>1 DEF Reads
    <3>2. CASE reader # Idle
      <4>1. PICK f, es, since : f = reader.file /\ es = reader.entries /\ since = reader.since
        OBVIOUS
      <4>2. /\ f \in 1..n /\ since \in before[f]..before[f + 1]
            /\ es \in Seq(Line) /\ Len(es) <= Len(content[f])
            /\ \A i \in 1..Len(es) : es[i] = content[f][i]
            /\ reader.at = "answered" => since <= before[f] + Len(es)
        BY <1>3, <2>1, <3>2, <4>1 DEF Reads
      <4>3. /\ f \in 1..(n + 1) /\ f + 1 \in 1..(n + 1) /\ f # n + 1
            /\ b[f] = before[f] /\ before[f] \in Nat /\ before[f + 1] \in Nat /\ b[f + 1] \in Nat
            /\ before[f + 1] <= b[f + 1]
        <5>1. f \in 1..(n + 1) /\ f + 1 \in 1..(n + 1) /\ f # n + 1
          BY <1>5, <4>2
        <5>2. b[f] = before[f] /\ before[f] \in Nat /\ before[f + 1] \in Nat /\ b[f + 1] \in Nat
          BY <2>2, <2>4, <5>1
        <5>3. CASE f + 1 = n + 1
          BY <2>2, <2>4, <5>1, <5>2, <5>3
        <5>4. CASE f + 1 # n + 1
          BY <2>4, <5>1, <5>2, <5>4
        <5> QED
          BY <5>1, <5>2, <5>3, <5>4
      <4>4. since \in b[f]..b[f + 1]
        BY <4>2, <4>3
      <4>5. Len(es) <= Len(cs[f]) /\ \A i \in 1..Len(es) : es[i] = cs[f][i]
        <5>1. CASE f = n
          <6>1. content[f] = ls /\ cs[f] = new /\ Len(es) \in Nat
            BY <1>3, <1>5, <1>9, <4>2, <5>1
          <6>2. Len(es) <= Len(ls) /\ \A i \in 1..Len(es) : i \in 1..Len(ls) /\ es[i] = ls[i]
            BY <1>7, <4>2, <6>1
          <6> QED
            BY <1>7, <6>1, <6>2
        <5>2. CASE f # n
          BY <1>9, <4>2, <5>2
        <5> QED
          BY <5>1, <5>2
      <4> QED
        BY <1>3, <1>5, <1>9, <2>1, <3>2, <4>1, <4>2, <4>3, <4>4, <4>5 DEF Reads
    <3> QED
      BY <3>1, <3>2
  <2> QED
    BY <2>10, <2>11 DEF LinesInv
<1> QED
  BY <1>2, <1>10, <1>11 DEF FilesInv

LEMMA OpenLogKeeps ==
  ASSUME FilesInv, OpenLog
  PROVE  FilesInv'
<1>1. UNCHANGED <<content, active, older, holder, call, appended, made>> /\ active # None
  BY DEF OpenLog, files, bounds
<1>2. CallInv' /\ LockInv' /\ NamesInv'
  BY <1>1 DEF FilesInv, CallInv, LockInv, NamesInv
<1>3. PICK before : Splits(before)
  BY DEF FilesInv, LinesInv
<1>4. PICK n : n = Len(content)
  OBVIOUS
<1>5. n \in Nat /\ n >= 1 /\ active = n /\ content \in Seq(Seq(Line))
  BY <1>1, <1>4 DEF FilesInv, NamesInv
<1>6. /\ before \in [1..(n + 1) -> Nat] /\ before[n + 1] = Len(appended) /\ before[n] <= Len(appended)
      /\ before[n] \in Nat /\ Len(appended) \in Nat
  <2>1. before \in [1..(n + 1) -> Nat] /\ before[n + 1] = Len(appended)
        /\ \A k \in 1..(n + 1) : before[k] <= Len(appended)
    BY <1>3, <1>4 DEF Splits
  <2>2. n \in 1..(n + 1) /\ n + 1 \in 1..(n + 1)
    BY <1>5
  <2> QED
    BY <2>1, <2>2
<1>7. reader' = [at |-> "reading", file |-> n, entries |-> <<>>, since |-> Len(appended)]
  BY <1>5 DEF OpenLog
<1>8. Splits(before)'
  BY <1>1, <1>3 DEF Splits
<1>9. Reads(before)'
  <2>1. Len(appended) \in before[n]..before[n + 1] /\ n \in 1..n
    BY <1>5, <1>6
  <2>2. <<>> \in Seq(Line) /\ Len(<<>>) = 0 /\ 0 <= Len(content[n])
    BY <1>4, <1>5, <2>1
  <2>3. /\ reader'.at = "reading" /\ reader'.file = n /\ reader'.entries = <<>>
        /\ reader'.since = Len(appended)
        /\ reader' = [at |-> reader'.at, file |-> reader'.file, entries |-> reader'.entries,
                      since |-> reader'.since]
    BY <1>7
  <2> QED
    BY <1>1, <1>4, <2>1, <2>2, <2>3 DEF Reads
<1> QED
  BY <1>2, <1>8, <1>9 DEF FilesInv, LinesInv

LEMMA ScanKeeps ==
  ASSUME FilesInv, Scan
  PROVE  FilesInv'
<1>1. UNCHANGED <<content, active, older, holder, call, appended, made>> /\ reader.at = "reading"
  BY DEF Scan, files, bounds
<1>2. CallInv' /\ LockInv' /\ NamesInv'
  BY <1>1 DEF FilesInv, CallInv, LockInv, NamesInv
<1>3. PICK before : Splits(before) /\ Reads(before)
  BY DEF FilesInv, LinesInv
<1>4. PICK n, f, es, since, ls :
        /\ n = Len(content) /\ f = reader.file /\ es = reader.entries /\ since = reader.since
        /\ ls = content[f]
  OBVIOUS
<1>5. /\ reader = [at |-> "reading", file |-> f, entries |-> es, since |-> since]
      /\ f \in 1..n /\ since \in before[f]..before[f + 1]
      /\ es \in Seq(Line) /\ Len(es) <= Len(ls)
      /\ \A i \in 1..Len(es) : es[i] = ls[i]
  BY <1>1, <1>3, <1>4 DEF Reads, Idle
<1>6. ls \in Seq(Line) /\ Len(ls) \in Nat /\ Len(es) \in Nat
  <2>1. content \in Seq(Seq(Line))
    BY DEF FilesInv, NamesInv
  <2> QED
    BY <1>4, <1>5, <2>1, ElementOfSeq
<1>7. before[f + 1] = before[f] + Len(ls)
  BY <1>3, <1>4, <1>5 DEF Splits
<1>8. Splits(before)'
  BY <1>1, <1>3 DEF Splits
<1>9. CASE Len(es) + 1 <= Len(ls)
  <2>1. PICK more : more = Append(es, ls[Len(es) + 1])
    OBVIOUS
  <2>2. ls[Len(es) + 1] \in Line
    BY <1>6, <1>9
  <2>3. /\ more \in Seq(Line) /\ Len(more) = Len(es) + 1 /\ more[Len(es) + 1] = ls[Len(es) + 1]
        /\ \A i \in 1..Len(es) : more[i] = es[i]
    BY <1>5, <2>1, <2>2, AppendProperties
  <2>4. \A i \in 1..Len(more) : more[i] = ls[i]
    BY <1>5, <1>6, <2>3
  <2>5. reader' = [reader EXCEPT !.entries = more]
    BY <1>4, <1>9, <2>1 DEF Scan
  <2>6. reader' = [at |-> "reading", file |-> f, entries |-> more, since |-> since]
    BY <1>5, <2>5
  <2>7. Reads(before)'
    BY <1>1, <1>4, <1>5, <1>9, <2>3, <2>4, <2>6 DEF Reads
  <2> QED
    BY <1>2, <1>8, <2>7 DEF FilesInv, LinesInv
<1>10. CASE ~(Len(es) + 1 <= Len(ls))
  <2>1. reader' = [reader EXCEPT !.at = "answered"]
    BY <1>4, <1>10 DEF Scan
  <2>2. reader' = [at |-> "answered", file |-> f, entries |-> es, since |-> since]
    BY <1>5, <2>1
  <2>3. Len(es) = Len(ls)
    BY <1>5, <1>6, <1>10
  <2>4. since <= before[f] + Len(es)
    BY <1>5, <1>7, <2>3
  <2>5. Reads(before)'
    BY <1>1, <1>4, <1>5, <2>2, <2>4 DEF Reads
  <2> QED
    BY <1>2, <1>8, <2>5 DEF FilesInv, LinesInv
<1> QED
  BY <1>9, <1>10

LEMMA FilesInvNext == FilesInv /\ [Next]_vars => FilesInv'
<1> SUFFICES ASSUME FilesInv, [Next]_vars PROVE FilesInv'
  OBVIOUS
<1>1. ASSUME UNCHANGED <<files, holder, call, appended, made, reader>> PROVE FilesInv'
  <2>1. CallInv' /\ LockInv'
    BY <1>1 DEF FilesInv, CallInv, LockInv, files
  <2> QED
    BY <1>1, <2>1, FilesSame DEF FilesInv
<1>2. ASSUME NEW g \in Goroutine, Log(g) PROVE FilesInv'
  <2>1. UNCHANGED <<files, holder, appended, reader>>
    BY <1>2 DEF Log, clients
  <2>2. CallInv' /\ call'[g].at \notin {"rotate", "open", "write"} /\ \A h \in Goroutine \ {g} : call'[h] = call[h]
    BY <1>2, LogMoves DEF FilesInv
  <2>3. LockInv'
    BY <2>1, <2>2, LockKept DEF FilesInv
  <2> QED
    BY <2>1, <2>2, <2>3, FilesSame DEF FilesInv
<1>3. ASSUME NEW g \in Goroutine, Buffer(g) PROVE FilesInv'
  <2>1. UNCHANGED <<files, holder, appended, reader>>
    BY <1>3 DEF Buffer, clients
  <2>2. CallInv' /\ call'[g].at \notin {"rotate", "open", "write"} /\ \A h \in Goroutine \ {g} : call'[h] = call[h]
    BY <1>3, BufferMoves DEF FilesInv
  <2>3. LockInv'
    BY <2>1, <2>2, LockKept DEF FilesInv
  <2> QED
    BY <2>1, <2>2, <2>3, FilesSame DEF FilesInv
<1>4. ASSUME NEW g \in Goroutine, Fail(g) PROVE FilesInv'
  <2>1. UNCHANGED <<files, appended, reader>> /\ made' = made /\ Release(g)
    BY <1>4 DEF Fail, clients
  <2>2. holder = g /\ call[g].at # "idle"
    BY <1>4 DEF Fail, At, FilesInv, LockInv
  <2>3. CallInv' /\ LockInv'
    BY <2>1, <2>2, ReleaseKeeps
  <2> QED
    BY <2>1, <2>3, FilesSame DEF FilesInv
<1>5. CASE ReadRecords \/ ReadDropped \/ UNCHANGED vars
  BY <1>1, <1>5 DEF ReadRecords, ReadDropped, vars, clients, bounds
<1>6. ASSUME reader' = Idle, UNCHANGED <<files, appended>> PROVE NamesInv' /\ LinesInv'
  <2>1. UNCHANGED <<content, active, older>>
    BY <1>6 DEF files
  <2>2. PICK before : Splits(before)
    BY DEF FilesInv, LinesInv
  <2>3. Splits(before)' /\ Reads(before)'
    BY <1>6, <2>1, <2>2 DEF Splits, Reads
  <2>4. NamesInv'
    BY <2>1 DEF FilesInv, NamesInv
  <2> QED
    BY <2>3, <2>4 DEF LinesInv
<1>7. CASE Leave
  <2>1. CASE reader' = Idle /\ UNCHANGED <<files, appended, holder, call, made>>
    <3>1. CallInv' /\ LockInv'
      BY <2>1 DEF FilesInv, CallInv, LockInv, files
    <3> QED
      BY <1>6, <2>1, <3>1 DEF FilesInv
  <2>2. CASE UNCHANGED <<files, holder, call, appended, made, reader>>
    BY <1>1, <2>2
  <2> QED
    BY <1>7, <2>1, <2>2 DEF Leave, bounds
<1>8. CASE Crash
  <2>1. reader' = Idle /\ UNCHANGED <<files, appended, made>> /\ call' = [g \in Goroutine |-> Idle]
    BY <1>8 DEF Crash
  <2>2. CallInv' /\ LockInv'
    BY <2>1 DEF FilesInv, CallInv, LockInv, IsCall, Idle
  <2> QED
    BY <1>6, <2>1, <2>2 DEF FilesInv
<1> QED
  BY <1>2, <1>3, <1>4, <1>5, <1>7, <1>8, LockKeeps, RotateKeeps, OpenKeeps, WriteKeeps, OpenLogKeeps, ScanKeeps
  DEF Next, Step

LEMMA FilesInvHolds == Spec => []FilesInv
<1>1. Init => FilesInv
  BY FilesInvInit
<1> QED
  BY <1>1, FilesInvNext, PTL DEF Spec

\* A run of lines, element by element.
LEMMA RunIs ==
  ASSUME NEW S, NEW s \in Seq(S), NEW t \in Seq(S), NEW b \in Nat, b + Len(s) <= Len(t),
         \A i \in 1..Len(s) : s[i] = t[b + i]
  PROVE  s = SubSeq(t, b + 1, b + Len(s))
<1>1. PICK k \in Nat : k = Len(s)
  OBVIOUS
<1>2. PICK lo \in Int, hi \in Int : lo = b + 1 /\ hi = b + k
  OBVIOUS
<1>3. PICK run : run = SubSeq(t, lo, hi)
  OBVIOUS
<1>4. \A i \in lo..hi : t[i] \in S
  <2>1. \A i \in lo..hi : i \in 1..Len(t)
    BY <1>1, <1>2
  <2> QED
    BY <2>1
<1>5. /\ run \in Seq(S)
      /\ Len(run) = IF lo <= hi THEN hi - lo + 1 ELSE 0
      /\ \A i \in 1..(hi - lo + 1) : run[i] = t[lo + i - 1]
  BY <1>3, <1>4, SubSeqProperties
<1>6. hi - lo + 1 = k /\ (~(lo <= hi) => k = 0)
  BY <1>2
<1>7. Len(run) = k
  BY <1>5, <1>6
<1>8. ASSUME NEW i \in 1..k PROVE run[i] = s[i]
  <2>1. lo + i - 1 = b + i
    BY <1>2
  <2> QED
    BY <1>1, <1>5, <1>6, <2>1
<1>9. s = run
  BY <1>1, <1>5, <1>7, <1>8, SeqEqual
<1> QED
  BY <1>1, <1>2, <1>3, <1>9

\* A client's answer has the session's lines in order and without a gap, up to date when it
\* asked, whatever is written and rotated meanwhile: HandleSessionsLogByID, ParseLog.
THEOREM ReadersInOrder == Spec => []ReadsInOrder
<1>1. FilesInv => ReadsInOrder
  <2> SUFFICES ASSUME FilesInv, reader.at = "answered"
               PROVE  \E i \in 1..(reader.since + 1) : \E j \in reader.since..Len(appended) :
                         reader.entries = SubSeq(appended, i, j)
    BY DEF ReadsInOrder
  <2>1. PICK before : Splits(before) /\ Reads(before)
    BY DEF FilesInv, LinesInv
  <2>2. PICK n, m, f, es, since, ls :
          /\ n = Len(content) /\ m = Len(appended) /\ f = reader.file /\ es = reader.entries
          /\ since = reader.since /\ ls = content[f]
    OBVIOUS
  <2>3. /\ f \in 1..n /\ since \in before[f]..before[f + 1]
        /\ es \in Seq(Line) /\ Len(es) <= Len(ls)
        /\ \A i \in 1..Len(es) : es[i] = ls[i]
        /\ since <= before[f] + Len(es)
    BY <2>1, <2>2 DEF Reads, Idle
  <2>4. n \in Nat /\ m \in Nat /\ appended \in Seq(Line) /\ content \in Seq(Seq(Line))
    BY <2>1, <2>2 DEF Splits, FilesInv, NamesInv
  <2>5. Len(es) \in Nat /\ ls \in Seq(Line) /\ Len(ls) \in Nat
    BY <2>2, <2>3, <2>4, ElementOfSeq
  <2>6. /\ before[f] \in Nat /\ before[f + 1] \in Nat /\ before[f + 1] = before[f] + Len(ls)
        /\ before[f + 1] <= m
        /\ \A i \in 1..Len(ls) : ls[i] = appended[before[f] + i]
    <3>1. f \in 1..(n + 1) /\ f + 1 \in 1..(n + 1)
      BY <2>3, <2>4
    <3> QED
      BY <2>1, <2>2, <2>3, <3>1 DEF Splits
  <2>7. PICK b \in Nat : b = before[f]
    BY <2>6
  <2>8. b + 1 \in 1..(since + 1) /\ b + Len(es) \in since..m
    <3>1. PICK k \in Nat, l \in Nat : k = Len(es) /\ l = Len(ls)
      BY <2>5
    <3>2. /\ since \in b..(b + l) /\ b + l <= m
          /\ k <= l /\ since <= b + k
      BY <2>3, <2>6, <2>7, <3>1
    <3>3. since \in Nat /\ b + 1 \in 1..(since + 1) /\ b + k \in since..m
      BY <2>4, <3>2
    <3> QED
      BY <3>1, <3>3
  <2>9. \A i \in 1..Len(es) : es[i] = appended[b + i]
    <3>1. \A i \in 1..Len(es) : i \in 1..Len(ls)
      BY <2>3, <2>5
    <3> QED
      BY <2>3, <2>6, <2>7, <3>1
  <2>10. b + Len(es) <= Len(appended)
    BY <2>2, <2>3, <2>4, <2>5, <2>8
  <2>11. es = SubSeq(appended, b + 1, b + Len(es))
    BY <2>3, <2>4, <2>9, <2>10, RunIs
  <2> QED
    BY <2>2, <2>8, <2>11
<1> QED
  BY <1>1, FilesInvHolds, PTL

\* The lines appended after the first lo, up to the first hi.
IsPiece(lines, lo, hi) ==
  /\ lines \in Seq(Line) /\ lo \in Nat
  /\ hi = lo + Len(lines)
  /\ \A i \in 1..Len(lines) : lines[i] = appended[lo + i]

LEMMA EmptyPiece == ASSUME NEW lo \in Nat PROVE IsPiece(<<>>, lo, lo)
  BY DEF IsPiece

\* Two neighbours in the list of inodes.
LEMMA SuffixOfTwo ==
  ASSUME NEW s, NEW t, NEW lo, NEW mid, IsPiece(s, lo, mid), IsPiece(t, mid, Len(appended)),
         appended \in Seq(Line)
  PROVE  IsSuffix(s \o t, appended)
<1>1. PICK st : st = s \o t
  OBVIOUS
<1>2. /\ st \in Seq(Line) /\ Len(st) = Len(s) + Len(t) /\ Len(s) \in Nat /\ Len(t) \in Nat
      /\ \A i \in 1..(Len(s) + Len(t)) : st[i] = IF i <= Len(s) THEN s[i] ELSE t[i - Len(s)]
  BY <1>1, ConcatProperties DEF IsPiece
<1>3. /\ lo \in Nat /\ mid = lo + Len(s) /\ Len(appended) = mid + Len(t)
      /\ \A i \in 1..Len(s) : s[i] = appended[lo + i]
      /\ \A i \in 1..Len(t) : t[i] = appended[mid + i]
  BY DEF IsPiece
<1>4. ASSUME NEW i \in 1..Len(st) PROVE st[i] = appended[lo + i]
  <2>1. CASE i <= Len(s)
    <3>1. i \in 1..Len(s) /\ i \in 1..(Len(s) + Len(t))
      BY <1>2, <2>1
    <3> QED
      BY <1>2, <1>3, <2>1, <3>1
  <2>2. CASE ~(i <= Len(s))
    <3>1. i - Len(s) \in 1..Len(t) /\ mid + (i - Len(s)) = lo + i /\ i \in 1..(Len(s) + Len(t))
      BY <1>2, <1>3, <2>2
    <3>2. st[i] = t[i - Len(s)]
      BY <1>2, <2>2, <3>1
    <3>3. t[i - Len(s)] = appended[mid + (i - Len(s))]
      BY <1>3, <3>1
    <3> QED
      BY <3>1, <3>2, <3>3
  <2> QED
    BY <2>1, <2>2
<1>5. Len(appended) = lo + Len(st)
  BY <1>2, <1>3
<1>6. IsSuffix(st, appended)
  BY <1>2, <1>3, <1>4, <1>5, SuffixIs
<1> QED
  BY <1>1, <1>6

\* The two files hold the last lines written, and one of them at least, within the cap, whatever
\* fails or crashes between the steps of a rotation: Sink.Handle, Sink.rotateIfNeeded.
THEOREM TailIsKept == Spec => []TailKept
<1>1. FilesInv => TailKept
  <2> SUFFICES ASSUME FilesInv PROVE TailKept
    OBVIOUS
  <2>1. PICK before : Splits(before)
    BY DEF FilesInv, LinesInv
  <2>2. PICK n, m, s, t :
          n = Len(content) /\ m = Len(appended) /\ s = LinesOf(older) /\ t = LinesOf(active)
    OBVIOUS
  <2>3. n \in Nat /\ m \in Nat /\ appended \in Seq(Line) /\ content \in Seq(Seq(Line))
    BY <2>1, <2>2 DEF Splits, FilesInv, NamesInv
  <2>4. before[1] = 0 /\ before[n + 1] = m /\ \A k \in 1..(n + 1) : before[k] \in Nat
    BY <2>1, <2>2 DEF Splits
  <2>5. ASSUME NEW k \in 1..n
        PROVE  /\ IsPiece(content[k], before[k], before[k + 1])
               /\ k = active \/ content[k] # <<>>
               /\ MaxFileSize > 0 => Bytes(content[k]) <= MaxFileSize \/ Len(content[k]) = 1
    <3>1. content[k] \in Seq(Line) /\ before[k] \in Nat
      BY <2>2, <2>3, <2>4
    <3>2. /\ before[k + 1] = before[k] + Len(content[k])
          /\ \A i \in 1..Len(content[k]) : content[k][i] = appended[before[k] + i]
      BY <2>1, <2>2 DEF Splits
    <3> QED
      BY <2>2, <3>1, <3>2 DEF IsPiece, FilesInv, NamesInv
  <2>6. \/ n = 0 /\ active = None /\ older = None
        \/ n >= 1 /\ active = None /\ older = n
        \/ n = 1 /\ active = n /\ older = None
        \/ n > 1 /\ active = n /\ older = n - 1
    <3>1. content = <<>> <=> n = 0
      BY <2>2, <2>3
    <3> QED
      BY <2>2, <2>3, <3>1 DEF FilesInv, NamesInv
  <2>7. \A k \in 0..n : k # None
    BY <2>3, LogAssumption
  <2>8. \E lo, mid : IsPiece(s, lo, mid) /\ IsPiece(t, mid, m) /\ (m > 0 => s # <<>> \/ t # <<>>)
    <3>1. CASE n = 0 /\ active = None /\ older = None
      <4>1. s = <<>> /\ t = <<>> /\ m = 0
        BY <2>2, <2>4, <3>1 DEF LinesOf
      <4>2. IsPiece(s, 0, 0) /\ IsPiece(t, 0, m)
        BY <4>1, EmptyPiece
      <4> QED
        BY <4>1, <4>2
    <3>2. CASE n >= 1 /\ active = None /\ older = n
      <4>1. n \in 1..n /\ n # None
        BY <2>3, <2>7, <3>2
      <4>2. s = content[n] /\ t = <<>>
        BY <2>2, <3>2, <4>1 DEF LinesOf
      <4>3. IsPiece(s, before[n], m) /\ s # <<>>
        BY <2>4, <2>5, <3>2, <4>1, <4>2
      <4>4. IsPiece(t, m, m)
        BY <2>3, <4>2, EmptyPiece
      <4> QED
        BY <4>3, <4>4
    <3>3. CASE n = 1 /\ active = n /\ older = None
      <4>1. n \in 1..n /\ n # None /\ before[n] = 0
        BY <2>3, <2>4, <2>7, <3>3
      <4>2. s = <<>> /\ t = content[n]
        BY <2>2, <3>3, <4>1 DEF LinesOf
      <4>3. IsPiece(t, 0, m)
        <5>1. IsPiece(content[n], before[n], before[n + 1])
          BY <2>5, <4>1
        <5> QED
          BY <2>4, <4>1, <4>2, <5>1
      <4>4. IsPiece(s, 0, 0)
        BY <4>2, EmptyPiece
      <4>5. m > 0 => t # <<>>
        BY <4>3 DEF IsPiece
      <4> QED
        BY <4>3, <4>4, <4>5
    <3>4. CASE n > 1 /\ active = n /\ older = n - 1
      <4>1. PICK k : k = n - 1
        OBVIOUS
      <4>2. n \in 1..n /\ n # None /\ k \in 1..n /\ k # None /\ k + 1 = n /\ k # n
        BY <2>3, <2>7, <3>4, <4>1
      <4>3. s = content[k] /\ t = content[n]
        BY <2>2, <3>4, <4>1, <4>2 DEF LinesOf
      <4>4. IsPiece(content[k], before[k], before[k + 1]) /\ content[k] # <<>>
        BY <2>5, <3>4, <4>2
      <4>5. IsPiece(content[n], before[n], before[n + 1])
        BY <2>5, <4>2
      <4>6. IsPiece(s, before[k], before[n]) /\ IsPiece(t, before[n], m) /\ s # <<>>
        BY <2>4, <4>2, <4>3, <4>4, <4>5
      <4> QED
        BY <4>6
    <3> QED
      BY <2>6, <3>1, <3>2, <3>3, <3>4
  <2>9. PICK lo, mid : IsPiece(s, lo, mid) /\ IsPiece(t, mid, m) /\ (m > 0 => s # <<>> \/ t # <<>>)
    BY <2>8
  <2>10. IsSuffix(s \o t, appended)
    BY <2>2, <2>3, <2>9, SuffixOfTwo
  <2>11. appended # <<>> => s \o t # <<>>
    <3>1. appended # <<>> => m > 0
      BY <2>2, <2>3
    <3>2. s \in Seq(Line) /\ t \in Seq(Line)
      BY <2>9 DEF IsPiece
    <3> QED
      BY <2>9, <3>1, <3>2, ConcatEqualIffEmpty
  <2>12. ASSUME MaxFileSize > 0, NEW f \in {active, older}
         PROVE  Bytes(LinesOf(f)) <= MaxFileSize \/ Len(LinesOf(f)) = 1
    <3>1. CASE f = None
      <4>1. LinesOf(f) = <<>>
        BY <3>1 DEF LinesOf
      <4> QED
        BY <2>12, <4>1, BytesOfNone, LogAssumption
    <3>2. CASE f # None
      <4>1. f \in 1..n
        BY <2>3, <2>6, <3>2
      <4>2. LinesOf(f) = content[f]
        BY <3>2 DEF LinesOf
      <4>3. PICK k \in 1..n : k = f
        BY <4>1
      <4>4. Bytes(content[k]) <= MaxFileSize \/ Len(content[k]) = 1
        BY <2>5, <2>12
      <4> QED
        BY <4>2, <4>3, <4>4
    <3> QED
      BY <3>1, <3>2
  <2> QED
    BY <2>2, <2>10, <2>11, <2>12 DEF TailKept
<1> QED
  BY <1>1, FilesInvHolds, PTL
=============================================================================
