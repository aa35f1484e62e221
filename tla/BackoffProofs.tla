---------------------------- MODULE BackoffProofs ----------------------------
(***************************************************************************)
(* Proofs about the two components that make somebody wait twice as long   *)
(* each time: the attempt limiter, for every set of clients, and the IMAP  *)
(* watcher; both for every choice of their constants.                      *)
(***************************************************************************)
EXTENDS AttemptLimiter, Watcher, FiniteSetTheorems, TLAPS

(* What the lockout bound rests on: no failure lies in the future. *)
PastFailures == \A c \in Clients : failed[c] <= now

(* The inductive invariant. *)
IInv == TypeOK /\ PastFailures /\ HonestNeverSlowed /\ LockoutsEnd

(* A backoff is a time, and no longer than the longest. *)
LEMMA BackoffBounded ==
  ASSUME NEW n \in Nat PROVE backoffFor(n) \in Nat /\ backoffFor(n) <= Cap
BY LimiterAssumption DEF LimiterAssumption, backoffFor

(* One more failure makes a record of a record. *)
LEMMA CountedEntry ==
  ASSUME NEW entry \in Entry, now \in Nat
  PROVE  /\ Counted(entry) \in Entry
         /\ \/ Counted(entry).lockedUntil = entry.lockedUntil
            \/ Counted(entry).lockedUntil <= now + Cap
<1>1. entry.failures + 1 \in Nat /\ entry.lockedUntil \in Nat
  BY DEF Entry
<1>2. backoffFor(entry.failures + 1) \in Nat /\ backoffFor(entry.failures + 1) <= Cap
  BY <1>1, BackoffBounded
<1>3. Cap \in Nat
  BY LimiterAssumption DEF LimiterAssumption
<1>4. now + backoffFor(entry.failures + 1) \in Nat /\ now + backoffFor(entry.failures + 1) <= now + Cap
  BY <1>2, <1>3
<1> DEFINE until == IF entry.failures + 1 >= Threshold THEN now + backoffFor(entry.failures + 1)
                    ELSE entry.lockedUntil
<1>5. Counted(entry) = [failures |-> entry.failures + 1, lockedUntil |-> until, lastSeen |-> now]
  BY DEF Counted
<1>6. until \in Nat /\ (until = entry.lockedUntil \/ until <= now + Cap)
  BY <1>1, <1>4
<1> HIDE DEF until
<1> QED BY <1>1, <1>5, <1>6 DEF Entry

(* The empty table satisfies the invariant. *)
LEMMA InitIInv == Init => IInv
<1> SUFFICES ASSUME Init PROVE IInv
  OBVIOUS
<1>1. TypeOK
  BY LimiterAssumption DEF LimiterAssumption, Init, TypeOK, Tracked, Entry
<1>2. PastFailures
  BY DEF Init, PastFailures
<1>3. HonestNeverSlowed /\ LockoutsEnd
  BY DEF Init, HonestNeverSlowed, LockoutsEnd, Tracked
<1> QED BY <1>1, <1>2, <1>3 DEF IInv

(* Every step keeps it. *)
LEMMA NextIInv == IInv /\ [Next]_vars => IInv'
<1> SUFFICES ASSUME IInv, [Next]_vars PROVE IInv'
  OBVIOUS
<1> USE LimiterAssumption DEF LimiterAssumption
<1>1. ASSUME NEW c \in Clients, Ask(c) PROVE IInv'
  <2>1. CASE Locked(c)
    BY <1>1, <2>1 DEF Ask, AfterRefusal, IInv, TypeOK, PastFailures, HonestNeverSlowed, LockoutsEnd, Tracked
  <2>2. CASE ~Locked(c)
    <3>1. /\ table' = IF c \in Tracked THEN [table EXCEPT ![c].lastSeen = now] ELSE table
          /\ verifying' = [verifying EXCEPT ![c] = @ + 1] /\ verifying[c] < Parallel
          /\ since' = (IF spent[c] = 0 THEN [since EXCEPT ![c] = now] ELSE since)
          /\ spent' = [spent EXCEPT ![c] = @ + 1]
          /\ UNCHANGED <<now, evictions, failed, guessed>>
      BY <1>1, <2>2 DEF Ask
    <3>2. DOMAIN table' = DOMAIN table /\ table' \in [DOMAIN table -> Entry]
      BY <3>1 DEF IInv, TypeOK, Tracked, Entry
    <3>3. \A d \in DOMAIN table : table'[d].lockedUntil = table[d].lockedUntil
      BY <3>1 DEF IInv, TypeOK, Tracked, Entry
    <3>4. verifying' \in [Clients -> 0 .. Parallel] /\ since' \in [Clients -> Nat] /\ spent' \in [Clients -> Nat]
      BY <3>1 DEF IInv, TypeOK
    <3>5. TypeOK'
      BY <3>1, <3>2, <3>4 DEF IInv, TypeOK, Tracked
    <3> QED BY <3>1, <3>2, <3>3, <3>5 DEF IInv, PastFailures, HonestNeverSlowed, LockoutsEnd, Tracked
  <2> QED BY <2>1, <2>2
<1>2. ASSUME NEW c \in Clients, recordFailure(c) PROVE IInv'
  <2> DEFINE entry == IF c \in Tracked THEN table[c] ELSE NoEntry
  <2>1. PICK gone \in IF c \in Tracked THEN {{}} ELSE evictLocked :
          /\ table' = [d \in (Tracked \ gone) \cup {c} |-> IF d = c THEN Counted(entry) ELSE table[d]]
          /\ evictions' = [d \in Clients |-> evictions[d] + (IF d \in gone THEN 1 ELSE 0)]
    BY <1>2 DEF recordFailure
  <2>2. /\ Done(c) /\ failed' = [failed EXCEPT ![c] = now]
        /\ guessed' = guessed \cup {c} /\ UNCHANGED <<now, since, spent>>
    BY <1>2 DEF recordFailure
  <2>3. entry \in Entry /\ (entry.lockedUntil = 0 \/ (c \in Tracked /\ entry.lockedUntil = table[c].lockedUntil))
    BY DEF IInv, TypeOK, NoEntry, Entry
  <2>4. now \in Nat /\ failed \in [Clients -> Nat] /\ Tracked \subseteq Clients
        /\ table \in [Tracked -> Entry]
    BY DEF IInv, TypeOK
  <2> HIDE DEF entry
  <2>5. Counted(entry) \in Entry /\ (\/ Counted(entry).lockedUntil = entry.lockedUntil
                                     \/ Counted(entry).lockedUntil <= now + Cap)
    BY <2>3, <2>4, CountedEntry
  <2>6. Counted(entry).lockedUntil <= now + Cap
    <3>1. entry.lockedUntil <= now + Cap
      <4>1. CASE entry.lockedUntil = 0
        BY <2>4, <4>1
      <4>2. CASE c \in Tracked /\ entry.lockedUntil = table[c].lockedUntil
        <5>1. table[c].lockedUntil <= failed[c] + Cap /\ failed[c] <= now
          BY <4>2, <2>4 DEF IInv, LockoutsEnd, PastFailures
        <5> QED BY <5>1, <4>2, <2>4 DEF Entry
      <4> QED BY <2>3, <4>1, <4>2
    <3> QED BY <2>5, <3>1
  <2>7. Tracked' = (Tracked \ gone) \cup {c}
    BY <2>1 DEF Tracked
  <2>8. table' \in [Tracked' -> Entry]
    BY <2>1, <2>4, <2>5, <2>7
  <2>9. verifying' \in [Clients -> 0 .. Parallel]
    BY <2>2 DEF Done, IInv, TypeOK
  <2>10. /\ since' \in [Clients -> Nat] /\ spent' \in [Clients -> Nat]
         /\ evictions' \in [Clients -> Nat]
    BY <2>1, <2>2 DEF IInv, TypeOK
  <2>11. TypeOK'
    BY <2>2, <2>4, <2>7, <2>8, <2>9, <2>10 DEF TypeOK, IInv
  <2>12. PastFailures'
    BY <2>2, <2>4 DEF PastFailures, IInv
  <2>13. HonestNeverSlowed'
    BY <2>2, <2>7 DEF HonestNeverSlowed, IInv
  <2>14. LockoutsEnd'
    <3> SUFFICES ASSUME NEW d \in Tracked' PROVE table'[d].lockedUntil <= failed'[d] + Cap
      BY DEF LockoutsEnd
    <3>1. CASE d = c
      BY <3>1, <2>1, <2>2, <2>4, <2>6, <2>7
    <3>2. CASE d # c
      <4>1. d \in Tracked /\ table'[d] = table[d] /\ failed'[d] = failed[d]
        BY <3>2, <2>1, <2>2, <2>4, <2>7
      <4> QED BY <4>1 DEF IInv, LockoutsEnd
    <3> QED BY <3>1, <3>2
  <2> QED BY <2>11, <2>12, <2>13, <2>14 DEF IInv
<1>3. ASSUME NEW c \in Clients, recordSuccess(c) PROVE IInv'
  <2>1. /\ Done(c) /\ table' = [d \in Tracked \ {c} |-> table[d]]
        /\ since' = [since EXCEPT ![c] = now] /\ spent' = [spent EXCEPT ![c] = verifying'[c]]
        /\ evictions' = [evictions EXCEPT ![c] = 0]
        /\ UNCHANGED <<now, failed, guessed>>
    BY <1>3 DEF recordSuccess, Restrict
  <2>2. Tracked' = Tracked \ {c} /\ table' \in [Tracked' -> Entry]
    BY <2>1 DEF Tracked, IInv, TypeOK
  <2>3. verifying' \in [Clients -> 0 .. Parallel]
    BY <2>1 DEF Done, IInv, TypeOK
  <2>4. /\ since' \in [Clients -> Nat] /\ spent' \in [Clients -> Nat]
        /\ evictions' \in [Clients -> Nat]
    <3>1. verifying'[c] \in Nat
      BY <2>3
    <3> QED BY <2>1, <3>1 DEF IInv, TypeOK
  <2>5. TypeOK'
    BY <2>1, <2>2, <2>3, <2>4 DEF TypeOK, IInv
  <2> QED BY <2>1, <2>2, <2>5 DEF IInv, PastFailures, HonestNeverSlowed, LockoutsEnd
<1>4. CASE Tick
  BY <1>4 DEF Tick, IInv, TypeOK, PastFailures, HonestNeverSlowed, LockoutsEnd, Tracked
<1>5. CASE UNCHANGED vars
  BY <1>5 DEF vars, IInv, TypeOK, PastFailures, HonestNeverSlowed, LockoutsEnd, Tracked
<1> QED BY <1>1, <1>2, <1>3, <1>4, <1>5 DEF Next

(* The invariant holds always. *)
LEMMA Invariant == Spec => []IInv
BY InitIInv, NextIInv, PTL DEF Spec

(* The variables keep their types. *)
THEOREM TypeCorrect == Spec => []TypeOK
<1>1. IInv => TypeOK
  BY DEF IInv
<1> QED BY <1>1, Invariant, PTL

(* A client that never presented a wrong credential has no record, so a correct
   credential is never slowed down by somebody else's guessing. *)
THEOREM HonestServed == Spec => []HonestNeverSlowed
<1>1. IInv => HonestNeverSlowed
  BY DEF IInv
<1> QED BY <1>1, Invariant, PTL

(* Refused requests do not make a lockout longer. *)
THEOREM LockoutsRunOut == Spec => []LockoutsEnd
<1>1. IInv => LockoutsEnd
  BY DEF IInv
<1> QED BY <1>1, Invariant, PTL

-----------------------------------------------------------------------------
(* The table's size. *)

(* Whoever leaves a full table was in it. *)
LEMMA TableInduction == IInv /\ TableBounded /\ [Next]_vars => TableBounded'
<1> SUFFICES ASSUME IInv, TableBounded, [Next]_vars PROVE TableBounded'
  OBVIOUS
<1>1. IsFiniteSet(Tracked) /\ Cardinality(Tracked) \in Nat /\ Cardinality(Tracked) <= MaxTracked
      /\ MaxTracked \in Nat \ {0}
  BY LimiterAssumption, FS_Subset, FS_CardinalityType DEF LimiterAssumption, IInv, TypeOK, TableBounded
<1>2. ASSUME NEW c \in Clients, Ask(c) PROVE TableBounded'
  <2>1. Tracked' = Tracked
    BY <1>2 DEF Ask, AfterRefusal, Tracked, IInv, TypeOK
  <2> QED BY <2>1 DEF TableBounded
<1>3. ASSUME NEW c \in Clients, recordFailure(c) PROVE TableBounded'
  <2>1. PICK gone \in IF c \in Tracked THEN {{}} ELSE evictLocked : Tracked' = (Tracked \ gone) \cup {c}
    BY <1>3 DEF recordFailure, Tracked
  <2>2. CASE c \in Tracked
    <3>1. Tracked' = Tracked
      BY <2>1, <2>2
    <3> QED BY <3>1 DEF TableBounded
  <2>3. CASE c \notin Tracked /\ Cardinality(Tracked) < MaxTracked
    <3>1. Tracked' = Tracked \cup {c}
      BY <2>1, <2>3 DEF evictLocked
    <3>2. Cardinality(Tracked') = Cardinality(Tracked) + 1
      BY <1>1, <2>3, <3>1, FS_AddElement
    <3> QED BY <1>1, <2>3, <3>2 DEF TableBounded
  <2>4. CASE c \notin Tracked /\ ~(Cardinality(Tracked) < MaxTracked)
    <3>1. PICK victim \in Tracked : gone = {victim}
      BY <2>1, <2>4 DEF evictLocked, Victims
    <3>2. IsFiniteSet(Tracked \ {victim}) /\ Cardinality(Tracked \ {victim}) = Cardinality(Tracked) - 1
      BY <1>1, FS_RemoveElement
    <3>3. Cardinality((Tracked \ {victim}) \cup {c}) = Cardinality(Tracked) - 1 + 1
      BY <2>4, <3>2, FS_AddElement
    <3>4. Tracked' = (Tracked \ {victim}) \cup {c}
      BY <2>1, <3>1
    <3> QED BY <1>1, <3>3, <3>4 DEF TableBounded
  <2> QED BY <2>2, <2>3, <2>4
<1>4. ASSUME NEW c \in Clients, recordSuccess(c) PROVE TableBounded'
  <2>1. Tracked' = Tracked \ {c}
    BY <1>4 DEF recordSuccess, Restrict, Tracked
  <2>2. Cardinality(Tracked \ {c}) <= Cardinality(Tracked) /\ Cardinality(Tracked \ {c}) \in Nat
    BY <1>1, FS_Subset, FS_CardinalityType
  <2> QED BY <1>1, <2>1, <2>2 DEF TableBounded
<1>5. CASE Tick \/ UNCHANGED vars
  BY <1>5 DEF Tick, vars, TableBounded, Tracked
<1> QED BY <1>2, <1>3, <1>4, <1>5 DEF Next

(* The table never outgrows its limit, although clients are forgotten to let
   others in. *)
THEOREM TableStaysBounded == Spec => []TableBounded
<1>1. Init => TableBounded
  BY FS_EmptySet, LimiterAssumption DEF LimiterAssumption, Init, TableBounded, Tracked
<1> QED BY <1>1, Invariant, TableInduction, PTL DEF Spec

-----------------------------------------------------------------------------
(* Counting up: a set of numbers that has 0 and with each number the next one
   has them all, and what is computed number by number exists. *)

LEMMA LeastOf ==
  ASSUME NEW S \in SUBSET Nat, S # {}
  PROVE  \E m \in S : \A x \in S : m <= x
<1> DEFINE Upto(x) == 1 .. x
           T == {Upto(x) : x \in S}
<1>1. T \subseteq FiniteSubsetsOf(Nat)
  <2>1. \A x \in S : Upto(x) \in SUBSET Nat /\ IsFiniteSet(Upto(x))
    BY FS_Interval
  <2> QED BY <2>1 DEF FiniteSubsetsOf
<1>2. PICK A \in T : \A B \in T : <<B, A>> \notin StrictSubsetOrdering(Nat)
  <2>1. T # {}
    OBVIOUS
  <2>2. IsWellFoundedOn(StrictSubsetOrdering(Nat), FiniteSubsetsOf(Nat))
    BY FS_StrictSubsetOrderingWellFounded
  <2> HIDE DEF T
  <2> QED BY <1>1, <2>1, <2>2, WFMin
<1>3. PICK m \in S : A = Upto(m)
  OBVIOUS
<1>4. ASSUME NEW x \in S, x < m PROVE FALSE
  <2>1. Upto(x) \subseteq Upto(m) /\ m \in Upto(m) /\ m \notin Upto(x)
    BY <1>4
  <2>2. <<Upto(x), Upto(m)>> \in StrictSubsetOrdering(Nat)
    BY <2>1 DEF StrictSubsetOrdering
  <2> QED BY <1>2, <1>3, <2>2
<1> QED BY <1>4

LEMMA EveryNumber ==
  ASSUME NEW S, 0 \in S, \A n \in Nat : n \in S => n + 1 \in S
  PROVE  \A n \in Nat : n \in S
<1> DEFINE M == {n \in Nat : n \notin S}
<1> SUFFICES ASSUME M # {} PROVE FALSE
  OBVIOUS
<1>1. PICK m \in M : \A x \in M : m <= x
  BY LeastOf
<1>2. m \in Nat /\ m \notin S /\ m # 0
  OBVIOUS
<1>3. m - 1 \in Nat /\ m - 1 \in S
  BY <1>1, <1>2
<1> QED BY <1>2, <1>3

LEMMA Recursion ==
  ASSUME NEW a \in Nat, NEW G \in [Nat -> [Nat -> Nat]]
  PROVE  \E f \in [Nat -> Nat] : f = [n \in Nat |-> IF n = 0 THEN a ELSE G[n - 1][f[n - 1]]]
<1> DEFINE Upto(n, g) == /\ g \in [0 .. n -> Nat] /\ g[0] = a
                         /\ \A k \in 1 .. n : g[k] = G[k - 1][g[k - 1]]
           S == {n \in Nat : \E g : Upto(n, g)}
<1>1. 0 \in S
  <2>1. Upto(0, [k \in 0 .. 0 |-> a])
    OBVIOUS
  <2> QED BY <2>1
<1>2. ASSUME NEW n \in Nat, n \in S PROVE n + 1 \in S
  <2>1. PICK g : Upto(n, g)
    BY <1>2
  <2> DEFINE h == [k \in 0 .. n + 1 |-> IF k = n + 1 THEN G[n][g[n]] ELSE g[k]]
  <2>2. g[n] \in Nat /\ G[n] \in [Nat -> Nat] /\ G[n][g[n]] \in Nat
    <3>1. n \in 0 .. n
      OBVIOUS
    <3>2. g[n] \in Nat
      BY <2>1, <3>1
    <3> QED BY <3>2
  <2>3. \A k \in 0 .. n + 1 : h[k] = IF k = n + 1 THEN G[n][g[n]] ELSE g[k]
    OBVIOUS
  <2>4. DOMAIN h = 0 .. n + 1 /\ h = [k \in 0 .. n + 1 |-> h[k]]
    OBVIOUS
  <2> HIDE DEF h
  <2>5. \A k \in 0 .. n : h[k] = g[k]
    BY <2>3
  <2>6. h[n + 1] = G[n][g[n]]
    BY <2>3
  <2>7. \A k \in 0 .. n + 1 : h[k] \in Nat
    <3> TAKE k \in 0 .. n + 1
    <3>1. k = n + 1 \/ k \in 0 .. n
      OBVIOUS
    <3> QED BY <2>1, <2>2, <2>5, <2>6, <3>1
  <2>8. h \in [0 .. n + 1 -> Nat] /\ h[0] = a
    <3>1. 0 \in 0 .. n
      OBVIOUS
    <3>2. h[0] = a
      BY <2>1, <2>5, <3>1
    <3>3. h \in [0 .. n + 1 -> Nat]
      BY <2>4, <2>7
    <3> QED BY <3>2, <3>3
  <2>9. \A k \in 1 .. n + 1 : h[k] = G[k - 1][h[k - 1]]
    <3> TAKE k \in 1 .. n + 1
    <3>1. CASE k = n + 1
      <4>1. n \in 0 .. n /\ k - 1 = n
        BY <3>1
      <4>2. h[n] = g[n]
        BY <2>5, <4>1
      <4> QED BY <2>6, <3>1, <4>1, <4>2
    <3>2. CASE k # n + 1
      <4>1. k \in 1 .. n /\ k \in 0 .. n /\ k - 1 \in 0 .. n
        BY <3>2
      <4>2. h[k] = g[k] /\ h[k - 1] = g[k - 1]
        BY <2>5, <4>1
      <4> QED BY <2>1, <4>1, <4>2
    <3> QED BY <3>1, <3>2
  <2>10. Upto(n + 1, h)
    BY <2>8, <2>9
  <2>11. \E i : Upto(n + 1, i)
    <3> HIDE DEF Upto
    <3> QED BY <2>10
  <2> HIDE DEF Upto
  <2> QED BY <2>11
<1>3. \A n \in Nat : n \in S
  <2> HIDE DEF S
  <2> QED BY <1>1, <1>2, EveryNumber
<1>4. ASSUME NEW n \in Nat, NEW g, Upto(n, g), NEW m \in Nat, NEW h, Upto(m, h), n <= m
      PROVE  g[n] = h[n]
  <2> DEFINE E == {k \in Nat : k <= n => g[k] = h[k]}
  <2>1. 0 \in E
    BY <1>4
  <2>2. ASSUME NEW k \in Nat, k \in E PROVE k + 1 \in E
    <3> SUFFICES ASSUME k + 1 <= n PROVE g[k + 1] = h[k + 1]
      OBVIOUS
    <3>1. g[k] = h[k] /\ k + 1 \in 1 .. n /\ k + 1 \in 1 .. m /\ (k + 1) - 1 = k
      BY <1>4, <2>2
    <3> QED BY <1>4, <3>1
  <2>3. n \in E
    <3> HIDE DEF E
    <3> QED BY <2>1, <2>2, EveryNumber
  <2> QED BY <2>3
<1> DEFINE best(n) == CHOOSE g : Upto(n, g)
           f == [n \in Nat |-> best(n)[n]]
<1>5. \A n \in Nat : Upto(n, best(n))
  BY <1>3
<1>6. f \in [Nat -> Nat]
  <2>1. ASSUME NEW n \in Nat PROVE best(n)[n] \in Nat
    <3> HIDE DEF best
    <3> QED BY <1>5
  <2> HIDE DEF best
  <2> QED BY <2>1
<1>7. \A n \in Nat : f[n] = IF n = 0 THEN a ELSE G[n - 1][f[n - 1]]
  <2> TAKE n \in Nat
  <2> HIDE DEF best
  <2>1. CASE n = 0
    BY <1>5, <2>1
  <2>2. CASE n # 0
    <3>1. n - 1 \in Nat /\ n - 1 <= n /\ n \in 1 .. n
      BY <2>2
    <3>2. Upto(n, best(n)) /\ Upto(n - 1, best(n - 1))
      BY <1>5, <3>1
    <3>3. best(n - 1)[n - 1] = best(n)[n - 1]
      <4> HIDE DEF Upto
      <4> QED BY <1>4, <3>1, <3>2
    <3>4. best(n)[n] = G[n - 1][best(n)[n - 1]]
      BY <3>1, <3>2
    <3> QED BY <2>2, <3>1, <3>3, <3>4
  <2> QED BY <2>1, <2>2
<1>8. f = [n \in Nat |-> IF n = 0 THEN a ELSE G[n - 1][f[n - 1]]]
  <2> HIDE DEF f
  <2> QED BY <1>6, <1>7
<1> QED BY <1>6, <1>8

-----------------------------------------------------------------------------
(* Doubling, and the time lockouts take. *)

LEMMA DoublesDouble ==
  ASSUME NEW base \in Nat
  PROVE  /\ Doubles(base) \in [Nat -> Nat] /\ Doubles(base)[0] = base
         /\ \A n \in Nat : Doubles(base)[n + 1] = 2 * Doubles(base)[n]
<1> DEFINE D == Doubles(base)
           G == [n \in Nat |-> [d \in Nat |-> 2 * d]]
<1>1. G \in [Nat -> [Nat -> Nat]]
  OBVIOUS
<1>2. PICK f \in [Nat -> Nat] : f = [n \in Nat |-> IF n = 0 THEN base ELSE G[n - 1][f[n - 1]]]
  <2> HIDE DEF G
  <2> QED BY <1>1, Recursion
<1>3. \A n \in Nat : (IF n = 0 THEN base ELSE G[n - 1][f[n - 1]]) = (IF n = 0 THEN base ELSE 2 * f[n - 1])
  OBVIOUS
<1>4. f = [n \in Nat |-> IF n = 0 THEN base ELSE 2 * f[n - 1]]
  BY <1>2, <1>3
<1>5. D = [n \in Nat |-> IF n = 0 THEN base ELSE 2 * D[n - 1]]
  BY <1>4 DEF Doubles
<1> HIDE DEF D
<1>6. \A n \in Nat : D[n] = IF n = 0 THEN base ELSE 2 * D[n - 1]
  BY <1>5
<1>7. D[0] = base /\ \A n \in Nat : D[n + 1] = 2 * D[n]
  BY <1>6
<1>8. \A n \in Nat : D[n] \in Nat
  <2> DEFINE S == {n \in Nat : D[n] \in Nat}
  <2>1. 0 \in S /\ \A n \in Nat : n \in S => n + 1 \in S
    BY <1>1, <1>7
  <2> HIDE DEF S
  <2>2. \A n \in Nat : n \in S
    BY <2>1, EveryNumber
  <2> QED BY <2>2 DEF S
<1> QED BY <1>5, <1>7, <1>8 DEF D

(* Doubling starts at the limiter's base and doubles. *)
LEMMA Doubling ==
  /\ Doubles(Base) \in [Nat -> Nat]
  /\ Doubles(Base)[0] = Base
  /\ \A n \in Nat : Doubles(Base)[n + 1] = 2 * Doubles(Base)[n]
BY LimiterAssumption, DoublesDouble DEF LimiterAssumption

(* Doubling never shrinks, and never comes to nothing. *)
LEMMA DoublingGrows ==
  ASSUME NEW n \in Nat, NEW k \in Nat
  PROVE  1 <= Doubles(Base)[n] /\ Doubles(Base)[n] <= Doubles(Base)[n + k]
<1> DEFINE P == {i \in Nat : 1 <= Doubles(Base)[i]}
           S == {i \in Nat : Doubles(Base)[n] <= Doubles(Base)[n + i]}
<1>1. \A i \in Nat : Doubles(Base)[i] \in Nat /\ Doubles(Base)[i + 1] = 2 * Doubles(Base)[i]
  BY Doubling
<1>2. 0 \in P /\ \A i \in Nat : i \in P => i + 1 \in P
  BY <1>1, Doubling, LimiterAssumption DEF LimiterAssumption
<1>3. 0 \in S
  BY <1>1
<1>4. ASSUME NEW i \in Nat, i \in S PROVE i + 1 \in S
  <2>1. n + i \in Nat /\ n + (i + 1) = (n + i) + 1
    OBVIOUS
  <2>2. Doubles(Base)[n + (i + 1)] = 2 * Doubles(Base)[n + i] /\ Doubles(Base)[n + i] \in Nat
    BY <1>1, <2>1
  <2> QED BY <1>1, <1>4, <2>2
<1>5. n \in P /\ k \in S
  <2> HIDE DEF P, S
  <2> QED BY <1>2, <1>3, <1>4, EveryNumber
<1> QED BY <1>5

(* Whoever failed n times past the threshold waits at least as long as the
   lockout after n lockouts is. *)
LEMMA BackoffLasts ==
  ASSUME NEW n \in Nat, NEW failures \in Nat, Threshold + n <= failures
  PROVE  Lesser(Doubles(Base)[n], Cap) <= backoffFor(failures)
<1> USE LimiterAssumption DEF LimiterAssumption
<1> DEFINE shift == failures - Threshold
<1>1. shift - n \in Nat /\ shift = n + (shift - n) /\ shift \in Nat
  OBVIOUS
<1>2. Doubles(Base)[n] <= Doubles(Base)[shift] /\ Doubles(Base)[n] \in Nat /\ Doubles(Base)[shift] \in Nat
  BY <1>1, DoublingGrows, Doubling
<1>3. backoffFor(failures) = Cap \/ backoffFor(failures) = Doubles(Base)[shift]
  BY DEF backoffFor
<1> QED BY <1>2, <1>3 DEF Lesser

(* The time n lockouts in a row take. *)
LEMMA Waiting ==
  /\ Waited \in [Nat -> Nat]
  /\ Waited[0] = 0
  /\ \A n \in Nat : Waited[n + 1] = Waited[n] + Lesser(Doubles(Base)[n], Cap)
<1> DEFINE length(n) == Lesser(Doubles(Base)[n], Cap)
           G == [n \in Nat |-> [w \in Nat |-> w + length(n)]]
<1>1. \A n \in Nat : length(n) \in Nat
  BY Doubling, LimiterAssumption DEF LimiterAssumption, Lesser
<1>2. G \in [Nat -> [Nat -> Nat]]
  <2> HIDE DEF length
  <2> QED BY <1>1
<1>3. PICK f \in [Nat -> Nat] : f = [n \in Nat |-> IF n = 0 THEN 0 ELSE G[n - 1][f[n - 1]]]
  <2> HIDE DEF G
  <2> QED BY <1>2, Recursion
<1>4. f = [n \in Nat |-> IF n = 0 THEN 0 ELSE f[n - 1] + length(n - 1)]
  <2>1. \A n \in Nat : (IF n = 0 THEN 0 ELSE G[n - 1][f[n - 1]])
                       = (IF n = 0 THEN 0 ELSE f[n - 1] + length(n - 1))
    <3> HIDE DEF length
    <3> QED OBVIOUS
  <2> QED BY <1>3, <2>1
<1>5. Waited = [n \in Nat |-> IF n = 0 THEN 0 ELSE Waited[n - 1] + length(n - 1)]
  BY <1>4 DEF Waited
<1> HIDE DEF length
<1>6. \A n \in Nat : Waited[n] = IF n = 0 THEN 0 ELSE Waited[n - 1] + length(n - 1)
  BY <1>5
<1>7. Waited[0] = 0 /\ \A n \in Nat : Waited[n + 1] = Waited[n] + length(n)
  BY <1>6
<1>8. \A n \in Nat : Waited[n] \in Nat
  <2> DEFINE S == {n \in Nat : Waited[n] \in Nat}
  <2>1. 0 \in S /\ \A n \in Nat : n \in S => n + 1 \in S
    BY <1>1, <1>7
  <2> HIDE DEF S
  <2>2. \A n \in Nat : n \in S
    BY <2>1, EveryNumber
  <2> QED BY <2>2 DEF S
<1> QED BY <1>5, <1>7, <1>8 DEF length

(* No lockout is over at once: n of them take n units of time or more, and one
   more takes longer. *)
LEMMA WaitingGrows ==
  ASSUME NEW n \in Nat, NEW k \in Nat
  PROVE  n <= Waited[n] /\ Waited[n] <= Waited[n + k]
<1> USE LimiterAssumption DEF LimiterAssumption
<1> DEFINE P == {i \in Nat : i <= Waited[i]}
           S == {i \in Nat : Waited[n] <= Waited[n + i]}
<1>1. \A i \in Nat : Waited[i] \in Nat /\ Waited[i] + 1 <= Waited[i + 1]
  <2> TAKE i \in Nat
  <2>1. Doubles(Base)[i] \in Nat /\ 1 <= Doubles(Base)[i]
    BY Doubling, DoublingGrows
  <2>2. Lesser(Doubles(Base)[i], Cap) \in Nat /\ 1 <= Lesser(Doubles(Base)[i], Cap)
    BY <2>1 DEF Lesser
  <2>3. Waited[i] \in Nat /\ Waited[i + 1] = Waited[i] + Lesser(Doubles(Base)[i], Cap)
    BY Waiting
  <2> QED BY <2>2, <2>3
<1>2. 0 \in P /\ \A i \in Nat : i \in P => i + 1 \in P
  <2>1. \A i \in Nat : i + 1 \in Nat /\ Waited[i + 1] \in Nat
    BY <1>1
  <2> QED BY <1>1, <2>1
<1>3. 0 \in S
  BY <1>1
<1>4. ASSUME NEW i \in Nat, i \in S PROVE i + 1 \in S
  <2>1. n + i \in Nat /\ n + (i + 1) = (n + i) + 1 /\ n + (i + 1) \in Nat
    OBVIOUS
  <2>2. Waited[n + i] + 1 <= Waited[n + (i + 1)] /\ Waited[n + i] \in Nat /\ Waited[n + (i + 1)] \in Nat
    BY <1>1, <2>1
  <2> QED BY <1>1, <1>4, <2>2
<1>5. n \in P /\ k \in S
  <2> HIDE DEF P, S
  <2> QED BY <1>2, <1>3, <1>4, EveryNumber
<1> QED BY <1>5

-----------------------------------------------------------------------------
(* The budget of guesses. *)

(* The failures on a client's record. *)
FailuresOf(c) == IF c \in Tracked THEN table[c].failures ELSE 0

(* What a client may have spent on one record once n lockouts ran out. *)
Allowed(n) == Threshold - 1 + Parallel * (1 + n)

(* A client n lockouts on: as much time has passed, each lockout was a failure's,
   and either the next one has been set or there is room for another round. *)
LockoutsOn(c, n) ==
    /\ since[c] + Waited[n] <= now
    /\ FailuresOf(c) + verifying[c] <= Allowed(n)
    /\ n = 0 \/ Threshold - 1 + n <= FailuresOf(c)
    /\ Threshold <= FailuresOf(c) =>
          \/ /\ Threshold + n <= FailuresOf(c)
             /\ since[c] + Waited[n + 1] <= table[c].lockedUntil
          \/ FailuresOf(c) + Parallel <= Allowed(n)

(* What is neither on a client's record nor still running was on the records that
   were given up, none of them more than m lockouts on. *)
Paid(c, m) ==
    /\ since[c] + Waited[m] <= now
    /\ spent[c] <= FailuresOf(c) + verifying[c] + evictions[c] * Allowed(m)

(* Every verification on the record, or still running, is counted. *)
Charged == \A c \in Clients : FailuresOf(c) + verifying[c] <= spent[c]

Budgeted == \A c \in Clients : \E n \in Nat : LockoutsOn(c, n)

Bought == \A c \in Clients : \E m \in Nat : Paid(c, m)

(* A larger allowance on as many records is no less. *)
LEMMA OnMoreRecords ==
  ASSUME NEW e \in Nat, NEW a \in Nat, NEW b \in Nat, a <= b
  PROVE  /\ e * a \in Nat /\ e * a <= e * b /\ (e + 1) * a = e * a + a
         /\ (1 + e) * a = a + e * a
<1>1. e * a \in Nat /\ (e + 1) * a = e * a + a /\ (1 + e) * a = a + e * a
  OBVIOUS
<1>2. e * (b - a) \in Nat /\ e * b = e * a + e * (b - a)
  OBVIOUS
<1> QED BY <1>1, <1>2

(* Each lockout that runs out allows as many more as are sent at once. *)
LEMMA Allowance ==
  ASSUME NEW n \in Nat
  PROVE  /\ Allowed(n) \in Nat /\ Allowed(n + 1) = Allowed(n) + Parallel
         /\ Threshold - 1 + Parallel <= Allowed(n)
<1>1. Parallel \in Nat /\ Threshold - 1 \in Nat
  BY LimiterAssumption DEF LimiterAssumption
<1>2. Parallel * n \in Nat /\ Parallel * (1 + n) = Parallel + Parallel * n
      /\ Parallel * (1 + (n + 1)) = Parallel + (Parallel + Parallel * n)
  BY <1>1
<1> QED BY <1>1, <1>2 DEF Allowed

LEMMA AllowanceGrows ==
  ASSUME NEW n \in Nat, NEW m \in Nat, n <= m PROVE Allowed(n) <= Allowed(m)
<1> DEFINE S == {k \in Nat : Allowed(n) <= Allowed(n + k)}
<1>1. 0 \in S
  BY Allowance
<1>2. ASSUME NEW k \in Nat, k \in S PROVE k + 1 \in S
  <2>1. n + k \in Nat /\ n + (k + 1) = (n + k) + 1
    OBVIOUS
  <2>2. Allowed((n + k) + 1) = Allowed(n + k) + Parallel /\ Allowed(n + k) \in Nat /\ Allowed(n) \in Nat
    BY <2>1, Allowance
  <2>3. Parallel \in Nat
    BY LimiterAssumption DEF LimiterAssumption
  <2> HIDE DEF Allowed
  <2> QED BY <1>2, <2>1, <2>2, <2>3
<1>3. m - n \in Nat /\ n + (m - n) = m
  OBVIOUS
<1>4. m - n \in S
  <2> HIDE DEF S
  <2> QED BY <1>1, <1>2, <1>3, EveryNumber
<1> QED BY <1>3, <1>4

(* A client without failures has its free ones and a round of requests. *)
LEMMA FreshStart ==
  ASSUME NEW c \in Clients, FailuresOf(c)' = 0, since'[c] \in Nat, now' \in Nat, since'[c] <= now',
         verifying'[c] \in Nat, verifying'[c] <= Parallel
  PROVE  LockoutsOn(c, 0)'
<1>1. Waited[0] = 0 /\ Threshold - 1 + Parallel <= Allowed(0) /\ Allowed(0) \in Nat
  BY Waiting, Allowance
<1>2. FailuresOf(c)' + verifying'[c] <= Allowed(0)
  BY <1>1, LimiterAssumption DEF LimiterAssumption
<1> QED BY <1>1, <1>2, LimiterAssumption DEF LimiterAssumption, LockoutsOn, Allowed

(* A step that touches nothing of a client leaves it where it is. *)
LEMMA LockoutsStay ==
  ASSUME NEW c, NEW n \in Nat, LockoutsOn(c, n), TypeOK, TypeOK', c \in Clients,
         now <= now', since'[c] = since[c], verifying'[c] = verifying[c],
         (c \in Tracked') <=> (c \in Tracked),
         c \in Tracked => /\ table'[c].failures = table[c].failures
                          /\ table'[c].lockedUntil = table[c].lockedUntil
  PROVE  LockoutsOn(c, n)' /\ FailuresOf(c)' = FailuresOf(c)
<1>1. FailuresOf(c)' = FailuresOf(c)
  BY DEF FailuresOf
<1>2. Waited[n] \in Nat /\ Waited[n + 1] \in Nat
  BY Waiting
<1>3. now \in Nat /\ now' \in Nat /\ since[c] \in Nat
  BY DEF TypeOK
<1>4. since'[c] + Waited[n] <= now'
  BY <1>2, <1>3 DEF LockoutsOn
<1>5. Threshold <= FailuresOf(c) => c \in Tracked
  BY LimiterAssumption DEF LimiterAssumption, FailuresOf
<1>6. Threshold <= FailuresOf(c)' =>
          \/ /\ Threshold + n <= FailuresOf(c)'
             /\ since'[c] + Waited[n + 1] <= table'[c].lockedUntil
          \/ FailuresOf(c)' + Parallel <= Allowed(n)
  BY <1>1, <1>5 DEF LockoutsOn
<1> QED BY <1>1, <1>4, <1>6 DEF LockoutsOn, Allowed

(* What the budget rests on. *)
Budget == Charged /\ Budgeted /\ Bought /\ \A c \in Clients : since[c] <= now

(* A request that is let through finds its client's lockout over. *)
LEMMA AskedBudget ==
  ASSUME IInv, TypeOK', Budget, NEW c \in Clients, Ask(c)
  PROVE  Budget'
<1> USE LimiterAssumption DEF LimiterAssumption
<1>1. TypeOK /\ now' = now /\ now \in Nat /\ verifying[c] < Parallel
  BY DEF IInv, TypeOK, Ask
<1>2. CASE Locked(c)
  <2>1. UNCHANGED <<table, verifying, since, spent, evictions, now>>
    BY <1>2 DEF Ask, AfterRefusal
  <2> QED BY <2>1 DEF Budget, Charged, Budgeted, Bought, LockoutsOn, Paid, FailuresOf, Tracked, Allowed
<1>3. CASE ~Locked(c)
  <2>1. /\ table' = IF c \in Tracked THEN [table EXCEPT ![c].lastSeen = now] ELSE table
        /\ verifying' = [verifying EXCEPT ![c] = @ + 1]
        /\ since' = (IF spent[c] = 0 THEN [since EXCEPT ![c] = now] ELSE since)
        /\ spent' = [spent EXCEPT ![c] = @ + 1] /\ evictions' = evictions
    BY <1>3 DEF Ask
  <2>2. Tracked' = Tracked
    BY <1>1, <2>1 DEF TypeOK, Tracked
  <2>3. \A d \in Tracked : /\ table'[d].failures = table[d].failures
                           /\ table'[d].lockedUntil = table[d].lockedUntil
    BY <1>1, <2>1 DEF TypeOK, Tracked, Entry
  <2>4. \A d \in Clients : FailuresOf(d)' = FailuresOf(d) /\ FailuresOf(d) \in Nat
    <3>1. \A d \in Clients : FailuresOf(d)' = FailuresOf(d)
      BY <2>2, <2>3 DEF FailuresOf
    <3>2. \A d \in Clients : FailuresOf(d) \in Nat
      BY <1>1 DEF TypeOK, FailuresOf, Entry
    <3> QED BY <3>1, <3>2
  <2>5. /\ \A d \in Clients \ {c} : verifying'[d] = verifying[d] /\ since'[d] = since[d]
                                    /\ spent'[d] = spent[d]
        /\ verifying'[c] = verifying[c] + 1 /\ spent'[c] = spent[c] + 1
        /\ since'[c] = IF spent[c] = 0 THEN now ELSE since[c]
        /\ verifying[c] \in Nat /\ spent[c] \in Nat /\ since[c] \in Nat
    BY <1>1, <2>1 DEF TypeOK
  <2>6. Charged'
    <3> SUFFICES ASSUME NEW d \in Clients PROVE FailuresOf(d)' + verifying'[d] <= spent'[d]
      BY DEF Charged
    <3>1. FailuresOf(d) + verifying[d] <= spent[d]
      BY DEF Budget, Charged
    <3>2. CASE d = c
      BY <2>4, <2>5, <3>1, <3>2
    <3>3. CASE d # c
      BY <2>4, <2>5, <3>1, <3>3
    <3> QED BY <3>2, <3>3
  <2>7. \A d \in Clients : since'[d] <= now'
    <3> TAKE d \in Clients
    <3>1. CASE d = c
      BY <1>1, <2>5, <3>1 DEF Budget
    <3>2. CASE d # c
      BY <1>1, <2>5, <3>2 DEF Budget
    <3> QED BY <3>1, <3>2
  <2>8. ASSUME NEW d \in Clients, d # c PROVE \E n \in Nat : LockoutsOn(d, n)'
    <3>1. PICK n \in Nat : LockoutsOn(d, n)
      BY DEF Budget, Budgeted
    <3>2. LockoutsOn(d, n)'
      BY <1>1, <2>2, <2>3, <2>5, <2>8, <3>1, LockoutsStay
    <3> QED BY <3>2
  <2>9. \E n \in Nat : LockoutsOn(c, n)'
    <3>1. PICK n \in Nat : LockoutsOn(c, n)
      BY DEF Budget, Budgeted
    <3>2. FailuresOf(c) + verifying[c] <= spent[c] /\ FailuresOf(c) \in Nat /\ Parallel \in Nat
      BY <2>4 DEF Budget, Charged
    <3>3. /\ Waited[n] \in Nat /\ Waited[n + 1] \in Nat /\ Allowed(n) \in Nat
          /\ Allowed(n + 1) = Allowed(n) + Parallel /\ Threshold - 1 + Parallel <= Allowed(n)
          /\ Waited[0] = 0
      BY Waiting, Allowance
    <3>4. CASE FailuresOf(c) < Threshold
      <4>1. n = 0
        BY <3>1, <3>2, <3>4 DEF LockoutsOn
      <4>2. FailuresOf(c)' + verifying'[c] <= Allowed(0)
        BY <1>1, <2>4, <2>5, <3>2, <3>3, <3>4, <4>1
      <4>3. since'[c] + Waited[0] <= now'
        BY <1>1, <2>5, <2>7, <3>3
      <4>4. LockoutsOn(c, 0)'
        BY <2>4, <3>2, <3>4, <4>2, <4>3 DEF LockoutsOn, Allowed
      <4> QED BY <4>4
    <3>5. CASE ~(FailuresOf(c) < Threshold)
      <4>1. spent[c] # 0 /\ since'[c] = since[c] /\ c \in Tracked
        BY <2>5, <3>2, <3>5 DEF FailuresOf
      <4>2. CASE FailuresOf(c) + Parallel <= Allowed(n)
        <5>1. FailuresOf(c)' + verifying'[c] <= Allowed(n)
          BY <1>1, <2>4, <2>5, <3>2, <3>3, <4>2
        <5>2. LockoutsOn(c, n)'
          BY <1>1, <2>4, <3>1, <4>1, <4>2, <5>1 DEF LockoutsOn, Allowed
        <5> QED BY <5>2
      <4>3. CASE /\ Threshold + n <= FailuresOf(c)
                 /\ since[c] + Waited[n + 1] <= table[c].lockedUntil
        <5>1. table[c].lockedUntil <= now /\ table[c].lockedUntil \in Nat
          BY <1>1, <1>3, <4>1 DEF Locked, TypeOK, Entry
        <5>2. since'[c] + Waited[n + 1] <= now'
          BY <1>1, <2>5, <3>3, <4>1, <4>3, <5>1
        <5>3. FailuresOf(c) + verifying[c] <= Allowed(n)
          BY <3>1 DEF LockoutsOn
        <5>4. 1 <= Parallel
          BY <1>1, <2>5, <3>2
        <5>5. FailuresOf(c)' + verifying'[c] <= Allowed(n + 1) /\ FailuresOf(c)' + Parallel <= Allowed(n + 1)
              /\ Threshold - 1 + (n + 1) <= FailuresOf(c)'
          BY <2>4, <2>5, <3>2, <3>3, <4>3, <5>3, <5>4
        <5>6. LockoutsOn(c, n + 1)'
          BY <5>2, <5>5 DEF LockoutsOn, Allowed
        <5> QED BY <5>6
      <4> QED BY <3>1, <3>2, <3>5, <4>2, <4>3 DEF LockoutsOn
    <3> QED BY <3>4, <3>5
  <2>10. ASSUME NEW d \in Clients PROVE \E m \in Nat : Paid(d, m)'
    <3>1. PICK m \in Nat : Paid(d, m)
      BY DEF Budget, Bought
    <3>2. /\ Allowed(m) \in Nat /\ Allowed(0) \in Nat /\ Waited[m] \in Nat /\ Waited[0] = 0
          /\ FailuresOf(d) \in Nat /\ FailuresOf(d)' = FailuresOf(d)
          /\ evictions[d] \in Nat /\ evictions'[d] = evictions[d]
      BY <1>1, <2>1, <2>4, Allowance, Waiting DEF TypeOK
    <3>3. evictions[d] * Allowed(m) \in Nat /\ evictions[d] * Allowed(0) \in Nat
      BY <3>2, OnMoreRecords
    <3>4. /\ since[d] + Waited[m] <= now
          /\ spent[d] <= FailuresOf(d) + verifying[d] + evictions[d] * Allowed(m)
      BY <3>1 DEF Paid
    <3>5. CASE d = c /\ spent[c] = 0
      <4>1. since'[c] + Waited[0] <= now'
        BY <1>1, <2>5, <3>2, <3>5
      <4>2. spent'[c] <= FailuresOf(c)' + verifying'[c] + evictions'[c] * Allowed(0)
        BY <2>5, <3>2, <3>3, <3>5
      <4>3. Paid(c, 0)'
        BY <4>1, <4>2 DEF Paid, Allowed
      <4> QED BY <3>5, <4>3
    <3>6. CASE d = c /\ spent[c] # 0
      <4>1. spent'[c] <= FailuresOf(c)' + verifying'[c] + evictions'[c] * Allowed(m)
        BY <2>5, <3>2, <3>3, <3>4, <3>6
      <4>2. Paid(c, m)'
        BY <1>1, <2>5, <3>4, <3>6, <4>1 DEF Paid, Allowed
      <4> QED BY <3>6, <4>2
    <3>7. CASE d # c
      <4>1. Paid(d, m)'
        BY <1>1, <2>5, <3>2, <3>4, <3>7 DEF Paid, Allowed
      <4> QED BY <4>1
    <3> QED BY <3>5, <3>6, <3>7
  <2> QED BY <2>6, <2>7, <2>8, <2>9, <2>10 DEF Budget, Budgeted, Bought
<1> QED BY <1>2, <1>3

(* A failure recorded once the free ones are spent sets a lockout, the longer
   the more of them ran out before. *)
LEMMA FailedBudget ==
  ASSUME IInv, TypeOK', Budget, NEW c \in Clients, recordFailure(c)
  PROVE  Budget'
<1> USE LimiterAssumption DEF LimiterAssumption
<1> DEFINE entry == IF c \in Tracked THEN table[c] ELSE NoEntry
<1>1. PICK gone \in IF c \in Tracked THEN {{}} ELSE evictLocked :
        /\ table' = [d \in (Tracked \ gone) \cup {c} |-> IF d = c THEN Counted(entry) ELSE table[d]]
        /\ evictions' = [d \in Clients |-> evictions[d] + (IF d \in gone THEN 1 ELSE 0)]
  BY DEF recordFailure
<1>2. /\ verifying[c] > 0 /\ verifying' = [verifying EXCEPT ![c] = @ - 1]
      /\ UNCHANGED <<now, since, spent>> /\ TypeOK
  BY DEF recordFailure, Done, IInv
<1>3. gone \subseteq Tracked /\ c \notin gone
  BY <1>1 DEF evictLocked, Victims
<1>4. Tracked' = (Tracked \ gone) \cup {c} /\ table'[c] = Counted(entry)
      /\ \A d \in Tracked \ gone : d # c => table'[d] = table[d]
  BY <1>1 DEF Tracked
<1>5. /\ now \in Nat /\ \A d \in Clients : since[d] \in Nat /\ spent[d] \in Nat /\ verifying[d] \in 0 .. Parallel
      /\ \A d \in Clients : FailuresOf(d) \in Nat
  <2>1. \A d \in Clients : FailuresOf(d) \in Nat
    BY <1>2 DEF TypeOK, FailuresOf, Entry
  <2> QED BY <1>2, <2>1 DEF TypeOK
<1>6. entry.failures = FailuresOf(c) /\ entry \in Entry
  BY <1>2 DEF FailuresOf, TypeOK, NoEntry, Entry
<1> HIDE DEF entry
<1>7. /\ Counted(entry).failures = FailuresOf(c) + 1
      /\ Threshold <= FailuresOf(c) + 1 => Counted(entry).lockedUntil = now + backoffFor(FailuresOf(c) + 1)
  BY <1>6 DEF Counted
<1>8. /\ verifying'[c] = verifying[c] - 1 /\ \A d \in Clients : d # c => verifying'[d] = verifying[d]
      /\ \A d \in Clients : verifying'[d] \in 0 .. Parallel
  BY <1>2, <1>5 DEF TypeOK
<1>9. \A d \in Clients : /\ since'[d] = since[d] /\ spent'[d] = spent[d] /\ evictions[d] \in Nat
                         /\ evictions'[d] = IF d \in gone THEN evictions[d] + 1 ELSE evictions[d]
  BY <1>1, <1>2 DEF TypeOK
<1>10. /\ FailuresOf(c)' = FailuresOf(c) + 1
       /\ \A d \in gone : FailuresOf(d)' = 0
       /\ \A d \in Clients : d # c /\ d \notin gone => FailuresOf(d)' = FailuresOf(d)
  <2>1. FailuresOf(c)' = FailuresOf(c) + 1
    BY <1>4, <1>7 DEF FailuresOf
  <2>2. \A d \in gone : FailuresOf(d)' = 0
    BY <1>3, <1>4 DEF FailuresOf
  <2>3. \A d \in Clients : d # c /\ d \notin gone => FailuresOf(d)' = FailuresOf(d)
    BY <1>4 DEF FailuresOf
  <2> QED BY <2>1, <2>2, <2>3
<1>11. Charged'
  <2> SUFFICES ASSUME NEW d \in Clients PROVE FailuresOf(d)' + verifying'[d] <= spent'[d]
    BY DEF Charged
  <2>1. FailuresOf(d) + verifying[d] <= spent[d]
    BY DEF Budget, Charged
  <2>2. CASE d = c
    BY <1>3, <1>5, <1>8, <1>9, <1>10, <2>1, <2>2
  <2>3. CASE d \in gone
    BY <1>3, <1>5, <1>8, <1>9, <1>10, <2>1, <2>3
  <2>4. CASE d # c /\ d \notin gone
    BY <1>5, <1>8, <1>9, <1>10, <2>1, <2>4
  <2> QED BY <2>2, <2>3, <2>4
<1>12. \A d \in Clients : since'[d] <= now'
  BY <1>2, <1>5, <1>9 DEF Budget
<1>13. ASSUME NEW d \in gone, d \in Clients PROVE LockoutsOn(d, 0)'
  <2>1. /\ FailuresOf(d)' = 0 /\ since'[d] \in Nat /\ since'[d] <= now' /\ now' \in Nat
        /\ verifying'[d] \in 0 .. Parallel
    BY <1>2, <1>5, <1>8, <1>9, <1>10, <1>12, <1>13
  <2> QED BY <1>2, <1>5, <1>13, <2>1, FreshStart
<1>14. ASSUME NEW d \in Clients, d # c, d \notin gone PROVE \E n \in Nat : LockoutsOn(d, n)'
  <2>1. PICK n \in Nat : LockoutsOn(d, n)
    BY DEF Budget, Budgeted
  <2>2. /\ now <= now' /\ since'[d] = since[d] /\ verifying'[d] = verifying[d]
        /\ (d \in Tracked') <=> (d \in Tracked)
        /\ d \in Tracked => table'[d] = table[d]
    BY <1>2, <1>4, <1>5, <1>8, <1>9, <1>14
  <2>3. LockoutsOn(d, n)'
    BY <1>2, <1>14, <2>1, <2>2, LockoutsStay
  <2> QED BY <2>3
<1>15. \E n \in Nat : LockoutsOn(c, n)'
  <2>1. PICK n \in Nat : LockoutsOn(c, n)
    BY DEF Budget, Budgeted
  <2>2. /\ Waited[n] \in Nat /\ Waited[n + 1] = Waited[n] + Lesser(Doubles(Base)[n], Cap)
        /\ Doubles(Base)[n] \in Nat /\ Lesser(Doubles(Base)[n], Cap) \in Nat
    BY Waiting, Doubling DEF Lesser
  <2>3. since'[c] = since[c] /\ since[c] \in Nat /\ FailuresOf(c) \in Nat /\ verifying[c] \in Nat
    BY <1>3, <1>5, <1>9
  <2>4. since'[c] + Waited[n] <= now' /\ FailuresOf(c)' + verifying'[c] <= Allowed(n)
    <3>1. since[c] + Waited[n] <= now /\ FailuresOf(c) + verifying[c] <= Allowed(n)
      BY <2>1 DEF LockoutsOn
    <3>2. FailuresOf(c)' + verifying'[c] = FailuresOf(c) + verifying[c]
      BY <1>8, <1>10, <2>3
    <3> QED BY <1>2, <2>3, <3>1, <3>2
  <2>5. n = 0 \/ Threshold - 1 + n <= FailuresOf(c)'
    BY <1>10, <2>1, <2>3 DEF LockoutsOn
  <2>6. ASSUME Threshold <= FailuresOf(c)'
        PROVE  Threshold + n <= FailuresOf(c)' /\ since'[c] + Waited[n + 1] <= table'[c].lockedUntil
    <3>1. Threshold + n <= FailuresOf(c) + 1
      BY <1>10, <2>1, <2>3, <2>6 DEF LockoutsOn
    <3>2. FailuresOf(c) + 1 \in Nat
      BY <2>3
    <3>3. Lesser(Doubles(Base)[n], Cap) <= backoffFor(FailuresOf(c) + 1) /\ backoffFor(FailuresOf(c) + 1) \in Nat
      BY <3>1, <3>2, BackoffLasts, BackoffBounded
    <3>4. table'[c].lockedUntil = now + backoffFor(FailuresOf(c) + 1)
      BY <1>4, <1>7, <1>10, <2>6
    <3>5. since[c] + Waited[n] <= now
      BY <2>1 DEF LockoutsOn
    <3> QED BY <1>5, <1>10, <2>2, <2>3, <3>1, <3>3, <3>4, <3>5
  <2>7. LockoutsOn(c, n)'
    BY <2>4, <2>5, <2>6 DEF LockoutsOn, Allowed
  <2> QED BY <2>7
<1>16. Budgeted'
  <2> SUFFICES ASSUME NEW d \in Clients PROVE \E n \in Nat : LockoutsOn(d, n)'
    BY DEF Budgeted
  <2> QED BY <1>13, <1>14, <1>15
<1>17. ASSUME NEW d \in Clients PROVE \E m \in Nat : Paid(d, m)'
  <2>1. PICK m \in Nat : Paid(d, m)
    BY DEF Budget, Bought
  <2>2. PICK n \in Nat : LockoutsOn(d, n)
    BY DEF Budget, Budgeted
  <2>3. /\ \A i \in Nat : Allowed(i) \in Nat /\ Waited[i] \in Nat
        /\ evictions[d] \in Nat /\ FailuresOf(d) \in Nat /\ verifying[d] \in Nat
        /\ spent[d] \in Nat /\ since[d] \in Nat /\ now \in Nat
    BY <1>5, <1>9, Allowance, Waiting
  <2>4. /\ since[d] + Waited[m] <= now
        /\ spent[d] <= FailuresOf(d) + verifying[d] + evictions[d] * Allowed(m)
    BY <2>1 DEF Paid
  <2>5. CASE d = c
    <3>1. FailuresOf(c)' + verifying'[c] = FailuresOf(c) + verifying[c] /\ evictions'[c] = evictions[c]
      BY <1>3, <1>5, <1>8, <1>9, <1>10, <2>3, <2>5
    <3>2. Paid(c, m)'
      BY <1>2, <1>9, <2>4, <2>5, <3>1 DEF Paid, Allowed
    <3> QED BY <2>5, <3>2
  <2>6. CASE d \in gone
    <3>1. since[d] + Waited[n] <= now /\ FailuresOf(d) + verifying[d] <= Allowed(n)
      BY <2>2 DEF LockoutsOn
    <3>2. PICK k \in Nat : m <= k /\ n <= k /\ since[d] + Waited[k] <= now
      <4>1. CASE m <= n
        BY <3>1, <4>1
      <4>2. CASE n <= m
        BY <2>4, <4>2
      <4> QED BY <4>1, <4>2
    <3>3. Allowed(m) <= Allowed(k) /\ Allowed(n) <= Allowed(k)
      BY <3>2, AllowanceGrows
    <3>4. /\ evictions[d] * Allowed(m) \in Nat /\ evictions[d] * Allowed(k) \in Nat
          /\ evictions[d] * Allowed(m) <= evictions[d] * Allowed(k)
          /\ (evictions[d] + 1) * Allowed(k) = evictions[d] * Allowed(k) + Allowed(k)
      BY <2>3, <3>3, OnMoreRecords
    <3>5. /\ FailuresOf(d)' = 0 /\ verifying'[d] = verifying[d] /\ spent'[d] = spent[d]
          /\ since'[d] = since[d] /\ now' = now /\ evictions'[d] = evictions[d] + 1
      BY <1>2, <1>3, <1>8, <1>9, <1>10, <2>6
    <3>6. spent'[d] <= FailuresOf(d)' + verifying'[d] + (evictions[d] + 1) * Allowed(k)
      BY <2>3, <2>4, <3>1, <3>3, <3>4, <3>5
    <3>7. Paid(d, k)'
      BY <3>2, <3>5, <3>6 DEF Paid, Allowed
    <3> QED BY <3>7
  <2>7. CASE d # c /\ d \notin gone
    <3>1. /\ FailuresOf(d)' = FailuresOf(d) /\ verifying'[d] = verifying[d] /\ spent'[d] = spent[d]
          /\ since'[d] = since[d] /\ now' = now /\ evictions'[d] = evictions[d]
      BY <1>2, <1>8, <1>9, <1>10, <2>7
    <3>2. Paid(d, m)'
      BY <2>4, <3>1 DEF Paid, Allowed
    <3> QED BY <3>2
  <2> QED BY <2>5, <2>6, <2>7
<1> QED BY <1>11, <1>12, <1>16, <1>17 DEF Budget, Bought

(* A success starts its client's budget afresh. *)
LEMMA SucceededBudget ==
  ASSUME IInv, TypeOK', Budget, NEW c \in Clients, recordSuccess(c)
  PROVE  Budget'
<1> USE LimiterAssumption DEF LimiterAssumption
<1>1. /\ verifying' = [verifying EXCEPT ![c] = @ - 1]
      /\ table' = [d \in Tracked \ {c} |-> table[d]]
      /\ since' = [since EXCEPT ![c] = now] /\ spent' = [spent EXCEPT ![c] = verifying'[c]]
      /\ evictions' = [evictions EXCEPT ![c] = 0]
      /\ now' = now /\ TypeOK
  BY DEF recordSuccess, Done, Restrict, IInv
<1>2. Tracked' = Tracked \ {c} /\ \A d \in Tracked \ {c} : table'[d] = table[d]
  BY <1>1 DEF Tracked
<1>3. /\ now \in Nat /\ \A d \in Clients : since[d] \in Nat /\ verifying'[d] \in 0 .. Parallel
      /\ \A d \in Clients : d # c => verifying'[d] = verifying[d]
  BY <1>1 DEF TypeOK
<1>4. /\ since'[c] = now /\ spent'[c] = verifying'[c] /\ evictions'[c] = 0
      /\ \A d \in Clients : d # c => /\ since'[d] = since[d] /\ spent'[d] = spent[d]
                                     /\ evictions'[d] = evictions[d]
  BY <1>1 DEF TypeOK
<1>5. FailuresOf(c)' = 0 /\ \A d \in Clients : d # c => FailuresOf(d)' = FailuresOf(d)
  BY <1>2 DEF FailuresOf
<1>6. Charged'
  <2> SUFFICES ASSUME NEW d \in Clients PROVE FailuresOf(d)' + verifying'[d] <= spent'[d]
    BY DEF Charged
  <2>1. CASE d = c
    BY <1>3, <1>4, <1>5, <2>1
  <2>2. CASE d # c
    <3>1. FailuresOf(d) + verifying[d] <= spent[d]
      BY DEF Budget, Charged
    <3>2. FailuresOf(d)' = FailuresOf(d) /\ verifying'[d] = verifying[d] /\ spent'[d] = spent[d]
      BY <1>3, <1>4, <1>5, <2>2
    <3> QED BY <3>1, <3>2
  <2> QED BY <2>1, <2>2
<1>7. \A d \in Clients : since'[d] <= now'
  BY <1>1, <1>3, <1>4 DEF Budget
<1>8. LockoutsOn(c, 0)'
  BY <1>1, <1>3, <1>4, <1>5, FreshStart
<1>9. ASSUME NEW d \in Clients, d # c PROVE \E n \in Nat : LockoutsOn(d, n)'
  <2>1. PICK n \in Nat : LockoutsOn(d, n)
    BY DEF Budget, Budgeted
  <2>2. /\ now <= now' /\ since'[d] = since[d] /\ verifying'[d] = verifying[d]
        /\ (d \in Tracked') <=> (d \in Tracked)
        /\ d \in Tracked => table'[d] = table[d]
    BY <1>1, <1>2, <1>3, <1>4, <1>9
  <2>3. LockoutsOn(d, n)'
    BY <1>1, <1>9, <2>1, <2>2, LockoutsStay
  <2> QED BY <2>3
<1>10. Budgeted'
  <2> SUFFICES ASSUME NEW d \in Clients PROVE \E n \in Nat : LockoutsOn(d, n)'
    BY DEF Budgeted
  <2> QED BY <1>8, <1>9
<1>11. ASSUME NEW d \in Clients PROVE \E m \in Nat : Paid(d, m)'
  <2>1. CASE d = c
    <3>1. Allowed(0) \in Nat /\ 0 * Allowed(0) = 0 /\ Waited[0] = 0
      BY Allowance, Waiting
    <3>2. spent'[c] <= FailuresOf(c)' + verifying'[c] + evictions'[c] * Allowed(0)
      BY <1>3, <1>4, <1>5, <3>1
    <3>3. Paid(c, 0)'
      BY <1>1, <1>3, <1>4, <3>1, <3>2 DEF Paid, Allowed
    <3> QED BY <2>1, <3>3
  <2>2. CASE d # c
    <3>1. PICK m \in Nat : Paid(d, m)
      BY DEF Budget, Bought
    <3>2. Paid(d, m)'
      BY <1>1, <1>3, <1>4, <1>5, <2>2, <3>1 DEF Paid, Allowed
    <3> QED BY <3>2
  <2> QED BY <2>1, <2>2
<1> QED BY <1>6, <1>7, <1>10, <1>11 DEF Budget, Bought

(* Every step keeps the budget. *)
LEMMA NextBudget == IInv /\ Budget /\ [Next]_vars => Budget'
<1> SUFFICES ASSUME IInv, Budget, [Next]_vars PROVE Budget'
  OBVIOUS
<1>1. TypeOK'
  BY NextIInv DEF IInv
<1>2. ASSUME NEW c \in Clients, Ask(c) \/ recordFailure(c) \/ recordSuccess(c) PROVE Budget'
  BY <1>1, <1>2, AskedBudget, FailedBudget, SucceededBudget
<1>3. CASE Tick \/ UNCHANGED vars
  <2>1. /\ UNCHANGED <<table, verifying, since, spent, evictions>> /\ now <= now' /\ now \in Nat /\ now' \in Nat
        /\ \A d \in Clients : since[d] \in Nat
    BY <1>3 DEF Tick, vars, IInv, TypeOK
  <2>2. Charged'
    BY <2>1 DEF Budget, Charged, FailuresOf, Tracked
  <2>3. \A d \in Clients : since'[d] <= now'
    BY <2>1 DEF Budget
  <2>4. ASSUME NEW d \in Clients PROVE \E n \in Nat : LockoutsOn(d, n)'
    <3>1. PICK n \in Nat : LockoutsOn(d, n)
      BY DEF Budget, Budgeted
    <3>2. LockoutsOn(d, n)'
      BY <1>1, <2>1, <3>1, LockoutsStay DEF IInv, Tracked
    <3> QED BY <3>2
  <2>5. ASSUME NEW d \in Clients PROVE \E m \in Nat : Paid(d, m)'
    <3>1. PICK m \in Nat : Paid(d, m)
      BY DEF Budget, Bought
    <3>2. FailuresOf(d)' = FailuresOf(d) /\ Waited[m] \in Nat
      BY <2>1, Waiting DEF FailuresOf, Tracked
    <3>3. since'[d] + Waited[m] <= now'
      BY <2>1, <3>1, <3>2 DEF Paid
    <3>4. Paid(d, m)'
      BY <2>1, <3>1, <3>2, <3>3 DEF Paid, Allowed
    <3> QED BY <3>4
  <2> QED BY <2>2, <2>3, <2>4, <2>5 DEF Budget, Budgeted, Bought
<1> QED BY <1>2, <1>3 DEF Next

(* With the budget kept, the lockouts that fit into the time passed pay for all
   that was spent. *)
LEMMA BudgetBounds == TypeOK /\ Budget => GuessesBounded
<1> SUFFICES ASSUME TypeOK, Budget, NEW c \in Clients
             PROVE  LET past == now - since[c]
                        lockouts == CHOOSE n \in 0 .. past : Waited[n] <= past /\ past < Waited[n + 1]
                    IN spent[c] <= (1 + evictions[c]) * (Threshold - 1 + Parallel * (1 + lockouts))
  BY DEF GuessesBounded
<1> DEFINE past == now - since[c]
           Fits(n) == Waited[n] <= past /\ past < Waited[n + 1]
           lockouts == CHOOSE n \in 0 .. past : Fits(n)
<1>1. /\ past \in Nat /\ now \in Nat /\ since[c] \in Nat /\ spent[c] \in Nat /\ evictions[c] \in Nat
      /\ FailuresOf(c) \in Nat /\ verifying[c] \in Nat
  <2>1. FailuresOf(c) \in Nat
    BY DEF TypeOK, FailuresOf, Entry
  <2> QED BY <2>1 DEF TypeOK, Budget
<1>2. PICK n \in Nat : LockoutsOn(c, n)
  BY DEF Budget, Budgeted
<1>2a. PICK b \in Nat : Paid(c, b)
  BY DEF Budget, Bought
<1>3. \A i \in Nat : Waited[i] \in Nat
  BY Waiting
<1>4. /\ Waited[n] <= past /\ FailuresOf(c) + verifying[c] <= Allowed(n)
      /\ Waited[b] <= past /\ spent[c] <= FailuresOf(c) + verifying[c] + evictions[c] * Allowed(b)
  BY <1>1, <1>2, <1>2a, <1>3 DEF LockoutsOn, Paid
<1>5. \E m \in 0 .. past : Fits(m)
  <2> DEFINE L == {i \in Nat : past < Waited[i]}
  <2>1. past + 1 \in L
    <3> HIDE DEF past
    <3>1. past + 1 \in Nat /\ past + 1 <= Waited[past + 1] /\ Waited[past + 1] \in Nat
      BY <1>1, <1>3, WaitingGrows
    <3> QED BY <1>1, <3>1
  <2>2. PICK l \in L : \A i \in L : l <= i
    BY <2>1, LeastOf
  <2>3. l # 0
    BY <1>1, <2>2, Waiting
  <2>4. l - 1 \in 0 .. past /\ l - 1 \in Nat /\ l - 1 \notin L /\ (l - 1) + 1 = l
    BY <1>1, <2>1, <2>2, <2>3
  <2>5. Fits(l - 1)
    BY <1>1, <1>3, <2>2, <2>4
  <2> QED BY <2>4, <2>5
<1>6. lockouts \in 0 .. past /\ Fits(lockouts)
  <2> HIDE DEF Fits
  <2> QED BY <1>5
<1>7. PICK m \in Nat : m = lockouts
  BY <1>1, <1>6
<1>8. ASSUME NEW i \in Nat, Waited[i] <= past PROVE i <= m
  <2> SUFFICES ASSUME m < i PROVE FALSE
    BY <1>7
  <2>1. m + 1 \in Nat /\ i - (m + 1) \in Nat /\ (m + 1) + (i - (m + 1)) = i
    BY <1>7
  <2>2. Waited[m + 1] <= Waited[i]
    BY <2>1, WaitingGrows
  <2>3. past < Waited[m + 1]
    <3>1. Fits(m)
      BY <1>6, <1>7
    <3> QED BY <3>1
  <2> QED BY <1>1, <1>3, <1>8, <2>1, <2>2, <2>3
<1>9. spent[c] <= (1 + evictions[c]) * Allowed(m)
  <2>1. n <= m /\ b <= m
    BY <1>4, <1>8
  <2>2. /\ Allowed(n) <= Allowed(m) /\ Allowed(b) <= Allowed(m)
        /\ Allowed(n) \in Nat /\ Allowed(b) \in Nat /\ Allowed(m) \in Nat
    BY <2>1, AllowanceGrows, Allowance
  <2>3. /\ evictions[c] * Allowed(b) \in Nat /\ evictions[c] * Allowed(b) <= evictions[c] * Allowed(m)
        /\ (1 + evictions[c]) * Allowed(m) = Allowed(m) + evictions[c] * Allowed(m)
        /\ evictions[c] * Allowed(m) \in Nat
    BY <1>1, <2>2, OnMoreRecords
  <2> QED BY <1>1, <1>4, <2>2, <2>3
<1>10. Allowed(m) = Threshold - 1 + Parallel * (1 + lockouts)
  BY <1>7 DEF Allowed
<1> QED BY <1>9, <1>10

(* However a client's requests overlap, what it makes the server spend on wrong
   guesses until it gets one right is bounded by the time it lets pass and by how
   often others pushed its record out of a full table: for the first record and
   for each one after an eviction, the free failures, and a round of requests for
   the first lockout and for each that ran out (basicauth.go). *)
THEOREM GuessingBounded == Spec => []GuessesBounded
<1>1. Init => Budget
  <2> SUFFICES ASSUME Init PROVE Budget
    OBVIOUS
  <2>1. \A c \in Clients : FailuresOf(c) = 0 /\ spent[c] = 0 /\ verifying[c] = 0 /\ since[c] = 0
                          /\ now = 0 /\ evictions[c] = 0
    BY DEF Init, FailuresOf, Tracked
  <2>2. Waited[0] = 0 /\ Allowed(0) \in Nat
    BY Waiting, Allowance
  <2>3. \A c \in Clients : LockoutsOn(c, 0)
    BY <2>1, <2>2, LimiterAssumption DEF LimiterAssumption, LockoutsOn
  <2>4. \A c \in Clients : Paid(c, 0)
    BY <2>1, <2>2 DEF Paid
  <2> QED BY <2>1, <2>3, <2>4 DEF Budget, Budgeted, Bought, Charged
<1>2. IInv /\ Budget => GuessesBounded
  BY BudgetBounds DEF IInv
<1> QED BY <1>1, <1>2, Invariant, NextBudget, PTL DEF Spec

-----------------------------------------------------------------------------
(* The watcher. *)

(* The delay's bounds, and where a refusal leaves the watcher. *)
Bounded == minDelay \in Nat \ {0} /\ maxDelay \in Nat /\ minDelay <= maxDelay
Refused == rejected => pc = "gone" \/ (pc = "ended" /\ failure \in Lasting)

(* After k doublings of the delay no more than k dials have been waited for; once
   the delay is the greatest, each dial was waited for that long, but for the
   doublings it took and the dial under way. *)
Slack == IF pc = "dial" /\ Measured THEN 0 ELSE 1
Paced ==
  \E k \in 0 .. Doublings :
     /\ delay = Lesser(Doubles(minDelay)[k], maxDelay)
     /\ k < Doublings => dials <= k + Slack
     /\ dials * maxDelay <= waited + (Doublings + Slack) * maxDelay

(* Since a session was in IDLE nothing was dialled. *)
Idled == connected => dials = 0 /\ pc \in {"idle", "idling", "ended", "wait", "gone"}

Watching == Bounded /\ dials \in Nat /\ waited \in Nat /\ Idled /\ Refused /\ Paced

(* How often the least delay doubles. *)
LEMMA DelayDoubles ==
  ASSUME Bounded
  PROVE  /\ Doubles(minDelay) \in [Nat -> Nat] /\ Doubles(minDelay)[0] = minDelay
         /\ \A n \in Nat : Doubles(minDelay)[n + 1] = 2 * Doubles(minDelay)[n]
<1>1. minDelay \in Nat
  BY DEF Bounded
<1> QED BY <1>1, DoublesDouble

LEMMA DoublingsReach ==
  ASSUME Bounded
  PROVE  /\ Doublings \in Nat /\ Doubles(minDelay)[Doublings] >= maxDelay
         /\ \A e \in Nat : e < Doublings => Doubles(minDelay)[e] < maxDelay
<1> DEFINE D == Doubles(minDelay)
           reach == {d \in Nat : D[d] >= maxDelay}
           least(d) == d \in 0 .. maxDelay /\ D[d] >= maxDelay /\ \A e \in 0 .. d - 1 : D[e] < maxDelay
<1>1. D \in [Nat -> Nat] /\ D[0] = minDelay /\ \A n \in Nat : D[n + 1] = 2 * D[n]
  BY DelayDoubles
<1> HIDE DEF D
<1>2. maxDelay \in Nat /\ minDelay \in Nat \ {0}
  BY DEF Bounded
<1>3. \A n \in Nat : D[n] \in Nat /\ n + 1 <= D[n]
  <2> DEFINE S == {n \in Nat : n + 1 <= D[n]}
  <2>1. 0 \in S
    BY <1>1, <1>2
  <2>2. \A n \in Nat : n \in S => n + 1 \in S
    BY <1>1
  <2>3. \A n \in Nat : n \in S
    <3> HIDE DEF S
    <3> QED BY <2>1, <2>2, EveryNumber
  <2> QED BY <1>1, <2>3
<1>4. maxDelay \in reach
  BY <1>2, <1>3
<1>5. PICK d \in reach : \A e \in reach : d <= e
  BY <1>4, LeastOf
<1>6. least(d)
  <2>1. d \in Nat /\ d <= maxDelay /\ D[d] >= maxDelay
    BY <1>4, <1>5
  <2>2. \A e \in 0 .. d - 1 : D[e] < maxDelay
    <3> TAKE e \in 0 .. d - 1
    <3>1. e \in Nat /\ ~(d <= e) /\ D[e] \in Nat
      BY <1>3, <2>1
    <3>2. ~(D[e] >= maxDelay)
      BY <1>5, <3>1
    <3> QED BY <1>2, <3>1, <3>2
  <2> QED BY <1>2, <2>1, <2>2
<1>7. Doublings = CHOOSE b : least(b)
  BY DEF Doublings, D
<1>8. least(Doublings)
  <2> HIDE DEF least
  <2> QED BY <1>6, <1>7
<1>9. \A b, e \in Nat : e < b => e \in 0 .. b - 1
  OBVIOUS
<1> QED BY <1>2, <1>8, <1>9 DEF D

(* While the bounds stay, so do the doublings. *)
LEMMA DoublingsStay ==
  ASSUME UNCHANGED <<minDelay, maxDelay>>
  PROVE  Doubles(minDelay)' = Doubles(minDelay) /\ Doublings' = Doublings
<1>1. Doubles(minDelay)' = Doubles(minDelay)
  OBVIOUS
<1>2. Doublings' = Doublings
  BY <1>1 DEF Doublings
<1> QED BY <1>1, <1>2

(* The pace is kept by a step that neither dials nor waits. *)
LEMMA PaceStays ==
  ASSUME Paced, UNCHANGED <<minDelay, maxDelay, delay, dials, waited>>, pc' = "dial" <=> pc = "dial"
  PROVE  Paced'
<1>1. Doubles(minDelay)' = Doubles(minDelay) /\ Doublings' = Doublings
  BY DoublingsStay
<1>2. Slack' = Slack
  BY DEF Slack, Measured
<1> QED BY <1>1, <1>2 DEF Paced, Lesser

(* Nothing was dialled since a session was in IDLE. *)
LEMMA PaceAfresh ==
  ASSUME Bounded, NEW k \in 0 .. Doublings, UNCHANGED <<minDelay, maxDelay>>,
         delay' = Lesser(Doubles(minDelay)[k], maxDelay), dials' = 0, waited' \in Nat
  PROVE  Paced'
<1>1. Doubles(minDelay)' = Doubles(minDelay) /\ Doublings' = Doublings
  BY DoublingsStay
<1> DEFINE s == Slack'
           M == maxDelay
           B == Doublings
<1>2. s \in {0, 1} /\ M \in Nat /\ B \in Nat
  BY DoublingsReach DEF Slack, Bounded
<1> HIDE DEF s, B
<1>3. (B + s) * M \in Nat /\ 0 * M = 0 /\ 0 <= k + s
  <2>1. B + s \in Nat /\ 0 <= k + s
    BY <1>2
  <2>2. \A x, y \in Nat : x * y \in Nat /\ 0 * y = 0
    OBVIOUS
  <2> QED BY <1>2, <2>1, <2>2
<1>4. 0 * M <= waited' + (B + s) * M
  BY <1>3
<1>5. k \in 0 .. B /\ delay' = Lesser(Doubles(minDelay)'[k], M') /\ dials' <= k + s
      /\ dials' * M' <= waited' + (Doublings' + s) * M' /\ k \in 0 .. Doublings'
  BY <1>1, <1>3, <1>4 DEF B, Lesser
<1> QED BY <1>5 DEF Paced, s

LEMMA DialPaced ==
  ASSUME Watching, Dial
  PROVE  Paced'
<1>1. /\ UNCHANGED <<minDelay, maxDelay, delay, waited>> /\ pc = "dial" /\ pc' # "dial"
      /\ dials' = IF Measured THEN dials + 1 ELSE dials
  BY DEF Dial, EndSession, given
<1> DEFINE M == maxDelay
           B == Doublings
<1>2. PICK k \in 0 .. B : /\ delay = Lesser(Doubles(minDelay)[k], M)
                          /\ k < B => dials <= k + Slack
                          /\ dials * M <= waited + (B + Slack) * M
  BY DEF Watching, Paced
<1>3. Doubles(minDelay)' = Doubles(minDelay) /\ Doublings' = B
  BY <1>1, DoublingsStay
<1>4. M \in Nat /\ B \in Nat /\ dials \in Nat /\ waited \in Nat
  BY DoublingsReach DEF Watching, Bounded
<1>5. Slack' = 1 /\ Slack = IF Measured THEN 0 ELSE 1
  BY <1>1 DEF Slack
<1> HIDE DEF B
<1>6. \A n \in Nat : (n + 1) * M = n * M + M /\ n * M \in Nat
  BY <1>4
<1>7. /\ k < B => dials' <= k + 1
      /\ dials' * M <= waited + (B + 1) * M
  <2>1. CASE Measured
    <3>1. dials' = dials + 1 /\ Slack = 0
      BY <1>1, <1>5, <2>1
    <3>2. k < B => dials <= k
      BY <1>2, <1>4, <3>1
    <3>3. dials * M <= waited + B * M
      BY <1>2, <1>4, <3>1
    <3>4. (dials + 1) * M = dials * M + M /\ (B + 1) * M = B * M + M /\ dials * M \in Nat /\ B * M \in Nat
      BY <1>4, <1>6
    <3>5. (dials + 1) * M <= waited + (B + 1) * M
      <4> DEFINE x == dials * M
                 y == B * M
                 z == (dials + 1) * M
                 v == (B + 1) * M
      <4>1. z = x + M /\ v = y + M /\ x <= waited + y /\ x \in Nat /\ y \in Nat
        BY <3>3, <3>4
      <4> HIDE DEF x, y, z, v
      <4>2. z <= waited + v
        BY <1>4, <4>1
      <4> QED BY <4>2 DEF z, v
    <3> QED BY <1>4, <3>1, <3>2, <3>5
  <2>2. CASE ~Measured
    BY <1>1, <1>2, <1>5, <2>2
  <2> QED BY <2>1, <2>2
<1>8. /\ k \in 0 .. Doublings' /\ delay' = Lesser(Doubles(minDelay)'[k], maxDelay')
      /\ k < Doublings' => dials' <= k + Slack'
      /\ dials' * maxDelay' <= waited' + (Doublings' + Slack') * maxDelay'
  BY <1>1, <1>2, <1>3, <1>5, <1>7
<1> QED BY <1>8 DEF Paced, Lesser

LEMMA WaitPaced ==
  ASSUME Watching, Wait
  PROVE  Paced'
<1>1. /\ UNCHANGED <<minDelay, maxDelay, dials>> /\ pc = "wait" /\ pc' = "dial"
      /\ waited' = IF Measured THEN waited + delay ELSE waited
      /\ delay' = Lesser(delay * 2, maxDelay)
  BY DEF Wait, given, NextDelay
<1> DEFINE M == maxDelay
           B == Doublings
           D == Doubles(minDelay)
<1>2. PICK k \in 0 .. B : /\ delay = Lesser(D[k], M)
                          /\ k < B => dials <= k + Slack
                          /\ dials * M <= waited + (B + Slack) * M
  BY DEF Watching, Paced
<1>3. Doubles(minDelay)' = D /\ Doublings' = B
  BY <1>1, DoublingsStay
<1>4. /\ M \in Nat \ {0} /\ B \in Nat /\ dials \in Nat /\ waited \in Nat
      /\ D \in [Nat -> Nat] /\ \A n \in Nat : D[n + 1] = 2 * D[n]
      /\ D[B] >= M /\ \A e \in Nat : e < B => D[e] < M
  BY DelayDoubles, DoublingsReach DEF Watching, Bounded
<1>5. Slack = 1 /\ Slack' \in {0, 1} /\ (Slack' = 0 => Measured)
  <2>1. Slack = 1
    BY <1>1 DEF Slack
  <2>2. Slack' = 0 => Measured'
    BY DEF Slack
  <2>3. Measured' => Measured
    <3>1. ~Measured => waited' = waited
      BY <1>1
    <3> QED BY <3>1 DEF Measured
  <2> QED BY <2>1, <2>2, <2>3 DEF Slack
<1> DEFINE s == Slack'
<1> HIDE DEF B, D, s
<1>6. \A n \in Nat : (n + 1) * M = n * M + M /\ n * M \in Nat
  BY <1>4
<1>7. \A n \in Nat : n <= B => n * M <= B * M
  <2> TAKE n \in Nat
  <2> HAVE n <= B
  <2>1. PICK e \in Nat : B = n + e
    BY <1>4
  <2>2. B * M = n * M + e * M /\ e * M \in Nat /\ n * M \in Nat
    BY <1>4, <2>1
  <2> QED BY <2>2
<1>8. (B + s) * M = B * M + s * M /\ s * M \in Nat /\ B * M \in Nat /\ s \in {0, 1} /\ 0 * M = 0 /\ 1 * M = M
  <2>1. s = 0 \/ s = 1
    BY <1>5 DEF s
  <2>2. 0 * M = 0 /\ 1 * M = M /\ B * M \in Nat /\ (B + 1) * M = B * M + 1 * M /\ (B + 0) * M = B * M + 0 * M
    BY <1>4, <1>6
  <2>3. CASE s = 0
    BY <1>4, <2>2, <2>3
  <2>4. CASE s = 1
    BY <1>4, <2>2, <2>4
  <2> QED BY <2>1, <2>3, <2>4
<1>9. CASE k < B
  <2>1. delay = D[k] /\ D[k + 1] = 2 * D[k] /\ D[k] \in Nat /\ k + 1 \in 0 .. B
    BY <1>2, <1>4, <1>9 DEF Lesser
  <2>2. delay' = Lesser(D[k + 1], M)
    <3>1. delay * 2 = D[k + 1]
      BY <2>1
    <3> QED BY <1>1, <3>1
  <2>3. dials <= k + 1
    BY <1>2, <1>5, <1>9
  <2>4. dials * M <= B * M
    BY <1>4, <1>7, <1>9, <2>3
  <2>5. waited' \in Nat
    BY <1>1, <1>4, <2>1
  <2>6. dials * M <= waited' + (B + s) * M
    <3>1. PICK x \in Nat, y \in Nat, z \in Nat, w \in Nat :
              x = dials * M /\ y = B * M /\ z = s * M /\ w = waited'
      BY <1>4, <1>6, <1>8, <2>5
    <3>2. x <= w + (y + z)
      BY <2>4, <3>1
    <3> QED BY <1>8, <3>1, <3>2
  <2>7. dials <= (k + 1) + s
    BY <1>4, <1>8, <2>3
  <2> DEFINE l == k + 1
  <2>8. /\ l \in 0 .. Doublings' /\ delay' = Lesser(Doubles(minDelay)'[l], maxDelay')
        /\ l < Doublings' => dials' <= l + s
        /\ dials' * maxDelay' <= waited' + (Doublings' + s) * maxDelay'
    BY <1>1, <1>3, <2>1, <2>2, <2>6, <2>7
  <2> HIDE DEF l
  <2> QED BY <2>8 DEF Paced, Lesser, s
<1>10. CASE ~(k < B)
  <2>1. k = B /\ delay = M
    <3>1. k = B
      BY <1>4, <1>10
    <3>2. D[k] >= M /\ D[k] \in Nat
      BY <1>4, <3>1
    <3>3. Lesser(D[k], M) = M
      <4>1. \A x \in Nat : x >= M => Lesser(x, M) = M
        BY <1>4 DEF Lesser
      <4> QED BY <3>2, <4>1
    <3> QED BY <1>2, <3>1, <3>3
  <2>2. delay' = Lesser(D[B], M)
    <3>1. Lesser(delay * 2, M) = M
      BY <1>4, <2>1 DEF Lesser
    <3> QED BY <1>1, <1>2, <2>1, <3>1
  <2>3. dials * M <= waited + (B + 1) * M /\ (B + 1) * M = B * M + M
    BY <1>2, <1>4, <1>5, <1>6
  <2>4. dials * M <= waited' + (B + s) * M /\ waited' \in Nat
    <3>1. PICK x \in Nat, y \in Nat, z \in Nat : x = dials * M /\ y = B * M /\ z = s * M
      BY <1>4, <1>6, <1>8
    <3>2. x <= waited + (y + M) /\ (z = 0 \/ z = M)
      BY <1>8, <2>3, <3>1
    <3>3. waited' \in Nat /\ x <= waited' + (y + z)
      <4>1. CASE Measured
        <5>1. waited' = waited + M
          BY <1>1, <2>1, <4>1
        <5> QED BY <1>4, <3>1, <3>2, <5>1
      <4>2. CASE ~Measured
        <5>1. waited' = waited /\ z = M
          <6>1. s # 0
            BY <1>5, <4>2 DEF s
          <6>2. s = 1
            BY <1>8, <6>1
          <6> QED BY <1>1, <1>8, <3>1, <4>2, <6>2
        <5> QED BY <1>4, <3>1, <3>2, <5>1
      <4> QED BY <4>1, <4>2
    <3> QED BY <1>8, <3>1, <3>3
  <2>5. /\ B \in 0 .. Doublings' /\ delay' = Lesser(Doubles(minDelay)'[B], maxDelay')
        /\ B < Doublings' => dials' <= B + s
        /\ dials' * maxDelay' <= waited' + (Doublings' + s) * maxDelay'
    BY <1>1, <1>3, <1>4, <2>2, <2>4
  <2> QED BY <2>5 DEF Paced, Lesser, s
<1> QED BY <1>9, <1>10

-----------------------------------------------------------------------------
(* Every step of the watcher. *)

LEMMA InitWatching == WatcherInit => Watching
<1> SUFFICES ASSUME WatcherInit PROVE Watching
  OBVIOUS
<1>1. PICK o \in Overrides : minDelay = SetBackoff(o).min /\ maxDelay = SetBackoff(o).max
  BY DEF WatcherInit
<1>2. o.initial \in Nat /\ o.maximum \in Nat /\ DefaultMin \in Nat \ {0} /\ DefaultMax \in Nat
  BY WatcherAssumption DEF WatcherAssumption
<1>3. Bounded
  BY <1>1, <1>2 DEF Bounded, SetBackoff
<1>4. delay = minDelay /\ dials = 0 /\ waited = 0 /\ connected = FALSE /\ rejected = FALSE
  BY DEF WatcherInit
<1>5. Paced
  <2> DEFINE M == maxDelay
             B == Doublings
             s == Slack
  <2>1. /\ B \in Nat /\ M \in Nat /\ minDelay \in Nat /\ minDelay <= M /\ s \in {0, 1}
        /\ Doubles(minDelay)[0] = minDelay
    BY <1>3, DoublingsReach, DelayDoubles DEF Bounded, Slack
  <2>2. delay = Lesser(Doubles(minDelay)[0], M)
    BY <1>4, <2>1 DEF Lesser
  <2> HIDE DEF B, s
  <2>3. (B + s) * M \in Nat /\ 0 * M = 0
    <3>1. \A x, y \in Nat : x * y \in Nat /\ 0 * y = 0
      OBVIOUS
    <3>2. B + s \in Nat
      BY <2>1
    <3> QED BY <2>1, <3>1, <3>2
  <2>4. 0 \in 0 .. B /\ (0 < B => dials <= 0 + s) /\ dials * M <= waited + (B + s) * M
    BY <1>4, <2>1, <2>3
  <2> QED BY <2>2, <2>4 DEF Paced, B, s
<1> QED BY <1>3, <1>4, <1>5 DEF Watching, Refused, Idled

(* A session that returns was refused for good or was not. *)
LEMMA EndRefused ==
  ASSUME Refused, pc \notin {"ended", "gone"}, NEW how, EndSession(how)
  PROVE  Refused' /\ pc' = "ended"
BY DEF Refused, EndSession

LEMMA CommandWatched ==
  ASSUME Watching, NEW from, NEW to, from \notin {"dial", "ended", "gone"}, to \notin {"dial", "ended", "gone"},
         Command(from, to)
  PROVE  Refused' /\ pc' \in {to, "ended"} /\ pc = from /\ UNCHANGED <<minDelay, maxDelay, delay>>
<1>1. pc = from /\ UNCHANGED <<minDelay, maxDelay, delay>>
  BY DEF Command, given
<1>2. CASE Refusal = "none"
  BY <1>1, <1>2 DEF Command, Watching, Refused
<1>3. CASE Refusal # "none"
  <2>1. EndSession(Refusal)
    BY <1>3 DEF Command
  <2> HIDE DEF Refusal, EndSession
  <2>2. Refused' /\ pc' = "ended"
    BY <1>1, <2>1, EndRefused DEF Watching
  <2> QED BY <1>1, <2>2
<1> QED BY <1>2, <1>3

LEMMA StepWatching ==
  ASSUME Watching, Step
  PROVE  Watching'
<1>0. /\ Bounded /\ dials \in Nat /\ waited \in Nat /\ Idled /\ Refused /\ Paced
      /\ minDelay \in Nat \ {0} /\ maxDelay \in Nat
  BY DEF Watching, Bounded
<1>1. CASE Dial
  <2>1. Paced'
    BY <1>1, DialPaced
  <2>2. Refused' /\ pc = "dial"
    BY <1>0, <1>1, EndRefused DEF Dial, Refused
  <2>3. UNCHANGED <<minDelay, maxDelay, waited, connected>> /\ dials' = IF Measured THEN dials + 1 ELSE dials
    BY <1>1 DEF Dial, given
  <2>4. Bounded' /\ Idled' /\ dials' \in Nat
    BY <1>0, <2>2, <2>3 DEF Bounded, Idled
  <2> QED BY <1>0, <2>1, <2>2, <2>3, <2>4 DEF Watching
<1>2. CASE Token
  <2>1. /\ UNCHANGED <<minDelay, maxDelay, delay, dials, waited, connected>> /\ pc = "token"
        /\ \/ pc' = "login" /\ UNCHANGED <<failure, rejected>>
           \/ \E how : EndSession(how)
    BY <1>2 DEF Token, given
  <2>2. Refused' /\ pc' # "dial"
    BY <1>0, <2>1, EndRefused DEF Refused
  <2> QED BY <1>0, <2>1, <2>2, PaceStays DEF Watching, Bounded, Idled
<1>3. CASE Login \/ Select \/ Refresh
  <2>1. PICK from \in {"login", "select", "idling"}, to \in {"select", "idle"} :
            Command(from, to) /\ UNCHANGED <<connected, dials, waited>> /\ (from = "idling" => to = "idle")
    BY <1>3 DEF Login, Select, Refresh
  <2>2. Refused' /\ pc' \in {to, "ended"} /\ pc = from /\ UNCHANGED <<minDelay, maxDelay, delay>>
    BY <2>1, CommandWatched
  <2>3. Paced'
    BY <1>0, <2>1, <2>2, PaceStays
  <2> QED BY <1>0, <2>1, <2>2, <2>3 DEF Watching, Bounded, Idled
<1>4. CASE Idle
  <2>1. Command("idle", "idling") /\ connected' = (connected \/ Refusal = "none")
        /\ IF Refusal = "none" THEN dials' = 0 /\ waited' = 0 ELSE UNCHANGED <<dials, waited>>
    BY <1>4 DEF Idle
  <2>2. Refused' /\ pc' \in {"idling", "ended"} /\ pc = "idle" /\ UNCHANGED <<minDelay, maxDelay, delay>>
    BY <2>1, CommandWatched
  <2>3. CASE Refusal = "none"
    <3>1. dials' = 0 /\ waited' = 0
      BY <2>1, <2>3
    <3>2. PICK k \in 0 .. Doublings : delay = Lesser(Doubles(minDelay)[k], maxDelay)
      BY <1>0 DEF Paced
    <3>3. Paced'
      BY <1>0, <2>2, <3>1, <3>2, PaceAfresh
    <3> QED BY <1>0, <2>2, <3>1, <3>3 DEF Watching, Bounded, Idled
  <2>4. CASE Refusal # "none"
    <3>1. UNCHANGED <<dials, waited>> /\ (connected' => connected)
      BY <2>1, <2>4
    <3>2. Paced'
      BY <1>0, <2>2, <3>1, PaceStays
    <3> QED BY <1>0, <2>2, <3>1, <3>2 DEF Watching, Bounded, Idled
  <2> QED BY <2>3, <2>4
<1>5. CASE Interrupted
  <2>1. UNCHANGED <<minDelay, maxDelay, delay, dials, waited, connected>> /\ pc = "idling" /\ EndSession("cancelled")
    BY <1>5 DEF Interrupted, given
  <2>2. Refused' /\ pc' = "ended"
    BY <1>0, <2>1, EndRefused
  <2> QED BY <1>0, <2>1, <2>2, PaceStays DEF Watching, Bounded, Idled
<1>6. CASE Returned
  <2>1. /\ UNCHANGED <<minDelay, maxDelay, dials, waited, connected, failure, rejected>> /\ pc = "ended"
        /\ \/ pc' = "gone" /\ delay' = delay
           \/ pc' = "wait" /\ ~permanentFailure(failure) /\ delay' = IF connected THEN minDelay ELSE delay
    BY <1>6 DEF Returned, given
  <2>2. Refused'
    BY <1>0, <2>1 DEF Refused, permanentFailure, Lasting
  <2>3. Paced'
    <3>1. CASE delay' = delay
      BY <1>0, <2>1, <3>1, PaceStays
    <3>2. CASE delay' # delay
      <4>1. delay' = minDelay /\ dials = 0 /\ Doubles(minDelay)[0] = minDelay /\ 0 \in 0 .. Doublings
        BY <1>0, <2>1, <3>2, DelayDoubles, DoublingsReach DEF Idled
      <4>2. delay' = Lesser(Doubles(minDelay)[0], maxDelay)
        BY <1>0, <4>1 DEF Lesser, Bounded
      <4>3. dials' = 0 /\ waited' \in Nat
        BY <1>0, <2>1, <4>1
      <4> QED BY <1>0, <2>1, <4>1, <4>2, <4>3, PaceAfresh
    <3> QED BY <3>1, <3>2
  <2> QED BY <1>0, <2>1, <2>2, <2>3 DEF Watching, Bounded, Idled
<1>7. CASE Wait
  <2>1. /\ UNCHANGED <<minDelay, maxDelay, dials, rejected>> /\ pc = "wait" /\ connected' = FALSE
        /\ waited' = IF Measured THEN waited + delay ELSE waited
    BY <1>7 DEF Wait, given
  <2>2. Paced'
    BY <1>7, WaitPaced
  <2>3. delay \in Nat
    <3>1. PICK k \in 0 .. Doublings : delay = Lesser(Doubles(minDelay)[k], maxDelay)
      BY <1>0 DEF Paced
    <3>2. Doubles(minDelay)[k] \in Nat
      BY <1>0, DelayDoubles, DoublingsReach
    <3> QED BY <1>0, <3>1, <3>2 DEF Lesser
  <2> QED BY <1>0, <2>1, <2>2, <2>3 DEF Watching, Bounded, Idled, Refused
<1>8. CASE StopWaiting
  <2>1. UNCHANGED <<minDelay, maxDelay, delay, dials, waited, connected, rejected>> /\ pc = "wait" /\ pc' = "gone"
    BY <1>8 DEF StopWaiting, given
  <2> QED BY <1>0, <2>1, PaceStays DEF Watching, Bounded, Idled, Refused
<1> QED BY <1>1, <1>2, <1>3, <1>4, <1>5, <1>6, <1>7, <1>8 DEF Step

(* Every step keeps the invariant. *)
LEMMA NextWatching == Watching /\ [WatcherNext]_watcherVars => Watching'
<1> SUFFICES ASSUME Watching, [WatcherNext]_watcherVars PROVE Watching'
  OBVIOUS
<1>1. CASE Step
  BY <1>1, StepWatching
<1>2. CASE ~Step
  <2>1. UNCHANGED <<minDelay, maxDelay, pc, delay, connected, failure, dials, waited, rejected>>
    BY <1>2 DEF WatcherNext, watcherVars, Announce, Cancel, Change, Grant, LinkLost, Arrive, given
  <2> QED BY <2>1, PaceStays DEF Watching, Bounded, Idled, Refused
<1> QED BY <1>1, <1>2

(* The invariant bounds the dials. *)
LEMMA StormFromWatching == Watching => NoStorm
<1> SUFFICES ASSUME Watching PROVE dials * maxDelay <= waited + (Doublings + 1) * maxDelay
  BY DEF NoStorm
<1> DEFINE M == maxDelay
           B == Doublings
<1>1. M \in Nat /\ B \in Nat /\ dials \in Nat /\ waited \in Nat /\ Slack \in {0, 1}
  BY DoublingsReach DEF Watching, Bounded, Slack
<1>2. dials * M <= waited + (B + Slack) * M
  BY DEF Watching, Paced
<1> HIDE DEF B
<1>3. (B + 1) * M = B * M + M /\ B * M \in Nat /\ dials * M \in Nat
  BY <1>1
<1>4. CASE Slack = 0
  <2>1. PICK x \in Nat, y \in Nat : x = dials * M /\ y = B * M
    BY <1>3
  <2>2. x <= waited + y
    BY <1>1, <1>2, <1>4, <2>1
  <2>3. x <= waited + (y + M)
    BY <1>1, <2>2
  <2> QED BY <1>3, <2>1, <2>3 DEF B
<1>5. CASE Slack = 1
  BY <1>2, <1>5 DEF B
<1> QED BY <1>1, <1>4, <1>5

(* In every reachable state of the watcher its dials keep the pace of the delays,
   and what was refused for good is at its end (Watch, SetBackoff,
   permanentFailure). *)
THEOREM WatchInvariance == WatcherSpec => []Watching
<1> QED BY InitWatching, NextWatching, PTL DEF WatcherSpec

(* An outage is no reconnect storm, whatever fails and whichever bounds are in
   force (Watch, SetBackoff). *)
THEOREM StormBounded == WatcherSpec => []NoStorm
<1> QED BY WatchInvariance, StormFromWatching, PTL

(* What the server refuses for good is not asked again (permanentFailure). *)
THEOREM RejectionFinal == WatcherSpec => RejectionIsLast
<1>1. Watching => [rejected => ~Dial]_watcherVars
  BY DEF Watching, Refused, Dial
<1> QED BY <1>1, WatchInvariance, PTL DEF WatcherSpec, RejectionIsLast
=============================================================================
