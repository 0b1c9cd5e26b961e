------------------------- MODULE RateLimiter_proofs -------------------------
(***************************************************************************)
(* That a sender is never left locked, is taken only after its spacing and *)
(* its backoff, and keeps its caps up to the threads admitted at once, for *)
(* any number of loops and requests sharing it and any pace, backoff and   *)
(* limits.                                                                 *)
(***************************************************************************)
EXTENDS RateLimiter, Subsequences_proofs

\* LockHeld is inductive with the type of the threads' labels.
Placed == pc \in [Threads -> Labels]

IInv == Placed /\ LockHeld

\* A thread that moves keeps every other thread where it was.
LEMMA MoveEffect ==
  ASSUME Placed, NEW t \in Threads, NEW from \in Labels, NEW label \in Labels,
         Move(t, from, label)
  PROVE  /\ Placed'
         /\ pc[t] = from /\ pc'[t] = label
         /\ \A u \in Threads \ {t} : pc'[u] = pc[u]
  BY DEF Move, At, Placed

\* Every step that takes a thread out of the send frees the sender; the steps
\* outside of it leave the sender to whoever has it.
LEMMA FinishInv ==
  ASSUME IInv, NEW t \in Threads, Finish(t)
  PROVE  IInv'
<1>1. CASE Resolve(t)
  <2>1. ~busy'
    BY <1>1 DEF Resolve, Record, RecordSuccess, RecordFailure
  <2> QED BY <1>1, <2>1, MoveEffect DEF IInv, LockHeld, Resolve, Labels
<1>2. CASE WorkerRaises(t)
  BY <1>2, MoveEffect DEF IInv, LockHeld, WorkerRaises, Labels, limiter
<1>3. CASE Release(t)
  BY <1>3, MoveEffect DEF IInv, LockHeld, Release, Labels
<1>4. CASE ReleaseAfterSend(t)
  BY <1>4, MoveEffect DEF IInv, LockHeld, ReleaseAfterSend, Labels
<1>5. CASE ProviderRaises(t)
  BY <1>5, MoveEffect DEF IInv, LockHeld, ProviderRaises, Labels
<1>6. CASE RecordAfterRelease(t)
  <2>1. ~busy'
    BY <1>6 DEF RecordAfterRelease, Record, RecordSuccess, RecordFailure
  <2> QED BY <1>6, <2>1, MoveEffect DEF IInv, LockHeld, RecordAfterRelease, Labels
<1> QED BY <1>1, <1>2, <1>3, <1>4, <1>5, <1>6 DEF Finish

LEMMA StepInv ==
  ASSUME IInv, NEW t \in Threads, Step(t)
  PROVE  IInv'
<1>1. ASSUME NEW d \in Jitter, SelectSender(t, d) PROVE IInv'
  BY <1>1, MoveEffect DEF IInv, LockHeld, SelectSender, Labels
<1>2. ASSUME NEW d \in Jitter, Poll(t, d) PROVE IInv'
  BY <1>2 DEF IInv, Placed, LockHeld, Poll
<1>3. ASSUME NEW d \in Jitter, WaitForReady(t, d) PROVE IInv'
  BY <1>3, MoveEffect DEF IInv, LockHeld, WaitForReady, Labels
<1>4. CASE RequestDispatch(t)
  BY <1>4, MoveEffect DEF IInv, LockHeld, RequestDispatch, Labels, limiter
<1>5. CASE PacingTimeout(t)
  BY <1>5, MoveEffect DEF IInv, LockHeld, PacingTimeout, Labels, limiter
<1>6. CASE AcquireSender(t)
  <2>1. CASE busy
    BY <1>6, <2>1, MoveEffect DEF IInv, LockHeld, AcquireSender, Labels
  <2>2. CASE ~busy
    BY <1>6, <2>2, MoveEffect DEF IInv, LockHeld, AcquireSender, Labels
  <2> QED BY <2>1, <2>2
<1> QED BY <1>1, <1>2, <1>3, <1>4, <1>5, <1>6, FinishInv DEF Step

\* A sender marked busy has a thread inside that will free it: the finally
\* clauses of campaign_worker.py and outreach_service.py cover every exit, and
\* no refused acquisition or late release of another thread undoes that.
THEOREM SenderNeverLeaked == Spec => []LockHeld
<1>1. Init => IInv
  BY DEF Init, IInv, Placed, LockHeld, Labels
<1>2. IInv /\ [Next]_vars => IInv'
  <2> SUFFICES ASSUME IInv, [Next]_vars PROVE IInv'
    OBVIOUS
  <2>1. CASE Tick
    BY <2>1 DEF IInv, Placed, LockHeld, Tick
  <2>2. CASE Restart
    BY <2>2 DEF IInv, Placed, LockHeld, Restart, Labels
  <2>3. CASE UNCHANGED vars
    BY <2>3 DEF IInv, Placed, LockHeld, vars, limiter
  <2> QED BY <2>1, <2>2, <2>3, StepInv DEF Next
<1>3. IInv => LockHeld
  BY DEF IInv
<1> QED BY <1>1, <1>2, <1>3, PTL DEF Spec

-----------------------------------------------------------------------------
(***************************************************************************)
(* The history: what popping its old entries leaves, and how many of them  *)
(* a window holds.                                                         *)
(***************************************************************************)

\* k entries are past the window and the next one is not.
PopsFrom(ages, window, k) ==
  /\ k \in 0..Len(ages)
  /\ \A i \in 1..k : ages[i] > window
  /\ k < Len(ages) => ages[k + 1] <= window

\* The loop that pops stops somewhere.
LEMMA PopsSome ==
  ASSUME NEW ages \in Seq(Nat), NEW window \in Nat
  PROVE  \E k \in Nat : PopsFrom(ages, window, k)
<1> DEFINE kept == {i \in DOMAIN ages : ages[i] <= window}
<1>1. CASE kept = {}
  <2>1. PopsFrom(ages, window, Len(ages))
    BY <1>1 DEF PopsFrom
  <2> QED BY <2>1
<1>2. CASE kept # {}
  <2>1. PICK k \in kept : \A j \in kept : k <= j
    <3>1. kept \in SUBSET Nat
      OBVIOUS
    <3> HIDE DEF kept
    <3> QED BY <3>1, <1>2, LeastNumber
  <2>2. k \in 1..Len(ages) /\ ages[k] <= window
    BY <2>1
  <2>3. ASSUME NEW i \in 1..(k - 1) PROVE ages[i] > window
    <3>1. k \in Nat /\ i \in 1..Len(ages) /\ ~(k <= i)
      BY <2>2
    <3>2. i \notin kept
      BY <2>1, <3>1
    <3>3. ages[i] \in Nat
      BY <3>1
    <3> QED BY <3>1, <3>2, <3>3
  <2>4. PopsFrom(ages, window, k - 1)
    BY <2>2, <2>3 DEF PopsFrom
  <2> QED BY <2>2, <2>4
<1> QED BY <1>1, <1>2

\* What is left is the rest of the history.
LEMMA PrunedEffect ==
  ASSUME NEW ages \in Seq(Nat), NEW window \in Nat, NEW k \in Nat, PopsFrom(ages, window, k)
  PROVE  Pruned(ages, window) = [i \in 1..(Len(ages) - k) |-> ages[i + k]]
<1> DEFINE kept == {i \in DOMAIN ages : ages[i] <= window}
           first == CHOOSE i \in kept : \A j \in kept : i <= j
<1>1. CASE k = Len(ages)
  <2>1. kept = {}
    BY <1>1 DEF PopsFrom
  <2>2. Pruned(ages, window) = <<>>
    BY <2>1 DEF Pruned
  <2> QED BY <1>1, <2>2
<1>2. CASE k # Len(ages)
  <2>1. k + 1 \in kept /\ \A j \in kept : k + 1 <= j
    BY <1>2 DEF PopsFrom
  <2>2. first \in kept /\ \A j \in kept : first <= j
    BY <2>1
  <2>3. first = k + 1
    BY <2>1, <2>2
  <2>4. Pruned(ages, window) = SubSeq(ages, k + 1, Len(ages))
    BY <2>1, <2>3 DEF Pruned
  <2>5. SubSeq(ages, k + 1, Len(ages)) = [i \in 1..(Len(ages) - k) |-> ages[i + k]]
    BY <2>1
  <2> QED BY <2>4, <2>5
<1> QED BY <1>1, <1>2

\* So it is the same whatever is known of where the loop stops.
LEMMA PrunedType ==
  ASSUME NEW S \in SUBSET Nat, NEW ages \in Seq(S), NEW window \in Nat
  PROVE  /\ Pruned(ages, window) \in Seq(S)
         /\ \E k \in 0..Len(ages) :
              /\ PopsFrom(ages, window, k)
              /\ Len(Pruned(ages, window)) = Len(ages) - k
              /\ \A i \in 1..(Len(ages) - k) : Pruned(ages, window)[i] = ages[i + k]
<1>1. ages \in Seq(Nat)
  BY SeqMonotonic
<1>2. PICK k \in Nat : PopsFrom(ages, window, k)
  BY <1>1, PopsSome
<1>3. k \in 0..Len(ages)
  BY <1>2 DEF PopsFrom
<1> DEFINE p == Pruned(ages, window)
<1>4. p = [i \in 1..(Len(ages) - k) |-> ages[i + k]]
  BY <1>1, <1>2, PrunedEffect
<1> HIDE DEF p
<1>5. p \in Seq(S) /\ Len(p) = Len(ages) - k
  <2>1. \A i \in 1..(Len(ages) - k) : ages[i + k] \in S
    BY <1>3
  <2> QED BY <1>3, <1>4, <2>1
<1>6. \A i \in 1..(Len(ages) - k) : p[i] = ages[i + k]
  BY <1>4
<1> QED BY <1>2, <1>3, <1>5, <1>6 DEF p

\* Entries within a window are counted.
LEMMA RecentType ==
  ASSUME NEW ages \in Seq(Nat), NEW window \in Nat
  PROVE  Recent(ages, window) \in Nat /\ Recent(ages, window) <= Len(ages)
<1> DEFINE D == 1..Len(ages)
           T == {i \in DOMAIN ages : ages[i] <= window}
<1>1. T \subseteq D /\ Len(ages) \in Nat
  OBVIOUS
<1>2. IsFiniteSet(D) /\ Cardinality(D) = Len(ages)
  <2>1. ASSUME NEW n \in Nat PROVE IsFiniteSet(1..n) /\ Cardinality(1..n) = n
    <3>1. /\ IsFiniteSet(1..n)
          /\ Cardinality(1..n) = IF 1 > n THEN 0 ELSE n - 1 + 1
      BY FS_Interval
    <3> QED BY <3>1
  <2> QED BY <1>1, <2>1
<1>3. IsFiniteSet(T) /\ Cardinality(T) <= Cardinality(D)
  BY <1>1, <1>2, FS_Subset
<1> QED BY <1>2, <1>3, FS_CardinalityType DEF Recent

\* A send that is recorded is in every window.
LEMMA RecentAppend ==
  ASSUME NEW ages \in Seq(Nat), NEW window \in Nat
  PROVE  Recent(Append(ages, 0), window) = Recent(ages, window) + 1
<1> DEFINE n == Len(ages) + 1
           T == {i \in DOMAIN ages : ages[i] <= window}
           U == {i \in DOMAIN Append(ages, 0) : Append(ages, 0)[i] <= window}
<1>1. U = T \cup {n} /\ n \notin T
  <2>1. /\ DOMAIN Append(ages, 0) = DOMAIN ages \cup {n} /\ n \notin DOMAIN ages
        /\ Append(ages, 0)[n] = 0
        /\ \A i \in DOMAIN ages : Append(ages, 0)[i] = ages[i]
    OBVIOUS
  <2>2. ASSUME NEW i PROVE i \in U <=> i \in T \cup {n}
    BY <2>1
  <2> QED BY <2>1, <2>2
<1>2. IsFiniteSet(T)
  <2>1. T \subseteq 1..Len(ages) /\ IsFiniteSet(1..Len(ages))
    BY FS_Interval
  <2> QED BY <2>1, FS_Subset
<1>3. Cardinality(T \cup {n}) = Cardinality(T) + 1
  BY <1>1, <1>2, FS_AddElement
<1> QED BY <1>1, <1>3 DEF Recent

LEMMA EntryTyped == \A s \in Seq(Nat) : \A i \in 1..Len(s) : s[i] \in Nat
  OBVIOUS

\* As time passes entries leave a window and none enters it.
LEMMA RecentShrinks ==
  ASSUME NEW old \in Seq(Nat), NEW new \in Seq(Nat), NEW k \in 0..Len(old), NEW window \in Nat,
         Len(new) = Len(old) - k,
         \A i \in 1..Len(new) : new[i] >= old[i + k]
  PROVE  Recent(new, window) <= Recent(old, window)
<1> DEFINE S == {i \in DOMAIN new : new[i] <= window}
           T == {i \in DOMAIN old : old[i] <= window}
           f == [i \in S |-> i + k]
<1>1. ASSUME NEW i \in S PROVE i + k \in T
  <2>1. DOMAIN new = 1..Len(new) /\ DOMAIN old = 1..Len(old)
    OBVIOUS
  <2>2. i \in 1..Len(new) /\ new[i] <= window /\ Len(new) \in Nat /\ Len(old) \in Nat
    BY <2>1
  <2> HIDE DEF S, T, f
  <2>3. i + k \in 1..Len(old) /\ new[i] >= old[i + k]
    BY <2>2
  <2> DEFINE a == new[i]
             b == old[i + k]
  <2>4. a \in Nat /\ b \in Nat /\ a >= b /\ a <= window
    <3>1. a \in Nat
      BY <2>2, EntryTyped, Zenon
    <3>2. b \in Nat
      BY <2>3, EntryTyped, Zenon
    <3> QED BY <2>2, <2>3, <3>1, <3>2
  <2> HIDE DEF a, b
  <2>5. b <= window
    BY <2>4
  <2> QED BY <2>1, <2>3, <2>5 DEF T, b
<1>2. f \in Injection(S, T)
  <2>1. f \in [S -> T]
    BY <1>1
  <2>2. \A a, b \in S : f[a] = f[b] => a = b
    OBVIOUS
  <2> QED BY <2>1, <2>2 DEF Injection, IsInjective
<1>3. IsFiniteSet(T)
  <2>1. DOMAIN old = 1..Len(old) /\ Len(old) \in Nat
    OBVIOUS
  <2>2. T \subseteq 1..Len(old) /\ IsFiniteSet(1..Len(old))
    BY <2>1, FS_Interval
  <2> QED BY <2>2, FS_Subset
<1> HIDE DEF f, S, T
<1>4. Cardinality(S) <= Cardinality(T)
  BY <1>2, <1>3, FS_Injection
<1> QED BY <1>4 DEF Recent, S, T

-----------------------------------------------------------------------------
(***************************************************************************)
(* The types, which need that the ghost of the sends is oldest first: what *)
(* follows an entry that is within the day is within the day.              *)
(***************************************************************************)
Ordered    == \A i, j \in DOMAIN sends : i <= j => sends[i] >= sends[j]
Wellformed == TypeOK /\ Ordered

LEMMA ConstantTypes ==
  /\ Pace \in Nat /\ Day \in Nat /\ Hour \in Nat /\ Hour <= Day
  /\ BaseBackoff \in Nat /\ MaxBackoff \in Nat /\ RateLimitBackoff \in Nat
  /\ DailyLimit \in Nat /\ HourlyLimit \in Nat /\ MaxCrashes \in Nat
  /\ Jitter \subseteq Nat /\ 0 \notin Jitter /\ \A d \in Jitter : d <= Day
  /\ Loops \cap Operators = {} /\ IsFiniteSet(Threads)
  BY LimiterAssumption DEF Threads

\* A spacing is half the pace or one that was drawn.
LEMMA SpacingType ==
  ASSUME target \in Jitter \cup {0}, NEW t \in Threads, NEW d \in Jitter
  PROVE  /\ t \in Operators => Spacing(t, d) = Pace \div 2
         /\ t \notin Operators => Spacing(t, d) \in Jitter
  BY DEF Spacing

LEMMA ProbeType ==
  ASSUME TypeOK, NEW t \in Threads, NEW d \in Jitter, Admits(t, d) \/ Refuses(t, d)
  PROVE  /\ target' \in Jitter \cup {0}
         /\ history' \in Seq(0..(Day + 1))
<1>1. target' \in Jitter \cup {0}
  <2>1. t \in Loops => t \notin Operators
    BY ConstantTypes
  <2> QED BY <2>1, SpacingType DEF TypeOK, Admits, Refuses, Draw
<1>2. Prune => history' \in Seq(0..(Day + 1))
  <2>1. 0..(Day + 1) \in SUBSET Nat /\ Day \in Nat
    BY ConstantTypes
  <2> QED BY <2>1, PrunedType DEF Prune, TypeOK
<1> QED BY <1>1, <1>2 DEF Admits, Refuses, TypeOK

\* A backoff has a ceiling, but for the floor that a rate-limit answer sets.
LEMMA BackoffType ==
  ASSUME NEW count \in 1..6
  PROVE  Backoff(count) \in 0..MaxBackoff
<1>1. Multiplier(count) \in Nat
  BY DEF Multiplier
<1>2. BaseBackoff * Multiplier(count) \in Nat
  BY <1>1, ConstantTypes
<1> QED BY <1>2, ConstantTypes DEF Backoff

\* What a record leaves behind.
LEMMA RecordEffect ==
  ASSUME TypeOK, Record
  PROVE  /\ busy' = FALSE /\ sinceLast' = 0 /\ failures' \in 0..6
         /\ target' \in Jitter \cup {0}
         /\ backoffLeft' \in 0..MaxBackoff \cup 0..RateLimitBackoff
         /\ overtaken' = overtaken \cup {u \in Threads : At(u, "ready")}
         /\ \/ sends' = Append(sends, 0) /\ history' = Append(history, 0)
            \/ UNCHANGED <<sends, history>>
<1>1. CASE RecordSuccess
  BY <1>1, ConstantTypes DEF Record, RecordSuccess
<1>2. ASSUME NEW isRateLimit \in BOOLEAN, RecordFailure(isRateLimit)
      PROVE  /\ busy' = FALSE /\ sinceLast' = 0 /\ failures' \in 0..6
             /\ target' \in Jitter \cup {0}
             /\ backoffLeft' \in 0..MaxBackoff \cup 0..RateLimitBackoff
             /\ UNCHANGED <<sends, history>>
  <2> DEFINE count == IF failures = 6 THEN 6 ELSE failures + 1
  <2>1. count \in 1..6
    BY DEF TypeOK
  <2>2. Backoff(count) \in 0..MaxBackoff
    BY <2>1, BackoffType
  <2>3. failures' = count /\ backoffLeft' \in {RateLimitBackoff, Backoff(count)}
    BY <1>2 DEF RecordFailure
  <2> HIDE DEF count
  <2>4. backoffLeft' \in 0..MaxBackoff \cup 0..RateLimitBackoff
    BY <2>2, <2>3, ConstantTypes
  <2> QED BY <1>2, <2>1, <2>3, <2>4 DEF RecordFailure, TypeOK
<1> QED BY <1>1, <1>2 DEF Record

LEMMA AppendedWellformed ==
  ASSUME Wellformed
  PROVE  /\ Append(sends, 0) \in Seq(0..Day) /\ Append(history, 0) \in Seq(0..(Day + 1))
         /\ \A i, j \in DOMAIN Append(sends, 0) : i <= j =>
              Append(sends, 0)[i] >= Append(sends, 0)[j]
<1>1. 0 \in 0..Day /\ 0 \in 0..(Day + 1)
  BY ConstantTypes
<1>2. sends \in Seq(0..Day) /\ history \in Seq(0..(Day + 1)) /\ Ordered
  BY DEF Wellformed, TypeOK
<1>3. Append(sends, 0) \in Seq(0..Day) /\ Append(history, 0) \in Seq(0..(Day + 1))
  BY <1>1, <1>2
<1>4. ASSUME NEW i \in DOMAIN Append(sends, 0), NEW j \in DOMAIN Append(sends, 0), i <= j
      PROVE  Append(sends, 0)[i] >= Append(sends, 0)[j]
  <2>1. /\ i \in 1..(Len(sends) + 1) /\ j \in 1..(Len(sends) + 1) /\ Len(sends) \in Nat
        /\ Len(Append(sends, 0)) = Len(sends) + 1
    BY <1>2
  <2>2. CASE j = Len(sends) + 1
    <3>1. Append(sends, 0)[j] = 0
      BY <1>2, <2>2
    <3>2. Append(sends, 0)[i] \in 0..Day
      BY <1>3, <2>1, ElementOfSeq
    <3> QED BY <3>1, <3>2, ConstantTypes
  <2>3. CASE j # Len(sends) + 1
    <3>1. i \in DOMAIN sends /\ j \in DOMAIN sends
      BY <1>2, <1>4, <2>1, <2>3
    <3> QED BY <1>2, <1>4, <3>1 DEF Ordered
  <2> QED BY <2>2, <2>3
<1> QED BY <1>3, <1>4

\* What time does to the ghost: a record of k entries fewer and a unit older.
LEMMA TickEffect ==
  ASSUME Wellformed, Tick
  PROVE  \E k \in 0..Len(sends) :
           /\ sends' \in Seq(0..Day) /\ Len(sends') = Len(sends) - k
           /\ \A i \in 1..Len(sends') : sends'[i] = sends[i + k] + 1
           /\ PopsFrom([i \in DOMAIN sends |-> sends[i] + 1], Day, k)
<1> DEFINE older == [i \in DOMAIN sends |-> sends[i] + 1]
<1>1. sends \in Seq(0..Day) /\ Day \in Nat /\ Ordered /\ DOMAIN sends = 1..Len(sends)
      /\ Len(sends) \in Nat
  BY ConstantTypes DEF Wellformed, TypeOK
<1>2. older \in Seq(Nat) /\ Len(older) = Len(sends)
      /\ \A i \in 1..Len(sends) : older[i] = sends[i] + 1
  BY <1>1
<1>3. sends' = Pruned(older, Day)
  BY DEF Tick
<1> HIDE DEF older
<1>4. PICK k \in 0..Len(older) :
        /\ PopsFrom(older, Day, k)
        /\ Len(sends') = Len(older) - k
        /\ \A i \in 1..(Len(older) - k) : sends'[i] = older[i + k]
  BY <1>1, <1>2, <1>3, PrunedType
<1>5. sends' \in Seq(Nat)
  BY <1>1, <1>2, <1>3, PrunedType
<1>6. \A i \in 1..Len(sends') : i + k \in 1..Len(sends) /\ sends'[i] = sends[i + k] + 1
  BY <1>1, <1>2, <1>4
<1>7. ASSUME NEW i \in 1..Len(sends') PROVE sends'[i] \in 0..Day
  <2>1. k + 1 \in 1..Len(sends) /\ i + k \in 1..Len(sends) /\ k + 1 <= i + k
    BY <1>1, <1>2, <1>4, <1>6
  <2>2. sends[k + 1] + 1 <= Day
    BY <1>2, <1>4, <2>1 DEF PopsFrom
  <2>3. sends[k + 1] >= sends[i + k]
    BY <1>1, <2>1 DEF Ordered
  <2>4. sends[k + 1] \in Nat /\ sends[i + k] \in Nat
    BY <1>1, <2>1
  <2> DEFINE a == sends[k + 1]
             b == sends[i + k]
  <2>5. a \in Nat /\ b \in Nat /\ a + 1 <= Day /\ a >= b /\ sends'[i] = b + 1 /\ Day \in Nat
    BY <1>6, <2>2, <2>3, <2>4, ConstantTypes
  <2> HIDE DEF a, b
  <2> QED BY <2>5
<1>8. sends' \in Seq(0..Day)
  <2>1. sends' \in [1..Len(sends') -> 0..Day] /\ Len(sends') \in Nat
    BY <1>5, <1>7, LenProperties
  <2> QED BY <2>1, SeqDef
<1>9. k \in 0..Len(sends) /\ Len(sends') = Len(sends) - k
  BY <1>2, <1>4
<1> QED BY <1>4, <1>6, <1>8, <1>9 DEF older

LEMMA TickWellformed ==
  ASSUME Wellformed, Tick
  PROVE  Wellformed'
<1>1. PICK k \in 0..Len(sends) :
        /\ sends' \in Seq(0..Day) /\ Len(sends') = Len(sends) - k
        /\ \A i \in 1..Len(sends') : sends'[i] = sends[i + k] + 1
  BY TickEffect
<1>2. Ordered'
  <2> SUFFICES ASSUME NEW i \in DOMAIN sends', NEW j \in DOMAIN sends', i <= j
               PROVE  sends'[i] >= sends'[j]
    BY DEF Ordered
  <2>1. /\ sends \in Seq(0..Day) /\ Len(sends) \in Nat
        /\ i \in 1..Len(sends') /\ j \in 1..Len(sends')
    BY <1>1, LenProperties DEF Wellformed, TypeOK
  <2>2. i + k \in 1..Len(sends) /\ j + k \in 1..Len(sends) /\ i + k <= j + k
    BY <1>1, <2>1
  <2>3. sends[i + k] >= sends[j + k]
    BY <2>1, <2>2 DEF Wellformed, Ordered
  <2>4. sends[i + k] \in 0..Day /\ sends[j + k] \in 0..Day
    BY <2>1, <2>2, ElementOfSeq
  <2>5. sends'[i] = sends[i + k] + 1 /\ sends'[j] = sends[j + k] + 1
    BY <1>1, <2>1
  <2> QED BY <2>3, <2>4, <2>5, ConstantTypes
<1>3. history' \in Seq(0..(Day + 1))
  <2>1. history \in Seq(0..(Day + 1)) /\ Day \in Nat
    BY ConstantTypes DEF Wellformed, TypeOK
  <2>2. DOMAIN history = 1..Len(history) /\ Len(history) \in Nat
    BY <2>1
  <2>3. ASSUME NEW i \in DOMAIN history
        PROVE  (IF history[i] > Day THEN history[i] ELSE history[i] + 1) \in 0..(Day + 1)
    <3>1. history[i] \in 0..(Day + 1)
      BY <2>1, <2>2, ElementOfSeq
    <3> QED BY <2>1, <3>1
  <2>4. history' \in [1..Len(history) -> 0..(Day + 1)]
    BY <2>2, <2>3 DEF Tick
  <2> QED BY <2>2, <2>4, SeqDef
<1>4. sinceLast' \in 0..Day /\ backoffLeft' \in 0..MaxBackoff \cup 0..RateLimitBackoff
  BY ConstantTypes DEF Wellformed, TypeOK, Tick
<1> QED BY <1>1, <1>2, <1>3, <1>4 DEF Wellformed, TypeOK, Tick

LEMMA RecordWellformed ==
  ASSUME Wellformed, Record, UNCHANGED crashes, pc' \in [Threads -> Labels]
  PROVE  Wellformed'
<1>0. TypeOK /\ Ordered
  BY DEF Wellformed
<1>1. /\ overtaken' \in SUBSET Threads /\ busy' \in BOOLEAN /\ sinceLast' \in 0..Day
      /\ failures' \in 0..6 /\ target' \in Jitter \cup {0}
      /\ backoffLeft' \in 0..MaxBackoff \cup 0..RateLimitBackoff
      /\ crashes' \in 0..MaxCrashes
  <2>1. /\ busy' = FALSE /\ sinceLast' = 0 /\ failures' \in 0..6
        /\ target' \in Jitter \cup {0}
        /\ backoffLeft' \in 0..MaxBackoff \cup 0..RateLimitBackoff
        /\ overtaken' = overtaken \cup {u \in Threads : At(u, "ready")}
    BY <1>0, RecordEffect
  <2>2. overtaken' \in SUBSET Threads /\ busy' \in BOOLEAN
    BY <1>0, <2>1, Zenon DEF TypeOK
  <2>3. sinceLast' \in 0..Day /\ crashes' \in 0..MaxCrashes
    BY <1>0, <2>1, ConstantTypes DEF TypeOK
  <2> QED BY <2>1, <2>2, <2>3
<1>2. CASE sends' = Append(sends, 0) /\ history' = Append(history, 0)
  <2>1. sends' \in Seq(0..Day) /\ history' \in Seq(0..(Day + 1)) /\ Ordered'
    BY <1>2, AppendedWellformed DEF Ordered
  <2> QED BY <1>0, <1>1, <2>1 DEF Wellformed, TypeOK
<1>3. CASE UNCHANGED <<sends, history>>
  BY <1>0, <1>1, <1>3 DEF Wellformed, TypeOK, Ordered
<1> QED BY <1>0, <1>2, <1>3, RecordEffect

\* Steps of a thread outside of a record leave the ghost alone.
LEMMA FinishWellformed ==
  ASSUME Wellformed, NEW t \in Threads, Finish(t)
  PROVE  Wellformed'
<1>0. Placed
  BY DEF Wellformed, TypeOK, Placed
<1>1. CASE Resolve(t)
  <2>1. pc' \in [Threads -> Labels]
    BY <1>0, <1>1, MoveEffect DEF Resolve, Labels, Placed
  <2> QED BY <1>1, <2>1, RecordWellformed DEF Resolve
<1>2. CASE RecordAfterRelease(t)
  <2>1. pc' \in [Threads -> Labels]
    BY <1>0, <1>2, MoveEffect DEF RecordAfterRelease, Labels, Placed
  <2> QED BY <1>2, <2>1, RecordWellformed DEF RecordAfterRelease
<1>3. CASE WorkerRaises(t)
  <2>1. pc' \in [Threads -> Labels]
    BY <1>0, <1>3, MoveEffect DEF WorkerRaises, Labels, Placed
  <2> QED BY <1>3, <2>1 DEF WorkerRaises, Wellformed, TypeOK, Ordered, limiter
<1>4. CASE Release(t)
  <2>1. pc' \in [Threads -> Labels]
    BY <1>0, <1>4, MoveEffect DEF Release, Labels, Placed
  <2> QED BY <1>4, <2>1 DEF Release, Wellformed, TypeOK, Ordered
<1>5. CASE ReleaseAfterSend(t)
  <2>1. pc' \in [Threads -> Labels]
    BY <1>0, <1>5, MoveEffect DEF ReleaseAfterSend, Labels, Placed
  <2> QED BY <1>5, <2>1 DEF ReleaseAfterSend, Wellformed, TypeOK, Ordered
<1>6. CASE ProviderRaises(t)
  <2>1. pc' \in [Threads -> Labels]
    BY <1>0, <1>6, MoveEffect DEF ProviderRaises, Labels, Placed
  <2> QED BY <1>6, <2>1 DEF ProviderRaises, Wellformed, TypeOK, Ordered
<1> QED BY <1>1, <1>2, <1>3, <1>4, <1>5, <1>6 DEF Finish

LEMMA StepWellformed ==
  ASSUME Wellformed, NEW t \in Threads, Step(t)
  PROVE  Wellformed'
<1>0. Placed
  BY DEF Wellformed, TypeOK, Placed
<1>1. ASSUME NEW d \in Jitter, SelectSender(t, d) PROVE Wellformed'
  <2>1. pc' \in [Threads -> Labels]
    BY <1>0, <1>1, MoveEffect DEF SelectSender, Labels, Placed
  <2>2. target' \in Jitter \cup {0} /\ history' \in Seq(0..(Day + 1))
    BY <1>1, ProbeType DEF SelectSender, Wellformed
  <2> QED BY <1>1, <2>1, <2>2 DEF SelectSender, Wellformed, TypeOK, Ordered
<1>2. ASSUME NEW d \in Jitter, Poll(t, d) PROVE Wellformed'
  <2>1. target' \in Jitter \cup {0} /\ history' \in Seq(0..(Day + 1))
    BY <1>2, ProbeType DEF Poll, Wellformed
  <2> QED BY <1>2, <2>1 DEF Poll, Wellformed, TypeOK, Ordered
<1>3. ASSUME NEW d \in Jitter, WaitForReady(t, d) PROVE Wellformed'
  <2>1. pc' \in [Threads -> Labels]
    BY <1>0, <1>3, MoveEffect DEF WaitForReady, Labels, Placed
  <2>2. target' \in Jitter \cup {0} /\ history' \in Seq(0..(Day + 1))
    BY <1>3, ProbeType DEF WaitForReady, Wellformed
  <2> QED BY <1>3, <2>1, <2>2 DEF WaitForReady, Wellformed, TypeOK, Ordered
<1>4. CASE RequestDispatch(t)
  <2>1. pc' \in [Threads -> Labels]
    BY <1>0, <1>4, MoveEffect DEF RequestDispatch, Labels, Placed
  <2> QED BY <1>4, <2>1 DEF RequestDispatch, Wellformed, TypeOK, Ordered, limiter
<1>5. CASE PacingTimeout(t)
  <2>1. pc' \in [Threads -> Labels]
    BY <1>0, <1>5, MoveEffect DEF PacingTimeout, Labels, Placed
  <2> QED BY <1>5, <2>1 DEF PacingTimeout, Wellformed, TypeOK, Ordered, limiter
<1>6. CASE AcquireSender(t)
  <2>1. pc' \in [Threads -> Labels]
    BY <1>0, <1>6, MoveEffect DEF AcquireSender, Labels, Placed
  <2> QED BY <1>6, <2>1 DEF AcquireSender, Wellformed, TypeOK, Ordered
<1> QED BY <1>1, <1>2, <1>3, <1>4, <1>5, <1>6, FinishWellformed DEF Step

LEMMA WellformedInductive ==
  /\ Init => Wellformed
  /\ Wellformed /\ [Next]_vars => Wellformed'
<1>1. ASSUME Init PROVE Wellformed
  <2>1. /\ history \in Seq(0..(Day + 1)) /\ sends \in Seq(0..Day) /\ Ordered
        /\ pc \in [Threads -> Labels]
    BY <1>1 DEF Init, Ordered, Labels
  <2>2. busy \in BOOLEAN /\ overtaken \in SUBSET Threads /\ sinceLast \in 0..Day
    BY <1>1 DEF Init
  <2>3. /\ target \in Jitter \cup {0} /\ failures \in 0..6 /\ crashes \in 0..MaxCrashes
        /\ backoffLeft \in 0..MaxBackoff \cup 0..RateLimitBackoff
    BY <1>1, ConstantTypes DEF Init
  <2> QED BY <2>1, <2>2, <2>3 DEF Wellformed, TypeOK
<1>2. ASSUME Wellformed, [Next]_vars PROVE Wellformed'
  <2>1. CASE Restart
    <3>1. crashes' \in 0..MaxCrashes
      BY <1>2, <2>1, ConstantTypes DEF Restart, Wellformed, TypeOK
    <3>2. history' \in Seq(0..(Day + 1)) /\ pc' \in [Threads -> Labels]
      BY <2>1 DEF Restart, Labels
    <3>3. busy' \in BOOLEAN /\ overtaken' \in SUBSET Threads /\ sinceLast' \in 0..Day
      BY <2>1 DEF Restart
    <3>4. /\ target' \in Jitter \cup {0} /\ failures' \in 0..6
          /\ backoffLeft' \in 0..MaxBackoff \cup 0..RateLimitBackoff
      BY <2>1, ConstantTypes DEF Restart
    <3>5. sends' \in Seq(0..Day) /\ Ordered'
      BY <1>2, <2>1 DEF Restart, Wellformed, TypeOK, Ordered
    <3> QED BY <3>1, <3>2, <3>3, <3>4, <3>5 DEF Wellformed, TypeOK
  <2>2. CASE UNCHANGED vars
    BY <1>2, <2>2 DEF Wellformed, TypeOK, Ordered, vars, limiter
  <2> QED BY <1>2, <2>1, <2>2, TickWellformed, StepWellformed DEF Next
<1> QED BY <1>1, <1>2

\* The limiter's state is well typed: a target that was drawn, a backoff within
\* its ceiling or a rate limit's floor, a history of at most a day and a unit.
THEOREM TypeCorrect == Spec => []TypeOK
<1>1. Wellformed => TypeOK
  BY DEF Wellformed
<1> QED BY <1>1, WellformedInductive, PTL DEF Spec

-----------------------------------------------------------------------------
(***************************************************************************)
(* While the process lives the ghost is the pruned history, its newest     *)
(* entry is as old as the last stamp or older, and a thread that was       *)
(* admitted after the last record still has what it was admitted for.      *)
(***************************************************************************)
Shortest  == CHOOSE d \in Jitter : \A e \in Jitter : d <= e
Wanted(t) == IF t \in Operators THEN Pace \div 2 ELSE Shortest
Admitted  == {t \in Threads : pc[t] \in {"ready", "sending", "released"}}

Linked  == crashes = 0 => sends = Pruned(history, Day)
Stamped == crashes = 0 => \A i \in DOMAIN sends : sends[i] >= sinceLast
Spaced  == \A t \in Threads \ overtaken :
             pc[t] = "ready" => backoffLeft = 0 /\ sinceLast >= Wanted(t)

\* The sends of a window and the threads that may still add one.
Room(window, limit) ==
  limit # 0 => Recent(sends, window) + Cardinality(Admitted) < limit + Cardinality(Threads)

Budget == crashes = 0 => Room(Day, DailyLimit) /\ Room(Hour, HourlyLimit)

Accounted == Linked /\ Stamped /\ Spaced /\ Budget

\* The kinds of steps of a thread, told apart by what they do to these.
Keeps ==
  /\ UNCHANGED <<sinceLast, backoffLeft, sends, crashes>>
  /\ history' \in {history, Pruned(history, Day)}
  /\ Admitted' \subseteq Admitted
  /\ \A u \in Threads \ overtaken' : pc'[u] = "ready" => pc[u] = "ready" /\ u \notin overtaken

AdmitsThread(t) ==
  /\ UNCHANGED <<sinceLast, backoffLeft, sends, crashes>>
  /\ backoffLeft = 0 /\ sinceLast >= Wanted(t) /\ WithinLimits
  /\ history' = Pruned(history, Day)
  /\ overtaken' = overtaken \ {t}
  /\ \A u \in Threads \ {t} : pc'[u] = pc[u]

Records(t) ==
  /\ sinceLast' = 0 /\ UNCHANGED crashes
  /\ \/ sends' = Append(sends, 0) /\ history' = Append(history, 0)
     \/ UNCHANGED <<sends, history>>
  /\ overtaken' = overtaken \cup {u \in Threads : pc[u] = "ready"}
  /\ t \in Admitted /\ Admitted' = Admitted \ {t}
  /\ \A u \in Threads : pc'[u] = "ready" => pc[u] = "ready"

\* The shortest spacing that may be drawn.
LEMMA WantedLeast ==
  ASSUME target \in Jitter \cup {0}, NEW t \in Threads, NEW d \in Jitter
  PROVE  /\ Wanted(t) \in Nat /\ Spacing(t, d) \in Nat /\ Spacing(t, d) >= Wanted(t)
         /\ Shortest \in Jitter /\ \A e \in Jitter : Shortest <= e
<1>1. Shortest \in Jitter /\ \A e \in Jitter : Shortest <= e
  <2>1. \E x \in Jitter : \A e \in Jitter : x <= e
    BY ConstantTypes, LeastNumber
  <2> QED BY <2>1 DEF Shortest
<1>2. CASE t \in Operators
  BY <1>1, <1>2, SpacingType, ConstantTypes DEF Wanted
<1>3. CASE t \notin Operators
  BY <1>1, <1>3, SpacingType, ConstantTypes DEF Wanted
<1> QED BY <1>1, <1>2, <1>3

LEMMA MoveKeeps ==
  ASSUME Placed, NEW t \in Threads, NEW from \in Labels, NEW label \in Labels \ {"ready"},
         Move(t, from, label),
         from \notin {"ready", "sending", "released"}
           => label \notin {"sending", "released"}
  PROVE  /\ Admitted' \subseteq Admitted
         /\ \A u \in Threads : pc'[u] = "ready" => pc[u] = "ready"
  BY MoveEffect DEF Admitted

LEMMA MoveLeaves ==
  ASSUME Placed, NEW t \in Threads, NEW from \in {"sending", "released"},
         NEW label \in {"idle", "leaving"}, Move(t, from, label)
  PROVE  /\ t \in Admitted /\ Admitted' = Admitted \ {t}
         /\ \A u \in Threads : pc'[u] = "ready" => pc[u] = "ready"
<1>1. from \in Labels /\ label \in Labels
  BY DEF Labels
<1>2. pc[t] = from /\ pc'[t] = label /\ \A u \in Threads \ {t} : pc'[u] = pc[u]
  BY <1>1, MoveEffect
<1> QED BY <1>2 DEF Admitted

LEMMA StepKinds ==
  ASSUME TypeOK, NEW t \in Threads, Step(t)
  PROVE  Keeps \/ AdmitsThread(t) \/ Records(t)
<1>0. Placed
  BY DEF TypeOK, Placed
<1>1. ASSUME NEW d \in Jitter, SelectSender(t, d) PROVE Keeps
  BY <1>0, <1>1, MoveKeeps DEF SelectSender, Admits, Prune, Keeps, Labels
<1>2. ASSUME NEW d \in Jitter, Poll(t, d) PROVE Keeps
  BY <1>2 DEF Poll, Refuses, Prune, Keeps, Admitted
<1>3. ASSUME NEW d \in Jitter, WaitForReady(t, d) PROVE AdmitsThread(t)
  <2>1. \A u \in Threads \ {t} : pc'[u] = pc[u]
    BY <1>0, <1>3, MoveEffect DEF WaitForReady, Labels
  <2>2. sinceLast >= Wanted(t)
    <3>1. sinceLast >= Spacing(t, d) /\ sinceLast \in Nat /\ target \in Jitter \cup {0}
      BY <1>3, ConstantTypes DEF WaitForReady, Admits, SpacedOut, TypeOK
    <3> QED BY <3>1, WantedLeast
  <2> QED BY <1>3, <2>1, <2>2 DEF WaitForReady, Admits, Prune, AdmitsThread
<1>4. CASE RequestDispatch(t)
  BY <1>0, <1>4, MoveKeeps DEF RequestDispatch, Keeps, Labels, limiter
<1>5. CASE PacingTimeout(t)
  BY <1>0, <1>5, MoveKeeps DEF PacingTimeout, Keeps, Labels, limiter
<1>6. CASE AcquireSender(t)
  <2>1. PICK label \in {"idle", "sending"} : Move(t, "ready", label)
    BY <1>6 DEF AcquireSender
  <2> QED BY <1>0, <1>6, <2>1, MoveKeeps DEF AcquireSender, Keeps, Labels
<1>7. CASE Resolve(t)
  <2>1. Move(t, "sending", "leaving") /\ Record /\ UNCHANGED crashes
    BY <1>7 DEF Resolve
  <2> QED BY <1>0, <2>1, MoveLeaves, RecordEffect DEF Records, At
<1>8. CASE RecordAfterRelease(t)
  <2>1. Move(t, "released", "idle") /\ Record /\ UNCHANGED crashes
    BY <1>8 DEF RecordAfterRelease
  <2> QED BY <1>0, <2>1, MoveLeaves, RecordEffect DEF Records, At
<1>9. CASE WorkerRaises(t)
  BY <1>0, <1>9, MoveKeeps DEF WorkerRaises, Keeps, Labels, limiter
<1>10. CASE Release(t)
  BY <1>0, <1>10, MoveKeeps DEF Release, Keeps, Labels
<1>11. CASE ReleaseAfterSend(t)
  BY <1>0, <1>11, MoveKeeps DEF ReleaseAfterSend, Keeps, Labels
<1>12. CASE ProviderRaises(t)
  BY <1>0, <1>12, MoveKeeps DEF ProviderRaises, Keeps, Labels
<1> QED BY <1>1, <1>2, <1>3, <1>4, <1>5, <1>6, <1>7, <1>8, <1>9, <1>10, <1>11, <1>12
        DEF Step, Finish

-----------------------------------------------------------------------------
(* The history and the ghost stay the same sends. *)

\* Pruning twice is pruning once.
LEMMA PrunedAgain ==
  ASSUME NEW ages \in Seq(Nat), NEW window \in Nat
  PROVE  Pruned(Pruned(ages, window), window) = Pruned(ages, window)
<1> DEFINE p == Pruned(ages, window)
<1>1. PICK k \in 0..Len(ages) :
        /\ PopsFrom(ages, window, k)
        /\ Len(p) = Len(ages) - k
        /\ \A i \in 1..(Len(ages) - k) : p[i] = ages[i + k]
  BY PrunedType
<1>2. p \in Seq(Nat)
  BY PrunedType
<1> HIDE DEF p
<1>3. PopsFrom(p, window, 0)
  <2>1. 0 < Len(p) => p[1] <= window
    BY <1>1 DEF PopsFrom
  <2> QED BY <1>2, <2>1 DEF PopsFrom
<1>4. Pruned(p, window) = [i \in 1..(Len(p) - 0) |-> p[i + 0]]
  BY <1>2, <1>3, PrunedEffect
<1>5. Pruned(p, window) = [i \in 1..Len(p) |-> p[i]]
  <2>1. Len(p) - 0 = Len(p) /\ \A i \in 1..Len(p) : i + 0 = i
    BY <1>2
  <2> QED BY <1>4, <2>1
<1>6. p = [i \in 1..Len(p) |-> p[i]]
  BY <1>2
<1> QED BY <1>5, <1>6 DEF p

\* A new send is not pruned, and nothing else is kept for it.
LEMMA PrunedAppend ==
  ASSUME NEW ages \in Seq(Nat), NEW window \in Nat
  PROVE  Pruned(Append(ages, 0), window) = Append(Pruned(ages, window), 0)
<1> DEFINE more == Append(ages, 0)
           p    == Pruned(ages, window)
<1>1. PICK k \in Nat : PopsFrom(ages, window, k)
  BY PopsSome
<1>2. p = [i \in 1..(Len(ages) - k) |-> ages[i + k]]
  BY <1>1, PrunedEffect
<1>3. /\ more \in Seq(Nat) /\ Len(more) = Len(ages) + 1 /\ Len(ages) \in Nat /\ k <= Len(ages)
      /\ more[Len(ages) + 1] = 0 /\ \A i \in 1..Len(ages) : more[i] = ages[i]
  BY <1>1 DEF PopsFrom
<1> HIDE DEF more, p
<1>4. PopsFrom(more, window, k)
  <2>1. ASSUME NEW i \in 1..k PROVE more[i] > window
    <3>1. i \in 1..Len(ages)
      BY <1>1, <1>3
    <3>2. ages[i] > window
      BY <1>1 DEF PopsFrom
    <3> QED BY <1>3, <3>1, <3>2
  <2>2. more[k + 1] <= window
    <3>1. CASE k = Len(ages)
      BY <1>3, <3>1
    <3>2. CASE k < Len(ages)
      <4>1. ages[k + 1] <= window /\ k + 1 \in 1..Len(ages)
        BY <1>1, <1>3, <3>2 DEF PopsFrom
      <4> QED BY <1>3, <4>1
    <3> QED BY <1>3, <3>1, <3>2
  <2> QED BY <1>3, <2>1, <2>2 DEF PopsFrom
<1>5. Pruned(more, window) = [i \in 1..(Len(more) - k) |-> more[i + k]]
  BY <1>3, <1>4, PrunedEffect
<1>6. p \in Seq(Nat) /\ Len(p) = Len(ages) - k
  <2>1. ASSUME NEW i \in 1..(Len(ages) - k) PROVE i + k \in 1..Len(ages) /\ ages[i + k] \in Nat
    <3>1. i + k \in 1..Len(ages)
      BY <1>1, <1>3
    <3> QED BY <3>1
  <2>2. Len(ages) - k \in Nat
    BY <1>1, <1>3
  <2> QED BY <1>2, <2>1, <2>2
<1> DEFINE q == Pruned(more, window)
<1>7. q \in Seq(Nat) /\ Len(q) = Len(p) + 1 /\ \A i \in 1..(Len(p) + 1) : q[i] = more[i + k]
  <2>1. Len(more) - k = Len(p) + 1 /\ Len(p) + 1 \in Nat
    BY <1>3, <1>6
  <2>2. q \in Seq(Nat)
    BY <1>3, PrunedType
  <2> HIDE DEF q
  <2>3. q = [i \in 1..(Len(p) + 1) |-> more[i + k]]
    BY <1>5, <2>1 DEF q
  <2> QED BY <2>1, <2>2, <2>3
<1> HIDE DEF q
<1>8. /\ Append(p, 0) \in Seq(Nat) /\ Len(Append(p, 0)) = Len(p) + 1
      /\ Append(p, 0)[Len(p) + 1] = 0 /\ \A i \in 1..Len(p) : Append(p, 0)[i] = p[i]
  BY <1>6
<1>9. ASSUME NEW i \in 1..Len(q) PROVE q[i] = Append(p, 0)[i]
  <2>1. CASE i = Len(p) + 1
    <3>1. i + k = Len(ages) + 1
      BY <1>3, <1>6, <2>1
    <3> QED BY <1>3, <1>7, <1>8, <2>1, <3>1
  <2>2. CASE i # Len(p) + 1
    <3>1. i \in 1..Len(p) /\ i \in 1..(Len(ages) - k) /\ i + k \in 1..Len(ages)
      BY <1>3, <1>6, <1>7, <2>2
    <3> QED BY <1>2, <1>3, <1>7, <1>8, <3>1
  <2> QED BY <2>1, <2>2
<1> QED BY <1>7, <1>8, <1>9, SeqEqual DEF more, p, q

\* An entry that is past the day stays, the others get older, and what is
\* pruned of them is pruned of the ghost.
LEMMA TickLinked ==
  ASSUME Wellformed, Linked, Tick
  PROVE  Linked'
<1> SUFFICES ASSUME crashes = 0 PROVE sends' = Pruned(history', Day)
  BY DEF Linked, Tick
<1> DEFINE older == [i \in DOMAIN sends |-> sends[i] + 1]
<1>1. history \in Seq(Nat) /\ Day \in Nat /\ sends \in Seq(Nat)
      /\ DOMAIN sends = 1..Len(sends) /\ Len(history) \in Nat /\ DOMAIN history = 1..Len(history)
  <2>1. history \in Seq(0..(Day + 1)) /\ sends \in Seq(0..Day) /\ Day \in Nat
    BY ConstantTypes DEF Wellformed, TypeOK
  <2>2. 0..(Day + 1) \subseteq Nat /\ 0..Day \subseteq Nat
    BY <2>1
  <2> QED BY <2>1, <2>2, SeqMonotonic
<1>2. older \in Seq(Nat) /\ Len(older) = Len(sends)
      /\ \A i \in 1..Len(sends) : older[i] = sends[i] + 1
  BY <1>1
<1>3. /\ history' \in Seq(Nat) /\ Len(history') = Len(history)
      /\ \A i \in 1..Len(history) :
           history'[i] = IF history[i] > Day THEN history[i] ELSE history[i] + 1
  <2>1. \A i \in 1..Len(history) : history[i] \in Nat
    BY <1>1
  <2>2. history' = [i \in 1..Len(history) |->
                      IF history[i] > Day THEN history[i] ELSE history[i] + 1]
    BY <1>1 DEF Tick
  <2> QED BY <1>1, <2>1, <2>2
<1>4. sends' = Pruned(older, Day)
  BY DEF Tick
<1> HIDE DEF older
<1>5. PICK k \in 0..Len(history) :
        /\ PopsFrom(history, Day, k)
        /\ Len(sends) = Len(history) - k
        /\ \A i \in 1..(Len(history) - k) : sends[i] = history[i + k]
  <2>1. sends = Pruned(history, Day)
    BY DEF Linked
  <2> QED BY <1>1, <2>1, PrunedType
<1>6. PICK j \in Nat : PopsFrom(older, Day, j)
  BY <1>1, <1>2, PopsSome
<1>7. j <= Len(sends) /\ sends' = [i \in 1..(Len(sends) - j) |-> older[i + j]]
  <2>1. Pruned(older, Day) = [i \in 1..(Len(older) - j) |-> older[i + j]]
    BY <1>1, <1>2, <1>6, PrunedEffect
  <2>2. j <= Len(older)
    BY <1>6 DEF PopsFrom
  <2> QED BY <1>2, <1>4, <2>1, <2>2
<1>8. ASSUME NEW i \in 1..Len(history), i > k
      PROVE  i - k \in 1..Len(sends) /\ history[i] = sends[i - k]
  <2>1. i - k \in 1..(Len(history) - k) /\ (i - k) + k = i
    BY <1>1, <1>5, <1>8
  <2> QED BY <1>5, <2>1
<1>9. ASSUME NEW i \in 1..(k + j) PROVE history'[i] > Day
  <2>0. i \in 1..Len(history) /\ history[i] \in Nat
    BY <1>1, <1>5, <1>7
  <2>1. CASE i <= k
    <3>1. i \in 1..k
      BY <1>5, <2>0, <2>1
    <3>2. history[i] > Day
      BY <1>5, <3>1 DEF PopsFrom
    <3> QED BY <1>3, <2>0, <3>2
  <2>2. CASE i > k
    <3>1. i - k \in 1..j /\ i - k \in 1..Len(sends) /\ history[i] = sends[i - k]
      BY <1>5, <1>8, <2>0, <2>2
    <3>2. history[i] + 1 > Day
      BY <1>2, <1>6, <3>1 DEF PopsFrom
    <3> QED BY <1>1, <1>3, <2>0, <3>2
  <2> QED BY <1>5, <2>1, <2>2
<1>10. ASSUME NEW i \in 1..(Len(sends) - j) PROVE /\ i + j \in 1..Len(sends)
                                                  /\ i + (k + j) \in 1..Len(history)
                                                  /\ history[i + (k + j)] = sends[i + j]
  <2>1. i + j \in 1..Len(sends) /\ i + (k + j) = (i + j) + k
    BY <1>1, <1>5, <1>7
  <2> QED BY <1>1, <1>5, <2>1
<1>11. ASSUME NEW i \in 1..(Len(sends) - j), sends[i + j] + 1 <= Day
       PROVE  history'[i + (k + j)] = older[i + j]
  <2>1. sends[i + j] \in Nat
    BY <1>1, <1>10
  <2> QED BY <1>1, <1>2, <1>3, <1>10, <1>11, <2>1
<1>12. ASSUME NEW i \in 1..(Len(sends) - j) PROVE history'[i + (k + j)] = older[i + j]
  <2>1. /\ 1 \in 1..(Len(sends) - j) /\ j < Len(sends)
        /\ 1 + j \in 1..Len(sends) /\ i + j \in 1..Len(sends)
    BY <1>1, <1>7
  <2>2. sends[1 + j] + 1 <= Day
    BY <1>2, <1>6, <2>1 DEF PopsFrom
  <2>3. sends[1 + j] >= sends[i + j]
    <3>1. 1 + j <= i + j
      BY <2>1
    <3> QED BY <1>1, <2>1, <3>1 DEF Wellformed, Ordered
  <2>4. sends[i + j] \in Nat /\ sends[1 + j] \in Nat
    BY <1>1, <2>1
  <2>5. sends[i + j] + 1 <= Day
    BY <1>1, <2>2, <2>3, <2>4
  <2> QED BY <1>11, <2>5
<1>13. PopsFrom(history', Day, k + j)
  <2>1. k + j \in 0..Len(history')
    BY <1>1, <1>3, <1>5, <1>7
  <2>2. ASSUME k + j < Len(history') PROVE history'[(k + j) + 1] <= Day
    <3>1. 1 \in 1..(Len(sends) - j) /\ j < Len(sends) /\ (k + j) + 1 = 1 + (k + j)
      <4>1. /\ k \in Nat /\ j \in Nat /\ Len(history) \in Nat /\ Len(history') = Len(history)
            /\ Len(sends) \in Nat /\ Len(sends) = Len(history) - k
        BY <1>1, <1>3, <1>5, <1>6
      <4> QED BY <4>1, <2>2
    <3>2. older[1 + j] <= Day
      BY <1>2, <1>6, <3>1 DEF PopsFrom
    <3> QED BY <1>12, <3>1, <3>2
  <2> QED BY <1>9, <2>1, <2>2 DEF PopsFrom
<1>14. Pruned(history', Day) = [i \in 1..(Len(history') - (k + j)) |-> history'[i + (k + j)]]
  <2>1. k + j \in Nat
    BY <1>5
  <2> QED BY <1>1, <1>3, <1>13, <2>1, PrunedEffect
<1>15. Len(history') - (k + j) = Len(sends) - j
  BY <1>1, <1>3, <1>5
<1> QED BY <1>7, <1>12, <1>14, <1>15

-----------------------------------------------------------------------------
(* Each kind of step keeps the account. *)

LEMMA WellformedTypes ==
  ASSUME Wellformed
  PROVE  /\ history \in Seq(Nat) /\ sends \in Seq(Nat) /\ Len(sends) \in Nat
         /\ DOMAIN sends = 1..Len(sends) /\ sinceLast \in Nat /\ Day \in Nat
         /\ crashes \in Nat
<1>1. history \in Seq(0..(Day + 1)) /\ sends \in Seq(0..Day) /\ Day \in Nat
  BY ConstantTypes DEF Wellformed, TypeOK
<1>2. 0..(Day + 1) \subseteq Nat /\ 0..Day \subseteq Nat
  BY <1>1
<1>3. history \in Seq(Nat) /\ sends \in Seq(Nat)
  BY <1>1, <1>2, SeqMonotonic
<1>4. sinceLast \in Nat /\ crashes \in Nat
  BY ConstantTypes DEF Wellformed, TypeOK
<1> QED BY <1>1, <1>3, <1>4

\* The threads that may still add a send are some of the threads.
LEMMA AdmittedCount ==
  /\ IsFiniteSet(Admitted) /\ Cardinality(Admitted) \in Nat
  /\ Cardinality(Admitted) <= Cardinality(Threads) /\ Cardinality(Threads) \in Nat
<1>1. IsFiniteSet(Threads) /\ Admitted \subseteq Threads
  BY ConstantTypes DEF Admitted
<1> QED BY <1>1, FS_Subset, FS_CardinalityType

LEMMA AdmittedCountNext ==
  /\ IsFiniteSet(Admitted') /\ Cardinality(Admitted') \in Nat
  /\ Cardinality(Admitted') <= Cardinality(Threads)
<1>1. IsFiniteSet(Threads) /\ Admitted' \subseteq Threads
  BY ConstantTypes DEF Admitted
<1> QED BY <1>1, FS_Subset, FS_CardinalityType

\* A limit that has room keeps it when no thread is admitted and nothing is sent.
LEMMA RoomKept ==
  ASSUME NEW window \in Nat, NEW limit \in Nat, Room(window, limit),
         sends \in Seq(Nat), sends' \in Seq(Nat),
         Recent(sends', window) <= Recent(sends, window),
         Admitted' \subseteq Admitted
  PROVE  limit # 0 =>
           Recent(sends', window) + Cardinality(Admitted') < limit + Cardinality(Threads)
<1>1. /\ Cardinality(Admitted') <= Cardinality(Admitted)
      /\ Cardinality(Admitted') \in Nat /\ Cardinality(Admitted) \in Nat
      /\ Cardinality(Threads) \in Nat
  BY AdmittedCount, AdmittedCountNext, FS_Subset
<1>2. Recent(sends', window) \in Nat /\ Recent(sends, window) \in Nat
  BY RecentType
<1> QED BY <1>1, <1>2 DEF Room

\* A thread that sends uses the room that its admission left for it.
LEMMA RoomUsed ==
  ASSUME NEW window \in Nat, NEW limit \in Nat, Room(window, limit),
         sends \in Seq(Nat), sends' = Append(sends, 0),
         NEW t \in Admitted, Admitted' = Admitted \ {t}
  PROVE  limit # 0 =>
           Recent(sends', window) + Cardinality(Admitted') < limit + Cardinality(Threads)
<1>1. /\ Cardinality(Admitted') = Cardinality(Admitted) - 1
      /\ Cardinality(Admitted) \in Nat /\ Cardinality(Threads) \in Nat
  BY AdmittedCount, FS_RemoveElement
<1>2. Recent(sends', window) = Recent(sends, window) + 1 /\ Recent(sends, window) \in Nat
  BY RecentType, RecentAppend
<1> QED BY <1>1, <1>2 DEF Room

LEMMA KeepsAccounted ==
  ASSUME Wellformed, Accounted, Keeps
  PROVE  Accounted'
<1>1. Linked'
  <2>1. Pruned(Pruned(history, Day), Day) = Pruned(history, Day)
    BY WellformedTypes, PrunedAgain
  <2> QED BY <2>1 DEF Keeps, Accounted, Linked
<1>2. Stamped'
  BY DEF Keeps, Accounted, Stamped
<1>3. Spaced'
  BY DEF Keeps, Accounted, Spaced, Wanted
<1>4. Budget'
  <2> SUFFICES ASSUME crashes = 0 PROVE Room(Day, DailyLimit)' /\ Room(Hour, HourlyLimit)'
    BY DEF Budget, Keeps
  <2>1. Room(Day, DailyLimit) /\ Room(Hour, HourlyLimit)
    BY DEF Accounted, Budget
  <2>2. ASSUME NEW window \in Nat, NEW limit \in Nat, Room(window, limit)
        PROVE  limit # 0 =>
                 Recent(sends', window) + Cardinality(Admitted') < limit + Cardinality(Threads)
    <3>1. sends' = sends /\ sends \in Seq(Nat) /\ Recent(sends, window) \in Nat
      BY WellformedTypes, RecentType DEF Keeps
    <3>2. Recent(sends', window) <= Recent(sends, window)
      BY <3>1
    <3> QED BY <2>2, <3>1, <3>2, RoomKept DEF Keeps
  <2> QED BY <2>1, <2>2, ConstantTypes DEF Room
<1> QED BY <1>1, <1>2, <1>3, <1>4 DEF Accounted

\* A thread is admitted while the sends are below the limits, beside at most all
\* the other threads.
LEMMA AdmitsAccounted ==
  ASSUME Wellformed, Accounted, NEW t \in Threads, AdmitsThread(t)
  PROVE  Accounted'
<1>1. Linked'
  <2>1. Pruned(Pruned(history, Day), Day) = Pruned(history, Day)
    BY WellformedTypes, PrunedAgain
  <2> QED BY <2>1 DEF AdmitsThread, Accounted, Linked
<1>2. Stamped'
  BY DEF AdmitsThread, Accounted, Stamped
<1>3. Spaced'
  <2> SUFFICES ASSUME NEW u \in Threads \ overtaken', pc'[u] = "ready"
               PROVE  backoffLeft' = 0 /\ sinceLast' >= Wanted(u)
    BY DEF Spaced, Wanted
  <2>1. CASE u = t
    BY <2>1 DEF AdmitsThread
  <2>2. CASE u # t
    BY <2>2 DEF AdmitsThread, Accounted, Spaced
  <2> QED BY <2>1, <2>2
<1>4. Budget'
  <2> SUFFICES ASSUME crashes = 0 PROVE Room(Day, DailyLimit)' /\ Room(Hour, HourlyLimit)'
    BY DEF Budget, AdmitsThread
  <2>1. sends' = sends /\ sends = Pruned(history, Day)
    BY DEF Accounted, Linked, AdmitsThread
  <2>2. /\ DailyLimit # 0 => Len(sends) < DailyLimit
        /\ HourlyLimit # 0 => Recent(sends, Hour) < HourlyLimit
    BY <2>1 DEF AdmitsThread, WithinLimits
  <2>3. /\ Recent(sends, Day) \in Nat /\ Recent(sends, Day) <= Len(sends)
        /\ Recent(sends, Hour) \in Nat /\ Len(sends) \in Nat
    BY WellformedTypes, ConstantTypes, RecentType
  <2>4. Cardinality(Admitted') \in Nat /\ Cardinality(Admitted') <= Cardinality(Threads)
        /\ Cardinality(Threads) \in Nat
    BY AdmittedCount, AdmittedCountNext
  <2> QED BY <2>1, <2>2, <2>3, <2>4, ConstantTypes DEF Room
<1> QED BY <1>1, <1>2, <1>3, <1>4 DEF Accounted

LEMMA RecordsAccounted ==
  ASSUME Wellformed, Accounted, NEW t \in Threads, Records(t)
  PROVE  Accounted'
<1>1. Linked'
  <2>1. CASE sends' = Append(sends, 0) /\ history' = Append(history, 0)
    <3>1. Pruned(Append(history, 0), Day) = Append(Pruned(history, Day), 0)
      BY WellformedTypes, PrunedAppend
    <3> QED BY <2>1, <3>1 DEF Records, Accounted, Linked
  <2>2. CASE UNCHANGED <<sends, history>>
    BY <2>2 DEF Records, Accounted, Linked
  <2> QED BY <2>1, <2>2 DEF Records
<1>2. Stamped'
  <2>1. \A i \in DOMAIN sends' : sends'[i] \in Nat
    <3>1. sends \in Seq(Nat) /\ Append(sends, 0) \in Seq(Nat)
      BY WellformedTypes
    <3>2. sends' = sends \/ sends' = Append(sends, 0)
      BY DEF Records
    <3> QED BY <3>1, <3>2
  <2> QED BY <2>1 DEF Records, Stamped
<1>3. Spaced'
  BY DEF Records, Spaced
<1>4. Budget'
  <2> SUFFICES ASSUME crashes = 0 PROVE Room(Day, DailyLimit)' /\ Room(Hour, HourlyLimit)'
    BY DEF Budget, Records
  <2>1. Room(Day, DailyLimit) /\ Room(Hour, HourlyLimit)
    BY DEF Accounted, Budget
  <2>2. ASSUME NEW window \in Nat, NEW limit \in Nat, Room(window, limit)
        PROVE  limit # 0 =>
                 Recent(sends', window) + Cardinality(Admitted') < limit + Cardinality(Threads)
    <3>1. sends \in Seq(Nat) /\ Recent(sends, window) \in Nat
      BY WellformedTypes, RecentType
    <3>2. CASE sends' = Append(sends, 0)
      BY <2>2, <3>1, <3>2, RoomUsed DEF Records
    <3>3. CASE sends' = sends
      <4>1. Recent(sends', window) <= Recent(sends, window) /\ Admitted' \subseteq Admitted
        BY <3>1, <3>3 DEF Records
      <4> QED BY <2>2, <3>1, <3>3, <4>1, RoomKept
    <3> QED BY <3>2, <3>3 DEF Records
  <2> QED BY <2>1, <2>2, ConstantTypes DEF Room
<1> QED BY <1>1, <1>2, <1>3, <1>4 DEF Accounted

LEMMA TickAccounted ==
  ASSUME Wellformed, Accounted, Tick
  PROVE  Accounted'
<1>1. Linked'
  BY TickLinked DEF Accounted
<1>2. PICK k \in 0..Len(sends) :
        /\ sends' \in Seq(0..Day) /\ Len(sends') = Len(sends) - k
        /\ \A i \in 1..Len(sends') : sends'[i] = sends[i + k] + 1
  BY TickEffect
<1>3. /\ sends' \in Seq(Nat) /\ sends \in Seq(Nat) /\ Len(sends) \in Nat /\ Day \in Nat
      /\ DOMAIN sends' = 1..Len(sends') /\ DOMAIN sends = 1..Len(sends) /\ sinceLast \in Nat
  <2>1. 0..Day \subseteq Nat
    BY ConstantTypes
  <2> QED BY <1>2, <2>1, SeqMonotonic, WellformedTypes
<1>4. ASSUME NEW i \in 1..Len(sends')
      PROVE  i + k \in 1..Len(sends) /\ sends[i + k] \in Nat /\ sends'[i] = sends[i + k] + 1
  <2>1. i + k \in 1..Len(sends)
    BY <1>2, <1>3
  <2>2. sends[i + k] \in Nat
    BY <1>3, <2>1, ElementOfSeq
  <2> QED BY <1>2, <2>1, <2>2
<1>5. sinceLast' <= sinceLast + 1 /\ sinceLast' >= sinceLast /\ sinceLast' \in Nat
  BY ConstantTypes DEF Tick, Wellformed, TypeOK
<1>6. Stamped'
  <2> SUFFICES ASSUME crashes = 0, NEW i \in 1..Len(sends') PROVE sends'[i] >= sinceLast'
    BY <1>3 DEF Stamped, Tick
  <2>1. sends[i + k] >= sinceLast
    BY <1>3, <1>4 DEF Accounted, Stamped
  <2> QED BY <1>3, <1>4, <1>5, <2>1
<1>7. Spaced'
  <2> SUFFICES ASSUME NEW u \in Threads \ overtaken, pc[u] = "ready"
               PROVE  backoffLeft' = 0 /\ sinceLast' >= Wanted(u)
    BY DEF Spaced, Wanted, Tick
  <2>1. backoffLeft = 0 /\ sinceLast >= Wanted(u)
    BY DEF Accounted, Spaced
  <2>2. Wanted(u) \in Nat
    <3>1. \E d \in Jitter : TRUE
      BY LimiterAssumption
    <3> QED BY <3>1, WantedLeast DEF Wellformed, TypeOK
  <2> QED BY <1>3, <1>5, <2>1, <2>2 DEF Tick
<1>8. Budget'
  <2> SUFFICES ASSUME crashes = 0 PROVE Room(Day, DailyLimit)' /\ Room(Hour, HourlyLimit)'
    BY DEF Budget, Tick
  <2>1. Room(Day, DailyLimit) /\ Room(Hour, HourlyLimit)
    BY DEF Accounted, Budget
  <2>2. Admitted' = Admitted
    BY DEF Admitted, Tick
  <2>3. ASSUME NEW window \in Nat, NEW limit \in Nat, Room(window, limit)
        PROVE  limit # 0 =>
                 Recent(sends', window) + Cardinality(Admitted') < limit + Cardinality(Threads)
    <3>1. \A i \in 1..Len(sends') : sends'[i] >= sends[i + k]
      BY <1>4
    <3>2. Recent(sends', window) <= Recent(sends, window)
      BY <1>2, <1>3, <3>1, RecentShrinks
    <3> QED BY <1>3, <2>2, <2>3, <3>2, RoomKept
  <2> QED BY <2>1, <2>3, ConstantTypes DEF Room
<1> QED BY <1>1, <1>6, <1>7, <1>8 DEF Accounted

\* After a restart nobody is inside and the history no longer counts.
LEMMA RestartAccounted ==
  ASSUME Wellformed, Restart
  PROVE  Accounted'
<1>1. crashes' # 0
  BY WellformedTypes DEF Restart
<1>2. Spaced'
  BY DEF Restart, Spaced
<1> QED BY <1>1, <1>2 DEF Accounted, Linked, Stamped, Budget

LEMMA InitAccounted ==
  ASSUME Init
  PROVE  Accounted
<1>1. Linked
  <2>1. Pruned(<<>>, Day) = <<>>
    BY DEF Pruned
  <2> QED BY <2>1 DEF Init, Linked
<1>2. Stamped /\ Spaced
  BY DEF Init, Stamped, Spaced
<1>3. Budget
  <2>1. Admitted = {}
    BY DEF Init, Admitted
  <2>2. ASSUME NEW window PROVE Recent(sends, window) = 0
    <3>1. {i \in DOMAIN <<>> : <<>>[i] <= window} = {}
      OBVIOUS
    <3> QED BY <3>1, FS_EmptySet DEF Init, Recent
  <2>3. Cardinality(Admitted) = 0
    BY <2>1, FS_EmptySet
  <2> QED BY <2>2, <2>3, AdmittedCount, ConstantTypes DEF Budget, Room
<1> QED BY <1>1, <1>2, <1>3 DEF Accounted

LEMMA AccountedInductive ==
  /\ Init => Wellformed /\ Accounted
  /\ Wellformed /\ Accounted /\ [Next]_vars => Wellformed' /\ Accounted'
<1>1. ASSUME Wellformed, Accounted, [Next]_vars PROVE Accounted'
  <2>1. ASSUME NEW t \in Threads, Step(t) PROVE Accounted'
    <3>1. Keeps \/ AdmitsThread(t) \/ Records(t)
      BY <1>1, <2>1, StepKinds DEF Wellformed
    <3> QED BY <1>1, <3>1, KeepsAccounted, AdmitsAccounted, RecordsAccounted
  <2>2. CASE UNCHANGED vars
    <3>1. Keeps
      BY <2>2 DEF vars, limiter, Keeps, Admitted
    <3> QED BY <1>1, <3>1, KeepsAccounted
  <2> QED BY <1>1, <2>1, <2>2, TickAccounted, RestartAccounted DEF Next
<1> QED BY <1>1, InitAccounted, WellformedInductive

\* As long as the process lives, a sender has no more successful sends within a
\* day or an hour than the limit of the window allows, and one for every other
\* thread that was admitted beside the last of them: can_send checks the limits
\* against a history that only record_dispatch_success extends.
THEOREM CapsAreKept == Spec => []CapsKept
<1>1. Wellformed /\ Accounted => CapsKept
  <2> SUFFICES ASSUME Wellformed, Accounted, crashes = 0
               PROVE  /\ DailyLimit # 0 => Recent(sends, Day) < DailyLimit + Cardinality(Threads)
                      /\ HourlyLimit # 0 => Recent(sends, Hour) < HourlyLimit + Cardinality(Threads)
    BY DEF CapsKept
  <2>1. Room(Day, DailyLimit) /\ Room(Hour, HourlyLimit)
    BY DEF Accounted, Budget
  <2>2. Recent(sends, Day) \in Nat /\ Recent(sends, Hour) \in Nat
    BY WellformedTypes, ConstantTypes, RecentType
  <2> QED BY <2>1, <2>2, AdmittedCount, ConstantTypes DEF Room
<1> QED BY <1>1, AccountedInductive, PTL DEF Spec

\* A thread that goes from ready to sending has overtaken nobody's outcome, so
\* the spacing and the backoff that can_send checked hold when acquire_sender
\* takes the sender, by the real times of the sends.
LEMMA TakenReady ==
  ASSUME Wellformed, Accounted, NEW t \in Threads \ overtaken, At(t, "ready")
  PROVE  /\ backoffLeft = 0
         /\ sends # <<>> /\ crashes = 0 =>
              sends[Len(sends)] >= IF t \in Operators THEN Pace \div 2
                                   ELSE CHOOSE d \in Jitter : \A e \in Jitter : d <= e
<1>1. backoffLeft = 0 /\ sinceLast >= Wanted(t)
  BY DEF Accounted, Spaced, At
<1>2. ASSUME sends # <<>>, crashes = 0 PROVE sends[Len(sends)] >= Wanted(t)
  <2>1. Len(sends) \in DOMAIN sends /\ sends[Len(sends)] \in Nat /\ sinceLast \in Nat
    BY <1>2, WellformedTypes
  <2>2. sends[Len(sends)] >= sinceLast
    BY <1>2, <2>1 DEF Accounted, Stamped
  <2>3. Wanted(t) \in Nat
    <3>1. \E d \in Jitter : TRUE
      BY LimiterAssumption
    <3> QED BY <3>1, WantedLeast DEF Wellformed, TypeOK
  <2> QED BY <1>1, <2>1, <2>2, <2>3
<1> QED BY <1>1, <1>2 DEF Wanted, Shortest

\* The check and the acquisition are two steps with other threads in between,
\* and still a sender is taken only after the spacing and the backoff.
THEOREM SpacingHolds == Spec => TakenWhenReady
<1>1. Wellformed /\ Accounted /\ [Next]_vars =>
        [\A t \in Threads \ overtaken : At(t, "ready") /\ pc'[t] = "sending" =>
           /\ backoffLeft = 0
           /\ sends # <<>> /\ crashes = 0 =>
                sends[Len(sends)] >= IF t \in Operators THEN Pace \div 2
                                     ELSE CHOOSE d \in Jitter : \A e \in Jitter : d <= e]_vars
  BY TakenReady
<1> QED BY <1>1, AccountedInductive, PTL DEF Spec, TakenWhenReady
=============================================================================
