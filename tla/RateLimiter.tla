---------------------------- MODULE RateLimiter -----------------------------
(***************************************************************************)
(* One sender identity of the in-memory rate limiter, shared by the loop   *)
(* threads of the campaigns and the request threads of the operators.      *)
(* Each method runs under the limiter's lock and is one step; what a       *)
(* thread does between two calls is not protected.  The limiter keeps each *)
(* sender under its own dictionary keys, so one sender stands for all.     *)
(*                                                                         *)
(* Timestamps are kept as what the code computes from them, the time since *)
(* them, so the clock itself needs no bound.                               *)
(***************************************************************************)
EXTENDS Naturals, Sequences, FiniteSets

CONSTANTS
  Loops, Operators,  \* the threads that use this sender
  Pace,              \* default_channel_delay of the sender's channel
  Jitter,            \* values of random.uniform(0.8 * Pace, 1.25 * Pace)
  BaseBackoff, MaxBackoff,
  RateLimitBackoff,  \* the floor of a backoff after a rate-limit answer
  DailyLimit, HourlyLimit,  \* 0: no limit
  Day, Hour,         \* the windows of the limits
  MaxCrashes         \* bound on process crashes

ASSUME LimiterAssumption ==
  /\ Loops \cap Operators = {} /\ IsFiniteSet(Loops \cup Operators)
  /\ Jitter # {} /\ Jitter \in SUBSET (Nat \ {0})
  /\ {Pace, BaseBackoff, MaxBackoff, RateLimitBackoff} \subseteq Nat
  /\ {DailyLimit, HourlyLimit, Hour, Day, MaxCrashes} \subseteq Nat
  /\ Hour <= Day /\ \A d \in Jitter : d <= Day

Threads == Loops \cup Operators

VARIABLES
  busy,        \* _sender_busy
  sinceLast,   \* time since _last_send_time, Day standing for anything longer
  target,      \* _target_delay, 0 when there is none
  failures,    \* _consecutive_failures, 6 standing for anything more
  backoffLeft, \* time until _backoff_until
  history,     \* _dispatch_history: the ages of its entries, oldest first
  pc,          \* thread -> where it is
  sends,       \* ages of the successful sends, kept across restarts (ghost)
  overtaken,   \* threads beside whose admission an outcome was recorded (ghost)
  crashes

limiter == <<busy, sinceLast, target, failures, backoffLeft, history>>
vars    == <<limiter, pc, sends, overtaken, crashes>>

Labels == {"idle", "waiting", "ready", "sending", "leaving", "released"}

At(t, label)         == pc[t] = label
Move(t, from, label) == At(t, from) /\ pc' = [pc EXCEPT ![t] = label]

Recent(ages, window) == Cardinality({i \in DOMAIN ages : ages[i] <= window})

\* Entries are popped from the left until one is within the window.
Pruned(ages, window) ==
  LET kept  == {i \in DOMAIN ages : ages[i] <= window}
      first == CHOOSE i \in kept : \A j \in kept : i <= j
  IN  IF kept = {} THEN <<>> ELSE SubSeq(ages, first, Len(ages))

-----------------------------------------------------------------------------
(***************************************************************************)
(* can_send, once the sender is neither busy nor in backoff: the spacing   *)
(* an operator asks for is half the pace, a loop's is drawn and kept until *)
(* the next success; d is what random.uniform would return.                *)
(***************************************************************************)
Spacing(t, d) ==
  IF t \in Operators THEN Pace \div 2 ELSE IF target = 0 THEN d ELSE target

SpacedOut(t, d) == sinceLast >= Spacing(t, d)

WithinLimits ==
  LET kept == Pruned(history, Day)
  IN  /\ DailyLimit # 0 => Len(kept) < DailyLimit
      /\ HourlyLimit # 0 => Recent(kept, Hour) < HourlyLimit

\* Mutant: entries are dropped from the history when they leave the hour.
PruneToHour == history' = Pruned(history, Hour)

Prune == history' = Pruned(history, Day)

\* What a can_send that gets past busy and backoff leaves behind.
Draw(t, d) == target' = IF t \in Loops THEN Spacing(t, d) ELSE target

Admits(t, d) ==
  /\ ~busy /\ backoffLeft = 0
  /\ SpacedOut(t, d) /\ WithinLimits
  /\ Draw(t, d) /\ Prune

Refuses(t, d) ==
  /\ ~busy /\ backoffLeft = 0
  /\ ~(SpacedOut(t, d) /\ WithinLimits)
  /\ Draw(t, d)
  /\ IF SpacedOut(t, d) THEN Prune ELSE UNCHANGED history

\* The loop probes the senders and dispatches with one that is ready.
SelectSender(t, d) ==
  /\ Move(t, "idle", "waiting") /\ Admits(t, d)
  /\ UNCHANGED <<busy, sinceLast, failures, backoffLeft, sends, overtaken, crashes>>

\* An operator's request has its sender and goes straight to wait_for_ready.
RequestDispatch(t) ==
  /\ Move(t, "idle", "waiting")
  /\ UNCHANGED <<limiter, sends, overtaken, crashes>>

\* A poll that is refused: of the loop's probe or in wait_for_ready.
Poll(t, d) ==
  /\ At(t, "waiting") \/ (At(t, "idle") /\ t \in Loops)
  /\ Refuses(t, d)
  /\ UNCHANGED <<busy, sinceLast, failures, backoffLeft, pc, sends, overtaken, crashes>>

WaitForReady(t, d) ==
  /\ Move(t, "waiting", "ready") /\ Admits(t, d)
  /\ overtaken' = overtaken \ {t}
  /\ UNCHANGED <<busy, sinceLast, failures, backoffLeft, sends, crashes>>

\* The deadline of wait_for_ready may pass at any poll.
PacingTimeout(t) ==
  /\ Move(t, "waiting", "idle")
  /\ UNCHANGED <<limiter, sends, overtaken, crashes>>

AcquireSender(t) ==
  /\ Move(t, "ready", IF busy THEN "idle" ELSE "sending")
  /\ busy' = TRUE
  /\ UNCHANGED <<sinceLast, target, failures, backoffLeft, history, sends, overtaken, crashes>>

-----------------------------------------------------------------------------
\* Mutant: a success does not stamp the time of the send.
RecordSuccessUnstamped ==
  /\ busy' = FALSE /\ failures' = 0 /\ backoffLeft' = 0 /\ target' = 0
  /\ history' = Append(history, 0) /\ sends' = Append(sends, 0)
  /\ UNCHANGED sinceLast

RecordSuccess ==
  /\ busy' = FALSE /\ sinceLast' = 0
  /\ failures' = 0 /\ backoffLeft' = 0 /\ target' = 0
  /\ history' = Append(history, 0) /\ sends' = Append(sends, 0)

\* 2 ** (count - 1), and 32 from the sixth failure on.
Multiplier(count) == <<1, 2, 4, 8, 16, 32>>[count]

\* Mutant: the exponential growth of the backoff has no ceiling.
BackoffUncapped(count) == BaseBackoff * Multiplier(count)

Backoff(count) ==
  LET grown == BaseBackoff * Multiplier(count)
  IN  IF grown < MaxBackoff THEN grown ELSE MaxBackoff

RecordFailure(isRateLimit) ==
  LET count == IF failures = 6 THEN 6 ELSE failures + 1
      wait  == Backoff(count)
  IN  /\ busy' = FALSE /\ sinceLast' = 0 /\ failures' = count
      /\ backoffLeft' = IF isRateLimit /\ wait < RateLimitBackoff
                        THEN RateLimitBackoff ELSE wait
      /\ UNCHANGED <<target, history, sends>>

Record ==
  /\ RecordSuccess \/ \E isRateLimit \in BOOLEAN : RecordFailure(isRateLimit)
  /\ overtaken' = overtaken \cup {u \in Threads : At(u, "ready")}

\* The loop: resolve records, which frees the sender, before its commit ...
Resolve(t) ==
  /\ t \in Loops /\ Move(t, "sending", "leaving")
  /\ Record
  /\ UNCHANGED crashes

\* Mutant: the worker's call has no finally clause.
WorkerRaisesLocked(t) ==
  /\ t \in Loops /\ Move(t, "sending", "idle")
  /\ UNCHANGED <<limiter, sends, overtaken, crashes>>

\* ... or the worker raises between acquire_sender and the record ...
WorkerRaises(t) ==
  /\ t \in Loops /\ Move(t, "sending", "leaving")
  /\ UNCHANGED <<limiter, sends, overtaken, crashes>>

\* ... and the finally clause frees the sender whoever has it by now.
Release(t) ==
  /\ Move(t, "leaving", "idle")
  /\ busy' = FALSE
  /\ UNCHANGED <<sinceLast, target, failures, backoffLeft, history, sends, overtaken, crashes>>

\* The operator's request frees the sender first ...
ReleaseAfterSend(t) ==
  /\ t \in Operators /\ Move(t, "sending", "released")
  /\ busy' = FALSE
  /\ UNCHANGED <<sinceLast, target, failures, backoffLeft, history, sends, overtaken, crashes>>

\* Mutant: the sender is freed after the call instead of in finally.
ProviderRaisesLocked(t) ==
  /\ t \in Operators /\ Move(t, "sending", "idle")
  /\ UNCHANGED <<limiter, sends, overtaken, crashes>>

ProviderRaises(t) ==
  /\ t \in Operators /\ Move(t, "sending", "idle")
  /\ busy' = FALSE
  /\ UNCHANGED <<sinceLast, target, failures, backoffLeft, history, sends, overtaken, crashes>>

\* ... and records the outcome afterwards.
RecordAfterRelease(t) ==
  /\ Move(t, "released", "idle")
  /\ Record
  /\ UNCHANGED crashes

-----------------------------------------------------------------------------
\* Time passes.  An entry of the history that is past the day stays, at age
\* Day + 1, until a can_send prunes it; the ghost just forgets it.
Tick ==
  /\ sinceLast' = IF sinceLast < Day THEN sinceLast + 1 ELSE Day
  /\ backoffLeft' = IF backoffLeft > 0 THEN backoffLeft - 1 ELSE 0
  /\ history' = [i \in DOMAIN history |->
                   IF history[i] > Day THEN history[i] ELSE history[i] + 1]
  /\ sends' = Pruned([i \in DOMAIN sends |-> sends[i] + 1], Day)
  /\ UNCHANGED <<busy, target, failures, pc, overtaken, crashes>>

\* The process dies and starts again with an empty limiter.  The time of the
\* last send is then the machine's start, however long ago that is.
Restart ==
  /\ crashes < MaxCrashes /\ crashes' = crashes + 1
  /\ busy' = FALSE /\ target' = 0 /\ failures' = 0 /\ backoffLeft' = 0
  /\ sinceLast' \in 0..Day
  /\ history' = <<>> /\ overtaken' = {}
  /\ pc' = [t \in Threads |-> "idle"]
  /\ UNCHANGED sends

Init ==
  /\ busy = FALSE /\ target = 0 /\ failures = 0 /\ backoffLeft = 0
  /\ sinceLast \in 0..Day
  /\ history = <<>> /\ sends = <<>> /\ overtaken = {}
  /\ pc = [t \in Threads |-> "idle"]
  /\ crashes = 0

Finish(t) ==
  \/ Resolve(t) \/ WorkerRaises(t) \/ Release(t)
  \/ ReleaseAfterSend(t) \/ ProviderRaises(t) \/ RecordAfterRelease(t)

Step(t) ==
  \/ \E d \in Jitter : \/ t \in Loops /\ SelectSender(t, d)
                       \/ Poll(t, d)
                       \/ WaitForReady(t, d)
  \/ t \in Operators /\ RequestDispatch(t)
  \/ PacingTimeout(t) \/ AcquireSender(t)
  \/ Finish(t)

Next == (\E t \in Threads : Step(t)) \/ Tick \/ Restart

Spec == Init /\ [][Next]_vars

\* A provider call ends and the thread that made it runs on.
FairSpec == Spec /\ \A t \in Threads : WF_vars(Finish(t))

-----------------------------------------------------------------------------
\* The type invariant of the limiter.
TypeOK ==
  /\ busy \in BOOLEAN
  /\ sinceLast \in 0..Day
  /\ target \in Jitter \cup {0}
  /\ failures \in 0..6
  /\ backoffLeft \in 0..MaxBackoff \cup 0..RateLimitBackoff
  /\ history \in Seq(0..(Day + 1)) /\ sends \in Seq(0..Day)
  /\ overtaken \in SUBSET Threads
  /\ pc \in [Threads -> Labels]
  /\ crashes \in 0..MaxCrashes

\* A sender that is marked busy is so because of a thread that has it now and
\* will free it: no order of records, releases, refused acquisitions and
\* exceptions leaves it locked with nobody inside.
LockHeld == busy => \E t \in Threads : pc[t] \in {"sending", "leaving"}

\* A busy sender becomes free again.
LockReleased == busy ~> ~busy

\* A sender is taken when its last message has had the spacing its taker must
\* keep and no backoff is running, although the limiter checked that in an
\* earlier step and from its own stamps; unless, in between, another thread
\* recorded an outcome.
TakenWhenReady ==
  [][\A t \in Threads \ overtaken : At(t, "ready") /\ pc'[t] = "sending" =>
        /\ backoffLeft = 0
        /\ sends # <<>> /\ crashes = 0 =>
             sends[Len(sends)] >= IF t \in Operators THEN Pace \div 2
                                  ELSE CHOOSE d \in Jitter : \A e \in Jitter : d <= e]_vars

\* "hourly/daily usage caps": as long as the process lives (a restart forgets
\* the history), a sender has no more successful sends within a window than its
\* limit allows, and one for every other thread that was admitted beside the
\* last of them: limits are checked at admission, history grows at the record.
CapsKept ==
  crashes = 0 =>
    /\ DailyLimit # 0 => Recent(sends, Day) < DailyLimit + Cardinality(Threads)
    /\ HourlyLimit # 0 => Recent(sends, Hour) < HourlyLimit + Cardinality(Threads)
=============================================================================
