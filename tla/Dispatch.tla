------------------------------ MODULE Dispatch ------------------------------
(***************************************************************************)
(* The life of an outreach attempt: campaign loop threads and operator     *)
(* (API request) threads reserve a row of outreach_attempts, persist       *)
(* SENDING, call the provider and persist its outcome; the process may     *)
(* crash between any two of these steps and restarts with a recovery       *)
(* audit; operators triage what is left ambiguous.                         *)
(*                                                                         *)
(* One database session that commits is one step.  Sessions of different   *)
(* threads interleave; what a thread read in an earlier session is held in *)
(* its own variables (goal, cur, key, todo) and may be stale when used.    *)
(* Whether the rate limiter admits a sender is any outcome here.           *)
(***************************************************************************)
EXTENDS Naturals, FiniteSets

CONSTANTS
  Campaigns,      \* campaigns; each has one loop thread, named as it is
  Operators,      \* API request threads that send manually
  Endpoints,      \* (contact, channel, destination) triples
  LaneOf,         \* endpoint -> its (contact, channel) pair
  Ids,            \* attempt ids (bounds the number of rows)
  Quota,          \* campaign -> its metadata.automatic_quota
  MaxExceptions,  \* bound on exceptions raised inside worker or handler
  MaxCrashes      \* bound on process crashes

Manual == "MANUAL"
Resend == "RESEND"
None   == "NONE"

ASSUME ConstantsAssumption ==
  /\ Campaigns \cap Operators = {}
  /\ Manual \notin Campaigns /\ Resend \notin Campaigns /\ None \notin Campaigns
  /\ None \notin Ids /\ None \notin Endpoints
  /\ Quota \in [Campaigns -> Nat]
  /\ MaxExceptions \in Nat /\ MaxCrashes \in Nat

Threads == Campaigns \cup Operators
Owners  == Campaigns \cup {Manual, Resend}

(***************************************************************************)
(* OutreachStatus.  QUEUED is left out: mark_queued has no caller.         *)
(***************************************************************************)
Statuses == {"ABSENT", "PREPARED", "SENDING", "SENT", "FAILED", "UNKNOWN",
             "RECOVERY_REQUIRED"}

InFlight   == {"PREPARED", "SENDING"}
Unresolved == {"UNKNOWN", "RECOVERY_REQUIRED"}
Blocking   == InFlight \cup Unresolved

(***************************************************************************)
(* Failure codes up to what the policies tell apart: "rejected" is any     *)
(* provider code of DEFINITIVE_ENDPOINT_FAILURES, "transient" any other    *)
(* provider, pacing or validation code.                                    *)
(***************************************************************************)
Codes == {"none", "transient", "rejected", "OPERATOR_CANCELLED",
          "OPERATOR_RETRY_REQUESTED", "ERR_WORKER_EXCEPTION",
          "ERR_INTERRUPTED_BEFORE_DISPATCH", "ambiguous"}

DefinitiveFailures == {"rejected", "OPERATOR_CANCELLED"}

Results == {"sent", "transient", "rejected", "unknown", "recovery"}

VARIABLES
  row,        \* attempt id -> its row of outreach_attempts
  used,       \* campaign -> metadata.automatic_used
  thr,        \* thread -> its local variables, see Locals
  up,         \* is the process running
  delivered,  \* ids whose message reached the recipient (seen by nobody)
  excs, crashes

vars == <<row, used, thr, up, delivered, excs, crashes>>

Rows == [status : Statuses, code : Codes, owner : Owners \cup {None},
         ep : Endpoints \cup {None}, salted : BOOLEAN]

NoRow == [status |-> "ABSENT", code |-> "none", owner |-> None, ep |-> None,
          salted |-> FALSE]

NewRow(owner, e, salted, status, code) ==
  [status |-> status, code |-> code, owner |-> owner, ep |-> e,
   salted |-> salted]

Absent(a)    == row[a].status = "ABSENT"
Automatic(a) == row[a].owner \in Campaigns

(***************************************************************************)
(* A row is found by its idempotency key: owner, endpoint and the default  *)
(* salt seq_1.  A salted key holds a timestamp and is never looked up.     *)
(***************************************************************************)
BaseRows(owner, e) ==
  {a \in Ids : row[a].owner = owner /\ row[a].ep = e /\ ~row[a].salted}

Mark(a, status, code) ==
  row' = [row EXCEPT ![a].status = status, ![a].code = code]

MarkAll(S, status, code) ==
  row' = [a \in Ids |-> IF a \in S
                        THEN [row[a] EXCEPT !.status = status, !.code = code]
                        ELSE row[a]]

(***************************************************************************)
(* A thread's locals: where it is (pc), the endpoint it is to reach, the   *)
(* attempt it carries, the provider result it holds, and the rows its      *)
(* exception handler has read.  They end with the call.                    *)
(***************************************************************************)
Labels == {"idle", "selected", "keyed", "salted", "prepared", "waiting",
           "sending", "returned", "raised", "handling"}

Locals == [pc : Labels, goal : Endpoints \cup {None}, cur : Ids \cup {None},
           res : Results \cup {None}, todo : SUBSET Ids]

Idle == [pc |-> "idle", goal |-> None, cur |-> None, res |-> None, todo |-> {}]

Carrying(e, a, label) ==
  [pc |-> label, goal |-> e, cur |-> a, res |-> None, todo |-> {}]

\* An exception leaves the call but for the endpoint its handler looks up.
Raise(t)       == thr' = [thr EXCEPT ![t] = Carrying(@.goal, None, "raised")]
At(t, label)   == thr[t].pc = label
Goto(t, label) == thr' = [thr EXCEPT ![t].pc = label]
End(t)         == thr' = [thr EXCEPT ![t] = Idle]

(***************************************************************************)
(* Selection: the coverage policy over all rows, of every campaign and of  *)
(* the operators.                                                          *)
(***************************************************************************)
Covered(e) == \E a \in Ids : row[a].status = "SENT" /\ row[a].ep = e

\* Mutant: a cancelled endpoint is not permanently failed.
PermanentlyFailedByProviderOnly(e) ==
  \E a \in Ids : /\ row[a].status = "FAILED" /\ row[a].ep = e
                 /\ row[a].code = "rejected"

PermanentlyFailed(e) ==
  \E a \in Ids : /\ row[a].status = "FAILED" /\ row[a].ep = e
                 /\ row[a].code \in DefinitiveFailures

\* Mutant: an UNKNOWN row does not block its lane.
LaneBlockedByKnown(e) ==
  \E a \in Ids : /\ row[a].status \in Blocking \ {"UNKNOWN"}
                 /\ LaneOf[row[a].ep] = LaneOf[e]

LaneBlocked(e) ==
  \E a \in Ids : /\ row[a].status \in Blocking
                 /\ LaneOf[row[a].ep] = LaneOf[e]

Eligible(e) == ~Covered(e) /\ ~PermanentlyFailed(e) /\ ~LaneBlocked(e)

-----------------------------------------------------------------------------
(***************************************************************************)
(* The campaign loop.                                                      *)
(***************************************************************************)

\* The loop's session: quota check, then the policy picks an endpoint.
Select(c, e) ==
  /\ up /\ At(c, "idle")
  /\ used[c] < Quota[c]
  /\ Eligible(e)
  /\ thr' = [thr EXCEPT ![c] = Carrying(e, None, "selected")]
  /\ UNCHANGED <<row, used, up, delivered, excs, crashes>>

\* Pre-send validation (sender session, template variables) fails.  A missing
\* recipient cannot be the reason: the endpoint that was selected has one.
RecordPreSendFailure(c, a) ==
  /\ At(c, "selected") /\ Absent(a)
  /\ row' = [row EXCEPT ![a] = NewRow(c, thr[c].goal, TRUE, "FAILED", "transient")]
  /\ End(c)
  /\ UNCHANGED <<used, up, delivered, excs, crashes>>

\* Phase 1: an existing SENT or SENDING row ends the attempt, a PREPARED one
\* is taken over, any other makes this a retry under a salted key.
Reserve(c, a) ==
  LET base == BaseRows(c, thr[c].goal)
      ended == {b \in base : row[b].status \in {"SENT", "SENDING"}}
      open  == {b \in base : row[b].status = "PREPARED"}
  IN  /\ At(c, "selected")
      /\ IF ended # {}
         THEN End(c) /\ UNCHANGED row
         ELSE /\ IF open # {}
                 THEN a \in open /\ UNCHANGED row
                 ELSE /\ Absent(a)
                      /\ row' = [row EXCEPT ![a] =
                           NewRow(c, thr[c].goal, base # {}, "PREPARED", "none")]
              /\ thr' = [thr EXCEPT ![c] = Carrying(@.goal, a, "prepared")]
      /\ UNCHANGED <<used, up, delivered, excs, crashes>>

\* Phase 2: wait_for_ready times out or acquire_sender is refused.
NotAdmitted(c) ==
  /\ At(c, "prepared")
  /\ Mark(thr[c].cur, "FAILED", "transient")
  /\ End(c)
  /\ UNCHANGED <<used, up, delivered, excs, crashes>>

\* Phases 2 and 3: the sender is acquired and SENDING is committed, unless
\* the row was closed meanwhile: then ValidationError.
BeginSending(c) ==
  /\ At(c, "prepared")
  /\ IF row[thr[c].cur].status \in InFlight
     THEN Mark(thr[c].cur, "SENDING", "none") /\ Goto(c, "sending")
     ELSE Raise(c) /\ UNCHANGED row
  /\ UNCHANGED <<used, up, delivered, excs, crashes>>

\* Phase 4, seen from outside: the message reaches the recipient.
ProviderDelivers(t) ==
  /\ At(t, "sending") /\ thr[t].cur \notin delivered
  /\ delivered' = delivered \cup {thr[t].cur}
  /\ UNCHANGED <<row, used, thr, up, excs, crashes>>

\* Phase 4: the provider answers.  "sent" and "recovery" (text delivered,
\* attachment not) are only answered after delivery and failures only before.
ProviderReturns(t, r) ==
  /\ At(t, "sending")
  /\ r \in {"sent", "recovery"} => thr[t].cur \in delivered
  /\ r \in {"transient", "rejected"} => thr[t].cur \notin delivered
  /\ thr' = [thr EXCEPT ![t].res = r, ![t].pc = "returned"]
  /\ UNCHANGED <<row, used, up, delivered, excs, crashes>>

\* Mutant: a partial delivery is handled like a failure.
MarkResultNoRecovery(t) ==
  CASE thr[t].res = "sent"    -> Mark(thr[t].cur, "SENT", row[thr[t].cur].code)
    [] thr[t].res = "unknown" -> Mark(thr[t].cur, "UNKNOWN", "ambiguous")
    [] OTHER                  -> Mark(thr[t].cur, "FAILED", thr[t].res)

\* What PostSendResolver.resolve and _finalize_send write for a result.  On
\* success resolve keeps the code of the row it has read again, while
\* _finalize_send saves the object it prepared, which has none.
MarkResult(t) ==
  CASE thr[t].res = "sent"     ->
         Mark(thr[t].cur, "SENT", IF t \in Operators THEN "none" ELSE row[thr[t].cur].code)
    [] thr[t].res = "unknown"  -> Mark(thr[t].cur, "UNKNOWN", "ambiguous")
    [] thr[t].res = "recovery" -> Mark(thr[t].cur, "RECOVERY_REQUIRED", "ambiguous")
    [] OTHER               -> Mark(thr[t].cur, "FAILED", thr[t].res)

\* Phase 5: the row and the campaign's counter change in one commit.
Resolve(c) ==
  /\ At(c, "returned")
  /\ MarkResult(c)
  /\ used' = IF thr[c].res = "sent" THEN [used EXCEPT ![c] = @ + 1] ELSE used
  /\ End(c)
  /\ UNCHANGED <<up, delivered, excs, crashes>>

\* execute_attempt raises outside the provider call (database error, contact
\* gone, rendering): whatever the session had not committed is lost.
WorkerRaises(c) ==
  /\ excs < MaxExceptions
  /\ thr[c].pc \in {"selected", "prepared", "returned"}
  /\ excs' = excs + 1
  /\ Raise(c)
  /\ UNCHANGED <<row, used, up, delivered, crashes>>

\* The loop's handler first lists the rows of the contact and channel that
\* are PREPARED or SENDING, whoever owns them ...
HandlerScan(c) ==
  /\ At(c, "raised")
  /\ thr' = [thr EXCEPT ![c].pc = "handling", ![c].todo =
       {a \in Ids : /\ row[a].status \in InFlight
                    /\ LaneOf[row[a].ep] = LaneOf[thr[c].goal]}]
  /\ UNCHANGED <<row, used, up, delivered, excs, crashes>>

\* ... then writes all of them FAILED, whatever they have become.
HandlerWrite(c) ==
  /\ At(c, "handling")
  /\ MarkAll(thr[c].todo, "FAILED", "ERR_WORKER_EXCEPTION")
  /\ End(c)
  /\ UNCHANGED <<used, up, delivered, excs, crashes>>

\* The handler raises too: it is logged and nothing is written.
HandlerRaises(c) ==
  /\ excs < MaxExceptions
  /\ thr[c].pc \in {"raised", "handling"}
  /\ excs' = excs + 1
  /\ End(c)
  /\ UNCHANGED <<row, used, up, delivered, crashes>>

-----------------------------------------------------------------------------
(***************************************************************************)
(* Operators: send and resend from the API.                                *)
(***************************************************************************)
RequestSend(o, e) ==
  /\ up /\ At(o, "idle")
  /\ thr' = [thr EXCEPT ![o] = Carrying(e, None, "selected")]
  /\ UNCHANGED <<row, used, up, delivered, excs, crashes>>

\* The base key decides: already SENT answers "duplicate", SENDING answers a
\* conflict, any other row makes the request a retry under a salted key.
CheckAndBuildIdempotency(o) ==
  LET base == BaseRows(Manual, thr[o].goal)
  IN  /\ At(o, "selected")
      /\ IF \E a \in base : row[a].status \in {"SENT", "SENDING"}
         THEN End(o)
         ELSE Goto(o, IF base = {} THEN "keyed" ELSE "salted")
      /\ UNCHANGED <<row, used, up, delivered, excs, crashes>>

\* The insert.  idempotency_key is UNIQUE: the loser of a race on the base
\* key gets an error and leaves no row.
InsertPrepared(o, a) ==
  /\ thr[o].pc \in {"keyed", "salted"}
  /\ IF At(o, "keyed") /\ BaseRows(Manual, thr[o].goal) # {}
     THEN End(o) /\ UNCHANGED row
     ELSE /\ Absent(a)
          /\ row' = [row EXCEPT ![a] =
               NewRow(Manual, thr[o].goal, At(o, "salted"), "PREPARED", "none")]
          /\ thr' = [thr EXCEPT ![o] = Carrying(@.goal, a, "prepared")]
  /\ UNCHANGED <<used, up, delivered, excs, crashes>>

RequestResend(o, e, a) ==
  /\ up /\ At(o, "idle") /\ Absent(a)
  /\ row' = [row EXCEPT ![a] = NewRow(Resend, e, TRUE, "PREPARED", "none")]
  /\ thr' = [thr EXCEPT ![o] = Carrying(e, a, "prepared")]
  /\ UNCHANGED <<used, up, delivered, excs, crashes>>

\* The object in memory is still PREPARED and its save overwrites the row.
OperatorBeginSending(o) ==
  /\ At(o, "prepared")
  /\ Mark(thr[o].cur, "SENDING", "none")
  /\ Goto(o, "waiting")
  /\ UNCHANGED <<used, up, delivered, excs, crashes>>

\* Mutant: the early return forgets the row.
OperatorNotAdmittedUnsaved(o) ==
  /\ At(o, "waiting")
  /\ End(o)
  /\ UNCHANGED <<row, used, up, delivered, excs, crashes>>

OperatorNotAdmitted(o) ==
  /\ At(o, "waiting")
  /\ Mark(thr[o].cur, "FAILED", "transient")
  /\ End(o)
  /\ UNCHANGED <<used, up, delivered, excs, crashes>>

OperatorAdmitted(o) ==
  /\ At(o, "waiting")
  /\ Goto(o, "sending")
  /\ UNCHANGED <<row, used, up, delivered, excs, crashes>>

FinalizeSend(o) ==
  /\ At(o, "returned")
  /\ MarkResult(o)
  /\ End(o)
  /\ UNCHANGED <<used, up, delivered, excs, crashes>>

\* The request dies with an exception: no handler touches its row.  The
\* provider itself only raises before it delivers.
RequestRaises(o) ==
  /\ excs < MaxExceptions
  /\ \/ thr[o].pc \in {"prepared", "waiting", "returned"}
     \/ At(o, "sending") /\ thr[o].cur \notin delivered
  /\ excs' = excs + 1
  /\ End(o)
  /\ UNCHANGED <<row, used, up, delivered, crashes>>

-----------------------------------------------------------------------------
(***************************************************************************)
(* Recovery.  The updates are conditional on the row being unresolved, so  *)
(* of two operators only one resolves it.                                  *)
(***************************************************************************)
\* Mutant: the update is not conditional on the row being unresolved.
ResolveMarkSentAlways(a) ==
  /\ up /\ row[a].status \in Unresolved \cup {"SENT"}
  /\ Mark(a, "SENT", row[a].code)
  /\ used' = IF Automatic(a) THEN [used EXCEPT ![row[a].owner] = @ + 1]
                             ELSE used
  /\ UNCHANGED <<thr, up, delivered, excs, crashes>>

ResolveMarkSent(a) ==
  /\ up /\ row[a].status \in Unresolved
  /\ Mark(a, "SENT", row[a].code)
  /\ used' = IF Automatic(a) THEN [used EXCEPT ![row[a].owner] = @ + 1]
                             ELSE used
  /\ UNCHANGED <<thr, up, delivered, excs, crashes>>

\* Mutant: neither is the other one.
ResolveFailedAlways(a, code) ==
  /\ up /\ row[a].status \in Unresolved \cup {"SENT"}
  /\ Mark(a, "FAILED", code)
  /\ UNCHANGED <<used, thr, up, delivered, excs, crashes>>

ResolveFailed(a, code) ==
  /\ up /\ row[a].status \in Unresolved
  /\ Mark(a, "FAILED", code)
  /\ UNCHANGED <<used, thr, up, delivered, excs, crashes>>

\* Every thread is gone; a send in progress may or may not have got through.
Crash ==
  /\ up /\ crashes < MaxCrashes
  /\ crashes' = crashes + 1
  /\ up' = FALSE
  /\ thr' = [t \in Threads |-> Idle]
  /\ UNCHANGED <<row, used, delivered, excs>>

\* Mutant: the audit looks at SENDING rows only.
RestartSendingOnly ==
  /\ ~up /\ up' = TRUE
  /\ row' = [a \in Ids |-> IF row[a].status = "SENDING"
                           THEN [row[a] EXCEPT !.status = "RECOVERY_REQUIRED",
                                               !.code = "ambiguous"]
                           ELSE row[a]]
  /\ UNCHANGED <<used, thr, delivered, excs, crashes>>

\* Mutant: the audit takes every row in flight for one that was not sent.
RestartAssumesFailure ==
  /\ ~up /\ up' = TRUE
  /\ MarkAll({a \in Ids : row[a].status \in InFlight},
             "FAILED", "ERR_INTERRUPTED_BEFORE_DISPATCH")
  /\ UNCHANGED <<used, thr, delivered, excs, crashes>>

\* CrashRecoveryService.run, before the first request is served.
Restart ==
  /\ ~up
  /\ row' = [a \in Ids |->
       CASE row[a].status = "SENDING" ->
              [row[a] EXCEPT !.status = "RECOVERY_REQUIRED", !.code = "ambiguous"]
         [] row[a].status = "PREPARED" ->
              [row[a] EXCEPT !.status = "FAILED",
                             !.code = "ERR_INTERRUPTED_BEFORE_DISPATCH"]
         [] OTHER -> row[a]]
  /\ up' = TRUE
  /\ UNCHANGED <<used, thr, delivered, excs, crashes>>

-----------------------------------------------------------------------------
Init ==
  /\ row = [a \in Ids |-> NoRow]
  /\ used = [c \in Campaigns |-> 0]
  /\ thr = [t \in Threads |-> Idle]
  /\ up = TRUE
  /\ delivered = {}
  /\ excs = 0 /\ crashes = 0

LoopStep(c) ==
  \/ \E e \in Endpoints : Select(c, e)
  \/ \E a \in Ids : RecordPreSendFailure(c, a) \/ Reserve(c, a)
  \/ NotAdmitted(c) \/ BeginSending(c) \/ Resolve(c)
  \/ WorkerRaises(c) \/ HandlerScan(c) \/ HandlerWrite(c) \/ HandlerRaises(c)

OperatorStep(o) ==
  \/ \E e \in Endpoints : RequestSend(o, e)
  \/ CheckAndBuildIdempotency(o)
  \/ \E a \in Ids : InsertPrepared(o, a)
  \/ \E e \in Endpoints, a \in Ids : RequestResend(o, e, a)
  \/ OperatorBeginSending(o) \/ OperatorNotAdmitted(o) \/ OperatorAdmitted(o)
  \/ FinalizeSend(o) \/ RequestRaises(o)

ProviderStep(t) ==
  \/ ProviderDelivers(t)
  \/ \E r \in Results : ProviderReturns(t, r)

RecoveryStep(a) ==
  \/ ResolveMarkSent(a)
  \/ \E code \in {"OPERATOR_RETRY_REQUESTED", "OPERATOR_CANCELLED"} :
       ResolveFailed(a, code)

Next ==
  \/ \E c \in Campaigns : LoopStep(c)
  \/ \E o \in Operators : OperatorStep(o)
  \/ \E t \in Threads : ProviderStep(t)
  \/ \E a \in Ids : RecoveryStep(a)
  \/ Crash \/ Restart

Spec == Init /\ [][Next]_vars

\* Threads are scheduled by the operating system, and a provider call ends
\* (SMTP has a socket timeout, the browser steps have deadlines).
FairSpec ==
  /\ Spec
  /\ \A c \in Campaigns : WF_vars(LoopStep(c))
  /\ \A o \in Operators : WF_vars(OperatorStep(o))
  /\ \A t \in Threads : WF_vars(\E r \in Results : ProviderReturns(t, r))

-----------------------------------------------------------------------------
\* The type invariant of the dispatch state.
TypeOK ==
  /\ row \in [Ids -> Rows]
  /\ used \in [Campaigns -> Nat]
  /\ thr \in [Threads -> Locals]
  /\ up \in BOOLEAN
  /\ delivered \in SUBSET Ids
  /\ excs \in 0..MaxExceptions /\ crashes \in 0..MaxCrashes

\* "Pre-Send Transaction pattern": when a message has reached its recipient,
\* its row is past PREPARED, and if it is FAILED then an operator decided so
\* or the loop's exception handler wrote it.  No pacing, validation, crash
\* or provider path ever records a delivered message as a failure.
DeliveredNeverLost ==
  \A a \in delivered :
    /\ row[a].status \notin {"ABSENT", "PREPARED"}
    /\ row[a].status = "FAILED" =>
         row[a].code \in {"OPERATOR_CANCELLED", "OPERATOR_RETRY_REQUESTED",
                          "ERR_WORKER_EXCEPTION"}

\* "If a specific endpoint has a successful attempt, do not automatically
\* send to that endpoint again": of the automatic messages that reached an
\* endpoint, at most one was not handed back for retry by an operator.
AutomaticAtMostOnce ==
  \A a, b \in delivered :
    /\ Automatic(a) /\ Automatic(b) /\ row[a].ep = row[b].ep
    /\ row[a].code # "OPERATOR_RETRY_REQUESTED"
    /\ row[b].code # "OPERATOR_RETRY_REQUESTED"
    => a = b

\* automatic_used counts exactly the campaign's rows that are SENT: no crash,
\* triage or interleaving leaves the counter and the table apart, as long as
\* the loop's exception handler, which overwrites rows, has not run.
UsedMatchesSent ==
  excs = 0 => \A c \in Campaigns :
    used[c] = Cardinality({a \in Ids : row[a].owner = c /\ row[a].status = "SENT"})

\* Every PREPARED or SENDING row of a running process is carried by a thread
\* that is still working on it, so a restart leaves none behind and no
\* endpoint stays blocked by a row nobody will ever settle; an exception in a
\* request may leave one.
NoOrphans ==
  up /\ excs = 0 => \A a \in Ids : row[a].status \in InFlight =>
          \E t \in Threads :
            thr[t].cur = a /\ thr[t].pc \in {"prepared", "waiting", "sending", "returned"}

\* The state of an endpoint as its automatic rows show it.
LedgerOf(e) ==
  LET rows == {a \in Ids : Automatic(a) /\ row[a].ep = e}
  IN  IF \E a \in rows : row[a].status = "SENT" THEN "reached"
      ELSE IF \E a \in rows : /\ row[a].status = "FAILED"
                              /\ row[a].code \in DefinitiveFailures
           THEN "closed"
      ELSE IF \E a \in rows : row[a].status \in Unresolved THEN "ambiguous"
      ELSE IF \E a \in rows : row[a].status \in InFlight THEN "claimed"
      ELSE "open"

Ledger == INSTANCE EndpointLedger
            WITH ledger <- [e \in Endpoints |-> LedgerOf(e)]

\* The rows of one campaign's endpoints go through the ledger's moves only:
\* selection, retries, crashes and triage together keep the promise.
KeepsLedger == Ledger!Spec

\* A row that is SENT stays as it is: "Preserves historical attempts without
\* mutating or overwriting them", but for the loop's exception handler.
SentIsFinal ==
  [][excs = 0 => \A a \in Ids : row[a].status = "SENT" => row'[a] = row[a]]_vars

\* An attempt in flight is settled, or the process is down.
InFlightSettles ==
  \A a \in Ids : row[a].status \in InFlight ~> (row[a].status \notin InFlight \/ ~up)

\* "Already delivered to this endpoint -> never send a duplicate": at most
\* one MANUAL attempt of an endpoint is ever SENT.
ManualSentOnce ==
  \A a, b \in Ids :
    /\ row[a].owner = Manual /\ row[b].owner = Manual /\ row[a].ep = row[b].ep
    /\ row[a].status = "SENT" /\ row[b].status = "SENT"
    => a = b
=============================================================================
