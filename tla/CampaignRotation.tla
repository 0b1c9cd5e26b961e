-------------------------- MODULE CampaignRotation --------------------------
(***************************************************************************)
(* Whom a campaign reaches next, through whom and how often: endpoint      *)
(* coverage, company-first order, the rotation of channels and senders,    *)
(* the quota and the maximal count, as the campaign loop uses them,        *)
(* session after session, while senders cool down or lose their session,   *)
(* operators triage, contacts opt out, are archived and are imported.      *)
(*                                                                         *)
(* One session of the loop is one step, execute_attempt another; what      *)
(* happens within it is Dispatch.  Pauses and other campaigns are left to  *)
(* CampaignControl and Dispatch.  The timestamps of a contact are only set *)
(* beside a SENT row, which is what is looked at first.                    *)
(***************************************************************************)
EXTENDS Naturals, Sequences, FiniteSets, SequencesExt, FiniteSetsExt, Subsequences

CONSTANTS
  ContactList,   \* the contacts there may be, in the order they are listed in
  Company,       \* contact -> company
  Sources,       \* contact -> what imports know of it: sequences of endpoints
  SenderList,    \* the senders as they are listed
  ChannelOf,     \* endpoint or sender -> channel
  TemplateChannels, \* the channels with a template
  AtFirst,       \* the states to begin with: what is known of the contacts,
                 \* suppressed endpoints, ACTIVE senders, the campaign's quota
  Limits,        \* the counts that a campaign may be started with
  MaxRetries,    \* bound on failures that leave an endpoint for a retry
  MaxChanges     \* bound on changes from outside the loop

Channels == {"WHATSAPP", "EMAIL"}
None     == "NONE"
NoTurn   == [sender |-> None, cursor |-> 0]
NoPick   == [contact |-> None, endpoint |-> None, sender |-> None]

Contacts  == ToSet(ContactList)
Senders   == ToSet(SenderList)
Endpoints == UNION {ToSet(s) : s \in UNION {Sources[c] : c \in Contacts}}

ASSUME RotationAssumption ==
  /\ ContactList \in Seq(Contacts) /\ SenderList \in Seq(Senders)
  /\ \A c \in Contacts : Sources[c] \subseteq Seq(Endpoints)
  /\ None \notin Senders
  /\ \A i, j \in DOMAIN ContactList : ContactList[i] = ContactList[j] => i = j
  /\ \A i, j \in DOMAIN SenderList : SenderList[i] = SenderList[j] => i = j
  /\ DOMAIN Company = Contacts /\ DOMAIN Sources = Contacts
  /\ \A c \in Contacts : \A d \in Contacts \ {c} :
       \A s \in Sources[c], t \in Sources[d] : ToSet(s) \cap ToSet(t) = {}
  /\ ChannelOf \in [Endpoints \cup Senders -> Channels] /\ TemplateChannels \subseteq Channels
  /\ \A first \in AtFirst :
       /\ DOMAIN first.known \subseteq Contacts
       /\ \A c \in DOMAIN first.known : first.known[c] \in Sources[c]
       /\ first.tombs \subseteq Endpoints /\ first.active \subseteq Senders
       /\ first.quota \subseteq Nat
  /\ Limits \subseteq Nat /\ {MaxRetries, MaxChanges} \subseteq Nat

VARIABLES
  listed,    \* the contacts in the database
  endpoints, \* contact -> its endpoints, in their order
  rows,      \* endpoint -> what its attempts came to
  touches,   \* contact -> how many attempts it has
  optout,    \* contacts with an opt-out tag
  tombs,     \* suppressed endpoints
  active,    \* senders that are ACTIVE
  cooling,   \* senders the rate limiter would not admit
  loop,      \* the campaign's status and its loop's
  cursor,    \* rotation_state: the channel's cursor and the senders'
  picked,    \* what the loop is to dispatch
  late,      \* has there been no dispatch for the stall threshold
  quota,     \* automatic_quota: one number at most
  used,      \* automatic_used
  budget,    \* what is left of the thread's max_count: one number at most
  extra,     \* sends that no quota stops: settled by triage, or earlier (ghost)
  passed,    \* sender -> turns it was ready for and did not get (ghost)
  retries, changes

vars == <<listed, endpoints, rows, touches, optout, tombs, active, cooling, loop, cursor,
          picked, late, quota, used, budget, extra, passed, retries, changes>>

contacts == <<listed, endpoints>>
history  == <<rows, touches, retries>>
counts   == <<quota, used, budget, extra>>
outside  == <<contacts, optout, tombs, active, changes>>

\* "open": PREPARED, SENDING, UNKNOWN or RECOVERY_REQUIRED; "failed": a FAILED
\* row that leaves the endpoint to a retry; "rejected": one that does not.
Results == {"sent", "failed", "rejected", "open"}

Loops == {"draft", "running", "dispatching", "paused", "completed", "failed"}

-----------------------------------------------------------------------------
(* endpoint_coverage_policy *)
Covered(e)           == "sent" \in rows[e]
PermanentlyFailed(e) == "rejected" \in rows[e]

Uncovered(c, channels) ==
  IF c \in optout THEN <<>>
  ELSE LET left(e) == /\ ChannelOf[e] \in channels /\ e \notin tombs
                      /\ ~Covered(e) /\ ~PermanentlyFailed(e)
       IN  Pick(endpoints[c], {i \in DOMAIN endpoints[c] : left(endpoints[c][i])})

FullyCovered(c) == Uncovered(c, Channels) = <<>>

Blocked(c, channel) ==
  \E e \in ToSet(endpoints[c]) : ChannelOf[e] = channel /\ "open" \in rows[e]

\* get_contact_endpoint_metrics, what the dashboards show of an endpoint.
CoverageState(c, e) ==
  CASE Covered(e)                    -> "SENT"
    [] ~Covered(e) /\ PermanentlyFailed(e) -> "PERMANENT_FAILED"
    [] OTHER ->
         IF c \in optout \/ e \in tombs THEN "SUPPRESSED"
         ELSE IF Blocked(c, ChannelOf[e]) THEN "BLOCKED"
         ELSE IF rows[e] = {} THEN "NEVER_ATTEMPTED" ELSE "RETRYABLE"

Ready(c, e) == CoverageState(c, e) \in {"NEVER_ATTEMPTED", "RETRYABLE"}

DispatchComplete(c) ==
  /\ endpoints[c] # <<>>
  /\ \A e \in ToSet(endpoints[c]) :
       CoverageState(c, e) \in {"SENT", "PERMANENT_FAILED", "SUPPRESSED"}

-----------------------------------------------------------------------------
(* channel_rotation_policy *)
ActiveOn(channel) ==
  Pick(SenderList, {i \in DOMAIN SenderList : /\ SenderList[i] \in active
                                              /\ ChannelOf[SenderList[i]] = channel})

Available == {channel \in TemplateChannels : \E s \in active : ChannelOf[s] = channel}

\* A block of WHATSAPP and one of EMAIL, each of as many turns as the channel
\* has senders, at most 4; a channel that is available alone has one turn.
Block(channel) ==
  IF channel \notin Available THEN 0
  ELSE IF Available = {channel} THEN 1 ELSE Min({Len(ActiveOn(channel)), 4})

Rotation ==
  LET all == Block("WHATSAPP") + Block("EMAIL")
  IN  [preferred |-> IF cursor.channel % all < Block("WHATSAPP") THEN "WHATSAPP" ELSE "EMAIL",
       next      |-> (cursor.channel + 1) % all]

Other(channel) == IF channel = "WHATSAPP" THEN "EMAIL" ELSE "WHATSAPP"

\* Mutant: an ambiguous attempt does not block its channel.
UsableThoughBlocked(c, channel) ==
  /\ channel \in TemplateChannels /\ \E s \in active : ChannelOf[s] = channel
  /\ Uncovered(c, {channel}) # <<>>

Usable(c, channel) ==
  /\ channel \in TemplateChannels /\ \E s \in active : ChannelOf[s] = channel
  /\ ~Blocked(c, channel) /\ Uncovered(c, {channel}) # <<>>

\* evaluate_contact_dispatch: the preferred channel, else the other one.
Eligible(c) == \E channel \in Channels : Usable(c, channel)

Decision(c, preferred) ==
  LET channel == IF Usable(c, preferred) THEN preferred ELSE Other(preferred)
  IN  [contact |-> c, channel |-> channel, endpoint |-> Head(Uncovered(c, {channel}))]

-----------------------------------------------------------------------------
(* prioritize_company_first: by round, then by the company that was found     *)
(* first; in one company the rounds differ.                                  *)
SameCompany == [c \in listed |-> {d \in listed : Company[d] = Company[c]}]
Place       == [c \in Contacts |-> CHOOSE i \in DOMAIN ContactList : ContactList[i] = c]
Found       == [c \in listed |-> Min({Place[d] : d \in SameCompany[c]})]

\* Mutant: the attempts of the contact alone are counted.
LoadOfContact(c) == touches[c]

\* The attempts of the company, each as a contact and a number.
Load(c) == Cardinality(UNION {{d} \X (1..touches[d]) : d \in SameCompany[c]})

Remaining  == {c \in listed : Eligible(c)}
Candidates == Remaining # {}

Offset(S, c) == Cardinality({d \in S \cap SameCompany[c] : Place[d] < Place[c]})
Rounds(S)    == [c \in S |-> Load(c) + Offset(S, c) + 1]

Before(S) ==
  LET round == Rounds(S)
  IN  {p \in S \X S : \/ round[p[1]] < round[p[2]]
                      \/ round[p[1]] = round[p[2]] /\ Found[p[1]] < Found[p[2]]
                      \/ /\ round[p[1]] = round[p[2]] /\ Found[p[1]] = Found[p[2]]
                         /\ Offset(S, p[1]) < Offset(S, p[2])}

Prioritized == LET left == Remaining IN Sorted(left, Before(left))

(* calculate_company_round_state, as the campaign's progress shows it: a     *)
(* contact counts once it has been reached.                                  *)
Reached(c)       == \E e \in ToSet(endpoints[c]) : Covered(e)
ReachedOf(c)     == Cardinality({d \in SameCompany[c] : Reached(d)})
TotalRounds      == Max({1} \cup {Cardinality(SameCompany[c]) : c \in listed})

\* Mutant: the round is that of the company that is furthest.
CurrentRoundOfFurthest ==
  IF \A c \in listed : Reached(c) THEN TotalRounds
  ELSE Max({ReachedOf(c) + 1 : c \in {d \in listed : ~Reached(d)}})

CurrentRound ==
  IF \A c \in listed : Reached(c) THEN TotalRounds
  ELSE Min({ReachedOf(c) + 1 : c \in {d \in listed : ~Reached(d)}})

-----------------------------------------------------------------------------
(* sender_rotation *)
\* Mutant: the search always begins with the first sender.
NextSenderFromFirst(list, from) ==
  LET ready == {i \in 0..(Len(list) - 1) : list[i + 1] \notin cooling}
  IN  IF ready = {} THEN NoTurn
      ELSE [sender |-> list[Min(ready) + 1], cursor |-> (Min(ready) + 1) % Len(list)]

\* The first sender from the cursor on that the rate limiter admits.
NextSender(list, from) ==
  LET index(k) == (from + k) % Len(list)
      ready    == {k \in 0..(Len(list) - 1) : list[index(k) + 1] \notin cooling}
  IN  IF ready = {} THEN NoTurn
      ELSE [sender |-> list[index(Min(ready)) + 1],
            cursor |-> (index(Min(ready)) + 1) % Len(list)]

-----------------------------------------------------------------------------
(* The readiness gate, then a session of the loop. *)

\* Mutant: a campaign that has just used up its quota has one send more.
OneMoreThanQuota == \A n \in quota : used <= n

CanDispatchAutomatic == \A n \in quota : used < n

ReadyToStart == CanDispatchAutomatic /\ Available # {} /\ Candidates

Begin ==
  /\ loop \in {"draft", "paused"} /\ ReadyToStart
  /\ loop' = "running" /\ late' = FALSE
  /\ UNCHANGED <<history, outside, cooling, cursor, picked, passed, used>>

Start == Begin /\ budget' = {} /\ UNCHANGED <<quota, extra>>

\* The quota becomes the count, of sends the campaign has had before as well.
SetQuota(n) == quota' = {n} /\ extra' = (IF used > n THEN used - n ELSE 0)

\* The thread counts for itself, unless the campaign was paused.
StartWithMaxCount(n) ==
  /\ Begin /\ SetQuota(n)
  /\ budget' = (IF loop = "draft" THEN {n} ELSE {})

\* A campaign that has ended is refused after its quota was saved.
StartRefused(n) ==
  /\ loop \in {"completed", "failed"} /\ ReadyToStart
  /\ SetQuota(n) /\ budget' = {}
  /\ UNCHANGED <<history, outside, cooling, loop, cursor, picked, late, passed, used>>

Running(status) ==
  /\ loop = "running" /\ loop' = status
  /\ budget' = (IF status = "running" THEN budget ELSE {})
  /\ UNCHANGED <<history, outside, cooling, picked, passed, quota, used, extra>>

MaxCountReached == Running("completed") /\ 0 \in budget /\ UNCHANGED <<cursor, late>>

QuotaReached ==
  /\ Running("completed")
  /\ 0 \notin budget /\ ~CanDispatchAutomatic
  /\ UNCHANGED <<cursor, late>>

GoesOn == 0 \notin budget /\ CanDispatchAutomatic

FailWithoutSender ==
  /\ Running("failed")
  /\ GoesOn /\ Available = {}
  /\ UNCHANGED <<cursor, late>>

AnyRemaining == \E c \in listed : ~FullyCovered(c)

\* Mutant: the campaign is complete when there is nobody to reach now.
CompletesWhenIdle ==
  /\ Running("completed")
  /\ GoesOn /\ Available # {} /\ ~Candidates
  /\ UNCHANGED <<cursor, late>>

Complete ==
  /\ Running("completed")
  /\ GoesOn /\ Available # {} /\ ~AnyRemaining /\ ~Candidates
  /\ UNCHANGED <<cursor, late>>

PauseOnStall ==
  /\ Running("paused")
  /\ GoesOn /\ late /\ Available # {} /\ AnyRemaining /\ ~Candidates
  /\ UNCHANGED <<cursor, late>>

AdvanceCursor ==
  /\ Running("running")
  /\ GoesOn /\ ~late /\ Available # {} /\ AnyRemaining /\ ~Candidates
  /\ cursor' = [cursor EXCEPT !.channel = Rotation.next]
  /\ UNCHANGED <<late>>

\* Every sender of the channel cools down: the loop tries again, as it was.
NoSenderReady ==
  /\ Running("running")
  /\ GoesOn /\ Available # {} /\ Candidates
  /\ LET channel == Decision(Prioritized[1], Rotation.preferred).channel
     IN  NextSender(ActiveOn(channel), cursor.sender[channel]) = NoTurn
  /\ UNCHANGED <<cursor, late>>

\* A turn of the channel: its ready senders but the one that gets it are passed.
PickTarget ==
  /\ loop = "running" /\ loop' = "dispatching"
  /\ GoesOn /\ Available # {} /\ Candidates
  /\ LET target  == Decision(Prioritized[1], Rotation.preferred)
         channel == target.channel
         turn    == NextSender(ActiveOn(channel), cursor.sender[channel])
     IN  /\ turn # NoTurn
         /\ cursor' = [channel |-> Rotation.next,
                       sender  |-> [cursor.sender EXCEPT ![channel] = turn.cursor]]
         /\ picked' = [contact |-> target.contact, endpoint |-> target.endpoint,
                       sender |-> turn.sender]
         /\ passed' = [s \in Senders |->
                         IF s = turn.sender THEN 0
                         ELSE IF ChannelOf[s] # channel THEN passed[s]
                         ELSE IF s \in active \ cooling THEN passed[s] + 1 ELSE 0]
  /\ UNCHANGED <<history, outside, counts, cooling, late>>

\* What an attempt leaves; an exception may come before its row.
Leaves(result) ==
  LET e == picked.endpoint
  IN  /\ picked.contact \in listed
      /\ result = "failed" => retries < MaxRetries
      /\ retries' = retries + (IF result = "failed" THEN 1 ELSE 0)
      /\ rows' = [rows EXCEPT ![e] = @ \cup {result}]
      /\ touches' = [touches EXCEPT ![picked.contact] = @ + 1]

Attempt(result) ==
  /\ loop = "dispatching" /\ loop' = "running"
  /\ Leaves(result)
  /\ cooling' = cooling \cup {picked.sender}
  /\ IF result = "sent" THEN used' = used + 1 /\ budget' = {n - 1 : n \in budget}
     ELSE UNCHANGED <<used, budget>>
  /\ picked' = NoPick /\ late' = FALSE
  /\ UNCHANGED <<outside, cursor, passed, quota, extra>>

\* Mutant: the exception leaves the loop where it was.
RaiseUnhandled ==
  /\ loop = "dispatching" /\ retries < MaxRetries /\ retries' = retries + 1
  /\ picked.contact \in listed
  /\ picked' = NoPick /\ late' = FALSE
  /\ UNCHANGED <<loop, rows, touches, outside, counts, cooling, cursor, passed>>

RaiseBeforeRow ==
  /\ loop = "dispatching" /\ loop' = "running"
  /\ picked.contact \in listed
  /\ retries < MaxRetries /\ retries' = retries + 1
  /\ picked' = NoPick /\ late' = FALSE
  /\ UNCHANGED <<rows, touches, outside, counts, cooling, cursor, passed>>

\* The contact is archived meanwhile: it is not found, or its row cannot be
\* saved, whatever the provider has said.
RaiseWithoutContact ==
  /\ loop = "dispatching" /\ loop' = "running"
  /\ picked.contact \notin listed
  /\ cooling' \in {cooling, cooling \cup {picked.sender}}
  /\ picked' = NoPick /\ late' = FALSE
  /\ UNCHANGED <<history, outside, counts, cursor, passed>>

-----------------------------------------------------------------------------
(* Around the loop: the rate limiter's clock, the process, sessions that end *)
(* or begin, operators.                                                      *)
Admit(s) ==
  /\ s \in cooling /\ cooling' = cooling \ {s}
  /\ UNCHANGED <<history, outside, counts, loop, cursor, picked, late, passed>>

Late ==
  /\ loop = "running" /\ ~late /\ late' = TRUE
  /\ UNCHANGED <<history, outside, counts, cooling, loop, cursor, picked, passed>>

Change(new) ==
  /\ changes < MaxChanges /\ changes' = changes + 1
  /\ new

\* The restart audit pauses the campaign and recovers what was in flight; the
\* rate limiter forgets.
Crash ==
  /\ Change(loop \in {"running", "dispatching"}) /\ loop' = "paused"
  /\ IF loop = "running" THEN UNCHANGED history
     ELSE UNCHANGED history \/ Leaves("open") \/ Leaves("failed")
  /\ cooling' = {} /\ picked' = NoPick /\ budget' = {}
  /\ UNCHANGED <<contacts, optout, tombs, active, cursor, late, quota, used, extra, passed>>

SetActive(s) ==
  /\ Change(TRUE)
  /\ active' = IF s \in active THEN active \ {s} ELSE active \cup {s}
  /\ passed' = [z \in Senders |-> 0]
  /\ UNCHANGED <<contacts, history, counts, optout, tombs, cooling, loop, cursor, picked, late>>

OptOut(c) ==
  /\ Change(c \in listed \ optout) /\ optout' = optout \cup {c}
  /\ UNCHANGED <<contacts, history, counts, tombs, active, cooling, loop, cursor, picked, late,
                 passed>>

\* A contact leaves with its attempts; its endpoints are suppressed.
Archive(c) ==
  /\ Change(c \in listed) /\ listed' = listed \ {c}
  /\ endpoints' = [endpoints EXCEPT ![c] = <<>>]
  /\ tombs' = tombs \cup ToSet(endpoints[c]) /\ optout' = optout \ {c}
  /\ rows' = [e \in Endpoints |-> IF e \in ToSet(endpoints[c]) THEN {} ELSE rows[e]]
  /\ touches' = [touches EXCEPT ![c] = 0]
  /\ UNCHANGED <<counts, active, cooling, loop, cursor, picked, late, passed, retries>>

\* An import inserts a contact or adds to its endpoints.  One that is archived
\* during its own dispatch comes again only after it.
Import(c, source) ==
  /\ Change(c \in listed \/ c # picked.contact)
  /\ ToSet(endpoints[c]) \subseteq ToSet(source)
  /\ listed' = listed \cup {c} /\ endpoints' = [endpoints EXCEPT ![c] = source]
  /\ UNCHANGED <<history, counts, optout, tombs, active, cooling, loop, cursor, picked, late,
                 passed>>

Triage(e, result) ==
  /\ Change("open" \in rows[e] /\ result \in {"sent", "failed", "rejected"})
  /\ rows' = [rows EXCEPT ![e] = (@ \ {"open"}) \cup {result}]
  /\ IF result = "sent" THEN used' = used + 1 /\ extra' = extra + 1
     ELSE UNCHANGED <<used, extra>>
  /\ UNCHANGED <<contacts, touches, retries, quota, budget, optout, tombs, active, cooling, loop,
                 cursor, picked, late, passed>>

-----------------------------------------------------------------------------
Init ==
  /\ \E first \in AtFirst :
       /\ listed = DOMAIN first.known
       /\ endpoints = [c \in Contacts |-> IF c \in listed THEN first.known[c] ELSE <<>>]
       /\ tombs = first.tombs /\ active = first.active /\ quota = first.quota
  /\ rows = [e \in Endpoints |-> {}] /\ touches = [c \in Contacts |-> 0]
  /\ optout = {} /\ cooling = {} /\ used = 0 /\ budget = {} /\ extra = 0
  /\ loop = "draft" /\ cursor = [channel |-> 0, sender |-> [ch \in Channels |-> 0]]
  /\ picked = NoPick /\ late = FALSE
  /\ passed = [s \in Senders |-> 0] /\ retries = 0 /\ changes = 0

LoopStep ==
  \/ MaxCountReached \/ QuotaReached \/ FailWithoutSender
  \/ Complete \/ PauseOnStall \/ AdvanceCursor \/ NoSenderReady \/ PickTarget
  \/ \E result \in Results : Attempt(result)
  \/ RaiseBeforeRow \/ RaiseWithoutContact

Operator ==
  \/ \E s \in Senders : SetActive(s)
  \/ \E c \in Contacts : \/ OptOut(c) \/ Archive(c)
                         \/ \E source \in Sources[c] : Import(c, source)
  \/ \E e \in Endpoints, result \in Results : Triage(e, result)

Next == \/ Start \/ (\E n \in Limits : StartWithMaxCount(n) \/ StartRefused(n))
        \/ LoopStep \/ Late \/ Crash \/ Operator
        \/ \E s \in Senders : Admit(s)

Spec == Init /\ [][Next]_vars

-----------------------------------------------------------------------------
\* The type invariant of the rotation.
TypeOK ==
  /\ listed \subseteq Contacts /\ endpoints \in [Contacts -> Seq(Endpoints)]
  /\ rows \in [Endpoints -> SUBSET Results] /\ touches \in [Contacts -> Nat]
  /\ optout \subseteq Contacts /\ tombs \subseteq Endpoints
  /\ active \subseteq Senders /\ cooling \subseteq Senders
  /\ loop \in Loops
  /\ cursor \in [channel : Nat, sender : [Channels -> Nat]]
  /\ picked \in [contact : Contacts, endpoint : Endpoints, sender : Senders] \cup {NoPick}
  /\ (loop = "dispatching") = (picked # NoPick)
  /\ quota \subseteq Nat /\ budget \subseteq Nat /\ (loop = "dispatching" => 0 \notin budget)
  /\ used \in Nat /\ extra \in Nat
  /\ late \in BOOLEAN /\ passed \in [Senders -> Nat]
  /\ retries \in 0..MaxRetries /\ changes \in 0..MaxChanges

\* "Ensures outreach dispatch intersperses contacts across different companies":
\* each contact of the list is of a company that has, with its attempts so far
\* and its contacts earlier in the list, no more than any company that comes
\* again later.
CompanyFirst ==
  LET list       == Prioritized
      of(c, i)   == Cardinality({j \in 1..(i - 1) : Company[list[j]] = Company[c]})
      loads      == [c \in listed |-> Load(c)]
  IN  Available # {} =>
        \A i, j \in DOMAIN list : i < j =>
          loads[list[i]] + of(list[i], i) <= loads[list[j]] + of(list[j], i)

\* The dashboards and the selection agree, although each has its own rules: a
\* contact can be dispatched exactly when they show one of its endpoints as
\* ready on a channel there are senders and templates for, and is dispatch
\* complete exactly when no endpoint is left.
DashboardAgrees ==
  \A c \in listed :
    /\ Eligible(c) = \E e \in ToSet(endpoints[c]) : Ready(c, e) /\ ChannelOf[e] \in Available
    /\ endpoints[c] # <<>> => (DispatchComplete(c) = FullyCovered(c))

\* When its loop completes, a campaign has sent as much as it was to send (by
\* the counter in the database, even where the thread's own count ends it), or
\* no endpoint of a contact is ready or blocked: one that waits for triage is
\* never said to be complete.
CompleteMeansDone ==
  [][loop # "completed" /\ loop' = "completed" =>
       \/ \E n \in quota : used >= n
       \/ \A c \in listed : \A e \in ToSet(endpoints[c]) :
            CoverageState(c, e) \in {"SENT", "PERMANENT_FAILED", "SUPPRESSED"}]_vars

\* Whatever is paused, started again with another count, settled or archived
\* meanwhile, the sends that are counted exceed the quota by no more than
\* operators have settled as sent, or had been sent when the quota was set.
LimitKept == \A n \in quota : used <= n + extra

\* While the senders of a channel stay the same, one that is ready at every
\* turn gets one of any n turns, n the number of senders.
SenderTurns ==
  \A s \in active : passed[s] < Len(ActiveOn(ChannelOf[s]))

\* The round that the progress shows never goes back, but where a contact is
\* archived or imported, and is one of the rounds there are.
RoundNeverBack ==
  [][/\ CurrentRound <= TotalRounds
     /\ UNCHANGED contacts => CurrentRound' >= CurrentRound]_vars
=============================================================================
