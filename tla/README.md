# ReachOut in TLA+

ReachOut is a single-process outreach server (FastAPI, SQLAlchemy over SQLite).
It sends WhatsApp messages (through a driven browser) and emails (SMTP) to
contacts imported from a workbook: automatically, by *campaigns* that run in
background threads, and manually, by operators' requests.  The hard part of the
program is what the threads of the campaigns, the requests of the operators, the
provider calls, the browser threads and process crashes do to the rows of one
database.  This project models that part, checks it with TLC on small instances,
and proves its safety properties with TLAPS for every instance.

## The system

| component | source (under `src/app/`) | state | operations |
|---|---|---|---|
| Campaign control | `infrastructure/scheduler/campaign_scheduler.py`, `services/campaign_service.py`, `domain/campaign.py` | status column, registered thread and pause `Event` per campaign | start, pause, resume; the loop's rounds, completion, failure, auto-pause, exit |
| Dispatch worker | `infrastructure/scheduler/campaign_worker.py`, `post_send_resolver.py`, `pre_send_validator.py` | rows of `outreach_attempts`, `automatic_used` | the five phases of `execute_attempt`, the loop's exception handler |
| Manual send | `services/outreach_service.py`, `domain/policies/resend_policy.py` | the same rows, manual keys | send, resend, finalise |
| Recovery | `infrastructure/scheduler/crash_recovery.py`, `services/outreach_recovery_service.py` | ambiguous rows | the restart audit; mark sent, retry, cancel |
| Rate limiter | `infrastructure/scheduler/rate_limiter.py` | in memory, per sender: busy, pacing, backoff, history | `can_send`, `wait_for_ready`, acquire, release, record |
| Eligibility policies | `domain/policies/`, `infrastructure/scheduler/candidate_selector.py` | none; the loop's rotation cursors | coverage, blockers, company-first order, channel and sender rotation, rounds |
| Sender sessions | `services/whatsapp_auth_service.py`, `services/sender_service.py`, `infrastructure/providers/session_manager.py`, `session_store.py`, `auth_state_registry.py` | sender rows, browser profiles, registry of authentication threads | QR authentication, health check, status changes, usage, restart |
| Source synchronisation | `infrastructure/source/synchronizer.py`, `services/sync_service.py` | contacts | suppression check, identity matching, merge, insert, commit |
| CRM, reminders, suppression | `services/crm_service.py`, `services/contact_service.py`, `domain/policies/reminder_policy.py` | outcomes, reminders, tombstones | the CRM transitions, archiving, generation of reminders |
| Event bus | `infrastructure/events/event_bus.py`, `api/events.py` | recent events, queues, listeners | publish, subscribe, streams to clients |
| Providers | `infrastructure/providers/` | SMTP connections, browser pages | send |
| The rest | API, templates, companies, vault, migrations, UI | single rows | create, read, update, delete |

How they interact.  A request that starts or resumes a campaign spawns a daemon
thread; pause, resume and the loop communicate through an `Event` in memory and
the status column.  Each round of the loop opens a session, reads fresh rows,
lets the policies choose one endpoint, asks the rate limiter for a ready sender,
and calls the worker, which opens a session *per phase*: PREPARED, SENDING,
provider call, outcome.  A manual request runs the same phases in its own
thread and session, with the same rows and the same limiter.  An authentication
request spawns a browser thread that writes sender rows through a callback.
An import lists all contacts and then writes them one by one in one transaction.
Every one of these publishes events to the bus from its own thread; the streams
to clients run on the server's event loop.  Nothing but SQLite's write lock
orders the sessions of different threads.  On start the process audits the rows,
campaigns and senders that a crash left behind.

What makes it hard: what one session reads is used in a later one; two owners
(a loop's handler and another loop, an authentication and a health check, an
import and an operator) write one row; the provider may have delivered when its
answer is lost; the outcome and the sender's busy mark are released in different
orders on the two paths; a pause is recorded twice, in memory and in the
database; a browser profile and its row are two records of one login.
`PROJECT.json` lists these hazards line by line, with the property that covers
each, or the reason why none does.

What makes each component correct:

- dispatch: no endpoint is reached twice by automatic sends, a delivered message
  stays on record, every attempt in flight is settled, the counter agrees with
  the rows, SENT rows are final;
- limiter: caps and spacing hold at the moment a sender is taken, and a sender is
  never left locked;
- control: one loop per campaign, a pause stops it, memory and database agree;
- policies: contacts come company by company, senders take turns, the quota is
  kept, a campaign is complete only when its quota is used up or nothing is left,
  and the dashboards show what selection does;
- sessions: no row without its profile, the right number in each profile, no
  leftovers, a verdict for every authentication;
- contacts: an import drops no address and makes no second contact of one, an
  opt-out stays, reminders follow the CRM state, an archived contact stays away;
- event bus: what a client is sent is in the order of the history and ends with
  the newest event, the history has no gap, every listener is called.

## Modules

| module | what it is |
|---|---|
| `Dispatch` | the life of an attempt: loops, operators, provider, triage, crash and restart |
| `EndpointLedger` | what automatic outreach promises of an endpoint, abstractly; `Dispatch` implements it for one campaign (`KeepsLedger`) |
| `RateLimiter` | one sender of the limiter, its callers, time |
| `CampaignControl` | one campaign's status, Event and threads, and the requests on them |
| `CampaignRotation` | whom a campaign reaches next and through whom: the policies as the loop uses them, session after session |
| `SenderSessions` | sender rows, browser profiles and the threads between them |
| `ContactDesk` | contacts, reminders and tombstones under imports, CRM requests, archiving and deliveries |
| `EventBus` | publishers, streams and listeners |
| `Subsequences` | list comprehensions and `sorted`, by the positions they keep and by ranks |
| `MC...` | instances for TLC |
| `..._proofs` | theorems about `Dispatch`, `RateLimiter`, `CampaignControl`, `CampaignRotation`, `SenderSessions`, `ContactDesk`, `EventBus`, and the lemmas about `Subsequences` |

A database session that commits is one step, so a step is what SQLite makes
atomic; the locals of a thread or request are what it may hold too long.

### Dispatch

| code | action |
|---|---|
| loop round: quota check and policies | `Select` |
| phase 1: validation failure; existing row or insert | `RecordPreSendFailure`, `Reserve` |
| phase 2: pacing timeout, sender busy | `NotAdmitted` |
| phase 3: SENDING | `BeginSending` |
| phase 4: delivery (outside), answer | `ProviderDelivers`, `ProviderReturns` |
| phase 5: outcome and counter in one commit | `Resolve` |
| an exception, the loop's handler, its own exception | `WorkerRaises`, `HandlerScan`, `HandlerWrite`, `HandlerRaises` |
| `_send`: key lookup, insert, SENDING, limiter, outcome | `RequestSend`, `CheckAndBuildIdempotency`, `InsertPrepared`, `OperatorBeginSending`, `OperatorNotAdmitted`, `OperatorAdmitted`, `FinalizeSend` |
| `_resend` | `RequestResend`, then as above |
| an exception in a request | `RequestRaises` |
| `resolve_recovery` | `ResolveMarkSent`, `ResolveFailed` |
| kill, restart audit | `Crash`, `Restart` |

A row keeps its status, the class of its failure code (what the policies tell
apart), its owner (a campaign, manual or resend), its endpoint, and whether its
idempotency key is salted; a salted key holds a timestamp in milliseconds and is
taken to be new.  `delivered` is a ghost: the attempts whose message got out,
which no code can see.  The status QUEUED is left out because nothing sets it.
`UsedMatchesSent` and `NoOrphans` are stated while no exception was raised: the
handler of the loop may write FAILED over another's SENT row, and a request that
raises leaves its row in flight until the restart (both are listed as hazards).

### RateLimiter

Each method is one step because it runs under the limiter's lock; what lies
between two calls is not protected, so a caller is a little state machine.  The
worker's path is `SelectSender`, `WaitForReady`, `AcquireSender`, `Resolve` (or
`WorkerRaises`), `Release`; an operator's is `RequestDispatch`, `WaitForReady`,
`AcquireSender`, `ReleaseAfterSend` (or `ProviderRaises`), `RecordAfterRelease`.
`Poll` is a refused `can_send`, which still draws the jitter and prunes the
history.  Timestamps are kept as ages, so the clock needs no bound.  `sends`, a
ghost, is what the history would be if a restart did not empty it.

### CampaignControl

A request holds the scheduler's lock for the whole call, the loop takes it only
to deregister itself.  So a request is split where the loop can write in
between: `PauseRead` and `PauseWrite`; `ResumeRead`, `ResumeWrite` and
`ResumeSignal`.  `Start` is one step: it changes something only when no loop is
alive, and then nobody else writes.  The loop's decisions (`Complete`, `Fail`,
`StallPause`, `Skip`, `Dispatch`) are taken without regard to contacts and
senders, which allows more behaviours than the policies do.  A thread that ends
by an exception stays registered (`LoopDies`), as in the code.

### CampaignRotation

The pure policies are operators with the names of the functions they stand for
(`Covered`, `Blocked`, `Uncovered`, `Usable`, `Prioritized`, `NextSender`,
`CurrentRound`, ...); around them the loop's session and what changes outside it.
`prioritize_company_first` gives each contact that is left a round (`Rounds`: the
company's attempts and the contact's place among those left) and sorts by round
and by the company that was found first; `Prioritized` is that list, by the order
`Before`.

| code | action |
|---|---|
| readiness gate, start without a count, resume | `Start` |
| start with a `max_count`; the same of a campaign that has ended | `StartWithMaxCount`, `StartRefused` |
| the thread's count or the quota is reached: complete | `MaxCountReached`, `QuotaReached` |
| no sender or template left | `FailWithoutSender` |
| nobody can be reached: complete, stalled, wait | `Complete`, `PauseOnStall`, `AdvanceCursor` |
| every sender of the channel cools down | `NoSenderReady` |
| choice of contact, endpoint, sender; cursors saved | `PickTarget` |
| `execute_attempt` and what it leaves; an exception before its row | `Attempt`, `RaiseBeforeRow` |
| the same for a contact that was archived meanwhile | `RaiseWithoutContact` |
| the limiter's clock; thirty minutes without a dispatch | `Admit`, `Late` |
| kill and restart audit | `Crash` |
| senders (de)activated, opt-out, triage | `SetActive`, `OptOut`, `Triage` |
| `archive_contact`; a contact that an import inserts or extends | `Archive`, `Import` |

The list of contacts is read again in each session: `listed` is who is in the
database and `endpoints` what is known of each.  An archived contact leaves with
its attempts and its addresses get tombstones; an import inserts a contact or
adds to its endpoints.  Three things are simpler than in the code: contacts stay
in the order of the constant `ContactList`, the addresses of different contacts
are disjoint (`ContactDesk` is about sharing them), and a contact that is archived
during its own dispatch is imported again only after it.

A campaign has a quota or none (`quota`), the counter in the database (`used`),
and its thread may count for itself (`budget`).  A start with a `max_count` writes
the quota and begins a thread with that count; a paused campaign goes on with a
thread that has none.  The two counts differ: the quota is of all sends the
campaign ever had.  `extra`, a ghost, is the sends no quota could stop: those that
triage has marked as sent, and those before a smaller quota was set.

A contact's timestamps are only set beside a SENT row, which the policies look
at first, so they are left out.  The branches of the channel policy for a
decision that is not eligible and of the loop for "no senders on a stall" cannot
be reached with the channels the loop passes; template rotation is a cursor of
its own that nothing else reads; `evaluate_automatic_eligibility` is called by
tests only.  `passed`, a ghost, counts the turns a ready sender did not get.

### SenderSessions

| code | action |
|---|---|
| `configure_whatsapp_sessions`, `create_sender`, `add_whatsapp_session`, `update_sender_status` | `ConfigureSessions`, `CreateSender`, `AddSession`, `UpdateStatus` |
| `start_whatsapp_authentication`: the row, then the thread | `RequestAuthentication`, `StartQrAuthentication` |
| `_run_auth_flow`: directory and browser, QR code, login, timeout | `LaunchBrowser`, `OpenFails`, `ShowQrCode`, `Reject`, `Reuse`, `ResolveNew`, `AuthenticationFails`, `QrTimeout` |
| the way out: close, rename the profile, insert the row | `BrowserCloses`, `BrowserCloseRaises`, `CloseRaises`, `RenameProfile`, `RenameFails`, `PersistSender`, `PersistFails` |
| `check_whatsapp_session_health`: read, probe, save | `CheckHealth`, `Probe`, `SaveProbe` |
| `PostSendResolver`: read the sender, save it | `ReadSender`, `SaveUsage` |
| the phone | `Scan`, `LogOut` |
| restart, `reconcile_sender_states` | `Restart` |

Saving writes the whole row that was read, whatever it is by then; an insert of
a second row with a number meets the unique index.  The ghosts say what the
rows cannot: `strayed`, the senders whose re-authentication another phone
scanned (rejected, but the profile is logged in to it); `mislabelled`, the senders
an operator gave another number than they had or are named for, and the profiles
that moved away from a number's name; `unbacked`, the numbers a row was created
for with no profile to show, or whose profile went with a failing browser; `left`,
the temporary sessions whose directory could not be cleared away or had nobody to
do it; `mute`, the threads whose verdict did not reach the row.

An identity is a number and a spelling: operators type any string
(`create_sender` stores it stripped, under any id), an authentication stores bare
digits, and the unique index compares strings.  So '+91...' and '91...' are two
rows of one number, and nothing here claims that a number has one sender.
Whatever the code swallows is a step that may do nothing: a status write
(`Callback`, `Verdict`), the removal of a directory the browser may still have
open (`RemoveDir`), the removal of what was merged (`RenameProfile`).

### ContactDesk

| code | action |
|---|---|
| a CRM request, note or delivery: read, write | `ReadContact`, `WriteContact` with one of `Operations` |
| `update_status`: its lookup of reminders, before anything is written; a reminder that is gone | `FindReminders`, `CompletionFails` |
| `archive_contact`: read; tombstones and delete | `ReadToArchive`, `Archive` |
| `sync_source`: parse and list; a row's tombstones; merge; insert; commit | `ListContacts`, `CheckRow`, `UpdateExisting`, `CreateContact`, `CommitSync` |
| an insert the database refuses, which ends the whole import | `FailImport` |
| `generate_due_reminders`: list; one lookup; the inserts | `StartGeneration`, `LookUpReminder`, `InsertReminders`, `NothingToInsert` |

A request that reads and a request that writes are two steps; the first write of
a transaction takes SQLite's write lock until the commit.  `raced`, a ghost, is
the contacts somebody has written from a stale read: the code takes no measure
against that (`save` overwrites every column), so the properties are stated for
the others, and say that this is the *only* way to violate them.  `late`, another
ghost, is the contacts with a reminder that two overlapping requests left: the
contact or its reminders were no longer what one of them had read.  That happens
when a generation works from an older list or an older lookup, when a contact is
overwritten from a stale read, and when `update_status` finds no reminder to
complete and one is inserted before it writes (it has no lock until then; the
`mark_` operations save first and look with the lock).  `RemindersMatch` excepts
these until the contact has no reminder any more, and even they have a contact;
`RemindersBounded` says that they cannot pile up.  A source file
is a sequence of rows as the parser leaves them: a CSV file's without those that
have no address, a workbook's once per key (`ParseSourceRows`).  How numbers are
extracted from cells, statistics and source records are left out.

### EventBus

| code | action |
|---|---|
| `publish`: lock, history, each queue, unlock, each listener | `Enter` and `Publish`, `Serve`, `Release`, `Call`, `Return` |
| `subscribe`, `unsubscribe` | `Listen`, `Unlisten` |
| a stream: the connected event, its queue, its events, its end | `Connect`, `Register`, `Send`, `Disconnect`, `Unregister` |
| `_deliver` on the event loop | `Deliver` |
| the server stops | `CloseLoop` |

An event is its number in the order of publication.  A stream tells its client
that it is connected before it registers its queue: events in between are
missed, which is why a stream begins at `since`.

## Runs

Passing:

| run | instance | shows |
|---|---|---|
| `single` | 1 campaign, 2 endpoints of a contact, 4 attempts, 2 crashes | `AutomaticAtMostOnce`, and the refinement `KeepsLedger` |
| `mixed` | 2 campaigns and an operator on 1 endpoint, 2 attempts, 2 exceptions, 1 crash | `TypeOK`, `DeliveredNeverLost`, `UsedMatchesSent`, `NoOrphans`, `SentIsFinal` |
| `live` | 1 campaign, 1 operator, 2 attempts, 1 crash, fairness | `InFlightSettles` |
| `limiter` | 1 loop, 1 operator, a 3-a-day and 2-an-hour sender, 1 restart, fairness | `TypeOK`, `LockHeld`, `CapsKept`, `TakenWhenReady`, `LockReleased` |
| `control` | 2 requests, 3 threads, 2 database errors, any number of restarts | `TypeOK`, `OneLoop`, `PauseHolds`, `FlagMatchesStatus` |
| `senders` | 2 numbers, 1 placeholder, 1 new session, 4 typed identities, 2 requests, 3 calls, 1 fault, 1 crash, fairness | `TypeOK`, `ProfileBeforeRow`, `OwnNumber`, `TempLeavesNoTrace`, `AuthenticationSettles` |
| `desk` | 2 contacts, 2 free ids, 3 files, 2 requests, 3 calls, 2 instants | `TypeOK`, `RemindersMatch`, `RemindersBounded`, `OptOutKept`, `SyncPreserves`, `FreshMeansNew` |
| `bus` | 2 publishers, 1 stream with a queue of 1, history of 2, 3 events, 2 listeners | `TypeOK`, `InOrder`, `NewestKept`, `HistoryComplete`, `EveryListenerTold` |
| `rotation` | 3 contacts of 2 companies, 3 senders on 2 channels, 4 starting states, counts 0 and 2, 1 retry, 1 change from outside | `TypeOK`, `CompanyFirst`, `DashboardAgrees`, `SenderTurns`, `LimitKept`, `CompleteMeansDone`, `RoundNeverBack` |

Failing, each against what the repository says (the quotes are in
`PROJECT.json`):

| run | shows |
|---|---|
| `race` | two campaigns that share a contact both send to it: selection and reservation are different sessions and the key names the campaign |
| `manual` | a third manual send is not recognised as a duplicate of the second, whose key was salted because the first failed |
| `resurrect` | an archived contact with two numbers returns with the next import: its tombstones hold single numbers, the import looks for the joined column |

Other divergences, reachable in the models but without a run of their own:

- a database error after delivery makes the loop's handler record FAILED
  (`campaign_scheduler.py:595`) although the enum's comment reserves ambiguity
  for RECOVERY_REQUIRED (`enums.py:51-53`), and the endpoint is tried again;
  `DeliveredNeverLost` excepts that handler by name;
- an operator's late record clears the busy mark of the thread that took the
  sender since (`outreach_service.py:213`): `RecordAfterRelease`;
- a resume that meets an auto-paused loop on its way out leaves the campaign
  RUNNING with no thread (`campaign_scheduler.py:226`): `StallPause`,
  `ResumeSignal`, `LoopExits`;
- an authentication that is requested while the thread of the last one is still
  closing its browser leaves the row AUTHENTICATING (`session_manager.py:203`);
- a number typed in as '+91...' and authenticated as '91...' has two senders
  (`whatsapp_auth_service.py:131` looks for the id `wa_<digits>` only), although
  the index is to prevent "duplicate real identities" (`models.py:320-323`) and the
  entity documents the first form (`sender_account.py:25`): `CreateSender`, `Taken`;
- the directory of an abandoned session is removed while the browser has it open
  (`session_manager.py:381-383`, `439-441`), against the comment at `301-302`, and a
  failure is only logged: `RemoveDir`;
- a status write of the thread that fails is only logged
  (`whatsapp_auth_service.py:162`), so the row stays as it was: `Verdict`;
- a placeholder whose login is persisted under its number keeps its own row, in
  QR_REQUIRED, for good (`session_manager.py:395`, `whatsapp_auth_service.py:141`):
  `PersistSender`;
- a refusal through `update_status` is to "mark any pending follow-up reminders for
  a contact as completed" (`crm_service.py:135`) and leaves one that a generation
  inserts between its lookup and its save: `late`;
- a start with a `max_count` of a campaign that has ended is refused, but only
  after its quota was overwritten (`campaign_service.py:327-331`,
  `campaign_scheduler.py:164`): `StartRefused`;
- a message that is delivered to a contact archived during its dispatch leaves no
  row and is not counted: `RaiseWithoutContact`;
- one slot of a wide workbook with a name but no address undoes the whole import
  (`synchronizer.py:381`): `FailImport`.

Bounds.  *Dispatch*: two campaigns and one operator give every pair of owners of
a row; a third writer of the same kind adds no new pair.  Two attempts are the
smallest number that can be duplicates; four let a retry follow a failure or a
triage and still be a duplicate of the first.  Two crashes let a crash hit what
the recovery of the first left.  Two endpoints in one lane let the blocker of one
hold back the other.  *Limiter*: a unit is half a minute: pace 4 is 120 seconds,
drawn from 3 (96 s) or 5 (150 s); the day is longer than any backoff and than the
scaled hour, so that both windows end at different entries; `failures` stops at
6, where the backoff no longer changes.  *Control*: three threads are one alive,
one that died registered and one to take over; more requests only queue at the
lock; `late` stops at 2, which already violates.  *Senders*: two requests can
hold two stale rows, or race two threads for one number; three calls create,
authenticate and disturb; the fault and the crash hit any of the steps.  *Desk*:
two requests give every pair of kinds of writers, the third call lets one of them
prepare the ground (an interested contact, a reminder, a tombstone); the files
move, share, repeat and re-spell addresses; an import may need two fresh ids.
*Bus*: a queue of one and a history of two overflow with three events.
*Rotation*: two senders share a channel and two contacts a company, the smallest
numbers for a turn and for an order; the one retry makes a company's attempts
differ from its contacts reached; the one change may fall between any two steps.
A count of 2 is used up by two of three endpoints, one of 0 at once; a start with
a count meets a quota, none, or sends that exceed it.
`MaxTime`, `MaxCalls`, `MaxEvents`, `MaxListening`, `MaxFaults`,
`MaxCrashes`, `MaxExceptions`, `MaxRetries`, `MaxChanges` and the sets of ids are
the only bounds, each a conjunct of the guards it names.

Deadlock checking is off where a supply runs out (attempt ids in `Dispatch`,
calls in `SenderSessions` and `ContactDesk`, events in `EventBus`, a campaign
that has ended in `CampaignRotation`), and on for the limiter and the control
plane.

Fairness.  `Dispatch!FairSpec`: each loop and each request goes on when it can
(threads of one process), and a provider call ends (the SMTP connection has a
socket timeout, the browser steps have deadlines); nothing is assumed of
deliveries, triage, crashes or restarts, so the liveness property is settled
*or down*.  `RateLimiter!FairSpec`: a thread that has the sender finishes; none
is assumed for admission, a sender may be refused for ever.
`SenderSessions!FairSpec`: an authentication thread is scheduled, and every wait
in it has a deadline (the polling loop ends by `QrTimeout`); nothing is assumed
of phones, operators or requests.

## Proofs

Every safety invariant and every action property that a passing run checks is
the subject of a theorem, and so is the refinement.  The theorems hold for every
value of the constants that satisfies the module's named assumption: the sets of
campaigns, operators, threads, requests, numbers or ids are disjoint where the
code's are, `NONE` is no member of them, bounds are natural numbers, queues and
histories have room for one event, the listed contacts and senders are listed
once.  The limiter's threads are assumed finite, because `CapsKept` counts them;
contacts and senders of the rotation are finite because they are lists; the desk's
requests are assumed finite because `RemindersBounded` counts them; no other set is.

Most are `THEOREM Spec => []Inv` from an inductive invariant, with one lemma per
action or per group of actions with the same effect.  Where a property speaks of
what several components of the state have to do with each other, the invariant
comes in layers: the types and what each thread carries first, then what the
property needs, assuming the first.

**Dispatch.**  `TypeCorrect` and `DeliveredStaysOnRecord` are the first layer.
`DeliveredNeverLost` is not inductive: a step that writes FAILED is harmless only
because of what the thread knows.  The invariant adds that two threads never
carry one attempt (`CarriedOnce`), that a thread carries an attempt of its own
(`CarriedOwn`), that an attempt not yet at the provider is not delivered
(`NotYetDelivered`), that SENDING is committed before the call
(`SendingPersisted`), that an answer is honest about delivery (`ResultHonest`),
and that nobody works while the process is down (`DownIsIdle`).

The second layer describes a step by its kind (`StepKinds`): a thread moves
without a write, inserts its row, writes its own row, an operator triages, the
process crashes, the audit runs.  What follows is proved once per kind instead of
once per action.

- `RowsHaveThreads` (`NoOrphans`), `CounterCountsSent` (`UsedMatchesSent`) and
  `SentRowsAreFinal` (`SentIsFinal`) rest on `CalmInv`: as long as no exception
  was raised no handler is at work (`Calm`), each row in flight has its thread
  (`Homed`), and a campaign's counter is the number of its SENT rows
  (`Counted`).  The last changes by a row at a time; that a campaign's SENT rows
  are finite is part of the invariant and not assumed of the ids.
- `OneAutomaticDelivery` (`AutomaticAtMostOnce`) has two more hypotheses, stated
  in the theorem: one campaign (`OneCampaign`) and no exception.  Both are
  necessary: `race` is a counterexample with two campaigns, and a handler that
  records FAILED lets the endpoint be tried again.  `Claims` is the invariant: at
  most one automatic attempt of an endpoint counts, that is, may have been or
  may yet be delivered (`OneCounts`); an endpoint the loop has selected has none
  (`SelectedFree`), which is what selection promised and what must survive until
  the row is inserted.
- `DispatchKeepsLedger` (`KeepsLedger`) is the refinement of `EndpointLedger`
  under the same hypotheses.  `RowStep` sums up what any step does to a row; as at
  most one row counts (`OneCounts`), the ledger's state is that row's
  (`LedgerShows`), and each row's move is a move of the ledger or a stutter.

**RateLimiter.**  `SenderNeverLeaked`: `LockHeld` is inductive with the typing of
the threads' labels.  `TypeCorrect` needs that the ghost `sends` is oldest first
(`Ordered`): what follows an entry that is within the day is within the day.
`CapsAreKept` and `SpacingHolds` rest on `Accounted`, while there was no restart:
the ghost is the pruned history (`Linked`), no entry is younger than the last
stamp (`Stamped`), a thread that was admitted after the last record still has the
spacing it was admitted for (`Spaced`), and the sends of a window with the threads
that may still add one are fewer than the limit and the number of threads
together (`Budget`).

**CampaignControl.**  `CampaignHasOneLoop` rests on the lock only through the
registration.  `PauseStops` needs that a request between its read and its write
has the lock (`LockOwned`), that a loop holds its own Event (`HeldOwn`), that a
pause has set it before it writes (`Flagged`), that only a resume in progress
clears it (`ResumeMarked`), and that the loop there is, if any, is stopped while
nobody has resumed (`Halted`).  `FlagAgrees` (`FlagMatchesStatus`) adds
`Agreed`, while no database error was met: what a request has read and not
written, what it has written and not signalled, and that Event and column match
when no request is between the two.

**CampaignRotation.**

- `SendersTakeTurns` (`SenderTurns`): the invariant `InTurn` says that a sender
  stands some number of places ahead of its channel's cursor and that its passed
  turns and those places together are fewer than the senders.  A search from the
  cursor that finds another sender moves the cursor past it and not past a ready
  one (`CursorMoves`, `TurnKeepsOrder`); the rest is the arithmetic of `%`
  (`RoundMeetsAll`).
- `CompaniesTakeTurns` (`CompanyFirst`): `Before` is an order in which no two
  contacts tie (`BeforeIsOrder`), because two contacts of a company differ in
  their place among those left; so the sorted list meets each contact once, and a
  contact's rank within its company is that place (`PlacesWithinOffset`,
  `NextOfCompany`).
- `DashboardsAgree` (`DashboardAgrees`) needs no more than the types: the two sets
  of rules agree in every state, reachable or not.  It is a theorem about the rules.
- `LimitHolds` (`LimitKept`) rests on `Counted`: while the loop dispatches, the
  counter is below the quota and the sends no quota stops, so that one more keeps
  it; and the thread's own count never ends before the quota is used up.  With the
  last, `CompleteIsDone` (`CompleteMeansDone`) covers the completion by the maximal
  count as well as that by the quota; for the third way it is `CoveredIsDone`, that
  an endpoint nothing is left of is sent, rejected or suppressed.
- `RoundsGoForward` (`RoundNeverBack`) follows from what no step takes back while the
  contacts are the same: a SENT result stays (`ResultsStay`), so a contact stays
  reached.  Where a contact is archived or imported the round may go back.
- `TypeCorrect` shows that the choice of a turn divides by no zero and reaches into
  no empty list.

**SenderSessions.**  `TypeCorrect` needs that what a request will write back was a
row that is there (`HeldIsRow`), and that a thread which persists knows a number
(`FoundIsNumber`).  The second layer is about names and directories: a row under a
number's name has that number unless an operator gave it another, and so has what
a request holds of it (`RowOwn`, `HeldOwn`); a thread that re-authenticates expects
the number of its row (`ExpectsOwn`); a thread that persists either still has its
temporary profile or has moved it to the place its row will name (`Moving`,
`HasMoved`); and each directory is as the ghosts say (`PhoneOwn`, `SlotOwn`).  From
these, `RowHasProfile` (`ProfileBeforeRow`), `ProfileIsOfItsNumber` (`OwnNumber`) and
`AbandonedLeavesNothing` (`TempLeavesNoTrace`) are kept together, for a step that
breaks one breaks what another needs.  The exceptions are the ghosts named in the
properties, and each ghost is set only by the step it is named for.  That a number
has one sender is not among the theorems, because it is not so.

**ContactDesk.**  `Typed` relates each request's locals to its label (`Fit`) and
the lock to the import that holds it (`LockFits`).  `RemindersAgree`
(`RemindersMatch`) and `OptOutSurvives` (`OptOutKept`) must hold of what a failed
import will restore as well as of what is there, so the invariant says both
(`Reverts`).  `RemindersStayBounded` (`RemindersBounded`) counts: a request is about to
insert a reminder only if it found none, so the reminders of a contact and the
requests about to insert one are together no more than the requests (`Room`).
`ImportsPreserve` (`SyncPreserves`) and `NewContactsAreNew`
(`FreshMeansNew`) need that the import knows what it has listed and written
(`Learned`); `MergeEffect` says that merging addresses is the union of the sets.

**EventBus.**  `HistoryHasNoGap` is inductive with the types; `RememberEffect`
says what dropping the oldest event does to the sequence.  `SentInOrder`
(`InOrder`) and `NewestSurvives` (`NewestKept`) rest on `Flow`, stream by stream:
what was sent comes before what is queued, and that before what was handed to the
event loop, each in order (`Sequenced`); none of it is newer than what the
publication under way has given the stream (`Bounded`), and from the oldest
unsent event on nothing is missing (`Gapless`); dropping the oldest of a full
queue keeps all three.  `ListenersAreTold`
(`EveryListenerTold`) follows from `Told`: the listeners that were called are the
first of the publication's targets and those left to call are the rest.

**Subsequences.**  The provers know nothing of `SelectSeq` and `SortSeq`, and
folds are inductions over data, so the lists of the rotation, the imports and
the bus are given by positions and ranks.  The lemmas: `NthEnumerates` and `PickEffect`, that
`Pick` lists the kept entries in their order; `RankTaken` and `SortedEffect`, that
in an order without ties each rank is taken once and `Sorted` lists a finite set
along it.

Only model-checked: liveness (`InFlightSettles`, `LockReleased`,
`AuthenticationSettles`), which is out of the prover's reach, and the refuted
claims of the failing runs.


## Not modelled

- the contents of messages, templates and attachments, and the conversations
  with the browser and the SMTP server: a provider is its possible outcomes;
- e-mail senders and the credential vault: a row and a vault entry that one
  request writes;
- the cells of a workbook and how numbers and addresses are extracted from them;
- creating and editing campaigns, and what else than the quota the save of the
  whole metadata by `start_campaign` may overwrite;
- rows of other channels under `wa_` ids, ids that become the same directory when
  they are normalised, and a second start of a temporary id while its browser is
  still closing;
- the order in which the database lists contacts after an import;
- two salted keys within one millisecond (the UNIQUE column refuses the second);
- events as side effects of the other components: publication changes no row;
- templates and companies: create, read, update and delete of single rows;
- configuration, wiring, migrations, the API's serialisation and the UI.

## Plan

Done: dispatch, limiter, control, rotation, sender sessions, contacts and event
bus are modelled, and each safety property that a passing run checks is a theorem.
What is left, in this order:

1. Campaign metadata: the save of `start_campaign` against the counter of a
   dispatch under way; composition of control and dispatch, so that a paused
   campaign's quota and rows are seen together; then the counter's agreement
   with the rows for that composition, as a theorem.
2. E-mail senders and the vault: a row without its credential after a failure.
3. The claims of `race` and `manual` under the hypotheses that make them true
   (campaigns that share no contact; keys that are never salted), as theorems.
