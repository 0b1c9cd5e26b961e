-------------------------- MODULE CampaignControl ---------------------------
(***************************************************************************)
(* The control plane of one campaign: requests that start, pause and       *)
(* resume it, the background loop they control, and the status column all  *)
(* of them write.                                                          *)
(*                                                                         *)
(* Requests hold the scheduler's lock for a whole call, but the loop takes *)
(* it only to deregister itself: its reads and writes of the status fall   *)
(* between theirs.  A status read and the write that depends on it are     *)
(* separate steps wherever someone else can write in between.              *)
(***************************************************************************)
EXTENDS Naturals

CONSTANTS
  Loops,          \* loop threads; one that is gone stands for a new one
  Requests,       \* request threads
  MaxExceptions   \* bound on database errors

None == "NONE"

ASSUME ControlAssumption ==
  /\ None \notin Loops \cup Requests /\ Loops \cap Requests = {}
  /\ MaxExceptions \in Nat

\* CampaignStatus.  STARTING is left out: nothing sets it.
Statuses == {"IDLE", "RUNNING", "PAUSED", "COMPLETED", "FAILED"}
Terminal == {"COMPLETED", "FAILED"}

VARIABLES
  status,  \* the campaign's status column
  active,  \* the loop in _active_threads, its Event is the one in _pause_flags
  isSet,   \* loop -> is the pause Event made for it set
  held,    \* loop -> the Event it got hold of when it began, by its loop
  loop,    \* loop -> where it is
  req,     \* request -> where it is
  seen,    \* request -> the status it read
  lock,    \* who holds the scheduler's lock between two steps
  resumed, \* has nobody paused the campaign since it was started or resumed
  late,    \* dispatches ended since the last pause, 2 standing for more (ghost)
  excs

vars == <<status, active, isSet, held, loop, req, seen, lock, resumed, late, excs>>

LoopLabels == {"starting", "top", "deciding", "finishing", "dispatching",
               "exiting", "gone"}
ReqLabels  == {"idle", "start", "pause", "resume", "pauseWrite", "resumeWrite",
               "resumeSignal"}

\* Mutant: a loop that is about to deregister itself counts as dead.
AliveUntilExit(l) == loop[l] \notin {"gone", "exiting"}

Alive(l) == loop[l] # "gone"

IsRunning == active # None /\ Alive(active)

Paused(l) == held[l] # None /\ isSet[held[l]]

GotoLoop(l, from, label) == loop[l] = from /\ loop' = [loop EXCEPT ![l] = label]
GotoReq(r, from, label)  == req[r] = from /\ req' = [req EXCEPT ![r] = label]

-----------------------------------------------------------------------------
(***************************************************************************)
(* Requests.  The service checks the status in a session of its own before *)
(* it calls the scheduler.                                                 *)
(***************************************************************************)
ServiceStart(r) ==
  /\ GotoReq(r, "idle", "start") /\ status # "RUNNING"
  /\ UNCHANGED <<status, active, isSet, held, loop, seen, lock, resumed, late, excs>>

ServicePause(r) ==
  /\ GotoReq(r, "idle", "pause")
  /\ UNCHANGED <<status, active, isSet, held, loop, seen, lock, resumed, late, excs>>

ServiceResume(r) ==
  /\ GotoReq(r, "idle", "resume") /\ status = "PAUSED"
  /\ UNCHANGED <<status, active, isSet, held, loop, seen, lock, resumed, late, excs>>

\* A new thread with a new Event, registered under the campaign's id.
Spawn(l) ==
  /\ ~Alive(l) /\ l # active
  /\ active' = l
  /\ isSet' = [isSet EXCEPT ![l] = FALSE]
  /\ loop' = [loop EXCEPT ![l] = "starting"]

\* Mutant: a start moves the campaign to STARTING first.
StartAsStarting(r, l) ==
  /\ GotoReq(r, "start", "idle") /\ lock = None
  /\ IF ~IsRunning /\ status \in {"IDLE", "RUNNING", "PAUSED"}
     THEN /\ Spawn(l) /\ resumed' = TRUE
          /\ status' = IF status = "IDLE" THEN "STARTING" ELSE "RUNNING"
     ELSE UNCHANGED <<status, active, isSet, loop, resumed>>
  /\ UNCHANGED <<held, seen, lock, late, excs>>

\* start_campaign.  With no loop alive nobody else can write the status, so
\* the call is one step, the resume it ends in for a PAUSED campaign included.
Start(r, l) ==
  /\ GotoReq(r, "start", "idle") /\ lock = None
  /\ IF ~IsRunning /\ status \in {"IDLE", "RUNNING", "PAUSED"}
     THEN Spawn(l) /\ status' = "RUNNING" /\ resumed' = TRUE
     ELSE UNCHANGED <<status, active, isSet, loop, resumed>>
  /\ UNCHANGED <<held, seen, lock, late, excs>>

PauseRead(r) ==
  /\ GotoReq(r, "pause", "pauseWrite") /\ lock = None
  /\ lock' = r
  /\ isSet' = IF active = None THEN isSet ELSE [isSet EXCEPT ![active] = TRUE]
  /\ seen' = [seen EXCEPT ![r] = status]
  /\ UNCHANGED <<status, active, held, loop, resumed, late, excs>>

PauseWrite(r) ==
  /\ GotoReq(r, "pauseWrite", "idle")
  /\ status' = IF seen[r] = "RUNNING" THEN "PAUSED" ELSE status
  /\ resumed' = FALSE
  /\ late' = IF resumed THEN 0 ELSE late
  /\ lock' = None
  /\ UNCHANGED <<active, isSet, held, loop, seen, excs>>

ResumeRead(r) ==
  /\ GotoReq(r, "resume", "resumeWrite") /\ lock = None
  /\ lock' = r
  /\ seen' = [seen EXCEPT ![r] = status]
  /\ UNCHANGED <<status, active, isSet, held, loop, resumed, late, excs>>

ResumeWrite(r) ==
  /\ GotoReq(r, "resumeWrite", "resumeSignal")
  /\ status' = IF seen[r] = "PAUSED" THEN "RUNNING" ELSE status
  /\ resumed' = TRUE
  /\ UNCHANGED <<active, isSet, held, loop, seen, lock, late, excs>>

\* Mutant: a loop that is alive is taken to run on by itself.
ResumeSignalUncleared(r, l) ==
  /\ GotoReq(r, "resumeSignal", "idle")
  /\ IF IsRunning THEN UNCHANGED <<active, isSet, loop>> ELSE Spawn(l)
  /\ lock' = None
  /\ UNCHANGED <<status, held, seen, resumed, late, excs>>

\* A loop that is alive is released, even if it is on its way out.
ResumeSignal(r, l) ==
  /\ GotoReq(r, "resumeSignal", "idle")
  /\ IF IsRunning
     THEN isSet' = [isSet EXCEPT ![active] = FALSE] /\ UNCHANGED <<active, loop>>
     ELSE Spawn(l)
  /\ lock' = None
  /\ UNCHANGED <<status, held, seen, resumed, late, excs>>

\* The database fails the request before its write is committed.
RequestRaises(r) ==
  /\ excs < MaxExceptions /\ excs' = excs + 1
  /\ req[r] \in {"pauseWrite", "resumeWrite"}
  /\ req' = [req EXCEPT ![r] = "idle"]
  /\ lock' = None
  /\ UNCHANGED <<status, active, isSet, held, loop, seen, resumed, late>>

-----------------------------------------------------------------------------
(***************************************************************************)
(* The loop.  What it decides from contacts, senders and templates is any  *)
(* outcome here; what matters is the status it read before and writes      *)
(* after.                                                                  *)
(***************************************************************************)
LoopStarts(l) ==
  /\ GotoLoop(l, "starting", "top")
  /\ held' = [held EXCEPT ![l] = active]
  /\ UNCHANGED <<status, active, isSet, req, seen, lock, resumed, late, excs>>

LoopUnchanged == UNCHANGED <<active, isSet, held, req, seen, lock, resumed, excs>>

\* max_count sends were dispatched.
MaxCountReached(l) ==
  /\ ~Paused(l)
  /\ GotoLoop(l, "top", IF status = "RUNNING" THEN "finishing" ELSE "exiting")
  /\ LoopUnchanged /\ UNCHANGED <<status, late>>

\* A PAUSED campaign whose Event is clear is read again and again.
ReadStatus(l) ==
  /\ ~Paused(l) /\ status # "PAUSED"
  /\ GotoLoop(l, "top", IF status \in Terminal THEN "exiting" ELSE "deciding")
  /\ LoopUnchanged /\ UNCHANGED <<status, late>>

\* Quota used up, or everything covered, or max_count reached.
Complete(l) ==
  /\ GotoLoop(l, "deciding", "exiting") \/ GotoLoop(l, "finishing", "exiting")
  /\ status' = "COMPLETED"
  /\ LoopUnchanged /\ UNCHANGED late

\* No sender, no sender with a template, or no template.
Fail(l) ==
  /\ GotoLoop(l, "deciding", "exiting")
  /\ status' = "FAILED"
  /\ LoopUnchanged /\ UNCHANGED late

\* No progress for half an hour.
StallPause(l) ==
  /\ GotoLoop(l, "deciding", "exiting")
  /\ status' = "PAUSED"
  /\ LoopUnchanged /\ UNCHANGED late

\* No candidate, no eligible endpoint or no ready sender in this round.
Skip(l) ==
  /\ GotoLoop(l, "deciding", "top")
  /\ LoopUnchanged /\ UNCHANGED <<status, late>>

Dispatch(l) ==
  /\ GotoLoop(l, "deciding", IF Paused(l) THEN "top" ELSE "dispatching")
  /\ LoopUnchanged /\ UNCHANGED <<status, late>>

Dispatched(l) ==
  /\ GotoLoop(l, "dispatching", "top")
  /\ late' = IF resumed \/ late = 2 THEN late ELSE late + 1
  /\ LoopUnchanged /\ UNCHANGED status

\* Whatever is registered under the campaign's id is taken out.
LoopExits(l) ==
  /\ GotoLoop(l, "exiting", "gone") /\ lock = None
  /\ active' = None
  /\ UNCHANGED <<status, isSet, held, req, seen, lock, resumed, late, excs>>

\* The database fails outside of the dispatch: the thread ends where it is,
\* still registered.
LoopDies(l) ==
  /\ excs < MaxExceptions /\ excs' = excs + 1
  /\ loop[l] \in {"top", "deciding", "finishing"}
  /\ loop' = [loop EXCEPT ![l] = "gone"]
  /\ UNCHANGED <<status, active, isSet, held, req, seen, lock, resumed, late>>

-----------------------------------------------------------------------------
\* The process is killed and comes back; the audit pauses what was running.
Restart ==
  /\ status' = IF status = "RUNNING" THEN "PAUSED" ELSE status
  /\ active' = None /\ lock' = None
  /\ loop' = [l \in Loops |-> "gone"]
  /\ req' = [r \in Requests |-> "idle"]
  /\ UNCHANGED <<isSet, held, seen, resumed, late, excs>>

Init ==
  /\ status = "IDLE" /\ active = None /\ lock = None
  /\ isSet = [l \in Loops |-> FALSE] /\ held = [l \in Loops |-> None]
  /\ loop = [l \in Loops |-> "gone"]
  /\ req = [r \in Requests |-> "idle"] /\ seen = [r \in Requests |-> "IDLE"]
  /\ resumed = TRUE /\ late = 0 /\ excs = 0

RequestStep(r) ==
  \/ ServiceStart(r) \/ ServicePause(r) \/ ServiceResume(r)
  \/ \E l \in Loops : Start(r, l) \/ ResumeSignal(r, l)
  \/ PauseRead(r) \/ PauseWrite(r) \/ ResumeRead(r) \/ ResumeWrite(r)
  \/ RequestRaises(r)

LoopStep(l) ==
  \/ LoopStarts(l) \/ MaxCountReached(l) \/ ReadStatus(l)
  \/ Complete(l) \/ Fail(l) \/ StallPause(l) \/ Skip(l)
  \/ Dispatch(l) \/ Dispatched(l) \/ LoopExits(l) \/ LoopDies(l)

Next ==
  \/ \E r \in Requests : RequestStep(r)
  \/ \E l \in Loops : LoopStep(l)
  \/ Restart

Spec == Init /\ [][Next]_vars

-----------------------------------------------------------------------------
\* The type invariant of the control plane.
TypeOK ==
  /\ status \in Statuses
  /\ active \in Loops \cup {None}
  /\ isSet \in [Loops -> BOOLEAN]
  /\ held \in [Loops -> Loops \cup {None}]
  /\ loop \in [Loops -> LoopLabels]
  /\ req \in [Requests -> ReqLabels]
  /\ seen \in [Requests -> Statuses]
  /\ lock \in Requests \cup {None}
  /\ resumed \in BOOLEAN /\ late \in 0..2
  /\ excs \in 0..MaxExceptions

\* A campaign never has two loops, and the one it has is the one that pause
\* and resume reach: starts, resumes, exits, exceptions and restarts in any
\* order leave no loop running unregistered.
OneLoop == \A l \in Loops : Alive(l) => active = l

\* "If a pause landed while computing, do not dispatch this step": once a
\* pause has returned, at most the dispatch that was already past the loop's
\* last check goes through before the campaign is started or resumed.
PauseHolds == ~resumed => late <= 1

\* As long as the database does not fail: between two requests, no loop that
\* runs on waits at its Event while the campaign is RUNNING, and each is
\* stopped by its Event while it is PAUSED.  The flag in memory and the status
\* in the database, which change in different steps, agree.
FlagMatchesStatus ==
  lock = None /\ excs = 0 => \A l \in Loops : loop[l] \notin {"exiting", "gone"} =>
    (status = "RUNNING" => ~isSet[l]) /\ (status = "PAUSED" => isSet[l])
=============================================================================
