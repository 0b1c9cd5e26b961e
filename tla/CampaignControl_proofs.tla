----------------------- MODULE CampaignControl_proofs -----------------------
(***************************************************************************)
(* That a campaign has one loop, that a pause holds, and that the pause    *)
(* Event and the status column agree, for any number of requests, loops    *)
(* and database errors.                                                    *)
(***************************************************************************)
EXTENDS CampaignControl, TLAPS

\* A request between its read and its write has the scheduler's lock.
LockOwned == \A r \in Requests :
  req[r] \in {"pauseWrite", "resumeWrite", "resumeSignal"} => lock = r

\* A loop that got past its first line holds its own Event.
HeldOwn == \A l \in Loops : loop[l] \notin {"starting", "gone"} => held[l] = l

\* A pause at work has set the Event of the loop there is ...
Flagged == \A r \in Requests : req[r] = "pauseWrite" =>
             \A l \in Loops : Alive(l) => isSet[l]

\* ... and nothing clears it until a resume is at work.
ResumeMarked == \A r \in Requests : req[r] = "resumeSignal" => resumed

Halted == ~resumed => \A l \in Loops :
  Alive(l) => isSet[l] /\ (loop[l] = "dispatching" => late = 0)

IInv == /\ TypeOK /\ OneLoop /\ LockOwned /\ HeldOwn
        /\ Flagged /\ ResumeMarked /\ Halted /\ PauseHolds

USE ControlAssumption DEF None

LEMMA InitInv == Init => IInv
  BY DEF Init, IInv, TypeOK, OneLoop, LockOwned, HeldOwn, Flagged, ResumeMarked,
         Halted, PauseHolds, Alive, Statuses, LoopLabels, ReqLabels

USE DEF IInv, TypeOK, OneLoop, LockOwned, HeldOwn, Flagged, ResumeMarked, Halted,
        PauseHolds, Alive, Statuses, LoopLabels, ReqLabels

-----------------------------------------------------------------------------
\* A service's check changes nothing but where the request is.
LEMMA ServiceInv ==
  ASSUME IInv, NEW r \in Requests, ServiceStart(r) \/ ServicePause(r) \/ ServiceResume(r)
  PROVE  IInv'
  BY DEF ServiceStart, ServicePause, ServiceResume, GotoReq

\* A new loop is the only one: the scheduler starts it when it finds none
\* alive under the campaign's id, and no loop lives outside of it.
LEMMA SpawnAlone ==
  ASSUME IInv, NEW l \in Loops, ~IsRunning, Spawn(l)
  PROVE  /\ active' = l /\ isSet' = [isSet EXCEPT ![l] = FALSE]
         /\ loop' = [loop EXCEPT ![l] = "starting"]
         /\ \A u \in Loops : ~Alive(u)
  BY DEF Spawn, IsRunning

LEMMA StartInv ==
  ASSUME IInv, NEW r \in Requests, NEW l \in Loops, Start(r, l)
  PROVE  IInv'
<1>1. CASE ~IsRunning /\ status \in {"IDLE", "RUNNING", "PAUSED"}
  <2>1. Spawn(l) /\ status' = "RUNNING" /\ resumed' = TRUE
    BY <1>1 DEF Start
  <2>2. \A q \in Requests : req'[q] \notin {"pauseWrite", "resumeWrite", "resumeSignal"}
    BY DEF Start, GotoReq
  <2>3. /\ req' \in [Requests -> ReqLabels]
        /\ UNCHANGED <<held, seen, lock, late, excs>>
    BY DEF Start, GotoReq
  <2>4. /\ active' = l /\ isSet' = [isSet EXCEPT ![l] = FALSE]
        /\ loop' = [loop EXCEPT ![l] = "starting"]
        /\ \A u \in Loops : loop[u] = "gone"
    BY <1>1, <2>1, SpawnAlone
  <2> QED BY <2>1, <2>2, <2>3, <2>4
<1>2. CASE ~(~IsRunning /\ status \in {"IDLE", "RUNNING", "PAUSED"})
  BY <1>2 DEF Start, GotoReq
<1> QED BY <1>1, <1>2

LEMMA PauseReadInv ==
  ASSUME IInv, NEW r \in Requests, PauseRead(r)
  PROVE  IInv'
  BY DEF PauseRead, GotoReq

\* The Event was set under the same hold of the lock, so every loop there is
\* by now stops at its next check.
LEMMA PauseWriteInv ==
  ASSUME IInv, NEW r \in Requests, PauseWrite(r)
  PROVE  IInv'
<1>1. \A l \in Loops : Alive(l) => isSet[l]
  BY DEF PauseWrite, GotoReq
<1>2. \A q \in Requests : req'[q] \notin {"pauseWrite", "resumeWrite", "resumeSignal"}
  BY DEF PauseWrite, GotoReq
<1>3. /\ req' \in [Requests -> ReqLabels] /\ lock' = None
      /\ status' \in Statuses /\ resumed' = FALSE
      /\ UNCHANGED <<active, isSet, held, loop, seen, excs>>
  BY DEF PauseWrite, GotoReq
<1>4. late' \in 0..1 /\ \A l \in Loops : loop[l] = "dispatching" => late' = 0
  <2>1. CASE resumed
    BY <2>1 DEF PauseWrite
  <2>2. CASE ~resumed
    <3>1. late' = late /\ late \in 0..1
      BY <2>2 DEF PauseWrite
    <3> QED BY <2>2, <3>1
  <2> QED BY <2>1, <2>2
<1>5. TypeOK'
  <2>1. late' \in 0..2
    BY <1>4
  <2>2. /\ active' \in Loops \cup {None} /\ isSet' \in [Loops -> BOOLEAN]
        /\ held' \in [Loops -> Loops \cup {None}] /\ loop' \in [Loops -> LoopLabels]
        /\ seen' \in [Requests -> Statuses] /\ excs' \in 0..MaxExceptions
    BY <1>3
  <2>3. resumed' \in BOOLEAN
    BY <1>3, Zenon
  <2> QED BY <1>3, <2>1, <2>2, <2>3
<1>6. Halted' /\ PauseHolds'
  <2>1. \A l \in Loops : loop'[l] # "gone" => isSet'[l]
    BY <1>1, <1>3
  <2> QED BY <2>1, <1>3, <1>4
<1>7. (OneLoop /\ LockOwned /\ HeldOwn /\ Flagged /\ ResumeMarked)'
  BY <1>2, <1>3
<1> QED BY <1>5, <1>6, <1>7

LEMMA ResumeReadInv ==
  ASSUME IInv, NEW r \in Requests, ResumeRead(r)
  PROVE  IInv'
  BY DEF ResumeRead, GotoReq

LEMMA ResumeWriteInv ==
  ASSUME IInv, NEW r \in Requests, ResumeWrite(r)
  PROVE  IInv'
  BY DEF ResumeWrite, GotoReq

LEMMA ResumeSignalInv ==
  ASSUME IInv, NEW r \in Requests, NEW l \in Loops, ResumeSignal(r, l)
  PROVE  IInv'
<1>1. CASE IsRunning
  <2>1. isSet' = [isSet EXCEPT ![active] = FALSE] /\ UNCHANGED <<active, loop>>
    BY <1>1 DEF ResumeSignal
  <2>2. resumed /\ \A q \in Requests : req[q] # "pauseWrite"
    BY DEF ResumeSignal, GotoReq
  <2>3. /\ req[r] = "resumeSignal" /\ req' = [req EXCEPT ![r] = "idle"] /\ lock' = None
        /\ UNCHANGED <<status, held, seen, resumed, late, excs>>
    BY DEF ResumeSignal, GotoReq
  <2>4. TypeOK' /\ OneLoop' /\ HeldOwn'
    BY <2>1, <2>3
  <2>5. \A q \in Requests \ {r} : req[q] \notin {"pauseWrite", "resumeWrite", "resumeSignal"}
    BY <2>3
  <2>6. LockOwned' /\ ResumeMarked' /\ Flagged'
    BY <2>3, <2>5
  <2> QED BY <2>2, <2>3, <2>4, <2>6
<1>2. CASE ~IsRunning
  <2>1. Spawn(l)
    BY <1>2 DEF ResumeSignal
  <2>2. resumed /\ \A q \in Requests : req[q] # "pauseWrite"
    BY DEF ResumeSignal, GotoReq
  <2>3. \A q \in Requests : req'[q] \notin {"pauseWrite", "resumeWrite", "resumeSignal"}
    BY DEF ResumeSignal, GotoReq
  <2>4. /\ req' \in [Requests -> ReqLabels] /\ lock' = None
        /\ UNCHANGED <<status, held, seen, resumed, late, excs>>
    BY DEF ResumeSignal, GotoReq
  <2>5. /\ active' = l /\ isSet' = [isSet EXCEPT ![l] = FALSE]
        /\ loop' = [loop EXCEPT ![l] = "starting"]
        /\ \A u \in Loops : loop[u] = "gone"
    BY <1>2, <2>1, SpawnAlone
  <2> QED BY <2>2, <2>3, <2>4, <2>5
<1> QED BY <1>1, <1>2

LEMMA RequestRaisesInv ==
  ASSUME IInv, NEW r \in Requests, RequestRaises(r)
  PROVE  IInv'
  BY DEF RequestRaises

-----------------------------------------------------------------------------
LEMMA LoopStartsInv ==
  ASSUME IInv, NEW l \in Loops, LoopStarts(l)
  PROVE  IInv'
  BY DEF LoopStarts, GotoLoop

\* What the loop decides, whatever it decides, leaves the Event, the register
\* and the requests alone.
LEMMA DecideInv ==
  ASSUME IInv, NEW l \in Loops,
         \/ MaxCountReached(l) \/ ReadStatus(l) \/ Complete(l) \/ Fail(l)
         \/ StallPause(l) \/ Skip(l)
  PROVE  IInv'
<1>1. PICK label \in {"top", "deciding", "finishing", "exiting"} :
        loop' = [loop EXCEPT ![l] = label] /\ loop[l] \in {"top", "deciding", "finishing"}
  BY DEF MaxCountReached, ReadStatus, Complete, Fail, StallPause, Skip, GotoLoop
<1>2. status' \in Statuses /\ LoopUnchanged /\ UNCHANGED late
  BY DEF MaxCountReached, ReadStatus, Complete, Fail, StallPause, Skip
<1> QED BY <1>1, <1>2 DEF LoopUnchanged

\* With the campaign paused the loop's own Event is set, so it turns back.
LEMMA DispatchInv ==
  ASSUME IInv, NEW l \in Loops, Dispatch(l)
  PROVE  IInv'
<1>1. ~resumed => Paused(l)
  BY DEF Dispatch, GotoLoop, Paused
<1> QED BY <1>1 DEF Dispatch, GotoLoop, LoopUnchanged

\* Only one loop can be in a dispatch, so the pause lets one through.
LEMMA DispatchedInv ==
  ASSUME IInv, NEW l \in Loops, Dispatched(l)
  PROVE  IInv'
<1>1. \A u \in Loops \ {l} : ~Alive(u)
  BY DEF Dispatched, GotoLoop
<1> QED BY <1>1 DEF Dispatched, GotoLoop, LoopUnchanged

LEMMA LoopExitsInv ==
  ASSUME IInv, NEW l \in Loops, LoopExits(l)
  PROVE  IInv'
  BY DEF LoopExits, GotoLoop

LEMMA LoopDiesInv ==
  ASSUME IInv, NEW l \in Loops, LoopDies(l)
  PROVE  IInv'
  BY DEF LoopDies

LEMMA RestartInv == IInv /\ Restart => IInv'
  BY DEF Restart

LEMMA StepInv == IInv /\ [Next]_vars => IInv'
<1> SUFFICES ASSUME IInv, [Next]_vars PROVE IInv'
  OBVIOUS
<1>1. ASSUME NEW r \in Requests, RequestStep(r) PROVE IInv'
  BY <1>1, ServiceInv, StartInv, PauseReadInv, PauseWriteInv, ResumeReadInv,
     ResumeWriteInv, ResumeSignalInv, RequestRaisesInv DEF RequestStep
<1>2. ASSUME NEW l \in Loops, LoopStep(l) PROVE IInv'
  BY <1>2, LoopStartsInv, DecideInv, DispatchInv, DispatchedInv, LoopExitsInv,
     LoopDiesInv DEF LoopStep
<1>3. CASE UNCHANGED vars
  BY <1>3 DEF vars
<1> QED BY <1>1, <1>2, <1>3, RestartInv DEF Next

\* Requests, loops, database errors and restarts keep the state well typed; in
\* particular no step leaves a campaign in a status the code has no case for.
THEOREM TypeCorrect == Spec => []TypeOK
<1>1. IInv => TypeOK
  OBVIOUS
<1> HIDE DEF IInv, TypeOK
<1> QED BY <1>1, InitInv, StepInv, PTL DEF Spec

\* A campaign never has two loops, and the one it has is registered, where
\* pause_campaign and resume_campaign find it.
THEOREM CampaignHasOneLoop == Spec => []OneLoop
<1>1. IInv => OneLoop
  OBVIOUS
<1> HIDE DEF IInv, OneLoop
<1> QED BY <1>1, InitInv, StepInv, PTL DEF Spec

\* After pause_campaign has returned, at most one dispatch goes through until
\* the campaign is started or resumed.
THEOREM PauseStops == Spec => []PauseHolds
<1>1. IInv => PauseHolds
  OBVIOUS
<1> HIDE DEF IInv, PauseHolds
<1> QED BY <1>1, InitInv, StepInv, PTL DEF Spec

-----------------------------------------------------------------------------
(***************************************************************************)
(* The Event and the status column.  A request with the lock finds the     *)
(* status it read unless the loop has written its last status since, and   *)
(* then that loop is on its way out: it cannot leave before the request    *)
(* gives up the lock.                                                      *)
(***************************************************************************)
Going(l) == loop[l] \notin {"exiting", "gone"}
NoneExiting == \A l \in Loops : loop[l] # "exiting"

Unwritten == \A r \in Requests :
  req[r] \in {"pauseWrite", "resumeWrite"} /\ NoneExiting => status = seen[r]

\* A resume signals the loop after its write.
Written == \A r \in Requests :
  req[r] = "resumeSignal" /\ NoneExiting => status # "PAUSED"

\* Only a pause before its write, or a resume after it, has them differ.
Matching ==
  (\A r \in Requests : req[r] \notin {"pauseWrite", "resumeSignal"}) =>
    \A l \in Loops : Going(l) =>
      (status = "RUNNING" => ~isSet[l]) /\ (status = "PAUSED" => isSet[l])

Agreed == excs = 0 => Unwritten /\ Written /\ Matching

USE DEF Agreed, Unwritten, Written, Matching, Going, NoneExiting

LEMMA RequestAgreed ==
  ASSUME IInv, Agreed, NEW r \in Requests, RequestStep(r)
  PROVE  Agreed'
<1>1. CASE ServiceStart(r) \/ ServicePause(r) \/ ServiceResume(r)
  BY <1>1 DEF ServiceStart, ServicePause, ServiceResume, GotoReq
<1>2. ASSUME NEW l \in Loops, Start(r, l) PROVE Agreed'
  <2>1. CASE ~IsRunning /\ status \in {"IDLE", "RUNNING", "PAUSED"}
    <3>1. Spawn(l) /\ status' = "RUNNING"
      BY <1>2, <2>1 DEF Start
    <3>2. /\ isSet' = [isSet EXCEPT ![l] = FALSE] /\ loop' = [loop EXCEPT ![l] = "starting"]
          /\ \A u \in Loops : loop[u] = "gone"
      BY <2>1, <3>1, SpawnAlone
    <3>3. \A q \in Requests : req'[q] \notin {"pauseWrite", "resumeWrite", "resumeSignal"}
      BY <1>2 DEF Start, GotoReq
    <3> QED BY <3>1, <3>2, <3>3
  <2>2. CASE ~(~IsRunning /\ status \in {"IDLE", "RUNNING", "PAUSED"})
    BY <1>2, <2>2 DEF Start, GotoReq
  <2> QED BY <2>1, <2>2
<1>3. CASE PauseRead(r)
  BY <1>3 DEF PauseRead, GotoReq
<1>4. CASE PauseWrite(r)
  <2>1. \A q \in Requests : req'[q] \notin {"pauseWrite", "resumeWrite", "resumeSignal"}
    BY <1>4 DEF PauseWrite, GotoReq
  <2>2. \A l \in Loops : Alive(l) => isSet[l] /\ isSet'[l]
    BY <1>4 DEF PauseWrite, GotoReq
  <2>3. ASSUME excs = 0, NEW l \in Loops, loop[l] \notin {"exiting", "gone"}
        PROVE  status' # "RUNNING"
    <3>1. NoneExiting
      BY <2>3
    <3>2. status = seen[r]
      BY <1>4, <2>3, <3>1 DEF PauseWrite, GotoReq
    <3> QED BY <1>4, <3>2 DEF PauseWrite
  <2>4. loop' = loop /\ excs' = excs
    BY <1>4 DEF PauseWrite
  <2> QED BY <2>1, <2>2, <2>3, <2>4
<1>5. CASE ResumeRead(r)
  BY <1>5 DEF ResumeRead, GotoReq
<1>6. CASE ResumeWrite(r)
  <2>1. \A q \in Requests : req'[q] \notin {"pauseWrite", "resumeWrite"}
    BY <1>6 DEF ResumeWrite, GotoReq
  <2>2. excs = 0 /\ NoneExiting => status' # "PAUSED"
    BY <1>6 DEF ResumeWrite, GotoReq
  <2>3. loop' = loop /\ excs' = excs /\ req'[r] = "resumeSignal"
    BY <1>6 DEF ResumeWrite, GotoReq
  <2> QED BY <2>1, <2>2, <2>3
<1>7. ASSUME NEW l \in Loops, ResumeSignal(r, l) PROVE Agreed'
  <2>1. \A q \in Requests : req'[q] \notin {"pauseWrite", "resumeWrite", "resumeSignal"}
    BY <1>7 DEF ResumeSignal, GotoReq
  <2>2. excs' = excs /\ status' = status /\ (excs = 0 /\ NoneExiting => status # "PAUSED")
    BY <1>7 DEF ResumeSignal, GotoReq
  <2>3. CASE IsRunning
    <3>1. isSet' = [isSet EXCEPT ![active] = FALSE] /\ loop' = loop
      BY <1>7, <2>3 DEF ResumeSignal
    <3>2. \A u \in Loops : Going(u) => NoneExiting /\ ~isSet'[u]
      BY <3>1
    <3> QED BY <2>1, <2>2, <3>1, <3>2
  <2>4. CASE ~IsRunning
    <3>1. /\ isSet' = [isSet EXCEPT ![l] = FALSE] /\ loop' = [loop EXCEPT ![l] = "starting"]
          /\ \A u \in Loops : loop[u] = "gone"
      BY <1>7, <2>4, SpawnAlone DEF ResumeSignal
    <3> QED BY <2>1, <2>2, <3>1
  <2> QED BY <2>3, <2>4
<1>8. CASE RequestRaises(r)
  <2>1. excs' # 0
    BY <1>8 DEF RequestRaises
  <2> QED BY <2>1
<1> QED BY <1>1, <1>2, <1>3, <1>4, <1>5, <1>6, <1>7, <1>8 DEF RequestStep

\* A loop that writes the status goes no further than to its exit, and no other
\* loop has anything to disagree with.
LEMMA LoopAgreed ==
  ASSUME IInv, Agreed, NEW l \in Loops, LoopStep(l)
  PROVE  Agreed'
<1>1. \A u \in Loops \ {l} : loop[l] # "gone" => loop[u] = "gone"
  OBVIOUS
<1>2. CASE Complete(l) \/ Fail(l) \/ StallPause(l)
  <2>1. /\ loop' = [loop EXCEPT ![l] = "exiting"] /\ loop[l] # "gone"
        /\ req' = req /\ isSet' = isSet
    BY <1>2 DEF Complete, Fail, StallPause, GotoLoop, LoopUnchanged
  <2> QED BY <1>1, <2>1
<1>3. CASE MaxCountReached(l) \/ ReadStatus(l) \/ Skip(l) \/ Dispatch(l) \/ Dispatched(l)
           \/ LoopStarts(l)
  <2>1. PICK label \in LoopLabels \ {"gone"} :
          loop' = [loop EXCEPT ![l] = label] /\ loop[l] \notin {"exiting", "gone"}
    BY <1>3 DEF MaxCountReached, ReadStatus, Skip, Dispatch, Dispatched, LoopStarts, GotoLoop
  <2>2. UNCHANGED <<status, isSet, req, seen, excs>>
    BY <1>3 DEF MaxCountReached, ReadStatus, Skip, Dispatch, Dispatched, LoopStarts,
                LoopUnchanged
  <2> QED BY <1>1, <2>1, <2>2
<1>4. CASE LoopExits(l)
  <2>1. \A q \in Requests : req[q] \notin {"pauseWrite", "resumeWrite", "resumeSignal"}
    BY <1>4 DEF LoopExits
  <2> QED BY <1>4, <2>1 DEF LoopExits, GotoLoop
<1>5. CASE LoopDies(l)
  <2>1. excs' # 0
    BY <1>5 DEF LoopDies
  <2> QED BY <2>1
<1> QED BY <1>2, <1>3, <1>4, <1>5 DEF LoopStep

\* As long as the database does not fail, the pause Event in memory and the
\* status column agree between two requests, for every loop that runs on.
THEOREM FlagAgrees == Spec => []FlagMatchesStatus
<1>1. Init => Agreed
  BY DEF Init
<1>2. IInv /\ Agreed /\ [Next]_vars => Agreed'
  <2> SUFFICES ASSUME IInv, Agreed, [Next]_vars PROVE Agreed'
    OBVIOUS
  <2>1. CASE Restart
    BY <2>1 DEF Restart
  <2>2. CASE UNCHANGED vars
    BY <2>2 DEF vars
  <2> QED BY <2>1, <2>2, RequestAgreed, LoopAgreed DEF Next
<1>3. IInv /\ Agreed => FlagMatchesStatus
  BY DEF FlagMatchesStatus
<1> HIDE DEF IInv, Agreed, FlagMatchesStatus
<1> QED BY <1>1, <1>2, <1>3, InitInv, StepInv, PTL DEF Spec
=============================================================================
