------------------------ MODULE SenderSessions_proofs -------------------------
(***************************************************************************)
(* Sender rows and browser profiles, for any numbers, placeholders,        *)
(* temporary sessions, requests, faults and crashes: what a profile is     *)
(* logged in to, that a row has its profile, and that a temporary session  *)
(* leaves none.                                                            *)
(***************************************************************************)
EXTENDS SenderSessions, TLAPS

\* What a request is to write back is a row of a sender, and one that is there.
HeldIsRow == \A r \in Requests :
  /\ req[r].pc # "idle" => req[r].id \in Ids
  /\ req[r].pc \in {"probing", "saving", "using"} => req[r].id \in Senders
  /\ req[r].pc = "saving" => req[r].status # "ABSENT"
  /\ req[r].pc = "using"  => req[r].seen.status # "ABSENT"

\* A thread that is to persist a sender knows its number.
FoundIsNumber == \A s \in Ids :
  auth[s].at \in {"persisting", "failed", "renamed"} => auth[s].found \in Phones

IInv == TypeOK /\ HeldIsRow /\ FoundIsNumber

USE SenderAssumption DEF None, Blank

-----------------------------------------------------------------------------
(* What the ways to write a row keep.                                        *)
RowsOK == row \in [Senders -> Rows]

LEMMA SaveKeeps ==
  ASSUME RowsOK, NEW s \in Senders, NEW r \in Rows, Save(s, r)
  PROVE  RowsOK'
  BY DEF Save, RowsOK

LEMMA StatusKeeps ==
  ASSUME RowsOK, NEW s \in Ids, NEW status \in Statuses,
         SetStatus(s, status) \/ UNCHANGED row
  PROVE  RowsOK'
  BY DEF SetStatus, RowsOK, Rows

\* The rest of the state, part by part.
AuthOK == auth \in [Ids -> Threads] /\ FoundIsNumber
ReqOK  == req \in [Requests -> Locals] /\ HeldIsRow
DiskOK == /\ profile \in [Ids -> Phones \cup {None, Blank}] /\ known \in SUBSET Ids
          /\ ghost \in [strayed : SUBSET Ids, mislabelled : SUBSET Senders,
                        unbacked : SUBSET Phones, left : SUBSET Temps, mute : SUBSET Ids]
CountOK == faults \in 0..MaxFaults /\ crashes \in 0..MaxCrashes /\ calls \in 0..MaxCalls

LEMMA Parts == IInv <=> RowsOK /\ AuthOK /\ ReqOK /\ DiskOK /\ CountOK
  BY DEF IInv, TypeOK, RowsOK, AuthOK, ReqOK, DiskOK, CountOK

LEMMA PartsNext == RowsOK' /\ AuthOK' /\ ReqOK' /\ DiskOK' /\ CountOK' => IInv'
  BY DEF IInv, TypeOK, RowsOK, AuthOK, ReqOK, DiskOK, CountOK

LEMMA RowsSame == RowsOK /\ UNCHANGED row => RowsOK'
  BY DEF RowsOK

LEMMA AuthSame == AuthOK /\ UNCHANGED auth => AuthOK'
  BY DEF AuthOK, FoundIsNumber

LEMMA ReqSame == ReqOK /\ UNCHANGED req => ReqOK'
  BY DEF ReqOK, HeldIsRow

LEMMA DiskSame == DiskOK /\ UNCHANGED <<profile, known, ghost>> => DiskOK'
  BY DEF DiskOK

\* A thread that goes on, or ends, keeps the number it has found.
LEMMA GotoKeeps ==
  ASSUME AuthOK, NEW s \in Ids, NEW stage \in Stages, Goto(s, stage),
         stage \in {"persisting", "failed", "renamed"} =>
           auth[s].at \in {"persisting", "failed", "renamed"}
  PROVE  AuthOK'
<1>1. auth' = [auth EXCEPT ![s] = [@ EXCEPT !.at = stage]]
  BY DEF Goto
<1>2. auth' \in [Ids -> Threads]
  BY <1>1 DEF AuthOK, Threads
<1> QED BY <1>1, <1>2 DEF AuthOK, FoundIsNumber, Threads

LEMMA DiesKeeps ==
  ASSUME AuthOK, NEW s \in Ids, Dies(s)
  PROVE  AuthOK'
  BY DEF AuthOK, FoundIsNumber, Dies, NoThread, Threads, Stages

LEMMA ReturnKeeps ==
  ASSUME ReqOK, NEW r \in Requests, Return(r)
  PROVE  ReqOK'
  BY DEF ReqOK, HeldIsRow, Return, Idle, NoRow, Fresh, Spellings, Locals, Labels, Rows, Statuses

\* A request that begins with the row it has read.
LEMMA DoingKeeps ==
  ASSUME ReqOK, NEW r \in Requests, NEW label \in {"starting", "probing", "using"},
         NEW s \in Ids, NEW seen \in Rows,
         label # "starting" => s \in Senders /\ seen.status # "ABSENT",
         req' = [req EXCEPT ![r] = Doing(label, s, seen)]
  PROVE  ReqOK'
  BY DEF ReqOK, HeldIsRow, Doing, Locals, Labels, Statuses

LEMMA CallCounts == CountOK /\ Call /\ UNCHANGED <<faults, crashes>> => CountOK'
  BY DEF CountOK, Call

LEMMA FaultCounts ==
  CountOK /\ faults < MaxFaults /\ faults' = faults + 1 /\ UNCHANGED <<crashes, calls>> => CountOK'
  BY DEF CountOK

LEMMA CountSame == CountOK /\ UNCHANGED <<faults, crashes, calls>> => CountOK'
  BY DEF CountOK

-----------------------------------------------------------------------------
(* Operators.                                                                *)
LEMMA ConfigureInv ==
  ASSUME IInv, ConfigureSessions
  PROVE  IInv'
<1>1. RowsOK'
  BY DEF ConfigureSessions, IInv, TypeOK, RowsOK, Rows, Fresh, Spellings, Statuses
<1>2. DiskOK'
  BY DEF ConfigureSessions, IInv, TypeOK, DiskOK, Senders, Ids
<1> QED BY <1>1, <1>2, Parts, PartsNext, AuthSame, ReqSame, CallCounts DEF ConfigureSessions

LEMMA CreateInv ==
  ASSUME IInv, NEW s \in Senders, NEW i \in Typed, CreateSender(s, i)
  PROVE  IInv'
<1>1. i \in Identities
  OBVIOUS
<1>2. RowsOK'
  BY <1>1 DEF CreateSender, IInv, TypeOK, RowsOK, Rows, Statuses, Identities
<1>3. DiskOK'
  BY DEF CreateSender, IInv, TypeOK, DiskOK
<1> QED BY <1>2, <1>3, Parts, PartsNext, AuthSame, ReqSame, CallCounts DEF CreateSender

LEMMA AddInv ==
  ASSUME IInv, NEW t \in Temps, AddSession(t)
  PROVE  IInv'
<1>1. DiskOK'
  BY DEF AddSession, IInv, TypeOK, DiskOK, Ids
<1> QED BY <1>1, Parts, PartsNext, RowsSame, AuthSame, ReqSame, CallCounts DEF AddSession

LEMMA UpdateInv ==
  ASSUME IInv, NEW s \in Senders, NEW status \in {"ACTIVE", "INACTIVE"}, UpdateStatus(s, status)
  PROVE  IInv'
<1>1. RowsOK'
  <2>1. SetStatus(s, status) /\ status \in Statuses /\ s \in Ids
    BY DEF UpdateStatus, Statuses, Ids
  <2> QED BY <2>1, StatusKeeps, Parts
<1>2. DiskOK'
  BY DEF UpdateStatus, IInv, TypeOK, DiskOK, Ids
<1> QED BY <1>1, <1>2, Parts, PartsNext, AuthSame, ReqSame, CallCounts DEF UpdateStatus

-----------------------------------------------------------------------------
(* Requests.                                                                 *)
LEMMA RequestInv ==
  ASSUME IInv, NEW r \in Requests, NEW s \in Ids, RequestAuthentication(r, s)
  PROVE  IInv'
<1>1. RowsOK'
  <2>1. SetStatus(s, "AUTHENTICATING") /\ "AUTHENTICATING" \in Statuses
    BY DEF RequestAuthentication, Statuses
  <2> QED BY <2>1, StatusKeeps, Parts
<1>2. ReqOK'
  <2> DEFINE seen == IF s \in Senders THEN row[s] ELSE NoRow
  <2>1. seen \in Rows
    BY DEF IInv, TypeOK, NoRow, Fresh, Spellings, Rows, Statuses
  <2>2. req' = [req EXCEPT ![r] = Doing("starting", s, seen)]
    BY DEF RequestAuthentication
  <2> HIDE DEF seen
  <2> QED BY <2>1, <2>2, DoingKeeps, Parts
<1> QED BY <1>1, <1>2, Parts, PartsNext, AuthSame, DiskSame, CallCounts DEF RequestAuthentication

LEMMA StartInv ==
  ASSUME IInv, NEW r \in Requests, StartQrAuthentication(r)
  PROVE  IInv'
<1>1. ReqOK' /\ CountOK'
  BY Parts, ReturnKeeps, CountSame DEF StartQrAuthentication
<1>2. CASE Running(req[r].id)
  BY <1>1, <1>2, Parts, PartsNext, RowsSame, AuthSame, DiskSame DEF StartQrAuthentication
<1>3. CASE ~Running(req[r].id) /\ req[r].id \in Ids
  <2>1. RowsOK'
    <3>1. Callback(req[r].id, "AUTHENTICATING") /\ "AUTHENTICATING" \in Statuses
      BY <1>3 DEF StartQrAuthentication, Statuses
    <3> QED BY <3>1, <1>3, StatusKeeps, Parts DEF Callback
  <2>2. AuthOK'
    <3> DEFINE s   == req[r].id
               new == [at |-> "launching", expect |-> req[r].seen.number, found |-> None]
    <3>1. AuthOK
      BY Parts
    <3>2. req[r].seen.number \in Phones \cup {None}
      BY DEF IInv, TypeOK, Locals, Rows
    <3>3. new \in Threads /\ new.at = "launching"
      BY <3>2 DEF Threads, Stages
    <3>4. s \in Ids /\ auth' = [auth EXCEPT ![s] = new]
      BY <1>3 DEF StartQrAuthentication
    <3> HIDE DEF s, new
    <3> QED BY <3>1, <3>3, <3>4 DEF AuthOK, FoundIsNumber
  <2>3. DiskOK'
    BY <1>3 DEF StartQrAuthentication, IInv, TypeOK, DiskOK
  <2> QED BY <1>1, <2>1, <2>2, <2>3, PartsNext
<1>4. req[r].id \in Ids
  BY DEF StartQrAuthentication, IInv, HeldIsRow
<1> QED BY <1>2, <1>3, <1>4

-----------------------------------------------------------------------------
(* Threads.                                                                  *)
LEMMA LaunchInv ==
  ASSUME IInv, NEW s \in Ids, LaunchBrowser(s)
  PROVE  IInv'
<1>1. DiskOK'
  BY DEF LaunchBrowser, Opened, IInv, TypeOK, DiskOK
<1>2. AuthOK'
  BY GotoKeeps, Parts DEF LaunchBrowser, Stages
<1> QED BY <1>1, <1>2, Parts, PartsNext, RowsSame, ReqSame, CountSame DEF LaunchBrowser

LEMMA OpenFailsInv ==
  ASSUME IInv, NEW s \in Ids, OpenFails(s)
  PROVE  IInv'
<1>1. DiskOK'
  BY DEF OpenFails, Opened, IInv, TypeOK, DiskOK
<1>2. AuthOK'
  BY DiesKeeps, Parts DEF OpenFails
<1> QED BY <1>1, <1>2, Parts, PartsNext, RowsSame, ReqSame, FaultCounts DEF OpenFails

LEMMA ShowInv ==
  ASSUME IInv, NEW s \in Ids, ShowQrCode(s)
  PROVE  IInv'
<1>1. RowsOK'
  BY StatusKeeps, Parts DEF ShowQrCode, Callback, Statuses
<1>2. AuthOK'
  BY GotoKeeps, Parts DEF ShowQrCode, Stages
<1>3. DiskOK'
  BY DEF ShowQrCode, IInv, TypeOK, DiskOK
<1> QED BY <1>1, <1>2, <1>3, Parts, PartsNext, ReqSame, CountSame DEF ShowQrCode

LEMMA PhoneInv ==
  ASSUME IInv, NEW s \in Ids, PhoneStep(s)
  PROVE  IInv'
<1>1. DiskOK'
  BY DEF PhoneStep, Scan, LogOut, IInv, TypeOK, DiskOK
<1>2. CountOK'
  BY Parts, CountSame, CallCounts DEF PhoneStep, Scan, LogOut
<1> QED BY <1>1, <1>2, Parts, PartsNext, RowsSame, AuthSame, ReqSame
       DEF PhoneStep, Scan, LogOut

\* What a verdict and the removal of a directory keep.
LEMMA VerdictKeeps ==
  ASSUME IInv, NEW s \in Ids, NEW status \in Statuses, Verdict(s, status)
  PROVE  /\ RowsOK'
         /\ UNCHANGED profile /\ (known' = known \cup {s} \/ UNCHANGED known) => DiskOK'
<1>1. RowsOK'
  BY StatusKeeps, Parts DEF Verdict
<1>2. ghost' = ghost \/ ghost' = [ghost EXCEPT !.mute = @ \cup {s}]
  BY DEF Verdict
<1> QED BY <1>1, <1>2 DEF IInv, TypeOK, DiskOK

LEMMA RemoveKeeps ==
  ASSUME IInv, NEW s \in Temps, NEW lost \in SUBSET Phones, RemoveDir(s, lost),
         known' = known \ {s}
  PROVE  DiskOK'
<1>1. CASE profile' = [profile EXCEPT ![s] = None]
           /\ ghost' = [ghost EXCEPT !.left = @ \ {s}, !.unbacked = @ \cup lost]
  BY <1>1 DEF IInv, TypeOK, DiskOK
<1>2. CASE UNCHANGED profile /\ ghost' = [ghost EXCEPT !.left = @ \cup {s}]
  BY <1>2 DEF IInv, TypeOK, DiskOK
<1> QED BY <1>1, <1>2 DEF RemoveDir

\* However a thread ends that has nothing to persist, it keeps what there is.
LEMMA EndsKeeps ==
  ASSUME IInv, NEW s \in Ids, NEW status \in Statuses, Ends(s, status)
  PROVE  RowsOK' /\ AuthOK' /\ DiskOK'
<1>1. CASE s \in Temps
  BY <1>1, RemoveKeeps, DiesKeeps, RowsSame, Parts DEF Ends
<1>2. CASE s \notin Temps
  BY <1>2, VerdictKeeps, GotoKeeps, Parts DEF Ends, Stages
<1> QED BY <1>1, <1>2

LEMMA VerdictInv ==
  ASSUME IInv, NEW s \in Ids, AuthenticationFails(s) \/ QrTimeout(s) \/ Reject(s)
  PROVE  IInv'
<1>1. PICK status \in {"ERROR", "AUTH_REQUIRED"} : Ends(s, status)
  BY DEF AuthenticationFails, QrTimeout, Reject
<1>2. UNCHANGED req /\ CountOK'
  BY Parts, FaultCounts, CountSame DEF AuthenticationFails, QrTimeout, Reject
<1>3. RowsOK' /\ AuthOK' /\ DiskOK'
  BY <1>1, EndsKeeps DEF Statuses
<1> QED BY <1>2, <1>3, Parts, PartsNext, ReqSame

LEMMA ReuseInv ==
  ASSUME IInv, NEW s \in Ids, Reuse(s)
  PROVE  IInv'
<1>1. RowsOK' /\ DiskOK'
  BY VerdictKeeps DEF Reuse, Statuses
<1>2. AuthOK'
  BY GotoKeeps, Parts DEF Reuse, Stages
<1> QED BY <1>1, <1>2, Parts, PartsNext, ReqSame, CountSame DEF Reuse

LEMMA ResolveInv ==
  ASSUME IInv, NEW s \in Ids, ResolveNew(s)
  PROVE  IInv'
<1>1. auth' = [auth EXCEPT ![s] = [@ EXCEPT !.at = "persisting", !.found = profile[s]]]
  BY DEF ResolveNew
<1>2. profile[s] \in Phones /\ auth \in [Ids -> Threads] /\ FoundIsNumber
  BY DEF ResolveNew, Detects, LoggedIn, IInv, TypeOK
<1>3. auth' \in [Ids -> Threads]
  BY <1>1, <1>2 DEF Threads, Stages
<1>4. FoundIsNumber'
  BY <1>1, <1>2 DEF FoundIsNumber, Threads
<1> QED BY <1>3, <1>4, Parts, PartsNext, RowsSame, ReqSame, DiskSame, CountSame
       DEF ResolveNew, AuthOK

LEMMA CloseRaisesInv ==
  ASSUME IInv, NEW s \in Ids, CloseRaises(s)
  PROVE  IInv'
<1>1. auth[s].found \in Phones
  BY DEF CloseRaises, IInv, FoundIsNumber
<1>2. AuthOK'
  BY GotoKeeps, Parts DEF CloseRaises, Stages
<1>3. RowsOK' /\ DiskOK'
  <2>1. CASE s \in Temps
    BY <1>1, <2>1, RemoveKeeps, RowsSame, Parts DEF CloseRaises
  <2>2. CASE s \notin Temps
    BY <2>2, VerdictKeeps DEF CloseRaises, Statuses
  <2> QED BY <2>1, <2>2
<1> QED BY <1>2, <1>3, Parts, PartsNext, ReqSame, FaultCounts DEF CloseRaises

LEMMA RenameInv ==
  ASSUME IInv, NEW s \in Ids, RenameProfile(s)
  PROVE  IInv'
<1>1. auth[s].found \in Phones /\ Phones \subseteq Senders /\ Phones \subseteq Ids
  BY DEF RenameProfile, IInv, FoundIsNumber, Senders, Ids
<1>2. known' \subseteq Ids
  BY <1>1 DEF RenameProfile, IInv, TypeOK
<1>3. profile' \in [Ids -> Phones \cup {None, Blank}]
  BY <1>1 DEF RenameProfile, IInv, TypeOK
<1>4. ghost' \in [strayed : SUBSET Ids, mislabelled : SUBSET Senders,
                 unbacked : SUBSET Phones, left : SUBSET Temps, mute : SUBSET Ids]
  <2>1. CASE UNCHANGED ghost
    BY <2>1 DEF IInv, TypeOK
  <2>2. ASSUME NEW moved \in SUBSET Senders, NEW left \in SUBSET Temps,
               ghost' = [ghost EXCEPT !.mislabelled = @ \cup moved, !.left = left]
        PROVE  ghost' \in [strayed : SUBSET Ids, mislabelled : SUBSET Senders,
                           unbacked : SUBSET Phones, left : SUBSET Temps, mute : SUBSET Ids]
    BY <2>2 DEF IInv, TypeOK
  <2>3. (IF s \in Phones THEN {auth[s].found} ELSE {}) \in SUBSET Senders
    BY <1>1
  <2>4. ghost.left \ {s} \in SUBSET Temps /\ ghost.left \cup ({s} \cap Temps) \in SUBSET Temps
    BY DEF IInv, TypeOK
  <2> QED BY <2>1, <2>2, <2>3, <2>4 DEF RenameProfile
<1>5. AuthOK'
  BY GotoKeeps, Parts DEF RenameProfile, Stages
<1> QED BY <1>2, <1>3, <1>4, <1>5, Parts, PartsNext, RowsSame, ReqSame, CountSame
       DEF RenameProfile, DiskOK

LEMMA RenameFailsInv ==
  ASSUME IInv, NEW s \in Ids, RenameFails(s)
  PROVE  IInv'
<1>1. auth[s].found \in Phones /\ Phones \subseteq Senders /\ Phones \subseteq Ids
  BY DEF RenameFails, IInv, FoundIsNumber, Senders, Ids
<1>2. DiskOK'
  <2>1. profile' \in [Ids -> Phones \cup {None, Blank}]
    BY <1>1 DEF RenameFails, IInv, TypeOK
  <2>2. ghost' \in [strayed : SUBSET Ids, mislabelled : SUBSET Senders,
                   unbacked : SUBSET Phones, left : SUBSET Temps, mute : SUBSET Ids]
    <3> DEFINE moved == IF s \in Phones THEN {auth[s].found} ELSE {}
    <3>1. ghost' = [ghost EXCEPT !.left = @ \cup ({s} \cap Temps), !.mislabelled = @ \cup moved]
      BY DEF RenameFails
    <3>2. moved \in SUBSET Senders
      BY <1>1
    <3> HIDE DEF moved
    <3> QED BY <3>1, <3>2 DEF IInv, TypeOK
  <2> QED BY <2>1, <2>2 DEF RenameFails, DiskOK, IInv, TypeOK
<1>3. AuthOK'
  BY DiesKeeps, Parts DEF RenameFails
<1> QED BY <1>2, <1>3, Parts, PartsNext, RowsSame, ReqSame, FaultCounts DEF RenameFails

LEMMA DiesInv ==
  ASSUME IInv, NEW s \in Ids, PersistFails(s) \/ BrowserCloses(s)
  PROVE  IInv'
<1>1. AuthOK'
  BY DiesKeeps, Parts DEF PersistFails, BrowserCloses
<1>2. CountOK'
  BY Parts, FaultCounts, CountSame DEF PersistFails, BrowserCloses
<1> QED BY <1>1, <1>2, Parts, PartsNext, RowsSame, ReqSame, DiskSame
       DEF PersistFails, BrowserCloses

LEMMA LateInv ==
  ASSUME IInv, NEW s \in Ids, BrowserCloseRaises(s)
  PROVE  IInv'
<1>1. RowsOK' /\ DiskOK'
  BY VerdictKeeps DEF BrowserCloseRaises, Statuses
<1>2. AuthOK'
  BY DiesKeeps, Parts DEF BrowserCloseRaises
<1> QED BY <1>1, <1>2, Parts, PartsNext, ReqSame, FaultCounts DEF BrowserCloseRaises

LEMMA PersistInv ==
  ASSUME IInv, NEW s \in Ids, PersistSender(s)
  PROVE  IInv'
<1>1. RowsOK'
  <2> DEFINE new == Fresh("ACTIVE", auth[s].found)
  <2>1. auth[s].found \in Phones
    BY DEF PersistSender, IInv, FoundIsNumber
  <2>2. new \in Rows /\ auth[s].found \in Senders
    BY <2>1 DEF Rows, Fresh, Spellings, Statuses, Senders
  <2>3. Save(auth[s].found, new)
    BY DEF PersistSender
  <2> HIDE DEF new
  <2> QED BY <2>2, <2>3, SaveKeeps, Parts
<1>2. AuthOK'
  BY DiesKeeps, Parts DEF PersistSender
<1> QED BY <1>1, <1>2, Parts, PartsNext, ReqSame, DiskSame, CountSame DEF PersistSender

-----------------------------------------------------------------------------
(* Rows that are read, held and written back.                                *)
LEMMA ReadInv ==
  ASSUME IInv, NEW r \in Requests, NEW s \in Senders, CheckHealth(r, s) \/ ReadSender(r, s)
  PROVE  IInv'
<1>1. row[s] \in Rows /\ row[s].status # "ABSENT" /\ s \in Ids
  BY DEF CheckHealth, ReadSender, Exists, IInv, TypeOK, Ids
<1>2. PICK label \in {"probing", "using"} : req' = [req EXCEPT ![r] = Doing(label, s, row[s])]
  BY DEF CheckHealth, ReadSender
<1>3. ReqOK'
  BY <1>1, <1>2, DoingKeeps, Parts
<1>4. DiskOK'
  BY DEF CheckHealth, ReadSender, Opened, IInv, TypeOK, DiskOK
<1> QED BY <1>3, <1>4, Parts, PartsNext, RowsSame, AuthSame, CallCounts
       DEF CheckHealth, ReadSender

LEMMA ProbeInv ==
  ASSUME IInv, NEW r \in Requests, NEW status, Probe(r, status)
  PROVE  IInv'
<1>1. status \in {"ACTIVE", "AUTH_REQUIRED", "QR_REQUIRED", "DISCONNECTED"}
  BY DEF Probe, ProbeResults
<1>2. ReqOK'
  <2>1. CASE status \in {"DISCONNECTED", req[r].seen.status}
    <3>1. Return(r)
      BY <2>1 DEF Probe, Return, IInv, TypeOK
    <3> QED BY <3>1, ReturnKeeps, Parts
  <2>2. CASE status \notin {"DISCONNECTED", req[r].seen.status}
    <3>1. req' = [req EXCEPT ![r] = [req[r] EXCEPT !.pc = "saving", !.status = status]]
      BY <2>2 DEF Probe, IInv, TypeOK
    <3>2. req[r] \in Locals /\ req[r].id \in Senders /\ status \in Statuses \ {"ABSENT"}
      BY <1>1, <2>2 DEF Probe, IInv, TypeOK, HeldIsRow, Statuses
    <3> QED BY <3>1, <3>2, Parts DEF ReqOK, HeldIsRow, Locals, Labels, Ids
  <2> QED BY <2>1, <2>2
<1>3. DiskOK'
  <2>1. req[r].id \in Ids
    BY DEF Probe, IInv, HeldIsRow
  <2> QED BY <2>1 DEF Probe, IInv, TypeOK, DiskOK
<1> QED BY <1>2, <1>3, Parts, PartsNext, RowsSame, AuthSame, CountSame DEF Probe

LEMMA WriteBackInv ==
  ASSUME IInv, NEW r \in Requests,
         SaveProbe(r) \/ \E status \in Statuses : SaveUsage(r, status)
  PROVE  IInv'
<1>1. PICK status \in Statuses : Save(req[r].id, [req[r].seen EXCEPT !.status = status])
  BY DEF SaveProbe, SaveUsage, IInv, TypeOK, Locals
<1>2. RowsOK'
  <2> DEFINE new == [req[r].seen EXCEPT !.status = status]
  <2>1. req[r].id \in Senders
    BY DEF SaveProbe, SaveUsage, IInv, HeldIsRow
  <2>2. req[r].seen \in Rows
    BY DEF IInv, TypeOK, Locals
  <2>3. new \in Rows
    BY <2>2 DEF Rows
  <2>4. Save(req[r].id, new)
    BY <1>1
  <2> HIDE DEF new
  <2> QED BY <2>1, <2>3, <2>4, SaveKeeps, Parts
<1>3. ReqOK'
  BY ReturnKeeps, Parts DEF SaveProbe, SaveUsage
<1> QED BY <1>2, <1>3, Parts, PartsNext, AuthSame, DiskSame, CountSame DEF SaveProbe, SaveUsage

LEMMA RestartInv ==
  ASSUME IInv, Restart
  PROVE  IInv'
<1>1. RowsOK'
  BY DEF Restart, IInv, TypeOK, RowsOK, Rows, Statuses
<1>2. AuthOK' /\ ReqOK'
  BY DEF Restart, AuthOK, ReqOK, FoundIsNumber, HeldIsRow, NoThread, Threads, Stages,
         Idle, NoRow, Fresh, Spellings, Locals, Labels, Rows, Statuses
<1>3. DiskOK' /\ CountOK'
  BY DEF Restart, IInv, TypeOK, DiskOK, CountOK
<1> QED BY <1>1, <1>2, <1>3, PartsNext

-----------------------------------------------------------------------------
LEMMA InitInv == Init => IInv
  BY DEF Init, IInv, TypeOK, HeldIsRow, FoundIsNumber,
         NoRow, Fresh, Spellings, NoThread, Idle, Rows, Threads, Stages, Locals, Labels, Statuses

LEMMA StepInv == IInv /\ [Next]_vars => IInv'
<1> SUFFICES ASSUME IInv, [Next]_vars PROVE IInv'
  OBVIOUS
<1>1. CASE OperatorStep
  BY <1>1, ConfigureInv, CreateInv, AddInv, UpdateInv DEF OperatorStep
<1>2. ASSUME NEW r \in Requests, RequestStep(r) PROVE IInv'
  BY <1>2, RequestInv, StartInv, ReadInv, ProbeInv, WriteBackInv DEF RequestStep
<1>3. ASSUME NEW s \in Ids, ThreadStep(s) PROVE IInv'
  BY <1>3, LaunchInv, OpenFailsInv, ShowInv, VerdictInv, ReuseInv, ResolveInv, CloseRaisesInv,
     RenameInv, RenameFailsInv, PersistInv, DiesInv, LateInv DEF ThreadStep
<1>4. CASE UNCHANGED vars
  BY <1>4, Parts, PartsNext, RowsSame, AuthSame, ReqSame, DiskSame, CountSame DEF vars
<1> QED BY <1>1, <1>2, <1>3, <1>4, PhoneInv, RestartInv DEF Next

\* The rows, profiles and threads of the sessions are well typed: the verdict of
\* a probe that is no status is never written to a row.
THEOREM TypeCorrect == Spec => []TypeOK
<1>1. IInv => TypeOK
  BY DEF IInv
<1> QED BY <1>1, InitInv, StepInv, PTL DEF Spec

(***************************************************************************)
(* The second layer: which number a row, a request, a thread and a profile *)
(* stand for.  A thread only persists a profile that is logged in to the   *)
(* number found, or has been logged out since, or that an operator has     *)
(* mislabelled; it has moved the profile before it writes the row.         *)
(***************************************************************************)
RowOwn == \A p \in Phones : Exists(p) =>
  row[p].number = p \/ p \in ghost.mislabelled \cap ghost.unbacked

HeldOwn == \A r \in Requests : req[r].pc # "idle" =>
  /\ req[r].id \in Temps => req[r].seen.number = None
  /\ req[r].id \in Senders =>
       /\ Exists(req[r].id)
       /\ \/ req[r].seen.number = row[req[r].id].number
          \/ req[r].id \in ghost.mislabelled
  /\ req[r].id \in Phones => req[r].seen.number = req[r].id \/ req[r].id \in ghost.unbacked

ExpectsOwn == \A s \in Ids : Running(s) =>
  /\ s \in Temps => auth[s].expect = None /\ auth[s].at # "closing"
  /\ s \in Senders =>
       Exists(s) /\ (auth[s].expect = row[s].number \/ s \in ghost.mislabelled)
  /\ s \in Phones => auth[s].expect = s \/ s \in ghost.unbacked

Moving == \A s \in Ids : auth[s].at \in {"persisting", "failed"} =>
  /\ auth[s].expect = None /\ auth[s].found # s
  /\ s \notin Phones => profile[s] \in {auth[s].found, Blank, None}
  /\ profile[s] # None \/ auth[s].found \in ghost.unbacked

Backed(p) == profile[p] # None \/ p \in ghost.unbacked

HasMoved == \A s \in Ids : auth[s].at = "renamed" =>
  /\ s \in Temps => profile[s] = None \/ s \in ghost.left
  /\ Backed(auth[s].found)

Excused == ghost.strayed \cup ghost.mislabelled

PhoneOwn == \A p \in Phones : LoggedIn(p) /\ p \notin Excused => profile[p] = p

SlotOwn == \A s \in Slots :
  /\ Exists(s) /\ row[s].number # None /\ LoggedIn(s) /\ s \notin Excused =>
       profile[s] = row[s].number
  /\ ~Exists(s) => profile[s] = None

Names   == RowOwn /\ HeldOwn
Paths   == ExpectsOwn /\ Moving /\ HasMoved
Disks   == PhoneOwn /\ SlotOwn /\ TempLeavesNoTrace /\ ProfileBeforeRow
Own     == Names /\ Paths     /\ Disks

-----------------------------------------------------------------------------
(* What most steps do: no row goes away, or changes its number unless it is  *)
(* mislabelled, and what is excused stays so.                                *)
RowsGrow == \A s \in Senders : Exists(s) =>
  Exists(s)' /\ (row'[s].number = row[s].number \/ s \in ghost'.mislabelled)

NoNewRow == \A s \in Senders : Exists(s)' => Exists(s) /\ row'[s].number = row[s].number

GhostGrows == /\ ghost.strayed \subseteq ghost'.strayed
              /\ ghost.mislabelled \subseteq ghost'.mislabelled
              /\ ghost.unbacked \subseteq ghost'.unbacked

LEMMA RowsSameGrow == UNCHANGED row => RowsGrow /\ NoNewRow
  BY DEF RowsGrow, NoNewRow, Exists

LEMMA StatusGrow ==
  ASSUME IInv, NEW s \in Ids, NEW status \in Statuses \ {"ABSENT"},
         SetStatus(s, status) \/ UNCHANGED row
  PROVE  RowsGrow /\ NoNewRow
<1>1. CASE s \in Senders /\ Exists(s) /\ SetStatus(s, status)
  <2>1. row' = [row EXCEPT ![s] = [row[s] EXCEPT !.status = status]]
    BY <1>1 DEF SetStatus, IInv, TypeOK, Rows
  <2>2. /\ \A u \in Senders \ {s} : row'[u] = row[u]
        /\ row'[s].number = row[s].number /\ row'[s].status = status
    BY <2>1, <1>1 DEF IInv, TypeOK, Rows
  <2> QED BY <2>2, <1>1 DEF RowsGrow, NoNewRow, Exists
<1>2. CASE UNCHANGED row
  BY <1>2, RowsSameGrow
<1> QED BY <1>1, <1>2 DEF SetStatus

LEMMA VerdictGrow ==
  ASSUME IInv, NEW s \in Ids, NEW status \in Statuses \ {"ABSENT"}, Verdict(s, status)
  PROVE  RowsGrow /\ NoNewRow /\ GhostGrows /\ ghost'.left = ghost.left
  BY StatusGrow DEF Verdict, GhostGrows, IInv, TypeOK

LEMMA HeldKept ==
  ASSUME IInv, HeldOwn, UNCHANGED req, RowsGrow, GhostGrows
  PROVE  HeldOwn'
  BY DEF HeldOwn, RowsGrow, GhostGrows

LEMMA HeldReturns ==
  ASSUME IInv, HeldOwn, NEW r \in Requests, Return(r), RowsGrow, GhostGrows
  PROVE  HeldOwn'
<1>1. \A q \in Requests : req'[q] = IF q = r THEN Idle ELSE req[q]
  BY DEF Return, IInv, TypeOK
<1> QED BY <1>1 DEF HeldOwn, RowsGrow, GhostGrows, Idle

LEMMA RowOwnKept ==
  ASSUME IInv, RowOwn, NoNewRow, GhostGrows
  PROVE  RowOwn'
  BY DEF RowOwn, NoNewRow, GhostGrows, Senders

\* A step that touches neither threads nor profiles.
LEMMA PathsKept ==
  ASSUME IInv, Paths, UNCHANGED <<auth, profile>>, RowsGrow, GhostGrows, ghost'.left = ghost.left
  PROVE  Paths'
<1>1. ExpectsOwn'
  BY DEF Paths, ExpectsOwn, Running, RowsGrow, GhostGrows
<1>2. Moving' /\ HasMoved'
  BY DEF Paths, Moving, HasMoved, Backed, GhostGrows
<1> QED BY <1>1, <1>2 DEF Paths

LEMMA PhoneKept ==
  ASSUME PhoneOwn, UNCHANGED profile, GhostGrows
  PROVE  PhoneOwn'
  BY DEF PhoneOwn, LoggedIn, Excused, GhostGrows

LEMMA TempKept ==
  ASSUME TempLeavesNoTrace, UNCHANGED <<auth, profile>>, ghost'.left = ghost.left
  PROVE  TempLeavesNoTrace'
  BY DEF TempLeavesNoTrace, Running

LEMMA BackedKept ==
  ASSUME ProfileBeforeRow, NoNewRow, \A p \in Phones : Backed(p) => Backed(p)'
  PROVE  ProfileBeforeRow'
  BY DEF ProfileBeforeRow, NoNewRow, Backed, Senders

\* A step that leaves the profiles alone and adds no row.
LEMMA DisksKept ==
  ASSUME IInv, Disks, UNCHANGED profile, RowsGrow, NoNewRow, GhostGrows, TempLeavesNoTrace'
  PROVE  Disks'
<1>1. PhoneOwn'
  BY PhoneKept DEF Disks
<1>2. SlotOwn'
  BY DEF Disks, SlotOwn, RowsGrow, NoNewRow, GhostGrows, LoggedIn, Excused, Senders
<1>3. ProfileBeforeRow'
  BY BackedKept DEF Disks, Backed, GhostGrows
<1> QED BY <1>1, <1>2, <1>3 DEF Disks

\* A step of an operator or a request that does not add a row.
LEMMA OwnKept ==
  ASSUME IInv, Own, UNCHANGED <<auth, profile>>, RowsGrow, NoNewRow, GhostGrows,
         ghost'.left = ghost.left, HeldOwn'
  PROVE  Own'
<1>1. RowOwn'
  BY RowOwnKept DEF Own, Names
<1>2. Paths'
  BY PathsKept DEF Own
<1>3. Disks'
  BY DisksKept, TempKept DEF Own, Disks
<1> QED BY <1>1, <1>2, <1>3 DEF Own, Names

LEMMA GhostSame == UNCHANGED ghost => GhostGrows /\ ghost'.left = ghost.left
  BY DEF GhostGrows

-----------------------------------------------------------------------------
(* Operators.                                                                *)
LEMMA ConfigureOwn ==
  ASSUME IInv, Own, ConfigureSessions
  PROVE  Own'
<1>1. /\ \A s \in Senders : Exists(s) => row'[s] = row[s]
      /\ \A s \in Senders : ~Exists(s) /\ Exists(s)' => s \in Slots /\ row'[s].number = None
      /\ UNCHANGED <<profile, auth, req, ghost>>
  BY DEF ConfigureSessions, IInv, TypeOK, Exists, Senders, Fresh
<1>2. RowsGrow
  BY <1>1 DEF RowsGrow, Exists
<1>3. Names'
  BY <1>1, <1>2, HeldKept, GhostSame DEF Own, Names, RowOwn, Exists, Senders
<1>4. Paths'
  BY <1>1, <1>2, PathsKept, GhostSame DEF Own
<1>5. PhoneOwn' /\ TempLeavesNoTrace'
  BY <1>1, PhoneKept, TempKept, GhostSame DEF Own, Disks
<1>6. SlotOwn'
  BY <1>1 DEF Own, Disks, SlotOwn, LoggedIn, Excused, Senders, Exists
<1>7. ProfileBeforeRow'
  BY <1>1 DEF Own, Disks, ProfileBeforeRow, Senders
<1> QED BY <1>3, <1>4, <1>5, <1>6, <1>7 DEF Own, Disks

LEMMA CreateOwn ==
  ASSUME IInv, Own, NEW s \in Senders, NEW i \in Typed, CreateSender(s, i)
  PROVE  Own'
<1>1. /\ \A u \in Senders \ {s} : row'[u] = row[u]
      /\ row'[s].number = i.number /\ Exists(s)'
      /\ UNCHANGED <<profile, auth, req>>
  BY DEF CreateSender, IInv, TypeOK, Exists
<1>2. /\ GhostGrows /\ ghost'.left = ghost.left
      /\ s \in Phones => s \in ghost'.unbacked
      /\ Exists(s) /\ i.number # row[s].number => s \in ghost'.mislabelled
      /\ s \in Phones /\ i.number # s => s \in ghost'.mislabelled
  BY DEF CreateSender, IInv, TypeOK, GhostGrows
<1>3. RowsGrow
  BY <1>1, <1>2 DEF RowsGrow, Exists
<1>4. Names'
  BY <1>1, <1>2, <1>3, HeldKept DEF Own, Names, RowOwn, Exists, GhostGrows, Senders
<1>5. Paths'
  BY <1>1, <1>2, <1>3, PathsKept DEF Own
<1>6. PhoneOwn' /\ TempLeavesNoTrace'
  BY <1>1, <1>2, PhoneKept, TempKept DEF Own, Disks
<1>7. SlotOwn'
  BY <1>1, <1>2 DEF Own, Disks, SlotOwn, LoggedIn, Excused, Exists, GhostGrows, Senders
<1>8. ProfileBeforeRow'
  BY <1>1, <1>2 DEF Own, Disks, ProfileBeforeRow, Exists, GhostGrows, Senders
<1> QED BY <1>4, <1>5, <1>6, <1>7, <1>8 DEF Own, Disks

LEMMA AddOwn ==
  ASSUME IInv, Own, NEW t \in Temps, AddSession(t)
  PROVE  Own'
  BY OwnKept, HeldKept, GhostSame, RowsSameGrow DEF AddSession, Own, Names

LEMMA UpdateOwn ==
  ASSUME IInv, Own, NEW s \in Senders, NEW status \in {"ACTIVE", "INACTIVE"},
         UpdateStatus(s, status)
  PROVE  Own'
<1>1. s \in Ids /\ SetStatus(s, status) /\ status \in Statuses \ {"ABSENT"}
  BY DEF UpdateStatus, Ids, Statuses
<1>2. RowsGrow /\ NoNewRow
  BY <1>1, StatusGrow
<1> QED BY <1>2, OwnKept, HeldKept, GhostSame DEF UpdateStatus, Own, Names

-----------------------------------------------------------------------------
(* Requests.                                                                 *)
LEMMA HeldBegins ==
  ASSUME IInv, Own, NEW r \in Requests, NEW label, NEW s \in Ids, RowsGrow, GhostGrows,
         s \in Senders => Exists(s),
         req' = [req EXCEPT ![r] = Doing(label, s, IF s \in Senders THEN row[s] ELSE NoRow)]
  PROVE  HeldOwn'
<1>1. \A q \in Requests \ {r} : req'[q] = req[q]
  BY DEF IInv, TypeOK
<1>2. /\ req'[r].id = s
      /\ s \in Senders => req'[r].seen = row[s]
      /\ s \notin Senders => req'[r].seen.number = None
  BY DEF IInv, TypeOK, Doing, NoRow, Fresh
<1>3. s \in Phones => row[s].number = s \/ s \in ghost.unbacked
  BY DEF Own, Names, RowOwn, Senders
<1> QED BY <1>1, <1>2, <1>3 DEF Own, Names, HeldOwn, RowsGrow, GhostGrows, Senders

LEMMA RequestOwn ==
  ASSUME IInv, Own, NEW r \in Requests, NEW s \in Ids, RequestAuthentication(r, s)
  PROVE  Own'
<1>1. RowsGrow /\ NoNewRow
  BY StatusGrow DEF RequestAuthentication, Statuses
<1>2. HeldOwn'
  BY <1>1, HeldBegins, GhostSame DEF RequestAuthentication
<1> QED BY <1>1, <1>2, OwnKept, GhostSame DEF RequestAuthentication

LEMMA StartOwn ==
  ASSUME IInv, Own, NEW r \in Requests, StartQrAuthentication(r)
  PROVE  Own'
<1> DEFINE s == req[r].id
<1>1. s \in Ids /\ req[r].pc = "starting" /\ Return(r) /\ UNCHANGED profile
  BY DEF StartQrAuthentication, IInv, HeldIsRow
<1>2. CASE Running(s)
  <2>1. UNCHANGED <<row, auth, ghost>>
    BY <1>2 DEF StartQrAuthentication
  <2> QED BY <1>1, <2>1, OwnKept, HeldReturns, GhostSame, RowsSameGrow DEF Own, Names
<1>3. CASE ~Running(s)
  <2>1. /\ Callback(s, "AUTHENTICATING")
        /\ auth' = [auth EXCEPT ![s] =
                     [at |-> "launching", expect |-> req[r].seen.number, found |-> None]]
        /\ ghost' = [ghost EXCEPT !.mute = @ \ {s}]
    BY <1>3 DEF StartQrAuthentication
  <2>2. GhostGrows /\ ghost'.left = ghost.left
    BY <2>1 DEF GhostGrows, IInv, TypeOK
  <2>3. RowsGrow /\ NoNewRow
    BY <1>1, <2>1, StatusGrow DEF Callback, Statuses
  <2>4. Names'
    BY <1>1, <2>2, <2>3, HeldReturns, RowOwnKept DEF Own, Names
  <2>5. /\ auth'[s].at = "launching" /\ auth'[s].expect = req[r].seen.number
        /\ \A u \in Ids \ {s} : auth'[u] = auth[u]
    BY <1>1, <2>1 DEF IInv, TypeOK
  <2>6. ExpectsOwn'
    BY <1>1, <2>2, <2>3, <2>5 DEF Own, Names, Paths, HeldOwn, ExpectsOwn, Running, RowsGrow, GhostGrows
  <2>7. Moving' /\ HasMoved'
    BY <1>1, <2>2, <2>5 DEF Own, Paths, Moving, HasMoved, Backed, GhostGrows
  <2>8. TempLeavesNoTrace'
    BY <1>1, <2>2, <2>5 DEF Own, Disks, TempLeavesNoTrace, Running, Ids
  <2>9. Disks'
    BY <1>1, <2>2, <2>3, <2>8, DisksKept DEF Own
  <2> QED BY <2>4, <2>6, <2>7, <2>9 DEF Own, Paths
<1> QED BY <1>2, <1>3

-----------------------------------------------------------------------------
(* Threads: a thread goes on with what it expects and has found, or dies.    *)
OthersKept(s) == \A u \in Ids \ {s} : auth'[u] = auth[u]
GoesOnTo(s, stage) ==
  /\ auth'[s].at = stage
  /\ auth'[s].expect = auth[s].expect /\ auth'[s].found = auth[s].found
BackedStays == \A p \in Phones : Backed(p) => Backed(p)'

LEMMA GoesOn ==
  ASSUME IInv, NEW s \in Ids, NEW stage, Goto(s, stage)
  PROVE  GoesOnTo(s, stage) /\ OthersKept(s)
  BY DEF Goto, IInv, TypeOK, Threads, GoesOnTo, OthersKept

LEMMA DiesOwn ==
  ASSUME IInv, NEW s \in Ids, Dies(s)
  PROVE  auth'[s].at = "none" /\ OthersKept(s)
  BY DEF Dies, IInv, TypeOK, OthersKept, NoThread

LEMMA ExpectsKept ==
  ASSUME IInv, ExpectsOwn, NEW s \in Ids, OthersKept(s), RowsGrow, GhostGrows,
         \/ auth'[s].at = "none"
         \/ /\ Running(s) /\ auth'[s].expect = auth[s].expect
            /\ s \in Temps => auth'[s].at # "closing"
  PROVE  ExpectsOwn'
  BY DEF ExpectsOwn, OthersKept, Running, RowsGrow, GhostGrows

\* A thread that persists nothing afterwards, and leaves the others' profiles.
LEMMA MovingKept ==
  ASSUME IInv, Paths, NEW s \in Ids, OthersKept(s), GhostGrows, BackedStays,
         auth'[s].at \notin {"persisting", "failed", "renamed"},
         \A u \in Ids \ {s} : profile'[u] = profile[u],
         ghost.left \ {s} \subseteq ghost'.left
  PROVE  Moving' /\ HasMoved'
<1>1. Moving'
  BY DEF Paths, Moving, OthersKept, GhostGrows
<1>2. \A u \in Ids : auth[u].at = "renamed" => auth[u].found \in Phones
  BY DEF IInv, FoundIsNumber
<1>3. HasMoved'
  BY <1>2 DEF Paths, HasMoved, OthersKept, BackedStays
<1> QED BY <1>1, <1>3

LEMMA BackedSame == UNCHANGED profile /\ GhostGrows => BackedStays
  BY DEF BackedStays, Backed, GhostGrows

LEMMA TempGoesOn ==
  ASSUME TempLeavesNoTrace, NEW s \in Ids, OthersKept(s), \A u \in Ids \ {s} : profile'[u] = profile[u],
         ghost.left \ {s} \subseteq ghost'.left,
         s \in Temps => Running(s)' \/ profile'[s] = None \/ s \in ghost'.left,
         ghost'.left \ {s} = ghost.left \ {s}
  PROVE  TempLeavesNoTrace'
  BY DEF TempLeavesNoTrace, OthersKept, Running, Ids

\* A thread that writes a status, if anything, and leaves the profiles alone.
LEMMA ThreadKept ==
  ASSUME IInv, Own, NEW s \in Ids, OthersKept(s), UNCHANGED <<profile, req>>,
         RowsGrow, NoNewRow, GhostGrows, ghost'.left = ghost.left,
         auth'[s].at \notin {"persisting", "failed", "renamed"},
         Running(s),
         \/ s \notin Temps /\ auth'[s].at = "none"
         \/ Running(s)' /\ auth'[s].expect = auth[s].expect /\ (s \in Temps => auth'[s].at # "closing")
  PROVE  Own'
<1>1. Names'
  BY HeldKept, RowOwnKept DEF Own, Names
<1>2. ExpectsOwn'
  BY ExpectsKept DEF Own, Paths
<1>3. Moving' /\ HasMoved'
  BY MovingKept, BackedSame DEF Own
<1>4. TempLeavesNoTrace'
  BY TempGoesOn DEF Own, Disks
<1>5. Disks'
  BY <1>4, DisksKept DEF Own
<1> QED BY <1>1, <1>2, <1>3, <1>5 DEF Own, Paths

\* Opening a profile makes a directory, if there is none, that is logged out.
LEMMA OpenDisks ==
  ASSUME IInv, Disks, NEW s \in Ids, profile' \in {profile, Opened(s)},
         s \in Senders => Exists(s), UNCHANGED row, GhostGrows, TempLeavesNoTrace'
  PROVE  Disks' /\ BackedStays /\ \A u \in Ids \ {s} : profile'[u] = profile[u]
<1>1. /\ \A u \in Ids \ {s} : profile'[u] = profile[u]
      /\ profile'[s] = profile[s] \/ (profile[s] = None /\ profile'[s] = Blank)
  BY DEF Opened, IInv, TypeOK
<1>2. PhoneOwn' /\ SlotOwn'
  BY <1>1 DEF Disks, PhoneOwn, SlotOwn, LoggedIn, Excused, GhostGrows, Exists, Senders, Ids
<1>3. BackedStays
  BY <1>1 DEF BackedStays, Backed, GhostGrows, Ids, Senders
<1>4. ProfileBeforeRow'
  BY <1>3, BackedKept, RowsSameGrow DEF Disks, BackedStays
<1> QED BY <1>1, <1>2, <1>3, <1>4 DEF Disks

LEMMA LaunchOwn ==
  ASSUME IInv, Own, NEW s \in Ids, LaunchBrowser(s) \/ OpenFails(s)
  PROVE  Own'
<1>1. /\ auth[s].at = "launching" /\ UNCHANGED <<row, req>> /\ OthersKept(s)
      /\ profile' \in {profile, Opened(s)}
      /\ \A u \in Ids \ {s} : profile'[u] = profile[u]
  BY GoesOn, DiesOwn DEF LaunchBrowser, OpenFails, Opened, IInv, TypeOK
<1>2. \/ UNCHANGED ghost /\ auth'[s].at = "waiting" /\ auth'[s].expect = auth[s].expect
      \/ /\ auth'[s].at = "none" /\ ghost'.left = ghost.left \cup ({s} \cap Temps)
         /\ ghost'.strayed = ghost.strayed /\ ghost'.mislabelled = ghost.mislabelled
         /\ ghost'.unbacked = ghost.unbacked
  BY GoesOn, DiesOwn DEF LaunchBrowser, OpenFails, IInv, TypeOK, GoesOnTo
<1>3. /\ GhostGrows /\ ghost.left \subseteq ghost'.left
      /\ ghost'.left \ {s} = ghost.left \ {s}
      /\ \/ auth'[s].at = "none" /\ (s \in Temps => s \in ghost'.left)
         \/ auth'[s].at = "waiting" /\ auth'[s].expect = auth[s].expect
  BY <1>2 DEF GhostGrows
<1>4. Running(s) /\ (s \in Senders => Exists(s))
  BY <1>1 DEF Own, Paths, ExpectsOwn, Running
<1>5. TempLeavesNoTrace'
  BY <1>1, <1>3, TempGoesOn DEF Own, Disks, Running
<1>6. Disks' /\ BackedStays
  BY <1>1, <1>3, <1>4, <1>5, OpenDisks DEF Own
<1>7. ExpectsOwn'
  BY <1>1, <1>3, <1>4, RowsSameGrow, ExpectsKept DEF Own, Paths
<1>8. Moving' /\ HasMoved'
  BY <1>1, <1>3, <1>6, MovingKept DEF Own
<1>9. Names'
  BY <1>1, <1>3, RowsSameGrow, HeldKept, RowOwnKept DEF Own, Names
<1> QED BY <1>6, <1>7, <1>8, <1>9 DEF Own, Paths

LEMMA ShowOwn ==
  ASSUME IInv, Own, NEW s \in Ids, ShowQrCode(s)
  PROVE  Own'
<1>1. /\ auth[s].at = "waiting" /\ OthersKept(s) /\ GoesOnTo(s, "shown")
      /\ UNCHANGED <<profile, req, ghost>>
  BY GoesOn DEF ShowQrCode
<1>2. RowsGrow /\ NoNewRow
  BY StatusGrow DEF ShowQrCode, Callback, Statuses
<1> QED BY <1>1, <1>2, ThreadKept, GhostSame DEF Running, GoesOnTo

LEMMA ScanOwn ==
  ASSUME IInv, Own, NEW s \in Ids, NEW p \in Phones, Scan(s, p)
  PROVE  Own'
<1>1. /\ auth[s].at = "shown" /\ profile[s] = Blank /\ profile'[s] = p
      /\ \A u \in Ids \ {s} : profile'[u] = profile[u]
      /\ UNCHANGED <<row, auth, req>> /\ OthersKept(s)
      /\ GhostGrows /\ ghost'.left = ghost.left
      /\ auth[s].expect \in Phones \ {p} => s \in ghost'.strayed
  BY DEF Scan, IInv, TypeOK, GhostGrows, OthersKept
<1>2. Names'
  BY <1>1, HeldKept, RowOwnKept, RowsSameGrow DEF Own, Names
<1>3. BackedStays
  BY <1>1 DEF BackedStays, Backed, GhostGrows, Ids, Senders
<1>4. Paths'
  <2>1. Running(s) /\ auth'[s].at = "shown"
    BY <1>1 DEF Running
  <2>2. ExpectsOwn'
    BY <1>1, <2>1, ExpectsKept, RowsSameGrow DEF Own, Paths, ExpectsOwn
  <2> QED BY <1>1, <1>3, <2>1, <2>2, MovingKept DEF Own, Paths
<1>5. /\ s \in Senders => Exists(s) /\ (auth[s].expect = row[s].number \/ s \in ghost.mislabelled)
      /\ s \in Phones => row[s].number = s \/ s \in ghost.mislabelled
      /\ auth[s].expect \in Phones \cup {None}
  BY <1>1 DEF Own, Names, RowOwn, Paths, ExpectsOwn, Running, Senders, IInv, TypeOK, Threads
<1>6. PhoneOwn'
  BY <1>1, <1>5 DEF Own, Disks, PhoneOwn, LoggedIn, Excused, GhostGrows, Ids, Senders
<1>7. SlotOwn'
  BY <1>1, <1>5 DEF Own, Disks, SlotOwn, LoggedIn, Excused, GhostGrows, Exists, Ids, Senders
<1>8. TempLeavesNoTrace'
  BY <1>1, TempGoesOn DEF Own, Disks, Running
<1>9. ProfileBeforeRow'
  BY <1>1, <1>3, BackedKept, RowsSameGrow DEF Own, Disks, BackedStays
<1> QED BY <1>2, <1>4, <1>6, <1>7, <1>8, <1>9 DEF Own, Disks

LEMMA LogOutOwn ==
  ASSUME IInv, Own, NEW s \in Ids, LogOut(s)
  PROVE  Own'
<1>1. /\ profile[s] \in Phones /\ profile'[s] = Blank
      /\ \A u \in Ids \ {s} : profile'[u] = profile[u]
      /\ UNCHANGED <<row, auth, req, ghost>> /\ GhostGrows
  BY DEF LogOut, LoggedIn, IInv, TypeOK, GhostGrows
<1>2. Names'
  BY <1>1, HeldKept, RowOwnKept, RowsSameGrow DEF Own, Names
<1>3. BackedStays
  BY <1>1 DEF BackedStays, Backed, GhostGrows, Ids, Senders
<1>4. Paths'
  BY <1>1, <1>3 DEF Own, Paths, ExpectsOwn, Running, Exists, Moving, HasMoved, BackedStays,
     IInv, FoundIsNumber
<1>5. PhoneOwn' /\ SlotOwn'
  BY <1>1 DEF Own, Disks, PhoneOwn, SlotOwn, LoggedIn, Excused, Exists, Ids, Senders
<1>6. TempLeavesNoTrace'
  BY <1>1 DEF Own, Disks, TempLeavesNoTrace, Running, Ids
<1>7. ProfileBeforeRow'
  BY <1>1, <1>3, BackedKept, RowsSameGrow DEF Own, Disks, BackedStays
<1> QED BY <1>2, <1>4, <1>5, <1>6, <1>7 DEF Own, Disks

\* What the removal of a temporary directory changes.
LEMMA RemoveOwn ==
  ASSUME IInv, NEW s \in Temps, NEW lost \in SUBSET Phones, RemoveDir(s, lost)
  PROVE  /\ \A u \in Ids \ {s} : profile'[u] = profile[u]
         /\ \/ profile'[s] = None /\ lost \subseteq ghost'.unbacked
            \/ profile'[s] = profile[s] /\ profile[s] # None /\ s \in ghost'.left
         /\ GhostGrows /\ ghost'.left \ {s} = ghost.left \ {s}
<1>1. CASE profile' = [profile EXCEPT ![s] = None]
           /\ ghost' = [ghost EXCEPT !.left = @ \ {s}, !.unbacked = @ \cup lost]
  <2>1. profile'[s] = None /\ \A u \in Ids \ {s} : profile'[u] = profile[u]
    BY <1>1 DEF IInv, TypeOK, Ids
  <2>2. /\ ghost'.left = ghost.left \ {s} /\ ghost'.unbacked = ghost.unbacked \cup lost
        /\ ghost'.strayed = ghost.strayed /\ ghost'.mislabelled = ghost.mislabelled
    BY <1>1 DEF IInv, TypeOK
  <2> QED BY <2>1, <2>2 DEF GhostGrows
<1>2. CASE profile[s] # None /\ UNCHANGED profile /\ ghost' = [ghost EXCEPT !.left = @ \cup {s}]
  BY <1>2 DEF GhostGrows, IInv, TypeOK, Ids
<1> QED BY <1>1, <1>2 DEF RemoveDir

\* Clearing a temporary directory away, or failing to, touches no sender.
LEMMA RemoveDisks ==
  ASSUME IInv, Disks, NEW s \in Temps, \A u \in Ids \ {s} : profile'[u] = profile[u],
         UNCHANGED row, GhostGrows, TempLeavesNoTrace'
  PROVE  Disks' /\ BackedStays
<1>1. s \notin Phones /\ s \notin Slots
  OBVIOUS
<1>2. PhoneOwn' /\ SlotOwn'
  BY <1>1 DEF Disks, PhoneOwn, SlotOwn, LoggedIn, Excused, GhostGrows, Exists, Senders, Ids
<1>3. BackedStays
  BY <1>1 DEF BackedStays, Backed, GhostGrows, Ids, Senders
<1>4. ProfileBeforeRow'
  BY <1>3, BackedKept, RowsSameGrow DEF Disks, BackedStays
<1> QED BY <1>2, <1>3, <1>4 DEF Disks

LEMMA EndsOwn ==
  ASSUME IInv, Own, NEW s \in Ids, NEW status \in {"ERROR", "AUTH_REQUIRED"}, Ends(s, status),
         UNCHANGED req, auth[s].at \in {"launching", "waiting", "shown"}
  PROVE  Own'
<1>1. CASE s \in Temps
  <2>1. /\ RemoveDir(s, {}) /\ UNCHANGED row
        /\ auth'[s].at = "none" /\ OthersKept(s)
    BY <1>1, DiesOwn DEF Ends
  <2>2. /\ \A u \in Ids \ {s} : profile'[u] = profile[u]
        /\ profile'[s] = None \/ s \in ghost'.left
        /\ GhostGrows /\ ghost'.left \ {s} = ghost.left \ {s}
    BY <1>1, <2>1, RemoveOwn
  <2>3. TempLeavesNoTrace'
    BY <2>1, <2>2, TempGoesOn DEF Own, Disks
  <2>4. Disks' /\ BackedStays
    BY <1>1, <2>1, <2>2, <2>3, RemoveDisks DEF Own
  <2>5. ExpectsOwn' /\ Names'
    BY <2>1, <2>2, ExpectsKept, HeldKept, RowOwnKept, RowsSameGrow DEF Own, Paths, Names
  <2>6. Moving' /\ HasMoved'
    BY <2>1, <2>2, <2>4, MovingKept DEF Own
  <2> QED BY <2>4, <2>5, <2>6 DEF Own, Paths
<1>2. CASE s \notin Temps
  <2>1. /\ GoesOnTo(s, "closing") /\ OthersKept(s) /\ UNCHANGED profile
        /\ RowsGrow /\ NoNewRow /\ GhostGrows /\ ghost'.left = ghost.left
    BY <1>2, GoesOn, VerdictGrow DEF Ends, Statuses
  <2> QED BY <1>2, <2>1, ThreadKept DEF Running, GoesOnTo
<1> QED BY <1>1, <1>2

LEMMA VerdictOwn ==
  ASSUME IInv, Own, NEW s \in Ids, AuthenticationFails(s) \/ QrTimeout(s) \/ Reject(s)
  PROVE  Own'
<1>1. PICK status \in {"ERROR", "AUTH_REQUIRED"} : Ends(s, status)
  BY DEF AuthenticationFails, QrTimeout, Reject
<1>2. UNCHANGED req /\ auth[s].at \in {"launching", "waiting", "shown"}
  BY DEF AuthenticationFails, QrTimeout, Reject, Detects
<1> QED BY <1>1, <1>2, EndsOwn

LEMMA ReuseOwn ==
  ASSUME IInv, Own, NEW s \in Ids, Reuse(s)
  PROVE  Own'
<1>1. /\ auth[s].at \in {"waiting", "shown"} /\ auth[s].expect \in Phones
      /\ GoesOnTo(s, "closing") /\ OthersKept(s) /\ UNCHANGED <<profile, req>>
      /\ RowsGrow /\ NoNewRow /\ GhostGrows /\ ghost'.left = ghost.left
  BY GoesOn, VerdictGrow DEF Reuse, Detects, LoggedIn, Statuses
<1>2. s \notin Temps
  BY <1>1 DEF Own, Paths, ExpectsOwn, Running
<1> QED BY <1>1, <1>2, ThreadKept DEF Running, GoesOnTo

LEMMA CloseOwn ==
  ASSUME IInv, Own, NEW s \in Ids, BrowserCloses(s) \/ BrowserCloseRaises(s)
  PROVE  Own'
<1>1. /\ auth[s].at = "closing" /\ auth'[s].at = "none" /\ OthersKept(s)
      /\ UNCHANGED <<profile, req>>
  BY DiesOwn DEF BrowserCloses, BrowserCloseRaises
<1>2. RowsGrow /\ NoNewRow /\ GhostGrows /\ ghost'.left = ghost.left
  BY VerdictGrow, RowsSameGrow, GhostSame DEF BrowserCloses, BrowserCloseRaises, Statuses
<1>3. s \notin Temps
  BY <1>1 DEF Own, Paths, ExpectsOwn, Running
<1> QED BY <1>1, <1>2, <1>3, ThreadKept DEF Running

LEMMA ResolveOwn ==
  ASSUME IInv, Own, NEW s \in Ids, ResolveNew(s)
  PROVE  Own'
<1>1. auth' = [auth EXCEPT ![s] = [@ EXCEPT !.at = "persisting", !.found = profile[s]]]
  BY DEF ResolveNew
<1>2. /\ auth[s].at \in {"waiting", "shown"} /\ profile[s] \in Phones
      /\ auth[s].expect = None /\ ~Exists(profile[s])
      /\ UNCHANGED <<row, profile, req, ghost>>
  BY DEF ResolveNew, Detects, LoggedIn
<1>3. /\ auth'[s].at = "persisting" /\ auth'[s].expect = auth[s].expect
      /\ auth'[s].found = profile[s] /\ OthersKept(s)
  BY <1>1 DEF IInv, TypeOK, Threads, OthersKept
<1>4. profile[s] # s
  BY <1>2 DEF Own, Paths, ExpectsOwn, Running, Senders
<1>5. ExpectsOwn'
  BY <1>2, <1>3, ExpectsKept, RowsSameGrow, GhostSame DEF Own, Paths, Running
<1>6. Moving' /\ HasMoved'
  BY <1>2, <1>3, <1>4 DEF Own, Paths, Moving, HasMoved, Backed, OthersKept
<1>7. TempLeavesNoTrace'
  BY <1>2, <1>3, TempGoesOn DEF Own, Disks, Running
<1>8. Names' /\ Disks'
  BY <1>2, <1>7, HeldKept, RowOwnKept, RowsSameGrow, GhostSame, DisksKept DEF Own, Names
<1> QED BY <1>5, <1>6, <1>8 DEF Own, Paths

LEMMA CloseRaisesOwn ==
  ASSUME IInv, Own, NEW s \in Ids, CloseRaises(s)
  PROVE  Own'
<1>1. /\ auth[s].at = "persisting" /\ UNCHANGED req /\ Running(s) /\ Running(s)'
      /\ GoesOnTo(s, "failed") /\ OthersKept(s) /\ auth[s].found \in Phones
  BY GoesOn DEF CloseRaises, IInv, FoundIsNumber, Running, GoesOnTo
<1>2. /\ \A u \in Ids \ {s} : profile'[u] = profile[u]
      /\ \/ s \in Temps /\ profile'[s] = None /\ auth[s].found \in ghost'.unbacked
         \/ profile'[s] = profile[s]
      /\ GhostGrows /\ ghost'.left \ {s} = ghost.left \ {s}
      /\ RowsGrow /\ NoNewRow
      /\ s \in Temps => UNCHANGED row
      /\ s \notin Temps => UNCHANGED profile
  <2>1. CASE s \in Temps
    BY <1>1, <2>1, RemoveOwn, RowsSameGrow DEF CloseRaises
  <2>2. CASE s \notin Temps
    BY <2>2, VerdictGrow DEF CloseRaises, Statuses
  <2> QED BY <2>1, <2>2
<1>3. TempLeavesNoTrace'
  BY <1>1, <1>2, TempGoesOn DEF Own, Disks
<1>4. Disks' /\ BackedStays
  BY <1>2, <1>3, RemoveDisks, DisksKept, BackedSame DEF Own
<1>5. Names'
  BY <1>1, <1>2, HeldKept, RowOwnKept DEF Own, Names
<1>6. ExpectsOwn'
  BY <1>1, <1>2, ExpectsKept DEF Own, Paths, GoesOnTo
<1>7. Moving'
  BY <1>1, <1>2 DEF Own, Paths, Moving, OthersKept, GoesOnTo, GhostGrows
<1>8. HasMoved'
  <2>1. \A u \in Ids : auth[u].at = "renamed" => auth[u].found \in Phones
    BY DEF IInv, FoundIsNumber
  <2> QED BY <1>1, <1>2, <1>4, <2>1 DEF Own, Paths, HasMoved, OthersKept, GoesOnTo, BackedStays
<1> QED BY <1>4, <1>5, <1>6, <1>7, <1>8 DEF Own, Paths

-----------------------------------------------------------------------------
(* Moving a profile, whole or in part, or failing to.                        *)
LEMMA MoveDisks ==
  ASSUME IInv, Own, NEW s \in Ids, NEW p \in Phones, p # s,
         \A u \in Ids \ {s, p} : profile'[u] = profile[u],
         \/ profile'[p] = profile[p]
         \/ profile'[p] # None /\ (profile'[p] \in {p, Blank} \/ p \in ghost'.mislabelled),
         \/ profile'[s] = profile[s]
         \/ profile'[s] = None /\ (s \in Phones => s \in ghost'.unbacked),
         UNCHANGED row, GhostGrows, TempLeavesNoTrace'
  PROVE  Disks' /\ BackedStays
<1>1. p \in Ids /\ p \notin Slots
  BY DEF Ids, Senders
<1>2. PhoneOwn'
  BY <1>1 DEF Own, Disks, PhoneOwn, LoggedIn, Excused, GhostGrows, Ids, Senders
<1>3. SlotOwn'
  BY <1>1 DEF Own, Disks, SlotOwn, LoggedIn, Excused, GhostGrows, Exists, Ids, Senders
<1>4. BackedStays
  BY <1>1 DEF BackedStays, Backed, GhostGrows, Ids, Senders
<1>5. ProfileBeforeRow'
  BY <1>4, BackedKept, RowsSameGrow DEF Own, Disks, BackedStays
<1> QED BY <1>2, <1>3, <1>4, <1>5 DEF Disks

\* What a thread that is to move its profile knows.
LEMMA ToMove ==
  ASSUME IInv, Own, NEW s \in Ids, auth[s].at \in {"persisting", "failed"}
  PROVE  /\ auth[s].found \in Phones /\ auth[s].found # s /\ Running(s)
         /\ s \notin Phones => profile[s] \in {auth[s].found, Blank, None}
         /\ profile[s] # None \/ auth[s].found \in ghost.unbacked
         /\ s \in Phones => s \in ghost.unbacked
<1>1. Running(s) /\ auth[s].expect = None
  BY DEF Running, Own, Paths, Moving
<1>2. s \in Phones => s # None
  OBVIOUS
<1>3. s \in Phones => s \in ghost.unbacked
  BY <1>1, <1>2 DEF Own, Paths, ExpectsOwn
<1> QED BY <1>1, <1>3 DEF Own, Paths, Moving, IInv, FoundIsNumber

LEMMA RenameOwn ==
  ASSUME IInv, Own, NEW s \in Ids, RenameProfile(s)
  PROVE  Own'
<1>0. PICK p : p = auth[s].found
  OBVIOUS
<1>1. /\ p \in Phones /\ p # s /\ Running(s) /\ p \in Ids
      /\ s \notin Phones => profile[s] \in {p, Blank, None}
      /\ profile[s] # None \/ p \in ghost.unbacked
      /\ s \in Phones => s \in ghost.unbacked
  BY <1>0, ToMove DEF RenameProfile, Ids, Senders
<1>2. /\ GoesOnTo(s, "renamed") /\ OthersKept(s)
      /\ UNCHANGED <<row, req>> /\ Running(s)'
  BY GoesOn DEF RenameProfile, Running, GoesOnTo
<1>3. /\ GhostGrows /\ ghost'.left \ {s} = ghost.left \ {s}
      /\ s \in Phones /\ profile[s] # None => p \in ghost'.mislabelled
      /\ s \in Temps => profile'[s] = None \/ s \in ghost'.left
  <2>1. CASE profile[s] = None
    BY <2>1, GhostSame DEF RenameProfile
  <2>2. CASE profile[s] # None
    <3> DEFINE moved == IF s \in Phones THEN {p} ELSE {}
    <3>1. /\ ghost'.strayed = ghost.strayed /\ ghost'.unbacked = ghost.unbacked
          /\ ghost'.mislabelled = ghost.mislabelled \cup moved
          /\ \/ ghost'.left = ghost.left \ {s} /\ profile' = [profile EXCEPT ![p] = profile[s], ![s] = None]
             \/ ghost'.left = ghost.left \cup ({s} \cap Temps)
      BY <1>0, <2>2 DEF RenameProfile, IInv, TypeOK
    <3>2. s \in Phones => p \in moved
      OBVIOUS
    <3> HIDE DEF moved
    <3>3. ghost'.left = ghost.left \ {s} => profile'[s] = None \/ s \notin Temps \/ s \in ghost'.left
      BY <1>1, <3>1 DEF IInv, TypeOK
    <3> QED BY <3>1, <3>2, <3>3 DEF GhostGrows
  <2> QED BY <2>1, <2>2
<1>4. /\ \A u \in Ids \ {s, p} : profile'[u] = profile[u]
      /\ profile'[s] = profile[s] \/ profile'[s] = None
      /\ profile'[p] = IF profile[s] = None THEN profile[p] ELSE profile[s]
  BY <1>0, <1>1 DEF RenameProfile, IInv, TypeOK
<1>5. TempLeavesNoTrace'
  <2>1. \A t \in Temps \ {s} : t \in Ids \ {s, p}
    BY <1>1 DEF Ids
  <2> QED BY <1>2, <1>3, <1>4, <2>1 DEF Own, Disks, TempLeavesNoTrace, Running, OthersKept
<1>6. Disks' /\ BackedStays
  <2>1. s \in Phones => s \in ghost'.unbacked
    BY <1>1, <1>3 DEF GhostGrows
  <2>2. \/ profile'[p] = profile[p]
        \/ profile'[p] # None /\ (profile'[p] \in {p, Blank} \/ p \in ghost'.mislabelled)
    BY <1>1, <1>3, <1>4
  <2> QED BY <1>1, <1>2, <1>3, <1>4, <1>5, <2>1, <2>2, MoveDisks
<1>7. Names'
  BY <1>2, <1>3, HeldKept, RowOwnKept, RowsSameGrow DEF Own, Names
<1>8. ExpectsOwn'
  BY <1>1, <1>2, <1>3, ExpectsKept, RowsSameGrow DEF Own, Paths, GoesOnTo
<1>9. Moving'
  BY <1>1, <1>2, <1>3, <1>4 DEF Own, Paths, Moving, OthersKept, GoesOnTo, GhostGrows
<1>10. HasMoved'
  <2>1. \A u \in Ids : auth[u].at = "renamed" => auth[u].found \in Phones
    BY DEF IInv, FoundIsNumber
  <2>2. Backed(p)'
    BY <1>1, <1>3, <1>4 DEF Backed, GhostGrows
  <2>3. auth'[s].found = p
    BY <1>0, <1>2 DEF GoesOnTo
  <2>4. \A u \in Ids \ {s} : auth'[u].at = "renamed" =>
          /\ u \in Temps => profile'[u] = None \/ u \in ghost'.left
          /\ Backed(auth[u].found)'
    <3>1. \A u \in Temps \ {s} : profile'[u] = profile[u] /\ (u \in ghost.left => u \in ghost'.left)
      BY <1>1, <1>3, <1>4 DEF Ids
    <3> QED BY <1>2, <1>6, <2>1, <3>1 DEF Own, Paths, HasMoved, OthersKept, BackedStays, Backed
  <2> QED BY <1>3, <2>2, <2>3, <2>4 DEF HasMoved, Backed
<1> QED BY <1>6, <1>7, <1>8, <1>9, <1>10 DEF Own, Paths

LEMMA RenameFailsOwn ==
  ASSUME IInv, Own, NEW s \in Ids, RenameFails(s)
  PROVE  Own'
<1>0. PICK p : p = auth[s].found
  OBVIOUS
<1>1. /\ p \in Phones /\ p # s /\ Running(s) /\ p \in Ids /\ profile[s] # None
      /\ s \notin Phones => profile[s] \in {p, Blank}
  BY <1>0, ToMove DEF RenameFails, Ids, Senders
<1>2. /\ auth'[s].at = "none" /\ OthersKept(s) /\ UNCHANGED <<row, req>>
  BY DiesOwn DEF RenameFails
<1>3. /\ GhostGrows /\ ghost'.left \ {s} = ghost.left \ {s}
      /\ s \in Phones => p \in ghost'.mislabelled
      /\ s \in Temps => s \in ghost'.left
  <2> DEFINE moved == IF s \in Phones THEN {p} ELSE {}
  <2>1. /\ ghost'.strayed = ghost.strayed /\ ghost'.unbacked = ghost.unbacked
        /\ ghost'.mislabelled = ghost.mislabelled \cup moved
        /\ ghost'.left = ghost.left \cup ({s} \cap Temps)
    BY <1>0 DEF RenameFails, IInv, TypeOK
  <2>2. s \in Phones => p \in moved
    OBVIOUS
  <2> HIDE DEF moved
  <2> QED BY <2>1, <2>2 DEF GhostGrows
<1>4. /\ \A u \in Ids \ {p} : profile'[u] = profile[u]
      /\ profile'[p] = profile[p] \/ profile'[p] \in {profile[s], Blank}
  BY <1>0, <1>1 DEF RenameFails, IInv, TypeOK
<1>5. TempLeavesNoTrace'
  <2>1. \A t \in Temps \ {s} : t \in Ids \ {s, p}
    BY <1>1 DEF Ids
  <2> QED BY <1>2, <1>3, <1>4, <2>1 DEF Own, Disks, TempLeavesNoTrace, Running, OthersKept
<1>6. Disks' /\ BackedStays
  BY <1>1, <1>2, <1>3, <1>4, <1>5, MoveDisks
<1>7. Names'
  BY <1>2, <1>3, HeldKept, RowOwnKept, RowsSameGrow DEF Own, Names
<1>8. ExpectsOwn'
  BY <1>1, <1>2, <1>3, ExpectsKept, RowsSameGrow DEF Own, Paths
<1>9. Moving'
  BY <1>1, <1>2, <1>3, <1>4 DEF Own, Paths, Moving, OthersKept, GhostGrows
<1>10. HasMoved'
  <2>1. \A u \in Ids : auth[u].at = "renamed" => auth[u].found \in Phones
    BY DEF IInv, FoundIsNumber
  <2>2. \A u \in Temps \ {s} : profile'[u] = profile[u] /\ (u \in ghost.left => u \in ghost'.left)
    BY <1>1, <1>3, <1>4 DEF Ids
  <2> QED BY <1>2, <1>6, <2>1, <2>2 DEF Own, Paths, HasMoved, OthersKept, BackedStays, Backed
<1> QED BY <1>6, <1>7, <1>8, <1>9, <1>10 DEF Own, Paths

LEMMA PersistOwn ==
  ASSUME IInv, Own, NEW s \in Ids, PersistSender(s) \/ PersistFails(s)
  PROVE  Own'
<1>0. PICK p : p = auth[s].found
  OBVIOUS
<1>1. /\ auth[s].at = "renamed" /\ auth'[s].at = "none" /\ OthersKept(s) /\ Running(s)
      /\ UNCHANGED <<profile, req, ghost>> /\ GhostGrows
      /\ UNCHANGED row \/ Save(p, Fresh("ACTIVE", p))
  BY <1>0, DiesOwn, GhostSame DEF PersistSender, PersistFails, Running
<1>2. p \in Phones /\ Backed(p) /\ (s \in Temps => profile[s] = None \/ s \in ghost.left)
  BY <1>0, <1>1 DEF IInv, FoundIsNumber, Own, Paths, HasMoved
<1>3. /\ \A u \in Senders \ {p} : row'[u] = row[u]
      /\ row'[p] = row[p] \/ (row'[p].number = p /\ Exists(p)')
  BY <1>1, <1>2 DEF Save, Fresh, Exists, IInv, TypeOK, Senders
<1>4. RowsGrow
  BY <1>1, <1>2, <1>3 DEF RowsGrow, Exists, GhostGrows, Own, Names, RowOwn
<1>5. Names'
  BY <1>1, <1>2, <1>3, <1>4, HeldKept DEF Own, Names, RowOwn, Exists, Senders
<1>6. ExpectsOwn'
  BY <1>1, <1>4, ExpectsKept DEF Own, Paths
<1>7. Moving' /\ HasMoved'
  BY <1>1, MovingKept, BackedSame DEF Own
<1>8. TempLeavesNoTrace'
  BY <1>1, <1>2, TempGoesOn DEF Own, Disks
<1>9. PhoneOwn' /\ SlotOwn'
  BY <1>1, <1>2, <1>3 DEF Own, Disks, PhoneOwn, SlotOwn, LoggedIn, Excused, Exists, Senders
<1>10. ProfileBeforeRow'
  BY <1>1, <1>2, <1>3 DEF Own, Disks, ProfileBeforeRow, Backed, Exists, Senders
<1> QED BY <1>5, <1>6, <1>7, <1>8, <1>9, <1>10 DEF Own, Paths, Disks

-----------------------------------------------------------------------------
(* Rows that are read, held and written back.                                *)
LEMMA ReadOwn ==
  ASSUME IInv, Own, NEW r \in Requests, NEW s \in Senders, CheckHealth(r, s) \/ ReadSender(r, s)
  PROVE  Own'
<1>1. /\ Exists(s) /\ s \in Ids /\ s \notin Temps /\ UNCHANGED <<row, auth, ghost>>
      /\ profile' \in {profile, Opened(s)} /\ GhostGrows /\ OthersKept(s)
      /\ \E label \in {"probing", "using"} : req' = [req EXCEPT ![r] = Doing(label, s, row[s])]
  BY GhostSame DEF CheckHealth, ReadSender, Ids, Senders, OthersKept
<1>2. Names'
  BY <1>1, HeldBegins, RowOwnKept, RowsSameGrow DEF Own, Names
<1>3. \A u \in Ids \ {s} : profile'[u] = profile[u]
  BY <1>1 DEF Opened, IInv, TypeOK
<1>4. TempLeavesNoTrace'
  BY <1>1, <1>3, TempGoesOn DEF Own, Disks
<1>5. Disks' /\ BackedStays
  BY <1>1, <1>4, OpenDisks DEF Own
<1>6. \/ profile'[s] = profile[s]
      \/ profile[s] = None /\ profile'[s] = Blank
  BY <1>1 DEF Opened, IInv, TypeOK
<1>7. Paths'
  BY <1>1, <1>3, <1>5, <1>6 DEF Own, Paths, ExpectsOwn, Running, Exists, Moving, HasMoved,
     BackedStays, Backed, IInv, FoundIsNumber
<1> QED BY <1>2, <1>5, <1>7 DEF Own

LEMMA ProbeOwn ==
  ASSUME IInv, Own, NEW r \in Requests, NEW status, Probe(r, status)
  PROVE  Own'
<1>1. /\ UNCHANGED <<row, profile, auth, ghost>>
      /\ req[r].pc = "probing" /\ \A q \in Requests \ {r} : req'[q] = req[q]
      /\ \/ req'[r] = Idle
         \/ req'[r].pc = "saving" /\ req'[r].id = req[r].id /\ req'[r].seen = req[r].seen
  BY DEF Probe, IInv, TypeOK, Locals
<1>2. HeldOwn'
  BY <1>1 DEF Own, Names, HeldOwn, Exists, Idle
<1> QED BY <1>1, <1>2, OwnKept, RowsSameGrow, GhostSame

LEMMA WriteBackOwn ==
  ASSUME IInv, Own, NEW r \in Requests,
         SaveProbe(r) \/ \E status \in Statuses : SaveUsage(r, status)
  PROVE  Own'
<1>0. PICK s : s = req[r].id
  OBVIOUS
<1>1. /\ req[r].pc \in {"saving", "using"} /\ s \in Senders /\ Exists(s)
      /\ Return(r) /\ UNCHANGED <<profile, auth, ghost>> /\ GhostGrows
      /\ req[r].seen.number = row[s].number \/ s \in ghost.mislabelled
      /\ s \in Phones => req[r].seen.number = s \/ s \in ghost.unbacked
  BY <1>0, GhostSame DEF SaveProbe, SaveUsage, IInv, HeldIsRow, Own, Names, HeldOwn
<1>2. PICK status \in Statuses \ {"ABSENT"} :
        Save(s, [req[r].seen EXCEPT !.status = status])
  <2>1. CASE SaveProbe(r)
    <3>1. req[r].status \in Statuses \ {"ABSENT"}
      BY <2>1 DEF SaveProbe, IInv, TypeOK, HeldIsRow, Locals
    <3> QED BY <1>0, <2>1, <3>1 DEF SaveProbe
  <2>2. ASSUME NEW status \in Statuses, SaveUsage(r, status)
        PROVE  status # "ABSENT" /\ Save(s, [req[r].seen EXCEPT !.status = status])
    BY <1>0, <2>2 DEF SaveUsage, IInv, HeldIsRow
  <2> QED BY <2>1, <2>2
<1>3. /\ \A u \in Senders \ {s} : row'[u] = row[u]
      /\ row'[s] = row[s] \/ (row'[s].number = req[r].seen.number /\ Exists(s)')
  BY <1>1, <1>2 DEF Save, Exists, IInv, TypeOK, Locals, Rows
<1>4. RowsGrow
  BY <1>1, <1>3 DEF RowsGrow, Exists, GhostGrows
<1>5. RowOwn'
  BY <1>1, <1>3 DEF Own, Names, RowOwn, Exists, Senders
<1>6. HeldOwn'
  BY <1>1, <1>4, HeldReturns DEF Own, Names
<1>7. Paths'
  BY <1>1, <1>4, PathsKept DEF Own
<1>8. PhoneOwn' /\ TempLeavesNoTrace'
  BY <1>1, PhoneKept, TempKept DEF Own, Disks
<1>9. SlotOwn'
  BY <1>1, <1>3 DEF Own, Disks, SlotOwn, LoggedIn, Excused, Exists, Senders
<1>10. ProfileBeforeRow'
  BY <1>1, <1>3 DEF Own, Disks, ProfileBeforeRow, Exists, Senders
<1> QED BY <1>5, <1>6, <1>7, <1>8, <1>9, <1>10 DEF Own, Names, Disks

LEMMA RestartOwn ==
  ASSUME IInv, Own, Restart
  PROVE  Own'
<1>1. /\ \A s \in Senders : row'[s].number = row[s].number
      /\ \A s \in Senders : Exists(s)' <=> Exists(s)
      /\ \A s \in Ids : auth'[s] = NoThread
      /\ \A r \in Requests : req'[r] = Idle
      /\ UNCHANGED profile
      /\ GhostGrows /\ \A t \in Temps : profile[t] # None => t \in ghost'.left
  BY DEF Restart, IInv, TypeOK, Rows, Exists, GhostGrows
<1>2. RowsGrow /\ NoNewRow
  BY <1>1 DEF RowsGrow, NoNewRow
<1>3. Names'
  BY <1>1, <1>2, RowOwnKept DEF Own, Names, HeldOwn, Idle
<1>4. Paths'
  BY <1>1 DEF Paths, ExpectsOwn, Moving, HasMoved, Running, NoThread
<1>5. Disks'
  BY <1>1, <1>2, DisksKept DEF Own, TempLeavesNoTrace
<1> QED BY <1>3, <1>4, <1>5 DEF Own

-----------------------------------------------------------------------------
LEMMA InitOwn == Init => Own
  BY DEF Init, Own, Names, RowOwn, HeldOwn, Exists, Paths, ExpectsOwn, Moving, HasMoved, Disks,
     PhoneOwn, SlotOwn, TempLeavesNoTrace, ProfileBeforeRow, Running, LoggedIn, NoThread, Idle,
     NoRow, Fresh, Ids, Senders

LEMMA StepOwn == IInv /\ Own /\ [Next]_vars => Own'
<1> SUFFICES ASSUME IInv, Own, [Next]_vars PROVE Own'
  OBVIOUS
<1>1. CASE OperatorStep
  BY <1>1, ConfigureOwn, CreateOwn, AddOwn, UpdateOwn DEF OperatorStep
<1>2. ASSUME NEW r \in Requests, RequestStep(r) PROVE Own'
  BY <1>2, RequestOwn, StartOwn, ReadOwn, ProbeOwn, WriteBackOwn DEF RequestStep
<1>3. ASSUME NEW s \in Ids, ThreadStep(s) PROVE Own'
  BY <1>3, LaunchOwn, ShowOwn, VerdictOwn, ReuseOwn, ResolveOwn, CloseRaisesOwn,
     RenameOwn, RenameFailsOwn, PersistOwn, CloseOwn DEF ThreadStep
<1>4. ASSUME NEW s \in Ids, PhoneStep(s) PROVE Own'
  BY <1>4, ScanOwn, LogOutOwn DEF PhoneStep
<1>5. CASE UNCHANGED vars
  BY <1>5, OwnKept, HeldKept, RowsSameGrow, GhostSame DEF vars, Own, Names
<1> QED BY <1>1, <1>2, <1>3, <1>4, <1>5, RestartOwn DEF Next

LEMMA OwnInductive == Spec => []Own
<1> QED BY InitOwn, StepOwn, InitInv, StepInv, PTL DEF Spec

\* The row of a number that was authenticated has its profile on disk: the
\* thread moves the profile before it writes the row (session_manager.py), and
\* no crash, failing rename, half merge or later authentication takes it away.
THEOREM RowHasProfile == Spec => []ProfileBeforeRow
<1>1. Own => ProfileBeforeRow
  BY DEF Own, Disks
<1> QED BY <1>1, OwnInductive, PTL

\* The profile of a sender that has a number is logged in to that number or to
\* none, whatever rows are written back late and whatever profiles are moved or
\* merged, unless a person scanned its code with another phone or gave it
\* another number than it had or is named for.
THEOREM ProfileIsOfItsNumber == Spec => []OwnNumber
<1>1. Own => OwnNumber
  <2> SUFFICES ASSUME Own, NEW s \in Senders, Exists(s), row[s].number # None, LoggedIn(s),
                      s \notin ghost.strayed \cup ghost.mislabelled
               PROVE  profile[s] = row[s].number
    BY DEF OwnNumber
  <2>1. CASE s \in Phones
    BY <2>1 DEF Own, Names, RowOwn, Disks, PhoneOwn, Excused
  <2>2. CASE s \in Slots
    BY <2>2 DEF Own, Disks, SlotOwn, Excused
  <2> QED BY <2>1, <2>2 DEF Senders
<1> QED BY <1>1, OwnInductive, PTL

\* An abandoned temporary session leaves no directory, on every path its thread
\* can end on: a timeout, a rejection, a failure before or after the decision
\* to persist it, a success.  The directory is there only of a session for which
\* clearing it away failed, or was never reached: the thread died before its
\* try, its profile could not be moved, or the process went down.
THEOREM AbandonedLeavesNothing == Spec => []TempLeavesNoTrace
<1>1. Own => TempLeavesNoTrace
  BY DEF Own, Disks
<1> QED BY <1>1, OwnInductive, PTL
=============================================================================
