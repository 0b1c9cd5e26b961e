--------------------------- MODULE SenderSessions ---------------------------
(***************************************************************************)
(* WhatsApp senders: their rows of sender_accounts, the browser profiles   *)
(* on disk, the in-memory registry and the background threads that         *)
(* authenticate a profile by QR code.  Requests of the API, these threads, *)
(* the person who scans the codes and crashes interleave.                  *)
(*                                                                         *)
(* A database session is one step, but for the two that hold a row they    *)
(* have read while something slow happens: the health check (it opens a    *)
(* browser) and the bookkeeping after a send.  Both write the whole row    *)
(* back.                                                                   *)
(***************************************************************************)
EXTENDS Naturals, FiniteSets

CONSTANTS
  Phones,     \* phone numbers; wa_<number> is named as the number itself
  Slots,      \* placeholder senders WA_SESSION_i, or ids an operator chose
  Temps,      \* tmp_auth_<uuid> ids (bounds the number of new sessions)
  Typed,      \* the identities operators type in (see Identities)
  Requests,   \* request and dispatch threads
  MaxFaults,  \* bound on failing renames, inserts and browsers
  MaxCrashes, \* bound on process crashes
  MaxCalls    \* bound on API calls, dispatches and unlinked devices

None  == "NONE"
Blank == "BLANK"

\* An identity is a number and the way it is spelled: as bare digits, which is
\* what an authentication stores, or in any other way, '+91...'.  The number
\* None is the empty identity.
Spellings  == {"digits", "other"}
Identities == [number : Phones \cup {None}, spelling : Spellings]

ASSUME SenderAssumption ==
  /\ Phones \cap Slots = {} /\ Phones \cap Temps = {} /\ Slots \cap Temps = {}
  /\ {None, Blank} \cap Phones = {}
  /\ Typed \subseteq Identities
  /\ {MaxFaults, MaxCrashes, MaxCalls} \subseteq Nat

Senders == Phones \cup Slots   \* ids that can have a row
Ids     == Senders \cup Temps

\* SenderStatus up to what the session code writes.
Statuses == {"ABSENT", "AUTH_REQUIRED", "AUTHENTICATING", "QR_REQUIRED",
             "ACTIVE", "INACTIVE", "ERROR"}

Rows  == [status : Statuses, number : Phones \cup {None}, spelling : Spellings]
Fresh(status, n) == [status |-> status, number |-> n, spelling |-> "digits"]
NoRow == Fresh("ABSENT", None)

VARIABLES
  row,      \* sender -> its row
  profile,  \* id -> no directory, a browser that is logged out, or the number
            \* it is logged in to
  known,    \* ids with a state in the auth registry (others answer 404)
  auth,     \* id -> its authentication thread
  req,      \* request -> its local variables
  ghost,    \* sets the properties speak of:
            \*   strayed     senders whose code another phone scanned
            \*   mislabelled senders an operator gave another number than they
            \*               had or are named for, and what moved from such a one
            \*   unbacked    numbers whose row or lost profile nobody backed
            \*   left        sessions whose directory was not cleared away
            \*   mute        threads that ended without a verdict in the row
  faults, crashes, calls

vars == <<row, profile, known, auth, req, ghost, faults, crashes, calls>>

\* A thread: where it is, the number it must find (existing_phone), and the
\* number it is to persist (pending_persist).
Stages   == {"none", "launching", "waiting", "shown", "persisting", "failed",
             "renamed", "closing"}
Threads  == [at : Stages, expect : Phones \cup {None}, found : Phones \cup {None}]
NoThread == [at |-> "none", expect |-> None, found |-> None]

\* A request: what it does, for which id, and the row it has read.
Labels  == {"idle", "starting", "probing", "saving", "using"}
Locals  == [pc : Labels, id : Ids \cup {None}, seen : Rows,
            status : Statuses]
Idle    == [pc |-> "idle", id |-> None, seen |-> NoRow, status |-> "ABSENT"]
Doing(label, s, seen) == [pc |-> label, id |-> s, seen |-> seen, status |-> "ABSENT"]

Exists(s)   == row[s].status # "ABSENT"
LoggedIn(s) == profile[s] \in Phones
Running(s)  == auth[s].at # "none"

Goto(s, stage) == auth' = [auth EXCEPT ![s].at = stage]
Dies(s)        == auth' = [auth EXCEPT ![s] = NoThread]
Return(r)      == req' = [req EXCEPT ![r] = Idle]

\* An API call or a dispatch begins, or somebody unlinks a device.
Call == calls < MaxCalls /\ calls' = calls + 1

-----------------------------------------------------------------------------
(***************************************************************************)
(* Rows.  uq_sender_channel_identity refuses a second row with an identity *)
(* that is spelled the same.                                               *)
(***************************************************************************)
Taken(s, r) ==
  /\ r.number # None
  /\ \E u \in Senders \ {s} :
       Exists(u) /\ row[u].number = r.number /\ row[u].spelling = r.spelling

\* save: the whole row is written, or inserted; an IntegrityError leaves it.
Save(s, r) == row' = IF Taken(s, r) THEN row ELSE [row EXCEPT ![s] = r]

\* A temporary id has no row to update.
SetStatus(s, status) ==
  row' = IF s \in Senders /\ Exists(s) THEN [row EXCEPT ![s].status = status] ELSE row

\* The thread's callback swallows an exception of the write.
Callback(s, status) == SetStatus(s, status) \/ UNCHANGED row

\* The callback with which a thread ends.
\* Mutant: it does not write the verdict of a failure.
VerdictOfSuccess(s, status) ==
  IF status = "ERROR" THEN UNCHANGED <<row, ghost>> ELSE SetStatus(s, status) /\ UNCHANGED ghost

Verdict(s, status) ==
  \/ SetStatus(s, status) /\ UNCHANGED ghost
  \/ UNCHANGED row /\ ghost' = [ghost EXCEPT !.mute = @ \cup {s}]

(***************************************************************************)
(* Operators: placeholders, new sessions, status changes.                  *)
(***************************************************************************)
ConfigureSessions ==
  /\ Call
  /\ \E s \in Slots : ~Exists(s)
  /\ row' = [s \in Senders |-> IF s \in Slots /\ ~Exists(s)
               THEN Fresh("AUTH_REQUIRED", None) ELSE row[s]]
  /\ known' = known \cup {s \in Slots : ~Exists(s)}
  /\ UNCHANGED <<profile, auth, req, ghost, faults, crashes>>

\* Any id with any identity, ACTIVE unless told otherwise, written over the row
\* of that id if there is one: nothing ties an id wa_<number> to its number.
CreateSender(s, i) ==
  LET r == [status |-> "ACTIVE", number |-> i.number, spelling |-> i.spelling]
      another == \/ Exists(s) /\ r.number # row[s].number
                 \/ s \in Phones /\ r.number # s
  IN
  /\ Call
  /\ ~Taken(s, r)
  /\ row' = [row EXCEPT ![s] = r]
  /\ ghost' = [ghost EXCEPT !.unbacked = @ \cup ({s} \cap Phones),
                            !.mislabelled = IF another THEN @ \cup {s} ELSE @]
  /\ UNCHANGED <<profile, known, auth, req, faults, crashes>>

AddSession(t) ==
  /\ Call
  /\ t \notin known /\ ~Running(t) /\ profile[t] = None   \* uuid4: a fresh id
  /\ known' = known \cup {t}
  /\ UNCHANGED <<row, profile, auth, req, ghost, faults, crashes>>

\* Deactivate, reactivate, remove (which deactivates) and the plain update.
UpdateStatus(s, status) ==
  /\ Call
  /\ Exists(s)
  /\ SetStatus(s, status)
  /\ known' = known \cup {s}
  /\ UNCHANGED <<profile, auth, req, ghost, faults, crashes>>

(***************************************************************************)
(* Authentication, the request: the row is AUTHENTICATING before anybody   *)
(* has looked for a thread that is still alive.                            *)
(***************************************************************************)
RequestAuthentication(r, s) ==
  /\ Call
  /\ req[r].pc = "idle"
  /\ s \in Senders => Exists(s)
  /\ req' = [req EXCEPT ![r] =
       Doing("starting", s, IF s \in Senders THEN row[s] ELSE NoRow)]
  /\ SetStatus(s, "AUTHENTICATING")
  /\ UNCHANGED <<profile, known, auth, ghost, faults, crashes>>

\* Mutant: the number of the row is not handed to the thread.
StartExpectingNobody(r) ==
  LET s == req[r].id
  IN  /\ req[r].pc = "starting"
      /\ IF Running(s)
         THEN UNCHANGED <<row, known, auth, ghost>>
         ELSE /\ Callback(s, "AUTHENTICATING")
              /\ known' = known \cup {s}
              /\ auth' = [auth EXCEPT ![s] =
                   [at |-> "launching", expect |-> None, found |-> None]]
              /\ ghost' = [ghost EXCEPT !.mute = @ \ {s}]
      /\ Return(r)
      /\ UNCHANGED <<profile, faults, crashes, calls>>

StartQrAuthentication(r) ==
  LET s == req[r].id
  IN  /\ req[r].pc = "starting"
      /\ IF Running(s)
         THEN UNCHANGED <<row, known, auth, ghost>>
         ELSE /\ Callback(s, "AUTHENTICATING")
              /\ known' = known \cup {s}
              /\ auth' = [auth EXCEPT ![s] =
                   [at |-> "launching", expect |-> req[r].seen.number, found |-> None]]
              /\ ghost' = [ghost EXCEPT !.mute = @ \ {s}]
      /\ Return(r)
      /\ UNCHANGED <<profile, faults, crashes, calls>>

-----------------------------------------------------------------------------
(***************************************************************************)
(* Authentication, the thread.                                             *)
(***************************************************************************)
Opened(s) == [profile EXCEPT ![s] = IF @ = None THEN Blank ELSE @]

LaunchBrowser(s) ==
  /\ auth[s].at = "launching"
  /\ profile' = Opened(s)
  /\ Goto(s, "waiting")
  /\ UNCHANGED <<row, known, req, ghost, faults, crashes, calls>>

\* The directory, or user.js in it, cannot be written: that is before the try,
\* and the thread dies without a verdict.
OpenFails(s) ==
  /\ faults < MaxFaults /\ faults' = faults + 1
  /\ auth[s].at = "launching"
  /\ profile' \in {profile, Opened(s)}
  /\ ghost' = [ghost EXCEPT !.mute = @ \cup {s}, !.left = @ \cup ({s} \cap Temps)]
  /\ Dies(s)
  /\ UNCHANGED <<row, known, req, crashes, calls>>

ShowQrCode(s) ==
  /\ auth[s].at = "waiting" /\ ~LoggedIn(s)
  /\ Callback(s, "QR_REQUIRED")
  /\ known' = known \cup {s}
  /\ Goto(s, "shown")
  /\ UNCHANGED <<profile, req, ghost, faults, crashes, calls>>

\* Somebody scans the code with the phone p.
Scan(s, p) ==
  /\ auth[s].at = "shown" /\ profile[s] = Blank
  /\ profile' = [profile EXCEPT ![s] = p]
  /\ ghost' = IF auth[s].expect \in Phones \ {p}
              THEN [ghost EXCEPT !.strayed = @ \cup {s}] ELSE ghost
  /\ UNCHANGED <<row, known, auth, req, faults, crashes, calls>>

\* Somebody unlinks the device.
LogOut(s) ==
  /\ Call
  /\ LoggedIn(s)
  /\ profile' = [profile EXCEPT ![s] = Blank]
  /\ UNCHANGED <<row, known, auth, req, ghost, faults, crashes>>

\* remove_session_dir swallows an OSError, and the browser may still have the
\* directory open.  What is lost with it are the numbers of a session that was
\* about to be moved.
RemoveDir(s, lost) ==
  \/ /\ profile' = [profile EXCEPT ![s] = None]
     /\ ghost' = [ghost EXCEPT !.left = @ \ {s}, !.unbacked = @ \cup lost]
  \/ /\ profile[s] # None /\ UNCHANGED profile
     /\ ghost' = [ghost EXCEPT !.left = @ \cup {s}]

\* How a thread ends that has nothing to persist: the row gets the verdict, or
\* a temporary session loses its directory and its registry entry.
\* Mutant: the directory of a temporary session is left behind.
EndsWithDirectory(s, status) ==
  IF s \in Temps
  THEN known' = known \ {s} /\ Dies(s) /\ UNCHANGED <<row, profile, ghost>>
  ELSE /\ Verdict(s, status)
       /\ known' = known \cup {s}
       /\ Goto(s, "closing")
       /\ UNCHANGED profile

Ends(s, status) ==
  IF s \in Temps
  THEN /\ RemoveDir(s, {})
       /\ known' = known \ {s}
       /\ Dies(s)
       /\ UNCHANGED row
  ELSE /\ Verdict(s, status)
       /\ known' = known \cup {s}
       /\ Goto(s, "closing")
       /\ UNCHANGED profile

\* No browser, no number in its local storage, or any exception.
AuthenticationFails(s) ==
  /\ faults < MaxFaults /\ faults' = faults + 1
  /\ auth[s].at \in {"launching", "waiting", "shown"}
  /\ Ends(s, "ERROR")
  /\ UNCHANGED <<req, crashes, calls>>

QrTimeout(s) ==
  /\ auth[s].at \in {"waiting", "shown"}
  /\ Ends(s, "AUTH_REQUIRED")
  /\ UNCHANGED <<req, faults, crashes, calls>>

Detects(s) == auth[s].at \in {"waiting", "shown"} /\ LoggedIn(s)

\* Another number than the sender's, or a new one that has a sender already.
Reject(s) ==
  /\ Detects(s)
  /\ IF auth[s].expect # None THEN profile[s] # auth[s].expect
                              ELSE Exists(profile[s])
  /\ Ends(s, "ERROR")
  /\ UNCHANGED <<req, faults, crashes, calls>>

Reuse(s) ==
  /\ Detects(s) /\ profile[s] = auth[s].expect
  /\ Verdict(s, "ACTIVE")
  /\ known' = known \cup {s}
  /\ Goto(s, "closing")
  /\ UNCHANGED <<profile, req, faults, crashes, calls>>

\* Mutant: the row is written as soon as the number is known.
ResolveNewAndInsert(s) ==
  /\ Detects(s) /\ auth[s].expect = None /\ ~Exists(profile[s])
  /\ auth' = [auth EXCEPT ![s].at = "persisting", ![s].found = profile[s]]
  /\ Save(profile[s], Fresh("ACTIVE", profile[s]))
  /\ UNCHANGED <<profile, known, req, ghost, faults, crashes, calls>>

\* The decision; the browser is closed before the directory is moved.
ResolveNew(s) ==
  /\ Detects(s) /\ auth[s].expect = None /\ ~Exists(profile[s])
  /\ auth' = [auth EXCEPT ![s].at = "persisting", ![s].found = profile[s]]
  /\ UNCHANGED <<row, profile, known, req, ghost, faults, crashes, calls>>

\* Closing it raises: the verdict is a failure, and a temporary session loses
\* its directory, but the decision to persist stands.
CloseRaises(s) ==
  /\ faults < MaxFaults /\ faults' = faults + 1
  /\ auth[s].at = "persisting"
  /\ IF s \in Temps
     THEN RemoveDir(s, {auth[s].found}) /\ known' = known \ {s} /\ UNCHANGED row
     ELSE Verdict(s, "ERROR") /\ known' = known \cup {s} /\ UNCHANGED profile
  /\ Goto(s, "failed")
  /\ UNCHANGED <<req, crashes, calls>>

\* The directory is renamed, or merged into one that is already there, and then
\* removed unless that fails; without a directory there is nothing to rename.
RenameProfile(s) ==
  LET p == auth[s].found
      moved == IF s \in Phones THEN {p} ELSE {}
  IN  /\ auth[s].at \in {"persisting", "failed"}
      /\ \/ profile[s] = None /\ UNCHANGED <<profile, ghost>>
         \/ /\ profile[s] # None
            /\ profile' = [profile EXCEPT ![p] = profile[s], ![s] = None]
            /\ ghost' = [ghost EXCEPT !.mislabelled = @ \cup moved, !.left = @ \ {s}]
         \/ /\ profile[s] # None /\ profile[p] # None
            /\ profile' = [profile EXCEPT ![p] = profile[s]]
            /\ ghost' = [ghost EXCEPT !.mislabelled = @ \cup moved,
                                      !.left = @ \cup ({s} \cap Temps)]
      /\ known' = known \cup {p, s}
      /\ Goto(s, "renamed")
      /\ UNCHANGED <<row, req, faults, crashes, calls>>

\* It cannot be moved, or is merged in part only: the thread ends there.
RenameFails(s) ==
  LET p == auth[s].found
  IN  /\ faults < MaxFaults /\ faults' = faults + 1
      /\ auth[s].at \in {"persisting", "failed"} /\ profile[s] # None
      /\ \/ UNCHANGED profile
         \/ /\ profile[p] # None
            /\ \E half \in {profile[s], Blank} : profile' = [profile EXCEPT ![p] = half]
      /\ ghost' = [ghost EXCEPT !.left = @ \cup ({s} \cap Temps),
                                !.mislabelled = @ \cup (IF s \in Phones THEN {p} ELSE {})]
      /\ Dies(s)
      /\ UNCHANGED <<row, known, req, crashes, calls>>

\* A failing insert only changes what the registry says of s.
PersistSender(s) ==
  /\ auth[s].at = "renamed"
  /\ Save(auth[s].found, Fresh("ACTIVE", auth[s].found))
  /\ Dies(s)
  /\ UNCHANGED <<profile, known, req, ghost, faults, crashes, calls>>

PersistFails(s) ==
  /\ faults < MaxFaults /\ faults' = faults + 1
  /\ auth[s].at = "renamed"
  /\ Dies(s)
  /\ UNCHANGED <<row, profile, known, req, ghost, crashes, calls>>

\* The browser is closed after the verdict; until then the thread is alive.
BrowserCloses(s) ==
  /\ auth[s].at = "closing"
  /\ Dies(s)
  /\ UNCHANGED <<row, profile, known, req, ghost, faults, crashes, calls>>

\* Closing it raises: the verdict is taken back.
BrowserCloseRaises(s) ==
  /\ faults < MaxFaults /\ faults' = faults + 1
  /\ auth[s].at = "closing"
  /\ Verdict(s, "ERROR")
  /\ known' = known \cup {s}
  /\ Dies(s)
  /\ UNCHANGED <<profile, req, crashes, calls>>

-----------------------------------------------------------------------------
(***************************************************************************)
(* Rows that are read, held and written back.                              *)
(***************************************************************************)
CheckHealth(r, s) ==
  /\ Call
  /\ req[r].pc = "idle" /\ Exists(s)
  /\ req' = [req EXCEPT ![r] = Doing("probing", s, row[s])]
  /\ profile' = Opened(s)
  /\ UNCHANGED <<row, known, auth, ghost, faults, crashes>>

\* What a probe may report; "DISCONNECTED" leaves the row as it was.
ProbeResults(s) ==
  IF LoggedIn(s) THEN {"ACTIVE", "AUTH_REQUIRED", "DISCONNECTED"}
                 ELSE {"QR_REQUIRED", "AUTH_REQUIRED", "DISCONNECTED"}

\* Mutant: every result of the probe is taken for a status.
ProbeSavesAnything(r, status) ==
  LET s == req[r].id
  IN  /\ req[r].pc = "probing" /\ status \in ProbeResults(s)
      /\ known' = known \cup {s}
      /\ req' = [req EXCEPT ![r] = IF status = @.seen.status THEN Idle
           ELSE [@ EXCEPT !.pc = "saving", !.status = status]]
      /\ UNCHANGED <<row, profile, auth, ghost, faults, crashes, calls>>

Probe(r, status) ==
  LET s == req[r].id
  IN  /\ req[r].pc = "probing" /\ status \in ProbeResults(s)
      /\ known' = known \cup {s}
      /\ req' = [req EXCEPT ![r] =
           IF status \in {"DISCONNECTED", @.seen.status} THEN Idle
           ELSE [@ EXCEPT !.pc = "saving", !.status = status]]
      /\ UNCHANGED <<row, profile, auth, ghost, faults, crashes, calls>>

SaveProbe(r) ==
  /\ req[r].pc = "saving"
  /\ Save(req[r].id, [req[r].seen EXCEPT !.status = req[r].status])
  /\ Return(r)
  /\ UNCHANGED <<profile, known, auth, ghost, faults, crashes, calls>>

\* PostSendResolver reads the sender of an attempt ...
ReadSender(r, s) ==
  /\ Call
  /\ req[r].pc = "idle" /\ Exists(s)
  /\ req' = [req EXCEPT ![r] = Doing("using", s, row[s])]
  /\ UNCHANGED <<row, profile, known, auth, ghost, faults, crashes>>

\* ... and saves it with the time of the send or, when the provider answered
\* that the session is dead, as AUTH_REQUIRED.
SaveUsage(r, status) ==
  /\ req[r].pc = "using" /\ status \in {req[r].seen.status, "AUTH_REQUIRED"}
  /\ Save(req[r].id, [req[r].seen EXCEPT !.status = status])
  /\ Return(r)
  /\ UNCHANGED <<profile, known, auth, ghost, faults, crashes, calls>>

-----------------------------------------------------------------------------
\* The process dies and starts again; reconcile_sender_states takes back what
\* is ACTIVE without a profile.  The registry is empty by then.
Restart ==
  /\ crashes < MaxCrashes /\ crashes' = crashes + 1
  /\ row' = [s \in Senders |->
       IF row[s].status = "ACTIVE" /\ profile[s] = None
       THEN [row[s] EXCEPT !.status = "AUTH_REQUIRED"] ELSE row[s]]
  /\ known' = {}
  /\ auth' = [s \in Ids |-> NoThread]
  /\ req' = [r \in Requests |-> Idle]
  /\ ghost' = [ghost EXCEPT !.left = @ \cup {t \in Temps : profile[t] # None}]
  /\ UNCHANGED <<profile, faults, calls>>

Init ==
  /\ row = [s \in Senders |-> NoRow]
  /\ profile = [s \in Ids |-> None]
  /\ known = {}
  /\ auth = [s \in Ids |-> NoThread]
  /\ req = [r \in Requests |-> Idle]
  /\ ghost = [strayed |-> {}, mislabelled |-> {}, unbacked |-> {}, left |-> {}, mute |-> {}]
  /\ faults = 0 /\ crashes = 0 /\ calls = 0

OperatorStep ==
  \/ ConfigureSessions
  \/ \E s \in Senders, i \in Typed : CreateSender(s, i)
  \/ \E t \in Temps : AddSession(t)
  \/ \E s \in Senders, status \in {"ACTIVE", "INACTIVE"} : UpdateStatus(s, status)

RequestStep(r) ==
  \/ \E s \in Ids : RequestAuthentication(r, s)
  \/ StartQrAuthentication(r)
  \/ \E s \in Senders : CheckHealth(r, s) \/ ReadSender(r, s)
  \/ \E status \in Statuses \cup {"DISCONNECTED"} : Probe(r, status)
  \/ \E status \in Statuses : SaveUsage(r, status)
  \/ SaveProbe(r)

ThreadStep(s) ==
  \/ LaunchBrowser(s) \/ OpenFails(s) \/ ShowQrCode(s)
  \/ AuthenticationFails(s) \/ QrTimeout(s)
  \/ Reject(s) \/ Reuse(s) \/ ResolveNew(s)
  \/ CloseRaises(s) \/ RenameProfile(s) \/ RenameFails(s)
  \/ PersistSender(s) \/ PersistFails(s)
  \/ BrowserCloses(s) \/ BrowserCloseRaises(s)

PhoneStep(s) == LogOut(s) \/ \E p \in Phones : Scan(s, p)

Next ==
  \/ OperatorStep
  \/ \E r \in Requests : RequestStep(r)
  \/ \E s \in Ids : ThreadStep(s) \/ PhoneStep(s)
  \/ Restart

Spec == Init /\ [][Next]_vars

\* Threads are scheduled, and every wait of theirs has a deadline.  Each step of
\* the thread of s changes auth[s].
FairSpec == Spec /\ \A s \in Ids : WF_(auth[s])(ThreadStep(s))

-----------------------------------------------------------------------------
\* The type invariant of the sender sessions.
TypeOK ==
  /\ row \in [Senders -> Rows]
  /\ profile \in [Ids -> Phones \cup {None, Blank}]
  /\ known \in SUBSET Ids
  /\ auth \in [Ids -> Threads]
  /\ req \in [Requests -> Locals]
  /\ ghost \in [strayed : SUBSET Ids, mislabelled : SUBSET Senders,
                unbacked : SUBSET Phones, left : SUBSET Temps, mute : SUBSET Ids]
  /\ faults \in 0..MaxFaults /\ crashes \in 0..MaxCrashes /\ calls \in 0..MaxCalls

\* "NEVER written to the database" before its profile is in place: the row of
\* an authenticated number has its profile on disk, whatever crashes, failed
\* renames and later authentications come in between.  The ways out: a row the
\* operator makes by hand, and a browser that raises while it is closed.
ProfileBeforeRow ==
  \A p \in Phones : Exists(p) => profile[p] # None \/ p \in ghost.unbacked

\* The profile of a sender with a number is logged in to that number, or to
\* none: racing authentications, moving and merging profiles, and rows written
\* back late never mix two accounts up.  The ways out are of a person's making:
\* a re-authentication that somebody scans with another phone (it is rejected,
\* but the profile stays logged in to that phone), and a sender that an operator
\* gave another number than it had or is named for.
OwnNumber ==
  \A s \in Senders :
    /\ Exists(s) /\ row[s].number # None /\ LoggedIn(s)
    /\ s \notin ghost.strayed \cup ghost.mislabelled
    => profile[s] = row[s].number

\* "Abandoned temporary sessions leave no trace": a temporary id whose thread
\* has ended, on whatever path, has no directory left, unless the last attempt
\* to clear it away failed or nobody lived to make one.
TempLeavesNoTrace ==
  \A t \in Temps : ~Running(t) /\ t \notin ghost.left => profile[t] = None

\* An authentication of a sender with a number comes to a verdict in its row: it
\* does not stay AUTHENTICATING or wait for a scan for ever, unless the process
\* dies under it, the write of the verdict fails, or the profile's directory
\* cannot be written.
AuthenticationSettles ==
  \A s \in Senders : auth[s].at = "launching" /\ auth[s].expect # None ~>
    \/ crashes > 0 \/ s \in ghost.mute
    \/ row[s].status \notin {"AUTHENTICATING", "QR_REQUIRED"}
=============================================================================
