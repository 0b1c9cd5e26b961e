---------------------------- MODULE ContactDesk -----------------------------
(***************************************************************************)
(* The contacts: the synchronisation of a source file into them, the CRM   *)
(* operations, follow-up reminders, archiving with its tombstones, and the *)
(* bookkeeping after a send, as requests that interleave.                  *)
(*                                                                         *)
(* A request reads what it works on in one step and writes it in a later   *)
(* one: save reads the row again but overwrites every column with what the *)
(* request holds, and inserts it if it is gone.  The first write of a      *)
(* transaction takes SQLite's write lock until the commit; what others     *)
(* read meanwhile is what they could have read just before.                *)
(***************************************************************************)
EXTENDS Naturals, FiniteSets, SequencesExt, Subsequences

CONSTANTS
  Ids,        \* contact ids
  Names,      \* company names as a source writes them
  CompanyOf,  \* name -> the normalised name, a member of Names itself
  Phones, Emails,
  Files,      \* source files: sequences of rows
  Imported,   \* the contacts there may be at the start
  Requests,   \* request, scheduler and synchronisation threads
  MaxTime,    \* bound on the clock, in units of the follow-up threshold
  MaxCalls    \* bound on requests

None  == "NONE"
Never == MaxTime + 1   \* a time that has not come

\* REPLIED stands for the outcomes that nothing here tells apart.
Outcomes   == {"NONE", "PENDING_REPLY", "REPLIED", "INTERESTED", "NOT_INTERESTED", "OFFER"}
Interviews == {"NOT_APPLICABLE", "PENDING", "INTERVIEW", "NOT_INTERVIEW"}

\* Comma-joined columns are sequences; since is interested_at; dnc is the tag
\* do_not_contact.  What the properties do not tell apart is left out.
Contacts ==
  [company : Names, phones : Seq(Phones), emails : Seq(Emails),
   outcome : Outcomes, interview : Interviews,
   since : 0..Never, dnc : BOOLEAN]

NoContact == [company |-> None]
Listings  == [Ids -> Contacts \cup {NoContact}]

\* A row of a source file, as far as it is a contact.
Rows == [name : Names, phones : Seq(Phones), emails : Seq(Emails)]

Company(row) == CompanyOf[row.name]

Fresh(row) ==
  [company |-> Company(row), phones |-> row.phones, emails |-> row.emails,
   outcome |-> "NONE", interview |-> "NOT_APPLICABLE", since |-> Never, dnc |-> FALSE]

ASSUME DeskAssumption ==
  /\ CompanyOf \in [Names -> Names] /\ None \notin Names \cup Ids \cup Requests
  /\ Files \subseteq Seq(Rows) /\ Imported \subseteq Listings
  /\ {MaxTime, MaxCalls} \subseteq Nat /\ IsFiniteSet(Requests)

VARIABLES
  contact,  \* id -> its row of contacts
  tombs,    \* suppression_records: the identifiers
  pending,  \* id -> its PENDING reminders, each known by the call that made it
  req,      \* request -> its local variables
  lock,     \* the synchronisation that has SQLite's write lock, or None
  now,      \* the clock
  raced,    \* contacts that were written from a stale read (ghost)
  late,     \* contacts with a reminder that two overlapping requests left (ghost)
  calls

vars == <<contact, tombs, pending, req, lock, now, raced, late, calls>>

Exists(c) == contact[c] # NoContact

\* Locals: reminders are those an operation has found, or the one a generation
\* would insert, view is what was listed, rows what is left of the file, ids the
\* contacts a generation has still to look up or a synchronisation has saved,
\* base what a rollback returns to.
Labels == {"idle", "looking", "writing", "archiving", "syncing", "saving", "generating",
           "inserting"}
Idle   == [pc |-> "idle", id |-> None, op |-> None, seen |-> NoContact, reminders |-> {},
           view |-> <<>>, rows |-> <<>>, ids |-> {}, base |-> <<>>]

Free     == lock = None
Begin(r, local) == /\ Free /\ req[r].pc = "idle"
                   /\ calls < MaxCalls /\ calls' = calls + 1
                   /\ req' = [req EXCEPT ![r] = local]
Return(r)       == req' = [req EXCEPT ![r] = Idle]

\* save: the whole row, whatever it has become since it was read.
Save(c, seen, k) ==
  /\ contact' = [contact EXCEPT ![c] = k]
  /\ raced' = IF contact[c] = seen THEN raced ELSE raced \cup {c}

-----------------------------------------------------------------------------
(***************************************************************************)
(* CRM: update_status, the mark_ operations, notes, and a delivery that is *)
(* recorded in its contact.  update_status looks the reminders up before   *)
(* it writes anything, so without the lock; what it writes is then one     *)
(* transaction.  The mark_ operations save first and look with the lock.   *)
(***************************************************************************)
LooksFirst == {"NOT_INTERESTED", "DO_NOT_CONTACT", "INTERVIEW", "REJECTED"}
SavesFirst == {"MARK_NOT_INTERESTED", "MARK_INTERVIEW", "MARK_NOT_INTERVIEW"}
Outright   == {"NONE", "PENDING_REPLY", "REPLIED"}
Operations == LooksFirst \cup SavesFirst \cup Outright \cup {"INTERESTED", "OFFER", "NOTES", "SENT"}

\* Those that complete the contact's pending reminders.
\* Mutant: a refusal leaves the reminder.
CompletesAllButRefusal(op) == op \in (LooksFirst \cup SavesFirst) \ {"NOT_INTERESTED"}

Completes(op) == op \in LooksFirst \cup SavesFirst

\* Mutant: the outcome is written into the interview column.
InterestedAsInterview(k) ==
  IF k.outcome = "INTERESTED" THEN k
  ELSE [k EXCEPT !.outcome = "INTERESTED", !.interview = "INTERESTED",
                 !.since = IF @ = Never THEN now ELSE @]

\* update_crm_outcome(INTERESTED).
Interested(k) ==
  IF k.outcome = "INTERESTED" THEN k
  ELSE [k EXCEPT !.outcome = "INTERESTED",
                 !.since = IF @ = Never THEN now ELSE @,
                 !.interview = IF @ = "NOT_APPLICABLE" THEN "PENDING" ELSE @]

After(op, k) ==
  CASE op \in Outright        -> [k EXCEPT !.outcome = op]
    [] op = "INTERESTED"      -> Interested(k)
    [] op \in {"NOT_INTERESTED", "MARK_NOT_INTERESTED"} -> [k EXCEPT !.outcome = "NOT_INTERESTED"]
    [] op = "DO_NOT_CONTACT"  -> [k EXCEPT !.outcome = "NOT_INTERESTED", !.dnc = TRUE]
    [] op = "INTERVIEW"       -> [Interested(k) EXCEPT !.interview = op]
    [] op = "OFFER"           -> [k EXCEPT !.outcome = op, !.interview = "INTERVIEW"]
    [] op \in {"REJECTED", "MARK_NOT_INTERVIEW"} -> [k EXCEPT !.interview = "NOT_INTERVIEW"]
    [] op = "MARK_INTERVIEW"  -> [k EXCEPT !.interview = "INTERVIEW"]
    [] op = "SENT"            -> [k EXCEPT !.outcome = IF @ = "NONE" THEN "PENDING_REPLY" ELSE @]
    [] op = "NOTES"           -> k

ReadContact(r, c, op) ==
  /\ Exists(c)
  /\ Begin(r, [Idle EXCEPT !.pc = IF op \in LooksFirst THEN "looking" ELSE "writing",
                           !.id = c, !.op = op, !.seen = contact[c]])
  /\ UNCHANGED <<contact, tombs, pending, lock, now, raced, late>>

FindReminders(r) ==
  /\ Free /\ req[r].pc = "looking"
  /\ LET l == req[r]
     IN  req' = [req EXCEPT ![r] = [l EXCEPT !.pc = "writing", !.reminders = pending[l.id]]]
  /\ UNCHANGED <<contact, tombs, pending, lock, now, raced, late, calls>>

\* The reminders that are completed: those found, or all there are by then.
Settled(l) == IF ~Completes(l.op) THEN {}
              ELSE IF l.op \in SavesFirst THEN pending[l.id] ELSE l.reminders

WriteContact(r) ==
  LET l    == req[r]
      c    == l.id
      left == pending[c] \ Settled(l)
  IN  /\ Free /\ l.pc = "writing"
      /\ Exists(c) \/ l.reminders = {}
      /\ Save(c, l.seen, After(l.op, l.seen))
      /\ pending' = [pending EXCEPT ![c] = left]
      /\ late' = IF left = {} THEN late \ {c}
                 ELSE IF contact[c] # l.seen \/ Completes(l.op) THEN late \cup {c} ELSE late
      /\ Return(r)
      /\ UNCHANGED <<tombs, lock, now, calls>>

\* The reminders found went with their contact: they would be inserted again,
\* and have no contact to belong to.
CompletionFails(r) ==
  /\ Free /\ req[r].pc = "writing"
  /\ ~Exists(req[r].id) /\ req[r].reminders # {}
  /\ Return(r)
  /\ UNCHANGED <<contact, tombs, pending, lock, now, raced, late, calls>>

-----------------------------------------------------------------------------
(***************************************************************************)
(* Archiving: every phone, every e-mail and the canonical key get a        *)
(* tombstone, and the row is deleted with its reminders.                   *)
(***************************************************************************)
Target(k) == IF k.phones # <<>> THEN k.phones[1]
             ELSE IF k.emails # <<>> THEN k.emails[1] ELSE None

\* canonical_key; a contact without an address has one that nobody shares.
Key(company, k) == <<company, Target(k)>>

ReadToArchive(r, c) ==
  /\ Exists(c)
  /\ Begin(r, [Idle EXCEPT !.pc = "archiving", !.id = c, !.seen = contact[c]])
  /\ UNCHANGED <<contact, tombs, pending, lock, now, raced, late>>

Archive(r) ==
  LET k == req[r].seen
  IN  /\ Free /\ req[r].pc = "archiving"
      /\ tombs' = tombs \cup ToSet(k.phones) \cup ToSet(k.emails)
                        \cup {Key(k.company, k)}
      /\ contact' = [contact EXCEPT ![req[r].id] = NoContact]
      /\ pending' = [pending EXCEPT ![req[r].id] = {}]
      /\ late' = late \ {req[r].id}
      /\ Return(r)
      /\ UNCHANGED <<lock, now, raced, calls>>

-----------------------------------------------------------------------------
(***************************************************************************)
(* Synchronisation.  view is the list of contacts it began with, and then  *)
(* what it made of them: the objects its phone and e-mail indexes point to.*)
(***************************************************************************)
\* A column with several numbers is compared as one string, and the key holds
\* the name as the source writes it.
Suppressed(row) ==
  \/ Len(row.phones) = 1 /\ row.phones[1] \in tombs
  \/ Len(row.emails) = 1 /\ row.emails[1] \in tombs
  \/ Target(row) # None /\ Key(row.name, row) \in tombs

InView(view) == {c \in Ids : view[c] # NoContact}

\* The contacts that share the first of the addresses that anyone has.
OwnersOf(column, addresses, view) ==
  LET has(i)  == {c \in InView(view) : addresses[i] \in ToSet(view[c][column])}
      matched == {i \in DOMAIN addresses : has(i) # {}}
  IN  IF matched = {} THEN {} ELSE has(CHOOSE i \in matched : \A j \in matched : i <= j)

ByKey(row) ==
  {c \in Ids : /\ Exists(c) /\ Target(row) # None
               /\ Key(contact[c].company, contact[c]) = Key(Company(row), row)}

\* What the indexes know of a row: of several owners the one that was listed
\* first is taken, so any.
Indexed(row, view) ==
  LET byPhone == OwnersOf("phones", row.phones, view)
  IN  IF byPhone # {} THEN byPhone ELSE OwnersOf("emails", row.emails, view)

Matches(row, view) == IF Indexed(row, view) # {} THEN Indexed(row, view) ELSE ByKey(row)

\* What is appended of s to t, each entry once.
NotIn(s, t) ==
  Pick(s, {i \in DOMAIN s : s[i] \notin ToSet(t) /\ \A j \in 1..(i - 1) : s[j] # s[i]})

\* Mutant: the numbers of the source replace those of the contact.
MergeReplacing(k, row) ==
  [k EXCEPT !.phones = IF row.phones = <<>> THEN @ ELSE row.phones,
            !.emails = @ \o NotIn(row.emails, @)]

\* Mutant: the contact is rebuilt from the row.
MergeRebuilding(k, row) ==
  [Fresh(row) EXCEPT !.phones = @ \o NotIn(k.phones, @),
                     !.emails = k.emails \o NotIn(@, k.emails)]

\* The source's numbers come first and the old ones are kept; e-mails are added.
Merge(k, row) ==
  [k EXCEPT !.phones = row.phones \o NotIn(@, row.phones),
            !.emails = @ \o NotIn(row.emails, @)]

\* A workbook's rows are taken once per key, those of a CSV file if they have an
\* address.
SameKey(k, row) == Target(k) # None /\ Key(k.name, k) = Key(row.name, row)

Deduped(file) ==
  Pick(file, {i \in DOMAIN file : \A j \in 1..(i - 1) : ~SameKey(file[j], file[i])})

ParseSourceRows(file) ==
  {Pick(file, {i \in DOMAIN file : Target(file[i]) # None}), Deduped(file)}

ListContacts(r, file) ==
  /\ \E rows \in ParseSourceRows(file) :
       Begin(r, [Idle EXCEPT !.pc = "syncing", !.view = contact, !.rows = rows])
  /\ UNCHANGED <<contact, tombs, pending, lock, now, raced, late>>

Holds(r) == lock \in {None, r}

CheckRow(r) ==
  /\ Holds(r) /\ req[r].pc = "syncing" /\ req[r].rows # <<>>
  /\ req' = IF Suppressed(Head(req[r].rows))
            THEN [req EXCEPT ![r].rows = Tail(@)]
            ELSE [req EXCEPT ![r].pc = "saving"]
  /\ UNCHANGED <<contact, tombs, pending, lock, now, raced, late, calls>>

\* The row's contact is saved and the indexes learn its addresses.
\* Mutant: only the database learns them.
SavedUnindexed(r, c, k) ==
  LET l == req[r]
  IN  /\ req' = [req EXCEPT ![r] =
             [l EXCEPT !.pc = "syncing", !.rows = Tail(@), !.ids = @ \cup {c},
                       !.view[c] = IF @ = NoContact THEN NoContact ELSE k,
                       !.base = IF lock = r THEN @ ELSE contact]]
      /\ lock' = r

Saved(r, c, k) ==
  LET l == req[r]
  IN  /\ req' = [req EXCEPT ![r] =
             [l EXCEPT !.pc = "syncing", !.rows = Tail(l.rows), !.ids = l.ids \cup {c},
                       !.view = [l.view EXCEPT ![c] = k],
                       !.base = IF lock = r THEN l.base ELSE contact]]
      /\ lock' = r

UpdateExisting(r, c) ==
  LET row  == Head(req[r].rows)
      held == IF Indexed(row, req[r].view) # {} THEN req[r].view[c] ELSE contact[c]
  IN  /\ Holds(r) /\ req[r].pc = "saving" /\ c \in Matches(row, req[r].view)
      /\ Save(c, held, Merge(held, row))
      /\ late' = IF contact[c] = held \/ pending[c] = {} THEN late ELSE late \cup {c}
      /\ Saved(r, c, Merge(held, row))
      /\ UNCHANGED <<tombs, pending, now, calls>>

\* A new id: one that no request holds.
CreateContact(r, c) ==
  LET row == Head(req[r].rows)
  IN  /\ Holds(r) /\ req[r].pc = "saving"
      /\ Target(row) # None /\ Matches(row, req[r].view) = {}
      /\ ~Exists(c) /\ c \notin raced
      /\ \A u \in Requests : req[u].id # c /\ (req[u].view # <<>> => req[u].view[c] = NoContact)
      /\ contact' = [contact EXCEPT ![c] = Fresh(row)]
      /\ Saved(r, c, Fresh(row))
      /\ UNCHANGED <<tombs, pending, now, raced, late, calls>>

\* A contact needs an address (ck_contacts_reachable).  The insert without one
\* ends the transaction: the later rows and the commit raise as well.
FailImport(r) ==
  /\ Holds(r) /\ req[r].pc = "saving" /\ Target(Head(req[r].rows)) = None
  /\ contact' = IF lock = r THEN req[r].base ELSE contact
  /\ lock' = None
  /\ Return(r)
  /\ UNCHANGED <<tombs, pending, now, raced, late, calls>>

CommitSync(r) ==
  /\ Holds(r) /\ req[r].pc = "syncing" /\ req[r].rows = <<>>
  /\ lock' = None
  /\ Return(r)
  /\ UNCHANGED <<contact, tombs, pending, now, raced, late, calls>>

-----------------------------------------------------------------------------
(***************************************************************************)
(* Follow-up reminders: the contacts are listed first, each one's          *)
(* reminders are looked up later.                                          *)
(***************************************************************************)
Due(k) == /\ k # NoContact /\ k.outcome = "INTERESTED" /\ k.interview = "PENDING"
          /\ k.since < now

StartGeneration(r) ==
  /\ Begin(r, [Idle EXCEPT !.pc = "generating", !.view = contact, !.ids = Ids,
                           !.reminders = {calls + 1}])
  /\ UNCHANGED <<contact, tombs, pending, lock, now, raced, late>>

\* Mutant: a contact that is due is reminded of whether or not it has been.
NeedsReminderAgain(r, c) == Due(req[r].view[c])

NeedsReminder(r, c) == Due(req[r].view[c]) /\ pending[c] = {}

LookUpReminder(r, c) ==
  /\ Free /\ req[r].pc = "generating" /\ c \in req[r].ids
  /\ LET l == req[r]
     IN  req' = [req EXCEPT ![r] = IF NeedsReminder(r, c)
           THEN [l EXCEPT !.ids = l.ids \ {c}, !.pc = "inserting", !.id = c]
           ELSE [l EXCEPT !.ids = l.ids \ {c}]]
  /\ UNCHANGED <<contact, tombs, pending, lock, now, raced, late, calls>>

\* The first insert takes the lock, so the rest of the list is looked up and
\* inserted with it; a contact that is gone fails the whole transaction.
InsertReminders(r) ==
  LET l   == req[r]
      new == {l.id} \cup {c \in l.ids : NeedsReminder(r, c)}
  IN  /\ Free /\ l.pc = "inserting"
      /\ IF \A c \in new : Exists(c)
         THEN /\ pending' = [c \in Ids |-> IF c \in new THEN pending[c] \cup l.reminders
                                                       ELSE pending[c]]
              /\ late' = late \cup
                   {c \in new : contact[c] # l.view[c] \/ ~NeedsReminder(r, c)}
         ELSE UNCHANGED <<pending, late>>
      /\ Return(r)
      /\ UNCHANGED <<contact, tombs, lock, now, raced, calls>>

NothingToInsert(r) ==
  /\ Free /\ req[r].pc = "generating" /\ req[r].ids = {}
  /\ Return(r)
  /\ UNCHANGED <<contact, tombs, pending, lock, now, raced, late, calls>>

Tick ==
  /\ Free /\ now < MaxTime /\ now' = now + 1
  /\ UNCHANGED <<contact, tombs, pending, req, lock, raced, late, calls>>

-----------------------------------------------------------------------------
Init ==
  /\ contact \in Imported
  /\ tombs = {} /\ raced = {} /\ late = {}
  /\ pending = [c \in Ids |-> {}]
  /\ req = [r \in Requests |-> Idle]
  /\ lock = None /\ now = 0 /\ calls = 0

SyncStep(r) ==
  \/ \E file \in Files : ListContacts(r, file)
  \/ CheckRow(r) \/ FailImport(r) \/ CommitSync(r)
  \/ \E c \in Ids : UpdateExisting(r, c) \/ CreateContact(r, c)

DeskStep(r) ==
  \/ \E c \in Ids, op \in Operations : ReadContact(r, c, op)
  \/ FindReminders(r) \/ WriteContact(r) \/ CompletionFails(r)
  \/ \E c \in Ids : ReadToArchive(r, c)
  \/ Archive(r)

ReminderStep(r) ==
  \/ StartGeneration(r) \/ InsertReminders(r) \/ NothingToInsert(r)
  \/ \E c \in Ids : LookUpReminder(r, c)

Next == (\E r \in Requests : SyncStep(r) \/ DeskStep(r) \/ ReminderStep(r)) \/ Tick

Spec == Init /\ [][Next]_vars

-----------------------------------------------------------------------------
Locals ==
  [pc : Labels, id : Ids \cup {None}, op : Operations \cup {None},
   seen : Contacts \cup {NoContact}, reminders : SUBSET (1..MaxCalls), view : Listings \cup {<<>>},
   rows : Seq(Rows), ids : SUBSET Ids, base : Listings \cup {<<>>}]

\* The type invariant of the desk.
TypeOK ==
  /\ contact \in Listings
  /\ tombs \subseteq Phones \cup Emails \cup (Names \X (Phones \cup Emails \cup {None}))
  /\ pending \in [Ids -> SUBSET (1..MaxCalls)]
  /\ req \in [Requests -> Locals]
  /\ lock \in Requests \cup {None}
  /\ now \in 0..MaxTime /\ raced \subseteq Ids /\ late \subseteq Ids /\ calls \in 0..MaxCalls

\* "Complete/dismiss any pending reminders": a contact has at most one pending
\* reminder, and none when it has declined or was rejected, through any order
\* of CRM operations, deliveries, synchronisations, archivals and generations.
\* What two overlapping requests can do to a reminder is in late: the contact
\* or its reminders are not what one of them read before.  Such a reminder too
\* has a contact, and what completes it ends the exception.
RemindersMatch ==
  \A c \in Ids : pending[c] # {} =>
    /\ Exists(c)
    /\ c \in late \/ /\ \E n \in pending[c] : pending[c] = {n}
                     /\ contact[c].outcome # "NOT_INTERESTED"
                     /\ contact[c].interview # "NOT_INTERVIEW"

\* "Check if an active reminder already exists": reminders pile up only as far
\* as generations overlap.  However often they run, and whatever is completed
\* or archived meanwhile, a contact has no more pending reminders than requests
\* can generate at a time.
RemindersBounded ==
  \A c \in Ids : Cardinality(pending[c]) <= Cardinality(Requests)

\* The opt-out of a contact is never taken back by an import, a delivery or
\* another CRM operation, but for a write from a stale read.
OptOutKept ==
  [][\A c \in Ids : Exists(c) /\ contact[c].dnc =>
       contact'[c] = NoContact \/ contact'[c].dnc \/ c \in raced']_vars

\* "retained as secondary so a working number is never silently dropped",
\* "preserving historical metadata": an import drops no address of a contact
\* and leaves its CRM state alone, but for a write from a stale read.
SyncPreserves ==
  [][\A c \in Ids : (\E r \in Requests : UpdateExisting(r, c)) /\ Exists(c) =>
       \/ c \in raced'
       \/ /\ ToSet(contact[c].phones) \subseteq ToSet(contact'[c].phones)
          /\ ToSet(contact[c].emails) \subseteq ToSet(contact'[c].emails)
          /\ contact'[c] = [contact[c] EXCEPT !.phones = contact'[c].phones,
                                              !.emails = contact'[c].emails]]_vars

\* "a single person/phone/email must map to ONE contact": an import that makes
\* a contact shares no address of it with a contact that it has listed, or has
\* made or extended itself for an earlier row.
FreshMeansNew ==
  [][\A r \in Requests, c \in Ids : CreateContact(r, c) =>
       \A d \in Ids \ {c} :
         LET known == IF d \in req[r].ids THEN contact[d] ELSE req[r].view[d]
         IN  known # NoContact =>
               /\ ToSet(contact'[c].phones) \cap ToSet(known.phones) = {}
               /\ ToSet(contact'[c].emails) \cap ToSet(known.emails) = {}]_vars

\* "must never be resurrected by source synchronization after an operator
\* deletes a contact": no contact has a phone with a tombstone.
NeverResurrected ==
  \A c \in Ids : Exists(c) => ToSet(contact[c].phones) \cap tombs = {}
=============================================================================
