-------------------------- MODULE ContactDesk_proofs --------------------------
(***************************************************************************)
(* The contacts, for any number of contacts, requests, files and rows.     *)
(* First what the operators on contacts do, then types, then reminders,    *)
(* the opt-out and the synchronisation.                                    *)
(***************************************************************************)
EXTENDS ContactDesk, Subsequences_proofs

USE DeskAssumption DEF None

MaybeContacts == Contacts \cup {NoContact}

LEMMA NoContactApart == NoContact \notin Contacts
  BY DEF Contacts, NoContact

-----------------------------------------------------------------------------
(* What the operators do. *)

\* What NotIn appends is of s, and with it nothing of s is missing.
LEMMA NotInEffect ==
  ASSUME NEW S, NEW s \in Seq(S), NEW t \in Seq(S)
  PROVE  NotIn(s, t) \in Seq(S) /\ ToSet(s) \subseteq ToSet(t) \cup ToSet(NotIn(s, t))
<1> DEFINE I == {i \in DOMAIN s : s[i] \notin ToSet(t) /\ \A j \in 1..(i - 1) : s[j] # s[i]}
<1>1. NotIn(s, t) = Pick(s, I)
  BY DEF NotIn
<1>2. /\ Pick(s, I) \in Seq(S)
      /\ \A i \in I : \E k \in 1..Len(Pick(s, I)) : Pick(s, I)[k] = s[i]
  <2>1. I \in SUBSET (DOMAIN s)
    OBVIOUS
  <2> HIDE DEF I
  <2> QED BY <2>1, PickEffect
<1>3. ASSUME NEW x \in ToSet(s), x \notin ToSet(t) PROVE x \in ToSet(Pick(s, I))
  <2> DEFINE At == {i \in DOMAIN s : s[i] = x}
  <2>1. DOMAIN s = 1..Len(s) /\ Len(s) \in Nat
    OBVIOUS
  <2>2. At # {} /\ At \in SUBSET Nat
    BY <1>3, <2>1 DEF ToSet
  <2>3. PICK i \in At : \A j \in At : i <= j
    BY <2>2, LeastNumber
  <2>4. i \in I
    <3>1. ASSUME NEW j \in 1..(i - 1) PROVE s[j] # s[i]
      <4>1. j \in DOMAIN s /\ ~(i <= j)
        BY <2>1, <2>3
      <4> QED BY <2>3, <4>1
    <3> QED BY <1>3, <2>3, <3>1
  <2>5. PICK k \in 1..Len(Pick(s, I)) : Pick(s, I)[k] = s[i]
    BY <1>2, <2>4
  <2> HIDE DEF I
  <2>6. DOMAIN Pick(s, I) = 1..Len(Pick(s, I))
    BY <1>2
  <2> QED BY <2>3, <2>5, <2>6 DEF ToSet
<1> QED BY <1>1, <1>2, <1>3

\* Joining two lists joins what is in them.
LEMMA JoinedSets ==
  ASSUME NEW S, NEW a \in Seq(S), NEW b \in Seq(S)
  PROVE  a \o b \in Seq(S) /\ ToSet(a \o b) = ToSet(a) \cup ToSet(b)
<1> DEFINE m == Len(a)
           n == Len(b)
           r == a \o b
<1>1. /\ m \in Nat /\ n \in Nat /\ DOMAIN a = 1..m /\ DOMAIN b = 1..n /\ DOMAIN r = 1..(m + n)
      /\ \A i \in 1..m : r[i] = a[i]
      /\ \A i \in (m + 1)..(m + n) : r[i] = b[i - m]
      /\ r \in Seq(S)
  OBVIOUS
<1> HIDE DEF m, n, r
<1>2. ASSUME NEW i \in 1..(m + n)
      PROVE  i \in 1..m \/ (i \in (m + 1)..(m + n) /\ i - m \in 1..n)
  BY <1>1
<1>3. ASSUME NEW i \in 1..n PROVE i + m \in (m + 1)..(m + n) /\ (i + m) - m = i
  BY <1>1
<1>4. 1..(m + n) = 1..m \cup (m + 1)..(m + n)
  BY <1>1
<1>5. ToSet(r) = ToSet(a) \cup ToSet(b)
  <2>1. \A x \in ToSet(r) : x \in ToSet(a) \cup ToSet(b)
    BY <1>1, <1>2 DEF ToSet
  <2>2. \A x \in ToSet(a) : x \in ToSet(r)
    BY <1>1, <1>4 DEF ToSet
  <2>3. ASSUME NEW x \in ToSet(b) PROVE x \in ToSet(r)
    <3>1. PICK i \in 1..n : x = b[i]
      BY <1>1 DEF ToSet
    <3>2. i + m \in 1..(m + n) /\ r[i + m] = x
      BY <1>1, <1>3, <1>4, <3>1
    <3> QED BY <1>1, <3>2 DEF ToSet
  <2> QED BY <2>1, <2>2, <2>3
<1> QED BY <1>1, <1>5 DEF r

\* An import into a contact keeps its addresses and touches nothing else.
LEMMA MergeEffect ==
  ASSUME NEW k \in Contacts, NEW row \in Rows
  PROVE  /\ Merge(k, row) \in Contacts
         /\ ToSet(k.phones) \subseteq ToSet(Merge(k, row).phones)
         /\ ToSet(k.emails) \subseteq ToSet(Merge(k, row).emails)
         /\ Merge(k, row) = [k EXCEPT !.phones = Merge(k, row).phones,
                                      !.emails = Merge(k, row).emails]
         /\ Merge(k, row).dnc = k.dnc
         /\ Merge(k, row).outcome = k.outcome /\ Merge(k, row).interview = k.interview
<1> DEFINE phones == row.phones \o NotIn(k.phones, row.phones)
           emails == k.emails \o NotIn(row.emails, k.emails)
<1>1. /\ k.phones \in Seq(Phones) /\ row.phones \in Seq(Phones)
      /\ k.emails \in Seq(Emails) /\ row.emails \in Seq(Emails)
  BY DEF Contacts, Rows
<1>2. /\ NotIn(k.phones, row.phones) \in Seq(Phones) /\ NotIn(row.emails, k.emails) \in Seq(Emails)
      /\ ToSet(k.phones) \subseteq ToSet(row.phones) \cup ToSet(NotIn(k.phones, row.phones))
  BY <1>1, NotInEffect
<1>3. /\ phones \in Seq(Phones) /\ ToSet(k.phones) \subseteq ToSet(phones)
      /\ emails \in Seq(Emails) /\ ToSet(k.emails) \subseteq ToSet(emails)
  BY <1>1, <1>2, JoinedSets
<1>4. Merge(k, row) = [k EXCEPT !.phones = phones, !.emails = emails]
  BY DEF Merge
<1> HIDE DEF phones, emails
<1>5. /\ [k EXCEPT !.phones = phones, !.emails = emails] \in Contacts
      /\ Merge(k, row).phones = phones /\ Merge(k, row).emails = emails
      /\ Merge(k, row).dnc = k.dnc
      /\ Merge(k, row).outcome = k.outcome /\ Merge(k, row).interview = k.interview
  BY <1>3, <1>4 DEF Contacts
<1> QED BY <1>3, <1>4, <1>5

\* A contact that an import makes has the addresses of its row and no history.
LEMMA FreshEffect ==
  ASSUME NEW row \in Rows
  PROVE  /\ Fresh(row) \in Contacts /\ ~Fresh(row).dnc
         /\ Fresh(row).phones = row.phones /\ Fresh(row).emails = row.emails
<1>1. Company(row) \in Names
  BY DEF Company, Rows
<1>2. Never \in 0..Never
  BY DEF Never
<1> QED BY <1>1, <1>2 DEF Fresh, Contacts, Outcomes, Interviews, Rows

LEMMA InterestedEffect ==
  ASSUME NEW k \in Contacts, now \in 0..MaxTime
  PROVE  /\ Interested(k) \in Contacts /\ Interested(k).dnc = k.dnc
         /\ Interested(k).outcome = "INTERESTED"
         /\ Interested(k).interview = "NOT_INTERVIEW" => k.interview = "NOT_INTERVIEW"
<1>1. now \in 0..Never
  BY DEF Never
<1> QED BY <1>1 DEF Interested, Contacts, Outcomes, Interviews

\* No operation takes an opt-out back; one that leaves a contact declined or
\* rejected, which it was not, completes its reminders.
LEMMA AfterEffect ==
  ASSUME NEW k \in Contacts, NEW op \in Operations, now \in 0..MaxTime
  PROVE  /\ After(op, k) \in Contacts /\ (k.dnc => After(op, k).dnc)
         /\ \/ Completes(op)
            \/ /\ After(op, k).outcome = "NOT_INTERESTED" => k.outcome = "NOT_INTERESTED"
               /\ After(op, k).interview = "NOT_INTERVIEW" => k.interview = "NOT_INTERVIEW"
<1>0. After(op, k) =
        CASE op \in Outright        -> [k EXCEPT !.outcome = op]
          [] op = "INTERESTED"      -> Interested(k)
          [] op \in {"NOT_INTERESTED", "MARK_NOT_INTERESTED"} ->
                 [k EXCEPT !.outcome = "NOT_INTERESTED"]
          [] op = "DO_NOT_CONTACT"  -> [k EXCEPT !.outcome = "NOT_INTERESTED", !.dnc = TRUE]
          [] op = "INTERVIEW"       -> [Interested(k) EXCEPT !.interview = op]
          [] op = "OFFER"           -> [k EXCEPT !.outcome = op, !.interview = "INTERVIEW"]
          [] op \in {"REJECTED", "MARK_NOT_INTERVIEW"} -> [k EXCEPT !.interview = "NOT_INTERVIEW"]
          [] op = "MARK_INTERVIEW"  -> [k EXCEPT !.interview = "INTERVIEW"]
          [] op = "SENT"            ->
                 [k EXCEPT !.outcome = IF @ = "NONE" THEN "PENDING_REPLY" ELSE @]
          [] op = "NOTES"           -> k
  BY DEF After
<1> USE DEF Outright
<1>1. CASE op = "INTERESTED"
  BY <1>0, <1>1, InterestedEffect DEF Contacts
<1>2. CASE op \in {"NOT_INTERESTED", "MARK_NOT_INTERESTED", "DO_NOT_CONTACT"}
  <2>1. \/ After(op, k) = [k EXCEPT !.outcome = "NOT_INTERESTED"]
        \/ After(op, k) = [k EXCEPT !.outcome = "NOT_INTERESTED", !.dnc = TRUE]
    BY <1>0, <1>2
  <2>2. After(op, k) \in Contacts /\ (k.dnc => After(op, k).dnc)
    BY <2>1 DEF Contacts, Outcomes
  <2> QED BY <1>2, <2>2 DEF Completes, LooksFirst, SavesFirst
<1>3. CASE op \in {"REJECTED", "MARK_NOT_INTERVIEW", "MARK_INTERVIEW"}
  <2>1. \E i \in Interviews : After(op, k) = [k EXCEPT !.interview = i]
    BY <1>0, <1>3 DEF Interviews
  <2>2. After(op, k) \in Contacts /\ (k.dnc => After(op, k).dnc)
    BY <2>1 DEF Contacts
  <2> QED BY <1>3, <2>2 DEF Completes, LooksFirst, SavesFirst
<1>4. CASE op = "INTERVIEW"
  <2> DEFINE j == Interested(k)
  <2>1. /\ j \in Contacts /\ j.dnc = k.dnc
    BY InterestedEffect
  <2>2. After(op, k) = [j EXCEPT !.interview = "INTERVIEW"]
    BY <1>0, <1>4
  <2> HIDE DEF j
  <2> QED BY <1>4, <2>1, <2>2 DEF Contacts, Interviews, Completes, LooksFirst
<1>5. CASE op = "OFFER"
  <2>1. After(op, k) = [k EXCEPT !.outcome = "OFFER", !.interview = "INTERVIEW"]
    BY <1>0, <1>5
  <2> QED BY <2>1 DEF Contacts, Outcomes, Interviews
<1>6. CASE op \in Outright
  <2>1. After(op, k) = [k EXCEPT !.outcome = op]
    BY <1>0, <1>6
  <2> QED BY <1>6, <2>1 DEF Contacts, Outcomes
<1>7. CASE op = "SENT"
  BY <1>0, <1>7 DEF Contacts, Outcomes
<1>8. CASE op = "NOTES"
  BY <1>0, <1>8 DEF Contacts
<1> QED BY <1>1, <1>2, <1>3, <1>4, <1>5, <1>6, <1>7, <1>8 DEF Operations, LooksFirst, SavesFirst

\* The owners of an address are contacts that were listed ...
LEMMA OwnersListed ==
  ASSUME NEW column, NEW addresses, NEW view
  PROVE  OwnersOf(column, addresses, view) \subseteq InView(view)
  BY DEF OwnersOf

\* ... and there is one unless no listed contact has any of the addresses.
LEMMA OwnerFound ==
  ASSUME NEW column, NEW S, NEW addresses \in Seq(S), NEW view,
         OwnersOf(column, addresses, view) = {},
         NEW c \in InView(view)
  PROVE  ToSet(addresses) \cap ToSet(view[c][column]) = {}
<1> DEFINE has(i)  == {d \in InView(view) : addresses[i] \in ToSet(view[d][column])}
           matched == {i \in DOMAIN addresses : has(i) # {}}
           first   == CHOOSE i \in matched : \A j \in matched : i <= j
<1>1. OwnersOf(column, addresses, view) = IF matched = {} THEN {} ELSE has(first)
  BY DEF OwnersOf
<1>2. matched \in SUBSET Nat
  <2>1. DOMAIN addresses = 1..Len(addresses)
    OBVIOUS
  <2> QED BY <2>1
<1>3. ASSUME matched # {} PROVE has(first) # {}
  <2>1. \E i \in matched : \A j \in matched : i <= j
    <3> HIDE DEF matched
    <3> QED BY <1>2, <1>3, LeastNumber
  <2>2. first \in matched
    <3> HIDE DEF matched
    <3> QED BY <2>1
  <2> QED BY <2>2
<1>4. matched = {}
  BY <1>1, <1>3
<1>5. ASSUME NEW x \in ToSet(addresses), x \in ToSet(view[c][column]) PROVE FALSE
  <2>1. PICK i \in DOMAIN addresses : x = addresses[i]
    BY DEF ToSet
  <2>2. c \in has(i)
    BY <1>5, <2>1
  <2> QED BY <1>4, <2>2
<1> QED BY <1>5

-----------------------------------------------------------------------------
(***************************************************************************)
(* Types.  What a request holds where it is, and that only a               *)
(* synchronisation has the write lock between two steps.                   *)
(***************************************************************************)
Fit(l) ==
  /\ l.pc \in {"looking", "writing", "archiving"} => l.id \in Ids /\ l.seen \in Contacts
  /\ l.pc \in {"looking", "writing"} => l.op \in Operations
  /\ l.pc \in {"syncing", "saving", "generating", "inserting"} => l.view \in Listings
  /\ l.pc = "saving" => l.rows # <<>>
  /\ l.pc = "inserting" => l.id \in Ids
  /\ l.pc \in {"generating", "inserting"} => \E n \in 1..MaxCalls : l.reminders = {n}

LockFits ==
  \A r \in Requests : lock = r =>
    req[r].pc \in {"syncing", "saving"} /\ req[r].base \in Listings

Typed == TypeOK /\ (\A r \in Requests : Fit(req[r])) /\ LockFits

\* A step of one request leaves the others where they are.
LEMMA ReqTyped ==
  ASSUME Typed, NEW r \in Requests, NEW l \in Locals, Fit(l),
         req' = [req EXCEPT ![r] = l]
  PROVE  /\ req' \in [Requests -> Locals] /\ \A u \in Requests : Fit(req'[u])
         /\ req'[r] = l /\ \A u \in Requests \ {r} : req'[u] = req[u]
  BY DEF Typed, TypeOK

LEMMA IdleFits == Idle \in Locals /\ Fit(Idle)
  BY DEF Idle, Locals, Fit, Labels

LEMMA ExistsFits ==
  ASSUME Typed, NEW c \in Ids, Exists(c)
  PROVE  contact[c] \in Contacts
  BY DEF Typed, TypeOK, Exists, Listings

\* With nothing but the request changed, and the lock free.
LEMMA BeginTyped ==
  ASSUME Typed, NEW r \in Requests, NEW l \in Locals, Fit(l), Begin(r, l),
         UNCHANGED <<contact, tombs, pending, lock, now, raced, late>>
  PROVE  Typed'
<1>1. /\ req' \in [Requests -> Locals] /\ \A u \in Requests : Fit(req'[u])
  BY ReqTyped DEF Begin
<1>2. calls' \in 0..MaxCalls
  <2>1. calls \in 0..MaxCalls /\ calls < MaxCalls /\ calls' = calls + 1 /\ MaxCalls \in Nat
    BY DEF Begin, Typed, TypeOK
  <2> QED BY <2>1
<1>3. LockFits'
  BY DEF Begin, Free, LockFits
<1> QED BY <1>1, <1>2, <1>3 DEF Typed, TypeOK, LockFits

\* A request that goes on without changing the data.
LEMMA GoOnTyped ==
  ASSUME Typed, NEW r \in Requests, NEW l \in Locals, Fit(l),
         req' = [req EXCEPT ![r] = l],
         lock = r => l.pc \in {"syncing", "saving"} /\ l.base = req[r].base,
         UNCHANGED <<contact, tombs, pending, lock, now, raced, late, calls>>
  PROVE  Typed'
<1>1. /\ req' \in [Requests -> Locals] /\ \A u \in Requests : Fit(req'[u])
      /\ req'[r] = l /\ \A u \in Requests \ {r} : req'[u] = req[u]
  BY ReqTyped
<1>2. LockFits'
  BY <1>1 DEF Typed, LockFits
<1> QED BY <1>1, <1>2 DEF Typed, TypeOK

\* What a request ends with.
LEMMA ReturnTyped ==
  ASSUME Typed, NEW r \in Requests, Return(r), lock' = None
  PROVE  /\ req' \in [Requests -> Locals] /\ \A u \in Requests : Fit(req'[u])
         /\ LockFits'
  BY ReqTyped, IdleFits DEF Return, LockFits

LEMMA DeskTyped ==
  ASSUME Typed, NEW r \in Requests, DeskStep(r)
  PROVE  Typed'
<1>1. ASSUME NEW c \in Ids, NEW op \in Operations, ReadContact(r, c, op) PROVE Typed'
  <2> DEFINE k == contact[c]
             p == IF op \in LooksFirst THEN "looking" ELSE "writing"
             l == [Idle EXCEPT !.pc = p, !.id = c, !.op = op, !.seen = k]
  <2>1. k \in Contacts
    BY <1>1, ExistsFits DEF ReadContact
  <2>3. Begin(r, l) /\ UNCHANGED <<contact, tombs, pending, lock, now, raced, late>>
    BY <1>1 DEF ReadContact
  <2>4. p \in {"looking", "writing"}
    OBVIOUS
  <2> HIDE DEF k, p
  <2>2. l \in Locals /\ Fit(l)
    <3>1. /\ k \in Contacts \cup {NoContact} /\ <<>> \in Seq(Rows) /\ {} \in SUBSET Ids
          /\ {} \in SUBSET (1..MaxCalls)
      BY <2>1
    <3> QED BY <2>1, <2>4, <3>1 DEF Idle, Locals, Fit, Labels
  <2> HIDE DEF l
  <2> QED BY <2>2, <2>3, BeginTyped
<1>2. CASE WriteContact(r)
  <2> DEFINE c == req[r].id
             k == After(req[r].op, req[r].seen)
             left == pending[c] \ Settled(req[r])
  <2>1. /\ c \in Ids /\ req[r].seen \in Contacts /\ req[r].op \in Operations
        /\ lock' = None
    BY <1>2 DEF WriteContact, Typed, Fit, Free
  <2>2. k \in Contacts
    BY <2>1, AfterEffect DEF Typed, TypeOK
  <2>3. /\ contact' = [contact EXCEPT ![c] = k] /\ raced' \in {raced, raced \cup {c}}
        /\ pending' = [pending EXCEPT ![c] = left] /\ late' \in {late, late \ {c}, late \cup {c}}
        /\ Return(r) /\ UNCHANGED <<tombs, lock, now, calls>>
    BY <1>2 DEF WriteContact, Save
  <2>4. left \in SUBSET (1..MaxCalls)
    BY <2>1 DEF Typed, TypeOK
  <2> HIDE DEF c, k, left
  <2>5. contact' \in Listings
    BY <2>1, <2>2, <2>3 DEF Typed, TypeOK, Listings
  <2>6. pending' \in [Ids -> SUBSET (1..MaxCalls)] /\ raced' \subseteq Ids /\ late' \subseteq Ids
    BY <2>1, <2>3, <2>4 DEF Typed, TypeOK
  <2> QED BY <2>1, <2>3, <2>5, <2>6, ReturnTyped DEF Typed, TypeOK
<1>5. CASE FindReminders(r)
  <2> DEFINE found == pending[req[r].id]
             l == [req[r] EXCEPT !.pc = "writing", !.reminders = found]
  <2>1. /\ req[r] \in Locals /\ Fit(req[r]) /\ req[r].pc = "looking" /\ lock # r
    BY <1>5 DEF FindReminders, Typed, TypeOK, Free
  <2>2. found \in SUBSET (1..MaxCalls)
    BY <2>1 DEF Typed, TypeOK, Fit
  <2>3. /\ req' = [req EXCEPT ![r] = l]
        /\ UNCHANGED <<contact, tombs, pending, lock, now, raced, late, calls>>
    BY <1>5 DEF FindReminders
  <2> HIDE DEF found
  <2>4. l \in Locals /\ Fit(l)
    BY <2>1, <2>2 DEF Locals, Fit, Labels
  <2> HIDE DEF l
  <2> QED BY <2>1, <2>3, <2>4, GoOnTyped
<1>6. CASE CompletionFails(r)
  BY <1>6, ReturnTyped DEF CompletionFails, Free, Typed, TypeOK
<1>3. ASSUME NEW c \in Ids, ReadToArchive(r, c) PROVE Typed'
  <2> DEFINE k == contact[c]
             l == [Idle EXCEPT !.pc = "archiving", !.id = c, !.seen = k]
  <2>1. k \in Contacts
    BY <1>3, ExistsFits DEF ReadToArchive
  <2>3. Begin(r, l) /\ UNCHANGED <<contact, tombs, pending, lock, now, raced, late>>
    BY <1>3 DEF ReadToArchive
  <2> HIDE DEF k
  <2>2. l \in Locals /\ Fit(l)
    <3>1. /\ k \in Contacts \cup {NoContact} /\ <<>> \in Seq(Rows) /\ {} \in SUBSET Ids
          /\ {} \in SUBSET (1..MaxCalls)
      BY <2>1
    <3> QED BY <2>1, <3>1 DEF Idle, Locals, Fit, Labels
  <2> HIDE DEF l
  <2> QED BY <2>2, <2>3, BeginTyped
<1>4. CASE Archive(r)
  <2> DEFINE c == req[r].id
             k == req[r].seen
  <2>1. c \in Ids /\ k \in Contacts /\ lock' = None
    BY <1>4 DEF Archive, Typed, Fit, Free
  <2>2. /\ tombs' = tombs \cup ToSet(k.phones) \cup ToSet(k.emails) \cup {Key(k.company, k)}
        /\ contact' = [contact EXCEPT ![c] = NoContact]
        /\ pending' = [pending EXCEPT ![c] = {}] /\ late' = late \ {c}
        /\ Return(r) /\ UNCHANGED <<lock, now, raced, calls>>
    BY <1>4 DEF Archive
  <2> HIDE DEF c, k
  <2>3. /\ k.company \in Names /\ k.phones \in Seq(Phones) /\ k.emails \in Seq(Emails)
    BY <2>1 DEF Contacts
  <2>4. ToSet(k.phones) \subseteq Phones /\ ToSet(k.emails) \subseteq Emails
    <3>1. /\ \A i \in DOMAIN k.phones : k.phones[i] \in Phones
          /\ \A i \in DOMAIN k.emails : k.emails[i] \in Emails
      BY <2>3
    <3> QED BY <3>1 DEF ToSet
  <2>5. Target(k) \in Phones \cup Emails \cup {None}
    <3>1. /\ k.phones # <<>> => k.phones[1] \in Phones
          /\ k.emails # <<>> => k.emails[1] \in Emails
      BY <2>3
    <3> QED BY <3>1 DEF Target
  <2>6. tombs' \subseteq Phones \cup Emails \cup (Names \X (Phones \cup Emails \cup {None}))
    BY <2>2, <2>3, <2>4, <2>5 DEF Key, Typed, TypeOK
  <2>7. contact' \in Listings /\ pending' \in [Ids -> SUBSET (1..MaxCalls)] /\ late' \subseteq Ids
    BY <2>1, <2>2 DEF Typed, TypeOK, Listings
  <2> QED BY <2>1, <2>2, <2>6, <2>7, ReturnTyped DEF Typed, TypeOK
<1> QED BY <1>1, <1>2, <1>3, <1>4, <1>5, <1>6 DEF DeskStep

\* The rows of a file that are imported are rows of it.
LEMMA RowsTyped ==
  ASSUME NEW file \in Files, NEW rows \in ParseSourceRows(file)
  PROVE  rows \in Seq(Rows)
<1>1. file \in Seq(Rows)
  OBVIOUS
<1>2. ASSUME NEW I \in SUBSET (DOMAIN file) PROVE Pick(file, I) \in Seq(Rows)
  BY <1>1, PickEffect
<1>3. \E I \in SUBSET (DOMAIN file) : rows = Pick(file, I)
  BY DEF ParseSourceRows, Deduped
<1> QED BY <1>2, <1>3

\* What an import writes is a contact, and of one that was listed or is there.
LEMMA HeldTyped ==
  ASSUME Typed, NEW r \in Requests, req[r].pc = "saving",
         NEW c \in Matches(Head(req[r].rows), req[r].view)
  PROVE  /\ c \in Ids /\ Head(req[r].rows) \in Rows
         /\ (IF Indexed(Head(req[r].rows), req[r].view) # {} THEN req[r].view[c]
             ELSE contact[c]) \in Contacts
<1> DEFINE row  == Head(req[r].rows)
           view == req[r].view
<1>1. row \in Rows
  <2>1. req[r].rows \in Seq(Rows) /\ req[r].rows # <<>>
    BY DEF Typed, TypeOK, Fit, Locals
  <2> QED BY <2>1
<1>2. view \in Listings
  BY DEF Typed, Fit
<1> HIDE DEF row, view
<1>3. Indexed(row, view) \subseteq InView(view)
  BY OwnersListed DEF Indexed
<1>4. \A d \in InView(view) : d \in Ids /\ view[d] \in Contacts
  BY <1>2 DEF InView, Listings
<1>5. \A d \in ByKey(row) : d \in Ids /\ contact[d] \in Contacts
  BY ExistsFits DEF ByKey
<1> QED BY <1>1, <1>3, <1>4, <1>5 DEF Matches, row, view

\* What is left of the file after a row.
LEMMA RowsLeft ==
  ASSUME Typed, NEW r \in Requests, req[r].rows # <<>>
  PROVE  Head(req[r].rows) \in Rows /\ Tail(req[r].rows) \in Seq(Rows)
<1>1. req[r].rows \in Seq(Rows)
  BY DEF Typed, TypeOK, Locals
<1> QED BY <1>1

\* A row is saved: the request has the lock, and what a rollback returns to.
LEMMA SavedEffect ==
  ASSUME Typed, NEW r \in Requests, NEW c \in Ids, NEW k \in Contacts,
         req[r].pc = "saving", Saved(r, c, k)
  PROVE  /\ req' \in [Requests -> Locals] /\ \A u \in Requests : Fit(req'[u])
         /\ lock' = r /\ LockFits'
         /\ req'[r].pc = "syncing" /\ req'[r].ids = req[r].ids \cup {c}
         /\ req'[r].view = [req[r].view EXCEPT ![c] = k]
         /\ req'[r].base = IF lock = r THEN req[r].base ELSE contact
         /\ \A u \in Requests \ {r} : req'[u] = req[u]
<1> DEFINE base == IF lock = r THEN req[r].base ELSE contact
           l == [req[r] EXCEPT !.pc = "syncing", !.rows = Tail(req[r].rows),
                               !.ids = req[r].ids \cup {c},
                               !.view = [req[r].view EXCEPT ![c] = k], !.base = base]
<1>1. /\ req[r] \in Locals /\ req[r].view \in Listings /\ Tail(req[r].rows) \in Seq(Rows)
  BY RowsLeft DEF Typed, TypeOK, Fit
<1>2. base \in Listings
  BY DEF Typed, TypeOK, LockFits
<1>3. [req[r].view EXCEPT ![c] = k] \in Listings
  BY <1>1 DEF Listings
<1>4. req' = [req EXCEPT ![r] = l] /\ lock' = r
  BY <1>1 DEF Saved, Typed, TypeOK
<1> HIDE DEF base
<1>5. /\ l \in Locals /\ l.pc = "syncing" /\ l.ids = req[r].ids \cup {c} /\ l.base = base
      /\ l.view = [req[r].view EXCEPT ![c] = k]
  BY <1>1, <1>2, <1>3 DEF Locals, Labels
<1> HIDE DEF l
<1>6. Fit(l)
  BY <1>3, <1>5 DEF Fit
<1>7. /\ req' \in [Requests -> Locals] /\ \A u \in Requests : Fit(req'[u])
      /\ req'[r] = l /\ \A u \in Requests \ {r} : req'[u] = req[u]
  BY <1>4, <1>5, <1>6, ReqTyped
<1>8. LockFits'
  BY <1>2, <1>4, <1>5, <1>7 DEF LockFits
<1> QED BY <1>4, <1>5, <1>7, <1>8 DEF base

LEMMA UpdateTyped ==
  ASSUME Typed, NEW r \in Requests, NEW c \in Ids, UpdateExisting(r, c) \/ CreateContact(r, c)
  PROVE  Typed'
<1>1. PICK k \in Contacts :
        /\ Saved(r, c, k) /\ contact' = [contact EXCEPT ![c] = k]
        /\ raced' \in {raced, raced \cup {c}} /\ late' \in {late, late \cup {c}}
        /\ UNCHANGED <<tombs, pending, now, calls>>
  <2>1. CASE UpdateExisting(r, c)
    <3> DEFINE row  == Head(req[r].rows)
               held == IF Indexed(row, req[r].view) # {} THEN req[r].view[c] ELSE contact[c]
    <3>1. row \in Rows /\ held \in Contacts
      BY <2>1, HeldTyped DEF UpdateExisting
    <3>2. /\ Save(c, held, Merge(held, row)) /\ Saved(r, c, Merge(held, row))
          /\ late' \in {late, late \cup {c}} /\ UNCHANGED <<tombs, pending, now, calls>>
      BY <2>1 DEF UpdateExisting
    <3> HIDE DEF row, held
    <3>3. Merge(held, row) \in Contacts
      BY <3>1, MergeEffect
    <3> QED BY <3>2, <3>3 DEF Save
  <2>2. CASE CreateContact(r, c)
    <3>1. Head(req[r].rows) \in Rows
      BY <2>2, RowsLeft DEF CreateContact, Typed, Fit
    <3>2. Fresh(Head(req[r].rows)) \in Contacts
      BY <3>1, FreshEffect
    <3> QED BY <2>2, <3>2 DEF CreateContact
  <2> QED BY <2>1, <2>2
<1>2. req[r].pc = "saving"
  BY DEF UpdateExisting, CreateContact
<1>3. /\ req' \in [Requests -> Locals] /\ \A u \in Requests : Fit(req'[u])
      /\ lock' = r /\ LockFits'
  BY <1>1, <1>2, SavedEffect
<1>4. contact' \in Listings
  BY <1>1 DEF Typed, TypeOK, Listings
<1>5. raced' \subseteq Ids /\ late' \subseteq Ids
  BY <1>1 DEF Typed, TypeOK
<1> QED BY <1>1, <1>3, <1>4, <1>5 DEF Typed, TypeOK

LEMMA SyncTyped ==
  ASSUME Typed, NEW r \in Requests, SyncStep(r)
  PROVE  Typed'
<1>1. ASSUME NEW file \in Files, ListContacts(r, file) PROVE Typed'
  <2>1. PICK rows \in ParseSourceRows(file) :
          Begin(r, [Idle EXCEPT !.pc = "syncing", !.view = contact, !.rows = rows])
    BY <1>1 DEF ListContacts
  <2> DEFINE l == [Idle EXCEPT !.pc = "syncing", !.view = contact, !.rows = rows]
  <2>2. rows \in Seq(Rows)
    BY RowsTyped
  <2>3. l \in Locals /\ Fit(l)
    <3>1. /\ contact \in Listings /\ contact \in Listings \cup {<<>>} /\ {} \in SUBSET Ids
          /\ {} \in SUBSET (1..MaxCalls)
      BY DEF Typed, TypeOK
    <3> QED BY <2>2, <3>1 DEF Idle, Locals, Fit, Labels
  <2>4. Begin(r, l) /\ UNCHANGED <<contact, tombs, pending, lock, now, raced, late>>
    BY <1>1, <2>1 DEF ListContacts
  <2> HIDE DEF l
  <2> QED BY <2>3, <2>4, BeginTyped
<1>2. CASE CheckRow(r)
  <2>1. /\ req[r] \in Locals /\ Fit(req[r]) /\ req[r].pc = "syncing" /\ req[r].rows # <<>>
    BY <1>2 DEF CheckRow, Typed, TypeOK
  <2>2. CASE Suppressed(Head(req[r].rows))
    <3> DEFINE l == [req[r] EXCEPT !.rows = Tail(req[r].rows)]
    <3>1. Tail(req[r].rows) \in Seq(Rows)
      BY <2>1, RowsLeft
    <3>2. l \in Locals /\ Fit(l) /\ l.pc = "syncing" /\ l.base = req[r].base
      BY <2>1, <3>1 DEF Locals, Fit
    <3>3. /\ req' = [req EXCEPT ![r] = l]
          /\ UNCHANGED <<contact, tombs, pending, lock, now, raced, late, calls>>
      BY <1>2, <2>2 DEF CheckRow
    <3> HIDE DEF l
    <3> QED BY <3>2, <3>3, GoOnTyped
  <2>3. CASE ~Suppressed(Head(req[r].rows))
    <3> DEFINE l == [req[r] EXCEPT !.pc = "saving"]
    <3>1. l \in Locals /\ Fit(l) /\ l.pc = "saving" /\ l.base = req[r].base
      BY <2>1 DEF Locals, Fit, Labels
    <3>2. /\ req' = [req EXCEPT ![r] = l]
          /\ UNCHANGED <<contact, tombs, pending, lock, now, raced, late, calls>>
      BY <1>2, <2>3 DEF CheckRow
    <3> HIDE DEF l
    <3> QED BY <3>1, <3>2, GoOnTyped
  <2> QED BY <2>2, <2>3
<1>3. CASE FailImport(r)
  <2>1. contact' \in Listings
    BY <1>3 DEF FailImport, Typed, TypeOK, LockFits
  <2> QED BY <1>3, <2>1, ReturnTyped DEF FailImport, Typed, TypeOK
<1>4. CASE CommitSync(r)
  BY <1>4, ReturnTyped DEF CommitSync, Typed, TypeOK
<1> QED BY <1>1, <1>2, <1>3, <1>4, UpdateTyped DEF SyncStep

LEMMA ReminderTyped ==
  ASSUME Typed, NEW r \in Requests, ReminderStep(r)
  PROVE  Typed'
<1>1. CASE StartGeneration(r)
  <2> DEFINE n == calls + 1
             l == [Idle EXCEPT !.pc = "generating", !.view = contact, !.ids = Ids,
                               !.reminders = {n}]
  <2>1. l \in Locals /\ Fit(l)
    <3>1. contact \in Listings /\ contact \in Listings \cup {<<>>} /\ <<>> \in Seq(Rows)
      BY DEF Typed, TypeOK
    <3>2. n \in 1..MaxCalls
      <4>1. calls \in 0..MaxCalls /\ calls < MaxCalls
        BY <1>1 DEF StartGeneration, Begin, Typed, TypeOK
      <4> QED BY <4>1
    <3> HIDE DEF n
    <3>3. {n} \in SUBSET (1..MaxCalls)
      BY <3>2
    <3> QED BY <3>1, <3>2, <3>3 DEF Idle, Locals, Fit, Labels
  <2>2. Begin(r, l) /\ UNCHANGED <<contact, tombs, pending, lock, now, raced, late>>
    BY <1>1 DEF StartGeneration
  <2> HIDE DEF l
  <2> QED BY <2>1, <2>2, BeginTyped
<1>2. ASSUME NEW c \in Ids, LookUpReminder(r, c) PROVE Typed'
  <2> DEFINE l == IF NeedsReminder(r, c)
                  THEN [req[r] EXCEPT !.ids = req[r].ids \ {c}, !.pc = "inserting", !.id = c]
                  ELSE [req[r] EXCEPT !.ids = req[r].ids \ {c}]
  <2>1. /\ req[r] \in Locals /\ Fit(req[r]) /\ req[r].pc = "generating" /\ lock # r
    BY <1>2 DEF LookUpReminder, Typed, TypeOK, Free
  <2>2. l \in Locals /\ Fit(l)
    <3>1. CASE NeedsReminder(r, c)
      BY <2>1, <3>1 DEF Locals, Fit, Labels
    <3>2. CASE ~NeedsReminder(r, c)
      BY <2>1, <3>2 DEF Locals, Fit
    <3> QED BY <3>1, <3>2
  <2>3. /\ req' = [req EXCEPT ![r] = l]
        /\ UNCHANGED <<contact, tombs, pending, lock, now, raced, late, calls>>
    BY <1>2 DEF LookUpReminder
  <2> HIDE DEF l
  <2> QED BY <2>1, <2>2, <2>3, GoOnTyped
<1>3. CASE InsertReminders(r)
  <2> DEFINE new == {req[r].id} \cup {c \in req[r].ids : NeedsReminder(r, c)}
  <2>1. new \subseteq Ids
    <3>1. req[r].id \in Ids /\ req[r].ids \subseteq Ids
      BY <1>3 DEF InsertReminders, Typed, TypeOK, Fit, Locals
    <3> QED BY <3>1
  <2>2. /\ \/ /\ pending' = [c \in Ids |-> IF c \in new THEN pending[c] \cup req[r].reminders
                                                      ELSE pending[c]]
              /\ late' \subseteq late \cup new
           \/ UNCHANGED <<pending, late>>
        /\ Return(r) /\ lock' = None /\ UNCHANGED <<contact, tombs, lock, now, raced, calls>>
    BY <1>3 DEF InsertReminders, Free
  <2>0. req[r].reminders \in SUBSET (1..MaxCalls)
    BY DEF Typed, TypeOK, Locals
  <2> HIDE DEF new
  <2>3. pending' \in [Ids -> SUBSET (1..MaxCalls)]
    BY <2>0, <2>2 DEF Typed, TypeOK
  <2>4. late' \subseteq Ids
    BY <2>1, <2>2 DEF Typed, TypeOK
  <2> QED BY <2>2, <2>3, <2>4, ReturnTyped DEF Typed, TypeOK
<1>4. CASE NothingToInsert(r)
  BY <1>4, ReturnTyped DEF NothingToInsert, Free, Typed, TypeOK
<1> QED BY <1>1, <1>2, <1>3, <1>4 DEF ReminderStep

LEMMA TypedInductive ==
  /\ Init => Typed
  /\ Typed /\ [Next]_vars => Typed'
<1>1. ASSUME Init PROVE Typed
  <2>1. contact \in Listings
    BY <1>1 DEF Init
  <2>2. \A r \in Requests : lock # r
    BY <1>1 DEF Init
  <2> QED BY <1>1, <2>1, <2>2, IdleFits DEF Init, Typed, TypeOK, LockFits
<1>2. ASSUME Typed, [Next]_vars PROVE Typed'
  <2>1. CASE Tick
    BY <1>2, <2>1 DEF Tick, Typed, TypeOK, LockFits
  <2>2. CASE UNCHANGED vars
    BY <1>2, <2>2 DEF vars, Typed, TypeOK, LockFits
  <2> QED BY <1>2, <2>1, <2>2, SyncTyped, DeskTyped, ReminderTyped DEF Next
<1> QED BY <1>1, <1>2

\* Whatever requests interleave, a contact has the fields of a contact, each
\* with a value of its own enumeration, and a request holds what it needs.
THEOREM TypeCorrect == Spec => []TypeOK
<1>1. Typed => TypeOK
  BY DEF Typed
<1> QED BY <1>1, TypedInductive, PTL DEF Spec

-----------------------------------------------------------------------------
(***************************************************************************)
(* Reminders, the opt-out and what an import knows.  A rollback takes the  *)
(* contacts back to what they were when the import took the lock, while    *)
(* the reminders stay what they are: so both have to match them.           *)
(***************************************************************************)
Open(k)   == k # NoContact /\ k.outcome # "NOT_INTERESTED" /\ k.interview # "NOT_INTERVIEW"
Out(k)    == k # NoContact /\ k.dnc
OutOrGone(k) == k = NoContact \/ k.dnc

\* A step takes no opt-out back, but for a write from a stale read.
OptOutStep == \A c \in Ids \ raced' : Out(contact[c]) => OutOrGone(contact'[c])

Single(s) == \E n \in s : s = {n}

\* A row that the reminders of its contact agree with.
Agrees(c, k) ==
  pending[c] # {} => /\ k # NoContact
                     /\ c \in late \/ (Single(pending[c]) /\ Open(k))

Reverts ==
  \A r \in Requests, c \in Ids : lock = r =>
    /\ Agrees(c, req[r].base[c])
    /\ c \in raced \/ (Out(contact[c]) => OutOrGone(req[r].base[c]))

\* What an import has saved is what its indexes know, as long as it has the lock.
Learned ==
  \A r \in Requests : req[r].pc \in {"syncing", "saving"} =>
    \A d \in req[r].ids : lock = r /\ contact[d] = req[r].view[d]

IInv == Typed /\ RemindersMatch /\ Reverts /\ Learned

LEMMA Matched ==
  RemindersMatch <=> \A c \in Ids : Agrees(c, contact[c])
<1>1. ASSUME NEW c \in Ids
      PROVE  Open(contact[c]) <=> /\ Exists(c)
                                  /\ contact[c].outcome # "NOT_INTERESTED"
                                  /\ contact[c].interview # "NOT_INTERVIEW"
  BY DEF Exists, Open
<1>2. ASSUME NEW c \in Ids
      PROVE  (\E n \in pending[c] : pending[c] = {n}) <=> Single(pending[c])
  BY DEF Single
<1> QED BY <1>1, <1>2, Zenon DEF RemindersMatch, Agrees, Exists

LEMMA MatchedNext ==
  ASSUME \A c \in Ids : Agrees(c, contact[c])'
  PROVE  RemindersMatch'
  BY DEF RemindersMatch, Agrees, Exists, Open, Single

\* Whoever gives up the lock, or works without it, leaves nobody to revert.
LEMMA LockFree ==
  ASSUME IInv, NEW r \in Requests, lock \in {None, r}, lock' = None,
         \A u \in Requests \ {r} : req'[u] = req[u],
         req'[r].pc \in {"syncing", "saving"} => req'[r].ids = {}
  PROVE  Reverts' /\ Learned'
<1>1. Reverts'
  BY DEF Reverts
<1>2. Learned'
  <2>1. ASSUME NEW u \in Requests \ {r}, req[u].pc \in {"syncing", "saving"} PROVE req[u].ids = {}
    BY <2>1 DEF IInv, Learned
  <2> QED BY <2>1 DEF Learned
<1> QED BY <1>1, <1>2

\* A request that begins or goes on, without the lock and without a write.
LEMMA NothingWritten ==
  ASSUME IInv, NEW r \in Requests, lock = None, UNCHANGED <<contact, pending, raced, late, lock>>,
         \A u \in Requests \ {r} : req'[u] = req[u],
         req'[r].pc \in {"syncing", "saving"} => req'[r].ids = {}
  PROVE  RemindersMatch' /\ Reverts' /\ Learned'
  BY LockFree DEF IInv, RemindersMatch, Exists

LEMMA Idled ==
  ASSUME Typed, NEW r \in Requests, Return(r)
  PROVE  req'[r].pc = "idle" /\ \A u \in Requests \ {r} : req'[u] = req[u]
  BY DEF Return, Idle, Typed, TypeOK

LEMMA Begun ==
  ASSUME Typed, NEW r \in Requests, NEW l, Begin(r, l)
  PROVE  req'[r] = l /\ (\A u \in Requests \ {r} : req'[u] = req[u]) /\ lock = None
  BY DEF Begin, Free, Typed, TypeOK

LEMMA WriteInv ==
  ASSUME IInv, NEW r \in Requests, WriteContact(r)
  PROVE  /\ RemindersMatch' /\ Reverts' /\ Learned'
         /\ OptOutStep
<1> DEFINE c == req[r].id
           k == After(req[r].op, req[r].seen)
           left == pending[c] \ Settled(req[r])
<1>1. /\ c \in Ids /\ req[r].seen \in Contacts /\ req[r].op \in Operations
      /\ lock = None /\ lock' = None /\ Return(r)
  BY DEF WriteContact, IInv, Typed, Fit, Free
<1>2. /\ contact' = [contact EXCEPT ![c] = k]
      /\ raced' = IF contact[c] = req[r].seen THEN raced ELSE raced \cup {c}
      /\ pending' = [pending EXCEPT ![c] = left]
      /\ late' = IF left = {} THEN late \ {c}
                 ELSE IF contact[c] # req[r].seen \/ Completes(req[r].op) THEN late \cup {c} ELSE late
  BY DEF WriteContact, Save
<1>3. /\ k \in Contacts /\ (req[r].seen.dnc => k.dnc)
      /\ \/ Completes(req[r].op)
         \/ /\ k.outcome = "NOT_INTERESTED" => req[r].seen.outcome = "NOT_INTERESTED"
            /\ k.interview = "NOT_INTERVIEW" => req[r].seen.interview = "NOT_INTERVIEW"
  BY <1>1, AfterEffect DEF IInv, Typed, TypeOK
<1>4. contact \in Listings /\ pending \in [Ids -> SUBSET (1..MaxCalls)]
  BY DEF IInv, Typed, TypeOK
<1>5. Reverts' /\ Learned'
  BY <1>1, Idled, LockFree DEF IInv
<1>6. ~Completes(req[r].op) => left = pending[c]
  BY DEF Settled
<1>7. left \subseteq pending[c]
  OBVIOUS
<1> HIDE DEF c, k, left
<1>8. ASSUME NEW d \in Ids PROVE Agrees(d, contact[d])'
  <2>1. CASE d = c
    <3>1. contact'[d] = k /\ k # NoContact /\ pending'[d] = left
      BY <1>1, <1>2, <1>3, <1>4, <2>1, NoContactApart DEF Listings
    <3>2. ASSUME left # {}, c \notin late'
          PROVE  Single(left) /\ Open(k)
      <4>1. contact[c] = req[r].seen /\ ~Completes(req[r].op) /\ c \notin late
        BY <1>2, <3>2
      <4>2. left = pending[c] /\ Agrees(c, contact[c])
        BY <1>1, <1>6, <4>1, Matched DEF IInv
      <4> QED BY <1>3, <3>1, <3>2, <4>1, <4>2 DEF Agrees, Open
    <3>3. left # {} /\ d \notin late' => Single(pending'[d]) /\ Open(contact'[d])
      BY <2>1, <3>1, <3>2
    <3> QED BY <3>1, <3>3 DEF Agrees
  <2>2. CASE d # c
    <3>1. pending'[d] = pending[d] /\ contact'[d] = contact[d] /\ (d \in late => d \in late')
      BY <1>2, <1>4, <2>2 DEF Listings
    <3>2. Agrees(d, contact[d])
      BY Matched DEF IInv
    <3> QED BY <3>1, <3>2 DEF Agrees
  <2> QED BY <2>1, <2>2
<1>9. OptOutStep
  BY <1>1, <1>2, <1>3, <1>4 DEF OptOutStep, Out, OutOrGone, Listings
<1> QED BY <1>5, <1>8, <1>9, MatchedNext

LEMMA ArchiveInv ==
  ASSUME IInv, NEW r \in Requests, Archive(r)
  PROVE  /\ RemindersMatch' /\ Reverts' /\ Learned'
         /\ OptOutStep
<1> DEFINE c == req[r].id
<1>1. /\ c \in Ids /\ lock = None /\ lock' = None /\ Return(r) /\ raced' = raced
      /\ contact' = [contact EXCEPT ![c] = NoContact] /\ pending' = [pending EXCEPT ![c] = {}]
      /\ late' = late \ {c}
  BY DEF Archive, IInv, Typed, Fit, Free
<1>2. contact \in Listings /\ pending \in [Ids -> SUBSET (1..MaxCalls)]
  BY DEF IInv, Typed, TypeOK
<1>3. Reverts' /\ Learned'
  BY <1>1, Idled, LockFree DEF IInv
<1> HIDE DEF c
<1>4. \A d \in Ids : IF d = c THEN contact'[d] = NoContact /\ pending'[d] = {}
                     ELSE /\ contact'[d] = contact[d] /\ pending'[d] = pending[d]
                          /\ d \in late => d \in late'
  BY <1>1, <1>2 DEF Listings
<1>5. ASSUME NEW d \in Ids PROVE Agrees(d, contact[d])'
  <2>1. Agrees(d, contact[d])
    BY Matched DEF IInv
  <2> QED BY <1>4, <2>1 DEF Agrees
<1>6. OptOutStep
  BY <1>4 DEF OptOutStep, Out, OutOrGone
<1> QED BY <1>3, <1>5, <1>6, MatchedNext

\* Unless it is late, a reminder is added where none is, to a contact that is as
\* it was listed.
LEMMA InsertInv ==
  ASSUME IInv, NEW r \in Requests, InsertReminders(r)
  PROVE  RemindersMatch' /\ Reverts' /\ Learned'
<1> DEFINE new == {req[r].id} \cup {c \in req[r].ids : NeedsReminder(r, c)}
<1>1. lock = None /\ lock' = None /\ Return(r) /\ contact' = contact
  BY DEF InsertReminders, Free
<1>2. Reverts' /\ Learned'
  BY <1>1, Idled, LockFree DEF IInv
<1>3. \/ UNCHANGED <<pending, late>>
      \/ /\ pending' = [c \in Ids |-> IF c \in new THEN pending[c] \cup req[r].reminders
                                                  ELSE pending[c]]
         /\ late' = late \cup {c \in new : contact[c] # req[r].view[c] \/ ~NeedsReminder(r, c)}
         /\ \A c \in new : contact[c] # NoContact
  BY DEF InsertReminders, Exists
<1>5. PICK n \in 1..MaxCalls : req[r].reminders = {n}
  BY DEF InsertReminders, IInv, Typed, Fit
<1> HIDE DEF new
<1>4. ASSUME NEW d \in Ids PROVE Agrees(d, contact[d])'
  <2>0. Agrees(d, contact[d]) /\ (d \in late => d \in late')
    BY <1>3, Matched DEF IInv
  <2>1. CASE pending'[d] = pending[d]
    BY <1>1, <2>0, <2>1 DEF Agrees
  <2>2. CASE pending'[d] # pending[d]
    <3>1. d \in new /\ pending'[d] = pending[d] \cup {n} /\ contact[d] # NoContact
      BY <1>3, <1>5, <2>2
    <3>2. ASSUME d \notin late' PROVE pending'[d] = {n} /\ Open(contact[d])
      <4>1. contact[d] = req[r].view[d] /\ NeedsReminder(r, d)
        BY <1>3, <2>2, <3>1, <3>2
      <4>2. Due(contact[d]) /\ pending[d] = {}
        BY <4>1 DEF NeedsReminder
      <4> QED BY <3>1, <4>2 DEF Due, Open
    <3>3. d \notin late' => Single(pending'[d]) /\ Open(contact'[d])
      BY <1>1, <3>2 DEF Single
    <3> QED BY <1>1, <3>1, <3>3 DEF Agrees
  <2> QED BY <2>1, <2>2
<1> QED BY <1>2, <1>4, MatchedNext

\* An import that reads a row on.
LEMMA CheckInv ==
  ASSUME IInv, NEW r \in Requests, CheckRow(r)
  PROVE  RemindersMatch' /\ Reverts' /\ Learned'
<1>1. /\ req'[r].pc \in {"syncing", "saving"} /\ req[r].pc = "syncing"
      /\ req'[r].ids = req[r].ids /\ req'[r].view = req[r].view /\ req'[r].base = req[r].base
      /\ \A u \in Requests \ {r} : req'[u] = req[u]
  <2>1. req \in [Requests -> Locals] /\ req[r] \in Locals
    BY DEF IInv, Typed, TypeOK
  <2>2. CASE Suppressed(Head(req[r].rows))
    BY <2>1, <2>2 DEF CheckRow, Locals
  <2>3. CASE ~Suppressed(Head(req[r].rows))
    BY <2>1, <2>3 DEF CheckRow, Locals
  <2> QED BY <2>2, <2>3
<1>2. UNCHANGED <<contact, pending, lock, raced, late>>
  BY DEF CheckRow
<1>3. RemindersMatch' /\ Reverts'
  BY <1>1, <1>2 DEF IInv, RemindersMatch, Reverts, Agrees, Exists
<1>4. Learned'
  BY <1>1, <1>2 DEF IInv, Learned
<1> QED BY <1>3, <1>4

\* What an import writes into a contact that nobody else has written since it
\* was read: the contact's own CRM state, and none into a new one.
LEMMA ImportEffect ==
  ASSUME IInv, NEW r \in Requests, NEW c \in Ids, UpdateExisting(r, c) \/ CreateContact(r, c)
  PROVE  \E k \in Contacts :
           /\ Saved(r, c, k) /\ contact' = [contact EXCEPT ![c] = k] /\ pending' = pending
           /\ raced \subseteq raced' /\ late \subseteq late'
           /\ pending[c] # {} => /\ contact[c] # NoContact
                                 /\ c \in late' \/ (Open(contact[c]) <=> Open(k))
           /\ c \in raced' \/ (Out(contact[c]) <=> k.dnc)
<1>1. CASE UpdateExisting(r, c)
  <2> DEFINE row  == Head(req[r].rows)
             held == IF Indexed(row, req[r].view) # {} THEN req[r].view[c] ELSE contact[c]
             k    == Merge(held, row)
  <2>1. row \in Rows /\ held \in Contacts
    BY <1>1, HeldTyped DEF UpdateExisting, IInv
  <2>2. /\ Save(c, held, k) /\ Saved(r, c, k) /\ UNCHANGED <<tombs, pending, now, calls>>
        /\ late' = IF contact[c] = held \/ pending[c] = {} THEN late ELSE late \cup {c}
    BY <1>1 DEF UpdateExisting
  <2> HIDE DEF row, held
  <2>3. /\ k \in Contacts /\ k.dnc = held.dnc /\ k.outcome = held.outcome
        /\ k.interview = held.interview
    BY <2>1, MergeEffect
  <2> HIDE DEF k
  <2>4. /\ contact' = [contact EXCEPT ![c] = k] /\ pending' = pending /\ raced \subseteq raced'
        /\ late \subseteq late'
        /\ c \notin raced' => contact[c] = held
    BY <2>2 DEF Save
  <2>5. c \notin raced' => (Out(contact[c]) <=> k.dnc)
    BY <2>1, <2>3, <2>4, NoContactApart DEF Out
  <2>6. ASSUME pending[c] # {}
        PROVE  contact[c] # NoContact /\ (c \in late' \/ (Open(contact[c]) <=> Open(k)))
    <3>1. contact[c] # NoContact
      BY <2>6, Matched DEF IInv, Agrees
    <3>2. c \in late' \/ contact[c] = held
      BY <2>2, <2>6
    <3> QED BY <2>1, <2>3, <3>1, <3>2, NoContactApart DEF Open
  <2> QED BY <2>2, <2>3, <2>4, <2>5, <2>6
<1>2. CASE CreateContact(r, c)
  <2> DEFINE k == Fresh(Head(req[r].rows))
  <2>1. Head(req[r].rows) \in Rows
    BY <1>2, RowsLeft DEF CreateContact, IInv, Typed, Fit
  <2>2. k \in Contacts /\ ~k.dnc
    BY <2>1, FreshEffect
  <2>3. /\ Saved(r, c, k) /\ contact' = [contact EXCEPT ![c] = k] /\ pending' = pending
        /\ raced' = raced /\ late' = late /\ contact[c] = NoContact
    BY <1>2 DEF CreateContact, Exists
  <2> HIDE DEF k
  <2>4. pending[c] = {} /\ ~Out(contact[c])
    BY <2>3, Matched DEF IInv, Agrees, Out
  <2> QED BY <2>2, <2>3, <2>4
<1> QED BY <1>1, <1>2

LEMMA ImportInv ==
  ASSUME IInv, NEW r \in Requests, NEW c \in Ids, UpdateExisting(r, c) \/ CreateContact(r, c)
  PROVE  /\ RemindersMatch' /\ Reverts' /\ Learned'
         /\ OptOutStep
<1>1. PICK k \in Contacts :
        /\ Saved(r, c, k) /\ contact' = [contact EXCEPT ![c] = k] /\ pending' = pending
        /\ raced \subseteq raced' /\ late \subseteq late'
        /\ pending[c] # {} => /\ contact[c] # NoContact
                              /\ c \in late' \/ (Open(contact[c]) <=> Open(k))
        /\ c \in raced' \/ (Out(contact[c]) <=> k.dnc)
  BY ImportEffect
<1>2. req[r].pc = "saving" /\ lock \in {None, r}
  BY DEF UpdateExisting, CreateContact, Holds
<1>3. /\ lock' = r /\ req'[r].pc = "syncing" /\ req'[r].ids = req[r].ids \cup {c}
      /\ req'[r].view = [req[r].view EXCEPT ![c] = k]
      /\ req'[r].base = IF lock = r THEN req[r].base ELSE contact
      /\ \A u \in Requests \ {r} : req'[u] = req[u]
  BY <1>1, <1>2, SavedEffect DEF IInv
<1>4. contact \in Listings /\ req[r].view \in Listings /\ req[r].ids \subseteq Ids
  BY <1>2 DEF IInv, Typed, TypeOK, Fit, Locals
<1>5. /\ contact'[c] = k /\ \A d \in Ids \ {c} : contact'[d] = contact[d]
      /\ req'[r].view[c] = k /\ \A d \in Ids \ {c} : req'[r].view[d] = req[r].view[d]
  BY <1>1, <1>3, <1>4 DEF Listings
<1>0. \A d \in Ids : Agrees(d, contact[d])
  BY Matched DEF IInv
<1>6. ASSUME NEW d \in Ids PROVE Agrees(d, contact[d])'
  <2>1. CASE d = c
    <3>1. contact'[d] = k /\ k # NoContact /\ pending'[d] = pending[d]
      BY <1>1, <1>5, <2>1, NoContactApart
    <3>2. pending[d] # {} /\ d \notin late' =>
            Single(pending[d]) /\ Open(k)
      BY <1>0, <1>1, <2>1 DEF Agrees
    <3> QED BY <3>1, <3>2 DEF Agrees
  <2>2. CASE d # c
    <3>1. contact'[d] = contact[d] /\ pending'[d] = pending[d] /\ (d \in late => d \in late')
      BY <1>1, <1>5, <2>2
    <3>2. Agrees(d, contact[d])
      BY <1>0
    <3> QED BY <3>1, <3>2 DEF Agrees
  <2> QED BY <2>1, <2>2
<1>7. \A d \in Ids \ raced' : Out(contact[d]) <=> Out(contact'[d])
  BY <1>1, <1>5, NoContactApart DEF Out
<1>8. Reverts'
  <2> SUFFICES ASSUME NEW d \in Ids
               PROVE  /\ Agrees(d, req[r].base[d])'
                      /\ d \in raced' \/ (Out(contact'[d]) => OutOrGone(req'[r].base[d]))
    BY <1>3 DEF Reverts
  <2>1. CASE lock = r
    <3>1. /\ Agrees(d, req[r].base[d]) /\ req'[r].base[d] = req[r].base[d]
          /\ d \in raced \/ (Out(contact[d]) => OutOrGone(req[r].base[d]))
      BY <1>3, <2>1 DEF IInv, Reverts
    <3>2. Agrees(d, req[r].base[d])'
      BY <1>1, <3>1 DEF Agrees
    <3> QED BY <1>1, <1>7, <3>1, <3>2
  <2>2. CASE lock # r
    <3>1. req'[r].base[d] = contact[d]
      BY <1>3, <2>2
    <3>2. Agrees(d, req[r].base[d])'
      BY <1>0, <1>1, <3>1 DEF Agrees
    <3> QED BY <1>7, <3>1, <3>2 DEF Out, OutOrGone
  <2> QED BY <2>1, <2>2
<1>9. Learned'
  <2>1. ASSUME NEW u \in Requests \ {r}, req[u].pc \in {"syncing", "saving"} PROVE req[u].ids = {}
    BY <1>2, <2>1 DEF IInv, Learned
  <2>2. ASSUME NEW d \in req'[r].ids PROVE contact'[d] = req'[r].view[d]
    BY <1>2, <1>3, <1>4, <1>5 DEF IInv, Learned
  <2> QED BY <1>3, <2>1, <2>2 DEF Learned
<1>10. OptOutStep
  BY <1>7 DEF OptOutStep, Out, OutOrGone
<1> QED BY <1>6, <1>8, <1>9, <1>10, MatchedNext

\* A failed import takes its own writes back, and only those.
LEMMA FailInv ==
  ASSUME IInv, NEW r \in Requests, FailImport(r)
  PROVE  /\ RemindersMatch' /\ Reverts' /\ Learned'
         /\ OptOutStep
<1>1. /\ lock \in {None, r} /\ lock' = None /\ Return(r) /\ UNCHANGED <<raced, late, pending>>
      /\ contact' = IF lock = r THEN req[r].base ELSE contact
  BY DEF FailImport, Holds
<1>2. Reverts' /\ Learned'
  BY <1>1, Idled, LockFree DEF IInv
<1>3. \A d \in Ids : Agrees(d, contact[d])'
  <2>1. \A d \in Ids : Agrees(d, contact[d])
    BY Matched DEF IInv
  <2> QED BY <1>1, <2>1 DEF IInv, Reverts, Agrees
<1>4. OptOutStep
  BY <1>1 DEF IInv, Reverts, OptOutStep, Out, OutOrGone
<1> QED BY <1>2, <1>3, <1>4, MatchedNext

LEMMA CommitInv ==
  ASSUME IInv, NEW r \in Requests, CommitSync(r)
  PROVE  RemindersMatch' /\ Reverts' /\ Learned'
<1>1. /\ lock \in {None, r} /\ lock' = None /\ Return(r)
      /\ UNCHANGED <<raced, late, pending, contact>>
  BY DEF CommitSync, Holds
<1>2. Reverts' /\ Learned'
  BY <1>1, Idled, LockFree DEF IInv
<1> QED BY <1>1, <1>2 DEF IInv, RemindersMatch, Exists

\* The steps that read, and those that end without a write.
Reading(r) ==
  \/ \E c \in Ids, op \in Operations : ReadContact(r, c, op)
  \/ \E c \in Ids : ReadToArchive(r, c) \/ LookUpReminder(r, c)
  \/ \E file \in Files : ListContacts(r, file)
  \/ FindReminders(r) \/ CompletionFails(r)
  \/ StartGeneration(r) \/ NothingToInsert(r)

LEMMA ReadingInv ==
  ASSUME IInv, NEW r \in Requests, Reading(r)
  PROVE  RemindersMatch' /\ Reverts' /\ Learned' /\ contact' = contact
<1>1. lock = None /\ UNCHANGED <<contact, pending, raced, late, lock>>
  BY DEF Reading, ReadContact, FindReminders, CompletionFails, ReadToArchive, LookUpReminder,
         ListContacts, StartGeneration, NothingToInsert, Begin, Free
<1>2. /\ \A u \in Requests \ {r} : req'[u] = req[u]
      /\ req'[r].pc \in {"syncing", "saving"} => req'[r].ids = {}
  <2>0. req \in [Requests -> Locals] /\ req[r] \in Locals
    BY DEF IInv, Typed, TypeOK
  <2>1. ASSUME NEW c \in Ids, NEW op \in Operations, ReadContact(r, c, op) PROVE <1>2
    BY <2>0, <2>1 DEF ReadContact, Begin, Idle
  <2>2. ASSUME NEW c \in Ids, ReadToArchive(r, c) PROVE <1>2
    BY <2>0, <2>2 DEF ReadToArchive, Begin, Idle
  <2>3. ASSUME NEW c \in Ids, LookUpReminder(r, c) PROVE <1>2
    <3>1. CASE NeedsReminder(r, c)
      BY <2>0, <2>3, <3>1 DEF LookUpReminder, Locals
    <3>2. CASE ~NeedsReminder(r, c)
      BY <2>0, <2>3, <3>2 DEF LookUpReminder, Locals
    <3> QED BY <3>1, <3>2
  <2>4. ASSUME NEW file \in Files, ListContacts(r, file) PROVE <1>2
    BY <2>0, <2>4 DEF ListContacts, Begin, Idle
  <2>5. CASE StartGeneration(r)
    BY <2>0, <2>5 DEF StartGeneration, Begin, Idle
  <2>6. CASE NothingToInsert(r)
    BY <2>6, Idled DEF NothingToInsert, IInv
  <2>7. CASE FindReminders(r)
    BY <2>0, <2>7 DEF FindReminders, Locals
  <2>8. CASE CompletionFails(r)
    BY <2>8, Idled DEF CompletionFails, IInv
  <2> QED BY <2>1, <2>2, <2>3, <2>4, <2>5, <2>6, <2>7, <2>8 DEF Reading
<1> QED BY <1>1, <1>2, NothingWritten

\* Before a new contact is inserted, no indexed contact shares its addresses.
LEMMA CreateSeesAll ==
  ASSUME IInv, NEW r \in Requests, NEW c \in Ids, CreateContact(r, c),
         NEW d \in Ids, req[r].view[d] # NoContact
  PROVE  /\ ToSet(contact'[c].phones) \cap ToSet(req[r].view[d].phones) = {}
         /\ ToSet(contact'[c].emails) \cap ToSet(req[r].view[d].emails) = {}
<1> DEFINE row == Head(req[r].rows)
           view == req[r].view
<1>1. row \in Rows /\ contact' = [contact EXCEPT ![c] = Fresh(row)] /\ Matches(row, view) = {}
  BY RowsLeft DEF CreateContact, IInv, Typed, Fit
<1>2. contact \in Listings /\ d \in InView(view)
  BY DEF IInv, Typed, TypeOK, InView
<1> HIDE DEF row, view
<1>3. contact'[c].phones = row.phones /\ contact'[c].emails = row.emails
  BY <1>1, <1>2, FreshEffect DEF Listings
<1>4. OwnersOf("phones", row.phones, view) = {} /\ OwnersOf("emails", row.emails, view) = {}
  BY <1>1 DEF Matches, Indexed
<1>5. row.phones \in Seq(Phones) /\ row.emails \in Seq(Emails)
  BY <1>1 DEF Rows
<1>6. ToSet(row.phones) \cap ToSet(view[d]["phones"]) = {}
  BY <1>2, <1>4, <1>5, OwnerFound
<1>7. ToSet(row.emails) \cap ToSet(view[d]["emails"]) = {}
  BY <1>2, <1>4, <1>5, OwnerFound
<1> QED BY <1>3, <1>6, <1>7 DEF view

LEMMA DeskInductive ==
  /\ Init => IInv
  /\ IInv /\ [Next]_vars => IInv' /\ OptOutStep
<1>1. ASSUME Init PROVE IInv
  <2>1. pending = [c \in Ids |-> {}] /\ lock = None /\ req = [r \in Requests |-> Idle]
    BY <1>1 DEF Init
  <2>2. \A r \in Requests : req[r].pc = "idle" /\ lock # r
    BY <2>1 DEF Idle
  <2>3. RemindersMatch /\ Reverts /\ Learned
    BY <2>1, <2>2 DEF RemindersMatch, Reverts, Learned
  <2> QED BY <1>1, <2>3, TypedInductive DEF IInv
<1>2. ASSUME IInv, [Next]_vars PROVE IInv' /\ OptOutStep
  <2>1. Typed'
    BY <1>2, TypedInductive DEF IInv
  <2>2. ASSUME contact' = contact PROVE OptOutStep
    BY <2>2 DEF OptOutStep, Out, OutOrGone
  <2>3. ASSUME NEW r \in Requests, Reading(r) PROVE IInv' /\ OptOutStep
    BY <1>2, <2>1, <2>2, <2>3, ReadingInv DEF IInv
  <2>4. ASSUME NEW r \in Requests, WriteContact(r) PROVE IInv' /\ OptOutStep
    BY <1>2, <2>1, <2>4, WriteInv DEF IInv
  <2>5. ASSUME NEW r \in Requests, Archive(r) PROVE IInv' /\ OptOutStep
    BY <1>2, <2>1, <2>5, ArchiveInv DEF IInv
  <2>6. ASSUME NEW r \in Requests, InsertReminders(r) PROVE IInv' /\ OptOutStep
    <3>1. contact' = contact
      BY <2>6 DEF InsertReminders
    <3> QED BY <1>2, <2>1, <2>2, <2>6, <3>1, InsertInv DEF IInv
  <2>7. ASSUME NEW r \in Requests, CheckRow(r) PROVE IInv' /\ OptOutStep
    <3>1. contact' = contact
      BY <2>7 DEF CheckRow
    <3> QED BY <1>2, <2>1, <2>2, <2>7, <3>1, CheckInv DEF IInv
  <2>8. ASSUME NEW r \in Requests, NEW c \in Ids, UpdateExisting(r, c) \/ CreateContact(r, c)
        PROVE  IInv' /\ OptOutStep
    BY <1>2, <2>1, <2>8, ImportInv DEF IInv
  <2>9. ASSUME NEW r \in Requests, FailImport(r) PROVE IInv' /\ OptOutStep
    BY <1>2, <2>1, <2>9, FailInv DEF IInv
  <2>10. ASSUME NEW r \in Requests, CommitSync(r) PROVE IInv' /\ OptOutStep
    <3>1. contact' = contact
      BY <2>10 DEF CommitSync
    <3> QED BY <1>2, <2>1, <2>2, <2>10, <3>1, CommitInv DEF IInv
  <2>11. ASSUME Tick \/ UNCHANGED vars PROVE IInv' /\ OptOutStep
    <3>1. UNCHANGED <<contact, pending, req, lock, raced, late>>
      BY <2>11 DEF Tick, vars
    <3>2. RemindersMatch' /\ Reverts' /\ Learned'
      BY <1>2, <3>1 DEF IInv, RemindersMatch, Exists, Reverts, Agrees, Learned
    <3> QED BY <2>1, <2>2, <3>1, <3>2 DEF IInv
  <2>12. \/ \E r \in Requests :
              \/ Reading(r) \/ WriteContact(r) \/ Archive(r) \/ InsertReminders(r)
              \/ CheckRow(r) \/ FailImport(r) \/ CommitSync(r)
              \/ \E c \in Ids : UpdateExisting(r, c) \/ CreateContact(r, c)
         \/ Tick \/ UNCHANGED vars
    BY <1>2 DEF Next, SyncStep, DeskStep, ReminderStep, Reading
  <2> QED BY <2>3, <2>4, <2>5, <2>6, <2>7, <2>8, <2>9, <2>10, <2>11, <2>12
<1> QED BY <1>1, <1>2

LEMMA Inductive == Spec => []IInv
<1> QED BY DeskInductive, PTL DEF Spec

\* Reminders agree with the CRM state through any order of operations,
\* deliveries, imports with their rollbacks, archivals and generations.
THEOREM RemindersAgree == Spec => []RemindersMatch
<1>1. IInv => RemindersMatch
  BY DEF IInv
<1> QED BY <1>1, Inductive, PTL

\* An opt-out survives every CRM operation, delivery and import, and the
\* rollback of an import, but for a contact written from a stale read.
THEOREM OptOutSurvives == Spec => OptOutKept
<1> DEFINE Kept == \A c \in Ids : Exists(c) /\ contact[c].dnc =>
                     contact'[c] = NoContact \/ contact'[c].dnc \/ c \in raced'
<1>1. ASSUME IInv, [Next]_vars PROVE [Kept]_vars
  <2>1. OptOutStep
    BY <1>1, DeskInductive
  <2> QED BY <2>1 DEF OptOutStep, Out, OutOrGone, Exists
<1> QED BY <1>1, Inductive, PTL DEF Spec, OptOutKept

\* An import never drops an address of a contact nor touches its CRM state.
THEOREM ImportsPreserve == Spec => SyncPreserves
<1> DEFINE Kept(c) == \/ c \in raced'
                      \/ /\ ToSet(contact[c].phones) \subseteq ToSet(contact'[c].phones)
                         /\ ToSet(contact[c].emails) \subseteq ToSet(contact'[c].emails)
                         /\ contact'[c] = [contact[c] EXCEPT !.phones = contact'[c].phones,
                                                             !.emails = contact'[c].emails]
           P == \A c \in Ids : (\E r \in Requests : UpdateExisting(r, c)) /\ Exists(c) => Kept(c)
<1>1. ASSUME IInv, [Next]_vars PROVE [P]_vars
  <2> SUFFICES ASSUME NEW c \in Ids, NEW r \in Requests, UpdateExisting(r, c), c \notin raced'
               PROVE  Kept(c)
    OBVIOUS
  <2> DEFINE row  == Head(req[r].rows)
             held == IF Indexed(row, req[r].view) # {} THEN req[r].view[c] ELSE contact[c]
  <2>1. row \in Rows /\ held \in Contacts
    BY <1>1, HeldTyped DEF UpdateExisting, IInv
  <2>2. Save(c, held, Merge(held, row)) /\ contact \in Listings
    BY <1>1 DEF UpdateExisting, IInv, Typed, TypeOK
  <2> HIDE DEF row, held
  <2>3. contact[c] = held /\ contact'[c] = Merge(held, row)
    BY <2>2 DEF Save, Listings
  <2> DEFINE k == Merge(held, row)
  <2>4. /\ ToSet(held.phones) \subseteq ToSet(k.phones)
        /\ ToSet(held.emails) \subseteq ToSet(k.emails)
        /\ k = [held EXCEPT !.phones = k.phones, !.emails = k.emails]
    BY <2>1, MergeEffect
  <2> HIDE DEF k
  <2>5. contact[c] = held /\ contact'[c] = k
    BY <2>3 DEF k
  <2>6. contact'[c] = [contact[c] EXCEPT !.phones = contact'[c].phones,
                                         !.emails = contact'[c].emails]
    BY <2>4, <2>5
  <2> QED BY <2>4, <2>5, <2>6
<1> QED BY <1>1, Inductive, PTL DEF Spec, SyncPreserves

\* A contact that an import makes shares no address with one that the import
\* has listed, or has itself made or extended for an earlier row.
THEOREM NewContactsAreNew == Spec => FreshMeansNew
<1> DEFINE Known(r, d) == IF d \in req[r].ids THEN contact[d] ELSE req[r].view[d]
           P == \A r \in Requests, c \in Ids : CreateContact(r, c) =>
                  \A d \in Ids \ {c} :
                    LET known == IF d \in req[r].ids THEN contact[d] ELSE req[r].view[d]
                    IN  known # NoContact =>
                          /\ ToSet(contact'[c].phones) \cap ToSet(known.phones) = {}
                          /\ ToSet(contact'[c].emails) \cap ToSet(known.emails) = {}
<1>1. ASSUME IInv, [Next]_vars PROVE [P]_vars
  <2> SUFFICES ASSUME NEW r \in Requests, NEW c \in Ids, CreateContact(r, c),
                      NEW d \in Ids \ {c}, Known(r, d) # NoContact
               PROVE  /\ ToSet(contact'[c].phones) \cap ToSet(Known(r, d).phones) = {}
                      /\ ToSet(contact'[c].emails) \cap ToSet(Known(r, d).emails) = {}
    OBVIOUS
  <2>1. Known(r, d) = req[r].view[d]
    BY <1>1 DEF IInv, Learned, CreateContact
  <2> HIDE DEF Known
  <2> QED BY <1>1, <2>1, CreateSeesAll
<1> QED BY <1>1, Inductive, PTL DEF Spec, FreshMeansNew
-----------------------------------------------------------------------------
(***************************************************************************)
(* How many reminders a contact can have.  A request is only about to      *)
(* insert one if it found none: so reminders and such requests together    *)
(* are never more than there are requests.                                 *)
(***************************************************************************)
Inserting(c) == {r \in Requests : req[r].pc = "inserting" /\ req[r].id = c}

Room == \A c \in Ids : Cardinality(pending[c]) + Cardinality(Inserting(c)) <= Cardinality(Requests)

LEMMA Finite ==
  ASSUME Typed, NEW c \in Ids
  PROVE  /\ IsFiniteSet(pending[c]) /\ Cardinality(pending[c]) \in Nat
         /\ IsFiniteSet(Inserting(c)) /\ Cardinality(Inserting(c)) \in Nat
         /\ Cardinality(Requests) \in Nat
<1>1. IsFiniteSet(1..MaxCalls)
  BY FS_Interval
<1>2. pending[c] \subseteq 1..MaxCalls
  BY DEF Typed, TypeOK
<1>3. Inserting(c) \subseteq Requests /\ IsFiniteSet(Requests)
  BY DEF Inserting
<1> QED BY <1>1, <1>2, <1>3, FS_Subset, FS_CardinalityType

\* A step after which no other request is about to insert, nor any more
\* reminders there.
LEMMA RoomLeft ==
  ASSUME Typed, Room, Typed',
         \A c \in Ids : pending'[c] \subseteq pending[c] /\ Inserting(c)' \subseteq Inserting(c)
  PROVE  Room'
<1> SUFFICES ASSUME NEW c \in Ids
             PROVE  Cardinality(pending'[c]) + Cardinality(Inserting(c)') <= Cardinality(Requests)
  BY DEF Room
<1>1. /\ Cardinality(pending'[c]) <= Cardinality(pending[c])
      /\ Cardinality(Inserting(c)') <= Cardinality(Inserting(c))
  BY Finite, FS_Subset
<1>2. Cardinality(pending[c]) + Cardinality(Inserting(c)) <= Cardinality(Requests)
  BY DEF Room
<1>3. /\ Cardinality(pending[c]) \in Nat /\ Cardinality(Inserting(c)) \in Nat
      /\ Cardinality(Requests) \in Nat
  BY Finite
<1>4. IsFiniteSet(pending'[c]) /\ IsFiniteSet(Inserting(c)')
  BY Finite, FS_Subset
<1>5. Cardinality(pending'[c]) \in Nat /\ Cardinality(Inserting(c)') \in Nat
  BY <1>4, FS_CardinalityType
<1> QED BY <1>1, <1>2, <1>3, <1>5

\* Whoever does not look a reminder up will not insert one.
LEMMA NotInserting ==
  ASSUME Typed, NEW r \in Requests,
         \/ SyncStep(r) \/ DeskStep(r) \/ InsertReminders(r) \/ StartGeneration(r)
         \/ NothingToInsert(r)
  PROVE  req'[r].pc # "inserting" /\ \A u \in Requests \ {r} : req'[u] = req[u]
<1>0. req \in [Requests -> Locals] /\ req[r] \in Locals
  BY DEF Typed, TypeOK
<1> DEFINE Goes == req'[r].pc # "inserting" /\ \A u \in Requests \ {r} : req'[u] = req[u]
<1>1. ASSUME NEW file \in Files, ListContacts(r, file) PROVE Goes
  BY <1>0, <1>1 DEF ListContacts, Begin, Idle
<1>2. ASSUME NEW c \in Ids, NEW op \in Operations, ReadContact(r, c, op) PROVE Goes
  BY <1>0, <1>2 DEF ReadContact, Begin, Idle
<1>3. ASSUME NEW c \in Ids, ReadToArchive(r, c) PROVE Goes
  BY <1>0, <1>3 DEF ReadToArchive, Begin, Idle
<1>4. CASE StartGeneration(r)
  BY <1>0, <1>4 DEF StartGeneration, Begin, Idle
<1>5. CASE \/ FailImport(r) \/ CommitSync(r) \/ WriteContact(r) \/ CompletionFails(r)
           \/ Archive(r) \/ InsertReminders(r) \/ NothingToInsert(r)
  <2>1. Return(r)
    BY <1>5 DEF FailImport, CommitSync, WriteContact, CompletionFails, Archive, InsertReminders,
                NothingToInsert
  <2> QED BY <2>1, Idled
<1>6. CASE CheckRow(r)
  <2>1. CASE Suppressed(Head(req[r].rows))
    BY <1>0, <1>6, <2>1 DEF CheckRow, Locals
  <2>2. CASE ~Suppressed(Head(req[r].rows))
    BY <1>0, <1>6, <2>2 DEF CheckRow, Locals
  <2> QED BY <2>1, <2>2
<1>7. CASE FindReminders(r)
  BY <1>0, <1>7 DEF FindReminders, Locals
<1>8. ASSUME NEW c \in Ids, UpdateExisting(r, c) \/ CreateContact(r, c) PROVE Goes
  <2>1. PICK k : req' = [req EXCEPT ![r] = [req[r] EXCEPT
                   !.pc = "syncing", !.rows = Tail(req[r].rows), !.ids = req[r].ids \cup {c},
                   !.view = [req[r].view EXCEPT ![c] = k],
                   !.base = IF lock = r THEN req[r].base ELSE contact]]
    <3>1. PICK k : Saved(r, c, k)
      BY <1>8 DEF UpdateExisting, CreateContact
    <3> QED BY <3>1 DEF Saved
  <2> QED BY <1>0, <2>1 DEF Locals
<1> QED BY <1>1, <1>2, <1>3, <1>4, <1>5, <1>6, <1>7, <1>8 DEF SyncStep, DeskStep

LEMMA Fewer ==
  ASSUME NEW r \in Requests, req'[r].pc # "inserting",
         \A u \in Requests \ {r} : req'[u] = req[u], NEW c \in Ids
  PROVE  Inserting(c)' \subseteq Inserting(c) \ {r}
  BY DEF Inserting

LEMMA InsertRoom ==
  ASSUME Typed, Room, Typed', NEW r \in Requests, InsertReminders(r)
  PROVE  Room'
<1> DEFINE new == {req[r].id} \cup {c \in req[r].ids : NeedsReminder(r, c)}
<1>1. PICK n \in 1..MaxCalls : req[r].reminders = {n}
  BY DEF InsertReminders, Typed, Fit
<1>2. \/ pending' = pending
      \/ pending' = [c \in Ids |-> IF c \in new THEN pending[c] \cup {n} ELSE pending[c]]
  BY <1>1 DEF InsertReminders
<1>3. \A c \in new : c = req[r].id \/ pending[c] = {}
  BY DEF NeedsReminder
<1> HIDE DEF new
<1>4. \A c \in Ids : Inserting(c)' \subseteq Inserting(c) \ {r}
  BY NotInserting, Fewer
<1> SUFFICES ASSUME NEW c \in Ids
             PROVE  Cardinality(pending'[c]) + Cardinality(Inserting(c)') <= Cardinality(Requests)
  BY DEF Room
<1> DEFINE P == Cardinality(pending[c])
           I == Cardinality(Inserting(c))
           N == Cardinality(Requests)
<1>5. /\ IsFiniteSet(pending[c]) /\ P \in Nat /\ IsFiniteSet(Inserting(c)) /\ I \in Nat
      /\ N \in Nat /\ P + I <= N /\ IsFiniteSet(Requests)
  BY Finite DEF Room
<1>6. PICK i \in Nat : i = Cardinality(Inserting(c)')
  <2>1. IsFiniteSet(Inserting(c)')
    BY <1>4, <1>5, FS_Subset
  <2> QED BY <2>1, FS_CardinalityType
<1>7. PICK q \in Nat : q = Cardinality(pending'[c]) /\ q <= P + 1 /\ (pending'[c] = pending[c] => q = P)
  <2>1. CASE pending'[c] = pending[c]
    BY <1>5, <2>1
  <2>2. CASE pending'[c] # pending[c]
    <3>1. pending'[c] = pending[c] \cup {n}
      BY <1>2, <2>2
    <3>2. Cardinality(pending'[c]) \in {P, P + 1}
      BY <1>5, <3>1, FS_AddElement
    <3> QED BY <1>5, <2>2, <3>2
  <2> QED BY <2>1, <2>2
<1>8. i <= I
  BY <1>4, <1>5, <1>6, FS_Subset
<1>9. r \in Inserting(req[r].id) /\ (c = req[r].id => i <= I - 1)
  <2>1. r \in Inserting(req[r].id)
    BY DEF InsertReminders, Inserting
  <2>2. ASSUME c = req[r].id PROVE i <= I - 1
    <3>1. IsFiniteSet(Inserting(c) \ {r}) /\ Cardinality(Inserting(c) \ {r}) = I - 1
      BY <1>5, <2>1, <2>2, FS_RemoveElement
    <3> QED BY <1>4, <1>6, <3>1, FS_Subset
  <2> QED BY <2>1, <2>2
<1>10. i <= N - 1
  <2>1. Inserting(c)' \subseteq Requests \ {r}
    BY <1>4 DEF Inserting
  <2>2. IsFiniteSet(Requests \ {r}) /\ Cardinality(Requests \ {r}) = N - 1
    BY <1>5, FS_RemoveElement
  <2> QED BY <1>6, <2>1, <2>2, FS_Subset
<1>11. \/ q = P \/ c = req[r].id
       \/ q <= 1
  <2>1. CASE c \in new /\ pending[c] = {}
    <3>1. P = 0
      BY <2>1, FS_EmptySet
    <3> QED BY <1>7, <3>1
  <2>2. CASE c \in new /\ c = req[r].id
    BY <2>2
  <2>3. CASE c \notin new
    BY <1>2, <1>7, <2>3
  <2> QED BY <1>3, <2>1, <2>2, <2>3
<1> HIDE DEF P, I, N
<1>12. q + i <= N
  BY <1>5, <1>7, <1>8, <1>9, <1>10, <1>11
<1> QED BY <1>6, <1>7, <1>12 DEF N

LEMMA LookUpRoom ==
  ASSUME Typed, Room, Typed', NEW r \in Requests, NEW c \in Ids, LookUpReminder(r, c)
  PROVE  Room'
<1>0. req \in [Requests -> Locals] /\ req[r] \in Locals /\ pending' = pending
  BY DEF Typed, TypeOK, LookUpReminder
<1>1. CASE NeedsReminder(r, c)
  <2>1. /\ req'[r].id = c /\ \A u \in Requests \ {r} : req'[u] = req[u]
    BY <1>0, <1>1 DEF LookUpReminder, Locals
  <2> SUFFICES ASSUME NEW d \in Ids
               PROVE  Cardinality(pending[d]) + Cardinality(Inserting(d)') <= Cardinality(Requests)
    BY <1>0 DEF Room
  <2>2. CASE d = c
    <3>1. Cardinality(pending[d]) = 0
      BY <1>1, <2>2, FS_EmptySet DEF NeedsReminder
    <3>2. Inserting(d)' \subseteq Requests /\ IsFiniteSet(Requests)
      BY DEF Inserting
    <3>3. Cardinality(Inserting(d)') <= Cardinality(Requests) /\ Cardinality(Inserting(d)') \in Nat
      BY <3>2, FS_Subset, FS_CardinalityType
    <3>4. Cardinality(Requests) \in Nat
      BY <3>2, FS_CardinalityType
    <3> QED BY <3>1, <3>3, <3>4
  <2>3. CASE d # c
    <3>1. Inserting(d)' \subseteq Inserting(d)
      BY <2>1, <2>3 DEF Inserting
    <3>2. /\ Cardinality(Inserting(d)') <= Cardinality(Inserting(d)) /\ Cardinality(Inserting(d)') \in Nat
      BY <3>1, Finite, FS_Subset, FS_CardinalityType
    <3>3. /\ Cardinality(pending[d]) \in Nat /\ Cardinality(Inserting(d)) \in Nat
          /\ Cardinality(Requests) \in Nat
          /\ Cardinality(pending[d]) + Cardinality(Inserting(d)) <= Cardinality(Requests)
      BY Finite DEF Room
    <3> QED BY <3>2, <3>3
  <2> QED BY <2>2, <2>3
<1>2. CASE ~NeedsReminder(r, c)
  <2>1. req'[r].pc # "inserting" /\ \A u \in Requests \ {r} : req'[u] = req[u]
    BY <1>0, <1>2 DEF LookUpReminder, Locals
  <2> QED BY <1>0, <2>1, Fewer, RoomLeft
<1> QED BY <1>1, <1>2

LEMMA RoomInductive ==
  /\ Init => Room
  /\ Typed /\ Room /\ [Next]_vars => Room'
<1>1. ASSUME Init PROVE Room
  <2>1. Typed
    BY <1>1, TypedInductive
  <2>2. ASSUME NEW c \in Ids PROVE pending[c] = {} /\ Inserting(c) = {}
    BY <1>1 DEF Init, Inserting, Idle
  <2>3. ASSUME NEW c \in Ids
        PROVE  Cardinality(pending[c]) + Cardinality(Inserting(c)) <= Cardinality(Requests)
    <3>1. Cardinality(pending[c]) = 0 /\ Cardinality(Inserting(c)) = 0
      BY <2>2, FS_EmptySet
    <3>2. Cardinality(Requests) \in Nat
      BY <2>1, Finite
    <3> QED BY <3>1, <3>2
  <2> QED BY <2>3 DEF Room
<1>2. ASSUME Typed, Room, [Next]_vars PROVE Room'
  <2>0. Typed'
    BY <1>2, TypedInductive
  <2>1. ASSUME NEW r \in Requests,
               SyncStep(r) \/ DeskStep(r) \/ StartGeneration(r) \/ NothingToInsert(r)
        PROVE  Room'
    <3>1. \A c \in Ids : Inserting(c)' \subseteq Inserting(c)
      BY <1>2, <2>1, NotInserting, Fewer
    <3>2. \A c \in Ids : pending'[c] \subseteq pending[c]
      <4>1. \/ pending' = pending
            \/ \E s : pending' = [pending EXCEPT ![req[r].id] = pending[req[r].id] \ s]
            \/ pending' = [pending EXCEPT ![req[r].id] = {}]
        BY <2>1 DEF SyncStep, DeskStep, StartGeneration, NothingToInsert, ListContacts, CheckRow,
                    FailImport, CommitSync, UpdateExisting, CreateContact, ReadContact,
                    FindReminders, WriteContact, CompletionFails, ReadToArchive, Archive
      <4> QED BY <1>2, <4>1 DEF Typed, TypeOK
    <3> QED BY <1>2, <2>0, <3>1, <3>2, RoomLeft
  <2>2. ASSUME NEW r \in Requests, InsertReminders(r) PROVE Room'
    BY <1>2, <2>0, <2>2, InsertRoom
  <2>3. ASSUME NEW r \in Requests, NEW c \in Ids, LookUpReminder(r, c) PROVE Room'
    BY <1>2, <2>0, <2>3, LookUpRoom
  <2>4. ASSUME Tick \/ UNCHANGED vars PROVE Room'
    <3>1. UNCHANGED <<pending, req>>
      BY <2>4 DEF Tick, vars
    <3> QED BY <1>2, <3>1 DEF Room, Inserting
  <2> QED BY <1>2, <2>1, <2>2, <2>3, <2>4 DEF Next, ReminderStep
<1> QED BY <1>1, <1>2

\* However often generations run and overlap, and whatever is completed or
\* archived meanwhile, a contact has no more pending reminders than there are
\* threads that can generate them.
THEOREM RemindersStayBounded == Spec => []RemindersBounded
<1>1. ASSUME Typed, Room PROVE RemindersBounded
  BY <1>1, Finite DEF Room, RemindersBounded
<1>2. Spec => [](Typed /\ Room)
  BY TypedInductive, RoomInductive, PTL DEF Spec
<1> QED BY <1>1, <1>2, PTL
=============================================================================
