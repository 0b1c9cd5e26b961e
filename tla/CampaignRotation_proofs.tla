---------------------- MODULE CampaignRotation_proofs ----------------------
(***************************************************************************)
(* Theorems about CampaignRotation: its types, that the dashboards and the *)
(* selection agree, that the quota is kept and "complete" means done, that *)
(* rounds do not go back, that senders take turns and that companies do.   *)
(***************************************************************************)
EXTENDS CampaignRotation, Subsequences_proofs

-----------------------------------------------------------------------------
(* Coverage. *)

\* The endpoints of a contact are some of those there may be.
LEMMA EndpointsKnown ==
  ASSUME TypeOK, NEW c \in Contacts
  PROVE  endpoints[c] \in Seq(Endpoints) /\ ToSet(endpoints[c]) \subseteq Endpoints
<1>1. endpoints[c] \in Seq(Endpoints)
  BY DEF TypeOK
<1> QED BY <1>1 DEF ToSet

\* What get_uncovered_endpoints keeps.
Left(e, channels) ==
  ChannelOf[e] \in channels /\ e \notin tombs /\ ~Covered(e) /\ ~PermanentlyFailed(e)

LEMMA UncoveredEffect ==
  ASSUME TypeOK, NEW c \in Contacts, NEW channels
  PROVE  /\ Uncovered(c, channels) \in Seq(ToSet(endpoints[c]))
         /\ Uncovered(c, channels) # <<>> <=>
              c \notin optout /\ \E e \in ToSet(endpoints[c]) : Left(e, channels)
<1>0. endpoints[c] \in Seq(Endpoints)
  BY DEF TypeOK
<1>1. CASE c \in optout
  BY <1>1 DEF Uncovered
<1>2. CASE c \notin optout
  <2> DEFINE s == endpoints[c]
             I == {i \in DOMAIN s : Left(s[i], channels)}
             p == Pick(s, I)
  <2>1. Uncovered(c, channels) = p
    BY <1>2 DEF Uncovered, Left
  <2>2. s \in Seq(ToSet(s)) /\ I \in SUBSET DOMAIN s
    BY <1>0 DEF ToSet
  <2>3. (\E e \in ToSet(s) : Left(e, channels)) <=> I # {}
    BY <1>0 DEF ToSet
  <2> HIDE DEF I, s, p
  <2>4. /\ p \in Seq(ToSet(s))
        /\ \A k \in 1..Len(p) : Nth(I, k) \in I
        /\ \A i \in I : \E k \in 1..Len(p) : Nth(I, k) = i
    BY <2>2, PickEffect DEF p
  <2>5. p # <<>> <=> 1 \in 1..Len(p)
    BY <2>4
  <2>6. p # <<>> <=> I # {}
    <3>1. ASSUME p # <<>> PROVE I # {}
      BY <2>4, <2>5, <3>1
    <3>2. ASSUME I # {} PROVE p # <<>>
      <4>1. PICK k \in 1..Len(p) : TRUE
        BY <2>4, <3>2
      <4> QED BY <2>4, <4>1
    <3> QED BY <3>1, <3>2
  <2> QED BY <1>2, <2>1, <2>3, <2>4, <2>6 DEF s
<1> QED BY <1>1, <1>2

\* A contact can be dispatched exactly when an endpoint is shown as ready.
LEMMA EligibleIsReady ==
  ASSUME TypeOK, NEW c \in Contacts
  PROVE  Eligible(c) <=>
           \E e \in ToSet(endpoints[c]) : Ready(c, e) /\ ChannelOf[e] \in Available
<1>1. \A e \in ToSet(endpoints[c]) :
        Ready(c, e) <=> c \notin optout /\ Left(e, {ChannelOf[e]}) /\ ~Blocked(c, ChannelOf[e])
  BY DEF Ready, CoverageState, Left
<1>2. \A channel : Usable(c, channel) <=>
        /\ channel \in Available /\ ~Blocked(c, channel) /\ c \notin optout
        /\ \E e \in ToSet(endpoints[c]) : Left(e, {channel})
  <2>1. ASSUME NEW channel
        PROVE  Uncovered(c, {channel}) # <<>> <=>
                 c \notin optout /\ \E e \in ToSet(endpoints[c]) : Left(e, {channel})
    BY UncoveredEffect
  <2> QED BY <2>1 DEF Usable, Available
<1>3. \A e, channel : Left(e, {channel}) <=> Left(e, {ChannelOf[e]}) /\ channel = ChannelOf[e]
  BY DEF Left
<1>4. Available \subseteq Channels
  BY RotationAssumption DEF Available
<1> QED BY <1>1, <1>2, <1>3, <1>4 DEF Eligible

\* No endpoint of a contact that is fully covered is ready, blocked or left for
\* a retry, and only of such a contact.
LEMMA CoveredIsDone ==
  ASSUME TypeOK, NEW c \in Contacts
  PROVE  FullyCovered(c) <=>
           \A e \in ToSet(endpoints[c]) :
             CoverageState(c, e) \in {"SENT", "PERMANENT_FAILED", "SUPPRESSED"}
<1>1. FullyCovered(c) <=> c \in optout \/ \A e \in ToSet(endpoints[c]) : ~Left(e, Channels)
  BY UncoveredEffect DEF FullyCovered
<1>2. ASSUME NEW e \in ToSet(endpoints[c]) PROVE ChannelOf[e] \in Channels
  <2>1. e \in Endpoints
    BY EndpointsKnown
  <2> QED BY <2>1, RotationAssumption
<1>3. ASSUME NEW e \in ToSet(endpoints[c])
      PROVE  CoverageState(c, e) \in {"SENT", "PERMANENT_FAILED", "SUPPRESSED"} <=>
               c \in optout \/ ~Left(e, Channels)
  BY <1>2 DEF CoverageState, Left
<1> QED BY <1>1, <1>3

\* The dashboards and the selection agree in every state.
LEMMA Agreement == TypeOK => DashboardAgrees
<1> SUFFICES ASSUME TypeOK PROVE DashboardAgrees
  OBVIOUS
<1>0. listed \subseteq Contacts
  BY DEF TypeOK
<1>1. ASSUME NEW c \in Contacts
      PROVE  DispatchComplete(c) <=> endpoints[c] # <<>> /\ FullyCovered(c)
  BY CoveredIsDone DEF DispatchComplete
<1>2. \A c \in Contacts : FullyCovered(c) \in BOOLEAN /\ DispatchComplete(c) \in BOOLEAN
                          /\ Eligible(c) \in BOOLEAN
  BY DEF FullyCovered, DispatchComplete, Eligible
<1> QED BY <1>0, <1>1, <1>2, EligibleIsReady DEF DashboardAgrees
-----------------------------------------------------------------------------
(* The order of the contacts. *)

\* A contact has one place in the list, so there are finitely many.
LEMMA PlaceEffect ==
  /\ \A c \in Contacts : Place[c] \in Nat /\ Place[c] \in DOMAIN ContactList
                         /\ ContactList[Place[c]] = c
  /\ \A S \in SUBSET Contacts : IsFiniteSet(S) /\ Cardinality(S) \in Nat
<1>1. ASSUME NEW c \in Contacts
      PROVE  Place[c] \in DOMAIN ContactList /\ ContactList[Place[c]] = c
  <2>1. \E i \in DOMAIN ContactList : ContactList[i] = c
    BY DEF Contacts, ToSet
  <2> QED BY <2>1 DEF Place
<1>2. DOMAIN ContactList = 1..Len(ContactList) /\ Len(ContactList) \in Nat
  BY RotationAssumption
<1>3. IsFiniteSet(Contacts)
  <2> DEFINE f == [c \in Contacts |-> Place[c]]
  <2>1. f \in Injection(Contacts, DOMAIN ContactList)
    BY <1>1 DEF Injection, IsInjective
  <2>2. IsFiniteSet(DOMAIN ContactList)
    BY <1>2, FS_Interval
  <2> QED BY <2>1, <2>2, FS_Injection
<1> QED BY <1>1, <1>2, <1>3, FS_Subset, FS_CardinalityType

\* A company is found where the first of its contacts is.
LEMMA FoundEffect ==
  ASSUME listed \subseteq Contacts, NEW c \in listed
  PROVE  Found[c] \in Nat /\ \E d \in SameCompany[c] : Found[c] = Place[d]
<1> DEFINE T == {Place[d] : d \in SameCompany[c]}
<1>1. SameCompany[c] \subseteq Contacts /\ c \in SameCompany[c]
  BY DEF SameCompany
<1>2. T \in SUBSET Nat /\ T # {}
  BY <1>1, PlaceEffect
<1>3. Found[c] = Min(T)
  BY DEF Found
<1> HIDE DEF T
<1>4. \E x \in T : \A y \in T : x <= y
  BY <1>2, LeastNumber
<1>5. Min(T) \in T
  BY <1>4 DEF Min
<1> QED BY <1>2, <1>3, <1>5 DEF T

\* The attempts of a company are counted once for all of its contacts.
LEMMA LoadEffect ==
  ASSUME touches \in [Contacts -> Nat], listed \subseteq Contacts, NEW c \in listed
  PROVE  /\ Load(c) \in Nat
         /\ \A d \in listed : Company[d] = Company[c] => Load(d) = Load(c)
<1>1. ASSUME NEW d \in listed, Company[d] = Company[c] PROVE Load(d) = Load(c)
  <2>1. SameCompany[d] = SameCompany[c]
    BY <1>1 DEF SameCompany
  <2> QED BY <2>1 DEF Load
<1> DEFINE Of(d) == {d} \X (1..touches[d])
           Parts == {Of(d) : d \in SameCompany[c]}
<1>2. SameCompany[c] \in SUBSET Contacts
  BY DEF SameCompany
<1>3. \A d \in SameCompany[c] : IsFiniteSet(Of(d))
  <2>1. ASSUME NEW d \in SameCompany[c] PROVE IsFiniteSet(1..touches[d]) /\ IsFiniteSet({d})
    <3>1. touches[d] \in Int
      BY <1>2
    <3>2. IsFiniteSet(1..touches[d])
      BY <3>1, FS_Interval
    <3> QED BY <3>2, FS_Singleton
  <2> QED BY <2>1, FS_Product
<1>4. IsFiniteSet(Parts)
  <2> HIDE DEF Of
  <2> DEFINE f == [d \in SameCompany[c] |-> Of(d)]
  <2>1. f \in Surjection(SameCompany[c], Parts)
    BY DEF Surjection
  <2>2. IsFiniteSet(SameCompany[c])
    BY <1>2, PlaceEffect
  <2> QED BY <2>1, <2>2, FS_Surjection
<1>5. IsFiniteSet(UNION Parts)
  BY <1>3, <1>4, FS_UNION
<1>6. Load(c) \in Nat
  BY <1>5, FS_CardinalityType DEF Load
<1> QED BY <1>1, <1>6

\* In one company, offsets follow the list.
LEMMA OffsetGrows ==
  ASSUME listed \subseteq Contacts, NEW S \in SUBSET listed, NEW c \in S
  PROVE  /\ Offset(S, c) \in Nat
         /\ \A d \in S : Company[d] = Company[c] /\ Place[d] < Place[c]
                           => Offset(S, d) < Offset(S, c)
<1> DEFINE Earlier(d) == {x \in S \cap SameCompany[d] : Place[x] < Place[d]}
<1>1. \A d \in S : /\ Offset(S, d) = Cardinality(Earlier(d))
                   /\ IsFiniteSet(Earlier(d)) /\ Cardinality(Earlier(d)) \in Nat
  <2>1. \A d \in S : Earlier(d) \in SUBSET Contacts
    OBVIOUS
  <2> QED BY <2>1, PlaceEffect DEF Offset
<1>2. ASSUME NEW d \in S, Company[d] = Company[c], Place[d] < Place[c]
      PROVE  Cardinality(Earlier(d)) < Cardinality(Earlier(c))
  <2>1. d \notin Earlier(d) /\ Earlier(d) \cup {d} \subseteq Earlier(c)
    BY <1>2, PlaceEffect DEF SameCompany
  <2> HIDE DEF Earlier
  <2>2. Cardinality(Earlier(d) \cup {d}) = Cardinality(Earlier(d)) + 1
    BY <1>1, <2>1, FS_AddElement
  <2>3. Cardinality(Earlier(d) \cup {d}) <= Cardinality(Earlier(c))
    BY <1>1, <2>1, FS_Subset
  <2> QED BY <1>1, <2>2, <2>3
<1> HIDE DEF Earlier
<1> QED BY <1>1, <1>2

\* Round, company and offset put the contacts in one order, and the offset is
\* never needed: two contacts of a company differ in their rounds.
LEMMA BeforeIsOrder ==
  ASSUME touches \in [Contacts -> Nat], listed \subseteq Contacts, NEW S \in SUBSET listed
  PROVE  /\ OrderOn(S, Before(S))
         /\ \A c, d \in S : <<c, d>> \in Before(S) =>
              Load(c) + Offset(S, c) <= Load(d) + Offset(S, d)
<1> DEFINE round == Rounds(S)
           found == Found
           off   == [c \in S |-> Offset(S, c)]
           R     == Before(S)
<1>1. \A c \in S : /\ Load(c) \in Nat /\ Offset(S, c) \in Nat
                   /\ round[c] = Load(c) + Offset(S, c) + 1
  BY LoadEffect, OffsetGrows DEF Rounds
<1>2. \A c \in S : round[c] \in Nat /\ found[c] \in Nat /\ off[c] \in Nat
  BY <1>1, FoundEffect
<1>3. \A c, d \in S : <<c, d>> \in R <=>
        \/ round[c] < round[d]
        \/ round[c] = round[d] /\ found[c] < found[d]
        \/ round[c] = round[d] /\ found[c] = found[d] /\ off[c] < off[d]
  BY DEF Before
<1>4. ASSUME NEW c \in S, NEW d \in S, c # d, round[c] = round[d], found[c] = found[d]
      PROVE  FALSE
  <2>1. CASE Company[c] = Company[d]
    <3>1. Load(c) = Load(d)
      BY <2>1, LoadEffect
    <3>2. Offset(S, c) = Offset(S, d)
      BY <1>1, <1>4, <3>1
    <3>3. Place[c] \in Nat /\ Place[d] \in Nat /\ Place[c] # Place[d]
      BY <1>4, PlaceEffect
    <3>4. Place[c] < Place[d] => Offset(S, c) < Offset(S, d)
      BY <2>1, OffsetGrows
    <3>5. Place[d] < Place[c] => Offset(S, d) < Offset(S, c)
      BY <2>1, OffsetGrows
    <3> QED BY <1>1, <3>2, <3>3, <3>4, <3>5
  <2>2. CASE Company[c] # Company[d]
    <3>1. PICK x \in SameCompany[c] : Found[c] = Place[x]
      BY FoundEffect
    <3>2. PICK y \in SameCompany[d] : Found[d] = Place[y]
      BY FoundEffect
    <3>3. x \in listed /\ y \in listed /\ Company[x] = Company[c] /\ Company[y] = Company[d]
      BY DEF SameCompany
    <3>4. x = y
      <4>1. Place[x] = Place[y]
        BY <1>4, <3>1, <3>2
      <4> QED BY <3>3, <4>1, PlaceEffect
    <3> QED BY <2>2, <3>3, <3>4
  <2> QED BY <2>1, <2>2
<1> HIDE DEF round, found, off, R
<1>5. OrderOn(S, R)
  <2>1. \A x \in S : <<x, x>> \notin R
    BY <1>2, <1>3
  <2>2. \A x, y, z \in S : <<x, y>> \in R /\ <<y, z>> \in R => <<x, z>> \in R
    BY <1>2, <1>3
  <2>3. ASSUME NEW x \in S, NEW y \in S, x # y PROVE <<x, y>> \in R \/ <<y, x>> \in R
    <3>1. round[x] \in Nat /\ round[y] \in Nat /\ found[x] \in Nat /\ found[y] \in Nat
      BY <1>2
    <3>2. round[x] # round[y] \/ found[x] # found[y]
      BY <1>4, <2>3
    <3> QED BY <1>3, <3>1, <3>2
  <2> QED BY <2>1, <2>2, <2>3 DEF OrderOn
<1>6. ASSUME NEW c \in S, NEW d \in S, <<c, d>> \in R
      PROVE  Load(c) + Offset(S, c) <= Load(d) + Offset(S, d)
  <2>1. round[c] <= round[d]
    BY <1>2, <1>3, <1>6
  <2> QED BY <1>1, <2>1
<1> QED BY <1>5, <1>6 DEF R
\* The list of a session of the loop, and whom it begins with.
LEMMA PrioritizedEffect ==
  ASSUME touches \in [Contacts -> Nat], listed \subseteq Contacts
  PROVE  /\ Prioritized \in Seq(Remaining) /\ Len(Prioritized) = Cardinality(Remaining)
         /\ \A c \in Remaining : \E k \in DOMAIN Prioritized : Prioritized[k] = c
         /\ \A k, l \in DOMAIN Prioritized :
              k < l => <<Prioritized[k], Prioritized[l]>> \in Before(Remaining)
         /\ Candidates => Prioritized[1] \in Remaining
<1>1. Remaining \in SUBSET listed /\ IsFiniteSet(Remaining)
  BY PlaceEffect DEF Remaining
<1>2. OrderOn(Remaining, Before(Remaining))
  BY <1>1, BeforeIsOrder
<1> DEFINE R == Before(Remaining)
           q == Prioritized
<1>3. /\ q \in Seq(Remaining) /\ Len(q) = Cardinality(Remaining)
      /\ \A x \in Remaining : \E k \in 1..Cardinality(Remaining) : q[k] = x
      /\ \A k, l \in 1..Cardinality(Remaining) : k < l => <<q[k], q[l]>> \in R
  BY <1>1, <1>2, SortedEffect DEF Prioritized
<1> HIDE DEF R, q
<1>4. DOMAIN q = 1..Cardinality(Remaining)
  BY <1>3
<1>5. ASSUME Candidates PROVE q[1] \in Remaining
  <2>1. PICK k \in 1..Cardinality(Remaining) : TRUE
    BY <1>3, <1>5 DEF Candidates
  <2>2. 1 \in 1..Len(q)
    BY <1>3, <2>1
  <2> QED BY <1>3, <2>2
<1> QED BY <1>3, <1>4, <1>5 DEF R, q

-----------------------------------------------------------------------------
(* The channel, the endpoint and the sender of a turn. *)

\* The senders of a channel, each at one place at least.
LEMMA ActiveOnEffect ==
  ASSUME NEW channel
  PROVE  /\ ActiveOn(channel) \in Seq(Senders) /\ Len(ActiveOn(channel)) \in Nat
         /\ \A k \in 1..Len(ActiveOn(channel)) :
              ActiveOn(channel)[k] \in active /\ ChannelOf[ActiveOn(channel)[k]] = channel
         /\ \A s \in active \cap Senders : ChannelOf[s] = channel =>
              \E k \in 1..Len(ActiveOn(channel)) : ActiveOn(channel)[k] = s
<1> DEFINE I == {i \in DOMAIN SenderList : /\ SenderList[i] \in active
                                          /\ ChannelOf[SenderList[i]] = channel}
           p == Pick(SenderList, I)
<1>1. ActiveOn(channel) = p
  BY DEF ActiveOn
<1>2. I \in SUBSET DOMAIN SenderList /\ SenderList \in Seq(Senders)
  BY RotationAssumption
<1>3. /\ \A i \in I : SenderList[i] \in active /\ ChannelOf[SenderList[i]] = channel
      /\ \A s \in active \cap Senders : ChannelOf[s] = channel => \E i \in I : SenderList[i] = s
  BY DEF Senders, ToSet
<1> HIDE DEF I, p
<1>4. /\ p \in Seq(Senders) /\ Len(p) \in Nat
      /\ \A k \in 1..Len(p) : Nth(I, k) \in I /\ p[k] = SenderList[Nth(I, k)]
      /\ \A i \in I : \E k \in 1..Len(p) : p[k] = SenderList[i]
  <2>1. /\ p \in Seq(Senders)
        /\ \A k \in 1..Len(p) : Nth(I, k) \in I /\ p[k] = SenderList[Nth(I, k)]
        /\ \A i \in I : \E k \in 1..Len(p) : p[k] = SenderList[i] /\ Nth(I, k) = i
    BY <1>2, PickEffect DEF p
  <2>2. Len(p) \in Nat
    BY <2>1
  <2> QED BY <2>1, <2>2
<1>5. \A k \in 1..Len(p) : p[k] \in active /\ ChannelOf[p[k]] = channel
  BY <1>3, <1>4
<1>6. ASSUME NEW s \in active \cap Senders, ChannelOf[s] = channel
      PROVE  \E k \in 1..Len(p) : p[k] = s
  <2>1. PICK i \in I : SenderList[i] = s
    BY <1>3, <1>6
  <2> QED BY <1>4, <2>1
<1> QED BY <1>1, <1>4, <1>5, <1>6

\* Once a channel is available, there is a turn to take.
LEMMA RotationEffect ==
  ASSUME active \subseteq Senders, Available # {}, cursor.channel \in Nat
  PROVE  Rotation.preferred \in Channels /\ Rotation.next \in Nat
<1>1. Available \subseteq Channels
  BY RotationAssumption DEF Available
<1>2. ASSUME NEW channel \in Available PROVE Len(ActiveOn(channel)) \in Nat \ {0}
  <2>1. PICK s \in active : ChannelOf[s] = channel
    BY <1>2 DEF Available
  <2>2. PICK k \in 1..Len(ActiveOn(channel)) : ActiveOn(channel)[k] = s
    BY <2>1, ActiveOnEffect
  <2> QED BY <2>2, ActiveOnEffect
<1>3. ASSUME NEW n \in Nat \ {0} PROVE Min({n, 4}) \in Nat \ {0}
  <2>1. \E x \in {n, 4} : \A y \in {n, 4} : x <= y
    OBVIOUS
  <2>2. Min({n, 4}) \in {n, 4}
    BY <2>1 DEF Min
  <2> QED BY <2>2
<1>4. \A channel \in Channels :
        Block(channel) \in Nat /\ (channel \in Available => Block(channel) # 0)
  BY <1>2, <1>3 DEF Block
<1> DEFINE all == Block("WHATSAPP") + Block("EMAIL")
<1>5. all \in Nat \ {0}
  <2>1. "WHATSAPP" \in Available \/ "EMAIL" \in Available
    BY <1>1 DEF Channels
  <2> DEFINE w == Block("WHATSAPP")
             m == Block("EMAIL")
  <2>2. w \in Nat /\ m \in Nat /\ (w # 0 \/ m # 0)
    BY <1>4, <2>1 DEF Channels
  <2> HIDE DEF w, m
  <2>3. w + m \in Nat \ {0}
    BY <2>2
  <2> QED BY <2>3 DEF w, m
<1>6. Rotation.preferred \in Channels
  BY DEF Rotation, Channels
<1>7. Rotation.next = (cursor.channel + 1) % all
  BY DEF Rotation
<1> HIDE DEF all
<1> QED BY <1>5, <1>6, <1>7

\* What is decided for a contact of the list is an endpoint it can be reached at.
LEMMA DecisionEffect ==
  ASSUME TypeOK, NEW c \in Remaining, NEW preferred \in Channels
  PROVE  /\ Decision(c, preferred).contact = c
         /\ Decision(c, preferred).channel \in Channels
         /\ Usable(c, Decision(c, preferred).channel)
         /\ Decision(c, preferred).endpoint \in Endpoints
<1> DEFINE channel == Decision(c, preferred).channel
           list    == Uncovered(c, {channel})
<1>1. c \in Contacts /\ Eligible(c)
  BY DEF Remaining, TypeOK
<1>2. channel \in Channels /\ Usable(c, channel)
  BY <1>1 DEF Decision, Eligible, Other, Channels
<1>3. Decision(c, preferred).contact = c /\ Decision(c, preferred).endpoint = Head(list)
  BY DEF Decision
<1>4. list # <<>>
  BY <1>2 DEF Usable
<1>5. list \in Seq(ToSet(endpoints[c]))
  BY <1>1, UncoveredEffect
<1> HIDE DEF list, channel
<1>6. Head(list) \in ToSet(endpoints[c])
  BY <1>4, <1>5
<1>7. Head(list) \in Endpoints
  BY <1>1, <1>6, EndpointsKnown
<1> QED BY <1>2, <1>3, <1>7 DEF channel

\* The turn goes to the first sender from the cursor on that is not cooling.
LEMMA TurnEffect ==
  ASSUME NEW list \in Seq(Senders), NEW from \in Nat, NextSender(list, from) # NoTurn
  PROVE  \E k \in 0..(Len(list) - 1) :
           /\ list[((from + k) % Len(list)) + 1] \notin cooling
           /\ \A j \in 0..(Len(list) - 1) :
                list[((from + j) % Len(list)) + 1] \notin cooling => k <= j
           /\ NextSender(list, from) =
                [sender |-> list[((from + k) % Len(list)) + 1],
                 cursor |-> (((from + k) % Len(list)) + 1) % Len(list)]
<1> DEFINE n     == Len(list)
           index(k) == (from + k) % n
           ready == {k \in 0..(n - 1) : list[index(k) + 1] \notin cooling}
<1>1. n \in Nat
  OBVIOUS
<1>2. /\ ready # {}
      /\ NextSender(list, from) = [sender |-> list[index(Min(ready)) + 1],
                                   cursor |-> (index(Min(ready)) + 1) % n]
  BY DEF NextSender
<1>3. ready \in SUBSET Nat
  BY <1>1
<1>4. \A j \in 0..(n - 1) : list[index(j) + 1] \notin cooling <=> j \in ready
  OBVIOUS
<1>5. ready \subseteq 0..(n - 1)
  OBVIOUS
<1> HIDE DEF ready
<1>6. \E x \in ready : \A y \in ready : x <= y
  BY <1>2, <1>3, LeastNumber
<1>7. Min(ready) \in ready /\ \A y \in ready : Min(ready) <= y
  BY <1>6 DEF Min
<1> DEFINE k == Min(ready)
<1>8. k \in 0..(n - 1) /\ k \in ready /\ \A j \in ready : k <= j
  BY <1>5, <1>7
<1>9. NextSender(list, from) = [sender |-> list[index(k) + 1], cursor |-> (index(k) + 1) % n]
  BY <1>2
<1> HIDE DEF k
<1> QED BY <1>4, <1>8, <1>9
\* What a turn does to the cursors, the choice and those who are passed.
Turn(c, e, channel, k) ==
  LET list == ActiveOn(channel)
      n    == Len(list)
      at   == (cursor.sender[channel] + k) % n
  IN  /\ k \in 0..(n - 1) /\ at \in 0..(n - 1)
      /\ list[at + 1] \in Senders \cap active /\ list[at + 1] \notin cooling
      /\ \A j \in 0..(n - 1) :
           list[((cursor.sender[channel] + j) % n) + 1] \notin cooling => k <= j
      /\ cursor' = [channel |-> Rotation.next,
                    sender  |-> [cursor.sender EXCEPT ![channel] = (at + 1) % n]]
      /\ picked' = [contact |-> c, endpoint |-> e, sender |-> list[at + 1]]
      /\ passed' = [s \in Senders |->
                      IF s = list[at + 1] THEN 0
                      ELSE IF ChannelOf[s] # channel THEN passed[s]
                      ELSE IF s \in active \ cooling THEN passed[s] + 1 ELSE 0]

LEMMA PickTargetEffect ==
  ASSUME TypeOK, PickTarget
  PROVE  /\ Rotation.next \in Nat
         /\ \E c \in Contacts, e \in Endpoints, channel \in Channels, k \in Nat :
              Turn(c, e, channel, k)
<1>1. /\ touches \in [Contacts -> Nat] /\ active \subseteq Senders /\ listed \subseteq Contacts
      /\ Available # {} /\ Candidates
      /\ cursor.channel \in Nat /\ cursor.sender \in [Channels -> Nat]
  BY DEF TypeOK, PickTarget
<1>2. Rotation.preferred \in Channels /\ Rotation.next \in Nat
  BY <1>1, RotationEffect
<1> DEFINE c       == Prioritized[1]
           target  == Decision(c, Rotation.preferred)
           channel == target.channel
           list    == ActiveOn(channel)
           from    == cursor.sender[channel]
           turn    == NextSender(list, from)
<1>3. c \in Remaining
  BY <1>1, PrioritizedEffect
<1>4. /\ target.contact = c /\ channel \in Channels /\ target.endpoint \in Endpoints
  BY <1>2, <1>3, DecisionEffect
<1>5. /\ turn # NoTurn
      /\ cursor' = [channel |-> Rotation.next,
                    sender  |-> [cursor.sender EXCEPT ![channel] = turn.cursor]]
      /\ picked' = [contact |-> target.contact, endpoint |-> target.endpoint,
                    sender |-> turn.sender]
      /\ passed' = [s \in Senders |->
                      IF s = turn.sender THEN 0
                      ELSE IF ChannelOf[s] # channel THEN passed[s]
                      ELSE IF s \in active \ cooling THEN passed[s] + 1 ELSE 0]
  BY DEF PickTarget
<1>6. from \in Nat
  BY <1>1, <1>4
<1> HIDE DEF c, target, channel, from
<1>7. list \in Seq(Senders) /\ Len(list) \in Nat /\ \A k \in 1..Len(list) : list[k] \in active
  BY ActiveOnEffect
<1> HIDE DEF list
<1>8. PICK k \in 0..(Len(list) - 1) :
        /\ list[((from + k) % Len(list)) + 1] \notin cooling
        /\ \A j \in 0..(Len(list) - 1) :
             list[((from + j) % Len(list)) + 1] \notin cooling => k <= j
        /\ turn = [sender |-> list[((from + k) % Len(list)) + 1],
                   cursor |-> (((from + k) % Len(list)) + 1) % Len(list)]
  BY <1>5, <1>6, <1>7, TurnEffect
<1> HIDE DEF turn
<1> DEFINE at == (from + k) % Len(list)
<1>9. k \in Nat /\ at \in 0..(Len(list) - 1)
  BY <1>6, <1>7, <1>8
<1>10. list[at + 1] \in Senders /\ list[at + 1] \in active
  <2> HIDE DEF at
  <2>1. at + 1 \in 1..Len(list)
    BY <1>7, <1>9
  <2> QED BY <1>7, <2>1
<1>11. turn.sender = list[at + 1] /\ turn.cursor = (at + 1) % Len(list)
  BY <1>8
<1>12. Turn(c, target.endpoint, channel, k)
  BY <1>4, <1>5, <1>8, <1>9, <1>10, <1>11 DEF Turn, list, from
<1>13. c \in Contacts
  BY <1>1, <1>3 DEF Remaining
<1> QED BY <1>2, <1>4, <1>9, <1>12, <1>13

-----------------------------------------------------------------------------
(* Types. *)

\* What an attempt leaves is a result of its endpoint and one attempt more.
LEMMA LeavesTypes ==
  ASSUME TypeOK, loop = "dispatching", NEW result \in Results, Leaves(result)
  PROVE  /\ rows' \in [Endpoints -> SUBSET Results] /\ touches' \in [Contacts -> Nat]
         /\ retries' \in 0..MaxRetries
         /\ rows' = [rows EXCEPT ![picked.endpoint] = rows[picked.endpoint] \cup {result}]
         /\ picked.endpoint \in Endpoints /\ picked.sender \in Senders
         /\ picked.contact \in Contacts
<1>1. picked \in [contact : Contacts, endpoint : Endpoints, sender : Senders]
  BY DEF TypeOK
<1>2. MaxRetries \in Nat
  BY RotationAssumption
<1>3. retries' \in 0..MaxRetries
  BY <1>2 DEF TypeOK, Leaves
<1> QED BY <1>1, <1>3 DEF TypeOK, Leaves

\* Every step keeps the types.
LEMMA TypeStep ==
  ASSUME TypeOK, [Next]_vars
  PROVE  TypeOK'
<1> USE DEF contacts, history, counts, outside
<1>0. MaxChanges \in Nat /\ MaxRetries \in Nat
  BY RotationAssumption
<1>1. CASE UNCHANGED vars
  BY <1>1 DEF TypeOK, vars
<1>2. CASE \/ Start \/ MaxCountReached \/ QuotaReached \/ FailWithoutSender \/ Complete
           \/ PauseOnStall \/ NoSenderReady \/ Late
  BY <1>2 DEF TypeOK, Start, Begin, Running, MaxCountReached, QuotaReached, FailWithoutSender,
              Complete, PauseOnStall, NoSenderReady, Late, Loops
<1>3. CASE AdvanceCursor
  <2>1. Rotation.next \in Nat
    BY <1>3, RotationEffect DEF TypeOK, AdvanceCursor
  <2> QED BY <1>3, <2>1 DEF TypeOK, AdvanceCursor, Running
<1>4. CASE PickTarget
  <2>1. Rotation.next \in Nat
    BY <1>4, PickTargetEffect
  <2>2. PICK c \in Contacts, e \in Endpoints, channel \in Channels, k \in Nat :
          Turn(c, e, channel, k)
    BY <1>4, PickTargetEffect
  <2> DEFINE n  == Len(ActiveOn(channel))
             at == (cursor.sender[channel] + k) % n
             s  == ActiveOn(channel)[at + 1]
  <2>3. n \in Nat \ {0} /\ at \in Nat /\ s \in Senders
    <3>1. n \in Nat
      BY ActiveOnEffect
    <3> QED BY <2>2, <3>1 DEF Turn
  <2>4. /\ cursor' = [channel |-> Rotation.next,
                      sender  |-> [cursor.sender EXCEPT ![channel] = (at + 1) % n]]
        /\ picked' = [contact |-> c, endpoint |-> e, sender |-> s]
        /\ passed' = [z \in Senders |->
                        IF z = s THEN 0
                        ELSE IF ChannelOf[z] # channel THEN passed[z]
                        ELSE IF z \in active \ cooling THEN passed[z] + 1 ELSE 0]
    BY <2>2 DEF Turn
  <2> HIDE DEF n, at, s
  <2>5. cursor' \in [channel : Nat, sender : [Channels -> Nat]]
    <3>1. (at + 1) % n \in Nat
      BY <2>3
    <3> HIDE DEF Channels
    <3> QED BY <2>1, <2>4, <3>1 DEF TypeOK
  <2>6. /\ picked' \in [contact : Contacts, endpoint : Endpoints, sender : Senders]
        /\ picked' # NoPick
    BY <2>3, <2>4, RotationAssumption DEF NoPick
  <2>7. passed' \in [Senders -> Nat]
    BY <2>4 DEF TypeOK
  <2> QED BY <1>4, <2>5, <2>6, <2>7 DEF TypeOK, PickTarget, GoesOn, Loops
<1>5. ASSUME NEW result \in Results, Attempt(result) PROVE TypeOK'
  <2>1. Leaves(result) /\ loop = "dispatching"
    BY <1>5 DEF Attempt
  <2>2. /\ rows' \in [Endpoints -> SUBSET Results] /\ touches' \in [Contacts -> Nat]
        /\ retries' \in 0..MaxRetries /\ picked.sender \in Senders
    BY <2>1, LeavesTypes
  <2>3. used' \in Nat /\ budget' \subseteq Nat
    <3>1. used \in Nat /\ \A n \in budget : n \in Nat /\ n # 0
      BY <2>1 DEF TypeOK
    <3>2. CASE result = "sent"
      <4>1. \A n \in budget : n - 1 \in Nat
        BY <3>1
      <4> QED BY <1>5, <3>1, <3>2, <4>1 DEF Attempt
    <3>3. CASE result # "sent"
      BY <1>5, <3>1, <3>3 DEF Attempt
    <3> QED BY <3>2, <3>3
  <2>4. /\ loop' = "running" /\ cooling' = cooling \cup {picked.sender}
        /\ picked' = NoPick /\ late' = FALSE /\ UNCHANGED <<outside, cursor, passed, quota, extra>>
    BY <1>5 DEF Attempt
  <2> QED BY <2>2, <2>3, <2>4 DEF TypeOK, Loops
<1>6. CASE RaiseBeforeRow
  <2>1. retries' \in 0..MaxRetries
    BY <1>0, <1>6 DEF TypeOK, RaiseBeforeRow
  <2>2. picked' = NoPick /\ loop' = "running" /\ late' = FALSE /\ UNCHANGED cooling
        /\ UNCHANGED <<rows, touches, outside, counts, cursor, passed>>
    BY <1>6 DEF RaiseBeforeRow
  <2> QED BY <2>1, <2>2 DEF TypeOK, Loops
<1>7. CASE Crash
  <2>1. /\ rows' \in [Endpoints -> SUBSET Results] /\ touches' \in [Contacts -> Nat]
        /\ retries' \in 0..MaxRetries
    <3>1. CASE loop = "running"
      BY <1>7, <3>1 DEF TypeOK, Crash
    <3>2. CASE loop = "dispatching" /\ UNCHANGED history
      BY <3>2 DEF TypeOK
    <3>3. CASE loop = "dispatching" /\ (Leaves("open") \/ Leaves("failed"))
      BY <3>3, LeavesTypes DEF Results
    <3>4. \/ loop = "running"
          \/ loop = "dispatching" /\ UNCHANGED history
          \/ loop = "dispatching" /\ (Leaves("open") \/ Leaves("failed"))
      <4> HIDE DEF history
      <4> QED BY <1>7 DEF Crash, Change
    <3> HIDE DEF history
    <3> QED BY <3>1, <3>2, <3>3, <3>4
  <2>2. /\ loop' = "paused" /\ cooling' = {} /\ picked' = NoPick /\ budget' = {}
        /\ UNCHANGED <<contacts, optout, tombs, active, cursor, late, quota, used, extra, passed>>
    BY <1>7 DEF Crash
  <2>3. changes' \in 0..MaxChanges
    BY <1>0, <1>7 DEF TypeOK, Crash, Change
  <2> QED BY <2>1, <2>2, <2>3 DEF TypeOK, Loops
<1>8. ASSUME NEW s \in Senders, Admit(s) \/ SetActive(s) PROVE TypeOK'
  <2>1. CASE Admit(s)
    BY <2>1 DEF TypeOK, Admit
  <2>2. CASE SetActive(s)
    BY <1>0, <2>2 DEF TypeOK, SetActive, Change
  <2> QED BY <1>8, <2>1, <2>2
<1>12. ASSUME NEW n \in Limits, StartWithMaxCount(n) \/ StartRefused(n) PROVE TypeOK'
  <2>1. n \in Nat
    BY RotationAssumption
  <2>2. extra' \in Nat
    BY <1>12, <2>1 DEF TypeOK, StartWithMaxCount, StartRefused, SetQuota
  <2> QED BY <1>12, <2>1, <2>2 DEF TypeOK, StartWithMaxCount, StartRefused, SetQuota, Begin, Loops
<1>13. CASE RaiseWithoutContact
  <2>1. cooling' \subseteq Senders
    <3>1. picked \in [contact : Contacts, endpoint : Endpoints, sender : Senders]
      BY <1>13 DEF TypeOK, RaiseWithoutContact
    <3> QED BY <1>13, <3>1 DEF TypeOK, RaiseWithoutContact
  <2>2. /\ picked' = NoPick /\ loop' = "running" /\ late' = FALSE
        /\ UNCHANGED <<history, outside, counts, cursor, passed>>
    BY <1>13 DEF RaiseWithoutContact
  <2> QED BY <2>1, <2>2 DEF TypeOK, Loops
<1>9. ASSUME NEW c \in Contacts, OptOut(c) PROVE TypeOK'
  BY <1>0, <1>9 DEF TypeOK, OptOut, Change
<1>10. ASSUME NEW c \in Contacts, Archive(c) PROVE TypeOK'
  <2>1. /\ endpoints' \in [Contacts -> Seq(Endpoints)] /\ ToSet(endpoints[c]) \subseteq Endpoints
        /\ touches' \in [Contacts -> Nat]
    BY <1>10, EndpointsKnown DEF TypeOK, Archive
  <2>2. rows' \in [Endpoints -> SUBSET Results]
    BY <1>10 DEF TypeOK, Archive
  <2> QED BY <1>0, <1>10, <2>1, <2>2 DEF TypeOK, Archive, Change
<1>11. ASSUME NEW e \in Endpoints, NEW result \in Results, Triage(e, result) PROVE TypeOK'
  <2>1. used' \in Nat /\ extra' \in Nat
    BY <1>11 DEF TypeOK, Triage
  <2> QED BY <1>0, <1>11, <2>1 DEF TypeOK, Triage, Change
<1>14. ASSUME NEW c \in Contacts, NEW source \in Sources[c], Import(c, source) PROVE TypeOK'
  <2>1. source \in Seq(Endpoints)
    BY RotationAssumption
  <2>2. endpoints' \in [Contacts -> Seq(Endpoints)] /\ listed' \subseteq Contacts
    BY <1>14, <2>1 DEF TypeOK, Import
  <2> QED BY <1>0, <1>14, <2>2 DEF TypeOK, Import, Change
<1> QED BY <1>1, <1>2, <1>3, <1>4, <1>5, <1>6, <1>7, <1>8, <1>9, <1>10, <1>11, <1>12, <1>13,
           <1>14
    DEF Next, LoopStep, Operator

LEMMA TypeInit == Init => TypeOK
<1> SUFFICES ASSUME Init PROVE TypeOK
  OBVIOUS
<1>1. MaxRetries \in Nat /\ MaxChanges \in Nat
  BY RotationAssumption
<1>4. /\ listed \subseteq Contacts /\ endpoints \in [Contacts -> Seq(Endpoints)]
      /\ tombs \subseteq Endpoints /\ active \subseteq Senders /\ quota \subseteq Nat
  <2>1. PICK first \in AtFirst :
          /\ listed = DOMAIN first.known
          /\ endpoints = [c \in Contacts |-> IF c \in listed THEN first.known[c] ELSE <<>>]
          /\ tombs = first.tombs /\ active = first.active /\ quota = first.quota
    BY DEF Init
  <2>2. /\ DOMAIN first.known \subseteq Contacts
        /\ \A c \in DOMAIN first.known : first.known[c] \in Sources[c]
        /\ first.tombs \subseteq Endpoints /\ first.active \subseteq Senders
        /\ first.quota \subseteq Nat
    BY RotationAssumption
  <2>3. \A c \in listed : first.known[c] \in Seq(Endpoints)
    BY <2>1, <2>2, RotationAssumption
  <2>4. \A c \in Contacts : endpoints[c] \in Seq(Endpoints)
    BY <2>1, <2>3
  <2> QED BY <2>1, <2>2, <2>4
<1>2. cursor \in [channel : Nat, sender : [Channels -> Nat]]
  <2> HIDE DEF Channels
  <2> QED BY DEF Init
<1>3. retries \in 0..MaxRetries /\ changes \in 0..MaxChanges
  BY <1>1 DEF Init
<1> QED BY <1>1, <1>2, <1>3, <1>4 DEF Init, TypeOK, Loops

\* What the rotation keeps has its type in every reachable state.
THEOREM TypeCorrect == Spec => []TypeOK
<1>1. TypeOK /\ [Next]_vars => TypeOK'
  BY TypeStep
<1> QED BY <1>1, TypeInit, PTL DEF Spec
-----------------------------------------------------------------------------
(* Senders take turns. *)

\* The remainder of a division is the only one.
LEMMA OneRemainder ==
  ASSUME NEW n \in Nat \ {0}, NEW a \in Nat, NEW q \in Int, NEW r \in 0..(n - 1), a = n * q + r
  PROVE  a % n = r
<1> DEFINE p == a \div n
           m == a % n
           d == q - p
<1>1. p \in Int /\ m \in 0..(n - 1) /\ a = n * p + m
  OBVIOUS
<1> HIDE DEF p, m
<1>2. d \in Int /\ n * d = n * q - n * p
  BY <1>1
<1> HIDE DEF d
<1>3. n * d = m - r
  <2> DEFINE u == n * p
             v == n * q
  <2>1. u \in Int /\ v \in Int /\ a = v + r
    BY <1>1
  <2>2. n * d = v - u /\ a = u + m
    BY <1>1, <1>2
  <2> HIDE DEF u, v
  <2>3. v - u = m - r
    BY <1>1, <2>1, <2>2
  <2> QED BY <2>2, <2>3
<1>4. d = 0
  <2>1. d >= 1 => n * d >= n
    BY <1>2
  <2>2. d <= -1 => n * d <= -n
    BY <1>2
  <2> QED BY <1>1, <1>2, <1>3, <2>1, <2>2
<1> QED BY <1>1, <1>3, <1>4 DEF m

\* From any place on, every place is met within one round.
LEMMA RoundMeetsAll ==
  ASSUME NEW n \in Nat \ {0}, NEW from \in Nat, NEW place \in 0..(n - 1)
  PROVE  \E k \in 0..(n - 1) : (from + k) % n = place
<1> DEFINE r == from % n
           q == from \div n
<1>1. r \in 0..(n - 1) /\ q \in Nat /\ from = n * q + r
  OBVIOUS
<1>2. CASE place >= r
  <2>1. place - r \in 0..(n - 1) /\ (from + (place - r)) % n = place
    BY <1>1, <1>2
  <2> QED BY <2>1
<1>3. CASE place < r
  <2> DEFINE k == place - r + n
  <2>1. k \in 0..(n - 1)
    BY <1>1, <1>3
  <2>2. q + 1 \in Int /\ n * (q + 1) = n * q + n
    BY <1>1
  <2>3. from + k \in Nat /\ from + k = n * (q + 1) + place
    BY <1>1, <2>1, <2>2
  <2> HIDE DEF k, q, r
  <2>4. (from + k) % n = place
    BY <2>2, <2>3, OneRemainder
  <2> QED BY <2>1, <2>4
<1> QED BY <1>1, <1>2, <1>3

\* A place that is k ahead of the cursor is k - j - 1 ahead once the cursor is
\* past the place j ahead.
LEMMA CursorMoves ==
  \A n \in Nat \ {0} : \A from, j, k \in Nat : j < k =>
    (((((from + j) % n) + 1) % n) + (k - j - 1)) % n = (from + k) % n
<1> SUFFICES ASSUME NEW n \in Nat \ {0}, NEW from \in Nat, NEW j \in Nat, NEW k \in Nat, j < k
             PROVE  (((((from + j) % n) + 1) % n) + (k - j - 1)) % n = (from + k) % n
  BY Zenon
<1> DEFINE a  == from + j
           q1 == a \div n
           r1 == a % n
           q2 == (r1 + 1) \div n
           r2 == (r1 + 1) % n
           i  == k - j - 1
           b  == from + k
           q3 == b \div n
           r3 == b % n
           q  == q3 - q1 - q2
<1>1. a \in Nat /\ b \in Nat /\ b = a + (k - j)
  OBVIOUS
<1>2. q1 \in Int /\ r1 \in 0..(n - 1) /\ a = n * q1 + r1
  BY <1>1
<1>3. q3 \in Int /\ r3 \in 0..(n - 1) /\ b = n * q3 + r3
  BY <1>1
<1> HIDE DEF a, b, q1, r1, q3, r3
<1>4. q2 \in Int /\ r2 \in 0..(n - 1) /\ r1 + 1 = n * q2 + r2
  BY <1>2
<1> HIDE DEF q2, r2
<1>5. q \in Int /\ n * q = n * q3 - n * q1 - n * q2
  BY <1>2, <1>3, <1>4
<1> HIDE DEF q
<1>6. r2 + i \in Nat /\ r2 + i = n * q + r3
  BY <1>1, <1>2, <1>3, <1>4, <1>5
<1>7. (r2 + i) % n = r3
  <2> HIDE DEF i
  <2> QED BY <1>3, <1>5, <1>6, OneRemainder
<1> QED BY <1>7, Zenon DEF a, b, r1, r2, r3

\* Sender s stands k places ahead of a cursor of its channel.
Ahead(s, from, k) ==
  LET list == ActiveOn(ChannelOf[s])
  IN  k \in 0..(Len(list) - 1) /\ list[((from + k) % Len(list)) + 1] = s

\* An active sender is met within one round of its channel.
Placed == \A s \in active : \A from \in Nat : \E k \in Nat : Ahead(s, from, k)

LEMMA SendersPlaced == active \subseteq Senders => Placed
<1> SUFFICES ASSUME active \subseteq Senders, NEW s \in active, NEW from \in Nat
             PROVE  \E k \in Nat : Ahead(s, from, k)
  BY DEF Placed
<1> DEFINE list == ActiveOn(ChannelOf[s])
           n    == Len(list)
<1>1. n \in Nat /\ \E i \in 1..n : list[i] = s
  BY ActiveOnEffect
<1>2. PICK i \in 1..n : list[i] = s
  BY <1>1
<1> HIDE DEF n, list
<1>3. n \in Nat \ {0} /\ i - 1 \in 0..(n - 1)
  BY <1>1
<1>4. PICK k \in 0..(n - 1) : (from + k) % n = i - 1
  BY <1>3, RoundMeetsAll
<1>5. k \in Nat /\ (i - 1) + 1 = i
  BY <1>1
<1> QED BY <1>2, <1>4, <1>5 DEF Ahead, n, list

\* A sender is passed less often than it takes the cursor to come to it.
InTurn ==
  \A s \in active : \E k \in Nat :
    /\ Ahead(s, cursor.sender[ChannelOf[s]], k)
    /\ passed[s] + k < Len(ActiveOn(ChannelOf[s]))

\* A turn moves the cursor of its channel past the one who gets it.
LEMMA TurnKeepsOrder ==
  ASSUME TypeOK, InTurn, PickTarget
  PROVE  InTurn'
<1>1. Placed /\ active' = active
  BY SendersPlaced DEF TypeOK, PickTarget, outside
<1>2. \A channel : ActiveOn(channel)' = ActiveOn(channel)
  BY <1>1 DEF ActiveOn
<1>3. PICK c \in Contacts, e \in Endpoints, channel \in Channels, j \in Nat :
        Turn(c, e, channel, j)
  BY PickTargetEffect
<1> DEFINE list == ActiveOn(channel)
           n    == Len(list)
           from == cursor.sender[channel]
           at   == (from + j) % n
           next == (at + 1) % n
<1>4. /\ n \in Nat \ {0} /\ from \in Nat /\ next \in Nat /\ at + 1 \in 1..n
      /\ cursor.sender \in [Channels -> Nat] /\ passed \in [Senders -> Nat]
  <2>1. n \in Nat /\ from \in Nat /\ cursor.sender \in [Channels -> Nat]
    BY ActiveOnEffect DEF TypeOK
  <2>2. at \in 0..(n - 1)
    BY <1>3 DEF Turn
  <2> HIDE DEF at
  <2>3. n \in Nat \ {0} /\ next \in Nat /\ at + 1 \in 1..n
    BY <2>1, <2>2
  <2> QED BY <2>1, <2>3 DEF TypeOK
<1>5. cursor'.sender = [cursor.sender EXCEPT ![channel] = next]
  BY <1>3 DEF Turn
<1>6. /\ \A i \in 0..(n - 1) : list[((from + i) % n) + 1] \notin cooling => j <= i
      /\ passed' = [s \in Senders |->
                      IF s = list[at + 1] THEN 0
                      ELSE IF ChannelOf[s] # channel THEN passed[s]
                      ELSE IF s \in active \ cooling THEN passed[s] + 1 ELSE 0]
  BY <1>3 DEF Turn
<1> HIDE DEF next
<1>7. SUFFICES ASSUME NEW s \in active
               PROVE  \E k \in Nat : /\ Ahead(s, cursor'.sender[ChannelOf[s]], k)
                                     /\ passed'[s] + k < Len(ActiveOn(ChannelOf[s]))
  <2>1. \A s, f, k : Ahead(s, f, k)' <=> Ahead(s, f', k')
    BY <1>2 DEF Ahead
  <2> QED BY <1>1, <1>2, <2>1, <1>7 DEF InTurn
<1>8. s \in Senders /\ ChannelOf[s] \in Channels
  BY RotationAssumption DEF TypeOK
<1>9. CASE ChannelOf[s] # channel
  <2>1. s # list[at + 1]
    <3>1. at + 1 \in 1..n
      BY <1>4
    <3> HIDE DEF at
    <3>2. ChannelOf[list[at + 1]] = channel
      BY <3>1, ActiveOnEffect
    <3> QED BY <1>9, <3>2
  <2>2. passed'[s] = passed[s] /\ cursor'.sender[ChannelOf[s]] = cursor.sender[ChannelOf[s]]
    BY <1>4, <1>5, <1>6, <1>8, <1>9, <2>1
  <2> QED BY <2>2 DEF InTurn
<1>10. CASE ChannelOf[s] = channel
  <2>1. cursor'.sender[ChannelOf[s]] = next
    BY <1>4, <1>5, <1>10
  <2>2. PICK k \in Nat : Ahead(s, from, k) /\ passed[s] + k < n
    BY <1>10 DEF InTurn
  <2>3. CASE s = list[at + 1] \/ s \in cooling
    <3>1. passed'[s] = 0
      BY <1>6, <1>8, <1>10, <2>3
    <3>2. PICK i \in Nat : Ahead(s, next, i)
      BY <1>1, <1>4 DEF Placed
    <3>3. 0 + i < n
      BY <1>4, <1>10, <3>2 DEF Ahead
    <3> QED BY <1>10, <2>1, <3>1, <3>2, <3>3
  <2>4. CASE s # list[at + 1] /\ s \notin cooling
    <3>1. passed'[s] = passed[s] + 1
      BY <1>6, <1>8, <1>10, <2>4
    <3>2. k \in 0..(n - 1) /\ list[((from + k) % n) + 1] = s
      BY <1>10, <2>2 DEF Ahead
    <3>3. j <= k
      BY <1>6, <2>4, <3>2
    <3>4. j # k
      BY <2>4, <3>2
    <3>5. j < k
      BY <3>3, <3>4
    <3> DEFINE i == k - j - 1
    <3>6. i \in Nat /\ i \in 0..(n - 1) /\ i < k
      BY <1>4, <3>2, <3>5
    <3>7. (next + i) % n = (from + k) % n
      <4>1. n \in Nat \ {0} /\ from \in Nat
        BY <1>4
      <4> DEFINE Moves(m, f, a, b) ==
                   a < b => (((((f + a) % m) + 1) % m) + (b - a - 1)) % m = (f + b) % m
      <4>2. \A m \in Nat \ {0} : \A f, a, b \in Nat : Moves(m, f, a, b)
        BY CursorMoves, Zenon
      <4> HIDE DEF n, from, Moves
      <4>3. Moves(n, from, j, k)
        BY <4>1, <4>2, Zenon
      <4> QED BY <3>5, <4>3, Zenon DEF Moves, next
    <3> HIDE DEF i
    <3>8. Ahead(s, next, i)
      BY <1>10, <3>2, <3>6, <3>7 DEF Ahead
    <3>9. passed'[s] + i < n
      <4>1. passed[s] \in Nat
        BY <1>4, <1>8
      <4> QED BY <1>4, <2>2, <3>1, <3>6, <4>1
    <3> QED BY <1>10, <2>1, <3>6, <3>8, <3>9
  <2> QED BY <2>3, <2>4
<1> QED BY <1>9, <1>10

LEMMA TurnsStep ==
  ASSUME TypeOK, TypeOK', Placed', InTurn, [Next]_vars
  PROVE  InTurn'
<1> USE DEF history, outside
<1>1. ASSUME UNCHANGED <<active, passed>>, cursor'.sender = cursor.sender PROVE InTurn'
  <2>1. \A channel : ActiveOn(channel)' = ActiveOn(channel)
    BY <1>1 DEF ActiveOn
  <2> QED BY <1>1, <2>1 DEF InTurn, Ahead
<1>2. CASE PickTarget
  BY <1>2, TurnKeepsOrder
<1>3. ASSUME NEW z \in Senders, SetActive(z) PROVE InTurn'
  <2> SUFFICES ASSUME NEW s \in active'
               PROVE  (\E k \in Nat : /\ Ahead(s, cursor.sender[ChannelOf[s]], k)
                                      /\ passed[s] + k < Len(ActiveOn(ChannelOf[s])))'
    BY DEF InTurn
  <2>1. s \in Senders /\ ChannelOf[s] \in Channels
    BY RotationAssumption DEF TypeOK
  <2>2. passed'[s] = 0 /\ cursor'.sender[ChannelOf[s]] \in Nat
    BY <1>3, <2>1 DEF SetActive, TypeOK
  <2>3. PICK k \in Nat : Ahead(s, cursor.sender[ChannelOf[s]], k)'
    BY <2>2 DEF Placed
  <2>4. 0 + k < Len(ActiveOn(ChannelOf[s]))'
    <3>1. Len(ActiveOn(ChannelOf[s]))' \in Nat
      BY <2>3 DEF Ahead
    <3> QED BY <2>3, <3>1 DEF Ahead
  <2> QED BY <2>2, <2>3, <2>4
<1>4. ASSUME Next, ~PickTarget, ~\E z \in Senders : SetActive(z)
      PROVE  UNCHANGED <<active, passed>> /\ cursor'.sender = cursor.sender
  <2>1. CASE \/ Start \/ (\E n \in Limits : StartWithMaxCount(n) \/ StartRefused(n))
             \/ MaxCountReached \/ QuotaReached \/ FailWithoutSender
             \/ Complete \/ PauseOnStall \/ NoSenderReady \/ Late
    BY <2>1 DEF Start, StartWithMaxCount, StartRefused, Begin, Running, MaxCountReached, QuotaReached,
                FailWithoutSender, Complete, PauseOnStall, NoSenderReady, Late
  <2>2. CASE AdvanceCursor
    BY <2>2 DEF AdvanceCursor, Running, TypeOK
  <2>3. CASE RaiseBeforeRow \/ RaiseWithoutContact \/ Crash \/ \E result \in Results : Attempt(result)
    BY <2>3 DEF RaiseBeforeRow, RaiseWithoutContact, Crash, Change, Attempt
  <2>4. CASE \/ \E s \in Senders : Admit(s)
             \/ \E c \in Contacts : \/ OptOut(c) \/ Archive(c)
                                    \/ \E source \in Sources[c] : Import(c, source)
             \/ \E e \in Endpoints, result \in Results : Triage(e, result)
    BY <2>4 DEF Admit, OptOut, Archive, Import, Triage, Change
  <2> QED BY <1>4, <2>1, <2>2, <2>3, <2>4 DEF Next, LoopStep, Operator
<1>5. CASE UNCHANGED vars
  BY <1>1, <1>5 DEF vars
<1> QED BY <1>1, <1>2, <1>3, <1>4, <1>5

\* Among the n active senders of a channel, one that is ready at every turn
\* waits for fewer than n turns.
THEOREM SendersTakeTurns == Spec => []SenderTurns
<1> DEFINE IInv == TypeOK /\ InTurn
<1>1. Init => IInv
  <2> SUFFICES ASSUME Init PROVE InTurn
    BY TypeInit
  <2>1. Placed /\ TypeOK
    BY TypeInit, SendersPlaced DEF TypeOK
  <2>2. ASSUME NEW s \in active
        PROVE  /\ s \in Senders /\ passed[s] = 0 /\ cursor.sender[ChannelOf[s]] \in Nat
    <3>1. s \in Senders /\ ChannelOf[s] \in Channels
      BY <2>1, RotationAssumption DEF TypeOK
    <3> QED BY <2>1, <3>1 DEF Init, TypeOK
  <2>3. ASSUME NEW s \in active, NEW k \in Nat, Ahead(s, cursor.sender[ChannelOf[s]], k)
        PROVE  passed[s] + k < Len(ActiveOn(ChannelOf[s]))
    <3>1. Len(ActiveOn(ChannelOf[s])) \in Nat
      BY ActiveOnEffect
    <3> QED BY <2>2, <2>3, <3>1 DEF Ahead
  <2> QED BY <2>1, <2>2, <2>3 DEF Placed, InTurn
<1>2. active \subseteq Senders => Placed
  BY SendersPlaced
<1>3. (active \subseteq Senders => Placed)'
  BY <1>2, PTL
<1>4. IInv /\ [Next]_vars => IInv'
  <2> SUFFICES ASSUME TypeOK, InTurn, [Next]_vars PROVE IInv'
    OBVIOUS
  <2>1. TypeOK'
    BY TypeStep
  <2>2. Placed'
    BY <1>3, <2>1 DEF TypeOK
  <2> QED BY <2>1, <2>2, TurnsStep
<1>5. IInv => SenderTurns
  <2> SUFFICES ASSUME TypeOK, InTurn, NEW s \in active
               PROVE  passed[s] < Len(ActiveOn(ChannelOf[s]))
    BY DEF SenderTurns
  <2>1. PICK k \in Nat : passed[s] + k < Len(ActiveOn(ChannelOf[s]))
    BY DEF InTurn
  <2>2. passed[s] \in Nat /\ Len(ActiveOn(ChannelOf[s])) \in Nat
    BY ActiveOnEffect DEF TypeOK
  <2> QED BY <2>1, <2>2
<1> QED BY <1>1, <1>4, <1>5, PTL DEF Spec
-----------------------------------------------------------------------------
(* The quota, and completion. *)

\* While the loop dispatches there is room below the quota; the thread's own
\* count comes to its end when the quota is used up, or later.
Counted ==
  /\ \A n \in quota : used <= n + extra
  /\ loop = "dispatching" => \A n \in quota : used < n + extra
  /\ \A l \in budget : \E n \in quota : used + l >= n

\* The steps that touch neither counter; the thread's may end with it.
LEMMA CountedStays ==
  ASSUME TypeOK, Counted, UNCHANGED <<quota, used, extra>>, budget' \subseteq budget,
         loop' = "dispatching" => \/ loop = "dispatching"
                                  \/ \A n \in quota : used < n
  PROVE  Counted'
<1>1. \A n \in quota : n \in Nat /\ (used < n => used < n + extra)
  BY DEF TypeOK
<1> QED BY <1>1 DEF Counted

LEMMA CountedStep ==
  ASSUME TypeOK, Counted, [Next]_vars
  PROVE  Counted'
<1> USE DEF counts
<1>1. CASE UNCHANGED vars
  BY <1>1, CountedStays DEF vars
<1>2. CASE Start
  BY <1>2, CountedStays DEF Start, Begin
<1>3. ASSUME NEW n \in Limits, StartWithMaxCount(n) \/ StartRefused(n) PROVE Counted'
  <2>1. n \in Nat /\ used \in Nat
    BY RotationAssumption DEF TypeOK
  <2>2. /\ quota' = {n} /\ used' = used /\ loop' # "dispatching"
        /\ extra' = (IF used > n THEN used - n ELSE 0) /\ budget' \subseteq {n}
    BY <1>3 DEF StartWithMaxCount, StartRefused, SetQuota, Begin
  <2>3. used <= n + extra' /\ used + n >= n
    BY <2>1, <2>2
  <2> QED BY <2>2, <2>3 DEF Counted
<1>4. CASE \/ MaxCountReached \/ QuotaReached \/ FailWithoutSender \/ Complete
           \/ PauseOnStall \/ AdvanceCursor \/ NoSenderReady
  BY <1>4, CountedStays DEF MaxCountReached, QuotaReached, FailWithoutSender, Complete,
     PauseOnStall, AdvanceCursor, NoSenderReady, Running
<1>5. CASE PickTarget
  BY <1>5, CountedStays DEF PickTarget, GoesOn, CanDispatchAutomatic
<1>6. ASSUME NEW result \in Results, Attempt(result) PROVE Counted'
  <2>1. loop = "dispatching" /\ loop' = "running" /\ UNCHANGED <<quota, extra>>
    BY <1>6 DEF Attempt
  <2>2. CASE result # "sent"
    BY <1>6, <2>1, <2>2, CountedStays DEF Attempt
  <2>3. CASE result = "sent"
    <3>1. used' = used + 1 /\ budget' = {n - 1 : n \in budget}
      BY <1>6, <2>3 DEF Attempt
    <3>2. /\ used \in Nat /\ extra \in Nat /\ \A n \in quota : n \in Nat
          /\ \A l \in budget : l \in Nat
      BY DEF TypeOK
    <3>3. \A n \in quota : used' <= n + extra
      BY <2>1, <3>1, <3>2 DEF Counted
    <3>4. ASSUME NEW l \in budget' PROVE \E n \in quota : used' + l >= n
      <4>1. PICK m \in budget : l = m - 1
        BY <3>1
      <4>2. PICK n \in quota : used + m >= n
        BY DEF Counted
      <4>3. used' + l >= n
        BY <3>1, <3>2, <4>1, <4>2
      <4> QED BY <4>3
    <3> QED BY <2>1, <3>3, <3>4 DEF Counted
  <2> QED BY <2>2, <2>3
<1>7. CASE RaiseBeforeRow \/ RaiseWithoutContact \/ Late
  BY <1>7, CountedStays DEF RaiseBeforeRow, RaiseWithoutContact, Late
<1>8. CASE Crash
  BY <1>8, CountedStays DEF Crash
<1>9. ASSUME NEW s \in Senders, Admit(s) \/ SetActive(s) PROVE Counted'
  BY <1>9, CountedStays DEF Admit, SetActive
<1>10. ASSUME NEW c \in Contacts,
              OptOut(c) \/ Archive(c) \/ \E source \in Sources[c] : Import(c, source)
       PROVE  Counted'
  BY <1>10, CountedStays DEF OptOut, Archive, Import
<1>11. ASSUME NEW e \in Endpoints, NEW result \in Results, Triage(e, result) PROVE Counted'
  <2>1. UNCHANGED <<quota, budget, loop>>
    BY <1>11 DEF Triage
  <2>2. CASE result # "sent"
    BY <1>11, <2>1, <2>2, CountedStays DEF Triage
  <2>3. CASE result = "sent"
    <3>1. used' = used + 1 /\ extra' = extra + 1
      BY <1>11, <2>3 DEF Triage
    <3>2. /\ used \in Nat /\ extra \in Nat /\ \A n \in quota : n \in Nat
          /\ \A l \in budget : l \in Nat
      BY DEF TypeOK
    <3>3. /\ \A n \in quota : used <= n + extra => used' <= n + extra'
          /\ \A n \in quota : used < n + extra => used' < n + extra'
          /\ \A n \in quota, l \in budget : used + l >= n => used' + l >= n
      BY <3>1, <3>2
    <3> QED BY <2>1, <3>3 DEF Counted
  <2> QED BY <2>2, <2>3
<1> QED BY <1>1, <1>2, <1>3, <1>4, <1>5, <1>6, <1>7, <1>8, <1>9, <1>10, <1>11
    DEF Next, LoopStep, Operator

\* What the next two theorems rest on.
LEMMA CountedAlways == Spec => [](TypeOK /\ Counted)
<1>1. Init => TypeOK /\ Counted
  <2> SUFFICES ASSUME Init PROVE Counted
    BY TypeInit
  <2>1. TypeOK /\ used = 0 /\ extra = 0 /\ budget = {} /\ loop = "draft"
    BY TypeInit DEF Init
  <2>2. \A n \in quota : n \in Nat
    BY <2>1 DEF TypeOK
  <2> QED BY <2>1, <2>2 DEF Counted
<1>2. TypeOK /\ Counted /\ [Next]_vars => (TypeOK /\ Counted)'
  BY TypeStep, CountedStep
<1> QED BY <1>1, <1>2, PTL DEF Spec

\* The sends that are counted exceed the quota by no more than operators have
\* settled as sent, or had been sent when the quota was set.
THEOREM LimitHolds == Spec => []LimitKept
<1>1. TypeOK /\ Counted => LimitKept
  BY DEF Counted, LimitKept
<1> QED BY <1>1, CountedAlways, PTL

\* When the loop completes a campaign, by any of its three ways, the quota is
\* used up or no endpoint is ready, blocked or due for a retry.
THEOREM CompleteIsDone == Spec => CompleteMeansDone
<1> DEFINE Done ==
             \/ \E n \in quota : used >= n
             \/ \A c \in listed : \A e \in ToSet(endpoints[c]) :
                  CoverageState(c, e) \in {"SENT", "PERMANENT_FAILED", "SUPPRESSED"}
<1>1. ASSUME TypeOK, Counted, [Next]_vars
      PROVE  [loop # "completed" /\ loop' = "completed" => Done]_vars
  <2> SUFFICES ASSUME loop # "completed", loop' = "completed" PROVE Done
    OBVIOUS
  <2>1. MaxCountReached \/ QuotaReached \/ Complete
    BY <1>1 DEF Next, LoopStep, Operator, Start, StartWithMaxCount, StartRefused, Begin, Running,
       FailWithoutSender, PauseOnStall, AdvanceCursor, NoSenderReady, PickTarget, Attempt,
       RaiseBeforeRow, RaiseWithoutContact, Late, Crash, Change, Admit, SetActive, OptOut,
       Archive, Import, Triage, vars
  <2>2. used \in Nat /\ \A n \in quota : n \in Nat
    BY <1>1 DEF TypeOK
  <2>3. CASE MaxCountReached
    <3>1. PICK n \in quota : used + 0 >= n
      BY <1>1, <2>3 DEF MaxCountReached, Counted
    <3>2. used >= n
      BY <2>2, <3>1
    <3> QED BY <3>2
  <2>4. CASE QuotaReached
    <3>1. PICK n \in quota : ~(used < n)
      BY <2>4 DEF QuotaReached, CanDispatchAutomatic
    <3>2. used >= n
      BY <2>2, <3>1
    <3> QED BY <3>2
  <2>5. CASE Complete
    <3>1. \A c \in listed : c \in Contacts /\ FullyCovered(c)
      BY <1>1, <2>5 DEF Complete, AnyRemaining, TypeOK
    <3> QED BY <1>1, <3>1, CoveredIsDone
  <2> QED BY <2>1, <2>3, <2>4, <2>5
<1> QED BY <1>1, CountedAlways, PTL DEF Spec, CompleteMeansDone

\* The dashboards and the selection agree in every reachable state.
THEOREM DashboardsAgree == Spec => []DashboardAgrees
<1> QED BY Agreement, TypeCorrect, PTL

-----------------------------------------------------------------------------
(* Rounds. *)

\* The greatest of a bounded set of numbers.
LEMMA GreatestNumber ==
  ASSUME NEW T \in SUBSET Nat, T # {}, NEW bound \in Nat, \A y \in T : y <= bound
  PROVE  Max(T) \in T /\ \A y \in T : y <= Max(T)
<1> DEFINE Bounds == {b \in Nat : \A y \in T : y <= b}
<1>1. PICK b \in Bounds : \A x \in Bounds : b <= x
  <2>1. Bounds \in SUBSET Nat /\ bound \in Bounds
    OBVIOUS
  <2> HIDE DEF Bounds
  <2> QED BY <2>1, LeastNumber
<1>2. b \in T
  <2>1. SUFFICES ASSUME b \notin T PROVE FALSE
    OBVIOUS
  <2>2. b \in Nat /\ \A y \in T : y < b
    BY <1>1, <2>1
  <2>3. PICK z \in T : TRUE
    OBVIOUS
  <2>4. z \in Nat /\ z < b
    BY <2>2, <2>3
  <2>5. b - 1 \in Nat
    BY <2>2, <2>4
  <2>6. ASSUME NEW y \in T PROVE y <= b - 1
    <3>1. y \in Nat /\ y < b
      BY <2>2
    <3> QED BY <2>2, <3>1
  <2>7. b <= b - 1
    BY <1>1, <2>5, <2>6
  <2> QED BY <2>2, <2>7
<1>3. \E x \in T : \A y \in T : x >= y
  BY <1>1, <1>2
<1>4. Max(T) \in T /\ \A y \in T : Max(T) >= y
  BY <1>3 DEF Max
<1> QED BY <1>4

\* The round shown is that of the company least reached, and one of the rounds
\* there are.
RoundShown ==
  /\ TotalRounds \in Nat /\ CurrentRound \in Nat /\ CurrentRound <= TotalRounds
  /\ \A c \in listed : ReachedOf(c) \in Nat
  /\ (\A c \in listed : Reached(c)) => CurrentRound = TotalRounds
  /\ \A c \in listed : ~Reached(c) => CurrentRound <= ReachedOf(c) + 1
  /\ \A c \in listed : ~Reached(c) =>
       \E d \in listed : ~Reached(d) /\ CurrentRound = ReachedOf(d) + 1

LEMMA RoundEffect == TypeOK => RoundShown
<1> SUFFICES ASSUME TypeOK PROVE RoundShown
  OBVIOUS
<1>0. listed \in SUBSET Contacts
  BY DEF TypeOK
<1> DEFINE Sizes == {1} \cup {Cardinality(SameCompany[c]) : c \in listed}
           total == TotalRounds
<1>1. \A c \in listed : /\ SameCompany[c] \in SUBSET listed /\ c \in SameCompany[c]
                          /\ IsFiniteSet(SameCompany[c]) /\ Cardinality(SameCompany[c]) \in Nat
  BY <1>0, PlaceEffect DEF SameCompany
<1>2. total \in Nat /\ \A c \in listed : Cardinality(SameCompany[c]) <= total
  <2>1. /\ Sizes \in SUBSET Nat /\ Sizes # {}
        /\ \A c \in listed : Cardinality(SameCompany[c]) \in Sizes
    BY <1>1
  <2>2. IsFiniteSet(listed) /\ Cardinality(listed) \in Nat
    BY <1>0, PlaceEffect
  <2>3. \A c \in listed : Cardinality(SameCompany[c]) <= Cardinality(listed)
    BY <1>1, <2>2, FS_Subset
  <2>4. Cardinality(listed) + 1 \in Nat /\ \A y \in Sizes : y <= Cardinality(listed) + 1
    BY <1>1, <2>2, <2>3
  <2>5. total = Max(Sizes)
    BY DEF TotalRounds
  <2> HIDE DEF Sizes, total
  <2>6. Max(Sizes) \in Sizes /\ \A y \in Sizes : y <= Max(Sizes)
    BY <2>1, <2>4, GreatestNumber
  <2> QED BY <2>1, <2>5, <2>6
<1>3. ASSUME NEW c \in listed
      PROVE  ReachedOf(c) \in Nat /\ (~Reached(c) => ReachedOf(c) + 1 <= total)
  <2> DEFINE D == {d \in SameCompany[c] : Reached(d)}
  <2>1. IsFiniteSet(D) /\ Cardinality(D) \in Nat /\ ReachedOf(c) = Cardinality(D)
    BY <1>1, FS_Subset, FS_CardinalityType DEF ReachedOf
  <2>2. ASSUME ~Reached(c) PROVE Cardinality(D) + 1 <= Cardinality(SameCompany[c])
    <3>1. c \notin D /\ D \cup {c} \subseteq SameCompany[c]
      BY <1>1, <2>2
    <3> HIDE DEF D
    <3>2. Cardinality(D \cup {c}) = Cardinality(D) + 1
      BY <2>1, <3>1, FS_AddElement
    <3>3. Cardinality(D \cup {c}) <= Cardinality(SameCompany[c])
      BY <1>1, <3>1, FS_Subset
    <3> QED BY <3>2, <3>3
  <2> HIDE DEF D, total
  <2> QED BY <1>1, <1>2, <2>1, <2>2
<1> HIDE DEF total
<1>4. CASE \A c \in listed : Reached(c)
  <2>1. CurrentRound = TotalRounds
    BY <1>4 DEF CurrentRound
  <2> QED BY <1>2, <1>3, <1>4, <2>1 DEF RoundShown, total
<1>5. CASE ~\A c \in listed : Reached(c)
  <2> DEFINE T == {ReachedOf(c) + 1 : c \in {d \in listed : ~Reached(d)}}
             round == CurrentRound
  <2>1. round = Min(T)
    BY <1>5 DEF CurrentRound
  <2>2. T \in SUBSET Nat /\ T # {}
    BY <1>3, <1>5
  <2>3. /\ \A c \in listed : ~Reached(c) => ReachedOf(c) + 1 \in T
        /\ \A x \in T : \E d \in listed : ~Reached(d) /\ x = ReachedOf(d) + 1
    OBVIOUS
  <2> HIDE DEF T, round
  <2>4. \E x \in T : \A y \in T : x <= y
    BY <2>2, LeastNumber
  <2>5. round \in T /\ \A y \in T : round <= y
    BY <2>1, <2>4 DEF Min
  <2>6. PICK d \in listed : ~Reached(d) /\ round = ReachedOf(d) + 1
    BY <2>3, <2>5
  <2>7. round \in Nat /\ round <= total
    BY <1>2, <1>3, <2>6
  <2>8. \A c \in listed : ~Reached(c) => round <= ReachedOf(c) + 1
    BY <2>3, <2>5
  <2> QED BY <1>2, <1>3, <1>5, <2>6, <2>7, <2>8 DEF RoundShown, total, round
<1> QED BY <1>4, <1>5

\* While the contacts are the same, what is sent stays so: an attempt adds a
\* result and triage settles one.
LEMMA ResultsStay ==
  ASSUME TypeOK, [Next]_vars, UNCHANGED contacts
  PROVE  \A e \in Endpoints : rows[e] \ {"open"} \subseteq rows'[e]
<1> USE DEF history, outside
<1>1. ASSUME NEW result \in Results, loop = "dispatching", Leaves(result)
      PROVE  \A e \in Endpoints : rows[e] \ {"open"} \subseteq rows'[e]
  <2>1. rows' = [rows EXCEPT ![picked.endpoint] = rows[picked.endpoint] \cup {result}]
    BY <1>1, LeavesTypes
  <2> QED BY <2>1 DEF TypeOK
<1>2. CASE UNCHANGED vars
  BY <1>2 DEF vars
<1>3. CASE \/ Start \/ (\E n \in Limits : StartWithMaxCount(n) \/ StartRefused(n))
           \/ MaxCountReached \/ QuotaReached \/ FailWithoutSender \/ Complete
           \/ PauseOnStall \/ AdvanceCursor \/ NoSenderReady \/ PickTarget
           \/ RaiseBeforeRow \/ RaiseWithoutContact \/ Late
           \/ \E s \in Senders : Admit(s) \/ SetActive(s)
  BY <1>3 DEF Start, StartWithMaxCount, StartRefused, Begin, Running, MaxCountReached, QuotaReached,
              FailWithoutSender, Complete, PauseOnStall, AdvanceCursor, NoSenderReady,
              PickTarget, RaiseBeforeRow, RaiseWithoutContact, Late, Admit, SetActive, Change
<1>4. ASSUME NEW result \in Results, Attempt(result)
      PROVE  \A e \in Endpoints : rows[e] \ {"open"} \subseteq rows'[e]
  BY <1>1, <1>4 DEF Attempt
<1>5. CASE Crash
  <2>1. UNCHANGED rows \/ (loop = "dispatching" /\ (Leaves("open") \/ Leaves("failed")))
    BY <1>5 DEF Crash, Change
  <2> QED BY <1>1, <1>5, <2>1 DEF Crash, Results
<1>6. ASSUME NEW e \in Endpoints, NEW result \in Results, Triage(e, result)
      PROVE  \A z \in Endpoints : rows[z] \ {"open"} \subseteq rows'[z]
  <2>1. rows' = [rows EXCEPT ![e] = (rows[e] \ {"open"}) \cup {result}]
    BY <1>6 DEF Triage
  <2> QED BY <2>1 DEF TypeOK
<1>7. CASE \E c \in Contacts : OptOut(c) \/ \E source \in Sources[c] : Import(c, source)
  BY <1>7 DEF OptOut, Import, Change
<1>8. ASSUME NEW c \in Contacts, Archive(c) PROVE FALSE
  BY <1>8 DEF Archive, Change, contacts
<1> QED BY <1>2, <1>3, <1>4, <1>5, <1>6, <1>7, <1>8 DEF Next, LoopStep, Operator

\* While no contact is archived or imported, contacts stay reached, so the
\* round of the company least reached only grows.
THEOREM RoundsGoForward == Spec => RoundNeverBack
<1>1. (TypeOK => RoundShown) /\ (TypeOK => RoundShown)'
  <2>1. TypeOK => RoundShown
    BY RoundEffect
  <2> QED BY <2>1, PTL
<1>2. TypeOK /\ [Next]_vars => TypeOK'
  BY TypeStep
<1>3. ASSUME TypeOK, [Next]_vars
      PROVE  [/\ CurrentRound <= TotalRounds
              /\ UNCHANGED contacts => CurrentRound' >= CurrentRound]_vars
  <2>0. RoundShown /\ RoundShown' /\ listed \in SUBSET Contacts
    BY <1>1, <1>2, <1>3 DEF TypeOK
  <2> SUFFICES ASSUME UNCHANGED contacts PROVE CurrentRound' >= CurrentRound
    BY <2>0 DEF RoundShown
  <2>4. listed' = listed /\ endpoints' = endpoints /\ SameCompany' = SameCompany
    BY DEF contacts, SameCompany
  <2>1. \A c \in listed : Reached(c) => Reached(c)'
    <3>1. \A e \in Endpoints : rows[e] \ {"open"} \subseteq rows'[e]
      BY <1>3, ResultsStay
    <3>2. ASSUME NEW c \in listed PROVE ToSet(endpoints[c]) \subseteq Endpoints
      BY <1>3, <2>0, EndpointsKnown
    <3> QED BY <2>4, <3>1, <3>2 DEF Reached, Covered
  <2>2. ASSUME NEW c \in listed PROVE ReachedOf(c) <= ReachedOf(c)'
    <3> DEFINE A == {d \in SameCompany[c] : Reached(d)}
               B == {d \in SameCompany[c] : Reached(d)'}
    <3>1. SameCompany[c] \subseteq listed
      BY DEF SameCompany
    <3>2. A \subseteq B /\ IsFiniteSet(B)
      <4>1. A \subseteq B /\ B \in SUBSET Contacts
        BY <2>0, <2>1, <3>1
      <4> QED BY <4>1, PlaceEffect
    <3>3. ReachedOf(c) = Cardinality(A) /\ ReachedOf(c)' = Cardinality(B)
      BY <2>4 DEF ReachedOf
    <3> HIDE DEF A, B
    <3> QED BY <3>2, <3>3, FS_Subset
  <2>3. CurrentRound' >= CurrentRound
    <3> DEFINE old == CurrentRound
               new == CurrentRound'
               total == TotalRounds
    <3>0. TotalRounds' = TotalRounds
      BY <2>4 DEF TotalRounds
    <3>1. old \in Nat /\ new \in Nat /\ total \in Nat /\ old <= total
      BY <2>0, <2>4 DEF RoundShown
    <3>2. CASE \A c \in listed : Reached(c)'
      <4>1. new = total
        BY <2>0, <2>4, <3>0, <3>2 DEF RoundShown
      <4> HIDE DEF old, new, total
      <4>2. new >= old
        BY <3>1, <4>1
      <4> QED BY <4>2 DEF old, new
    <3>3. CASE ~\A c \in listed : Reached(c)'
      <4>1. PICK d \in listed : ~Reached(d)' /\ new = ReachedOf(d)' + 1
        BY <2>0, <2>4, <3>3 DEF RoundShown
      <4>2. old <= ReachedOf(d) + 1
        BY <2>0, <2>1, <4>1 DEF RoundShown
      <4>3. ReachedOf(d) \in Nat /\ ReachedOf(d)' \in Nat
        BY <2>0, <2>4 DEF RoundShown
      <4> DEFINE a == ReachedOf(d)
                 b == ReachedOf(d)'
      <4>4. a \in Nat /\ b \in Nat /\ a <= b /\ old <= a + 1 /\ new = b + 1
        BY <2>2, <4>1, <4>2, <4>3
      <4> HIDE DEF old, new, a, b
      <4>5. new >= old
        BY <3>1, <4>4
      <4> QED BY <4>5 DEF old, new
    <3> QED BY <3>2, <3>3
  <2> QED BY <2>3
<1> QED BY <1>2, <1>3, TypeInit, PTL DEF Spec, RoundNeverBack
-----------------------------------------------------------------------------
(* Companies take turns. *)

\* The places of a company before place i of the list.
PlacesOf(c, i) == {j \in 1..(i - 1) : Company[Prioritized[j]] = Company[c]}

\* What the next two lemmas use of the list.
LEMMA ListEffect ==
  ASSUME touches \in [Contacts -> Nat], listed \subseteq Contacts
  PROVE  /\ \A j \in DOMAIN Prioritized : Prioritized[j] \in Remaining
         /\ \A j \in DOMAIN Prioritized : j \in Nat /\ 1..(j - 1) \subseteq DOMAIN Prioritized
         /\ \A j, k \in DOMAIN Prioritized : j # k => Prioritized[j] # Prioritized[k]
         /\ \A c \in Remaining : c \in listed
<1> DEFINE q == Prioritized
           R == Before(Remaining)
<1>1. Remaining \in SUBSET listed
  BY DEF Remaining
<1>2. /\ q \in Seq(Remaining)
      /\ \A k, l \in DOMAIN q : k < l => <<q[k], q[l]>> \in R
  BY PrioritizedEffect
<1>3. OrderOn(Remaining, R)
  BY <1>1, BeforeIsOrder
<1> HIDE DEF q, R
<1>4. \A j \in DOMAIN q : q[j] \in Remaining
  BY <1>2
<1>5. \A j \in DOMAIN q : j \in Nat /\ 1..(j - 1) \subseteq DOMAIN q
  BY <1>2
<1>6. ASSUME NEW j \in DOMAIN q, NEW k \in DOMAIN q, j # k PROVE q[j] # q[k]
  <2>1. j < k \/ k < j
    BY <1>5, <1>6
  <2>2. <<q[j], q[k]>> \in R \/ <<q[k], q[j]>> \in R
    BY <1>2, <2>1
  <2> QED BY <1>3, <1>4, <2>2 DEF OrderOn
<1> QED BY <1>1, <1>4, <1>5, <1>6 DEF q

\* The places of a company before one of its contacts are no more than the
\* contact's offset.
LEMMA PlacesWithinOffset ==
  ASSUME touches \in [Contacts -> Nat], listed \subseteq Contacts, NEW i \in DOMAIN Prioritized
  PROVE  /\ Cardinality(PlacesOf(Prioritized[i], i)) \in Nat
         /\ Cardinality(PlacesOf(Prioritized[i], i)) <= Offset(Remaining, Prioritized[i])
<1> DEFINE q == Prioritized
           x == q[i]
           P == PlacesOf(x, i)
           E == {d \in Remaining \cap SameCompany[x] : Place[d] < Place[x]}
<1>1. /\ \A j \in DOMAIN q : q[j] \in Remaining
      /\ \A j \in DOMAIN q : j \in Nat /\ 1..(j - 1) \subseteq DOMAIN q
      /\ \A j, k \in DOMAIN q : j # k => q[j] # q[k]
      /\ \A c \in Remaining : c \in listed
  BY ListEffect
<1>2. \A j, k \in DOMAIN q : j < k => <<q[j], q[k]>> \in Before(Remaining)
  BY PrioritizedEffect
<1>3. \A j \in P : j \in DOMAIN q /\ j \in Nat /\ j < i /\ Company[q[j]] = Company[x]
  <2>1. i \in Nat /\ 1..(i - 1) \subseteq DOMAIN q
    BY <1>1
  <2> QED BY <2>1 DEF PlacesOf
<1>0. i \in DOMAIN q
  OBVIOUS
<1> HIDE DEF q
<1>4. x \in Remaining /\ x \in listed
  BY <1>0, <1>1
<1> HIDE DEF P, x
<1>5. ASSUME NEW j \in P PROVE q[j] \in E
  <2> DEFINE d == q[j]
  <2>1. d \in Remaining /\ d \in listed /\ d # x /\ Company[d] = Company[x]
    BY <1>0, <1>1, <1>3 DEF x
  <2>2. <<d, x>> \in Before(Remaining)
    BY <1>0, <1>2, <1>3 DEF x
  <2> HIDE DEF d
  <2>3. Load(d) + Offset(Remaining, d) <= Load(x) + Offset(Remaining, x)
    <3>1. Remaining \in SUBSET listed
      BY <1>1
    <3> QED BY <1>4, <2>1, <2>2, <3>1, BeforeIsOrder
  <2>4. Load(d) = Load(x) /\ Load(x) \in Nat
    BY <1>4, <2>1, LoadEffect
  <2>5. Place[x] < Place[d] => Offset(Remaining, x) < Offset(Remaining, d)
    <3>1. Remaining \in SUBSET listed
      BY <1>1
    <3> QED BY <1>4, <2>1, <3>1, OffsetGrows
  <2>6. Offset(Remaining, x) \in Nat /\ Offset(Remaining, d) \in Nat
    <3>1. Remaining \in SUBSET listed
      BY <1>1
    <3> QED BY <1>4, <2>1, <3>1, OffsetGrows
  <2>7. ~(Place[x] < Place[d])
    BY <2>3, <2>4, <2>5, <2>6
  <2>8. Place[x] \in Nat /\ Place[d] \in Nat /\ Place[x] # Place[d]
    BY <1>4, <2>1, PlaceEffect
  <2>9. Place[d] < Place[x]
    BY <2>7, <2>8
  <2> QED BY <1>4, <2>1, <2>9 DEF SameCompany, d
<1> DEFINE f == [j \in P |-> q[j]]
<1>6. f \in Injection(P, E)
  <2>1. f \in [P -> E]
    BY <1>5
  <2>2. \A j, k \in P : q[j] = q[k] => j = k
    BY <1>1, <1>3
  <2> QED BY <2>1, <2>2 DEF Injection, IsInjective
<1>7. IsFiniteSet(E) /\ Cardinality(E) = Offset(Remaining, x)
  <2>1. E \in SUBSET Contacts
    BY <1>1
  <2> QED BY <2>1, PlaceEffect DEF Offset
<1> HIDE DEF E, f
<1>8. IsFiniteSet(P) /\ Cardinality(P) <= Cardinality(E)
  BY <1>6, <1>7, FS_Injection
<1> QED BY <1>7, <1>8, FS_CardinalityType DEF P, x, q

\* If another company comes again after place i, its next contact there has an
\* offset of no more than its places before.
LEMMA NextOfCompany ==
  ASSUME touches \in [Contacts -> Nat], listed \subseteq Contacts,
         NEW i \in DOMAIN Prioritized, NEW j \in DOMAIN Prioritized, i < j,
         Company[Prioritized[i]] # Company[Prioritized[j]]
  PROVE  /\ Cardinality(PlacesOf(Prioritized[j], i)) \in Nat
         /\ \E z \in Remaining :
              /\ Company[z] = Company[Prioritized[j]]
              /\ <<Prioritized[i], z>> \in Before(Remaining)
              /\ Offset(Remaining, z) <= Cardinality(PlacesOf(Prioritized[j], i))
<1> DEFINE q == Prioritized
           y == q[j]
           P == PlacesOf(y, i)
           Later == {k \in DOMAIN q : k >= i /\ Company[q[k]] = Company[y]}
           T == {Place[q[k]] : k \in Later}
<1>1. /\ \A k \in DOMAIN q : q[k] \in Remaining
      /\ \A k \in DOMAIN q : k \in Nat /\ 1..(k - 1) \subseteq DOMAIN q
      /\ \A k, l \in DOMAIN q : k # l => q[k] # q[l]
      /\ \A c \in Remaining : c \in listed
  BY ListEffect
<1>2. /\ \A k, l \in DOMAIN q : k < l => <<q[k], q[l]>> \in Before(Remaining)
      /\ \A c \in Remaining : \E k \in DOMAIN q : q[k] = c
  BY PrioritizedEffect
<1>3. P = {k \in 1..(i - 1) : Company[q[k]] = Company[y]}
  BY DEF PlacesOf
<1>0. i \in DOMAIN q /\ j \in DOMAIN q /\ Company[q[i]] # Company[y]
  OBVIOUS
<1> HIDE DEF q, P
<1>4. T \in SUBSET Nat /\ T # {}
  <2>1. j \in Later
    BY <1>0, <1>1
  <2>2. \A k \in Later : Place[q[k]] \in Nat
    BY <1>1, PlaceEffect
  <2> HIDE DEF Later
  <2> QED BY <2>1, <2>2
<1>5. PICK k \in Later : \A l \in Later : Place[q[k]] <= Place[q[l]]
  <2> HIDE DEF Later
  <2>1. \A l \in Later : Place[q[l]] \in T
    OBVIOUS
  <2>2. \A p \in T : \E l \in Later : p = Place[q[l]]
    OBVIOUS
  <2> HIDE DEF T
  <2>3. PICK p \in T : \A r \in T : p <= r
    BY <1>4, LeastNumber
  <2> QED BY <2>1, <2>2, <2>3
<1> DEFINE z == q[k]
           E == {d \in Remaining \cap SameCompany[z] : Place[d] < Place[z]}
<1>6. /\ k \in DOMAIN q /\ k > i /\ Company[z] = Company[y]
      /\ z \in Remaining /\ z \in listed
  <2>1. k \in DOMAIN q /\ k >= i /\ Company[z] = Company[y]
    BY <1>5
  <2>2. k # i
    BY <1>0, <2>1
  <2>3. k > i
    BY <1>0, <1>1, <2>1, <2>2
  <2> QED BY <1>1, <2>1, <2>3
<1>7. <<q[i], z>> \in Before(Remaining)
  BY <1>2, <1>6 DEF q
<1>8. ASSUME NEW d \in E PROVE \E l \in P : q[l] = d
  <2>1. d \in Remaining /\ d \in listed /\ Company[d] = Company[y] /\ Place[d] < Place[z]
    BY <1>1, <1>6 DEF SameCompany
  <2>2. PICK l \in DOMAIN q : q[l] = d
    BY <1>2, <2>1
  <2>3. l \notin Later
    <3>1. l \in Later => Place[z] <= Place[d]
      BY <1>5, <2>2
    <3>2. Place[z] \in Nat /\ Place[d] \in Nat
      BY <1>6, <2>1, PlaceEffect
    <3> QED BY <2>1, <3>1, <3>2
  <2>4. l \in 1..(i - 1)
    <3>1. ~(l >= i)
      BY <2>1, <2>2, <2>3
    <3>2. l \in Nat /\ i \in Nat /\ l # 0
      <4>1. DOMAIN q = 1..Len(q) /\ Len(q) \in Nat
        BY PrioritizedEffect DEF q
      <4> QED BY <1>1, <4>1 DEF q
    <3> QED BY <3>1, <3>2
  <2> QED BY <1>3, <2>1, <2>2, <2>4
<1> DEFINE f == [d \in E |-> CHOOSE l \in P : q[l] = d]
<1>9. f \in Injection(E, P)
  <2> HIDE DEF E
  <2>1. \A d \in E : f[d] \in P /\ q[f[d]] = d
    BY <1>8
  <2>2. f \in [E -> P]
    BY <2>1
  <2> HIDE DEF f
  <2> QED BY <2>1, <2>2 DEF Injection, IsInjective
<1>10. IsFiniteSet(P) /\ Cardinality(P) \in Nat
  <2>1. i - 1 \in Int /\ IsFiniteSet(1..(i - 1))
    <3>1. i - 1 \in Int
      BY <1>1 DEF q
    <3> QED BY <3>1, FS_Interval
  <2> QED BY <1>3, <2>1, FS_Subset, FS_CardinalityType
<1>11. Cardinality(E) <= Cardinality(P)
  <2> HIDE DEF E, f
  <2> QED BY <1>9, <1>10, FS_Injection
<1>12. Offset(Remaining, z) = Cardinality(E)
  BY DEF Offset
<1> HIDE DEF E, z
<1> QED BY <1>6, <1>7, <1>10, <1>11, <1>12 DEF P, q

\* In the list of every session, each contact is of a company that had no more
\* than any company that comes again later.
THEOREM CompaniesTakeTurns == Spec => []CompanyFirst
<1>1. TypeOK => CompanyFirst
  <2> DEFINE q == Prioritized
             loads == [c \in listed |-> Load(c)]
  <2> SUFFICES ASSUME TypeOK, NEW i \in DOMAIN q, NEW j \in DOMAIN q, i < j
               PROVE  loads[q[i]] + Cardinality(PlacesOf(q[i], i))
                        <= loads[q[j]] + Cardinality(PlacesOf(q[j], i))
    BY DEF CompanyFirst, PlacesOf
  <2>1. touches \in [Contacts -> Nat] /\ listed \subseteq Contacts
    BY DEF TypeOK
  <2> DEFINE x == q[i]
             y == q[j]
  <2>2. x \in listed /\ y \in listed /\ x \in Remaining /\ y \in Remaining
    BY <2>1, ListEffect
  <2>3. CASE Company[x] = Company[y]
    <3>1. loads[x] = loads[y]
      BY <2>1, <2>2, <2>3, LoadEffect
    <3>2. PlacesOf(x, i) = PlacesOf(y, i)
      BY <2>3 DEF PlacesOf
    <3>3. Cardinality(PlacesOf(x, i)) \in Nat /\ loads[x] \in Nat
      BY <2>1, <2>2, PlacesWithinOffset, LoadEffect
    <3> QED BY <3>1, <3>2, <3>3
  <2>4. CASE Company[x] # Company[y]
    <3> DEFINE a == Cardinality(PlacesOf(x, i))
               b == Cardinality(PlacesOf(y, i))
    <3>1. PICK z \in Remaining : /\ Company[z] = Company[y] /\ <<x, z>> \in Before(Remaining)
                                 /\ Offset(Remaining, z) <= b
      BY <2>1, <2>4, NextOfCompany
    <3>2. b \in Nat /\ a \in Nat /\ a <= Offset(Remaining, x)
      BY <2>1, <2>4, NextOfCompany, PlacesWithinOffset
    <3> HIDE DEF a, b, x, y
    <3>3. Remaining \in SUBSET listed /\ z \in listed
      BY DEF Remaining
    <3>4. Load(x) + Offset(Remaining, x) <= Load(z) + Offset(Remaining, z)
      BY <2>1, <2>2, <3>1, <3>3, BeforeIsOrder
    <3>5. Load(z) = Load(y) /\ Load(y) \in Nat /\ Load(x) \in Nat
      BY <2>1, <2>2, <3>1, <3>3, LoadEffect
    <3>6. Offset(Remaining, x) \in Nat /\ Offset(Remaining, z) \in Nat
      BY <2>1, <2>2, <3>3, OffsetGrows
    <3>7. loads[x] + a <= loads[y] + b
      <4>1. loads[x] = Load(x) /\ loads[y] = Load(y)
        BY <2>2
      <4> HIDE DEF loads
      <4> QED BY <3>1, <3>2, <3>4, <3>5, <3>6, <4>1
    <3> QED BY <3>7 DEF a, b, x, y
  <2> QED BY <2>3, <2>4
<1> QED BY <1>1, TypeCorrect, PTL
=============================================================================
