-------------------------- MODULE Dispatch_proofs ---------------------------
(***************************************************************************)
(* Theorems about Dispatch, for every set of campaigns, operators,         *)
(* endpoints and ids, every quota and every number of exceptions and       *)
(* crashes.                                                                *)
(*                                                                         *)
(* The first part is about types and what is delivered, with every         *)
(* exception.  The second is about the rows as long as no exception is     *)
(* raised inside a worker, its handler or a request, and about a single    *)
(* campaign and the moves of EndpointLedger.                               *)
(***************************************************************************)
EXTENDS Dispatch, FiniteSetTheorems, TLAPS

(***************************************************************************)
(* The inductive invariant.  A thread between its insert and its last      *)
(* write carries a row of its own that nobody else carries; until the      *)
(* provider is called nothing of it is delivered; from then on the row is  *)
(* SENDING unless an exception handler of its lane closed it.              *)
(***************************************************************************)
CarryingLabels == {"prepared", "waiting", "sending", "returned"}

Carries(t) == thr[t].pc \in CarryingLabels

OwnRow(t) ==
  /\ thr[t].cur \in Ids
  /\ row[thr[t].cur].status # "ABSENT"
  /\ t \in Campaigns => row[thr[t].cur].owner = t
  /\ t \in Operators => row[thr[t].cur].owner \in {Manual, Resend}

CarriedOwn == \A t \in Threads : Carries(t) => OwnRow(t)

CarriedOnce ==
  \A t, u \in Threads : Carries(t) /\ Carries(u) /\ thr[t].cur = thr[u].cur => t = u

NotYetDelivered ==
  \A t \in Threads : thr[t].pc \in {"prepared", "waiting"} => thr[t].cur \notin delivered

SendingPersisted ==
  \A t \in Threads : thr[t].pc \in {"waiting", "sending"} =>
    \/ row[thr[t].cur].status = "SENDING"
    \/ /\ row[thr[t].cur].status = "FAILED"
       /\ row[thr[t].cur].code = "ERR_WORKER_EXCEPTION"

ResultHonest ==
  \A t \in Threads : thr[t].pc = "returned" =>
    /\ thr[t].res \in Results
    /\ thr[t].res \in {"transient", "rejected"} => thr[t].cur \notin delivered

DownIsIdle == ~up => \A t \in Threads : thr[t] = Idle

IInv == /\ TypeOK /\ CarriedOwn /\ CarriedOnce /\ NotYetDelivered
        /\ SendingPersisted /\ ResultHonest /\ DownIsIdle /\ DeliveredNeverLost


(***************************************************************************)
(* The helpers of Dispatch keep rows and locals well-typed.                *)
(***************************************************************************)

LEMMA NewRowType ==
  ASSUME NEW o \in Owners, NEW e \in Endpoints \cup {None}, NEW s \in BOOLEAN,
         NEW status \in Statuses, NEW code \in Codes
  PROVE  NewRow(o, e, s, status, code) \in Rows
  BY DEF NewRow, Rows

LEMMA MarkType ==
  ASSUME NEW a, row \in [Ids -> Rows], NEW status \in Statuses, NEW code \in Codes,
         Mark(a, status, code)
  PROVE  row' \in [Ids -> Rows]
  BY DEF Mark, Rows

LEMMA MarkAllType ==
  ASSUME NEW S, row \in [Ids -> Rows], NEW status \in Statuses, NEW code \in Codes,
         MarkAll(S, status, code)
  PROVE  row' \in [Ids -> Rows]
  BY DEF MarkAll, Rows

LEMMA LocalsType ==
  /\ Idle \in Locals
  /\ \A e \in Endpoints \cup {None}, a \in Ids \cup {None}, label \in Labels :
       Carrying(e, a, label) \in Locals
  BY DEF Idle, Carrying, Locals, Labels

LEMMA GotoType ==
  ASSUME NEW t, thr \in [Threads -> Locals], NEW label \in Labels, Goto(t, label)
  PROVE  thr' \in [Threads -> Locals]
  BY DEF Goto, Locals

LEMMA CarryType ==
  ASSUME NEW t \in Threads, thr \in [Threads -> Locals], NEW a \in Ids \cup {None},
         NEW label \in Labels, thr' = [thr EXCEPT ![t] = Carrying(@.goal, a, label)]
  PROVE  thr' \in [Threads -> Locals]
<1>1. thr[t].goal \in Endpoints \cup {None}
  BY DEF Locals
<1>2. Carrying(thr[t].goal, a, label) \in Locals
  BY <1>1, LocalsType
<1> QED BY <1>2

LEMMA EndType ==
  ASSUME NEW t, thr \in [Threads -> Locals], End(t)
  PROVE  thr' \in [Threads -> Locals]
  BY LocalsType DEF End

LEMMA RaiseType ==
  ASSUME NEW t \in Threads, thr \in [Threads -> Locals], Raise(t)
  PROVE  thr' \in [Threads -> Locals]
  BY CarryType DEF Raise, Labels

LEMMA MarkResultType ==
  ASSUME NEW t \in Threads, TypeOK, CarriedOwn, ResultHonest, thr[t].pc = "returned",
         MarkResult(t)
  PROVE  row' \in [Ids -> Rows]
<1> DEFINE a == thr[t].cur
<1>0. a \in Ids /\ row[a].code \in Codes
  BY DEF TypeOK, CarriedOwn, Carries, CarryingLabels, OwnRow, Rows
<1>1. \E status \in Statuses, code \in Codes : Mark(a, status, code)
  BY <1>0 DEF MarkResult, ResultHonest, Results, Statuses, Codes
<1> QED BY <1>1, MarkType DEF TypeOK

(***************************************************************************)
(* Each action keeps the state well-typed.                                 *)
(***************************************************************************)

LEMMA SelectType ==
  ASSUME IInv, NEW c \in Campaigns, NEW e \in Endpoints, Select(c, e)
  PROVE  TypeOK'
  BY LocalsType DEF IInv, TypeOK, Select, Labels

LEMMA RecordPreSendFailureType ==
  ASSUME IInv, NEW c \in Campaigns, NEW a \in Ids, RecordPreSendFailure(c, a)
  PROVE  TypeOK'
<1>1. thr[c].goal \in Endpoints \cup {None} /\ c \in Owners
  BY DEF IInv, TypeOK, Locals, Threads, Owners
<1>2. row' \in [Ids -> Rows]
  BY <1>1, NewRowType DEF IInv, TypeOK, RecordPreSendFailure, Statuses, Codes
<1> QED BY <1>2, EndType DEF IInv, TypeOK, RecordPreSendFailure

LEMMA ReserveType ==
  ASSUME IInv, NEW c \in Campaigns, NEW a \in Ids, Reserve(c, a)
  PROVE  TypeOK'
<1> DEFINE base == BaseRows(c, thr[c].goal)
           new  == NewRow(c, thr[c].goal, base # {}, "PREPARED", "none")
<1>1. c \in Threads /\ thr[c].goal \in Endpoints \cup {None} /\ c \in Owners
  BY DEF IInv, TypeOK, Locals, Threads, Owners
<1>2. new \in Rows
  BY <1>1, NewRowType DEF Statuses, Codes
<1>3. row' = row \/ row' = [row EXCEPT ![a] = new]
  BY DEF Reserve
<1>4. row' \in [Ids -> Rows]
  BY <1>2, <1>3 DEF IInv, TypeOK
<1>5. End(c) \/ thr' = [thr EXCEPT ![c] = Carrying(@.goal, a, "prepared")]
  BY DEF Reserve
<1>6. thr' \in [Threads -> Locals]
  BY <1>1, <1>5, EndType, CarryType DEF IInv, TypeOK, Labels
<1> QED BY <1>4, <1>6 DEF IInv, TypeOK, Reserve

LEMMA NotAdmittedType ==
  ASSUME IInv, NEW c \in Campaigns, NotAdmitted(c)
  PROVE  TypeOK'
  BY MarkType, EndType DEF IInv, TypeOK, NotAdmitted, Statuses, Codes

LEMMA BeginSendingType ==
  ASSUME IInv, NEW c \in Campaigns, BeginSending(c)
  PROVE  TypeOK'
<1>1. CASE row[thr[c].cur].status \in InFlight
  BY <1>1, MarkType, GotoType
     DEF IInv, TypeOK, BeginSending, Statuses, Codes, Labels
<1>2. CASE row[thr[c].cur].status \notin InFlight
  BY <1>2, RaiseType DEF IInv, TypeOK, BeginSending, Threads
<1> QED BY <1>1, <1>2

LEMMA ResolveType ==
  ASSUME IInv, NEW c \in Campaigns, Resolve(c)
  PROVE  TypeOK'
<1>1. used' \in [Campaigns -> Nat]
  BY DEF IInv, TypeOK, Resolve
<1> QED BY <1>1, MarkResultType, EndType DEF IInv, TypeOK, Resolve, At, Threads

LEMMA WorkerRaisesType ==
  ASSUME IInv, NEW c \in Campaigns, WorkerRaises(c)
  PROVE  TypeOK'
  BY RaiseType, ConstantsAssumption
     DEF IInv, TypeOK, WorkerRaises, Threads, ConstantsAssumption

LEMMA HandlerScanType ==
  ASSUME IInv, NEW c \in Campaigns, HandlerScan(c)
  PROVE  TypeOK'
<1> DEFINE found == {a \in Ids : row[a].status \in InFlight
                                /\ LaneOf[row[a].ep] = LaneOf[thr[c].goal]}
<1>1. thr[c] \in Locals
  BY DEF IInv, TypeOK, Threads
<1>2. [thr[c] EXCEPT !.pc = "handling", !.todo = found] \in Locals
  BY <1>1 DEF Locals, Labels
<1>3. thr' = [thr EXCEPT ![c] = [thr[c] EXCEPT !.pc = "handling", !.todo = found]]
  BY <1>1 DEF IInv, TypeOK, HandlerScan, Locals
<1> QED BY <1>2, <1>3 DEF IInv, TypeOK, HandlerScan

LEMMA HandlerWriteType ==
  ASSUME IInv, NEW c \in Campaigns, HandlerWrite(c)
  PROVE  TypeOK'
  BY MarkAllType, EndType DEF IInv, TypeOK, HandlerWrite, Statuses, Codes

LEMMA HandlerRaisesType ==
  ASSUME IInv, NEW c \in Campaigns, HandlerRaises(c)
  PROVE  TypeOK'
  BY EndType, ConstantsAssumption
     DEF IInv, TypeOK, HandlerRaises, ConstantsAssumption

LEMMA RequestSendType ==
  ASSUME IInv, NEW o \in Operators, NEW e \in Endpoints, RequestSend(o, e)
  PROVE  TypeOK'
  BY LocalsType DEF IInv, TypeOK, RequestSend, Labels

LEMMA CheckAndBuildIdempotencyType ==
  ASSUME IInv, NEW o \in Operators, CheckAndBuildIdempotency(o)
  PROVE  TypeOK'
<1>1. End(o) \/ Goto(o, "keyed") \/ Goto(o, "salted")
  BY DEF CheckAndBuildIdempotency
<1> QED BY <1>1, EndType, GotoType
     DEF IInv, TypeOK, CheckAndBuildIdempotency, Labels

LEMMA InsertPreparedType ==
  ASSUME IInv, NEW o \in Operators, NEW a \in Ids, InsertPrepared(o, a)
  PROVE  TypeOK'
<1> DEFINE new == NewRow(Manual, thr[o].goal, At(o, "salted"), "PREPARED", "none")
<1>1. o \in Threads /\ thr[o].goal \in Endpoints \cup {None} /\ Manual \in Owners
  BY DEF IInv, TypeOK, Locals, Threads, Owners
<1>2. new \in Rows
  BY <1>1, NewRowType DEF Statuses, Codes, At
<1>3. row' = row \/ row' = [row EXCEPT ![a] = new]
  BY DEF InsertPrepared
<1>4. row' \in [Ids -> Rows]
  BY <1>2, <1>3 DEF IInv, TypeOK
<1>5. End(o) \/ thr' = [thr EXCEPT ![o] = Carrying(@.goal, a, "prepared")]
  BY DEF InsertPrepared
<1>6. thr' \in [Threads -> Locals]
  BY <1>1, <1>5, EndType, CarryType DEF IInv, TypeOK, Labels
<1> QED BY <1>4, <1>6 DEF IInv, TypeOK, InsertPrepared

LEMMA RequestResendType ==
  ASSUME IInv, NEW o \in Operators, NEW e \in Endpoints, NEW a \in Ids,
         RequestResend(o, e, a)
  PROVE  TypeOK'
  BY NewRowType, LocalsType
     DEF IInv, TypeOK, RequestResend, Owners, Statuses, Codes, Labels

LEMMA OperatorBeginSendingType ==
  ASSUME IInv, NEW o \in Operators, OperatorBeginSending(o)
  PROVE  TypeOK'
  BY MarkType, GotoType
     DEF IInv, TypeOK, OperatorBeginSending, Statuses, Codes, Labels

LEMMA OperatorNotAdmittedType ==
  ASSUME IInv, NEW o \in Operators, OperatorNotAdmitted(o)
  PROVE  TypeOK'
  BY MarkType, EndType DEF IInv, TypeOK, OperatorNotAdmitted, Statuses, Codes

LEMMA OperatorAdmittedType ==
  ASSUME IInv, NEW o \in Operators, OperatorAdmitted(o)
  PROVE  TypeOK'
  BY GotoType DEF IInv, TypeOK, OperatorAdmitted, Labels

LEMMA FinalizeSendType ==
  ASSUME IInv, NEW o \in Operators, FinalizeSend(o)
  PROVE  TypeOK'
  BY MarkResultType, EndType DEF IInv, TypeOK, FinalizeSend, At, Threads

LEMMA RequestRaisesType ==
  ASSUME IInv, NEW o \in Operators, RequestRaises(o)
  PROVE  TypeOK'
  BY EndType, ConstantsAssumption
     DEF IInv, TypeOK, RequestRaises, ConstantsAssumption

LEMMA ProviderDeliversType ==
  ASSUME IInv, NEW t \in Threads, ProviderDelivers(t)
  PROVE  TypeOK'
<1>1. thr[t].cur \in Ids
  BY DEF IInv, CarriedOwn, Carries, CarryingLabels, OwnRow, ProviderDelivers, At
<1> QED BY <1>1 DEF IInv, TypeOK, ProviderDelivers

LEMMA ProviderReturnsType ==
  ASSUME IInv, NEW t \in Threads, NEW r \in Results, ProviderReturns(t, r)
  PROVE  TypeOK'
<1>1. thr[t] \in Locals
  BY DEF IInv, TypeOK
<1>2. [thr[t] EXCEPT !.res = r, !.pc = "returned"] \in Locals
  BY <1>1 DEF Locals, Labels
<1>3. thr' = [thr EXCEPT ![t] = [thr[t] EXCEPT !.res = r, !.pc = "returned"]]
  BY <1>1 DEF IInv, TypeOK, ProviderReturns, Locals
<1> QED BY <1>2, <1>3 DEF IInv, TypeOK, ProviderReturns

LEMMA ResolveMarkSentType ==
  ASSUME IInv, NEW a \in Ids, ResolveMarkSent(a)
  PROVE  TypeOK'
<1>1. row[a].code \in Codes
  BY DEF IInv, TypeOK, Rows
<1>2. row' \in [Ids -> Rows]
  BY <1>1, MarkType DEF IInv, TypeOK, ResolveMarkSent, Statuses
<1>3. used' \in [Campaigns -> Nat]
  BY DEF IInv, TypeOK, ResolveMarkSent, Automatic
<1> QED BY <1>2, <1>3 DEF IInv, TypeOK, ResolveMarkSent

LEMMA ResolveFailedType ==
  ASSUME IInv, NEW a \in Ids,
         NEW code \in {"OPERATOR_RETRY_REQUESTED", "OPERATOR_CANCELLED"},
         ResolveFailed(a, code)
  PROVE  TypeOK'
  BY MarkType DEF IInv, TypeOK, ResolveFailed, Statuses, Codes

LEMMA CrashType ==
  ASSUME IInv, Crash
  PROVE  TypeOK'
<1>1. thr' \in [Threads -> Locals]
  BY LocalsType DEF Crash
<1>2. crashes' \in 0..MaxCrashes
  BY ConstantsAssumption DEF ConstantsAssumption, IInv, TypeOK, Crash
<1> QED BY <1>1, <1>2 DEF IInv, TypeOK, Crash

LEMMA RestartType ==
  ASSUME IInv, Restart
  PROVE  TypeOK'
<1>1. ASSUME NEW a \in Ids
      PROVE  /\ [row[a] EXCEPT !.status = "RECOVERY_REQUIRED", !.code = "ambiguous"] \in Rows
             /\ [row[a] EXCEPT !.status = "FAILED", !.code = "ERR_INTERRUPTED_BEFORE_DISPATCH"]
                  \in Rows
             /\ row[a] \in Rows
  BY DEF IInv, TypeOK, Rows, Statuses, Codes
<1>2. row' \in [Ids -> Rows]
  BY <1>1 DEF Restart
<1> QED BY <1>2 DEF IInv, TypeOK, Restart

(***************************************************************************)
(* What the helpers change, field by field: a row that is marked, a thread *)
(* that moves on with its row, a thread that lets go of it.                *)
(***************************************************************************)
MarkedOnly(a, status, code) ==
  /\ row'[a].status = status /\ row'[a].code = code
  /\ row'[a].owner = row[a].owner /\ row'[a].ep = row[a].ep
  /\ \A b \in Ids \ {a} : row'[b] = row[b]

MovedOnly(t, label) ==
  /\ thr'[t].pc = label
  /\ thr'[t].cur = thr[t].cur /\ thr'[t].res = thr[t].res
  /\ \A u \in Threads \ {t} : thr'[u] = thr[u]

Left(t) ==
  /\ thr'[t].pc \in {"idle", "selected", "raised", "handling"}
  /\ \A u \in Threads \ {t} : thr'[u] = thr[u]

LEMMA MarkEffect ==
  ASSUME NEW a \in Ids, row \in [Ids -> Rows], NEW status, NEW code, Mark(a, status, code)
  PROVE  MarkedOnly(a, status, code)
  BY DEF Mark, MarkedOnly, Rows

LEMMA GotoEffect ==
  ASSUME NEW t \in Threads, thr \in [Threads -> Locals], NEW label, Goto(t, label)
  PROVE  MovedOnly(t, label)
  BY DEF Goto, MovedOnly, Locals

LEMMA EndEffect ==
  ASSUME NEW t \in Threads, thr \in [Threads -> Locals], End(t)
  PROVE  Left(t)
  BY DEF End, Left, Idle

LEMMA RaiseEffect ==
  ASSUME NEW t \in Threads, thr \in [Threads -> Locals], Raise(t)
  PROVE  Left(t)
  BY DEF Raise, Left, Carrying

(***************************************************************************)
(* Each action keeps the inductive invariant: what it changes first, then  *)
(* ownership, the state of the send, and the record of deliveries.         *)
(***************************************************************************)
LEMMA InitInv == Init => IInv
<1> SUFFICES ASSUME Init PROVE IInv
  OBVIOUS
<1>1. \A a \in Ids : row[a] = NoRow /\ NoRow \in Rows
  BY DEF Init, NoRow, Rows, Statuses, Codes
<1>2. \A t \in Threads : thr[t] = Idle
  BY DEF Init
<1>3. TypeOK
  BY <1>1, LocalsType, ConstantsAssumption DEF Init, TypeOK, ConstantsAssumption
<1>4. /\ CarriedOwn /\ CarriedOnce /\ NotYetDelivered /\ SendingPersisted
      /\ ResultHonest /\ DownIsIdle /\ DeliveredNeverLost
  BY <1>2 DEF Init, Idle, CarriedOwn, CarriedOnce, Carries, CarryingLabels,
     NotYetDelivered, SendingPersisted, ResultHonest, DownIsIdle, DeliveredNeverLost
<1> QED BY <1>3, <1>4 DEF IInv

LEMMA SelectInv ==
  ASSUME IInv, NEW c \in Campaigns, NEW e \in Endpoints, Select(c, e)
  PROVE  IInv'
<1>1. TypeOK'
  BY SelectType
<1>2. c \in Threads
  BY DEF Threads
<1>3. Left(c) /\ up /\ UNCHANGED <<row, up, delivered>>
  BY <1>2 DEF IInv, TypeOK, Select, Left, Carrying, At
<1>4. CarriedOwn' /\ CarriedOnce'
  BY <1>1, <1>2, <1>3 DEF IInv, TypeOK, CarriedOwn, CarriedOnce, OwnRow,
     Carries, CarryingLabels, Left
<1>5. NotYetDelivered' /\ SendingPersisted' /\ ResultHonest' /\ DownIsIdle'
  BY <1>1, <1>2, <1>3 DEF IInv, TypeOK, NotYetDelivered, SendingPersisted,
     ResultHonest, DownIsIdle, DeliveredNeverLost, CarriedOwn, CarriedOnce,
     OwnRow, Carries, CarryingLabels, Left
<1>6. DeliveredNeverLost'
  BY <1>1, <1>2, <1>3 DEF IInv, TypeOK, DeliveredNeverLost, NotYetDelivered,
     SendingPersisted, ResultHonest, CarriedOwn, CarriedOnce, OwnRow,
     Carries, CarryingLabels, Left
<1> QED BY <1>1, <1>4, <1>5, <1>6 DEF IInv

LEMMA RecordPreSendFailureInv ==
  ASSUME IInv, NEW c \in Campaigns, NEW a \in Ids, RecordPreSendFailure(c, a)
  PROVE  IInv'
<1>1. TypeOK'
  BY RecordPreSendFailureType
<1>2. c \in Threads
  BY DEF Threads
<1>3. Left(c)
  BY <1>2, EndEffect DEF IInv, TypeOK, RecordPreSendFailure
<1>4. /\ UNCHANGED <<up, delivered>> /\ thr[c].pc = "selected"
      /\ row[a].status = "ABSENT" /\ row'[a].status = "FAILED"
      /\ \A b \in Ids \ {a} : row'[b] = row[b]
  BY DEF IInv, TypeOK, RecordPreSendFailure, At, Absent, NewRow
<1>5. CarriedOwn' /\ CarriedOnce'
  BY <1>1, <1>2, <1>3, <1>4 DEF IInv, TypeOK, CarriedOwn, CarriedOnce,
     OwnRow, Carries, CarryingLabels, Left, Idle
<1>6. NotYetDelivered' /\ SendingPersisted' /\ ResultHonest' /\ DownIsIdle'
  BY <1>1, <1>2, <1>3, <1>4 DEF IInv, TypeOK, NotYetDelivered,
     SendingPersisted, ResultHonest, DownIsIdle, DeliveredNeverLost,
     CarriedOwn, CarriedOnce, OwnRow, Carries, CarryingLabels, Left, Idle
<1>7. DeliveredNeverLost'
  BY <1>1, <1>2, <1>3, <1>4 DEF IInv, TypeOK, DeliveredNeverLost,
     NotYetDelivered, SendingPersisted, ResultHonest, CarriedOwn,
     CarriedOnce, OwnRow, Carries, CarryingLabels, Left, Idle
<1> QED BY <1>1, <1>5, <1>6, <1>7 DEF IInv

LEMMA ReserveInv ==
  ASSUME IInv, NEW c \in Campaigns, NEW a \in Ids, Reserve(c, a)
  PROVE  IInv'
<1>1. TypeOK'
  BY ReserveType
<1>2. c \in Threads
  BY DEF Threads
<1>3. UNCHANGED <<up, delivered>> /\ thr[c].pc = "selected"
  BY DEF Reserve, At
<1>4. \/ Left(c) /\ UNCHANGED row
      \/ /\ thr'[c].pc = "prepared" /\ thr'[c].cur = a
         /\ \A u \in Threads \ {c} : thr'[u] = thr[u]
         /\ \/ UNCHANGED row /\ row[a].status = "PREPARED" /\ row[a].owner = c
            \/ /\ row[a].status = "ABSENT" /\ row'[a].status = "PREPARED" /\ row'[a].owner = c
               /\ \A b \in Ids \ {a} : row'[b] = row[b]
  BY <1>2, EndEffect
     DEF IInv, TypeOK, Reserve, BaseRows, Absent, NewRow, Carrying
<1>5. ASSUME row[a].status = "ABSENT" \/ row[a].owner = c, NEW u \in Threads, Carries(u)
      PROVE  thr[u].cur # a
  BY <1>3, <1>5, ConstantsAssumption
     DEF ConstantsAssumption, IInv, CarriedOwn, OwnRow, Carries, CarryingLabels, Threads
<1>6. CarriedOwn' /\ CarriedOnce'
  BY <1>1, <1>2, <1>3, <1>4, <1>5, ConstantsAssumption DEF IInv, TypeOK,
     CarriedOwn, CarriedOnce, OwnRow, Carries, CarryingLabels, Left, Idle,
     ConstantsAssumption
<1>7. NotYetDelivered' /\ SendingPersisted' /\ ResultHonest' /\ DownIsIdle'
  BY <1>1, <1>2, <1>3, <1>4, <1>5, ConstantsAssumption DEF IInv, TypeOK,
     NotYetDelivered, SendingPersisted, ResultHonest, DownIsIdle,
     DeliveredNeverLost, CarriedOwn, CarriedOnce, OwnRow, Carries,
     CarryingLabels, Left, Idle, ConstantsAssumption
<1>8. DeliveredNeverLost'
  BY <1>1, <1>2, <1>3, <1>4, <1>5, ConstantsAssumption DEF IInv, TypeOK,
     DeliveredNeverLost, NotYetDelivered, SendingPersisted, ResultHonest,
     CarriedOwn, CarriedOnce, OwnRow, Carries, CarryingLabels, Left, Idle,
     ConstantsAssumption
<1> QED BY <1>1, <1>6, <1>7, <1>8 DEF IInv

LEMMA NotAdmittedInv ==
  ASSUME IInv, NEW c \in Campaigns, NotAdmitted(c)
  PROVE  IInv'
<1>1. TypeOK'
  BY NotAdmittedType
<1>2. c \in Threads
  BY DEF Threads
<1>3. thr[c].cur \in Ids
  BY <1>2 DEF IInv, CarriedOwn, Carries, CarryingLabels, OwnRow, NotAdmitted, At
<1>4. Left(c) /\ MarkedOnly(thr[c].cur, "FAILED", "transient")
  BY <1>2, <1>3, EndEffect, MarkEffect DEF IInv, TypeOK, NotAdmitted
<1>5. UNCHANGED <<up, delivered>> /\ thr[c].pc = "prepared"
  BY DEF NotAdmitted, At
<1>6. CarriedOwn' /\ CarriedOnce'
  BY <1>1, <1>2, <1>3, <1>4, <1>5 DEF IInv, TypeOK, CarriedOwn, CarriedOnce,
     OwnRow, Carries, CarryingLabels, Left, MarkedOnly, Idle
<1>7. NotYetDelivered' /\ SendingPersisted' /\ ResultHonest' /\ DownIsIdle'
  BY <1>1, <1>2, <1>3, <1>4, <1>5 DEF IInv, TypeOK, NotYetDelivered,
     SendingPersisted, ResultHonest, DownIsIdle, DeliveredNeverLost,
     CarriedOwn, CarriedOnce, OwnRow, Carries, CarryingLabels, Left,
     MarkedOnly, Idle
<1>8. DeliveredNeverLost'
  BY <1>1, <1>2, <1>3, <1>4, <1>5 DEF IInv, TypeOK, DeliveredNeverLost,
     NotYetDelivered, SendingPersisted, ResultHonest, CarriedOwn,
     CarriedOnce, OwnRow, Carries, CarryingLabels, Left, MarkedOnly, Idle
<1> QED BY <1>1, <1>6, <1>7, <1>8 DEF IInv

LEMMA BeginSendingInv ==
  ASSUME IInv, NEW c \in Campaigns, BeginSending(c)
  PROVE  IInv'
<1>1. TypeOK'
  BY BeginSendingType
<1>2. c \in Threads
  BY DEF Threads
<1>3. thr[c].cur \in Ids
  BY <1>2
     DEF IInv, CarriedOwn, Carries, CarryingLabels, OwnRow, BeginSending, At
<1>4. \/ MovedOnly(c, "sending") /\ MarkedOnly(thr[c].cur, "SENDING", "none")
      \/ Left(c) /\ UNCHANGED row
  BY <1>2, <1>3, GotoEffect, MarkEffect, RaiseEffect
     DEF IInv, TypeOK, BeginSending
<1>5. UNCHANGED <<up, delivered>> /\ thr[c].pc = "prepared"
  BY DEF BeginSending, At
<1>6. CarriedOwn' /\ CarriedOnce'
  BY <1>1, <1>2, <1>3, <1>4, <1>5 DEF IInv, TypeOK, CarriedOwn, CarriedOnce,
     OwnRow, Carries, CarryingLabels, Left, MarkedOnly, MovedOnly, Idle
<1>7. NotYetDelivered' /\ SendingPersisted' /\ ResultHonest' /\ DownIsIdle'
  BY <1>1, <1>2, <1>3, <1>4, <1>5 DEF IInv, TypeOK, NotYetDelivered,
     SendingPersisted, ResultHonest, DownIsIdle, DeliveredNeverLost,
     CarriedOwn, CarriedOnce, OwnRow, Carries, CarryingLabels, Left,
     MarkedOnly, MovedOnly, Idle
<1>8. DeliveredNeverLost'
  BY <1>1, <1>2, <1>3, <1>4, <1>5 DEF IInv, TypeOK, DeliveredNeverLost,
     NotYetDelivered, SendingPersisted, ResultHonest, CarriedOwn,
     CarriedOnce, OwnRow, Carries, CarryingLabels, Left, MarkedOnly,
     MovedOnly, Idle
<1> QED BY <1>1, <1>6, <1>7, <1>8 DEF IInv

LEMMA ResolveInv ==
  ASSUME IInv, NEW c \in Campaigns, Resolve(c)
  PROVE  IInv'
<1>1. TypeOK'
  BY ResolveType
<1>2. c \in Threads
  BY DEF Threads
<1>3. thr[c].cur \in Ids
  BY <1>2 DEF IInv, CarriedOwn, Carries, CarryingLabels, OwnRow, Resolve, At
<1>4. Left(c)
  BY <1>2, EndEffect DEF IInv, TypeOK, Resolve
<1>5. UNCHANGED <<up, delivered>> /\ thr[c].pc = "returned"
  BY DEF Resolve, At
<1>6. \E status, code : /\ MarkedOnly(thr[c].cur, status, code)
                        /\ status \notin {"ABSENT", "PREPARED"}
                        /\ status = "FAILED" => thr[c].res \in {"transient", "rejected"}
  BY <1>2, <1>3, <1>5, MarkEffect
     DEF IInv, TypeOK, ResultHonest, Results, Resolve, MarkResult
<1>7. CarriedOwn' /\ CarriedOnce'
  BY <1>1, <1>2, <1>3, <1>4, <1>5, <1>6 DEF IInv, TypeOK, CarriedOwn,
     CarriedOnce, OwnRow, Carries, CarryingLabels, Left, MarkedOnly, Idle
<1>8. NotYetDelivered' /\ SendingPersisted' /\ ResultHonest' /\ DownIsIdle'
  BY <1>1, <1>2, <1>3, <1>4, <1>5, <1>6 DEF IInv, TypeOK, NotYetDelivered,
     SendingPersisted, ResultHonest, DownIsIdle, DeliveredNeverLost,
     CarriedOwn, CarriedOnce, OwnRow, Carries, CarryingLabels, Left,
     MarkedOnly, Idle
<1>9. DeliveredNeverLost'
  BY <1>1, <1>2, <1>3, <1>4, <1>5, <1>6 DEF IInv, TypeOK,
     DeliveredNeverLost, NotYetDelivered, SendingPersisted, ResultHonest,
     CarriedOwn, CarriedOnce, OwnRow, Carries, CarryingLabels, Left,
     MarkedOnly, Idle
<1> QED BY <1>1, <1>7, <1>8, <1>9 DEF IInv

LEMMA WorkerRaisesInv ==
  ASSUME IInv, NEW c \in Campaigns, WorkerRaises(c)
  PROVE  IInv'
<1>1. TypeOK'
  BY WorkerRaisesType
<1>2. c \in Threads
  BY DEF Threads
<1>3. Left(c) /\ UNCHANGED <<row, up, delivered>>
  BY <1>2, RaiseEffect DEF IInv, TypeOK, WorkerRaises
<1>4. CarriedOwn' /\ CarriedOnce'
  BY <1>1, <1>2, <1>3 DEF IInv, TypeOK, CarriedOwn, CarriedOnce, OwnRow,
     Carries, CarryingLabels, Left, Idle, WorkerRaises
<1>5. NotYetDelivered' /\ SendingPersisted' /\ ResultHonest' /\ DownIsIdle'
  BY <1>1, <1>2, <1>3 DEF IInv, TypeOK, NotYetDelivered, SendingPersisted,
     ResultHonest, DownIsIdle, DeliveredNeverLost, CarriedOwn, CarriedOnce,
     OwnRow, Carries, CarryingLabels, Left, Idle, WorkerRaises
<1>6. DeliveredNeverLost'
  BY <1>1, <1>2, <1>3 DEF IInv, TypeOK, DeliveredNeverLost, NotYetDelivered,
     SendingPersisted, ResultHonest, CarriedOwn, CarriedOnce, OwnRow,
     Carries, CarryingLabels, Left, Idle, WorkerRaises
<1> QED BY <1>1, <1>4, <1>5, <1>6 DEF IInv

LEMMA HandlerScanInv ==
  ASSUME IInv, NEW c \in Campaigns, HandlerScan(c)
  PROVE  IInv'
<1>1. TypeOK'
  BY HandlerScanType
<1>2. c \in Threads
  BY DEF Threads
<1>3. Left(c) /\ thr[c].pc = "raised" /\ UNCHANGED <<row, up, delivered>>
  BY <1>2 DEF IInv, TypeOK, HandlerScan, At, Left, Locals
<1>4. CarriedOwn' /\ CarriedOnce'
  BY <1>1, <1>2, <1>3 DEF IInv, TypeOK, CarriedOwn, CarriedOnce, OwnRow,
     Carries, CarryingLabels, Left, Idle
<1>5. NotYetDelivered' /\ SendingPersisted' /\ ResultHonest' /\ DownIsIdle'
  BY <1>1, <1>2, <1>3 DEF IInv, TypeOK, NotYetDelivered, SendingPersisted,
     ResultHonest, DownIsIdle, DeliveredNeverLost, CarriedOwn, CarriedOnce,
     OwnRow, Carries, CarryingLabels, Left, Idle
<1>6. DeliveredNeverLost'
  BY <1>1, <1>2, <1>3 DEF IInv, TypeOK, DeliveredNeverLost, NotYetDelivered,
     SendingPersisted, ResultHonest, CarriedOwn, CarriedOnce, OwnRow,
     Carries, CarryingLabels, Left, Idle
<1> QED BY <1>1, <1>4, <1>5, <1>6 DEF IInv

LEMMA HandlerWriteInv ==
  ASSUME IInv, NEW c \in Campaigns, HandlerWrite(c)
  PROVE  IInv'
<1>1. TypeOK'
  BY HandlerWriteType
<1>2. c \in Threads
  BY DEF Threads
<1>3. Left(c) /\ UNCHANGED <<up, delivered>> /\ thr[c].pc = "handling"
  BY <1>2, EndEffect DEF IInv, TypeOK, HandlerWrite, At
<1>4. \A a \in Ids : \/ row'[a] = row[a]
                     \/ /\ row'[a].status = "FAILED" /\ row'[a].code = "ERR_WORKER_EXCEPTION"
                        /\ row'[a].owner = row[a].owner
  BY DEF IInv, TypeOK, HandlerWrite, MarkAll, Rows
<1>5. CarriedOwn' /\ CarriedOnce'
  BY <1>1, <1>2, <1>3, <1>4 DEF IInv, TypeOK, CarriedOwn, CarriedOnce,
     OwnRow, Carries, CarryingLabels, Left, Idle
<1>6. NotYetDelivered' /\ SendingPersisted' /\ ResultHonest' /\ DownIsIdle'
  BY <1>1, <1>2, <1>3, <1>4 DEF IInv, TypeOK, NotYetDelivered,
     SendingPersisted, ResultHonest, DownIsIdle, DeliveredNeverLost,
     CarriedOwn, CarriedOnce, OwnRow, Carries, CarryingLabels, Left, Idle
<1>7. DeliveredNeverLost'
  BY <1>1, <1>2, <1>3, <1>4 DEF IInv, TypeOK, DeliveredNeverLost,
     NotYetDelivered, SendingPersisted, ResultHonest, CarriedOwn,
     CarriedOnce, OwnRow, Carries, CarryingLabels, Left, Idle
<1> QED BY <1>1, <1>5, <1>6, <1>7 DEF IInv

LEMMA HandlerRaisesInv ==
  ASSUME IInv, NEW c \in Campaigns, HandlerRaises(c)
  PROVE  IInv'
<1>1. TypeOK'
  BY HandlerRaisesType
<1>2. c \in Threads
  BY DEF Threads
<1>3. Left(c) /\ thr[c].pc \in {"raised", "handling"} /\ UNCHANGED <<row, up, delivered>>
  BY <1>2, EndEffect DEF IInv, TypeOK, HandlerRaises
<1>4. CarriedOwn' /\ CarriedOnce'
  BY <1>1, <1>2, <1>3 DEF IInv, TypeOK, CarriedOwn, CarriedOnce, OwnRow,
     Carries, CarryingLabels, Left, Idle
<1>5. NotYetDelivered' /\ SendingPersisted' /\ ResultHonest' /\ DownIsIdle'
  BY <1>1, <1>2, <1>3 DEF IInv, TypeOK, NotYetDelivered, SendingPersisted,
     ResultHonest, DownIsIdle, DeliveredNeverLost, CarriedOwn, CarriedOnce,
     OwnRow, Carries, CarryingLabels, Left, Idle
<1>6. DeliveredNeverLost'
  BY <1>1, <1>2, <1>3 DEF IInv, TypeOK, DeliveredNeverLost, NotYetDelivered,
     SendingPersisted, ResultHonest, CarriedOwn, CarriedOnce, OwnRow,
     Carries, CarryingLabels, Left, Idle
<1> QED BY <1>1, <1>4, <1>5, <1>6 DEF IInv

LEMMA RequestSendInv ==
  ASSUME IInv, NEW o \in Operators, NEW e \in Endpoints, RequestSend(o, e)
  PROVE  IInv'
<1>1. TypeOK'
  BY RequestSendType
<1>2. o \in Threads
  BY DEF Threads
<1>3. Left(o) /\ up /\ UNCHANGED <<row, up, delivered>>
  BY <1>2 DEF IInv, TypeOK, RequestSend, Left, Carrying, At
<1>4. CarriedOwn' /\ CarriedOnce'
  BY <1>1, <1>2, <1>3 DEF IInv, TypeOK, CarriedOwn, CarriedOnce, OwnRow,
     Carries, CarryingLabels, Left
<1>5. NotYetDelivered' /\ SendingPersisted' /\ ResultHonest' /\ DownIsIdle'
  BY <1>1, <1>2, <1>3 DEF IInv, TypeOK, NotYetDelivered, SendingPersisted,
     ResultHonest, DownIsIdle, DeliveredNeverLost, CarriedOwn, CarriedOnce,
     OwnRow, Carries, CarryingLabels, Left
<1>6. DeliveredNeverLost'
  BY <1>1, <1>2, <1>3 DEF IInv, TypeOK, DeliveredNeverLost, NotYetDelivered,
     SendingPersisted, ResultHonest, CarriedOwn, CarriedOnce, OwnRow,
     Carries, CarryingLabels, Left
<1> QED BY <1>1, <1>4, <1>5, <1>6 DEF IInv

LEMMA CheckAndBuildIdempotencyInv ==
  ASSUME IInv, NEW o \in Operators, CheckAndBuildIdempotency(o)
  PROVE  IInv'
<1>1. TypeOK'
  BY CheckAndBuildIdempotencyType
<1>2. o \in Threads
  BY DEF Threads
<1>3. thr[o].pc = "selected" /\ UNCHANGED <<row, up, delivered>>
  BY DEF CheckAndBuildIdempotency, At
<1>4. Left(o) \/ MovedOnly(o, "keyed") \/ MovedOnly(o, "salted")
  BY <1>2, EndEffect, GotoEffect DEF IInv, TypeOK, CheckAndBuildIdempotency
<1>5. CarriedOwn' /\ CarriedOnce'
  BY <1>1, <1>2, <1>3, <1>4 DEF IInv, TypeOK, CarriedOwn, CarriedOnce,
     OwnRow, Carries, CarryingLabels, Left, MovedOnly, Idle
<1>6. NotYetDelivered' /\ SendingPersisted' /\ ResultHonest' /\ DownIsIdle'
  BY <1>1, <1>2, <1>3, <1>4 DEF IInv, TypeOK, NotYetDelivered,
     SendingPersisted, ResultHonest, DownIsIdle, DeliveredNeverLost,
     CarriedOwn, CarriedOnce, OwnRow, Carries, CarryingLabels, Left,
     MovedOnly, Idle
<1>7. DeliveredNeverLost'
  BY <1>1, <1>2, <1>3, <1>4 DEF IInv, TypeOK, DeliveredNeverLost,
     NotYetDelivered, SendingPersisted, ResultHonest, CarriedOwn,
     CarriedOnce, OwnRow, Carries, CarryingLabels, Left, MovedOnly, Idle
<1> QED BY <1>1, <1>5, <1>6, <1>7 DEF IInv

LEMMA InsertPreparedInv ==
  ASSUME IInv, NEW o \in Operators, NEW a \in Ids, InsertPrepared(o, a)
  PROVE  IInv'
<1>1. TypeOK'
  BY InsertPreparedType
<1>2. o \in Threads
  BY DEF Threads
<1>3. UNCHANGED <<up, delivered>> /\ thr[o].pc \in {"keyed", "salted"}
  BY DEF InsertPrepared, At
<1>4. \/ Left(o) /\ UNCHANGED row
      \/ /\ thr'[o].pc = "prepared" /\ thr'[o].cur = a
         /\ \A u \in Threads \ {o} : thr'[u] = thr[u]
         /\ row[a].status = "ABSENT" /\ row'[a].status = "PREPARED" /\ row'[a].owner = Manual
         /\ \A b \in Ids \ {a} : row'[b] = row[b]
  BY <1>2, EndEffect DEF IInv, TypeOK, InsertPrepared, Absent, NewRow, Carrying
<1>5. CarriedOwn' /\ CarriedOnce'
  BY <1>1, <1>2, <1>3, <1>4, ConstantsAssumption DEF IInv, TypeOK,
     CarriedOwn, CarriedOnce, OwnRow, Carries, CarryingLabels, Left, Idle,
     ConstantsAssumption
<1>6. NotYetDelivered' /\ SendingPersisted' /\ ResultHonest' /\ DownIsIdle'
  BY <1>1, <1>2, <1>3, <1>4, ConstantsAssumption DEF IInv, TypeOK,
     NotYetDelivered, SendingPersisted, ResultHonest, DownIsIdle,
     DeliveredNeverLost, CarriedOwn, CarriedOnce, OwnRow, Carries,
     CarryingLabels, Left, Idle, ConstantsAssumption
<1>7. DeliveredNeverLost'
  BY <1>1, <1>2, <1>3, <1>4, ConstantsAssumption DEF IInv, TypeOK,
     DeliveredNeverLost, NotYetDelivered, SendingPersisted, ResultHonest,
     CarriedOwn, CarriedOnce, OwnRow, Carries, CarryingLabels, Left, Idle,
     ConstantsAssumption
<1> QED BY <1>1, <1>5, <1>6, <1>7 DEF IInv

LEMMA RequestResendInv ==
  ASSUME IInv, NEW o \in Operators, NEW e \in Endpoints, NEW a \in Ids,
         RequestResend(o, e, a)
  PROVE  IInv'
<1>1. TypeOK'
  BY RequestResendType
<1>2. o \in Threads
  BY DEF Threads
<1>3. UNCHANGED <<up, delivered>> /\ up /\ thr[o].pc = "idle"
  BY DEF RequestResend, At
<1>4. /\ thr'[o].pc = "prepared" /\ thr'[o].cur = a
      /\ \A u \in Threads \ {o} : thr'[u] = thr[u]
      /\ row[a].status = "ABSENT" /\ row'[a].status = "PREPARED" /\ row'[a].owner = Resend
      /\ \A b \in Ids \ {a} : row'[b] = row[b]
  BY <1>2 DEF IInv, TypeOK, RequestResend, Absent, NewRow, Carrying
<1>5. CarriedOwn' /\ CarriedOnce'
  BY <1>1, <1>2, <1>3, <1>4, ConstantsAssumption DEF IInv, TypeOK,
     CarriedOwn, CarriedOnce, OwnRow, Carries, CarryingLabels,
     ConstantsAssumption
<1>6. NotYetDelivered' /\ SendingPersisted' /\ ResultHonest' /\ DownIsIdle'
  BY <1>1, <1>2, <1>3, <1>4, ConstantsAssumption DEF IInv, TypeOK,
     NotYetDelivered, SendingPersisted, ResultHonest, DownIsIdle,
     DeliveredNeverLost, CarriedOwn, CarriedOnce, OwnRow, Carries,
     CarryingLabels, ConstantsAssumption
<1>7. DeliveredNeverLost'
  BY <1>1, <1>2, <1>3, <1>4, ConstantsAssumption DEF IInv, TypeOK,
     DeliveredNeverLost, NotYetDelivered, SendingPersisted, ResultHonest,
     CarriedOwn, CarriedOnce, OwnRow, Carries, CarryingLabels,
     ConstantsAssumption
<1> QED BY <1>1, <1>5, <1>6, <1>7 DEF IInv

LEMMA OperatorBeginSendingInv ==
  ASSUME IInv, NEW o \in Operators, OperatorBeginSending(o)
  PROVE  IInv'
<1>1. TypeOK'
  BY OperatorBeginSendingType
<1>2. o \in Threads
  BY DEF Threads
<1>3. thr[o].cur \in Ids
  BY <1>2
     DEF IInv, CarriedOwn, Carries, CarryingLabels, OwnRow,
         OperatorBeginSending, At
<1>4. MovedOnly(o, "waiting") /\ MarkedOnly(thr[o].cur, "SENDING", "none")
  BY <1>2, <1>3, GotoEffect, MarkEffect DEF IInv, TypeOK, OperatorBeginSending
<1>5. UNCHANGED <<up, delivered>> /\ thr[o].pc = "prepared"
  BY DEF OperatorBeginSending, At
<1>6. CarriedOwn' /\ CarriedOnce'
  BY <1>1, <1>2, <1>3, <1>4, <1>5 DEF IInv, TypeOK, CarriedOwn, CarriedOnce,
     OwnRow, Carries, CarryingLabels, MarkedOnly, MovedOnly, Idle
<1>7. NotYetDelivered' /\ SendingPersisted' /\ ResultHonest' /\ DownIsIdle'
  BY <1>1, <1>2, <1>3, <1>4, <1>5 DEF IInv, TypeOK, NotYetDelivered,
     SendingPersisted, ResultHonest, DownIsIdle, DeliveredNeverLost,
     CarriedOwn, CarriedOnce, OwnRow, Carries, CarryingLabels, MarkedOnly,
     MovedOnly, Idle
<1>8. DeliveredNeverLost'
  BY <1>1, <1>2, <1>3, <1>4, <1>5 DEF IInv, TypeOK, DeliveredNeverLost,
     NotYetDelivered, SendingPersisted, ResultHonest, CarriedOwn,
     CarriedOnce, OwnRow, Carries, CarryingLabels, MarkedOnly, MovedOnly,
     Idle
<1> QED BY <1>1, <1>6, <1>7, <1>8 DEF IInv

LEMMA OperatorNotAdmittedInv ==
  ASSUME IInv, NEW o \in Operators, OperatorNotAdmitted(o)
  PROVE  IInv'
<1>1. TypeOK'
  BY OperatorNotAdmittedType
<1>2. o \in Threads
  BY DEF Threads
<1>3. thr[o].cur \in Ids
  BY <1>2
     DEF IInv, CarriedOwn, Carries, CarryingLabels, OwnRow, OperatorNotAdmitted,
         At
<1>4. Left(o) /\ MarkedOnly(thr[o].cur, "FAILED", "transient")
  BY <1>2, <1>3, EndEffect, MarkEffect DEF IInv, TypeOK, OperatorNotAdmitted
<1>5. UNCHANGED <<up, delivered>> /\ thr[o].pc = "waiting"
  BY DEF OperatorNotAdmitted, At
<1>6. CarriedOwn' /\ CarriedOnce'
  BY <1>1, <1>2, <1>3, <1>4, <1>5 DEF IInv, TypeOK, CarriedOwn, CarriedOnce,
     OwnRow, Carries, CarryingLabels, Left, MarkedOnly, Idle
<1>7. NotYetDelivered' /\ SendingPersisted' /\ ResultHonest' /\ DownIsIdle'
  BY <1>1, <1>2, <1>3, <1>4, <1>5 DEF IInv, TypeOK, NotYetDelivered,
     SendingPersisted, ResultHonest, DownIsIdle, DeliveredNeverLost,
     CarriedOwn, CarriedOnce, OwnRow, Carries, CarryingLabels, Left,
     MarkedOnly, Idle
<1>8. DeliveredNeverLost'
  BY <1>1, <1>2, <1>3, <1>4, <1>5 DEF IInv, TypeOK, DeliveredNeverLost,
     NotYetDelivered, SendingPersisted, ResultHonest, CarriedOwn,
     CarriedOnce, OwnRow, Carries, CarryingLabels, Left, MarkedOnly, Idle
<1> QED BY <1>1, <1>6, <1>7, <1>8 DEF IInv

LEMMA OperatorAdmittedInv ==
  ASSUME IInv, NEW o \in Operators, OperatorAdmitted(o)
  PROVE  IInv'
<1>1. TypeOK'
  BY OperatorAdmittedType
<1>2. o \in Threads
  BY DEF Threads
<1>3. MovedOnly(o, "sending")
  BY <1>2, GotoEffect DEF IInv, TypeOK, OperatorAdmitted
<1>4. UNCHANGED <<row, up, delivered>> /\ thr[o].pc = "waiting"
  BY DEF OperatorAdmitted, At
<1>5. CarriedOwn' /\ CarriedOnce'
  BY <1>1, <1>2, <1>3, <1>4 DEF IInv, TypeOK, CarriedOwn, CarriedOnce,
     OwnRow, Carries, CarryingLabels, MovedOnly, Idle
<1>6. NotYetDelivered' /\ SendingPersisted' /\ ResultHonest' /\ DownIsIdle'
  BY <1>1, <1>2, <1>3, <1>4 DEF IInv, TypeOK, NotYetDelivered,
     SendingPersisted, ResultHonest, DownIsIdle, DeliveredNeverLost,
     CarriedOwn, CarriedOnce, OwnRow, Carries, CarryingLabels, MovedOnly,
     Idle
<1>7. DeliveredNeverLost'
  BY <1>1, <1>2, <1>3, <1>4 DEF IInv, TypeOK, DeliveredNeverLost,
     NotYetDelivered, SendingPersisted, ResultHonest, CarriedOwn,
     CarriedOnce, OwnRow, Carries, CarryingLabels, MovedOnly, Idle
<1> QED BY <1>1, <1>5, <1>6, <1>7 DEF IInv

LEMMA FinalizeSendInv ==
  ASSUME IInv, NEW o \in Operators, FinalizeSend(o)
  PROVE  IInv'
<1>1. TypeOK'
  BY FinalizeSendType
<1>2. o \in Threads
  BY DEF Threads
<1>3. thr[o].cur \in Ids
  BY <1>2
     DEF IInv, CarriedOwn, Carries, CarryingLabels, OwnRow, FinalizeSend, At
<1>4. Left(o)
  BY <1>2, EndEffect DEF IInv, TypeOK, FinalizeSend
<1>5. UNCHANGED <<up, delivered>> /\ thr[o].pc = "returned"
  BY DEF FinalizeSend, At
<1>6. \E status, code : /\ MarkedOnly(thr[o].cur, status, code)
                        /\ status \notin {"ABSENT", "PREPARED"}
                        /\ status = "FAILED" => thr[o].res \in {"transient", "rejected"}
  BY <1>2, <1>3, <1>5, MarkEffect
     DEF IInv, TypeOK, ResultHonest, Results, FinalizeSend, MarkResult
<1>7. CarriedOwn' /\ CarriedOnce'
  BY <1>1, <1>2, <1>3, <1>4, <1>5, <1>6 DEF IInv, TypeOK, CarriedOwn,
     CarriedOnce, OwnRow, Carries, CarryingLabels, Left, MarkedOnly, Idle
<1>8. NotYetDelivered' /\ SendingPersisted' /\ ResultHonest' /\ DownIsIdle'
  BY <1>1, <1>2, <1>3, <1>4, <1>5, <1>6 DEF IInv, TypeOK, NotYetDelivered,
     SendingPersisted, ResultHonest, DownIsIdle, DeliveredNeverLost,
     CarriedOwn, CarriedOnce, OwnRow, Carries, CarryingLabels, Left,
     MarkedOnly, Idle
<1>9. DeliveredNeverLost'
  BY <1>1, <1>2, <1>3, <1>4, <1>5, <1>6 DEF IInv, TypeOK,
     DeliveredNeverLost, NotYetDelivered, SendingPersisted, ResultHonest,
     CarriedOwn, CarriedOnce, OwnRow, Carries, CarryingLabels, Left,
     MarkedOnly, Idle
<1> QED BY <1>1, <1>7, <1>8, <1>9 DEF IInv

LEMMA RequestRaisesInv ==
  ASSUME IInv, NEW o \in Operators, RequestRaises(o)
  PROVE  IInv'
<1>1. TypeOK'
  BY RequestRaisesType
<1>2. o \in Threads
  BY DEF Threads
<1>3. Left(o) /\ UNCHANGED <<row, up, delivered>>
  BY <1>2, EndEffect DEF IInv, TypeOK, RequestRaises
<1>4. CarriedOwn' /\ CarriedOnce'
  BY <1>1, <1>2, <1>3 DEF IInv, TypeOK, CarriedOwn, CarriedOnce, OwnRow,
     Carries, CarryingLabels, Left, Idle, RequestRaises, At
<1>5. NotYetDelivered' /\ SendingPersisted' /\ ResultHonest' /\ DownIsIdle'
  BY <1>1, <1>2, <1>3 DEF IInv, TypeOK, NotYetDelivered, SendingPersisted,
     ResultHonest, DownIsIdle, DeliveredNeverLost, CarriedOwn, CarriedOnce,
     OwnRow, Carries, CarryingLabels, Left, Idle, RequestRaises, At
<1>6. DeliveredNeverLost'
  BY <1>1, <1>2, <1>3 DEF IInv, TypeOK, DeliveredNeverLost, NotYetDelivered,
     SendingPersisted, ResultHonest, CarriedOwn, CarriedOnce, OwnRow,
     Carries, CarryingLabels, Left, Idle, RequestRaises, At
<1> QED BY <1>1, <1>4, <1>5, <1>6 DEF IInv

LEMMA ProviderDeliversInv ==
  ASSUME IInv, NEW t \in Threads, ProviderDelivers(t)
  PROVE  IInv'
<1>1. TypeOK'
  BY ProviderDeliversType
<1>3. /\ UNCHANGED <<row, thr, up>> /\ thr[t].pc = "sending"
      /\ delivered' = delivered \cup {thr[t].cur}
  BY DEF ProviderDelivers, At
<1>4. CarriedOwn' /\ CarriedOnce'
  BY <1>1, <1>3 DEF IInv, TypeOK, CarriedOwn, CarriedOnce, OwnRow, Carries,
     CarryingLabels, Idle
<1>5. NotYetDelivered' /\ SendingPersisted' /\ ResultHonest' /\ DownIsIdle'
  BY <1>1, <1>3 DEF IInv, TypeOK, NotYetDelivered, SendingPersisted,
     ResultHonest, DownIsIdle, DeliveredNeverLost, CarriedOwn, CarriedOnce,
     OwnRow, Carries, CarryingLabels, Idle
<1>6. DeliveredNeverLost'
  BY <1>1, <1>3 DEF IInv, TypeOK, DeliveredNeverLost, NotYetDelivered,
     SendingPersisted, ResultHonest, CarriedOwn, CarriedOnce, OwnRow,
     Carries, CarryingLabels, Idle
<1> QED BY <1>1, <1>4, <1>5, <1>6 DEF IInv

LEMMA ProviderReturnsInv ==
  ASSUME IInv, NEW t \in Threads, NEW r \in Results, ProviderReturns(t, r)
  PROVE  IInv'
<1>1. TypeOK'
  BY ProviderReturnsType
<1>3. /\ thr'[t].pc = "returned" /\ thr'[t].cur = thr[t].cur /\ thr'[t].res = r
      /\ \A u \in Threads \ {t} : thr'[u] = thr[u]
  BY DEF IInv, TypeOK, ProviderReturns, Locals
<1>4. /\ UNCHANGED <<row, up, delivered>> /\ thr[t].pc = "sending"
      /\ r \in {"transient", "rejected"} => thr[t].cur \notin delivered
  BY DEF ProviderReturns, At
<1>5. CarriedOwn' /\ CarriedOnce'
  BY <1>1, <1>3, <1>4 DEF IInv, TypeOK, CarriedOwn, CarriedOnce, OwnRow,
     Carries, CarryingLabels, Idle
<1>6. NotYetDelivered' /\ SendingPersisted' /\ ResultHonest' /\ DownIsIdle'
  BY <1>1, <1>3, <1>4 DEF IInv, TypeOK, NotYetDelivered, SendingPersisted,
     ResultHonest, DownIsIdle, DeliveredNeverLost, CarriedOwn, CarriedOnce,
     OwnRow, Carries, CarryingLabels, Idle
<1>7. DeliveredNeverLost'
  BY <1>1, <1>3, <1>4 DEF IInv, TypeOK, DeliveredNeverLost, NotYetDelivered,
     SendingPersisted, ResultHonest, CarriedOwn, CarriedOnce, OwnRow,
     Carries, CarryingLabels, Idle
<1> QED BY <1>1, <1>5, <1>6, <1>7 DEF IInv

LEMMA ResolveMarkSentInv ==
  ASSUME IInv, NEW a \in Ids, ResolveMarkSent(a)
  PROVE  IInv'
<1>1. TypeOK'
  BY ResolveMarkSentType
<1>2. \E code : MarkedOnly(a, "SENT", code)
  BY MarkEffect DEF IInv, TypeOK, ResolveMarkSent
<1>3. /\ UNCHANGED <<thr, up, delivered>>
      /\ row[a].status \in {"UNKNOWN", "RECOVERY_REQUIRED"}
  BY DEF ResolveMarkSent, Unresolved
<1>4. CarriedOwn' /\ CarriedOnce'
  BY <1>1, <1>2, <1>3 DEF IInv, TypeOK, CarriedOwn, CarriedOnce, OwnRow,
     Carries, CarryingLabels, MarkedOnly
<1>5. NotYetDelivered' /\ SendingPersisted' /\ ResultHonest' /\ DownIsIdle'
  BY <1>1, <1>2, <1>3 DEF IInv, TypeOK, NotYetDelivered, SendingPersisted,
     ResultHonest, DownIsIdle, DeliveredNeverLost, CarriedOwn, CarriedOnce,
     OwnRow, Carries, CarryingLabels, MarkedOnly
<1>6. DeliveredNeverLost'
  BY <1>1, <1>2, <1>3 DEF IInv, TypeOK, DeliveredNeverLost, NotYetDelivered,
     SendingPersisted, ResultHonest, CarriedOwn, CarriedOnce, OwnRow,
     Carries, CarryingLabels, MarkedOnly
<1> QED BY <1>1, <1>4, <1>5, <1>6 DEF IInv

LEMMA ResolveFailedInv ==
  ASSUME IInv, NEW a \in Ids,
         NEW code \in {"OPERATOR_RETRY_REQUESTED", "OPERATOR_CANCELLED"},
         ResolveFailed(a, code)
  PROVE  IInv'
<1>1. TypeOK'
  BY ResolveFailedType
<1>2. MarkedOnly(a, "FAILED", code)
  BY MarkEffect DEF IInv, TypeOK, ResolveFailed
<1>3. /\ UNCHANGED <<thr, up, delivered>>
      /\ row[a].status \in {"UNKNOWN", "RECOVERY_REQUIRED"}
  BY DEF ResolveFailed, Unresolved
<1>4. CarriedOwn' /\ CarriedOnce'
  BY <1>1, <1>2, <1>3 DEF IInv, TypeOK, CarriedOwn, CarriedOnce, OwnRow,
     Carries, CarryingLabels, MarkedOnly
<1>5. NotYetDelivered' /\ SendingPersisted' /\ ResultHonest' /\ DownIsIdle'
  BY <1>1, <1>2, <1>3 DEF IInv, TypeOK, NotYetDelivered, SendingPersisted,
     ResultHonest, DownIsIdle, DeliveredNeverLost, CarriedOwn, CarriedOnce,
     OwnRow, Carries, CarryingLabels, MarkedOnly
<1>6. DeliveredNeverLost'
  BY <1>1, <1>2, <1>3 DEF IInv, TypeOK, DeliveredNeverLost, NotYetDelivered,
     SendingPersisted, ResultHonest, CarriedOwn, CarriedOnce, OwnRow,
     Carries, CarryingLabels, MarkedOnly
<1> QED BY <1>1, <1>4, <1>5, <1>6 DEF IInv

LEMMA CrashInv ==
  ASSUME IInv, Crash
  PROVE  IInv'
<1>1. TypeOK'
  BY CrashType
<1>2. UNCHANGED <<row, delivered>> /\ \A t \in Threads : thr'[t] = Idle
  BY DEF Crash
<1>3. CarriedOwn' /\ CarriedOnce'
  BY <1>1, <1>2 DEF IInv, TypeOK, CarriedOwn, CarriedOnce, OwnRow, Carries,
     CarryingLabels, Idle
<1>4. NotYetDelivered' /\ SendingPersisted' /\ ResultHonest' /\ DownIsIdle'
  BY <1>1, <1>2 DEF IInv, TypeOK, NotYetDelivered, SendingPersisted,
     ResultHonest, DownIsIdle, DeliveredNeverLost, CarriedOwn, CarriedOnce,
     OwnRow, Carries, CarryingLabels, Idle
<1>5. DeliveredNeverLost'
  BY <1>1, <1>2 DEF IInv, TypeOK, DeliveredNeverLost, NotYetDelivered,
     SendingPersisted, ResultHonest, CarriedOwn, CarriedOnce, OwnRow,
     Carries, CarryingLabels, Idle
<1> QED BY <1>1, <1>3, <1>4, <1>5 DEF IInv

LEMMA RestartInv ==
  ASSUME IInv, Restart
  PROVE  IInv'
<1>1. TypeOK'
  BY RestartType
<1>2. UNCHANGED <<thr, delivered>> /\ ~up /\ up'
  BY DEF Restart
<1>3. \A a \in Ids : \/ row'[a] = row[a] /\ row[a].status # "PREPARED"
                     \/ row'[a].status = "RECOVERY_REQUIRED"
                     \/ row'[a].status = "FAILED" /\ row[a].status = "PREPARED"
  BY DEF IInv, TypeOK, Restart, Rows
<1>4. \A t \in Threads : thr[t] = Idle
  BY <1>2 DEF IInv, DownIsIdle
<1>5. CarriedOwn' /\ CarriedOnce'
  BY <1>1, <1>2, <1>3, <1>4 DEF IInv, TypeOK, CarriedOwn, CarriedOnce,
     OwnRow, Carries, CarryingLabels, Idle
<1>6. NotYetDelivered' /\ SendingPersisted' /\ ResultHonest' /\ DownIsIdle'
  BY <1>1, <1>2, <1>3, <1>4 DEF IInv, TypeOK, NotYetDelivered,
     SendingPersisted, ResultHonest, DownIsIdle, DeliveredNeverLost,
     CarriedOwn, CarriedOnce, OwnRow, Carries, CarryingLabels, Idle
<1>7. DeliveredNeverLost'
  BY <1>1, <1>2, <1>3, <1>4 DEF IInv, TypeOK, DeliveredNeverLost,
     NotYetDelivered, SendingPersisted, ResultHonest, CarriedOwn,
     CarriedOnce, OwnRow, Carries, CarryingLabels, Idle
<1> QED BY <1>1, <1>5, <1>6, <1>7 DEF IInv

LEMMA NextInv == IInv /\ [Next]_vars => IInv'
<1> SUFFICES ASSUME IInv, [Next]_vars PROVE IInv'
  OBVIOUS
<1>1. ASSUME NEW c \in Campaigns, LoopStep(c) PROVE IInv'
  BY <1>1, SelectInv, RecordPreSendFailureInv, ReserveInv, NotAdmittedInv,
     BeginSendingInv, ResolveInv, WorkerRaisesInv, HandlerScanInv,
     HandlerWriteInv, HandlerRaisesInv DEF LoopStep
<1>2. ASSUME NEW o \in Operators, OperatorStep(o) PROVE IInv'
  BY <1>2, RequestSendInv, CheckAndBuildIdempotencyInv, InsertPreparedInv,
     RequestResendInv, OperatorBeginSendingInv, OperatorNotAdmittedInv,
     OperatorAdmittedInv, FinalizeSendInv, RequestRaisesInv DEF OperatorStep
<1>3. ASSUME NEW t \in Threads, ProviderStep(t) PROVE IInv'
  BY <1>3, ProviderDeliversInv, ProviderReturnsInv DEF ProviderStep
<1>4. ASSUME NEW a \in Ids, RecoveryStep(a) PROVE IInv'
  BY <1>4, ResolveMarkSentInv, ResolveFailedInv DEF RecoveryStep
<1>5. CASE UNCHANGED vars
  BY <1>5 DEF vars, IInv, TypeOK, CarriedOwn, CarriedOnce, Carries, OwnRow,
     NotYetDelivered, SendingPersisted, ResultHonest, DownIsIdle, DeliveredNeverLost
<1> QED BY <1>1, <1>2, <1>3, <1>4, <1>5, CrashInv, RestartInv DEF Next

(***************************************************************************)
(* The theorems.                                                           *)
(***************************************************************************)

LEMMA Inductive == Spec => []IInv
<1>1. Init => IInv
  BY InitInv
<1>2. IInv /\ [Next]_vars => IInv'
  BY NextInv
<1> QED BY <1>1, <1>2, PTL DEF Spec

\* The dispatch state is well-typed in every reachable state: whatever the
\* interleaving of loop threads, requests, triage and crashes, a row keeps a
\* legal status, code and owner (outreach_attempt.py) and a thread's locals
\* are of the kind its next step reads.
THEOREM TypeCorrect == Spec => []TypeOK
<1>1. IInv => TypeOK
  BY DEF IInv
<1> QED BY <1>1, Inductive, PTL

\* The promise of the Pre-Send Transaction pattern (campaign_worker.py): a
\* message that reached its recipient is on record as SENDING or later, and
\* only an operator's triage or the loop's exception handler can have closed
\* it as FAILED, for any number of threads, endpoints, exceptions and crashes.
THEOREM DeliveredStaysOnRecord == Spec => []DeliveredNeverLost
<1>1. IInv => DeliveredNeverLost
  BY DEF IInv
<1> QED BY <1>1, Inductive, PTL

-----------------------------------------------------------------------------
(***************************************************************************)
(* Rows without exceptions: each row in flight has a thread, a SENT row is *)
(* final, the campaign's counter counts them, and, with a single campaign, *)
(* the endpoints go through the moves of EndpointLedger.                   *)
(*                                                                         *)
(* One lemma (CalmStep) says what any step does to rows, counters and      *)
(* threads, as one of six kinds of step; the invariants and the action     *)
(* properties follow from it without looking at an action again.           *)
(***************************************************************************)

(***************************************************************************)
(* The second layer of the inductive invariant.                            *)
(***************************************************************************)

\* Without exceptions the row a thread carries is in flight: PREPARED until
\* the thread persists SENDING, and SENDING until the thread settles it.
Calm ==
  \A t \in Threads :
    /\ thr[t].pc \notin {"raised", "handling"}
    /\ thr[t].pc = "prepared" => row[thr[t].cur].status = "PREPARED"
    /\ thr[t].pc \in {"waiting", "sending", "returned"} =>
         row[thr[t].cur].status = "SENDING"

Homed ==
  up => \A a \in Ids : row[a].status \in InFlight =>
          \E t \in Threads : Carries(t) /\ thr[t].cur = a

SentRows(c) == {a \in Ids : row[a].owner = c /\ row[a].status = "SENT"}

Counted ==
  \A c \in Campaigns :
    IsFiniteSet(SentRows(c)) /\ used[c] = Cardinality(SentRows(c))

(***************************************************************************)
(* The six kinds of step.                                                  *)
(***************************************************************************)
OthersStay(t) == \A u \in Threads \ {t} : thr'[u] = thr[u]

\* A thread moves on and no row changes; a loop that has just selected an
\* endpoint found it eligible.
Moved(t) ==
  /\ UNCHANGED <<row, used, up>> /\ OthersStay(t)
  /\ \/ /\ ~Carries(t)
        /\ thr'[t].pc \notin CarryingLabels \cup {"raised", "handling"}
     \/ /\ thr[t].pc \in {"waiting", "sending"} /\ thr'[t].pc \in {"sending", "returned"}
        /\ thr'[t].cur = thr[t].cur
  /\ t \in Campaigns /\ thr'[t].pc = "selected" => Eligible(thr'[t].goal)

\* A thread inserts a row: a loop for the endpoint it selected, an operator
\* for any; the row is PREPARED and carried, or a failed validation.
Inserted(t, a) ==
  /\ UNCHANGED <<used, up>> /\ OthersStay(t)
  /\ ~Carries(t) /\ row[a].status = "ABSENT"
  /\ \A b \in Ids \ {a} : row'[b] = row[b]
  /\ row'[a].owner \in Campaigns =>
       row'[a].owner = t /\ thr[t].pc = "selected" /\ row'[a].ep = thr[t].goal
  /\ \/ /\ row'[a].status = "PREPARED" /\ row'[a].code = "none"
        /\ thr'[t].pc = "prepared" /\ thr'[t].cur = a
     \/ row'[a].status = "FAILED" /\ row'[a].code = "transient" /\ thr'[t] = Idle

\* The row a gets a status and a code, its campaign's counter with it.
Written(a, status, code) ==
  /\ MarkedOnly(a, status, code)
  /\ code \in {"ERR_WORKER_EXCEPTION", "ERR_INTERRUPTED_BEFORE_DISPATCH"} => code = row[a].code
  /\ UNCHANGED up
  /\ used' = IF status = "SENT" /\ Automatic(a)
             THEN [used EXCEPT ![row[a].owner] = @ + 1] ELSE used

\* A thread writes the row it carries: SENDING, or its outcome and lets go.
WroteOwn(t, status, code) ==
  /\ OthersStay(t)
  /\ Carries(t) /\ row[thr[t].cur].status \in InFlight
  /\ Written(thr[t].cur, status, code)
  /\ \/ /\ status = "SENDING" /\ thr'[t].cur = thr[t].cur
        /\ thr'[t].pc \in {"waiting", "sending"}
     \/ status \in {"SENT", "FAILED", "UNKNOWN", "RECOVERY_REQUIRED"} /\ thr'[t] = Idle

\* An operator settles a row that nobody knows the outcome of.
Triaged(a, status, code) ==
  /\ UNCHANGED thr
  /\ row[a].status \in Unresolved
  /\ Written(a, status, code)
  /\ status \in {"SENT", "FAILED"}

Crashed == UNCHANGED <<row, used>> /\ ~up' /\ \A t \in Threads : thr'[t] = Idle

Audited ==
  /\ UNCHANGED <<used, thr>> /\ \A t \in Threads : thr[t] = Idle
  /\ \A a \in Ids :
       \/ row'[a] = row[a] /\ row[a].status \notin InFlight
       \/ /\ row'[a].owner = row[a].owner /\ row'[a].ep = row[a].ep
          /\ \/ /\ row[a].status = "SENDING"
                /\ row'[a].status = "RECOVERY_REQUIRED" /\ row'[a].code = "ambiguous"
             \/ /\ row[a].status = "PREPARED"
                /\ row'[a].status = "FAILED"
                /\ row'[a].code = "ERR_INTERRUPTED_BEFORE_DISPATCH"

StepKinds ==
  \/ \E t \in Threads : Moved(t)
  \/ \E t \in Threads, a \in Ids : Inserted(t, a)
  \/ \E t \in Threads, status \in Statuses, code \in Codes : WroteOwn(t, status, code)
  \/ \E a \in Ids, status \in Statuses, code \in Codes : Triaged(a, status, code)
  \/ Crashed
  \/ Audited

(***************************************************************************)
(* Which kind each action is.                                              *)
(***************************************************************************)
CalmPre == IInv /\ Calm /\ Homed /\ excs = 0 /\ excs' = 0

LEMMA ThreadIsOne ==
  /\ \A c \in Campaigns : c \in Threads /\ c \notin Operators
  /\ \A o \in Operators : o \in Threads /\ o \notin Campaigns
  BY ConstantsAssumption DEF ConstantsAssumption, Threads

LEMMA SelectKind ==
  ASSUME CalmPre, NEW c \in Campaigns, NEW e \in Endpoints, Select(c, e)
  PROVE  Moved(c)
  BY ThreadIsOne
     DEF CalmPre, IInv, TypeOK, Select, Moved, OthersStay, Carries, Carrying,
         CarryingLabels, At

LEMMA RecordPreSendFailureKind ==
  ASSUME CalmPre, NEW c \in Campaigns, NEW a \in Ids, RecordPreSendFailure(c, a)
  PROVE  Inserted(c, a)
  BY ThreadIsOne
     DEF CalmPre, IInv, TypeOK, RecordPreSendFailure, Inserted, OthersStay, Carries,
         CarryingLabels, At, End, Absent, NewRow

LEMMA ReserveKind ==
  ASSUME CalmPre, NEW c \in Campaigns, NEW a \in Ids, Reserve(c, a)
  PROVE  Moved(c) \/ Inserted(c, a)
<1>1. c \in Threads /\ thr[c].pc = "selected" /\ up
  BY ThreadIsOne DEF CalmPre, IInv, DownIsIdle, Idle, Reserve, At
<1>2. \A b \in Ids : ~(row[b].owner = c /\ row[b].status = "PREPARED")
  <2> SUFFICES ASSUME NEW b \in Ids, row[b].owner = c, row[b].status = "PREPARED"
               PROVE  FALSE
    OBVIOUS
  <2>1. PICK t \in Threads : Carries(t) /\ thr[t].cur = b
    BY <1>1 DEF CalmPre, Homed, InFlight
  <2>2. t = c
    BY <2>1, ConstantsAssumption
       DEF CalmPre, IInv, CarriedOwn, OwnRow, ConstantsAssumption, Threads
  <2> QED BY <1>1, <2>1, <2>2 DEF Carries, CarryingLabels
<1>3. CASE End(c) /\ UNCHANGED row
  BY <1>1, <1>3 DEF CalmPre, IInv, TypeOK, Reserve, Moved, OthersStay, Carries,
     CarryingLabels, End, Idle
<1>4. CASE ~(End(c) /\ UNCHANGED row)
  <2>1. /\ Absent(a)
        /\ \E salted : row' = [row EXCEPT ![a] =
                          NewRow(c, thr[c].goal, salted, "PREPARED", "none")]
        /\ thr' = [thr EXCEPT ![c] = Carrying(@.goal, a, "prepared")]
    BY <1>2, <1>4 DEF Reserve, BaseRows
  <2> QED BY <1>1, <2>1 DEF CalmPre, IInv, TypeOK, Reserve, Inserted, OthersStay,
     Carries, CarryingLabels, Carrying, Absent, NewRow
<1> QED BY <1>3, <1>4

LEMMA NotAdmittedKind ==
  ASSUME CalmPre, NEW c \in Campaigns, NotAdmitted(c)
  PROVE  WroteOwn(c, "FAILED", "transient")
<1>1. c \in Threads /\ thr[c].pc = "prepared" /\ Carries(c)
  BY ThreadIsOne DEF NotAdmitted, At, Carries, CarryingLabels
<1>2. thr[c].cur \in Ids /\ row[thr[c].cur].status \in InFlight
  BY <1>1 DEF CalmPre, IInv, CarriedOwn, OwnRow, Calm, InFlight
<1>3. MarkedOnly(thr[c].cur, "FAILED", "transient")
  BY <1>2, MarkEffect DEF CalmPre, IInv, TypeOK, NotAdmitted
<1> QED BY <1>1, <1>2, <1>3
  DEF CalmPre, IInv, TypeOK, NotAdmitted, WroteOwn, Written, OthersStay, End

LEMMA BeginSendingKind ==
  ASSUME CalmPre, NEW c \in Campaigns, BeginSending(c)
  PROVE  WroteOwn(c, "SENDING", "none")
<1>1. c \in Threads /\ thr[c].pc = "prepared" /\ Carries(c)
  BY ThreadIsOne DEF BeginSending, At, Carries, CarryingLabels
<1>2. thr[c].cur \in Ids /\ row[thr[c].cur].status \in InFlight
  BY <1>1 DEF CalmPre, IInv, CarriedOwn, OwnRow, Calm, InFlight
<1>3. MarkedOnly(thr[c].cur, "SENDING", "none") /\ MovedOnly(c, "sending")
  BY <1>1, <1>2, MarkEffect, GotoEffect DEF CalmPre, IInv, TypeOK, BeginSending
<1> QED BY <1>1, <1>2, <1>3
  DEF BeginSending, WroteOwn, Written, OthersStay, MovedOnly

LEMMA ResultKind ==
  ASSUME CalmPre, NEW t \in Threads, thr[t].pc = "returned", MarkResult(t)
  PROVE  \E status \in {"SENT", "FAILED", "UNKNOWN", "RECOVERY_REQUIRED"}, code \in Codes :
           /\ MarkedOnly(thr[t].cur, status, code)
           /\ code \in {"ERR_WORKER_EXCEPTION", "ERR_INTERRUPTED_BEFORE_DISPATCH"} =>
                code = row[thr[t].cur].code
           /\ status = "SENT" <=> thr[t].res = "sent"
<1>1. thr[t].cur \in Ids /\ thr[t].res \in Results /\ row[thr[t].cur].code \in Codes
  BY DEF CalmPre, IInv, TypeOK, Rows, CarriedOwn, OwnRow, Carries, CarryingLabels,
     ResultHonest
<1>2. row \in [Ids -> Rows]
  BY DEF CalmPre, IInv, TypeOK
<1>3. CASE thr[t].res = "sent"
  <2>1. PICK code \in Codes : /\ Mark(thr[t].cur, "SENT", code)
                              /\ code \in {"none", row[thr[t].cur].code}
    BY <1>1, <1>3 DEF MarkResult, Codes
  <2> QED BY <1>1, <1>2, <1>3, <2>1, MarkEffect
<1>4. CASE thr[t].res = "unknown"
  <2>1. Mark(thr[t].cur, "UNKNOWN", "ambiguous")
    BY <1>4 DEF MarkResult
  <2> QED BY <1>1, <1>2, <1>4, <2>1, MarkEffect DEF Codes
<1>5. CASE thr[t].res = "recovery"
  <2>1. Mark(thr[t].cur, "RECOVERY_REQUIRED", "ambiguous")
    BY <1>5 DEF MarkResult
  <2> QED BY <1>1, <1>2, <1>5, <2>1, MarkEffect DEF Codes
<1>6. CASE thr[t].res \in {"transient", "rejected"}
  <2>1. Mark(thr[t].cur, "FAILED", thr[t].res)
    BY <1>6 DEF MarkResult
  <2> QED BY <1>1, <1>2, <1>6, <2>1, MarkEffect DEF Codes
<1> QED BY <1>1, <1>3, <1>4, <1>5, <1>6 DEF Results

LEMMA ResolveKind ==
  ASSUME CalmPre, NEW c \in Campaigns, Resolve(c)
  PROVE  \E status \in Statuses, code \in Codes : WroteOwn(c, status, code)
<1>1. c \in Threads /\ thr[c].pc = "returned" /\ Carries(c)
  BY ThreadIsOne DEF Resolve, At, Carries, CarryingLabels
<1>2. /\ thr[c].cur \in Ids /\ row[thr[c].cur].status \in InFlight
      /\ row[thr[c].cur].owner = c
  BY <1>1 DEF CalmPre, IInv, CarriedOwn, OwnRow, Calm, InFlight
<1>3. PICK status \in {"SENT", "FAILED", "UNKNOWN", "RECOVERY_REQUIRED"}, code \in Codes :
           /\ MarkedOnly(thr[c].cur, status, code)
           /\ code \in {"ERR_WORKER_EXCEPTION", "ERR_INTERRUPTED_BEFORE_DISPATCH"} =>
                code = row[thr[c].cur].code
           /\ status = "SENT" <=> thr[c].res = "sent"
  BY <1>1, ResultKind DEF Resolve
<1>4. WroteOwn(c, status, code)
  BY <1>1, <1>2, <1>3
     DEF CalmPre, IInv, TypeOK, Resolve, WroteOwn, Written, OthersStay, End, Automatic
<1> QED BY <1>4 DEF Statuses

LEMMA HandlerKind ==
  ASSUME CalmPre, NEW c \in Campaigns,
         \/ WorkerRaises(c) \/ HandlerScan(c) \/ HandlerWrite(c) \/ HandlerRaises(c)
  PROVE  FALSE
  BY ThreadIsOne
     DEF CalmPre, Calm, WorkerRaises, HandlerScan, HandlerWrite, HandlerRaises, At

LEMMA RequestSendKind ==
  ASSUME CalmPre, NEW o \in Operators, NEW e \in Endpoints, RequestSend(o, e)
  PROVE  Moved(o)
  BY ThreadIsOne
     DEF CalmPre, IInv, TypeOK, RequestSend, Moved, OthersStay, Carries, Carrying,
         CarryingLabels, At

LEMMA CheckAndBuildIdempotencyKind ==
  ASSUME CalmPre, NEW o \in Operators, CheckAndBuildIdempotency(o)
  PROVE  Moved(o)
<1>1. thr[o].pc = "selected" /\ thr[o] \in Locals /\ o \in Threads
  BY ThreadIsOne DEF CalmPre, IInv, TypeOK, CheckAndBuildIdempotency, At
<1>2. End(o) \/ Goto(o, "keyed") \/ Goto(o, "salted")
  BY DEF CheckAndBuildIdempotency
<1>3. thr'[o].pc \in {"idle", "keyed", "salted"} /\ OthersStay(o)
  BY <1>1, <1>2 DEF CalmPre, IInv, TypeOK, End, Goto, Idle, Locals, OthersStay
<1> QED BY <1>1, <1>3, ThreadIsOne
  DEF CheckAndBuildIdempotency, Moved, Carries, CarryingLabels

LEMMA InsertPreparedKind ==
  ASSUME CalmPre, NEW o \in Operators, NEW a \in Ids, InsertPrepared(o, a)
  PROVE  Moved(o) \/ Inserted(o, a)
<1>1. o \in Threads /\ thr[o].pc \in {"keyed", "salted"} /\ Manual \notin Campaigns
  BY ThreadIsOne, ConstantsAssumption DEF ConstantsAssumption, InsertPrepared
<1>2. CASE At(o, "keyed") /\ BaseRows(Manual, thr[o].goal) # {}
  BY <1>1, <1>2, ThreadIsOne
     DEF CalmPre, IInv, TypeOK, InsertPrepared, Moved, OthersStay, Carries,
         CarryingLabels, End, Idle
<1>3. CASE ~(At(o, "keyed") /\ BaseRows(Manual, thr[o].goal) # {})
  BY <1>1, <1>3 DEF CalmPre, IInv, TypeOK, InsertPrepared, Inserted, OthersStay,
     Carries, CarryingLabels, Carrying, Absent, NewRow
<1> QED BY <1>2, <1>3

LEMMA RequestResendKind ==
  ASSUME CalmPre, NEW o \in Operators, NEW e \in Endpoints, NEW a \in Ids,
         RequestResend(o, e, a)
  PROVE  Inserted(o, a)
  BY ThreadIsOne, ConstantsAssumption
     DEF ConstantsAssumption, CalmPre, IInv, TypeOK, RequestResend, Inserted,
         OthersStay, Carries, CarryingLabels, Carrying, Absent, NewRow, At

LEMMA OperatorBeginSendingKind ==
  ASSUME CalmPre, NEW o \in Operators, OperatorBeginSending(o)
  PROVE  WroteOwn(o, "SENDING", "none")
<1>1. o \in Threads /\ thr[o].pc = "prepared" /\ Carries(o)
  BY ThreadIsOne DEF OperatorBeginSending, At, Carries, CarryingLabels
<1>2. thr[o].cur \in Ids /\ row[thr[o].cur].status \in InFlight
  BY <1>1 DEF CalmPre, IInv, CarriedOwn, OwnRow, Calm, InFlight
<1>3. MarkedOnly(thr[o].cur, "SENDING", "none") /\ MovedOnly(o, "waiting")
  BY <1>1, <1>2, MarkEffect, GotoEffect DEF CalmPre, IInv, TypeOK, OperatorBeginSending
<1> QED BY <1>1, <1>2, <1>3
  DEF OperatorBeginSending, WroteOwn, Written, OthersStay, MovedOnly

LEMMA OperatorNotAdmittedKind ==
  ASSUME CalmPre, NEW o \in Operators, OperatorNotAdmitted(o)
  PROVE  WroteOwn(o, "FAILED", "transient")
<1>1. o \in Threads /\ thr[o].pc = "waiting" /\ Carries(o)
  BY ThreadIsOne DEF OperatorNotAdmitted, At, Carries, CarryingLabels
<1>2. thr[o].cur \in Ids /\ row[thr[o].cur].status \in InFlight
  BY <1>1 DEF CalmPre, IInv, CarriedOwn, OwnRow, Calm, InFlight
<1>3. MarkedOnly(thr[o].cur, "FAILED", "transient")
  BY <1>2, MarkEffect DEF CalmPre, IInv, TypeOK, OperatorNotAdmitted
<1> QED BY <1>1, <1>2, <1>3
  DEF CalmPre, IInv, TypeOK, OperatorNotAdmitted, WroteOwn, Written, OthersStay, End

LEMMA OperatorAdmittedKind ==
  ASSUME CalmPre, NEW o \in Operators, OperatorAdmitted(o)
  PROVE  Moved(o)
<1>1. o \in Threads /\ thr[o].pc = "waiting"
  BY ThreadIsOne DEF OperatorAdmitted, At
<1>2. MovedOnly(o, "sending")
  BY <1>1, GotoEffect DEF CalmPre, IInv, TypeOK, OperatorAdmitted
<1> QED BY <1>1, <1>2 DEF OperatorAdmitted, Moved, OthersStay, MovedOnly

LEMMA FinalizeSendKind ==
  ASSUME CalmPre, NEW o \in Operators, FinalizeSend(o)
  PROVE  \E status \in Statuses, code \in Codes : WroteOwn(o, status, code)
<1>1. o \in Threads /\ thr[o].pc = "returned" /\ Carries(o)
  BY ThreadIsOne DEF FinalizeSend, At, Carries, CarryingLabels
<1>2. /\ thr[o].cur \in Ids /\ row[thr[o].cur].status \in InFlight
      /\ row[thr[o].cur].owner \notin Campaigns
  BY <1>1, ConstantsAssumption
     DEF ConstantsAssumption, CalmPre, IInv, CarriedOwn, OwnRow, Calm, InFlight
<1>3. PICK status \in {"SENT", "FAILED", "UNKNOWN", "RECOVERY_REQUIRED"}, code \in Codes :
           /\ MarkedOnly(thr[o].cur, status, code)
           /\ code \in {"ERR_WORKER_EXCEPTION", "ERR_INTERRUPTED_BEFORE_DISPATCH"} =>
                code = row[thr[o].cur].code
  BY <1>1, ResultKind DEF FinalizeSend
<1>4. WroteOwn(o, status, code)
  BY <1>1, <1>2, <1>3
     DEF CalmPre, IInv, TypeOK, FinalizeSend, WroteOwn, Written, OthersStay, End, Automatic
<1> QED BY <1>4 DEF Statuses

LEMMA RequestRaisesKind ==
  ASSUME CalmPre, NEW o \in Operators, RequestRaises(o)
  PROVE  FALSE
  BY DEF CalmPre, RequestRaises

LEMMA ProviderKind ==
  ASSUME CalmPre, NEW t \in Threads, ProviderStep(t)
  PROVE  Moved(t)
<1>1. CASE ProviderDelivers(t)
  BY <1>1 DEF ProviderDelivers, Moved, OthersStay, At
<1>2. CASE \E r \in Results : ProviderReturns(t, r)
  <2>1. thr'[t].pc = "returned" /\ thr'[t].cur = thr[t].cur /\ OthersStay(t)
    BY <1>2 DEF CalmPre, IInv, TypeOK, ProviderReturns, Locals, OthersStay
  <2> QED BY <1>2, <2>1 DEF ProviderReturns, Moved, At
<1> QED BY <1>1, <1>2 DEF ProviderStep

LEMMA RecoveryKind ==
  ASSUME CalmPre, NEW a \in Ids, RecoveryStep(a)
  PROVE  \E status \in Statuses, code \in Codes : Triaged(a, status, code)
<1>1. row \in [Ids -> Rows] /\ row[a].code \in Codes
  BY DEF CalmPre, IInv, TypeOK, Rows
<1>2. CASE ResolveMarkSent(a)
  <2>1. Triaged(a, "SENT", row[a].code)
    BY <1>1, <1>2, MarkEffect DEF ResolveMarkSent, Triaged, Written
  <2> QED BY <1>1, <2>1 DEF Statuses
<1>3. ASSUME NEW code \in {"OPERATOR_RETRY_REQUESTED", "OPERATOR_CANCELLED"},
             ResolveFailed(a, code)
      PROVE  \E status \in Statuses, k \in Codes : Triaged(a, status, k)
  <2>1. Triaged(a, "FAILED", code)
    BY <1>1, <1>3, MarkEffect DEF ResolveFailed, Triaged, Written
  <2> QED BY <2>1 DEF Statuses, Codes
<1> QED BY <1>2, <1>3 DEF RecoveryStep

LEMMA CrashKind ==
  ASSUME CalmPre, Crash
  PROVE  Crashed
  BY DEF Crash, Crashed

LEMMA RestartKind ==
  ASSUME CalmPre, Restart
  PROVE  Audited
<1>1. \A t \in Threads : thr[t] = Idle
  BY DEF CalmPre, IInv, DownIsIdle, Restart
<1> QED BY <1>1 DEF CalmPre, IInv, TypeOK, Rows, Restart, Audited, InFlight

LEMMA CalmStep ==
  ASSUME CalmPre, Next
  PROVE  StepKinds
<1>1. ASSUME NEW c \in Campaigns, LoopStep(c) PROVE StepKinds
  BY <1>1, ThreadIsOne, SelectKind, RecordPreSendFailureKind, ReserveKind, NotAdmittedKind,
     BeginSendingKind, ResolveKind, HandlerKind DEF LoopStep, StepKinds, Statuses, Codes
<1>2. ASSUME NEW o \in Operators, OperatorStep(o) PROVE StepKinds
  BY <1>2, ThreadIsOne, RequestSendKind, CheckAndBuildIdempotencyKind, InsertPreparedKind,
     RequestResendKind, OperatorBeginSendingKind, OperatorNotAdmittedKind,
     OperatorAdmittedKind, FinalizeSendKind, RequestRaisesKind
     DEF OperatorStep, StepKinds, Statuses, Codes
<1>3. ASSUME NEW t \in Threads, ProviderStep(t) PROVE StepKinds
  BY <1>3, ProviderKind DEF StepKinds
<1>4. ASSUME NEW a \in Ids, RecoveryStep(a) PROVE StepKinds
  BY <1>4, RecoveryKind DEF StepKinds
<1> QED BY <1>1, <1>2, <1>3, <1>4, CrashKind, RestartKind DEF Next, StepKinds

(***************************************************************************)
(* The second layer is kept by every kind of step.                         *)
(***************************************************************************)
CalmInv == excs = 0 => Calm /\ Homed /\ Counted

LEMMA ExceptionsGrow ==
  ASSUME Next
  PROVE  excs' = excs \/ (excs' = excs + 1 /\ UNCHANGED row)
  BY DEF Next, LoopStep, OperatorStep, ProviderStep, RecoveryStep, Select,
     RecordPreSendFailure, Reserve, NotAdmitted, BeginSending, Resolve, WorkerRaises,
     HandlerScan, HandlerWrite, HandlerRaises, RequestSend, CheckAndBuildIdempotency,
     InsertPrepared, RequestResend, OperatorBeginSending, OperatorNotAdmitted,
     OperatorAdmitted, FinalizeSend, RequestRaises, ProviderDelivers, ProviderReturns,
     ResolveMarkSent, ResolveFailed, Crash, Restart

LEMMA ExceptionsStay ==
  ASSUME IInv, Next, excs' = 0
  PROVE  excs = 0
<1>1. excs \in Nat /\ MaxExceptions \in Nat
  BY ConstantsAssumption DEF ConstantsAssumption, IInv, TypeOK
<1> QED BY <1>1, ExceptionsGrow

LEMMA CarriedInFlight ==
  ASSUME CalmPre, NEW t \in Threads, Carries(t)
  PROVE  thr[t].cur \in Ids /\ row[thr[t].cur].status \in InFlight
  BY DEF CalmPre, IInv, CarriedOwn, OwnRow, Carries, CarryingLabels, Calm, InFlight

LEMMA CalmKept ==
  ASSUME CalmPre, StepKinds
  PROVE  Calm'
<1>1. ASSUME NEW t \in Threads, Moved(t) PROVE Calm'
  BY <1>1 DEF CalmPre, Calm, Moved, OthersStay, CarryingLabels
<1>2. ASSUME NEW t \in Threads, NEW a \in Ids, Inserted(t, a) PROVE Calm'
  <2>1. \A u \in Threads : Carries(u) => thr[u].cur # a
    BY <1>2, CarriedInFlight DEF Inserted, InFlight
  <2> QED BY <1>2, <2>1, CarriedInFlight
    DEF CalmPre, Calm, Inserted, OthersStay, Carries, CarryingLabels, Idle
<1>3. ASSUME NEW t \in Threads, NEW status, NEW code, WroteOwn(t, status, code)
      PROVE  Calm'
  <2>1. \A u \in Threads \ {t} : Carries(u) => thr[u].cur # thr[t].cur
    BY <1>3 DEF CalmPre, IInv, CarriedOnce, WroteOwn
  <2> QED BY <1>3, <2>1, CarriedInFlight
    DEF CalmPre, Calm, WroteOwn, Written, MarkedOnly, OthersStay, Carries,
        CarryingLabels, Idle
<1>4. ASSUME NEW a \in Ids, NEW status, NEW code, Triaged(a, status, code) PROVE Calm'
  <2>1. \A u \in Threads : Carries(u) => thr[u].cur # a
    BY <1>4, CarriedInFlight DEF Triaged, InFlight, Unresolved
  <2> QED BY <1>4, <2>1, CarriedInFlight
    DEF CalmPre, Calm, Triaged, Written, MarkedOnly, Carries, CarryingLabels
<1>5. CASE Crashed \/ Audited
  BY <1>5 DEF Calm, Crashed, Audited, Idle
<1> QED BY <1>1, <1>2, <1>3, <1>4, <1>5 DEF StepKinds

LEMMA HomedKept ==
  ASSUME CalmPre, StepKinds
  PROVE  Homed'
<1> SUFFICES ASSUME up', NEW b \in Ids, row'[b].status \in InFlight
             PROVE  \E u \in Threads : Carries(u)' /\ thr'[u].cur = b
  BY DEF Homed
<1>1. up /\ row[b].status \in InFlight => \E u \in Threads : Carries(u) /\ thr[u].cur = b
  BY DEF CalmPre, Homed
<1>2. ASSUME NEW t \in Threads, Moved(t)
      PROVE  \E u \in Threads : Carries(u)' /\ thr'[u].cur = b
  BY <1>1, <1>2 DEF Moved, OthersStay, Carries, CarryingLabels
<1>3. ASSUME NEW t \in Threads, NEW a \in Ids, Inserted(t, a)
      PROVE  \E u \in Threads : Carries(u)' /\ thr'[u].cur = b
  <2>1. CASE b = a
    BY <1>3, <2>1 DEF Inserted, Carries, CarryingLabels, InFlight
  <2>2. CASE b # a
    BY <1>1, <1>3, <2>2 DEF Inserted, OthersStay, Carries
  <2> QED BY <2>1, <2>2
<1>4. ASSUME NEW t \in Threads, NEW status, NEW code, WroteOwn(t, status, code)
      PROVE  \E u \in Threads : Carries(u)' /\ thr'[u].cur = b
  <2>1. CASE b = thr[t].cur
    BY <1>4, <2>1 DEF WroteOwn, Written, MarkedOnly, Carries, CarryingLabels, InFlight
  <2>2. CASE b # thr[t].cur
    BY <1>1, <1>4, <2>2 DEF WroteOwn, Written, MarkedOnly, OthersStay, Carries
  <2> QED BY <2>1, <2>2
<1>5. ASSUME NEW a \in Ids, NEW status, NEW code, Triaged(a, status, code)
      PROVE  \E u \in Threads : Carries(u)' /\ thr'[u].cur = b
  BY <1>1, <1>5 DEF Triaged, Written, MarkedOnly, Carries, InFlight
<1>6. CASE Crashed \/ Audited
  BY <1>6 DEF Crashed, Audited, InFlight
<1> QED BY <1>2, <1>3, <1>4, <1>5, <1>6 DEF StepKinds

LEMMA SentStays ==
  ASSUME CalmPre, Next, NEW b \in Ids, row[b].status = "SENT"
  PROVE  row'[b] = row[b]
<1>1. ASSUME NEW t \in Threads, Moved(t) \/ Crashed PROVE row'[b] = row[b]
  BY <1>1 DEF Moved, Crashed
<1>2. ASSUME NEW t \in Threads, NEW a \in Ids, Inserted(t, a) PROVE row'[b] = row[b]
  BY <1>2 DEF Inserted
<1>3. ASSUME NEW t \in Threads, NEW status, NEW code, WroteOwn(t, status, code)
      PROVE  row'[b] = row[b]
  BY <1>3 DEF WroteOwn, Written, MarkedOnly, InFlight
<1>4. ASSUME NEW a \in Ids, NEW status, NEW code, Triaged(a, status, code)
      PROVE  row'[b] = row[b]
  BY <1>4 DEF Triaged, Written, MarkedOnly, Unresolved
<1>5. CASE Audited
  BY <1>5 DEF Audited
<1>6. CASE Crashed
  BY <1>6 DEF Crashed
<1> QED BY <1>1, <1>2, <1>3, <1>4, <1>5, <1>6, CalmStep DEF StepKinds

LEMMA WrittenCounted ==
  ASSUME IInv, Counted, NEW a \in Ids, NEW status, NEW code, Written(a, status, code),
         row[a].status # "SENT"
  PROVE  Counted'
<1> SUFFICES ASSUME NEW c \in Campaigns
             PROVE  IsFiniteSet(SentRows(c))' /\ used'[c] = Cardinality(SentRows(c)')
  BY DEF Counted
<1>1. /\ IsFiniteSet(SentRows(c)) /\ used[c] = Cardinality(SentRows(c))
      /\ a \notin SentRows(c) /\ used \in [Campaigns -> Nat]
  BY DEF IInv, TypeOK, Counted, SentRows
<1>2. CASE status = "SENT" /\ row[a].owner = c
  <2>1. SentRows(c)' = SentRows(c) \cup {a}
    BY <1>2 DEF Written, MarkedOnly, SentRows
  <2>2. used'[c] = used[c] + 1
    BY <1>1, <1>2 DEF Written, Automatic
  <2> QED BY <1>1, <2>1, <2>2, FS_AddElement
<1>3. CASE ~(status = "SENT" /\ row[a].owner = c)
  <2>1. SentRows(c)' = SentRows(c)
    BY <1>3 DEF Written, MarkedOnly, SentRows
  <2>2. used'[c] = used[c]
    BY <1>1, <1>3 DEF Written, Automatic
  <2> QED BY <1>1, <2>1, <2>2
<1> QED BY <1>2, <1>3

LEMMA CountedKept ==
  ASSUME CalmPre, Counted, StepKinds
  PROVE  Counted'
<1>1. ASSUME UNCHANGED used, \A c \in Campaigns : SentRows(c)' = SentRows(c) PROVE Counted'
  BY <1>1 DEF Counted
<1>2. ASSUME NEW t \in Threads, Moved(t) PROVE Counted'
  BY <1>1, <1>2 DEF Moved, SentRows
<1>3. ASSUME NEW t \in Threads, NEW a \in Ids, Inserted(t, a) PROVE Counted'
  BY <1>1, <1>3 DEF Inserted, SentRows
<1>4. ASSUME NEW t \in Threads, NEW status, NEW code, WroteOwn(t, status, code)
      PROVE  Counted'
  BY <1>4, CarriedInFlight, WrittenCounted DEF CalmPre, WroteOwn, InFlight
<1>5. ASSUME NEW a \in Ids, NEW status, NEW code, Triaged(a, status, code) PROVE Counted'
  BY <1>5, WrittenCounted DEF CalmPre, Triaged, Unresolved
<1>6. CASE Crashed
  BY <1>1, <1>6 DEF Crashed, SentRows
<1>7. CASE Audited
  BY <1>1, <1>7 DEF Audited, SentRows, InFlight
<1> QED BY <1>2, <1>3, <1>4, <1>5, <1>6, <1>7 DEF StepKinds

LEMMA CalmInit == Init => CalmInv
<1> SUFFICES ASSUME Init PROVE CalmInv
  OBVIOUS
<1>1. Calm /\ Homed
  BY DEF Init, Calm, Homed, Idle, NoRow, InFlight
<1>2. \A c \in Campaigns : SentRows(c) = {} /\ used[c] = 0
  BY DEF Init, SentRows, NoRow
<1> QED BY <1>1, <1>2, FS_EmptySet DEF CalmInv, Counted

LEMMA CalmNext == IInv /\ CalmInv /\ [Next]_vars => CalmInv'
<1> SUFFICES ASSUME IInv, CalmInv, [Next]_vars, excs' = 0 PROVE (Calm /\ Homed /\ Counted)'
  BY DEF CalmInv
<1>1. CASE UNCHANGED vars
  BY <1>1 DEF vars, CalmInv, Calm, Homed, Counted, SentRows, Carries
<1>2. CASE Next
  <2>1. CalmPre /\ Counted
    BY <1>2, ExceptionsStay DEF CalmInv, CalmPre
  <2> QED BY <1>2, <2>1, CalmStep, CalmKept, HomedKept, CountedKept
<1> QED BY <1>1, <1>2

LEMMA CalmInductive == Spec => []CalmInv
<1> QED BY CalmInit, CalmNext, Inductive, PTL DEF Spec

\* As long as no exception is raised, a PREPARED or SENDING row of a running
\* process belongs to a thread that still works on it: every early return of
\* campaign_worker.py and outreach_service.py settles the row it leaves, the
\* audit at start-up settles what a crash left, so no endpoint stays blocked.
THEOREM RowsHaveThreads == Spec => []NoOrphans
<1>1. CalmInv => NoOrphans
  BY DEF CalmInv, Homed, NoOrphans, Carries, CarryingLabels
<1> QED BY <1>1, CalmInductive, PTL

\* The counter that the quota is compared with (metadata.automatic_used) is
\* the number of the campaign's SENT rows, through worker outcomes, crashes
\* and the operators' triage, for any number of campaigns and rows.
THEOREM CounterCountsSent == Spec => []UsedMatchesSent
<1>1. CalmInv => UsedMatchesSent
  BY DEF CalmInv, Counted, SentRows, UsedMatchesSent
<1> QED BY <1>1, CalmInductive, PTL

\* No step of a worker, an operator, a crash or the audit changes a row that
\* is SENT, as long as no exception sent a loop to its handler: the saves of
\* stale objects in outreach_service.py never hit a settled row.
THEOREM SentRowsAreFinal == Spec => SentIsFinal
<1> DEFINE Kept == excs = 0 => \A a \in Ids : row[a].status = "SENT" => row'[a] = row[a]
<1>1. ASSUME IInv, CalmInv, [Next]_vars PROVE [Kept]_vars
  <2> SUFFICES ASSUME Next, excs = 0, NEW a \in Ids, row[a].status = "SENT"
               PROVE  row'[a] = row[a]
    BY <1>1
  <2>1. CASE excs' # excs
    BY <2>1, ExceptionsGrow
  <2>2. CASE excs' = excs
    <3>1. CalmPre
      BY <1>1, <2>2 DEF CalmPre, CalmInv
    <3> QED BY <3>1, SentStays
  <2> QED BY <2>1, <2>2
<1> QED BY <1>1, CalmInductive, Inductive, PTL DEF Spec, SentIsFinal

(***************************************************************************)
(* One campaign.  Its rows that count against an endpoint are those that   *)
(* selection looks at: in flight, unresolved, SENT or closed for good.     *)
(***************************************************************************)
OneCampaign == \A c, d \in Campaigns : c = d

NoExceptions == excs = 0

Counts(a) ==
  /\ Automatic(a)
  /\ \/ row[a].status \in Blocking \cup {"SENT"}
     \/ row[a].status = "FAILED" /\ row[a].code \in DefinitiveFailures

OneCounts ==
  \A a, b \in Ids : Counts(a) /\ Counts(b) /\ row[a].ep = row[b].ep => a = b

SelectedFree ==
  \A c \in Campaigns, a \in Ids :
    thr[c].pc = "selected" /\ Counts(a) => row[a].ep # thr[c].goal

HandlerWroteNone == \A a \in Ids : row[a].code # "ERR_WORKER_EXCEPTION"

Claims == OneCounts /\ SelectedFree /\ HandlerWroteNone

\* The row a of a step that inserts none: as it was, or the move of an
\* attempt in flight or unresolved.
RowMoves(a) ==
  \/ row'[a] = row[a]
  \/ /\ row'[a].owner = row[a].owner /\ row'[a].ep = row[a].ep
     /\ row[a].status \in Blocking
     /\ row'[a].status \in {"SENDING", "SENT", "FAILED", "UNKNOWN", "RECOVERY_REQUIRED"}
     /\ row'[a].status \in {"SENDING", "UNKNOWN", "RECOVERY_REQUIRED"} =>
          row[a].status \in InFlight
     /\ row'[a].code = "ERR_WORKER_EXCEPTION" => row[a].code = "ERR_WORKER_EXCEPTION"

RowStep ==
  \/ \A a \in Ids : RowMoves(a)
  \/ \E t \in Threads, a \in Ids : Inserted(t, a)

LEMMA RowStepOf ==
  ASSUME CalmPre, StepKinds
  PROVE  RowStep
<1>1. ASSUME NEW t \in Threads, Moved(t) PROVE RowStep
  BY <1>1 DEF Moved, RowStep, RowMoves
<1>2. ASSUME NEW t \in Threads, NEW status \in Statuses, NEW code \in Codes,
             WroteOwn(t, status, code)
      PROVE  RowStep
  BY <1>2 DEF WroteOwn, Written, MarkedOnly, RowStep, RowMoves, Blocking
<1>3. ASSUME NEW a \in Ids, NEW status \in Statuses, NEW code \in Codes,
             Triaged(a, status, code)
      PROVE  RowStep
  BY <1>3 DEF Triaged, Written, MarkedOnly, RowStep, RowMoves, Blocking
<1>4. CASE Crashed
  BY <1>4 DEF Crashed, RowStep, RowMoves
<1>5. CASE Audited
  BY <1>5 DEF Audited, RowStep, RowMoves, Blocking, InFlight
<1> QED BY <1>1, <1>2, <1>3, <1>4, <1>5 DEF StepKinds, RowStep

\* A row that counts after a step counted before, or was inserted by it.
LEMMA CountsBefore ==
  ASSUME NEW a \in Ids, RowMoves(a), Counts(a)'
  PROVE  Counts(a) /\ row'[a].ep = row[a].ep
  BY DEF RowMoves, Counts, Automatic, Blocking

LEMMA InsertedCounts ==
  ASSUME CalmPre, NEW t \in Threads, NEW a \in Ids, Inserted(t, a), Counts(a)'
  PROVE  /\ t \in Campaigns /\ thr[t].pc = "selected" /\ row'[a].ep = thr[t].goal
         /\ row'[a].status = "PREPARED" /\ thr'[t].pc = "prepared"
  BY DEF Inserted, Counts, Automatic, DefinitiveFailures, Blocking, InFlight, Unresolved

LEMMA OneCountsKept ==
  ASSUME OneCampaign, CalmPre, Claims, StepKinds
  PROVE  OneCounts'
<1>1. CASE \A a \in Ids : RowMoves(a)
  BY <1>1, CountsBefore DEF Claims, OneCounts
<1>2. ASSUME NEW t \in Threads, NEW x \in Ids, Inserted(t, x)
      PROVE  OneCounts'
  <2>1. \A a \in Ids \ {x} : /\ row'[a] = row[a]
                             /\ Counts(a)' => Counts(a)
    BY <1>2 DEF Inserted, Counts, Automatic
  <2>2. \A a \in Ids \ {x} : Counts(a)' /\ Counts(x)' => row'[a].ep # row'[x].ep
    BY <1>2, <2>1, InsertedCounts DEF Claims, SelectedFree
  <2> QED BY <2>1, <2>2 DEF Claims, OneCounts
<1> QED BY <1>1, <1>2, RowStepOf DEF RowStep

LEMMA EligibleIsFree ==
  ASSUME NEW e, Eligible(e), NEW a \in Ids, Counts(a)
  PROVE  row[a].ep # e
  BY DEF Eligible, Covered, PermanentlyFailed, LaneBlocked, Counts

LEMMA SelectedBefore ==
  ASSUME CalmPre, StepKinds, NEW c \in Campaigns, thr'[c].pc = "selected"
  PROVE  \/ thr'[c] = thr[c]
         \/ UNCHANGED row /\ Eligible(thr'[c].goal)
<1>0. c \in Threads
  BY DEF Threads
<1>1. ASSUME NEW t \in Threads, Moved(t)
      PROVE  thr'[c] = thr[c] \/ (UNCHANGED row /\ Eligible(thr'[c].goal))
  BY <1>0, <1>1 DEF Moved, OthersStay
<1>2. ASSUME NEW t \in Threads, NEW a \in Ids, Inserted(t, a) PROVE thr'[c] = thr[c]
  BY <1>0, <1>2 DEF Inserted, OthersStay, Idle
<1>3. ASSUME NEW t \in Threads, NEW status, NEW code, WroteOwn(t, status, code)
      PROVE  thr'[c] = thr[c]
  BY <1>0, <1>3 DEF WroteOwn, OthersStay, Idle
<1>4. ASSUME NEW a \in Ids, NEW status, NEW code, Triaged(a, status, code)
      PROVE  thr'[c] = thr[c]
  BY <1>4 DEF Triaged
<1>5. CASE Crashed \/ Audited
  BY <1>0, <1>5 DEF Crashed, Audited, Idle
<1> QED BY <1>1, <1>2, <1>3, <1>4, <1>5 DEF StepKinds

LEMMA SelectedFreeKept ==
  ASSUME OneCampaign, CalmPre, Claims, StepKinds
  PROVE  SelectedFree'
<1> SUFFICES ASSUME NEW c \in Campaigns, NEW a \in Ids, thr'[c].pc = "selected", Counts(a)'
             PROVE  row'[a].ep # thr'[c].goal
  BY DEF SelectedFree
<1>1. CASE UNCHANGED row /\ Eligible(thr'[c].goal)
  BY <1>1, EligibleIsFree DEF Counts, Automatic
<1>2. CASE thr'[c] = thr[c]
  <2>1. CASE \A b \in Ids : RowMoves(b)
    BY <1>2, <2>1, CountsBefore DEF Claims, SelectedFree
  <2>2. ASSUME NEW t \in Threads, NEW x \in Ids, Inserted(t, x)
        PROVE  row'[a].ep # thr'[c].goal
    <3>1. CASE a = x
      BY <2>2, <3>1, InsertedCounts DEF OneCampaign
    <3>2. CASE a # x
      BY <1>2, <2>2, <3>2 DEF Inserted, Claims, SelectedFree, Counts, Automatic
    <3> QED BY <3>1, <3>2
  <2> QED BY <2>1, <2>2, RowStepOf DEF RowStep
<1> QED BY <1>1, <1>2, SelectedBefore

LEMMA HandlerWroteNoneKept ==
  ASSUME CalmPre, Claims, StepKinds
  PROVE  HandlerWroteNone'
<1>1. CASE \A a \in Ids : RowMoves(a)
  BY <1>1 DEF RowMoves, Claims, HandlerWroteNone
<1>2. ASSUME NEW t \in Threads, NEW a \in Ids, Inserted(t, a) PROVE HandlerWroteNone'
  BY <1>2 DEF Inserted, Claims, HandlerWroteNone
<1> QED BY <1>1, <1>2, RowStepOf DEF RowStep

LEMMA ClaimsInit == Init => Claims
  BY DEF Init, NoRow, Idle, Claims, OneCounts, SelectedFree, HandlerWroteNone, Counts,
     Blocking, InFlight, Unresolved, Threads

LEMMA ClaimsNext ==
  ASSUME OneCampaign
  PROVE  IInv /\ CalmInv /\ Claims /\ NoExceptions /\ NoExceptions' /\ [Next]_vars => Claims'
<1> SUFFICES ASSUME IInv, CalmInv, Claims, NoExceptions, NoExceptions', [Next]_vars
             PROVE  Claims'
  OBVIOUS
<1>1. CASE UNCHANGED vars
  BY <1>1 DEF vars, Claims, OneCounts, SelectedFree, HandlerWroteNone, Counts, Automatic
<1>2. CASE Next
  <2>1. CalmPre
    BY DEF CalmInv, CalmPre, NoExceptions
  <2> QED BY <1>2, <2>1, CalmStep, OneCountsKept, SelectedFreeKept, HandlerWroteNoneKept
    DEF Claims
<1> QED BY <1>1, <1>2

LEMMA ClaimsInductive ==
  ASSUME OneCampaign
  PROVE  Spec /\ []NoExceptions => []Claims
<1>1. IInv /\ CalmInv /\ Claims /\ NoExceptions /\ NoExceptions' /\ [Next]_vars => Claims'
  BY ClaimsNext
<1> QED BY <1>1, ClaimsInit, Inductive, CalmInductive, PTL DEF Spec

\* "If a specific endpoint has a successful attempt, do not automatically
\* send to that endpoint again": with one campaign, any number of operators
\* and any crashes and triage, two automatic messages reach an endpoint only
\* when an operator handed one of them back for retry.  (Two campaigns that
\* select at the same time break it: run MCDispatch_race.)
THEOREM OneAutomaticDelivery ==
  ASSUME OneCampaign
  PROVE  Spec /\ []NoExceptions => []AutomaticAtMostOnce
<1>1. IInv /\ Claims => AutomaticAtMostOnce
  <2> SUFFICES ASSUME IInv, Claims PROVE AutomaticAtMostOnce
    OBVIOUS
  <2>1. \A a \in delivered :
          Automatic(a) /\ row[a].code # "OPERATOR_RETRY_REQUESTED" => a \in Ids /\ Counts(a)
    BY DEF IInv, TypeOK, DeliveredNeverLost, Claims, HandlerWroteNone, Counts, Rows, Statuses,
       Blocking, InFlight, Unresolved, DefinitiveFailures
  <2> QED BY <2>1 DEF Claims, OneCounts, AutomaticAtMostOnce
<1> QED BY <1>1, ClaimsInductive, Inductive, PTL

(***************************************************************************)
(* The refinement of EndpointLedger.                                       *)
(***************************************************************************)

\* What the ledger shows of an endpoint: the state of the row that counts.
Shows(e) ==
  /\ (\A a \in Ids : Counts(a) => row[a].ep # e) => LedgerOf(e) = "open"
  /\ \A a \in Ids : Counts(a) /\ row[a].ep = e =>
       /\ row[a].status = "SENT" => LedgerOf(e) = "reached"
       /\ row[a].status = "FAILED" => LedgerOf(e) = "closed"
       /\ row[a].status \in Unresolved => LedgerOf(e) = "ambiguous"
       /\ row[a].status \in InFlight => LedgerOf(e) = "claimed"

LEMMA LedgerShows == OneCounts => \A e \in Endpoints : Shows(e)
<1> SUFFICES ASSUME OneCounts, NEW e \in Endpoints PROVE Shows(e)
  OBVIOUS
<1>1. ASSUME \A a \in Ids : Counts(a) => row[a].ep # e PROVE LedgerOf(e) = "open"
  BY <1>1 DEF LedgerOf, Counts, Blocking
<1>2. ASSUME NEW a \in Ids, Counts(a), row[a].ep = e
      PROVE  /\ row[a].status = "SENT" => LedgerOf(e) = "reached"
             /\ row[a].status = "FAILED" => LedgerOf(e) = "closed"
             /\ row[a].status \in Unresolved => LedgerOf(e) = "ambiguous"
             /\ row[a].status \in InFlight => LedgerOf(e) = "claimed"
  <2>1. \A b \in Ids : Counts(b) /\ row[b].ep = e => b = a
    BY <1>2 DEF OneCounts
  <2> QED BY <1>2, <2>1 DEF LedgerOf, Counts, Blocking, InFlight, Unresolved
<1> QED BY <1>1, <1>2 DEF Shows

LEMMA LedgerShowsNext == (OneCounts => \A e \in Endpoints : Shows(e))'
  BY LedgerShows, PTL

LEMMA CountsStatus ==
  ASSUME NEW a, Counts(a)
  PROVE  row[a].status \in {"SENT", "FAILED"} \cup Unresolved \cup InFlight
  BY DEF Counts, Blocking

LEMMA LedgerMoves ==
  ASSUME OneCampaign, CalmPre, Claims, Claims', StepKinds, NEW e \in Endpoints
  PROVE  LedgerOf(e)' = LedgerOf(e) \/ LedgerOf(e)' \in Ledger!Moves[LedgerOf(e)]
<1>1. Shows(e) /\ Shows(e)'
  BY LedgerShows, LedgerShowsNext DEF Claims
<1>2. CASE \A a \in Ids : RowMoves(a)
  <2>1. ASSUME NEW a \in Ids, Counts(a)', row'[a].ep = e
        PROVE  LedgerOf(e)' = LedgerOf(e) \/ LedgerOf(e)' \in Ledger!Moves[LedgerOf(e)]
    <3>1. Counts(a) /\ row[a].ep = e
      BY <1>2, <2>1, CountsBefore
    <3> QED BY <1>1, <1>2, <2>1, <3>1
      DEF RowMoves, Shows, Counts, Blocking, InFlight, Unresolved, Ledger!Moves
  <2>2. ASSUME NEW a \in Ids, Counts(a), row[a].ep = e, ~(Counts(a)' /\ row'[a].ep = e),
               \A b \in Ids : Counts(b)' => row'[b].ep # e
        PROVE  LedgerOf(e)' \in Ledger!Moves[LedgerOf(e)]
    BY <1>1, <1>2, <2>2
      DEF RowMoves, Shows, Counts, Automatic, Blocking, InFlight, Unresolved, Ledger!Moves
  <2>3. ASSUME \A a \in Ids : Counts(a) => row[a].ep # e,
               \A b \in Ids : Counts(b)' => row'[b].ep # e
        PROVE  LedgerOf(e)' = LedgerOf(e)
    BY <1>1, <2>3 DEF Shows
  <2> QED BY <2>1, <2>2, <2>3
<1>3. ASSUME NEW t \in Threads, NEW x \in Ids, Inserted(t, x)
      PROVE  LedgerOf(e)' = LedgerOf(e) \/ LedgerOf(e)' \in Ledger!Moves[LedgerOf(e)]
  <2>1. \A a \in Ids \ {x} : row'[a] = row[a] /\ (Counts(a)' <=> Counts(a))
    BY <1>3 DEF Inserted, Counts, Automatic
  <2>2. ~Counts(x)
    BY <1>3 DEF Inserted, Counts, Blocking, InFlight, Unresolved
  <2>3. CASE Counts(x)' /\ row'[x].ep = e
    <3>1. \A a \in Ids : Counts(a) => row[a].ep # e
      BY <1>3, <2>3, InsertedCounts DEF Claims, SelectedFree
    <3>2. LedgerOf(e) = "open" /\ LedgerOf(e)' = "claimed"
      BY <1>1, <1>3, <2>3, <3>1, InsertedCounts DEF Shows, InFlight
    <3> QED BY <3>2 DEF Ledger!Moves
  <2>4. CASE ~(Counts(x)' /\ row'[x].ep = e)
    <3>1. CASE \A a \in Ids : Counts(a) => row[a].ep # e
      BY <1>1, <2>1, <2>4, <3>1 DEF Shows
    <3>2. ASSUME NEW a \in Ids, Counts(a), row[a].ep = e PROVE LedgerOf(e)' = LedgerOf(e)
      BY <1>1, <2>1, <2>2, <3>2, CountsStatus DEF Shows
    <3> QED BY <3>1, <3>2
  <2> QED BY <2>3, <2>4
<1> QED BY <1>2, <1>3, RowStepOf DEF RowStep

LEMMA LedgerIsState == \A e \in Endpoints : LedgerOf(e) \in Ledger!States
  BY DEF LedgerOf, Ledger!States

LEMMA LedgerIsStateNext == (\A e \in Endpoints : LedgerOf(e) \in Ledger!States)'
  BY LedgerIsState, PTL

LEMMA LedgerInit == Init => Ledger!Init
  BY DEF Init, NoRow, Ledger!Init, LedgerOf, InFlight, Unresolved

LEMMA LedgerNext ==
  ASSUME OneCampaign
  PROVE  /\ IInv /\ CalmInv /\ Claims /\ Claims' /\ NoExceptions /\ NoExceptions' /\ [Next]_vars
         => [Ledger!Next]_([e \in Endpoints |-> LedgerOf(e)])
<1> SUFFICES ASSUME IInv, CalmInv, Claims, Claims', NoExceptions, NoExceptions',
                    [Next]_vars
             PROVE  [Ledger!Next]_([e \in Endpoints |-> LedgerOf(e)])
  OBVIOUS
<1>1. CASE UNCHANGED vars
  BY <1>1 DEF vars, LedgerOf, Automatic
<1>2. CASE Next
  <2>1. CalmPre /\ StepKinds
    BY <1>2, CalmStep DEF CalmInv, CalmPre, NoExceptions
  <2>2. \A e \in Endpoints : LedgerOf(e)' \in Ledger!States
    BY LedgerIsStateNext DEF Ledger!States
  <2> QED BY <2>1, <2>2, LedgerMoves DEF Ledger!Next
<1> QED BY <1>1, <1>2

\* The rows of one campaign implement the ledger of EndpointLedger: through
\* selection, retries, crashes, the audit and triage an endpoint is claimed
\* by one attempt at a time, is parked while the outcome is unknown and is
\* never claimed again once reached or closed (campaign_scheduler.py,
\* eligibility policies, crash_recovery.py together).
THEOREM DispatchKeepsLedger ==
  ASSUME OneCampaign
  PROVE  Spec /\ []NoExceptions => KeepsLedger
<1>1. /\ IInv /\ CalmInv /\ Claims /\ Claims' /\ NoExceptions /\ NoExceptions' /\ [Next]_vars
      => [Ledger!Next]_([e \in Endpoints |-> LedgerOf(e)])
  BY LedgerNext
<1>2. Spec /\ []NoExceptions => []Claims
  BY ClaimsInductive
<1> QED BY <1>1, <1>2, LedgerInit, Inductive, CalmInductive, PTL
  DEF Spec, KeepsLedger, Ledger!Spec

=============================================================================
