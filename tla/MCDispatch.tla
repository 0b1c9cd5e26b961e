----------------------------- MODULE MCDispatch -----------------------------
(* Instances of Dispatch for TLC.  Endpoints share one lane (two phone      *)
(* numbers of a contact) or have a lane each (two contacts).                *)
EXTENDS Dispatch, TLC

CONSTANTS SharedLane, QuotaEach

MCLaneOf == [e \in Endpoints |-> IF SharedLane THEN "lane" ELSE e]
MCQuota  == [c \in Campaigns |-> QuotaEach]

MCSymmetry == Permutations(Ids) \cup Permutations(Operators) \cup Permutations(Campaigns)
=============================================================================
