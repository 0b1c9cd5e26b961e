------------------------- MODULE MCCampaignControl --------------------------
(* Instances of CampaignControl for TLC: two requests, and loops enough for *)
(* one that is alive, one that died registered and one to replace it.       *)
EXTENDS CampaignControl, TLC

MCSymmetry == Permutations(Loops) \cup Permutations(Requests)
=============================================================================
