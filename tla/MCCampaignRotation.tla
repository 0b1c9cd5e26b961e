------------------------- MODULE MCCampaignRotation -------------------------
(* Instances of CampaignRotation for TLC: two contacts of one company, on    *)
(* either channel, one of another company, and three senders.                *)
EXTENDS CampaignRotation

MCContactList == <<"a1", "a2", "b1">>
MCCompany     == [a1 |-> "a", a2 |-> "a", b1 |-> "b"]
MCSources     ==
  [a1 |-> {<<"a1phone">>, <<"a1phone", "a1mail">>}, a2 |-> {<<"a2mail">>}, b1 |-> {<<"b1phone">>}]
MCSenderList  == <<"w1", "w2", "m1">>
MCChannelOf   ==
  [z \in {"a1phone", "a1mail", "a2mail", "b1phone", "w1", "w2", "m1"} |->
     IF z \in {"a1mail", "a2mail", "m1"} THEN "EMAIL" ELSE "WHATSAPP"]

MCFirst == [a1 |-> <<"a1phone">>, a2 |-> <<"a2mail">>, b1 |-> <<"b1phone">>]
Known(S) == [c \in S |-> MCFirst[c]]
Everyone == ToSet(MCContactList)

\* Two senders of one channel, and a contact that is still to be imported; a
\* single sender, whose session may end, and an address that is suppressed; a
\* sender of either channel, and a campaign that was created with a quota; and
\* a contact alone, so that an import comes after the campaign has ended.  A
\* campaign may be started with the count 0, which ends it at once.
MCAtFirst ==
  {[known |-> Known({"a1", "b1"}), tombs |-> {}, active |-> {"w1", "w2"}, quota |-> {}],
   [known |-> Known(Everyone), tombs |-> {"b1phone"}, active |-> {"w1"}, quota |-> {}],
   [known |-> Known(Everyone), tombs |-> {}, active |-> {"w1", "m1"}, quota |-> {2}],
   [known |-> Known({"b1"}), tombs |-> {}, active |-> {"w1"}, quota |-> {}]}
=============================================================================
