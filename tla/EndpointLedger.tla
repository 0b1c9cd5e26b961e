--------------------------- MODULE EndpointLedger ---------------------------
(***************************************************************************)
(* What automatic outreach promises of each endpoint, whatever threads,    *)
(* crashes and triage do underneath: an endpoint is claimed by one attempt *)
(* at a time, an attempt whose outcome is not known parks it until an      *)
(* operator decides, and once reached or closed it is never claimed again. *)
(***************************************************************************)
CONSTANT Endpoints

VARIABLE ledger

States == {"open", "claimed", "ambiguous", "reached", "closed"}

Moves == [open      |-> {"claimed"},
          claimed   |-> {"open", "ambiguous", "reached", "closed"},
          ambiguous |-> {"open", "reached", "closed"},
          reached   |-> {},
          closed    |-> {}]

Init == ledger = [e \in Endpoints |-> "open"]

\* A step moves any number of endpoints (a restart settles them all), each
\* along one legal move.
Next ==
  /\ ledger' \in [Endpoints -> States]
  /\ \A e \in Endpoints :
       ledger'[e] = ledger[e] \/ ledger'[e] \in Moves[ledger[e]]

Spec == Init /\ [][Next]_ledger
=============================================================================
