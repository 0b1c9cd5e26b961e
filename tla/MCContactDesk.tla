--------------------------- MODULE MCContactDesk ----------------------------
(* Instances of ContactDesk for TLC: a contact in each of two companies, two  *)
(* free ids, and files that move, share, repeat and re-spell addresses.       *)
EXTENDS ContactDesk

CONSTANTS k1, k2, k3, k4, x, y, xLtd, p, q, n, e

MCCompanyOf == (x :> x) @@ (y :> y) @@ (xLtd :> x)

Row(name, phones, emails) == [name |-> name, phones |-> phones, emails |-> emails]

\* A known number with a new one before it and another contact's e-mail; one
\* new number under two companies; a repeated key and a row without address.
MCFiles == {<<Row(x, <<n, p>>, <<e>>)>>, <<Row(xLtd, <<n>>, <<>>), Row(y, <<n>>, <<>>)>>,
            <<Row(x, <<n>>, <<>>), Row(x, <<n>>, <<e>>), Row(y, <<>>, <<>>)>>}

\* One contact that is interested, one that has opted out, and two free ids.
MCImported ==
  LET new == (k1 :> Fresh(Row(x, <<p>>, <<>>))) @@ (k2 :> Fresh(Row(y, <<q>>, <<e>>)))
               @@ (k3 :> NoContact) @@ (k4 :> NoContact)
  IN  {[new EXCEPT ![k1].outcome = "INTERESTED", ![k1].interview = "PENDING", ![k1].since = 0,
             ![k2].outcome = "NOT_INTERESTED", ![k2].dnc = TRUE]}

MCSymmetry == Permutations(Requests) \cup Permutations({k3, k4})

\* A contact with two numbers, and the file it was imported from.
TwoNumbers == Row(xLtd, <<p, q>>, <<>>)
MCTwoNumbers == {<<TwoNumbers>>}
MCOneContact == {(k1 :> Fresh(TwoNumbers)) @@ (k2 :> NoContact)}
=============================================================================
