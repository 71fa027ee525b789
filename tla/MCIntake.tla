------------------------------ MODULE MCIntake ------------------------------
(* Three calls of one partner: retries with and without the same body,     *)
(* bulk calls, legacy requests and files, in the mixtures that meet.       *)
EXTENDS IntakeProperties, TLC

CONSTANTS c1, c2, c3, k1, k2, d1, d2

Ask(kind, key, body) == [kind |-> kind, key |-> key, body |-> body]
One(d, n) == <<[domain |-> d, seats |-> n]>>
Pair(n, d, m) == One(d1, n) \o One(d, m)
Three(a, b, c) == (c1 :> a) @@ (c2 :> b) @@ (c3 :> c)

MCScenarios ==
  LET single == Ask("single", k1, One(d1, 2))
      bulk == Ask("bulk", k2, Pair(9, d2, 2))
      legacy == Ask("legacy", k2, One(d1, 1)) IN
    {Three(single, single, Ask("single", k1, One(d2, 1))),
     Three(single, single, Ask("bulk", k1, Pair(1, d2, 9))),
     Three(Ask("bulk", NoKey, Pair(1, d1, 2)), Ask("single", NoKey, One(d1, 9)), legacy),
     Three(single, legacy, Ask("csv", NoKey, One(d1, 1))),
     Three(bulk, bulk, legacy),
     Three(legacy, legacy, Ask("bulk", k2, One(d2, 2)))}
=============================================================================
