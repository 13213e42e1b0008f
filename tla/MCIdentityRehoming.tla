------------------------- MODULE MCIdentityRehoming -------------------------
(* Small instances of IdentityRehoming. *)
EXTENDS IdentityRehoming, TLC

CONSTANTS A, B, C, q1, q2, q3, q4, k1, k2, k3, k4

TwoHosts == {A, B}
ThreeHosts == {A, B, C}
\* q2 and q4 are thresholds of the same keys.
Quorums == {q1, q2, q3, q4}
Keys == q1 :> {k1} @@ q2 :> {k2, k3} @@ q3 :> {k4} @@ q4 :> {k2, k3}
ThreeQuorums == {q1, q2, q3}

\* In one behaviour the identity either gets other keys, while leases are out, or only
\* another threshold, there and back.
Plain == \A h \in Held : \A n \in DOMAIN held[h].log : held[h].log[n].rec # q4
Threshold == leases = {} /\ \A h \in Held : \A n \in DOMAIN held[h].log : q3 \notin {held[h].log[n].op, held[h].log[n].rec}
MCNext == Next /\ (Plain \/ Threshold)'
MCSpec == Init /\ [][MCNext]_vars
=============================================================================
