------------------------------- MODULE MCRisk -------------------------------
(* Two accounts on one venue, a venue nobody is bound to; an entry and a close
   of the first account.                                                    *)
EXTENDS Risk

CONSTANTS a1, a2, v1, v2, entry, close

MCBound == [v \in Venues |-> IF v = v1 THEN Accounts ELSE {}]
MCAccountOf == [i \in Intents |-> a1]
=============================================================================
