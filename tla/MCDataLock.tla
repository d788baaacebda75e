----------------------------- MODULE MCDataLock -----------------------------
(* Instances of DataLock: a core of an older build that may die, two that
   start from the same shell (coreA with a directory that does not exist yet),
   one under the escape hatch; one record may be unreadable.              *)
EXTENDS DataLock, TLC

CONSTANTS coreA, coreB, coreC, hatched, legacy, d1, d2, d3

MCAnchors == (coreA :> <<d1, d2>>) @@ (coreB :> <<d1, d3>>) @@ (hatched :> <<d3, d1>>) @@ (legacy :> <<d1>>)
MCRecords == (d1 :> {legacy}) @@ (d3 :> {NoOne, Corrupt})

\* One directory that exists and one that does not: coreA takes the new one
\* and is refused the other. The instance for OneWriterEverywhere (README, 4).
FreshAnchors == (coreA :> <<d2, d1>>) @@ (coreB :> <<d2>>) @@ (coreC :> <<d2>>) @@ (legacy :> <<d1>>)
=============================================================================
