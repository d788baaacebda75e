----------------------------- MODULE WriteGate -----------------------------
(***************************************************************************)
(* What the data-directory gate promises (data_lock.rs, module comment):   *)
(* a core starts to write all of its directories at once, and never beside *)
(* another core that did not ask for sharing either.                       *)
(***************************************************************************)
EXTENDS FiniteSets

CONSTANTS
  Procs,   \* cores
  Dirs,    \* the directories the gate answers for
  Uses,    \* per core: the directories its logs are in
  Hatch,   \* the cores started with --allow-shared-data
  First    \* the cores that write already

VARIABLE writing \* the cores that may append

Exclusive(p, q) == p # q /\ {p, q} \cap Hatch = {} /\ Uses[p] \cap Uses[q] \cap Dirs # {}

Init == writing = First

Enter(p) ==
  /\ p \notin writing
  /\ \A q \in writing : ~Exclusive(p, q)
  /\ writing' = writing \cup {p}

Leave(p) == p \in writing /\ writing' = writing \ {p}

Next == \E p \in Procs : Enter(p) \/ Leave(p)

Spec == Init /\ [][Next]_writing
=============================================================================
