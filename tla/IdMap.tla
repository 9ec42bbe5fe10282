-------------------------------- MODULE IdMap --------------------------------
(***************************************************************************)
(* What a sparse container promises: a partial function from ids to data.  *)
(***************************************************************************)
CONSTANTS Ids, Data

VARIABLE map

Init == map = [i \in {} |-> {}]

\* An id that is not in use gets a datum.
Add(i, d) ==
    /\ i \notin DOMAIN map
    /\ map' = [j \in DOMAIN map \cup {i} |-> IF j = i THEN d ELSE map[j]]

Remove(i) ==
    /\ i \in DOMAIN map
    /\ map' = [j \in DOMAIN map \ {i} |-> map[j]]

Next == \E i \in Ids : Remove(i) \/ \E d \in Data : Add(i, d)

Spec == Init /\ [][Next]_map
=============================================================================
