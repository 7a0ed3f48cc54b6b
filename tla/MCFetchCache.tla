---------------------------- MODULE MCFetchCache ----------------------------
(***************************************************************************)
(* Small instances of FetchCache for TLC.                                  *)
(***************************************************************************)
EXTENDS FetchCache, TLC

CONSTANTS p1, p2, p3, blob, stuck, commit, chart, swept

(* Slots do not interact: every behaviour uses only one.                   *)
Fetched(p) == pc[p] # "idle" \/ result[p] # "none"
OneSlot ==
    /\ \A p, q \in Procs : Fetched(p) /\ Fetched(q) => want[p] = want[q]
    /\ \A p \in Procs, s \in Slots : Fetched(p) /\ slot[s].there => want[p] = s

Symmetry == Permutations({p1, p2, p3})
=============================================================================
