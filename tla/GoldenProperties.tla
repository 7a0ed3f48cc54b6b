--------------------------- MODULE GoldenProperties ---------------------------
(***************************************************************************)
(* What Golden is checked for.                                             *)
(***************************************************************************)
EXTENDS Golden

Bodies == [of : DOMAIN Cases, version : Versions] \cup {Torn}

(* Every field of the snapshots and runners has its type, and a report     *)
(* (GoldenReport.cases) has one outcome for each case that is over.        *)
TypeOK ==
    /\ version \in Versions
    /\ \A f \in snaps : f.body \in Bodies
    /\ \A r \in Runners :
         /\ run[r].pc \in {"idle", "next", "wipe", "copy", "write", "list", "compare", "done"}
         /\ run[r].case \in 0..Len(Cases)
         /\ run[r].left \subseteq run[r].out
         /\ \A i \in DOMAIN run[r].results : run[r].results[i] \in {"pass", "updated", "fail"}
         /\ run[r].pc \in {"next", "done"} => Len(run[r].results) = run[r].case
    /\ edits \in 0..MaxEdits /\ runs \in 0..MaxRuns

Baseline == \A i \in DOMAIN Cases : Tree(SnapshotDir(i)) = Render(i, version)

Updated(r) == run[r].pc = "done" /\ CombinedStatus(run[r]) = "updated"

(* "updated" is the truth: each case's snapshot is its render, so that     *)
(* --golden passes next (run_golden counts them as passed, the test        *)
(* golden_update_then_verify_passes).  So it is after two updates at once, *)
(* both reported as such, however their removals and copies interleaved.   *)
UpdatedIsBaseline ==
    (\E r \in Runners : Updated(r) /\ run[r].alone) \/ (\A r \in Runners : Updated(r) /\ run[r].fresh)
        => Baseline

(* A case passes only on a snapshot that is its render to the last file,   *)
(* not on what a killed update left of one.                                *)
PassIsExact ==
    [][\A r \in Runners :
         LET n == Len(run[r].results) IN
         (/\ Len(run'[r].results) = n + 1 /\ run'[r].results[n + 1] = "pass"
          /\ run[r].alone)
         => Tree(SnapshotDir(run[r].case)) = run[r].out]_vars

(* A baseline is touched only once the render that replaces it is there,   *)
(* and nothing but an update touches one ("never touch ... until we're     *)
(* ready", run_one_golden).                                                *)
BaselineUntilReady ==
    [][snaps' # snaps =>
         \E r \in Runners : /\ run[r].update /\ run[r].out # {}
                            /\ \A f \in (snaps \ snaps') \cup (snaps' \ snaps) :
                                 IsStrictPrefix(SnapshotDir(run[r].case), f.path)]_vars
=============================================================================
