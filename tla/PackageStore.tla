---------------------------- MODULE PackageStore ----------------------------
(***************************************************************************)
(* What a content-addressed cache of packages promises: a package is in it *)
(* entirely or not at all, it stays as it is, and a process is handed only *)
(* packages that are in it.                                                *)
(***************************************************************************)

CONSTANTS
    Procs,   \* processes that fetch
    Packages \* what can be fetched

VARIABLES
    store, \* the packages in the cache
    held   \* what each process was handed by its last fetch

vars == <<store, held>>

Init == store = {} /\ held = [p \in Procs |-> {}]

Put(s) == store' = store \cup {s} /\ UNCHANGED held

Hand(p, s) == s \in store /\ held' = [held EXCEPT ![p] = {s}] /\ UNCHANGED store

Release(p) == held' = [held EXCEPT ![p] = {}] /\ UNCHANGED store

Next ==
    \/ \E s \in Packages : Put(s)
    \/ \E p \in Procs : Release(p) \/ \E s \in Packages : Hand(p, s)

Spec == Init /\ [][Next]_vars
=============================================================================
