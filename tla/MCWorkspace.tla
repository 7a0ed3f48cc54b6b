---------------------------- MODULE MCWorkspace ----------------------------
(***************************************************************************)
(* Small instances of Workspace for TLC.                                   *)
(***************************************************************************)
EXTENDS WorkspaceProperties

CONSTANTS c1, c2

(* Every version of every name is served from the start: the first as c1,  *)
(* the others as c2.                                                       *)
ServedFromStart == [n \in Names |-> [v \in Versions |-> IF v = 1 THEN c1 ELSE c2]]

(* Of content published anew, a fork, a vendored tree, a second locked     *)
(* entry, a second kind of source, a signature and a file left torn, a     *)
(* behaviour combines any two.                                             *)
Combined ==
    LET kinds == {e.kind : e \in lock.pkgs}
                 \cup {manifest.deps[n].kind : n \in Declared(manifest.deps)}
        parts == <<Cardinality(served) > NumNames * NumVersions,
                   \E n \in Names : fork[n] # Nil,
                   \E n \in Names : vendor[n] # Nil,
                   Cardinality(lock.pkgs) > 1,
                   Cardinality(kinds) > 1,
                   \E e \in lock.pkgs : e.sig # NoDigest,
                   AllIdle /\ "torn" \in {manifest.st, lock.st}>>
    IN  Cardinality({i \in DOMAIN parts : parts[i]}) <= 2
=============================================================================
