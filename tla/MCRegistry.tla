----------------------------- MODULE MCRegistry -----------------------------
(***************************************************************************)
(* Small instances of Registry for TLC.                                    *)
(***************************************************************************)
EXTENDS RegistryProperties, FiniteSets, TLC

CONSTANTS p1, p2, r1, t1, s1, l1, l2, m1, v1, v2, k1

BinaryDef == p1 :> v1 @@ p2 :> v2
CheckoutDef ==
    LET at(l) == [src |-> s1, lock |-> l, stamp |-> m1] IN p1 :> at(l1) @@ p2 :> at(l2)
ReadableDef == Requests \ {"config"}
KeyOfDef  == p1 :> k1 @@ p2 :> None

(* Of the two publishers, the reader, the archive on disk and the faults,  *)
(* a behaviour combines any two.                                           *)
Parts ==
    <<job[p1] # NoJob, job[p2] # NoJob, \E r \in Readers : reader[r] # NoRead,
      disk.tar # None, faults > 0 \/ ~account, edits > 0>>
Combined ==
    /\ \A i, j, k \in DOMAIN Parts : i < j /\ j < k => ~(Parts[i] /\ Parts[j] /\ Parts[k])
    /\ Cardinality(put) <= 2

=============================================================================
