------------------------------- MODULE MCGolden -------------------------------
(***************************************************************************)
(* Small instances of Golden for TLC.                                      *)
(***************************************************************************)
EXTENDS GoldenProperties

CONSTANTS web, inputs, yaml, default, v1, v2, v3

Root == <<>>
Packages == <<Root, <<web>>>>
File(stem, ext) == [stem |-> stem, ext |-> ext]

(* A package with inputs.yaml, and one without inputs.                     *)
OneEach == [dir \in {Root, <<web>>} |->
              IF dir = Root THEN <<File(inputs, yaml)>> ELSE <<>>]

(* v2 has one manifest less, v3 does not render.                           *)
Manifests == [v \in {v1, v2, v3} |->
                CASE v = v1 -> {"000-a", "001-b"} [] v = v2 -> {"000-a"} [] v = v3 -> {}]
=============================================================================
