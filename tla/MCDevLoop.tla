------------------------------ MODULE MCDevLoop ------------------------------
(***************************************************************************)
(* Small instances of DevLoop for TLC: a package with a chart it composes, *)
(* and a file in a directory the author adds.                              *)
(***************************************************************************)
EXTENDS DevLoopProperties

CONSTANTS package, inputs, chart, added, root, charts, later, deploy, manifests

Place == [f \in Files |->
            CASE f = chart -> charts
              [] f = added -> later
              [] OTHER -> root]
=============================================================================
