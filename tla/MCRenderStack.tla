---------------------------- MODULE MCRenderStack ----------------------------
(***************************************************************************)
(* Small instances of RenderStack for TLC.                                 *)
(***************************************************************************)
EXTENDS RenderStack

CONSTANTS app, web, base, lib

Composed == {app, web, base}

(* base's package.k is a link to a file of lib.                            *)
LinkedFile == [p \in Composed |-> IF p = base THEN lib ELSE p]

Edge(p, q, kind) == [from |-> p, package |-> q, kind |-> kind]

(* A package that needs one that needs it back, and one that needs itself; *)
(* and packages that share a third.                                        *)
ComposedGraphs ==
    { {Edge(app, web, "path"), Edge(web, app, "remote"),
       Edge(app, base, "remote"), Edge(base, base, "path"), Edge(base, web, "remote")},
      {Edge(app, web, "path"), Edge(app, base, "path"), Edge(web, base, "fork"),
       Edge(web, web, "path"), Edge(base, app, "fork")} }

(* Only the first has remote dependencies, only the second forks: one flag *)
(* stands for both, and for --strict, which needs time to compose.  A cap  *)
(* of no depth stops every composition, whatever the time.                 *)
CommandLines ==
    {o \in [timeout : {Unlimited, 0, 4}, depth : {0, 3},
            offline : BOOLEAN, gate : BOOLEAN, strict : BOOLEAN] :
        /\ o.offline = o.gate /\ o.strict = o.gate
        /\ o.gate => o.timeout = 4 /\ o.depth = 3
        /\ o.depth = 0 => o.timeout = Unlimited}
=============================================================================
