-------------------------------- MODULE Golden --------------------------------
(***************************************************************************)
(* akuapkg test: assertion tests, then one golden case for each package.k  *)
(* and each inputs file beside it, compared with or written to a directory *)
(* of its own under snapshots/.  An update removes the old snapshot and    *)
(* copies the render over file by file; it may be killed in between, and   *)
(* two commands may run in one workspace.                                  *)
(***************************************************************************)
EXTENDS Naturals, Sequences, SequencesExt

CONSTANTS
    Runners,    \* processes that run the verb
    PackageDirs,\* directories with a package.k, in the order of the walk
    InputsOf,   \* their inputs files, in order of name: [stem, ext]
    Versions,   \* of the packages
    Resources,  \* names of the manifests of each; {} if it does not render
    Asserts,    \* versions with which the assertion tests pass
    Default,    \* the directory name "default"
    Torn,       \* half of a file
    None,
    MaxEdits,   \* bound: edits
    MaxRuns     \* bound: commands started

ASSUME GoldenAssumption ==
    /\ DOMAIN InputsOf = {PackageDirs[i] : i \in DOMAIN PackageDirs}
    /\ PackageDirs \in Seq(DOMAIN InputsOf)
    /\ \A dir \in DOMAIN InputsOf :
         dir \in Seq(Range(dir)) /\ InputsOf[dir] \in Seq(Range(InputsOf[dir]))
    /\ DOMAIN Resources = Versions
    /\ Asserts \subseteq Versions
    /\ MaxEdits \in Nat /\ MaxRuns \in Nat

VARIABLES
    version, \* the packages and tests as the author has them
    snaps,   \* the files under snapshots/: [path, body, by], by whom created
    run,     \* the runners
    edits, runs \* counters

vars == <<version, snaps, run, edits, runs>>

-----------------------------------------------------------------------------
(* Cases and their directories                                             *)

(* A package with no inputs file is one case, with empty inputs.           *)
CasesOf(dir) ==
    IF InputsOf[dir] = <<>> THEN <<[pkg |-> dir, inputs |-> None]>>
    ELSE [i \in DOMAIN InputsOf[dir] |-> [pkg |-> dir, inputs |-> InputsOf[dir][i]]]

Cases == FlattenSeq([i \in DOMAIN PackageDirs |-> CasesOf(PackageDirs[i])])

(* inputs_stem: the name without its last extension.                       *)
Stem(inputs) == IF inputs = None THEN Default ELSE inputs.stem

SnapshotDir(i) == Append(Cases[i].pkg, Stem(Cases[i].inputs))

(* The files of a tree below dir, by their path from there.                *)
Tree(dir) ==
    {[path |-> SubSeq(f.path, Len(dir) + 1, Len(f.path)), body |-> f.body] :
        f \in {g \in snaps : IsStrictPrefix(dir, g.path)}}

(* What the case renders at version v.                                     *)
Render(i, v) ==
    {[path |-> <<name>>, body |-> [of |-> i, version |-> v]] : name \in Resources[v]}
Renders(v) == Resources[v] # {}

Names(tree) == {f.path : f \in tree}

(* dir_diff::diff, before it reads what is in both.                        *)
DirDiff(before, after) ==
    [added |-> Names(after) \ Names(before), removed |-> Names(before) \ Names(after)]

-----------------------------------------------------------------------------
(* fresh: no edit since the run began; alone: no other update either       *)
(* (history).                                                              *)
NoRun == [pc |-> "idle", update |-> FALSE, asserts |-> "none", case |-> 0,
          out |-> {}, left |-> {}, open |-> None, results |-> <<>>,
          fresh |-> FALSE, alone |-> FALSE]

Init ==
    /\ version \in Versions
    /\ snaps = {}
    /\ run = [r \in Runners |-> NoRun]
    /\ edits = 0 /\ runs = 0

Alone(r) == \A q \in Runners \ {r} : run[q].pc \in {"idle", "done"}

Edit ==
    /\ edits < MaxEdits
    /\ edits' = edits + 1
    /\ \E v \in Versions \ {version} : version' = v
    /\ run' = [r \in Runners |-> [run[r] EXCEPT !.fresh = FALSE, !.alone = FALSE]]
    /\ UNCHANGED <<snaps, runs>>

(* The assertion tests, evaluated first.                                   *)
Start(r, update) ==
    /\ run[r].pc \in {"idle", "done"}
    /\ runs < MaxRuns
    /\ runs' = runs + 1
    /\ run' = [q \in Runners |->
         IF q = r
         THEN [NoRun EXCEPT !.pc = "next", !.update = update, !.fresh = TRUE, !.alone = Alone(r),
                            !.asserts = IF version \in Asserts THEN "ok" ELSE "fail"]
         ELSE [run[q] EXCEPT !.alone = @ /\ ~update]]
    /\ UNCHANGED <<version, snaps, edits>>

(* A verdict for the case at hand.                                         *)
Verdict(r, status) ==
    run' = [run EXCEPT ![r] = [run[r] EXCEPT !.pc = "next", !.results = Append(@, status),
                                             !.out = {}, !.left = {}]]

(* Mutant: the old snapshot goes before the package is rendered.           *)
RenderCaseLate(r) ==
    /\ run[r].pc = "next" /\ run[r].case < Len(Cases)
    /\ LET i == run[r].case + 1
           dir == SnapshotDir(i) IN
       /\ snaps' = IF run[r].update THEN {f \in snaps : ~IsStrictPrefix(dir, f.path)} ELSE snaps
       /\ run' = [run EXCEPT ![r] =
             IF Renders(version)
             THEN [run[r] EXCEPT !.case = i, !.pc = IF run[r].update THEN "copy" ELSE "list",
                                 !.out = Render(i, version), !.left = Render(i, version)]
             ELSE [run[r] EXCEPT !.case = i, !.results = Append(@, "fail")]]
    /\ UNCHANGED <<version, edits, runs>>

(* Mutant: a package that does not render is passed over.                  *)
RenderCaseOrSkip(r) ==
    /\ run[r].pc = "next" /\ run[r].case < Len(Cases)
    /\ LET i == run[r].case + 1 IN
       run' = [run EXCEPT ![r] =
         IF Renders(version)
         THEN [run[r] EXCEPT !.case = i, !.pc = IF run[r].update THEN "wipe" ELSE "list",
                             !.out = Render(i, version)]
         ELSE [run[r] EXCEPT !.case = i]]
    /\ UNCHANGED <<version, snaps, edits, runs>>

(* Into a temporary directory; a package that does not render fails the    *)
(* case.                                                                   *)
RenderCase(r) ==
    /\ run[r].pc = "next" /\ run[r].case < Len(Cases)
    /\ LET i == run[r].case + 1 IN
       run' = [run EXCEPT ![r] =
         IF Renders(version)
         THEN [run[r] EXCEPT !.case = i, !.pc = IF run[r].update THEN "wipe" ELSE "list",
                             !.out = Render(i, version)]
         ELSE [run[r] EXCEPT !.case = i, !.results = Append(@, "fail")]]
    /\ UNCHANGED <<version, snaps, edits, runs>>

-----------------------------------------------------------------------------
(* --update-snapshots                                                      *)

Below(r) == {f \in snaps : IsStrictPrefix(SnapshotDir(run[r].case), f.path)}

(* remove_dir_all, a file at a time.                                       *)
Wipe(r) ==
    /\ run[r].pc = "wipe"
    /\ \E f \in Below(r) : snaps' = snaps \ {f}
    /\ UNCHANGED <<version, run, edits, runs>>

(* The directory is not empty when it is to go: another command writes.    *)
WipeFails(r) ==
    /\ run[r].pc = "wipe"
    /\ Below(r) # {} /\ ~Alone(r)
    /\ Verdict(r, "fail")
    /\ UNCHANGED <<version, snaps, edits, runs>>

(* Mutant: the copy goes over what is there.                               *)
WipedAlready(r) ==
    /\ run[r].pc = "wipe"
    /\ run' = [run EXCEPT ![r] = [run[r] EXCEPT !.pc = "copy", !.left = run[r].out]]
    /\ UNCHANGED <<version, snaps, edits, runs>>

Wiped(r) ==
    /\ run[r].pc = "wipe" /\ Below(r) = {}
    /\ run' = [run EXCEPT ![r] = [run[r] EXCEPT !.pc = "copy", !.left = run[r].out]]
    /\ UNCHANGED <<version, snaps, edits, runs>>

NextFile(r) == CHOOSE f \in run[r].left : TRUE
Target(r) == SnapshotDir(run[r].case) \o NextFile(r).path
Put(path, body, by) ==
    {g \in snaps : g.path # path} \cup {[path |-> path, body |-> body, by |-> by]}

(* std::fs::copy of one file: opened and cut to nothing, then written.     *)
Create(r) ==
    /\ run[r].pc = "copy" /\ run[r].left # {}
    /\ \E by \in Runners :
         /\ IF Target(r) \in Names(snaps)
            THEN \E g \in snaps : g.path = Target(r) /\ by = g.by
            ELSE by = r
         /\ snaps' = Put(Target(r), Torn, by)
         /\ run' = [run EXCEPT ![r] = [run[r] EXCEPT !.pc = "write", !.open = by]]
    /\ UNCHANGED <<version, edits, runs>>

(* The bytes are lost if the file has been removed meanwhile.              *)
Write(r) ==
    /\ run[r].pc = "write"
    /\ snaps' = IF \E g \in snaps : g.path = Target(r) /\ g.by = run[r].open
                THEN Put(Target(r), NextFile(r).body, run[r].open) ELSE snaps
    /\ run' = [run EXCEPT ![r] = [run[r] EXCEPT !.pc = "copy", !.open = None,
                                                 !.left = @ \ {NextFile(r)}]]
    /\ UNCHANGED <<version, edits, runs>>

Copied(r) ==
    /\ run[r].pc = "copy" /\ run[r].left = {}
    /\ Verdict(r, "updated")
    /\ UNCHANGED <<version, snaps, edits, runs>>

-----------------------------------------------------------------------------
(* The comparison                                                          *)

(* Mutant: files the render no longer has are let pass.                    *)
ListRendered(r) ==
    /\ run[r].pc = "list"
    /\ LET tree == Tree(SnapshotDir(run[r].case)) IN
       IF DirDiff(tree, run[r].out).added = {}
       THEN run' = [run EXCEPT ![r] = [run[r] EXCEPT !.pc = "compare", !.left = run[r].out]]
       ELSE Verdict(r, "fail")
    /\ UNCHANGED <<version, snaps, edits, runs>>

(* dir_diff lists both trees, and then reads what both have.  A directory  *)
(* that is not there is a failure too.                                     *)
List(r) ==
    /\ run[r].pc = "list"
    /\ LET diff == DirDiff(Tree(SnapshotDir(run[r].case)), run[r].out) IN
       IF diff.added = {} /\ diff.removed = {}
       THEN run' = [run EXCEPT ![r] = [run[r] EXCEPT !.pc = "compare", !.left = run[r].out]]
       ELSE Verdict(r, "fail")
    /\ UNCHANGED <<version, snaps, edits, runs>>

(* One file; if it is gone by now the comparison is an error.              *)
Compare(r) ==
    /\ run[r].pc = "compare" /\ run[r].left # {}
    /\ IF \E g \in snaps : g.path = Target(r) /\ g.body = NextFile(r).body
       THEN run' = [run EXCEPT ![r] = [run[r] EXCEPT !.left = @ \ {NextFile(r)}]]
       ELSE Verdict(r, "fail")
    /\ UNCHANGED <<version, snaps, edits, runs>>

Passed(r) ==
    /\ run[r].pc = "compare" /\ run[r].left = {}
    /\ Verdict(r, "pass")
    /\ UNCHANGED <<version, snaps, edits, runs>>

-----------------------------------------------------------------------------
Failed(j) == j.asserts = "fail" \/ \E i \in DOMAIN j.results : j.results[i] = "fail"

(* combined_status; there is a test and a case at least.                   *)
CombinedStatus(j) ==
    IF Failed(j) THEN "fail" ELSE IF j.update THEN "updated" ELSE "ok"

Finish(r) ==
    /\ run[r].pc = "next" /\ run[r].case = Len(Cases)
    /\ run' = [run EXCEPT ![r] = [run[r] EXCEPT !.pc = "done"]]
    /\ UNCHANGED <<version, snaps, edits, runs>>

(* The command is killed.                                                  *)
Kill(r) ==
    /\ run[r].pc \notin {"idle", "done"}
    /\ run' = [run EXCEPT ![r] = NoRun]
    /\ UNCHANGED <<version, snaps, edits, runs>>

Step(r) ==
    \/ RenderCase(r)
    \/ Wipe(r) \/ WipeFails(r) \/ Wiped(r)
    \/ Create(r) \/ Write(r) \/ Copied(r)
    \/ List(r) \/ Compare(r) \/ Passed(r)
    \/ Finish(r)

Next ==
    \/ Edit
    \/ \E r \in Runners :
         (\E update \in BOOLEAN : Start(r, update)) \/ Step(r) \/ Kill(r)

Spec == Init /\ [][Next]_vars
=============================================================================
