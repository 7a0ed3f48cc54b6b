------------------------- MODULE WorkspacePinProofs -------------------------
(***************************************************************************)
(* What the pins of akua.lock mean, for every number of names, versions    *)
(* and processes.                                                          *)
(***************************************************************************)
EXTENDS WorkspaceProofs

-----------------------------------------------------------------------------
(* A step of process p, field by field.                                    *)

Others(p) == \A q \in Procs : q # p => job'[q] = job[q]

SameContext(p) ==
    /\ job'[p].verb = job[p].verb /\ job'[p].arg = job[p].arg
    /\ job'[p].flag = job[p].flag /\ job'[p].deps = job[p].deps
    /\ job'[p].result = job[p].result /\ job'[p].at = job[p].at

SameWork(p) ==
    /\ job'[p].pkgs = job[p].pkgs /\ job'[p].todo = job[p].todo /\ job'[p].res = job[p].res

Blank(j) == j.pkgs = {} /\ j.todo = {} /\ \A n \in Names : j.res[n] = NoRes

LEMMA EndFields ==
    ASSUME TypeInv, NEW p \in Procs, NEW r, NEW n, NEW v, Finish(p, r) \/ FinishAt(p, r, n, v)
    PROVE  /\ Others(p) /\ Blank(job'[p]) /\ job'[p].phase = "idle"
           /\ job'[p].verb = job[p].verb /\ job'[p].result = r
           /\ \A m \in Names : job'[p].deps[m] = NoDep
           /\ Finish(p, r) => job'[p].arg = job[p].arg
           /\ ~Finish(p, r) => job'[p].arg = n /\ job'[p].at = v
<1>1. CASE Finish(p, r)
  <2>1. job'[p] = [Idle EXCEPT !.verb = job[p].verb, !.arg = job[p].arg, !.result = r]
    BY <1>1, JobAt DEF TypeInv, Finish
  <2>2. Others(p)
    BY <1>1, JobAt DEF TypeInv, Finish, Others
  <2>. QED
    BY <1>1, <2>1, <2>2 DEF Blank, Idle
<1>2. CASE ~Finish(p, r)
  <2>0. FinishAt(p, r, n, v)
    BY <1>2
  <2>1. job'[p] = [Idle EXCEPT !.verb = job[p].verb, !.arg = n, !.result = r, !.at = v]
    BY <2>0, JobAt DEF TypeInv, FinishAt
  <2>2. Others(p)
    BY <2>0, JobAt DEF TypeInv, FinishAt, Others
  <2>. QED
    BY <1>2, <2>1, <2>2 DEF Blank, Idle
<1>. QED
  BY <1>1, <1>2

LEMMA StartFields ==
    ASSUME TypeInv, NEW p \in Procs, NEW verb, NEW arg, NEW flag, NEW phase, NEW deps,
           Start(p, verb, arg, flag, phase, deps)
    PROVE  /\ Others(p) /\ Blank(job'[p]) /\ job'[p].phase = phase
           /\ job'[p].verb = verb /\ job'[p].arg = arg /\ job'[p].flag = flag
           /\ job'[p].deps = deps /\ job'[p].result = "none"
BY JobAt DEF TypeInv, Start, Others, Blank, Idle

LEMMA GotoFields ==
    ASSUME TypeInv, NEW p \in Procs, NEW phase, Goto(p, phase)
    PROVE  /\ Others(p) /\ SameContext(p) /\ SameWork(p)
           /\ job'[p].phase = phase
BY JobAt DEF TypeInv, Goto, Others, SameContext, SameWork, Job

LEMMA AcceptFields ==
    ASSUME TypeInv, NEW p \in Procs, NEW n \in Names, NEW r, Accept(p, n, r)
    PROVE  /\ Others(p) /\ SameContext(p) /\ job'[p].phase = job[p].phase
           /\ job'[p].pkgs = job[p].pkgs /\ job'[p].todo = job[p].todo \ {n}
           /\ job'[p].res[n] = r
           /\ \A m \in Names : m # n => job'[p].res[m] = job[p].res[m]
<1>1. job' = [job EXCEPT ![p] = [job[p] EXCEPT !.todo = @ \ {n}, !.res[n] = r]]
  BY JobAt DEF Accept, TypeInv
<1>2. job'[p] = [job[p] EXCEPT !.todo = job[p].todo \ {n}, !.res = [job[p].res EXCEPT ![n] = r]]
  BY <1>1, JobAt DEF TypeInv, Job
<1>3. Others(p)
  BY <1>1, JobAt DEF TypeInv, Others
<1>4. job[p].res \in [Names -> Res] /\ job[p] \in Job
  BY JobAt DEF TypeInv, Job
<1>5. /\ SameContext(p) /\ job'[p].phase = job[p].phase
      /\ job'[p].pkgs = job[p].pkgs /\ job'[p].todo = job[p].todo \ {n}
      /\ job'[p].res = [job[p].res EXCEPT ![n] = r]
  BY <1>2, <1>4 DEF Job, SameContext
<1>. QED
  BY <1>3, <1>4, <1>5

LEMMA LoadFields ==
    ASSUME TypeInv, NEW p \in Procs, NEW pkgs,
           job' = [job EXCEPT ![p].phase = "ltrunc", ![p].pkgs = pkgs]
    PROVE  /\ Others(p) /\ SameContext(p) /\ job'[p].phase = "ltrunc"
           /\ job'[p].pkgs = pkgs /\ job'[p].todo = job[p].todo
           /\ job'[p].res = job[p].res
BY JobAt DEF TypeInv, Others, SameContext, Job

LEMMA ReadFields ==
    ASSUME TypeInv, NEW p \in Procs, ReadLockForResolve(p)
    PROVE  /\ Others(p) /\ SameContext(p) /\ job'[p].phase = "resolve"
           /\ job'[p].pkgs = LockedPkgs /\ job'[p].todo = Declared(job[p].deps)
           /\ job'[p].res = job[p].res
BY JobAt DEF TypeInv, ReadLockForResolve, Others, SameContext, Job

LEMMA FetchFields ==
    ASSUME TypeInv, NEW p \in Procs, VendorFetch(p), VendorSource(p).st = "ok"
    PROVE  LET n == job[p].arg
               got == VendorSource(p)
           IN  /\ Others(p) /\ SameContext(p)
               /\ job'[p].phase = IF vendor[n] = got.of THEN "vlock"
                                  ELSE IF vendor[n] # Nil THEN "vremove" ELSE "vcopy"
               /\ job'[p].pkgs = job[p].pkgs /\ job'[p].todo = job[p].todo
               /\ job'[p].res[n] = Resolved(job[p].deps[n], "vendor", got.pin, got.of)
               /\ \A m \in Names : m # n => job'[p].res[m] = job[p].res[m]
               /\ n \in Names
<1>. DEFINE n == job[p].arg
            got == VendorSource(p)
            next == IF vendor[n] = got.of THEN "vlock"
                    ELSE IF vendor[n] # Nil THEN "vremove" ELSE "vcopy"
            r == Resolved(job[p].deps[n], "vendor", got.pin, got.of)
<1>0. n \in Names /\ job[p] \in Job /\ job[p].res \in [Names -> Res]
  BY JobAt DEF VendorFetch, At, TypeInv, WorkInv, WorkOf, VendorPhases, Declared, Job
<1>1. job' = [job EXCEPT ![p].phase = next, ![p].res[n] = r]
  BY DEF VendorFetch
<1>. HIDE DEF next, r, got
<1>2. Others(p) /\ job'[p] = [job[p] EXCEPT !.phase = next, !.res = [job[p].res EXCEPT ![n] = r]]
  BY <1>1, JobAt DEF TypeInv, Others, Job
<1>3. /\ SameContext(p) /\ job'[p].phase = next
      /\ job'[p].pkgs = job[p].pkgs /\ job'[p].todo = job[p].todo
      /\ job'[p].res = [job[p].res EXCEPT ![n] = r]
  BY <1>0, <1>2 DEF Job, SameContext
<1>. QED
  BY <1>0, <1>2, <1>3 DEF next, r, got

(* Everything that can happen to one process in one step.                  *)
Edges == {<<"mtrunc", "mwrite">>, <<"mwrite", "readlock">>, <<"ltrunc", "lwrite">>,
          <<"vremove", "vcopy">>, <<"vcopy", "vcopying">>, <<"vcopying", "vlock">>}

Moving(p) ==
    \/ TruncateManifest(p) \/ WriteManifest(p) \/ TruncateLock(p)
    \/ VendorRemoveOld(p) \/ VendorCopyStart(p) \/ VendorCopyEnd(p)

Ending(p) ==
    \/ ReadLockEnds(p) \/ FinishRender(p) \/ FinishCheck(p) \/ RejectImport(p)
    \/ WriteLock(p) \/ VendorUnreachable(p) \/ Crash(p)
    \/ VendorFetch(p) /\ VendorSource(p).st # "ok"
    \/ VendorLock(p) /\ lock.st = "torn"
    \/ \E n \in Names : \E st : ResolveStep(p, n) /\ ResolveError(p, n, st)

Ends(p) ==
    /\ Ending(p)
    /\ Blank(job'[p]) /\ job'[p].phase = "idle" /\ job'[p].verb = job[p].verb
    /\ \A n \in Names : job'[p].deps[n] = NoDep
Starts(p) ==
    /\ Begin(p) /\ job[p].phase = "idle"
    /\ Blank(job'[p]) /\ job'[p].phase \in {"mtrunc", "readlock", "vfetch"}
    /\ job'[p].result = "none"
Proceeds(p) ==
    /\ Moving(p) /\ <<job[p].phase, job'[p].phase>> \in Edges
    /\ SameContext(p) /\ SameWork(p)
Loads(p) ==
    /\ ReadLockForRemove(p) \/ MergeLock(p) \/ VendorLock(p)
    /\ SameContext(p) /\ job'[p].phase = "ltrunc" /\ job'[p].res = job[p].res
Takes(p) ==
    \E n \in Names : \E r : ResolveStep(p, n) /\ Resolving(p, n) /\ Accept(p, n, r)

Steps(p) ==
    \/ Starts(p) \/ Ends(p) \/ Proceeds(p) \/ Loads(p) \/ Takes(p)
    \/ ReadLockForResolve(p)
    \/ VendorFetch(p) /\ VendorSource(p).st = "ok"
JobStep(p) == job'[p] = job[p] \/ Steps(p)

LEMMA ResolveEnds ==
    ASSUME TypeInv, NEW p \in Procs, NEW n \in Names, ResolveStep(p, n)
    PROVE  Resolving(p, n) /\ ((\E r : Accept(p, n, r)) \/ (\E st : ResolveError(p, n, st)))
<1>1. (\E r : Accept(p, n, r)) \/ (\E st : ResolveError(p, n, st))
  BY Zenon DEF ResolveStep, ResolveReplaced, RejectReplace, ResolveVendored, ResolvePath,
     ResolveOci, ResolveHelm, ResolveGit, Unreachable
<1>2. Resolving(p, n)
  BY DEF ResolveStep, ResolveReplaced, RejectReplace, ResolveVendored, ResolvePath,
     ResolveOci, ResolveHelm, ResolveGit, Unreachable, Direct
<1>. QED
  BY <1>1, <1>2

(* A step of q is one of these, and leaves the other processes alone.      *)
LEMMA ProcSteps ==
    ASSUME TypeInv, NEW q \in Procs, Begin(q) \/ Run(q) \/ Crash(q)
    PROVE  Others(q) /\ Steps(q)
<1>2. ASSUME Begin(q) PROVE Others(q) /\ Steps(q)
  <2>1. PICK verb, arg, flag, phase, deps :
            Start(q, verb, arg, flag, phase, deps) /\ phase \in {"mtrunc", "readlock", "vfetch"}
    BY <1>2, Zenon DEF Begin, BeginAdd, BeginRemove, BeginVendor, BeginLock, BeginUpdate,
       BeginRender
  <2>2. job[q].phase = "idle"
    BY <2>1 DEF Start, At
  <2>. QED
    BY <1>2, <2>1, <2>2, StartFields DEF Steps, Starts
<1>3. ASSUME NEW n \in Names, ResolveStep(q, n) PROVE Others(q) /\ Steps(q)
  <2>1. CASE \E r : Accept(q, n, r)
    BY <1>3, <2>1, AcceptFields, ResolveEnds DEF Steps, Takes
  <2>2. CASE \E st : ResolveError(q, n, st)
    <3>1. Ending(q)
      BY <1>3, <2>2 DEF Ending
    <3>2. \E r, m, v : Finish(q, r) \/ FinishAt(q, r, m, v)
      BY <2>2 DEF ResolveError
    <3>3. Ends(q) /\ Others(q)
      BY <3>1, <3>2, EndFields DEF Ends
    <3>. QED
      BY <3>3 DEF Steps
  <2>. QED
    BY <1>3, <2>1, <2>2, ResolveEnds
<1>4. ASSUME Ending(q), \E r, n, v : Finish(q, r) \/ FinishAt(q, r, n, v)
      PROVE  Others(q) /\ Steps(q)
  <2>1. Ends(q) /\ Others(q)
    BY <1>4, EndFields DEF Ends
  <2>. QED
    BY <2>1 DEF Steps
<1>5. ASSUME ReadLockEnds(q) \/ FinishRender(q) \/ FinishCheck(q) \/ RejectImport(q)
               \/ VendorUnreachable(q) \/ Crash(q) \/ WriteLock(q)
      PROVE  Others(q) /\ Steps(q)
  <2>1. \E r, n, v : Finish(q, r) \/ FinishAt(q, r, n, v)
    BY <1>5, Zenon DEF ReadLockEnds, FinishRender, FinishCheck, RejectImport,
       VendorUnreachable, Crash, WriteLock
  <2>2. Ending(q)
    BY <1>5 DEF Ending
  <2>. QED
    BY <1>4, <2>1, <2>2
<1>6. ASSUME Moving(q) PROVE Others(q) /\ Steps(q)
  <2>0. /\ TruncateManifest(q) => Goto(q, "mwrite") /\ job[q].phase = "mtrunc"
        /\ WriteManifest(q) => Goto(q, "readlock") /\ job[q].phase = "mwrite"
        /\ TruncateLock(q) => Goto(q, "lwrite") /\ job[q].phase = "ltrunc"
        /\ VendorRemoveOld(q) => Goto(q, "vcopy") /\ job[q].phase = "vremove"
        /\ VendorCopyStart(q) => Goto(q, "vcopying") /\ job[q].phase = "vcopy"
        /\ VendorCopyEnd(q) => Goto(q, "vlock") /\ job[q].phase = "vcopying"
    BY DEF TruncateManifest, WriteManifest, TruncateLock, VendorRemoveOld,
       VendorCopyStart, VendorCopyEnd, At
  <2>1. PICK phase : Goto(q, phase) /\ <<job[q].phase, phase>> \in Edges
    BY <1>6, <2>0 DEF Edges, Moving
  <2>. QED
    BY <1>6, <2>1, GotoFields DEF Steps, Proceeds
<1>7. ASSUME ReadLockForResolve(q) PROVE Others(q) /\ Steps(q)
  BY <1>7, ReadFields DEF Steps
<1>8. ASSUME ReadLockForRemove(q) \/ MergeLock(q) \/ VendorLock(q)
      PROVE  Others(q) /\ Steps(q)
  <2>1. (\E pkgs : job' = [job EXCEPT ![q].phase = "ltrunc", ![q].pkgs = pkgs])
          \/ (Ending(q) /\ Finish(q, "fail"))
    BY <1>8, Zenon DEF ReadLockForRemove, MergeLock, VendorLock, Ending
  <2>2. CASE \E pkgs : job' = [job EXCEPT ![q].phase = "ltrunc", ![q].pkgs = pkgs]
    <3>1. /\ Others(q) /\ SameContext(q) /\ job'[q].phase = "ltrunc"
          /\ job'[q].res = job[q].res
      BY <2>2, LoadFields
    <3>. QED
      BY <1>8, <3>1 DEF Loads, Steps
  <2>. QED
    BY <1>4, <2>1, <2>2
<1>9. ASSUME VendorFetch(q) PROVE Others(q) /\ Steps(q)
  <2>1. CASE VendorSource(q).st = "ok"
    BY <1>9, <2>1, FetchFields DEF Steps
  <2>2. CASE VendorSource(q).st # "ok"
    BY <1>4, <1>9, <2>2 DEF VendorFetch, Ending
  <2>. QED
    BY <2>1, <2>2
<1>. QED
  BY <1>2, <1>3, <1>5, <1>6, <1>7, <1>8, <1>9 DEF Run, Moving

LEMMA JobSteps ==
    ASSUME TypeInv, [Next]_vars, NEW p \in Procs
    PROVE  JobStep(p)
<1>1. CASE UNCHANGED vars
  BY <1>1 DEF vars, JobStep
<1>2. ASSUME NEW q \in Procs, Begin(q) \/ Run(q) \/ Crash(q) PROVE JobStep(p)
  BY <1>2, ProcSteps DEF Others, JobStep
<1>3. CASE Environment
  BY <1>3
  DEF Environment, Publish, EditFork, EditVendor, EditManifest, Annotate, ClearCaches, JobStep
<1>. QED
  BY <1>1, <1>2, <1>3 DEF Next

-----------------------------------------------------------------------------
(* Every pin was served.                                                   *)

WasServed(s, n, c) == \E v \in Versions : <<n, v, c>> \in s
ServedPin(s, n, d) == d.form \in {"blob", "commit"} => WasServed(s, n, d.of)
Backed(s, pkgs) == \A e \in pkgs : ServedPin(s, e.name, e.digest)

(* What a process resolved, what upstream serves and what a bare clone     *)
(* knows was served, as well as what a lockfile pins.                      *)
ServedInv ==
    /\ Backed(served, lock.pkgs)
    /\ \A p \in Procs : Backed(served, job[p].pkgs)
    /\ \A p \in Procs, n \in Names : ServedPin(served, n, job[p].res[n].digest)
    /\ \A n \in Names, v \in Versions :
          /\ upstream[n][v] # Nil => <<n, v, upstream[n][v]>> \in served
          /\ bare[n].refs[v] # Nil => <<n, v, bare[n].refs[v]>> \in served

LEMMA ExpectedBacked ==
    ASSUME NEW pkgs, NEW n, Backed(served, pkgs)
    PROVE  ServedPin(served, n, ExpectedOci(pkgs, n))
<1>1. CASE LastOci(pkgs, n) = {}
  BY <1>1 DEF ExpectedOci, ServedPin, NoDigest
<1>2. CASE LastOci(pkgs, n) # {}
  <2>1. PICK e \in LastOci(pkgs, n) : ExpectedOci(pkgs, n) = e.digest
    BY <1>2 DEF ExpectedOci
  <2>. QED
    BY <2>1 DEF LastOci, Backed
<1>. QED
  BY <1>1, <1>2

LEMMA OutcomeServed ==
    ASSUME ServedInv, NEW n \in Names, NEW v \in Versions, NEW want, ServedPin(served, n, want),
           NEW offline
    PROVE  /\ OciOutcome(n, v, want, offline).st = "ok"
                => WasServed(served, n, OciOutcome(n, v, want, offline).of)
           /\ HelmOutcome(n, v, want, offline).st = "ok"
                => WasServed(served, n, HelmOutcome(n, v, want, offline).of)
           /\ \A any : GitOutcome(n, v, any).st = "ok"
                => WasServed(served, n, GitOutcome(n, v, any).of)
<1>1. /\ upstream[n][v] # Nil => WasServed(served, n, upstream[n][v])
      /\ bare[n].refs[v] # Nil => WasServed(served, n, bare[n].refs[v])
      /\ want.form = "blob" => WasServed(served, n, want.of)
  BY DEF ServedInv, WasServed, ServedPin
<1>2. OciOutcome(n, v, want, offline).st = "ok"
        => WasServed(served, n, OciOutcome(n, v, want, offline).of)
  BY <1>1 DEF OciOutcome, OciServed, CachedPin
<1>3. HelmOutcome(n, v, want, offline).st = "ok"
        => WasServed(served, n, HelmOutcome(n, v, want, offline).of)
  BY <1>1 DEF HelmOutcome
<1>4. ASSUME NEW any, GitOutcome(n, v, any).st = "ok"
      PROVE  WasServed(served, n, GitOutcome(n, v, any).of)
  BY <1>1, <1>4 DEF GitOutcome
<1>. QED
  BY <1>2, <1>3, <1>4

(* A dependency that is resolved or vendored is declared, so that it has a *)
(* version unless it is a path.                                            *)
LEMMA DeclaredVersion ==
    ASSUME TypeInv, NEW p \in Procs, NEW n, n \in Declared(job[p].deps)
    PROVE  /\ n \in Names /\ job[p].deps[n] \in Dep /\ job[p].deps[n].kind \in Kinds
           /\ job[p].deps[n].ver \in Versions /\ job[p].deps[n].repl \in BOOLEAN
<1>1. n \in Names /\ job[p].deps[n] \in Dep /\ job[p].deps[n].kind # "none"
  BY JobAt DEF Declared, TypeInv, Job
<1>. QED
  BY <1>1 DEF Dep, NoDep

LEMMA ResolvingVersion ==
    ASSUME TypeInv, NEW p \in Procs, NEW n \in Names, Resolving(p, n)
    PROVE  /\ n \in Declared(job[p].deps) /\ job[p].deps[n].ver \in Versions
           /\ job[p].deps[n].kind \in Kinds
<1>1. n \in Declared(job[p].deps)
  BY DEF Resolving, At, TypeInv, WorkInv, WorkOf
<1>. QED
  BY <1>1, DeclaredVersion

(* Whichever branch of the resolver answers, an archive or commit digest   *)
(* it returns was served.                                                  *)
LEMMA TakenServed ==
    ASSUME TypeInv, ServedInv, NEW p \in Procs, NEW n \in Names, NEW r,
           ResolveStep(p, n), Accept(p, n, r)
    PROVE  ServedPin(served, n, job'[p].res[n].digest)
<1>. DEFINE dep == job[p].deps[n]
<1>0. /\ job'[p].res[n] = r /\ job'[p].phase = "resolve"
      /\ \A st : ~ResolveError(p, n, st)
  <2>1. job'[p].res[n] = r /\ job'[p].phase = "resolve"
    BY AcceptFields, ResolveEnds DEF Resolving, At
  <2>2. ASSUME NEW st, ResolveError(p, n, st) PROVE job'[p].phase = "idle"
    BY <2>2, EndFields DEF ResolveError
  <2>. QED
    BY <2>1, <2>2
<1>1. ASSUME NEW x, Accept(p, n, x) PROVE job'[p].res[n] = x
  BY <1>1, AcceptFields
<1>v. dep.ver \in Versions /\ ServedPin(served, n, NoDigest) /\ ServedPin(served, n, Expected(p, n))
  BY ResolvingVersion, ResolveEnds, ExpectedBacked DEF Expected, ServedInv, ServedPin, NoDigest
<1>2. CASE ResolveReplaced(p, n) \/ RejectReplace(p, n) \/ ResolvePath(p, n) \/ Unreachable(p, n)
  BY <1>0, <1>1, <1>2
  DEF ResolveReplaced, RejectReplace, ResolvePath, Unreachable, Resolved, Tree, Hash, ServedPin
<1>3. CASE ResolveVendored(p, n)
  BY <1>1, <1>3 DEF ResolveVendored, Resolved, Hash, ServedPin
<1>4. CASE ResolveOci(p, n)
  <2>1. OciOutcome(n, dep.ver, Expected(p, n), Offline(p)).st = "ok"
    BY <1>0, <1>4 DEF ResolveOci
  <2>2. WasServed(served, n, OciOutcome(n, dep.ver, Expected(p, n), Offline(p)).of)
    BY <1>v, <2>1, OutcomeServed
  <2>. QED
    BY <1>1, <1>4, <2>1, <2>2 DEF ResolveOci, Resolved, OciDigest, Blob, Hash, ServedPin
<1>5. CASE ResolveHelm(p, n)
  <2>1. HelmOutcome(n, dep.ver, Expected(p, n), Offline(p)).st = "ok"
    BY <1>0, <1>5 DEF ResolveHelm
  <2>2. WasServed(served, n, HelmOutcome(n, dep.ver, Expected(p, n), Offline(p)).of)
    BY <1>v, <2>1, OutcomeServed
  <2>. QED
    BY <1>1, <1>5, <2>1, <2>2 DEF ResolveHelm, Resolved, Blob, Hash, ServedPin
<1>6. CASE ResolveGit(p, n)
  <2>1. GitOutcome(n, dep.ver, NoDigest).st = "ok" /\ ~Offline(p)
    BY <1>0, <1>6 DEF ResolveGit
  <2>2. WasServed(served, n, GitOutcome(n, dep.ver, NoDigest).of)
    BY <1>v, <2>1, OutcomeServed
  <2>. QED
    BY <1>1, <1>6, <2>1, <2>2 DEF ResolveGit, Resolved, Hash, ServedPin
<1>. QED
  BY <1>2, <1>3, <1>4, <1>5, <1>6 DEF ResolveStep

LEMMA FetchedServed ==
    ASSUME TypeInv, ServedInv, NEW p \in Procs, VendorFetch(p), VendorSource(p).st = "ok"
    PROVE  ServedPin(served, job[p].arg, job'[p].res[job[p].arg].digest)
<1>. DEFINE n == job[p].arg
            dep == job[p].deps[n]
            got == VendorSource(p)
<1>1. n \in Names /\ dep.ver \in Versions
  <2>1. n \in Declared(job[p].deps)
    BY DEF VendorFetch, At, TypeInv, WorkInv, WorkOf, VendorPhases
  <2>. QED
    BY <2>1, DeclaredVersion
<1>2. job'[p].res[n].digest = got.pin
  <2>1. job'[p].res[n] = Resolved(dep, "vendor", got.pin, got.of)
    BY FetchFields
  <2>. QED
    BY <2>1 DEF Resolved
<1>3. dep.kind = "git" => WasServed(served, n, got.of)
  <2>. DEFINE G == GitOutcome(n, dep.ver, ExpectedFirst(LockedPkgs, n, "git"))
  <2>1. dep.kind = "git" => got = [st |-> G.st, of |-> G.of, pin |-> Hash("commit", G.of)]
    BY DEF VendorSource
  <2>2. ServedPin(served, n, NoDigest)
    BY DEF ServedPin, NoDigest
  <2>3. G.st = "ok" => WasServed(served, n, G.of)
    BY <1>1, <2>2, OutcomeServed
  <2>. HIDE DEF G
  <2>. QED
    BY <2>1, <2>3
<1>4. ServedPin(served, n, got.pin)
  BY <1>3 DEF VendorSource, Hash, ServedPin
<1>. QED
  BY <1>2, <1>4

(* What upstream serves and what the bare clones know changes only by      *)
(* publishing, refreshing or clearing.                                     *)
LEMMA RemoteStep ==
    ASSUME [Next]_vars
    PROVE  /\ \/ upstream' = upstream /\ served' = served
              \/ \E n \in Names, v \in Versions, c \in Published : Publish(n, v, c)
           /\ \/ bare' = bare
              \/ \E n, v, want : bare' = BareAfter(n, v, want)
              \/ bare' = [n \in Names |-> [cloned |-> FALSE, refs |-> NoRelease]]
<1>. USE DEF caches, remote
<1>1. CASE UNCHANGED vars
  BY <1>1 DEF vars
<1>2. ASSUME NEW p \in Procs, Begin(p) \/ Crash(p)
      PROVE  upstream' = upstream /\ served' = served /\ bare' = bare
  BY <1>2 DEF Begin, BeginAdd, BeginRemove, BeginVendor, BeginLock, BeginUpdate, BeginRender,
     Crash
<1>3. ASSUME NEW p \in Procs, Run(p)
      PROVE  /\ upstream' = upstream /\ served' = served
             /\ bare' = bare \/ \E n, v, want : bare' = BareAfter(n, v, want)
  <2>1. CASE \E n \in Names : ResolveGit(p, n)
    BY <2>1 DEF ResolveGit
  <2>2. CASE VendorFetch(p)
    BY <2>2 DEF VendorFetch
  <2>3. CASE ~VendorFetch(p) /\ ~\E n \in Names : ResolveGit(p, n)
    BY <1>3, <2>3
    DEF Run, TruncateManifest, WriteManifest, ReadLockForResolve, ReadLockForRemove, ReadLockEnds,
        ResolveStep, ResolveReplaced, RejectReplace, ResolveVendored, ResolvePath, ResolveOci,
        ResolveHelm, Unreachable, FinishRender, FinishCheck, RejectImport, MergeLock,
        TruncateLock, WriteLock, VendorUnreachable, VendorRemoveOld, VendorCopyStart,
        VendorCopyEnd, VendorLock
  <2>. QED
    BY <2>1, <2>2, <2>3
<1>4. CASE Environment
  BY <1>4 DEF Environment, Publish, EditFork, EditVendor, EditManifest, Annotate, ClearCaches
<1>. QED
  BY <1>1, <1>2, <1>3, <1>4 DEF Next

LEMMA ServedGrows ==
    ASSUME [Next]_vars
    PROVE  /\ served \subseteq served'
           /\ \A n, d : ServedPin(served, n, d) => ServedPin(served', n, d)
           /\ \A pkgs : Backed(served, pkgs) => Backed(served', pkgs)
<1>1. served \subseteq served'
  BY RemoteStep DEF Publish
<1>. QED
  BY <1>1 DEF ServedPin, WasServed, Backed

LEMMA RemoteServed ==
    ASSUME TypeInv, ServedInv, [Next]_vars, NEW n \in Names, NEW v \in Versions
    PROVE  /\ upstream'[n][v] # Nil => <<n, v, upstream'[n][v]>> \in served'
           /\ bare'[n].refs[v] # Nil => <<n, v, bare'[n].refs[v]>> \in served'
<1>0. /\ upstream[n][v] # Nil => <<n, v, upstream[n][v]>> \in served'
      /\ bare[n].refs[v] # Nil => <<n, v, bare[n].refs[v]>> \in served'
  BY ServedGrows DEF ServedInv
<1>1. ASSUME NEW m \in Names, NEW w \in Versions, NEW c \in Published, Publish(m, w, c)
      PROVE  upstream'[n][v] # Nil => <<n, v, upstream'[n][v]>> \in served'
  <2>1. upstream'[n][v] = IF n = m /\ v = w THEN c ELSE upstream[n][v]
    BY <1>1 DEF Publish, TypeInv, TypeOK
  <2>2. <<m, w, c>> \in served'
    BY <1>1 DEF Publish
  <2>. QED
    BY <1>0, <2>1, <2>2
<1>2. ASSUME NEW m, NEW w, NEW want, bare' = BareAfter(m, w, want)
      PROVE  bare'[n].refs[v] \in {bare[n].refs[v], upstream[n][v]}
  <2>1. CASE GitRefreshes(m, w, want)
    <3>1. bare' = [bare EXCEPT ![m] = [cloned |-> TRUE, refs |-> upstream[m]]]
      BY <1>2, <2>1 DEF BareAfter
    <3>. QED
      BY <3>1 DEF TypeInv, TypeOK
  <2>2. CASE ~GitRefreshes(m, w, want)
    BY <1>2, <2>2 DEF BareAfter
  <2>. QED
    BY <2>1, <2>2
<1>3. CASE bare' = [k \in Names |-> [cloned |-> FALSE, refs |-> NoRelease]]
  <2>1. bare'[n].refs[v] = Nil
    BY <1>3 DEF NoRelease
  <2>. QED
    BY <1>0, <1>1, <2>1, RemoteStep
<1>. QED
  BY <1>0, <1>1, <1>2, <1>3, RemoteStep

LEMMA ServedStep == TypeInv /\ ServedInv /\ [Next]_vars => ServedInv'
<1>. SUFFICES ASSUME TypeInv, ServedInv, [Next]_vars PROVE ServedInv'
  OBVIOUS
<1>. DEFINE Still(pkgs) == Backed(served', pkgs)
<1>1. Still({}) /\ Still(LockedPkgs) /\ Still(lock.pkgs) /\ \A p \in Procs : Still(job[p].pkgs)
  BY ServedGrows DEF ServedInv, LockedPkgs, Backed
<1>2. \A p \in Procs, n \in Names : ServedPin(served', n, job'[p].res[n].digest)
  <2>. SUFFICES ASSUME NEW p \in Procs, NEW n \in Names
                PROVE  ServedPin(served', n, job'[p].res[n].digest)
    BY DEF ServedPin, WasServed
  <2>1. ServedPin(served, n, job[p].res[n].digest)
    BY DEF ServedInv
  <2>2. CASE job'[p].res[n] = job[p].res[n]
    BY <2>1, <2>2, ServedGrows
  <2>3. CASE Starts(p) \/ Ends(p)
    BY <2>3 DEF Starts, Ends, Blank, NoRes, NoDigest, ServedPin
  <2>4. CASE Takes(p)
    <3>1. PICK m, r : m \in Names /\ ResolveStep(p, m) /\ Accept(p, m, r)
      BY <2>4 DEF Takes
    <3>2. CASE n = m
      BY <3>1, <3>2, TakenServed, ServedGrows
    <3>3. CASE n # m
      BY <2>2, <3>1, <3>3, AcceptFields
    <3>. QED
      BY <3>2, <3>3
  <2>5. CASE VendorFetch(p) /\ VendorSource(p).st = "ok"
    <3>1. CASE n = job[p].arg
      BY <2>5, <3>1, FetchedServed, ServedGrows
    <3>2. CASE n # job[p].arg
      BY <2>2, <2>5, <3>2, FetchFields
    <3>. QED
      BY <3>1, <3>2
  <2>6. CASE ReadLockForResolve(p)
    BY <2>2, <2>6, ReadFields
  <2>. QED
    BY <2>2, <2>3, <2>4, <2>5, <2>6, JobSteps DEF JobStep, Steps, Proceeds, Loads, SameWork
<1>3. Still(lock'.pkgs)
  <2>1. ASSUME NEW e \in lock.pkgs,
               lock'.pkgs = (lock.pkgs \ {e}) \cup {[e EXCEPT !.sig = e.digest]}
        PROVE  Still(lock'.pkgs)
    <3>1. /\ [e EXCEPT !.sig = e.digest].digest = e.digest
          /\ [e EXCEPT !.sig = e.digest].name = e.name
      BY DEF TypeInv, TypeOK, Entry
    <3>. QED
      BY <1>1, <2>1, <3>1 DEF Backed
  <2>. QED
    BY <1>1, <2>1, LockfileStep DEF DiskStep
<1>4. ASSUME NEW p \in Procs PROVE Still(job'[p].pkgs)
  <2>1. CASE job'[p].pkgs \in {job[p].pkgs, {}, LockedPkgs}
    BY <1>1, <2>1
  <2>2. CASE \E n \in Names : job'[p].pkgs = Prune(lock.pkgs, n)
    BY <1>1, <2>2 DEF Prune, Backed
  <2>r. \A n \in Names : ServedPin(served', n, job[p].res[n].digest)
    BY ServedGrows DEF ServedInv
  <2>3. CASE job'[p].pkgs = Merged(p)
    <3>1. \A n : /\ NewEntry(job[p].pkgs, n, job[p].res[n]).name = n
                 /\ NewEntry(job[p].pkgs, n, job[p].res[n]).digest = job[p].res[n].digest
      BY DEF NewEntry
    <3>2. Scope(p) \subseteq Names
      BY JobAt DEF Scope, Declared, TypeInv, Job, Names
    <3>. QED
      BY <1>1, <2>3, <2>r, <3>1, <3>2 DEF Merged, Merge, Backed
  <2>4. CASE VendorLock(p) /\ job'[p].pkgs = VendorMerge(p)
    <3>. DEFINE n == job[p].arg
                r == VendorRes(p)
                new == VendorEntry(LockedPkgs, n, r)
    <3>1. n \in Names /\ r.digest = job[p].res[n].digest
      BY <2>4, JobAt
      DEF VendorLock, At, TypeInv, WorkInv, WorkOf, VendorPhases, Declared, Job, Res, VendorRes
    <3>2. new.name = n /\ new.digest = r.digest
      BY DEF VendorEntry, NewEntry
    <3>3. ServedPin(served', new.name, new.digest)
      BY <2>r, <3>1, <3>2
    <3>. HIDE DEF new, n, r
    <3>4. VendorMerge(p) \subseteq LockedPkgs \cup {new}
      BY DEF VendorMerge, new, n, r
    <3>. QED
      BY <1>1, <2>4, <3>3, <3>4 DEF Backed
  <2>. QED
    BY <2>1, <2>2, <2>3, <2>4, LockfileStep DEF HeldStep
<1>5. \A n \in Names, v \in Versions :
          /\ upstream'[n][v] # Nil => <<n, v, upstream'[n][v]>> \in served'
          /\ bare'[n].refs[v] # Nil => <<n, v, bare'[n].refs[v]>> \in served'
  BY RemoteServed
<1>. QED
  BY <1>2, <1>3, <1>4, <1>5 DEF ServedInv, Backed

LEMMA ServedInit == Init => ServedInv
<1>. SUFFICES ASSUME Init PROVE ServedInv
  OBVIOUS
<1>1. ASSUME NEW n \in Names, NEW v \in Versions, upstream[n][v] # Nil
      PROVE  <<n, v, upstream[n][v]>> \in served
  <2>0. upstream[n][v] = FirstRelease[n][v]
    BY DEF Init
  <2>1. upstream[n][v] \in Published
    <3>1. FirstRelease[n][v] \in MaybeContents \ {Partial}
      BY ModelAssumption
    <3>. QED
      BY <1>1, <2>0, <3>1 DEF Published, MaybeContents
  <2>2. <<n, v, upstream[n][v]>> \in Names \X Versions \X Published
    BY <2>1
  <2>. QED
    BY <2>0, <2>2 DEF Init
<1>2. \A n \in Names, v \in Versions : bare[n].refs[v] = Nil
  BY DEF Init, NoRelease
<1>. QED
  BY <1>1, <1>2 DEF Init, ServedInv, Backed, ServedPin, Idle, NoRes, NoDigest

(* However verbs interleave, crash, race or are cut off from the network,  *)
(* an archive or commit digest in a lockfile was served by that            *)
(* dependency's own upstream: no cache, vendored tree or failed fetch      *)
(* makes one up (fetch_with_opts, resolve_source, merge_into_lock).        *)
THEOREM PinsWereServed == Spec => []PinWasServed
<1>1. ServedInv => PinWasServed
  BY DEF ServedInv, PinWasServed, Backed, ServedPin, WasServed, Lockfiles
<1>. QED
  BY <1>1, ServedInit, TypeInit, TypeNext, ServedStep, PTL DEF Spec

-----------------------------------------------------------------------------
(* A render uses what the lockfile pins.                                   *)

HonoursPin(j, n) ==
    j.res[n].via = "oci" =>
        /\ j.res[n].digest = Blob(j.res[n].of)
        /\ ExpectedOci(j.pkgs, n) \in {NoDigest, j.res[n].digest}

(* A verb starts resolving with nothing resolved, and but for update holds *)
(* every OCI artifact it accepted to the pin it read.                      *)
PinnedJob(j) ==
    /\ j.phase \in {"mtrunc", "mwrite", "readlock", "vfetch"} =>
          \A n \in Names : j.res[n] = NoRes
    /\ j.phase = "resolve" /\ j.verb # "update" => \A n \in Names : HonoursPin(j, n)

PinnedInv == RenderedIsPinned /\ \A p \in Procs : PinnedJob(job[p])

LEMMA OciKeepsPin ==
    ASSUME NEW n, NEW v, NEW want \in Digest, NEW offline,
           OciOutcome(n, v, want, offline).st = "ok"
    PROVE  want \in {NoDigest, Blob(OciOutcome(n, v, want, offline).of)}
<1>1. want = [form |-> want.form, of |-> want.of]
  BY DEF Digest
<1>2. CASE CachedPin(want)
  <2>1. OciOutcome(n, v, want, offline).of = want.of
    BY <1>2 DEF OciOutcome
  <2>. QED
    BY <1>1, <1>2, <2>1 DEF CachedPin, Blob, Hash
<1>3. CASE ~CachedPin(want)
  BY <1>3 DEF OciOutcome, OciServed
<1>. QED
  BY <1>2, <1>3

LEMMA TakenHonoursPin ==
    ASSUME TypeInv, NEW p \in Procs, NEW n \in Names, NEW r,
           ResolveStep(p, n), Accept(p, n, r), job[p].verb # "update"
    PROVE  HonoursPin(job'[p], n)
<1>. DEFINE dep == job[p].deps[n]
            got == OciOutcome(n, dep.ver, Expected(p, n), Offline(p))
<1>1. ASSUME NEW x, Accept(p, n, x) PROVE job'[p].res[n] = x
  BY <1>1, AcceptFields
<1>2. job'[p].res[n] = r /\ job'[p].pkgs = job[p].pkgs /\ job'[p].phase = "resolve"
  BY AcceptFields, ResolveEnds DEF Resolving, At
<1>3. ASSUME NEW st, ResolveError(p, n, st) PROVE FALSE
  <2>1. job'[p].phase = "idle"
    BY <1>3, EndFields DEF ResolveError
  <2>. QED
    BY <1>2, <2>1
<1>4. CASE ResolveOci(p, n)
  <2>1. got.st = "ok" /\ job'[p].res[n] = Resolved(dep, "oci", OciDigest(got.of), got.of)
    BY <1>1, <1>3, <1>4 DEF ResolveOci
  <2>2. Expected(p, n) = ExpectedOci(job[p].pkgs, n) /\ Expected(p, n) \in Digest
    BY ExpectedTypes, JobAt DEF Expected, TypeInv, Job
  <2>3. Expected(p, n) \in {NoDigest, Blob(got.of)}
    BY <2>1, <2>2, OciKeepsPin
  <2>. HIDE DEF got
  <2>. QED
    BY <1>2, <2>1, <2>2, <2>3 DEF HonoursPin, Resolved, OciDigest
<1>5. CASE ~ResolveOci(p, n)
  <2>1. r.via # "oci"
    BY <1>1, <1>2, <1>3, <1>5
    DEF ResolveStep, ResolveReplaced, RejectReplace, ResolveVendored, ResolvePath,
        ResolveHelm, ResolveGit, Unreachable, Resolved
  <2>. QED
    BY <1>2, <2>1 DEF HonoursPin
<1>. QED
  BY <1>4, <1>5

LEMMA RenderedStep ==
    ASSUME [Next]_vars
    PROVE  rendered' = rendered \/ \E p \in Procs : FinishRender(p)
<1>1. CASE UNCHANGED vars
  BY <1>1 DEF vars
<1>2. ASSUME NEW p \in Procs, Begin(p) \/ Crash(p) PROVE rendered' = rendered
  BY <1>2 DEF Begin, BeginAdd, BeginRemove, BeginVendor, BeginLock, BeginUpdate, BeginRender,
     Crash
<1>3. ASSUME NEW p \in Procs, Run(p), ~FinishRender(p) PROVE rendered' = rendered
  BY <1>3
  DEF Run, TruncateManifest, WriteManifest, ReadLockForResolve, ReadLockForRemove, ReadLockEnds,
      ResolveStep, ResolveReplaced, RejectReplace, ResolveVendored, ResolvePath, ResolveOci,
      ResolveHelm, ResolveGit, Unreachable, FinishCheck, RejectImport, MergeLock,
      TruncateLock, WriteLock, VendorFetch, VendorUnreachable, VendorRemoveOld,
      VendorCopyStart, VendorCopyEnd, VendorLock
<1>4. CASE Environment
  BY <1>4 DEF Environment, Publish, EditFork, EditVendor, EditManifest, Annotate, ClearCaches
<1>. QED
  BY <1>1, <1>2, <1>3, <1>4 DEF Next

LEMMA PinnedStep == TypeInv /\ PinnedInv /\ [Next]_vars => PinnedInv'
<1>. SUFFICES ASSUME TypeInv, PinnedInv, [Next]_vars PROVE PinnedInv'
  OBVIOUS
<1>1. RenderedIsPinned'
  <2>1. CASE rendered' = rendered
    BY <2>1 DEF PinnedInv, RenderedIsPinned
  <2>2. ASSUME NEW p \in Procs, FinishRender(p) PROVE RenderedIsPinned'
    <3>1. \A n \in Names : HonoursPin(job[p], n)
      BY <2>2 DEF FinishRender, AllResolved, At, PinnedInv, PinnedJob
    <3>2. \A n \in Names : /\ rendered'[n].via = job[p].res[n].via
                           /\ rendered'[n].of = job[p].res[n].of
                           /\ rendered'[n].pin = ExpectedOci(job[p].pkgs, n)
      BY <2>2 DEF FinishRender
    <3>. QED
      BY <3>1, <3>2 DEF RenderedIsPinned, HonoursPin
  <2>. QED
    BY <2>1, <2>2, RenderedStep
<1>2. ASSUME NEW p \in Procs PROVE PinnedJob(job'[p])
  <2>0. PinnedJob(job[p])
    BY DEF PinnedInv
  <2>1. CASE job'[p] = job[p]
    BY <2>0, <2>1 DEF PinnedJob, HonoursPin
  <2>2. CASE Starts(p) \/ Ends(p)
    BY <2>2 DEF Starts, Ends, Blank, PinnedJob
  <2>3. CASE Proceeds(p)
    BY <2>0, <2>3 DEF Proceeds, Edges, SameContext, SameWork, PinnedJob
  <2>4. CASE Loads(p)
    BY <2>4 DEF Loads, PinnedJob
  <2>5. CASE Takes(p)
    <3>1. PICK m, r : m \in Names /\ ResolveStep(p, m) /\ Resolving(p, m) /\ Accept(p, m, r)
      BY <2>5 DEF Takes
    <3>2. job'[p].phase = "resolve" /\ job[p].phase = "resolve" /\ job'[p].verb = job[p].verb
      BY <3>1, AcceptFields DEF Resolving, At, SameContext
    <3>3. ASSUME NEW n \in Names, job[p].verb # "update" PROVE HonoursPin(job'[p], n)
      <4>1. CASE n = m
        BY <3>1, <3>3, <4>1, TakenHonoursPin
      <4>2. CASE n # m
        <5>1. job'[p].res[n] = job[p].res[n] /\ job'[p].pkgs = job[p].pkgs
          BY <3>1, <4>2, AcceptFields
        <5>. QED
          BY <2>0, <3>2, <3>3, <5>1 DEF PinnedJob, HonoursPin
      <4>. QED
        BY <4>1, <4>2
    <3>. QED
      BY <3>2, <3>3 DEF PinnedJob
  <2>6. CASE ReadLockForResolve(p)
    <3>1. job'[p].phase = "resolve" /\ \A n \in Names : job'[p].res[n] = NoRes
      BY <2>0, <2>6, ReadFields DEF ReadLockForResolve, At, PinnedJob
    <3>. QED
      BY <3>1 DEF PinnedJob, HonoursPin, NoRes
  <2>7. CASE VendorFetch(p) /\ VendorSource(p).st = "ok"
    <3>1. job'[p].phase \in {"vlock", "vremove", "vcopy"}
      BY <2>7, FetchFields
    <3>. QED
      BY <3>1 DEF PinnedJob
  <2>. QED
    BY <2>1, <2>2, <2>3, <2>4, <2>5, <2>6, <2>7, JobSteps DEF JobStep, Steps
<1>. QED
  BY <1>1, <1>2 DEF PinnedInv

(* What a render took from an OCI registry or its cache, online or         *)
(* offline, is what akua.lock pinned when it was read, whatever other      *)
(* verbs, a moved tag or a cleared cache did meanwhile (fetch_with_opts).  *)
THEOREM RendersArePinned == Spec => []RenderedIsPinned
<1>1. Init => PinnedInv
  BY DEF Init, PinnedInv, RenderedIsPinned, PinnedJob, Idle
<1>2. PinnedInv => RenderedIsPinned
  BY DEF PinnedInv
<1>. QED
  BY <1>1, <1>2, TypeInit, TypeNext, PinnedStep, PTL DEF Spec

-----------------------------------------------------------------------------
(* An accusation of drift.                                                 *)

(* How a verb starts.                                                      *)
LEMMA BeginFields ==
    ASSUME TypeInv, NEW p \in Procs, Begin(p)
    PROVE  /\ manifest.st = "ok" /\ job'[p].verb \in Verbs
           /\ \/ /\ job'[p].phase = "mtrunc" /\ job'[p].verb = "add" /\ job'[p].arg \in Names
                 /\ \E dep \in AddableDeps :
                       job'[p].deps = [manifest.deps EXCEPT ![job'[p].arg] = dep]
              \/ /\ job'[p].phase = "mtrunc" /\ job'[p].verb = "remove" /\ job'[p].arg \in Names
                 /\ job'[p].deps = [manifest.deps EXCEPT ![job'[p].arg] = NoDep]
              \/ /\ job'[p].phase = "readlock"
                 /\ job'[p].verb \in {"lock", "check", "update", "render"}
                 /\ job'[p].deps = manifest.deps
              \/ /\ job'[p].phase = "vfetch" /\ job'[p].verb = "vendor"
                 /\ job'[p].deps = manifest.deps
<1>0. ASSUME NEW verb, NEW arg, NEW flag, NEW phase, NEW deps,
             Start(p, verb, arg, flag, phase, deps)
      PROVE  /\ manifest.st = "ok" /\ verb \in Verbs
             /\ job'[p].phase = phase /\ job'[p].verb = verb /\ job'[p].arg = arg
             /\ job'[p].deps = deps
  BY <1>0, StartFields DEF Start
<1>1. CASE \E n \in Names, dep \in AddableDeps : BeginAdd(p, n, dep)
  <2>1. PICK n \in Names, dep \in AddableDeps : BeginAdd(p, n, dep)
    BY <1>1
  <2>2. Start(p, "add", n, FALSE, "mtrunc", [manifest.deps EXCEPT ![n] = dep])
    BY <2>1 DEF BeginAdd
  <2>. DEFINE deps == [manifest.deps EXCEPT ![n] = dep]
  <2>. HIDE DEF deps
  <2>3. /\ manifest.st = "ok" /\ "add" \in Verbs
        /\ job'[p].phase = "mtrunc" /\ job'[p].verb = "add" /\ job'[p].arg = n
        /\ job'[p].deps = deps
    BY <1>0, <2>2 DEF deps
  <2>. QED
    BY <2>3 DEF deps
<1>2. CASE \E n \in Names : BeginRemove(p, n)
  <2>1. PICK n \in Names : BeginRemove(p, n)
    BY <1>2
  <2>2. Start(p, "remove", n, FALSE, "mtrunc", [manifest.deps EXCEPT ![n] = NoDep])
    BY <2>1 DEF BeginRemove
  <2>. DEFINE deps == [manifest.deps EXCEPT ![n] = NoDep]
  <2>. HIDE DEF deps
  <2>3. /\ manifest.st = "ok" /\ "remove" \in Verbs
        /\ job'[p].phase = "mtrunc" /\ job'[p].verb = "remove" /\ job'[p].arg = n
        /\ job'[p].deps = deps
    BY <1>0, <2>2 DEF deps
  <2>. QED
    BY <2>3 DEF deps
<1>3. CASE \E n \in Names : BeginVendor(p, n)
  <2>1. PICK n \in Names : Start(p, "vendor", n, FALSE, "vfetch", manifest.deps)
    BY <1>3 DEF BeginVendor
  <2>. QED
    BY <1>0, <2>1
<1>4. CASE BeginLock(p)
  <2>1. PICK verb \in {"lock", "check"} : Start(p, verb, 0, FALSE, "readlock", manifest.deps)
    BY <1>4 DEF BeginLock
  <2>2. /\ manifest.st = "ok" /\ verb \in Verbs
        /\ job'[p].phase = "readlock" /\ job'[p].verb = verb /\ job'[p].deps = manifest.deps
    BY <1>0, <2>1
  <2>. QED
    BY <2>1, <2>2
<1>5. CASE \E n \in 0..NumNames : BeginUpdate(p, n)
  <2>1. PICK n : Start(p, "update", n, FALSE, "readlock", manifest.deps)
    BY <1>5 DEF BeginUpdate
  <2>2. /\ manifest.st = "ok" /\ "update" \in Verbs
        /\ job'[p].phase = "readlock" /\ job'[p].verb = "update" /\ job'[p].deps = manifest.deps
    BY <1>0, <2>1
  <2>. QED
    BY <2>2
<1>6. CASE \E offline \in BOOLEAN : BeginRender(p, offline)
  <2>1. PICK offline : Start(p, "render", 0, offline, "readlock", manifest.deps)
    BY <1>6 DEF BeginRender
  <2>2. /\ manifest.st = "ok" /\ "render" \in Verbs
        /\ job'[p].phase = "readlock" /\ job'[p].verb = "render" /\ job'[p].deps = manifest.deps
    BY <1>0, <2>1
  <2>. QED
    BY <2>2
<1>. QED
  BY <1>1, <1>2, <1>3, <1>4, <1>5, <1>6 DEF Begin

LEMMA SourceStep ==
    ASSUME TypeInv, [Next]_vars
    PROVE  /\ \/ manifest'.deps = manifest.deps
              \/ \E p \in Procs : WriteManifest(p)
              \/ \E n \in Names, dep \in EditableDeps : EditManifest(n, dep)
           /\ \/ vendor' = vendor
              \/ \E p \in Procs : job[p].phase \in VendorPhases
              \/ \E n \in Names, c \in Published \cup {Nil} : EditVendor(n, c)
<1>. USE DEF files
<1>1. CASE UNCHANGED vars
  BY <1>1 DEF vars
<1>2. ASSUME NEW p \in Procs, Begin(p) \/ Crash(p) PROVE manifest' = manifest /\ vendor' = vendor
  BY <1>2 DEF Begin, BeginAdd, BeginRemove, BeginVendor, BeginLock, BeginUpdate, BeginRender,
     Crash
<1>3. ASSUME NEW p \in Procs, Run(p)
      PROVE  /\ manifest'.deps = manifest.deps \/ WriteManifest(p)
             /\ vendor' = vendor \/ job[p].phase \in VendorPhases
  <2>1. CASE TruncateManifest(p) \/ WriteManifest(p)
    BY <2>1 DEF TruncateManifest, WriteManifest, TypeInv, TypeOK
  <2>2. CASE \E n \in Names : ResolveStep(p, n)
    BY <2>2 DEF ResolveStep, ResolveReplaced, RejectReplace, ResolveVendored, ResolvePath,
       ResolveOci, ResolveHelm, ResolveGit, Unreachable
  <2>3. CASE ReadLockForResolve(p) \/ ReadLockForRemove(p) \/ ReadLockEnds(p) \/ FinishRender(p)
               \/ FinishCheck(p) \/ RejectImport(p) \/ MergeLock(p) \/ TruncateLock(p)
               \/ WriteLock(p)
    BY <2>3 DEF ReadLockForResolve, ReadLockForRemove, ReadLockEnds, FinishRender, FinishCheck,
       RejectImport, MergeLock, TruncateLock, WriteLock
  <2>4. CASE VendorFetch(p) \/ VendorUnreachable(p) \/ VendorRemoveOld(p) \/ VendorCopyStart(p)
               \/ VendorCopyEnd(p) \/ VendorLock(p)
    BY <2>4 DEF VendorFetch, VendorUnreachable, VendorRemoveOld, VendorCopyStart, VendorCopyEnd,
       VendorLock, At, VendorPhases
  <2>. QED
    BY <1>3, <2>1, <2>2, <2>3, <2>4 DEF Run
<1>4. CASE Environment
  BY <1>4 DEF Environment, Publish, EditFork, EditVendor, EditManifest, Annotate, ClearCaches
<1>. QED
  BY <1>1, <1>2, <1>3, <1>4 DEF Next

(* An OCI dependency is pinned by the digest of an archive or, replaced or *)
(* vendored, of a tree.                                                    *)
OciForm(kind, d) == kind = "oci" => d.form \in {"blob", "tree"}
OciForms(pkgs) == \A e \in pkgs : OciForm(e.kind, e.digest)
OciFormInv ==
    /\ OciForms(lock.pkgs)
    /\ \A p \in Procs :
          /\ OciForms(job[p].pkgs)
          /\ \A n \in Names : OciForm(job[p].res[n].kind, job[p].res[n].digest)

LEMMA TakenOciForm ==
    ASSUME TypeInv, NEW p \in Procs, NEW n \in Names, NEW r,
           ResolveStep(p, n), Accept(p, n, r)
    PROVE  OciForm(job'[p].res[n].kind, job'[p].res[n].digest)
<1>. DEFINE dep == job[p].deps[n]
<1>1. ASSUME NEW x, Accept(p, n, x) PROVE job'[p].res[n] = x
  BY <1>1, AcceptFields
<1>2. job'[p].res[n] = r /\ job'[p].phase = "resolve"
  BY AcceptFields, ResolveEnds DEF Resolving, At
<1>3. ASSUME NEW st, ResolveError(p, n, st) PROVE FALSE
  <2>1. job'[p].phase = "idle"
    BY <1>3, EndFields DEF ResolveError
  <2>. QED
    BY <1>2, <2>1
<1>4. CASE ResolveOci(p, n)
  BY <1>1, <1>3, <1>4 DEF ResolveOci, Resolved, OciDigest, Blob, Hash, OciForm
<1>5. CASE ResolveReplaced(p, n)
  BY <1>1, <1>3, <1>5 DEF ResolveReplaced, Resolved, Tree, Hash, OciForm
<1>6. CASE ResolveVendored(p, n)
  BY <1>1, <1>3, <1>6 DEF ResolveVendored, Resolved, Hash, OciForm
<1>7. CASE ResolvePath(p, n) \/ ResolveHelm(p, n) \/ ResolveGit(p, n)
  <2>1. job'[p].res[n].kind = job[p].deps[n].kind
    BY <1>1, <1>3, <1>7 DEF ResolvePath, ResolveHelm, ResolveGit, Resolved
  <2>2. job[p].deps[n].kind # "oci"
    BY <1>7 DEF ResolvePath, ResolveHelm, ResolveGit, Direct
  <2>. QED
    BY <2>1, <2>2 DEF OciForm
<1>8. ~RejectReplace(p, n) /\ ~Unreachable(p, n)
  BY <1>3 DEF RejectReplace, Unreachable
<1>. QED
  BY <1>4, <1>5, <1>6, <1>7, <1>8 DEF ResolveStep

LEMMA FetchedOciForm ==
    ASSUME TypeInv, NEW p \in Procs, VendorFetch(p), VendorSource(p).st = "ok"
    PROVE  OciForm(job'[p].res[job[p].arg].kind, job'[p].res[job[p].arg].digest)
<1>. DEFINE dep == job[p].deps[job[p].arg]
            got == VendorSource(p)
<1>1. job'[p].res[job[p].arg] = Resolved(dep, "vendor", got.pin, got.of)
  BY FetchFields
<1>2. dep.kind = "oci" => got.pin.form = "tree"
  BY DEF VendorSource, Hash
<1>. QED
  BY <1>1, <1>2 DEF Resolved, OciForm

LEMMA OciFormStep == TypeInv /\ OciFormInv /\ [Next]_vars => OciFormInv'
<1>. SUFFICES ASSUME TypeInv, OciFormInv, [Next]_vars PROVE OciFormInv'
  OBVIOUS
<1>1. /\ OciForms({}) /\ OciForms(LockedPkgs) /\ OciForms(lock.pkgs)
      /\ \A p \in Procs : OciForms(job[p].pkgs)
  BY DEF OciFormInv, LockedPkgs, OciForms
<1>2. OciForms(lock'.pkgs)
  <2>1. ASSUME NEW e \in lock.pkgs,
               lock'.pkgs = (lock.pkgs \ {e}) \cup {[e EXCEPT !.sig = e.digest]}
        PROVE  OciForms(lock'.pkgs)
    <3>1. /\ [e EXCEPT !.sig = e.digest].digest = e.digest
          /\ [e EXCEPT !.sig = e.digest].kind = e.kind
      BY DEF TypeInv, TypeOK, Entry
    <3>. QED
      BY <1>1, <2>1, <3>1 DEF OciForms
  <2>. QED
    BY <1>1, <2>1, LockfileStep DEF DiskStep
<1>3. ASSUME NEW p \in Procs PROVE OciForms(job'[p].pkgs)
  <2>1. CASE job'[p].pkgs \in {job[p].pkgs, {}, LockedPkgs}
    BY <1>1, <2>1
  <2>2. CASE \E n \in Names : job'[p].pkgs = Prune(lock.pkgs, n)
    BY <1>1, <2>2 DEF Prune, OciForms
  <2>r. \A n \in Names : OciForm(job[p].res[n].kind, job[p].res[n].digest)
    BY DEF OciFormInv
  <2>3. CASE job'[p].pkgs = Merged(p)
    <3>1. \A n : /\ NewEntry(job[p].pkgs, n, job[p].res[n]).kind = job[p].res[n].kind
                 /\ NewEntry(job[p].pkgs, n, job[p].res[n]).digest = job[p].res[n].digest
      BY DEF NewEntry
    <3>2. Scope(p) \subseteq Names
      BY JobAt DEF Scope, Declared, TypeInv, Job, Names
    <3>. QED
      BY <1>1, <2>3, <2>r, <3>1, <3>2 DEF Merged, Merge, OciForms
  <2>4. CASE VendorLock(p) /\ job'[p].pkgs = VendorMerge(p)
    <3>. DEFINE n == job[p].arg
                r == VendorRes(p)
                new == VendorEntry(LockedPkgs, n, r)
    <3>1. n \in Names /\ r.digest = job[p].res[n].digest /\ r.kind = job[p].res[n].kind
      BY <2>4, JobAt
      DEF VendorLock, At, TypeInv, WorkInv, WorkOf, VendorPhases, Declared, Job, Res, VendorRes
    <3>2. new.kind = r.kind /\ new.digest = r.digest
      BY DEF VendorEntry, NewEntry
    <3>3. OciForm(new.kind, new.digest)
      BY <2>r, <3>1, <3>2
    <3>. HIDE DEF new, n, r
    <3>4. VendorMerge(p) \subseteq LockedPkgs \cup {new}
      BY DEF VendorMerge, new, n, r
    <3>. QED
      BY <1>1, <2>4, <3>3, <3>4 DEF OciForms
  <2>. QED
    BY <1>1, <2>1, <2>2, <2>3, <2>4, LockfileStep DEF HeldStep
<1>4. ASSUME NEW p \in Procs, NEW n \in Names
      PROVE  OciForm(job'[p].res[n].kind, job'[p].res[n].digest)
  <2>1. CASE job'[p].res[n] = job[p].res[n]
    BY <2>1 DEF OciFormInv
  <2>2. CASE Starts(p) \/ Ends(p)
    BY <2>2 DEF Starts, Ends, Blank, NoRes, OciForm
  <2>3. CASE Takes(p)
    <3>1. PICK m, r : m \in Names /\ ResolveStep(p, m) /\ Accept(p, m, r)
      BY <2>3 DEF Takes
    <3>2. CASE n = m
      BY <3>1, <3>2, TakenOciForm
    <3>3. CASE n # m
      BY <2>1, <3>1, <3>3, AcceptFields
    <3>. QED
      BY <3>2, <3>3
  <2>4. CASE ReadLockForResolve(p)
    BY <2>1, <2>4, ReadFields
  <2>5. CASE VendorFetch(p) /\ VendorSource(p).st = "ok"
    <3>1. CASE n = job[p].arg
      BY <2>5, <3>1, FetchedOciForm
    <3>2. CASE n # job[p].arg
      BY <2>1, <2>5, <3>2, FetchFields
    <3>. QED
      BY <3>1, <3>2
  <2>. QED
    BY <2>1, <2>2, <2>3, <2>4, <2>5, JobSteps DEF JobStep, Steps, Proceeds, Loads, SameWork
<1>. QED
  BY <1>2, <1>3, <1>4 DEF OciFormInv

(* An error about the pin of (n, v) comes from the OCI fetcher, run by the *)
(* resolver or by vendor add with the pin `want`, and from nowhere else.   *)
Accused(p, n, v) == job'[p].arg = n /\ job'[p].at = v

LEMMA DriftArises ==
    ASSUME TypeInv, [Next]_vars, NEW p \in Procs, job'[p].result = "drift"
    PROVE  \/ job[p].result = "drift"
           \/ \E n \in Names :
                 /\ ResolveOci(p, n) /\ Accused(p, n, job[p].deps[n].ver)
                 /\ OciOutcome(n, job[p].deps[n].ver, Expected(p, n), Offline(p)).st = "drift"
           \/ LET n == job[p].arg
                  v == job[p].deps[n].ver
              IN  /\ VendorFetch(p) /\ Accused(p, n, v)
                  /\ OciOutcome(n, v, ExpectedFirst(LockedPkgs, n, "oci"), FALSE).st = "drift"
<1>1. CASE Ends(p)
  <2>1. ASSUME NEW r, Finish(p, r) PROVE r = "drift"
    BY <2>1, EndFields
  <2>2. ASSUME NEW r, NEW n, NEW v, FinishAt(p, r, n, v)
        PROVE  r = "drift" /\ Accused(p, n, v)
    <3>1. job'[p] = [Idle EXCEPT !.verb = job[p].verb, !.arg = n, !.result = r, !.at = v]
      BY <2>2, JobAt DEF TypeInv, FinishAt
    <3>. QED
      BY <3>1 DEF Accused, Idle
  <2>3. ~ReadLockEnds(p) /\ ~FinishRender(p) /\ ~RejectImport(p) /\ ~WriteLock(p) /\ ~Crash(p)
    BY <2>1 DEF ReadLockEnds, FinishRender, RejectImport, WriteLock, Crash
  <2>4. ~FinishCheck(p) /\ ~(VendorLock(p) /\ lock.st = "torn") /\ ~VendorUnreachable(p)
    BY <2>1, <2>2 DEF FinishCheck, VendorLock, VendorUnreachable
  <2>5. CASE VendorFetch(p) /\ VendorSource(p).st # "ok"
    <3>. DEFINE n == job[p].arg
                v == job[p].deps[n].ver
                got == VendorSource(p)
                O == OciOutcome(n, v, ExpectedFirst(LockedPkgs, n, "oci"), FALSE)
                G == GitOutcome(n, v, ExpectedFirst(LockedPkgs, n, "git"))
    <3>0. n \in Declared(job[p].deps)
      BY <2>5 DEF VendorFetch, At, TypeInv, WorkInv, WorkOf, VendorPhases
    <3>1. n \in Names /\ v \in Versions
      BY <3>0, DeclaredVersion
    <3>2. FinishAt(p, got.st, n, v)
      BY <2>5 DEF VendorFetch
    <3>3. G.st \in {"ok", "fail"}
      BY <3>1, OutcomeTypes DEF TypeInv
    <3>. HIDE DEF O, G, v, n
    <3>4. /\ got.st \in {"ok", "fail", G.st, O.st}
          /\ (got.st = O.st \/ got.st \in {"ok", "fail", G.st})
      BY DEF VendorSource, O, G, v, n
    <3>. HIDE DEF got
    <3>5. got.st = "drift" /\ Accused(p, n, v)
      BY <2>2, <3>2
    <3>6. O.st = "drift"
      BY <3>3, <3>4, <3>5
    <3>. QED
      BY <2>5, <3>5, <3>6 DEF O, v, n
  <2>6. ASSUME NEW n \in Names, NEW st, ResolveStep(p, n), ResolveError(p, n, st)
        PROVE  /\ ResolveOci(p, n) /\ Accused(p, n, job[p].deps[n].ver)
               /\ OciOutcome(n, job[p].deps[n].ver, Expected(p, n), Offline(p)).st = "drift"
    <3>1. ASSUME NEW x, ResolveError(p, n, x)
          PROVE  x = "drift" /\ Accused(p, n, job[p].deps[n].ver)
      <4>. DEFINE y == IF job[p].verb = "add" /\ x # "drift" THEN "soft" ELSE x
      <4>1. FinishAt(p, y, n, job[p].deps[n].ver)
        BY <3>1 DEF ResolveError
      <4>2. y = "drift" /\ Accused(p, n, job[p].deps[n].ver)
        BY <2>2, <4>1
      <4>. QED
        BY <4>2
    <3>2. ASSUME NEW x, Accept(p, n, x) PROVE FALSE
      <4>1. job'[p].phase = job[p].phase
        BY <3>2, AcceptFields
      <4>2. job[p].phase = "resolve"
        BY <2>6, ResolveEnds DEF Resolving, At
      <4>. QED
        BY <1>1, <4>1, <4>2 DEF Ends
    <3>3. job[p].deps[n].ver \in Versions
      BY <2>6, ResolvingVersion, ResolveEnds
    <3>4. ~ResolveReplaced(p, n) /\ ~RejectReplace(p, n) /\ ~ResolveVendored(p, n)
          /\ ~ResolvePath(p, n) /\ ~ResolveGit(p, n) /\ ~Unreachable(p, n)
      BY <3>1, <3>2 DEF ResolveReplaced, RejectReplace, ResolveVendored, ResolvePath,
         ResolveGit, Unreachable
    <3>5. ~ResolveHelm(p, n)
      <4>1. HelmOutcome(n, job[p].deps[n].ver, Expected(p, n), Offline(p)).st \in {"ok", "fail"}
        BY <3>3, OutcomeTypes DEF TypeInv
      <4>. QED
        BY <3>1, <3>2, <4>1 DEF ResolveHelm
    <3>6. ResolveOci(p, n)
      BY <2>6, <3>4, <3>5 DEF ResolveStep
    <3>7. OciOutcome(n, job[p].deps[n].ver, Expected(p, n), Offline(p)).st = "drift"
      BY <3>1, <3>2, <3>6 DEF ResolveOci
    <3>. QED
      BY <2>6, <3>1, <3>6, <3>7
  <2>. QED
    BY <1>1, <2>3, <2>4, <2>5, <2>6 DEF Ends, Ending
<1>2. CASE Starts(p)
  BY <1>2 DEF Starts
<1>3. CASE Takes(p)
  BY <1>3, AcceptFields DEF Takes, SameContext
<1>4. CASE VendorFetch(p) /\ VendorSource(p).st = "ok"
  BY <1>4, FetchFields DEF SameContext
<1>. QED
  BY <1>1, <1>2, <1>3, <1>4, JobSteps, ReadFields DEF JobStep, Steps, Proceeds, Loads, SameContext

(* What the OCI fetcher found at (n, v) when it held e against it.         *)
Grounds(e, n, now, s) ==
    /\ now # Nil
    /\ e.name = n /\ e.kind = "oci"
    /\ \/ e.digest.form = "tree"
       \/ /\ e.digest.form = "blob" /\ e.digest.of # now
          /\ \E v \in Versions : <<n, v, e.digest.of>> \in s

LEMMA MismatchGrounds ==
    ASSUME NEW e \in Entry, NEW n, NEW v, NEW offline, NEW s,
           e.name = n, e.kind = "oci", OciForm(e.kind, e.digest), ServedPin(s, n, e.digest),
           OciOutcome(n, v, e.digest, offline).st = "drift"
    PROVE  Grounds(e, n, upstream[n][v], s)
<1>. DEFINE now == upstream[n][v]
<1>1. now # Nil /\ e.digest # Blob(now)
  BY DEF OciOutcome, OciServed
<1>. HIDE DEF now
<1>2. CASE e.digest.form = "blob"
  <2>1. e.digest = Blob(e.digest.of)
    BY <1>2 DEF Entry, Digest, Blob, Hash
  <2>2. e.digest.of # now
    BY <1>1, <2>1
  <2>. QED
    BY <1>1, <1>2, <2>2 DEF Grounds, ServedPin, WasServed, now
<1>. QED
  BY <1>1, <1>2 DEF Grounds, OciForm, now

(* The error is about an entry of the lockfile, never about none.          *)
LEMMA NothingPinned ==
    ASSUME NEW n, NEW v, NEW offline PROVE OciOutcome(n, v, NoDigest, offline).st # "drift"
BY DEF OciOutcome, OciServed

(* What DriftIsFounded says of one step.                                   *)
Founded ==
    \A p \in Procs : job'[p].result = "drift" /\ job[p].result # "drift" =>
        LET n == job'[p].arg
            now == upstream[n][job'[p].at]
        IN  /\ now # Nil
            /\ \E e \in job[p].pkgs \cup lock.pkgs :
                  /\ e.name = n /\ e.kind = "oci"
                  /\ \/ e.digest.form = "tree"
                     \/ /\ e.digest.form = "blob" /\ e.digest.of # now
                        /\ \E v \in Versions : <<n, v, e.digest.of>> \in served

LEMMA DriftFounded == TypeInv /\ ServedInv /\ OciFormInv /\ [Next]_vars => [Founded]_vars
<1>. SUFFICES ASSUME TypeInv, ServedInv, OciFormInv, [Next]_vars PROVE Founded
  OBVIOUS
<1>. SUFFICES ASSUME NEW p \in Procs, job'[p].result = "drift", job[p].result # "drift"
              PROVE  \E e \in job[p].pkgs \cup lock.pkgs :
                        Grounds(e, job'[p].arg, upstream[job'[p].arg][job'[p].at], served)
  BY DEF Founded, Grounds
<1>1. job[p].pkgs \subseteq Entry /\ LockedPkgs \subseteq lock.pkgs /\ lock.pkgs \subseteq Entry
  BY JobAt DEF TypeInv, TypeOK, Job, LockedPkgs
<1>2. ASSUME NEW n \in Names, NEW v, Accused(p, n, v),
             OciOutcome(n, v, Expected(p, n), Offline(p)).st = "drift"
      PROVE  \E e \in job[p].pkgs : Grounds(e, n, upstream[n][v], served)
  <2>1. Expected(p, n) # NoDigest
    BY <1>2, NothingPinned
  <2>2. PICK e \in LastOci(job[p].pkgs, n) : Expected(p, n) = e.digest
    BY <2>1 DEF Expected, ExpectedOci
  <2>3. e \in job[p].pkgs /\ e.name = n /\ e.kind = "oci"
    BY <2>2 DEF LastOci
  <2>4. OciForm(e.kind, e.digest) /\ ServedPin(served, n, e.digest)
    BY <2>3 DEF OciFormInv, OciForms, ServedInv, Backed
  <2>. QED
    BY <1>1, <1>2, <2>2, <2>3, <2>4, MismatchGrounds
<1>3. ASSUME NEW n, NEW v,
             OciOutcome(n, v, ExpectedFirst(LockedPkgs, n, "oci"), FALSE).st = "drift"
      PROVE  \E e \in lock.pkgs : Grounds(e, n, upstream[n][v], served)
  <2>1. ExpectedFirst(LockedPkgs, n, "oci") # NoDigest
    BY <1>3, NothingPinned
  <2>2. PICK e \in Find(LockedPkgs, n) :
             e.kind = "oci" /\ ExpectedFirst(LockedPkgs, n, "oci") = e.digest
    BY <2>1 DEF ExpectedFirst
  <2>3. e \in lock.pkgs /\ e.name = n
    BY <1>1, <2>2 DEF Find
  <2>4. OciForm(e.kind, e.digest) /\ ServedPin(served, n, e.digest)
    BY <2>3 DEF OciFormInv, OciForms, ServedInv, Backed
  <2>. QED
    BY <1>1, <1>3, <2>2, <2>3, <2>4, MismatchGrounds
<1>. QED
  BY <1>2, <1>3, DriftArises DEF Accused

(* LockDigestMismatch (fetch_with_opts) is raised only about content that  *)
(* is served now, and against an entry of that dependency: the tree of a   *)
(* fork or of vendor add, or another archive its upstream served.  So it   *)
(* is, whichever verbs run, race and die, whatever is edited, vendored,    *)
(* replaced, cleared or republished between them.                          *)
THEOREM DriftHasGrounds == Spec => DriftIsFounded
<1>1. Init => OciFormInv
  BY DEF Init, OciFormInv, OciForms, OciForm, Idle, NoRes
<1>2. [][Founded]_vars => DriftIsFounded
  BY PTL DEF Founded, DriftIsFounded
<1>. QED
  BY <1>1, <1>2, OciFormStep, DriftFounded, ServedInit, TypeInit, TypeNext, ServedStep, PTL DEF Spec
=============================================================================
