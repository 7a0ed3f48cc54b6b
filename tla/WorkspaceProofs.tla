--------------------------- MODULE WorkspaceProofs ---------------------------
(***************************************************************************)
(* Type correctness of Workspace, and what every lockfile on disk or in a  *)
(* process promises about its entries, for every number of names, versions *)
(* and processes and every set of contents.                                *)
(***************************************************************************)
EXTENDS WorkspaceProperties, TLAPS

USE SizesAssumption, ModelAssumption

(* A process never resolves a name it did not read in akua.toml, and what  *)
(* it has resolved has the declared kind: without it an entry of no kind   *)
(* could reach akua.lock.                                                  *)
WorkOf(j) ==
    /\ j.phase \in {"mtrunc", "mwrite"} => j.verb \in {"add", "remove"}
    /\ j.phase = "resolve" =>
          /\ j.todo \subseteq Declared(j.deps)
          /\ \A n \in Declared(j.deps) \ j.todo : j.res[n].kind = j.deps[n].kind
    /\ j.phase \in {"readlock", "resolve"} /\ j.verb = "update"
          => j.arg = 0 \/ j.arg \in Declared(j.deps)
    /\ j.phase \in VendorPhases => j.arg \in Declared(j.deps)
    /\ j.phase \in VendorPhases \ {"vfetch"} => j.res[j.arg].kind \in Kinds

WorkInv == \A p \in Procs : WorkOf(job[p])

-----------------------------------------------------------------------------
(* Digests and lockfile entries.                                           *)

LEMMA DigestTypes ==
    /\ NoDigest \in Digest
    /\ \A c \in MaybeContents, f \in Forms : Hash(f, c) \in Digest
    /\ \A c \in MaybeContents : Tree(c) \in Digest /\ Blob(c) \in Digest /\ OciDigest(c) \in Digest
BY DEF NoDigest, Digest, Hash, Forms, MaybeContents, Tree, Blob, OciDigest

LEMMA NoDepType == NoDep \in Dep
BY DEF NoDep, Dep, Local

LEMMA ResolvedType ==
    ASSUME NEW dep \in Dep, NEW via \in Vias, NEW d \in Digest, NEW c \in MaybeContents
    PROVE  Resolved(dep, via, d, c) \in Res
BY DEF Resolved, LockedVersion, Res, Dep, NoDep, Versions, Local, Vias

LEMMA NewEntryType ==
    ASSUME NEW pkgs \in SUBSET Entry, NEW n \in Names, NEW r \in Res, r.kind \in Kinds
    PROVE  NewEntry(pkgs, n, r) \in Entry
<1>1. Carry(pkgs, n, r) \in [sig : Digest, vendored : Digest]
  BY DigestTypes DEF Carry, CarriedFrom, Slot, Entry
<1>. QED
  BY <1>1 DEF NewEntry, Entry, Res

LEMMA MergeType ==
    ASSUME NEW pkgs \in SUBSET Entry, NEW res \in [Names -> Res], NEW ns \in SUBSET Names,
           \A n \in ns : res[n].kind \in Kinds
    PROVE  Merge(pkgs, res, ns) \in SUBSET Entry
<1>1. \A n \in ns : NewEntry(pkgs, n, res[n]) \in Entry
  BY NewEntryType
<1>. QED
  BY <1>1 DEF Merge

LEMMA ExpectedTypes ==
    ASSUME NEW pkgs \in SUBSET Entry, NEW n
    PROVE  /\ ExpectedOci(pkgs, n) \in Digest
           /\ \A kind : ExpectedFirst(pkgs, n, kind) \in Digest
<1>1. ExpectedOci(pkgs, n) \in Digest
  BY DigestTypes DEF ExpectedOci, LastOci, Entry
<1>2. ASSUME NEW kind PROVE ExpectedFirst(pkgs, n, kind) \in Digest
  BY DigestTypes DEF ExpectedFirst, Find, Entry
<1>. QED
  BY <1>1, <1>2

LEMMA OutcomeTypes ==
    ASSUME TypeOK, NEW n \in Names, NEW v \in Versions, NEW want, NEW offline
    PROVE  /\ OciOutcome(n, v, want, offline)
                \in [st : {"ok", "fail", "drift"}, of : MaybeContents]
           /\ HelmOutcome(n, v, want, offline) \in [st : {"ok", "fail"}, of : MaybeContents]
           /\ GitOutcome(n, v, want) \in [st : {"ok", "fail"}, of : MaybeContents]
           /\ OciOutcome(n, v, want, offline).st = "ok"
                => OciOutcome(n, v, want, offline).of \in Contents
           /\ HelmOutcome(n, v, want, offline).st = "ok"
                => HelmOutcome(n, v, want, offline).of \in Contents
           /\ GitOutcome(n, v, want).st = "ok" => GitOutcome(n, v, want).of \in Contents
           /\ BareAfter(n, v, want)
                \in [Names -> [cloned : BOOLEAN, refs : [Versions -> MaybeContents]]]
<1>. DEFINE O == OciOutcome(n, v, want, offline)
            H == HelmOutcome(n, v, want, offline)
            G == GitOutcome(n, v, want)
<1>u. upstream[n][v] \in MaybeContents /\ bare[n].refs[v] \in MaybeContents
  BY DEF TypeOK
<1>1. /\ O \in [st : {"ok", "fail", "drift"}, of : MaybeContents]
      /\ O.st = "ok" => O.of \in Contents
  BY <1>u DEF OciOutcome, OciServed, CachedPin, TypeOK, MaybeContents
<1>2. /\ H \in [st : {"ok", "fail"}, of : MaybeContents]
      /\ H.st = "ok" => H.of \in Contents
  BY <1>u DEF HelmOutcome, TypeOK, MaybeContents
<1>3. /\ G \in [st : {"ok", "fail"}, of : MaybeContents]
      /\ G.st = "ok" => G.of \in Contents
  BY <1>u DEF GitOutcome, MaybeContents
<1>4. BareAfter(n, v, want)
                \in [Names -> [cloned : BOOLEAN, refs : [Versions -> MaybeContents]]]
  BY DEF BareAfter, TypeOK
<1>. QED
  BY <1>1, <1>2, <1>3, <1>4

-----------------------------------------------------------------------------
(* Type correctness.                                                       *)

TypeInv == TypeOK /\ WorkInv

LEMMA IdleType == Idle \in Job
BY NoDepType, DigestTypes DEF Idle, Job, NoRes, Res, Local, AllVerbs, Phases, Results,
   NoDigest, MaybeContents, Vias

LEMMA TypeInit == Init => TypeInv
<1>. SUFFICES ASSUME Init PROVE TypeInv
  OBVIOUS
<1>1. job \in [Procs -> Job]
  BY IdleType DEF Init
<1>2. \A n \in Names : [via |-> "none", of |-> Nil, pin |-> NoDigest]
                          \in [via : Vias, of : MaybeContents, pin : Digest]
  BY DigestTypes DEF Vias, MaybeContents
<1>3. upstream \in [Names -> [Versions -> MaybeContents]]
  BY DEF Init, MaybeContents
<1>4. TypeOK
  BY <1>1, <1>2, <1>3, NoDepType DEF Init, TypeOK, NoRelease, MaybeContents, Published
<1>5. WorkInv
  BY DEF Init, WorkInv, WorkOf, Idle, VendorPhases
<1>. QED
  BY <1>4, <1>5 DEF TypeInv

LEMMA JobAt == ASSUME TypeOK, NEW p \in Procs PROVE job \in [Procs -> Job] /\ job[p] \in Job
BY DEF TypeOK

(* A step of process p gives it a new record and leaves the others alone.  *)
LEMMA Moved ==
    ASSUME TypeOK, NEW p \in Procs, NEW new \in Job, job' = [job EXCEPT ![p] = new]
    PROVE  /\ job' \in [Procs -> Job]
           /\ job'[p] = new
           /\ \A q \in Procs : q # p => job'[q] = job[q]
BY JobAt

LEMMA WorkMoved ==
    ASSUME TypeInv, NEW p \in Procs, NEW new \in Job, WorkOf(new),
           job' = [job EXCEPT ![p] = new]
    PROVE  job' \in [Procs -> Job] /\ WorkInv'
<1>1. /\ job' \in [Procs -> Job]
      /\ job'[p] = new
      /\ \A q \in Procs : q # p => job'[q] = job[q]
  BY Moved DEF TypeInv
<1>2. \A q \in Procs : WorkOf(job'[q])
  BY <1>1 DEF TypeInv, WorkInv
<1>. QED
  BY <1>1, <1>2 DEF WorkInv, WorkOf

LEMMA TypeFinish ==
    ASSUME TypeInv, NEW p \in Procs, NEW r \in Results, NEW n \in 0..NumNames,
           NEW v \in 0..Local, Finish(p, r) \/ FinishAt(p, r, n, v)
    PROVE  job' \in [Procs -> Job] /\ WorkInv'
<1>1. ASSUME NEW a \in 0..NumNames, NEW w \in 0..Local
      PROVE  /\ [Idle EXCEPT !.verb = job[p].verb, !.arg = a, !.result = r, !.at = w] \in Job
             /\ WorkOf([Idle EXCEPT !.verb = job[p].verb, !.arg = a, !.result = r, !.at = w])
  BY IdleType, JobAt DEF TypeInv, Job, Idle, WorkOf, VendorPhases
<1>2. ASSUME NEW a \in 0..NumNames
      PROVE  /\ [Idle EXCEPT !.verb = job[p].verb, !.arg = a, !.result = r] \in Job
             /\ WorkOf([Idle EXCEPT !.verb = job[p].verb, !.arg = a, !.result = r])
  BY IdleType, JobAt DEF TypeInv, Job, Idle, WorkOf, VendorPhases
<1>3. job[p].arg \in 0..NumNames
  BY JobAt DEF TypeInv, Job
<1>4. CASE Finish(p, r)
  BY <1>2, <1>3, <1>4, WorkMoved DEF Finish
<1>5. CASE FinishAt(p, r, n, v)
  BY <1>1, <1>5, WorkMoved DEF FinishAt
<1>. QED
  BY <1>4, <1>5

LEMMA TypeStart ==
    ASSUME TypeInv, NEW p \in Procs, NEW verb \in AllVerbs, NEW arg \in 0..NumNames,
           NEW flag \in BOOLEAN, NEW phase \in {"mtrunc", "readlock", "vfetch"},
           NEW deps \in [Names -> Dep], Start(p, verb, arg, flag, phase, deps),
           phase = "vfetch" \/ (verb = "update" /\ arg # 0) => arg \in Declared(deps),
           phase = "mtrunc" => verb \in {"add", "remove"}
    PROVE  job' \in [Procs -> Job] /\ WorkInv' /\ settled' \in {"no", "locking", "yes"}
<1>. DEFINE new == [Idle EXCEPT !.verb = verb, !.arg = arg, !.flag = flag,
                                !.phase = phase, !.deps = deps]
<1>1. new \in Job /\ new.phase = phase /\ new.verb = verb /\ new.arg = arg /\ new.deps = deps
  BY IdleType DEF Job, Phases, Idle
<1>2. job' = [job EXCEPT ![p] = new]
  BY DEF Start
<1>3. settled' \in {"no", "locking", "yes"}
  BY DEF Start, TypeInv, TypeOK
<1>. HIDE DEF new
<1>4. WorkOf(new)
  BY <1>1 DEF WorkOf, VendorPhases
<1>. QED
  BY <1>1, <1>2, <1>3, <1>4, WorkMoved

LEMMA TypeAccept ==
    ASSUME TypeInv, NEW p \in Procs, NEW n \in Names, NEW r \in Res, Resolving(p, n),
           r.kind = job[p].deps[n].kind, Accept(p, n, r)
    PROVE  job' \in [Procs -> Job] /\ WorkInv'
<1>. DEFINE new == [job[p] EXCEPT !.todo = @ \ {n}, !.res[n] = r]
<1>0. job[p] \in Job /\ WorkOf(job[p]) /\ job[p].phase = "resolve"
  BY JobAt DEF TypeInv, WorkInv, WorkOf, Resolving, At
<1>1. /\ new \in Job
      /\ new.todo = job[p].todo \ {n}
      /\ new.res = [job[p].res EXCEPT ![n] = r]
      /\ new.deps = job[p].deps
      /\ new.phase = "resolve"
      /\ new.verb = job[p].verb
      /\ new.arg = job[p].arg
  BY <1>0 DEF Job
<1>2. job' = [job EXCEPT ![p] = new]
  BY JobAt DEF Accept, TypeInv
<1>. HIDE DEF new
<1>3. WorkOf(new)
  <2>1. job[p].res \in [Names -> Res]
    BY <1>0 DEF Job
  <2>2. \A m \in Names : new.res[m] = IF m = n THEN r ELSE job[p].res[m]
    BY <1>1, <2>1
  <2>. QED
    BY <1>0, <1>1, <2>2 DEF WorkOf, VendorPhases, Declared
<1>. QED
  BY <1>1, <1>2, <1>3, WorkMoved

LEMMA TypeGoto ==
    ASSUME TypeInv, NEW p \in Procs, NEW phase \in Phases, Goto(p, phase),
           phase # "resolve",
           phase \in VendorPhases => job[p].phase \in VendorPhases \ {"vfetch"},
           phase = "readlock" => job[p].verb # "update",
           phase = "mwrite" => job[p].phase = "mtrunc", phase # "mtrunc"
    PROVE  job' \in [Procs -> Job] /\ WorkInv'
<1>. DEFINE new == [job[p] EXCEPT !.phase = phase]
<1>0. job[p] \in Job /\ WorkOf(job[p])
  BY JobAt DEF TypeInv, WorkInv, WorkOf
<1>1. /\ new \in Job
      /\ new.phase = phase
      /\ new.verb = job[p].verb
      /\ new.arg = job[p].arg
      /\ new.deps = job[p].deps
      /\ new.res = job[p].res
  BY <1>0 DEF Job
<1>2. job' = [job EXCEPT ![p] = new]
  BY JobAt DEF Goto, TypeInv
<1>. HIDE DEF new
<1>3. WorkOf(new)
  BY <1>0, <1>1 DEF WorkOf, VendorPhases
<1>. QED
  BY <1>1, <1>2, <1>3, WorkMoved

LEMMA TypeBegin ==
    ASSUME TypeInv, NEW p \in Procs, Begin(p)
    PROVE  TypeInv'
<1>. USE DEF files, caches, remote
<1>1. job' \in [Procs -> Job] /\ WorkInv' /\ settled' \in {"no", "locking", "yes"}
  <2>0. manifest.deps \in [Names -> Dep] /\ Names \subseteq 0..NumNames
    BY DEF TypeInv, TypeOK, Names
  <2>1. CASE \E n \in Names, dep \in AddableDeps : BeginAdd(p, n, dep)
    <3>1. PICK n \in Names, dep \in AddableDeps : BeginAdd(p, n, dep)
      BY <2>1
    <3>2. [manifest.deps EXCEPT ![n] = dep] \in [Names -> Dep] /\ n \in 0..NumNames
      BY <2>0 DEF AddableDeps
    <3>3. Start(p, "add", n, FALSE, "mtrunc", [manifest.deps EXCEPT ![n] = dep])
      BY <3>1 DEF BeginAdd
    <3>. QED
      BY <3>2, <3>3, TypeStart DEF AllVerbs
  <2>2. CASE \E n \in Names : BeginRemove(p, n)
    <3>1. PICK n \in Names : BeginRemove(p, n)
      BY <2>2
    <3>2. [manifest.deps EXCEPT ![n] = NoDep] \in [Names -> Dep] /\ n \in 0..NumNames
      BY <2>0, NoDepType
    <3>3. Start(p, "remove", n, FALSE, "mtrunc", [manifest.deps EXCEPT ![n] = NoDep])
      BY <3>1 DEF BeginRemove
    <3>. QED
      BY <3>2, <3>3, TypeStart DEF AllVerbs
  <2>3. CASE \E n \in Names : BeginVendor(p, n)
    <3>1. PICK n \in Names : BeginVendor(p, n)
      BY <2>3
    <3>2. n \in 0..NumNames /\ n \in Declared(manifest.deps)
      BY <2>0, <3>1 DEF BeginVendor
    <3>3. Start(p, "vendor", n, FALSE, "vfetch", manifest.deps)
      BY <3>1 DEF BeginVendor
    <3>. QED
      BY <2>0, <3>2, <3>3, TypeStart DEF AllVerbs
  <2>4. CASE BeginLock(p)
    <3>1. 0 \in 0..NumNames
      OBVIOUS
    <3>2. CASE Start(p, "lock", 0, FALSE, "readlock", manifest.deps)
      BY <2>0, <3>1, <3>2, TypeStart DEF AllVerbs
    <3>3. CASE Start(p, "check", 0, FALSE, "readlock", manifest.deps)
      BY <2>0, <3>1, <3>3, TypeStart DEF AllVerbs
    <3>. QED
      BY <2>4, <3>2, <3>3 DEF BeginLock
  <2>5. CASE \E n \in 0..NumNames : BeginUpdate(p, n)
    <3>1. PICK n \in 0..NumNames : BeginUpdate(p, n)
      BY <2>5
    <3>2. n # 0 => n \in Declared(manifest.deps)
      BY <3>1 DEF BeginUpdate
    <3>3. Start(p, "update", n, FALSE, "readlock", manifest.deps)
      BY <3>1 DEF BeginUpdate
    <3>. QED
      BY <2>0, <3>2, <3>3, TypeStart DEF AllVerbs
  <2>6. CASE \E offline \in BOOLEAN : BeginRender(p, offline)
    <3>1. PICK offline \in BOOLEAN : BeginRender(p, offline)
      BY <2>6
    <3>2. Start(p, "render", 0, offline, "readlock", manifest.deps) /\ 0 \in 0..NumNames
      BY <3>1 DEF BeginRender
    <3>. QED
      BY <2>0, <3>2, TypeStart DEF AllVerbs
  <2>. QED
    BY <2>1, <2>2, <2>3, <2>4, <2>5, <2>6 DEF Begin
<1>2. UNCHANGED <<files, caches, remote, rendered>>
  BY DEF Begin, BeginAdd, BeginRemove, BeginVendor, BeginLock, BeginUpdate, BeginRender
<1>. QED
  BY <1>1, <1>2 DEF TypeInv, TypeOK

LEMMA TypeManifestSteps ==
    ASSUME TypeInv, NEW p \in Procs, TruncateManifest(p) \/ WriteManifest(p)
    PROVE  TypeInv'
<1>. USE DEF files, caches, remote
<1>1. CASE TruncateManifest(p)
  <2>1. job' \in [Procs -> Job] /\ WorkInv'
    BY <1>1, TypeGoto DEF TruncateManifest, At, Phases, VendorPhases
  <2>. QED
    BY <1>1, <2>1 DEF TruncateManifest, TypeInv, TypeOK
<1>2. CASE WriteManifest(p)
  <2>1. job[p] \in Job /\ job[p].phase = "mwrite" /\ job[p].verb # "update"
    BY <1>2, JobAt DEF WriteManifest, At, TypeInv, WorkInv, WorkOf
  <2>2. job' \in [Procs -> Job] /\ WorkInv'
    BY <1>2, <2>1, TypeGoto DEF WriteManifest, Phases, VendorPhases
  <2>. QED
    BY <1>2, <2>1, <2>2 DEF WriteManifest, TypeInv, TypeOK, Job
<1>. QED
  BY <1>1, <1>2

LEMMA TypeReadLock ==
    ASSUME TypeInv, NEW p \in Procs,
           ReadLockForResolve(p) \/ ReadLockForRemove(p) \/ ReadLockEnds(p)
    PROVE  TypeInv'
<1>. USE DEF files, caches, remote
<1>0. /\ job[p] \in Job /\ WorkOf(job[p]) /\ LockedPkgs \in SUBSET Entry
      /\ lock.pkgs \in SUBSET Entry
  BY JobAt DEF TypeInv, WorkInv, LockedPkgs, TypeOK
<1>1. CASE ReadLockForResolve(p)
  <2>. DEFINE new == [job[p] EXCEPT !.phase = "resolve", !.pkgs = LockedPkgs,
                                    !.todo = Declared(job[p].deps)]
  <2>1. new \in Job
    BY <1>0 DEF Job, Phases, Declared
  <2>2. job' = [job EXCEPT ![p] = new]
    BY <1>1, JobAt DEF ReadLockForResolve, TypeInv
  <2>3. WorkOf(new)
    BY <1>0, <1>1 DEF ReadLockForResolve, At, WorkOf, VendorPhases, Job
  <2>. QED
    BY <1>1, <2>1, <2>2, <2>3, WorkMoved DEF ReadLockForResolve, TypeInv, TypeOK
<1>2. CASE ReadLockForRemove(p)
  <2>. DEFINE new == [job[p] EXCEPT !.phase = "ltrunc",
                                    !.pkgs = Prune(lock.pkgs, job[p].arg)]
  <2>1. new \in Job
    BY <1>0 DEF Job, Phases, Prune
  <2>2. job' = [job EXCEPT ![p] = new]
    BY <1>2, JobAt DEF ReadLockForRemove, TypeInv
  <2>3. WorkOf(new)
    BY <1>0 DEF WorkOf, VendorPhases, Job
  <2>. QED
    BY <1>2, <2>1, <2>2, <2>3, WorkMoved DEF ReadLockForRemove, TypeInv, TypeOK
<1>3. CASE ReadLockEnds(p)
  <2>1. Finish(p, "fail") \/ Finish(p, "ok")
    BY <1>3 DEF ReadLockEnds
  <2>2. job' \in [Procs -> Job] /\ WorkInv'
    BY <2>1, TypeFinish, SizesAssumption DEF Results, Local
  <2>. QED
    BY <1>3, <2>2 DEF ReadLockEnds, TypeInv, TypeOK
<1>. QED
  BY <1>1, <1>2, <1>3

(* An error of the resolver, whichever source it came from.                *)
LEMMA TypeResolveError ==
    ASSUME TypeInv, NEW p \in Procs, NEW n \in Names, NEW st \in {"fail", "drift"},
           ResolveError(p, n, st)
    PROVE  job' \in [Procs -> Job] /\ WorkInv'
<1>1. job[p] \in Job
  BY JobAt DEF TypeInv
<1>2. job[p].deps[n].ver \in 0..Local /\ n \in 0..NumNames
  BY <1>1 DEF Job, Dep, NoDep, Versions, Local, Names
<1>3. (IF job[p].verb = "add" /\ st # "drift" THEN "soft" ELSE st) \in Results
  BY DEF Results
<1>. QED
  BY <1>2, <1>3, TypeFinish DEF ResolveError

(* A resolver result, whichever source it came from.                       *)
LEMMA TypeResolved ==
    ASSUME TypeInv, NEW p \in Procs, NEW n \in Names, NEW via \in Vias, NEW d \in Digest,
           NEW c \in MaybeContents, Resolving(p, n),
           Accept(p, n, Resolved(job[p].deps[n], via, d, c))
    PROVE  job' \in [Procs -> Job] /\ WorkInv'
<1>1. job[p].deps[n] \in Dep
  BY JobAt DEF TypeInv, Job
<1>2. Resolved(job[p].deps[n], via, d, c).kind = job[p].deps[n].kind
  BY DEF Resolved
<1>. QED
  BY <1>1, <1>2, ResolvedType, TypeAccept

LEMMA TypeResolveStep ==
    ASSUME TypeInv, NEW p \in Procs, NEW n \in Names, ResolveStep(p, n)
    PROVE  TypeInv'
<1>. USE DEF files, caches, remote
<1>. DEFINE dep == job[p].deps[n]
<1>v. dep.kind \in Kinds => dep.ver \in Versions
  BY JobAt DEF TypeInv, Job, Dep, NoDep, Kinds
<1>0. /\ TypeOK /\ vendor[n] \in MaybeContents /\ fork[n] \in MaybeContents
      /\ Tree(fork[n]) \in Digest
  BY DigestTypes DEF TypeInv, TypeOK
<1>1. CASE ResolveReplaced(p, n)
  <2>1. job' \in [Procs -> Job] /\ WorkInv'
    BY <1>0, <1>1, TypeResolved, TypeResolveError DEF ResolveReplaced, Vias
  <2>. QED
    BY <1>1, <2>1 DEF ResolveReplaced, TypeInv, TypeOK
<1>2. CASE RejectReplace(p, n)
  BY <1>2, TypeResolveError DEF RejectReplace, TypeInv, TypeOK
<1>3. CASE ResolveVendored(p, n)
  <2>1. /\ Hash("tree", vendor[n]) \in Digest
        /\ Hash("gittree", vendor[n]) \in Digest
    BY <1>0, DigestTypes DEF Forms
  <2>2. job' \in [Procs -> Job] /\ WorkInv'
    BY <1>0, <1>3, <2>1, TypeResolved DEF ResolveVendored, Vias
  <2>. QED
    BY <1>3, <2>2 DEF ResolveVendored, TypeInv, TypeOK
<1>4. CASE ResolvePath(p, n)
  <2>1. job' \in [Procs -> Job] /\ WorkInv'
    BY <1>0, <1>4, TypeResolved, TypeResolveError DEF ResolvePath, Direct, Vias
  <2>. QED
    BY <1>4, <2>1 DEF ResolvePath, TypeInv, TypeOK
<1>5. CASE ResolveOci(p, n)
  <2>v. dep.ver \in Versions
    BY <1>v, <1>5 DEF ResolveOci, Direct, Kinds
  <2>. DEFINE got == OciOutcome(n, dep.ver, Expected(p, n), Offline(p))
  <2>1. /\ got \in [st : {"ok", "fail", "drift"}, of : MaybeContents]
        /\ got.st = "ok" => got.of \in Contents /\ OciDigest(got.of) \in Digest
    BY <1>0, <2>v, OutcomeTypes, DigestTypes DEF MaybeContents
  <2>. HIDE DEF got
  <2>2. CASE got.st = "ok"
    BY <1>5, <2>1, <2>2, TypeResolved DEF ResolveOci, Direct, Vias, TypeInv, TypeOK, got,
       MaybeContents
  <2>3. CASE got.st # "ok"
    BY <1>5, <2>1, <2>3, TypeResolveError DEF ResolveOci, TypeInv, TypeOK, got
  <2>. QED
    BY <2>2, <2>3
<1>6. CASE ResolveHelm(p, n)
  <2>v. dep.ver \in Versions
    BY <1>v, <1>6 DEF ResolveHelm, Direct, Kinds
  <2>. DEFINE got == HelmOutcome(n, dep.ver, Expected(p, n), Offline(p))
  <2>1. /\ got \in [st : {"ok", "fail"}, of : MaybeContents]
        /\ got.st = "ok" => got.of \in Contents /\ Blob(got.of) \in Digest
    BY <1>0, <2>v, OutcomeTypes, DigestTypes DEF MaybeContents
  <2>. HIDE DEF got
  <2>2. CASE got.st = "ok"
    BY <1>6, <2>1, <2>2, TypeResolved DEF ResolveHelm, Direct, Vias, TypeInv, TypeOK, got,
       MaybeContents
  <2>3. CASE got.st # "ok"
    BY <1>6, <2>1, <2>3, TypeResolveError DEF ResolveHelm, TypeInv, TypeOK, got
  <2>. QED
    BY <2>2, <2>3
<1>7. CASE ResolveGit(p, n)
  <2>v. dep.ver \in Versions
    BY <1>v, <1>7 DEF ResolveGit, Direct, Kinds
  <2>. DEFINE got == GitOutcome(n, dep.ver, NoDigest)
  <2>1. /\ got \in [st : {"ok", "fail"}, of : MaybeContents]
        /\ got.st = "ok" => got.of \in Contents /\ Hash("commit", got.of) \in Digest
        /\ BareAfter(n, dep.ver, NoDigest)
             \in [Names -> [cloned : BOOLEAN, refs : [Versions -> MaybeContents]]]
    BY <1>0, <2>v, OutcomeTypes, DigestTypes DEF MaybeContents, Forms
  <2>. HIDE DEF got
  <2>2. job' \in [Procs -> Job] /\ WorkInv'
    <3>1. CASE ~Offline(p) /\ got.st = "ok"
      BY <1>7, <2>1, <3>1, TypeResolved DEF ResolveGit, Direct, Vias, got, MaybeContents
    <3>2. CASE ~(~Offline(p) /\ got.st = "ok")
      BY <1>7, <3>2, TypeResolveError DEF ResolveGit, got
    <3>. QED
      BY <3>1, <3>2
  <2>. QED
    BY <1>7, <2>1, <2>2 DEF ResolveGit, TypeInv, TypeOK
<1>8. CASE Unreachable(p, n)
  BY <1>8, TypeResolveError DEF Unreachable, TypeInv, TypeOK
<1>. QED
  BY <1>1, <1>2, <1>3, <1>4, <1>5, <1>6, <1>7, <1>8 DEF ResolveStep

LEMMA TypeLockSteps ==
    ASSUME TypeInv, NEW p \in Procs,
           FinishRender(p) \/ FinishCheck(p) \/ RejectImport(p) \/ MergeLock(p)
             \/ TruncateLock(p) \/ WriteLock(p)
    PROVE  TypeInv'
<1>. USE DEF files, caches, remote
<1>0. /\ TypeOK /\ job[p] \in Job /\ WorkOf(job[p]) /\ 0 \in 0..NumNames /\ 0 \in 0..Local
  BY JobAt DEF TypeInv, WorkInv, Local
<1>1. CASE FinishRender(p)
  <2>1. job' \in [Procs -> Job] /\ WorkInv'
    BY <1>0, <1>1, TypeFinish DEF FinishRender, Results
  <2>2. \A n \in Names : /\ job[p].res[n].via \in Vias
                         /\ job[p].res[n].of \in MaybeContents
                         /\ ExpectedOci(job[p].pkgs, n) \in Digest
    BY <1>0, ExpectedTypes DEF Job, Res
  <2>3. rendered' \in [Names -> [via : Vias, of : MaybeContents, pin : Digest]]
    BY <1>1, <2>2 DEF FinishRender
  <2>. QED
    BY <1>1, <2>1, <2>3 DEF FinishRender, TypeInv, TypeOK
<1>2. CASE FinishCheck(p)
  <2>1. Finish(p, "ok") \/ Finish(p, "stale")
    BY <1>2 DEF FinishCheck
  <2>2. job' \in [Procs -> Job] /\ WorkInv'
    BY <1>0, <2>1, TypeFinish DEF Results
  <2>. QED
    BY <1>2, <2>2 DEF FinishCheck, TypeInv, TypeOK
<1>3. CASE RejectImport(p)
  <2>1. job' \in [Procs -> Job] /\ WorkInv'
    BY <1>0, <1>3, TypeFinish DEF RejectImport, Results
  <2>. QED
    BY <1>3, <2>1 DEF RejectImport, TypeInv, TypeOK
<1>4. CASE MergeLock(p)
  <2>. DEFINE new == [job[p] EXCEPT !.phase = "ltrunc", !.pkgs = Merged(p)]
  <2>1. /\ \A n \in Declared(job[p].deps) : job[p].res[n].kind \in Kinds
        /\ Scope(p) \subseteq Declared(job[p].deps)
    BY <1>0, <1>4 DEF MergeLock, AllResolved, At, WorkOf, Scope, Declared, Job, Dep, NoDep
  <2>2. Merged(p) \in SUBSET Entry
    BY <1>0, <2>1, MergeType DEF Merged, Job, Declared
  <2>3. new \in Job
    BY <1>0, <2>2 DEF Job, Phases
  <2>4. job' = [job EXCEPT ![p] = new]
    BY <1>4, JobAt DEF MergeLock, TypeInv
  <2>5. WorkOf(new)
    BY <1>0 DEF WorkOf, VendorPhases, Job
  <2>. QED
    BY <1>4, <2>3, <2>4, <2>5, WorkMoved DEF MergeLock, TypeInv, TypeOK
<1>5. CASE TruncateLock(p)
  <2>1. job' \in [Procs -> Job] /\ WorkInv'
    BY <1>5, TypeGoto DEF TruncateLock, Phases, VendorPhases
  <2>. QED
    BY <1>5, <2>1 DEF TruncateLock, TypeInv, TypeOK
<1>6. CASE WriteLock(p)
  <2>1. job' \in [Procs -> Job] /\ WorkInv'
    BY <1>0, <1>6, TypeFinish DEF WriteLock, Results
  <2>2. lock' \in [st : {"missing", "ok", "torn"}, pkgs : SUBSET Entry]
    BY <1>0, <1>6 DEF WriteLock, Job
  <2>. QED
    BY <1>6, <2>1, <2>2 DEF WriteLock, TypeInv, TypeOK
<1>. QED
  BY <1>1, <1>2, <1>3, <1>4, <1>5, <1>6

LEMMA TypeVendorFetch ==
    ASSUME TypeInv, NEW p \in Procs, VendorFetch(p) \/ VendorUnreachable(p)
    PROVE  TypeInv'
<1>. USE DEF files, caches, remote
<1>. DEFINE n == job[p].arg
            dep == job[p].deps[n]
            got == VendorSource(p)
<1>0. /\ TypeOK /\ job[p] \in Job /\ n \in Declared(job[p].deps)
      /\ job[p].phase = "vfetch"
  BY JobAt DEF TypeInv, WorkInv, WorkOf, VendorFetch, VendorUnreachable, At, VendorPhases
<1>1. /\ n \in Names /\ dep \in Dep /\ dep.kind \in Kinds /\ dep.ver \in Versions
      /\ n \in 0..NumNames /\ dep.ver \in 0..Local
  <2>1. n \in Names /\ dep \in Dep /\ dep.kind # "none"
    BY <1>0 DEF Declared, Job
  <2>2. dep \in [kind : Kinds, ver : Versions, repl : BOOLEAN]
    BY <2>1 DEF Dep, NoDep
  <2>. QED
    BY <2>1, <2>2 DEF Names, Versions, Local
<1>. HIDE DEF n, dep
<1>2. CASE VendorUnreachable(p)
  <2>1. job' \in [Procs -> Job] /\ WorkInv'
    BY <1>1, <1>2, TypeFinish DEF VendorUnreachable, Results, n, dep
  <2>. QED
    BY <1>2, <2>1 DEF VendorUnreachable, TypeInv, TypeOK
<1>3. CASE VendorFetch(p)
  <2>1. /\ got.st \in {"ok", "fail", "drift"}
        /\ got.st = "ok" => got.of \in MaybeContents /\ got.pin \in Digest
        /\ got.st = "ok" /\ dep.kind = "oci" => got.of \in Contents
    <3>1. fork[n] \in MaybeContents
      BY <1>0, <1>1 DEF TypeOK
    <3>2. CASE dep.kind = "path"
      BY <1>1, <3>1, <3>2, DigestTypes DEF VendorSource, Forms, n, dep
    <3>3. CASE dep.kind = "oci"
      BY <1>0, <1>1, <3>3, OutcomeTypes, DigestTypes
      DEF VendorSource, Forms, MaybeContents, n, dep
    <3>4. CASE dep.kind = "git"
      <4>. DEFINE G == GitOutcome(n, dep.ver, ExpectedFirst(LockedPkgs, n, "git"))
      <4>1. got = [st |-> G.st, of |-> G.of, pin |-> Hash("commit", G.of)]
        BY <3>4 DEF VendorSource, n, dep
      <4>2. G \in [st : {"ok", "fail"}, of : MaybeContents]
        BY <1>0, <1>1, OutcomeTypes
      <4>. HIDE DEF G
      <4>. QED
        BY <3>4, <4>1, <4>2, DigestTypes DEF Forms
    <3>5. CASE dep.kind = "helm"
      BY <3>5 DEF VendorSource, n, dep
    <3>. QED
      BY <1>1, <3>2, <3>3, <3>4, <3>5 DEF Kinds
  <2>2. BareAfter(n, dep.ver, ExpectedFirst(LockedPkgs, n, "git"))
             \in [Names -> [cloned : BOOLEAN, refs : [Versions -> MaybeContents]]]
    BY <1>0, <1>1, OutcomeTypes
  <2>. HIDE DEF got
  <2>3. job' \in [Procs -> Job] /\ WorkInv'
    <3>1. CASE got.st # "ok"
      BY <1>1, <1>3, <2>1, <3>1, TypeFinish DEF VendorFetch, Results, n, dep, got
    <3>2. CASE got.st = "ok"
      <4>. DEFINE r == Resolved(dep, "vendor", got.pin, got.of)
                  next == IF vendor[n] = got.of THEN "vlock"
                          ELSE IF vendor[n] # Nil THEN "vremove" ELSE "vcopy"
                  new == [job[p] EXCEPT !.phase = next, !.res[n] = r]
      <4>1. r \in Res /\ r.kind = dep.kind
        BY <1>1, <2>1, <3>2, ResolvedType DEF Resolved, Vias
      <4>2. job' = [job EXCEPT ![p] = new]
        BY <1>3, <3>2, JobAt DEF VendorFetch, TypeInv, n, dep, got
      <4>3. next \in {"vlock", "vremove", "vcopy"}
        OBVIOUS
      <4>. HIDE DEF r, next
      <4>4. /\ new \in Job /\ new.phase = next /\ new.arg = n /\ new.deps = job[p].deps
            /\ new.res[n] = r
        BY <1>0, <1>1, <4>1, <4>3 DEF Job, Phases, n
      <4>. HIDE DEF new
      <4>5. WorkOf(new)
        BY <1>0, <1>1, <4>1, <4>3, <4>4 DEF WorkOf, VendorPhases
      <4>. QED
        BY <4>2, <4>4, <4>5, WorkMoved
    <3>. QED
      BY <3>1, <3>2
  <2>. QED
    BY <1>3, <2>1, <2>2, <2>3 DEF VendorFetch, TypeInv, TypeOK, n, dep, got
<1>. QED
  BY <1>2, <1>3

LEMMA TypeVendorSteps ==
    ASSUME TypeInv, NEW p \in Procs,
           VendorRemoveOld(p) \/ VendorCopyStart(p) \/ VendorCopyEnd(p) \/ VendorLock(p)
    PROVE  TypeInv'
<1>. USE DEF files, caches, remote
<1>0. /\ TypeOK /\ job[p] \in Job /\ job[p].arg \in Names
      /\ WorkOf(job[p]) /\ job[p].res[job[p].arg] \in Res
      /\ job[p].res[job[p].arg].kind \in Kinds
      /\ job[p].phase \in VendorPhases \ {"vfetch"}
  <2>1. job[p] \in Job /\ WorkOf(job[p]) /\ job[p].phase \in VendorPhases \ {"vfetch"}
    BY JobAt DEF TypeInv, WorkInv, VendorRemoveOld, VendorCopyStart, VendorCopyEnd,
       VendorLock, At, VendorPhases
  <2>. QED
    BY <2>1 DEF TypeInv, WorkOf, Declared, Job
<1>1. CASE VendorRemoveOld(p)
  <2>1. job' \in [Procs -> Job] /\ WorkInv'
    BY <1>0, <1>1, TypeGoto DEF VendorRemoveOld, Phases, VendorPhases
  <2>2. vendor' \in [Names -> MaybeContents]
    BY <1>0, <1>1 DEF VendorRemoveOld, TypeOK, MaybeContents
  <2>. QED
    BY <1>1, <2>1, <2>2 DEF VendorRemoveOld, TypeInv, TypeOK
<1>2. CASE VendorCopyStart(p)
  <2>1. job' \in [Procs -> Job] /\ WorkInv'
    BY <1>0, <1>2, TypeGoto DEF VendorCopyStart, Phases, VendorPhases
  <2>2. vendor' \in [Names -> MaybeContents]
    BY <1>0, <1>2 DEF VendorCopyStart, TypeOK, MaybeContents
  <2>. QED
    BY <1>2, <2>1, <2>2 DEF VendorCopyStart, TypeInv, TypeOK
<1>3. CASE VendorCopyEnd(p)
  <2>1. job' \in [Procs -> Job] /\ WorkInv'
    BY <1>0, <1>3, TypeGoto DEF VendorCopyEnd, Phases, VendorPhases
  <2>2. vendor' \in [Names -> MaybeContents]
    BY <1>0, <1>3 DEF VendorCopyEnd, TypeOK, Res
  <2>. QED
    BY <1>3, <2>1, <2>2 DEF VendorCopyEnd, TypeInv, TypeOK
<1>4. CASE VendorLock(p)
  <2>1. CASE lock.st = "torn"
    <3>1. job' \in [Procs -> Job] /\ WorkInv'
      BY <1>4, <2>1, TypeFinish, 0 \in 0..NumNames, 0 \in 0..Local DEF VendorLock, Results, Local
    <3>. QED
      BY <1>4, <3>1 DEF VendorLock, TypeInv, TypeOK
  <2>2. CASE lock.st # "torn"
    <3>. DEFINE n == job[p].arg
                r == [job[p].res[n] EXCEPT !.repl = FALSE]
                pkgs == (LockedPkgs \ Slot(LockedPkgs, n, r.ver))
                           \cup {VendorEntry(LockedPkgs, n, r)}
                new == [job[p] EXCEPT !.phase = "ltrunc", !.pkgs = pkgs]
    <3>1. r \in Res /\ r.kind \in Kinds /\ LockedPkgs \in SUBSET Entry /\ r.of \in MaybeContents
      BY <1>0 DEF Res, LockedPkgs, TypeOK
    <3>. HIDE DEF r
    <3>2. NewEntry(LockedPkgs, n, r) \in Entry
      BY <1>0, <3>1, NewEntryType
    <3>3. VendorEntry(LockedPkgs, n, r) \in Entry
      BY <3>1, <3>2, DigestTypes DEF VendorEntry, Entry
    <3>4. new \in Job
      BY <1>0, <3>1, <3>3 DEF Job, Phases
    <3>5. job' = [job EXCEPT ![p] = new]
      BY <1>4, <2>2, JobAt DEF VendorLock, TypeInv, r
    <3>6. WorkOf(new)
      BY <1>0 DEF WorkOf, VendorPhases, Job
    <3>. QED
      BY <1>4, <3>4, <3>5, <3>6, WorkMoved DEF VendorLock, TypeInv, TypeOK
  <2>. QED
    BY <2>1, <2>2
<1>. QED
  BY <1>1, <1>2, <1>3, <1>4

LEMMA TypeEnvironment ==
    ASSUME TypeInv, Environment
    PROVE  TypeInv'
<1>. USE DEF files, caches, remote, TypeInv, TypeOK
<1>0. job' = job
  BY DEF Environment, Publish, EditFork, EditVendor, EditManifest, Annotate, ClearCaches
<1>1. WorkInv'
  BY <1>0 DEF WorkInv, WorkOf
<1>2. CASE \E n \in Names, v \in Versions, c \in Published : Publish(n, v, c)
  <2>1. PICK n \in Names, v \in Versions, c \in Published : Publish(n, v, c)
    BY <1>2
  <2>2. upstream' \in [Names -> [Versions -> MaybeContents]]
    BY <2>1 DEF Publish, Published, MaybeContents
  <2>3. served' \subseteq Names \X Versions \X Contents
    BY <2>1 DEF Publish, Published
  <2>. QED
    BY <1>1, <2>1, <2>2, <2>3 DEF Publish
<1>3. CASE \E n \in Names, c \in Published \cup {Nil} : EditFork(n, c) \/ EditVendor(n, c)
  <2>1. PICK n \in Names, c \in Published \cup {Nil} : EditFork(n, c) \/ EditVendor(n, c)
    BY <1>3
  <2>2. c \in MaybeContents
    BY <2>1 DEF Published, MaybeContents
  <2>3. CASE EditFork(n, c)
    <3>1. fork' \in [Names -> MaybeContents]
      BY <2>2, <2>3 DEF EditFork
    <3>. QED
      BY <1>1, <2>3, <3>1 DEF EditFork
  <2>4. CASE EditVendor(n, c)
    <3>1. vendor' \in [Names -> MaybeContents]
      BY <2>2, <2>4 DEF EditVendor
    <3>. QED
      BY <1>1, <2>4, <3>1 DEF EditVendor
  <2>. QED
    BY <2>1, <2>3, <2>4
<1>4. CASE \E n \in Names, dep \in EditableDeps : EditManifest(n, dep)
  <2>1. PICK n \in Names, dep \in EditableDeps : EditManifest(n, dep)
    BY <1>4
  <2>2. dep \in Dep /\ [manifest.deps EXCEPT ![n] = dep] \in [Names -> Dep]
    BY <2>1 DEF EditableDeps
  <2>3. manifest' = [manifest EXCEPT !.deps = [manifest.deps EXCEPT ![n] = dep]]
    BY <2>1 DEF EditManifest
  <2>4. manifest' \in [st : {"ok", "torn"}, deps : [Names -> Dep]]
    BY <2>2, <2>3
  <2>. QED
    BY <1>1, <2>1, <2>4 DEF EditManifest
<1>5. CASE \E e \in lock.pkgs : Annotate(e)
  <2>1. PICK e \in lock.pkgs : Annotate(e)
    BY <1>5
  <2>2. lock.pkgs \in SUBSET Entry /\ e \in Entry
    BY <2>1
  <2>3. [e EXCEPT !.sig = e.digest] \in Entry
    BY <2>2 DEF Entry
  <2>4. lock' = [lock EXCEPT !.pkgs = (lock.pkgs \ {e}) \cup {[e EXCEPT !.sig = e.digest]}]
    BY <2>1 DEF Annotate
  <2>. QED
    BY <1>1, <2>1, <2>2, <2>3, <2>4 DEF Annotate
<1>6. CASE ClearCaches
  BY <1>1, <1>6 DEF ClearCaches, NoRelease, MaybeContents
<1>. QED
  BY <1>2, <1>3, <1>4, <1>5, <1>6 DEF Environment

LEMMA TypeNext == TypeInv /\ [Next]_vars => TypeInv'
<1>. SUFFICES ASSUME TypeInv, [Next]_vars PROVE TypeInv'
  OBVIOUS
<1>1. CASE UNCHANGED vars
  BY <1>1 DEF vars, files, caches, remote, TypeInv, TypeOK, WorkInv, WorkOf
<1>2. CASE \E p \in Procs : Begin(p)
  BY <1>2, TypeBegin
<1>3. CASE \E p \in Procs : Run(p)
  BY <1>3, TypeManifestSteps, TypeReadLock, TypeResolveStep, TypeLockSteps,
     TypeVendorFetch, TypeVendorSteps DEF Run
<1>4. ASSUME NEW p \in Procs, Crash(p) PROVE TypeInv'
  <2>1. job' \in [Procs -> Job] /\ WorkInv'
    BY <1>4, TypeFinish, 0 \in 0..NumNames, 0 \in 0..Local DEF Crash, Results, Local
  <2>. QED
    BY <1>4, <2>1 DEF Crash, TypeInv, TypeOK, files, caches, remote
<1>5. CASE Environment
  BY <1>5, TypeEnvironment
<1>. QED
  BY <1>1, <1>2, <1>3, <1>4, <1>5 DEF Next

(* In every reachable state of every instance the files, caches and        *)
(* processes have their type: no step writes an entry of an unknown kind   *)
(* to akua.lock (MergeLock, VendorLock) and a process resolves only what   *)
(* it read in akua.toml.                                                   *)
THEOREM TypeCorrect == Spec => []TypeOK
<1>1. Spec => []TypeInv
  BY TypeInit, TypeNext, PTL DEF Spec
<1>. QED
  BY <1>1, PTL DEF TypeInv

-----------------------------------------------------------------------------
(* The ways a lockfile can change, on disk ...                             *)
DiskStep ==
    \/ lock'.pkgs \in {lock.pkgs, {}}
    \/ \E p \in Procs : lock'.pkgs = job[p].pkgs
    \/ \E e \in lock.pkgs :
          /\ e.sig = NoDigest
          /\ lock'.pkgs = (lock.pkgs \ {e}) \cup {[e EXCEPT !.sig = e.digest]}

(* ... and in a process.                                                   *)
VendorRes(p) == [job[p].res[job[p].arg] EXCEPT !.repl = FALSE]
VendorMerge(p) ==
    (LockedPkgs \ Slot(LockedPkgs, job[p].arg, VendorRes(p).ver))
        \cup {VendorEntry(LockedPkgs, job[p].arg, VendorRes(p))}

HeldStep(p) ==
    \/ job'[p].pkgs \in {job[p].pkgs, {}, LockedPkgs}
    \/ \E n \in Names : job'[p].pkgs = Prune(lock.pkgs, n)
    \/ MergeLock(p) /\ job'[p].pkgs = Merged(p)
    \/ VendorLock(p) /\ job'[p].pkgs = VendorMerge(p)

(* Process p alone moves, and holds pkgs afterwards.                       *)
Moves(p, pkgs) ==
    /\ job'[p].pkgs = pkgs
    /\ \A q \in Procs : q # p => job'[q] = job[q]

LEMMA EndMoves ==
    ASSUME TypeInv, NEW p \in Procs, NEW r, NEW n, NEW v, Finish(p, r) \/ FinishAt(p, r, n, v)
    PROVE  Moves(p, {})
BY JobAt DEF TypeInv, Finish, FinishAt, Moves, Idle

LEMMA StartMoves ==
    ASSUME TypeInv, NEW p \in Procs, NEW verb, NEW arg, NEW flag, NEW phase, NEW deps,
           Start(p, verb, arg, flag, phase, deps)
    PROVE  Moves(p, {})
BY JobAt DEF TypeInv, Start, Moves, Idle

LEMMA GotoMoves ==
    ASSUME TypeInv, NEW p \in Procs, NEW phase, Goto(p, phase)
    PROVE  Moves(p, job[p].pkgs)
BY JobAt DEF TypeInv, Goto, Moves, Job

LEMMA AcceptMoves ==
    ASSUME TypeInv, NEW p \in Procs, NEW n, NEW r, Accept(p, n, r)
    PROVE  Moves(p, job[p].pkgs)
BY JobAt DEF TypeInv, Accept, Moves, Job

LEMMA ResolveMoves ==
    ASSUME TypeInv, NEW p \in Procs, NEW n \in Names, ResolveStep(p, n)
    PROVE  lock' = lock /\ (Moves(p, {}) \/ Moves(p, job[p].pkgs))
<1>1. lock' = lock
  BY DEF ResolveStep, ResolveReplaced, RejectReplace, ResolveVendored, ResolvePath,
     ResolveOci, ResolveHelm, ResolveGit, Unreachable, files
<1>2. (\E r : Accept(p, n, r)) \/ (\E st : ResolveError(p, n, st))
  BY Zenon DEF ResolveStep, ResolveReplaced, RejectReplace, ResolveVendored, ResolvePath,
     ResolveOci, ResolveHelm, ResolveGit, Unreachable
<1>. QED
  BY <1>1, <1>2, AcceptMoves, EndMoves DEF ResolveError

LEMMA MovesHeld ==
    ASSUME NEW p \in Procs, Moves(p, {}) \/ Moves(p, job[p].pkgs) \/ Moves(p, LockedPkgs)
    PROVE  \A q \in Procs : HeldStep(q)
BY DEF Moves, HeldStep

(* Every step that matters to a lockfile, in two disjunctions.             *)
LEMMA LockfileStep ==
    ASSUME TypeInv, [Next]_vars
    PROVE  DiskStep /\ \A q \in Procs : HeldStep(q)
<1>. USE DEF files, caches, remote
<1>1. CASE UNCHANGED vars
  BY <1>1 DEF vars, DiskStep, HeldStep
<1>2. ASSUME NEW p \in Procs, Begin(p) PROVE DiskStep /\ \A q \in Procs : HeldStep(q)
  <2>1. \E verb, arg, flag, phase, deps : Start(p, verb, arg, flag, phase, deps)
    BY <1>2, Zenon DEF Begin, BeginAdd, BeginRemove, BeginVendor, BeginLock, BeginUpdate,
       BeginRender
  <2>2. lock' = lock
    BY <1>2 DEF Begin, BeginAdd, BeginRemove, BeginVendor, BeginLock, BeginUpdate, BeginRender
  <2>. QED
    BY <2>1, <2>2, StartMoves, MovesHeld DEF DiskStep
<1>3. ASSUME NEW p \in Procs, Run(p) PROVE DiskStep /\ \A q \in Procs : HeldStep(q)
  <2>1. CASE TruncateManifest(p) \/ WriteManifest(p) \/ VendorRemoveOld(p)
               \/ VendorCopyStart(p) \/ VendorCopyEnd(p)
    <3>1. lock' = lock
      BY <2>1 DEF TruncateManifest, WriteManifest, VendorRemoveOld, VendorCopyStart,
         VendorCopyEnd
    <3>2. \E phase : Goto(p, phase)
      BY <2>1, Zenon DEF TruncateManifest, WriteManifest, VendorRemoveOld, VendorCopyStart,
         VendorCopyEnd
    <3>. QED
      BY <3>1, <3>2, GotoMoves, MovesHeld DEF DiskStep
  <2>2. CASE \E n \in Names : ResolveStep(p, n)
    BY <2>2, ResolveMoves, MovesHeld DEF DiskStep
  <2>3. CASE ReadLockEnds(p) \/ FinishRender(p) \/ FinishCheck(p) \/ RejectImport(p)
               \/ VendorUnreachable(p)
    <3>1. lock' = lock
      BY <2>3 DEF ReadLockEnds, FinishRender, FinishCheck, RejectImport, VendorUnreachable
    <3>2. \E r, n, v : Finish(p, r) \/ FinishAt(p, r, n, v)
      BY <2>3, Zenon DEF ReadLockEnds, FinishRender, FinishCheck, RejectImport,
         VendorUnreachable
    <3>. QED
      BY <3>1, <3>2, EndMoves, MovesHeld DEF DiskStep
  <2>4. CASE ReadLockForResolve(p)
    <3>1. Moves(p, LockedPkgs)
      BY <2>4, JobAt DEF ReadLockForResolve, Moves, TypeInv, Job
    <3>. QED
      BY <2>4, <3>1, MovesHeld DEF ReadLockForResolve, DiskStep
  <2>5. CASE ReadLockForRemove(p)
    <3>1. Moves(p, Prune(lock.pkgs, job[p].arg)) /\ job[p].arg \in Names
      <4>1. job[p].arg \in Names
        BY <2>5 DEF ReadLockForRemove, HasName, TypeInv, TypeOK, Entry
      <4>. QED
        BY <2>5, <4>1, JobAt DEF ReadLockForRemove, Moves, TypeInv, Job
    <3>. QED
      BY <2>5, <3>1 DEF ReadLockForRemove, DiskStep, HeldStep, Moves
  <2>6. CASE MergeLock(p)
    <3>1. Moves(p, Merged(p))
      BY <2>6, JobAt DEF MergeLock, Moves, TypeInv, Job
    <3>. QED
      BY <2>6, <3>1 DEF MergeLock, DiskStep, HeldStep, Moves
  <2>7. CASE TruncateLock(p)
    <3>1. Moves(p, job[p].pkgs)
      BY <2>7, GotoMoves DEF TruncateLock
    <3>. QED
      BY <2>7, <3>1, MovesHeld DEF TruncateLock, DiskStep
  <2>8. CASE WriteLock(p)
    <3>1. Moves(p, {})
      BY <2>8, EndMoves DEF WriteLock
    <3>. QED
      BY <2>8, <3>1, MovesHeld DEF WriteLock, DiskStep
  <2>9. CASE VendorFetch(p)
    <3>1. lock' = lock
      BY <2>9 DEF VendorFetch
    <3>2. CASE VendorSource(p).st # "ok"
      BY <2>9, <3>1, <3>2, EndMoves, MovesHeld DEF VendorFetch, DiskStep
    <3>3. CASE VendorSource(p).st = "ok"
      <4>1. Moves(p, job[p].pkgs)
        BY <2>9, <3>3, JobAt DEF VendorFetch, Moves, TypeInv, Job
      <4>. QED
        BY <3>1, <4>1, MovesHeld DEF DiskStep
    <3>. QED
      BY <3>2, <3>3
  <2>10. CASE VendorLock(p)
    <3>1. lock' = lock
      BY <2>10 DEF VendorLock
    <3>2. CASE lock.st = "torn"
      BY <2>10, <3>1, <3>2, EndMoves, MovesHeld DEF VendorLock, DiskStep
    <3>3. CASE lock.st # "torn"
      <4>1. Moves(p, VendorMerge(p))
        <5>1. job' = [job EXCEPT ![p].phase = "ltrunc", ![p].pkgs = VendorMerge(p)]
          BY <2>10, <3>3 DEF VendorLock, VendorMerge, VendorRes
        <5>. QED
          BY <5>1, JobAt DEF Moves, TypeInv, Job
      <4>. QED
        BY <2>10, <3>1, <4>1 DEF DiskStep, HeldStep, Moves
    <3>. QED
      BY <3>2, <3>3
  <2>. QED
    BY <1>3, <2>1, <2>2, <2>3, <2>4, <2>5, <2>6, <2>7, <2>8, <2>9, <2>10 DEF Run
<1>4. ASSUME NEW p \in Procs, Crash(p) PROVE DiskStep /\ \A q \in Procs : HeldStep(q)
  <2>1. Moves(p, {}) /\ lock' = lock
    BY <1>4, EndMoves DEF Crash
  <2>. QED
    BY <2>1, MovesHeld DEF DiskStep
<1>5. CASE Environment
  <2>1. job' = job
    BY <1>5 DEF Environment, Publish, EditFork, EditVendor, EditManifest, Annotate,
       ClearCaches
  <2>2. lock' = lock \/ \E e \in lock.pkgs : Annotate(e)
    BY <1>5 DEF Environment, Publish, EditFork, EditVendor, EditManifest, ClearCaches
  <2>3. ASSUME NEW e \in lock.pkgs, Annotate(e) PROVE DiskStep
    <3>1. lock'.pkgs = (lock.pkgs \ {e}) \cup {[e EXCEPT !.sig = e.digest]}
      BY <2>3 DEF Annotate, TypeInv, TypeOK
    <3>. QED
      BY <2>3, <3>1 DEF DiskStep, Annotate
  <2>. QED
    BY <2>1, <2>2, <2>3 DEF DiskStep, HeldStep
<1>. QED
  BY <1>1, <1>2, <1>3, <1>4, <1>5 DEF Next

-----------------------------------------------------------------------------
(* One entry per (name, version).                                          *)

Unique(pkgs) == \A d, e \in pkgs : d.name = e.name /\ d.ver = e.ver => d = e
UniqueInv == Unique(lock.pkgs) /\ \A p \in Procs : Unique(job[p].pkgs)

LEMMA MergeUnique ==
    ASSUME NEW pkgs, NEW res, NEW ns, Unique(pkgs)
    PROVE  Unique(Merge(pkgs, res, ns))
<1>1. \A n : NewEntry(pkgs, n, res[n]).name = n /\ NewEntry(pkgs, n, res[n]).ver = res[n].ver
  BY DEF NewEntry
<1>. QED
  BY <1>1 DEF Unique, Merge

LEMMA VendorMergeUnique ==
    ASSUME NEW p, Unique(LockedPkgs)
    PROVE  Unique(VendorMerge(p))
<1>. DEFINE n == job[p].arg
            r == VendorRes(p)
            new == VendorEntry(LockedPkgs, n, r)
<1>1. new.name = n /\ new.ver = r.ver
  BY DEF VendorEntry, NewEntry
<1>. HIDE DEF n, r, new
<1>2. VendorMerge(p) = (LockedPkgs \ Slot(LockedPkgs, n, r.ver)) \cup {new}
  BY DEF VendorMerge, n, r, new
<1>. QED
  BY <1>1, <1>2 DEF Unique, Slot

LEMMA UniqueStep == TypeInv /\ UniqueInv /\ [Next]_vars => UniqueInv'
<1>. SUFFICES ASSUME TypeInv, UniqueInv, [Next]_vars PROVE UniqueInv'
  OBVIOUS
<1>0. Unique({}) /\ Unique(LockedPkgs)
  BY DEF Unique, UniqueInv, LockedPkgs
<1>1. Unique(lock'.pkgs)
  <2>1. CASE lock'.pkgs \in {lock.pkgs, {}} \/ \E p \in Procs : lock'.pkgs = job[p].pkgs
    BY <1>0, <2>1 DEF UniqueInv
  <2>2. ASSUME NEW e \in lock.pkgs,
               lock'.pkgs = (lock.pkgs \ {e}) \cup {[e EXCEPT !.sig = e.digest]}
        PROVE  Unique(lock'.pkgs)
    <3>1. /\ [e EXCEPT !.sig = e.digest].name = e.name
          /\ [e EXCEPT !.sig = e.digest].ver = e.ver
      BY DEF TypeInv, TypeOK, Entry
    <3>. QED
      BY <2>2, <3>1 DEF UniqueInv, Unique
  <2>. QED
    BY <2>1, <2>2, LockfileStep DEF DiskStep
<1>2. ASSUME NEW p \in Procs PROVE Unique(job'[p].pkgs)
  <2>1. CASE job'[p].pkgs \in {job[p].pkgs, {}, LockedPkgs}
    BY <1>0, <2>1 DEF UniqueInv
  <2>2. CASE \E n \in Names : job'[p].pkgs = Prune(lock.pkgs, n)
    BY <2>2 DEF UniqueInv, Unique, Prune
  <2>3. CASE job'[p].pkgs = Merged(p)
    BY <2>3, MergeUnique DEF UniqueInv, Merged
  <2>4. CASE job'[p].pkgs = VendorMerge(p)
    BY <1>0, <2>4, VendorMergeUnique
  <2>. QED
    BY <2>1, <2>2, <2>3, <2>4, LockfileStep DEF HeldStep
<1>. QED
  BY <1>1, <1>2 DEF UniqueInv

(* However verbs interleave, crash or race, no lockfile on disk or about   *)
(* to be written has two entries of one name and version                   *)
(* (upsert_locked_from_source replaces the slot it finds), so that         *)
(* AkuaLock::validate never rejects what a verb wrote.                     *)
THEOREM UniqueEntries == Spec => []OneEntryPerVersion
<1>1. Init => UniqueInv
  BY DEF Init, UniqueInv, Unique, Idle
<1>2. UniqueInv => OneEntryPerVersion
  BY DEF UniqueInv, OneEntryPerVersion, Unique, Lockfiles
<1>. QED
  BY <1>1, <1>2, TypeInit, TypeNext, UniqueStep, PTL DEF Spec

-----------------------------------------------------------------------------
(* Metadata bound to the bytes.                                            *)

EntryBound(e) ==
    /\ e.sig # NoDigest => e.sig = e.digest
    /\ e.vendored # NoDigest => e.digest.form = "commit" /\ e.vendored = Tree(e.digest.of)
Bound(pkgs) == \A e \in pkgs : EntryBound(e)

(* The pin vendor add found is the tree it copies or the commit of that    *)
(* tree: only then is the tree's hash a vendor_digest of the pin.          *)
VendorPins ==
    \A p \in Procs : job[p].phase \in VendorPhases \ {"vfetch"} =>
        LET r == job[p].res[job[p].arg]
        IN  r.digest \in {Tree(r.of), Hash("commit", r.of)}

BoundInv == Bound(lock.pkgs) /\ (\A p \in Procs : Bound(job[p].pkgs)) /\ VendorPins

LEMMA NewEntryBound ==
    ASSUME NEW pkgs, NEW n, NEW r, Bound(pkgs)
    PROVE  EntryBound(NewEntry(pkgs, n, r))
<1>1. CASE CarriedFrom(pkgs, n, r) = {}
  BY <1>1 DEF NewEntry, Carry, EntryBound
<1>2. CASE CarriedFrom(pkgs, n, r) # {}
  <2>. DEFINE e == CHOOSE x \in CarriedFrom(pkgs, n, r) : TRUE
  <2>1. e \in pkgs /\ e.digest = r.digest
    BY <1>2 DEF CarriedFrom, Slot
  <2>2. Carry(pkgs, n, r) = [sig |-> e.sig, vendored |-> e.vendored]
    BY <1>2 DEF Carry
  <2>. HIDE DEF e
  <2>. QED
    BY <2>1, <2>2 DEF NewEntry, EntryBound, Bound
<1>. QED
  BY <1>1, <1>2

LEMMA VendorEntryBound ==
    ASSUME NEW pkgs, NEW n, NEW r, Bound(pkgs), r.digest \in {Tree(r.of), Hash("commit", r.of)}
    PROVE  EntryBound(VendorEntry(pkgs, n, r))
<1>1. EntryBound(NewEntry(pkgs, n, r)) /\ NewEntry(pkgs, n, r).digest = r.digest
  BY NewEntryBound DEF NewEntry
<1>2. CASE r.digest = Tree(r.of)
  BY <1>1, <1>2 DEF VendorEntry
<1>3. CASE r.digest # Tree(r.of)
  <2>. DEFINE e == [NewEntry(pkgs, n, r) EXCEPT !.vendored = Tree(r.of)]
  <2>1. e.sig = NewEntry(pkgs, n, r).sig /\ e.digest = r.digest /\ e.vendored = Tree(r.of)
    BY DEF NewEntry
  <2>2. r.digest.form = "commit" /\ r.digest.of = r.of
    BY <1>3 DEF Hash
  <2>. HIDE DEF e
  <2>3. EntryBound(e)
    BY <1>1, <2>1, <2>2 DEF EntryBound
  <2>. QED
    BY <1>3, <2>3 DEF VendorEntry, e
<1>. QED
  BY <1>2, <1>3

Copying == VendorPhases \ {"vfetch"}

(* A process is copying after a step only if it was copying before, or if  *)
(* it has just fetched what it is to copy.                                 *)
LEMMA CopyingStep ==
    ASSUME TypeInv, [Next]_vars, NEW p \in Procs, job'[p].phase \in Copying
    PROVE  \/ /\ job[p].phase \in Copying
              /\ job'[p].res = job[p].res /\ job'[p].arg = job[p].arg
           \/ VendorFetch(p) /\ VendorSource(p).st = "ok"
<1>. USE DEF Copying, VendorPhases
<1>. DEFINE Kept == /\ job[p].phase \in Copying
                    /\ job'[p].res = job[p].res /\ job'[p].arg = job[p].arg
<1>0. job'[p] = job[p] => Kept
  OBVIOUS
<1>1. CASE UNCHANGED vars
  BY <1>0, <1>1 DEF vars
<1>2. ASSUME NEW q \in Procs, \E pkgs : Moves(q, pkgs), q # p PROVE Kept
  BY <1>0, <1>2 DEF Moves
<1>3. ASSUME \E r, n, v : Finish(p, r) \/ FinishAt(p, r, n, v) PROVE FALSE
  <2>1. PICK r, n, v : Finish(p, r) \/ FinishAt(p, r, n, v)
    BY <1>3
  <2>2. job'[p].phase = "idle"
    BY <2>1, JobAt DEF Finish, FinishAt, Idle, TypeInv
  <2>. QED
    BY <2>2
<1>4. ASSUME NEW q \in Procs, Begin(q) PROVE Kept
  <2>1. PICK verb, arg, flag, phase, deps :
            Start(q, verb, arg, flag, phase, deps) /\ phase \in {"mtrunc", "readlock", "vfetch"}
    BY <1>4, Zenon DEF Begin, BeginAdd, BeginRemove, BeginVendor, BeginLock, BeginUpdate,
       BeginRender
  <2>2. q = p => job'[p].phase = phase
    BY <2>1, JobAt DEF Start, TypeInv, Idle
  <2>. QED
    BY <1>2, <2>1, <2>2, StartMoves
<1>5. ASSUME NEW q \in Procs, NEW n \in Names, ResolveStep(q, n) PROVE Kept
  <2>1. (\E r : Resolving(q, n) /\ Accept(q, n, r)) \/ (\E st : ResolveError(q, n, st))
    BY <1>5, Zenon DEF ResolveStep, ResolveReplaced, RejectReplace, ResolveVendored,
       ResolvePath, ResolveOci, ResolveHelm, ResolveGit, Unreachable, Direct
  <2>2. q = p => \A r : ~(Resolving(p, n) /\ Accept(p, n, r))
    BY JobAt DEF Accept, Resolving, At, TypeInv, Job
  <2>. QED
    BY <1>2, <1>3, <1>5, <2>1, <2>2, ResolveMoves DEF ResolveError
<1>6. ASSUME NEW q \in Procs,
             ReadLockEnds(q) \/ FinishRender(q) \/ FinishCheck(q) \/ RejectImport(q)
               \/ VendorUnreachable(q) \/ Crash(q) \/ WriteLock(q)
      PROVE  Kept
  <2>1. \E r, n, v : Finish(q, r) \/ FinishAt(q, r, n, v)
    BY <1>6, Zenon DEF ReadLockEnds, FinishRender, FinishCheck, RejectImport,
       VendorUnreachable, Crash, WriteLock
  <2>2. q # p
    BY <1>3, <2>1
  <2>3. \E pkgs : Moves(q, pkgs)
    BY <2>1, EndMoves
  <2>. QED
    BY <1>2, <2>2, <2>3
<1>7. ASSUME NEW q \in Procs,
             TruncateManifest(q) \/ WriteManifest(q) \/ TruncateLock(q) \/ VendorRemoveOld(q)
               \/ VendorCopyStart(q) \/ VendorCopyEnd(q)
      PROVE  Kept
  <2>0. /\ TruncateManifest(q) => Goto(q, "mwrite")
        /\ WriteManifest(q) => Goto(q, "readlock")
        /\ TruncateLock(q) => Goto(q, "lwrite")
        /\ VendorRemoveOld(q) => Goto(q, "vcopy") /\ job[q].phase = "vremove"
        /\ VendorCopyStart(q) => Goto(q, "vcopying") /\ job[q].phase = "vcopy"
        /\ VendorCopyEnd(q) => Goto(q, "vlock") /\ job[q].phase = "vcopying"
    BY DEF TruncateManifest, WriteManifest, TruncateLock, VendorRemoveOld,
       VendorCopyStart, VendorCopyEnd, At
  <2>1. PICK phase : Goto(q, phase) /\ (phase \in Copying => job[q].phase \in Copying)
    BY <1>7, <2>0
  <2>2. job'[q] = [job[q] EXCEPT !.phase = phase]
    BY <2>1, JobAt DEF Goto, TypeInv
  <2>3. CASE q = p
    <3>1. /\ job'[p].phase = phase
          /\ job'[p].res = job[p].res
          /\ job'[p].arg = job[p].arg
      BY <2>2, <2>3, JobAt DEF TypeInv, Job
    <3>. QED
      BY <2>1, <2>3, <3>1
  <2>4. CASE q # p
    BY <1>2, <2>1, <2>4, GotoMoves
  <2>. QED
    BY <2>3, <2>4
<1>8. ASSUME NEW q \in Procs,
             ReadLockForResolve(q) \/ ReadLockForRemove(q) \/ MergeLock(q) \/ VendorLock(q)
      PROVE  Kept
  <2>1. CASE q # p
    BY <1>0, <1>8, <2>1, JobAt
    DEF ReadLockForResolve, ReadLockForRemove, MergeLock, VendorLock, Finish, TypeInv
  <2>2. CASE q = p
    <3>1. CASE ReadLockForResolve(q) \/ ReadLockForRemove(q) \/ MergeLock(q)
      <4>1. job'[p].phase \in {"resolve", "ltrunc"}
        BY <2>2, <3>1, JobAt
        DEF ReadLockForResolve, ReadLockForRemove, MergeLock, TypeInv, Job
      <4>. QED
        BY <4>1
    <3>2. CASE VendorLock(q) /\ lock.st = "torn"
      BY <1>3, <2>2, <3>2 DEF VendorLock
    <3>3. CASE VendorLock(q) /\ lock.st # "torn"
      <4>1. PICK pkgs : job' = [job EXCEPT ![p].phase = "ltrunc", ![p].pkgs = pkgs]
        BY <2>2, <3>3 DEF VendorLock
      <4>2. job'[p].phase = "ltrunc"
        BY <4>1, JobAt DEF TypeInv, Job
      <4>. QED
        BY <4>2
    <3>. QED
      BY <1>8, <3>1, <3>2, <3>3
  <2>. QED
    BY <2>1, <2>2
<1>9. ASSUME NEW q \in Procs, VendorFetch(q)
      PROVE  Kept \/ (VendorFetch(p) /\ VendorSource(p).st = "ok")
  <2>1. CASE q # p
    BY <1>0, <1>9, <2>1, JobAt DEF VendorFetch, FinishAt, TypeInv
  <2>2. CASE q = p
    BY <1>3, <1>9, <2>2 DEF VendorFetch
  <2>. QED
    BY <2>1, <2>2
<1>10. CASE Environment
  BY <1>0, <1>10
  DEF Environment, Publish, EditFork, EditVendor, EditManifest, Annotate, ClearCaches
<1>. QED
  BY <1>1, <1>4, <1>5, <1>6, <1>7, <1>8, <1>9, <1>10 DEF Next, Run

(* resolve_source records the tree of what it fetched, or its commit.      *)
LEMMA VendorSourcePin ==
    ASSUME NEW p, VendorSource(p).st = "ok"
    PROVE  VendorSource(p).pin \in {Tree(VendorSource(p).of), Hash("commit", VendorSource(p).of)}
BY DEF VendorSource, Tree

LEMMA BoundStep == TypeInv /\ BoundInv /\ [Next]_vars => BoundInv'
<1>. SUFFICES ASSUME TypeInv, BoundInv, [Next]_vars PROVE BoundInv'
  OBVIOUS
<1>0. Bound({}) /\ Bound(LockedPkgs)
  BY DEF Bound, BoundInv, LockedPkgs
<1>1. Bound(lock'.pkgs)
  <2>1. CASE lock'.pkgs \in {lock.pkgs, {}} \/ \E p \in Procs : lock'.pkgs = job[p].pkgs
    BY <1>0, <2>1 DEF BoundInv
  <2>2. ASSUME NEW e \in lock.pkgs,
               lock'.pkgs = (lock.pkgs \ {e}) \cup {[e EXCEPT !.sig = e.digest]}
        PROVE  Bound(lock'.pkgs)
    <3>1. /\ [e EXCEPT !.sig = e.digest].sig = e.digest
          /\ [e EXCEPT !.sig = e.digest].digest = e.digest
          /\ [e EXCEPT !.sig = e.digest].vendored = e.vendored
      BY DEF TypeInv, TypeOK, Entry
    <3>. QED
      BY <2>2, <3>1 DEF BoundInv, Bound, EntryBound
  <2>. QED
    BY <2>1, <2>2, LockfileStep DEF DiskStep
<1>2. ASSUME NEW p \in Procs PROVE Bound(job'[p].pkgs)
  <2>1. CASE job'[p].pkgs \in {job[p].pkgs, {}, LockedPkgs}
    BY <1>0, <2>1 DEF BoundInv
  <2>2. CASE \E n \in Names : job'[p].pkgs = Prune(lock.pkgs, n)
    BY <2>2 DEF BoundInv, Bound, Prune
  <2>3. CASE job'[p].pkgs = Merged(p)
    BY <2>3, NewEntryBound DEF BoundInv, Bound, Merged, Merge
  <2>4. CASE VendorLock(p) /\ job'[p].pkgs = VendorMerge(p)
    <3>. DEFINE r == VendorRes(p)
    <3>1. job[p].phase \in VendorPhases \ {"vfetch"}
      BY <2>4 DEF VendorLock, At, VendorPhases
    <3>2. job[p].res[job[p].arg] \in Res
      BY <3>1, JobAt DEF TypeInv, WorkInv, WorkOf, Declared, Job
    <3>3. r.digest \in {Tree(r.of), Hash("commit", r.of)}
      BY <3>1, <3>2 DEF BoundInv, VendorPins, VendorRes, Res
    <3>. HIDE DEF r
    <3>4. EntryBound(VendorEntry(LockedPkgs, job[p].arg, r))
      BY <1>0, <3>3, VendorEntryBound
    <3>. QED
      BY <1>0, <2>4, <3>4 DEF Bound, VendorMerge, r
  <2>. QED
    BY <2>1, <2>2, <2>3, <2>4, LockfileStep DEF HeldStep
<1>3. ASSUME NEW p \in Procs, job'[p].phase \in Copying
      PROVE  LET r == job'[p].res[job'[p].arg]
             IN  r.digest \in {Tree(r.of), Hash("commit", r.of)}
  <2>1. CASE /\ job[p].phase \in Copying
             /\ job'[p].res = job[p].res /\ job'[p].arg = job[p].arg
    BY <2>1 DEF BoundInv, VendorPins, Copying
  <2>2. CASE VendorFetch(p) /\ VendorSource(p).st = "ok"
    <3>. DEFINE n == job[p].arg
                got == VendorSource(p)
                r == Resolved(job[p].deps[n], "vendor", got.pin, got.of)
    <3>1. n \in Names /\ job[p] \in Job
      BY <2>2, JobAt DEF VendorFetch, At, TypeInv, WorkInv, WorkOf, VendorPhases, Declared
    <3>2. r.digest = got.pin /\ r.of = got.of
      BY DEF Resolved
    <3>. HIDE DEF r
    <3>3. job'[p].arg = n /\ job'[p].res[n] = r
      BY <2>2, <3>1, JobAt DEF VendorFetch, TypeInv, Job, r
    <3>. QED
      BY <2>2, <3>2, <3>3, VendorSourcePin
  <2>. QED
    BY <1>3, <2>1, <2>2, CopyingStep
<1>. QED
  BY <1>1, <1>2, <1>3 DEF BoundInv, VendorPins, Copying

(* However verbs interleave, crash or race, no lockfile on disk or about   *)
(* to be written carries a signature that was issued for other bytes, or a *)
(* vendor_digest of another commit than the entry pins                     *)
(* (upsert_locked_from_source, upsert_vendor_lock_entry).                  *)
THEOREM MetadataFollowsBytes == Spec => []MetadataBound
<1>1. Init => BoundInv
  BY DEF Init, BoundInv, Bound, VendorPins, Idle, VendorPhases
<1>2. BoundInv => MetadataBound
  BY DEF BoundInv, MetadataBound, Bound, EntryBound, Lockfiles
<1>. QED
  BY <1>1, <1>2, TypeInit, TypeNext, BoundStep, PTL DEF Spec
=============================================================================
