------------------------ MODULE WorkspaceSoloProofs ------------------------
(***************************************************************************)
(* What one akuapkg process at a time can rely on: nobody else writes      *)
(* akua.toml, akua.lock or .akua/vendor while a verb runs, so that what a  *)
(* verb read when it began still holds when it writes.                     *)
(***************************************************************************)
EXTENDS WorkspacePinProofs, WellFoundedInduction

-----------------------------------------------------------------------------
(* Bounds of sets of numbers.                                              *)

LEMMA HasLeast ==
    ASSUME NEW T \in SUBSET Nat, T # {}
    PROVE  \E x \in T : \A y \in T : x <= y
<1>1. PICK x \in T : \A y \in T : <<y, x>> \notin OpToRel(<, Nat)
  BY NatLessThanWellFounded, WFMin
<1>2. \A y \in T : ~(y < x)
  BY <1>1 DEF OpToRel
<1>. QED
  BY <1>2

LEMMA HasGreatest ==
    ASSUME NEW T, NEW N \in Nat, T \subseteq 0..N, T # {}
    PROVE  \E x \in T : \A y \in T : y <= x
<1>. DEFINE U == {u \in 0..N : N - u \in T}
<1>1. ASSUME NEW x \in T PROVE x \in 0..N /\ N - x \in U
  <2>1. x \in 0..N /\ N - x \in 0..N /\ N - (N - x) = x
    OBVIOUS
  <2>2. N - (N - x) \in T
    BY <2>1, Zenon
  <2>. QED
    BY <2>1, <2>2, Zenon
<1>2. U \in SUBSET Nat /\ \A u \in U : u \in 0..N /\ N - u \in T
  OBVIOUS
<1>. HIDE DEF U
<1>3. PICK u \in U : \A w \in U : u <= w
  BY <1>1, <1>2, HasLeast
<1>4. ASSUME NEW y \in T PROVE y <= N - u
  BY <1>1, <1>2, <1>3
<1>. QED
  BY <1>2, <1>3, <1>4

-----------------------------------------------------------------------------
(* What the resolver found, branch by branch.                              *)

(* The state the resolver looks at besides the lockfile.                   *)
Now == [fork |-> fork, vendor |-> vendor, blobs |-> blobs, up |-> upstream, bare |-> bare]

HasVendor(w, n, dep) == ~dep.repl /\ dep.kind # "helm" /\ w.vendor[n] # Nil
(* Neither replaced nor vendored: the source is asked.                     *)
Goes(w, n, dep, kind) == dep.kind = kind /\ ~dep.repl /\ ~HasVendor(w, n, dep)

Plainly(dep, res) ==
    res.kind = dep.kind /\ res.ver = LockedVersion(dep) /\ res.repl = dep.repl
ByReplace(w, n, dep, res) ==
    /\ dep.repl /\ dep.kind # "helm" /\ w.fork[n] # Nil
    /\ res.via = "replace" /\ res.digest = Tree(w.fork[n])
ByVendor(w, n, dep, res) ==
    /\ HasVendor(w, n, dep) /\ res.via = "vendor"
    /\ res.digest = Hash(IF dep.kind = "git" THEN "gittree" ELSE "tree", w.vendor[n])
ByPath(w, n, dep, res) ==
    /\ Goes(w, n, dep, "path") /\ w.fork[n] # Nil
    /\ res.via = "path" /\ res.digest = Tree(w.fork[n])
ByOci(p, n, dep, res) ==
    /\ Goes(Now, n, dep, "oci") /\ res.via = "oci" /\ res.digest = Blob(res.of)
    /\ OciOutcome(n, dep.ver, Expected(p, n), Offline(p)) = [st |-> "ok", of |-> res.of]
    /\ blobs' = blobs \cup {res.of}
ByHelm(p, n, dep, res) ==
    /\ Goes(Now, n, dep, "helm") /\ res.via = "helm" /\ res.digest = Blob(res.of)
    /\ HelmOutcome(n, dep.ver, Expected(p, n), Offline(p)) = [st |-> "ok", of |-> res.of]
ByGit(p, n, dep, res) ==
    /\ Goes(Now, n, dep, "git") /\ res.via = "git" /\ res.digest = Hash("commit", res.of)
    /\ GitOutcome(n, dep.ver, NoDigest) = [st |-> "ok", of |-> res.of] /\ ~Offline(p)
    /\ bare' = BareAfter(n, dep.ver, NoDigest)
Answer(p, n, dep, res) ==
    \/ ByReplace(Now, n, dep, res) \/ ByVendor(Now, n, dep, res) \/ ByPath(Now, n, dep, res)
    \/ ByOci(p, n, dep, res) \/ ByHelm(p, n, dep, res) \/ ByGit(p, n, dep, res)

LEMMA ResolvedFields ==
    ASSUME NEW dep, NEW via, NEW d, NEW c
    PROVE  LET res == Resolved(dep, via, d, c)
           IN  /\ res.kind = dep.kind /\ res.ver = LockedVersion(dep)
               /\ res.repl = (via = "replace") /\ res.via = via
               /\ res.digest = d /\ res.of = c
BY DEF Resolved

LEMMA TakenCases ==
    ASSUME TypeInv, NEW p \in Procs, NEW n \in Names, NEW r, ResolveStep(p, n), Accept(p, n, r)
    PROVE  /\ Plainly(job[p].deps[n], job'[p].res[n])
           /\ Answer(p, n, job[p].deps[n], job'[p].res[n])
<1>. DEFINE dep == job[p].deps[n]
            res == job'[p].res[n]
<1>1. ASSUME NEW x, Accept(p, n, x) PROVE res = x
  BY <1>1, AcceptFields
<1>2. res = r /\ job'[p].phase = "resolve"
  BY AcceptFields, ResolveEnds DEF Resolving, At
<1>3. ASSUME NEW st, ResolveError(p, n, st) PROVE FALSE
  <2>1. job'[p].phase = "idle"
    BY <1>3, EndFields DEF ResolveError
  <2>. QED
    BY <1>2, <2>1
<1>4. ~RejectReplace(p, n) /\ ~Unreachable(p, n)
  BY <1>3 DEF RejectReplace, Unreachable
<1>5. dep.kind \in Kinds /\ dep.repl \in BOOLEAN /\ dep.ver \in Versions
  BY ResolveEnds, ResolvingVersion, DeclaredVersion
<1>6. ASSUME NEW via, NEW d, NEW c, Accept(p, n, Resolved(dep, via, d, c)),
             (via = "replace") = dep.repl
      PROVE  Plainly(dep, res) /\ res.via = via /\ res.digest = d /\ res.of = c
  <2>1. res = Resolved(dep, via, d, c)
    BY <1>1, <1>6
  <2>. QED
    BY <1>6, <2>1, ResolvedFields DEF Plainly
<1>7. \A kind : Direct(p, n, kind) => Goes(Now, n, dep, kind) /\ ~dep.repl
  BY DEF Direct, FromVendor, Goes, HasVendor, Now
<1>8. CASE ResolveReplaced(p, n)
  <2>1. /\ dep.repl /\ dep.kind # "helm" /\ fork[n] # Nil
        /\ Accept(p, n, Resolved(dep, "replace", Tree(fork[n]), fork[n]))
    BY <1>3, <1>8 DEF ResolveReplaced
  <2>2. Plainly(dep, res) /\ res.via = "replace" /\ res.digest = Tree(fork[n])
    BY <1>5, <1>6, <2>1
  <2>. QED
    BY <2>1, <2>2 DEF Answer, ByReplace, Now
<1>9. CASE ResolveVendored(p, n)
  <2>. DEFINE d == Hash(IF dep.kind = "git" THEN "gittree" ELSE "tree", vendor[n])
  <2>1. FromVendor(p, n) /\ Accept(p, n, Resolved(dep, "vendor", d, vendor[n]))
    BY <1>9 DEF ResolveVendored
  <2>. HIDE DEF d
  <2>2. Plainly(dep, res) /\ res.via = "vendor" /\ res.digest = d
    BY <1>5, <1>6, <2>1 DEF FromVendor
  <2>3. HasVendor(Now, n, dep)
    BY <2>1 DEF FromVendor, HasVendor, Now
  <2>. QED
    BY <2>2, <2>3 DEF Answer, ByVendor, Now, d
<1>10. CASE ResolvePath(p, n)
  <2>1. /\ Direct(p, n, "path") /\ fork[n] # Nil
        /\ Accept(p, n, Resolved(dep, "path", Tree(fork[n]), fork[n]))
    BY <1>3, <1>10 DEF ResolvePath
  <2>2. Plainly(dep, res) /\ res.via = "path" /\ res.digest = Tree(fork[n])
    BY <1>5, <1>6, <1>7, <2>1
  <2>. QED
    BY <1>7, <2>1, <2>2 DEF Answer, ByPath, Now
<1>11. CASE ResolveOci(p, n)
  <2>. DEFINE got == OciOutcome(n, dep.ver, Expected(p, n), Offline(p))
  <2>1. /\ Direct(p, n, "oci") /\ got.st = "ok" /\ blobs' = blobs \cup {got.of}
        /\ Accept(p, n, Resolved(dep, "oci", OciDigest(got.of), got.of))
    BY <1>3, <1>11 DEF ResolveOci
  <2>2. got \in [st : {"ok", "fail", "drift"}, of : MaybeContents]
    BY <1>5, OutcomeTypes DEF TypeInv
  <2>. HIDE DEF got
  <2>3. Plainly(dep, res) /\ res.via = "oci" /\ res.digest = Blob(got.of) /\ res.of = got.of
    BY <1>5, <1>6, <1>7, <2>1 DEF OciDigest
  <2>4. got = [st |-> "ok", of |-> res.of]
    BY <2>1, <2>2, <2>3
  <2>. QED
    BY <1>7, <2>1, <2>3, <2>4 DEF Answer, ByOci, got
<1>12. CASE ResolveHelm(p, n)
  <2>. DEFINE got == HelmOutcome(n, dep.ver, Expected(p, n), Offline(p))
  <2>1. /\ Direct(p, n, "helm") /\ got.st = "ok"
        /\ Accept(p, n, Resolved(dep, "helm", Blob(got.of), got.of))
    BY <1>3, <1>12 DEF ResolveHelm
  <2>2. got \in [st : {"ok", "fail"}, of : MaybeContents]
    BY <1>5, OutcomeTypes DEF TypeInv
  <2>. HIDE DEF got
  <2>3. Plainly(dep, res) /\ res.via = "helm" /\ res.digest = Blob(got.of) /\ res.of = got.of
    BY <1>5, <1>6, <1>7, <2>1
  <2>4. got = [st |-> "ok", of |-> res.of]
    BY <2>1, <2>2, <2>3
  <2>. QED
    BY <1>7, <2>1, <2>3, <2>4 DEF Answer, ByHelm, got
<1>13. CASE ResolveGit(p, n)
  <2>. DEFINE got == GitOutcome(n, dep.ver, NoDigest)
  <2>1. /\ Direct(p, n, "git") /\ got.st = "ok" /\ ~Offline(p)
        /\ bare' = BareAfter(n, dep.ver, NoDigest)
        /\ Accept(p, n, Resolved(dep, "git", Hash("commit", got.of), got.of))
    BY <1>3, <1>13 DEF ResolveGit
  <2>2. got \in [st : {"ok", "fail"}, of : MaybeContents]
    BY <1>5, OutcomeTypes DEF TypeInv
  <2>. HIDE DEF got
  <2>3. /\ Plainly(dep, res) /\ res.via = "git"
        /\ res.digest = Hash("commit", got.of) /\ res.of = got.of
    BY <1>5, <1>6, <1>7, <2>1
  <2>4. got = [st |-> "ok", of |-> res.of]
    BY <2>1, <2>2, <2>3
  <2>. QED
    BY <1>7, <2>1, <2>3, <2>4 DEF Answer, ByGit, got
<1>. QED
  BY <1>4, <1>8, <1>9, <1>10, <1>11, <1>12, <1>13 DEF ResolveStep
-----------------------------------------------------------------------------
(* Every entry has a digest, and the version its kind calls for.           *)

Formed(x) == x.kind # "none" =>
    /\ x.digest.form # "none"
    /\ x.kind = "path" => x.ver = Local
    /\ x.kind # "path" => x.ver \in Versions
FormInv ==
    /\ \A e \in lock.pkgs : Formed(e)
    /\ \A p \in Procs :
          /\ \A e \in job[p].pkgs : Formed(e)
          /\ \A n \in Names : Formed(job[p].res[n])

LEMMA VersionsApart == Local \notin Versions /\ Local \in Nat
BY SizesAssumption DEF Local, Versions

LEMMA NewEntryFields ==
    ASSUME NEW pkgs, NEW n, NEW r
    PROVE  LET new == NewEntry(pkgs, n, r)
           IN  /\ new.name = n /\ new.ver = r.ver /\ new.kind = r.kind
               /\ new.digest = r.digest /\ new.repl = r.repl
BY DEF NewEntry

LEMMA VendorEntryFields ==
    ASSUME NEW pkgs, NEW n, NEW r
    PROVE  LET new == VendorEntry(pkgs, n, r)
           IN  /\ new.name = n /\ new.ver = r.ver /\ new.kind = r.kind
               /\ new.digest = r.digest /\ new.repl = r.repl
BY NewEntryFields DEF VendorEntry, NewEntry

LEMMA ScopeNames ==
    ASSUME TypeInv, NEW p \in Procs
    PROVE  Scope(p) \subseteq Names
BY JobAt DEF Scope, Declared, TypeInv, Job, Names

(* What VendorLock writes over: the argument and what was fetched for it.  *)
LEMMA VendorResFields ==
    ASSUME TypeInv, NEW p \in Procs, At(p, "vlock")
    PROVE  /\ job[p].arg \in Names /\ job[p].res[job[p].arg] \in Res
           /\ LET r == VendorRes(p)
                  was == job[p].res[job[p].arg]
              IN  /\ r.kind = was.kind /\ r.ver = was.ver /\ r.digest = was.digest
                  /\ r.of = was.of
BY JobAt DEF At, TypeInv, WorkInv, WorkOf, VendorPhases, Declared, Job, Res, VendorRes

LEMMA AnswerForm ==
    ASSUME NEW p, NEW n, NEW dep, NEW res, Answer(p, n, dep, res)
    PROVE  res.digest.form \in {"tree", "gittree", "blob", "commit"}
BY DEF Answer, ByReplace, ByVendor, ByPath, ByOci, ByHelm, ByGit, Tree, Blob, Hash

LEMMA FormStep == TypeInv /\ FormInv /\ [Next]_vars => FormInv'
<1>. SUFFICES ASSUME TypeInv, FormInv, [Next]_vars PROVE FormInv'
  OBVIOUS
<1>. DEFINE AllFormed(pkgs) == \A e \in pkgs : Formed(e)
<1>1. AllFormed({}) /\ AllFormed(LockedPkgs) /\ AllFormed(lock.pkgs)
      /\ \A p \in Procs : AllFormed(job[p].pkgs)
  BY DEF FormInv, LockedPkgs
<1>2. AllFormed(lock'.pkgs)
  <2>1. ASSUME NEW e \in lock.pkgs,
               lock'.pkgs = (lock.pkgs \ {e}) \cup {[e EXCEPT !.sig = e.digest]}
        PROVE  AllFormed(lock'.pkgs)
    <3>1. LET new == [e EXCEPT !.sig = e.digest]
          IN  new.digest = e.digest /\ new.kind = e.kind /\ new.ver = e.ver
      BY DEF TypeInv, TypeOK, Entry
    <3>. QED
      BY <1>1, <2>1, <3>1 DEF Formed
  <2>. QED
    BY <1>1, <2>1, LockfileStep DEF DiskStep
<1>3. ASSUME NEW p \in Procs PROVE AllFormed(job'[p].pkgs)
  <2>1. CASE job'[p].pkgs \in {job[p].pkgs, {}, LockedPkgs}
    BY <1>1, <2>1
  <2>2. CASE \E n \in Names : job'[p].pkgs = Prune(lock.pkgs, n)
    BY <1>1, <2>2 DEF Prune
  <2>3. CASE job'[p].pkgs = Merged(p)
    <3>1. ASSUME NEW n \in Scope(p)
          PROVE  Formed(NewEntry(job[p].pkgs, n, job[p].res[n]))
      BY NewEntryFields, ScopeNames DEF Formed, FormInv
    <3>. QED
      BY <1>1, <2>3, <3>1 DEF Merged, Merge
  <2>4. CASE VendorLock(p) /\ job'[p].pkgs = VendorMerge(p)
    <3>1. Formed(VendorEntry(LockedPkgs, job[p].arg, VendorRes(p)))
      <4>1. Formed(job[p].res[job[p].arg]) /\ At(p, "vlock")
        BY <2>4, VendorResFields DEF FormInv, VendorLock
      <4>. DEFINE r == VendorRes(p)
                  new == VendorEntry(LockedPkgs, job[p].arg, r)
      <4>2. Formed(r)
        BY <4>1, VendorResFields DEF Formed
      <4>3. new.kind = r.kind /\ new.ver = r.ver /\ new.digest = r.digest
        BY VendorEntryFields
      <4>. HIDE DEF r, new
      <4>4. Formed(new)
        BY <4>2, <4>3 DEF Formed
      <4>. QED
        BY <4>4 DEF new, r
    <3>. QED
      BY <1>1, <2>4, <3>1 DEF VendorMerge
  <2>. QED
    BY <2>1, <2>2, <2>3, <2>4, LockfileStep DEF HeldStep
<1>4. ASSUME NEW p \in Procs, NEW n \in Names PROVE Formed(job'[p].res[n])
  <2>1. CASE job'[p].res[n] = job[p].res[n]
    BY <2>1 DEF FormInv
  <2>2. CASE Starts(p) \/ Ends(p)
    BY <2>2 DEF Starts, Ends, Blank, NoRes, Formed
  <2>3. CASE Takes(p)
    <3>1. PICK m, r : m \in Names /\ ResolveStep(p, m) /\ Resolving(p, m) /\ Accept(p, m, r)
      BY <2>3 DEF Takes
    <3>2. CASE n = m
      <4>1. /\ Plainly(job[p].deps[n], job'[p].res[n])
            /\ Answer(p, n, job[p].deps[n], job'[p].res[n])
        BY <3>1, <3>2, TakenCases
      <4>3. job'[p].res[n].digest.form # "none"
        BY <4>1, AnswerForm
      <4>2. job[p].deps[n].ver \in Versions
        BY <3>1, <3>2, ResolvingVersion
      <4>. QED
        BY <4>1, <4>2, <4>3 DEF Plainly, LockedVersion, Formed
    <3>3. CASE n # m
      BY <2>1, <3>1, <3>3, AcceptFields
    <3>. QED
      BY <3>2, <3>3
  <2>4. CASE ReadLockForResolve(p)
    BY <2>1, <2>4, ReadFields
  <2>5. CASE VendorFetch(p) /\ VendorSource(p).st = "ok"
    <3>1. CASE n = job[p].arg
      <4>. DEFINE dep == job[p].deps[n]
                  got == VendorSource(p)
      <4>1. job'[p].res[n] = Resolved(dep, "vendor", got.pin, got.of)
        BY <2>5, <3>1, FetchFields
      <4>2. got.pin.form # "none"
        BY <2>5, VendorSourcePin DEF Tree, Hash
      <4>3. dep.ver \in Versions
        <5>1. n \in Declared(job[p].deps)
          BY <2>5, <3>1 DEF VendorFetch, At, TypeInv, WorkInv, WorkOf, VendorPhases
        <5>. QED
          BY <5>1, DeclaredVersion
      <4>. HIDE DEF got
      <4>. QED
        BY <4>1, <4>2, <4>3, ResolvedFields DEF LockedVersion, Formed
    <3>2. CASE n # job[p].arg
      BY <2>1, <2>5, <3>2, FetchFields
    <3>. QED
      BY <3>1, <3>2
  <2>. QED
    BY <2>1, <2>2, <2>3, <2>4, <2>5, JobSteps DEF JobStep, Steps, Proceeds, Loads, SameWork
<1>. QED
  BY <1>2, <1>3, <1>4 DEF FormInv

LEMMA FormInit == Init => FormInv
BY DEF Init, FormInv, Formed, Idle, NoRes
-----------------------------------------------------------------------------
(* What a step of a process, and one of the environment, leaves alone.     *)

Unchanged(p) ==
    /\ job[p].phase \notin {"mtrunc", "mwrite"} => manifest' = manifest
    /\ job[p].phase \notin {"ltrunc", "lwrite"} => lock' = lock
    /\ job[p].phase \notin {"vremove", "vcopy", "vcopying"} => vendor' = vendor
    /\ job[p].phase \notin {"idle", "lwrite"} => settled' = settled
    /\ job[p].phase \notin {"resolve", "vfetch"} => bare' = bare
    /\ fork' = fork /\ upstream' = upstream /\ blobs \subseteq blobs'

OnlyHere(p) ==
    /\ job[p].phase = "mtrunc" => TruncateManifest(p)
    /\ job[p].phase = "mwrite" => WriteManifest(p)
    /\ job[p].phase = "ltrunc" => TruncateLock(p)
    /\ job[p].phase = "lwrite" => WriteLock(p)
    /\ job[p].phase = "vremove" => VendorRemoveOld(p)
    /\ job[p].phase = "vcopy" => VendorCopyStart(p)
    /\ job[p].phase = "vcopying" => VendorCopyEnd(p)

LEMMA ProcFrame ==
    ASSUME TypeInv, NEW p \in Procs, Begin(p) \/ Run(p) \/ Crash(p)
    PROVE  /\ Unchanged(p)
           /\ \/ OnlyHere(p)
              \/ Crash(p) /\ UNCHANGED <<files, caches, remote, settled>>
<1>. USE DEF files, caches, remote
<1>1. CASE Begin(p)
  <2>1. job[p].phase = "idle"
    BY <1>1 DEF Begin, BeginAdd, BeginRemove, BeginVendor, BeginLock, BeginUpdate, BeginRender,
       Start, At
  <2>2. UNCHANGED <<files, caches, remote>>
    BY <1>1 DEF Begin, BeginAdd, BeginRemove, BeginVendor, BeginLock, BeginUpdate, BeginRender
  <2>. QED
    BY <2>1, <2>2 DEF Unchanged, OnlyHere
<1>2. CASE Crash(p)
  BY <1>2 DEF Crash, Unchanged
<1>3. CASE \E n \in Names : ResolveStep(p, n)
  <2>1. job[p].phase = "resolve"
    BY <1>3, ResolveEnds DEF Resolving, At
  <2>2. UNCHANGED <<files, remote, settled>> /\ blobs \subseteq blobs'
    BY <1>3 DEF ResolveStep, ResolveReplaced, RejectReplace, ResolveVendored, ResolvePath,
       ResolveOci, ResolveHelm, ResolveGit, Unreachable
  <2>. QED
    BY <2>1, <2>2 DEF Unchanged, OnlyHere
<1>4. CASE TruncateManifest(p) \/ WriteManifest(p) \/ TruncateLock(p)
  BY <1>4 DEF TruncateManifest, WriteManifest, TruncateLock, At, Unchanged, OnlyHere
<1>5. CASE VendorRemoveOld(p) \/ VendorCopyStart(p) \/ VendorCopyEnd(p)
  BY <1>5 DEF VendorRemoveOld, VendorCopyStart, VendorCopyEnd, At, Unchanged, OnlyHere
<1>6. CASE WriteLock(p)
  BY <1>6 DEF WriteLock, At, Unchanged, OnlyHere
<1>7. CASE FinishRender(p) \/ FinishCheck(p) \/ RejectImport(p) \/ MergeLock(p)
  BY <1>7 DEF FinishRender, FinishCheck, RejectImport, MergeLock, AllResolved, At, Unchanged,
     OnlyHere
<1>8. CASE ReadLockForResolve(p) \/ ReadLockForRemove(p) \/ ReadLockEnds(p)
  BY <1>8 DEF ReadLockForResolve, ReadLockForRemove, ReadLockEnds, At, Unchanged, OnlyHere
<1>9. CASE VendorFetch(p)
  <2>1. /\ job[p].phase = "vfetch" /\ UNCHANGED <<files, remote, settled>>
        /\ blobs \subseteq blobs'
    BY <1>9 DEF VendorFetch, At
  <2>. QED
    BY <2>1 DEF Unchanged, OnlyHere
<1>10. CASE VendorUnreachable(p) \/ VendorLock(p)
  BY <1>10 DEF VendorUnreachable, VendorLock, At, Unchanged, OnlyHere
<1>. QED
  BY <1>1, <1>2, <1>3, <1>4, <1>5, <1>6, <1>7, <1>8, <1>9, <1>10 DEF Run

(* The environment moves upstream at any time, and edits files only when   *)
(* no verb runs, never to a half-written one, and never so that another    *)
(* name is declared or locked.                                             *)
Hands ==
    /\ job' = job /\ settled' = "no"
    /\ \A p \in Procs : At(p, "idle") \/ UNCHANGED <<manifest, lock, vendor, fork, blobs, bare>>
    /\ manifest'.st = manifest.st /\ Declared(manifest'.deps) = Declared(manifest.deps)
    /\ lock'.st = lock.st
    /\ lock'.pkgs = lock.pkgs \/ lock.st = "ok"
    /\ \A e \in lock'.pkgs : \E d \in lock.pkgs : d.name = e.name

LEMMA EnvFrame ==
    ASSUME TypeInv, Environment
    PROVE  Hands
<1>. USE DEF files, caches, remote
<1>1. ASSUME NEW n \in Names, NEW v \in Versions, NEW c, Publish(n, v, c)
      PROVE  Hands
  BY <1>1 DEF Publish, Hands
<1>2. ASSUME NEW n \in Names, NEW c, EditFork(n, c) \/ EditVendor(n, c)
      PROVE  Hands
  BY <1>2 DEF EditFork, EditVendor, AllIdle, Hands
<1>3. ASSUME NEW n \in Names, NEW dep, EditManifest(n, dep)
      PROVE  Hands
  <2>1. /\ manifest'.st = manifest.st
        /\ manifest'.deps = [manifest.deps EXCEPT ![n] = dep]
        /\ manifest.deps \in [Names -> Dep]
    BY <1>3 DEF EditManifest, TypeInv, TypeOK
  <2>2. manifest.deps[n].kind = dep.kind
    BY <1>3 DEF EditManifest
  <2>3. Declared(manifest'.deps) = Declared(manifest.deps)
    BY <2>1, <2>2 DEF Declared
  <2>. QED
    BY <1>3, <2>1, <2>3 DEF EditManifest, AllIdle, Hands
<1>4. ASSUME NEW e \in lock.pkgs, Annotate(e)
      PROVE  Hands
  <2>1. /\ lock'.st = lock.st
        /\ lock'.pkgs = (lock.pkgs \ {e}) \cup {[e EXCEPT !.sig = e.digest]}
        /\ [e EXCEPT !.sig = e.digest].name = e.name
    BY <1>4 DEF Annotate, TypeInv, TypeOK, Entry
  <2>. QED
    BY <1>4, <2>1 DEF Annotate, AllIdle, Hands
<1>5. CASE ClearCaches
  BY <1>5 DEF ClearCaches, AllIdle, Hands
<1>. QED
  BY <1>1, <1>2, <1>3, <1>4, <1>5 DEF Environment

(* One process: its steps, and what happens around it.                     *)
OneProcess(p) == p \in Procs /\ Procs = {p}

LEMMA LoneSteps ==
    ASSUME TypeInv, NEW p, OneProcess(p), [Next]_vars
    PROVE  \/ UNCHANGED vars
           \/ Hands /\ Environment
           \/ /\ Steps(p) /\ Unchanged(p)
              /\ \/ OnlyHere(p)
                 \/ Crash(p) /\ UNCHANGED <<files, caches, remote, settled>>
BY ProcSteps, ProcFrame, EnvFrame DEF Next, OneProcess

-----------------------------------------------------------------------------
(* What a lone process holds is what is on disk.                           *)

Merging == {"add", "lock", "update"}
Writing == {"ltrunc", "lwrite"}
Working == {"readlock", "resolve"} \cup Writing \cup VendorPhases

LockedOf(l) == IF l.st = "ok" THEN l.pkgs ELSE {}
ScopeOf(j) == IF j.verb = "update" /\ j.arg # 0 THEN {j.arg} ELSE Declared(j.deps)
KeepsPin(pkgs, n, r) ==
    r.via = "oci" => r.digest = Blob(r.of) /\ ExpectedOci(pkgs, n) \in {NoDigest, r.digest}

VerbOf(j) ==
    /\ j.phase = "readlock" => j.verb \in Merging \cup {"check", "render", "remove"}
    /\ j.phase = "resolve" => j.verb \in Merging \cup {"check", "render"}
    /\ j.phase \in Writing => j.verb \in Merging \cup {"remove", "vendor"}
    /\ j.phase \in VendorPhases => j.verb = "vendor"
DepsOf(m, j) ==
    /\ j.phase \in Working => j.deps = m.deps /\ m.st = "ok"
    /\ j.phase \in {"mtrunc", "mwrite"} =>
          Declared(m.deps) \subseteq
             Declared(j.deps) \cup (IF j.verb = "remove" THEN {j.arg} ELSE {})
HeldOf(l, j) ==
    /\ l.st # "ok" => l.pkgs = {}
    /\ j.phase = "resolve" => j.pkgs = LockedOf(l)
    /\ j.phase = "ltrunc" /\ j.verb \in Merging => j.pkgs = Merge(LockedOf(l), j.res, ScopeOf(j))
    /\ j.phase = "ltrunc" /\ j.verb \in {"add", "lock"} =>
          \A n \in Names : KeepsPin(LockedOf(l), n, j.res[n])

LoneInv(p) == VerbOf(job[p]) /\ DepsOf(manifest, job[p]) /\ HeldOf(lock, job[p])

LEMMA LockShape ==
    ASSUME TypeInv, NEW p, OneProcess(p), [Next]_vars, lock.st # "ok" => lock.pkgs = {}
    PROVE  lock'.st # "ok" => lock'.pkgs = {}
<1>1. CASE lock' = lock \/ Hands
  BY <1>1 DEF Hands
<1>2. CASE TruncateLock(p) \/ WriteLock(p)
  BY <1>2 DEF TruncateLock, WriteLock
<1>. QED
  BY <1>1, <1>2, LoneSteps DEF Unchanged, OnlyHere, vars, files

LEMMA MergeFields ==
    ASSUME TypeInv, NEW p \in Procs, MergeLock(p)
    PROVE  /\ job[p].phase = "resolve" /\ job[p].todo = {} /\ job[p].verb \in Merging
           /\ job'[p].phase = "ltrunc" /\ SameContext(p) /\ job'[p].res = job[p].res
           /\ job'[p].pkgs = Merge(job[p].pkgs, job[p].res, ScopeOf(job[p]))
<1>1. job' = [job EXCEPT ![p].phase = "ltrunc", ![p].pkgs = Merged(p)]
  BY DEF MergeLock
<1>2. /\ SameContext(p) /\ job'[p].phase = "ltrunc" /\ job'[p].pkgs = Merged(p)
      /\ job'[p].res = job[p].res
  BY <1>1, LoadFields
<1>. QED
  BY <1>2 DEF MergeLock, AllResolved, At, Merging, Merged, Scope, ScopeOf

LEMMA LoneStep ==
    ASSUME NEW p, OneProcess(p)
    PROVE  TypeInv /\ PinnedInv /\ LoneInv(p) /\ [Next]_vars => LoneInv(p)'
<1>. SUFFICES ASSUME TypeInv, PinnedInv, LoneInv(p), [Next]_vars
              PROVE  VerbOf(job'[p]) /\ DepsOf(manifest', job'[p]) /\ HeldOf(lock', job'[p])
  BY DEF LoneInv, VerbOf, DepsOf, HeldOf, KeepsPin
<1>. USE DEF Working, Writing
<1>p. p \in Procs
  BY DEF OneProcess
<1>l. lock'.st # "ok" => lock'.pkgs = {}
  BY LockShape DEF LoneInv, HeldOf
<1>0. VerbOf(job[p]) /\ DepsOf(manifest, job[p]) /\ HeldOf(lock, job[p])
  BY DEF LoneInv
<1>1. CASE UNCHANGED vars
  BY <1>0, <1>1 DEF vars, files
<1>2. CASE Hands
  <2>1. CASE At(p, "idle")
    BY <1>2, <1>l, <2>1 DEF Hands, At, VerbOf, DepsOf, HeldOf, VendorPhases
  <2>2. CASE manifest' = manifest /\ lock' = lock
    BY <1>0, <1>2, <2>2 DEF Hands
  <2>. QED
    BY <1>p, <1>2, <2>1, <2>2 DEF Hands
<1>3. ASSUME Steps(p), Unchanged(p), OnlyHere(p) \/ Crash(p)
      PROVE  VerbOf(job'[p]) /\ DepsOf(manifest', job'[p]) /\ HeldOf(lock', job'[p])
  <2>1. CASE Starts(p)
    <3>1. manifest' = manifest /\ job[p].phase = "idle"
      BY <1>3, <2>1 DEF Starts, Unchanged
    <3>2. \A dep \in AddableDeps : dep.kind # "none"
      BY ModelAssumption DEF AddableDeps, Kinds
    <3>3. job'[p].phase = "mtrunc" /\ job'[p].verb = "add"
             => Declared(manifest.deps) \subseteq Declared(job'[p].deps)
      <4>. SUFFICES ASSUME job'[p].phase = "mtrunc", job'[p].verb = "add"
                    PROVE  Declared(manifest.deps) \subseteq Declared(job'[p].deps)
        OBVIOUS
      <4>1. PICK dep \in AddableDeps : job'[p].deps = [manifest.deps EXCEPT ![job'[p].arg] = dep]
        BY <1>p, <2>1, BeginFields DEF Starts
      <4>. QED
        BY <3>2, <4>1 DEF Declared, TypeInv, TypeOK
    <3>4. job'[p].phase = "mtrunc" /\ job'[p].verb # "add"
             => /\ job'[p].verb = "remove"
                /\ Declared(manifest.deps) \subseteq Declared(job'[p].deps) \cup {job'[p].arg}
      <4>. SUFFICES ASSUME job'[p].phase = "mtrunc", job'[p].verb # "add"
                    PROVE  /\ job'[p].verb = "remove"
                           /\ Declared(manifest.deps) \subseteq
                                 Declared(job'[p].deps) \cup {job'[p].arg}
        OBVIOUS
      <4>1. /\ job'[p].deps = [manifest.deps EXCEPT ![job'[p].arg] = NoDep]
            /\ job'[p].verb = "remove"
        BY <1>p, <2>1, BeginFields DEF Starts
      <4>. QED
        BY <4>1 DEF Declared, TypeInv, TypeOK
    <3>5. /\ job'[p].phase \in {"readlock", "vfetch"} =>
                job'[p].deps = manifest.deps /\ manifest.st = "ok"
          /\ job'[p].phase = "readlock" => job'[p].verb \in {"lock", "check", "update", "render"}
          /\ job'[p].phase = "vfetch" => job'[p].verb = "vendor"
          /\ job'[p].phase \in {"mtrunc", "readlock", "vfetch"}
      BY <1>p, <2>1, BeginFields DEF Starts
    <3>6. VerbOf(job'[p])
      BY <3>5 DEF VerbOf, Merging, VendorPhases
    <3>7. DepsOf(manifest', job'[p])
      BY <3>1, <3>3, <3>4, <3>5 DEF DepsOf, VendorPhases
    <3>. QED
      BY <1>l, <3>5, <3>6, <3>7 DEF HeldOf
  <2>2. CASE Ends(p)
    BY <1>l, <2>2 DEF Ends, VerbOf, DepsOf, HeldOf, VendorPhases
  <2>3. CASE Proceeds(p)
    <3>1. SameContext(p) /\ <<job[p].phase, job'[p].phase>> \in Edges
      BY <2>3 DEF Proceeds
    <3>2. VerbOf(job'[p])
      <4>1. job[p].phase = "mwrite" => job[p].verb \in {"add", "remove"}
        BY <1>p DEF TypeInv, WorkInv, WorkOf
      <4>. QED
        BY <1>0, <3>1, <4>1 DEF SameContext, Edges, VerbOf, Merging, VendorPhases
    <3>3. ~Crash(p)
      <4>1. Crash(p) => job'[p].phase = "idle"
        BY <1>p, EndFields DEF Crash
      <4>. QED
        BY <3>1, <4>1 DEF Edges
    <3>4. DepsOf(manifest', job'[p])
      <4>1. CASE job[p].phase = "mtrunc"
        <5>1. manifest'.deps = manifest.deps /\ job'[p].phase = "mwrite"
          BY <1>3, <3>1, <3>3, <4>1 DEF OnlyHere, TruncateManifest, TypeInv, TypeOK, Edges
        <5>. QED
          BY <1>0, <3>1, <4>1, <5>1 DEF DepsOf, SameContext, VendorPhases
      <4>2. CASE job[p].phase = "mwrite"
        <5>1. manifest' = [st |-> "ok", deps |-> job[p].deps] /\ job'[p].phase = "readlock"
          BY <1>3, <3>1, <3>3, <4>2 DEF OnlyHere, WriteManifest, Edges
        <5>. QED
          BY <3>1, <5>1 DEF DepsOf, SameContext, VendorPhases
      <4>3. CASE job[p].phase \notin {"mtrunc", "mwrite"}
        BY <1>0, <1>3, <3>1, <4>3 DEF DepsOf, SameContext, VendorPhases, Edges, Unchanged
      <4>. QED
        BY <4>1, <4>2, <4>3
    <3>5. job'[p].phase \notin {"resolve", "ltrunc"}
      BY <3>1 DEF Edges
    <3>. QED
      BY <1>l, <3>2, <3>4, <3>5 DEF HeldOf
  <2>4. CASE Loads(p)
    <3>1. /\ job[p].phase \in {"readlock", "resolve", "vlock"} /\ SameContext(p)
          /\ job'[p].phase = "ltrunc"
      BY <2>4 DEF Loads, ReadLockForRemove, MergeLock, AllResolved, VendorLock, At
    <3>2. manifest' = manifest /\ lock' = lock
      BY <1>3, <3>1 DEF Unchanged
    <3>3. /\ ReadLockForRemove(p) => job[p].verb = "remove"
          /\ VendorLock(p) => job[p].verb = "vendor"
      BY <1>0 DEF ReadLockForRemove, VendorLock, At, VerbOf, VendorPhases
    <3>4. VerbOf(job'[p]) /\ DepsOf(manifest', job'[p])
      <4>1. MergeLock(p) => job[p].verb \in Merging
        BY DEF MergeLock, Merging
      <4>. QED
        BY <1>0, <2>4, <3>1, <3>2, <3>3, <4>1
        DEF Loads, VerbOf, DepsOf, SameContext, VendorPhases
    <3>5. CASE MergeLock(p)
      <4>1. job[p].pkgs = LockedOf(lock) /\ job[p].phase = "resolve"
        BY <1>0, <1>p, <3>5, MergeFields DEF HeldOf
      <4>2. /\ job'[p].pkgs = Merge(LockedOf(lock), job'[p].res, ScopeOf(job'[p]))
            /\ job'[p].verb = job[p].verb /\ job'[p].res = job[p].res
        <5>1. ScopeOf(job'[p]) = ScopeOf(job[p])
          BY <3>1 DEF SameContext, ScopeOf
        <5>2. job'[p].verb = job[p].verb
          BY <3>1 DEF SameContext
        <5>. QED
          BY <1>p, <3>5, <4>1, <5>1, <5>2, MergeFields
      <4>3. job[p].verb # "update" => \A n \in Names : KeepsPin(LockedOf(lock), n, job[p].res[n])
        BY <1>p, <4>1 DEF PinnedInv, PinnedJob, HonoursPin, KeepsPin
      <4>. QED
        BY <1>l, <3>1, <3>2, <3>4, <4>2, <4>3 DEF HeldOf
    <3>6. CASE ~MergeLock(p)
      BY <1>l, <2>4, <3>1, <3>3, <3>4, <3>6 DEF Loads, HeldOf, SameContext, Merging
    <3>. QED
      BY <3>5, <3>6
  <2>5. CASE Takes(p)
    <3>1. /\ job[p].phase = "resolve" /\ job'[p].phase = "resolve" /\ SameContext(p)
          /\ job'[p].pkgs = job[p].pkgs
      BY <1>p, <2>5, AcceptFields DEF Takes, Resolving, At
    <3>2. manifest' = manifest /\ lock' = lock
      BY <1>3, <3>1 DEF Unchanged
    <3>. QED
      BY <1>0, <3>1, <3>2 DEF VerbOf, DepsOf, HeldOf, SameContext, VendorPhases
  <2>6. CASE ReadLockForResolve(p)
    <3>1. /\ job[p].phase = "readlock" /\ job'[p].phase = "resolve" /\ SameContext(p)
          /\ job'[p].pkgs = LockedOf(lock) /\ job[p].verb # "remove"
      BY <1>p, <2>6, ReadFields DEF ReadLockForResolve, At, LockedPkgs, LockedOf
    <3>2. manifest' = manifest /\ lock' = lock
      BY <1>3, <3>1 DEF Unchanged
    <3>. QED
      BY <1>0, <1>l, <3>1, <3>2 DEF VerbOf, DepsOf, HeldOf, SameContext, VendorPhases
  <2>7. CASE VendorFetch(p) /\ VendorSource(p).st = "ok"
    <3>1. /\ job[p].phase = "vfetch" /\ SameContext(p)
          /\ job'[p].phase \in VendorPhases
      BY <1>p, <2>7, FetchFields DEF VendorFetch, At, VendorPhases
    <3>2. manifest' = manifest /\ lock' = lock
      BY <1>3, <3>1 DEF Unchanged
    <3>. QED
      BY <1>0, <1>l, <3>1, <3>2 DEF VerbOf, DepsOf, HeldOf, SameContext, VendorPhases
  <2>. QED
    BY <1>3, <2>1, <2>2, <2>3, <2>4, <2>5, <2>6, <2>7 DEF Steps
<1>. QED
  BY <1>1, <1>2, <1>3, LoneSteps
-----------------------------------------------------------------------------
(* Everything that is known of a lone process so far.                      *)

SoloInv(p) == TypeInv /\ UniqueInv /\ BoundInv /\ PinnedInv /\ FormInv /\ LoneInv(p)

LEMMA SoloAlways ==
    ASSUME NEW p, OneProcess(p)
    PROVE  Spec => []SoloInv(p)
<1>0. Init => UniqueInv /\ BoundInv
  BY DEF Init, UniqueInv, Unique, BoundInv, Bound, VendorPins, Copying, VendorPhases, Idle
<1>1. Init => UniqueInv /\ BoundInv /\ PinnedInv
  BY <1>0 DEF Init, PinnedInv, RenderedIsPinned, PinnedJob, Idle
<1>2. Init => LoneInv(p)
  BY DEF Init, LoneInv, VerbOf, DepsOf, HeldOf, Idle, OneProcess, Writing, Working, VendorPhases
<1>3. SoloInv(p) /\ [Next]_vars => SoloInv(p)'
  BY TypeNext, UniqueStep, BoundStep, PinnedStep, FormStep, LoneStep DEF SoloInv
<1>4. Init => SoloInv(p)
  BY <1>1, <1>2, TypeInit, FormInit DEF SoloInv
<1>. QED
  BY <1>3, <1>4, PTL DEF Spec

LEMMA MergeElsewhere ==
    ASSUME NEW pkgs, NEW res, NEW ns, NEW n, n \notin ns
    PROVE  \A e : e \in Merge(pkgs, res, ns) /\ e.name = n <=> e \in pkgs /\ e.name = n
<1>1. \A m \in ns : NewEntry(pkgs, m, res[m]).name # n
  BY NewEntryFields
<1>2. \A m \in ns : m # n
  OBVIOUS
<1>. QED
  BY <1>1, <1>2 DEF Merge

(* update --dep n that runs alone writes a lockfile whose other entries    *)
(* are those on disk, signatures included: the resolver looks at every     *)
(* dependency, merge_into_lock is given one name, and nobody has written   *)
(* akua.lock since it was read.                                            *)
THEOREM UpdateKeepsOthers ==
    ASSUME \E p : Procs = {p}
    PROVE  Spec => []UpdateLeavesOthers
<1>1. PICK p : OneProcess(p)
  BY DEF OneProcess
<1>2. SoloInv(p) => UpdateLeavesOthers
  <2>. SUFFICES ASSUME SoloInv(p), NEW n \in Names,
                       job[p].phase = "ltrunc", job[p].verb = "update",
                       job[p].arg \notin {0, n}, lock.st = "ok"
                PROVE  {e \in job[p].pkgs : e.name = n} = {e \in lock.pkgs : e.name = n}
    BY <1>1 DEF UpdateLeavesOthers, OneProcess
  <2>. DEFINE ns == {job[p].arg}
              new == Merge(lock.pkgs, job[p].res, ns)
  <2>1. job[p].pkgs = new
    BY DEF SoloInv, LoneInv, HeldOf, Merging, ScopeOf, LockedOf
  <2>2. n \notin ns
    OBVIOUS
  <2>. HIDE DEF ns
  <2>3. \A e : e \in new /\ e.name = n <=> e \in lock.pkgs /\ e.name = n
    BY <2>2, MergeElsewhere
  <2>. HIDE DEF new
  <2>. QED
    BY <2>1, <2>3
<1>. QED
  BY <1>1, <1>2, SoloAlways, PTL
-----------------------------------------------------------------------------
(* Pins that stay.                                                         *)

(* What the resolver reports as fetched has the kind it was fetched as.    *)
FetchedOci(r) == r.via = "oci" => r.kind = "oci"
FetchedInv == \A p \in Procs, n \in Names : FetchedOci(job[p].res[n])

LEMMA FetchedStep == TypeInv /\ FetchedInv /\ [Next]_vars => FetchedInv'
<1>. SUFFICES ASSUME TypeInv, FetchedInv, [Next]_vars, NEW p \in Procs, NEW n \in Names
              PROVE  FetchedOci(job'[p].res[n])
  BY DEF FetchedInv, FetchedOci
<1>1. CASE job'[p].res[n] = job[p].res[n]
  BY <1>1 DEF FetchedInv
<1>2. CASE Starts(p) \/ Ends(p)
  BY <1>2 DEF Starts, Ends, Blank, NoRes, FetchedOci
<1>3. CASE Takes(p)
  <2>1. PICK m, r : m \in Names /\ ResolveStep(p, m) /\ Accept(p, m, r)
    BY <1>3 DEF Takes
  <2>2. CASE n = m
    <3>1. /\ Plainly(job[p].deps[n], job'[p].res[n])
          /\ Answer(p, n, job[p].deps[n], job'[p].res[n])
      BY <2>1, <2>2, TakenCases
    <3>. QED
      BY <3>1 DEF Plainly, Answer, ByReplace, ByVendor, ByPath, ByOci, ByHelm, ByGit, Goes,
         FetchedOci
  <2>. QED
    BY <1>1, <2>1, <2>2, AcceptFields
<1>4. CASE VendorFetch(p) /\ VendorSource(p).st = "ok"
  <2>. DEFINE got == VendorSource(p)
  <2>1. n = job[p].arg =>
           job'[p].res[n] = Resolved(job[p].deps[n], "vendor", got.pin, got.of)
    BY <1>4, FetchFields
  <2>2. n # job[p].arg => job'[p].res[n] = job[p].res[n]
    BY <1>4, FetchFields
  <2>. HIDE DEF got
  <2>. QED
    BY <1>1, <2>1, <2>2, ResolvedFields DEF FetchedOci
<1>. QED
  BY <1>1, <1>2, <1>3, <1>4, ReadFields, JobSteps DEF JobStep, Steps, Proceeds, Loads, SameWork

(* The entry that decides what is expected of n.                           *)
LEMMA HighestDecides ==
    ASSUME NEW pkgs \in SUBSET Entry, Unique(pkgs), NEW n, NEW x \in pkgs,
           x.name = n, x.kind = "oci",
           \A e \in pkgs : e.name = n /\ e.kind = "oci" => e.ver <= x.ver
    PROVE  ExpectedOci(pkgs, n) = x.digest
<1>1. x \in LastOci(pkgs, n)
  BY DEF LastOci
<1>2. ASSUME NEW e \in LastOci(pkgs, n) PROVE e = x
  <2>1. e \in pkgs /\ e.name = n /\ e.kind = "oci" /\ x.ver <= e.ver
    BY <1>2 DEF LastOci
  <2>2. e.ver <= x.ver /\ e.ver \in Nat /\ x.ver \in Nat
    BY <2>1, VersionsApart DEF Entry
  <2>. QED
    BY <2>1, <2>2 DEF Unique
<1>3. (CHOOSE e \in LastOci(pkgs, n) : TRUE) = x
  BY <1>1, <1>2
<1>. QED
  BY <1>1, <1>3 DEF ExpectedOci

Highest(pkgs, n, v) == \A e \in pkgs : e.name = n /\ e.kind = "oci" => e.ver <= v

LEMMA MergeKeepsPin ==
    ASSUME NEW pkgs \in SUBSET Entry, Unique(pkgs), NEW res, NEW ns, NEW n, NEW v,
           KeepsPin(pkgs, n, res[n]), res[n].via = "oci", res[n].kind = "oci",
           Highest(pkgs, n, v), OciPin(pkgs, n, v) # {}
    PROVE  OciPin(Merge(pkgs, res, ns), n, v) = OciPin(pkgs, n, v)
<1>. DEFINE new == Merge(pkgs, res, ns)
            item == NewEntry(pkgs, n, res[n])
<1>1. PICK x \in pkgs : x.name = n /\ x.ver = v /\ x.kind = "oci" /\ x.digest.form = "blob"
  BY DEF OciPin, Slot
<1>2. ExpectedOci(pkgs, n) = x.digest /\ x.digest # NoDigest
  BY <1>1, HighestDecides DEF Highest, NoDigest
<1>3. res[n].digest = x.digest
  BY <1>2 DEF KeepsPin
<1>4. /\ item.name = n /\ item.ver = res[n].ver /\ item.kind = "oci" /\ item.digest = x.digest
      /\ \A m \in ns : NewEntry(pkgs, m, res[m]).name = m
  BY <1>3, NewEntryFields
<1>5. \A e \in pkgs : e.name = n /\ e.ver = v => e = x
  BY <1>1 DEF Unique
<1>6. OciPin(pkgs, n, v) = {x.digest}
  BY <1>1, <1>5 DEF OciPin, Slot
<1>7. ASSUME NEW e \in new, e.name = n, e.ver = v PROVE e.digest = x.digest
  <2>1. e \in pkgs \/ \E m \in ns : e = NewEntry(pkgs, m, res[m])
    BY <1>7 DEF Merge
  <2>. QED
    BY <1>4, <1>5, <1>7, <2>1
<1>8. \E e \in new : e.name = n /\ e.ver = v /\ e.kind = "oci" /\ e.digest = x.digest
  <2>1. CASE n \in ns /\ res[n].ver = v
    BY <1>4, <2>1 DEF Merge
  <2>2. CASE ~(n \in ns /\ res[n].ver = v)
    BY <1>1, <2>2 DEF Merge
  <2>. QED
    BY <2>1, <2>2
<1>. HIDE DEF new
<1>9. OciPin(new, n, v) = {x.digest}
  BY <1>1, <1>7, <1>8 DEF OciPin, Slot
<1>. QED
  BY <1>6, <1>9 DEF new

(* The pin of the highest version of an artifact, which is the one the     *)
(* resolver is held to, moves neither by add nor by lock, for any number   *)
(* of versions; PinsMoveOnlyByUpdate says it of every version, which is    *)
(* more than expected_digests, keyed by name alone, can keep.              *)
HighestPinStays ==
    \A p \in Procs, n \in Names, v \in Versions :
        /\ job[p].phase = "ltrunc" /\ job[p].verb \in {"add", "lock"}
        /\ lock.st = "ok" /\ job[p].res[n].via = "oci"
        /\ OciPin(lock.pkgs, n, v) # {} /\ Highest(lock.pkgs, n, v)
        => OciPin(job[p].pkgs, n, v) = OciPin(lock.pkgs, n, v)

LEMMA HighestPinKept ==
    ASSUME NEW p, OneProcess(p), SoloInv(p), FetchedInv
    PROVE  HighestPinStays
<1>. SUFFICES ASSUME NEW n \in Names, NEW v \in Versions,
                     job[p].phase = "ltrunc", job[p].verb \in {"add", "lock"},
                     lock.st = "ok", job[p].res[n].via = "oci",
                     OciPin(lock.pkgs, n, v) # {}, Highest(lock.pkgs, n, v)
              PROVE  OciPin(job[p].pkgs, n, v) = OciPin(lock.pkgs, n, v)
  BY DEF HighestPinStays, OneProcess
<1>. DEFINE res == job[p].res
            ns == ScopeOf(job[p])
<1>1. /\ job[p].pkgs = Merge(lock.pkgs, res, ns)
      /\ KeepsPin(lock.pkgs, n, res[n])
  BY DEF SoloInv, LoneInv, HeldOf, Merging, LockedOf
<1>2. lock.pkgs \in SUBSET Entry /\ Unique(lock.pkgs) /\ res[n].kind = "oci"
  BY DEF SoloInv, TypeInv, TypeOK, UniqueInv, FetchedInv, FetchedOci, OneProcess
<1>. HIDE DEF res, ns
<1>3. OciPin(Merge(lock.pkgs, res, ns), n, v) = OciPin(lock.pkgs, n, v)
  <2>1. res[n].via = "oci"
    BY DEF res
  <2>. QED
    BY <1>1, <1>2, <2>1, MergeKeepsPin
<1>. QED
  BY <1>1, <1>3

(* add and lock, each running alone, leave the pin they are held to where  *)
(* it is: a tag that moved stops them (fetch_with_opts), and what they     *)
(* merge for the version has the digest that was expected.                 *)
THEOREM PinsHold ==
    ASSUME \E p : Procs = {p}
    PROVE  Spec => []HighestPinStays
<1>1. PICK p : OneProcess(p)
  BY DEF OneProcess
<1>2. Init => FetchedInv
  BY DEF Init, FetchedInv, FetchedOci, Idle, NoRes
<1>3. SoloInv(p) => TypeInv
  BY DEF SoloInv
<1>4. SoloInv(p) /\ FetchedInv => HighestPinStays
  BY <1>1, HighestPinKept
<1>. QED
  BY <1>1, <1>2, <1>3, <1>4, FetchedStep, SoloAlways, PTL DEF Spec

(* ... which, where there is one version, is every pin.                    *)
THEOREM OnlyUpdateMovesPins ==
    ASSUME \E p : Procs = {p}, NumVersions = 1
    PROVE  Spec => []PinsMoveOnlyByUpdate
<1>1. PICK p : OneProcess(p)
  BY DEF OneProcess
<1>2. SoloInv(p) /\ HighestPinStays => PinsMoveOnlyByUpdate
  <2>. SUFFICES ASSUME SoloInv(p), NEW n \in Names, NEW v \in Versions
                PROVE  Highest(lock.pkgs, n, v)
    BY DEF HighestPinStays, PinsMoveOnlyByUpdate
  <2>1. \A e \in lock.pkgs : e.kind = "oci" => e.ver \in Versions
    BY DEF SoloInv, FormInv, Formed
  <2>2. \A u \in Versions : u <= v
    BY SizesAssumption DEF Versions
  <2>. QED
    BY <2>1, <2>2 DEF Highest
<1>. QED
  BY <1>1, <1>2, SoloAlways, PinsHold, PTL
-----------------------------------------------------------------------------
(* The names of akua.lock.                                                 *)

Covered(pkgs, names) == \A e \in pkgs : e.name \in names

(* Only between the manifest and the lockfile of one remove is an entry    *)
(* of no declared dependency on disk, and what is about to be written      *)
(* never has one.                                                          *)
NamesOf(l, m, j) ==
    /\ j.phase \notin Writing /\ ~(j.phase = "readlock" /\ j.verb = "remove")
          => Covered(l.pkgs, Declared(m.deps))
    /\ j.phase = "readlock" /\ j.verb = "remove"
          => Covered(l.pkgs, Declared(m.deps) \cup {j.arg})
    /\ j.phase \in Writing => Covered(j.pkgs, Declared(m.deps))

LEMMA EndsWhere ==
    ASSUME TypeInv, NEW p \in Procs, Ends(p), ~Crash(p)
    PROVE  WriteLock(p) \/ ReadLockEnds(p) \/ job[p].phase \in {"resolve", "vfetch", "vlock"}
BY ResolveEnds
DEF Ends, Ending, FinishRender, FinishCheck, RejectImport, AllResolved, VendorUnreachable,
    VendorFetch, VendorLock, Resolving, At

LEMMA MergeCovered ==
    ASSUME NEW pkgs, NEW names, Covered(pkgs, names), NEW res, NEW ns, ns \subseteq names
    PROVE  Covered(Merge(pkgs, res, ns), names)
BY NewEntryFields DEF Covered, Merge

LEMMA LoadsCovered ==
    ASSUME TypeInv, NEW p \in Procs, LoneInv(p), NamesOf(lock, manifest, job[p]), Loads(p)
    PROVE  Covered(job'[p].pkgs, Declared(manifest.deps))
<1>. DEFINE names == Declared(manifest.deps)
<1>1. job[p].deps = manifest.deps
  BY DEF Loads, LoneInv, DepsOf, Working, Writing, VendorPhases, ReadLockForRemove, MergeLock,
     VendorLock, AllResolved, At
<1>2. CASE ReadLockForRemove(p)
  <2>1. job'[p].pkgs = Prune(lock.pkgs, job[p].arg)
    BY <1>2, LoadFields DEF ReadLockForRemove
  <2>2. Covered(lock.pkgs, names \cup {job[p].arg})
    BY <1>2 DEF ReadLockForRemove, At, NamesOf
  <2>. QED
    BY <2>1, <2>2 DEF Covered, Prune
<1>3. CASE MergeLock(p)
  <2>1. /\ job'[p].pkgs = Merge(job[p].pkgs, job[p].res, Scope(p))
        /\ job[p].phase = "resolve"
    BY <1>3, MergeFields DEF Scope, ScopeOf
  <2>2. Covered(job[p].pkgs, names)
    BY <2>1 DEF LoneInv, HeldOf, LockedOf, NamesOf, Writing, Covered
  <2>3. Scope(p) \subseteq names
    BY <1>1, <2>1 DEF Scope, TypeInv, WorkInv, WorkOf
  <2>. QED
    BY <2>1, <2>2, <2>3, MergeCovered
<1>4. CASE VendorLock(p)
  <2>. DEFINE n == job[p].arg
              r == VendorRes(p)
              item == VendorEntry(LockedPkgs, n, r)
              left == LockedPkgs \ Slot(LockedPkgs, n, r.ver)
  <2>1. job[p].phase = "vlock" /\ n \in names
    BY <1>1, <1>4 DEF VendorLock, At, TypeInv, WorkInv, WorkOf, VendorPhases
  <2>2. Covered(LockedPkgs, names)
    BY <2>1 DEF NamesOf, Writing, LockedPkgs, Covered
  <2>3. item.name = n
    BY VendorEntryFields
  <2>4. job'[p].pkgs = left \cup {item}
    <3>1. lock.st # "torn"
      <4>1. lock.st = "torn" => job'[p].phase = "idle"
        BY <1>4, EndFields DEF VendorLock
      <4>. QED
        BY <4>1 DEF Loads
    <3>. QED
      BY <1>4, <3>1, LoadFields DEF VendorLock, VendorRes
  <2>. HIDE DEF item, n
  <2>. QED
    BY <2>1, <2>2, <2>3, <2>4 DEF Covered
<1>. QED
  BY <1>2, <1>3, <1>4 DEF Loads

LEMMA NamesStep ==
    ASSUME NEW p, OneProcess(p), "crash" \notin Events
    PROVE  /\ SoloInv(p) /\ NamesOf(lock, manifest, job[p]) /\ [Next]_vars
           => NamesOf(lock, manifest, job[p])'
<1>. SUFFICES ASSUME SoloInv(p), NamesOf(lock, manifest, job[p]), [Next]_vars
              PROVE  NamesOf(lock', manifest', job'[p])
  BY DEF NamesOf, Covered
<1>. USE DEF Writing
<1>0. p \in Procs /\ TypeInv /\ LoneInv(p) /\ ~Crash(p)
  BY DEF OneProcess, SoloInv, Crash
<1>1. CASE UNCHANGED vars
  BY <1>1 DEF vars, files
<1>2. CASE Hands
  BY <1>0, <1>2 DEF Hands, NamesOf, Covered, At
<1>3. ASSUME Steps(p), Unchanged(p), OnlyHere(p)
      PROVE  NamesOf(lock', manifest', job'[p])
  <2>1. CASE Starts(p)
    <3>1. /\ job[p].phase = "idle" /\ manifest' = manifest /\ lock' = lock
          /\ job'[p].phase \notin Writing
      BY <1>3, <2>1 DEF Starts, Unchanged
    <3>. QED
      BY <3>1 DEF NamesOf, Covered
  <2>2. CASE Ends(p)
    <3>0. job'[p].phase = "idle"
      BY <2>2 DEF Ends
    <3>1. CASE WriteLock(p)
      <4>1. /\ manifest' = manifest /\ lock'.pkgs = job[p].pkgs
            /\ job[p].phase = "lwrite"
        BY <3>1 DEF WriteLock, At
      <4>. QED
        BY <3>0, <4>1 DEF NamesOf
    <3>2. CASE ReadLockEnds(p)
      <4>1. /\ job[p].phase = "readlock" /\ manifest' = manifest /\ lock' = lock
            /\ lock.st = "torn" \/ (job[p].verb = "remove" /\ ~HasName(LockedPkgs, job[p].arg))
        BY <3>2 DEF ReadLockEnds, At, files
      <4>2. lock.st # "ok" => lock.pkgs = {}
        BY <1>0 DEF LoneInv, HeldOf
      <4>3. LockedPkgs = lock.pkgs
        BY <4>2 DEF LockedPkgs
      <4>4. Covered(lock.pkgs, Declared(manifest.deps))
        <5>1. CASE lock.st = "torn"
          BY <4>2, <5>1 DEF Covered
        <5>2. CASE job[p].verb = "remove" /\ ~HasName(LockedPkgs, job[p].arg)
          BY <4>1, <4>3, <5>2 DEF NamesOf, Covered, HasName
        <5>. QED
          BY <4>1, <5>1, <5>2
      <4>. QED
        BY <3>0, <4>1, <4>4 DEF NamesOf
    <3>3. CASE job[p].phase \in {"resolve", "vfetch", "vlock"}
      <4>1. manifest' = manifest /\ lock' = lock
        BY <1>3, <3>3 DEF Unchanged
      <4>. QED
        BY <3>0, <3>3, <4>1 DEF NamesOf
    <3>. QED
      BY <1>0, <2>2, <3>1, <3>2, <3>3, EndsWhere
  <2>3. CASE Proceeds(p)
    <3>1. /\ SameContext(p) /\ job'[p].pkgs = job[p].pkgs
          /\ <<job[p].phase, job'[p].phase>> \in Edges
      BY <2>3 DEF Proceeds, SameWork
    <3>2. CASE job[p].phase = "mtrunc"
      <4>1. manifest'.deps = manifest.deps /\ lock' = lock
        BY <1>0, <1>3, <3>2 DEF OnlyHere, TruncateManifest, TypeInv, TypeOK
      <4>. QED
        BY <3>1, <3>2, <4>1 DEF NamesOf, Edges
    <3>3. CASE job[p].phase = "mwrite"
      <4>1. /\ manifest'.deps = job[p].deps /\ lock' = lock
            /\ job'[p].phase = "readlock"
        BY <1>3, <3>1, <3>3 DEF OnlyHere, WriteManifest, Edges
      <4>2. /\ Covered(lock.pkgs, Declared(manifest.deps))
            /\ Declared(manifest.deps) \subseteq
                  Declared(job[p].deps) \cup (IF job[p].verb = "remove" THEN {job[p].arg} ELSE {})
        BY <1>0, <3>3 DEF NamesOf, LoneInv, DepsOf
      <4>. QED
        BY <3>1, <4>1, <4>2 DEF NamesOf, Covered, SameContext
    <3>4. CASE job[p].phase \in Writing
      <4>1. manifest' = manifest /\ job'[p].phase = "lwrite"
        BY <1>3, <3>1, <3>4 DEF Unchanged, Edges
      <4>. QED
        BY <3>1, <3>4, <4>1 DEF NamesOf
    <3>5. CASE job[p].phase \notin {"mtrunc", "mwrite"} \cup Writing
      <4>1. /\ manifest' = manifest /\ lock' = lock
            /\ {job[p].phase, job'[p].phase} \subseteq {"vremove", "vcopy", "vcopying", "vlock"}
        BY <1>3, <3>1, <3>5 DEF Unchanged, Edges
      <4>. QED
        BY <4>1 DEF NamesOf
    <3>. QED
      BY <3>2, <3>3, <3>4, <3>5
  <2>4. CASE Loads(p)
    <3>1. /\ job'[p].phase = "ltrunc"
          /\ job[p].phase \in {"readlock", "resolve", "vlock"}
      BY <2>4 DEF Loads, ReadLockForRemove, MergeLock, VendorLock, AllResolved, At
    <3>2. manifest' = manifest
      BY <1>3, <3>1 DEF Unchanged
    <3>. QED
      BY <1>0, <2>4, <3>1, <3>2, LoadsCovered DEF NamesOf
  <2>5. CASE \/ Takes(p) \/ ReadLockForResolve(p)
             \/ VendorFetch(p) /\ VendorSource(p).st = "ok"
    <3>1. Takes(p) => job[p].phase = "resolve" /\ job'[p].phase = "resolve"
      BY <1>0, AcceptFields DEF Takes, Resolving, At
    <3>2. ReadLockForResolve(p) =>
             job[p].phase = "readlock" /\ job[p].verb # "remove" /\ job'[p].phase = "resolve"
      BY <1>0, ReadFields DEF ReadLockForResolve, At
    <3>3. VendorFetch(p) /\ VendorSource(p).st = "ok" =>
             job[p].phase = "vfetch" /\ job'[p].phase \in VendorPhases
      BY <1>0, FetchFields DEF VendorFetch, At, VendorPhases
    <3>4. /\ manifest' = manifest /\ lock' = lock
          /\ job[p].phase \notin Writing /\ ~(job[p].phase = "readlock" /\ job[p].verb = "remove")
          /\ job'[p].phase \notin Writing \cup {"readlock"}
      BY <1>3, <2>5, <3>1, <3>2, <3>3 DEF Unchanged, VendorPhases
    <3>. QED
      BY <3>4 DEF NamesOf
  <2>. QED
    BY <1>3, <2>1, <2>2, <2>3, <2>4, <2>5 DEF Steps
<1>. QED
  BY <1>0, <1>1, <1>2, <1>3, LoneSteps
-----------------------------------------------------------------------------
(* A lockfile that the resolver would write again.                         *)

(* Digest d is what the world as it is would answer for dep: what is on    *)
(* disk, what upstream serves (Helm), what the clone has under the tag     *)
(* (git), or a cached blob (OCI).                                          *)
Reproduces(w, n, dep, d) ==
    \/ dep.repl /\ dep.kind # "helm" /\ w.fork[n] # Nil /\ d = Tree(w.fork[n])
    \/ HasVendor(w, n, dep)
         /\ d = Hash(IF dep.kind = "git" THEN "gittree" ELSE "tree", w.vendor[n])
    \/ Goes(w, n, dep, "path") /\ w.fork[n] # Nil /\ d = Tree(w.fork[n])
    \/ Goes(w, n, dep, "oci") /\ \E c \in w.blobs : d = Blob(c)
    \/ Goes(w, n, dep, "helm") /\ d = Blob(w.up[n][dep.ver])
    \/ /\ Goes(w, n, dep, "git") /\ w.bare[n].cloned /\ w.bare[n].refs[dep.ver] # Nil
       /\ d = Hash("commit", w.bare[n].refs[dep.ver])

Settles(w, n, dep, r) ==
    /\ Plainly(dep, r) /\ Reproduces(w, n, dep, r.digest)
    /\ Goes(w, n, dep, "oci") => r.via = "oci"

(* The entry of a dependency: found where it is looked for, under a digest *)
(* that is found again, and that is the one expected of an OCI artifact.   *)
Found(w, pkgs, n, dep, e) ==
    /\ e \in pkgs /\ e.name = n /\ e.ver = LockedVersion(dep)
    /\ e.kind = dep.kind /\ e.repl = dep.repl
    /\ Reproduces(w, n, dep, e.digest)
    /\ Goes(w, n, dep, "oci") => ExpectedOci(pkgs, n) = e.digest
EntryOK(w, pkgs, n, dep) == \E e \in pkgs : Found(w, pkgs, n, dep, e)
AllOK(w, pkgs, deps) == \A n \in Declared(deps) : EntryOK(w, pkgs, n, deps[n])

SameEntry(pkgs, n, r) ==
    \E e \in pkgs : /\ e.name = n /\ e.ver = r.ver
                    /\ e.kind = r.kind /\ e.repl = r.repl /\ e.digest = r.digest

(* u and w differ only by what the resolver adds to the caches.            *)
Grows(u, w, deps) ==
    /\ w.fork = u.fork /\ w.vendor = u.vendor /\ w.up = u.up /\ u.blobs \subseteq w.blobs
    /\ \A n \in Names : u.bare[n].cloned /\ u.bare[n].refs[deps[n].ver] # Nil
                           => w.bare[n] = u.bare[n]

LEMMA ReproducesStays ==
    ASSUME NEW u, NEW w, NEW deps, Grows(u, w, deps), NEW n \in Names, NEW d,
           Reproduces(u, n, deps[n], d)
    PROVE  Reproduces(w, n, deps[n], d)
<1>. DEFINE dep == deps[n]
<1>1. w.fork = u.fork /\ w.vendor = u.vendor /\ w.up = u.up /\ u.blobs \subseteq w.blobs
  BY DEF Grows
<1>2. u.bare[n].cloned /\ u.bare[n].refs[dep.ver] # Nil => w.bare[n] = u.bare[n]
  BY DEF Grows
<1>3. HasVendor(w, n, dep) = HasVendor(u, n, dep)
  BY <1>1 DEF HasVendor
<1>4. \A kind : Goes(w, n, dep, kind) = Goes(u, n, dep, kind)
  BY <1>3 DEF Goes
<1>5. Reproduces(u, n, dep, d)
  OBVIOUS
<1>. HIDE DEF dep
<1>6. Reproduces(w, n, dep, d)
  BY <1>1, <1>2, <1>3, <1>4, <1>5 DEF Reproduces
<1>. QED
  BY <1>6 DEF dep

LEMMA OkStays ==
    ASSUME NEW u, NEW w, NEW deps, Grows(u, w, deps), NEW pkgs, AllOK(u, pkgs, deps)
    PROVE  AllOK(w, pkgs, deps)
<1>. SUFFICES ASSUME NEW n \in Declared(deps) PROVE EntryOK(w, pkgs, n, deps[n])
  BY DEF AllOK
<1>1. PICK e \in pkgs : Found(u, pkgs, n, deps[n], e)
  BY DEF AllOK, EntryOK
<1>2. Reproduces(w, n, deps[n], e.digest)
  BY <1>1, ReproducesStays DEF Found, Declared
<1>3. Goes(w, n, deps[n], "oci") = Goes(u, n, deps[n], "oci")
  BY DEF Grows, Goes, HasVendor
<1>4. Found(w, pkgs, n, deps[n], e)
  BY <1>1, <1>2, <1>3 DEF Found
<1>. QED
  BY <1>4 DEF EntryOK

(* Resolving refreshes a clone only where it does not know the tag.        *)
LEMMA CloneStays ==
    ASSUME TypeInv, NEW p \in Procs, NEW m \in Names, ResolveStep(p, m), NEW n \in Names,
           bare[n].cloned, bare[n].refs[job[p].deps[n].ver] # Nil
    PROVE  bare'[n] = bare[n]
<1>1. CASE ResolveGit(p, m)
  <2>1. bare' = bare \/ bare' = BareAfter(m, job[p].deps[m].ver, NoDigest)
    BY <1>1 DEF ResolveGit
  <2>2. CASE m = n
    <3>1. ~GitRefreshes(m, job[p].deps[m].ver, NoDigest)
      BY <2>2 DEF GitRefreshes
    <3>. QED
      BY <2>1, <3>1 DEF BareAfter
  <2>3. CASE m # n
    BY <2>1, <2>3 DEF BareAfter, TypeInv, TypeOK
  <2>. QED
    BY <2>2, <2>3
<1>2. CASE ~ResolveGit(p, m)
  BY <1>2 DEF ResolveStep, ResolveReplaced, RejectReplace, ResolveVendored, ResolvePath,
     ResolveOci, ResolveHelm, Unreachable, caches
<1>. QED
  BY <1>1, <1>2

LEMMA ResolveFrame ==
    ASSUME TypeInv, NEW p \in Procs, Steps(p), job[p].phase = "resolve"
    PROVE  (\E m \in Names : ResolveStep(p, m)) \/ bare' = bare
<1>1. CASE Ends(p)
  BY <1>1
  DEF Ends, Ending, ReadLockEnds, FinishRender, FinishCheck, RejectImport, WriteLock,
      VendorUnreachable, Crash, VendorFetch, VendorLock, At, caches
<1>2. CASE Loads(p)
  BY <1>2 DEF Loads, ReadLockForRemove, MergeLock, VendorLock, At, caches
<1>3. CASE Takes(p)
  BY <1>3 DEF Takes
<1>4. ~Starts(p) /\ ~Proceeds(p) /\ ~ReadLockForResolve(p) /\ ~VendorFetch(p)
  BY DEF Starts, Proceeds, Edges, ReadLockForResolve, VendorFetch, At
<1>. QED
  BY <1>1, <1>2, <1>3, <1>4 DEF Steps

LEMMA WorldGrows ==
    ASSUME TypeInv, NEW p \in Procs, Steps(p), Unchanged(p), job[p].phase \notin VendorPhases
    PROVE  Grows(Now, Now', IF job[p].phase = "resolve" THEN job[p].deps ELSE manifest.deps)
<1>1. /\ vendor' = vendor /\ fork' = fork /\ upstream' = upstream /\ blobs \subseteq blobs'
      /\ job[p].phase # "resolve" => bare' = bare
  BY DEF Unchanged, VendorPhases
<1>2. CASE job[p].phase = "resolve"
  <2>1. ASSUME NEW n \in Names, bare[n].cloned, bare[n].refs[job[p].deps[n].ver] # Nil
        PROVE  bare'[n] = bare[n]
    BY <1>2, <2>1, CloneStays, ResolveFrame
  <2>. QED
    BY <1>1, <1>2, <2>1 DEF Grows, Now
<1>3. CASE job[p].phase # "resolve"
  BY <1>1, <1>3 DEF Grows, Now
<1>. QED
  BY <1>2, <1>3
(* What the resolver finds online it would find again.                     *)
LEMMA TakenSettles ==
    ASSUME TypeInv, NEW p \in Procs, NEW n \in Names, NEW r, ResolveStep(p, n), Accept(p, n, r),
           ~Offline(p), fork' = fork, vendor' = vendor, upstream' = upstream
    PROVE  Settles(Now', n, job[p].deps[n], job'[p].res[n])
<1>. DEFINE dep == job[p].deps[n]
            res == job'[p].res[n]
            w == Now'
<1>1. Plainly(dep, res) /\ Answer(p, n, dep, res)
  BY TakenCases
<1>2. /\ w.fork = fork /\ w.vendor = vendor /\ w.up = upstream
      /\ w.blobs = blobs' /\ w.bare = bare'
  BY DEF Now
<1>3. HasVendor(w, n, dep) = HasVendor(Now, n, dep)
  BY <1>2 DEF HasVendor, Now
<1>4. \A kind : Goes(w, n, dep, kind) = Goes(Now, n, dep, kind)
  BY <1>3 DEF Goes
<1>5. Now.fork = fork /\ Now.vendor = vendor
  BY DEF Now
<1>6. bare \in [Names -> [cloned : BOOLEAN, refs : [Versions -> MaybeContents]]]
  BY DEF TypeInv, TypeOK
<1>. HIDE DEF dep, res, w
<1>7. ASSUME ByReplace(Now, n, dep, res) PROVE Settles(w, n, dep, res)
  BY <1>1, <1>2, <1>5, <1>7 DEF ByReplace, Settles, Reproduces, Goes
<1>8. ASSUME ByVendor(Now, n, dep, res) PROVE Settles(w, n, dep, res)
  BY <1>1, <1>2, <1>3, <1>5, <1>8 DEF ByVendor, Settles, Reproduces, Goes
<1>9. ASSUME ByPath(Now, n, dep, res) PROVE Settles(w, n, dep, res)
  BY <1>1, <1>2, <1>4, <1>5, <1>9 DEF ByPath, Settles, Reproduces, Goes
<1>10. ASSUME ByOci(p, n, dep, res) PROVE Settles(w, n, dep, res)
  <2>1. res.digest = Blob(res.of) /\ res.of \in w.blobs /\ Goes(w, n, dep, "oci")
    BY <1>2, <1>4, <1>10 DEF ByOci
  <2>. QED
    BY <1>1, <1>10, <2>1 DEF ByOci, Settles, Reproduces
<1>11. ASSUME ByHelm(p, n, dep, res) PROVE Settles(w, n, dep, res)
  <2>1. res.digest = Blob(res.of) /\ Goes(w, n, dep, "helm")
    BY <1>4, <1>11 DEF ByHelm
  <2>2. res.of = upstream[n][dep.ver]
    BY <1>11 DEF ByHelm, HelmOutcome
  <2>. QED
    BY <1>1, <1>2, <2>1, <2>2 DEF Settles, Reproduces, Goes
<1>12. ASSUME ByGit(p, n, dep, res) PROVE Settles(w, n, dep, res)
  <2>1. res.digest = Hash("commit", res.of) /\ Goes(w, n, dep, "git")
    BY <1>4, <1>12 DEF ByGit
  <2>2. bare'[n].cloned /\ bare'[n].refs[dep.ver] # Nil /\ res.of = bare'[n].refs[dep.ver]
    <3>1. /\ bare' = BareAfter(n, dep.ver, NoDigest)
          /\ GitOutcome(n, dep.ver, NoDigest) = [st |-> "ok", of |-> res.of]
      BY <1>12 DEF ByGit
    <3>2. CASE GitRefreshes(n, dep.ver, NoDigest)
      <4>1. bare'[n] = [cloned |-> TRUE, refs |-> upstream[n]]
        BY <1>6, <3>1, <3>2 DEF BareAfter
      <4>2. upstream[n][dep.ver] # Nil /\ res.of = upstream[n][dep.ver]
        BY <3>1, <3>2 DEF GitOutcome
      <4>. QED
        BY <4>1, <4>2
    <3>3. CASE ~GitRefreshes(n, dep.ver, NoDigest)
      <4>1. bare' = bare
        BY <3>1, <3>3 DEF BareAfter
      <4>2. res.of = bare[n].refs[dep.ver]
        BY <3>1, <3>3 DEF GitOutcome
      <4>3. bare[n].cloned /\ bare[n].refs[dep.ver] # Nil
        BY <3>3 DEF GitRefreshes
      <4>. QED
        BY <4>1, <4>2, <4>3
    <3>. QED
      BY <3>2, <3>3
  <2>. QED
    BY <1>1, <1>2, <2>1, <2>2 DEF Settles, Reproduces, Goes
<1>13. Settles(w, n, dep, res)
  BY <1>1, <1>7, <1>8, <1>9, <1>10, <1>11, <1>12 DEF Answer
<1>. QED
  BY <1>13 DEF dep, res, w

(* An OCI artifact whose pin is in the cache is answered from it.          *)
LEMMA PinnedAnswer ==
    ASSUME NEW p, NEW n, NEW pkgs, NEW e, NEW dep,
           Found(Now, pkgs, n, dep, e), Goes(Now, n, dep, "oci"),
           job[p].pkgs = pkgs, job[p].verb # "update"
    PROVE  /\ CachedPin(Expected(p, n)) /\ e.digest = Blob(Expected(p, n).of)
           /\ \A offline : OciOutcome(n, dep.ver, Expected(p, n), offline)
                              = [st |-> "ok", of |-> Expected(p, n).of]
<1>1. Expected(p, n) = e.digest
  BY DEF Expected, Found
<1>2. \E c \in blobs : e.digest = Blob(c)
  <2>1. \E c \in Now.blobs : e.digest = Blob(c)
    BY DEF Found, Reproduces, Goes, HasVendor
  <2>. QED
    BY <2>1 DEF Now
<1>3. CachedPin(Expected(p, n)) /\ e.digest = Blob(Expected(p, n).of)
  BY <1>1, <1>2 DEF CachedPin, Blob, Hash
<1>. QED
  BY <1>3 DEF OciOutcome

(* A check that follows finds what the lockfile has.                       *)
LEMMA TakenSame ==
    ASSUME TypeInv, NEW p \in Procs, NEW n \in Names, NEW r, ResolveStep(p, n), Accept(p, n, r),
           ~Offline(p), NEW pkgs, job[p].pkgs = pkgs, job[p].verb # "update",
           EntryOK(Now, pkgs, n, job[p].deps[n])
    PROVE  SameEntry(pkgs, n, job'[p].res[n])
<1>. DEFINE dep == job[p].deps[n]
            res == job'[p].res[n]
<1>1. Plainly(dep, res) /\ Answer(p, n, dep, res)
  BY TakenCases
<1>2. PICK e \in pkgs : Found(Now, pkgs, n, dep, e)
  BY DEF EntryOK
<1>3. Reproduces(Now, n, dep, e.digest)
  BY <1>2 DEF Found
<1>4. /\ Now.fork = fork /\ Now.vendor = vendor /\ Now.up = upstream
      /\ Now.blobs = blobs /\ Now.bare = bare
  BY DEF Now
<1>. HIDE DEF dep, res
<1>5. ASSUME ByReplace(Now, n, dep, res) PROVE e.digest = res.digest
  BY <1>3, <1>5 DEF ByReplace, Reproduces, Goes, HasVendor
<1>6. ASSUME ByVendor(Now, n, dep, res) PROVE e.digest = res.digest
  BY <1>3, <1>6 DEF ByVendor, Reproduces, Goes, HasVendor
<1>7. ASSUME ByPath(Now, n, dep, res) PROVE e.digest = res.digest
  BY <1>3, <1>7 DEF ByPath, Reproduces, Goes, HasVendor
<1>8. ASSUME ByOci(p, n, dep, res) PROVE e.digest = res.digest
  <2>1. res.digest = Blob(res.of) /\ Goes(Now, n, dep, "oci")
        /\ OciOutcome(n, dep.ver, Expected(p, n), Offline(p)) = [st |-> "ok", of |-> res.of]
    BY <1>8 DEF ByOci
  <2>2. /\ e.digest = Blob(Expected(p, n).of)
        /\ OciOutcome(n, dep.ver, Expected(p, n), Offline(p))
              = [st |-> "ok", of |-> Expected(p, n).of]
    BY <1>2, <2>1, PinnedAnswer
  <2>3. res.of = Expected(p, n).of
    BY <2>1, <2>2
  <2>. QED
    BY <2>1, <2>2, <2>3
<1>9. ASSUME ByHelm(p, n, dep, res) PROVE e.digest = res.digest
  <2>1. res.digest = Blob(res.of) /\ Goes(Now, n, dep, "helm")
    BY <1>9 DEF ByHelm
  <2>2. res.of = upstream[n][dep.ver]
    BY <1>9 DEF ByHelm, HelmOutcome
  <2>. QED
    BY <1>3, <1>4, <2>1, <2>2 DEF Reproduces, Goes, HasVendor
<1>10. ASSUME ByGit(p, n, dep, res) PROVE e.digest = res.digest
  <2>1. /\ res.digest = Hash("commit", res.of) /\ Goes(Now, n, dep, "git")
        /\ GitOutcome(n, dep.ver, NoDigest) = [st |-> "ok", of |-> res.of]
    BY <1>10 DEF ByGit
  <2>2. /\ bare[n].cloned /\ bare[n].refs[dep.ver] # Nil
        /\ e.digest = Hash("commit", bare[n].refs[dep.ver])
    BY <1>3, <1>4, <2>1 DEF Reproduces, Goes, HasVendor
  <2>3. res.of = bare[n].refs[dep.ver]
    BY <2>1, <2>2 DEF GitOutcome, GitRefreshes
  <2>. QED
    BY <2>1, <2>2, <2>3
<1>11. e.digest = res.digest
  BY <1>1, <1>5, <1>6, <1>7, <1>8, <1>9, <1>10 DEF Answer
<1>12. SameEntry(pkgs, n, res)
  BY <1>1, <1>2, <1>11 DEF SameEntry, Plainly, Found
<1>. QED
  BY <1>12 DEF res
(* Why the resolver gives up; on a pin only where it had to fetch.         *)
Gives(p, n, dep) ==
    \/ dep.repl /\ fork[n] = Nil
    \/ dep.kind \in {"helm", "git"}
    \/ "reject" \in Events
    \/ Goes(Now, n, dep, "path") /\ fork[n] = Nil
    \/ Goes(Now, n, dep, "oci") /\ ~CachedPin(Expected(p, n))

LEMMA ErrorCases ==
    ASSUME TypeInv, NEW p \in Procs, NEW n \in Names, NEW st,
           ResolveStep(p, n), ResolveError(p, n, st), job[p].verb # "add"
    PROVE  /\ Gives(p, n, job[p].deps[n])
           /\ job'[p].result = "drift" =>
                 /\ Goes(Now, n, job[p].deps[n], "oci") /\ ~CachedPin(Expected(p, n))
<1>. DEFINE dep == job[p].deps[n]
            got == OciOutcome(n, dep.ver, Expected(p, n), Offline(p))
            Why == Gives(p, n, dep)
            Disputed == Goes(Now, n, dep, "oci") /\ ~CachedPin(Expected(p, n))
<1>1. job'[p].phase = "idle" /\ job[p].phase = "resolve"
  BY EndFields, ResolveEnds DEF ResolveError, Resolving, At
<1>2. ASSUME NEW x, Accept(p, n, x) PROVE FALSE
  BY <1>1, <1>2, AcceptFields
<1>3. ASSUME NEW x, ResolveError(p, n, x) PROVE job'[p].result = x
  BY <1>3, EndFields DEF ResolveError
<1>4. ASSUME NEW kind, Direct(p, n, kind) PROVE Goes(Now, n, dep, kind)
  BY <1>4 DEF Direct, FromVendor, Goes, HasVendor, Now
<1>5. got.st # "ok" => ~CachedPin(Expected(p, n))
  BY DEF OciOutcome
<1>. HIDE DEF got
<1>6. ASSUME ResolveReplaced(p, n) PROVE Why /\ job'[p].result = "fail"
  BY <1>2, <1>3, <1>6 DEF ResolveReplaced, Gives
<1>7. ASSUME RejectReplace(p, n) PROVE Why /\ job'[p].result = "fail"
  BY <1>3, <1>7 DEF RejectReplace, Gives
<1>8. ~ResolveVendored(p, n)
  BY <1>2 DEF ResolveVendored
<1>9. ASSUME ResolvePath(p, n) PROVE Why /\ job'[p].result = "fail"
  <2>1. Direct(p, n, "path") /\ fork[n] = Nil /\ ResolveError(p, n, "fail")
    BY <1>2, <1>9 DEF ResolvePath
  <2>. QED
    BY <1>3, <1>4, <2>1 DEF Gives
<1>10. ASSUME ResolveOci(p, n) PROVE Why /\ Disputed
  <2>1. Direct(p, n, "oci") /\ got.st # "ok"
    BY <1>2, <1>10 DEF ResolveOci, got
  <2>. QED
    BY <1>4, <1>5, <2>1 DEF Gives
<1>11. ASSUME ResolveHelm(p, n) PROVE Why /\ job'[p].result # "drift"
  <2>. DEFINE h == HelmOutcome(n, dep.ver, Expected(p, n), Offline(p))
  <2>1. /\ Direct(p, n, "helm") /\ ResolveError(p, n, h.st)
        /\ h \in [st : {"ok", "fail"}, of : MaybeContents]
    <3>1. dep.ver \in Versions
      BY ResolveEnds, ResolvingVersion
    <3>. QED
      BY <1>2, <1>11, <3>1, OutcomeTypes DEF ResolveHelm, TypeInv
  <2>. HIDE DEF h
  <2>. QED
    BY <1>3, <2>1 DEF Gives, Direct
<1>12. ASSUME ResolveGit(p, n) PROVE Why /\ job'[p].result = "fail"
  <2>1. Direct(p, n, "git") /\ ResolveError(p, n, "fail")
    BY <1>2, <1>12 DEF ResolveGit
  <2>. QED
    BY <1>3, <2>1 DEF Gives, Direct
<1>13. ASSUME Unreachable(p, n) PROVE Why /\ job'[p].result = "fail"
  <2>1. /\ Direct(p, n, dep.kind) /\ ResolveError(p, n, "fail")
        /\ dep.kind \in {"helm", "git"} \/ (dep.kind = "oci" /\ ~CachedPin(Expected(p, n)))
    BY <1>13 DEF Unreachable, NeedsNetwork
  <2>. QED
    BY <1>3, <1>4, <2>1 DEF Gives
<1>. QED
  BY <1>6, <1>7, <1>8, <1>9, <1>10, <1>11, <1>12, <1>13 DEF ResolveStep

LEMMA NoDispute ==
    ASSUME TypeInv, NEW p \in Procs, NEW n \in Names, NEW st,
           ResolveStep(p, n), ResolveError(p, n, st), job[p].verb \notin {"add", "update"},
           EntryOK(Now, job[p].pkgs, n, job[p].deps[n])
    PROVE  /\ job'[p].result # "drift"
           /\ ~(job[p].deps[n].kind \in {"path", "oci"} /\ "reject" \notin Events)
<1>. DEFINE dep == job[p].deps[n]
            pkgs == job[p].pkgs
<1>1. PICK e \in pkgs : Found(Now, pkgs, n, dep, e)
  BY DEF EntryOK
<1>2. Goes(Now, n, dep, "oci") => CachedPin(Expected(p, n))
  BY <1>1, PinnedAnswer
<1>3. dep.repl \/ Goes(Now, n, dep, "path") => fork[n] # Nil
  BY <1>1 DEF Found, Reproduces, Goes, HasVendor, Now
<1>4. Gives(p, n, dep) /\ (job'[p].result = "drift" => ~CachedPin(Expected(p, n)))
  BY ErrorCases
<1>5. job'[p].result # "drift"
  BY <1>2, ErrorCases
<1>. HIDE DEF dep
<1>6. ~(dep.kind \in {"path", "oci"} /\ "reject" \notin Events)
  BY <1>2, <1>3, <1>4 DEF Gives
<1>. QED
  BY <1>5, <1>6 DEF dep

(* Merging what the lockfile has changes nothing.                          *)
LEMMA MergeSame ==
    ASSUME NEW pkgs \in SUBSET Entry, Unique(pkgs), NEW res, NEW ns,
           \A n \in ns : SameEntry(pkgs, n, res[n])
    PROVE  Merge(pkgs, res, ns) = pkgs
<1>1. ASSUME NEW n \in ns
      PROVE  \E e \in pkgs : e.name = n /\ e.ver = res[n].ver /\ NewEntry(pkgs, n, res[n]) = e
  <2>. DEFINE r == res[n]
  <2>1. PICK e \in pkgs : /\ e.name = n /\ e.ver = r.ver
                          /\ e.kind = r.kind /\ e.repl = r.repl /\ e.digest = r.digest
    BY <1>1 DEF SameEntry
  <2>. HIDE DEF r
  <2>2. CarriedFrom(pkgs, n, r) = {e}
    BY <2>1 DEF CarriedFrom, Slot, Unique
  <2>3. Carry(pkgs, n, r) = [sig |-> e.sig, vendored |-> e.vendored]
    BY <2>2 DEF Carry
  <2>4. NewEntry(pkgs, n, r) = [name |-> e.name, ver |-> e.ver, kind |-> e.kind,
                                digest |-> e.digest, vendored |-> e.vendored,
                                repl |-> e.repl, sig |-> e.sig]
    BY <2>1, <2>3 DEF NewEntry
  <2>5. NewEntry(pkgs, n, r) = e
    BY <2>4 DEF Entry
  <2>. QED
    BY <2>1, <2>5 DEF r
<1>. DEFINE item(n) == NewEntry(pkgs, n, res[n])
<1>2. \A n \in ns : item(n) \in pkgs /\ item(n).name = n /\ item(n).ver = res[n].ver
  BY <1>1
<1>. HIDE DEF item
<1>3. \A e \in pkgs, n \in ns : e.name = n /\ e.ver = res[n].ver => e = item(n)
  BY <1>2 DEF Unique
<1>4. Merge(pkgs, res, ns)
        = {e \in pkgs : ~ \E n \in ns : e.name = n /\ e.ver = res[n].ver} \cup {item(n) : n \in ns}
  BY DEF Merge, item
<1>. QED
  BY <1>2, <1>3, <1>4

(* The entry just merged is the one the resolver will be held to, if its   *)
(* digest was what was expected before.                                    *)
LEMMA MergeExpected ==
    ASSUME NEW pkgs \in SUBSET Entry, Unique(pkgs), \A e \in pkgs : Formed(e),
           NEW res, NEW ns, NEW n \in ns, Merge(pkgs, res, ns) \in SUBSET Entry,
           res[n].via = "oci", res[n].kind = "oci", KeepsPin(pkgs, n, res[n])
    PROVE  ExpectedOci(Merge(pkgs, res, ns), n) = res[n].digest
<1>. DEFINE new == Merge(pkgs, res, ns)
            item == NewEntry(pkgs, n, res[n])
            vers == {e.ver : e \in {x \in new : x.name = n /\ x.kind = "oci"}}
<1>1. /\ item \in new /\ item.name = n /\ item.ver = res[n].ver
      /\ item.kind = "oci" /\ item.digest = res[n].digest
  BY NewEntryFields DEF Merge
<1>2. /\ \A e \in new : e \in pkgs \/ (e.name = n => e = item)
      /\ \A e \in pkgs : e.name = n => e \in new \/ e.ver = item.ver
  BY <1>1, NewEntryFields DEF Merge
<1>3. Unique(new) /\ new \in SUBSET Entry
  BY MergeUnique
<1>. HIDE DEF new, item
<1>4. PICK v \in vers : \A u \in vers : u <= v
  <2>1. vers \subseteq 0..Local /\ item.ver \in vers
    BY <1>1, <1>3 DEF Entry
  <2>. HIDE DEF vers
  <2>. QED
    BY <2>1, VersionsApart, HasGreatest
<1>5. PICK x \in new : x.name = n /\ x.kind = "oci" /\ x.ver = v
  OBVIOUS
<1>6. \A e \in new : e.name = n /\ e.kind = "oci" => e.ver <= x.ver
  BY <1>4, <1>5
<1>7. ExpectedOci(new, n) = x.digest
  BY <1>3, <1>5, <1>6, HighestDecides
<1>8. CASE x = item
  BY <1>1, <1>7, <1>8 DEF new
<1>9. CASE x # item
  <2>1. x \in pkgs
    BY <1>2, <1>5, <1>9
  <2>2. \A e \in pkgs : e.name = n /\ e.kind = "oci" => e.ver <= x.ver
    BY <1>1, <1>2, <1>6
  <2>3. ExpectedOci(pkgs, n) = x.digest
    BY <1>5, <2>1, <2>2, HighestDecides
  <2>4. x.digest # NoDigest
    BY <1>5, <2>1 DEF Formed, NoDigest
  <2>. QED
    BY <1>7, <2>3, <2>4 DEF KeepsPin, new
<1>. QED
  BY <1>8, <1>9

LEMMA MergeOK ==
    ASSUME NEW w, NEW pkgs \in SUBSET Entry, Unique(pkgs), \A e \in pkgs : Formed(e),
           NEW res, NEW deps, Merge(pkgs, res, Declared(deps)) \in SUBSET Entry,
           \A n \in Declared(deps) : Settles(w, n, deps[n], res[n]) /\ KeepsPin(pkgs, n, res[n])
    PROVE  AllOK(w, Merge(pkgs, res, Declared(deps)), deps)
<1>. DEFINE new == Merge(pkgs, res, Declared(deps))
<1>. SUFFICES ASSUME NEW n \in Declared(deps)
              PROVE  Found(w, new, n, deps[n], NewEntry(pkgs, n, res[n]))
  BY DEF AllOK, EntryOK, Found
<1>. DEFINE item == NewEntry(pkgs, n, res[n])
            dep == deps[n]
<1>1. /\ item \in new /\ item.name = n /\ item.ver = res[n].ver /\ item.kind = res[n].kind
      /\ item.digest = res[n].digest /\ item.repl = res[n].repl
  BY NewEntryFields DEF Merge
<1>2. Plainly(dep, res[n]) /\ Reproduces(w, n, dep, res[n].digest)
  BY DEF Settles
<1>3. Goes(w, n, dep, "oci") => ExpectedOci(new, n) = res[n].digest
  <2>1. Goes(w, n, dep, "oci") => res[n].via = "oci" /\ res[n].kind = "oci"
    BY DEF Settles, Plainly, Goes
  <2>. QED
    BY <2>1, MergeExpected
<1>. HIDE DEF item, dep, new
<1>4. Found(w, new, n, dep, item)
  BY <1>1, <1>2, <1>3 DEF Found, Plainly
<1>. QED
  BY <1>4 DEF item, dep
-----------------------------------------------------------------------------
(* From a lock to the checks that follow it.                               *)

Settling(w, j) == \A n \in Declared(j.deps) \ j.todo : Settles(w, n, j.deps[n], j.res[n])
Same(pkgs, j) == \A n \in Declared(j.deps) \ j.todo : SameEntry(pkgs, n, j.res[n])

(* A lock has settled what it resolved, then what it is about to write.    *)
Locking(s, w, j) ==
    s = "locking" /\ j.verb = "lock" =>
        /\ j.phase = "resolve" => Settling(w, j)
        /\ j.phase \in Writing => AllOK(w, j.pkgs, j.deps)
(* Nothing but these verbs has run since it began, ...                     *)
Quiet(s, j) == s # "no" /\ j.phase # "idle" => j.verb \in {"lock", "check", "render"}
(* ... and once it is done, what it wrote still stands, ...                *)
Rested(s, w, l, m, j) ==
    s = "yes" =>
        /\ l.st = "ok" /\ m.st = "ok" /\ AllOK(w, l.pkgs, m.deps)
        /\ j.phase \in {"idle", "readlock", "resolve"}
        /\ j.phase # "idle" => j.verb \in {"check", "render"}
(* ... so that a check finds it.                                           *)
Checking(s, l, j) ==
    s = "yes" /\ j.verb = "check" =>
        /\ j.phase = "resolve" => Same(l.pkgs, j)
        /\ j.result \notin {"stale", "drift"}

SettledInv(p) ==
    /\ Locking(settled, Now, job[p]) /\ Quiet(settled, job[p])
    /\ Rested(settled, Now, lock, manifest, job[p]) /\ Checking(settled, lock, job[p])

LEMMA BeginSettled ==
    ASSUME TypeInv, NEW p \in Procs, Begin(p)
    PROVE  /\ UNCHANGED <<manifest, lock, Now>>
           /\ settled' = CASE job'[p].verb = "lock" -> "locking"
                           [] job'[p].verb \in {"check", "render"} -> settled
                           [] OTHER -> "no"
<1>1. UNCHANGED <<files, caches, remote>>
  BY DEF Begin, BeginAdd, BeginRemove, BeginVendor, BeginLock, BeginUpdate, BeginRender
<1>2. PICK verb, arg, flag, phase, deps : Start(p, verb, arg, flag, phase, deps)
  BY Zenon DEF Begin, BeginAdd, BeginRemove, BeginVendor, BeginLock, BeginUpdate, BeginRender
<1>3. /\ job'[p].verb = verb
      /\ settled' = CASE verb = "lock" -> "locking"
                      [] verb \in {"check", "render"} -> settled
                      [] OTHER -> "no"
  BY <1>2, StartFields DEF Start
<1>. QED
  BY <1>1, <1>3 DEF files, caches, remote, Now

(* What moves while something is settled.                                  *)
LEMMA SettledMoves ==
    ASSUME NEW p \in Procs, TypeInv, LoneInv(p), SettledInv(p), Steps(p), settled # "no",
           job[p].phase # "idle"
    PROVE  /\ job[p].phase \in {"readlock", "resolve"} \cup Writing
           /\ Proceeds(p) => job[p].phase = "ltrunc" /\ job'[p].phase = "lwrite"
           /\ Loads(p) => MergeLock(p) /\ job[p].verb = "lock" /\ settled = "locking"
           /\ ~VendorFetch(p)
<1>1. job[p].verb \in {"lock", "check", "render"}
  BY DEF SettledInv, Quiet
<1>2. job[p].phase \notin VendorPhases \cup {"mtrunc", "mwrite"}
  BY <1>1 DEF LoneInv, VerbOf, TypeInv, WorkInv, WorkOf
<1>3. job[p].phase \in {"readlock", "resolve"} \cup Writing
  BY <1>2, JobAt DEF TypeInv, Job, Phases, VendorPhases, Writing
<1>4. Proceeds(p) => job[p].phase = "ltrunc" /\ job'[p].phase = "lwrite"
  BY <1>2 DEF Proceeds, Edges, VendorPhases
<1>5. Loads(p) => MergeLock(p) /\ job[p].verb = "lock" /\ settled = "locking"
  <2>1. Loads(p) => MergeLock(p)
    BY <1>1, <1>2 DEF Loads, ReadLockForRemove, VendorLock, At, VendorPhases
  <2>2. MergeLock(p) => job[p].verb = "lock" /\ job[p].phase = "resolve"
    BY <1>1, MergeFields DEF Merging
  <2>3. settled = "locking"  \/ job[p].verb # "lock"
    BY DEF SettledInv, Rested, TypeInv, TypeOK
  <2>. QED
    BY <2>1, <2>2, <2>3
<1>6. ~VendorFetch(p)
  BY <1>2 DEF VendorFetch, At, VendorPhases
<1>. QED
  BY <1>3, <1>4, <1>5, <1>6

LEMMA SettledGrows ==
    ASSUME NEW p \in Procs, TypeInv, LoneInv(p), Steps(p), Unchanged(p),
           job[p].phase \in {"idle", "readlock", "resolve"} \cup Writing
    PROVE  Grows(Now, Now', manifest.deps)
<1>1. job[p].phase = "resolve" => job[p].deps = manifest.deps
  BY DEF LoneInv, DepsOf, Working
<1>2. job[p].phase \notin VendorPhases
  BY DEF VendorPhases, Writing
<1>. QED
  BY <1>1, <1>2, WorldGrows

LEMMA RestedStep ==
    ASSUME NEW p \in Procs, TypeInv, LoneInv(p), SettledInv(p), Steps(p), Unchanged(p),
           OnlyHere(p) \/ (Crash(p) /\ UNCHANGED <<files, caches, remote, settled>>)
    PROVE  Rested(settled', Now', lock', manifest', job'[p])
<1>. SUFFICES ASSUME settled' = "yes"
              PROVE  Rested("yes", Now', lock', manifest', job'[p])
  BY DEF Rested
<1>1. CASE WriteLock(p)
  <2>1. /\ job[p].phase = "lwrite" /\ job[p].verb = "lock" /\ settled = "locking"
        /\ lock' = [st |-> "ok", pkgs |-> job[p].pkgs] /\ manifest' = manifest /\ Now' = Now
    BY <1>1 DEF WriteLock, At, caches, remote, Now
  <2>2. job[p].deps = manifest.deps /\ manifest.st = "ok"
    BY <2>1 DEF LoneInv, DepsOf, Working, Writing
  <2>3. AllOK(Now, job[p].pkgs, job[p].deps)
    BY <2>1 DEF SettledInv, Locking, Writing
  <2>4. job'[p].phase = "idle"
    BY <1>1, EndFields DEF WriteLock
  <2>. QED
    BY <2>1, <2>2, <2>3, <2>4 DEF Rested
<1>2. ASSUME Begin(p), job[p].phase = "idle"
      PROVE  Rested("yes", Now', lock', manifest', job'[p])
  <2>1. /\ lock' = lock /\ manifest' = manifest /\ Now' = Now /\ settled = "yes"
        /\ job'[p].verb \in {"check", "render"}
    BY <1>2, BeginSettled
  <2>2. job'[p].phase = "readlock"
    BY <1>2, <2>1, BeginFields
  <2>. QED
    BY <2>1, <2>2 DEF SettledInv, Rested
<1>3. ASSUME ~WriteLock(p), ~Starts(p) PROVE Rested("yes", Now', lock', manifest', job'[p])
  <2>1. job[p].phase # "idle"
    BY <1>3, ResolveEnds
    DEF Steps, Ends, Ending, ReadLockEnds, FinishRender, FinishCheck, RejectImport, AllResolved,
        VendorUnreachable, Crash, VendorFetch, VendorLock, Proceeds, Edges, Loads,
        ReadLockForRemove, MergeLock, Takes, Resolving, ReadLockForResolve, At
  <2>2. settled = "yes"
    BY <1>3, <2>1 DEF Unchanged, OnlyHere
  <2>3. /\ job[p].phase \in {"readlock", "resolve"} /\ job[p].verb \in {"check", "render"}
        /\ lock.st = "ok" /\ manifest.st = "ok" /\ AllOK(Now, lock.pkgs, manifest.deps)
    BY <2>1, <2>2 DEF SettledInv, Rested
  <2>4. lock' = lock /\ manifest' = manifest
    BY <2>3 DEF Unchanged
  <2>5. AllOK(Now', lock.pkgs, manifest.deps)
    <3>1. Grows(Now, Now', manifest.deps)
      BY <2>3, SettledGrows
    <3>. QED
      BY <2>3, <3>1, OkStays
  <2>6. /\ job'[p].phase \in {"idle", "resolve"}
        /\ job'[p].phase # "idle" => job'[p].verb = job[p].verb
    <3>1. ~Proceeds(p) /\ ~Loads(p) /\ ~VendorFetch(p)
      BY <2>1, <2>2, <2>3, SettledMoves DEF Writing
    <3>2. Ends(p) => job'[p].phase = "idle"
      BY DEF Ends
    <3>3. Takes(p) => job'[p].phase = job[p].phase /\ job'[p].verb = job[p].verb
                        /\ job[p].phase = "resolve"
      BY AcceptFields DEF Takes, SameContext, Resolving, At
    <3>4. ReadLockForResolve(p) => job'[p].phase = "resolve" /\ job'[p].verb = job[p].verb
      BY ReadFields DEF SameContext
    <3>. QED
      BY <1>3, <3>1, <3>2, <3>3, <3>4 DEF Steps
  <2>. QED
    BY <2>3, <2>4, <2>5, <2>6 DEF Rested
<1>. QED
  BY <1>1, <1>2, <1>3 DEF Starts
LEMMA QuietStep ==
    ASSUME NEW p \in Procs, TypeInv, SettledInv(p), Steps(p), Unchanged(p),
           OnlyHere(p) \/ (Crash(p) /\ UNCHANGED <<files, caches, remote, settled>>)
    PROVE  Quiet(settled', job'[p])
<1>1. CASE Starts(p)
  BY <1>1, BeginSettled DEF Starts, Quiet
<1>2. CASE Ends(p)
  BY <1>2 DEF Ends, Quiet
<1>3. ASSUME Proceeds(p) \/ Loads(p) \/ Takes(p) \/ ReadLockForResolve(p)
               \/ (VendorFetch(p) /\ VendorSource(p).st = "ok")
      PROVE  Quiet(settled', job'[p])
  <2>1. job'[p].verb = job[p].verb
    BY <1>3, AcceptFields, ReadFields, FetchFields
    DEF Proceeds, Loads, Takes, SameContext
  <2>2. job[p].phase \notin {"idle", "lwrite"}
    BY <1>3 DEF Proceeds, Edges, Loads, ReadLockForRemove, MergeLock, AllResolved, VendorLock,
       Takes, Resolving, ReadLockForResolve, VendorFetch, At
  <2>. QED
    BY <2>1, <2>2 DEF Unchanged, SettledInv, Quiet
<1>. QED
  BY <1>1, <1>2, <1>3 DEF Steps

LEMMA LockingStep ==
    ASSUME NEW p \in Procs, SoloInv(p), SoloInv(p)', SettledInv(p), Steps(p), Unchanged(p),
           OnlyHere(p) \/ (Crash(p) /\ UNCHANGED <<files, caches, remote, settled>>)
    PROVE  Locking(settled', Now', job'[p])
<1>. SUFFICES ASSUME settled' = "locking", job'[p].verb = "lock",
                     job'[p].phase \in {"resolve"} \cup Writing
              PROVE  /\ job'[p].phase = "resolve" => Settling(Now', job'[p])
                     /\ job'[p].phase \in Writing => AllOK(Now', job'[p].pkgs, job'[p].deps)
  BY DEF Locking
<1>0. TypeInv /\ LoneInv(p)
  BY DEF SoloInv
<1>1. ~Starts(p) /\ ~Ends(p)
  BY DEF Starts, Ends, Writing
<1>2. job[p].phase \notin {"idle", "lwrite"}
  BY <1>1 DEF Steps, Proceeds, Edges, Loads, ReadLockForRemove, MergeLock, AllResolved,
     VendorLock, Takes, Resolving, ReadLockForResolve, VendorFetch, At
<1>3. settled = "locking"
  BY <1>2 DEF Unchanged
<1>4. /\ job[p].phase \in {"readlock", "resolve"} \cup Writing
      /\ Proceeds(p) => job[p].phase = "ltrunc" /\ job'[p].phase = "lwrite"
      /\ Loads(p) => MergeLock(p) /\ job[p].verb = "lock"
      /\ ~VendorFetch(p)
  BY <1>0, <1>2, <1>3, SettledMoves
<1>5. Grows(Now, Now', manifest.deps)
  BY <1>0, <1>4, SettledGrows
<1>6. job[p].deps = manifest.deps
  BY <1>0, <1>4 DEF LoneInv, DepsOf, Working
<1>7. CASE Proceeds(p)
  <2>1. /\ job'[p].pkgs = job[p].pkgs /\ job'[p].deps = job[p].deps /\ job[p].verb = "lock"
        /\ job[p].phase = "ltrunc" /\ job'[p].phase = "lwrite"
    BY <1>4, <1>7 DEF Proceeds, SameWork, SameContext
  <2>2. AllOK(Now, job[p].pkgs, manifest.deps)
    BY <1>3, <1>6, <2>1 DEF SettledInv, Locking, Writing
  <2>3. AllOK(Now', job[p].pkgs, manifest.deps)
    BY <1>5, <2>2, OkStays
  <2>. QED
    BY <1>6, <2>1, <2>3
<1>8. CASE Loads(p)
  <2>1. /\ job[p].phase = "resolve" /\ job[p].todo = {} /\ job[p].verb = "lock"
        /\ job'[p].phase = "ltrunc" /\ SameContext(p) /\ job'[p].res = job[p].res
        /\ job'[p].pkgs = Merge(job[p].pkgs, job[p].res, Declared(job[p].deps))
    BY <1>0, <1>4, <1>8, MergeFields DEF ScopeOf
  <2>. DEFINE pkgs == job[p].pkgs
              res == job[p].res
              deps == job[p].deps
  <2>2. \A n \in Declared(deps) : Settles(Now, n, deps[n], res[n])
    BY <1>3, <2>1 DEF SettledInv, Locking, Settling
  <2>3. pkgs = LockedOf(lock) /\ lock' = lock
    BY <2>1 DEF SoloInv, LoneInv, HeldOf, Unchanged
  <2>4. \A n \in Declared(deps) : KeepsPin(pkgs, n, res[n])
    <3>1. \A n \in Names : KeepsPin(LockedOf(lock'), n, job'[p].res[n])
      BY <2>1 DEF SoloInv, LoneInv, HeldOf, KeepsPin
    <3>. QED
      BY <2>1, <2>3, <3>1 DEF Declared
  <2>5. pkgs \in SUBSET Entry /\ Merge(pkgs, res, Declared(deps)) \in SUBSET Entry
    <3>1. job[p].pkgs \in SUBSET Entry /\ job'[p].pkgs \in SUBSET Entry
      BY DEF SoloInv, TypeInv, TypeOK, Job
    <3>. QED
      BY <2>1, <3>1
  <2>6. Unique(pkgs) /\ \A e \in pkgs : Formed(e)
    BY DEF SoloInv, UniqueInv, FormInv
  <2>. HIDE DEF pkgs, res, deps
  <2>7. AllOK(Now, Merge(pkgs, res, Declared(deps)), deps)
    BY <2>2, <2>4, <2>5, <2>6, MergeOK
  <2>8. AllOK(Now, job'[p].pkgs, manifest.deps)
    BY <1>6, <2>1, <2>7 DEF pkgs, res, deps
  <2>9. AllOK(Now', job'[p].pkgs, manifest.deps)
    BY <1>5, <2>8, OkStays
  <2>. QED
    BY <1>6, <2>1, <2>9 DEF SameContext
<1>9. CASE Takes(p)
  <2>1. PICK n, r : n \in Names /\ ResolveStep(p, n) /\ Accept(p, n, r)
    BY <1>9 DEF Takes
  <2>2. /\ SameContext(p) /\ job'[p].phase = job[p].phase /\ job'[p].todo = job[p].todo \ {n}
        /\ \A m \in Names : m # n => job'[p].res[m] = job[p].res[m]
    BY <1>0, <2>1, AcceptFields
  <2>3. job[p].phase = "resolve" /\ job[p].verb = "lock"
    BY <1>0, <2>1, <2>2, ResolveEnds DEF SameContext, Resolving, At
  <2>4. Settling(Now, job[p])
    BY <1>3, <2>3 DEF SettledInv, Locking
  <2>5. Settles(Now', n, job[p].deps[n], job'[p].res[n])
    <3>1. ~Offline(p) /\ fork' = fork /\ vendor' = vendor /\ upstream' = upstream
      BY <2>3 DEF Offline, Unchanged
    <3>. QED
      BY <1>0, <2>1, <3>1, TakenSettles
  <2>6. ASSUME NEW m \in Declared(job'[p].deps) \ job'[p].todo
        PROVE  Settles(Now', m, job'[p].deps[m], job'[p].res[m])
    <3>1. CASE m = n
      BY <2>2, <2>5, <3>1 DEF SameContext
    <3>2. CASE m # n
      <4>. DEFINE was == job[p].res[m]
                  deps == manifest.deps
      <4>1. /\ job'[p].res[m] = was /\ m \in Declared(job[p].deps) \ job[p].todo
            /\ job'[p].deps = deps /\ m \in Names
        BY <1>6, <2>2, <3>2 DEF SameContext, Declared
      <4>2. Settles(Now, m, deps[m], was)
        BY <1>6, <2>4, <4>1 DEF Settling
      <4>. HIDE DEF was, deps
      <4>3. Reproduces(Now', m, deps[m], was.digest)
        BY <1>5, <4>1, <4>2, ReproducesStays DEF Settles, deps
      <4>4. Goes(Now', m, deps[m], "oci") = Goes(Now, m, deps[m], "oci")
        BY <1>5 DEF Grows, Goes, HasVendor
      <4>5. Settles(Now', m, deps[m], was)
        BY <4>2, <4>3, <4>4 DEF Settles
      <4>. QED
        BY <4>1, <4>5
    <3>. QED
      BY <3>1, <3>2
  <2>. QED
    BY <2>2, <2>3, <2>6 DEF Settling, Writing
<1>10. CASE ReadLockForResolve(p)
  <2>1. job'[p].phase = "resolve" /\ Declared(job'[p].deps) \ job'[p].todo = {}
    BY <1>0, <1>10, ReadFields DEF SameContext
  <2>. QED
    BY <2>1 DEF Settling, Writing
<1>. QED
  BY <1>1, <1>4, <1>7, <1>8, <1>9, <1>10 DEF Steps
(* How a check that finds everything as it was can end.                    *)
LEMMA CheckEnds ==
    ASSUME NEW p \in Procs, SoloInv(p), Ends(p), job[p].verb = "check",
           job[p].phase \in {"readlock", "resolve"}, Same(lock.pkgs, job[p]),
           AllOK(Now, lock.pkgs, manifest.deps), lock.st = "ok"
    PROVE  job'[p].result \notin {"stale", "drift"}
<1>0. TypeInv /\ LoneInv(p)
  BY DEF SoloInv
<1>1. ASSUME NEW r, Finish(p, r) PROVE job'[p].result = r
  BY <1>0, <1>1, EndFields
<1>2. CASE FinishCheck(p)
  <2>1. job[p].phase = "resolve" /\ job[p].todo = {} /\ Scope(p) = Declared(job[p].deps)
    BY <1>2 DEF FinishCheck, AllResolved, At, Scope
  <2>2. job[p].pkgs = lock.pkgs
    BY <1>0, <2>1 DEF LoneInv, HeldOf, LockedOf
  <2>. DEFINE pkgs == lock.pkgs
              res == job[p].res
              ns == Declared(job[p].deps)
  <2>3. \A n \in ns : SameEntry(pkgs, n, res[n])
    BY <2>1 DEF Same
  <2>4. pkgs \in SUBSET Entry /\ Unique(pkgs)
    BY DEF SoloInv, TypeInv, TypeOK, UniqueInv
  <2>. HIDE DEF pkgs, res, ns
  <2>5. Merge(pkgs, res, ns) = pkgs
    BY <2>3, <2>4, MergeSame
  <2>6. Merged(p) = job[p].pkgs
    BY <2>1, <2>2, <2>5 DEF Merged, pkgs, res, ns
  <2>7. Finish(p, "ok")
    BY <1>2, <2>6 DEF FinishCheck
  <2>. QED
    BY <1>1, <2>7
<1>3. ASSUME NEW n \in Names, NEW st, ResolveStep(p, n), ResolveError(p, n, st)
      PROVE  job'[p].result \notin {"stale", "drift"}
  <2>1. job[p].phase = "resolve" /\ n \in Declared(job[p].deps)
    BY <1>0, <1>3, ResolveEnds, ResolvingVersion DEF Resolving, At
  <2>2. job[p].pkgs = lock.pkgs /\ job[p].deps = manifest.deps
    BY <1>0, <2>1 DEF LoneInv, HeldOf, DepsOf, LockedOf, Working
  <2>3. EntryOK(Now, job[p].pkgs, n, job[p].deps[n])
    BY <2>1, <2>2 DEF AllOK
  <2>4. job'[p].result # "drift"
    BY <1>0, <1>3, <2>3, NoDispute
  <2>5. job'[p].result = st /\ st # "stale"
    <3>1. ASSUME NEW x, ResolveError(p, n, x) PROVE job'[p].result = x
      BY <1>0, <3>1, EndFields DEF ResolveError
    <3>2. \E x \in {"fail", "drift", "ok"} : ResolveError(p, n, x)
      <4>1. job[p].deps[n].ver \in Versions
        BY <1>0, <2>1, DeclaredVersion
      <4>2. ASSUME NEW x, Accept(p, n, x) PROVE FALSE
        <5>1. job'[p].phase = "resolve" /\ job'[p].phase = "idle"
          BY <1>0, <1>3, <2>1, <4>2, AcceptFields, EndFields DEF ResolveError
        <5>. QED
          BY <5>1
      <4>. DEFINE o == OciOutcome(n, job[p].deps[n].ver, Expected(p, n), Offline(p))
                  h == HelmOutcome(n, job[p].deps[n].ver, Expected(p, n), Offline(p))
      <4>3. o.st \in {"ok", "fail", "drift"} /\ h.st \in {"ok", "fail"}
        <5>1. /\ o \in [st : {"ok", "fail", "drift"}, of : MaybeContents]
              /\ h \in [st : {"ok", "fail"}, of : MaybeContents]
          BY <1>0, <4>1, OutcomeTypes DEF TypeInv
        <5>. HIDE DEF o, h
        <5>. QED
          BY <5>1
      <4>4. ResolveOci(p, n) => ResolveError(p, n, o.st)
        BY <4>2 DEF ResolveOci
      <4>5. ResolveHelm(p, n) => ResolveError(p, n, h.st)
        BY <4>2 DEF ResolveHelm
      <4>. HIDE DEF o, h
      <4>6. ~ResolveOci(p, n) /\ ~ResolveHelm(p, n) => ResolveError(p, n, "fail")
        BY <1>3, <4>2 DEF ResolveStep, ResolveReplaced, RejectReplace, ResolveVendored,
           ResolvePath, ResolveGit, Unreachable
      <4>. QED
        BY <4>3, <4>4, <4>5, <4>6
    <3>. QED
      BY <1>3, <3>1, <3>2
  <2>. QED
    BY <2>4, <2>5
<1>4. CASE RejectImport(p) \/ Crash(p)
  BY <1>1, <1>4 DEF RejectImport, Crash
<1>5. ~ReadLockEnds(p) /\ ~FinishRender(p) /\ ~WriteLock(p) /\ ~VendorUnreachable(p)
      /\ ~VendorFetch(p) /\ ~VendorLock(p)
  BY DEF ReadLockEnds, FinishRender, WriteLock, VendorUnreachable, VendorFetch, VendorLock, At
<1>. QED
  BY <1>2, <1>3, <1>4, <1>5 DEF Ends, Ending

LEMMA CheckingStep ==
    ASSUME NEW p \in Procs, SoloInv(p), SettledInv(p), Steps(p), Unchanged(p),
           OnlyHere(p) \/ (Crash(p) /\ UNCHANGED <<files, caches, remote, settled>>)
    PROVE  Checking(settled', lock', job'[p])
<1>. SUFFICES ASSUME settled' = "yes", job'[p].verb = "check"
              PROVE  /\ job'[p].phase = "resolve" => Same(lock'.pkgs, job'[p])
                     /\ job'[p].result \notin {"stale", "drift"}
  BY DEF Checking
<1>0. TypeInv /\ LoneInv(p)
  BY DEF SoloInv
<1>1. CASE Starts(p)
  BY <1>1 DEF Starts
<1>2. ASSUME ~Starts(p) PROVE job[p].phase # "idle" /\ job[p].verb = "check" /\ settled = "yes"
  <2>1. job[p].phase # "idle"
    BY <1>0, <1>2, ResolveEnds
    DEF Steps, Ends, Ending, ReadLockEnds, FinishRender, FinishCheck, RejectImport, AllResolved,
        WriteLock, VendorUnreachable, Crash, VendorFetch, VendorLock, Proceeds, Edges, Loads,
        ReadLockForRemove, MergeLock, Takes, Resolving, ReadLockForResolve, At
  <2>2. job[p].verb = "check"
    BY <1>0, <1>2, AcceptFields, ReadFields, FetchFields
    DEF Steps, Ends, Proceeds, Loads, Takes, SameContext
  <2>3. job[p].phase # "lwrite"
    BY <1>0, <2>2 DEF LoneInv, VerbOf, Writing, Merging
  <2>. QED
    BY <2>1, <2>2, <2>3 DEF Unchanged
<1>3. ASSUME ~Starts(p)
      PROVE  /\ job[p].phase \in {"readlock", "resolve"} /\ lock.st = "ok"
             /\ AllOK(Now, lock.pkgs, manifest.deps) /\ lock' = lock
             /\ job[p].phase = "resolve" =>
                   Same(lock.pkgs, job[p]) /\ job[p].pkgs = lock.pkgs /\ job[p].deps = manifest.deps
             /\ job[p].result \notin {"stale", "drift"}
             /\ ~Proceeds(p) /\ ~Loads(p) /\ ~VendorFetch(p)
  <2>1. /\ job[p].phase \in {"readlock", "resolve"} /\ lock.st = "ok"
        /\ AllOK(Now, lock.pkgs, manifest.deps)
        /\ job[p].phase = "resolve" => Same(lock.pkgs, job[p])
        /\ job[p].result \notin {"stale", "drift"}
    BY <1>2, <1>3 DEF SettledInv, Rested, Checking
  <2>2. lock' = lock
    BY <2>1 DEF Unchanged
  <2>3. job[p].phase = "resolve" => job[p].pkgs = lock.pkgs /\ job[p].deps = manifest.deps
    BY <1>0, <2>1 DEF LoneInv, HeldOf, LockedOf, DepsOf, Working
  <2>4. ~Proceeds(p) /\ ~Loads(p) /\ ~VendorFetch(p)
    BY <1>0, <1>2, <1>3, <2>1, SettledMoves
  <2>. QED
    BY <2>1, <2>2, <2>3, <2>4
<1>4. CASE Ends(p) /\ ~Starts(p)
  <2>1. job'[p].phase = "idle"
    BY <1>4 DEF Ends
  <2>2. CASE job[p].phase = "resolve"
    BY <1>2, <1>3, <1>4, <2>1, <2>2, CheckEnds
  <2>3. CASE job[p].phase = "readlock"
    <3>1. Crash(p)
      BY <1>0, <1>2, <1>4, <2>3, ResolveEnds
      DEF Ends, Ending, ReadLockEnds, FinishRender, FinishCheck, RejectImport, AllResolved,
          WriteLock, VendorUnreachable, VendorFetch, VendorLock, Resolving, At
    <3>2. job'[p].result = "crashed"
      BY <1>0, <3>1, EndFields DEF Crash
    <3>. QED
      BY <2>1, <3>2
  <2>. QED
    BY <1>3, <1>4, <2>2, <2>3
<1>5. CASE Takes(p) /\ ~Starts(p)
  <2>1. PICK n, r : n \in Names /\ ResolveStep(p, n) /\ Accept(p, n, r)
    BY <1>5 DEF Takes
  <2>2. /\ SameContext(p) /\ job'[p].phase = job[p].phase /\ job'[p].todo = job[p].todo \ {n}
        /\ \A m \in Names : m # n => job'[p].res[m] = job[p].res[m]
    BY <1>0, <2>1, AcceptFields
  <2>3. job[p].phase = "resolve" /\ n \in Declared(job[p].deps)
    BY <1>0, <2>1, ResolveEnds, ResolvingVersion DEF Resolving, At
  <2>4. SameEntry(lock.pkgs, n, job'[p].res[n])
    <3>1. EntryOK(Now, lock.pkgs, n, job[p].deps[n]) /\ job[p].pkgs = lock.pkgs
      BY <1>3, <1>5, <2>3 DEF AllOK
    <3>2. ~Offline(p) /\ job[p].verb # "update"
      BY <1>2, <1>5 DEF Offline
    <3>. QED
      BY <1>0, <2>1, <3>1, <3>2, TakenSame
  <2>5. ASSUME NEW m \in Declared(job'[p].deps) \ job'[p].todo
        PROVE  SameEntry(lock.pkgs, m, job'[p].res[m])
    <3>1. CASE m = n
      BY <2>4, <3>1
    <3>2. CASE m # n
      <4>1. m \in Declared(job[p].deps) \ job[p].todo /\ job'[p].res[m] = job[p].res[m]
        BY <2>2, <3>2 DEF SameContext, Declared
      <4>. QED
        BY <1>3, <1>5, <2>3, <4>1 DEF Same
    <3>. QED
      BY <3>1, <3>2
  <2>. QED
    BY <1>3, <1>5, <2>2, <2>5 DEF Same, SameContext
<1>6. CASE ReadLockForResolve(p) /\ ~Starts(p)
  <2>1. /\ Declared(job'[p].deps) \ job'[p].todo = {}
        /\ job'[p].result = job[p].result
    BY <1>0, <1>6, ReadFields DEF SameContext
  <2>. QED
    BY <1>3, <1>6, <2>1 DEF Same
<1>. QED
  BY <1>1, <1>3, <1>4, <1>5, <1>6 DEF Steps

LEMMA SettledStep ==
    ASSUME NEW p, OneProcess(p)
    PROVE  SoloInv(p) /\ SoloInv(p)' /\ SettledInv(p) /\ [Next]_vars => SettledInv(p)'
<1>. SUFFICES ASSUME SoloInv(p), SoloInv(p)', SettledInv(p), [Next]_vars
              PROVE  /\ Locking(settled', Now', job'[p]) /\ Quiet(settled', job'[p])
                     /\ Rested(settled', Now', lock', manifest', job'[p])
                     /\ Checking(settled', lock', job'[p])
  BY DEF SettledInv
<1>0. p \in Procs /\ TypeInv /\ LoneInv(p)
  BY DEF OneProcess, SoloInv
<1>1. CASE UNCHANGED vars
  <2>1. settled' = settled /\ Now' = Now /\ job' = job /\ lock' = lock /\ manifest' = manifest
    BY <1>1 DEF vars, files, caches, remote, Now
  <2>. QED
    BY <2>1 DEF SettledInv
<1>2. CASE Hands
  BY <1>2 DEF Hands, Locking, Quiet, Rested, Checking
<1>3. ASSUME Steps(p), Unchanged(p),
             OnlyHere(p) \/ (Crash(p) /\ UNCHANGED <<files, caches, remote, settled>>)
      PROVE  /\ Locking(settled', Now', job'[p]) /\ Quiet(settled', job'[p])
             /\ Rested(settled', Now', lock', manifest', job'[p])
             /\ Checking(settled', lock', job'[p])
  BY <1>0, <1>3, LockingStep, QuietStep, RestedStep, CheckingStep
<1>. QED
  BY <1>0, <1>1, <1>2, <1>3, LoneSteps

LEMMA SettledAlways ==
    ASSUME NEW p, OneProcess(p)
    PROVE  Spec => [](SoloInv(p) /\ SettledInv(p))
<1>1. Init => SettledInv(p)
  BY DEF Init, Idle, OneProcess, SettledInv, Locking, Quiet, Rested, Checking, Writing
<1>. QED
  BY <1>1, SettledStep, SoloAlways, PTL DEF Spec
-----------------------------------------------------------------------------
(* What holds after a lock.                                                *)

(* lock --check that runs right after a successful lock, alone and with    *)
(* nothing changed in between, disputes no digest and finds the lockfile   *)
(* up to date: the resolver takes the same branch for every dependency,    *)
(* with the pin it wrote itself, and merging its answer is the identity.   *)
THEOREM CheckIsClean ==
    ASSUME \E p : Procs = {p}
    PROVE  Spec => []CheckAfterLockClean
<1>1. PICK p : OneProcess(p)
  BY DEF OneProcess
<1>2. SoloInv(p) /\ SettledInv(p) => CheckAfterLockClean
  BY <1>1 DEF SettledInv, Checking, CheckAfterLockClean, OneProcess
<1>. QED
  BY <1>1, <1>2, SettledAlways, PTL

(* The tree verify hashes for a dependency is the one lock resolved.       *)
LEMMA OfflineFinds ==
    ASSUME NEW n, NEW d, Reproduces(Now, n, manifest.deps[n], d)
    PROVE  /\ OfflineFails(n) => Unsupported(n)
           /\ manifest.deps[n].kind = "path" => d = Tree(OfflineTree(n))
<1>. DEFINE dep == manifest.deps[n]
<1>1. /\ Unsupported(n) <=> \/ dep.kind = "helm"
                            \/ dep.kind \in {"oci", "git"} /\ ~dep.repl /\ vendor[n] = Nil
      /\ OfflineTree(n) = IF dep.repl \/ (vendor[n] = Nil /\ dep.kind = "path")
                          THEN fork[n] ELSE vendor[n]
  BY DEF Unsupported, OfflineTree
<1>2. Now.fork = fork /\ Now.vendor = vendor
  BY DEF Now
<1>. HIDE DEF dep
<1>3. Reproduces(Now, n, dep, d)
  BY DEF dep
<1>4. OfflineTree(n) = Nil => Unsupported(n)
  BY <1>1, <1>2, <1>3 DEF Reproduces, HasVendor, Goes
<1>5. dep.kind = "path" => d = Tree(OfflineTree(n))
  BY <1>1, <1>2, <1>3 DEF Reproduces, HasVendor, Goes, Tree
<1>. QED
  BY <1>4, <1>5 DEF OfflineFails, dep

LEMMA VerifyFinds ==
    ASSUME NEW p, SoloInv(p), SettledInv(p), settled = "yes",
           \A e \in lock.pkgs : e.kind = manifest.deps[e.name].kind
    PROVE  VerifyPasses(FALSE)
<1>1. /\ lock.st = "ok" /\ manifest.st = "ok"
      /\ \A n \in Declared(manifest.deps) : EntryOK(Now, lock.pkgs, n, manifest.deps[n])
  BY DEF SettledInv, Rested, AllOK
<1>2. lock.pkgs \in SUBSET Entry /\ Unique(lock.pkgs) /\ \A e \in lock.pkgs : Formed(e)
  BY DEF SoloInv, TypeInv, TypeOK, UniqueInv, FormInv
<1>3. \A e \in lock.pkgs : e.name \in Declared(manifest.deps)
  BY <1>2 DEF Declared, Entry, Kinds
<1>4. \A n \in Declared(manifest.deps) : \E e \in lock.pkgs : e.name = n
  BY <1>1 DEF EntryOK, Found
<1>5. {e.name : e \in lock.pkgs} = Declared(manifest.deps)
  BY <1>3, <1>4
<1>6. \A n \in Declared(manifest.deps) : OfflineFails(n) => Unsupported(n)
  BY <1>1, OfflineFinds DEF EntryOK, Found
<1>7. ASSUME NEW e \in lock.pkgs, e.kind = "path" PROVE e.digest = Tree(OfflineTree(e.name))
  <2>. DEFINE n == e.name
              dep == manifest.deps[n]
  <2>1. n \in Declared(manifest.deps) /\ dep.kind = "path"
    BY <1>3, <1>7
  <2>2. PICK d \in lock.pkgs : Found(Now, lock.pkgs, n, dep, d)
    BY <1>1, <2>1 DEF EntryOK
  <2>3. d.ver = Local /\ e.ver = Local /\ d.name = e.name
    BY <1>2, <1>7, <2>1, <2>2 DEF Found, LockedVersion, Formed
  <2>4. d = e
    BY <1>2, <1>7, <2>3 DEF Unique
  <2>5. Reproduces(Now, n, dep, e.digest)
    BY <2>2, <2>4 DEF Found
  <2>. QED
    BY <2>1, <2>5, OfflineFinds
<1>8. PathsMatch
  <2>. DEFINE failing == {n \in Declared(manifest.deps) : OfflineFails(n)}
  <2>1. CASE failing = {}
    BY <1>7, <2>1 DEF PathsMatch
  <2>2. CASE failing # {}
    <3>1. failing \in SUBSET Nat /\ \A n \in failing : Unsupported(n)
      BY <1>6 DEF Declared, Names
    <3>. HIDE DEF failing
    <3>2. PICK n \in failing : \A m \in failing : n <= m
      BY <2>2, <3>1, HasLeast
    <3>3. \E k \in failing : Unsupported(k) /\ \A m \in failing : k <= m
      BY <3>1, <3>2
    <3>. QED
      BY <2>2, <3>3 DEF PathsMatch, failing
  <2>. QED
    BY <2>1, <2>2
<1>. QED
  BY <1>1, <1>5, <1>8 DEF VerifyPasses

(* verify, which resolves offline and without a pin, accepts what a lock   *)
(* that ran alone has just written online, where the lockfile has no entry *)
(* of another kind than declared: it gives up on the first dependency that *)
(* only a network could resolve, and hashes the same trees before it.      *)
THEOREM VerifyAgrees ==
    ASSUME \E p : Procs = {p}
    PROVE  Spec => []VerifyAfterLock
<1>1. PICK p : OneProcess(p)
  BY DEF OneProcess
<1>2. SoloInv(p) /\ SettledInv(p) => VerifyAfterLock
  BY VerifyFinds DEF VerifyAfterLock
<1>. QED
  BY <1>1, <1>2, SettledAlways, PTL

(* The lockfile lists no undeclared name once no verb runs, and after lock *)
(* an entry of every declared one, if a single process at a time works on  *)
(* the workspace and none dies between akua.toml and akua.lock.            *)
THEOREM LockfileMatches ==
    ASSUME \E p : Procs = {p}, "crash" \notin Events
    PROVE  Spec => []LockMatchesManifest
<1>1. PICK p : OneProcess(p)
  BY DEF OneProcess
<1>. DEFINE Named == NamesOf(lock, manifest, job[p])
<1>2. Init => Named
  BY <1>1 DEF Init, Idle, OneProcess, NamesOf, Covered, Writing
<1>3. SoloInv(p) /\ Named /\ [Next]_vars => Named'
  BY <1>1, NamesStep
<1>4. SoloInv(p) /\ SettledInv(p) /\ Named => LockMatchesManifest
  <2>. SUFFICES ASSUME SoloInv(p), SettledInv(p), Named, AllIdle
                PROVE  /\ \A e \in lock.pkgs : e.name \in Declared(manifest.deps)
                       /\ settled = "yes" => \A n \in Declared(manifest.deps) :
                             Slot(lock.pkgs, n, LockedVersion(manifest.deps[n])) # {}
    BY DEF LockMatchesManifest
  <2>1. \A e \in lock.pkgs : e.name \in Declared(manifest.deps)
    BY <1>1 DEF AllIdle, At, OneProcess, NamesOf, Covered, Writing
  <2>2. ASSUME settled = "yes", NEW n \in Declared(manifest.deps)
        PROVE  Slot(lock.pkgs, n, LockedVersion(manifest.deps[n])) # {}
    BY <2>2 DEF SettledInv, Rested, AllOK, EntryOK, Found, Slot
  <2>. QED
    BY <2>1, <2>2
<1>. HIDE DEF Named
<1>. QED
  BY <1>1, <1>2, <1>3, <1>4, SettledAlways, PTL DEF Spec

-----------------------------------------------------------------------------
(* Rendering offline after a lock.                                         *)

LocalKinds(deps) == \A n \in Names : deps[n].kind \in {"none", "path", "oci"}
KindsInv == LocalKinds(manifest.deps) /\ \A p \in Procs : LocalKinds(job[p].deps)

LEMMA KindsStep ==
    ASSUME AddKinds \subseteq {"path", "oci"}
    PROVE  TypeInv /\ KindsInv /\ [Next]_vars => KindsInv'
<1>. SUFFICES ASSUME TypeInv, KindsInv, [Next]_vars PROVE KindsInv'
  OBVIOUS
<1>0. manifest.deps \in [Names -> Dep]
  BY DEF TypeInv, TypeOK
<1>1. LocalKinds(manifest'.deps)
  <2>1. ASSUME NEW n \in Names, NEW dep \in EditableDeps, EditManifest(n, dep)
        PROVE  LocalKinds(manifest'.deps)
    <3>1. manifest'.deps = [manifest.deps EXCEPT ![n] = dep] /\ dep.kind \in AddKinds
      BY <2>1 DEF EditManifest, EditableDeps, TypeInv, TypeOK
    <3>. QED
      BY <1>0, <3>1 DEF KindsInv, LocalKinds
  <2>. QED
    BY <2>1, SourceStep DEF KindsInv, WriteManifest
<1>2. ASSUME NEW p \in Procs PROVE LocalKinds(job'[p].deps)
  <2>0. LocalKinds(job[p].deps) /\ LocalKinds(manifest.deps)
    BY DEF KindsInv
  <2>1. CASE Starts(p)
    <3>1. /\ \A dep \in AddableDeps : dep.kind \in {"path", "oci"}
          /\ NoDep.kind = "none"
      BY DEF AddableDeps, NoDep
    <3>. QED
      BY <1>0, <2>0, <2>1, <3>1, BeginFields DEF Starts, LocalKinds
  <2>2. CASE Ends(p)
    BY <2>2 DEF Ends, LocalKinds, NoDep
  <2>3. CASE ~Starts(p) /\ ~Ends(p)
    BY <2>0, <2>3, AcceptFields, ReadFields, FetchFields, JobSteps
    DEF JobStep, Steps, Proceeds, Loads, Takes, SameContext
  <2>. QED
    BY <2>1, <2>2, <2>3
<1>. QED
  BY <1>1, <1>2 DEF KindsInv

Ready(s, j) == s = "yes" /\ j.verb = "render" => j.result \notin {"fail", "drift"}

LEMMA ReadyStep ==
    ASSUME NEW p, OneProcess(p), "reject" \notin Events
    PROVE  SoloInv(p) /\ SettledInv(p) /\ KindsInv /\ Ready(settled, job[p]) /\ [Next]_vars
           => Ready(settled, job[p])'
<1>. SUFFICES ASSUME SoloInv(p), SettledInv(p), KindsInv, Ready(settled, job[p]), [Next]_vars
              PROVE  Ready(settled', job'[p])
  BY DEF Ready
<1>0. p \in Procs /\ TypeInv /\ LoneInv(p)
  BY DEF OneProcess, SoloInv
<1>1. CASE UNCHANGED vars \/ Hands
  BY <1>1 DEF vars, Hands, Ready
<1>2. ASSUME Steps(p), Unchanged(p), settled' = "yes", job'[p].verb = "render", ~Starts(p),
             OnlyHere(p) \/ (Crash(p) /\ UNCHANGED <<files, caches, remote, settled>>)
      PROVE  job'[p].result \notin {"fail", "drift"}
  <2>1. job[p].phase # "idle"
    BY <1>0, <1>2, ResolveEnds
    DEF Steps, Ends, Ending, ReadLockEnds, FinishRender, FinishCheck, RejectImport, AllResolved,
        WriteLock, VendorUnreachable, Crash, VendorFetch, VendorLock, Proceeds, Edges, Loads,
        ReadLockForRemove, MergeLock, Takes, Resolving, ReadLockForResolve, At
  <2>2. job[p].verb = "render"
    BY <1>0, <1>2, AcceptFields, ReadFields, FetchFields
    DEF Steps, Ends, Proceeds, Loads, Takes, SameContext
  <2>3. settled = "yes"
    <3>1. job[p].phase # "lwrite"
      BY <1>0, <2>2 DEF LoneInv, VerbOf, Writing, Merging
    <3>. QED
      BY <1>2, <2>1, <3>1 DEF Unchanged
  <2>4. /\ job[p].phase \in {"readlock", "resolve"} /\ lock.st = "ok"
        /\ AllOK(Now, lock.pkgs, manifest.deps) /\ job[p].result \notin {"fail", "drift"}
    BY <2>1, <2>2, <2>3 DEF SettledInv, Rested, Ready
  <2>5. ~Proceeds(p) /\ ~Loads(p) /\ ~VendorFetch(p)
    BY <1>0, <1>2, <2>1, <2>3, <2>4, SettledMoves DEF Writing
  <2>6. CASE Ends(p)
    <3>1. ASSUME NEW r, Finish(p, r) PROVE job'[p].result = r
      BY <1>0, <3>1, EndFields
    <3>2. CASE FinishRender(p) \/ Crash(p)
      BY <3>1, <3>2 DEF FinishRender, Crash
    <3>3. ASSUME NEW n \in Names, NEW st, ResolveStep(p, n), ResolveError(p, n, st) PROVE FALSE
      <4>1. job[p].phase = "resolve" /\ n \in Declared(job[p].deps)
        BY <1>0, <3>3, ResolveEnds, ResolvingVersion DEF Resolving, At
      <4>2. job[p].pkgs = lock.pkgs /\ job[p].deps = manifest.deps
        BY <1>0, <2>4, <4>1 DEF LoneInv, HeldOf, DepsOf, LockedOf, Working
      <4>3. EntryOK(Now, job[p].pkgs, n, job[p].deps[n])
        BY <2>4, <4>1, <4>2 DEF AllOK
      <4>4. job[p].deps[n].kind \in {"path", "oci"}
        BY <1>0, <4>1 DEF KindsInv, LocalKinds, Declared
      <4>. QED
        BY <1>0, <2>2, <3>3, <4>3, <4>4, NoDispute
    <3>4. ~ReadLockEnds(p) /\ ~FinishCheck(p) /\ ~RejectImport(p) /\ ~WriteLock(p)
          /\ ~VendorUnreachable(p) /\ ~VendorFetch(p) /\ ~VendorLock(p)
      BY <2>2, <2>4 DEF ReadLockEnds, FinishCheck, RejectImport, WriteLock, VendorUnreachable,
         VendorFetch, VendorLock, At
    <3>. QED
      BY <2>6, <3>2, <3>3, <3>4 DEF Ends, Ending
  <2>7. CASE Takes(p) \/ ReadLockForResolve(p)
    BY <1>0, <2>4, <2>7, AcceptFields, ReadFields DEF Takes, SameContext
  <2>. QED
    BY <1>2, <2>5, <2>6, <2>7 DEF Steps
<1>3. Starts(p) => job'[p].result = "none"
  BY DEF Starts
<1>. QED
  BY <1>0, <1>1, <1>2, <1>3, LoneSteps DEF Ready

(* render, online or --offline, that runs right after a successful lock    *)
(* has everything it needs, where every dependency is a path or an OCI     *)
(* artifact and no policy rejects a replace: the pinned archive is in the  *)
(* cache and is taken without asking the registry.                         *)
THEOREM OfflineIsReady ==
    ASSUME \E p : Procs = {p}, AddKinds \subseteq {"path", "oci"}, "reject" \notin Events
    PROVE  Spec => []OfflineAfterLock
<1>1. PICK p : OneProcess(p)
  BY DEF OneProcess
<1>2. Init => KindsInv /\ Ready(settled, job[p])
  BY <1>1 DEF Init, Idle, OneProcess, KindsInv, LocalKinds, NoDep, Ready
<1>3. SoloInv(p) => TypeInv
  BY DEF SoloInv
<1>4. TypeInv /\ KindsInv /\ [Next]_vars => KindsInv'
  BY KindsStep
<1>5. SoloInv(p) /\ SettledInv(p) /\ KindsInv /\ Ready(settled, job[p]) /\ [Next]_vars
        => Ready(settled, job[p])'
  BY <1>1, ReadyStep
<1>6. Ready(settled, job[p]) => OfflineAfterLock
  BY <1>1 DEF Ready, OfflineAfterLock, OneProcess
<1>. QED
  BY <1>1, <1>2, <1>3, <1>4, <1>5, <1>6, SettledAlways, PTL DEF Spec
-----------------------------------------------------------------------------
(* What vendor add leaves.                                                 *)

(* What vendor check reads of an entry.                                    *)
Describes(e, tree) == Tree(tree) = IF e.vendored # NoDigest THEN e.vendored ELSE e.digest

(* Once it has copied, the process pins the tree that is there.            *)
Vendored(v, j) ==
    /\ j.phase # "idle" => j.result = "none"
    /\ j.phase = "vlock" => v[j.arg] = j.res[j.arg].of
    /\ j.verb = "vendor" /\ j.phase \in Writing =>
          \E e \in j.pkgs : e.name = j.arg /\ Describes(e, v[j.arg])

LEMMA VendorEntryDescribes ==
    ASSUME NEW pkgs, NEW n, NEW r, Bound(pkgs), r.digest \in {Tree(r.of), Hash("commit", r.of)}
    PROVE  Describes(VendorEntry(pkgs, n, r), r.of)
<1>. DEFINE old == NewEntry(pkgs, n, r)
            new == VendorEntry(pkgs, n, r)
<1>1. new.digest = r.digest /\ old.digest = r.digest
  BY NewEntryFields, VendorEntryFields
<1>2. EntryBound(old)
  BY NewEntryBound
<1>3. CASE r.digest = Tree(r.of)
  <2>1. new = old
    BY <1>3 DEF VendorEntry
  <2>2. r.digest.form = "tree"
    BY <1>3 DEF Tree, Hash
  <2>. HIDE DEF new, old
  <2>3. new.vendored = NoDigest
    BY <1>1, <1>2, <2>1, <2>2 DEF EntryBound
  <2>4. Describes(new, r.of)
    BY <1>1, <1>3, <2>3 DEF Describes
  <2>. QED
    BY <2>4 DEF new
<1>4. CASE r.digest # Tree(r.of)
  <2>1. new = [old EXCEPT !.vendored = Tree(r.of)]
    BY <1>4 DEF VendorEntry
  <2>2. new.vendored = Tree(r.of)
    BY <2>1 DEF NewEntry
  <2>3. Tree(r.of) # NoDigest
    BY DEF Tree, Hash, NoDigest
  <2>. QED
    BY <2>2, <2>3 DEF Describes
<1>. QED
  BY <1>3, <1>4

LEMMA VendoredStep ==
    ASSUME NEW p, OneProcess(p)
    PROVE  SoloInv(p) /\ Vendored(vendor, job[p]) /\ [Next]_vars => Vendored(vendor', job'[p])
<1>. SUFFICES ASSUME SoloInv(p), Vendored(vendor, job[p]), [Next]_vars
              PROVE  Vendored(vendor', job'[p])
  OBVIOUS
<1>0. p \in Procs /\ TypeInv /\ LoneInv(p) /\ BoundInv
  BY DEF OneProcess, SoloInv
<1>1. CASE UNCHANGED vars \/ Hands
  BY <1>0, <1>1 DEF vars, files, Hands, Vendored, At, Writing
<1>2. ASSUME Steps(p), Unchanged(p),
             OnlyHere(p) \/ (Crash(p) /\ UNCHANGED <<files, caches, remote, settled>>)
      PROVE  Vendored(vendor', job'[p])
  <2>1. CASE Starts(p)
    BY <2>1 DEF Starts, Vendored, Writing
  <2>2. CASE Ends(p)
    BY <2>2 DEF Ends, Vendored, Writing
  <2>3. CASE Proceeds(p)
    <3>1. /\ SameContext(p) /\ SameWork(p) /\ <<job[p].phase, job'[p].phase>> \in Edges
          /\ job[p].phase # "idle"
      BY <2>3 DEF Proceeds, Edges
    <3>2. job'[p].result = "none"
      BY <3>1 DEF Vendored, SameContext
    <3>3. ASSUME job'[p].phase = "vlock" PROVE vendor'[job[p].arg] = job[p].res[job[p].arg].of
      <4>1. job[p].phase = "vcopying" /\ job'[p].phase # "idle"
        BY <3>1, <3>3 DEF Edges
      <4>2. VendorCopyEnd(p)
        BY <1>0, <1>2, <4>1, EndFields DEF OnlyHere, Crash
      <4>3. job[p].arg \in Names /\ vendor \in [Names -> MaybeContents]
        BY <1>0, <4>1, JobAt DEF TypeInv, TypeOK, WorkInv, WorkOf, VendorPhases, Declared
      <4>. QED
        BY <4>2, <4>3 DEF VendorCopyEnd
    <3>4. ASSUME job'[p].verb = "vendor", job'[p].phase \in Writing
          PROVE  \E e \in job'[p].pkgs : e.name = job'[p].arg /\ Describes(e, vendor'[job'[p].arg])
      <4>1. job[p].phase = "ltrunc" /\ job[p].verb = "vendor"
        BY <3>1, <3>4 DEF Edges, Writing, SameContext
      <4>. QED
        BY <1>2, <3>1, <4>1 DEF Vendored, Unchanged, Writing, SameContext, SameWork
    <3>. QED
      BY <3>1, <3>2, <3>3, <3>4 DEF Vendored, SameContext, SameWork
  <2>4. CASE Loads(p)
    <3>1. /\ SameContext(p) /\ job'[p].phase = "ltrunc" /\ job'[p].res = job[p].res
          /\ job[p].phase \notin {"idle", "vremove", "vcopy", "vcopying"}
      BY <2>4 DEF Loads, ReadLockForRemove, MergeLock, VendorLock, AllResolved, At
    <3>2. ASSUME job'[p].verb = "vendor"
          PROVE  \E e \in job'[p].pkgs : e.name = job'[p].arg /\ Describes(e, vendor'[job'[p].arg])
      <4>1. VendorLock(p) /\ job[p].phase = "vlock"
        BY <2>4, <3>1, <3>2 DEF Loads, ReadLockForRemove, MergeLock, VendorLock, At, SameContext
      <4>2. lock.st # "torn"
        <5>1. CASE lock.st = "torn"
          <6>1. Finish(p, "fail")
            BY <4>1, <5>1 DEF VendorLock
          <6>. QED
            BY <1>0, <3>1, <6>1, EndFields
        <5>. QED
          BY <5>1
      <4>. DEFINE r == VendorRes(p)
                  new == VendorEntry(LockedPkgs, job[p].arg, r)
      <4>3. job' = [job EXCEPT ![p].phase = "ltrunc", ![p].pkgs = VendorMerge(p)]
        BY <4>1, <4>2 DEF VendorLock, VendorMerge, VendorRes
      <4>4. new \in job'[p].pkgs
        <5>1. job'[p].pkgs = VendorMerge(p)
          BY <1>0, <4>3, LoadFields
        <5>2. new \in VendorMerge(p)
          BY DEF VendorMerge
        <5>. QED
          BY <5>1, <5>2
      <4>5. /\ r.digest = job[p].res[job[p].arg].digest
            /\ r.of = job[p].res[job[p].arg].of
        BY <1>0, <4>1, VendorResFields DEF At
      <4>6. r.digest \in {Tree(r.of), Hash("commit", r.of)}
        BY <1>0, <4>1, <4>5 DEF BoundInv, VendorPins, VendorPhases
      <4>7. Bound(LockedPkgs)
        BY <1>0 DEF BoundInv, Bound, LockedPkgs
      <4>8. new.name = job[p].arg
        BY VendorEntryFields
      <4>9. vendor'[job[p].arg] = r.of
        BY <1>2, <4>1, <4>5 DEF Unchanged, Vendored
      <4>. HIDE DEF r
      <4>10. Describes(new, r.of)
        BY <4>6, <4>7, VendorEntryDescribes
      <4>. HIDE DEF new
      <4>. QED
        BY <3>1, <4>4, <4>8, <4>9, <4>10 DEF SameContext
    <3>. QED
      BY <3>1, <3>2 DEF Vendored, SameContext
  <2>5. CASE Takes(p) \/ ReadLockForResolve(p)
    <3>1. /\ job'[p].phase = "resolve" /\ job'[p].result = job[p].result
          /\ job[p].phase # "idle"
      <4>1. CASE Takes(p)
        BY <1>0, <4>1, AcceptFields DEF Takes, Resolving, At, SameContext
      <4>2. CASE ReadLockForResolve(p)
        BY <1>0, <4>2, ReadFields DEF ReadLockForResolve, At, SameContext
      <4>. QED
        BY <2>5, <4>1, <4>2
    <3>. QED
      BY <3>1 DEF Vendored, Writing
  <2>6. CASE VendorFetch(p) /\ VendorSource(p).st = "ok"
    <3>. DEFINE n == job[p].arg
                got == VendorSource(p)
    <3>1. /\ SameContext(p)
          /\ job'[p].phase = IF vendor[n] = got.of THEN "vlock"
                             ELSE IF vendor[n] # Nil THEN "vremove" ELSE "vcopy"
          /\ job'[p].res[n] = Resolved(job[p].deps[n], "vendor", got.pin, got.of)
      BY <1>0, <2>6, FetchFields
    <3>2. job[p].phase = "vfetch"
      BY <2>6 DEF VendorFetch, At
    <3>3. vendor' = vendor
      BY <1>2, <3>2 DEF Unchanged
    <3>. HIDE DEF got
    <3>4. job'[p].res[n].of = got.of
      BY <3>1, ResolvedFields
    <3>. QED
      BY <3>1, <3>2, <3>3, <3>4 DEF Vendored, SameContext, Writing
  <2>. QED
    BY <1>2, <2>1, <2>2, <2>3, <2>4, <2>5, <2>6 DEF Steps
<1>. QED
  BY <1>0, <1>1, <1>2, LoneSteps

AddsClean ==
    \A p \in Procs :
        /\ At(p, "lwrite") /\ job[p].verb = "vendor" /\ job'[p].result = "ok"
        /\ \A d, e \in lock'.pkgs : d.name = e.name => d = e
        => VendorClean(lock'.pkgs, job[p].arg, vendor'[job[p].arg])

LEMMA AddEnds ==
    ASSUME NEW p, OneProcess(p)
    PROVE  SoloInv(p) /\ Vendored(vendor, job[p]) /\ [Next]_vars
              => [AddsClean]_vars
<1>. SUFFICES ASSUME SoloInv(p), Vendored(vendor, job[p]), [Next]_vars,
                     At(p, "lwrite"), job[p].verb = "vendor", job'[p].result = "ok",
                     \A d, e \in lock'.pkgs : d.name = e.name => d = e,
                     ~UNCHANGED vars
              PROVE  VendorClean(lock'.pkgs, job[p].arg, vendor'[job[p].arg])
  BY DEF OneProcess, AddsClean
<1>1. p \in Procs /\ TypeInv /\ TypeInv' /\ job[p].phase = "lwrite" /\ job[p].result = "none"
  BY TypeNext DEF OneProcess, SoloInv, At, Vendored
<1>2. ~Hands
  BY <1>1 DEF Hands
<1>3. ~Crash(p)
  <2>1. ASSUME NEW r, Finish(p, r) PROVE job'[p].result = r
    BY <1>1, <2>1, EndFields
  <2>. QED
    BY <2>1 DEF Crash
<1>4. WriteLock(p)
  BY <1>1, <1>2, <1>3, LoneSteps DEF OnlyHere
<1>5. lock'.pkgs = job[p].pkgs /\ vendor' = vendor
  BY <1>4 DEF WriteLock
<1>6. PICK e \in job[p].pkgs : e.name = job[p].arg /\ Describes(e, vendor[job[p].arg])
  BY <1>1 DEF Vendored, Writing
<1>7. e.ver \in Nat
  BY <1>1, <1>6, JobAt DEF TypeInv, Job, Entry, Local
<1>8. e \in Find(lock'.pkgs, job[p].arg)
  BY <1>5, <1>6, <1>7 DEF Find
<1>. QED
  BY <1>5, <1>6, <1>8 DEF VendorClean, Describes

(* vendor add, running alone, leaves a tree that vendor check accepts: the *)
(* entry it writes has the hash of what it copied, as vendor_digest or, if *)
(* a path or an OCI artifact, as its digest.                               *)
THEOREM VendorAddLeavesClean ==
    ASSUME \E p : Procs = {p}
    PROVE  Spec => VendorAddIsClean
<1>1. PICK p : OneProcess(p)
  BY DEF OneProcess
<1>2. Init => Vendored(vendor, job[p])
  BY <1>1 DEF Init, Idle, OneProcess, Vendored, Writing
<1>3. SoloInv(p) /\ Vendored(vendor, job[p]) /\ [Next]_vars => Vendored(vendor, job[p])'
  BY <1>1, VendoredStep
<1>4. SoloInv(p) /\ Vendored(vendor, job[p]) /\ [Next]_vars => [AddsClean]_vars
  BY <1>1, AddEnds
<1>5. Spec => []SoloInv(p)
  BY <1>1, SoloAlways
<1>6. Spec => [](SoloInv(p) /\ Vendored(vendor, job[p]))
  BY <1>2, <1>3, <1>5, PTL DEF Spec
<1>7. Spec => [][AddsClean]_vars
  BY <1>4, <1>6, PTL DEF Spec
<1>8. [][AddsClean]_vars => VendorAddIsClean
  BY PTL DEF VendorAddIsClean, AddsClean
<1>. QED
  BY <1>7, <1>8, PTL
=============================================================================
