------------------------------ MODULE Workspace ------------------------------
(***************************************************************************)
(* One akua workspace: akua.toml, akua.lock and .akua/vendor on disk, the  *)
(* shared caches, the upstream registries, and the akuapkg processes that  *)
(* run verbs over them.                                                    *)
(*                                                                         *)
(* A process takes one step per file it reads or writes and one per        *)
(* dependency it resolves, so that a tag can move, another process can     *)
(* write, or the process can die, between any two of them.  The files are  *)
(* not locked and fs::write truncates before it writes.                    *)
(***************************************************************************)
EXTENDS LockFile

CONSTANTS
    Procs,        \* akuapkg processes
    Partial,      \* the tree an interrupted copy leaves behind
    FirstRelease, \* what upstream serves at the start
    AddKinds,     \* source kinds the add verb is given
    Verbs,        \* the verbs that are run
    Events        \* what else happens: see the environment actions

ASSUME ModelAssumption ==
    /\ Partial \in Contents
    /\ FirstRelease \in [Names -> [Versions -> MaybeContents \ {Partial}]]
    /\ AddKinds \subseteq Kinds

VARIABLES
    manifest,  \* akua.toml
    lock,      \* akua.lock
    vendor,    \* .akua/vendor/<name>
    fork,      \* the tree a path dependency or a replace points at
    blobs,     \* OCI cache, by blob digest
    tgzs,      \* Helm cache, by archive digest
    bare,      \* bare git clones: the tags they know
    upstream,  \* what each registry or remote serves now
    served,    \* everything upstream ever served (history)
    rendered,  \* what the last successful render was made of
    job,       \* the processes
    settled    \* "yes": nothing happened since a successful lock began (history)

files == <<manifest, lock, vendor, fork>>
caches == <<blobs, tgzs, bare>>
remote == <<upstream, served>>
vars == <<files, caches, remote, rendered, job, settled>>

AllVerbs == {"add", "remove", "lock", "check", "update", "vendor", "render"}
Phases == {"idle", "mtrunc", "mwrite", "readlock", "resolve", "ltrunc", "lwrite",
           "vfetch", "vremove", "vcopy", "vcopying", "vlock"}
VendorPhases == {"vfetch", "vremove", "vcopy", "vcopying", "vlock"}
Results == {"none", "ok", "soft", "drift", "fail", "stale", "crashed"}

(* What a process holds: the verb and its argument (flag is --offline),    *)
(* where it stands, the manifest and lockfile it works on, the             *)
(* dependencies still to resolve, what it resolved, and, once it has       *)
(* returned, its outcome and the version an error was about.               *)
Job == [verb : AllVerbs \cup {"none"}, arg : 0..NumNames, flag : BOOLEAN,
        phase : Phases, deps : [Names -> Dep], pkgs : SUBSET Entry,
        todo : SUBSET Names, res : [Names -> Res], result : Results, at : 0..Local]

Published == Contents \ {Partial}

NoRelease == [v \in Versions |-> Nil]

Idle == [verb |-> "none", arg |-> 0, flag |-> FALSE, phase |-> "idle",
         deps |-> [n \in Names |-> NoDep], pkgs |-> {}, todo |-> {},
         res |-> [n \in Names |-> NoRes], result |-> "none", at |-> 0]

Init ==
    /\ manifest = [st |-> "ok", deps |-> [n \in Names |-> NoDep]]
    /\ lock = [st |-> "missing", pkgs |-> {}]
    /\ vendor = [n \in Names |-> Nil]
    /\ fork = [n \in Names |-> Nil]
    /\ blobs = {}
    /\ tgzs = {}
    /\ bare = [n \in Names |-> [cloned |-> FALSE, refs |-> NoRelease]]
    /\ upstream = FirstRelease
    /\ served = {s \in Names \X Versions \X Published :
                    FirstRelease[s[1]][s[2]] = s[3]}
    /\ rendered = [n \in Names |-> [via |-> "none", of |-> Nil, pin |-> NoDigest]]
    /\ job = [p \in Procs |-> Idle]
    /\ settled = "no"

-----------------------------------------------------------------------------
(* How a process moves.                                                    *)

At(p, phase) == job[p].phase = phase
AllIdle == \A p \in Procs : At(p, "idle")

(* A verb starts from a readable manifest (ManifestLoadError otherwise).   *)
Start(p, verb, arg, flag, phase, deps) ==
    /\ At(p, "idle")
    /\ verb \in Verbs
    /\ manifest.st = "ok"
    /\ job' = [job EXCEPT ![p] =
                 [Idle EXCEPT !.verb = verb, !.arg = arg, !.flag = flag,
                              !.phase = phase, !.deps = deps]]
    /\ settled' = CASE verb = "lock" -> "locking"
                    [] verb \in {"check", "render"} -> settled
                    [] OTHER -> "no"

Goto(p, phase) == job' = [job EXCEPT ![p].phase = phase]

(* The verb returns; its name, argument and outcome stay for inspection.   *)
Finish(p, result) ==
    job' = [job EXCEPT ![p] =
              [Idle EXCEPT !.verb = job[p].verb, !.arg = job[p].arg,
                           !.result = result]]

(* ... with an error about version v of dependency n.                      *)
FinishAt(p, result, n, v) ==
    job' = [job EXCEPT ![p] =
              [Idle EXCEPT !.verb = job[p].verb, !.arg = n,
                           !.result = result, !.at = v]]

-----------------------------------------------------------------------------
(* The verbs' first steps.                                                 *)

(* add, with --force where n is declared already; without it the verb      *)
(* returns before it writes anything.                                      *)
BeginAdd(p, n, dep) ==
    /\ Start(p, "add", n, FALSE, "mtrunc", [manifest.deps EXCEPT ![n] = dep])
    /\ UNCHANGED <<files, caches, remote, rendered>>

BeginRemove(p, n) ==
    /\ n \in Declared(manifest.deps)
    /\ Start(p, "remove", n, FALSE, "mtrunc", [manifest.deps EXCEPT ![n] = NoDep])
    /\ UNCHANGED <<files, caches, remote, rendered>>

BeginLock(p) ==
    /\ \/ Start(p, "lock", 0, FALSE, "readlock", manifest.deps)
       \/ Start(p, "check", 0, FALSE, "readlock", manifest.deps)
    /\ UNCHANGED <<files, caches, remote, rendered>>

(* update [--dep n]; 0 stands for no --dep.                                *)
BeginUpdate(p, n) ==
    /\ n # 0 => n \in Declared(manifest.deps)
    /\ Start(p, "update", n, FALSE, "readlock", manifest.deps)
    /\ UNCHANGED <<files, caches, remote, rendered>>

BeginRender(p, offline) ==
    /\ Start(p, "render", 0, offline, "readlock", manifest.deps)
    /\ UNCHANGED <<files, caches, remote, rendered>>

BeginVendor(p, n) ==
    /\ n \in Declared(manifest.deps)
    /\ Start(p, "vendor", n, FALSE, "vfetch", manifest.deps)
    /\ UNCHANGED <<files, caches, remote, rendered>>

-----------------------------------------------------------------------------
(* Writing akua.toml: fs::write truncates, then writes.                    *)

TruncateManifest(p) ==
    /\ At(p, "mtrunc")
    /\ manifest' = [manifest EXCEPT !.st = "torn"]
    /\ Goto(p, "mwrite")
    /\ UNCHANGED <<lock, vendor, fork, caches, remote, rendered, settled>>

WriteManifest(p) ==
    /\ At(p, "mwrite")
    /\ manifest' = [st |-> "ok", deps |-> job[p].deps]
    /\ Goto(p, "readlock")
    /\ UNCHANGED <<lock, vendor, fork, caches, remote, rendered, settled>>

(* Loading akua.lock.  An unreadable lockfile stops add and remove; lock,  *)
(* update and render go on as if there were none.                          *)
LockedPkgs == IF lock.st = "ok" THEN lock.pkgs ELSE {}

ReadLockForResolve(p) ==
    /\ At(p, "readlock")
    /\ job[p].verb # "remove"
    /\ job[p].verb = "add" => lock.st # "torn"
    /\ job' = [job EXCEPT ![p].phase = "resolve", ![p].pkgs = LockedPkgs,
                          ![p].todo = Declared(job[p].deps)]
    /\ UNCHANGED <<files, caches, remote, rendered, settled>>

ReadLockForRemove(p) ==
    /\ At(p, "readlock")
    /\ job[p].verb = "remove"
    /\ lock.st = "ok" /\ HasName(lock.pkgs, job[p].arg)
    /\ job' = [job EXCEPT ![p].phase = "ltrunc",
                          ![p].pkgs = Prune(lock.pkgs, job[p].arg)]
    /\ UNCHANGED <<files, caches, remote, rendered, settled>>

ReadLockEnds(p) ==
    /\ At(p, "readlock")
    /\ \/ /\ job[p].verb \in {"add", "remove"} /\ lock.st = "torn"
          /\ Finish(p, "fail")
       \/ /\ job[p].verb = "remove" /\ lock.st # "torn"
          /\ ~HasName(LockedPkgs, job[p].arg)
          /\ Finish(p, "ok")
    /\ UNCHANGED <<files, caches, remote, rendered, settled>>

-----------------------------------------------------------------------------
(* resolve_with_options: dependencies in name order, first error wins.     *)

Resolving(p, n) ==
    /\ At(p, "resolve")
    /\ n \in job[p].todo
    /\ \A m \in job[p].todo : n <= m

Offline(p) == job[p].verb = "render" /\ job[p].flag

(* update passes an empty expected_digests map.                            *)
(* Mutant: the pins are never handed to the resolver.                      *)
ExpectedNever(p, n) == NoDigest
Expected(p, n) ==
    IF job[p].verb = "update" THEN NoDigest ELSE ExpectedOci(job[p].pkgs, n)

Accept(p, n, r) ==
    job' = [job EXCEPT ![p].todo = @ \ {n}, ![p].res[n] = r]

(* A resolver error ends the verb.  add keeps its manifest edit and only   *)
(* reports an OCI digest drift; every other error is swallowed.            *)
ResolveError(p, n, st) ==
    FinishAt(p, IF job[p].verb = "add" /\ st # "drift" THEN "soft" ELSE st,
             n, job[p].deps[n].ver)

(* The OCI fetcher: a pinned blob that is cached is taken without asking   *)
(* the registry; else the manifest names the blob, which must be the       *)
(* pinned one if there is a pin.                                           *)
CachedPin(want) == want.form = "blob" /\ want.of \in blobs

(* Mutant: a first fetch is compared too.                                  *)
OciAlwaysCompared(c, want) ==
    CASE c = Nil -> [st |-> "fail", of |-> Nil]
      [] c # Nil /\ want # Blob(c) -> [st |-> "drift", of |-> Nil]
      [] OTHER -> [st |-> "ok", of |-> c]
OciServed(c, want) ==
    CASE c = Nil -> [st |-> "fail", of |-> Nil]
      [] c # Nil /\ want \notin {NoDigest, Blob(c)} -> [st |-> "drift", of |-> Nil]
      [] OTHER -> [st |-> "ok", of |-> c]

(* Mutants: the pin is not compared; offline gives up before the cache.    *)
OciUncompared(n, v, want, offline) ==
    CASE CachedPin(want) -> [st |-> "ok", of |-> want.of]
      [] ~CachedPin(want) /\ offline -> [st |-> "fail", of |-> Nil]
      [] OTHER -> OciServed(upstream[n][v], NoDigest)
OciOfflineFirst(n, v, want, offline) ==
    CASE offline -> [st |-> "fail", of |-> Nil]
      [] ~offline /\ CachedPin(want) -> [st |-> "ok", of |-> want.of]
      [] OTHER -> OciServed(upstream[n][v], want)
OciOutcome(n, v, want, offline) ==
    CASE CachedPin(want) -> [st |-> "ok", of |-> want.of]
      [] ~CachedPin(want) /\ offline -> [st |-> "fail", of |-> Nil]
      [] OTHER -> OciServed(upstream[n][v], want)

(* The Helm fetcher downloads every time it is online and compares with    *)
(* whatever pin it was given.                                              *)
HelmOutcome(n, v, want, offline) ==
    CASE offline /\ want.form = "blob" /\ want.of \in tgzs -> [st |-> "ok", of |-> want.of]
      [] ~offline /\ upstream[n][v] # Nil
         /\ want \in {NoDigest, Blob(upstream[n][v])} -> [st |-> "ok", of |-> upstream[n][v]]
      [] OTHER -> [st |-> "fail", of |-> Nil]

(* The git fetcher resolves the tag in its bare clone; it refreshes the    *)
(* clone when the tag is unknown there, or when it is not the pinned       *)
(* commit, and only then sees what the remote serves.                      *)
GitRefreshes(n, v, want) ==
    \/ ~bare[n].cloned
    \/ bare[n].refs[v] = Nil
    \/ want # NoDigest /\ Hash("commit", bare[n].refs[v]) # want

GitOutcome(n, v, want) ==
    LET c == IF GitRefreshes(n, v, want) THEN upstream[n][v] ELSE bare[n].refs[v]
    IN  IF c # Nil /\ want \in {NoDigest, Hash("commit", c)}
        THEN [st |-> "ok", of |-> c] ELSE [st |-> "fail", of |-> Nil]

BareAfter(n, v, want) ==
    IF GitRefreshes(n, v, want)
    THEN [bare EXCEPT ![n] = [cloned |-> TRUE, refs |-> upstream[n]]]
    ELSE bare

(* replace = { path }: the fork, at the declared version.                  *)
ResolveReplaced(p, n) ==
    LET dep == job[p].deps[n] IN
    /\ Resolving(p, n)
    /\ dep.repl
    /\ IF fork[n] = Nil \/ dep.kind = "helm"
       THEN ResolveError(p, n, "fail")
       ELSE Accept(p, n, Resolved(dep, "replace", Tree(fork[n]), fork[n]))
    /\ UNCHANGED <<files, caches, remote, rendered, settled>>

(* AKUA_REJECT_REPLACE is set, or render runs under an agent.              *)
RejectReplace(p, n) ==
    /\ "reject" \in Events
    /\ Resolving(p, n)
    /\ job[p].deps[n].repl
    /\ ResolveError(p, n, "fail")
    /\ UNCHANGED <<files, caches, remote, rendered, settled>>

FromVendor(p, n) ==
    /\ ~job[p].deps[n].repl
    /\ job[p].deps[n].kind # "helm"
    /\ vendor[n] # Nil

(* resolve_from_vendor: whatever is in .akua/vendor/<name> wins, hashed as *)
(* it is found.                                                            *)
ResolveVendored(p, n) ==
    LET dep == job[p].deps[n]
        form == IF dep.kind = "git" THEN "gittree" ELSE "tree"
    IN
    /\ Resolving(p, n)
    /\ FromVendor(p, n)
    /\ Accept(p, n, Resolved(dep, "vendor", Hash(form, vendor[n]), vendor[n]))
    /\ UNCHANGED <<files, caches, remote, rendered, settled>>

Direct(p, n, kind) ==
    /\ Resolving(p, n)
    /\ job[p].deps[n].kind = kind
    /\ ~job[p].deps[n].repl
    /\ ~FromVendor(p, n)

ResolvePath(p, n) ==
    LET dep == job[p].deps[n] IN
    /\ Direct(p, n, "path")
    /\ IF fork[n] = Nil
       THEN ResolveError(p, n, "fail")
       ELSE Accept(p, n, Resolved(dep, "path", Tree(fork[n]), fork[n]))
    /\ UNCHANGED <<files, caches, remote, rendered, settled>>

ResolveOci(p, n) ==
    LET dep == job[p].deps[n]
        got == OciOutcome(n, dep.ver, Expected(p, n), Offline(p))
    IN
    /\ Direct(p, n, "oci")
    /\ IF got.st = "ok"
       THEN /\ Accept(p, n, Resolved(dep, "oci", OciDigest(got.of), got.of))
            /\ blobs' = blobs \cup {got.of}
       ELSE /\ ResolveError(p, n, got.st)
            /\ UNCHANGED blobs
    /\ UNCHANGED <<files, tgzs, bare, remote, rendered, settled>>

ResolveHelm(p, n) ==
    LET dep == job[p].deps[n]
        got == HelmOutcome(n, dep.ver, Expected(p, n), Offline(p))
    IN
    /\ Direct(p, n, "helm")
    /\ IF got.st = "ok"
       THEN /\ Accept(p, n, Resolved(dep, "helm", Blob(got.of), got.of))
            /\ tgzs' = tgzs \cup {got.of}
       ELSE /\ ResolveError(p, n, got.st)
            /\ UNCHANGED tgzs
    /\ UNCHANGED <<files, blobs, bare, remote, rendered, settled>>

(* Expected pins come from oci:// entries and never carry the git: prefix, *)
(* so a git dependency is resolved without one and never offline.          *)
ResolveGit(p, n) ==
    LET dep == job[p].deps[n]
        got == GitOutcome(n, dep.ver, NoDigest)
    IN
    /\ Direct(p, n, "git")
    /\ IF ~Offline(p) /\ got.st = "ok"
       THEN Accept(p, n, Resolved(dep, "git", Hash("commit", got.of), got.of))
       ELSE ResolveError(p, n, "fail")
    /\ bare' = IF Offline(p) THEN bare ELSE BareAfter(n, dep.ver, NoDigest)
    /\ UNCHANGED <<files, blobs, tgzs, remote, rendered, settled>>

(* The registry or remote does not answer a fetch that has to ask it.      *)
NeedsNetwork(p, n, kind, oci, git) ==
    \/ kind = "oci" /\ ~CachedPin(oci)
    \/ kind = "git" /\ GitRefreshes(n, job[p].deps[n].ver, git)
    \/ kind = "helm"

Unreachable(p, n) ==
    LET kind == job[p].deps[n].kind IN
    /\ "outage" \in Events
    /\ Direct(p, n, kind) /\ ~Offline(p)
    /\ NeedsNetwork(p, n, kind, Expected(p, n), NoDigest)
    /\ ResolveError(p, n, "fail")
    /\ UNCHANGED <<files, caches, remote, rendered, settled>>

ResolveStep(p, n) ==
    \/ ResolveReplaced(p, n) \/ RejectReplace(p, n) \/ ResolveVendored(p, n) \/ ResolvePath(p, n)
    \/ ResolveOci(p, n) \/ ResolveHelm(p, n) \/ ResolveGit(p, n)
    \/ Unreachable(p, n)

-----------------------------------------------------------------------------
(* Everything is resolved.                                                 *)

AllResolved(p) == At(p, "resolve") /\ job[p].todo = {}

(* The names merge_into_lock is given: update --dep keeps only one.        *)
(* Mutant: --dep does not narrow the merge.                                *)
ScopeAll(p) == Declared(job[p].deps)
Scope(p) == IF job[p].verb = "update" /\ job[p].arg # 0
            THEN {job[p].arg} ELSE Declared(job[p].deps)

Merged(p) == Merge(job[p].pkgs, job[p].res, Scope(p))

FinishRender(p) ==
    /\ AllResolved(p)
    /\ job[p].verb = "render"
    /\ rendered' = [n \in Names |->
                      [via |-> job[p].res[n].via, of |-> job[p].res[n].of,
                       pin |-> ExpectedOci(job[p].pkgs, n)]]
    /\ Finish(p, "ok")
    /\ UNCHANGED <<files, caches, remote, settled>>

(* Mutant: --check compares with a lockfile built from nothing.            *)
FinishCheckAnew(p) ==
    /\ AllResolved(p)
    /\ job[p].verb = "check"
    /\ Finish(p, IF Merge({}, job[p].res, Scope(p)) = job[p].pkgs THEN "ok" ELSE "stale")
    /\ UNCHANGED <<files, caches, remote, rendered, settled>>

FinishCheck(p) ==
    /\ AllResolved(p)
    /\ job[p].verb = "check"
    /\ Finish(p, IF Merged(p) = job[p].pkgs THEN "ok" ELSE "stale")
    /\ UNCHANGED <<files, caches, remote, rendered, settled>>

(* lock refuses an import of a dependency that is not a KCL module.        *)
RejectImport(p) ==
    /\ "badimport" \in Events
    /\ AllResolved(p)
    /\ job[p].verb \in {"lock", "check"} /\ Declared(job[p].deps) # {}
    /\ Finish(p, "fail")
    /\ UNCHANGED <<files, caches, remote, rendered, settled>>

MergeLock(p) ==
    /\ AllResolved(p)
    /\ job[p].verb \in {"add", "lock", "update"}
    /\ job' = [job EXCEPT ![p].phase = "ltrunc", ![p].pkgs = Merged(p)]
    /\ UNCHANGED <<files, caches, remote, rendered, settled>>

(* AkuaLock::save, the last step of every verb that writes the lockfile.   *)
TruncateLock(p) ==
    /\ At(p, "ltrunc")
    /\ lock' = [st |-> "torn", pkgs |-> {}]
    /\ Goto(p, "lwrite")
    /\ UNCHANGED <<manifest, vendor, fork, caches, remote, rendered, settled>>

WriteLock(p) ==
    /\ At(p, "lwrite")
    /\ lock' = [st |-> "ok", pkgs |-> job[p].pkgs]
    /\ settled' = IF job[p].verb = "lock" /\ settled = "locking" THEN "yes" ELSE "no"
    /\ Finish(p, "ok")
    /\ UNCHANGED <<manifest, vendor, fork, caches, remote, rendered>>

-----------------------------------------------------------------------------
(* vendor add: fetch the declared source (a replace is not looked at),     *)
(* make .akua/vendor/<name> a copy of it, pin it.                          *)

(* resolve_source: the content, and the pin it is to be locked under (a    *)
(* git commit, else the hash of the tree).                                 *)
VendorSource(p) ==
    LET n == job[p].arg
        dep == job[p].deps[n]
        first(kind) == ExpectedFirst(LockedPkgs, n, kind)
        Pick(got, form) == [st |-> got.st, of |-> got.of, pin |-> Hash(form, got.of)]
    IN  CASE dep.kind = "path" ->
               Pick([st |-> IF fork[n] = Nil THEN "fail" ELSE "ok", of |-> fork[n]], "tree")
          [] dep.kind = "oci" ->
               Pick(OciOutcome(n, dep.ver, first("oci"), FALSE), "tree")
          [] dep.kind = "git" ->
               Pick(GitOutcome(n, dep.ver, first("git")), "commit")
          [] OTHER -> [st |-> "fail", of |-> Nil, pin |-> NoDigest]

VendorFetch(p) ==
    LET n == job[p].arg
        dep == job[p].deps[n]
        got == VendorSource(p)
    IN
    /\ At(p, "vfetch")
    /\ IF got.st # "ok"
       THEN FinishAt(p, got.st, n, dep.ver)
       ELSE job' = [job EXCEPT
              ![p].phase = IF vendor[n] = got.of THEN "vlock"
                           ELSE IF vendor[n] # Nil THEN "vremove" ELSE "vcopy",
              ![p].res[n] = Resolved(dep, "vendor", got.pin, got.of)]
    /\ blobs' = IF dep.kind = "oci" /\ got.st = "ok" THEN blobs \cup {got.of} ELSE blobs
    /\ bare' = IF dep.kind = "git"
               THEN BareAfter(n, dep.ver, ExpectedFirst(LockedPkgs, n, "git"))
               ELSE bare
    /\ UNCHANGED <<files, tgzs, remote, rendered, settled>>

VendorUnreachable(p) ==
    LET n == job[p].arg
        first(kind) == ExpectedFirst(LockedPkgs, n, kind)
        kind == job[p].deps[n].kind
    IN
    /\ "outage" \in Events
    /\ At(p, "vfetch") /\ kind # "helm"
    /\ NeedsNetwork(p, n, kind, first("oci"), first("git"))
    /\ FinishAt(p, "fail", n, job[p].deps[n].ver)
    /\ UNCHANGED <<files, caches, remote, rendered, settled>>

VendorRemoveOld(p) ==
    /\ At(p, "vremove")
    /\ vendor' = [vendor EXCEPT ![job[p].arg] = Nil]
    /\ Goto(p, "vcopy")
    /\ UNCHANGED <<manifest, lock, fork, caches, remote, rendered, settled>>

(* copy_tree writes in place: between its two steps the tree is partial.   *)
VendorCopyStart(p) ==
    /\ At(p, "vcopy")
    /\ vendor' = [vendor EXCEPT ![job[p].arg] = Partial]
    /\ Goto(p, "vcopying")
    /\ UNCHANGED <<manifest, lock, fork, caches, remote, rendered, settled>>

VendorCopyEnd(p) ==
    /\ At(p, "vcopying")
    /\ vendor' = [vendor EXCEPT ![job[p].arg] = job[p].res[job[p].arg].of]
    /\ Goto(p, "vlock")
    /\ UNCHANGED <<manifest, lock, fork, caches, remote, rendered, settled>>

(* upsert_vendor_lock_entry: the lockfile is read again; the tree hash is  *)
(* added as vendor_digest where it is not the pin itself.                  *)
(* Mutant: vendor_digest is never written.                                 *)
VendorEntryPlain(pkgs, n, r) == NewEntry(pkgs, n, r)
VendorEntry(pkgs, n, r) ==
    IF r.digest = Tree(r.of) THEN NewEntry(pkgs, n, r)
    ELSE [NewEntry(pkgs, n, r) EXCEPT !.vendored = Tree(r.of)]

VendorLock(p) ==
    LET n == job[p].arg
        r == [job[p].res[n] EXCEPT !.repl = FALSE]
    IN
    /\ At(p, "vlock")
    /\ IF lock.st = "torn"
       THEN Finish(p, "fail")
       ELSE job' = [job EXCEPT ![p].phase = "ltrunc",
              ![p].pkgs = (LockedPkgs \ Slot(LockedPkgs, n, r.ver))
                             \cup {VendorEntry(LockedPkgs, n, r)}]
    /\ UNCHANGED <<files, caches, remote, rendered, settled>>

-----------------------------------------------------------------------------
(* The read-only verbs, on a workspace at rest.                            *)

(* chart_resolver::resolve: offline and without pins.                      *)
(* Mutant: path dependencies are hashed where they come from.              *)
OfflineTreeUnvendored(n) ==
    IF manifest.deps[n].repl \/ manifest.deps[n].kind = "path" THEN fork[n] ELSE vendor[n]

OfflineTree(n) ==
    IF manifest.deps[n].repl \/ (vendor[n] = Nil /\ manifest.deps[n].kind = "path")
    THEN fork[n] ELSE vendor[n]

Unsupported(n) ==
    \/ manifest.deps[n].kind = "helm"
    \/ manifest.deps[n].kind \in {"oci", "git"} /\ ~manifest.deps[n].repl /\ vendor[n] = Nil

OfflineFails(n) == Unsupported(n) \/ OfflineTree(n) = Nil

(* verify: the names agree, everything remote is signed (strictSigning),   *)
(* and the path entries match, unless the resolver gave up before them on  *)
(* a dependency that only a network could resolve.                         *)
PathsMatch ==
    LET failing == {n \in Declared(manifest.deps) : OfflineFails(n)} IN
    IF failing = {}
    THEN \A e \in lock.pkgs : e.kind = "path" => e.digest = Tree(OfflineTree(e.name))
    ELSE \E n \in failing : Unsupported(n) /\ \A m \in failing : n <= m

VerifyPasses(strict) ==
    /\ manifest.st = "ok" /\ lock.st = "ok"
    /\ {e.name : e \in lock.pkgs} = Declared(manifest.deps)
    /\ strict => \A e \in lock.pkgs : e.kind # "path" => e.sig # NoDigest
    /\ PathsMatch

-----------------------------------------------------------------------------
(* A process can die between any two steps.                                *)
Crash(p) ==
    /\ "crash" \in Events
    /\ ~At(p, "idle")
    /\ Finish(p, "crashed")
    /\ UNCHANGED <<files, caches, remote, rendered, settled>>

-----------------------------------------------------------------------------
(* The environment.  Upstream moves at any time; the operator edits the    *)
(* workspace between commands.                                             *)

Publish(n, v, c) ==
    /\ "publish" \in Events
    /\ upstream[n][v] # c
    /\ upstream' = [upstream EXCEPT ![n][v] = c]
    /\ served' = served \cup {<<n, v, c>>}
    /\ settled' = "no"
    /\ UNCHANGED <<files, caches, rendered, job>>

(* A local tree is written, changed or deleted.                            *)
EditFork(n, c) ==
    /\ "fork" \in Events
    /\ AllIdle
    /\ fork[n] # c
    /\ fork' = [fork EXCEPT ![n] = c]
    /\ settled' = "no"
    /\ UNCHANGED <<manifest, lock, vendor, caches, remote, rendered, job>>

(* A vendored tree is edited in place or deleted.                          *)
EditVendor(n, c) ==
    /\ "vendor" \in Events
    /\ AllIdle
    /\ vendor[n] # Nil /\ vendor[n] # c
    /\ vendor' = [vendor EXCEPT ![n] = c]
    /\ settled' = "no"
    /\ UNCHANGED <<manifest, lock, fork, caches, remote, rendered, job>>

(* akua.toml is edited by hand: another version, a replace set or dropped. *)
EditManifest(n, dep) ==
    /\ "manifest" \in Events
    /\ AllIdle
    /\ manifest.st = "ok"
    /\ manifest.deps[n].kind = dep.kind /\ dep.kind # "none"
    /\ manifest.deps[n] # dep
    /\ manifest' = [manifest EXCEPT !.deps[n] = dep]
    /\ settled' = "no"
    /\ UNCHANGED <<lock, vendor, fork, caches, remote, rendered, job>>

(* Whoever signs a dependency records it in the locked entry.              *)
Annotate(e) ==
    /\ "annotate" \in Events
    /\ AllIdle
    /\ lock.st = "ok" /\ e \in lock.pkgs /\ e.sig = NoDigest
    /\ lock' = [lock EXCEPT !.pkgs = (@ \ {e}) \cup {[e EXCEPT !.sig = e.digest]}]
    /\ settled' = "no"
    /\ UNCHANGED <<manifest, vendor, fork, caches, remote, rendered, job>>

(* akuapkg cache clear.                                                    *)
ClearCaches ==
    /\ "clear" \in Events
    /\ AllIdle
    /\ blobs' = {} /\ tgzs' = {}
    /\ bare' = [n \in Names |-> [cloned |-> FALSE, refs |-> NoRelease]]
    /\ settled' = "no"
    /\ UNCHANGED <<files, remote, rendered, job>>

-----------------------------------------------------------------------------
AddableDeps ==
    {d \in Dep : d.kind \in AddKinds /\ ~d.repl /\ (d.kind = "path" => d.ver = 1)}
EditableDeps ==
    {d \in Dep : d.kind \in AddKinds \ {"path"}}

Begin(p) ==
    \/ \E n \in Names, dep \in AddableDeps : BeginAdd(p, n, dep)
    \/ \E n \in Names : BeginRemove(p, n) \/ BeginVendor(p, n)
    \/ BeginLock(p)
    \/ \E n \in 0..NumNames : BeginUpdate(p, n)
    \/ \E offline \in BOOLEAN : BeginRender(p, offline)

Run(p) ==
    \/ TruncateManifest(p) \/ WriteManifest(p)
    \/ ReadLockForResolve(p) \/ ReadLockForRemove(p) \/ ReadLockEnds(p)
    \/ \E n \in Names : ResolveStep(p, n)
    \/ FinishRender(p) \/ FinishCheck(p) \/ RejectImport(p) \/ MergeLock(p)
    \/ TruncateLock(p) \/ WriteLock(p)
    \/ VendorFetch(p) \/ VendorUnreachable(p) \/ VendorRemoveOld(p)
    \/ VendorCopyStart(p) \/ VendorCopyEnd(p) \/ VendorLock(p)

Environment ==
    \/ \E n \in Names, v \in Versions, c \in Published : Publish(n, v, c)
    \/ \E n \in Names, c \in Published \cup {Nil} : EditFork(n, c) \/ EditVendor(n, c)
    \/ \E n \in Names, dep \in EditableDeps : EditManifest(n, dep)
    \/ \E e \in lock.pkgs : Annotate(e)
    \/ ClearCaches

Next ==
    \/ \E p \in Procs : Begin(p) \/ Run(p) \/ Crash(p)
    \/ Environment

Spec == Init /\ [][Next]_vars
=============================================================================
