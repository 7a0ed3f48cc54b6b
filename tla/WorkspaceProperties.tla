------------------------- MODULE WorkspaceProperties -------------------------
(***************************************************************************)
(* What akua.toml, akua.lock and the vendored trees promise each other     *)
(* while the verbs of Workspace run.                                       *)
(***************************************************************************)
EXTENDS Workspace

(* The shape of every file, cache and process.                             *)
TypeOK ==
    /\ manifest \in [st : {"ok", "torn"}, deps : [Names -> Dep]]
    /\ lock \in [st : {"missing", "ok", "torn"}, pkgs : SUBSET Entry]
    /\ vendor \in [Names -> MaybeContents]
    /\ fork \in [Names -> MaybeContents]
    /\ blobs \subseteq Contents
    /\ tgzs \subseteq Contents
    /\ bare \in [Names -> [cloned : BOOLEAN, refs : [Versions -> MaybeContents]]]
    /\ upstream \in [Names -> [Versions -> MaybeContents]]
    /\ served \subseteq Names \X Versions \X Contents
    /\ rendered \in [Names -> [via : Vias, of : MaybeContents, pin : Digest]]
    /\ job \in [Procs -> Job]
    /\ settled \in {"no", "locking", "yes"}

(* A lockfile on disk, or one a process holds and may write back.          *)
Lockfiles == {lock.pkgs} \cup {job[p].pkgs : p \in Procs}

-----------------------------------------------------------------------------
(* Metadata follows the bytes (upsert_locked_from_source): whatever        *)
(* interleaving of upserts, bumps, re-vendors and signatures, no entry     *)
(* carries a signature issued for another digest, and a vendor_digest is   *)
(* the tree of the commit the entry pins.                                  *)
MetadataBound ==
    \A pkgs \in Lockfiles : \A e \in pkgs :
        /\ e.sig # NoDigest => e.sig = e.digest
        /\ e.vendored # NoDigest =>
              e.digest.form = "commit" /\ e.vendored = Tree(e.digest.of)

(* AkuaLock::validate rejects a duplicate (name, version); no verb, not    *)
(* even two that race, ever builds such a lockfile.                        *)
OneEntryPerVersion ==
    \A pkgs \in Lockfiles : \A d, e \in pkgs :
        d.name = e.name /\ d.ver = e.ver => d = e

(* An archive or commit digest recorded for a dependency was served by     *)
(* that dependency's own upstream: no cache, vendored tree or failed fetch *)
(* makes one up.                                                           *)
PinWasServed ==
    \A pkgs \in Lockfiles : \A e \in pkgs :
        e.digest.form \in {"blob", "commit"} =>
            \E v \in Versions : <<e.name, v, e.digest.of>> \in served

(* What the last render used of an OCI registry or its cache is the        *)
(* content akua.lock pinned, online and offline (fetch_with_opts).         *)
RenderedIsPinned ==
    \A n \in Names :
        rendered[n].via = "oci" /\ rendered[n].pin # NoDigest =>
            Blob(rendered[n].of) = rendered[n].pin

(* LockDigestMismatch is raised by the OCI fetch of a version that is      *)
(* served now, and the digest it holds against it is in the lockfile under *)
(* the same name: a tree that was put in the place of the artifact, by a   *)
(* replace or by vendoring, or else another archive that upstream served,  *)
(* at this version or another.  No cache, outage, lost lockfile or second  *)
(* resolution makes one up.                                                *)
DriftIsFounded ==
    [][\A p \in Procs : job'[p].result = "drift" /\ job[p].result # "drift" =>
          LET n == job'[p].arg
              now == upstream[n][job'[p].at]
          IN  /\ now # Nil
              /\ \E e \in job[p].pkgs \cup lock.pkgs :
                    /\ e.name = n /\ e.kind = "oci"
                    /\ \/ e.digest.form = "tree"
                       \/ /\ e.digest.form = "blob" /\ e.digest.of # now
                          /\ \E v \in Versions : <<n, v, e.digest.of>> \in served]_vars

(* A dependency locked under a replace can be locked without it again:     *)
(* "removing the replace just works" (ResolvedSource::OciReplaced).        *)
ReplaceCanBeDropped ==
    \A p \in Procs : job[p].result = "drift" =>
        \A e \in Slot(lock.pkgs, job[p].arg, job[p].at) : ~e.repl

(* The digest a lockfile pins for (n, v) as an OCI artifact.               *)
OciPin(pkgs, n, v) ==
    {e.digest : e \in {x \in Slot(pkgs, n, v) : x.kind = "oci" /\ x.digest.form = "blob"}}

(* add and lock never move the pin of a version they fetched: a moved tag  *)
(* stops them, only update accepts it.                                     *)
PinsMoveOnlyByUpdate ==
    \A p \in Procs, n \in Names, v \in Versions :
        /\ job[p].phase = "ltrunc" /\ job[p].verb \in {"add", "lock"}
        /\ lock.st = "ok" /\ job[p].res[n].via = "oci"
        /\ OciPin(lock.pkgs, n, v) # {}
        => OciPin(job[p].pkgs, n, v) = OciPin(lock.pkgs, n, v)

(* lock --check right after a successful lock, with nothing changed since  *)
(* in the workspace or upstream, finds neither drift nor a digest to       *)
(* dispute: resolving twice gives the same lockfile.                       *)
CheckAfterLockClean ==
    \A p \in Procs :
        settled = "yes" /\ job[p].verb = "check" /\ At(p, "idle") =>
            job[p].result \notin {"stale", "drift"}

(* ... and render --offline has everything it needs.                       *)
OfflineAfterLock ==
    \A p \in Procs :
        settled = "yes" /\ job[p].verb = "render" /\ At(p, "idle") =>
            job[p].result \notin {"fail", "drift"}

(* The lockfile lists the declared names and no others: remove and a       *)
(* failed add leave no orphan, and after lock nothing is missing.          *)
LockMatchesManifest ==
    AllIdle =>
        /\ \A e \in lock.pkgs : e.name \in Declared(manifest.deps)
        /\ settled = "yes" => \A n \in Declared(manifest.deps) :
                        Slot(lock.pkgs, n, LockedVersion(manifest.deps[n])) # {}

(* update --dep n rewrites the entries of n alone, and keeps the others'   *)
(* signatures.                                                             *)
UpdateLeavesOthers ==
    \A p \in Procs, n \in Names :
        /\ job[p].phase = "ltrunc" /\ job[p].verb = "update"
        /\ job[p].arg \notin {0, n} /\ lock.st = "ok"
        => {e \in job[p].pkgs : e.name = n} = {e \in lock.pkgs : e.name = n}

(* vendor add ends with a tree that vendor check accepts, where the name   *)
(* has one entry (check reads only the first).                             *)
VendorAddIsClean ==
    [][\A p \in Procs :
          /\ At(p, "lwrite") /\ job[p].verb = "vendor" /\ job'[p].result = "ok"
          /\ \A d, e \in lock'.pkgs : d.name = e.name => d = e
          => VendorClean(lock'.pkgs, job[p].arg, vendor'[job[p].arg])]_vars

(* verify, which resolves offline and without pins, agrees with a lock     *)
(* that has just succeeded online, but for entries that were there before: *)
(* lock keeps what akua.toml no longer declares, or declares otherwise.    *)
VerifyAfterLock ==
    /\ AllIdle /\ settled = "yes"
    /\ \A e \in lock.pkgs : e.kind = manifest.deps[e.name].kind
    => VerifyPasses(FALSE)
=============================================================================
