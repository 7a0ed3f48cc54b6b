------------------------------ MODULE Registry ------------------------------
(***************************************************************************)
(* Publishing a package and reading it back: the verbs pack, sign, push,   *)
(* publish, pull and verify, the fetcher with a cosign public key, and the *)
(* OCI registry between them.  Publishing is a series of requests, each of *)
(* which may be lost or unauthorized; publishers and readers interleave    *)
(* between any two of them, and the tag they share moves meanwhile.        *)
(*                                                                         *)
(* A digest stands for the content it is the digest of: two contents have  *)
(* one digest when they are equal.  The module is about one repository.    *)
(***************************************************************************)
EXTENDS Naturals

CONSTANTS
    Publishers, \* processes that pack, sign, push and publish
    Readers,    \* consumer workspaces that fetch, pull and verify
    Tags,
    Sources,    \* contents of the package's own files
    Locks,      \* contents of akua.lock
    Unresolved, \* those of which some dependency does not resolve
    Stamps,     \* file times of a checkout, which a tar archive records
    Binaries,   \* versions of akuapkg
    Binary,     \* the one each publisher runs
    Keys,       \* cosign private keys
    KeyOf,      \* the one each publisher is configured with, or None
    Checkout,   \* the workspace each publisher starts with
    Trusted,    \* the key readers have the public half of
    Readable,   \* the requests whose challenge the client can read
    None,
    MaxFaults,  \* requests lost, keys unreadable, tokens expired
    MaxEdits    \* edits of the publishers' workspaces

Workspace == [src : Sources, lock : Locks, stamp : Stamps]

(* The phases of a publisher in which it has a request to send.            *)
Requests == {"layer", "config", "manifest", "payload", "sigconfig", "sig",
             "envelope", "attconfig", "att"}

ASSUME RegistryAssumption ==
    /\ Binary \in [Publishers -> Binaries]
    /\ KeyOf \in [Publishers -> Keys \cup {None}]
    /\ Checkout \in [Publishers -> Workspace]
    /\ Unresolved \subseteq Locks
    /\ Readable \subseteq Requests
    /\ None \notin Keys \cup Sources \cup Locks \cup Stamps \cup Binaries
    /\ {MaxFaults, MaxEdits} \subseteq Nat

(* What pack_workspace_with_vendored_deps writes: the sources and the      *)
(* lockfile as they are, and the trees `deps` pinned, if they resolved.    *)
Tarball == [src : Sources, lock : Locks, deps : Locks \cup {None}, stamp : Stamps]

(* The manifest names the archive and a config blob that holds the version *)
(* of the binary (compute_publish_digests).                                *)
Manifest == [binary : Binaries, layer : Tarball]
PublishDigests(p, tar) == [binary |-> Binary[p], layer |-> tar]

(* <tarball>.akuasig, as written by sign; the payload names `man`.         *)
Sidecar == [tag : Tags, man : Manifest, key : Keys]

(* The manifests at sha256-<of>.sig and sha256-<of>.att.                   *)
Signature   == [of : Manifest, payload : Manifest, key : Keys]
Attestation == [of : Manifest, subject : Manifest, materials : Locks, key : Keys]

Blob(k, c) == [kind |-> k, of |-> c]
Blobs == [kind : {"layer"}, of : Tarball] \cup [kind : {"config"}, of : Binaries]
         \cup [kind : {"payload"}, of : Manifest] \cup [kind : {"empty"}, of : {None}]
         \cup [kind : {"envelope"}, of : Attestation]

VARIABLES
    ws,      \* the publishers' workspaces
    disk,    \* the packed archive and its sidecar, carried to the push host
    blobs, tags, sigs, atts, \* the registry
    account, \* the publishers' credentials are good for a token
    job,     \* the publishers
    reader,  \* the readers
    faults, edits, \* counters
    put,     \* the manifests ever put at a tag (history)
    own      \* the archives a holder of a key packed, or signed (history)

registry == <<blobs, tags, sigs, atts, put>>
vars == <<ws, disk, registry, account, job, reader, faults, edits, own>>

NoJob == [pc |-> "idle", tag |-> None, deps |-> None, tar |-> None, side |-> None,
          sign |-> FALSE, attest |-> FALSE, env |-> None,
          token |-> "none", tried |-> FALSE, raced |-> FALSE, why |-> "none"]

SetJob(p, j)    == job' = [job EXCEPT ![p] = j]
SetReader(r, j) == reader' = [reader EXCEPT ![r] = j]

Fail(p, why) ==
    SetJob(p, [NoJob EXCEPT !.pc = "failed", !.why = why])

NoRead == [pc |-> "idle", tag |-> None, fetch |-> FALSE, pinned |-> FALSE, keyed |-> FALSE,
           man |-> None, got |-> None, pin |-> None, cache |-> {}, verdict |-> "none"]

Init ==
    /\ ws = Checkout
    /\ disk = [tar |-> None, side |-> None]
    /\ blobs = {} /\ sigs = {} /\ atts = {} /\ put = {} /\ own = {}
    /\ tags = [t \in Tags |-> None]
    /\ account = TRUE
    /\ job = [p \in Publishers |-> NoJob]
    /\ reader = [r \in Readers |-> NoRead]
    /\ faults = 0 /\ edits = 0

(* collect_vendor_pairs: one dependency that does not resolve leaves all   *)
(* of them out of the archive, with a warning.                             *)
Vendored(p) == IF ws[p].lock \in Unresolved THEN None ELSE ws[p].lock

Snapshot(p, deps) ==
    [src |-> ws[p].src, lock |-> ws[p].lock, deps |-> deps, stamp |-> ws[p].stamp]

-----------------------------------------------------------------------------
(* The workspace and the packed archive                                    *)

(* The developer edits, re-locks or checks out again.                      *)
Edit(p) ==
    /\ edits < MaxEdits
    /\ edits' = edits + 1
    /\ \E w \in Workspace : ws' = [ws EXCEPT ![p] = w]
    /\ UNCHANGED <<disk, registry, account, job, reader, faults, own>>

Pack(p) ==
    /\ disk' = [disk EXCEPT !.tar = Snapshot(p, Vendored(p))]
    /\ UNCHANGED <<ws, registry, account, job, reader, faults, edits, own>>

(* `sign --tarball` on the host of p, for the tag t.                       *)
Sign(p, t) ==
    /\ disk.tar # None
    /\ KeyOf[p] # None
    /\ disk' = [disk EXCEPT !.side =
                  [tag |-> t, man |-> PublishDigests(p, disk.tar), key |-> KeyOf[p]]]
    /\ own' = own \cup {[key |-> KeyOf[p], layer |-> disk.tar]}
    /\ UNCHANGED <<ws, registry, account, job, reader, faults, edits>>

-----------------------------------------------------------------------------
(* Requests and their authorization                                        *)

Accepted(p) == job[p].token = "live"

Pending(p) == job[p].pc \in Requests

(* A 401 with a bearer challenge the client can read (no comma inside a    *)
(* quoted value): the credentials are traded for a token, which replaces   *)
(* the cached one, and the request is sent once more.  Without the account *)
(* the trade is refused, or its answer holds no token.                     *)
FetchToken(p) ==
    /\ Pending(p) /\ ~Accepted(p) /\ ~job[p].tried
    /\ job[p].pc \in Readable
    /\ IF account
       THEN SetJob(p, [job[p] EXCEPT !.token = "live", !.tried = TRUE])
       ELSE Fail(p, "auth")
    /\ UNCHANGED <<ws, disk, registry, account, reader, faults, edits, own>>

(* A 401 with any other challenge is AuthRequired, and so is a second one. *)
(* Mutant: so is the first one when a token was cached.                    *)
AuthRequiredAtOnce(p) ==
    /\ Pending(p) /\ ~Accepted(p)
    /\ job[p].tried \/ job[p].token = "stale" \/ job[p].pc \notin Readable
    /\ Fail(p, "auth")
    /\ UNCHANGED <<ws, disk, registry, account, reader, faults, edits, own>>

AuthRequired(p) ==
    /\ Pending(p) /\ ~Accepted(p)
    /\ job[p].tried \/ job[p].pc \notin Readable
    /\ Fail(p, "auth")
    /\ UNCHANGED <<ws, disk, registry, account, reader, faults, edits, own>>

(* The registry stops honouring a token, at any time.                      *)
Expire(p) ==
    /\ faults < MaxFaults
    /\ faults' = faults + 1
    /\ Accepted(p) /\ Pending(p)
    /\ SetJob(p, [job[p] EXCEPT !.token = "stale", !.raced = job[p].raced \/ job[p].tried])
    /\ UNCHANGED <<ws, disk, registry, account, reader, edits, own>>

Revoke ==
    /\ account
    /\ account' = FALSE
    /\ UNCHANGED <<ws, disk, registry, job, reader, faults, edits, own>>

(* The accepted request of phase `at` took effect: its answer arrives and  *)
(* p goes on to `next`, or is lost with the effect standing.               *)
Answered(p, at, next, token) ==
    /\ job[p].pc = at /\ Accepted(p)
    /\ \/ /\ SetJob(p, [job[p] EXCEPT !.pc = next, !.token = token, !.tried = FALSE])
          /\ faults' = faults
       \/ /\ faults < MaxFaults
          /\ faults' = faults + 1
          /\ Fail(p, "lost")
    /\ UNCHANGED <<ws, disk, account, reader, edits, own>>

(* The request fails before it reaches the registry, or the process dies.  *)
Lose(p) ==
    /\ job[p].pc \notin {"idle", "done", "failed"}
    /\ faults < MaxFaults
    /\ faults' = faults + 1
    /\ Fail(p, "lost")
    /\ UNCHANGED <<ws, disk, registry, account, reader, edits, own>>

-----------------------------------------------------------------------------
(* publish and push                                                        *)

MaySign(p) == KeyOf[p] # None

(* `publish` to the tag t, with a key configured or without or --no-sign,  *)
(* with --no-attest or without.                                            *)
StartPublish(p, t) ==
    /\ job[p].pc = "idle"
    /\ \E sign, attest \in BOOLEAN :
         /\ attest => sign
         /\ sign => MaySign(p)
         /\ SetJob(p, [NoJob EXCEPT !.pc = "pack", !.tag = t, !.deps = Vendored(p),
                               !.sign = sign, !.attest = attest])
    /\ UNCHANGED <<ws, disk, registry, account, reader, faults, edits, own>>

(* Mutant: the signature is made and pushed first.                         *)
PackAndSign(p) ==
    /\ job[p].pc = "pack"
    /\ SetJob(p, [job[p] EXCEPT !.pc = IF job[p].sign THEN "key" ELSE "layer",
                               !.tar = Snapshot(p, job[p].deps)])
    /\ own' = IF KeyOf[p] = None THEN own
              ELSE own \cup {[key |-> KeyOf[p], layer |-> Snapshot(p, job[p].deps)]}
    /\ UNCHANGED <<ws, disk, registry, account, reader, faults, edits>>

PackToPublish(p) ==
    /\ job[p].pc = "pack"
    /\ SetJob(p, [job[p] EXCEPT !.pc = "layer", !.tar = Snapshot(p, job[p].deps)])
    /\ own' = IF KeyOf[p] = None THEN own
              ELSE own \cup {[key |-> KeyOf[p], layer |-> Snapshot(p, job[p].deps)]}
    /\ UNCHANGED <<ws, disk, registry, account, reader, faults, edits>>

(* `push` of the archive on disk to the tag t, with --sig or without.  A   *)
(* sidecar for another tag or another manifest stops it here.              *)
SidecarFits(p, t) ==
    disk.side.tag = t /\ disk.side.man = PublishDigests(p, disk.tar)

StartPush(p, t) ==
    /\ job[p].pc = "idle"
    /\ disk.tar # None
    /\ \/ SetJob(p, [NoJob EXCEPT !.pc = "layer", !.tag = t, !.tar = disk.tar])
       \/ /\ disk.side # None
          /\ IF SidecarFits(p, t)
             THEN SetJob(p, [NoJob EXCEPT !.pc = "layer", !.tag = t, !.tar = disk.tar,
                               !.side = disk.side])
             ELSE Fail(p, "sidecar")
    /\ UNCHANGED <<ws, disk, registry, account, reader, faults, edits, own>>

Man(p) == PublishDigests(p, job[p].tar)

(* Mutant: the status of the answer is not looked at.                      *)
UploadUnchecked(p, at, blob, next) ==
    /\ Answered(p, at, next, job[p].token)
    /\ blobs' \in {blobs, blobs \cup {blob}}
    /\ UNCHANGED <<tags, sigs, atts, put>>

Upload(p, at, blob, next) ==
    /\ Answered(p, at, next, job[p].token)
    /\ blobs' = blobs \cup {blob}
    /\ UNCHANGED <<tags, sigs, atts, put>>

UploadLayer(p)  == Upload(p, "layer", Blob("layer", job[p].tar), "config")
UploadConfig(p) == Upload(p, "config", Blob("config", Binary[p]), "manifest")

(* The tag moves to the new manifest.  The next push_* starts with an      *)
(* empty token cache.                                                      *)
PutManifest(p) ==
    /\ Answered(p, "manifest",
                IF job[p].side # None THEN "payload"
                ELSE IF job[p].sign THEN "key" ELSE "done",
                "none")
    /\ tags' = [tags EXCEPT ![job[p].tag] = Man(p)]
    /\ put' = put \cup {[tag |-> job[p].tag, man |-> Man(p)]}
    /\ UNCHANGED <<blobs, sigs, atts>>

(* What is signed and attested is what push reports to have put.           *)
(* Mutant: it is what the tag names now.                                   *)
SubjectAtTag(p) == tags[job[p].tag]
Subject(p) == Man(p)

(* The signing key is read only now, when the tag is already public.       *)
(* Mutant: a key that cannot be read only leaves the signature out.        *)
SignSoftly(p) ==
    /\ job[p].pc = "key"
    /\ \/ SetJob(p, [job[p] EXCEPT !.pc = "payload",
                               !.side = [tag |-> job[p].tag, man |-> Subject(p), key |-> KeyOf[p]]])
       \/ SetJob(p, [job[p] EXCEPT !.pc = "done"])
    /\ UNCHANGED <<ws, disk, registry, account, reader, faults, edits, own>>

SignPublished(p) ==
    /\ job[p].pc = "key"
    /\ \/ /\ SetJob(p, [job[p] EXCEPT !.pc = "payload",
                               !.side = [tag |-> job[p].tag, man |-> Subject(p), key |-> KeyOf[p]]])
          /\ faults' = faults
       \/ /\ faults < MaxFaults
          /\ faults' = faults + 1
          /\ Fail(p, "key")
    /\ UNCHANGED <<ws, disk, registry, account, reader, edits, own>>

UploadPayload(p)   == Upload(p, "payload", Blob("payload", job[p].side.man), "sigconfig")
UploadSigConfig(p) == Upload(p, "sigconfig", Blob("empty", None), "sig")

(* An older signature of the same manifest is replaced.                    *)
PutSignature(p) ==
    /\ Answered(p, "sig", IF job[p].attest THEN "attest" ELSE "done", "none")
    /\ sigs' = {s \in sigs : s.of # Man(p)}
               \cup {[of |-> Man(p), payload |-> job[p].side.man, key |-> job[p].side.key]}
    /\ UNCHANGED <<blobs, tags, atts, put>>

(* The materials are those of the lockfile as it is now.                   *)
AttestPublished(p) ==
    /\ job[p].pc = "attest"
    /\ SetJob(p, [job[p] EXCEPT !.pc = "envelope",
                               !.env = [of |-> Man(p), subject |-> Subject(p),
                                        materials |-> ws[p].lock, key |-> KeyOf[p]]])
    /\ UNCHANGED <<ws, disk, registry, account, reader, faults, edits, own>>

UploadEnvelope(p)  == Upload(p, "envelope", Blob("envelope", job[p].env), "attconfig")
UploadAttConfig(p) == Upload(p, "attconfig", Blob("empty", None), "att")

PutAttestation(p) ==
    /\ Answered(p, "att", "done", "none")
    /\ atts' = {a \in atts : a.of # Man(p)} \cup {job[p].env}
    /\ UNCHANGED <<blobs, tags, sigs, put>>

(* The verb is run again, or another one.                                  *)
Rerun(p) ==
    /\ job[p].pc \in {"done", "failed"}
    /\ SetJob(p, NoJob)
    /\ UNCHANGED <<ws, disk, registry, account, reader, faults, edits, own>>

-----------------------------------------------------------------------------
(* Readers                                                                 *)

(* The resolver's fetch of a tag, with the public key or without, held to  *)
(* the lockfile's pin or, to add or update, not.  What the cache holds     *)
(* under the pinned digest is taken without a request.                     *)
StartFetch(r, t) ==
    /\ reader[r].pc = "idle"
    /\ \E keyed, pinned \in BOOLEAN :
         /\ pinned => reader[r].pin # None
         /\ IF pinned /\ reader[r].pin \in reader[r].cache
            THEN SetReader(r, [reader[r] EXCEPT !.pc = "accepted", !.tag = t,
                               !.fetch = TRUE, !.pinned = TRUE,
                               !.keyed = keyed, !.got = reader[r].pin])
            ELSE SetReader(r, [reader[r] EXCEPT !.pc = "manifest", !.tag = t,
                               !.fetch = TRUE, !.pinned = pinned,
                               !.keyed = keyed])
    /\ UNCHANGED <<ws, disk, registry, account, job, faults, edits, own>>

StartPull(r, t) ==
    /\ reader[r].pc = "idle"
    /\ SetReader(r, [reader[r] EXCEPT !.pc = "manifest", !.tag = t])
    /\ UNCHANGED <<ws, disk, registry, account, job, faults, edits, own>>

GetManifest(r) ==
    /\ reader[r].pc = "manifest"
    /\ LET m == tags[reader[r].tag] IN
       IF m = None
       THEN SetReader(r, [reader[r] EXCEPT !.pc = "refused"])
       ELSE SetReader(r, [reader[r] EXCEPT !.man = m,
                               !.pc = IF reader[r].keyed THEN "signature" ELSE "blob"])
    /\ UNCHANGED <<ws, disk, registry, account, job, faults, edits, own>>

(* verify_keyed: the payload names this manifest and the key signed it.    *)
Verifies(m) ==
    \E s \in sigs : /\ s.of = m /\ s.payload = m /\ s.key = Trusted
                   /\ Blob("payload", s.payload) \in blobs

GetSignature(r) ==
    /\ reader[r].pc = "signature"
    /\ SetReader(r, [reader[r] EXCEPT !.pc = IF Verifies(reader[r].man) THEN "blob" ELSE "refused"])
    /\ UNCHANGED <<ws, disk, registry, account, job, faults, edits, own>>

(* The bytes served are the blob asked for or, through a broken proxy,     *)
(* another one; they are taken if they have the digest the manifest names  *)
(* and, in a fetch, the lockfile pins.                                     *)
Layers == {b.of : b \in {c \in blobs : c.kind = "layer"}}

(* Mutants: the bytes are not hashed; the pin is not compared.             *)
TakesAnyBytes(r, tar) == tar # None /\ (reader[r].pinned => tar = reader[r].pin)
TakesUnpinned(r, tar) == tar = reader[r].man.layer
Takes(r, tar) ==
    tar = reader[r].man.layer /\ (reader[r].pinned => tar = reader[r].pin)

GetBlob(r) ==
    /\ reader[r].pc = "blob"
    /\ \E tar \in Layers \cup {None} :
         IF Takes(r, tar)
         THEN SetReader(r, [reader[r] EXCEPT !.pc = "accepted", !.got = tar,
                               !.cache = IF reader[r].fetch THEN @ \cup {tar} ELSE @])
         ELSE SetReader(r, [reader[r] EXCEPT !.pc = "refused"])
    /\ UNCHANGED <<ws, disk, registry, account, job, faults, edits, own>>

(* The verb ends.  A fetched package is pinned in the reader's lockfile by *)
(* the digest of its archive.                                              *)
Finish(r) ==
    /\ reader[r].pc \in {"accepted", "refused"}
    /\ SetReader(r, [NoRead EXCEPT !.cache = reader[r].cache,
                        !.pin = IF reader[r].pc = "accepted" /\ reader[r].fetch
                                THEN reader[r].got ELSE reader[r].pin])
    /\ UNCHANGED <<ws, disk, registry, account, job, faults, edits, own>>

(* The reader's cache is cleared.                                          *)
ClearCache(r) ==
    /\ reader[r].pc = "idle"
    /\ SetReader(r, [reader[r] EXCEPT !.cache = {}])
    /\ UNCHANGED <<ws, disk, registry, account, job, faults, edits, own>>

(* pull_attestation and verify_attestation for the digest d.               *)
Verdict(d) ==
    LET found == {a \in atts : a.of = d} IN
    IF found = {} THEN "missing"
    ELSE IF \A a \in found : a.key # Trusted THEN "invalid"
    ELSE IF \A a \in found : a.subject # d THEN "subject"
    ELSE "ok"

(* `verify` with a public key: the attestation walk over the lockfile.     *)
Verify(r) ==
    /\ reader[r].pc = "idle"
    /\ reader[r].pin # None
    /\ SetReader(r, [reader[r] EXCEPT !.verdict = Verdict(reader[r].pin)])
    /\ UNCHANGED <<ws, disk, registry, account, job, faults, edits, own>>

-----------------------------------------------------------------------------
Step(p) ==
    \/ PackToPublish(p) \/ SignPublished(p) \/ AttestPublished(p)
    \/ FetchToken(p) \/ AuthRequired(p)
    \/ UploadLayer(p) \/ UploadConfig(p) \/ PutManifest(p)
    \/ UploadPayload(p) \/ UploadSigConfig(p) \/ PutSignature(p)
    \/ UploadEnvelope(p) \/ UploadAttConfig(p) \/ PutAttestation(p)

Publish(p) ==
    \/ \E t \in Tags : StartPublish(p, t) \/ StartPush(p, t) \/ Sign(p, t)
    \/ Edit(p) \/ Pack(p)
    \/ Step(p) \/ Expire(p) \/ Lose(p) \/ Rerun(p)

Read(r) ==
    \/ \E t \in Tags : StartFetch(r, t) \/ StartPull(r, t)
    \/ GetManifest(r) \/ GetSignature(r) \/ GetBlob(r) \/ Finish(r)
    \/ ClearCache(r) \/ Verify(r)

Next ==
    \/ Revoke
    \/ \E p \in Publishers : Publish(p)
    \/ \E r \in Readers : Read(r)

Spec == Init /\ [][Next]_vars
=============================================================================
