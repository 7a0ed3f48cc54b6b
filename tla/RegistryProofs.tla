--------------------------- MODULE RegistryProofs ---------------------------
(***************************************************************************)
(* What of Registry holds for any number of publishers, readers, tags,     *)
(* keys, faults and edits.                                                 *)
(***************************************************************************)
EXTENDS RegistryProperties, TLAPS

USE DEF SetJob, SetReader

(* What a publisher's job j owes to the registry's blobs B and manifests P *)
(* and to the archives O that keys answer for: each phase after a request  *)
(* has what the request put, and what it signs and attests is its own.     *)
Signing   == {"payload", "sigconfig", "sig"}
Attesting == {"envelope", "attconfig", "att"}
Pushed    == {"key", "attest", "done"} \cup Signing \cup Attesting

JobOK(p, j, B, P, O) ==
    /\ j.pc \in Requests \cup Pushed => j.tar \in Tarball /\ j.tag \in Tags
    /\ j.pc = "pack" => j.tag \in Tags /\ j.side = None
    /\ j.attest => j.sign
    /\ j.sign => KeyOf[p] \in Keys
    /\ j.sign /\ j.pc \in Requests \cup Pushed => [key |-> KeyOf[p], layer |-> j.tar] \in O
    /\ j.side # None \/ j.pc \in Signing =>
         j.side.man = PublishDigests(p, j.tar) /\ [key |-> j.side.key, layer |-> j.tar] \in O
    /\ j.pc \in Signing => j.side \in Sidecar
    /\ j.pc = "key" => j.sign
    /\ j.pc \in Attesting \cup {"attest"} => j.attest
    /\ j.pc \in Attesting =>
         /\ j.env \in Attestation /\ j.env.key = KeyOf[p]
         /\ j.env.of = PublishDigests(p, j.tar) /\ j.env.subject = PublishDigests(p, j.tar)
    /\ j.pc \in Pushed \cup {"config", "manifest"} => Blob("layer", j.tar) \in B
    /\ j.pc \in Pushed \cup {"manifest"} => Blob("config", Binary[p]) \in B
    /\ j.pc \in Pushed => [tag |-> j.tag, man |-> PublishDigests(p, j.tar)] \in P
    /\ j.pc \in {"sigconfig", "sig"} => Blob("payload", j.side.man) \in B
    /\ j.pc \in {"attconfig", "att"} => Blob("envelope", j.env) \in B
    /\ j.pc \in {"sig", "att"} => Blob("empty", None) \in B

Jobs == \A p \in Publishers : JobOK(p, job[p], blobs, put, own)

(* The sidecar on disk was made by a holder of its key.                    *)
DiskOK == disk.side # None =>
    [key |-> disk.side.key, layer |-> disk.side.man.layer] \in own

RegInv ==
    /\ TypeOK /\ Jobs /\ DiskOK
    /\ TagsResolve /\ SidecarsFollow /\ SignedByItsPublisher

-----------------------------------------------------------------------------
(* Records of jobs                                                         *)

LEMMA JobGrows ==
    ASSUME NEW p, NEW j, NEW B, NEW P, NEW O, NEW B2, NEW P2, NEW O2,
           B \subseteq B2, P \subseteq P2, O \subseteq O2, JobOK(p, j, B, P, O)
    PROVE  JobOK(p, j, B2, P2, O2)
BY DEF JobOK

LEMMA FailedJob ==
    ASSUME NEW why \in {"none", "auth", "lost", "sidecar", "key"}
    PROVE  LET j == [NoJob EXCEPT !.pc = "failed", !.why = why] IN
           /\ j \in JobType
           /\ \A p, B, P, O : JobOK(p, j, B, P, O)
<1> DEFINE j == [NoJob EXCEPT !.pc = "failed", !.why = why]
<1>1. j \in JobType
    BY DEF JobType, NoJob, Phases
<1>2. j.pc = "failed" /\ j.side = None /\ j.sign = FALSE /\ j.attest = FALSE
    BY DEF NoJob
<1> HIDE DEF j
<1>3. \A p, B, P, O : JobOK(p, j, B, P, O)
    BY <1>2 DEF JobOK, Pushed, Signing, Attesting, Requests
<1> QED
    BY <1>1, <1>3 DEF j

LEMMA Onward ==
    ASSUME NEW j \in JobType, NEW pc \in Phases, NEW token \in {"none", "live", "stale"},
           NEW tried \in BOOLEAN
    PROVE  [j EXCEPT !.pc = pc, !.token = token, !.tried = tried] \in JobType
BY DEF JobType

(* One job changes: the others keep what they are owed.                    *)
LEMMA OneJob ==
    ASSUME RegInv, NEW p \in Publishers, NEW j \in JobType, SetJob(p, j),
           blobs \subseteq blobs', put \subseteq put', own \subseteq own',
           JobOK(p, j, blobs', put', own')
    PROVE  job' \in [Publishers -> JobType] /\ Jobs'
<1>1. job' \in [Publishers -> JobType] /\ \A q \in Publishers : job'[q] = IF q = p THEN j ELSE job[q]
    BY DEF RegInv, TypeOK
<1>2. ASSUME NEW q \in Publishers
      PROVE  JobOK(q, job'[q], blobs', put', own')
    <2>1. JobOK(q, job[q], blobs', put', own')
        BY JobGrows DEF RegInv, Jobs
    <2> QED
        BY <1>1, <2>1
<1> QED
    BY <1>1, <1>2 DEF Jobs

LEMMA FailOK ==
    ASSUME RegInv, NEW p \in Publishers,
           NEW why \in {"none", "auth", "lost", "sidecar", "key"}, Fail(p, why),
           blobs \subseteq blobs', put \subseteq put', own \subseteq own'
    PROVE  job' \in [Publishers -> JobType] /\ Jobs'
<1> DEFINE j == [NoJob EXCEPT !.pc = "failed", !.why = why]
<1>2. j \in JobType /\ JobOK(p, j, blobs', put', own')
    BY FailedJob
<1>3. SetJob(p, j)
    BY DEF Fail
<1> HIDE DEF j
<1> QED
    BY <1>2, <1>3, OneJob

LEMMA AnsweredOK ==
    ASSUME RegInv, NEW p \in Publishers, NEW at \in Phases, NEW next \in Phases,
           NEW token \in {"none", "live", "stale"}, Answered(p, at, next, token),
           blobs \subseteq blobs', put \subseteq put', own \subseteq own',
           JobOK(p, [job[p] EXCEPT !.pc = next, !.token = token, !.tried = FALSE],
                 blobs', put', own')
    PROVE  job' \in [Publishers -> JobType] /\ Jobs' /\ faults' \in 0 .. MaxFaults
<1> DEFINE j == [job[p] EXCEPT !.pc = next, !.token = token, !.tried = FALSE]
<1>1. j \in JobType
    BY Onward DEF RegInv, TypeOK
<1>2. JobOK(p, j, blobs', put', own')
    OBVIOUS
<1>3. SetJob(p, j) \/ Fail(p, "lost")
    BY DEF Answered
<1> HIDE DEF j
<1>4. faults' \in 0 .. MaxFaults
    BY RegistryAssumption DEF Answered, RegInv, TypeOK
<1> QED
    BY <1>1, <1>2, <1>3, <1>4, OneJob, FailOK

-----------------------------------------------------------------------------
(* The steps of a publisher                                                *)

Kept == TagsResolve /\ SidecarsFollow /\ SignedByItsPublisher

LEMMA RegistryGrows ==
    ASSUME Kept, blobs \subseteq blobs', put \subseteq put', own \subseteq own',
           UNCHANGED <<tags, sigs, atts>>
    PROVE  Kept'
<1>1. TagsResolve'
    BY DEF Kept, TagsResolve
<1>2. SidecarsFollow'
    BY DEF Kept, SidecarsFollow
<1>3. SignedByItsPublisher'
    BY DEF Kept, SignedByItsPublisher
<1> QED
    BY <1>1, <1>2, <1>3 DEF Kept

(* What an action leaves alone that only moves a job on.                   *)
LEMMA OnlyJob ==
    ASSUME RegInv, job' \in [Publishers -> JobType], Jobs', faults' \in 0 .. MaxFaults,
           blobs \subseteq blobs', blobs' \subseteq Blobs, own \subseteq own',
           own' \subseteq [key : Keys, layer : Tarball],
           UNCHANGED <<ws, disk, account, reader, edits, tags, sigs, atts, put>>
    PROVE  RegInv'
<1>1. TypeOK'
    BY DEF RegInv, TypeOK
<1>2. DiskOK'
    BY DEF RegInv, DiskOK
<1>3. Kept'
    BY RegistryGrows DEF RegInv, Kept
<1> QED
    BY <1>1, <1>2, <1>3 DEF RegInv, Kept

LEMMA FailureOK ==
    ASSUME RegInv, NEW p \in Publishers,
           NEW why \in {"none", "auth", "lost", "sidecar", "key"}, Fail(p, why),
           faults' \in 0 .. MaxFaults,
           UNCHANGED <<ws, disk, registry, account, reader, edits, own>>
    PROVE  RegInv'
<1>1. job' \in [Publishers -> JobType] /\ Jobs'
    BY FailOK DEF registry
<1> QED
    BY <1>1, OnlyJob DEF RegInv, TypeOK, registry

LEMMA FaultsCount ==
    ASSUME RegInv
    PROVE  faults \in 0 .. MaxFaults /\ (faults < MaxFaults => faults + 1 \in 0 .. MaxFaults)
BY RegistryAssumption DEF RegInv, TypeOK

LEMMA JobIs ==
    ASSUME RegInv, NEW p \in Publishers
    PROVE  job[p] \in JobType /\ JobOK(p, job[p], blobs, put, own)
BY DEF RegInv, TypeOK, Jobs

LEMMA TarballOf ==
    ASSUME RegInv, NEW p \in Publishers, NEW deps \in Locks \cup {None}
    PROVE  Snapshot(p, deps) \in Tarball /\ Vendored(p) \in Locks \cup {None}
BY DEF RegInv, TypeOK, Workspace, Snapshot, Tarball, Vendored

LEMMA ManifestOf ==
    ASSUME NEW p \in Publishers, NEW tar \in Tarball
    PROVE  PublishDigests(p, tar) \in Manifest
BY RegistryAssumption DEF PublishDigests, Manifest

LEMMA PackToPublishOK ==
    ASSUME RegInv, NEW p \in Publishers, PackToPublish(p)
    PROVE  RegInv'
<1> DEFINE tar == Snapshot(p, job[p].deps)
           j == [job[p] EXCEPT !.pc = "layer", !.tar = tar]
<1>1. job[p] \in JobType /\ JobOK(p, job[p], blobs, put, own) /\ job[p].pc = "pack"
    BY JobIs DEF PackToPublish
<1>2. job[p].deps \in Locks \cup {None}
    BY <1>1 DEF JobType
<1>3. tar \in Tarball
    BY <1>2, TarballOf
<1>4. SetJob(p, j) /\ own' = IF KeyOf[p] = None THEN own ELSE own \cup {[key |-> KeyOf[p], layer |-> tar]}
    BY DEF PackToPublish
<1>5. UNCHANGED <<ws, disk, registry, account, reader, faults, edits>>
    BY DEF PackToPublish
<1> HIDE DEF tar
<1>6. j \in JobType
    BY <1>1, <1>3 DEF JobType, Phases, Requests
<1>7. own' \subseteq [key : Keys, layer : Tarball] /\ own \subseteq own'
    <2>1. KeyOf[p] \in Keys \cup {None} /\ own \subseteq [key : Keys, layer : Tarball]
        BY RegistryAssumption DEF RegInv, TypeOK
    <2>2. KeyOf[p] \in Keys => [key |-> KeyOf[p], layer |-> tar] \in [key : Keys, layer : Tarball]
        BY <1>3
    <2> QED
        BY <1>4, <2>1, <2>2
<1>8. /\ j.pc = "layer" /\ j.tar = tar /\ j.tag = job[p].tag /\ j.side = job[p].side
      /\ j.sign = job[p].sign /\ j.attest = job[p].attest
    BY <1>1 DEF JobType
<1>9. KeyOf[p] \in Keys => [key |-> KeyOf[p], layer |-> tar] \in own'
    BY <1>4, RegistryAssumption
<1> HIDE DEF j
<1>10. JobOK(p, j, blobs', put', own')
    BY <1>1, <1>3, <1>8, <1>9 DEF JobOK, Pushed, Signing, Attesting, Requests
<1>11. job' \in [Publishers -> JobType] /\ Jobs'
    BY <1>4, <1>5, <1>6, <1>7, <1>10, OneJob DEF registry
<1> QED
    BY <1>5, <1>7, <1>11, OnlyJob DEF registry, RegInv, TypeOK

LEMMA SignPublishedOK ==
    ASSUME RegInv, NEW p \in Publishers, SignPublished(p)
    PROVE  RegInv'
<1> DEFINE side == [tag |-> job[p].tag, man |-> Subject(p), key |-> KeyOf[p]]
           j == [job[p] EXCEPT !.pc = "payload", !.side = side]
<1>1. job[p] \in JobType /\ JobOK(p, job[p], blobs, put, own) /\ job[p].pc = "key"
    BY JobIs DEF SignPublished
<1>2. /\ UNCHANGED <<ws, disk, registry, account, reader, edits, own>>
      /\ faults' \in 0 .. MaxFaults
      /\ SetJob(p, j) \/ Fail(p, "key")
    BY FaultsCount DEF SignPublished
<1>3. job[p].tar \in Tarball /\ job[p].tag \in Tags /\ KeyOf[p] \in Keys
      /\ [key |-> KeyOf[p], layer |-> job[p].tar] \in own
    BY <1>1 DEF JobOK, Pushed
<1>4. side \in Sidecar /\ side.man = PublishDigests(p, job[p].tar) /\ side.key = KeyOf[p]
    BY <1>3, ManifestOf DEF Sidecar, Subject, Man
<1> HIDE DEF side
<1>5. j \in JobType
    BY <1>1, <1>4 DEF JobType, Phases, Requests
<1>6. /\ j.pc = "payload" /\ j.tar = job[p].tar /\ j.tag = job[p].tag /\ j.side = side
      /\ j.sign = job[p].sign /\ j.attest = job[p].attest
    BY <1>1 DEF JobType
<1> HIDE DEF j
<1>7. JobOK(p, j, blobs, put, own)
    BY <1>1, <1>3, <1>4, <1>6 DEF JobOK, Pushed, Signing, Attesting, Requests
<1>8. CASE SetJob(p, j)
    <2>1. job' \in [Publishers -> JobType] /\ Jobs'
        BY <1>2, <1>5, <1>7, <1>8, OneJob DEF registry
    <2> QED
        BY <1>2, <2>1, OnlyJob DEF registry, RegInv, TypeOK
<1> QED
    BY <1>2, <1>8, FailureOK

LEMMA AttestPublishedOK ==
    ASSUME RegInv, NEW p \in Publishers, AttestPublished(p)
    PROVE  RegInv'
<1> DEFINE env == [of |-> Man(p), subject |-> Subject(p), materials |-> ws[p].lock, key |-> KeyOf[p]]
           j == [job[p] EXCEPT !.pc = "envelope", !.env = env]
<1>1. job[p] \in JobType /\ JobOK(p, job[p], blobs, put, own) /\ job[p].pc = "attest"
    BY JobIs DEF AttestPublished
<1>2. /\ UNCHANGED <<ws, disk, registry, account, reader, faults, edits, own>>
      /\ SetJob(p, j)
    BY DEF AttestPublished
<1>3. job[p].tar \in Tarball /\ KeyOf[p] \in Keys /\ ws[p].lock \in Locks
    BY <1>1 DEF JobOK, Pushed, RegInv, TypeOK, Workspace
<1>4. /\ env \in Attestation /\ env.of = PublishDigests(p, job[p].tar)
      /\ env.subject = PublishDigests(p, job[p].tar) /\ env.key = KeyOf[p]
    BY <1>3, ManifestOf DEF Attestation, Subject, Man
<1> HIDE DEF env
<1>5. j \in JobType
    BY <1>1, <1>4 DEF JobType, Phases, Requests
<1>6. /\ j.pc = "envelope" /\ j.tar = job[p].tar /\ j.tag = job[p].tag /\ j.side = job[p].side
      /\ j.sign = job[p].sign /\ j.attest = job[p].attest /\ j.env = env
    BY <1>1 DEF JobType
<1> HIDE DEF j
<1>7. JobOK(p, j, blobs, put, own)
    BY <1>1, <1>4, <1>6 DEF JobOK, Pushed, Signing, Attesting, Requests
<1>8. job' \in [Publishers -> JobType] /\ Jobs'
    BY <1>2, <1>5, <1>7, OneJob DEF registry
<1> QED
    BY <1>2, <1>8, OnlyJob, FaultsCount DEF registry, RegInv, TypeOK

LEMMA Expired ==
    ASSUME NEW j \in JobType, NEW raced \in BOOLEAN
    PROVE  [j EXCEPT !.token = "stale", !.raced = raced] \in JobType
BY DEF JobType

LEMMA AuthStepsOK ==
    ASSUME RegInv, NEW p \in Publishers, FetchToken(p) \/ AuthRequired(p) \/ Expire(p)
    PROVE  RegInv'
<1>1. job[p] \in JobType /\ JobOK(p, job[p], blobs, put, own)
    BY JobIs
<1>2. /\ UNCHANGED <<ws, disk, registry, account, reader, edits, own>>
      /\ faults' \in 0 .. MaxFaults
    BY FaultsCount DEF FetchToken, AuthRequired, Expire
<1>3. CASE FetchToken(p) /\ account
    <2> DEFINE j == [job[p] EXCEPT !.token = "live", !.tried = TRUE]
    <2>1. SetJob(p, j)
        BY <1>3 DEF FetchToken
    <2>2. j \in JobType
        BY <1>1 DEF JobType
    <2>3. /\ j.pc = job[p].pc /\ j.tar = job[p].tar /\ j.tag = job[p].tag /\ j.side = job[p].side
          /\ j.sign = job[p].sign /\ j.attest = job[p].attest /\ j.env = job[p].env
        BY <1>1 DEF JobType
    <2> HIDE DEF j
    <2>4. JobOK(p, j, blobs, put, own)
        BY <1>1, <2>3 DEF JobOK
    <2>5. job' \in [Publishers -> JobType] /\ Jobs'
        BY <1>2, <2>1, <2>2, <2>4, OneJob DEF registry
    <2> QED
        BY <1>2, <2>5, OnlyJob DEF registry, RegInv, TypeOK
<1>4. CASE Expire(p)
    <2> DEFINE raced == job[p].raced \/ job[p].tried
               j == [job[p] EXCEPT !.token = "stale", !.raced = raced]
    <2>1. SetJob(p, j)
        BY <1>4 DEF Expire
    <2>6. raced \in BOOLEAN
        BY <1>1 DEF JobType
    <2> HIDE DEF raced
    <2>2. j \in JobType
        BY <1>1, <2>6, Expired
    <2>3. /\ j.pc = job[p].pc /\ j.tar = job[p].tar /\ j.tag = job[p].tag /\ j.side = job[p].side
          /\ j.sign = job[p].sign /\ j.attest = job[p].attest /\ j.env = job[p].env
        BY <1>1 DEF JobType
    <2> HIDE DEF j
    <2>4. JobOK(p, j, blobs, put, own)
        BY <1>1, <2>3 DEF JobOK
    <2>5. job' \in [Publishers -> JobType] /\ Jobs'
        BY <1>2, <2>1, <2>2, <2>4, OneJob DEF registry
    <2> QED
        BY <1>2, <2>5, OnlyJob DEF registry, RegInv, TypeOK
<1>5. (FetchToken(p) /\ ~account) \/ AuthRequired(p) => Fail(p, "auth")
    BY DEF FetchToken, AuthRequired
<1> QED
    BY <1>2, <1>3, <1>4, <1>5, FailureOK

(* The registry takes a blob; j is the job after the answer.               *)
LEMMA UploadOK ==
    ASSUME RegInv, NEW p \in Publishers, NEW at \in Requests, NEW next \in Requests,
           NEW blob \in Blobs, Upload(p, at, blob, next),
           JobOK(p, [job[p] EXCEPT !.pc = next, !.token = job[p].token, !.tried = FALSE],
                 blobs', put', own')
    PROVE  RegInv'
<1>1. /\ Answered(p, at, next, job[p].token)
      /\ blobs' = blobs \cup {blob} /\ UNCHANGED <<tags, sigs, atts, put>>
    BY DEF Upload
<1>2. UNCHANGED <<ws, disk, account, reader, edits, own>>
    BY <1>1 DEF Answered
<1>3. job[p].token \in {"none", "live", "stale"} /\ at \in Phases /\ next \in Phases
    BY JobIs DEF JobType, Phases
<1>4. job' \in [Publishers -> JobType] /\ Jobs' /\ faults' \in 0 .. MaxFaults
    BY <1>1, <1>2, <1>3, AnsweredOK
<1>5. blobs' \subseteq Blobs /\ own \subseteq [key : Keys, layer : Tarball]
    BY <1>1 DEF RegInv, TypeOK
<1> QED
    BY <1>1, <1>2, <1>4, <1>5, OnlyJob

LEMMA UploadsOK ==
    ASSUME RegInv, NEW p \in Publishers,
           \/ UploadLayer(p) \/ UploadConfig(p) \/ UploadPayload(p)
           \/ UploadSigConfig(p) \/ UploadEnvelope(p) \/ UploadAttConfig(p)
    PROVE  RegInv'
<1>1. job[p] \in JobType /\ JobOK(p, job[p], blobs, put, own)
    BY JobIs
<1> DEFINE j(next) == [job[p] EXCEPT !.pc = next, !.token = job[p].token, !.tried = FALSE]
<1>2. \A next : /\ j(next).pc = next /\ j(next).tar = job[p].tar /\ j(next).tag = job[p].tag
                /\ j(next).side = job[p].side /\ j(next).env = job[p].env
                /\ j(next).sign = job[p].sign /\ j(next).attest = job[p].attest
    BY <1>1 DEF JobType
<1>3. ASSUME NEW at \in Requests, NEW next \in Requests, NEW blob \in Blobs,
             Upload(p, at, blob, next),
             \A k, B : /\ k.pc = next /\ k.tar = job[p].tar /\ k.tag = job[p].tag
                       /\ k.side = job[p].side /\ k.env = job[p].env
                       /\ k.sign = job[p].sign /\ k.attest = job[p].attest
                       /\ B = blobs \cup {blob}
                       => JobOK(p, k, B, put, own)
      PROVE  RegInv'
    <2>1. blobs' = blobs \cup {blob} /\ put' = put /\ own' = own
        BY <1>3 DEF Upload, Answered
    <2>2. JobOK(p, j(next), blobs', put', own')
        BY <1>2, <1>3, <2>1
    <2> QED
        BY <1>3, <2>2, UploadOK
<1> HIDE DEF j
<1>4. CASE UploadLayer(p)
    <2>1. job[p].pc = "layer"
        BY <1>4 DEF UploadLayer, Upload, Answered
    <2>2. Blob("layer", job[p].tar) \in Blobs
        BY <1>1, <2>1 DEF Blob, Blobs, JobOK, Requests
    <2>3. ASSUME NEW k, NEW B,
                 k.pc = "config", k.tar = job[p].tar, k.tag = job[p].tag,
                 k.side = job[p].side, k.env = job[p].env,
                 k.sign = job[p].sign, k.attest = job[p].attest,
                 B = blobs \cup {Blob("layer", job[p].tar)}
          PROVE  JobOK(p, k, B, put, own)
        BY <1>1, <2>1, <2>3 DEF JobOK, Pushed, Signing, Attesting, Requests
    <2> QED
        BY <1>3, <1>4, <2>2, <2>3 DEF UploadLayer, Requests
<1>5. CASE UploadConfig(p)
    <2>1. job[p].pc = "config"
        BY <1>5 DEF UploadConfig, Upload, Answered
    <2>2. Blob("config", Binary[p]) \in Blobs
        BY RegistryAssumption DEF Blob, Blobs
    <2>3. ASSUME NEW k, NEW B,
                 k.pc = "manifest", k.tar = job[p].tar, k.tag = job[p].tag,
                 k.side = job[p].side, k.env = job[p].env,
                 k.sign = job[p].sign, k.attest = job[p].attest,
                 B = blobs \cup {Blob("config", Binary[p])}
          PROVE  JobOK(p, k, B, put, own)
        BY <1>1, <2>1, <2>3 DEF JobOK, Pushed, Signing, Attesting, Requests
    <2> QED
        BY <1>3, <1>5, <2>2, <2>3 DEF UploadConfig, Requests
<1>6. CASE UploadPayload(p)
    <2>1. job[p].pc = "payload"
        BY <1>6 DEF UploadPayload, Upload, Answered
    <2>2. Blob("payload", job[p].side.man) \in Blobs
        BY <1>1, <2>1 DEF Blob, Blobs, JobOK, Signing, Sidecar
    <2>3. ASSUME NEW k, NEW B,
                 k.pc = "sigconfig", k.tar = job[p].tar, k.tag = job[p].tag,
                 k.side = job[p].side, k.env = job[p].env,
                 k.sign = job[p].sign, k.attest = job[p].attest,
                 B = blobs \cup {Blob("payload", job[p].side.man)}
          PROVE  JobOK(p, k, B, put, own)
        BY <1>1, <2>1, <2>3 DEF JobOK, Pushed, Signing, Attesting, Requests
    <2> QED
        BY <1>3, <1>6, <2>2, <2>3 DEF UploadPayload, Requests
<1>7. CASE UploadSigConfig(p)
    <2>1. job[p].pc = "sigconfig"
        BY <1>7 DEF UploadSigConfig, Upload, Answered
    <2>2. Blob("empty", None) \in Blobs
        BY DEF Blob, Blobs
    <2>3. ASSUME NEW k, NEW B,
                 k.pc = "sig", k.tar = job[p].tar, k.tag = job[p].tag,
                 k.side = job[p].side, k.env = job[p].env,
                 k.sign = job[p].sign, k.attest = job[p].attest,
                 B = blobs \cup {Blob("empty", None)}
          PROVE  JobOK(p, k, B, put, own)
        BY <1>1, <2>1, <2>3 DEF JobOK, Pushed, Signing, Attesting, Requests
    <2> QED
        BY <1>3, <1>7, <2>2, <2>3 DEF UploadSigConfig, Requests
<1>8. CASE UploadEnvelope(p)
    <2>1. job[p].pc = "envelope"
        BY <1>8 DEF UploadEnvelope, Upload, Answered
    <2>2. Blob("envelope", job[p].env) \in Blobs
        BY <1>1, <2>1 DEF Blob, Blobs, JobOK, Attesting
    <2>3. ASSUME NEW k, NEW B,
                 k.pc = "attconfig", k.tar = job[p].tar, k.tag = job[p].tag,
                 k.side = job[p].side, k.env = job[p].env,
                 k.sign = job[p].sign, k.attest = job[p].attest,
                 B = blobs \cup {Blob("envelope", job[p].env)}
          PROVE  JobOK(p, k, B, put, own)
        BY <1>1, <2>1, <2>3 DEF JobOK, Pushed, Signing, Attesting, Requests
    <2> QED
        BY <1>3, <1>8, <2>2, <2>3 DEF UploadEnvelope, Requests
<1>9. CASE UploadAttConfig(p)
    <2>1. job[p].pc = "attconfig"
        BY <1>9 DEF UploadAttConfig, Upload, Answered
    <2>2. Blob("empty", None) \in Blobs
        BY DEF Blob, Blobs
    <2>3. ASSUME NEW k, NEW B,
                 k.pc = "att", k.tar = job[p].tar, k.tag = job[p].tag,
                 k.side = job[p].side, k.env = job[p].env,
                 k.sign = job[p].sign, k.attest = job[p].attest,
                 B = blobs \cup {Blob("empty", None)}
          PROVE  JobOK(p, k, B, put, own)
        BY <1>1, <2>1, <2>3 DEF JobOK, Pushed, Signing, Attesting, Requests
    <2> QED
        BY <1>3, <1>9, <2>2, <2>3 DEF UploadAttConfig, Requests
<1> QED
    BY <1>4, <1>5, <1>6, <1>7, <1>8, <1>9

LEMMA PutManifestOK ==
    ASSUME RegInv, NEW p \in Publishers, PutManifest(p)
    PROVE  RegInv'
<1> DEFINE next == IF job[p].side # None THEN "payload"
                   ELSE IF job[p].sign THEN "key" ELSE "done"
           j == [job[p] EXCEPT !.pc = next, !.token = "none", !.tried = FALSE]
<1>1. job[p] \in JobType /\ JobOK(p, job[p], blobs, put, own) /\ job[p].pc = "manifest"
    BY JobIs DEF PutManifest, Answered
<1>2. /\ Answered(p, "manifest", next, "none")
      /\ tags' = [tags EXCEPT ![job[p].tag] = Man(p)]
      /\ put' = put \cup {[tag |-> job[p].tag, man |-> Man(p)]}
      /\ UNCHANGED <<blobs, sigs, atts>>
    BY DEF PutManifest
<1>3. UNCHANGED <<ws, disk, account, reader, edits, own>>
    BY <1>2 DEF Answered
<1>4. job[p].tar \in Tarball /\ job[p].tag \in Tags /\ Man(p) \in Manifest
    BY <1>1, ManifestOf DEF JobOK, Requests, Man
<1>5. next \in {"payload", "key", "done"}
    OBVIOUS
<1>6. (next = "payload" => job[p].side # None) /\ (next = "key" => job[p].sign)
    OBVIOUS
<1> HIDE DEF next
<1>7. /\ j.pc = next /\ j.tar = job[p].tar /\ j.tag = job[p].tag /\ j.side = job[p].side
      /\ j.sign = job[p].sign /\ j.attest = job[p].attest
    BY <1>1 DEF JobType
<1>8. job[p].side \in Sidecar \cup {None}
    BY <1>1 DEF JobType
<1>9. JobOK(p, j, blobs', put', own')
    <2> HIDE DEF j
    <2> QED
        BY <1>1, <1>2, <1>3, <1>4, <1>5, <1>6, <1>7, <1>8
           DEF JobOK, Pushed, Signing, Attesting, Requests, Man
<1>10. job' \in [Publishers -> JobType] /\ Jobs' /\ faults' \in 0 .. MaxFaults
    BY <1>2, <1>3, <1>5, <1>9, AnsweredOK DEF Phases, Requests
<1>11. TypeOK'
    <2>1. tags' \in [Tags -> Manifest \cup {None}]
        BY <1>2, <1>4 DEF RegInv, TypeOK
    <2>2. put' \subseteq [tag : Tags, man : Manifest]
        BY <1>2, <1>4 DEF RegInv, TypeOK
    <2> QED
        BY <1>2, <1>3, <1>10, <2>1, <2>2 DEF RegInv, TypeOK
<1>12. TagsResolve'
    <2>1. {Blob("layer", Man(p).layer), Blob("config", Man(p).binary)} \subseteq blobs
        BY <1>1 DEF JobOK, Man, PublishDigests, Requests
    <2>2. \A t \in Tags : tags'[t] = Man(p) \/ tags'[t] = tags[t]
        BY <1>2 DEF RegInv, TypeOK
    <2> QED
        BY <1>2, <2>1, <2>2 DEF RegInv, TagsResolve
<1>13. SidecarsFollow' /\ SignedByItsPublisher' /\ DiskOK'
    BY <1>2, <1>3 DEF RegInv, SidecarsFollow, SignedByItsPublisher, DiskOK
<1> QED
    BY <1>10, <1>11, <1>12, <1>13 DEF RegInv

LEMMA PutSignatureOK ==
    ASSUME RegInv, NEW p \in Publishers, PutSignature(p)
    PROVE  RegInv'
<1> DEFINE next == IF job[p].attest THEN "attest" ELSE "done"
           j == [job[p] EXCEPT !.pc = next, !.token = "none", !.tried = FALSE]
           sig == [of |-> Man(p), payload |-> job[p].side.man, key |-> job[p].side.key]
<1>1. job[p] \in JobType /\ JobOK(p, job[p], blobs, put, own) /\ job[p].pc = "sig"
    BY JobIs DEF PutSignature, Answered
<1>2. /\ Answered(p, "sig", next, "none")
      /\ sigs' = {s \in sigs : s.of # Man(p)} \cup {sig}
      /\ UNCHANGED <<blobs, tags, atts, put>>
    BY DEF PutSignature
<1>3. UNCHANGED <<ws, disk, account, reader, edits, own>>
    BY <1>2 DEF Answered
<1>4. /\ job[p].tar \in Tarball /\ job[p].tag \in Tags /\ Man(p) \in Manifest
      /\ job[p].side \in Sidecar /\ job[p].side.man = Man(p)
      /\ [key |-> job[p].side.key, layer |-> job[p].tar] \in own
      /\ [tag |-> job[p].tag, man |-> Man(p)] \in put
      /\ {Blob("payload", job[p].side.man), Blob("empty", None)} \subseteq blobs
    <2>1. job[p].tar \in Tarball /\ job[p].side \in Sidecar
        BY <1>1 DEF JobOK, Requests, Signing
    <2>2. Man(p) \in Manifest
        BY <2>1, ManifestOf DEF Man
    <2> QED
        BY <1>1, <2>1, <2>2 DEF JobOK, Requests, Pushed, Signing, Man
<1>5. next \in {"attest", "done"} /\ (next = "attest" => job[p].attest)
    OBVIOUS
<1> HIDE DEF next
<1>6. /\ sig \in Signature /\ sig.of = Man(p) /\ sig.payload = Man(p)
      /\ sig.key = job[p].side.key
    BY <1>4 DEF Signature, Sidecar
<1> HIDE DEF sig
<1>7. /\ j.pc = next /\ j.tar = job[p].tar /\ j.tag = job[p].tag /\ j.side = job[p].side
      /\ j.sign = job[p].sign /\ j.attest = job[p].attest
    BY <1>1 DEF JobType
<1>8. JobOK(p, j, blobs', put', own')
    <2> HIDE DEF j
    <2> QED
        BY <1>1, <1>2, <1>3, <1>5, <1>7 DEF JobOK, Pushed, Signing, Attesting, Requests
<1>9. job' \in [Publishers -> JobType] /\ Jobs' /\ faults' \in 0 .. MaxFaults
    BY <1>2, <1>3, <1>5, <1>8, AnsweredOK DEF Phases, Requests
<1>10. TypeOK'
    BY <1>2, <1>3, <1>6, <1>9 DEF RegInv, TypeOK
<1>11. TagsResolve'
    BY <1>2, <1>4, <1>6 DEF RegInv, TagsResolve
<1>12. SidecarsFollow'
    BY <1>2, <1>4, <1>6 DEF RegInv, SidecarsFollow
<1>13. DiskOK'
    BY <1>3 DEF RegInv, DiskOK
<1>14. SignedByItsPublisher'
    <2>1. [key |-> sig.key, layer |-> sig.payload.layer] \in own
        BY <1>4, <1>6 DEF Man, PublishDigests
    <2> QED
        BY <1>2, <1>3, <1>6, <2>1 DEF RegInv, SignedByItsPublisher
<1> QED
    BY <1>9, <1>10, <1>11, <1>12, <1>13, <1>14 DEF RegInv

LEMMA PutAttestationOK ==
    ASSUME RegInv, NEW p \in Publishers, PutAttestation(p)
    PROVE  RegInv'
<1> DEFINE j == [job[p] EXCEPT !.pc = "done", !.token = "none", !.tried = FALSE]
           env == job[p].env
<1>1. job[p] \in JobType /\ JobOK(p, job[p], blobs, put, own) /\ job[p].pc = "att"
    BY JobIs DEF PutAttestation, Answered
<1>2. /\ Answered(p, "att", "done", "none")
      /\ atts' = {a \in atts : a.of # Man(p)} \cup {env}
      /\ UNCHANGED <<blobs, tags, sigs, put>>
    BY DEF PutAttestation
<1>3. UNCHANGED <<ws, disk, account, reader, edits, own>>
    BY <1>2 DEF Answered
<1>4. /\ env \in Attestation /\ env.of = Man(p) /\ env.subject = Man(p) /\ env.key = KeyOf[p]
      /\ [key |-> KeyOf[p], layer |-> job[p].tar] \in own
      /\ [tag |-> job[p].tag, man |-> Man(p)] \in put
      /\ {Blob("envelope", env), Blob("empty", None)} \subseteq blobs
    BY <1>1 DEF JobOK, Requests, Pushed, Attesting, Man
<1> HIDE DEF env
<1>5. /\ j.pc = "done" /\ j.tar = job[p].tar /\ j.tag = job[p].tag /\ j.side = job[p].side
      /\ j.sign = job[p].sign /\ j.attest = job[p].attest
    BY <1>1 DEF JobType
<1>6. JobOK(p, j, blobs', put', own')
    <2> HIDE DEF j
    <2> QED
        BY <1>1, <1>2, <1>3, <1>5 DEF JobOK, Pushed, Signing, Attesting, Requests
<1>7. job' \in [Publishers -> JobType] /\ Jobs' /\ faults' \in 0 .. MaxFaults
    BY <1>2, <1>3, <1>6, AnsweredOK DEF Phases, Requests
<1>8. TypeOK'
    BY <1>2, <1>3, <1>4, <1>7 DEF RegInv, TypeOK
<1>9. TagsResolve'
    BY <1>2, <1>4 DEF RegInv, TagsResolve
<1>10. SidecarsFollow'
    BY <1>2, <1>4 DEF RegInv, SidecarsFollow
<1>11. DiskOK'
    BY <1>3 DEF RegInv, DiskOK
<1>12. SignedByItsPublisher'
    <2>1. [key |-> env.key, layer |-> env.subject.layer] \in own
        BY <1>4 DEF Man, PublishDigests
    <2> QED
        BY <1>2, <1>3, <2>1 DEF RegInv, SignedByItsPublisher
<1> QED
    BY <1>7, <1>8, <1>9, <1>10, <1>11, <1>12 DEF RegInv

LEMMA StartPublishOK ==
    ASSUME RegInv, NEW p \in Publishers, NEW t \in Tags, StartPublish(p, t)
    PROVE  RegInv'
<1>1. PICK sign \in BOOLEAN, attest \in BOOLEAN :
        /\ attest => sign
        /\ sign => MaySign(p)
        /\ SetJob(p, [NoJob EXCEPT !.pc = "pack", !.tag = t, !.deps = Vendored(p),
                               !.sign = sign, !.attest = attest])
    BY DEF StartPublish
<1>2. UNCHANGED <<ws, disk, registry, account, reader, faults, edits, own>>
    BY DEF StartPublish
<1> DEFINE deps == Vendored(p)
           j == [NoJob EXCEPT !.pc = "pack", !.tag = t, !.deps = deps,
                              !.sign = sign, !.attest = attest]
<1>3. deps \in Locks \cup {None}
    BY DEF RegInv, TypeOK, Workspace, Vendored
<1>4. SetJob(p, j)
    BY <1>1
<1> HIDE DEF deps
<1>5. j \in JobType
    BY <1>3 DEF NoJob, JobType, Phases
<1>6. /\ j.pc = "pack" /\ j.tag = t /\ j.side = None /\ j.sign = sign /\ j.attest = attest
    BY DEF NoJob
<1>7. sign => KeyOf[p] \in Keys
    BY <1>1, RegistryAssumption DEF MaySign
<1> HIDE DEF j
<1>8. JobOK(p, j, blobs, put, own)
    BY <1>1, <1>6, <1>7 DEF JobOK, Pushed, Signing, Attesting, Requests
<1>9. job' \in [Publishers -> JobType] /\ Jobs'
    BY <1>2, <1>4, <1>5, <1>8, OneJob DEF registry
<1> QED
    BY <1>2, <1>9, OnlyJob, FaultsCount DEF registry, RegInv, TypeOK

LEMMA StartPushOK ==
    ASSUME RegInv, NEW p \in Publishers, NEW t \in Tags, StartPush(p, t)
    PROVE  RegInv'
<1>1. /\ UNCHANGED <<ws, disk, registry, account, reader, faults, edits, own>>
      /\ faults' \in 0 .. MaxFaults
    BY FaultsCount DEF StartPush
<1>2. disk.tar \in Tarball /\ disk.side \in Sidecar \cup {None}
    BY DEF StartPush, RegInv, TypeOK
<1>3. CASE SetJob(p, [NoJob EXCEPT !.pc = "layer", !.tag = t, !.tar = disk.tar])
    <2> DEFINE j == [NoJob EXCEPT !.pc = "layer", !.tag = t, !.tar = disk.tar]
    <2>1. j \in JobType
        BY <1>2 DEF NoJob, JobType, Phases, Requests
    <2>2. /\ j.pc = "layer" /\ j.tag = t /\ j.tar = disk.tar /\ j.side = None
          /\ j.sign = FALSE /\ j.attest = FALSE
        BY DEF NoJob
    <2>3. SetJob(p, j)
        BY <1>3
    <2> HIDE DEF j
    <2>4. JobOK(p, j, blobs, put, own)
        BY <1>2, <2>2 DEF JobOK, Pushed, Signing, Attesting, Requests
    <2>5. job' \in [Publishers -> JobType] /\ Jobs'
        BY <1>1, <2>1, <2>3, <2>4, OneJob DEF registry
    <2> QED
        BY <1>1, <2>5, OnlyJob DEF registry, RegInv, TypeOK
<1>4. CASE /\ disk.side # None /\ SidecarFits(p, t)
           /\ SetJob(p, [NoJob EXCEPT !.pc = "layer", !.tag = t, !.tar = disk.tar,
                               !.side = disk.side])
    <2> DEFINE j == [NoJob EXCEPT !.pc = "layer", !.tag = t, !.tar = disk.tar, !.side = disk.side]
    <2>1. j \in JobType
        BY <1>2 DEF NoJob, JobType, Phases, Requests
    <2>2. /\ j.pc = "layer" /\ j.tag = t /\ j.tar = disk.tar /\ j.side = disk.side
          /\ j.sign = FALSE /\ j.attest = FALSE
        BY DEF NoJob
    <2>3. SetJob(p, j)
        BY <1>4
    <2>4. disk.side.man = PublishDigests(p, disk.tar) /\ disk.side.man.layer = disk.tar
        BY <1>4 DEF SidecarFits, PublishDigests
    <2>5. [key |-> disk.side.key, layer |-> disk.tar] \in own
        BY <1>4, <2>4 DEF RegInv, DiskOK
    <2> HIDE DEF j
    <2>6. JobOK(p, j, blobs, put, own)
        BY <1>2, <2>2, <2>4, <2>5 DEF JobOK, Pushed, Signing, Attesting, Requests
    <2>7. job' \in [Publishers -> JobType] /\ Jobs'
        BY <1>1, <2>1, <2>3, <2>6, OneJob DEF registry
    <2> QED
        BY <1>1, <2>7, OnlyJob DEF registry, RegInv, TypeOK
<1> QED
    BY <1>1, <1>3, <1>4, FailureOK DEF StartPush

LEMMA RerunOK ==
    ASSUME RegInv, NEW p \in Publishers, Rerun(p)
    PROVE  RegInv'
<1>1. NoJob \in JobType /\ JobOK(p, NoJob, blobs, put, own)
    BY DEF NoJob, JobType, Phases, JobOK, Pushed, Signing, Attesting, Requests
<1>2. UNCHANGED <<ws, disk, registry, account, reader, faults, edits, own>> /\ SetJob(p, NoJob)
    BY DEF Rerun
<1>3. job' \in [Publishers -> JobType] /\ Jobs'
    BY <1>1, <1>2, OneJob DEF registry
<1> QED
    BY <1>2, <1>3, OnlyJob, FaultsCount DEF registry, RegInv, TypeOK

LEMMA LoseOK ==
    ASSUME RegInv, NEW p \in Publishers, Lose(p)
    PROVE  RegInv'
BY FailureOK, FaultsCount DEF Lose

(* The steps on the developer's disk.                                      *)
LEMMA DiskStepsOK ==
    ASSUME RegInv, NEW p \in Publishers,
           Edit(p) \/ Pack(p) \/ \E t \in Tags : Sign(p, t)
    PROVE  RegInv'
<1>1. UNCHANGED <<registry, account, job, reader, faults>>
    BY DEF Edit, Pack, Sign
<1>2. own \subseteq own' /\ own' \subseteq [key : Keys, layer : Tarball] /\ DiskOK'
      /\ ws' \in [Publishers -> Workspace] /\ edits' \in 0 .. MaxEdits
      /\ disk' \in [tar : Tarball \cup {None}, side : Sidecar \cup {None}]
    <2>1. CASE Edit(p)
        BY <2>1, RegistryAssumption DEF Edit, RegInv, TypeOK, DiskOK
    <2>2. CASE Pack(p)
        <3>1. Snapshot(p, Vendored(p)) \in Tarball
            BY DEF RegInv, TypeOK, Workspace, Snapshot, Tarball, Vendored
        <3>2. disk' = [disk EXCEPT !.tar = Snapshot(p, Vendored(p))]
            BY <2>2 DEF Pack
        <3>3. disk' \in [tar : Tarball \cup {None}, side : Sidecar \cup {None}] /\ disk'.side = disk.side
            BY <3>1, <3>2 DEF RegInv, TypeOK
        <3> QED
            BY <2>2, <3>3 DEF Pack, RegInv, TypeOK, DiskOK
    <2>3. ASSUME NEW t \in Tags, Sign(p, t)
          PROVE  /\ own \subseteq own' /\ own' \subseteq [key : Keys, layer : Tarball] /\ DiskOK'
                 /\ ws' \in [Publishers -> Workspace] /\ edits' \in 0 .. MaxEdits
                 /\ disk' \in [tar : Tarball \cup {None}, side : Sidecar \cup {None}]
        <3> DEFINE side == [tag |-> t, man |-> PublishDigests(p, disk.tar), key |-> KeyOf[p]]
        <3>1. disk.tar \in Tarball /\ KeyOf[p] \in Keys
            BY <2>3, RegistryAssumption DEF Sign, RegInv, TypeOK
        <3>2. /\ side \in Sidecar /\ side.key = KeyOf[p] /\ side.man.layer = disk.tar
            BY <3>1, ManifestOf DEF Sidecar, PublishDigests
        <3>3. /\ disk' = [disk EXCEPT !.side = side]
              /\ own' = own \cup {[key |-> KeyOf[p], layer |-> disk.tar]}
              /\ UNCHANGED <<ws, edits>>
            BY <2>3 DEF Sign
        <3> HIDE DEF side
        <3>4. disk' \in [tar : Tarball \cup {None}, side : Sidecar \cup {None}] /\ disk'.side = side
            BY <3>2, <3>3 DEF RegInv, TypeOK
        <3>5. DiskOK'
            BY <3>2, <3>3, <3>4 DEF DiskOK
        <3> QED
            BY <3>1, <3>3, <3>4, <3>5 DEF RegInv, TypeOK
    <2> QED
        BY <2>1, <2>2, <2>3
<1>3. Jobs'
    <2> SUFFICES ASSUME NEW q \in Publishers PROVE JobOK(q, job'[q], blobs', put', own')
        BY DEF Jobs
    <2> QED
        BY <1>1, <1>2, JobGrows DEF RegInv, Jobs, registry
<1>4. Kept'
    BY <1>1, <1>2, RegistryGrows DEF RegInv, Kept, registry
<1>5. TypeOK'
    BY <1>1, <1>2 DEF RegInv, TypeOK, registry
<1> QED
    BY <1>2, <1>3, <1>4, <1>5 DEF RegInv, Kept

-----------------------------------------------------------------------------
(* The steps of a reader                                                   *)

(* A reader j has asked for a tag, then holds its manifest, and what it    *)
(* accepts under a pin is the pinned archive.                              *)
ReadOK(j) ==
    /\ j.pc = "manifest" => j.tag \in Tags
    /\ j.pc \in {"signature", "blob"} => j.man \in Manifest
    /\ j.pc = "accepted" /\ j.pinned => j.got = j.pin

Reads == \A r \in Readers : ReadOK(reader[r])

LEMMA ReaderIs ==
    ASSUME RegInv, Reads, NEW r \in Readers
    PROVE  reader[r] \in ReaderType /\ ReadOK(reader[r])
BY DEF RegInv, TypeOK, Reads

(* A reader changes nothing but its own record.                            *)
LEMMA OneReader ==
    ASSUME RegInv, Reads, NEW r \in Readers, NEW j \in ReaderType, ReadOK(j), SetReader(r, j),
           UNCHANGED <<ws, disk, registry, account, job, faults, edits, own>>
    PROVE  RegInv' /\ Reads'
<1>1. /\ reader' \in [Readers -> ReaderType]
      /\ \A q \in Readers : reader'[q] = IF q = r THEN j ELSE reader[q]
    BY DEF RegInv, TypeOK
<1>2. Reads'
    BY <1>1 DEF Reads
<1>3. TypeOK'
    BY <1>1 DEF RegInv, TypeOK, registry
<1>4. Jobs' /\ DiskOK'
    <2>1. Jobs'
        BY DEF RegInv, Jobs, registry
    <2> QED
        BY <2>1 DEF RegInv, DiskOK
<1>5. Kept'
    BY RegistryGrows DEF RegInv, Kept, registry
<1> QED
    BY <1>2, <1>3, <1>4, <1>5 DEF RegInv, Kept

LEMMA StartFetchOK ==
    ASSUME RegInv, Reads, NEW r \in Readers, NEW t \in Tags, StartFetch(r, t)
    PROVE  RegInv' /\ Reads'
<1>1. reader[r] \in ReaderType
    BY ReaderIs
<1>2. PICK keyed \in BOOLEAN, pinned \in BOOLEAN :
        \/ SetReader(r, [reader[r] EXCEPT !.pc = "accepted", !.tag = t, !.fetch = TRUE,
                            !.pinned = TRUE, !.keyed = keyed, !.got = reader[r].pin])
        \/ SetReader(r, [reader[r] EXCEPT !.pc = "manifest", !.tag = t, !.fetch = TRUE,
                            !.pinned = pinned, !.keyed = keyed])
    BY DEF StartFetch
<1> DEFINE cached == [reader[r] EXCEPT !.pc = "accepted", !.tag = t, !.fetch = TRUE,
                         !.pinned = TRUE, !.keyed = keyed, !.got = reader[r].pin]
           asked  == [reader[r] EXCEPT !.pc = "manifest", !.tag = t, !.fetch = TRUE,
                         !.pinned = pinned, !.keyed = keyed]
<1>3. cached \in ReaderType /\ ReadOK(cached)
    BY <1>1 DEF ReaderType, ReadOK
<1>4. asked \in ReaderType /\ ReadOK(asked)
    BY <1>1 DEF ReaderType, ReadOK
<1>5. SetReader(r, cached) \/ SetReader(r, asked)
    BY <1>2
<1>6. UNCHANGED <<ws, disk, registry, account, job, faults, edits, own>>
    BY DEF StartFetch
<1> HIDE DEF cached, asked
<1> QED
    BY <1>3, <1>4, <1>5, <1>6, OneReader

LEMMA GetManifestOK ==
    ASSUME RegInv, Reads, NEW r \in Readers, GetManifest(r)
    PROVE  RegInv' /\ Reads'
<1> DEFINE m == tags[reader[r].tag]
           none == [reader[r] EXCEPT !.pc = "refused"]
           pc == IF reader[r].keyed THEN "signature" ELSE "blob"
           some == [reader[r] EXCEPT !.man = m, !.pc = pc]
<1>1. /\ reader[r] \in ReaderType /\ reader[r].tag \in Tags
      /\ tags \in [Tags -> Manifest \cup {None}]
    BY ReaderIs DEF GetManifest, ReadOK, RegInv, TypeOK
<1>2. m \in Manifest \cup {None}
    BY <1>1
<1>3. /\ m = None => SetReader(r, none)
      /\ m # None => SetReader(r, some)
      /\ UNCHANGED <<ws, disk, registry, account, job, faults, edits, own>>
    BY DEF GetManifest
<1> HIDE DEF m
<1>4. none \in ReaderType /\ ReadOK(none)
    BY <1>1 DEF ReaderType, ReadOK
<1>5. m # None => some \in ReaderType /\ ReadOK(some)
    BY <1>1, <1>2 DEF ReaderType, ReadOK
<1> HIDE DEF none, some
<1> QED
    BY <1>3, <1>4, <1>5, OneReader

LEMMA GetBlobOK ==
    ASSUME RegInv, Reads, NEW r \in Readers, GetBlob(r)
    PROVE  RegInv' /\ Reads'
<1>1. /\ reader[r] \in ReaderType /\ reader[r].man \in Manifest
      /\ UNCHANGED <<ws, disk, registry, account, job, faults, edits, own>>
    BY ReaderIs DEF GetBlob, ReadOK
<1> DEFINE cached(tar) == IF reader[r].fetch THEN reader[r].cache \cup {tar} ELSE reader[r].cache
           taken(tar) == [reader[r] EXCEPT !.pc = "accepted", !.got = tar, !.cache = cached(tar)]
           refused == [reader[r] EXCEPT !.pc = "refused"]
<1>2. PICK tar \in Layers \cup {None} :
        IF Takes(r, tar) THEN SetReader(r, taken(tar)) ELSE SetReader(r, refused)
    BY <1>1 DEF GetBlob, ReaderType
<1>3. refused \in ReaderType /\ ReadOK(refused)
    BY <1>1 DEF ReaderType, ReadOK
<1>4. Takes(r, tar) => tar \in Tarball /\ (reader[r].pinned => tar = reader[r].pin)
    BY <1>1 DEF Takes, Manifest
<1>5. tar \in Tarball => cached(tar) \in SUBSET Tarball
    BY <1>1 DEF ReaderType
<1> HIDE DEF cached
<1>6. Takes(r, tar) => taken(tar) \in ReaderType /\ ReadOK(taken(tar))
    BY <1>1, <1>4, <1>5 DEF ReaderType, ReadOK
<1> HIDE DEF taken, refused
<1> QED
    BY <1>1, <1>2, <1>3, <1>6, OneReader

LEMMA ReadStepsOK ==
    ASSUME RegInv, Reads, NEW r \in Readers, Read(r)
    PROVE  RegInv' /\ Reads'
<1>1. reader[r] \in ReaderType /\ ReadOK(reader[r])
    BY ReaderIs
<1>2. ASSUME NEW t \in Tags, StartPull(r, t)
      PROVE  RegInv' /\ Reads'
    <2> DEFINE j == [reader[r] EXCEPT !.pc = "manifest", !.tag = t]
    <2>1. j \in ReaderType /\ ReadOK(j)
        BY <1>1 DEF ReaderType, ReadOK
    <2>2. SetReader(r, j) /\ UNCHANGED <<ws, disk, registry, account, job, faults, edits, own>>
        BY <1>2 DEF StartPull
    <2> HIDE DEF j
    <2> QED
        BY <2>1, <2>2, OneReader
<1>3. CASE GetSignature(r)
    <2> DEFINE pc == IF Verifies(reader[r].man) THEN "blob" ELSE "refused"
               j == [reader[r] EXCEPT !.pc = pc]
    <2>1. SetReader(r, j) /\ UNCHANGED <<ws, disk, registry, account, job, faults, edits, own>>
        BY <1>3 DEF GetSignature
    <2>2. pc \in {"blob", "refused"}
        OBVIOUS
    <2>3. reader[r].pc = "signature"
        BY <1>3 DEF GetSignature
    <2> HIDE DEF pc
    <2>4. j \in ReaderType /\ ReadOK(j)
        BY <1>1, <2>2, <2>3 DEF ReaderType, ReadOK
    <2> HIDE DEF j
    <2> QED
        BY <2>1, <2>4, OneReader
<1>4. CASE Finish(r)
    <2> DEFINE pin == IF reader[r].pc = "accepted" /\ reader[r].fetch
                      THEN reader[r].got ELSE reader[r].pin
               j == [NoRead EXCEPT !.cache = reader[r].cache, !.pin = pin]
    <2>1. SetReader(r, j) /\ UNCHANGED <<ws, disk, registry, account, job, faults, edits, own>>
        BY <1>4 DEF Finish
    <2>2. pin \in Tarball \cup {None} /\ reader[r].cache \in SUBSET Tarball
        BY <1>1 DEF ReaderType
    <2> HIDE DEF pin
    <2>3. j \in ReaderType /\ ReadOK(j)
        BY <2>2 DEF ReaderType, ReadOK, NoRead
    <2> HIDE DEF j
    <2> QED
        BY <2>1, <2>3, OneReader
<1>5. CASE ClearCache(r)
    <2> DEFINE j == [reader[r] EXCEPT !.cache = {}]
    <2>1. SetReader(r, j) /\ UNCHANGED <<ws, disk, registry, account, job, faults, edits, own>>
        BY <1>5 DEF ClearCache
    <2>2. j \in ReaderType /\ ReadOK(j)
        BY <1>1 DEF ReaderType, ReadOK
    <2> HIDE DEF j
    <2> QED
        BY <2>1, <2>2, OneReader
<1>6. CASE Verify(r)
    <2> DEFINE verdict == Verdict(reader[r].pin)
               j == [reader[r] EXCEPT !.verdict = verdict]
    <2>1. SetReader(r, j) /\ UNCHANGED <<ws, disk, registry, account, job, faults, edits, own>>
        BY <1>6 DEF Verify
    <2>2. verdict \in {"none", "missing", "invalid", "subject", "ok"}
        BY DEF Verdict
    <2> HIDE DEF verdict
    <2>3. j \in ReaderType /\ ReadOK(j)
        BY <1>1, <2>2 DEF ReaderType, ReadOK
    <2> HIDE DEF j
    <2> QED
        BY <2>1, <2>3, OneReader
<1> QED
    BY <1>2, <1>3, <1>4, <1>5, <1>6, StartFetchOK, GetManifestOK, GetBlobOK DEF Read

-----------------------------------------------------------------------------
(* The invariant                                                           *)

LEMMA InitReg == Init => RegInv /\ Reads
<1> SUFFICES ASSUME Init PROVE RegInv /\ Reads
    OBVIOUS
<1>1. NoJob \in JobType /\ NoJob.pc = "idle" /\ NoJob.side = None
      /\ NoJob.sign = FALSE /\ NoJob.attest = FALSE
    BY DEF NoJob, JobType, Phases
<1>2. NoRead \in ReaderType /\ NoRead.pc = "idle"
    BY DEF NoRead, ReaderType
<1>3. TypeOK
    <2>1. /\ job \in [Publishers -> JobType] /\ reader \in [Readers -> ReaderType]
          /\ tags \in [Tags -> Manifest \cup {None}]
        BY <1>1, <1>2 DEF Init
    <2>2. faults \in 0 .. MaxFaults /\ edits \in 0 .. MaxEdits
        BY RegistryAssumption DEF Init
    <2>3. disk \in [tar : Tarball \cup {None}, side : Sidecar \cup {None}]
        BY DEF Init
    <2> QED
        BY <2>1, <2>2, <2>3, RegistryAssumption DEF Init, TypeOK
<1>4. Jobs
    <2>1. \A p, B, P, O : JobOK(p, NoJob, B, P, O)
        BY <1>1 DEF JobOK, Pushed, Signing, Attesting, Requests
    <2> QED
        BY <2>1 DEF Jobs, Init
<1>5. Reads
    BY <1>2 DEF Init, Reads, ReadOK
<1>6. DiskOK /\ Kept
    BY DEF Init, DiskOK, Kept, TagsResolve, SidecarsFollow, SignedByItsPublisher
<1> QED
    BY <1>3, <1>4, <1>5, <1>6 DEF RegInv, Kept

(* A publisher's steps leave the readers alone.                            *)
LEMMA PublishStepsOK ==
    ASSUME RegInv, Reads, NEW p \in Publishers, Publish(p)
    PROVE  RegInv' /\ Reads'
<1>1. RegInv'
    <2>1. CASE Step(p)
        BY <2>1, PackToPublishOK, SignPublishedOK, AttestPublishedOK, AuthStepsOK, UploadsOK,
           PutManifestOK, PutSignatureOK, PutAttestationOK DEF Step
    <2>2. CASE \E t \in Tags : StartPublish(p, t) \/ StartPush(p, t) \/ Sign(p, t)
        BY <2>2, StartPublishOK, StartPushOK, DiskStepsOK
    <2>3. CASE Edit(p) \/ Pack(p) \/ Expire(p) \/ Lose(p) \/ Rerun(p)
        BY <2>3, DiskStepsOK, AuthStepsOK, LoseOK, RerunOK
    <2> QED
        BY <2>1, <2>2, <2>3 DEF Publish
<1>2. reader' = reader
    BY DEF Publish, Step, PackToPublish, SignPublished, AttestPublished, FetchToken, AuthRequired,
           UploadLayer, UploadConfig, PutManifest, UploadPayload, UploadSigConfig, PutSignature,
           UploadEnvelope, UploadAttConfig, PutAttestation, Upload, Answered, StartPublish,
           StartPush, Sign, Edit, Pack, Expire, Lose, Rerun
<1> QED
    BY <1>1, <1>2 DEF Reads

LEMMA RegNext ==
    ASSUME RegInv, Reads, [Next]_vars
    PROVE  RegInv' /\ Reads'
<1>1. CASE Revoke
    <2>1. /\ account' = FALSE
          /\ UNCHANGED <<ws, disk, registry, job, reader, faults, edits, own>>
        BY <1>1 DEF Revoke
    <2>2. TypeOK'
        BY <2>1 DEF RegInv, TypeOK, registry
    <2>3. Kept'
        BY <2>1, RegistryGrows DEF RegInv, Kept, registry
    <2>4. Jobs' /\ DiskOK' /\ Reads'
        BY <2>1 DEF RegInv, Jobs, DiskOK, Reads, registry
    <2> QED
        BY <2>2, <2>3, <2>4 DEF RegInv, Kept
<1>2. CASE UNCHANGED vars
    <2>1. UNCHANGED <<ws, disk, registry, account, job, reader, faults, edits, own>>
        BY <1>2 DEF vars
    <2>2. TypeOK'
        BY <2>1 DEF RegInv, TypeOK, registry
    <2>3. Kept'
        BY <2>1, RegistryGrows DEF RegInv, Kept, registry
    <2>4. Jobs' /\ DiskOK' /\ Reads'
        BY <2>1 DEF RegInv, Jobs, DiskOK, Reads, registry
    <2> QED
        BY <2>2, <2>3, <2>4 DEF RegInv, Kept
<1> QED
    BY <1>1, <1>2, PublishStepsOK, ReadStepsOK DEF Next

LEMMA RegInvariant == Spec => [](RegInv /\ Reads)
<1>1. RegInv /\ Reads /\ [Next]_vars => (RegInv /\ Reads)'
    BY RegNext
<1> QED
    BY InitReg, <1>1, PTL DEF Spec

(* Whatever is lost, and whoever else publishes, no state has a value      *)
(* outside its type.                                                       *)
THEOREM RegistryTypeCorrect == Spec => []TypeOK
<1>1. RegInv => TypeOK
    BY DEF RegInv
<1> QED
    BY RegInvariant, <1>1, PTL

(* No tag, .sig or .att is ever ahead of the blobs it names: push_* sends  *)
(* the manifest last and stops at the first request that fails.            *)
THEOREM TagsAlwaysResolve == Spec => []TagsResolve
<1>1. RegInv => TagsResolve
    BY DEF RegInv
<1> QED
    BY RegInvariant, <1>1, PTL

(* No .sig or .att is there before the manifest it belongs to: publish     *)
(* signs and attests only what push has reported.                          *)
THEOREM SidecarsAreLate == Spec => []SidecarsFollow
<1>1. RegInv => SidecarsFollow
    BY DEF RegInv
<1> QED
    BY RegInvariant, <1>1, PTL

(* A signature is about the manifest it is found under, and of an archive  *)
(* its key's holder made, whichever host signed it and wherever the tag    *)
(* moved: publish signs the digest of its own push, and push compares the  *)
(* sidecar's digest with the one it is about to put.                       *)
THEOREM SignaturesAreOwn == Spec => []SignedByItsPublisher
<1>1. RegInv => SignedByItsPublisher
    BY DEF RegInv
<1> QED
    BY RegInvariant, <1>1, PTL

(* A fetch held to a pin never accepts anything else, from the cache or    *)
(* over the network, however the tag moves between its requests.           *)
THEOREM PinsHold == Spec => []PinnedOrRefused
<1>1. Reads => PinnedOrRefused
    BY DEF Reads, ReadOK, PinnedOrRefused
<1> QED
    BY RegInvariant, <1>1, PTL

-----------------------------------------------------------------------------
(* Authorization                                                           *)

(* A publisher that has asked for a token for its request and is refused   *)
(* has seen that token expire.                                             *)
AuthOK(j) == j.tried /\ j.token # "live" => j.raced

Auths == \A p \in Publishers : AuthOK(job[p])

(* A step that fails for want of authorization has grounds to.             *)
Earned ==
    \A p \in Publishers : job[p].why # "auth" /\ job'[p].why = "auth" =>
        ~account \/ job[p].raced \/ job[p].pc \notin Readable

LEMMA OneAuth ==
    ASSUME RegInv, Auths, NEW p \in Publishers, NEW j, SetJob(p, j), AuthOK(j),
           j.why = "auth" =>
               job[p].why = "auth" \/ ~account \/ job[p].raced \/ job[p].pc \notin Readable
    PROVE  Auths' /\ Earned
BY DEF RegInv, TypeOK, Auths, Earned

LEMMA FailedAuth ==
    ASSUME RegInv, Auths, NEW p \in Publishers, NEW why, Fail(p, why),
           why = "auth" => ~account \/ job[p].raced \/ job[p].pc \notin Readable
    PROVE  Auths' /\ Earned
<1> DEFINE j == [NoJob EXCEPT !.pc = "failed", !.why = why]
<1>1. SetJob(p, j)
    BY DEF Fail
<1>2. j.tried = FALSE /\ j.why = why
    BY DEF NoJob
<1> HIDE DEF j
<1>3. AuthOK(j)
    BY <1>2 DEF AuthOK
<1> QED
    BY <1>1, <1>2, <1>3, OneAuth

LEMMA AnsweredAuth ==
    ASSUME RegInv, Auths, NEW p \in Publishers, NEW at, NEW next, NEW token,
           Answered(p, at, next, token)
    PROVE  Auths' /\ Earned
<1> DEFINE j == [job[p] EXCEPT !.pc = next, !.token = token, !.tried = FALSE]
<1>1. SetJob(p, j) \/ Fail(p, "lost")
    BY DEF Answered
<1>2. job[p] \in JobType /\ AuthOK(job[p])
    BY DEF RegInv, TypeOK, Auths
<1>3. j.tried = FALSE /\ j.why = job[p].why /\ j.raced = job[p].raced
    BY <1>2 DEF JobType
<1> HIDE DEF j
<1>4. AuthOK(j)
    BY <1>2, <1>3 DEF AuthOK
<1> QED
    BY <1>1, <1>3, <1>4, OneAuth, FailedAuth

(* The steps of a publisher that move its phase and keep its token.        *)
LEMMA MovedAuth ==
    ASSUME RegInv, Auths, NEW p \in Publishers,
           \/ PackToPublish(p) \/ SignPublished(p) \/ AttestPublished(p)
    PROVE  Auths' /\ Earned
<1>1. job[p] \in JobType /\ AuthOK(job[p])
    BY DEF RegInv, TypeOK, Auths
<1>2. PICK j : /\ SetJob(p, j) \/ Fail(p, "key")
               /\ j.tried = job[p].tried /\ j.token = job[p].token
               /\ j.why = job[p].why /\ j.raced = job[p].raced
    <2>1. CASE PackToPublish(p)
        <3> DEFINE j == [job[p] EXCEPT !.pc = "layer", !.tar = Snapshot(p, job[p].deps)]
        <3>1. SetJob(p, j)
            BY <2>1 DEF PackToPublish
        <3>2. /\ j.tried = job[p].tried /\ j.token = job[p].token
              /\ j.why = job[p].why /\ j.raced = job[p].raced
            BY <1>1 DEF JobType
        <3> QED
            BY <3>1, <3>2
    <2>2. CASE SignPublished(p)
        <3> DEFINE side == [tag |-> job[p].tag, man |-> Subject(p), key |-> KeyOf[p]]
                   j == [job[p] EXCEPT !.pc = "payload", !.side = side]
        <3>1. SetJob(p, j) \/ Fail(p, "key")
            BY <2>2 DEF SignPublished
        <3>2. /\ j.tried = job[p].tried /\ j.token = job[p].token
              /\ j.why = job[p].why /\ j.raced = job[p].raced
            BY <1>1 DEF JobType
        <3> QED
            BY <3>1, <3>2
    <2>3. CASE AttestPublished(p)
        <3> DEFINE env == [of |-> Man(p), subject |-> Subject(p), materials |-> ws[p].lock,
                           key |-> KeyOf[p]]
                   j == [job[p] EXCEPT !.pc = "envelope", !.env = env]
        <3>1. SetJob(p, j)
            BY <2>3 DEF AttestPublished
        <3>2. /\ j.tried = job[p].tried /\ j.token = job[p].token
              /\ j.why = job[p].why /\ j.raced = job[p].raced
            BY <1>1 DEF JobType
        <3> QED
            BY <3>1, <3>2
    <2> QED
        BY <2>1, <2>2, <2>3
<1>3. AuthOK(j)
    BY <1>1, <1>2 DEF AuthOK
<1> QED
    BY <1>1, <1>2, <1>3, OneAuth, FailedAuth

LEMMA TokenAuth ==
    ASSUME RegInv, Auths, NEW p \in Publishers, FetchToken(p) \/ AuthRequired(p) \/ Expire(p)
    PROVE  Auths' /\ Earned
<1>1. job[p] \in JobType /\ AuthOK(job[p])
    BY DEF RegInv, TypeOK, Auths
<1>2. CASE FetchToken(p)
    <2> DEFINE j == [job[p] EXCEPT !.token = "live", !.tried = TRUE]
    <2>1. (account /\ SetJob(p, j)) \/ (~account /\ Fail(p, "auth"))
        BY <1>2 DEF FetchToken
    <2>2. j.token = "live" /\ j.why = job[p].why /\ j.raced = job[p].raced
        BY <1>1 DEF JobType
    <2> HIDE DEF j
    <2>3. AuthOK(j)
        BY <1>1, <2>2 DEF AuthOK
    <2> QED
        BY <1>1, <2>1, <2>2, <2>3, OneAuth, FailedAuth
<1>3. CASE AuthRequired(p)
    <2>1. (job[p].raced \/ job[p].pc \notin Readable) /\ Fail(p, "auth")
        BY <1>1, <1>3 DEF AuthRequired, Accepted, AuthOK
    <2> QED
        BY <1>1, <2>1, FailedAuth
<1>4. CASE Expire(p)
    <2> DEFINE raced == job[p].raced \/ job[p].tried
               j == [job[p] EXCEPT !.token = "stale", !.raced = raced]
    <2>1. SetJob(p, j)
        BY <1>4 DEF Expire
    <2>2. j.tried = job[p].tried /\ j.why = job[p].why /\ j.raced = raced
        BY <1>1 DEF JobType
    <2> HIDE DEF j
    <2>3. AuthOK(j)
        BY <1>1, <2>2 DEF AuthOK
    <2> QED
        BY <1>1, <2>1, <2>2, <2>3, OneAuth
<1> QED
    BY <1>2, <1>3, <1>4

LEMMA StartedAuth ==
    ASSUME RegInv, Auths, NEW p \in Publishers,
           \/ \E t \in Tags : StartPublish(p, t) \/ StartPush(p, t)
           \/ Rerun(p) \/ Lose(p)
    PROVE  Auths' /\ Earned
<1>2. PICK j : /\ SetJob(p, j) \/ Fail(p, "sidecar") \/ Fail(p, "lost")
               /\ j.tried = FALSE /\ j.why = "none"
    <2>1. NoJob.tried = FALSE /\ NoJob.why = "none"
        BY DEF NoJob
    <2>2. ASSUME NEW t \in Tags, StartPublish(p, t)
          PROVE  \E j : SetJob(p, j) /\ j.tried = FALSE /\ j.why = "none"
        <3>1. PICK sign \in BOOLEAN, attest \in BOOLEAN :
                SetJob(p, [NoJob EXCEPT !.pc = "pack", !.tag = t, !.deps = Vendored(p),
                                  !.sign = sign, !.attest = attest])
            BY <2>2 DEF StartPublish
        <3> DEFINE j == [NoJob EXCEPT !.pc = "pack", !.tag = t, !.deps = Vendored(p),
                                !.sign = sign, !.attest = attest]
        <3>2. j.tried = FALSE /\ j.why = "none"
            BY DEF NoJob
        <3> QED
            BY <3>1, <3>2
    <2>3. ASSUME NEW t \in Tags, StartPush(p, t)
          PROVE  \E j : /\ SetJob(p, j) \/ Fail(p, "sidecar")
                        /\ j.tried = FALSE /\ j.why = "none"
        <3> DEFINE bare == [NoJob EXCEPT !.pc = "layer", !.tag = t, !.tar = disk.tar]
                   signed == [NoJob EXCEPT !.pc = "layer", !.tag = t, !.tar = disk.tar,
                                     !.side = disk.side]
        <3>1. SetJob(p, bare) \/ SetJob(p, signed) \/ Fail(p, "sidecar")
            BY <2>3 DEF StartPush
        <3>2. /\ bare.tried = FALSE /\ bare.why = "none"
              /\ signed.tried = FALSE /\ signed.why = "none"
            BY DEF NoJob
        <3> HIDE DEF bare, signed
        <3> QED
            BY <2>1, <3>1, <3>2
    <2>4. CASE Rerun(p)
        BY <2>1, <2>4 DEF Rerun
    <2>5. CASE Lose(p)
        BY <2>1, <2>5 DEF Lose
    <2> QED
        BY <2>2, <2>3, <2>4, <2>5
<1>3. AuthOK(j)
    BY <1>2 DEF AuthOK
<1> QED
    BY <1>2, <1>3, OneAuth, FailedAuth

LEMMA AuthNext ==
    ASSUME RegInv, Auths, [Next]_vars
    PROVE  Auths' /\ Earned
<1>1. ASSUME NEW p \in Publishers, Publish(p)
      PROVE  Auths' /\ Earned
    <2>1. CASE \E t \in Tags : Sign(p, t)
        BY <2>1 DEF Sign, Auths, Earned
    <2>2. CASE Edit(p) \/ Pack(p)
        BY <2>2 DEF Edit, Pack, Auths, Earned
    <2>3. CASE Step(p)
        BY <2>3, AnsweredAuth, MovedAuth, TokenAuth
        DEF Step, UploadLayer, UploadConfig, UploadPayload, UploadSigConfig, UploadEnvelope,
            UploadAttConfig, Upload, PutManifest, PutSignature, PutAttestation
    <2> QED
        BY <1>1, <2>1, <2>2, <2>3, StartedAuth, TokenAuth DEF Publish
<1>2. ASSUME NEW r \in Readers, Read(r)
      PROVE  Auths' /\ Earned
    <2>1. UNCHANGED job
        BY <1>2 DEF Read, StartFetch, StartPull, GetManifest, GetSignature, GetBlob, Finish,
                    ClearCache, Verify
    <2> QED
        BY <2>1 DEF Auths, Earned
<1>3. CASE Revoke
    BY <1>3 DEF Revoke, Auths, Earned
<1>4. CASE UNCHANGED vars
    BY <1>4 DEF vars, Auths, Earned
<1> QED
    BY <1>1, <1>2, <1>3, <1>4 DEF Next

(* Publishing is refused for want of authorization only when the account   *)
(* is, a token expires between its issue and its one use, or the challenge *)
(* cannot be read: the retry of send_with_auth makes every other expiry    *)
(* good.                                                                   *)
THEOREM AuthFailures == Spec => AuthFailureIsEarned
<1>1. Init => Auths
    <2>1. NoJob.tried = FALSE
        BY DEF NoJob
    <2> QED
        BY <2>1 DEF Init, Auths, AuthOK
<1>2. (RegInv /\ Reads) /\ Auths /\ [Next]_vars => Auths' /\ [Earned]_vars
    BY AuthNext
<1>3. [][Earned]_vars => AuthFailureIsEarned
    BY PTL DEF Earned, AuthFailureIsEarned
<1> QED
    BY RegInvariant, <1>1, <1>2, <1>3, PTL DEF Spec

-----------------------------------------------------------------------------
(* Where every signer holds the trusted key                                *)

(* A .sig or .att is replaced, never removed: a manifest once signed or    *)
(* attested stays so.                                                      *)
Signed   == {s.of : s \in sigs}
Attested == {a.of : a \in atts}

(* A publisher past its signature has one at the registry, and ends with   *)
(* the attestation it was to make.                                         *)
Late == {"attest", "done"} \cup Attesting

DoneOK(p, j, S, A) ==
    /\ j.pc \in Late /\ (j.sign \/ j.side # None) => PublishDigests(p, j.tar) \in S
    /\ j.pc = "done" /\ j.attest => PublishDigests(p, j.tar) \in A

(* A reader that has a manifest found it at the tag, and with a public key *)
(* asks for the archive only when it is signed.                            *)
ServedOK(j, P, S) ==
    /\ j.pc \in {"idle", "manifest"} => j.man = None
    /\ j.man # None =>
         /\ [tag |-> j.tag, man |-> j.man] \in P
         /\ j.keyed /\ j.pc \in {"blob", "accepted"} => j.man \in S
         /\ j.pc = "accepted" => j.got = j.man.layer

Dones  == \A p \in Publishers : DoneOK(p, job[p], Signed, Attested)
Serves == \A r \in Readers : ServedOK(reader[r], put, Signed)

Sound ==
    /\ \A o \in own : o.key \in {KeyOf[p] : p \in Publishers}
    /\ \A t \in Tags : tags[t] # None => [tag |-> t, man |-> tags[t]] \in put
    /\ \A a \in atts : a.subject = a.of

(* What a step does to the registry.                                       *)
LEMMA RegistryMoves ==
    ASSUME RegInv, Reads, Sound, [Next]_vars
    PROVE  /\ put \subseteq put' /\ Signed \subseteq Signed' /\ Attested \subseteq Attested'
           /\ Sound'
<1> DEFINE Grown == /\ put \subseteq put' /\ Signed \subseteq Signed'
                    /\ Attested \subseteq Attested'
<1>1. CASE UNCHANGED <<tags, sigs, atts, put, own>>
    BY <1>1 DEF Signed, Attested, Sound
<1>2. ASSUME NEW p \in Publishers, PackToPublish(p) \/ \E t \in Tags : Sign(p, t)
      PROVE  Grown /\ Sound'
    <2>1. UNCHANGED <<tags, sigs, atts, put>>
        BY <1>2 DEF PackToPublish, Sign, registry
    <2>2. \A o \in own' : o \in own \/ o.key = KeyOf[p]
        BY <1>2 DEF PackToPublish, Sign
    <2> QED
        BY <2>1, <2>2 DEF Signed, Attested, Sound
<1>3. ASSUME NEW p \in Publishers, PutManifest(p)
      PROVE  Grown /\ Sound'
    <2>1. /\ tags' = [tags EXCEPT ![job[p].tag] = Man(p)]
          /\ put' = put \cup {[tag |-> job[p].tag, man |-> Man(p)]}
          /\ UNCHANGED <<sigs, atts, own>>
        BY <1>3 DEF PutManifest, Answered
    <2>2. \A t \in Tags : tags'[t] = IF t = job[p].tag THEN Man(p) ELSE tags[t]
        BY <2>1 DEF RegInv, TypeOK
    <2> QED
        BY <2>1, <2>2 DEF Signed, Attested, Sound
<1>4. ASSUME NEW p \in Publishers, PutSignature(p)
      PROVE  Grown /\ Sound'
    <2> DEFINE sig == [of |-> Man(p), payload |-> job[p].side.man, key |-> job[p].side.key]
    <2>1. /\ sigs' = {s \in sigs : s.of # Man(p)} \cup {sig}
          /\ UNCHANGED <<tags, atts, put, own>>
        BY <1>4 DEF PutSignature, Answered
    <2>2. sig.of = Man(p)
        OBVIOUS
    <2> HIDE DEF sig
    <2>3. Signed \subseteq Signed'
        BY <2>1, <2>2 DEF Signed
    <2> QED
        BY <2>1, <2>3 DEF Attested, Sound
<1>5. ASSUME NEW p \in Publishers, PutAttestation(p)
      PROVE  Grown /\ Sound'
    <2>1. /\ atts' = {a \in atts : a.of # Man(p)} \cup {job[p].env}
          /\ UNCHANGED <<tags, sigs, put, own>>
        BY <1>5 DEF PutAttestation, Answered
    <2>2. job[p].env.of = Man(p) /\ job[p].env.subject = Man(p)
        BY <1>5, JobIs DEF PutAttestation, Answered, JobOK, Attesting, Man
    <2>3. Attested \subseteq Attested'
        BY <2>1, <2>2 DEF Attested
    <2> QED
        BY <2>1, <2>2, <2>3 DEF Signed, Sound
<1>6. ASSUME NEW p \in Publishers, Publish(p)
      PROVE  Grown /\ Sound'
    <2>1. CASE \/ SignPublished(p) \/ AttestPublished(p) \/ FetchToken(p) \/ AuthRequired(p)
               \/ Expire(p) \/ Lose(p) \/ Rerun(p) \/ Edit(p) \/ Pack(p)
               \/ \E t \in Tags : StartPublish(p, t) \/ StartPush(p, t)
        BY <1>1, <2>1 DEF SignPublished, AttestPublished, FetchToken, AuthRequired, Expire, Lose,
           Rerun, Edit, Pack, StartPublish, StartPush, registry
    <2>2. ASSUME NEW at, NEW blob, NEW next, Upload(p, at, blob, next)
          PROVE  Grown /\ Sound'
        BY <1>1, <2>2 DEF Upload, Answered
    <2> HIDE DEF Grown
    <2> QED
        BY <1>2, <1>3, <1>4, <1>5, <1>6, <2>1, <2>2
        DEF Publish, Step, UploadLayer, UploadConfig, UploadPayload, UploadSigConfig,
            UploadEnvelope, UploadAttConfig
<1>7. ASSUME NEW r \in Readers, Read(r)
      PROVE  Grown /\ Sound'
    BY <1>1, <1>7 DEF Read, StartFetch, StartPull, GetManifest, GetSignature, GetBlob, Finish,
       ClearCache, Verify, registry
<1> QED
    BY <1>1, <1>6, <1>7 DEF Next, Revoke, vars, registry

LEMMA OneDone ==
    ASSUME RegInv, Dones, NEW p \in Publishers, NEW j, SetJob(p, j),
           DoneOK(p, j, Signed', Attested'),
           Signed \subseteq Signed', Attested \subseteq Attested'
    PROVE  Dones'
<1>1. \A q \in Publishers : job'[q] = IF q = p THEN j ELSE job[q]
    BY DEF RegInv, TypeOK
<1>2. \A q \in Publishers : DoneOK(q, job[q], Signed', Attested')
    BY DEF Dones, DoneOK
<1> QED
    BY <1>1, <1>2 DEF Dones

LEMMA FailedDone ==
    ASSUME RegInv, Dones, NEW p \in Publishers, NEW why, Fail(p, why),
           Signed \subseteq Signed', Attested \subseteq Attested'
    PROVE  Dones'
<1> DEFINE j == [NoJob EXCEPT !.pc = "failed", !.why = why]
<1>1. SetJob(p, j) /\ j.pc = "failed"
    BY DEF Fail, NoJob
<1> HIDE DEF j
<1>2. DoneOK(p, j, Signed', Attested')
    BY <1>1 DEF DoneOK, Late, Attesting
<1> QED
    BY <1>1, <1>2, OneDone

(* A step that is no end of the job and leaves what it is about.           *)
SameParts(i, j) == i.tar = j.tar /\ i.side = j.side /\ i.sign = j.sign /\ i.attest = j.attest

LEMMA OnwardDone ==
    ASSUME RegInv, Dones, NEW p \in Publishers, NEW j,
           \/ j.pc \notin Late
           \/ SameParts(job[p], j) /\ job[p].pc \in Late /\ (j.pc = "done" => job[p].pc = "done"),
           Signed \subseteq Signed', Attested \subseteq Attested'
    PROVE  DoneOK(p, j, Signed', Attested')
BY DEF Dones, DoneOK, SameParts, Late

LEMMA AnsweredParts ==
    ASSUME RegInv, NEW p \in Publishers, NEW at, NEW next, NEW token, Answered(p, at, next, token)
    PROVE  /\ job[p].pc = at
           /\ Fail(p, "lost") \/ \E j : SetJob(p, j) /\ SameParts(job[p], j) /\ j.pc = next
<1> DEFINE j == [job[p] EXCEPT !.pc = next, !.token = token, !.tried = FALSE]
<1>1. job[p].pc = at /\ (SetJob(p, j) \/ Fail(p, "lost"))
    BY DEF Answered
<1>2. SameParts(job[p], j) /\ j.pc = next
    BY JobIs DEF JobType, SameParts
<1> HIDE DEF j
<1> QED
    BY <1>1, <1>2

LEMMA UploadDone ==
    ASSUME RegInv, Dones, NEW p \in Publishers, NEW at, NEW blob, NEW next,
           Upload(p, at, blob, next), next # "done", next \in Late => at \in Late
    PROVE  Dones'
<1>1. Signed' = Signed /\ Attested' = Attested
    BY DEF Upload, Signed, Attested
<1>2. ASSUME NEW token, Answered(p, at, next, token)
      PROVE  Dones'
    <2>1. CASE Fail(p, "lost")
        BY <1>1, <2>1, FailedDone
    <2>2. ASSUME NEW j, SetJob(p, j), SameParts(job[p], j), j.pc = next
          PROVE  Dones'
        <3>1. DoneOK(p, j, Signed', Attested')
            BY <1>1, <1>2, <2>2, AnsweredParts, OnwardDone
        <3> QED
            BY <1>1, <2>2, <3>1, OneDone
    <2> QED
        BY <1>2, <2>1, <2>2, AnsweredParts
<1> QED
    BY <1>2 DEF Upload

LEMMA PutDone ==
    ASSUME RegInv, Dones, NEW p \in Publishers,
           PutManifest(p) \/ PutSignature(p) \/ PutAttestation(p),
           Signed \subseteq Signed', Attested \subseteq Attested'
    PROVE  Dones'
<1>1. ASSUME NEW at, NEW next, Answered(p, at, next, "none"),
             \A j : SameParts(job[p], j) /\ j.pc = next => DoneOK(p, j, Signed', Attested')
      PROVE  Dones'
    BY <1>1, AnsweredParts, OneDone, FailedDone
<1>2. JobOK(p, job[p], blobs, put, own)
    BY JobIs
<1>3. CASE PutManifest(p)
    <2> DEFINE next == IF job[p].side # None THEN "payload"
                       ELSE IF job[p].sign THEN "key" ELSE "done"
    <2>1. Answered(p, "manifest", next, "none")
        BY <1>3 DEF PutManifest
    <2>2. ASSUME NEW j, SameParts(job[p], j), j.pc = next
          PROVE  DoneOK(p, j, Signed', Attested')
        BY <1>2, <2>2 DEF SameParts, DoneOK, Late, Attesting, JobOK
    <2> HIDE DEF next
    <2> QED
        BY <1>1, <2>1, <2>2
<1>4. CASE PutSignature(p)
    <2> DEFINE next == IF job[p].attest THEN "attest" ELSE "done"
               sig == [of |-> Man(p), payload |-> job[p].side.man, key |-> job[p].side.key]
    <2>1. Answered(p, "sig", next, "none") /\ sig \in sigs' /\ sig.of = Man(p)
        BY <1>4 DEF PutSignature
    <2> HIDE DEF sig
    <2>2. Man(p) \in Signed'
        BY <2>1 DEF Signed
    <2>3. ASSUME NEW j, SameParts(job[p], j), j.pc = next
          PROVE  DoneOK(p, j, Signed', Attested')
        BY <2>2, <2>3 DEF SameParts, DoneOK, Man
    <2> HIDE DEF next
    <2> QED
        BY <1>1, <2>1, <2>3
<1>5. CASE PutAttestation(p)
    <2>1. /\ Answered(p, "att", "done", "none") /\ job[p].env \in atts' /\ job[p].pc = "att"
        BY <1>5 DEF PutAttestation, Answered
    <2>2. job[p].env.of = Man(p)
        BY <1>2, <2>1 DEF JobOK, Attesting, Man
    <2>3. Man(p) \in Attested'
        BY <2>1, <2>2 DEF Attested
    <2>4. ASSUME NEW j, SameParts(job[p], j)
          PROVE  DoneOK(p, j, Signed', Attested')
        BY <2>1, <2>3, <2>4 DEF SameParts, DoneOK, Man, Dones, Late, Attesting
    <2> QED
        BY <1>1, <2>1, <2>4
<1> QED
    BY <1>3, <1>4, <1>5

LEMMA DoneNext ==
    ASSUME RegInv, Dones, [Next]_vars, Signed \subseteq Signed', Attested \subseteq Attested'
    PROVE  Dones'
<1>1. CASE UNCHANGED job
    BY <1>1 DEF Dones, DoneOK
<1>2. ASSUME NEW p \in Publishers, NEW j, SetJob(p, j),
             \/ j.pc \notin Late
             \/ SameParts(job[p], j) /\ job[p].pc \in Late /\ (j.pc = "done" => job[p].pc = "done")
      PROVE  Dones'
    BY <1>2, OnwardDone, OneDone
<1>3. NoJob.pc \notin Late
    BY DEF NoJob, Late, Attesting
<1>4. ASSUME NEW p \in Publishers, PackToPublish(p) \/ SignPublished(p) \/ AttestPublished(p)
      PROVE  Dones'
    <2>1. job[p] \in JobType
        BY JobIs
    <2>2. CASE PackToPublish(p)
        <3> DEFINE j == [job[p] EXCEPT !.pc = "layer", !.tar = Snapshot(p, job[p].deps)]
        <3>1. SetJob(p, j) /\ j.pc = "layer"
            BY <2>1, <2>2 DEF PackToPublish, JobType
        <3> HIDE DEF j
        <3> QED
            BY <1>2, <3>1 DEF Late, Attesting
    <2>3. CASE SignPublished(p)
        <3> DEFINE side == [tag |-> job[p].tag, man |-> Subject(p), key |-> KeyOf[p]]
                   j == [job[p] EXCEPT !.pc = "payload", !.side = side]
        <3>1. (SetJob(p, j) \/ Fail(p, "key")) /\ j.pc = "payload"
            BY <2>1, <2>3 DEF SignPublished, JobType
        <3> HIDE DEF j
        <3> QED
            BY <1>2, <3>1, FailedDone DEF Late, Attesting
    <2>4. CASE AttestPublished(p)
        <3> DEFINE env == [of |-> Man(p), subject |-> Subject(p), materials |-> ws[p].lock,
                           key |-> KeyOf[p]]
                   j == [job[p] EXCEPT !.pc = "envelope", !.env = env]
        <3>1. /\ SetJob(p, j) /\ j.pc = "envelope" /\ job[p].pc = "attest"
              /\ SameParts(job[p], j)
            BY <2>1, <2>4 DEF AttestPublished, JobType, SameParts
        <3> HIDE DEF j
        <3> QED
            BY <1>2, <3>1 DEF Late
    <2> QED
        BY <1>4, <2>2, <2>3, <2>4
<1>5. ASSUME NEW p \in Publishers, FetchToken(p) \/ AuthRequired(p) \/ Expire(p)
      PROVE  Dones'
    <2>1. job[p] \in JobType /\ job[p].pc \in Requests
        BY <1>5, JobIs DEF FetchToken, AuthRequired, Expire, Pending
    <2>2. ASSUME NEW token, NEW tried, SetJob(p, [job[p] EXCEPT !.token = token, !.tried = tried])
          PROVE  Dones'
        <3> DEFINE j == [job[p] EXCEPT !.token = token, !.tried = tried]
        <3>1. SetJob(p, j) /\ j.pc = job[p].pc /\ SameParts(job[p], j)
            BY <2>1, <2>2 DEF JobType, SameParts
        <3> HIDE DEF j
        <3> QED
            BY <1>2, <3>1
    <2>3. CASE Expire(p)
        <3> DEFINE raced == job[p].raced \/ job[p].tried
                   j == [job[p] EXCEPT !.token = "stale", !.raced = raced]
        <3>1. SetJob(p, j) /\ j.pc = job[p].pc /\ SameParts(job[p], j)
            BY <2>1, <2>3 DEF Expire, JobType, SameParts
        <3> HIDE DEF j
        <3> QED
            BY <1>2, <3>1
    <2> QED
        BY <1>5, <2>2, <2>3, FailedDone DEF FetchToken, AuthRequired
<1>6. ASSUME NEW p \in Publishers, NEW t \in Tags, StartPublish(p, t)
      PROVE  Dones'
    <2>1. PICK sign \in BOOLEAN, attest \in BOOLEAN :
            SetJob(p, [NoJob EXCEPT !.pc = "pack", !.tag = t, !.deps = Vendored(p),
                              !.sign = sign, !.attest = attest])
        BY <1>6 DEF StartPublish
    <2> DEFINE j == [NoJob EXCEPT !.pc = "pack", !.tag = t, !.deps = Vendored(p),
                            !.sign = sign, !.attest = attest]
    <2>2. SetJob(p, j) /\ j.pc = "pack"
        BY <2>1 DEF NoJob
    <2> HIDE DEF j
    <2> QED
        BY <1>2, <2>2 DEF Late, Attesting
<1>7. ASSUME NEW p \in Publishers, NEW t \in Tags, StartPush(p, t)
      PROVE  Dones'
    <2> DEFINE bare == [NoJob EXCEPT !.pc = "layer", !.tag = t, !.tar = disk.tar]
               signed == [NoJob EXCEPT !.pc = "layer", !.tag = t, !.tar = disk.tar,
                                 !.side = disk.side]
    <2>1. SetJob(p, bare) \/ SetJob(p, signed) \/ Fail(p, "sidecar")
        BY <1>7 DEF StartPush
    <2>2. bare.pc = "layer" /\ signed.pc = "layer"
        BY DEF NoJob
    <2> HIDE DEF bare, signed
    <2> QED
        BY <1>2, <2>1, <2>2, FailedDone DEF Late, Attesting
<1>8. ASSUME NEW p \in Publishers, Step(p)
      PROVE  Dones'
    <2>1. CASE \/ UploadLayer(p) \/ UploadConfig(p) \/ UploadPayload(p) \/ UploadSigConfig(p)
               \/ UploadEnvelope(p) \/ UploadAttConfig(p)
        BY <2>1, UploadDone DEF UploadLayer, UploadConfig, UploadPayload, UploadSigConfig,
           UploadEnvelope, UploadAttConfig, Late, Attesting
    <2> QED
        BY <1>4, <1>5, <1>8, <2>1, PutDone DEF Step
<1>9. ASSUME NEW p \in Publishers, Publish(p)
      PROVE  Dones'
    <2>1. CASE Edit(p) \/ Pack(p) \/ \E t \in Tags : Sign(p, t)
        BY <1>1, <2>1 DEF Edit, Pack, Sign
    <2>2. CASE Lose(p) \/ Rerun(p)
        BY <1>2, <1>3, <2>2, FailedDone DEF Lose, Rerun
    <2> QED
        BY <1>5, <1>6, <1>7, <1>8, <1>9, <2>1, <2>2 DEF Publish
<1>10. CASE \E r \in Readers : Read(r)
    BY <1>1, <1>10 DEF Read, StartFetch, StartPull, GetManifest, GetSignature, GetBlob, Finish,
       ClearCache, Verify
<1> QED
    BY <1>1, <1>9, <1>10 DEF Next, Revoke, vars

LEMMA OneServed ==
    ASSUME RegInv, Serves, NEW r \in Readers, NEW j, SetReader(r, j), ServedOK(j, put, Signed),
           UNCHANGED registry
    PROVE  Serves'
<1>1. \A q \in Readers : reader'[q] = IF q = r THEN j ELSE reader[q]
    BY DEF RegInv, TypeOK
<1>2. put' = put /\ Signed' = Signed
    BY DEF registry, Signed
<1> QED
    BY <1>1, <1>2 DEF Serves

LEMMA ReadServed ==
    ASSUME RegInv, Reads, Sound, Serves, NEW r \in Readers, Read(r)
    PROVE  Serves'
<1>1. reader[r] \in ReaderType /\ ReadOK(reader[r]) /\ ServedOK(reader[r], put, Signed)
    BY ReaderIs DEF Serves
<1>2. UNCHANGED registry
    BY DEF Read, StartFetch, StartPull, GetManifest, GetSignature, GetBlob, Finish, ClearCache,
       Verify
<1>3. ASSUME NEW j, SetReader(r, j), ServedOK(j, put, Signed)
      PROVE  Serves'
    BY <1>2, <1>3, OneServed
<1>4. ASSUME NEW t \in Tags, StartFetch(r, t) \/ StartPull(r, t)
      PROVE  Serves'
    <2>1. PICK j : SetReader(r, j) /\ j.man = reader[r].man
        <3>1. CASE StartPull(r, t)
            <4> DEFINE j == [reader[r] EXCEPT !.pc = "manifest", !.tag = t]
            <4>1. SetReader(r, j) /\ j.man = reader[r].man
                BY <1>1, <3>1 DEF StartPull, ReaderType
            <4> QED
                BY <4>1
        <3>2. CASE StartFetch(r, t)
            <4>1. PICK keyed \in BOOLEAN, pinned \in BOOLEAN :
                    \/ SetReader(r, [reader[r] EXCEPT !.pc = "accepted", !.tag = t, !.fetch = TRUE,
                                        !.pinned = TRUE, !.keyed = keyed, !.got = reader[r].pin])
                    \/ SetReader(r, [reader[r] EXCEPT !.pc = "manifest", !.tag = t, !.fetch = TRUE,
                                        !.pinned = pinned, !.keyed = keyed])
                BY <3>2 DEF StartFetch
            <4> DEFINE cached == [reader[r] EXCEPT !.pc = "accepted", !.tag = t, !.fetch = TRUE,
                                     !.pinned = TRUE, !.keyed = keyed, !.got = reader[r].pin]
                       asked  == [reader[r] EXCEPT !.pc = "manifest", !.tag = t, !.fetch = TRUE,
                                     !.pinned = pinned, !.keyed = keyed]
            <4>2. cached.man = reader[r].man /\ asked.man = reader[r].man
                BY <1>1 DEF ReaderType
            <4>3. SetReader(r, cached) \/ SetReader(r, asked)
                BY <4>1
            <4> HIDE DEF cached, asked
            <4> QED
                BY <4>2, <4>3
        <3> QED
            BY <1>4, <3>1, <3>2
    <2>2. reader[r].man = None
        BY <1>1, <1>4 DEF StartFetch, StartPull, ServedOK
    <2> QED
        BY <1>3, <2>1, <2>2 DEF ServedOK
<1>5. CASE GetManifest(r)
    <2> DEFINE m == tags[reader[r].tag]
               none == [reader[r] EXCEPT !.pc = "refused"]
               pc == IF reader[r].keyed THEN "signature" ELSE "blob"
               some == [reader[r] EXCEPT !.man = m, !.pc = pc]
    <2>1. /\ m = None => SetReader(r, none)
          /\ m # None => SetReader(r, some)
          /\ reader[r].tag \in Tags /\ reader[r].man = None
        BY <1>1, <1>5 DEF GetManifest, ReadOK, ServedOK
    <2>2. none.man = None
        BY <1>1, <2>1 DEF ReaderType
    <2>3. m # None => [tag |-> reader[r].tag, man |-> m] \in put
        BY <2>1 DEF Sound
    <2> HIDE DEF m
    <2>4. /\ some.man = m /\ some.tag = reader[r].tag /\ some.keyed = reader[r].keyed
          /\ some.pc = IF reader[r].keyed THEN "signature" ELSE "blob"
        BY <1>1 DEF ReaderType
    <2> HIDE DEF none, some, pc
    <2>5. ServedOK(none, put, Signed)
        BY <2>2 DEF ServedOK
    <2>6. m # None => ServedOK(some, put, Signed)
        BY <2>3, <2>4 DEF ServedOK
    <2> QED
        BY <1>3, <2>1, <2>5, <2>6
<1>6. CASE GetSignature(r)
    <2> DEFINE pc == IF Verifies(reader[r].man) THEN "blob" ELSE "refused"
               j == [reader[r] EXCEPT !.pc = pc]
    <2>1. SetReader(r, j)
        BY <1>6 DEF GetSignature
    <2>2. pc = "refused" \/ (pc = "blob" /\ reader[r].man \in Signed)
        BY DEF Verifies, Signed
    <2> HIDE DEF pc
    <2>3. /\ j.man = reader[r].man /\ j.tag = reader[r].tag /\ j.keyed = reader[r].keyed
          /\ j.pc = pc
        BY <1>1 DEF ReaderType
    <2> HIDE DEF j
    <2>4. ServedOK(j, put, Signed)
        BY <1>1, <2>2, <2>3 DEF ServedOK
    <2> QED
        BY <1>3, <2>1, <2>4
<1>7. CASE GetBlob(r)
    <2> DEFINE cached(tar) == IF reader[r].fetch THEN reader[r].cache \cup {tar} ELSE reader[r].cache
               taken(tar) == [reader[r] EXCEPT !.pc = "accepted", !.got = tar, !.cache = cached(tar)]
               refused == [reader[r] EXCEPT !.pc = "refused"]
    <2>1. PICK tar \in Layers \cup {None} :
            IF Takes(r, tar) THEN SetReader(r, taken(tar)) ELSE SetReader(r, refused)
        BY <1>1, <1>7 DEF GetBlob, ReaderType
    <2> HIDE DEF cached
    <2>2. /\ taken(tar).man = reader[r].man /\ taken(tar).tag = reader[r].tag
          /\ taken(tar).keyed = reader[r].keyed /\ taken(tar).pc = "accepted"
          /\ taken(tar).got = tar
          /\ refused.man = reader[r].man /\ refused.tag = reader[r].tag
          /\ refused.keyed = reader[r].keyed /\ refused.pc = "refused"
        BY <1>1 DEF ReaderType
    <2> HIDE DEF taken, refused
    <2>3. Takes(r, tar) => tar = reader[r].man.layer
        BY DEF Takes
    <2>4. reader[r].pc = "blob"
        BY <1>7 DEF GetBlob
    <2>5. /\ Takes(r, tar) => ServedOK(taken(tar), put, Signed)
          /\ ServedOK(refused, put, Signed)
        BY <1>1, <2>2, <2>3, <2>4 DEF ServedOK
    <2> QED
        BY <1>3, <2>1, <2>5
<1>8. CASE Finish(r)
    <2> DEFINE pin == IF reader[r].pc = "accepted" /\ reader[r].fetch
                      THEN reader[r].got ELSE reader[r].pin
               j == [NoRead EXCEPT !.cache = reader[r].cache, !.pin = pin]
    <2>1. SetReader(r, j)
        BY <1>8 DEF Finish
    <2> HIDE DEF pin
    <2>2. j.man = None
        BY DEF NoRead
    <2> HIDE DEF j
    <2> QED
        BY <1>3, <2>1, <2>2 DEF ServedOK
<1>9. ASSUME NEW cache, NEW verdict, reader[r].pc = "idle",
             SetReader(r, [reader[r] EXCEPT !.cache = cache])
             \/ SetReader(r, [reader[r] EXCEPT !.verdict = verdict])
      PROVE  Serves'
    <2> DEFINE i == [reader[r] EXCEPT !.cache = cache]
               j == [reader[r] EXCEPT !.verdict = verdict]
    <2>1. (SetReader(r, i) \/ SetReader(r, j)) /\ i.man = None /\ j.man = None
        BY <1>1, <1>9 DEF ServedOK, ReaderType
    <2> HIDE DEF i, j
    <2> QED
        BY <1>3, <2>1 DEF ServedOK
<1>10. CASE ClearCache(r) \/ Verify(r)
    BY <1>9, <1>10 DEF ClearCache, Verify
<1> QED
    BY <1>4, <1>5, <1>6, <1>7, <1>8, <1>10 DEF Read

LEMMA ServedNext ==
    ASSUME RegInv, Reads, Sound, Serves, [Next]_vars
    PROVE  Serves'
<1>1. CASE \E r \in Readers : Read(r)
    BY <1>1, ReadServed
<1>2. CASE UNCHANGED reader
    BY <1>2, RegistryMoves DEF Serves, ServedOK
<1>3. ASSUME NEW p \in Publishers, Publish(p)
      PROVE  UNCHANGED reader
    BY <1>3 DEF Publish, Step, PackToPublish, SignPublished, AttestPublished, FetchToken,
       AuthRequired, UploadLayer, UploadConfig, PutManifest, UploadPayload, UploadSigConfig,
       PutSignature, UploadEnvelope, UploadAttConfig, PutAttestation, Upload, Answered,
       StartPublish, StartPush, Sign, Edit, Pack, Expire, Lose, Rerun
<1> QED
    BY <1>1, <1>2, <1>3 DEF Next, Revoke, vars

SoundInv == RegInv /\ Reads /\ Sound /\ Dones /\ Serves

LEMMA SoundAlways == Spec => []SoundInv
<1>1. Init => SoundInv
    <2>1. NoJob.pc = "idle" /\ NoRead.man = None
        BY DEF NoJob, NoRead
    <2>2. Init => Dones /\ Serves
        BY <2>1 DEF Init, Dones, DoneOK, Late, Attesting, Serves, ServedOK
    <2> QED
        BY <2>2, InitReg DEF Init, SoundInv, Sound
<1>2. SoundInv /\ [Next]_vars => SoundInv'
    BY RegNext, RegistryMoves, DoneNext, ServedNext DEF SoundInv
<1> QED
    BY <1>1, <1>2, PTL DEF Spec

(* With one key, what is under a manifest's .sig verifies, whoever put it. *)
LEMMA SignedVerifies ==
    ASSUME RegInv, Sound, \A p \in Publishers : KeyOf[p] \in {Trusted, None}, NEW m \in Signed
    PROVE  Verifies(m)
<1>1. PICK s \in sigs : s.of = m
    BY DEF Signed
<1>2. /\ s.payload = m /\ [key |-> s.key, layer |-> s.payload.layer] \in own
      /\ Blob("payload", s.payload) \in blobs /\ s.key \in Keys
    BY <1>1 DEF RegInv, TypeOK, SignedByItsPublisher, TagsResolve, Signature
<1>3. s.key \in {KeyOf[p] : p \in Publishers}
    BY <1>2 DEF Sound
<1>4. s.key = Trusted
    BY <1>2, <1>3, RegistryAssumption
<1> QED
    BY <1>1, <1>2, <1>4 DEF Verifies

LEMMA AttestedVerifies ==
    ASSUME RegInv, Sound, \A p \in Publishers : KeyOf[p] \in {Trusted, None}, NEW m \in Attested
    PROVE  Verdict(m) = "ok"
<1> DEFINE found == {a \in atts : a.of = m}
<1>1. PICK a \in atts : a.of = m
    BY DEF Attested
<1>2. a \in found /\ a.subject = m /\ a.key \in Keys
      /\ [key |-> a.key, layer |-> a.subject.layer] \in own
    BY <1>1 DEF RegInv, TypeOK, SignedByItsPublisher, Sound, Attestation
<1>3. a.key \in {KeyOf[p] : p \in Publishers}
    BY <1>2 DEF Sound
<1>4. a.key = Trusted
    BY <1>2, <1>3, RegistryAssumption
<1> QED
    BY <1>2, <1>4 DEF Verdict

(* A publisher that is done has left the manifest, a signature that        *)
(* verifies and the attestation, whatever others put in between: each is   *)
(* keyed by the manifest's digest, and a put replaces but never removes.   *)
THEOREM DoneLeavesAll ==
    ASSUME \A p \in Publishers : KeyOf[p] \in {Trusted, None}
    PROVE  Spec => []DoneIsComplete
<1>1. SoundInv => DoneIsComplete
    <2> SUFFICES ASSUME SoundInv, NEW p \in Publishers, job[p].pc = "done"
                 PROVE  /\ [tag |-> job[p].tag, man |-> Man(p)] \in put
                        /\ job[p].sign \/ job[p].side # None => Verifies(Man(p))
                        /\ job[p].attest => Verdict(Man(p)) = "ok"
        BY DEF DoneIsComplete
    <2>1. JobOK(p, job[p], blobs, put, own) /\ DoneOK(p, job[p], Signed, Attested)
        BY JobIs DEF SoundInv, Dones
    <2>2. [tag |-> job[p].tag, man |-> Man(p)] \in put
        BY <2>1 DEF JobOK, Pushed, Man
    <2>3. /\ job[p].sign \/ job[p].side # None => Man(p) \in Signed
          /\ job[p].attest => Man(p) \in Attested
        BY <2>1 DEF DoneOK, Late, Man
    <2> QED
        BY <2>2, <2>3, SignedVerifies, AttestedVerifies DEF SoundInv
<1> QED
    BY <1>1, SoundAlways, PTL

(* A reader takes what was published under its tag in one piece, though    *)
(* the tag, the signatures and the blobs change between its requests: the  *)
(* digest of the manifest it holds ties them together.                     *)
THEOREM ReadsArePublished ==
    ASSUME \A p \in Publishers : KeyOf[p] \in {Trusted, None}
    PROVE  Spec => []ReadIsPublished
<1>1. SoundInv => ReadIsPublished
    <2>1. SoundInv => \A r \in Readers : ServedOK(reader[r], put, Signed)
        BY DEF SoundInv, Serves
    <2> QED
        BY <2>1, SignedVerifies DEF SoundInv, ServedOK, ReadIsPublished
<1> QED
    BY <1>1, SoundAlways, PTL
=============================================================================
