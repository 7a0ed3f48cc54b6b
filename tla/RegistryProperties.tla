------------------------- MODULE RegistryProperties -------------------------
(***************************************************************************)
(* What publishing a package and reading it back must guarantee.           *)
(***************************************************************************)
EXTENDS Registry

(* Every variable keeps its type; a publisher's job has the parts its      *)
(* phase uses.                                                             *)
Phases == Requests \cup {"idle", "pack", "key", "attest", "done", "failed"}

JobType ==
    [pc : Phases, tag : Tags \cup {None}, deps : Locks \cup {None},
     tar : Tarball \cup {None}, side : Sidecar \cup {None}, sign : BOOLEAN,
     attest : BOOLEAN, env : Attestation \cup {None},
     token : {"none", "live", "stale"}, tried : BOOLEAN, raced : BOOLEAN,
     why : {"none", "auth", "lost", "sidecar", "key"}]

ReaderType ==
    [pc : {"idle", "manifest", "signature", "blob", "accepted", "refused"},
     tag : Tags \cup {None}, fetch : BOOLEAN, pinned : BOOLEAN, keyed : BOOLEAN,
     man : Manifest \cup {None}, got : Tarball \cup {None},
     pin : Tarball \cup {None}, cache : SUBSET Tarball,
     verdict : {"none", "missing", "invalid", "subject", "ok"}]

TypeOK ==
    /\ ws \in [Publishers -> Workspace]
    /\ disk \in [tar : Tarball \cup {None}, side : Sidecar \cup {None}]
    /\ blobs \subseteq Blobs
    /\ tags \in [Tags -> Manifest \cup {None}]
    /\ sigs \subseteq Signature
    /\ atts \subseteq Attestation
    /\ put \subseteq [tag : Tags, man : Manifest]
    /\ own \subseteq [key : Keys, layer : Tarball]
    /\ account \in BOOLEAN
    /\ job \in [Publishers -> JobType]
    /\ reader \in [Readers -> ReaderType]
    /\ faults \in 0 .. MaxFaults
    /\ edits \in 0 .. MaxEdits

(* A tag, a .sig and an .att never name a blob the registry does not have, *)
(* whichever request of the publisher is lost: the manifest goes last.     *)
TagsResolve ==
    /\ \A t \in Tags : tags[t] # None =>
         {Blob("layer", tags[t].layer), Blob("config", tags[t].binary)} \subseteq blobs
    /\ \A s \in sigs : {Blob("payload", s.payload), Blob("empty", None)} \subseteq blobs
    /\ \A a \in atts : {Blob("envelope", a), Blob("empty", None)} \subseteq blobs

(* A .sig and an .att belong to a manifest that was put before them.       *)
SidecarsFollow ==
    \A d \in {s.of : s \in sigs} \cup {a.of : a \in atts} : \E x \in put : x.man = d

(* A key signs and attests only an archive that a holder of the key packed *)
(* or was handed, never what another publisher put at the same tag; and    *)
(* the signature is stored for the manifest it names, also when it was     *)
(* made elsewhere: push refuses the sidecar of another archive or of       *)
(* another version of the binary.                                          *)
SignedByItsPublisher ==
    /\ \A s \in sigs : s.payload = s.of
    /\ \A s \in sigs : [key |-> s.key, layer |-> s.payload.layer] \in own
    /\ \A a \in atts : [key |-> a.key, layer |-> a.subject.layer] \in own

(* What a reader takes over the network is an archive that was published   *)
(* under the tag it asked for, in one piece, though the tag may move       *)
(* between its requests; with a public key, the manifest is signed.        *)
ReadIsPublished ==
    \A r \in Readers : reader[r].pc = "accepted" /\ reader[r].man # None =>
        /\ [tag |-> reader[r].tag, man |-> reader[r].man] \in put
        /\ reader[r].got = reader[r].man.layer
        /\ reader[r].keyed => Verifies(reader[r].man)

(* A fetch that the lockfile pins yields the pinned archive or fails.      *)
PinnedOrRefused ==
    \A r \in Readers : reader[r].pc = "accepted" /\ reader[r].pinned
                         => reader[r].got = reader[r].pin

(* A publish that ended well has left everything it reports at the         *)
(* registry: the manifest, a signature that the trusted key verifies, and  *)
(* the attestation, whatever other publishers did meanwhile; where all     *)
(* signers hold that key, since a .sig of another one replaces it.         *)
DoneIsComplete ==
    \A p \in Publishers : job[p].pc = "done" =>
        /\ [tag |-> job[p].tag, man |-> Man(p)] \in put
        /\ job[p].sign \/ job[p].side # None => Verifies(Man(p))
        /\ job[p].attest => Verdict(Man(p)) = "ok"

(* Publishing fails for want of authorization (send_with_auth_raw) only    *)
(* when the account is refused, a token expires between its issue and the  *)
(* request it was issued for, or the client cannot read the challenge of   *)
(* that very request: every other expiry is made good, at whichever of up  *)
(* to nine requests it strikes.                                            *)
AuthFailureIsEarned ==
    [][\A p \in Publishers : job[p].why # "auth" /\ job'[p].why = "auth" =>
          ~account \/ job[p].raced \/ job[p].pc \notin Readable]_vars

(* `verify` finds the attestation of a package that publish has attested.  *)
AttestationFound ==
    \A r \in Readers : reader[r].verdict = "missing" =>
        ~\E a \in atts : a.subject.layer = reader[r].pin
=============================================================================
