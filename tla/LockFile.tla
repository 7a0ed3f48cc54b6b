------------------------------ MODULE LockFile ------------------------------
(***************************************************************************)
(* The data of akua.toml and akua.lock and the operations on a parsed      *)
(* lockfile: what a resolved dependency contributes to it, how an entry is *)
(* upserted, and which digests it feeds back to the resolver.  There is no *)
(* state here; Workspace builds the state machine of the verbs on it.      *)
(*                                                                         *)
(* A dependency name is its alphabetical rank, because the resolver walks  *)
(* a BTreeMap of names.  A version is the rank of its string, because the  *)
(* lockfile is sorted by (name, version); "local", the version of every    *)
(* path dependency, sorts after the digits of the others.                  *)
(***************************************************************************)
EXTENDS Naturals, FiniteSets

CONSTANTS
    NumNames,    \* dependency names are 1..NumNames
    NumVersions, \* upstream versions are 1..NumVersions
    Contents,    \* the distinct package trees that exist anywhere
    Nil          \* no content

ASSUME SizesAssumption ==
    /\ NumNames \in Nat
    /\ NumVersions \in Nat
    /\ Nil \notin Contents

Names    == 1..NumNames
Versions == 1..NumVersions
Local    == NumVersions + 1
MaybeContents == Contents \cup {Nil}

-----------------------------------------------------------------------------
(* Digests: what was hashed, and the content it stands for.  The package   *)
(* archive ("blob": an OCI layer or a Helm .tgz), the unpacked tree        *)
(* ("tree") and the git commit ("commit") of one content are three         *)
(* different digests; "gittree" is a tree hash under the git: prefix.      *)

Forms      == {"none", "blob", "tree", "commit", "gittree"}
Digest     == [form : Forms, of : MaybeContents]
NoDigest   == [form |-> "none", of |-> Nil]
Hash(f, c) == [form |-> f, of |-> c]
Tree(c)    == Hash("tree", c)
Blob(c)    == Hash("blob", c)

-----------------------------------------------------------------------------
(* A [dependencies] row: its source kind, its version (or git tag) and     *)
(* whether a replace = { path } override is set.                           *)

Kinds == {"path", "oci", "git", "helm"}
NoDep == [kind |-> "none", ver |-> 0, repl |-> FALSE]
Dep   == [kind : Kinds, ver : Versions, repl : BOOLEAN] \cup {NoDep}

Declared(deps) == {n \in Names : deps[n].kind # "none"}

(* What the resolver returns for one dependency: the lockfile triple, the  *)
(* content it found and the branch that found it.                          *)
Vias  == {"none", "replace", "vendor", "path", "oci", "git", "helm"}
Res   == [via : Vias, kind : Kinds \cup {"none"}, ver : 0..Local,
          repl : BOOLEAN, digest : Digest, of : MaybeContents]
NoRes == [via |-> "none", kind |-> "none", ver |-> 0,
          repl |-> FALSE, digest |-> NoDigest, of |-> Nil]

(* A [[package]] entry.  "sig" abstracts every bytes-tied field            *)
(* (signature, attestation, dependencies, yanked, converter fields) by the *)
(* digest it was issued for.                                               *)
Entry == [name : Names, ver : 0..Local, kind : Kinds, digest : Digest,
          vendored : Digest, repl : BOOLEAN, sig : Digest]

-----------------------------------------------------------------------------
(* to_locked_fields keeps the canonical kind and version; a path           *)
(* dependency always locks as "local".                                     *)
LockedVersion(dep) == IF dep.kind = "path" THEN Local ELSE dep.ver

(* Mutant: every source is recorded under an archive digest.               *)
ResolvedAsArchive(dep, via, digest, c) ==
    [via |-> via, kind |-> dep.kind, ver |-> LockedVersion(dep),
     repl |-> (via = "replace"), digest |-> Blob(c), of |-> c]

Resolved(dep, via, digest, c) ==
    [via |-> via, kind |-> dep.kind, ver |-> LockedVersion(dep),
     repl |-> (via = "replace"), digest |-> digest, of |-> c]

(* An OCI dependency is locked under the digest of its archive, which is   *)
(* what the registry serves and the cache is keyed by.                     *)
OciDigest(c) == Blob(c)

(* find_slot: the entry with this (name, version).                         *)
Slot(pkgs, n, v) == {e \in pkgs : e.name = n /\ e.ver = v}

(* upsert_locked_from_source: the entry written for r.  Bytes-tied fields  *)
(* of the entry in the slot are carried only under an unchanged digest.    *)
(* Mutant: carried by name and version alone.                              *)
CarriedFromSlot(pkgs, n, r) == Slot(pkgs, n, r.ver)
CarriedFrom(pkgs, n, r) == {e \in Slot(pkgs, n, r.ver) : e.digest = r.digest}

Carry(pkgs, n, r) ==
    IF CarriedFrom(pkgs, n, r) = {}
    THEN [sig |-> NoDigest, vendored |-> NoDigest]
    ELSE LET e == CHOOSE x \in CarriedFrom(pkgs, n, r) : TRUE
         IN  [sig |-> e.sig, vendored |-> e.vendored]

NewEntry(pkgs, n, r) ==
    [name |-> n, ver |-> r.ver, kind |-> r.kind, digest |-> r.digest,
     vendored |-> Carry(pkgs, n, r).vendored, repl |-> r.repl,
     sig |-> Carry(pkgs, n, r).sig]

(* merge_into_lock over a set of names: every one is upserted into its own *)
(* slot, everything else stays.                                            *)
(* Mutant: entries are appended, never replaced.                           *)
MergeAppends(pkgs, res, ns) == pkgs \cup {NewEntry(pkgs, n, res[n]) : n \in ns}
Merge(pkgs, res, ns) ==
    {e \in pkgs : ~ \E n \in ns : e.name = n /\ e.ver = res[n].ver}
        \cup {NewEntry(pkgs, n, res[n]) : n \in ns}

(* retain(|p| p.name != name) of the remove verb.                          *)
(* Mutant: only local entries are dropped.                                 *)
PruneLocal(pkgs, n) == {e \in pkgs : e.name # n \/ e.kind # "path"}
Prune(pkgs, n) == {e \in pkgs : e.name # n}

(* The expected_digests map the verbs build: keyed by name alone, from the *)
(* oci:// entries in file order, so that the last one wins.                *)
(* Mutant: from the entries of every source.                               *)
LastOfAnyKind(pkgs, n) ==
    {e \in pkgs : e.name = n /\ \A x \in pkgs : x.name = n => x.ver <= e.ver}
LastOci(pkgs, n) ==
    {e \in pkgs : /\ e.name = n /\ e.kind = "oci"
                  /\ \A x \in pkgs : x.name = n /\ x.kind = "oci" => x.ver <= e.ver}

ExpectedOci(pkgs, n) ==
    IF LastOci(pkgs, n) = {} THEN NoDigest
    ELSE (CHOOSE e \in LastOci(pkgs, n) : TRUE).digest

(* AkuaLock::find returns the first entry of a name: the lowest version.   *)
Find(pkgs, n) ==
    {e \in pkgs : e.name = n /\ \A x \in pkgs : x.name = n => e.ver <= x.ver}

HasName(pkgs, n) == \E e \in pkgs : e.name = n

(* expected_digest_from_lock of the vendor verb: the first entry, if it    *)
(* has the wanted kind.                                                    *)
ExpectedFirst(pkgs, n, kind) ==
    IF \E e \in Find(pkgs, n) : e.kind = kind
    THEN (CHOOSE e \in Find(pkgs, n) : e.kind = kind).digest
    ELSE NoDigest

(* vendor check of a tree: against vendor_digest where there is one, else  *)
(* against the digest, in the first entry of the name.                     *)
VendorClean(pkgs, n, tree) ==
    \E e \in Find(pkgs, n) :
        Tree(tree) = IF e.vendored # NoDigest THEN e.vendored ELSE e.digest
=============================================================================
