----------------------------- MODULE FetchCache -----------------------------
(***************************************************************************)
(* The on-disk caches of the OCI, git and Helm fetchers: how a fetched     *)
(* package is put into its content-addressed directory, and when a later   *)
(* fetch takes what it finds there.  The directories are shared by every   *)
(* akuapkg process of a user and are not locked.                           *)
(*                                                                         *)
(* An OCI archive is unpacked beside its slot and renamed into it; a git   *)
(* commit is checked out in place and sealed by a sentinel file; a Helm    *)
(* archive is unpacked in place.  A file is opened (created or truncated)  *)
(* in one step and filled in another.  `cache clear` removes directories   *)
(* file by file, those that are being unpacked too.                        *)
(***************************************************************************)

CONSTANTS
    Procs,     \* processes that fetch
    OciSlots,  \* oci/sha256/<hex>
    StuckSlots,\* those of them a directory cannot be renamed to
    GitSlots,  \* git/checkouts/<commit>
    HelmSlots, \* helm/<hex>
    Cleared,   \* slots of caches that are cleared while others fetch
    Files,     \* the files of a package
    Marker,    \* the one that shows what kind it is: Chart.yaml, kcl.mod
    Events     \* "crash": processes may die

(* A file is missing, whole, or being written by the process that opened   *)
(* it last.                                                                *)
Missing == "none"
Whole == "whole"

ASSUME CacheAssumption ==
    /\ StuckSlots \subseteq OciSlots
    /\ OciSlots \cap GitSlots = {}
    /\ HelmSlots \cap (OciSlots \cup GitSlots) = {}
    /\ OciSlots \cup GitSlots \cup HelmSlots # {}
    /\ Cleared \subseteq (OciSlots \ StuckSlots) \cup GitSlots \cup HelmSlots
    /\ Marker \in Files
    /\ Procs \cap {Missing, Whole} = {}

Slots == OciSlots \cup GitSlots \cup HelmSlots

VARIABLES
    slot,    \* the directories
    staging, \* the temporary directory of each process
    sealed,  \* slots with the sentinel .git-checkout-done
    spoiled, \* slots a writer left half way, or a clear took files of (history)
    pc, want, left, open, result  \* the processes

disk == <<slot, staging, sealed, spoiled>>
vars == <<disk, pc, want, left, open, result>>

FileState == {Missing, Whole} \cup Procs
Dir == [there : BOOLEAN, file : [Files -> FileState]]

NoFiles == [f \in Files |-> Missing]
Absent  == [there |-> FALSE, file |-> NoFiles]
Created == [there |-> TRUE, file |-> NoFiles]

SetFile(d, f, x) == [there |-> TRUE, file |-> [d.file EXCEPT ![f] = x]]

Complete(d)  == \A f \in Files : d.file[f] = Whole
HasMarker(d) == d.file[Marker] # Missing

Phases == {"idle", "download", "land", "stage", "rename", "place",
           "seal", "root"}

Init ==
    /\ slot = [s \in Slots |-> Absent]
    /\ staging = [p \in Procs |-> Absent]
    /\ sealed = {}
    /\ spoiled = {}
    /\ pc = [p \in Procs |-> "idle"]
    /\ want = [p \in Procs |-> CHOOSE s \in Slots : TRUE]
    /\ left = [p \in Procs |-> {}]
    /\ open = [p \in Procs |-> {}]
    /\ result = [p \in Procs |-> "none"]

-----------------------------------------------------------------------------
Goto(p, phase) == pc' = [pc EXCEPT ![p] = phase]

(* The fetch returns and drops its temporary directory.                    *)
Return(p, outcome) ==
    /\ Goto(p, "idle")
    /\ result' = [result EXCEPT ![p] = outcome]
    /\ staging' = [staging EXCEPT ![p] = Absent]
    /\ left' = [left EXCEPT ![p] = {}]
    /\ open' = [open EXCEPT ![p] = {}]

(* p writes files into slot s itself.                                      *)
Placing(p, s) == pc[p] = "place" /\ want[p] = s
Writing(p, s) == pc[p] \in {"place", "seal"} /\ want[p] = s

(* What a cache takes for a package without asking the network: a marker,  *)
(* whatever else is there, or in a git checkout the sentinel.              *)
(* Mutant: a checkout is used as soon as its directory shows the package.  *)
UsableByMarker(s) == HasMarker(slot[s])
Usable(s) == IF s \in GitSlots THEN s \in sealed ELSE HasMarker(slot[s])

(* fetch_from_cache, and the fast path of a pinned OCI fetch.  Online, a   *)
(* Helm fetch looks only after its download, a git fetch only after it     *)
(* knows the commit.                                                       *)
LooksFirst(s, m) == m = "offline" \/ (m = "pinned" /\ s \in OciSlots)

Begin(p, s, m) ==
    /\ pc[p] = "idle"
    /\ want' = [want EXCEPT ![p] = s]
    /\ LET hit == LooksFirst(s, m) /\ Usable(s) IN
       /\ pc' = [pc EXCEPT ![p] = IF hit \/ m = "offline" THEN "idle" ELSE "download"]
       /\ result' = [result EXCEPT ![p] = IF hit THEN "ok"
                                          ELSE IF m = "offline" THEN "fail" ELSE "none"]
    /\ UNCHANGED <<disk, left, open>>

(* The download, with its size caps and its comparisons with the declared  *)
(* and the pinned digest; for git, the bare clone and the commit pin.      *)
Download(p) ==
    /\ pc[p] = "download"
    /\ \/ Goto(p, "land") /\ UNCHANGED <<staging, left, open, result>>
       \/ Return(p, "fail")
    /\ UNCHANGED <<slot, sealed, spoiled, want>>

-----------------------------------------------------------------------------
(* Putting the package into its slot.                                      *)

Alone(p, s) == \A q \in Procs \ {p} : ~Writing(q, s)

(* p starts to write all files into its slot.                              *)
StartPlacing(p) ==
    /\ Goto(p, "place")
    /\ slot' = [slot EXCEPT ![want[p]].there = TRUE]
    /\ left' = [left EXCEPT ![p] = Files]
    /\ spoiled' = IF Alone(p, want[p]) THEN spoiled \ {want[p]} ELSE spoiled
    /\ UNCHANGED <<staging, sealed, open, result>>

(* extract_blob: a directory that exists was put there by another pull.    *)
(* Mutant: archives are unpacked straight into the slot.                   *)
LandOciInPlace(p) ==
    /\ pc[p] = "land" /\ want[p] \in OciSlots
    /\ IF slot[want[p]].there
       THEN Goto(p, "root") /\ UNCHANGED <<disk, left, open, result>>
       ELSE StartPlacing(p)
    /\ UNCHANGED want

LandOci(p) ==
    /\ pc[p] = "land" /\ want[p] \in OciSlots
    /\ IF slot[want[p]].there
       THEN Goto(p, "root") /\ UNCHANGED <<staging, left>>
       ELSE /\ Goto(p, "stage")
            /\ staging' = [staging EXCEPT ![p] = Created]
            /\ left' = [left EXCEPT ![p] = Files]
    /\ UNCHANGED <<slot, sealed, spoiled, want, open, result>>

LandInPlace(p) ==
    /\ pc[p] = "land" /\ want[p] \notin OciSlots
    /\ IF Usable(want[p])
       THEN Return(p, "ok") /\ UNCHANGED <<slot, sealed, spoiled>>
       ELSE StartPlacing(p)
    /\ UNCHANGED want

(* tar needs the directory it unpacks into; a file in a subdirectory of a  *)
(* checkout or a copy brings it back.                                      *)
OpenFile(p, f) ==
    /\ open[p] = {} /\ f \in left[p]
    /\ left' = [left EXCEPT ![p] = @ \ {f}]
    /\ open' = [open EXCEPT ![p] = {f}]
    /\ \/ /\ pc[p] = "stage" /\ staging[p].there
          /\ staging' = [staging EXCEPT ![p] = SetFile(@, f, p)]
          /\ UNCHANGED slot
       \/ /\ pc[p] = "place" /\ (want[p] \in HelmSlots => slot[want[p]].there)
          /\ slot' = [slot EXCEPT ![want[p]] = SetFile(@, f, p)]
          /\ UNCHANGED staging
    /\ UNCHANGED <<sealed, spoiled, pc, want, result>>

(* tar replaces a file that somebody else has open, fs::write and fs::copy *)
(* share it: then the last to open it may find it filled by the other.  A  *)
(* file that was removed meanwhile is not there for having been filled.    *)
MayFill(p, f) ==
    \/ slot[want[p]].file[f] = p
    \/ want[p] \notin HelmSlots /\ slot[want[p]].file[f] # Missing

FillFile(p, f) ==
    /\ f \in open[p]
    /\ open' = [open EXCEPT ![p] = {}]
    /\ \/ /\ pc[p] = "stage" /\ staging[p].file[f] = p
          /\ staging' = [staging EXCEPT ![p] = SetFile(@, f, Whole)]
          /\ UNCHANGED slot
       \/ /\ pc[p] = "place" /\ MayFill(p, f)
          /\ slot' = [slot EXCEPT ![want[p]] = SetFile(@, f, Whole)]
          /\ UNCHANGED staging
       \/ /\ pc[p] = "stage" /\ staging[p].file[f] # p
          /\ UNCHANGED <<slot, staging>>
       \/ /\ pc[p] = "place" /\ slot[want[p]].file[f] # p
          /\ UNCHANGED <<slot, staging>>
    /\ UNCHANGED <<sealed, spoiled, pc, want, left, result>>

(* A writer that stops half way spoils its slot, unless the slot is a      *)
(* checkout that nobody has sealed or is about to.                         *)
SpoiledBy(p) ==
    LET s == want[p] IN
    IF /\ Placing(p, s)
       /\ s \in GitSlots => s \in sealed \/ ~Alone(p, s)
    THEN {s} ELSE {}

(* An unpack, checkout or copy fails: I/O, or the cap on unpacked bytes.   *)
WriteFails(p) ==
    /\ pc[p] \in {"stage", "place", "seal"}
    /\ Return(p, "fail")
    /\ spoiled' = spoiled \cup SpoiledBy(p)
    /\ UNCHANGED <<slot, sealed, want>>

Unpacked(p) ==
    /\ left[p] = {} /\ open[p] = {}
    /\ \/ pc[p] = "stage" /\ Goto(p, "rename")
                          /\ UNCHANGED <<staging, left, open, result>>
       \/ pc[p] = "place" /\ want[p] \in OciSlots /\ Goto(p, "root")
                          /\ UNCHANGED <<staging, left, open, result>>
       \/ pc[p] = "place" /\ want[p] \in GitSlots /\ Goto(p, "seal")
                          /\ UNCHANGED <<staging, left, open, result>>
       \/ pc[p] = "place" /\ want[p] \in HelmSlots /\ Return(p, "ok")
    /\ UNCHANGED <<slot, sealed, spoiled, want>>

(* fs::rename replaces nothing but an empty directory.                     *)
Renamable(p) ==
    want[p] \notin StuckSlots /\ slot[want[p]].file = NoFiles /\ staging[p].there

Rename(p) ==
    /\ pc[p] = "rename"
    /\ Renamable(p)
    /\ slot' = [slot EXCEPT ![want[p]] = staging[p]]
    /\ staging' = [staging EXCEPT ![p] = Absent]
    /\ spoiled' = IF Complete(staging[p]) THEN spoiled \ {want[p]}
                  ELSE spoiled \cup {want[p]}
    /\ Goto(p, "root")
    /\ UNCHANGED <<sealed, want, left, open, result>>

(* If it fails because another pull won, that one's package is taken; if   *)
(* not, the files are copied, or nothing is left to copy.                  *)
RenameFails(p) ==
    /\ pc[p] = "rename"
    /\ ~Renamable(p)
    /\ \/ /\ slot[want[p]].there
          /\ Goto(p, "root") /\ UNCHANGED <<disk, left, open, result>>
       \/ /\ ~slot[want[p]].there /\ staging[p].there
          /\ StartPlacing(p)
       \/ /\ ~slot[want[p]].there /\ ~staging[p].there
          /\ slot' = [slot EXCEPT ![want[p]].there = TRUE]
          /\ Return(p, "fail")
          /\ UNCHANGED <<sealed, spoiled>>
    /\ UNCHANGED want

(* The sentinel is the last file of a checkout.                            *)
Seal(p) ==
    /\ pc[p] = "seal"
    /\ slot[want[p]].there
    /\ sealed' = sealed \cup {want[p]}
    /\ Return(p, "ok")
    /\ UNCHANGED <<slot, spoiled, want>>

(* find_package_root looks for the marker.                                 *)
FindRoot(p) ==
    /\ pc[p] = "root"
    /\ Return(p, IF HasMarker(slot[want[p]]) THEN "ok" ELSE "fail")
    /\ UNCHANGED <<slot, sealed, spoiled, want>>

Crash(p) ==
    /\ "crash" \in Events
    /\ pc[p] # "idle"
    /\ Return(p, "crashed")
    /\ spoiled' = spoiled \cup SpoiledBy(p)
    /\ UNCHANGED <<slot, sealed, want>>

-----------------------------------------------------------------------------
(* cache clear: remove_dir_all on a root, in any order; the process may    *)
(* stop at any point and another one begin.                                *)

(* Without a sentinel and a writer a checkout is not looked at again.      *)
ClearFile(s, f) ==
    /\ slot[s].file[f] # Missing
    /\ slot' = [slot EXCEPT ![s] = SetFile(@, f, Missing)]
    /\ spoiled' = IF s \in GitSlots \ sealed /\ \A p \in Procs : ~Writing(p, s)
                  THEN spoiled ELSE spoiled \cup {s}
    /\ UNCHANGED <<staging, sealed, pc, want, left, open, result>>

ClearSentinel(s) ==
    /\ s \in sealed
    /\ sealed' = sealed \ {s}
    /\ UNCHANGED <<slot, staging, spoiled, pc, want, left, open, result>>

ClearDir(s) ==
    /\ slot[s].there /\ slot[s].file = NoFiles /\ s \notin sealed
    /\ slot' = [slot EXCEPT ![s] = Absent]
    /\ spoiled' = IF \A p \in Procs : ~Writing(p, s) THEN spoiled \ {s} ELSE spoiled
    /\ UNCHANGED <<staging, sealed, pc, want, left, open, result>>

(* The temporary directory of a pull lies beside its slot.                 *)
ClearStaged(p, f) ==
    /\ staging[p].file[f] # Missing
    /\ staging' = [staging EXCEPT ![p] = SetFile(@, f, Missing)]
    /\ UNCHANGED <<slot, sealed, spoiled, pc, want, left, open, result>>

ClearStaging(p) ==
    /\ staging[p].there /\ staging[p].file = NoFiles
    /\ staging' = [staging EXCEPT ![p] = Absent]
    /\ UNCHANGED <<slot, sealed, spoiled, pc, want, left, open, result>>

ClearSlot(s) == (\E f \in Files : ClearFile(s, f)) \/ ClearSentinel(s) \/ ClearDir(s)
ClearPull(p) == (\E f \in Files : ClearStaged(p, f)) \/ ClearStaging(p)

Clear ==
    \/ \E s \in Cleared : ClearSlot(s)
    \/ \E p \in Procs : want[p] \in Cleared /\ ClearPull(p)

-----------------------------------------------------------------------------
Run(p) ==
    \/ Download(p) \/ LandOci(p) \/ LandInPlace(p)
    \/ \E f \in Files : OpenFile(p, f) \/ FillFile(p, f)
    \/ WriteFails(p) \/ Unpacked(p)
    \/ Rename(p) \/ RenameFails(p) \/ Seal(p) \/ FindRoot(p)

Next ==
    \/ \E p \in Procs :
         \/ \E s \in Slots, m \in {"tag", "pinned", "offline"} : Begin(p, s, m)
         \/ Run(p)
         \/ Crash(p)
    \/ Clear

Spec == Init /\ [][Next]_vars

-----------------------------------------------------------------------------
TypeOK ==
    /\ slot \in [Slots -> Dir]
    /\ staging \in [Procs -> Dir]
    /\ sealed \subseteq GitSlots
    /\ spoiled \subseteq Slots
    /\ pc \in [Procs -> Phases]
    /\ want \in [Procs -> Slots]
    /\ left \in [Procs -> SUBSET Files]
    /\ open \in [Procs -> SUBSET Files]
    /\ result \in [Procs -> {"none", "ok", "fail", "crashed"}]

(* What a later fetch takes for a package has all its files, unless some   *)
(* process is writing there or stopped half way, or `cache clear` took     *)
(* files of it and did not finish (detect_kind, the sentinel, the          *)
(* Chart.yaml test); a clear that did finish has left nothing to take.     *)
UsableIsWhole ==
    \A s \in Slots : Usable(s) =>
        \/ Complete(slot[s])
        \/ s \in spoiled
        \/ \E p \in Procs : Placing(p, s)

(* The OCI slots that a rename can fill, and nobody clears, implement      *)
(* PackageStore: they are filled in one step, never touched again, and a   *)
(* fetch that succeeds hands out nothing else (extract_blob), whatever     *)
(* dies or races.                                                          *)
RenamedSlots == (OciSlots \ StuckSlots) \ Cleared
Store == INSTANCE PackageStore WITH
    Packages <- RenamedSlots,
    store <- {s \in RenamedSlots : Complete(slot[s])},
    held  <- [p \in Procs |-> IF result[p] = "ok" THEN {want[p]} \cap RenamedSlots
                              ELSE {}]
StoreSpec == Store!Spec

(* A fetch that succeeds has fetched all of the package, also after one    *)
(* that failed.                                                            *)
SuccessIsWhole ==
    \A p \in Procs :
        pc[p] = "idle" /\ result[p] = "ok" => Complete(slot[want[p]])
=============================================================================
