-------------------------- MODULE FetchCacheProofs --------------------------
(***************************************************************************)
(* For any number of processes, slots and files: FetchCache is well typed, *)
(* its usable slots are whole, and its OCI slots implement PackageStore.   *)
(***************************************************************************)
EXTENDS FetchCache, TLAPS

(* The OCI slots that a rename fills, cleared or not.                      *)
FastSlots == OciSlots \ StuckSlots

(* A process that is not writing has nothing open, one that is has at most *)
(* one file open, and each phase belongs to one kind of cache.             *)
ProcInv ==
    \A p \in Procs :
        /\ pc[p] \notin {"stage", "place"} => left[p] = {} /\ open[p] = {}
        /\ \A f, g \in open[p] : f = g
        /\ pc[p] \in {"stage", "rename", "root"} => want[p] \in OciSlots
        /\ pc[p] = "seal" => want[p] \in GitSlots
        /\ pc[p] = "place" => want[p] \notin FastSlots

(* What a process has unpacked into its temporary directory is whole, if   *)
(* nobody clears the cache.                                                *)
StageInv ==
    \A p \in Procs :
        pc[p] \in {"stage", "rename"} /\ want[p] \notin Cleared =>
            /\ staging[p].there
            /\ \A f \in open[p] : staging[p].file[f] = p
            /\ \A f \in Files : f \notin left[p] \cup open[p] =>
                                    staging[p].file[f] = Whole

(* A slot without a directory has no files; one that a rename fills has    *)
(* all or none.                                                            *)
SlotInv ==
    /\ \A s \in Slots : ~slot[s].there => slot[s].file = NoFiles
    /\ \A s \in RenamedSlots : slot[s].file = NoFiles \/ Complete(slot[s])

StoreInv == TypeOK /\ ProcInv /\ StageInv /\ SlotInv

-----------------------------------------------------------------------------
(* Changing one file of a directory changes nothing else in it.            *)
LEMMA FileSet ==
    ASSUME NEW d \in Dir, NEW f \in Files, NEW x
    PROVE  /\ SetFile(d, f, x).there
           /\ \A g \in Files :
                 SetFile(d, f, x).file[g] = IF g = f THEN x ELSE d.file[g]
           /\ x \in FileState => SetFile(d, f, x) \in Dir
BY DEF SetFile, Dir

LEMMA ThereSet == \A d \in Dir : [d EXCEPT !.there = TRUE] \in Dir
BY DEF Dir

LEMMA TwoStates == Missing # Whole
BY DEF Missing, Whole

LEMMA FreshDirs == Absent \in Dir /\ Created \in Dir /\ Absent.file = NoFiles
                   /\ Created.file = NoFiles /\ Created.there /\ ~Absent.there
BY DEF Absent, Created, NoFiles, Dir, FileState

LEMMA InitStore == Init => StoreInv
<1> SUFFICES ASSUME Init PROVE StoreInv
    OBVIOUS
<1> USE CacheAssumption, FreshDirs
<1>1. TypeOK
  <2>1. (CHOOSE s \in Slots : TRUE) \in Slots
    BY DEF Slots
  <2> QED
    BY <2>1 DEF Init, TypeOK, Phases
<1>2. ProcInv
    BY DEF Init, ProcInv
<1>3. StageInv
    BY DEF Init, StageInv
<1>4. SlotInv
    BY DEF Init, SlotInv, RenamedSlots, Slots
<1> QED
    BY <1>1, <1>2, <1>3, <1>4 DEF StoreInv

(* What Return and StartPlacing do to the typing.                          *)
LEMMA TypeReturn ==
    ASSUME TypeOK, NEW p \in Procs,
           NEW outcome \in {"ok", "fail", "crashed"}, Return(p, outcome)
    PROVE  /\ pc' = [pc EXCEPT ![p] = "idle"] /\ pc' \in [Procs -> Phases]
           /\ result' \in [Procs -> {"none", "ok", "fail", "crashed"}]
           /\ staging' = [staging EXCEPT ![p] = Absent]
           /\ staging' \in [Procs -> Dir]
           /\ left' = [left EXCEPT ![p] = {}] /\ left' \in [Procs -> SUBSET Files]
           /\ open' = [open EXCEPT ![p] = {}] /\ open' \in [Procs -> SUBSET Files]
BY FreshDirs DEF TypeOK, Return, Goto, Phases

LEMMA TypePlacing ==
    ASSUME TypeOK, NEW p \in Procs, StartPlacing(p)
    PROVE  /\ pc' \in [Procs -> Phases]
           /\ slot' \in [Slots -> Dir]
           /\ left' \in [Procs -> SUBSET Files]
           /\ spoiled' \subseteq Slots
<1>1. want[p] \in Slots /\ slot[want[p]] \in Dir
    BY DEF TypeOK
<1>2. [slot[want[p]] EXCEPT !.there = TRUE] \in Dir
    BY <1>1, CacheAssumption, ThereSet
<1>3. slot' \in [Slots -> Dir]
    BY <1>1, <1>2 DEF TypeOK, StartPlacing
<1> QED
    BY <1>3 DEF TypeOK, StartPlacing, Goto, Phases

LEMMA SpoiledType ==
    ASSUME TypeOK, NEW p \in Procs
    PROVE  SpoiledBy(p) \subseteq Slots
BY DEF TypeOK, SpoiledBy

LEMMA ClearedSlots == Cleared \subseteq Slots
BY CacheAssumption DEF Slots

(* A clear touches the directories, and no process.                        *)
LEMMA ClearTouches ==
    ASSUME TypeOK, Clear
    PROVE  /\ UNCHANGED <<pc, want, left, open, result>>
           /\ \A s \in Slots \ Cleared : slot'[s] = slot[s]
           /\ \A p \in Procs : want[p] \notin Cleared => staging'[p] = staging[p]
<1>1. ASSUME NEW s \in Cleared, ClearSlot(s)
      PROVE  /\ UNCHANGED <<staging, pc, want, left, open, result>>
             /\ \A t \in Slots \ Cleared : slot'[t] = slot[t]
  <2> QED
    BY <1>1 DEF TypeOK, ClearSlot, ClearFile, ClearSentinel, ClearDir
<1>2. ASSUME NEW p \in Procs, want[p] \in Cleared, ClearPull(p)
      PROVE  /\ UNCHANGED <<slot, pc, want, left, open, result>>
             /\ \A q \in Procs \ {p} : staging'[q] = staging[q]
  <2> QED
    BY <1>2 DEF TypeOK, ClearPull, ClearStaged, ClearStaging
<1> QED
    BY <1>1, <1>2 DEF Clear

LEMMA TypeClear == TypeOK /\ Clear => TypeOK'
<1> SUFFICES ASSUME TypeOK, Clear PROVE TypeOK'
    OBVIOUS
<1>1. UNCHANGED <<pc, want, left, open, result>>
    BY ClearTouches
<1>2. Missing \in FileState
    BY DEF FileState
<1>3. ASSUME NEW s \in Slots, NEW f \in Files, ClearFile(s, f) PROVE TypeOK'
  <2>1. slot[s] \in Dir
    BY DEF TypeOK
  <2>2. SetFile(slot[s], f, Missing) \in Dir
    BY <1>2, <2>1, FileSet
  <2>3. slot' \in [Slots -> Dir]
    BY <1>3, <2>2 DEF ClearFile, TypeOK
  <2>4. UNCHANGED <<staging, sealed>> /\ spoiled' \subseteq Slots
    BY <1>3 DEF ClearFile, TypeOK
  <2> QED
    BY <1>1, <2>3, <2>4 DEF TypeOK
<1>4. ASSUME NEW s \in Slots, ClearSentinel(s) \/ ClearDir(s) PROVE TypeOK'
  <2>1. slot' \in [Slots -> Dir]
    BY <1>4, FreshDirs DEF ClearSentinel, ClearDir, TypeOK
  <2>2. UNCHANGED staging /\ sealed' \subseteq sealed /\ spoiled' \subseteq spoiled
    BY <1>4 DEF ClearSentinel, ClearDir
  <2> QED
    BY <1>1, <2>1, <2>2 DEF TypeOK
<1>5. ASSUME NEW p \in Procs, ClearPull(p) PROVE TypeOK'
  <2>1. staging[p] \in Dir
    BY DEF TypeOK
  <2>2. \A f \in Files : SetFile(staging[p], f, Missing) \in Dir
    BY <1>2, <2>1, FileSet
  <2>3. staging' \in [Procs -> Dir]
    BY <1>5, <2>2, FreshDirs DEF ClearPull, ClearStaged, ClearStaging, TypeOK
  <2>4. UNCHANGED <<slot, sealed, spoiled>>
    BY <1>5 DEF ClearPull, ClearStaged, ClearStaging
  <2> QED
    BY <1>1, <2>3, <2>4 DEF TypeOK
<1> QED
    BY <1>3, <1>4, <1>5, ClearedSlots DEF Clear, ClearSlot

LEMMA TypeNext == TypeOK /\ ProcInv /\ [Next]_vars => TypeOK'
<1> SUFFICES ASSUME TypeOK, ProcInv, [Next]_vars PROVE TypeOK'
    OBVIOUS
<1>1. ASSUME NEW p \in Procs, NEW s \in Slots, NEW m \in {"tag", "pinned", "offline"},
             Begin(p, s, m)
      PROVE  TypeOK'
    BY <1>1 DEF TypeOK, Begin, Phases, disk
<1>2. ASSUME NEW p \in Procs, Download(p) PROVE TypeOK'
    BY <1>2, TypeReturn DEF TypeOK, Download, Goto, Phases
<1>3. ASSUME NEW p \in Procs, LandOci(p) PROVE TypeOK'
    BY <1>3, FreshDirs DEF TypeOK, LandOci, Goto, Phases
<1>4. ASSUME NEW p \in Procs, LandInPlace(p) PROVE TypeOK'
  <2>1. CASE Usable(want[p])
    <3>1. Return(p, "ok") /\ UNCHANGED <<slot, sealed, spoiled, want>>
        BY <1>4, <2>1 DEF LandInPlace
    <3> QED
        BY <3>1, TypeReturn DEF TypeOK
  <2>2. CASE ~Usable(want[p])
    <3>1. StartPlacing(p) /\ UNCHANGED want
        BY <1>4, <2>2 DEF LandInPlace
    <3> QED
        BY <3>1, TypePlacing DEF TypeOK, StartPlacing
  <2> QED
    BY <2>1, <2>2
<1>5. ASSUME NEW p \in Procs, NEW f \in Files, OpenFile(p, f) PROVE TypeOK'
  <2>1. left' \in [Procs -> SUBSET Files] /\ open' \in [Procs -> SUBSET Files]
    BY <1>5 DEF TypeOK, OpenFile
  <2>2. p \in FileState /\ want[p] \in Slots /\ slot[want[p]] \in Dir /\ staging[p] \in Dir
    BY DEF TypeOK, FileState
  <2>3. SetFile(slot[want[p]], f, p) \in Dir /\ SetFile(staging[p], f, p) \in Dir
    BY <2>2, FileSet
  <2>4. slot' \in [Slots -> Dir] /\ staging' \in [Procs -> Dir]
    BY <1>5, <2>2, <2>3 DEF TypeOK, OpenFile
  <2> QED
    BY <1>5, <2>1, <2>4 DEF TypeOK, OpenFile
<1>6. ASSUME NEW p \in Procs, NEW f \in Files, FillFile(p, f) PROVE TypeOK'
  <2>1. open' \in [Procs -> SUBSET Files]
    BY <1>6 DEF TypeOK, FillFile
  <2>2. Whole \in FileState /\ want[p] \in Slots /\ slot[want[p]] \in Dir /\ staging[p] \in Dir
    BY DEF TypeOK, FileState
  <2>3. /\ SetFile(slot[want[p]], f, Whole) \in Dir
        /\ SetFile(staging[p], f, Whole) \in Dir
    BY <2>2, FileSet
  <2>4. slot' \in [Slots -> Dir] /\ staging' \in [Procs -> Dir]
    BY <1>6, <2>2, <2>3 DEF TypeOK, FillFile
  <2> QED
    BY <1>6, <2>1, <2>4 DEF TypeOK, FillFile
<1>7. ASSUME NEW p \in Procs, WriteFails(p) PROVE TypeOK'
    BY <1>7, TypeReturn, SpoiledType DEF TypeOK, WriteFails
<1>8. ASSUME NEW p \in Procs, Unpacked(p) PROVE TypeOK'
    BY <1>8, TypeReturn DEF TypeOK, Unpacked, Goto, Phases
<1>9. ASSUME NEW p \in Procs, Rename(p) PROVE TypeOK'
    BY <1>9, FreshDirs DEF TypeOK, Rename, Goto, Phases
<1>10. ASSUME NEW p \in Procs, RenameFails(p) PROVE TypeOK'
  <2>1. CASE slot[want[p]].there
    BY <1>10, <2>1 DEF TypeOK, RenameFails, Goto, Phases, disk
  <2>2. CASE StartPlacing(p) /\ UNCHANGED want
    BY <2>2, TypePlacing DEF TypeOK, StartPlacing
  <2>3. CASE /\ slot' = [slot EXCEPT ![want[p]].there = TRUE]
             /\ Return(p, "fail")
             /\ UNCHANGED <<sealed, spoiled, want>>
    <3>1. slot' \in [Slots -> Dir]
        BY <2>3, ThereSet DEF TypeOK
    <3> QED
        BY <2>3, <3>1, TypeReturn DEF TypeOK
  <2> QED
    BY <1>10, <2>1, <2>2, <2>3 DEF RenameFails
<1>11. ASSUME NEW p \in Procs, Seal(p) PROVE TypeOK'
    BY <1>11, TypeReturn DEF TypeOK, Seal, ProcInv
<1>12. ASSUME NEW p \in Procs, FindRoot(p) PROVE TypeOK'
    BY <1>12, TypeReturn DEF TypeOK, FindRoot
<1>13. ASSUME NEW p \in Procs, Crash(p) PROVE TypeOK'
    BY <1>13, TypeReturn, SpoiledType DEF TypeOK, Crash
<1>14. CASE UNCHANGED vars
    BY <1>14 DEF TypeOK, vars, disk
<1>15. ASSUME Clear PROVE TypeOK'
    BY <1>15, TypeClear
<1> QED
    BY <1>1, <1>2, <1>3, <1>4, <1>5, <1>6, <1>7, <1>8, <1>9, <1>10, <1>11,
       <1>12, <1>13, <1>14, <1>15 DEF Next, Run

(* What opening and filling a file changes.                                *)
LEMMA Opened ==
    ASSUME TypeOK, NEW p \in Procs, NEW f \in Files, OpenFile(p, f)
    PROVE  /\ \A s \in Slots : slot[s].there => slot'[s].there
           /\ \A q \in Procs : staging[q].there => staging'[q].there
           /\ \A s \in Slots : slot'[s] = slot[s] \/ slot'[s].there
           /\ \A s \in Slots, g \in Files :
                 slot'[s].file[g] = IF pc[p] = "place" /\ s = want[p] /\ g = f THEN p
                                    ELSE slot[s].file[g]
           /\ \A q \in Procs, g \in Files :
                 staging'[q].file[g] = IF pc[p] = "stage" /\ q = p /\ g = f THEN p
                                       ELSE staging[q].file[g]
           /\ pc[p] \in {"stage", "place"}
<1>1. /\ want[p] \in Slots
      /\ slot \in [Slots -> Dir]
      /\ staging \in [Procs -> Dir]
      /\ slot[want[p]] \in Dir
      /\ staging[p] \in Dir
    BY DEF TypeOK
<1>2. CASE pc[p] = "stage" /\ staging' = [staging EXCEPT ![p] = SetFile(@, f, p)] /\ UNCHANGED slot
    BY <1>1, <1>2, FileSet
<1>3. CASE pc[p] = "place" /\ slot' = [slot EXCEPT ![want[p]] = SetFile(@, f, p)] /\ UNCHANGED staging
    BY <1>1, <1>3, FileSet
<1> QED
    BY <1>2, <1>3 DEF OpenFile

LEMMA Filled ==
    ASSUME TypeOK, NEW p \in Procs, NEW f \in Files, FillFile(p, f)
    PROVE  /\ \A s \in Slots : slot[s].there => slot'[s].there
           /\ \A q \in Procs : staging[q].there => staging'[q].there
           /\ \A s \in Slots : slot'[s] = slot[s] \/ slot'[s].there
           /\ \A s \in Slots, g \in Files :
                 slot'[s].file[g] = slot[s].file[g]
                   \/ (pc[p] = "place" /\ s = want[p] /\ g = f /\ slot'[s].file[g] = Whole)
           /\ pc[p] = "place" => slot'[want[p]].file[f] # p
           /\ \A q \in Procs, g \in Files :
                 staging'[q].file[g] =
                     IF pc[p] = "stage" /\ q = p /\ g = f /\ staging[p].file[f] = p
                     THEN Whole ELSE staging[q].file[g]
           /\ pc[p] \in {"stage", "place"}
<1>1. /\ want[p] \in Slots
      /\ slot \in [Slots -> Dir]
      /\ staging \in [Procs -> Dir]
      /\ slot[want[p]] \in Dir
      /\ staging[p] \in Dir
      /\ p # Whole
    BY CacheAssumption DEF TypeOK
<1>2. CASE pc[p] = "stage" /\ staging[p].file[f] = p
           /\ staging' = [staging EXCEPT ![p] = SetFile(@, f, Whole)] /\ UNCHANGED slot
    BY <1>1, <1>2, FileSet
<1>3. CASE pc[p] = "place" /\ slot' = [slot EXCEPT ![want[p]] = SetFile(@, f, Whole)] /\ UNCHANGED staging
    BY <1>1, <1>3, FileSet
<1>4. CASE pc[p] = "place" /\ slot[want[p]].file[f] # p /\ UNCHANGED <<slot, staging>>
    BY <1>1, <1>4
<1>5. CASE pc[p] = "stage" /\ staging[p].file[f] # p /\ UNCHANGED <<slot, staging>>
    BY <1>1, <1>5
<1> QED
    BY <1>2, <1>3, <1>4, <1>5 DEF FillFile

-----------------------------------------------------------------------------
(* Each step keeps the invariant, one lemma per part.                      *)

(* Only a slot that cannot be renamed to is copied to.                     *)
LEMMA CopiesAreSlow ==
    ASSUME StoreInv, NEW p \in Procs, RenameFails(p), StartPlacing(p)
    PROVE  want[p] \notin FastSlots /\ pc[p] = "rename"
<1>1. want[p] \in Slots /\ pc[p] = "rename" /\ ~Renamable(p)
    BY DEF StoreInv, TypeOK, RenameFails
<1>2. pc' = [pc EXCEPT ![p] = "place"] /\ pc \in [Procs -> Phases]
    BY DEF StartPlacing, Goto, StoreInv, TypeOK
<1>3. pc'[p] = "place"
    BY <1>2
<1>4. ~slot[want[p]].there /\ staging[p].there
    BY <1>2, <1>3 DEF RenameFails, Goto, Return
<1>5. slot[want[p]].file = NoFiles
    BY <1>1, <1>4 DEF StoreInv, SlotInv
<1> QED
    BY <1>1, <1>4, <1>5 DEF Renamable, FastSlots

LEMMA ProcNext == StoreInv /\ [Next]_vars => ProcInv'
<1> SUFFICES ASSUME StoreInv, [Next]_vars PROVE ProcInv'
    OBVIOUS
<1> USE CacheAssumption DEF StoreInv, TypeOK, ProcInv
<1>1. ASSUME NEW p \in Procs, NEW s \in Slots, NEW m \in {"tag", "pinned", "offline"},
             Begin(p, s, m)
      PROVE  ProcInv'
    BY <1>1 DEF Begin, disk
<1>2. ASSUME NEW p \in Procs, Download(p) PROVE ProcInv'
    BY <1>2 DEF Download, Goto, Return
<1>3. ASSUME NEW p \in Procs, LandOci(p) PROVE ProcInv'
    BY <1>3 DEF LandOci, Goto
<1>4. ASSUME NEW p \in Procs, NEW s \in Slots, StartPlacing(p), UNCHANGED want,
             pc[p] \in {"land", "rename"}, want[p] \notin FastSlots
      PROVE  ProcInv'
    BY <1>4 DEF StartPlacing, Goto
<1>5. ASSUME NEW p \in Procs, LandInPlace(p) PROVE ProcInv'
    BY <1>4, <1>5 DEF LandInPlace, Return, Goto, FastSlots
<1>6. ASSUME NEW p \in Procs, NEW f \in Files, OpenFile(p, f) PROVE ProcInv'
    BY <1>6 DEF OpenFile
<1>7. ASSUME NEW p \in Procs, NEW f \in Files, FillFile(p, f) PROVE ProcInv'
    BY <1>7 DEF FillFile
<1>8. ASSUME NEW p \in Procs, WriteFails(p) PROVE ProcInv'
    BY <1>8 DEF WriteFails, Return, Goto
<1>9. ASSUME NEW p \in Procs, Unpacked(p) PROVE ProcInv'
    BY <1>9 DEF Unpacked, Return, Goto
<1>10. ASSUME NEW p \in Procs, Rename(p) PROVE ProcInv'
    BY <1>10 DEF Rename, Goto
<1>11. ASSUME NEW p \in Procs, RenameFails(p) PROVE ProcInv'
  <2>1. CASE slot[want[p]].there
    BY <1>11, <2>1 DEF RenameFails, Goto, disk
  <2>2. CASE StartPlacing(p) /\ UNCHANGED want
    BY <1>4, <1>11, <2>2, CopiesAreSlow DEF RenameFails
  <2>3. CASE Return(p, "fail") /\ UNCHANGED want
    BY <2>3 DEF Return, Goto
  <2> QED
    BY <1>11, <2>1, <2>2, <2>3 DEF RenameFails
<1>12. ASSUME NEW p \in Procs, Seal(p) \/ FindRoot(p) PROVE ProcInv'
    BY <1>12 DEF Seal, FindRoot, Return, Goto
<1>13. ASSUME NEW p \in Procs, Crash(p) PROVE ProcInv'
    BY <1>13 DEF Crash, Return, Goto
<1>14. CASE UNCHANGED vars
    BY <1>14 DEF vars, disk
<1>15. ASSUME Clear PROVE ProcInv'
    BY <1>15, ClearTouches
<1> QED
    BY <1>1, <1>2, <1>3, <1>5, <1>6, <1>7, <1>8, <1>9, <1>10, <1>11, <1>12,
       <1>13, <1>14, <1>15 DEF Next, Run

LEMMA StageNext == StoreInv /\ [Next]_vars => StageInv'
<1> SUFFICES ASSUME StoreInv, [Next]_vars PROVE StageInv'
    OBVIOUS
<1> USE CacheAssumption DEF StoreInv, TypeOK, StageInv
<1>1. ASSUME NEW p \in Procs, NEW s \in Slots, NEW m \in {"tag", "pinned", "offline"},
             Begin(p, s, m)
      PROVE  StageInv'
    BY <1>1 DEF Begin, disk
<1>2. ASSUME NEW p \in Procs, NEW outcome, Return(p, outcome), UNCHANGED want PROVE StageInv'
  <2>1. /\ pc'[p] = "idle" /\ UNCHANGED want
        /\ \A q \in Procs \ {p} : /\ pc'[q] = pc[q] /\ left'[q] = left[q]
                                   /\ open'[q] = open[q] /\ staging'[q] = staging[q]
    BY <1>2 DEF Return, Goto
  <2> QED
    BY <2>1
<1>3. ASSUME NEW p \in Procs, Download(p) PROVE StageInv'
    BY <1>2, <1>3 DEF Download, Goto
<1>4. ASSUME NEW p \in Procs, LandOci(p) PROVE StageInv'
  <2>1. CASE slot[want[p]].there
    <3>1. pc' = [pc EXCEPT ![p] = "root"] /\ UNCHANGED <<want, staging, left, open>>
        BY <1>4, <2>1 DEF LandOci, Goto
    <3> QED
        BY <3>1
  <2>2. CASE ~slot[want[p]].there
    <3>1. /\ left'[p] = Files /\ open'[p] = {} /\ staging'[p].there /\ UNCHANGED want
          /\ \A q \in Procs \ {p} : /\ pc'[q] = pc[q] /\ left'[q] = left[q]
                                     /\ open'[q] = open[q] /\ staging'[q] = staging[q]
        BY <1>4, <2>2, FreshDirs DEF LandOci, Goto, ProcInv
    <3> QED
        BY <3>1
  <2> QED
    BY <2>1, <2>2
<1>5. ASSUME NEW p \in Procs, StartPlacing(p), UNCHANGED want PROVE StageInv'
  <2>1. /\ pc'[p] = "place" /\ UNCHANGED staging
        /\ \A q \in Procs \ {p} : /\ pc'[q] = pc[q] /\ left'[q] = left[q]
                                   /\ open'[q] = open[q]
    BY <1>5 DEF StartPlacing, Goto
  <2> QED
    BY <1>5, <2>1
<1>6. ASSUME NEW p \in Procs, NEW f \in Files, OpenFile(p, f) PROVE StageInv'
  <2>1. \A q \in Procs : staging[q].there => staging'[q].there
    BY <1>6, Opened
  <2>2. \A q \in Procs, g \in Files :
           staging'[q].file[g] = IF pc[p] = "stage" /\ q = p /\ g = f
                                 THEN p ELSE staging[q].file[g]
    BY <1>6, Opened
  <2> QED
    BY <1>6, <2>1, <2>2 DEF OpenFile
<1>7. ASSUME NEW p \in Procs, NEW f \in Files, FillFile(p, f) PROVE StageInv'
  <2>1. \A q \in Procs : staging[q].there => staging'[q].there
    BY <1>7, Filled
  <2>2. \A q \in Procs, g \in Files :
           staging'[q].file[g] =
               IF pc[p] = "stage" /\ q = p /\ g = f /\ staging[p].file[f] = p
               THEN Whole ELSE staging[q].file[g]
    BY <1>7, Filled
  <2> QED
    BY <1>7, <2>1, <2>2 DEF FillFile, ProcInv
<1>8. ASSUME NEW p \in Procs, Unpacked(p) PROVE StageInv'
    BY <1>2, <1>8 DEF Unpacked, Goto
<1>9. ASSUME NEW p \in Procs, Rename(p) PROVE StageInv'
    BY <1>9 DEF Rename, Goto
<1>10. ASSUME NEW p \in Procs, RenameFails(p) PROVE StageInv'
    BY <1>2, <1>5, <1>10 DEF RenameFails, Goto, disk
<1>11. CASE UNCHANGED vars
    BY <1>11 DEF vars, disk
<1>12. ASSUME NEW p \in Procs, LandInPlace(p) PROVE StageInv'
    BY <1>2, <1>5, <1>12 DEF LandInPlace
<1>13. ASSUME Clear PROVE StageInv'
    BY <1>13, ClearTouches
<1> QED
    BY <1>1, <1>2, <1>3, <1>4, <1>6, <1>7, <1>8, <1>9, <1>10, <1>11, <1>12, <1>13
       DEF Next, Run, WriteFails, Seal, FindRoot, Crash

LEMMA SlotNext == StoreInv /\ [Next]_vars => SlotInv'
<1> SUFFICES ASSUME StoreInv, [Next]_vars PROVE SlotInv'
    OBVIOUS
<1> USE CacheAssumption DEF StoreInv, TypeOK, SlotInv
<1>1. CASE UNCHANGED slot
    BY <1>1 DEF Complete
<1>2. ASSUME NEW p \in Procs, StartPlacing(p), want[p] \notin RenamedSlots
      PROVE  SlotInv'
    BY <1>2 DEF StartPlacing, Complete, RenamedSlots, Slots, Dir
<1>3. ASSUME NEW p \in Procs, LandInPlace(p) PROVE SlotInv'
    BY <1>1, <1>2, <1>3 DEF LandInPlace, RenamedSlots
<1>4. ASSUME NEW p \in Procs, NEW f \in Files, OpenFile(p, f) PROVE SlotInv'
  <2>1. \A s \in RenamedSlots : slot'[s] = slot[s]
    BY <1>4, FileSet DEF OpenFile, ProcInv, RenamedSlots, FastSlots, Slots
  <2>2. \A s \in Slots : ~slot'[s].there => slot'[s] = slot[s]
    BY <1>4, Opened
  <2> QED
    BY <2>1, <2>2, Opened, <1>4 DEF Complete, RenamedSlots, Slots
<1>5. ASSUME NEW p \in Procs, NEW f \in Files, FillFile(p, f) PROVE SlotInv'
  <2>1. \A s \in RenamedSlots : slot'[s] = slot[s]
    BY <1>5, FileSet DEF FillFile, ProcInv, RenamedSlots, FastSlots, Slots
  <2>2. \A s \in Slots : ~slot'[s].there => slot'[s] = slot[s]
    BY <1>5, Filled
  <2> QED
    BY <2>1, <2>2, Filled, <1>5 DEF Complete, RenamedSlots, Slots
<1>6. ASSUME NEW p \in Procs, Rename(p) PROVE SlotInv'
  <2>1. staging[p].there /\ (want[p] \in RenamedSlots => Complete(staging[p]))
    BY <1>6 DEF Rename, Renamable, StageInv, ProcInv, Complete, RenamedSlots
  <2> QED
    BY <1>6, <2>1 DEF Rename, Complete, RenamedSlots, Slots
<1>7. ASSUME NEW p \in Procs, RenameFails(p) PROVE SlotInv'
  <2>1. CASE UNCHANGED slot
    BY <1>1, <2>1
  <2>2. CASE StartPlacing(p)
    BY <1>2, <1>7, <2>2, CopiesAreSlow DEF FastSlots, RenamedSlots
  <2>3. CASE slot' = [slot EXCEPT ![want[p]].there = TRUE]
    BY <2>3 DEF Complete, RenamedSlots, Slots, Dir
  <2> QED
    BY <1>7, <2>1, <2>2, <2>3 DEF RenameFails, disk
<1>8. ASSUME Clear PROVE SlotInv'
  <2>1. \A s \in RenamedSlots : slot'[s] = slot[s]
    BY <1>8, ClearTouches DEF RenamedSlots, Slots
  <2>2. ASSUME NEW t \in Slots, ~slot'[t].there PROVE slot'[t].file = NoFiles
    <3>1. ASSUME NEW s \in Slots, NEW f \in Files, ClearFile(s, f)
          PROVE  slot'[t] = slot[t]
        BY <2>2, <3>1, FileSet DEF ClearFile
    <3>2. ASSUME NEW s \in Slots, ClearSentinel(s) \/ ClearDir(s)
          PROVE  slot'[t] \in {slot[t], Absent}
        BY <3>2 DEF ClearSentinel, ClearDir
    <3>3. ASSUME NEW p \in Procs, ClearPull(p) PROVE slot'[t] = slot[t]
        BY <3>3 DEF ClearPull, ClearStaged, ClearStaging
    <3> QED
        BY <1>8, <2>2, <3>1, <3>2, <3>3, ClearedSlots, FreshDirs DEF Clear, ClearSlot
  <2> QED
    BY <2>1, <2>2 DEF Complete
<1> QED
    BY <1>1, <1>3, <1>4, <1>5, <1>6, <1>7, <1>8
       DEF Next, Run, vars, disk, Begin, Download, LandOci, WriteFails, Unpacked,
           Seal, FindRoot, Crash

LEMMA StoreInvariant == Spec => []StoreInv
<1>1. StoreInv /\ [Next]_vars => StoreInv'
    BY TypeNext, ProcNext, StageNext, SlotNext DEF StoreInv
<1> QED
    BY <1>1, InitStore, PTL DEF Spec

(* Every reachable state of every instance is well typed.                  *)
THEOREM CacheTypeCorrect == Spec => []TypeOK
<1>1. StoreInv => TypeOK
    BY DEF StoreInv
<1> QED
    BY <1>1, StoreInvariant, PTL
-----------------------------------------------------------------------------
(* The refinement: what the mapping makes of a step.                       *)

InStore == {s \in RenamedSlots : Complete(slot[s])}
Held == [p \in Procs |-> IF result[p] = "ok" THEN {want[p]} \cap RenamedSlots ELSE {}]

(* A slot that a rename fills is whole as soon as it shows a marker.       *)
LEMMA MarkedIsWhole ==
    ASSUME StoreInv, NEW s \in RenamedSlots, HasMarker(slot[s])
    PROVE  Complete(slot[s])
BY CacheAssumption DEF StoreInv, SlotInv, HasMarker, NoFiles

(* A fetch of s ends, or begins and ends at once.                          *)
LEMMA EndIsAbstract ==
    ASSUME TypeOK, NEW p \in Procs, NEW s \in Slots, NEW x,
           \A t \in RenamedSlots : slot'[t].file = slot[t].file,
           result' = [result EXCEPT ![p] = x], want' = [want EXCEPT ![p] = s],
           x = "ok" /\ s \in RenamedSlots => Complete(slot[s])
    PROVE  Store!Next
<1>1. InStore' = InStore
    BY DEF InStore, Complete
<1>2. Held' = [Held EXCEPT ![p] = IF x = "ok" THEN {s} \cap RenamedSlots ELSE {}]
    BY DEF TypeOK, Held
<1>3. CASE x = "ok" /\ s \in RenamedSlots
  <2>1. Held' = [Held EXCEPT ![p] = {s}]
    BY <1>2, <1>3
  <2>2. Store!Hand(p, s)
    BY <1>1, <1>3, <2>1 DEF Store!Hand, InStore, Held
  <2> QED
    BY <1>3, <2>2 DEF Store!Next
<1>4. CASE ~(x = "ok" /\ s \in RenamedSlots)
  <2>1. Held' = [Held EXCEPT ![p] = {}]
    BY <1>2, <1>4
  <2>2. Store!Release(p)
    BY <1>1, <2>1 DEF Store!Release, InStore, Held
  <2> QED
    BY <2>2 DEF Store!Next
<1> QED
    BY <1>3, <1>4

(* A step that fills no slot of the store and ends no fetch is invisible.  *)
LEMMA OtherIsStutter ==
    ASSUME UNCHANGED <<result, want>>, \A s \in RenamedSlots : slot'[s] = slot[s]
    PROVE  UNCHANGED Store!vars
<1>1. InStore' = InStore
    BY DEF InStore, Complete
<1>2. Held' = Held
    BY DEF Held
<1> QED
    BY <1>1, <1>2 DEF Store!vars, InStore, Held

LEMMA StepIsAbstract == StoreInv /\ [Next]_vars => [Store!Next]_(Store!vars)
<1> SUFFICES ASSUME StoreInv, [Next]_vars PROVE [Store!Next]_(Store!vars)
    OBVIOUS
<1>t. TypeOK /\ ProcInv
    BY DEF StoreInv
<1>1. ASSUME NEW p \in Procs, NEW s \in Slots, NEW m \in {"tag", "pinned", "offline"},
             Begin(p, s, m)
      PROVE  Store!Next
  <2> DEFINE x == IF LooksFirst(s, m) /\ Usable(s) THEN "ok"
                  ELSE IF m = "offline" THEN "fail" ELSE "none"
  <2>1. result' = [result EXCEPT ![p] = x] /\ (x = "ok" => Usable(s))
    BY <1>1 DEF Begin
  <2>2. x = "ok" /\ s \in RenamedSlots => Complete(slot[s])
    BY <2>1, MarkedIsWhole, CacheAssumption DEF Usable, RenamedSlots
  <2> QED
    BY <1>1, <1>t, <2>1, <2>2, EndIsAbstract DEF Begin, disk
<1>2. ASSUME NEW p \in Procs, NEW x \in {"ok", "fail", "crashed"}, Return(p, x),
             UNCHANGED <<slot, want>>,
             x = "ok" /\ want[p] \in RenamedSlots => Complete(slot[want[p]])
      PROVE  Store!Next
  <2>1. want[p] \in Slots /\ want' = [want EXCEPT ![p] = want[p]]
    BY <1>2, <1>t DEF TypeOK
  <2> QED
    BY <1>2, <1>t, <2>1, EndIsAbstract DEF Return
<1>3. ASSUME NEW p \in Procs, Rename(p), want[p] \notin Cleared PROVE Store!Next
  <2>1. want[p] \in RenamedSlots /\ Complete(staging[p])
    BY <1>3, <1>t DEF Rename, Renamable, RenamedSlots, ProcInv, StoreInv, StageInv, Complete
  <2>2. InStore' = InStore \cup {want[p]}
    BY <1>3, <1>t, <2>1 DEF Rename, InStore, Complete, TypeOK, RenamedSlots, Slots
  <2>3. Held' = Held
    BY <1>3 DEF Rename, Held
  <2>4. Store!Put(want[p])
    BY <2>2, <2>3 DEF Store!Put, InStore, Held
  <2> QED
    BY <2>1, <2>4 DEF Store!Next
<1>4. ASSUME NEW p \in Procs, StartPlacing(p), UNCHANGED want, want[p] \notin RenamedSlots
      PROVE  UNCHANGED Store!vars
    BY <1>4, <1>t, OtherIsStutter DEF StartPlacing, TypeOK, RenamedSlots, Slots
<1>5. ASSUME NEW p \in Procs, LandInPlace(p) PROVE Store!Next \/ UNCHANGED Store!vars
    BY <1>2, <1>4, <1>5 DEF LandInPlace, RenamedSlots
<1>6. ASSUME NEW p \in Procs, RenameFails(p) PROVE Store!Next \/ UNCHANGED Store!vars
  <2>1. CASE slot[want[p]].there
    BY <1>6, <2>1, OtherIsStutter DEF RenameFails, disk
  <2>2. CASE StartPlacing(p) /\ UNCHANGED want
    BY <1>4, <1>6, <2>2, CopiesAreSlow DEF FastSlots, RenamedSlots
  <2>3. CASE /\ slot' = [slot EXCEPT ![want[p]].there = TRUE]
             /\ Return(p, "fail") /\ UNCHANGED want
    <3>1. \A s \in RenamedSlots : slot'[s].file = slot[s].file
        BY <2>3, <1>t DEF TypeOK, RenamedSlots, Slots, Dir
    <3>2. want[p] \in Slots /\ want' = [want EXCEPT ![p] = want[p]]
        BY <2>3, <1>t DEF TypeOK
    <3> QED
        BY <2>3, <3>1, <3>2, <1>t, EndIsAbstract DEF Return
  <2> QED
    BY <1>6, <2>1, <2>2, <2>3 DEF RenameFails
<1>7. ASSUME NEW p \in Procs, NEW f \in Files, OpenFile(p, f) \/ FillFile(p, f)
      PROVE  UNCHANGED Store!vars
  <2>1. \A s \in RenamedSlots : slot'[s] = slot[s]
    BY <1>7, <1>t DEF OpenFile, FillFile, ProcInv, TypeOK, FastSlots, RenamedSlots, Slots
  <2> QED
    BY <1>7, <2>1, OtherIsStutter DEF OpenFile, FillFile
<1>8. ASSUME NEW p \in Procs, Unpacked(p) PROVE Store!Next \/ UNCHANGED Store!vars
    BY <1>2, <1>8, OtherIsStutter, CacheAssumption DEF Unpacked, RenamedSlots
<1>9. ASSUME NEW p \in Procs, Download(p) PROVE Store!Next \/ UNCHANGED Store!vars
    BY <1>2, <1>9, OtherIsStutter DEF Download
<1>10. ASSUME NEW p \in Procs, LandOci(p) PROVE UNCHANGED Store!vars
    BY <1>10, OtherIsStutter DEF LandOci
<1>11. ASSUME NEW p \in Procs, Seal(p) PROVE Store!Next
    BY <1>2, <1>11, <1>t, CacheAssumption DEF Seal, ProcInv, RenamedSlots
<1>12. ASSUME NEW p \in Procs, FindRoot(p) PROVE Store!Next
    BY <1>2, <1>12, MarkedIsWhole DEF FindRoot
<1>13. ASSUME NEW p \in Procs, WriteFails(p) \/ Crash(p) PROVE Store!Next
    BY <1>2, <1>13 DEF WriteFails, Crash
<1>14. CASE UNCHANGED vars
    BY <1>14, OtherIsStutter DEF vars, disk
<1>15. ASSUME Clear PROVE UNCHANGED Store!vars
  <2>1. UNCHANGED <<result, want>> /\ \A s \in Slots \ Cleared : slot'[s] = slot[s]
    BY <1>15, <1>t, ClearTouches
  <2> QED
    BY <2>1, OtherIsStutter DEF RenamedSlots, Slots
<1>16. ASSUME NEW p \in Procs, Rename(p), want[p] \in Cleared PROVE UNCHANGED Store!vars
    BY <1>16, <1>t, OtherIsStutter DEF Rename, TypeOK, RenamedSlots, Slots
<1> QED
    BY <1>1, <1>3, <1>5, <1>6, <1>7, <1>8, <1>9, <1>10, <1>11, <1>12, <1>13, <1>14,
       <1>15, <1>16
       DEF Next, Run

(* The OCI slots that a rename can fill, and nobody clears, implement      *)
(* PackageStore: filled in one step, never touched again, and nothing else *)
(* is handed out, for any number of racing and dying fetches               *)
(* (extract_blob, find_package_root).                                      *)
THEOREM OciImplementsStore == Spec => StoreSpec
<1>1. Init => Store!Init
  <2> SUFFICES ASSUME Init PROVE Store!Init
    OBVIOUS
  <2>1. InStore = {}
    BY CacheAssumption, TwoStates DEF Init, InStore, Complete, Absent, NoFiles,
                                      RenamedSlots, Slots
  <2>2. Held = [p \in Procs |-> {}]
    BY DEF Init, Held
  <2> QED
    BY <2>1, <2>2 DEF Store!Init, InStore, Held
<1> QED
    BY <1>1, StepIsAbstract, StoreInvariant, PTL DEF Spec, StoreSpec, Store!Spec
-----------------------------------------------------------------------------
(* What is usable is whole.  A writer in place answers for every file that *)
(* it has opened: the file is whole, or open in the hands of a writer that *)
(* is still there, or the slot is spoiled.                                 *)

FileSound(s, f) ==
    \/ slot[s].file[f] = Whole
    \/ s \in spoiled
    \/ \E q \in Procs : Placing(q, s) /\ f \in open[q] /\ slot[s].file[f] = q

PlaceInv ==
    \A p \in Procs, f \in Files :
        pc[p] = "place" /\ f \notin left[p] => FileSound(want[p], f)

(* A slot that is usable, or will be at the next step.                     *)
Kept(s) ==
    IF s \in GitSlots THEN s \in sealed \/ \E p \in Procs : pc[p] = "seal" /\ want[p] = s
    ELSE slot[s].file # NoFiles

SlotSound(s) ==
    \/ Complete(slot[s])
    \/ s \in spoiled
    \/ \E p \in Procs : Placing(p, s)

KeptInv == \A s \in Slots : Kept(s) => SlotSound(s)

WholeInv == PlaceInv /\ KeptInv

LEMMA InitWhole == Init => WholeInv
BY FreshDirs DEF Init, WholeInv, PlaceInv, KeptInv, Kept

(* Steps that neither write nor stop writing in a slot.                    *)
LEMMA QuietStep ==
    ASSUME StoreInv, WholeInv, spoiled \subseteq spoiled',
           \A s \in Slots : slot'[s].file = slot[s].file,
           \A q \in Procs : /\ pc'[q] = "place" <=> pc[q] = "place"
                            /\ pc[q] = "place" => /\ want'[q] = want[q]
                                                  /\ left'[q] = left[q]
                                                  /\ open'[q] = open[q],
           \A s \in Slots : Kept(s)' => Kept(s)
    PROVE  WholeInv'
<1>1. PlaceInv'
    BY DEF WholeInv, PlaceInv, FileSound, Placing, StoreInv, TypeOK
<1>2. KeptInv'
    BY DEF WholeInv, KeptInv, SlotSound, Placing, Complete
<1> QED
    BY <1>1, <1>2 DEF WholeInv

(* The same for one process.                                               *)
LEMMA QuietProcess ==
    ASSUME StoreInv, WholeInv, NEW p \in Procs, NEW phase \in Phases,
           pc[p] # "place", phase \notin {"place", "seal"},
           pc' = [pc EXCEPT ![p] = phase],
           UNCHANGED sealed, spoiled \subseteq spoiled',
           \A s \in Slots : slot'[s].file = slot[s].file,
           \A q \in Procs \ {p} : /\ want'[q] = want[q]
                                  /\ left'[q] = left[q]
                                  /\ open'[q] = open[q]
    PROVE  WholeInv'
<1>1. \A q \in Procs : pc'[q] = IF q = p THEN phase ELSE pc[q]
    BY DEF StoreInv, TypeOK
<1>2. \A s \in Slots : Kept(s)' => Kept(s)
    BY <1>1 DEF Kept
<1> QED
    BY <1>1, <1>2, QuietStep

LEMMA PlacingStep ==
    ASSUME StoreInv, WholeInv, NEW p \in Procs, StartPlacing(p), UNCHANGED want,
           pc[p] \in {"land", "rename"}
    PROVE  WholeInv'
<1> DEFINE s == want[p]
<1>t. s \in Slots
    BY DEF StoreInv, TypeOK
<1>1. \A q \in Procs : pc'[q] = IF q = p THEN "place" ELSE pc[q]
    BY DEF StoreInv, TypeOK, StartPlacing, Goto
<1>2. \A t \in Slots : slot'[t].file = slot[t].file
    BY <1>t DEF StoreInv, TypeOK, StartPlacing, Dir
<1>3. \A t \in Slots : t # s => (t \in spoiled' <=> t \in spoiled)
    BY DEF StartPlacing
<1>4. \A q \in Procs : q # p /\ Placing(q, s) => spoiled' = spoiled
    BY DEF StartPlacing, Alone, Placing, Writing
<1>5. left' = [left EXCEPT ![p] = Files] /\ open' = open
    BY DEF StartPlacing
<1>6. PlaceInv'
  <2> SUFFICES ASSUME NEW q \in Procs, NEW f \in Files, pc'[q] = "place", f \notin left'[q]
               PROVE  FileSound(want[q], f)'
    BY DEF PlaceInv
  <2>1. q # p
    BY <1>5 DEF StoreInv, TypeOK
  <2>2. pc[q] = "place" /\ f \notin left[q] /\ want[q] \in Slots
    BY <1>1, <1>5, <2>1 DEF StoreInv, TypeOK
  <2>3. FileSound(want[q], f)
    BY <2>2 DEF WholeInv, PlaceInv
  <2>4. slot'[want[q]].file[f] = slot[want[q]].file[f] /\ want'[q] = want[q]
    BY <1>2, <2>2
  <2>5. want[q] \in spoiled => want[q] \in spoiled'
    BY <1>3, <1>4, <2>1, <2>2 DEF Placing
  <2>6. \A r \in Procs : Placing(r, want[q]) => Placing(r, want[q])'
    BY <1>1 DEF Placing
  <2> QED
    BY <1>5, <2>3, <2>4, <2>5, <2>6 DEF FileSound
<1>7. KeptInv'
  <2> SUFFICES ASSUME NEW t \in Slots, Kept(t)' PROVE SlotSound(t)'
    BY DEF KeptInv
  <2>1. CASE t = s
    BY <1>1, <2>1 DEF SlotSound, Placing
  <2>2. CASE t # s
    <3>1. Kept(t)
        BY <1>1, <1>2 DEF Kept, StartPlacing
    <3>2. SlotSound(t)
        BY <3>1 DEF WholeInv, KeptInv
    <3> QED
        BY <1>1, <1>2, <1>3, <2>2, <3>2 DEF SlotSound, Complete, Placing
  <2> QED
    BY <2>1, <2>2
<1> QED
    BY <1>6, <1>7 DEF WholeInv

(* A writer that is done leaves only files that are whole, or that another *)
(* writer has open.                                                        *)
LEMMA LeavingStep ==
    ASSUME StoreInv, WholeInv, NEW p \in Procs, NEW phase \in Phases,
           pc[p] = "place", left[p] = {}, open[p] = {}, phase # "place",
           pc' = [pc EXCEPT ![p] = phase],
           UNCHANGED <<slot, sealed, spoiled, want>>,
           \A q \in Procs \ {p} : left'[q] = left[q] /\ open'[q] = open[q]
    PROVE  WholeInv'
<1> DEFINE s == want[p]
<1>1. \A q \in Procs : pc'[q] = IF q = p THEN phase ELSE pc[q]
    BY DEF StoreInv, TypeOK
<1>2. \A t \in Slots, f \in Files : FileSound(t, f) => FileSound(t, f)'
    BY <1>1 DEF FileSound, Placing
<1>3. PlaceInv'
  <2> SUFFICES ASSUME NEW q \in Procs, NEW f \in Files, pc'[q] = "place", f \notin left'[q]
               PROVE  FileSound(want[q], f)'
    BY DEF PlaceInv
  <2>1. q # p /\ pc[q] = "place" /\ f \notin left[q] /\ want[q] \in Slots
    BY <1>1 DEF StoreInv, TypeOK
  <2>2. FileSound(want[q], f)
    BY <2>1 DEF WholeInv, PlaceInv
  <2> QED
    BY <1>2, <2>1, <2>2
<1>4. KeptInv'
  <2> SUFFICES ASSUME NEW t \in Slots, Kept(t)' PROVE SlotSound(t)'
    BY DEF KeptInv
  <2>1. CASE t = s
    <3>1. \A f \in Files : FileSound(s, f)'
        BY <1>2, <2>1 DEF WholeInv, PlaceInv
    <3> QED
        BY <2>1, <3>1 DEF FileSound, SlotSound, Complete
  <2>2. CASE t # s
    <3>1. Kept(t)
        BY <1>1, <2>2 DEF Kept
    <3>2. SlotSound(t)
        BY <3>1 DEF WholeInv, KeptInv
    <3> QED
        BY <1>1, <2>2, <3>2 DEF SlotSound, Complete, Placing
  <2> QED
    BY <2>1, <2>2
<1> QED
    BY <1>3, <1>4 DEF WholeInv

(* One that stops half way spoils its slot, unless nobody else relies on   *)
(* what is there.                                                          *)
LEMMA DyingStep ==
    ASSUME StoreInv, WholeInv, NEW p \in Procs, NEW x, pc[p] = "place", Return(p, x),
           spoiled' = spoiled \cup SpoiledBy(p), UNCHANGED <<slot, sealed, want>>
    PROVE  WholeInv'
<1> DEFINE s == want[p]
<1>1. \A q \in Procs : pc'[q] = IF q = p THEN "idle" ELSE pc[q]
    BY DEF StoreInv, TypeOK, Return, Goto
<1>2. \A q \in Procs \ {p} : left'[q] = left[q] /\ open'[q] = open[q]
    BY DEF StoreInv, TypeOK, Return
<1>3. \/ s \in spoiled'
      \/ s \in GitSlots /\ s \notin sealed /\ \A q \in Procs \ {p} : ~Writing(q, s)
    BY DEF SpoiledBy, Placing, Alone
<1>4. PlaceInv'
  <2> SUFFICES ASSUME NEW q \in Procs, NEW f \in Files, pc'[q] = "place", f \notin left'[q]
               PROVE  FileSound(want[q], f)'
    BY DEF PlaceInv
  <2>1. q # p /\ pc[q] = "place" /\ f \notin left[q]
    BY <1>1, <1>2
  <2>2. FileSound(want[q], f)
    BY <2>1 DEF WholeInv, PlaceInv
  <2>3. CASE want[q] = s
    BY <1>3, <2>1, <2>3 DEF Writing, FileSound
  <2>4. CASE want[q] # s
    BY <1>1, <1>2, <2>2, <2>4 DEF FileSound, Placing
  <2> QED
    BY <2>3, <2>4
<1>5. KeptInv'
  <2> SUFFICES ASSUME NEW t \in Slots, Kept(t)' PROVE SlotSound(t)'
    BY DEF KeptInv
  <2>1. CASE t = s
    BY <1>1, <1>3, <2>1 DEF Kept, SlotSound, Writing
  <2>2. CASE t # s
    <3>1. Kept(t)
        BY <1>1 DEF Kept
    <3>2. SlotSound(t)
        BY <3>1 DEF WholeInv, KeptInv
    <3> QED
        BY <1>1, <2>2, <3>2 DEF SlotSound, Complete, Placing
  <2> QED
    BY <2>1, <2>2
<1> QED
    BY <1>4, <1>5 DEF WholeInv

(* While somebody writes in a slot it may hold anything; what matters is   *)
(* that each file keeps an owner.                                          *)
LEMMA WritingStep ==
    ASSUME StoreInv, WholeInv, NEW p \in Procs, pc[p] = "place",
           UNCHANGED <<pc, sealed, spoiled, want>>,
           \A t \in Slots : t # want[p] => slot'[t] = slot[t],
           PlaceInv'
    PROVE  WholeInv'
<1>1. SUFFICES ASSUME NEW t \in Slots, Kept(t)' PROVE SlotSound(t)'
    BY DEF WholeInv, KeptInv
<1>2. CASE t = want[p]
    BY <1>2 DEF SlotSound, Placing
<1>3. CASE t # want[p]
  <2>1. Kept(t)
    BY <1>1, <1>3 DEF Kept
  <2>2. SlotSound(t)
    BY <2>1 DEF WholeInv, KeptInv
  <2> QED
    BY <1>3, <2>2 DEF SlotSound, Complete, Placing
<1> QED
    BY <1>2, <1>3

LEMMA OpenStep ==
    ASSUME StoreInv, WholeInv, NEW p \in Procs, NEW f \in Files, OpenFile(p, f),
           pc[p] = "place"
    PROVE  WholeInv'
<1>t. TypeOK
    BY DEF StoreInv
<1>1. \A s \in Slots, g \in Files :
         slot'[s].file[g] = IF s = want[p] /\ g = f THEN p ELSE slot[s].file[g]
    BY <1>t, Opened
<1>2. /\ open' = [open EXCEPT ![p] = {f}] /\ open[p] = {}
      /\ left' = [left EXCEPT ![p] = @ \ {f}]
      /\ UNCHANGED <<pc, sealed, spoiled, want>>
      /\ \A t \in Slots : t # want[p] => slot'[t] = slot[t]
    BY <1>t DEF OpenFile, TypeOK
<1>3. PlaceInv'
  <2> SUFFICES ASSUME NEW q \in Procs, NEW g \in Files, pc'[q] = "place", g \notin left'[q]
               PROVE  FileSound(want[q], g)'
    BY DEF PlaceInv
  <2>0. want[q] \in Slots
    BY <1>t DEF TypeOK
  <2>1. CASE want[q] = want[p] /\ g = f
    BY <1>1, <1>2, <1>t, <2>0, <2>1 DEF FileSound, Placing, TypeOK
  <2>2. CASE ~(want[q] = want[p] /\ g = f)
    <3>1. g \notin left[q]
        BY <1>2, <1>t, <2>2 DEF TypeOK
    <3>2. FileSound(want[q], g)
        BY <1>2, <3>1 DEF WholeInv, PlaceInv
    <3>3. slot'[want[q]].file[g] = slot[want[q]].file[g]
        BY <1>1, <2>0, <2>2
    <3>4. \A r \in Procs : g \in open[r] => open'[r] = open[r]
        BY <1>2, <1>t DEF TypeOK
    <3> QED
        BY <1>2, <3>2, <3>3, <3>4 DEF FileSound, Placing
  <2> QED
    BY <2>1, <2>2
<1> QED
    BY <1>2, <1>3, WritingStep

LEMMA FillStep ==
    ASSUME StoreInv, WholeInv, NEW p \in Procs, NEW f \in Files, FillFile(p, f),
           pc[p] = "place"
    PROVE  WholeInv'
<1>t. TypeOK
    BY DEF StoreInv
<1>1. \A s \in Slots, g \in Files :
         slot'[s].file[g] = slot[s].file[g] \/ slot'[s].file[g] = Whole
    BY <1>t, Filled
<1>2. slot'[want[p]].file[f] # p
    BY <1>t, Filled
<1>3. /\ open' = [open EXCEPT ![p] = {}] /\ f \in open[p]
      /\ UNCHANGED <<left, pc, sealed, spoiled, want>>
      /\ \A t \in Slots : t # want[p] => slot'[t] = slot[t]
    BY <1>t DEF FillFile, TypeOK
<1>4. PlaceInv'
  <2> SUFFICES ASSUME NEW q \in Procs, NEW g \in Files, pc'[q] = "place", g \notin left'[q]
               PROVE  FileSound(want[q], g)'
    BY DEF PlaceInv
  <2>0. want[q] \in Slots
    BY <1>t DEF TypeOK
  <2>1. FileSound(want[q], g)
    BY <1>3 DEF WholeInv, PlaceInv
  <2>2. CASE slot'[want[q]].file[g] = Whole
    BY <1>3, <2>2 DEF FileSound
  <2>3. CASE slot'[want[q]].file[g] # Whole
    <3>1. slot'[want[q]].file[g] = slot[want[q]].file[g]
        BY <1>1, <2>0, <2>3
    <3>2. ASSUME NEW r \in Procs, Placing(r, want[q]), g \in open[r],
                 slot[want[q]].file[g] = r
          PROVE  r # p
      <4>1. r = p => g = f /\ want[q] = want[p]
        BY <1>3, <3>2 DEF StoreInv, ProcInv, Placing
      <4> QED
        BY <1>2, <3>1, <3>2, <4>1
    <3>3. \A r \in Procs \ {p} : open'[r] = open[r]
        BY <1>3, <1>t DEF TypeOK
    <3> QED
        BY <1>3, <2>1, <2>3, <3>1, <3>2, <3>3 DEF FileSound, Placing
  <2> QED
    BY <2>2, <2>3
<1> QED
    BY <1>3, <1>4, WritingStep

(* A rename brings a whole package, or what a clear has left of it, into a *)
(* slot where nobody writes.                                               *)
LEMMA RenameStep ==
    ASSUME StoreInv, WholeInv, NEW p \in Procs, Rename(p)
    PROVE  WholeInv'
<1> DEFINE s == want[p]
<1>1. s \in FastSlots /\ s \in Slots
    BY DEF Rename, Renamable, FastSlots, ProcInv, StoreInv, TypeOK
<1>2. \A q \in Procs : pc'[q] = IF q = p THEN "root" ELSE pc[q]
    BY DEF StoreInv, TypeOK, Rename, Goto
<1>3. slot'[s] = staging[p] /\ \A t \in Slots : t # s => slot'[t] = slot[t]
    BY <1>1 DEF Rename, StoreInv, TypeOK
<1>6. /\ Complete(staging[p]) \/ s \in spoiled'
      /\ \A t \in Slots : t # s /\ t \in spoiled => t \in spoiled'
    BY DEF Rename
<1>4. PlaceInv'
  <2> SUFFICES ASSUME NEW q \in Procs, NEW f \in Files, pc'[q] = "place", f \notin left'[q]
               PROVE  FileSound(want[q], f)'
    BY DEF PlaceInv
  <2>1. pc[q] = "place" /\ f \notin left[q] /\ want[q] # s /\ want[q] \in Slots
    BY <1>1, <1>2 DEF Rename, StoreInv, ProcInv, TypeOK
  <2>2. FileSound(want[q], f)
    BY <2>1 DEF WholeInv, PlaceInv
  <2> QED
    BY <1>2, <1>3, <1>6, <2>1, <2>2 DEF FileSound, Placing, Rename
<1>5. KeptInv'
  <2> SUFFICES ASSUME NEW t \in Slots, Kept(t)' PROVE SlotSound(t)'
    BY DEF KeptInv
  <2>1. CASE t = s
    BY <1>1, <1>3, <1>6, <2>1 DEF SlotSound, Complete
  <2>2. CASE t # s
    <3>1. Kept(t)
        BY <1>2, <1>3, <2>2 DEF Kept, Rename
    <3>2. SlotSound(t)
        BY <3>1 DEF WholeInv, KeptInv
    <3> QED
        BY <1>2, <1>3, <1>6, <2>2, <3>2 DEF SlotSound, Complete, Placing, Rename
  <2> QED
    BY <2>1, <2>2
<1> QED
    BY <1>4, <1>5 DEF WholeInv

(* What a clear takes files from is spoiled, or of no use to anybody.      *)
LEMMA TakingStep ==
    ASSUME StoreInv, WholeInv, NEW s \in Slots, UNCHANGED <<pc, want, left, open, sealed>>,
           \A t \in Slots : t # s => slot'[t] = slot[t] /\ (t \in spoiled => t \in spoiled'),
           s \in spoiled' \/ (~Kept(s)' /\ \A q \in Procs : ~Placing(q, s))
    PROVE  WholeInv'
<1>1. PlaceInv'
  <2> SUFFICES ASSUME NEW q \in Procs, NEW f \in Files, pc'[q] = "place", f \notin left'[q]
               PROVE  FileSound(want[q], f)'
    BY DEF PlaceInv
  <2>1. want[q] \in Slots /\ FileSound(want[q], f)
    BY DEF WholeInv, PlaceInv, StoreInv, TypeOK
  <2> QED
    BY <2>1 DEF FileSound, Placing
<1>2. KeptInv'
  <2> SUFFICES ASSUME NEW t \in Slots, Kept(t)' PROVE SlotSound(t)'
    BY DEF KeptInv
  <2>1. CASE t = s
    BY <2>1 DEF SlotSound
  <2>2. CASE t # s
    BY <2>2 DEF Kept, WholeInv, KeptInv, SlotSound, Complete, Placing
  <2> QED
    BY <2>1, <2>2
<1> QED
    BY <1>1, <1>2 DEF WholeInv

LEMMA ClearStep ==
    ASSUME StoreInv, WholeInv, Clear
    PROVE  WholeInv'
<1>1. UNCHANGED <<pc, want, left, open>>
    BY ClearTouches DEF StoreInv
<1>2. ASSUME NEW s \in Slots, NEW f \in Files, ClearFile(s, f) PROVE WholeInv'
  <2>1. s \in spoiled' \/ (~Kept(s)' /\ \A q \in Procs : ~Placing(q, s))
    BY <1>2 DEF ClearFile, Kept, Writing, Placing
  <2> QED
    BY <1>1, <1>2, <2>1, TakingStep DEF ClearFile
<1>3. ASSUME NEW s \in Slots, ClearDir(s) PROVE WholeInv'
  <2>1. CASE \A q \in Procs : ~Writing(q, s)
    <3>1. slot'[s].file = NoFiles /\ UNCHANGED sealed /\ s \notin sealed
        BY <1>3, FreshDirs DEF ClearDir, StoreInv, TypeOK
    <3>2. ~Kept(s)' /\ \A q \in Procs : ~Placing(q, s)
        BY <1>1, <2>1, <3>1 DEF Kept, Writing, Placing
    <3> QED
        BY <1>1, <1>3, <3>1, <3>2, TakingStep DEF ClearDir
  <2>2. CASE ~\A q \in Procs : ~Writing(q, s)
    <3>1. UNCHANGED <<sealed, spoiled>>
        BY <1>3, <2>2 DEF ClearDir
    <3>2. \A t \in Slots : slot'[t].file = slot[t].file
        BY <1>3, FreshDirs DEF ClearDir, StoreInv, TypeOK
    <3> QED
        BY <1>1, <3>1, <3>2, QuietStep DEF Kept
  <2> QED
    BY <2>1, <2>2
<1>4. ASSUME NEW s \in Slots, ClearSentinel(s) PROVE WholeInv'
  <2>1. \A t \in Slots : Kept(t)' => Kept(t)
    BY <1>4 DEF ClearSentinel, Kept
  <2> QED
    BY <1>1, <1>4, <2>1, QuietStep DEF ClearSentinel
<1>5. ASSUME NEW p \in Procs, ClearPull(p) PROVE WholeInv'
  <2>1. UNCHANGED <<slot, sealed, spoiled>>
    BY <1>5 DEF ClearPull, ClearStaged, ClearStaging
  <2> QED
    BY <1>1, <2>1, QuietStep DEF Kept
<1> QED
    BY <1>2, <1>3, <1>4, <1>5, ClearedSlots DEF Clear, ClearSlot

LEMMA WholeNext == StoreInv /\ WholeInv /\ [Next]_vars => WholeInv'
<1> SUFFICES ASSUME StoreInv, WholeInv, [Next]_vars PROVE WholeInv'
    OBVIOUS
<1>t. TypeOK /\ ProcInv
    BY DEF StoreInv
<1>1. ASSUME NEW p \in Procs, NEW s \in Slots, NEW m \in {"tag", "pinned", "offline"},
             Begin(p, s, m)
      PROVE  WholeInv'
  <2>1. PICK phase \in {"idle", "download"} : pc' = [pc EXCEPT ![p] = phase]
    BY <1>1 DEF Begin
  <2>2. phase \in Phases /\ phase \notin {"place", "seal"} /\ pc[p] # "place"
    BY <1>1 DEF Begin, Phases
  <2>3. UNCHANGED <<slot, sealed, spoiled, left, open>>
    BY <1>1 DEF Begin, disk
  <2>4. \A q \in Procs \ {p} : want'[q] = want[q]
    BY <1>1, <1>t DEF Begin, TypeOK
  <2> QED
    BY <2>1, <2>2, <2>3, <2>4, QuietProcess
<1>2. ASSUME NEW p \in Procs, NEW x, Return(p, x), pc[p] # "place",
             \A s \in Slots : slot'[s].file = slot[s].file,
             UNCHANGED <<sealed, want>>, spoiled \subseteq spoiled'
      PROVE  WholeInv'
  <2>1. "idle" \in Phases /\ pc' = [pc EXCEPT ![p] = "idle"]
    BY <1>2 DEF Return, Goto, Phases
  <2>2. \A q \in Procs \ {p} : left'[q] = left[q] /\ open'[q] = open[q]
    BY <1>2, <1>t DEF Return, TypeOK
  <2> QED
    BY <1>2, <2>1, <2>2, QuietProcess
<1>3. ASSUME NEW p \in Procs, NEW phase \in {"land", "root", "stage", "rename"},
             Goto(p, phase), pc[p] # "place", UNCHANGED <<slot, sealed, spoiled, want>>,
             \A q \in Procs \ {p} : left'[q] = left[q] /\ open'[q] = open[q]
      PROVE  WholeInv'
  <2>1. phase \in Phases /\ pc' = [pc EXCEPT ![p] = phase]
    BY <1>3 DEF Goto, Phases
  <2> QED
    BY <1>3, <2>1, QuietProcess
<1>4. ASSUME NEW p \in Procs, Download(p) PROVE WholeInv'
    BY <1>2, <1>3, <1>4 DEF Download
<1>5. ASSUME NEW p \in Procs, LandOci(p) PROVE WholeInv'
  <2>1. \A q \in Procs \ {p} : left'[q] = left[q] /\ open'[q] = open[q]
    BY <1>5, <1>t DEF LandOci, TypeOK
  <2> QED
    BY <1>3, <1>5, <2>1 DEF LandOci
<1>6. ASSUME NEW p \in Procs, LandInPlace(p) PROVE WholeInv'
    BY <1>2, <1>6, PlacingStep DEF LandInPlace
<1>7. ASSUME NEW p \in Procs, NEW f \in Files, OpenFile(p, f) \/ FillFile(p, f)
      PROVE  WholeInv'
  <2>1. CASE pc[p] = "place"
    BY <1>7, <2>1, OpenStep, FillStep
  <2>2. CASE pc[p] # "place"
    <3>1. UNCHANGED <<slot, sealed, spoiled, pc, want>>
        BY <1>7, <2>2 DEF OpenFile, FillFile
    <3>2. \A q \in Procs \ {p} : left'[q] = left[q] /\ open'[q] = open[q]
        BY <1>7, <1>t DEF OpenFile, FillFile, TypeOK
    <3>3. \A s \in Slots : Kept(s)' => Kept(s)
        BY <3>1 DEF Kept
    <3> QED
        BY <2>2, <3>1, <3>2, <3>3, QuietStep
  <2> QED
    BY <2>1, <2>2
<1>8. ASSUME NEW p \in Procs, Unpacked(p) PROVE WholeInv'
  <2>1. CASE pc[p] = "place"
    <3>1. PICK phase \in {"root", "seal", "idle"} : pc' = [pc EXCEPT ![p] = phase]
        BY <1>8, <2>1 DEF Unpacked, Return, Goto
    <3>2. phase \in Phases /\ phase # "place"
        BY DEF Phases
    <3>3. \A q \in Procs \ {p} : left'[q] = left[q] /\ open'[q] = open[q]
        BY <1>8, <1>t DEF Unpacked, Return, TypeOK
    <3>4. left[p] = {} /\ open[p] = {} /\ UNCHANGED <<slot, sealed, spoiled, want>>
        BY <1>8 DEF Unpacked
    <3> QED
        BY <2>1, <3>1, <3>2, <3>3, <3>4, LeavingStep
  <2>2. CASE pc[p] = "stage"
    BY <1>3, <1>8, <2>2 DEF Unpacked
  <2> QED
    BY <1>8, <2>1, <2>2 DEF Unpacked
<1>9. ASSUME NEW p \in Procs, RenameFails(p) PROVE WholeInv'
  <2>1. CASE slot[want[p]].there
    BY <1>3, <1>9, <2>1 DEF RenameFails, disk
  <2>2. CASE StartPlacing(p) /\ UNCHANGED want
    BY <1>9, <2>2, PlacingStep DEF RenameFails
  <2>3. CASE /\ slot' = [slot EXCEPT ![want[p]].there = TRUE]
             /\ Return(p, "fail") /\ UNCHANGED <<sealed, spoiled, want>>
    <3>1. \A s \in Slots : slot'[s].file = slot[s].file
        BY <2>3, <1>t DEF TypeOK, Dir
    <3> QED
        BY <1>2, <1>9, <2>3, <3>1 DEF RenameFails
  <2> QED
    BY <1>9, <2>1, <2>2, <2>3 DEF RenameFails
<1>10. ASSUME NEW p \in Procs, Seal(p) PROVE WholeInv'
  <2>1. \A q \in Procs : pc'[q] = IF q = p THEN "idle" ELSE pc[q]
    BY <1>10, <1>t DEF Seal, Return, Goto, TypeOK
  <2>2. \A q \in Procs \ {p} : left'[q] = left[q] /\ open'[q] = open[q]
    BY <1>10, <1>t DEF Seal, Return, TypeOK
  <2>3. UNCHANGED <<slot, spoiled, want>> /\ pc[p] = "seal"
    BY <1>10 DEF Seal
  <2>4. \A s \in Slots : Kept(s)' => Kept(s)
    BY <1>10, <2>1 DEF Seal, Kept
  <2> QED
    BY <2>1, <2>2, <2>3, <2>4, QuietStep
<1>11. ASSUME NEW p \in Procs, FindRoot(p) PROVE WholeInv'
    BY <1>2, <1>11 DEF FindRoot
<1>12. ASSUME NEW p \in Procs, WriteFails(p) \/ Crash(p) PROVE WholeInv'
    BY <1>2, <1>12, DyingStep DEF WriteFails, Crash
<1>13. ASSUME NEW p \in Procs, Rename(p) PROVE WholeInv'
    BY <1>13, RenameStep
<1>15. ASSUME Clear PROVE WholeInv'
    BY <1>15, ClearStep
<1>14. CASE UNCHANGED vars
  <2>1. \A s \in Slots : Kept(s)' => Kept(s)
    BY <1>14 DEF Kept, vars, disk
  <2> QED
    BY <1>14, <2>1, QuietStep DEF vars, disk
<1> QED
    BY <1>1, <1>4, <1>5, <1>6, <1>7, <1>8, <1>9, <1>10, <1>11, <1>12, <1>13, <1>14,
       <1>15 DEF Next, Run

(* What a later fetch takes for a package is whole, unless a writer is     *)
(* there or stopped half way, or a clear took files and did not finish,    *)
(* for any number of racing and dying fetches (detect_kind, SENTINEL, the  *)
(* Chart.yaml test of the Helm fetcher, reap).                             *)
THEOREM UsableSlotsAreWhole == Spec => []UsableIsWhole
<1>1. WholeInv => UsableIsWhole
    BY CacheAssumption DEF WholeInv, KeptInv, Kept, SlotSound, UsableIsWhole, Usable,
                           HasMarker, NoFiles
<1>2. StoreInv /\ [Next]_vars => StoreInv'
    BY TypeNext, ProcNext, StageNext, SlotNext DEF StoreInv
<1> QED
    BY <1>1, <1>2, InitStore, InitWhole, WholeNext, PTL DEF Spec
=============================================================================
