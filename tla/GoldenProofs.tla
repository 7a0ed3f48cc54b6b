----------------------------- MODULE GoldenProofs -----------------------------
(***************************************************************************)
(* Proofs about Golden: what an update reports is there, what a comparison *)
(* passes is exact, and nothing else touches a snapshot, for any packages, *)
(* inputs, versions and number of commands.                                *)
(***************************************************************************)
EXTENDS GoldenProperties, SequenceTheorems, WellFoundedInduction, TLAPS

-----------------------------------------------------------------------------
(* A flattened sequence of sequences is a sequence.                        *)

LEMMA Least ==
    ASSUME NEW T \in SUBSET Nat, T # {}
    PROVE  \E x \in T : \A y \in T : x <= y
<1>1. PICK x \in T : \A y \in T : <<y, x>> \notin OpToRel(<, Nat)
  BY NatLessThanWellFounded, WFMin
<1>2. \A y \in T : ~(y < x)
  BY <1>1 DEF OpToRel
<1> QED
  BY <1>2

Chain(ss, n, f) == f = [i \in 1..n |-> IF i = 1 THEN ss[i] ELSE f[i - 1] \o ss[i]]

LEMMA ChainExists == \A ss : \A n \in Nat : \E f : Chain(ss, n, f)
<1> SUFFICES ASSUME NEW ss, NEW m \in Nat, ~\E f : Chain(ss, m, f) PROVE FALSE
  OBVIOUS
<1> DEFINE T == {n \in Nat : ~\E f : Chain(ss, n, f)}
<1>0. T \in SUBSET Nat /\ T # {} /\ \A n \in Nat : n \in T <=> ~\E f : Chain(ss, n, f)
  OBVIOUS
<1> HIDE DEF T
<1>1. PICK n \in T : \A k \in T : n <= k
  BY <1>0, Least
<1>2. n \in Nat /\ ~\E f : Chain(ss, n, f)
  BY <1>0, <1>1
<1>3. n # 0
  <2>1. Chain(ss, 0, [i \in 1..0 |-> <<>>])
    <3> DEFINE g == [i \in 1..0 |-> <<>>]
    <3>1. 1..0 = {}
      OBVIOUS
    <3>2. g = [i \in 1..0 |-> IF i = 1 THEN ss[i] ELSE g[i - 1] \o ss[i]]
      BY <3>1
    <3> QED
      BY <3>2 DEF Chain
  <2> QED
    BY <1>2, <2>1
<1>4. n - 1 \in Nat /\ n - 1 \notin T
  <2>1. n - 1 \in Nat /\ ~(n <= n - 1)
    BY <1>2, <1>3
  <2> QED
    BY <1>1, <2>1
<1>5. PICK f : Chain(ss, n - 1, f)
  BY <1>0, <1>4
<1> DEFINE g == [i \in 1..n |-> IF i = 1 THEN ss[i] ELSE f[i - 1] \o ss[i]]
<1>6. \A i \in 1..(n - 1) : g[i] = f[i]
  <2> TAKE i \in 1..(n - 1)
  <2>1. f[i] = IF i = 1 THEN ss[i] ELSE f[i - 1] \o ss[i]
    BY <1>5 DEF Chain
  <2>2. i \in 1..n
    BY <1>4, <1>2
  <2> QED
    BY <2>1, <2>2
<1>7. g = [i \in 1..n |-> IF i = 1 THEN ss[i] ELSE g[i - 1] \o ss[i]]
  <2>1. ASSUME NEW i \in 1..n, i # 1 PROVE g[i - 1] = f[i - 1]
    <3>1. i - 1 \in 1..(n - 1)
      BY <1>2, <2>1
    <3> QED
      BY <1>6, <3>1
  <2> QED
    BY <2>1
<1> HIDE DEF g
<1> QED
  BY <1>2, <1>7 DEF Chain

LEMMA ChainSeq ==
    ASSUME NEW S, NEW ss \in Seq(Seq(S)), NEW f, Chain(ss, Len(ss), f), Len(ss) # 0
    PROVE  f[Len(ss)] \in Seq(S)
<1>1. \A i \in 1..Len(ss) : ss[i] \in Seq(S)
  BY ElementOfSeq
<1>2. Len(ss) \in Nat
  BY LenProperties
<1>3. \A i \in 1..Len(ss) : f[i] = IF i = 1 THEN ss[i] ELSE f[i - 1] \o ss[i]
  BY DEF Chain
<1> DEFINE T == {i \in 1..Len(ss) : f[i] \notin Seq(S)}
<1>4. T = {}
  <2> SUFFICES ASSUME T # {} PROVE FALSE
    OBVIOUS
  <2>0. T \in SUBSET Nat
    OBVIOUS
  <2>1. PICK n \in T : \A m \in T : n <= m
    <3> HIDE DEF T
    <3> QED
      BY <2>0, Least
  <2>2. n \in 1..Len(ss) /\ f[n] \notin Seq(S)
    OBVIOUS
  <2>3. n # 1
    BY <1>1, <1>3, <2>2
  <2>4. n - 1 \in 1..Len(ss) /\ n - 1 \notin T
    BY <1>2, <2>1, <2>2, <2>3
  <2>5. f[n - 1] \in Seq(S) /\ ss[n] \in Seq(S)
    BY <1>1, <2>2, <2>4
  <2>6. f[n] \in Seq(S)
    BY <1>3, <2>2, <2>3, <2>5, ConcatProperties
  <2> QED
    BY <2>2, <2>6
<1>5. Len(ss) \in 1..Len(ss)
  BY <1>2
<1> QED
  BY <1>4, <1>5

LEMMA FlattenIsSeq ==
    ASSUME NEW S, NEW ss \in Seq(Seq(S))
    PROVE  FlattenSeq(ss) \in Seq(S)
<1>1. CASE Len(ss) = 0
  <2>1. ss = <<>>
    BY <1>1, EmptySeq
  <2> QED
    BY <1>1, <2>1, EmptySeq DEF FlattenSeq
<1>2. CASE Len(ss) # 0
  <2> DEFINE f == CHOOSE g : Chain(ss, Len(ss), g)
  <2>1. Chain(ss, Len(ss), f)
    BY ChainExists, LenProperties
  <2>2. FlattenSeq(ss) = f[Len(ss)]
    BY <1>2 DEF FlattenSeq, Chain
  <2> HIDE DEF f
  <2> QED
    BY <1>2, <2>1, <2>2, ChainSeq
<1> QED
  BY <1>1, <1>2

-----------------------------------------------------------------------------
(* The cases, and the paths of their snapshots.                            *)

CaseSet == [pkg : DOMAIN InputsOf,
            inputs : {None} \cup UNION {Range(InputsOf[dir]) : dir \in DOMAIN InputsOf}]

LEMMA CasesOfSeq == ASSUME NEW dir \in DOMAIN InputsOf PROVE CasesOf(dir) \in Seq(CaseSet)
<1>1. CASE InputsOf[dir] = <<>>
  <2>1. [pkg |-> dir, inputs |-> None] \in CaseSet
    BY DEF CaseSet
  <2> QED
    BY <1>1, <2>1 DEF CasesOf
<1>2. CASE InputsOf[dir] # <<>>
  <2>1. InputsOf[dir] \in Seq(Range(InputsOf[dir]))
    BY GoldenAssumption
  <2>2. Len(InputsOf[dir]) \in Nat /\ DOMAIN InputsOf[dir] = 1..Len(InputsOf[dir])
    BY <2>1, LenProperties
  <2>3. \A i \in 1..Len(InputsOf[dir]) :
           [pkg |-> dir, inputs |-> InputsOf[dir][i]] \in CaseSet
    <3> TAKE i \in 1..Len(InputsOf[dir])
    <3>1. InputsOf[dir][i] \in Range(InputsOf[dir])
      BY <2>1, ElementOfSeq
    <3> QED
      BY <3>1 DEF CaseSet
  <2>4. CasesOf(dir) = [i \in 1..Len(InputsOf[dir]) |->
                          [pkg |-> dir, inputs |-> InputsOf[dir][i]]]
    BY <1>2, <2>2 DEF CasesOf
  <2> QED
    BY <2>2, <2>3, <2>4, IsASeq
<1> QED
  BY <1>1, <1>2

LEMMA CasesSeq ==
    /\ Cases \in Seq(CaseSet)
    /\ Len(Cases) \in Nat /\ DOMAIN Cases = 1..Len(Cases)
<1>1. Len(PackageDirs) \in Nat /\ DOMAIN PackageDirs = 1..Len(PackageDirs)
  BY GoldenAssumption, LenProperties
<1>2. \A i \in 1..Len(PackageDirs) : CasesOf(PackageDirs[i]) \in Seq(CaseSet)
  BY GoldenAssumption, ElementOfSeq, CasesOfSeq
<1>3. [i \in DOMAIN PackageDirs |-> CasesOf(PackageDirs[i])] \in Seq(Seq(CaseSet))
  BY <1>1, <1>2, IsASeq
<1>4. Cases \in Seq(CaseSet)
  BY <1>3, FlattenIsSeq DEF Cases
<1> QED
  BY <1>4, LenProperties

LEMMA Below1 ==
    ASSUME NEW S, NEW s \in Seq(S), NEW n
    PROVE  /\ Len(s \o <<n>>) = Len(s) + 1
           /\ IsStrictPrefix(s, s \o <<n>>)
           /\ SubSeq(s \o <<n>>, Len(s) + 1, Len(s \o <<n>>)) = <<n>>
<1> DEFINE U == S \cup {n}
           p == s \o <<n>>
<1>1. s \in Seq(U) /\ <<n>> \in Seq(U) /\ Len(s) \in Nat /\ Len(<<n>>) = 1
  <2>1. Len(s) \in Nat /\ s = [i \in 1..Len(s) |-> s[i]] /\ \A i \in 1..Len(s) : s[i] \in U
    BY LenProperties, ElementOfSeq
  <2>2. s \in Seq(U)
    <3>1. [i \in 1..Len(s) |-> s[i]] \in Seq(U)
      BY <2>1, IsASeq
    <3> QED
      BY <2>1, <3>1
  <2> QED
    BY <2>1, <2>2
<1>2. /\ p \in Seq(U) /\ Len(p) = Len(s) + 1
      /\ \A i \in 1..Len(s) + 1 :
            p[i] = IF i <= Len(s) THEN s[i] ELSE <<n>>[i - Len(s)]
  BY <1>1, ConcatProperties
<1> HIDE DEF p, U
<1>3. SubSeq(p, 1, Len(s)) = SubSeq(s, 1, Len(s))
  BY <1>1, <1>2
<1>4. SubSeq(p, Len(s) + 1, Len(s) + 1) = <<n>>
  <2>1. SubSeq(p, Len(s) + 1, Len(s) + 1) = SubSeq(<<n>>, Len(s) + 1 - Len(s), Len(s) + 1 - Len(s))
    BY <1>1, SubSeqOfConcat2 DEF p
  <2>2. SubSeq(<<n>>, 1, 1) = <<n>>
    <3>1. <<n>> \in Seq({n}) /\ Len(<<n>>) = 1
      OBVIOUS
    <3> QED
      BY <3>1, SubSeqFull
  <2>3. Len(s) + 1 - Len(s) = 1
    BY <1>1
  <2> QED
    BY <2>1, <2>2, <2>3
<1> QED
  BY <1>1, <1>2, <1>3, <1>4 DEF IsStrictPrefix, IsPrefix, p

LEMMA SeqWiden ==
    ASSUME NEW S, NEW U, NEW s \in Seq(S), S \subseteq U
    PROVE  s \in Seq(U)
<1>1. Len(s) \in Nat /\ s = [i \in 1..Len(s) |-> s[i]] /\ \A i \in 1..Len(s) : s[i] \in U
  BY LenProperties, ElementOfSeq
<1>2. [i \in 1..Len(s) |-> s[i]] \in Seq(U)
  BY <1>1, IsASeq
<1> QED
  BY <1>1, <1>2

(* What is strictly above t \o <<n>> is t or above it.                     *)
LEMMA AboveChild ==
    ASSUME NEW S, NEW s \in Seq(S), NEW T, NEW t \in Seq(T), NEW n,
           IsStrictPrefix(s, t \o <<n>>)
    PROVE  IsPrefix(s, t)
<1> DEFINE U == S \cup T \cup {n}
           p == t \o <<n>>
<1>1. s \in Seq(U) /\ t \in Seq(U) /\ <<n>> \in Seq(U)
  <2>1. s \in Seq(U) /\ t \in Seq(U)
    BY SeqWiden
  <2> QED
    BY <2>1
<1>2. Len(s) \in Nat /\ Len(t) \in Nat /\ Len(<<n>>) = 1
  BY LenProperties
<1>3. p \in Seq(U) /\ Len(p) = Len(t) + 1
  BY <1>1, <1>2, ConcatProperties
<1>4. Len(s) <= Len(p) /\ SubSeq(s, 1, Len(s)) = SubSeq(p, 1, Len(s)) /\ s # p
  BY DEF IsStrictPrefix, IsPrefix
<1>5. CASE Len(s) = Len(p)
  <2>1. SubSeq(s, 1, Len(s)) = s /\ SubSeq(p, 1, Len(p)) = p
    <3> HIDE DEF p, U
    <3> QED
      BY <1>1, <1>3, SubSeqFull
  <2> QED
    BY <1>4, <1>5, <2>1
<1>6. CASE Len(s) = 0
  <2>1. SubSeq(s, 1, Len(s)) = <<>> /\ SubSeq(t, 1, Len(s)) = <<>> /\ Len(s) <= Len(t)
    BY <1>2, <1>6
  <2> QED
    BY <2>1 DEF IsPrefix
<1>7. CASE Len(s) # 0 /\ Len(s) # Len(p)
  <2>1. Len(s) \in 1..Len(t) /\ 1 \in 1..Len(t)
    BY <1>2, <1>3, <1>4, <1>7
  <2>2. SubSeq(p, 1, Len(s)) = SubSeq(t, 1, Len(s))
    <3> HIDE DEF U
    <3> QED
      BY <1>1, <2>1, SubSeqOfConcat1
  <2> QED
    BY <1>2, <1>4, <2>1, <2>2 DEF IsPrefix
<1> QED
  BY <1>5, <1>6, <1>7

(* The files a case may have: one for each name a version renders.         *)
AllNames == UNION {Resources[v] : v \in Versions}
Path(i, n) == SnapshotDir(i) \o <<n>>

(* No case has its directory at or in that of another.                     *)
SnapshotsApart ==
    \A i, j \in DOMAIN Cases : i # j => ~IsPrefix(SnapshotDir(i), SnapshotDir(j))

LEMMA DirSeq == ASSUME NEW i \in DOMAIN Cases PROVE \E S : SnapshotDir(i) \in Seq(S)
<1> DEFINE dir == Cases[i].pkg
           S == Range(dir) \cup {Stem(Cases[i].inputs)}
<1>1. dir \in DOMAIN InputsOf
  <2>1. Cases[i] \in CaseSet
    BY CasesSeq, ElementOfSeq
  <2> QED
    BY <2>1 DEF CaseSet
<1>2. dir \in Seq(S)
  <2>1. dir \in Seq(Range(dir)) /\ Range(dir) \subseteq S
    BY <1>1, GoldenAssumption
  <2> HIDE DEF dir, S
  <2> QED
    BY <2>1, SeqWiden
<1>3. SnapshotDir(i) \in Seq(S)
  <2> HIDE DEF dir
  <2>1. Stem(Cases[i].inputs) \in S
    OBVIOUS
  <2> HIDE DEF S
  <2>2. Append(dir, Stem(Cases[i].inputs)) \in Seq(S)
    BY <1>2, <2>1, AppendProperties
  <2> QED
    BY <2>2 DEF SnapshotDir, dir
<1> QED
  BY <1>3

LEMMA PathFacts ==
    ASSUME NEW i \in DOMAIN Cases, NEW n
    PROVE  /\ IsStrictPrefix(SnapshotDir(i), Path(i, n))
           /\ SubSeq(Path(i, n), Len(SnapshotDir(i)) + 1, Len(Path(i, n))) = <<n>>
<1>1. PICK S : SnapshotDir(i) \in Seq(S)
  BY DirSeq
<1> QED
  BY <1>1, Below1 DEF Path

LEMMA PathApart ==
    ASSUME SnapshotsApart, NEW i \in DOMAIN Cases, NEW j \in DOMAIN Cases, NEW n,
           IsStrictPrefix(SnapshotDir(i), Path(j, n))
    PROVE  i = j
<1>1. PICK S : SnapshotDir(i) \in Seq(S)
  BY DirSeq
<1>2. PICK T : SnapshotDir(j) \in Seq(T)
  BY DirSeq
<1>3. IsPrefix(SnapshotDir(i), SnapshotDir(j))
  BY <1>1, <1>2, AboveChild DEF Path
<1> QED
  BY <1>3 DEF SnapshotsApart

LEMMA PathSame ==
    ASSUME SnapshotsApart, NEW i \in DOMAIN Cases, NEW j \in DOMAIN Cases, NEW n, NEW m,
           Path(i, n) = Path(j, m)
    PROVE  i = j /\ n = m
<1>1. i = j
  BY PathFacts, PathApart
<1>2. <<n>> = <<m>>
  BY <1>1, PathFacts
<1> QED
  BY <1>1, <1>2
-----------------------------------------------------------------------------
(* Types.                                                                  *)

Busy == {"wipe", "copy", "write", "list", "compare"}
Statuses == {"pass", "updated", "fail"}

Files == [path : {<<n>> : n \in AllNames}, body : [of : DOMAIN Cases, version : Versions]]

Job == [pc : {"idle", "next", "done"} \cup Busy, update : BOOLEAN,
        asserts : {"none", "ok", "fail"}, case : 0..Len(Cases),
        out : SUBSET Files, left : SUBSET Files, open : Runners \cup {None},
        results : Seq(Statuses), fresh : BOOLEAN, alone : BOOLEAN]

Stored == [path : {Path(i, n) : i \in DOMAIN Cases, n \in AllNames},
           body : Bodies, by : Runners]

Types ==
    /\ version \in Versions
    /\ snaps \subseteq Stored
    /\ run \in [Runners -> Job]
    /\ edits \in 0..MaxEdits /\ runs \in 0..MaxRuns

(* What each runner has of its own fits together.                          *)
Steady(j) ==
    /\ j.left \subseteq j.out
    /\ j.pc \notin {"copy", "write", "compare"} => j.left = {}
    /\ j.pc \in {"next", "done"} => Len(j.results) = j.case
    /\ j.pc \in Busy =>
          /\ j.case \in DOMAIN Cases /\ Len(j.results) + 1 = j.case
          /\ \E v \in Versions : Renders(v) /\ j.out = Render(j.case, v)
    /\ j.pc \in {"wipe", "copy", "write"} => j.update
    /\ j.pc \in {"list", "compare"} => ~j.update
    /\ j.pc = "write" => j.left # {}
    /\ j.pc = "done" => j.case = Len(Cases)
    /\ j.alone => j.fresh

Jobs == \A r \in Runners : Steady(run[r])

LEMMA RenderFiles ==
    ASSUME NEW i \in DOMAIN Cases, NEW v \in Versions
    PROVE  /\ Render(i, v) \subseteq Files
           /\ Renders(v) => Render(i, v) # {}
           /\ Names(Render(i, v)) = {<<n>> : n \in Resources[v]}
<1>1. Resources[v] \subseteq AllNames
  BY DEF AllNames
<1>2. \A n \in Resources[v] : [path |-> <<n>>, body |-> [of |-> i, version |-> v]] \in Files
  BY <1>1 DEF Files
<1>3. Names(Render(i, v)) = {<<n>> : n \in Resources[v]}
  <2>1. ASSUME NEW x \in Names(Render(i, v)) PROVE x \in {<<n>> : n \in Resources[v]}
    BY <2>1 DEF Render, Names
  <2>2. ASSUME NEW n \in Resources[v] PROVE <<n>> \in Names(Render(i, v))
    <3> DEFINE f == [path |-> <<n>>, body |-> [of |-> i, version |-> v]]
    <3>1. f \in Render(i, v) /\ f.path = <<n>>
      BY DEF Render
    <3> QED
      BY <3>1 DEF Names
  <2> QED
    BY <2>1, <2>2
<1> QED
  BY <1>2, <1>3 DEF Render, Renders

(* A step of r: the others stay, and what r was started with.              *)
Moved(r) ==
    /\ run' \in [Runners -> Job] /\ Steady(run'[r])
    /\ \A a \in Runners \ {r} : run'[a] = run[a]
    /\ run'[r].update = run[r].update /\ run'[r].asserts = run[r].asserts
    /\ run'[r].fresh = run[r].fresh /\ run'[r].alone = run[r].alone
    /\ UNCHANGED <<version, edits, runs>>

SameResults(r) == run'[r].case = run[r].case /\ run'[r].results = run[r].results

Begins(r) ==
    /\ Moved(r) /\ UNCHANGED snaps
    /\ run[r].pc = "next" /\ run'[r].case = run[r].case + 1
    /\ \/ /\ run'[r].pc = IF run[r].update THEN "wipe" ELSE "list"
          /\ run'[r].out = Render(run'[r].case, version)
          /\ run'[r].results = run[r].results
       \/ run'[r].pc = "next" /\ run'[r].results = Append(run[r].results, "fail")

Wipes(r) ==
    /\ run[r].pc = "wipe" /\ UNCHANGED <<version, run, edits, runs>>
    /\ \E f \in Below(r) : snaps' = snaps \ {f}

Clears(r) ==
    /\ Moved(r) /\ UNCHANGED snaps /\ SameResults(r) /\ run'[r].out = run[r].out
    /\ run[r].pc = "wipe" /\ run'[r].pc = "copy" /\ Below(r) = {}
    /\ run'[r].left = run[r].out

Creates(r) ==
    /\ Moved(r) /\ SameResults(r)
    /\ run'[r].out = run[r].out /\ run'[r].left = run[r].left
    /\ run[r].pc = "copy" /\ run'[r].pc = "write"
    /\ NextFile(r) \in run[r].left
    /\ run'[r].open \in Runners
    /\ snaps' = Put(Target(r), Torn, run'[r].open)

Writes(r) ==
    /\ Moved(r) /\ SameResults(r)
    /\ run'[r].out = run[r].out /\ run'[r].left = run[r].left \ {NextFile(r)}
    /\ run[r].pc = "write" /\ run'[r].pc = "copy"
    /\ NextFile(r) \in run[r].left
    /\ \/ /\ run[r].open \in Runners
          /\ snaps' = Put(Target(r), NextFile(r).body, run[r].open)
       \/ /\ UNCHANGED snaps
          /\ ~\E g \in snaps : g.path = Target(r) /\ g.by = run[r].open

Lists(r) ==
    /\ Moved(r) /\ UNCHANGED snaps /\ SameResults(r) /\ run'[r].out = run[r].out
    /\ run[r].pc = "list" /\ run'[r].pc = "compare"
    /\ run'[r].left = run[r].out
    /\ Names(Tree(SnapshotDir(run[r].case))) = Names(run[r].out)

Compares(r) ==
    /\ Moved(r) /\ UNCHANGED snaps /\ SameResults(r) /\ run'[r].out = run[r].out
    /\ run[r].pc = "compare" /\ run'[r].pc = "compare"
    /\ NextFile(r) \in run[r].left
    /\ run'[r].left = run[r].left \ {NextFile(r)}
    /\ \E g \in snaps : g.path = Target(r) /\ g.body = NextFile(r).body

Ends(r) ==
    /\ Moved(r) /\ UNCHANGED snaps
    /\ run[r].pc \in Busy /\ run'[r].pc = "next" /\ run'[r].case = run[r].case
    /\ \/ run'[r].results = Append(run[r].results, "fail")
       \/ /\ run[r].pc = "copy" /\ run[r].left = {}
          /\ run'[r].results = Append(run[r].results, "updated")
       \/ /\ run[r].pc = "compare" /\ run[r].left = {}
          /\ run'[r].results = Append(run[r].results, "pass")

Finishes(r) ==
    /\ Moved(r) /\ UNCHANGED snaps /\ SameResults(r)
    /\ run[r].pc = "next" /\ run'[r].pc = "done" /\ run[r].case = Len(Cases)

StepShape(r) ==
    \/ Begins(r) \/ Wipes(r) \/ Clears(r) \/ Creates(r) \/ Writes(r)
    \/ Lists(r) \/ Compares(r) \/ Ends(r) \/ Finishes(r)

LEMMA JobMoves ==
    ASSUME Types, NEW r \in Runners, NEW k \in Job, Steady(k),
           run' = [run EXCEPT ![r] = k],
           k.update = run[r].update, k.asserts = run[r].asserts,
           k.fresh = run[r].fresh, k.alone = run[r].alone,
           UNCHANGED <<version, edits, runs>>
    PROVE  Moved(r) /\ run'[r] = k
BY DEF Types, Moved

LEMMA VerdictMoves ==
    ASSUME Types, Jobs, NEW r \in Runners, NEW st \in Statuses, Verdict(r, st),
           run[r].pc \in Busy, UNCHANGED <<version, edits, runs>>
    PROVE  /\ Moved(r) /\ run'[r].pc = "next" /\ run'[r].case = run[r].case
           /\ run'[r].results = Append(run[r].results, st)
<1> DEFINE k == [run[r] EXCEPT !.pc = "next", !.results = Append(run[r].results, st),
                               !.out = {}, !.left = {}]
<1>1. run[r] \in Job /\ Steady(run[r])
  BY DEF Types, Jobs
<1>r. /\ run[r].results \in Seq(Statuses) /\ Append(run[r].results, st) \in Seq(Statuses)
      /\ Len(Append(run[r].results, st)) = run[r].case
  <2>1. run[r].results \in Seq(Statuses)
    BY <1>1 DEF Job
  <2>2. Len(run[r].results) + 1 = run[r].case
    BY <1>1 DEF Steady
  <2> QED
    BY <2>1, <2>2, AppendProperties
<1>2. /\ k \in Job /\ k.pc = "next" /\ k.case = run[r].case /\ k.out = {} /\ k.left = {}
      /\ k.results = Append(run[r].results, st)
      /\ k.update = run[r].update /\ k.asserts = run[r].asserts
      /\ k.fresh = run[r].fresh /\ k.alone = run[r].alone
  BY <1>1, <1>r DEF Job
<1>3. run' = [run EXCEPT ![r] = k]
  BY DEF Verdict
<1> HIDE DEF k
<1>5. Steady(k)
  BY <1>1, <1>2, <1>r DEF Steady, Busy
<1> QED
  BY <1>2, <1>3, <1>5, JobMoves
-----------------------------------------------------------------------------
(* What each step is.                                                      *)

LEMMA RenderCaseShape ==
    ASSUME Types, Jobs, NEW r \in Runners, RenderCase(r)
    PROVE  Begins(r)
<1> DEFINE j == run[r]
           i == j.case + 1
<1>1. j \in Job /\ Steady(j) /\ version \in Versions
  BY DEF Types, Jobs
<1>2. i \in DOMAIN Cases /\ i \in 0..Len(Cases) /\ Len(j.results) = j.case /\ j.pc = "next"
  BY <1>1, CasesSeq DEF RenderCase, Steady, Job
<1>3. j.results \in Seq(Statuses)
  BY <1>1 DEF Job
<1>4. CASE Renders(version)
  <2> DEFINE k == [j EXCEPT !.case = i, !.pc = IF j.update THEN "wipe" ELSE "list",
                            !.out = Render(i, version)]
  <2>1. run' = [run EXCEPT ![r] = k]
    BY <1>4 DEF RenderCase
  <2>2. /\ k \in Job /\ k.case = i /\ k.pc = (IF j.update THEN "wipe" ELSE "list")
        /\ k.out = Render(i, version) /\ k.left = j.left /\ k.results = j.results
        /\ k.update = j.update /\ k.asserts = j.asserts
        /\ k.fresh = j.fresh /\ k.alone = j.alone
    BY <1>1, <1>2, RenderFiles DEF Job, Busy
  <2> HIDE DEF k
  <2>3. j.left = {}
    BY <1>1, <1>2 DEF Steady
  <2>4. Steady(k)
    BY <1>1, <1>2, <1>4, <2>2, <2>3 DEF Steady, Busy, Job
  <2>5. Moved(r) /\ run'[r] = k
    BY <2>1, <2>2, <2>4, JobMoves DEF RenderCase
  <2> QED
    BY <1>2, <2>2, <2>5 DEF Begins, RenderCase
<1>5. CASE ~Renders(version)
  <2> DEFINE k == [j EXCEPT !.case = i, !.results = Append(j.results, "fail")]
  <2>1. run' = [run EXCEPT ![r] = k]
    BY <1>5 DEF RenderCase
  <2>0. Append(j.results, "fail") \in Seq(Statuses) /\ Len(Append(j.results, "fail")) = i
    <3>1. "fail" \in Statuses
      BY DEF Statuses
    <3> QED
      BY <1>2, <1>3, <3>1, AppendProperties
  <2>2. /\ k \in Job /\ k.case = i /\ k.pc = "next" /\ k.out = j.out /\ k.left = j.left
        /\ k.results = Append(j.results, "fail")
        /\ k.update = j.update /\ k.asserts = j.asserts
        /\ k.fresh = j.fresh /\ k.alone = j.alone
    BY <1>1, <1>2, <2>0 DEF Job
  <2> HIDE DEF k
  <2>4. Steady(k)
    BY <1>1, <1>2, <2>0, <2>2 DEF Steady, Busy
  <2>5. Moved(r) /\ run'[r] = k
    BY <2>1, <2>2, <2>4, JobMoves DEF RenderCase
  <2> QED
    BY <1>2, <2>2, <2>5 DEF Begins, RenderCase
<1> QED
  BY <1>4, <1>5

LEMMA WipeShape == ASSUME NEW r \in Runners, Wipe(r) PROVE Wipes(r)
BY DEF Wipe, Wipes

LEMMA VerdictShape ==
    ASSUME Types, Jobs, NEW r \in Runners, UNCHANGED <<version, snaps, edits, runs>>,
           \/ run[r].pc \in Busy /\ Verdict(r, "fail")
           \/ run[r].pc = "copy" /\ run[r].left = {} /\ Verdict(r, "updated")
           \/ run[r].pc = "compare" /\ run[r].left = {} /\ Verdict(r, "pass")
    PROVE  Ends(r)
<1> USE DEF Statuses, Busy
<1>1. CASE run[r].pc \in Busy /\ Verdict(r, "fail")
  BY <1>1, VerdictMoves DEF Ends
<1>2. CASE run[r].pc = "copy" /\ run[r].left = {} /\ Verdict(r, "updated")
  BY <1>2, VerdictMoves DEF Ends
<1>3. CASE run[r].pc = "compare" /\ run[r].left = {} /\ Verdict(r, "pass")
  BY <1>3, VerdictMoves DEF Ends
<1> QED
  BY <1>1, <1>2, <1>3

(* A step within the case at hand, to pc with what is left.                *)
Goes(r, pc, left, open) ==
    /\ run[r].pc \in Busy /\ pc \in {"copy", "write", "compare"}
    /\ left \subseteq run[r].out /\ open \in Runners \cup {None}
    /\ run[r].update <=> pc # "compare"
    /\ pc = "write" => left # {}
    /\ run' = [run EXCEPT ![r] = [run[r] EXCEPT !.pc = pc, !.left = left, !.open = open]]
    /\ UNCHANGED <<version, edits, runs>>

LEMMA WithinCase ==
    ASSUME Types, Jobs, NEW r \in Runners, NEW pc, NEW left, NEW open, Goes(r, pc, left, open)
    PROVE  /\ Moved(r) /\ SameResults(r) /\ run'[r].pc = pc /\ run'[r].left = left
           /\ run'[r].out = run[r].out /\ run'[r].open = open
<1> DEFINE j == run[r]
           k == [j EXCEPT !.pc = pc, !.left = left, !.open = open]
<1>1. j \in Job /\ Steady(j)
  BY DEF Types, Jobs
<1>2. /\ k \in Job /\ k.pc = pc /\ k.left = left /\ k.open = open /\ k.case = j.case
      /\ k.out = j.out /\ k.results = j.results
      /\ k.update = j.update /\ k.asserts = j.asserts
      /\ k.fresh = j.fresh /\ k.alone = j.alone
  <2>1. left \subseteq Files
    BY <1>1 DEF Job, Goes
  <2>2. pc \in {"idle", "next", "done"} \cup Busy /\ open \in Runners \cup {None}
    BY DEF Busy, Goes
  <2> QED
    BY <1>1, <2>1, <2>2 DEF Job
<1>3. run' = [run EXCEPT ![r] = k] /\ UNCHANGED <<version, edits, runs>>
  BY DEF Goes
<1> HIDE DEF k
<1>4. Steady(k)
  BY <1>1, <1>2 DEF Steady, Busy, Goes
<1>5. Moved(r) /\ run'[r] = k
  BY <1>2, <1>3, <1>4, JobMoves
<1> QED
  BY <1>2, <1>5 DEF SameResults

LEMMA SameRecord ==
    ASSUME NEW j \in Job, NEW pc, NEW left, NEW open
    PROVE  /\ [j EXCEPT !.pc = pc, !.left = left]
                 = [j EXCEPT !.pc = pc, !.left = left, !.open = j.open]
           /\ [j EXCEPT !.pc = pc, !.open = open]
                 = [j EXCEPT !.pc = pc, !.left = j.left, !.open = open]
           /\ [j EXCEPT !.pc = pc, !.open = open, !.left = left]
                 = [j EXCEPT !.pc = pc, !.left = left, !.open = open]
           /\ j.pc = pc => [j EXCEPT !.left = left]
                             = [j EXCEPT !.pc = pc, !.left = left, !.open = j.open]
BY DEF Job

LEMMA OwnJob ==
    ASSUME Types, Jobs, NEW r \in Runners
    PROVE  /\ run[r] \in Job /\ Steady(run[r]) /\ run[r].left \subseteq run[r].out
           /\ run[r].open \in Runners \cup {None}
           /\ run[r].left # {} => NextFile(r) \in run[r].left
BY DEF Types, Jobs, Steady, Job, NextFile

LEMMA WipedShape == ASSUME Types, Jobs, NEW r \in Runners, Wiped(r) PROVE Clears(r)
<1>1. run[r].pc = "wipe" /\ run[r].update /\ run[r].pc \in Busy
  BY OwnJob DEF Wiped, Steady, Busy
<1>2. run' = [run EXCEPT ![r] = [run[r] EXCEPT !.pc = "copy", !.left = run[r].out,
                                               !.open = run[r].open]]
  BY OwnJob, SameRecord DEF Wiped
<1>3. /\ Moved(r) /\ SameResults(r) /\ run'[r].pc = "copy" /\ run'[r].left = run[r].out
      /\ run'[r].out = run[r].out
  <2>1. /\ run[r].out \in SUBSET run[r].out /\ run[r].open \in Runners \cup {None}
        /\ UNCHANGED <<version, edits, runs>>
    BY OwnJob DEF Wiped
  <2> DEFINE out == run[r].out
             open == run[r].open
  <2>2. run' = [run EXCEPT ![r] = [run[r] EXCEPT !.pc = "copy", !.left = out, !.open = open]]
    BY <1>2
  <2>3. out \in SUBSET run[r].out /\ open \in Runners \cup {None}
    BY <2>1
  <2> HIDE DEF out, open
  <2>4. /\ Moved(r) /\ SameResults(r) /\ run'[r].pc = "copy" /\ run'[r].left = out
        /\ run'[r].out = run[r].out
    <3>1. Goes(r, "copy", out, open)
      BY <1>1, <2>1, <2>2, <2>3 DEF Goes
    <3> QED
      BY <3>1, WithinCase
  <2> QED
    BY <2>4 DEF out
<1> QED
  BY <1>1, <1>3 DEF Clears, Wiped

LEMMA CreateShape == ASSUME Types, Jobs, NEW r \in Runners, Create(r) PROVE Creates(r)
<1>1. run[r].pc = "copy" /\ run[r].update /\ run[r].pc \in Busy /\ run[r].left # {}
  BY OwnJob DEF Create, Steady, Busy
<1>2. PICK by \in Runners :
         /\ snaps' = Put(Target(r), Torn, by)
         /\ run' = [run EXCEPT ![r] = [run[r] EXCEPT !.pc = "write", !.open = by]]
  BY DEF Create
<1>3. run' = [run EXCEPT ![r] = [run[r] EXCEPT !.pc = "write", !.left = run[r].left, !.open = by]]
  BY <1>2, OwnJob, SameRecord
<1>4. /\ Moved(r) /\ SameResults(r) /\ run'[r].pc = "write" /\ run'[r].left = run[r].left
      /\ run'[r].out = run[r].out /\ run'[r].open = by
  <2> DEFINE left == run[r].left
  <2>1. left \in SUBSET run[r].out /\ left # {} /\ UNCHANGED <<version, edits, runs>>
    BY <1>1, OwnJob DEF Create
  <2>2. run' = [run EXCEPT ![r] = [run[r] EXCEPT !.pc = "write", !.left = left, !.open = by]]
    BY <1>3
  <2> HIDE DEF left
  <2>3. /\ Moved(r) /\ SameResults(r) /\ run'[r].pc = "write" /\ run'[r].left = left
        /\ run'[r].out = run[r].out /\ run'[r].open = by
    <3>1. Goes(r, "write", left, by)
      BY <1>1, <2>1, <2>2 DEF Goes
    <3> QED
      BY <3>1, WithinCase
  <2> QED
    BY <2>3 DEF left
<1> QED
  BY <1>1, <1>2, <1>4, OwnJob DEF Creates

LEMMA WriteShape == ASSUME Types, Jobs, NEW r \in Runners, Write(r) PROVE Writes(r)
<1>1. run[r].pc = "write" /\ run[r].update /\ run[r].pc \in Busy /\ run[r].left # {}
  BY OwnJob DEF Write, Steady, Busy
<1>2. run' = [run EXCEPT ![r] = [run[r] EXCEPT !.pc = "copy", !.open = None,
                                               !.left = run[r].left \ {NextFile(r)}]]
  BY DEF Write
<1>3. run' = [run EXCEPT ![r] = [run[r] EXCEPT !.pc = "copy",
                                  !.left = run[r].left \ {NextFile(r)}, !.open = None]]
  BY <1>2, OwnJob, SameRecord
<1>4. /\ Moved(r) /\ SameResults(r) /\ run'[r].pc = "copy"
      /\ run'[r].left = run[r].left \ {NextFile(r)} /\ run'[r].out = run[r].out
  <2> DEFINE left == run[r].left \ {NextFile(r)}
  <2>1. left \in SUBSET run[r].out /\ UNCHANGED <<version, edits, runs>>
    BY OwnJob DEF Write
  <2>2. run' = [run EXCEPT ![r] = [run[r] EXCEPT !.pc = "copy", !.left = left, !.open = None]]
    BY <1>3
  <2> HIDE DEF left
  <2>3. /\ Moved(r) /\ SameResults(r) /\ run'[r].pc = "copy" /\ run'[r].left = left
        /\ run'[r].out = run[r].out
    <3>1. Goes(r, "copy", left, None)
      BY <1>1, <2>1, <2>2 DEF Goes
    <3> QED
      BY <3>1, WithinCase
  <2> QED
    BY <2>3 DEF left
<1>5. CASE \E g \in snaps : g.path = Target(r) /\ g.by = run[r].open
  <2>1. run[r].open \in Runners
    BY <1>5 DEF Types, Stored
  <2> QED
    BY <1>1, <1>4, <1>5, <2>1, OwnJob DEF Writes, Write
<1>6. CASE ~\E g \in snaps : g.path = Target(r) /\ g.by = run[r].open
  BY <1>1, <1>4, <1>6, OwnJob DEF Writes, Write
<1> QED
  BY <1>5, <1>6

LEMMA ListShape == ASSUME Types, Jobs, NEW r \in Runners, List(r) PROVE Lists(r) \/ Ends(r)
<1> DEFINE tree == Tree(SnapshotDir(run[r].case))
           same == Names(tree) \ Names(run[r].out) = {} /\ Names(run[r].out) \ Names(tree) = {}
<1>1. run[r].pc = "list" /\ ~run[r].update /\ run[r].pc \in Busy
  BY OwnJob DEF List, Steady, Busy
<1>2. CASE same
  <2>1. run' = [run EXCEPT ![r] = [run[r] EXCEPT !.pc = "compare", !.left = run[r].out]]
    BY <1>2 DEF List, DirDiff
  <2>2. run' = [run EXCEPT ![r] = [run[r] EXCEPT !.pc = "compare", !.left = run[r].out,
                                                 !.open = run[r].open]]
    BY <2>1, OwnJob, SameRecord
  <2>3. /\ Moved(r) /\ SameResults(r) /\ run'[r].pc = "compare" /\ run'[r].left = run[r].out
        /\ run'[r].out = run[r].out
    <3> DEFINE out == run[r].out
               open == run[r].open
    <3>1. run' = [run EXCEPT ![r] = [run[r] EXCEPT !.pc = "compare", !.left = out, !.open = open]]
      BY <2>2
    <3>2. /\ out \in SUBSET run[r].out /\ open \in Runners \cup {None}
          /\ UNCHANGED <<version, edits, runs>>
      BY OwnJob DEF List
    <3> HIDE DEF out, open
    <3>3. /\ Moved(r) /\ SameResults(r) /\ run'[r].pc = "compare" /\ run'[r].left = out
          /\ run'[r].out = run[r].out
      <4>1. Goes(r, "compare", out, open)
        BY <1>1, <3>1, <3>2 DEF Goes
      <4> QED
        BY <4>1, WithinCase
    <3> QED
      BY <3>3 DEF out
  <2>4. Names(tree) = Names(run[r].out)
    BY <1>2
  <2> QED
    BY <1>1, <2>3, <2>4 DEF Lists, List
<1>3. CASE ~same
  <2>1. Verdict(r, "fail")
    BY <1>3 DEF List, DirDiff
  <2> QED
    BY <1>1, <2>1, VerdictShape DEF List
<1> QED
  BY <1>2, <1>3

LEMMA CompareShape ==
    ASSUME Types, Jobs, NEW r \in Runners, Compare(r)
    PROVE  Compares(r) \/ Ends(r)
<1>1. run[r].pc = "compare" /\ ~run[r].update /\ run[r].pc \in Busy /\ run[r].left # {}
  BY OwnJob DEF Compare, Steady, Busy
<1>2. CASE \E g \in snaps : g.path = Target(r) /\ g.body = NextFile(r).body
  <2>1. run' = [run EXCEPT ![r] = [run[r] EXCEPT !.left = run[r].left \ {NextFile(r)}]]
    BY <1>2 DEF Compare
  <2>2. run' = [run EXCEPT ![r] = [run[r] EXCEPT !.pc = "compare",
                                      !.left = run[r].left \ {NextFile(r)},
                                      !.open = run[r].open]]
    <3> DEFINE left == run[r].left \ {NextFile(r)}
    <3>1. run' = [run EXCEPT ![r] = [run[r] EXCEPT !.left = left]]
      BY <2>1
    <3> HIDE DEF left
    <3>2. run' = [run EXCEPT ![r] = [run[r] EXCEPT !.pc = "compare", !.left = left,
                                                   !.open = run[r].open]]
      <4>1. run[r] \in Job /\ run[r].pc = "compare"
        BY <1>1, OwnJob
      <4>2. [run[r] EXCEPT !.left = left]
               = [run[r] EXCEPT !.pc = "compare", !.left = left, !.open = run[r].open]
        BY <4>1, SameRecord
      <4> QED
        BY <3>1, <4>2
    <3> QED
      BY <3>2 DEF left
  <2>3. /\ run[r].left \ {NextFile(r)} \in SUBSET run[r].out
        /\ run[r].open \in Runners \cup {None} /\ UNCHANGED <<version, edits, runs>>
    BY OwnJob DEF Compare
  <2>4. /\ Moved(r) /\ SameResults(r) /\ run'[r].pc = "compare"
        /\ run'[r].left = run[r].left \ {NextFile(r)} /\ run'[r].out = run[r].out
    <3> DEFINE left == run[r].left \ {NextFile(r)}
               open == run[r].open
    <3>1. run' = [run EXCEPT ![r] = [run[r] EXCEPT !.pc = "compare", !.left = left, !.open = open]]
      BY <2>2
    <3>2. left \in SUBSET run[r].out /\ open \in Runners \cup {None}
      BY <2>3
    <3> HIDE DEF left, open
    <3>3. /\ Moved(r) /\ SameResults(r) /\ run'[r].pc = "compare"
          /\ run'[r].left = left /\ run'[r].out = run[r].out
      <4>1. Goes(r, "compare", left, open)
        BY <1>1, <2>3, <3>1, <3>2 DEF Goes
      <4> QED
        BY <4>1, WithinCase
    <3> QED
      BY <3>3 DEF left
  <2> QED
    BY <1>1, <1>2, <2>4, OwnJob DEF Compares, Compare
<1>3. CASE ~\E g \in snaps : g.path = Target(r) /\ g.body = NextFile(r).body
  BY <1>1, <1>3, VerdictShape DEF Compare
<1> QED
  BY <1>2, <1>3

LEMMA FinishShape == ASSUME Types, Jobs, NEW r \in Runners, Finish(r) PROVE Finishes(r)
<1> DEFINE k == [run[r] EXCEPT !.pc = "done"]
<1>1. run' = [run EXCEPT ![r] = k] /\ run[r].pc = "next" /\ run[r].case = Len(Cases)
  BY DEF Finish
<1>2. /\ k \in Job /\ k.pc = "done" /\ k.left = run[r].left /\ k.case = run[r].case
      /\ k.out = run[r].out /\ k.results = run[r].results
      /\ k.update = run[r].update /\ k.asserts = run[r].asserts
      /\ k.fresh = run[r].fresh /\ k.alone = run[r].alone
  BY OwnJob DEF Job
<1> HIDE DEF k
<1>3. Steady(k)
  BY <1>1, <1>2, OwnJob DEF Steady, Busy
<1>4. Moved(r) /\ run'[r] = k
  BY <1>1, <1>2, <1>3, JobMoves DEF Finish
<1> QED
  BY <1>1, <1>2, <1>4 DEF Finishes, SameResults, Finish

LEMMA StepShapes == ASSUME Types, Jobs, NEW r \in Runners, Step(r) PROVE StepShape(r)
<1>1. ASSUME WipeFails(r) PROVE Ends(r)
  BY <1>1, VerdictShape DEF WipeFails, Busy
<1>2. ASSUME Copied(r) PROVE Ends(r)
  BY <1>2, VerdictShape DEF Copied
<1>3. ASSUME Passed(r) PROVE Ends(r)
  BY <1>3, VerdictShape DEF Passed
<1> QED
  BY <1>1, <1>2, <1>3, RenderCaseShape, WipeShape, WipedShape, CreateShape, WriteShape,
     ListShape, CompareShape, FinishShape DEF Step, StepShape
(* An edit, a start and a kill.                                            *)
Edits ==
    /\ UNCHANGED snaps /\ run' \in [Runners -> Job]
    /\ \A a \in Runners :
          /\ Steady(run'[a]) /\ ~run'[a].fresh /\ ~run'[a].alone
          /\ run'[a].pc = run[a].pc /\ run'[a].update = run[a].update
          /\ run'[a].results = run[a].results

Starts(r) ==
    /\ UNCHANGED <<version, snaps>> /\ run' \in [Runners -> Job]
    /\ Steady(run'[r]) /\ run'[r].pc = "next" /\ run'[r].case = 0
    /\ run'[r].results = <<>>
    /\ run'[r].alone => Alone(r)
    /\ \A a \in Runners \ {r} :
          /\ Steady(run'[a])
          /\ run'[a].alone => run[a].alone /\ ~run'[r].update
          /\ run'[a].pc = run[a].pc /\ run'[a].update = run[a].update
          /\ run'[a].asserts = run[a].asserts /\ run'[a].fresh = run[a].fresh
          /\ run'[a].case = run[a].case /\ run'[a].results = run[a].results
          /\ run'[a].out = run[a].out /\ run'[a].left = run[a].left
          /\ run'[a].open = run[a].open

Kills(r) ==
    /\ UNCHANGED <<version, snaps>> /\ run' \in [Runners -> Job]
    /\ Steady(run'[r]) /\ run'[r].pc = "idle"
    /\ ~run'[r].update /\ ~run'[r].fresh /\ ~run'[r].alone
    /\ run'[r].results = <<>>
    /\ \A a \in Runners \ {r} : run'[a] = run[a]

LEMMA NoRunType == NoRun \in Job /\ Steady(NoRun)
<1>1. <<>> \in Seq(Statuses) /\ 0 \in 0..Len(Cases)
  BY EmptySeq, CasesSeq
<1>2. NoRun \in Job
  BY <1>1 DEF NoRun, Job
<1>3. Steady(NoRun)
  BY DEF NoRun, Steady, Busy
<1> QED
  BY <1>2, <1>3

LEMMA EditShape == ASSUME Types, Jobs, Edit PROVE Edits
<1>1. run' = [r \in Runners |-> [run[r] EXCEPT !.fresh = FALSE, !.alone = FALSE]]
  BY DEF Edit
<1>2. ASSUME NEW a \in Runners
      PROVE  /\ run'[a] \in Job /\ Steady(run'[a]) /\ ~run'[a].fresh /\ ~run'[a].alone
             /\ run'[a].pc = run[a].pc /\ run'[a].update = run[a].update
             /\ run'[a].results = run[a].results
  <2> DEFINE k == [run[a] EXCEPT !.fresh = FALSE, !.alone = FALSE]
  <2>1. /\ k \in Job /\ ~k.fresh /\ ~k.alone /\ k.pc = run[a].pc /\ k.update = run[a].update
        /\ k.left = run[a].left /\ k.case = run[a].case
        /\ k.out = run[a].out /\ k.results = run[a].results
    BY OwnJob DEF Job
  <2>2. run'[a] = k
    BY <1>1
  <2> HIDE DEF k
  <2>3. Steady(k)
    BY <2>1, OwnJob DEF Steady, Busy
  <2> QED
    BY <2>1, <2>2, <2>3
<1>3. run' \in [Runners -> Job]
  BY <1>1, <1>2
<1> QED
  BY <1>2, <1>3 DEF Edits, Edit

LEMMA StartShape ==
    ASSUME Types, Jobs, NEW r \in Runners, NEW update \in BOOLEAN, Start(r, update)
    PROVE  Starts(r)
<1> DEFINE k == [NoRun EXCEPT !.pc = "next", !.update = update, !.fresh = TRUE, !.alone = Alone(r),
                              !.asserts = IF version \in Asserts THEN "ok" ELSE "fail"]
<1>1. run' = [q \in Runners |-> IF q = r THEN k
                                ELSE [run[q] EXCEPT !.alone = run[q].alone /\ ~update]]
  BY DEF Start
<1>2. /\ k \in Job /\ k.pc = "next" /\ k.case = 0 /\ k.results = <<>> /\ k.update = update
      /\ k.alone = Alone(r) /\ k.left = {} /\ k.out = {} /\ k.fresh
  <2>1. Alone(r) \in BOOLEAN
    BY DEF Alone
  <2> QED
    BY <2>1, NoRunType DEF Job, NoRun
<1>3. run'[r] = k
  BY <1>1
<1> HIDE DEF k
<1>4. Steady(k)
  BY <1>2 DEF Steady, Busy
<1>5. ASSUME NEW a \in Runners \ {r}
      PROVE  /\ run'[a] \in Job /\ Steady(run'[a])
             /\ run'[a].alone => run[a].alone /\ ~run'[r].update
             /\ run'[a].pc = run[a].pc /\ run'[a].update = run[a].update
             /\ run'[a].asserts = run[a].asserts /\ run'[a].fresh = run[a].fresh
             /\ run'[a].case = run[a].case /\ run'[a].results = run[a].results
             /\ run'[a].out = run[a].out /\ run'[a].left = run[a].left
             /\ run'[a].open = run[a].open
  <2> DEFINE lone == run[a].alone /\ ~update
             o == [run[a] EXCEPT !.alone = lone]
  <2>0. lone \in BOOLEAN
    OBVIOUS
  <2>n. run'[a] = o
    BY <1>1
  <2>1. /\ o \in Job /\ o.alone = lone
        /\ o.pc = run[a].pc /\ o.update = run[a].update
        /\ o.asserts = run[a].asserts /\ o.fresh = run[a].fresh
        /\ o.case = run[a].case /\ o.results = run[a].results
        /\ o.out = run[a].out /\ o.left = run[a].left /\ o.open = run[a].open
    <3> HIDE DEF lone
    <3> QED
      BY <2>0, OwnJob DEF Job
  <2> HIDE DEF o
  <2>2. lone => run[a].alone /\ ~update
    OBVIOUS
  <2> HIDE DEF lone
  <2>3. Steady(o)
    BY <2>1, <2>2, OwnJob DEF Steady, Busy
  <2> QED
    BY <2>n, <2>1, <2>2, <2>3, <1>2, <1>3
<1>6. run' \in [Runners -> Job]
  BY <1>1, <1>2, <1>3, <1>5
<1> QED
  BY <1>2, <1>3, <1>4, <1>5, <1>6 DEF Starts, Start

LEMMA KillShape == ASSUME Types, Jobs, NEW r \in Runners, Kill(r) PROVE Kills(r)
<1>1. run' = [run EXCEPT ![r] = NoRun]
  BY DEF Kill
<1>2. run' \in [Runners -> Job] /\ run'[r] = NoRun /\ \A a \in Runners \ {r} : run'[a] = run[a]
  BY <1>1, NoRunType DEF Types
<1> QED
  BY <1>2, NoRunType DEF Kills, Kill, NoRun

LEMMA NextShape ==
    ASSUME Types, Jobs, [Next]_vars
    PROVE  \/ Edits \/ UNCHANGED vars
           \/ \E r \in Runners : Starts(r) \/ StepShape(r) \/ Kills(r)
BY EditShape, StartShape, KillShape, StepShapes DEF Next
-----------------------------------------------------------------------------
(* Type correctness.                                                       *)

LEMMA TargetPath ==
    ASSUME Types, Jobs, NEW r \in Runners, run[r].pc \in Busy, NextFile(r) \in run[r].left
    PROVE  \E v \in Versions : \E n \in Resources[v] :
              /\ run[r].out = Render(run[r].case, v)
              /\ NextFile(r).path = <<n>> /\ n \in AllNames
              /\ NextFile(r).body = [of |-> run[r].case, version |-> v]
              /\ Target(r) = Path(run[r].case, n)
              /\ run[r].case \in DOMAIN Cases
<1>1. PICK v \in Versions : run[r].out = Render(run[r].case, v)
  BY OwnJob DEF Steady
<1>2. PICK n \in Resources[v] :
         NextFile(r) = [path |-> <<n>>, body |-> [of |-> run[r].case, version |-> v]]
  BY <1>1, OwnJob DEF Render
<1>3. Target(r) = Path(run[r].case, n)
  BY <1>2 DEF Target, Path
<1> QED
  BY <1>1, <1>2, <1>3, OwnJob DEF Steady, AllNames

LEMMA PutStored ==
    ASSUME snaps \subseteq Stored, NEW i \in DOMAIN Cases, NEW n \in AllNames,
           NEW body \in Bodies, NEW by \in Runners
    PROVE  Put(Path(i, n), body, by) \subseteq Stored
BY DEF Put, Stored

LEMMA SnapsStored ==
    ASSUME Types, Jobs, NEW r \in Runners, StepShape(r)
    PROVE  snaps' \subseteq Stored
<1> USE DEF Types
<1>1. ASSUME Creates(r) PROVE snaps' \subseteq Stored
  <2>1. PICK n \in AllNames : Target(r) = Path(run[r].case, n) /\ run[r].case \in DOMAIN Cases
    BY <1>1, TargetPath DEF Creates, Busy
  <2> QED
    BY <1>1, <2>1, PutStored DEF Creates, Bodies
<1>2. ASSUME Writes(r) PROVE snaps' \subseteq Stored
  <2>1. PICK v \in Versions : \E n \in Resources[v] :
           /\ NextFile(r).body = [of |-> run[r].case, version |-> v] /\ n \in AllNames
           /\ Target(r) = Path(run[r].case, n) /\ run[r].case \in DOMAIN Cases
    BY <1>2, TargetPath DEF Writes, Busy
  <2>2. NextFile(r).body \in Bodies
    BY <2>1 DEF Bodies
  <2> QED
    BY <1>2, <2>1, <2>2, PutStored DEF Writes
<1>3. ASSUME Wipes(r) PROVE snaps' \subseteq Stored
  BY <1>3 DEF Wipes
<1> QED
  BY <1>1, <1>2, <1>3
     DEF StepShape, Begins, Clears, Lists, Compares, Ends, Finishes

LEMMA StepFrame ==
    ASSUME Types, Jobs, NEW r \in Runners, StepShape(r)
    PROVE  /\ run' \in [Runners -> Job] /\ Steady(run'[r])
           /\ \A a \in Runners \ {r} : run'[a] = run[a]
           /\ run'[r].update = run[r].update /\ run'[r].fresh = run[r].fresh
           /\ run'[r].asserts = run[r].asserts
           /\ run'[r].alone = run[r].alone /\ run[r].pc \notin {"idle", "done"}
           /\ UNCHANGED <<version, edits, runs>>
<1>1. ASSUME Wipes(r) PROVE run' = run
  BY <1>1 DEF Wipes
<1> QED
  BY <1>1, OwnJob
     DEF StepShape, Begins, Wipes, Clears, Creates, Writes, Lists, Compares, Ends,
         Finishes, Moved, Busy, Types

LEMMA TypesInit == Init => Types /\ Jobs
BY NoRunType, GoldenAssumption DEF Init, Types, Jobs

LEMMA CountersStep ==
    ASSUME Types, [Next]_vars
    PROVE  version' \in Versions /\ edits' \in 0..MaxEdits /\ runs' \in 0..MaxRuns
<1> USE GoldenAssumption DEF Types
<1>1. ASSUME Edit PROVE version' \in Versions /\ edits' \in 0..MaxEdits /\ runs' = runs
  <2>1. edits < MaxEdits /\ edits' = edits + 1 /\ version' \in Versions /\ runs' = runs
    BY <1>1 DEF Edit
  <2>2. edits \in 0..MaxEdits /\ MaxEdits \in Nat
    OBVIOUS
  <2> QED
    BY <2>1, <2>2
<1>2. ASSUME NEW r \in Runners, NEW update \in BOOLEAN, Start(r, update)
      PROVE  runs' \in 0..MaxRuns /\ UNCHANGED <<version, edits>>
  BY <1>2 DEF Start
<1>3. ASSUME NEW r \in Runners, Step(r) PROVE UNCHANGED <<version, edits, runs>>
  BY <1>3 DEF Step, RenderCase, Wipe, WipeFails, Wiped, Create, Write, Copied, List,
              Compare, Passed, Finish
<1>4. ASSUME NEW r \in Runners, Kill(r) PROVE UNCHANGED <<version, edits, runs>>
  BY <1>4 DEF Kill
<1>5. ASSUME UNCHANGED vars PROVE UNCHANGED <<version, edits, runs>>
  BY <1>5 DEF vars
<1> QED
  BY <1>1, <1>2, <1>3, <1>4, <1>5 DEF Next

LEMMA TypesStep == Types /\ Jobs /\ [Next]_vars => Types' /\ Jobs'
<1> SUFFICES ASSUME Types, Jobs, [Next]_vars PROVE Types' /\ Jobs'
  OBVIOUS
<1>1. version' \in Versions /\ edits' \in 0..MaxEdits /\ runs' \in 0..MaxRuns
  BY CountersStep
<1>2. ASSUME Edits
      PROVE  snaps' = snaps /\ run' \in [Runners -> Job] /\ \A a \in Runners : Steady(run'[a])
  BY <1>2 DEF Edits
<1>3. ASSUME NEW r \in Runners, Starts(r) \/ Kills(r)
      PROVE  snaps' = snaps /\ run' \in [Runners -> Job] /\ \A a \in Runners : Steady(run'[a])
  BY <1>3, OwnJob DEF Starts, Kills
<1>4. ASSUME NEW r \in Runners, StepShape(r)
      PROVE  snaps' \subseteq Stored /\ run' \in [Runners -> Job]
             /\ \A a \in Runners : Steady(run'[a])
  BY <1>4, OwnJob, StepFrame, SnapsStored
<1>5. ASSUME UNCHANGED vars
      PROVE  snaps' = snaps /\ run' \in [Runners -> Job] /\ \A a \in Runners : Steady(run'[a])
  BY <1>5, OwnJob DEF vars, Types
<1>6. snaps' \subseteq Stored /\ run' \in [Runners -> Job] /\ \A a \in Runners : Steady(run'[a])
  BY <1>2, <1>3, <1>4, <1>5, NextShape DEF Types
<1> QED
  BY <1>1, <1>6 DEF Types, Jobs

(* Every reachable state is well typed, and a report has one outcome for   *)
(* each case that is over (run_golden).                                    *)
THEOREM GoldenTypeCorrect == Spec => []TypeOK
<1>1. Types /\ Jobs => TypeOK
  <2> SUFFICES ASSUME Types, Jobs PROVE TypeOK
    OBVIOUS
  <2>1. \A f \in snaps : f.body \in Bodies
    BY DEF Types, Stored
  <2>2. ASSUME NEW r \in Runners
        PROVE  /\ run[r].pc \in {"idle", "next", "wipe", "copy", "write", "list", "compare", "done"}
               /\ run[r].case \in 0..Len(Cases)
               /\ run[r].left \subseteq run[r].out
               /\ run[r].pc \in {"next", "done"} => Len(run[r].results) = run[r].case
    BY OwnJob DEF Job, Steady, Busy
  <2>3. ASSUME NEW r \in Runners, NEW i \in DOMAIN run[r].results
        PROVE  run[r].results[i] \in {"pass", "updated", "fail"}
    <3>1. run[r].results \in Seq(Statuses)
      BY OwnJob DEF Job
    <3> QED
      BY <2>3, <3>1, ElementOfSeq, LenProperties DEF Statuses
  <2> QED
    BY <2>1, <2>2, <2>3 DEF TypeOK, Types
<1> QED
  BY <1>1, TypesInit, TypesStep, PTL DEF Spec
-----------------------------------------------------------------------------
(* BaselineUntilReady: who changes a snapshot has rendered, and changes    *)
(* only the one of the case.                                               *)

Ready ==
    snaps' # snaps =>
        \E r \in Runners : /\ run[r].update /\ run[r].out # {}
                           /\ \A f \in (snaps \ snaps') \cup (snaps' \ snaps) :
                                IsStrictPrefix(SnapshotDir(run[r].case), f.path)

LEMMA ChangesBelow ==
    ASSUME Types, Jobs, NEW r \in Runners, Wipes(r) \/ Creates(r) \/ Writes(r)
    PROVE  \A f \in (snaps \ snaps') \cup (snaps' \ snaps) :
              IsStrictPrefix(SnapshotDir(run[r].case), f.path)
<1>1. ASSUME Wipes(r)
      PROVE  \A f \in (snaps \ snaps') \cup (snaps' \ snaps) :
                IsStrictPrefix(SnapshotDir(run[r].case), f.path)
  BY <1>1 DEF Wipes, Below
<1>2. ASSUME Creates(r) \/ Writes(r), NEW f \in (snaps \ snaps') \cup (snaps' \ snaps)
      PROVE  IsStrictPrefix(SnapshotDir(run[r].case), f.path)
  <2>1. NextFile(r) \in run[r].left /\ run[r].pc \in Busy
    BY <1>2 DEF Creates, Writes, Busy
  <2>2. PICK n \in AllNames : Target(r) = Path(run[r].case, n) /\ run[r].case \in DOMAIN Cases
    BY <2>1, TargetPath
  <2>3. f.path = Target(r)
    BY <1>2 DEF Creates, Writes, Put
  <2> QED
    BY <2>2, <2>3, PathFacts
<1> QED
  BY <1>1, <1>2

LEMMA ReadyStep == Types /\ Jobs /\ [Next]_vars => [Ready]_vars
<1> SUFFICES ASSUME Types, Jobs, [Next]_vars, snaps' # snaps PROVE Ready
  BY DEF Ready
<1>1. PICK r \in Runners : StepShape(r)
  BY NextShape DEF Edits, Starts, Kills, vars
<1>2. Wipes(r) \/ Creates(r) \/ Writes(r)
  BY <1>1 DEF StepShape, Begins, Clears, Lists, Compares, Ends, Finishes
<1>3. run[r].pc \in Busy /\ run[r].update
  BY <1>2, OwnJob DEF Wipes, Creates, Writes, Busy, Steady
<1>4. run[r].out # {}
  BY <1>3, OwnJob, RenderFiles DEF Steady
<1> QED
  BY <1>2, <1>3, <1>4, ChangesBelow DEF Ready

(* A snapshot is touched only by an update, below the directory of its     *)
(* case, and only when the render that replaces it is complete             *)
(* (run_one_golden).                                                       *)
THEOREM BaselineIsKept == Spec => BaselineUntilReady
<1>1. Types /\ Jobs /\ [Next]_vars => [Ready]_vars
  BY ReadyStep
<1>2. Spec => [][Ready]_vars
  BY <1>1, TypesInit, TypesStep, PTL DEF Spec
<1>3. [][Ready]_vars => BaselineUntilReady
  BY PTL DEF BaselineUntilReady, Ready
<1> QED
  BY <1>2, <1>3, PTL
-----------------------------------------------------------------------------
(* The snapshots as trees.                                                 *)

LEMMA TreeIs ==
    ASSUME Types, SnapshotsApart, NEW i \in DOMAIN Cases
    PROVE  /\ \A t \in Tree(SnapshotDir(i)) : \E n \in AllNames : \E g \in snaps :
                 g.path = Path(i, n) /\ t = [path |-> <<n>>, body |-> g.body]
           /\ \A n : \A g \in snaps :
                 g.path = Path(i, n) => [path |-> <<n>>, body |-> g.body] \in Tree(SnapshotDir(i))
<1>1. ASSUME NEW t \in Tree(SnapshotDir(i))
      PROVE  \E n \in AllNames : \E g \in snaps :
                g.path = Path(i, n) /\ t = [path |-> <<n>>, body |-> g.body]
  <2>1. PICK g \in snaps : /\ IsStrictPrefix(SnapshotDir(i), g.path)
                           /\ t = [path |-> SubSeq(g.path, Len(SnapshotDir(i)) + 1, Len(g.path)),
                                   body |-> g.body]
    BY <1>1 DEF Tree
  <2>2. PICK j \in DOMAIN Cases : \E n \in AllNames : g.path = Path(j, n)
    BY DEF Types, Stored
  <2>3. PICK n \in AllNames : g.path = Path(j, n)
    BY <2>2
  <2>4. i = j
    BY <2>1, <2>3, PathApart
  <2> QED
    BY <2>1, <2>3, <2>4, PathFacts
<1>2. ASSUME NEW n, NEW g \in snaps, g.path = Path(i, n)
      PROVE  [path |-> <<n>>, body |-> g.body] \in Tree(SnapshotDir(i))
  <2>1. /\ IsStrictPrefix(SnapshotDir(i), g.path)
        /\ SubSeq(g.path, Len(SnapshotDir(i)) + 1, Len(g.path)) = <<n>>
    BY <1>2, PathFacts
  <2> QED
    BY <2>1 DEF Tree
<1> QED
  BY <1>1, <1>2

Unique == \A f, g \in snaps : f.path = g.path => f = g

(* A render in hand is of the packages as they are, if nothing was edited. *)
OutNow ==
    \A r \in Runners :
        run[r].fresh /\ run[r].pc \in Busy => run[r].out = Render(run[r].case, version)

(* While a run is alone no other update is under way.                      *)
Alones ==
    \A r \in Runners : run[r].alone =>
        \A q \in Runners \ {r} : run[q].pc \in {"idle", "done"} \/ ~run[q].update

Base == Types /\ Jobs /\ Unique /\ OutNow /\ Alones

LEMMA UniqueStep == Types /\ Jobs /\ Unique /\ [Next]_vars => Unique'
<1> SUFFICES ASSUME Types, Jobs, Unique, [Next]_vars PROVE Unique'
  OBVIOUS
<1>1. ASSUME snaps' \subseteq snaps PROVE Unique'
  BY <1>1 DEF Unique
<1>2. ASSUME NEW p, NEW body, NEW by, snaps' = Put(p, body, by) PROVE Unique'
  BY <1>2 DEF Unique, Put
<1>3. ASSUME NEW r \in Runners, StepShape(r) PROVE Unique'
  <2>1. ASSUME Creates(r) \/ Writes(r) PROVE Unique'
    BY <2>1, <1>1, <1>2 DEF Creates, Writes
  <2>2. ASSUME ~(Creates(r) \/ Writes(r)) PROVE snaps' \subseteq snaps
    BY <1>3, <2>2 DEF StepShape, Begins, Wipes, Clears, Lists, Compares, Ends, Finishes
  <2> QED
    BY <2>1, <2>2, <1>1
<1>4. ASSUME Edits \/ UNCHANGED vars \/ \E r \in Runners : Starts(r) \/ Kills(r)
      PROVE  snaps' \subseteq snaps
  BY <1>4 DEF Edits, vars, Starts, Kills
<1> QED
  BY <1>1, <1>3, <1>4, NextShape

LEMMA OutNowStep == Types /\ Jobs /\ OutNow /\ [Next]_vars => OutNow'
<1> SUFFICES ASSUME Types, Jobs, OutNow, [Next]_vars,
                    NEW a \in Runners, run'[a].fresh, run'[a].pc \in Busy
             PROVE  run'[a].out = Render(run'[a].case, version')
  BY DEF OutNow, Render
<1>1. ASSUME Edits PROVE FALSE
  BY <1>1 DEF Edits
<1>2. ASSUME NEW r \in Runners, Starts(r) \/ Kills(r)
      PROVE  run'[a].out = Render(run'[a].case, version')
  BY <1>2 DEF Starts, Kills, OutNow, Busy
<1>3. ASSUME NEW r \in Runners, StepShape(r)
      PROVE  run'[a].out = Render(run'[a].case, version')
  <2>1. CASE a # r
    BY <1>3, <2>1, StepFrame DEF OutNow
  <2>2. CASE a = r /\ Begins(r)
    BY <2>2 DEF Begins, Moved, Busy
  <2>3. CASE a = r /\ (Ends(r) \/ Finishes(r))
    BY <2>3 DEF Ends, Finishes, Busy
  <2>4. CASE a = r /\ (Wipes(r) \/ Clears(r) \/ Creates(r) \/ Writes(r) \/ Lists(r) \/ Compares(r))
    BY <2>4 DEF Wipes, Clears, Creates, Writes, Lists, Compares, Moved, SameResults, Busy, OutNow
  <2> QED
    BY <1>3, <2>1, <2>2, <2>3, <2>4 DEF StepShape
<1>4. ASSUME UNCHANGED vars PROVE run'[a].out = Render(run'[a].case, version')
  BY <1>4 DEF vars, OutNow
<1> QED
  BY <1>1, <1>2, <1>3, <1>4, NextShape

LEMMA AlonesStep == Types /\ Jobs /\ Alones /\ [Next]_vars => Alones'
<1> SUFFICES ASSUME Types, Jobs, Alones, [Next]_vars,
                    NEW a \in Runners, run'[a].alone, NEW q \in Runners \ {a}
             PROVE  run'[q].pc \in {"idle", "done"} \/ ~run'[q].update
  BY DEF Alones
<1>1. ASSUME Edits PROVE FALSE
  BY <1>1 DEF Edits
<1>2. ASSUME NEW r \in Runners, Starts(r)
      PROVE  run'[q].pc \in {"idle", "done"} \/ ~run'[q].update
  BY <1>2 DEF Starts, Alone, Alones
<1>3. ASSUME NEW r \in Runners, Kills(r)
      PROVE  run'[q].pc \in {"idle", "done"} \/ ~run'[q].update
  BY <1>3 DEF Kills, Alones
<1>4. ASSUME NEW r \in Runners, StepShape(r)
      PROVE  run'[q].pc \in {"idle", "done"} \/ ~run'[q].update
  BY <1>4, StepFrame DEF Alones
<1>5. ASSUME UNCHANGED vars PROVE run'[q].pc \in {"idle", "done"} \/ ~run'[q].update
  BY <1>5 DEF vars, Alones
<1> QED
  BY <1>1, <1>2, <1>3, <1>4, <1>5, NextShape

LEMMA BaseAlways == Spec => []Base
<1>1. Init => Base
  BY TypesInit DEF Init, Base, Unique, OutNow, Alones, NoRun, Busy
<1>2. Base /\ [Next]_vars => Base'
  BY TypesStep, UniqueStep, OutNowStep, AlonesStep DEF Base
<1> QED
  BY <1>1, <1>2, PTL DEF Spec
-----------------------------------------------------------------------------
(* PassIsExact: what a lone comparison has seen is as it was rendered.     *)

TreeIn(files, dir) ==
    {[path |-> SubSeq(f.path, Len(dir) + 1, Len(f.path)), body |-> f.body] :
        f \in {g \in files : IsStrictPrefix(dir, g.path)}}

Compared(files, j) ==
    /\ Names(TreeIn(files, SnapshotDir(j.case))) = Names(j.out)
    /\ \A f \in j.out \ j.left : \E g \in files :
          g.path = SnapshotDir(j.case) \o f.path /\ g.body = f.body

Exact == \A r \in Runners : run[r].alone /\ run[r].pc = "compare" => Compared(snaps, run[r])

LEMMA SameCompared ==
    ASSUME NEW files, NEW j, NEW k, k.case = j.case, k.out = j.out, k.left = j.left,
           Compared(files, j)
    PROVE  Compared(files, k)
BY DEF Compared

LEMMA TreeInSnaps == ASSUME NEW dir PROVE Tree(dir) = TreeIn(snaps, dir)
BY DEF Tree, TreeIn

LEMMA LoneSnaps ==
    ASSUME Base, NEW a \in Runners, run[a].alone, ~run[a].update, NEW r \in Runners, StepShape(r)
    PROVE  snaps' = snaps
<1>1. ~run[r].update
  BY StepFrame DEF Base, Alones
<1>2. ~(Wipes(r) \/ Creates(r) \/ Writes(r))
  BY <1>1, OwnJob DEF Wipes, Creates, Writes, Steady, Base
<1> QED
  BY <1>2 DEF StepShape, Begins, Clears, Lists, Compares, Ends, Finishes

LEMMA ExactStep == Base /\ Exact /\ [Next]_vars => Exact'
<1> SUFFICES ASSUME Base, Exact, [Next]_vars,
                    NEW a \in Runners, run'[a].alone, run'[a].pc = "compare"
             PROVE  Compared(snaps', run'[a])
  BY DEF Exact
<1> USE DEF Base
<1> DEFINE Goal == Compared(snaps', run'[a])
<1>0. ASSUME run[a].alone, run[a].pc = "compare", snaps' = snaps,
             run'[a].case = run[a].case, run'[a].out = run[a].out, run'[a].left = run[a].left
      PROVE  Goal
  BY <1>0, SameCompared DEF Exact
<1>1. ASSUME Edits PROVE FALSE
  BY <1>1 DEF Edits
<1>2. ASSUME NEW r \in Runners, Starts(r) \/ Kills(r) PROVE Goal
  <2>1. a # r
    BY <1>2 DEF Starts, Kills
  <2> QED
    BY <1>0, <1>2, <2>1 DEF Starts, Kills
<1>3. ASSUME NEW r \in Runners, StepShape(r), a # r PROVE Goal
  <2>1. run'[a] = run[a]
    BY <1>3, StepFrame
  <2>2. ~run[a].update
    BY <2>1, OwnJob DEF Steady
  <2>3. snaps' = snaps
    BY <1>3, <2>1, <2>2, LoneSnaps
  <2> QED
    BY <1>0, <2>1, <2>3
<1>4. ASSUME StepShape(a) PROVE Goal
  <2>1. Lists(a) \/ Compares(a)
    BY <1>4, StepFrame
       DEF StepShape, Begins, Wipes, Clears, Creates, Writes, Ends, Finishes
  <2>2. CASE Lists(a)
    <3>1. run'[a].out \ run'[a].left = {}
      BY <2>2 DEF Lists
    <3> QED
      BY <2>2, <3>1, TreeInSnaps DEF Lists, SameResults, Compared
  <2>3. CASE Compares(a)
    <3>1. run[a].alone
      BY <1>4, StepFrame
    <3>2. /\ snaps' = snaps /\ run'[a].case = run[a].case /\ run'[a].out = run[a].out
          /\ run'[a].left = run[a].left \ {NextFile(a)} /\ run[a].pc = "compare"
      BY <2>3 DEF Compares, SameResults
    <3>3. \E g \in snaps : /\ g.path = SnapshotDir(run[a].case) \o NextFile(a).path
                           /\ g.body = NextFile(a).body
      BY <2>3 DEF Compares, Target
    <3>4. \A f \in run'[a].out \ run'[a].left : f \in run[a].out \ run[a].left \/ f = NextFile(a)
      BY <3>2
    <3>5. Compared(snaps, run[a])
      BY <3>1, <3>2 DEF Exact
    <3> QED
      BY <3>2, <3>3, <3>4, <3>5 DEF Compared
  <2> QED
    BY <2>1, <2>2, <2>3
<1>5. ASSUME UNCHANGED vars PROVE Goal
  BY <1>0, <1>5 DEF vars
<1> QED
  BY <1>1, <1>2, <1>3, <1>4, <1>5, NextShape

LEMMA ExactAlways == Spec => [](Base /\ Exact)
<1>1. Init => Exact
  BY DEF Init, Exact, NoRun
<1> QED
  BY <1>1, ExactStep, BaseAlways, PTL DEF Spec

LEMMA ComparedTree ==
    ASSUME SnapshotsApart, Base, Exact, NEW r \in Runners,
           run[r].alone, run[r].pc = "compare", run[r].left = {}
    PROVE  Tree(SnapshotDir(run[r].case)) = run[r].out
<1> DEFINE i == run[r].case
<1>1. i \in DOMAIN Cases /\ Types /\ run[r].out \subseteq Files
  BY OwnJob DEF Base, Steady, Busy, Job
<1>2. ASSUME NEW f \in run[r].out
      PROVE  \E n \in AllNames : \E g \in snaps :
                g.path = Path(i, n) /\ f = [path |-> <<n>>, body |-> g.body]
  <2>1. PICK n \in AllNames : f.path = <<n>> /\ f = [path |-> f.path, body |-> f.body]
    BY <1>1, <1>2 DEF Files
  <2>2. PICK g \in snaps : g.path = SnapshotDir(i) \o f.path /\ g.body = f.body
    BY <1>2 DEF Exact, Compared
  <2> QED
    BY <2>1, <2>2 DEF Path
<1>3. ASSUME NEW f \in run[r].out PROVE f \in Tree(SnapshotDir(i))
  BY <1>1, <1>2, <1>3, TreeIs
<1>4. ASSUME NEW t \in Tree(SnapshotDir(i)) PROVE t \in run[r].out
  <2>1. PICK n \in AllNames : \E g \in snaps :
           g.path = Path(i, n) /\ t = [path |-> <<n>>, body |-> g.body]
    BY <1>1, <1>4, TreeIs
  <2>2. PICK g \in snaps : g.path = Path(i, n) /\ t = [path |-> <<n>>, body |-> g.body]
    BY <2>1
  <2>3. PICK f \in run[r].out : f.path = <<n>>
    <3>1. <<n>> \in Names(Tree(SnapshotDir(i)))
      BY <1>4, <2>2 DEF Names
    <3>2. <<n>> \in Names(run[r].out)
      BY <3>1, TreeInSnaps DEF Exact, Compared
    <3> QED
      BY <3>2 DEF Names
  <2>4. PICK m \in AllNames : \E h \in snaps :
           h.path = Path(i, m) /\ f = [path |-> <<m>>, body |-> h.body]
    BY <1>2
  <2>5. PICK h \in snaps : h.path = Path(i, m) /\ f = [path |-> <<m>>, body |-> h.body]
    BY <2>4
  <2>6. m = n /\ h = g
    BY <2>2, <2>3, <2>5 DEF Base, Unique
  <2> QED
    BY <2>2, <2>5, <2>6
<1> QED
  BY <1>3, <1>4

Passes ==
    \A r \in Runners :
        LET n == Len(run[r].results) IN
        (/\ Len(run'[r].results) = n + 1 /\ run'[r].results[n + 1] = "pass"
         /\ run[r].alone)
        => Tree(SnapshotDir(run[r].case)) = run[r].out

LEMMA PassesStep ==
    ASSUME SnapshotsApart
    PROVE  Base /\ Exact /\ [Next]_vars => [Passes]_vars
<1> SUFFICES ASSUME Base, Exact, [Next]_vars, NEW a \in Runners, run[a].alone,
                    Len(run'[a].results) = Len(run[a].results) + 1,
                    run'[a].results[Len(run[a].results) + 1] = "pass"
             PROVE  Tree(SnapshotDir(run[a].case)) = run[a].out
  BY DEF Passes
<1> USE DEF Base
<1>0. run[a].results \in Seq(Statuses) /\ Len(run[a].results) \in Nat /\ Len(<<>>) = 0
  BY OwnJob, LenProperties DEF Job
<1>1. run'[a].results # run[a].results /\ run'[a].results # <<>>
  BY <1>0
<1>2. PICK r \in Runners : StepShape(r)
  BY <1>1, NextShape DEF Edits, Starts, Kills, vars
<1>3. r = a
  BY <1>1, <1>2, StepFrame
<1>4. \A st \in Statuses : Append(run[a].results, st)[Len(run[a].results) + 1] = st
  BY <1>0, AppendProperties
<1>5. Begins(a) \/ Ends(a)
  BY <1>1, <1>2, <1>3
     DEF StepShape, Wipes, Clears, Creates, Writes, Lists, Compares, Finishes, SameResults
<1>6. run[a].pc = "compare" /\ run[a].left = {}
  <2>1. /\ run'[a].results # Append(run[a].results, "fail")
        /\ run'[a].results # Append(run[a].results, "updated")
    BY <1>4 DEF Statuses
  <2> QED
    BY <1>1, <1>5, <2>1 DEF Begins, Ends
<1> QED
  BY <1>6, ComparedTree

(* While no other update is under way a case passes only if the files of   *)
(* its snapshot are those of its render, each with its bytes, no file more *)
(* and none less (run_one_golden, dir_diff::diff).                         *)
THEOREM PassesAreExact == SnapshotsApart => (Spec => PassIsExact)
<1> SUFFICES ASSUME SnapshotsApart PROVE Spec => PassIsExact
  OBVIOUS
<1>1. Base /\ Exact /\ [Next]_vars => [Passes]_vars
  BY PassesStep
<1>2. Spec => [][Passes]_vars
  BY <1>1, ExactAlways, PTL DEF Spec
<1>3. [][Passes]_vars => PassIsExact
  BY PTL DEF PassIsExact, Passes
<1> QED
  BY <1>2, <1>3, PTL
-----------------------------------------------------------------------------
(* UpdatedIsBaseline.  A lone update, or all the commands if each is one,  *)
(* are taken together.  Once each of them has removed what there was of a  *)
(* case, what is there is theirs: a file is right or one of them has it    *)
(* open, and the last to remove has put, or still has to put, each file.   *)

NextOf(j) == CHOOSE f \in j.left : TRUE
TargetOf(j) == SnapshotDir(j.case) \o NextOf(j).path

Together(S) == S = Runners \/ \E r \in Runners : S = {r} /\ run[r].alone

Sound(j) ==
    /\ j.pc # "idle" /\ j.update /\ j.fresh
    /\ \A k \in DOMAIN j.results : j.results[k] # "fail"

HasWiped(j, i) ==
    Sound(j) /\ (i < j.case \/ (i = j.case /\ j.pc \in {"copy", "write", "next", "done"}))

HasOpen(j, i, f) == j.pc = "write" /\ j.case = i /\ TargetOf(j) = f.path /\ j.open = f.by

Written(S, i, files, jobs, v) ==
    \A f \in files : \A n : f.path = Path(i, n) =>
        /\ n \in Resources[v]
        /\ f.body = [of |-> i, version |-> v] \/ \E r \in S : HasOpen(jobs[r], i, f)

HasFile(files, i, n) == \E f \in files : f.path = Path(i, n)
HasLeft(j, i, n) == j.case = i /\ j.pc \in {"copy", "write"} /\ \E e \in j.left : e.path = <<n>>

Puts(i, files, j, v) ==
    /\ \A n \in Resources[v] : HasFile(files, i, n) \/ HasLeft(j, i, n)
    /\ j.pc = "write" /\ j.case = i => \E f \in files : f.path = TargetOf(j)

Right(S, i, files, jobs, v) ==
    Written(S, i, files, jobs, v) /\ \E x \in S : Puts(i, files, jobs[x], v)

Kept ==
    \A S \in SUBSET Runners : \A i \in DOMAIN Cases :
        S # {} /\ Together(S) /\ (\A r \in S : HasWiped(run[r], i))
            => Right(S, i, snaps, run, version)

LEMMA TargetIs ==
    ASSUME NEW r \in Runners
    PROVE  Target(r) = TargetOf(run[r]) /\ NextFile(r) = NextOf(run[r])
BY DEF Target, TargetOf, NextFile, NextOf

(* Right looks at the case, the step and the file in hand only.            *)
LEMMA RightSame ==
    ASSUME NEW S, NEW i, NEW files, NEW jobs, NEW others, NEW v, Right(S, i, files, jobs, v),
           \A r \in S : /\ others[r].pc = jobs[r].pc /\ others[r].case = jobs[r].case
                        /\ others[r].left = jobs[r].left /\ others[r].open = jobs[r].open
    PROVE  Right(S, i, files, others, v)
<1>1. ASSUME NEW r \in S PROVE TargetOf(others[r]) = TargetOf(jobs[r])
  BY DEF TargetOf, NextOf
<1>2. Written(S, i, files, others, v)
  BY <1>1 DEF Right, Written, HasOpen
<1>3. PICK x \in S : Puts(i, files, jobs[x], v)
  BY DEF Right
<1>4. Puts(i, files, others[x], v)
  BY <1>1, <1>3 DEF Puts, HasLeft
<1> QED
  BY <1>2, <1>4 DEF Right

(* A step that changes no file, by one with none to put.                   *)
LEMMA RightQuiet ==
    ASSUME NEW S, NEW i, NEW files, NEW jobs, NEW others, NEW v, Right(S, i, files, jobs, v),
           NEW q \in S, \A r \in S \ {q} : others[r] = jobs[r],
           jobs[q].pc # "write", ~(jobs[q].pc = "copy" /\ jobs[q].left # {}),
           others[q].pc # "write"
    PROVE  Right(S, i, files, others, v)
<1>1. Written(S, i, files, others, v)
  BY DEF Right, Written, HasOpen
<1>2. PICK x \in S : Puts(i, files, jobs[x], v)
  BY DEF Right
<1>3. Puts(i, files, others[x], v)
  <2>1. CASE x = q
    BY <1>2, <2>1 DEF Puts, HasLeft
  <2>2. CASE x # q
    BY <1>2, <2>2
  <2> QED
    BY <2>1, <2>2
<1> QED
  BY <1>1, <1>3 DEF Right

LEMMA OpenTarget ==
    ASSUME Base, NEW r \in Runners, run[r].pc = "write"
    PROVE  \E n : TargetOf(run[r]) = Path(run[r].case, n)
<1>1. NextFile(r) \in run[r].left /\ run[r].pc \in Busy
  BY OwnJob DEF Base, Steady, Busy
<1> QED
  BY <1>1, TargetPath, TargetIs DEF Base

LEMMA PutsGrow ==
    ASSUME NEW i, NEW files, NEW more, NEW j, NEW v, Puts(i, files, j, v),
           \A f \in files : \A n : f.path = Path(i, n) => \E g \in more : g.path = f.path,
           j.pc = "write" /\ j.case = i => \E n : TargetOf(j) = Path(i, n)
    PROVE  Puts(i, more, j, v)
<1>1. \A n : HasFile(files, i, n) => HasFile(more, i, n)
  BY DEF HasFile
<1>2. ASSUME j.pc = "write", j.case = i PROVE \E f \in more : f.path = TargetOf(j)
  <2>1. PICK f \in files : f.path = TargetOf(j)
    BY <1>2 DEF Puts
  <2> QED
    BY <1>2, <2>1
<1> QED
  BY <1>1, <1>2 DEF Puts

(* A removal in another case.                                              *)
LEMMA RightWipes ==
    ASSUME SnapshotsApart, Base, NEW S \in SUBSET Runners, NEW i \in DOMAIN Cases,
           Right(S, i, snaps, run, version), NEW q \in Runners, Wipes(q), run[q].case # i
    PROVE  Right(S, i, snaps', run, version)
<1>1. PICK f \in Below(q) : snaps' = snaps \ {f}
  BY DEF Wipes
<1>2. run[q].case \in DOMAIN Cases
  BY OwnJob DEF Wipes, Steady, Busy, Base
<1>3. \A n : f.path # Path(i, n)
  BY <1>1, <1>2, PathApart DEF Below
<1>4. Written(S, i, snaps', run, version)
  BY <1>1 DEF Right, Written
<1>5. PICK x \in S : Puts(i, snaps, run[x], version)
  BY DEF Right
<1>6. Puts(i, snaps', run[x], version)
  <2>1. \A g \in snaps : \A n : g.path = Path(i, n) => \E h \in snaps' : h.path = g.path
    BY <1>1, <1>3
  <2>2. run[x].pc = "write" /\ run[x].case = i => \E n : TargetOf(run[x]) = Path(i, n)
    BY OpenTarget
  <2> QED
    BY <1>5, <2>1, <2>2, PutsGrow
<1> QED
  BY <1>4, <1>6 DEF Right
(* What a fresh update puts next is of its render.                         *)
LEMMA NextPut ==
    ASSUME Base, NEW q \in Runners, run[q].fresh, run[q].pc \in Busy,
           NextFile(q) \in run[q].left
    PROVE  \E m \in Resources[version] :
              /\ NextFile(q).path = <<m>> /\ Target(q) = Path(run[q].case, m)
              /\ NextFile(q).body = [of |-> run[q].case, version |-> version]
              /\ run[q].case \in DOMAIN Cases
<1>1. run[q].out = Render(run[q].case, version)
  BY DEF Base, OutNow
<1>2. NextFile(q) \in Render(run[q].case, version) /\ run[q].case \in DOMAIN Cases
  BY <1>1, OwnJob DEF Base, Steady
<1>3. PICK m \in Resources[version] :
         NextFile(q) = [path |-> <<m>>, body |-> [of |-> run[q].case, version |-> version]]
  BY <1>2 DEF Render
<1>4. Target(q) = Path(run[q].case, m)
  BY <1>3 DEF Target, Path
<1> QED
  BY <1>2, <1>3, <1>4

LEMMA PutPersists ==
    ASSUME NEW p, NEW body, NEW by
    PROVE  \A f \in snaps : \E g \in Put(p, body, by) : g.path = f.path
<1> TAKE f \in snaps
<1>1. [path |-> p, body |-> body, by |-> by] \in Put(p, body, by)
  BY DEF Put
<1>2. f.path # p => f \in Put(p, body, by)
  BY DEF Put
<1> QED
  BY <1>1, <1>2

LEMMA RightCreates ==
    ASSUME SnapshotsApart, Base, NEW S \in SUBSET Runners, NEW i \in DOMAIN Cases,
           Right(S, i, snaps, run, version), NEW q \in S, run[q].fresh, Creates(q)
    PROVE  Right(S, i, snaps', run', version)
<1>1. /\ run[q].pc = "copy" /\ run'[q].pc = "write" /\ run'[q].case = run[q].case
      /\ run'[q].left = run[q].left /\ NextFile(q) \in run[q].left /\ run[q].pc \in Busy
      /\ \A r \in Runners \ {q} : run'[r] = run[r]
      /\ snaps' = Put(Target(q), Torn, run'[q].open) /\ q \in Runners
  BY DEF Creates, Moved, SameResults, Busy
<1>2. PICK m \in Resources[version] :
         Target(q) = Path(run[q].case, m) /\ run[q].case \in DOMAIN Cases
  BY <1>1, NextPut
<1>3. TargetOf(run'[q]) = Target(q) /\ TargetOf(run[q]) = Target(q)
  BY <1>1 DEF TargetOf, NextOf, Target, NextFile
<1>4. Written(S, i, snaps', run', version)
  <2> SUFFICES ASSUME NEW f \in snaps', NEW n, f.path = Path(i, n)
               PROVE  /\ n \in Resources[version]
                      /\ \/ f.body = [of |-> i, version |-> version]
                         \/ \E r \in S : HasOpen(run'[r], i, f)
    BY DEF Written
  <2>1. CASE f \in snaps
    <3>1. ASSUME NEW r \in S, HasOpen(run[r], i, f) PROVE HasOpen(run'[r], i, f)
      BY <1>1, <3>1 DEF HasOpen
    <3> QED
      BY <2>1, <3>1 DEF Right, Written
  <2>2. CASE f = [path |-> Target(q), body |-> Torn, by |-> run'[q].open]
    <3>1. run[q].case = i /\ n = m
      BY <1>2, <2>2, PathSame
    <3>2. HasOpen(run'[q], i, f)
      BY <1>1, <1>3, <2>2, <3>1 DEF HasOpen
    <3> QED
      BY <3>1, <3>2
  <2> QED
    BY <1>1, <2>1, <2>2 DEF Put
<1>5. PICK x \in S : Puts(i, snaps, run[x], version)
  BY DEF Right
<1>6. \A f \in snaps : \E g \in snaps' : g.path = f.path
  BY <1>1, PutPersists
<1>7. Puts(i, snaps', run'[x], version)
  <2>1. Puts(i, snaps', run[x], version)
    BY <1>5, <1>6, OpenTarget, PutsGrow
  <2>2. CASE x # q
    BY <1>1, <2>1, <2>2
  <2>3. CASE x = q
    <3>1. \A n : HasLeft(run[q], i, n) => HasLeft(run'[q], i, n)
      BY <1>1 DEF HasLeft
    <3>2. \E f \in snaps' : f.path = TargetOf(run'[q])
      <4>1. [path |-> Target(q), body |-> Torn, by |-> run'[q].open] \in snaps'
        BY <1>1 DEF Put
      <4> QED
        BY <1>3, <4>1
    <3> QED
      BY <2>1, <2>3, <3>1, <3>2 DEF Puts
  <2> QED
    BY <2>2, <2>3
<1> QED
  BY <1>4, <1>7 DEF Right

LEMMA RightWrites ==
    ASSUME SnapshotsApart, Base, NEW S \in SUBSET Runners, NEW i \in DOMAIN Cases,
           Right(S, i, snaps, run, version), NEW q \in S, run[q].fresh, Writes(q)
    PROVE  Right(S, i, snaps', run', version)
<1>1. /\ run[q].pc = "write" /\ run'[q].pc = "copy" /\ run'[q].case = run[q].case
      /\ run'[q].left = run[q].left \ {NextFile(q)}
      /\ NextFile(q) \in run[q].left /\ run[q].pc \in Busy
      /\ \A r \in Runners \ {q} : run'[r] = run[r]
      /\ q \in Runners
  BY DEF Writes, Moved, SameResults, Busy
<1>2. PICK m \in Resources[version] :
         /\ NextFile(q).path = <<m>> /\ Target(q) = Path(run[q].case, m)
         /\ NextFile(q).body = [of |-> run[q].case, version |-> version]
         /\ run[q].case \in DOMAIN Cases
  BY <1>1, NextPut
<1> DEFINE new == [path |-> Target(q), body |-> NextFile(q).body, by |-> run[q].open]
<1>3. TargetOf(run[q]) = Target(q)
  BY TargetIs
<1>4. \/ snaps' = {g \in snaps : g.path # Target(q)} \cup {new}
      \/ snaps' = snaps /\ ~\E g \in snaps : g.path = Target(q) /\ g.by = run[q].open
  BY DEF Writes, Put
<1>5. Written(S, i, snaps', run', version)
  <2> SUFFICES ASSUME NEW f \in snaps', NEW n, f.path = Path(i, n)
               PROVE  /\ n \in Resources[version]
                      /\ \/ f.body = [of |-> i, version |-> version]
                         \/ \E r \in S : HasOpen(run'[r], i, f)
    BY DEF Written
  <2>1. CASE f \in snaps /\ ~(f.path = Target(q) /\ f.by = run[q].open)
    <3>1. ASSUME NEW r \in S, HasOpen(run[r], i, f) PROVE HasOpen(run'[r], i, f)
      <4>1. r # q
        BY <1>3, <2>1, <3>1 DEF HasOpen
      <4> QED
        BY <1>1, <3>1, <4>1
    <3> QED
      BY <2>1, <3>1 DEF Right, Written
  <2>2. CASE f = new
    <3>1. run[q].case = i /\ n = m
      BY <1>2, <2>2, PathSame
    <3> QED
      BY <1>2, <2>2, <3>1
  <2> HIDE DEF new
  <2> QED
    BY <1>4, <2>1, <2>2
<1>6. PICK x \in S : Puts(i, snaps, run[x], version)
  BY DEF Right
<1>7. \A f \in snaps : \E g \in snaps' : g.path = f.path
  <2>1. ASSUME NEW f \in snaps
        PROVE  \E g \in {h \in snaps : h.path # Target(q)} \cup {new} : g.path = f.path
    <3>1. new.path = Target(q)
      OBVIOUS
    <3> HIDE DEF new
    <3> QED
      BY <3>1
  <2> HIDE DEF new
  <2> QED
    BY <1>4, <2>1
<1>8. Puts(i, snaps', run'[x], version)
  <2>1. Puts(i, snaps', run[x], version)
    BY <1>6, <1>7, OpenTarget, PutsGrow
  <2>2. CASE x # q
    BY <1>1, <2>1, <2>2
  <2>3. CASE x = q
    <3>1. ASSUME NEW n \in Resources[version], HasLeft(run[q], i, n)
          PROVE  HasFile(snaps', i, n) \/ HasLeft(run'[q], i, n)
      <4>1. PICK e \in run[q].left : e.path = <<n>>
        BY <3>1 DEF HasLeft
      <4>2. run[q].case = i
        BY <3>1 DEF HasLeft
      <4>3. CASE e = NextFile(q)
        <5>1. n = m
          BY <1>2, <4>1, <4>3
        <5>2. \E f \in snaps' : f.path = Path(i, n)
          BY <1>1, <1>2, <1>3, <2>1, <2>3, <4>2, <5>1 DEF Puts
        <5> QED
          BY <5>2 DEF HasFile
      <4>4. CASE e # NextFile(q)
        BY <1>1, <4>1, <4>2, <4>4 DEF HasLeft
      <4> QED
        BY <4>3, <4>4
    <3> QED
      BY <1>1, <2>1, <2>3, <3>1 DEF Puts
  <2> QED
    BY <2>2, <2>3
<1> QED
  BY <1>5, <1>8 DEF Right

(* The last to remove finds, or leaves, the directory empty.               *)
LEMMA RightClears ==
    ASSUME SnapshotsApart, Base, NEW S \in SUBSET Runners, NEW q \in S, run[q].fresh, Clears(q)
    PROVE  Right(S, run[q].case, snaps', run', version)
<1> DEFINE i == run[q].case
<1>1. /\ q \in Runners /\ run'[q].pc = "copy" /\ run'[q].case = i /\ run'[q].left = run[q].out
      /\ snaps' = snaps /\ Below(q) = {} /\ run[q].pc \in Busy
  BY DEF Clears, SameResults, Busy
<1>2. i \in DOMAIN Cases /\ run[q].out = Render(i, version)
  BY <1>1, OwnJob DEF Base, OutNow, Steady
<1>3. ASSUME NEW f \in snaps, NEW n PROVE f.path # Path(i, n)
  BY <1>1, <1>2, PathFacts DEF Below
<1>4. ASSUME NEW n \in Resources[version] PROVE HasLeft(run'[q], i, n)
  <2> DEFINE e == [path |-> <<n>>, body |-> [of |-> i, version |-> version]]
  <2>1. e \in run'[q].left /\ e.path = <<n>>
    BY <1>1, <1>2 DEF Render
  <2> HIDE DEF e
  <2> QED
    BY <1>1, <2>1 DEF HasLeft
<1> HIDE DEF i
<1>5. Written(S, i, snaps', run', version)
  BY <1>1, <1>3 DEF Written
<1>6. Puts(i, snaps', run'[q], version)
  BY <1>1, <1>4 DEF Puts
<1>7. Right(S, i, snaps', run', version)
  BY <1>5, <1>6 DEF Right
<1> QED
  BY <1>7 DEF i
(* A step of a group's own member, after which it has removed case i.      *)
LEMMA HadWiped ==
    ASSUME Base, NEW q \in Runners, StepShape(q), NEW i \in DOMAIN Cases, HasWiped(run'[q], i)
    PROVE  /\ run[q].fresh /\ run[q].update
           /\ \/ HasWiped(run[q], i)
              \/ Clears(q) /\ i = run[q].case
           /\ Ends(q) => run[q].pc = "copy" /\ run[q].left = {}
<1>1. run[q].fresh /\ run[q].update /\ Sound(run'[q])
  BY StepFrame DEF Base, HasWiped, Sound
<1>2. /\ run[q].results \in Seq(Statuses) /\ Len(run[q].results) \in Nat
      /\ DOMAIN run[q].results = 1..Len(run[q].results)
      /\ run[q].case \in Nat /\ i \in Nat
  BY OwnJob, LenProperties, CasesSeq DEF Base, Job
<1>3. run'[q].results # Append(run[q].results, "fail")
  <2> SUFFICES ASSUME run'[q].results = Append(run[q].results, "fail") PROVE FALSE
    OBVIOUS
  <2>1. /\ Len(run[q].results) + 1 \in DOMAIN Append(run[q].results, "fail")
        /\ Append(run[q].results, "fail")[Len(run[q].results) + 1] = "fail"
    <3>1. "fail" \in Statuses
      BY DEF Statuses
    <3>2. /\ Append(run[q].results, "fail") \in Seq(Statuses)
          /\ Len(Append(run[q].results, "fail")) = Len(run[q].results) + 1
          /\ Append(run[q].results, "fail")[Len(run[q].results) + 1] = "fail"
      BY <1>2, <3>1, AppendProperties
    <3>3. DOMAIN Append(run[q].results, "fail") = 1..Len(run[q].results) + 1
      BY <3>2, LenProperties
    <3> QED
      BY <1>2, <3>2, <3>3
  <2> QED
    BY <1>1, <2>1 DEF Sound
<1>4. run[q].pc # "idle"
  BY StepFrame DEF Base
<1>5. ASSUME run'[q].results = run[q].results PROVE Sound(run[q])
  BY <1>1, <1>4, <1>5 DEF Sound
<1>6. ASSUME NEW st \in Statuses, run'[q].results = Append(run[q].results, st)
      PROVE  Sound(run[q])
  <2>1. ASSUME NEW k \in DOMAIN run[q].results PROVE run[q].results[k] # "fail"
    <3>1. Append(run[q].results, st)[k] = run[q].results[k] /\ k \in 1..Len(run[q].results)
      BY <1>2, <2>1, AppendProperties
    <3>2. k \in DOMAIN Append(run[q].results, st)
      <4>1. /\ Append(run[q].results, st) \in Seq(Statuses)
            /\ Len(Append(run[q].results, st)) = Len(run[q].results) + 1
        BY <1>2, AppendProperties
      <4>2. DOMAIN Append(run[q].results, st) = 1..Len(run[q].results) + 1
        BY <4>1, LenProperties
      <4> QED
        BY <1>2, <3>1, <4>2
    <3> QED
      BY <1>1, <1>6, <3>1, <3>2 DEF Sound
  <2> QED
    BY <1>1, <1>4, <2>1 DEF Sound
<1>7. ASSUME Begins(q) PROVE HasWiped(run[q], i)
  <2>1. /\ run[q].pc = "next" /\ run'[q].case = run[q].case + 1 /\ run'[q].pc = "wipe"
        /\ run'[q].results = run[q].results
    BY <1>1, <1>3, <1>7 DEF Begins
  <2>2. i < run[q].case + 1
    BY <2>1 DEF HasWiped
  <2>3. i < run[q].case \/ i = run[q].case
    BY <1>2, <2>2
  <2> QED
    BY <1>5, <2>1, <2>3 DEF HasWiped
<1>8. ASSUME Wipes(q) PROVE HasWiped(run[q], i)
  BY <1>8 DEF Wipes
<1>9. ASSUME Clears(q), i # run[q].case PROVE HasWiped(run[q], i)
  BY <1>5, <1>9 DEF Clears, SameResults, HasWiped
<1>10. ASSUME Creates(q) \/ Writes(q) \/ Finishes(q) PROVE HasWiped(run[q], i)
  BY <1>5, <1>10 DEF Creates, Writes, Finishes, SameResults, HasWiped
<1>11. ~(Lists(q) \/ Compares(q))
  BY <1>1, OwnJob DEF Lists, Compares, Base, Steady
<1>12. ASSUME Ends(q) PROVE HasWiped(run[q], i) /\ run[q].pc = "copy" /\ run[q].left = {}
  <2>1. run[q].pc # "compare"
    BY <1>1, OwnJob DEF Base, Steady
  <2>2. /\ run[q].pc = "copy" /\ run[q].left = {}
        /\ run'[q].results = Append(run[q].results, "updated")
        /\ run'[q].case = run[q].case
    BY <1>3, <1>12, <2>1 DEF Ends
  <2>3. Sound(run[q])
    BY <1>6, <2>2 DEF Statuses
  <2> QED
    BY <2>2, <2>3 DEF HasWiped
<1> QED
  BY <1>1, <1>7, <1>8, <1>9, <1>10, <1>11, <1>12 DEF StepShape

(* The step of a member.                                                   *)
LEMMA KeptOwn ==
    ASSUME SnapshotsApart, Base, NEW S \in SUBSET Runners, NEW i \in DOMAIN Cases,
           (\A r \in S : HasWiped(run[r], i)) => Right(S, i, snaps, run, version),
           NEW q \in S, StepShape(q), \A r \in S : HasWiped(run'[r], i)
    PROVE  Right(S, i, snaps', run', version)
<1>1. /\ q \in Runners /\ \A r \in Runners \ {q} : run'[r] = run[r]
  BY StepFrame DEF Base
<1>2. run[q].fresh /\ run[q].update
  BY <1>1, HadWiped
<1>3. CASE Clears(q) /\ i = run[q].case
  BY <1>2, <1>3, RightClears
<1>4. CASE ~(Clears(q) /\ i = run[q].case)
  <2>1. HasWiped(run[q], i)
    BY <1>1, <1>4, HadWiped
  <2>2. Right(S, i, snaps, run, version)
    BY <1>1, <2>1
  <2>3. ASSUME Begins(q) \/ Clears(q) \/ Finishes(q) PROVE Right(S, i, snaps', run', version)
    <3>1. /\ run[q].pc \in {"next", "wipe"} /\ snaps' = snaps
          /\ run'[q].pc \in {"wipe", "list", "next", "copy", "done"}
      BY <2>3 DEF Begins, Clears, Finishes
    <3>2. Right(S, i, snaps, run', version)
      BY <1>1, <2>2, <3>1, RightQuiet
    <3> QED
      BY <3>1, <3>2
  <2>4. ASSUME Wipes(q) PROVE Right(S, i, snaps', run', version)
    <3>1. run' = run /\ run[q].pc = "wipe"
      BY <2>4 DEF Wipes
    <3>2. run[q].case # i
      BY <2>1, <3>1, CasesSeq, <1>1, OwnJob DEF HasWiped, Base, Job
    <3> QED
      BY <1>1, <2>2, <2>4, <3>1, <3>2, RightWipes
  <2>5. ASSUME Creates(q) PROVE Right(S, i, snaps', run', version)
    BY <1>2, <2>2, <2>5, RightCreates
  <2>6. ASSUME Writes(q) PROVE Right(S, i, snaps', run', version)
    BY <1>2, <2>2, <2>6, RightWrites
  <2>7. ~(Lists(q) \/ Compares(q))
    BY <1>1, <1>2, OwnJob DEF Lists, Compares, Base, Steady
  <2>8. ASSUME Ends(q) PROVE Right(S, i, snaps', run', version)
    <3>1. /\ snaps' = snaps /\ run'[q].pc = "next"
          /\ run[q].pc \in {"wipe", "copy", "list", "compare", "write"}
      BY <2>8 DEF Ends, Busy
    <3>2. run[q].pc = "copy" /\ run[q].left = {}
      BY <1>1, <1>2, <2>8, HadWiped
    <3>3. Right(S, i, snaps, run', version)
      BY <1>1, <2>2, <3>1, <3>2, RightQuiet
    <3> QED
      BY <3>1, <3>3
  <2> QED
    BY <2>3, <2>4, <2>5, <2>6, <2>7, <2>8 DEF StepShape
<1> QED
  BY <1>3, <1>4
(* A step of one outside the group: it is alone, so nothing is removed or  *)
(* written.                                                                *)
LEMMA KeptApart ==
    ASSUME Base, Kept, NEW a \in Runners, NEW q \in Runners \ {a}, NEW i \in DOMAIN Cases,
           StepShape(q) \/ Starts(q) \/ Kills(q), run'[a].alone, HasWiped(run'[a], i)
    PROVE  Right({a}, i, snaps', run', version')
<1>1. /\ run[a].alone /\ version' = version
      /\ run'[a].pc = run[a].pc /\ run'[a].case = run[a].case
      /\ run'[a].left = run[a].left /\ run'[a].open = run[a].open
      /\ run'[a].update = run[a].update /\ run'[a].fresh = run[a].fresh
      /\ run'[a].results = run[a].results
  BY StepFrame DEF Base, Starts, Kills
<1>2. HasWiped(run[a], i)
  BY <1>1 DEF HasWiped, Sound
<1>3. Right({a}, i, snaps, run, version)
  <2>1. {a} \in SUBSET Runners /\ {a} # {} /\ Together({a}) /\ \A r \in {a} : HasWiped(run[r], i)
    BY <1>1, <1>2 DEF Together
  <2> QED
    BY <2>1 DEF Kept
<1>4. snaps' = snaps
  <2>1. ASSUME StepShape(q) PROVE snaps' = snaps
    <3>1. ~run[q].update
      BY <1>1, <2>1, StepFrame DEF Base, Alones
    <3>2. ~(Wipes(q) \/ Creates(q) \/ Writes(q))
      BY <3>1, OwnJob DEF Wipes, Creates, Writes, Steady, Base
    <3> QED
      BY <2>1, <3>2 DEF StepShape, Begins, Clears, Lists, Compares, Ends, Finishes
  <2> QED
    BY <2>1 DEF Starts, Kills
<1>5. Right({a}, i, snaps, run', version)
  BY <1>1, <1>3, RightSame
<1> QED
  BY <1>1, <1>4, <1>5

LEMMA KeptStep == SnapshotsApart /\ Base /\ Kept /\ [Next]_vars => Kept'
<1> SUFFICES ASSUME SnapshotsApart, Base, Kept, [Next]_vars,
                    NEW S \in SUBSET Runners, NEW i \in DOMAIN Cases, S # {},
                    S = Runners \/ \E r \in Runners : S = {r} /\ run'[r].alone,
                    \A r \in S : HasWiped(run'[r], i)
             PROVE  Right(S, i, snaps', run', version')
  BY DEF Kept, Together
<1>1. CASE UNCHANGED vars
  <2>1. run' = run /\ snaps' = snaps /\ version' = version
    BY <1>1 DEF vars
  <2> QED
    BY <2>1 DEF Kept, Together
<1>2. ASSUME Edits PROVE FALSE
  <2>1. PICK r \in S : r \in Runners
    OBVIOUS
  <2> QED
    BY <1>2, <2>1 DEF Edits, HasWiped, Sound
<1>3. ASSUME NEW q \in Runners, q \in S, Starts(q) \/ Kills(q) PROVE FALSE
  <2>1. i \in Nat /\ i # 0
    BY CasesSeq, LenProperties
  <2>2. run'[q].pc # "idle"
    BY <1>3 DEF HasWiped, Sound
  <2>3. run'[q].case = 0
    BY <1>3, <2>2 DEF Starts, Kills
  <2>4. i < 0 \/ i = 0
    BY <1>3, <2>3 DEF HasWiped
  <2> QED
    BY <2>1, <2>4
<1>4. ASSUME NEW q \in Runners, q \in S, StepShape(q) PROVE Right(S, i, snaps', run', version')
  <2>1. version' = version /\ \A r \in Runners : run'[r].alone = run[r].alone
    BY <1>4, StepFrame DEF Base
  <2>2. Together(S)
    BY <2>1 DEF Together
  <2>3. (\A r \in S : HasWiped(run[r], i)) => Right(S, i, snaps, run, version)
    BY <2>2 DEF Kept
  <2>4. Right(S, i, snaps', run', version)
    BY <1>4, <2>2, <2>3, KeptOwn
  <2> QED
    BY <2>1, <2>4
<1>5. ASSUME NEW q \in Runners, q \notin S, StepShape(q) \/ Starts(q) \/ Kills(q)
      PROVE  Right(S, i, snaps', run', version')
  <2>1. PICK a \in Runners : S = {a} /\ run'[a].alone
    BY <1>5
  <2> QED
    BY <1>5, <2>1, KeptApart
<1> QED
  BY <1>1, <1>2, <1>3, <1>4, <1>5, NextShape DEF Base

LEMMA KeptInit == Init => Kept
<1> SUFFICES ASSUME Init, NEW S \in SUBSET Runners, S # {}, NEW i \in DOMAIN Cases,
                    \A r \in S : HasWiped(run[r], i)
             PROVE  FALSE
  BY DEF Kept
<1>1. PICK r \in S : r \in Runners
  OBVIOUS
<1> QED
  BY <1>1 DEF Init, NoRun, HasWiped, Sound

(* At the end of the runs nobody has a file open or left to put.           *)
LEMMA RightIsBaseline ==
    ASSUME SnapshotsApart, Base, NEW S \in SUBSET Runners, NEW i \in DOMAIN Cases,
           Right(S, i, snaps, run, version), \A r \in S : run[r].pc = "done"
    PROVE  Tree(SnapshotDir(i)) = Render(i, version)
<1>1. ASSUME NEW t \in Tree(SnapshotDir(i)) PROVE t \in Render(i, version)
  <2>1. PICK n \in AllNames, g \in snaps :
           g.path = Path(i, n) /\ t = [path |-> <<n>>, body |-> g.body]
    BY TreeIs DEF Base
  <2>2. n \in Resources[version] /\ g.body = [of |-> i, version |-> version]
    BY <2>1 DEF Right, Written, HasOpen
  <2> QED
    BY <2>1, <2>2 DEF Render
<1>2. ASSUME NEW t \in Render(i, version) PROVE t \in Tree(SnapshotDir(i))
  <2>1. PICK n \in Resources[version] :
           t = [path |-> <<n>>, body |-> [of |-> i, version |-> version]]
    BY <1>2 DEF Render
  <2>2. PICK g \in snaps : g.path = Path(i, n)
    BY DEF Right, Puts, HasLeft, HasFile
  <2>3. g.body = [of |-> i, version |-> version]
    BY <2>2 DEF Right, Written, HasOpen
  <2>4. [path |-> <<n>>, body |-> g.body] \in Tree(SnapshotDir(i))
    BY <2>2, TreeIs DEF Base
  <2> QED
    BY <2>1, <2>3, <2>4
<1> QED
  BY <1>1, <1>2

LEMMA KeptIsBaseline ==
    SnapshotsApart /\ Runners # {} /\ Base /\ Kept => UpdatedIsBaseline
<1> SUFFICES ASSUME SnapshotsApart, Runners # {}, Base, Kept PROVE UpdatedIsBaseline
  OBVIOUS
<1> SUFFICES ASSUME NEW S \in SUBSET Runners, S # {}, Together(S),
                    \A r \in S : Updated(r) /\ run[r].fresh,
                    NEW i \in DOMAIN Cases
             PROVE  Tree(SnapshotDir(i)) = Render(i, version)
  <2>1. ASSUME NEW r \in Runners, Updated(r), run[r].alone
        PROVE  {r} \in SUBSET Runners /\ {r} # {} /\ Together({r}) /\ run[r].fresh
    <3>1. run[r].fresh
      BY <2>1, OwnJob DEF Base, Steady
    <3> QED
      BY <2>1, <3>1 DEF Together
  <2>2. Together(Runners)
    BY DEF Together
  <2> QED
    BY <2>1, <2>2 DEF UpdatedIsBaseline, Baseline
<1>1. ASSUME NEW r \in S PROVE HasWiped(run[r], i) /\ run[r].pc = "done"
  <2>1. run[r].pc = "done" /\ CombinedStatus(run[r]) = "updated" /\ run[r].fresh
    BY DEF Updated
  <2>2. run[r].update /\ ~Failed(run[r])
    BY <2>1 DEF CombinedStatus
  <2>3. Sound(run[r])
    BY <2>1, <2>2 DEF Sound, Failed
  <2>4. run[r].case = Len(Cases)
    BY <2>1, OwnJob DEF Base, Steady
  <2>5. i < Len(Cases) \/ i = Len(Cases)
    BY CasesSeq, LenProperties
  <2> QED
    BY <2>1, <2>3, <2>4, <2>5 DEF HasWiped
<1>2. Right(S, i, snaps, run, version)
  BY <1>1 DEF Kept
<1> QED
  BY <1>1, <1>2, RightIsBaseline

(* A fresh update that was alone, or all the commands if each of them was  *)
(* one and nothing was edited since, leave what the next --golden compares *)
(* with: the render of each case (run_golden, write_snapshot).             *)
THEOREM UpdatesAreBaseline == SnapshotsApart /\ Runners # {} => (Spec => []UpdatedIsBaseline)
<1> SUFFICES ASSUME SnapshotsApart, Runners # {} PROVE Spec => []UpdatedIsBaseline
  OBVIOUS
<1>1. Base /\ Kept /\ [Next]_vars => Kept'
  BY KeptStep
<1>2. Base /\ Kept => UpdatedIsBaseline
  BY KeptIsBaseline
<1> QED
  BY <1>1, <1>2, BaseAlways, KeptInit, PTL DEF Spec
=============================================================================
