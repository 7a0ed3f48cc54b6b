-------------------------- MODULE RenderStackProofs --------------------------
(***************************************************************************)
(* Proofs about RenderStack: type correctness, the inherited posture, the  *)
(* bound on composition, the deadlines of workers and nested renders, the  *)
(* reports of a timeout and the strict root, for any packages,             *)
(* dependencies and command lines.                                         *)
(***************************************************************************)
EXTENDS RenderStack, SequenceTheorems, TLAPS

-----------------------------------------------------------------------------
(* What pushing and popping a frame does to the others.                    *)
LEMMA Pushed ==
    ASSUME NEW s \in Seq(Frame), NEW f \in Frame
    PROVE  /\ Append(s, f) \in Seq(Frame)
           /\ Append(s, f) # <<>>
           /\ Len(Append(s, f)) = Len(s) + 1
           /\ \A i \in 1..Len(s) : Append(s, f)[i] = s[i]
           /\ Append(s, f)[Len(s) + 1] = f
BY AppendProperties

LEMMA Popped ==
    ASSUME NEW s \in Seq(Frame), s # <<>>
    PROVE  LET t == SubSeq(s, 1, Len(s) - 1) IN
           /\ t \in Seq(Frame)
           /\ Len(t) = Len(s) - 1
           /\ t = <<>> <=> Len(s) = 1
           /\ \A i \in 1..Len(t) : t[i] = s[i]
<1> DEFINE t == SubSeq(s, 1, Len(s) - 1)
<1>1. Len(s) \in Nat \ {0}
  BY EmptySeq, LenProperties
<1>2. \A i \in 1..Len(s) - 1 : s[i] \in Frame
  BY <1>1, ElementOfSeq
<1>3. /\ t \in Seq(Frame)
      /\ Len(t) = IF 1 <= Len(s) - 1 THEN Len(s) - 1 - 1 + 1 ELSE 0
      /\ \A i \in 1..Len(s) - 1 - 1 + 1 : t[i] = s[1 + i - 1]
  BY <1>1, <1>2, SubSeqProperties
<1> HIDE DEF t
<1>4. Len(t) = Len(s) - 1
  <2>1. ASSUME NEW n \in Nat \ {0}
        PROVE  (IF 1 <= n - 1 THEN n - 1 - 1 + 1 ELSE 0) = n - 1
    OBVIOUS
  <2> QED
    BY <1>1, <1>3, <2>1
<1>5. \A i \in 1..Len(s) - 1 : t[i] = s[i]
  <2> TAKE i \in 1..Len(s) - 1
  <2>1. i \in 1..Len(s) - 1 - 1 + 1 /\ 1 + i - 1 = i
    BY <1>1
  <2> QED
    BY <1>3, <2>1
<1>6. t = <<>> <=> Len(t) = 0
  BY <1>3, EmptySeq
<1>7. t = <<>> <=> Len(s) = 1
  BY <1>1, <1>4, <1>6
<1> QED
  BY <1>3, <1>4, <1>5, <1>7 DEF t

LEMMA TopFrame ==
    ASSUME TypeOK, stack # <<>>
    PROVE  Len(stack) \in Nat \ {0} /\ Top \in Frame /\ stack[1] \in Frame
<1>1. stack \in Seq(Frame) /\ Len(stack) \in Nat \ {0}
  BY EmptySeq, LenProperties DEF TypeOK
<1>2. 1 \in 1..Len(stack) /\ Len(stack) \in 1..Len(stack)
  BY <1>1
<1> QED
  BY <1>1, <1>2, ElementOfSeq DEF Top

LEMMA RootFrameType ==
    ASSUME TypeOK
    PROVE  RootFrame \in Frame
<1> DEFINE deadline == IF opt.timeout = Unlimited THEN Unlimited ELSE now + opt.timeout
<1>1. opt \in [timeout : Nat \cup {Unlimited}, depth : Nat,
               offline : BOOLEAN, gate : BOOLEAN, strict : BOOLEAN] /\ now \in Nat
  BY RenderAssumption DEF TypeOK
<1>2. /\ opt.timeout \in Nat \cup {Unlimited} /\ opt.depth \in Nat
      /\ opt.offline \in BOOLEAN /\ opt.gate \in BOOLEAN /\ opt.strict \in BOOLEAN
  BY <1>1
<1>3. deadline \in Int
  BY <1>1, <1>2 DEF Unlimited
<1> HIDE DEF deadline
<1>4. [deadline |-> deadline, depth |-> opt.depth, offline |-> opt.offline,
       gate |-> opt.gate] \in Posture
  BY <1>2, <1>3 DEF Posture
<1> QED
  BY <1>2, <1>4, RenderAssumption DEF RootFrame, Frame, deadline

LEMMA ChildFrameType ==
    ASSUME TypeOK, stack # <<>>, NEW q \in Packages
    PROVE  ChildFrame(q) \in Frame
BY TopFrame DEF ChildFrame, Frame

LEMMA ReachedType == ASSUME NEW q, NEW b PROVE deps \in Graphs => Reached(q, b) \subseteq Kinds
BY RenderAssumption DEF Reached, KindsOf, Dep

LEMMA DivBounds ==
    ASSUME NEW n \in Int, NEW k \in Nat \ {0}
    PROVE  /\ n \div k \in Int
           /\ (n \div k) * k <= n /\ n < (n \div k) * k + k
BY SMT

(* A worker has at least one epoch.                                        *)
LEMMA TicksType ==
    ASSUME NEW d \in Int, NEW t \in Int
    PROVE  Ticks(d, t) \in Nat \ {0}
<1>1. (d - t) \div TickLength \in Int
  BY RenderAssumption, DivBounds
<1> QED
  BY <1>1, RenderAssumption DEF Ticks, Clamp

-----------------------------------------------------------------------------
(* Type correctness.                                                       *)

LEMMA InitType == Init => TypeOK
<1> SUFFICES ASSUME Init PROVE TypeOK
  OBVIOUS
<1>1. stack \in Seq(Frame) /\ stack = <<>>
  BY EmptySeq DEF Init
<1>2. {now, lost, launched, limit, left, engineLeft, calls, late} \subseteq Nat
  BY DEF Init
<1>3. /\ engineAt \in Nat \cup {NoCall} /\ session \in BOOLEAN
      /\ cause \in {"none", "error", "timeout"}
      /\ phase \in {"idle", "resolve", "host", "launch", "eval", "load", "init",
                   "engine", "unwind"}
      /\ phase \in {"idle", "resolve"}
  BY DEF Init
<1>4. age \in 0..TickLength /\ opt \in Options /\ deps \in Graphs
  BY DEF Init
<1>5. target \in Packages /\ reached \subseteq Kinds /\ raw \subseteq Packages
  BY RenderAssumption DEF Init
<1> QED
  BY <1>1, <1>2, <1>3, <1>4, <1>5 DEF TypeOK

LEMMA StepType == TypeOK /\ [Next]_vars => TypeOK'
<1> SUFFICES ASSUME TypeOK, [Next]_vars PROVE TypeOK'
  OBVIOUS
<1>n. EngineTicks \in Nat /\ TickLength \in Nat \ {0}
  BY RenderAssumption
<1> USE DEF TypeOK, time, input, worker, engine, history, NoCall
<1>1. ASSUME Begin PROVE TypeOK'
  BY <1>1, RenderAssumption DEF Begin
<1>2. ASSUME ResolveRoot PROVE TypeOK'
  <2>1. stack' \in Seq(Frame) /\ stack' # <<>>
    BY <1>2, RootFrameType DEF ResolveRoot
  <2>2. reached' \subseteq Kinds
    BY <1>2, ReachedType DEF ResolveRoot
  <2> QED
    BY <1>2, <2>1, <2>2 DEF ResolveRoot
<1>3. ASSUME ResolveRootFails PROVE TypeOK'
  BY <1>3 DEF ResolveRootFails
<1>measure. ASSUME Measure PROVE TypeOK'
  <2>1. stack # <<>> /\ limit' \in Nat
    <3>1. stack # <<>>
      BY <1>measure DEF Measure
    <3>2. Top.inherited.deadline \in Int /\ now \in Int
      BY <3>1, TopFrame DEF Frame, Posture
    <3> QED
      BY <1>measure, <3>1, <3>2, TicksType DEF Measure
  <2> QED
    BY <1>measure, <2>1 DEF Measure
<1>4. ASSUME Launch PROVE TypeOK'
  BY <1>4 DEF Launch
<1>5. ASSUME LaunchFails PROVE TypeOK'
  BY <1>5 DEF LaunchFails, Panic
<1>6. ASSUME NEW q \in Packages, Call(q) PROVE TypeOK'
  BY <1>6 DEF Call, Panic
<1>7. ASSUME EnterChild PROVE TypeOK'
  <2>1. stack' \in Seq(Frame) /\ stack' # <<>>
    BY <1>7, ChildFrameType, Pushed DEF EnterChild
  <2>2. reached' \subseteq Kinds
    BY <1>7, ReachedType DEF EnterChild
  <2>3. late' \in Nat
    BY <1>7 DEF EnterChild
  <2> QED
    BY <1>7, <2>1, <2>2, <2>3 DEF EnterChild
<1>8. ASSUME LoadFails PROVE TypeOK'
  BY <1>8 DEF LoadFails, Panic
<1>9. ASSUME NEW typed \in BOOLEAN, CallEngine(typed) PROVE TypeOK'
  <2>1. Top.dir \in Packages
    BY <1>9, TopFrame DEF CallEngine, Frame
  <2> QED
    BY <1>9, <2>1, <1>n DEF CallEngine, Panic
<1>10. ASSUME EngineReady PROVE TypeOK'
  BY <1>10, <1>n DEF EngineReady
<1>11. ASSUME EngineReturns PROVE TypeOK'
  BY <1>11 DEF EngineReturns
<1>12. ASSUME EngineFails \/ EngineInterrupted PROVE TypeOK'
  BY <1>12 DEF EngineFails, EngineInterrupted, EngineDue, Panic
<1>13. ASSUME EvalFails \/ Interrupt PROVE TypeOK'
  BY <1>13 DEF EvalFails, Interrupt, InterruptDue, GuestRuns, Panic
<1>14. ASSUME FinishChild PROVE TypeOK'
  <2>1. stack' \in Seq(Frame) /\ stack' # <<>>
    BY <1>14, Popped, TopFrame DEF FinishChild, Pop
  <2> QED
    BY <1>14, <2>1 DEF FinishChild
<1>15. ASSUME FinishRoot PROVE TypeOK'
  BY <1>15, EmptySeq DEF FinishRoot
<1>16. ASSUME Unwind PROVE TypeOK'
  <2>1. stack' \in Seq(Frame) /\ (stack' = <<>> <=> Len(stack) = 1)
    BY <1>16, Popped, TopFrame DEF Unwind, Pop
  <2> QED
    BY <1>16, <2>1 DEF Unwind
<1>17. ASSUME Advance PROVE TypeOK'
  <2>1. age' \in 0..TickLength /\ now' \in Nat /\ lost' \in Nat
    BY <1>17, <1>n DEF Advance
  <2> QED
    BY <1>17, <2>1 DEF Advance
<1>tick. ASSUME Tick PROVE TypeOK'
  <2>1. age' \in 0..TickLength /\ left' \in Nat /\ engineLeft' \in Nat
    BY <1>tick, <1>n DEF Tick, Countdown
  <2> QED
    BY <1>tick, <2>1 DEF Tick
<1>18. ASSUME UNCHANGED vars PROVE TypeOK'
  BY <1>18 DEF vars
<1> QED
  BY <1>1, <1>2, <1>3, <1>4, <1>5, <1>6, <1>7, <1>8, <1>9, <1>10, <1>11, <1>12,
     <1>13, <1>14, <1>15, <1>16, <1>17, <1>18, <1>measure, <1>tick DEF Next, HostStep

(* Every reachable state is well typed, and the stack of frames is empty   *)
(* exactly when nothing renders (RenderScope::drop).                       *)
THEOREM StackTypeCorrect == Spec => []TypeOK
<1> QED
  BY InitType, StepType, PTL DEF Spec
-----------------------------------------------------------------------------
(* What the steps do to the frames: nothing, or they begin, push or pop.   *)

Quiet ==
    /\ UNCHANGED <<stack, opt, deps, late, reached>>
    /\ now' >= now
    /\ phase' = "load" => phase = "load" /\ target' = target
    /\ phase' # "resolve" \/ phase = "resolve"

AdmitChild ==
    /\ UNCHANGED <<stack, opt, deps, late, reached, now>>
    /\ phase = "eval" /\ phase' = "load" /\ Admitted(target')

PopFrame ==
    /\ stack # <<>> /\ stack' = Pop
    /\ UNCHANGED <<opt, deps, late, reached, now>>
    /\ phase' \notin {"resolve", "load"}

LEMMA StepKinds ==
    TypeOK /\ [Next]_vars =>
        Begin \/ ResolveRoot \/ EnterChild \/ Quiet \/ AdmitChild \/ PopFrame
<1> SUFFICES ASSUME TypeOK, [Next]_vars
             PROVE  Begin \/ ResolveRoot \/ EnterChild \/ Quiet \/ AdmitChild \/ PopFrame
  OBVIOUS
<1> USE DEF time, input, worker, engine, history
<1>now. now \in Nat
  BY DEF TypeOK
<1>2. ASSUME ResolveRootFails \/ Measure \/ Launch \/ LaunchFails PROVE Quiet
  BY <1>2, <1>now DEF ResolveRootFails, Measure, Launch, LaunchFails, Panic, Quiet
<1>fails. ASSUME LoadFails \/ EvalFails PROVE Quiet
  BY <1>fails, <1>now DEF LoadFails, EvalFails, Panic, Quiet
<1>3. ASSUME NEW q \in Packages, Call(q) PROVE Quiet \/ AdmitChild
  BY <1>3, <1>now DEF Call, Panic, Quiet, AdmitChild
<1>4. ASSUME NEW typed \in BOOLEAN, CallEngine(typed) PROVE Quiet
  BY <1>4, <1>now DEF CallEngine, Panic, Quiet
<1>5. ASSUME EngineReady \/ EngineReturns \/ EngineFails \/ EngineInterrupted PROVE Quiet
  BY <1>5, <1>now DEF EngineReady, EngineReturns, EngineFails, EngineInterrupted, Panic, Quiet
<1>6. ASSUME Interrupt PROVE Quiet
  BY <1>6, <1>now DEF Interrupt, Panic, Quiet
<1>7. ASSUME FinishChild \/ FinishRoot \/ Unwind PROVE PopFrame
  <2>1. ASSUME stack # <<>>, Len(stack) = 1 PROVE Pop = <<>>
    BY <2>1, Popped DEF Pop, TypeOK
  <2>2. stack # <<>>
    BY <1>7 DEF FinishChild, FinishRoot, Unwind, TypeOK
  <2> QED
    BY <1>7, <2>1, <2>2 DEF FinishChild, FinishRoot, Unwind, PopFrame
<1>8. ASSUME Tick \/ Advance PROVE Quiet
  BY <1>8, <1>now DEF Tick, Advance, Quiet
<1>9. ASSUME UNCHANGED vars PROVE Quiet
  BY <1>9, <1>now DEF vars, Quiet
<1> QED
  BY <1>2, <1>fails, <1>3, <1>4, <1>5, <1>6, <1>7, <1>8, <1>9 DEF Next, HostStep

-----------------------------------------------------------------------------
(* Every frame has the root's posture, and the root's is the command's.    *)
Inherited ==
    /\ stack # <<>> =>
          /\ stack[1].inherited.depth = opt.depth
          /\ stack[1].inherited.offline = opt.offline
          /\ stack[1].inherited.gate = opt.gate
    /\ \A i \in 1..Len(stack) : stack[i].inherited = stack[1].inherited

LEMMA TopInherits ==
    ASSUME TypeOK, Inherited, stack # <<>>
    PROVE  /\ Top.inherited = stack[1].inherited
           /\ Top.inherited.depth = opt.depth
           /\ Top.inherited.offline = opt.offline
           /\ Top.inherited.gate = opt.gate
<1>1. Len(stack) \in Nat \ {0}
  BY TopFrame
<1>2. Len(stack) \in 1..Len(stack)
  BY <1>1
<1> QED
  BY <1>2 DEF Inherited, Top

LEMMA InheritedStep == TypeOK /\ Inherited /\ [Next]_vars => Inherited'
<1> SUFFICES ASSUME TypeOK, Inherited, [Next]_vars PROVE Inherited'
  OBVIOUS
<1>1. ASSUME Quiet \/ AdmitChild PROVE Inherited'
  BY <1>1 DEF Quiet, AdmitChild, Inherited
<1>begin. ASSUME Begin PROVE Inherited'
  <2>1. stack' = <<>> /\ Len(stack') = 0
    BY <1>begin DEF Begin, TypeOK
  <2> QED
    BY <2>1 DEF Inherited
<1>2. ASSUME ResolveRoot PROVE Inherited'
  <2>1. stack' = <<RootFrame>> /\ opt' = opt
    BY <1>2 DEF ResolveRoot, input
  <2>2. /\ RootFrame.inherited.depth = opt.depth
        /\ RootFrame.inherited.offline = opt.offline
        /\ RootFrame.inherited.gate = opt.gate
    BY DEF RootFrame
  <2>3. Len(<<RootFrame>>) = 1 /\ <<RootFrame>>[1] = RootFrame
    OBVIOUS
  <2>4. \A i \in 1..Len(stack') : i = 1
    BY <2>1, <2>3
  <2> QED
    BY <2>1, <2>2, <2>3, <2>4 DEF Inherited
<1>3. ASSUME EnterChild PROVE Inherited'
  <2>1. stack # <<>> /\ target \in Packages /\ opt' = opt /\ stack' = Append(stack, ChildFrame(target))
    BY <1>3 DEF EnterChild, TypeOK, input
  <2>2. /\ Len(stack) \in Nat \ {0}
        /\ Len(stack') = Len(stack) + 1
        /\ \A i \in 1..Len(stack) : stack'[i] = stack[i]
        /\ stack'[Len(stack) + 1] = ChildFrame(target)
    BY <2>1, TopFrame, ChildFrameType, Pushed DEF TypeOK
  <2>3. ChildFrame(target).inherited = stack[1].inherited
    BY <2>1, TopInherits DEF ChildFrame
  <2>4. 1 \in 1..Len(stack) /\ stack'[1] = stack[1]
    BY <2>2
  <2>5. ASSUME NEW i \in 1..Len(stack') PROVE stack'[i].inherited = stack'[1].inherited
    <3>1. i \in 1..Len(stack) \/ i = Len(stack) + 1
      BY <2>2
    <3> QED
      BY <2>2, <2>3, <2>4, <3>1 DEF Inherited
  <2> QED
    BY <2>1, <2>4, <2>5 DEF Inherited
<1>4. ASSUME PopFrame PROVE Inherited'
  <2>1. /\ Len(stack) \in Nat \ {0}
        /\ Len(stack') = Len(stack) - 1
        /\ stack' = <<>> <=> Len(stack) = 1
        /\ \A i \in 1..Len(stack') : stack'[i] = stack[i]
    BY <1>4, Popped, TopFrame DEF PopFrame, Pop, TypeOK
  <2>2. ASSUME NEW i \in 1..Len(stack')
        PROVE  i \in 1..Len(stack) /\ 1 \in 1..Len(stack')
    BY <2>1
  <2>3. stack' # <<>> => 1 \in 1..Len(stack')
    BY <2>1
  <2> QED
    BY <1>4, <2>1, <2>2, <2>3 DEF PopFrame, Inherited
<1> QED
  BY <1>begin, <1>1, <1>2, <1>3, <1>4, StepKinds

-----------------------------------------------------------------------------
(* NothingForbidden: what a frame reaches it reaches under its posture.    *)

LEMMA NothingForbiddenStep ==
    TypeOK /\ Inherited /\ NothingForbidden /\ [Next]_vars => NothingForbidden'
<1> SUFFICES ASSUME TypeOK, Inherited, NothingForbidden, [Next]_vars PROVE NothingForbidden'
  OBVIOUS
<1>1. ASSUME NEW q, NEW offline \in BOOLEAN, NEW gate \in BOOLEAN, ~Refused(q, gate)
      PROVE  /\ offline => "remote" \notin Reached(q, offline)
             /\ gate => "fork" \notin Reached(q, offline)
  BY <1>1 DEF Refused, Reached
<1>2. opt.offline \in BOOLEAN /\ opt.gate \in BOOLEAN
  BY RenderAssumption DEF TypeOK
<1>3. ASSUME Begin \/ Quiet \/ AdmitChild \/ PopFrame PROVE NothingForbidden'
  BY <1>3 DEF Begin, Quiet, AdmitChild, PopFrame, NothingForbidden
<1>4. ASSUME ResolveRoot PROVE NothingForbidden'
  BY <1>1, <1>2, <1>4 DEF ResolveRoot, NothingForbidden, input
<1>5. ASSUME EnterChild PROVE NothingForbidden'
  <2>1. Top.inherited.offline = opt.offline /\ Top.inherited.gate = opt.gate
    BY <1>5, TopInherits DEF EnterChild, TypeOK
  <2>2. ~Refused(target, opt.gate) /\ reached' = reached \cup Reached(target, opt.offline) /\ opt' = opt
    BY <1>5, <2>1 DEF EnterChild, input
  <2> QED
    BY <1>1, <1>2, <2>2 DEF NothingForbidden
<1> QED
  BY <1>3, <1>4, <1>5, StepKinds

-----------------------------------------------------------------------------
(* BoundedComposition: a child that is being loaded was admitted.          *)

Waiting == phase = "load" => ~Cycle(target) /\ Len(stack) < opt.depth

LEMMA WaitingStep == TypeOK /\ Inherited /\ Waiting /\ [Next]_vars => Waiting'
<1> SUFFICES ASSUME TypeOK, Inherited, Waiting, [Next]_vars PROVE Waiting'
  OBVIOUS
<1>1. ASSUME Begin \/ ResolveRoot \/ EnterChild \/ PopFrame PROVE Waiting'
  BY <1>1 DEF Begin, ResolveRoot, EnterChild, PopFrame, Waiting
<1>2. ASSUME Quiet PROVE Waiting'
  BY <1>2 DEF Quiet, Waiting, Cycle
<1>3. ASSUME AdmitChild PROVE Waiting'
  <2>1. stack # <<>>
    BY <1>3 DEF AdmitChild, TypeOK
  <2>2. Top.inherited.depth = opt.depth
    BY <2>1, TopInherits
  <2>3. ~Cycle(target') /\ Len(stack) < opt.depth
    BY <1>3, <2>2 DEF AdmitChild, Admitted
  <2> QED
    BY <1>3, <2>3 DEF AdmitChild, Waiting, Cycle
<1> QED
  BY <1>1, <1>2, <1>3, StepKinds

LEMMA BoundedStep ==
    TypeOK /\ Waiting /\ BoundedComposition /\ [Next]_vars => BoundedComposition'
<1> SUFFICES ASSUME TypeOK, Waiting, BoundedComposition, [Next]_vars
             PROVE  BoundedComposition'
  OBVIOUS
<1>0. opt.depth \in Nat
  BY RenderAssumption DEF TypeOK
<1>begin. ASSUME Begin PROVE BoundedComposition'
  <2>1. stack' = <<>> /\ Len(stack') = 0
    BY <1>begin DEF Begin, TypeOK
  <2>2. opt'.depth \in Nat
    BY <1>begin, RenderAssumption DEF Begin
  <2> QED
    BY <2>1, <2>2 DEF BoundedComposition
<1>1. ASSUME Quiet \/ AdmitChild PROVE BoundedComposition'
  BY <1>1 DEF Quiet, AdmitChild, BoundedComposition
<1>2. ASSUME ResolveRoot PROVE BoundedComposition'
  <2>1. stack' = <<RootFrame>> /\ opt' = opt
    BY <1>2 DEF ResolveRoot, input
  <2>2. Len(stack') = 1
    BY <2>1
  <2>3. \A i, j \in 1..Len(stack') : ~(i < j)
    BY <2>2
  <2>4. 1 <= (IF opt.depth > 1 THEN opt.depth ELSE 1)
    BY <1>0
  <2> QED
    BY <2>1, <2>2, <2>3, <2>4 DEF BoundedComposition
<1>3. ASSUME EnterChild PROVE BoundedComposition'
  <2>1. /\ stack # <<>> /\ target \in Packages /\ opt' = opt
        /\ stack' = Append(stack, ChildFrame(target))
        /\ ~Cycle(target) /\ Len(stack) < opt.depth
    BY <1>3 DEF EnterChild, TypeOK, input, Waiting
  <2>2. /\ Len(stack) \in Nat \ {0}
        /\ Len(stack') = Len(stack) + 1
        /\ \A i \in 1..Len(stack) : stack'[i] = stack[i]
        /\ stack'[Len(stack) + 1] = ChildFrame(target)
    BY <2>1, TopFrame, ChildFrameType, Pushed DEF TypeOK
  <2>3. Len(stack') <= (IF opt.depth > 1 THEN opt.depth ELSE 1)
    BY <1>0, <2>1, <2>2
  <2>4. ASSUME NEW i \in 1..Len(stack'), NEW j \in 1..Len(stack'),
               i < j, stack'[i].dir = stack'[j].dir
        PROVE  FileOf[stack'[i].dir] # stack'[i].dir
    <3>1. i \in 1..Len(stack) /\ stack'[i] = stack[i]
      BY <2>2, <2>4
    <3>2. CASE j \in 1..Len(stack)
      BY <2>2, <2>4, <3>1, <3>2 DEF BoundedComposition
    <3>3. CASE j = Len(stack) + 1
      <4>1. stack[i].dir = target
        BY <2>2, <2>4, <3>1, <3>3 DEF ChildFrame
      <4> QED
        BY <2>1, <3>1, <4>1 DEF Cycle
    <3> QED
      BY <2>2, <3>2, <3>3
  <2> QED
    BY <2>1, <2>3, <2>4 DEF BoundedComposition
<1>4. ASSUME PopFrame PROVE BoundedComposition'
  <2>1. /\ Len(stack) \in Nat \ {0}
        /\ Len(stack') = Len(stack) - 1
        /\ \A i \in 1..Len(stack') : stack'[i] = stack[i]
        /\ opt' = opt
    BY <1>4, Popped, TopFrame DEF PopFrame, Pop, TypeOK
  <2>2. Len(stack') <= (IF opt.depth > 1 THEN opt.depth ELSE 1)
    BY <1>0, <2>1 DEF BoundedComposition
  <2>3. \A i \in 1..Len(stack') : i \in 1..Len(stack)
    BY <2>1
  <2> QED
    BY <2>1, <2>2, <2>3 DEF BoundedComposition
<1> QED
  BY <1>begin, <1>1, <1>2, <1>3, <1>4, StepKinds

-----------------------------------------------------------------------------
(* AtMostOneLateStart: a child is admitted before the deadline only, and   *)
(* after one late start the deadline stays behind.                         *)

Late ==
    /\ late \in {0, 1}
    /\ phase \in {"resolve", "load"} => late = 0
    /\ late = 1 /\ stack # <<>> => Expired(stack[1].inherited.deadline)

LEMMA LateStep == TypeOK /\ Inherited /\ Late /\ [Next]_vars => Late'
<1> SUFFICES ASSUME TypeOK, Inherited, Late, [Next]_vars PROVE Late'
  OBVIOUS
<1>1. ASSUME Begin PROVE Late'
  BY <1>1 DEF Begin, Late
<1>2. ASSUME ResolveRoot PROVE Late'
  BY <1>2 DEF ResolveRoot, Late
<1>3. ASSUME EnterChild PROVE Late'
  <2>1. /\ stack # <<>> /\ target \in Packages /\ late = 0 /\ phase' = "eval" /\ now' = now
        /\ stack' = Append(stack, ChildFrame(target))
        /\ late' = IF Expired(stack[1].inherited.deadline) THEN late + 1 ELSE late
    BY <1>3 DEF EnterChild, TypeOK, Late, time
  <2>2. /\ Len(stack) \in Nat \ {0}
        /\ \A i \in 1..Len(stack) : stack'[i] = stack[i]
    BY <2>1, TopFrame, ChildFrameType, Pushed DEF TypeOK
  <2>3. stack'[1] = stack[1]
    BY <2>2
  <2> QED
    BY <2>1, <2>3 DEF Late, Expired
<1>4. ASSUME Quiet PROVE Late'
  <2>1. stack # <<>> => stack[1].inherited.deadline \in Int
    BY TopFrame DEF Frame, Posture
  <2>2. now \in Nat /\ now' \in Nat /\ now' >= now
    BY <1>4, StepType DEF Quiet, TypeOK
  <2>3. stack # <<>> /\ Expired(stack[1].inherited.deadline) =>
          Expired(stack[1].inherited.deadline)'
    BY <1>4, <2>1, <2>2 DEF Quiet, Expired
  <2> QED
    BY <1>4, <2>3 DEF Quiet, Late
<1>5. ASSUME AdmitChild PROVE Late'
  <2>1. stack # <<>>
    BY <1>5 DEF AdmitChild, TypeOK
  <2>2. ~Expired(stack[1].inherited.deadline)
    BY <1>5, <2>1, TopInherits DEF AdmitChild, Admitted
  <2>3. late = 0
    BY <2>1, <2>2 DEF Late
  <2> QED
    BY <1>5, <2>3 DEF AdmitChild, Late
<1>6. ASSUME PopFrame PROVE Late'
  <2>1. /\ Len(stack) \in Nat \ {0}
        /\ Len(stack') = Len(stack) - 1
        /\ stack' = <<>> <=> Len(stack) = 1
        /\ \A i \in 1..Len(stack') : stack'[i] = stack[i]
    BY <1>6, Popped, TopFrame DEF PopFrame, Pop, TypeOK
  <2>2. stack' # <<>> => stack'[1] = stack[1]
    BY <2>1
  <2> QED
    BY <1>6, <2>2 DEF PopFrame, Late, Expired
<1> QED
  BY <1>1, <1>2, <1>3, <1>4, <1>5, <1>6, StepKinds

-----------------------------------------------------------------------------
(* The inductive invariant.                                                *)
IInv == TypeOK /\ Inherited /\ NothingForbidden /\ Waiting /\ BoundedComposition /\ Late

LEMMA InductiveInit == Init => IInv
<1> SUFFICES ASSUME Init PROVE IInv
  OBVIOUS
<1>1. stack = <<>> /\ Len(stack) = 0 /\ phase = "idle" /\ late = 0 /\ reached = {}
  BY DEF Init
<1>2. opt.depth \in Nat
  BY InitType, RenderAssumption DEF TypeOK
<1>3. BoundedComposition
  BY <1>1, <1>2 DEF BoundedComposition
<1> QED
  BY <1>1, <1>3, InitType DEF IInv, Inherited, NothingForbidden, Waiting, Late

THEOREM InductiveInvariant == Spec => []IInv
<1>1. IInv /\ [Next]_vars => IInv'
  BY StepType, InheritedStep, NothingForbiddenStep, WaitingStep, BoundedStep, LateStep DEF IInv
<1> QED
  BY <1>1, InductiveInit, PTL DEF Spec

(* However deep packages compose, an offline render reaches nothing remote *)
(* and a gated one no fork (ResolverContext).                              *)
THEOREM CompositionStaysInside == Spec => []NothingForbidden
<1>1. IInv => NothingForbidden
  BY DEF IInv
<1> QED
  BY <1>1, InductiveInvariant, PTL

(* The stack never outgrows the depth cap, and a package is not rendered   *)
(* inside itself unless its package.k is a link (pre_check).               *)
THEOREM CompositionIsBounded == Spec => []BoundedComposition
<1>1. IInv => BoundedComposition
  BY DEF IInv
<1> QED
  BY <1>1, InductiveInvariant, PTL

(* After the deadline at most one nested evaluation begins                 *)
(* (pkg_render::install, enter_full).                                      *)
THEOREM LateStartsAreBounded == Spec => []AtMostOneLateStart
<1>1. IInv => AtMostOneLateStart
  BY DEF IInv, Late, AtMostOneLateStart
<1> QED
  BY <1>1, InductiveInvariant, PTL
-----------------------------------------------------------------------------
(* StrictRootIsTyped: the frame at the bottom is the root's and keeps the  *)
(* command's strictness; the root is on no frame above it.                 *)

RootBelow == stack # <<>> => stack[1].dir = Root /\ stack[1].strict = opt.strict

LEMMA RootBelowStep == TypeOK /\ RootBelow /\ [Next]_vars => RootBelow'
<1> SUFFICES ASSUME TypeOK, RootBelow, [Next]_vars PROVE RootBelow'
  OBVIOUS
<1>1. ASSUME Begin PROVE RootBelow'
  BY <1>1 DEF Begin, TypeOK, RootBelow
<1>2. ASSUME ResolveRoot PROVE RootBelow'
  <2>1. stack'[1] = RootFrame /\ opt' = opt
    BY <1>2 DEF ResolveRoot, input
  <2> QED
    BY <2>1 DEF RootFrame, RootBelow
<1>3. ASSUME EnterChild PROVE RootBelow'
  <2>1. /\ stack # <<>> /\ target \in Packages /\ opt' = opt
        /\ stack' = Append(stack, ChildFrame(target))
    BY <1>3 DEF EnterChild, TypeOK, input
  <2>2. /\ Len(stack) \in Nat \ {0}
        /\ \A i \in 1..Len(stack) : stack'[i] = stack[i]
    BY <2>1, TopFrame, ChildFrameType, Pushed DEF TypeOK
  <2>3. stack'[1] = stack[1]
    BY <2>2
  <2> QED
    BY <2>1, <2>3 DEF RootBelow
<1>4. ASSUME Quiet \/ AdmitChild PROVE RootBelow'
  BY <1>4 DEF Quiet, AdmitChild, RootBelow
<1>5. ASSUME PopFrame PROVE RootBelow'
  <2>1. /\ Len(stack) \in Nat \ {0}
        /\ Len(stack') = Len(stack) - 1
        /\ stack' = <<>> <=> Len(stack) = 1
        /\ \A i \in 1..Len(stack') : stack'[i] = stack[i]
    BY <1>5, Popped, TopFrame DEF PopFrame, Pop, TypeOK
  <2>2. stack' # <<>> => stack'[1] = stack[1]
    BY <2>1
  <2> QED
    BY <1>5, <2>2 DEF PopFrame, RootBelow
<1> QED
  BY <1>1, <1>2, <1>3, <1>4, <1>5, StepKinds

LEMMA RawMoves ==
    [Next]_vars => \/ raw' = {}
                   \/ raw' = raw /\ opt' = opt
                   \/ \E typed \in BOOLEAN : CallEngine(typed)
<1> SUFFICES ASSUME [Next]_vars, ~\E typed \in BOOLEAN : CallEngine(typed)
             PROVE  raw' = {} \/ (raw' = raw /\ opt' = opt)
  OBVIOUS
<1> USE DEF input, history
<1>1. ASSUME Begin PROVE raw' = {}
  BY <1>1 DEF Begin
<1>2. ASSUME NEW q \in Packages, Call(q) PROVE raw' = raw /\ opt' = opt
  BY <1>2 DEF Call
<1>3. ASSUME EngineReady \/ EngineReturns \/ EngineFails \/ EngineInterrupted \/ EvalFails
      PROVE  raw' = raw /\ opt' = opt
  BY <1>3 DEF EngineReady, EngineReturns, EngineFails, EngineInterrupted, EvalFails
<1>4. ASSUME ResolveRoot \/ ResolveRootFails \/ Measure \/ Launch \/ LaunchFails
             \/ EnterChild \/ LoadFails
      PROVE  raw' = raw /\ opt' = opt
  BY <1>4 DEF ResolveRoot, ResolveRootFails, Measure, Launch, LaunchFails, EnterChild, LoadFails
<1>5. ASSUME FinishChild \/ FinishRoot \/ Interrupt \/ Unwind \/ Tick \/ Advance
      PROVE  raw' = raw /\ opt' = opt
  BY <1>5 DEF FinishChild, FinishRoot, Interrupt, Unwind, Tick, Advance
<1>6. ASSUME UNCHANGED vars PROVE raw' = raw /\ opt' = opt
  BY <1>6 DEF vars
<1> QED
  BY <1>1, <1>2, <1>3, <1>4, <1>5, <1>6 DEF Next, HostStep

LEMMA StrictStep ==
    ASSUME FileOf[Root] = Root
    PROVE  TypeOK /\ BoundedComposition /\ RootBelow /\ StrictRootIsTyped /\ [Next]_vars
              => StrictRootIsTyped'
<1> SUFFICES ASSUME TypeOK, BoundedComposition, RootBelow, StrictRootIsTyped, [Next]_vars
             PROVE  StrictRootIsTyped'
  OBVIOUS
<1>1. ASSUME raw' = {} \/ (raw' = raw /\ opt' = opt) PROVE StrictRootIsTyped'
  BY <1>1 DEF StrictRootIsTyped
<1>2. ASSUME NEW typed \in BOOLEAN, CallEngine(typed) PROVE StrictRootIsTyped'
  <2>1. /\ opt' = opt /\ stack # <<>>
        /\ raw' = raw \/ (raw' = raw \cup {Top.dir} /\ ~Top.strict)
    BY <1>2 DEF CallEngine, TypeOK, input
  <2>2. ASSUME opt.strict, ~Top.strict, Top.dir = Root PROVE FALSE
    <3>1. stack[1].dir = Root /\ stack[1].strict
      BY <2>1, <2>2 DEF RootBelow
    <3>n. Len(stack) \in Nat \ {0}
      BY <2>1, TopFrame
    <3>2. Len(stack) # 1
      BY <2>2, <3>1 DEF Top
    <3>3. 1 \in 1..Len(stack) /\ Len(stack) \in 1..Len(stack) /\ 1 < Len(stack)
      <4>1. ASSUME NEW n \in Nat \ {0}, n # 1 PROVE 1 \in 1..n /\ n \in 1..n /\ 1 < n
        BY <4>1
      <4> QED
        BY <3>n, <3>2, <4>1
    <3> QED
      BY <2>2, <3>1, <3>3 DEF BoundedComposition, Top
  <2> QED
    BY <2>1, <2>2 DEF StrictRootIsTyped
<1> QED
  BY <1>1, <1>2, RawMoves

(* The root of a strict render calls no engine on a path of its own, alone *)
(* or by way of a package that composes it, if its package.k is no link    *)
(* (pre_check, resolve_in_package).                                        *)
THEOREM StrictRootStaysTyped ==
    ASSUME FileOf[Root] = Root
    PROVE  Spec => []StrictRootIsTyped
<1>1. Init => RootBelow /\ StrictRootIsTyped
  BY DEF Init, RootBelow, StrictRootIsTyped
<1>2. IInv /\ RootBelow /\ StrictRootIsTyped /\ [Next]_vars => RootBelow' /\ StrictRootIsTyped'
  BY RootBelowStep, StrictStep DEF IInv
<1> QED
  BY <1>1, <1>2, InductiveInvariant, PTL DEF Spec
-----------------------------------------------------------------------------
(* Epochs that last at least k each: l of n are left at t, and the one     *)
(* under way is a old.                                                     *)

Counted(k, since, n, l, t, a) ==
    /\ l \in 0..n /\ t >= since
    /\ l < n => t >= since + (n - l - 1) * k + a

Spent(k, since, n, l, t, a) == l > 0 => t <= since + (n - l) * k + a

LEMMA TimesGrows ==
    ASSUME NEW a \in Int, NEW b \in Int, NEW k \in Nat, a <= b
    PROVE  a * k \in Int /\ b * k \in Int /\ a * k <= b * k
BY SMT

LEMMA TimesNext ==
    ASSUME NEW a \in Int, NEW k \in Nat
    PROVE  a * k \in Int /\ (a + 1) * k = a * k + k
BY SMT

LEMMA CountedAdvance ==
    ASSUME NEW k \in Nat, NEW since \in Nat, NEW n \in Nat, NEW l \in Nat, NEW t \in Nat,
           NEW a \in Nat, NEW b \in Nat, b <= a + 1, Counted(k, since, n, l, t, a)
    PROVE  Counted(k, since, n, l, t + 1, b)
<1> DEFINE w == (n - l - 1) * k
<1>1. w \in Int
  BY TimesNext
<1>2. l \in 0..n /\ t >= since /\ (l < n => t >= since + w + a)
  BY DEF Counted
<1> HIDE DEF w
<1>3. l < n => t + 1 >= since + w + b
  BY <1>1, <1>2
<1> QED
  BY <1>2, <1>3 DEF Counted, w

LEMMA CountedTick ==
    ASSUME NEW k \in Nat, NEW since \in Nat, NEW n \in Nat, NEW l \in Nat, NEW t \in Nat,
           Counted(k, since, n, l, t, k)
    PROVE  Counted(k, since, n, Countdown(l), t, 0)
<1>1. l \in 0..n /\ t >= since /\ (l < n => t >= since + (n - l - 1) * k + k)
  BY DEF Counted
<1>2. (n - l - 1) * k \in Int /\ (n - l) * k = (n - l - 1) * k + k
  <2>1. n - l - 1 \in Int /\ n - l - 1 + 1 = n - l
    OBVIOUS
  <2> DEFINE c == n - l - 1
  <2>2. c * k \in Int /\ (c + 1) * k = c * k + k
    BY <2>1, TimesNext
  <2> QED
    BY <2>1, <2>2
<1>3. CASE l = 0
  <2>1. Countdown(l) = l
    BY <1>3 DEF Countdown
  <2> DEFINE w == (n - l - 1) * k
  <2>2. w \in Int /\ (l < n => t >= since + w + k)
    BY <1>1, <1>2
  <2> HIDE DEF w
  <2>3. l < n => t >= since + w + 0
    BY <2>2
  <2> QED
    BY <1>1, <2>1, <2>3 DEF Counted, w
<1>4. CASE l > 0
  <2>1. Countdown(l) = l - 1 /\ l - 1 \in 0..n /\ n - (l - 1) - 1 = n - l
    BY <1>1, <1>4 DEF Countdown
  <2>2. t >= since + (n - l) * k + 0
    <3>1. CASE l < n
      <4> DEFINE w == (n - l - 1) * k
                 v == (n - l) * k
      <4>1. w \in Int /\ v = w + k /\ t >= since + w + k
        BY <1>1, <1>2, <3>1
      <4> HIDE DEF w, v
      <4>2. t >= since + v + 0
        BY <4>1
      <4> QED
        BY <4>2 DEF v
    <3>2. CASE l = n
      <4>1. n - l = 0 /\ 0 * k = 0
        BY <3>2
      <4> QED
        BY <1>1, <4>1
    <3> QED
      BY <1>1, <3>1, <3>2
  <2> QED
    BY <1>1, <2>1, <2>2 DEF Counted
<1> QED
  BY <1>3, <1>4

LEMMA CountedOut ==
    ASSUME NEW k \in Nat, NEW since \in Nat, NEW n \in Nat \ {0}, NEW t \in Nat,
           NEW a \in Nat, Counted(k, since, n, 0, t, a)
    PROVE  t >= since + (n - 1) * k
<1> DEFINE w == (n - 1) * k
<1>1. n - 0 - 1 = n - 1
  OBVIOUS
<1>2. w \in Int /\ t >= since + w + a
  BY <1>1, TimesNext DEF Counted
<1> HIDE DEF w
<1>3. t >= since + w
  BY <1>2
<1> QED
  BY <1>3 DEF w

LEMMA SpentTick ==
    ASSUME NEW k \in Nat, NEW since \in Nat, NEW n \in Nat, NEW l \in Nat, NEW t \in Nat,
           Spent(k, since, n, l, t, k)
    PROVE  Spent(k, since, n, Countdown(l), t, 0)
<1> SUFFICES ASSUME Countdown(l) > 0
             PROVE  t <= since + (n - Countdown(l)) * k + 0
  BY DEF Spent
<1>1. l > 0 /\ Countdown(l) = l - 1
  BY DEF Countdown
<1>2. n - (l - 1) = n - l + 1
  OBVIOUS
<1> DEFINE c == n - l
<1>3. c * k \in Int /\ (c + 1) * k = c * k + k
  BY TimesNext
<1>4. t <= since + c * k + k
  BY <1>1 DEF Spent
<1> DEFINE w == c * k
           v == (c + 1) * k
<1>5. w \in Int /\ v = w + k /\ t <= since + w + k
  BY <1>3, <1>4
<1> HIDE DEF w, v
<1>6. t <= since + v + 0
  BY <1>5
<1> QED
  BY <1>1, <1>2, <1>6 DEF v

LEMMA SpentAdvance ==
    ASSUME NEW k \in Nat, NEW since \in Nat, NEW n \in Nat, NEW l \in Nat, NEW t \in Nat,
           NEW a \in Nat, NEW s2 \in Nat, NEW b \in Nat, s2 + b = since + a + 1,
           Spent(k, since, n, l, t, a)
    PROVE  Spent(k, s2, n, l, t + 1, b)
<1> SUFFICES ASSUME l > 0 PROVE t + 1 <= s2 + (n - l) * k + b
  BY DEF Spent
<1> DEFINE w == (n - l) * k
<1>1. w \in Int /\ t <= since + w + a
  BY TimesNext DEF Spent
<1> HIDE DEF w
<1>2. t + 1 <= s2 + w + b
  BY <1>1
<1> QED
  BY <1>2 DEF w

-----------------------------------------------------------------------------
(* The steps that move the clock or the worker's epochs.                   *)
Armed == {"eval", "load", "init", "engine"}

Steady ==
    /\ UNCHANGED <<time, worker>>
    /\ phase' = "launch" => phase = "launch"
    /\ phase' \in Armed => phase \in Armed

LEMMA TimeKinds ==
    [Next]_vars => Begin \/ Measure \/ Launch \/ Tick \/ Advance \/ Steady
<1> SUFFICES ASSUME [Next]_vars, ~Begin, ~Measure, ~Launch, ~Tick, ~Advance PROVE Steady
  OBVIOUS
<1> USE DEF Steady, Armed
<1>1. ASSUME NEW q \in Packages, Call(q) PROVE Steady
  BY <1>1 DEF Call, Panic
<1>2. ASSUME NEW typed \in BOOLEAN, CallEngine(typed) PROVE Steady
  BY <1>2 DEF CallEngine, Panic
<1>3. ASSUME EngineReady \/ EngineReturns \/ EngineFails \/ EngineInterrupted \/ EvalFails
      PROVE  Steady
  BY <1>3 DEF EngineReady, EngineReturns, EngineFails, EngineInterrupted, EngineDue,
              EvalFails, Panic
<1>4. ASSUME ResolveRoot \/ ResolveRootFails \/ LaunchFails \/ EnterChild \/ LoadFails
      PROVE  Steady
  BY <1>4 DEF ResolveRoot, ResolveRootFails, LaunchFails, EnterChild, LoadFails, Panic
<1>5. ASSUME FinishChild \/ FinishRoot \/ Interrupt \/ Unwind PROVE Steady
  BY <1>5 DEF FinishChild, FinishRoot, Interrupt, Unwind, Panic
<1>6. ASSUME UNCHANGED vars PROVE Steady
  BY <1>6 DEF vars, time, worker
<1> QED
  BY <1>1, <1>2, <1>3, <1>4, <1>5, <1>6 DEF Next, HostStep

LEMMA Times ==
    ASSUME TypeOK
    PROVE  /\ TickLength \in Nat \ {0} /\ DefaultTicks \in Nat \ {0}
           /\ MaxTicks \in Nat \ {0} /\ EngineTicks \in Nat \ {0}
           /\ now \in Nat /\ launched \in Nat /\ lost \in Nat /\ limit \in Nat
           /\ left \in Nat /\ engineLeft \in Nat
           /\ age \in Nat /\ age <= TickLength
           /\ engineAt # NoCall => engineAt \in Nat
           /\ stack # <<>> => Top.inherited.deadline \in Int
<1>1. stack # <<>> => Top.inherited.deadline \in Int
  BY TopFrame DEF Frame, Posture
<1>2. age \in Nat /\ age <= TickLength
  BY RenderAssumption DEF TypeOK
<1> QED
  BY <1>1, <1>2, RenderAssumption DEF TypeOK

-----------------------------------------------------------------------------
(* The worker's limit is that of the root's deadline when it was measured. *)
LimitSet ==
    phase = "launch" \/ phase \in Armed =>
        limit = Ticks(stack[1].inherited.deadline, launched)

LEMMA LimitStep == TypeOK /\ Inherited /\ LimitSet /\ [Next]_vars => LimitSet'
<1> SUFFICES ASSUME TypeOK, Inherited, LimitSet, [Next]_vars,
                    phase' = "launch" \/ phase' \in Armed
             PROVE  limit' = Ticks(stack'[1].inherited.deadline, launched')
  BY DEF LimitSet
<1>1. ~Begin
  BY DEF Begin, Armed
<1>2. ASSUME Measure PROVE limit' = Ticks(stack'[1].inherited.deadline, launched')
  <2>1. stack # <<>> /\ stack' = stack
    BY <1>2 DEF Measure, TypeOK
  <2>2. Top.inherited = stack[1].inherited
    BY <2>1, TopInherits
  <2> QED
    BY <1>2, <2>1, <2>2 DEF Measure
<1>3. ASSUME ~Measure
      PROVE  UNCHANGED <<limit, launched>> /\ (phase = "launch" \/ phase \in Armed)
  <2>1. Launch \/ Tick \/ Advance \/ Steady
    BY <1>1, <1>3, TimeKinds
  <2> QED
    BY <2>1 DEF Launch, Tick, Advance, Steady, worker
<1>4. ASSUME ~Measure PROVE stack'[1] = stack[1]
  <2>1. stack # <<>> /\ stack' # <<>>
    BY <1>3, <1>4, StepType DEF Armed, TypeOK
  <2>2. ~ResolveRoot
    BY <1>3, <1>4 DEF ResolveRoot, Armed
  <2>3. CASE EnterChild
    <3>1. target \in Packages /\ stack' = Append(stack, ChildFrame(target))
      BY <2>3 DEF EnterChild, TypeOK
    <3>2. /\ Len(stack) \in Nat \ {0}
          /\ \A i \in 1..Len(stack) : stack'[i] = stack[i]
      BY <2>1, <3>1, TopFrame, ChildFrameType, Pushed DEF TypeOK
    <3> QED
      BY <3>2
  <2>4. CASE PopFrame
    <3>1. /\ Len(stack) \in Nat \ {0}
          /\ Len(stack') = Len(stack) - 1
          /\ stack' = <<>> <=> Len(stack) = 1
          /\ \A i \in 1..Len(stack') : stack'[i] = stack[i]
      BY <2>4, Popped, TopFrame DEF PopFrame, Pop, TypeOK
    <3> QED
      BY <2>1, <3>1
  <2>5. CASE Quiet \/ AdmitChild
    BY <2>5 DEF Quiet, AdmitChild
  <2> QED
    BY <1>1, <2>2, <2>3, <2>4, <2>5, StepKinds
<1> QED
  BY <1>2, <1>3, <1>4 DEF LimitSet

-----------------------------------------------------------------------------
(* What the worker has had of its epochs, and what has gone by.            *)
WorkerTimed ==
    /\ phase = "launch" => now = launched + lost
    /\ phase \in Armed =>
          /\ Counted(TickLength, launched, limit, left, now, age)
          /\ Spent(TickLength, launched + lost, limit, left, now, age)

LEMMA NatSum == ASSUME NEW a \in Nat, NEW b \in Nat PROVE a + b \in Nat
OBVIOUS

LEMMA WorkerStep == TypeOK /\ WorkerTimed /\ [Next]_vars => WorkerTimed'
<1> SUFFICES ASSUME TypeOK, WorkerTimed, [Next]_vars PROVE WorkerTimed'
  OBVIOUS
<1>1. CASE Begin
  BY <1>1 DEF Begin, WorkerTimed, Armed
<1>2. CASE Measure
  <2>1. phase' = "launch" /\ now' = launched' + lost'
    BY <1>2, Times DEF Measure
  <2> QED
    BY <2>1 DEF WorkerTimed, Armed
<1>3. CASE Launch
  <2>1. /\ phase = "launch" /\ phase' = "eval" /\ left' = limit
        /\ UNCHANGED <<now, age, lost, launched, limit>>
    BY <1>3 DEF Launch, time
  <2>2. /\ now \in Nat /\ launched \in Nat /\ lost \in Nat /\ limit \in Nat /\ age \in Nat
        /\ TickLength \in Nat /\ now = launched + lost
    BY <2>1, Times DEF WorkerTimed
  <2>3. Counted(TickLength, launched, limit, limit, now, age)
    BY <2>2 DEF Counted
  <2>4. Spent(TickLength, launched + lost, limit, limit, now, age)
    <3>1. limit - limit = 0 /\ 0 * TickLength = 0
      BY <2>2
    <3> QED
      BY <2>2, <3>1 DEF Spent
  <2> QED
    BY <2>1, <2>3, <2>4 DEF WorkerTimed, Armed
<1>4. CASE Tick
  <2>1. /\ age = TickLength /\ age' = 0 /\ left' = Countdown(left)
        /\ UNCHANGED <<now, lost, launched, limit, phase>>
    BY <1>4 DEF Tick
  <2>2. /\ now \in Nat /\ launched \in Nat /\ launched + lost \in Nat /\ limit \in Nat
        /\ TickLength \in Nat /\ left \in Nat
    BY Times
  <2>3. ASSUME phase \in Armed
        PROVE  /\ Counted(TickLength, launched, limit, Countdown(left), now, 0)
               /\ Spent(TickLength, launched + lost, limit, Countdown(left), now, 0)
    <3>1. /\ Counted(TickLength, launched, limit, left, now, TickLength)
          /\ Spent(TickLength, launched + lost, limit, left, now, TickLength)
      BY <2>1, <2>3 DEF WorkerTimed
    <3> QED
      BY <2>2, <3>1, CountedTick, SpentTick
  <2> QED
    BY <2>1, <2>3 DEF WorkerTimed, Armed
<1>5. CASE Advance
  <2>1. /\ now' = now + 1
        /\ age' = (IF age = TickLength THEN age ELSE age + 1)
        /\ lost' = (IF Losing THEN lost + 1 ELSE lost)
        /\ UNCHANGED <<launched, limit, left, phase>>
    BY <1>5 DEF Advance, worker
  <2>2. /\ now \in Nat /\ launched \in Nat /\ lost \in Nat /\ limit \in Nat
        /\ TickLength \in Nat /\ left \in Nat /\ age \in Nat /\ age' \in Nat
        /\ age' <= age + 1 /\ launched + lost \in Nat /\ launched + lost' \in Nat
    <3>1. /\ now \in Nat /\ launched \in Nat /\ lost \in Nat /\ limit \in Nat
          /\ TickLength \in Nat /\ left \in Nat /\ age \in Nat
      BY Times
    <3>2. age' \in Nat /\ age' <= age + 1
      BY <2>1, <3>1
    <3>3. lost' \in Nat
      BY <2>1, <3>1
    <3>4. launched + lost \in Nat /\ launched + lost' \in Nat
      BY <3>1, <3>3, NatSum
    <3> QED
      BY <2>1, <3>1, <3>2, <3>4
  <2>3. ASSUME phase = "launch" PROVE now' = launched + lost'
    BY <2>1, <2>2, <2>3 DEF WorkerTimed, Losing
  <2>4. ASSUME phase \in Armed
        PROVE  /\ Counted(TickLength, launched, limit, left, now + 1, age')
               /\ Spent(TickLength, launched + lost', limit, left, now + 1, age')
    <3>1. /\ Counted(TickLength, launched, limit, left, now, age)
          /\ Spent(TickLength, launched + lost, limit, left, now, age)
      BY <2>4 DEF WorkerTimed
    <3>2. launched + lost' + age' = launched + lost + age + 1
      BY <2>1, <2>2, <2>4 DEF Losing, Armed
    <3>3. Counted(TickLength, launched, limit, left, now + 1, age')
      BY <2>2, <3>1, CountedAdvance
    <3>4. Spent(TickLength, launched + lost', limit, left, now + 1, age')
      BY <2>2, <3>1, <3>2, SpentAdvance
    <3> QED
      BY <3>3, <3>4
  <2> QED
    BY <2>1, <2>3, <2>4 DEF WorkerTimed, Armed
<1>6. CASE Steady
  BY <1>6 DEF Steady, WorkerTimed, time, worker
<1> QED
  BY <1>1, <1>2, <1>3, <1>4, <1>5, <1>6, TimeKinds

-----------------------------------------------------------------------------
(* The engine at work was given its epochs when the call began.            *)
EngineTimed ==
    phase \in {"init", "engine"} =>
        engineAt \in Nat /\ Counted(TickLength, engineAt, EngineTicks, engineLeft, now, age)

LEMMA EngineTimedStep == TypeOK /\ EngineTimed /\ [Next]_vars => EngineTimed'
<1> SUFFICES ASSUME TypeOK, EngineTimed, [Next]_vars, phase' \in {"init", "engine"}
             PROVE  /\ engineAt' \in Nat
                    /\ Counted(TickLength, engineAt', EngineTicks, engineLeft', now', age')
  BY DEF EngineTimed
<1>1. ASSUME phase \in {"init", "engine"}, UNCHANGED <<engine, time>>
      PROVE  /\ engineAt' \in Nat
             /\ Counted(TickLength, engineAt', EngineTicks, engineLeft', now', age')
  BY <1>1 DEF EngineTimed, engine, time
<1>2. ASSUME engineAt' = now, engineLeft' = EngineTicks, UNCHANGED time
      PROVE  /\ engineAt' \in Nat
             /\ Counted(TickLength, engineAt', EngineTicks, engineLeft', now', age')
  <2>1. now \in Nat /\ EngineTicks \in Nat /\ now' = now
    BY <1>2, Times DEF time
  <2>2. Counted(TickLength, now, EngineTicks, EngineTicks, now, age')
    BY <2>1 DEF Counted
  <2> QED
    BY <1>2, <2>1, <2>2
<1>3. ~(Begin \/ ResolveRoot \/ ResolveRootFails \/ Measure \/ Launch \/ LaunchFails)
  BY DEF Begin, ResolveRoot, ResolveRootFails, Measure, Launch, LaunchFails, Panic
<1>4. ~(EnterChild \/ LoadFails \/ EngineReturns \/ EngineFails \/ EngineInterrupted)
  BY DEF EnterChild, LoadFails, EngineReturns, EngineFails, EngineInterrupted, Panic
<1>5. ~(EvalFails \/ FinishChild \/ FinishRoot \/ Interrupt \/ Unwind)
  BY DEF EvalFails, FinishChild, FinishRoot, Interrupt, InterruptDue, GuestRuns, Unwind, Panic
<1>6. ASSUME NEW q \in Packages PROVE ~Call(q)
  BY DEF Call, Panic
<1>7. ASSUME NEW typed \in BOOLEAN, CallEngine(typed)
      PROVE  engineAt' = now /\ engineLeft' = EngineTicks /\ UNCHANGED time
  BY <1>7 DEF CallEngine, Panic
<1>8. ASSUME EngineReady
      PROVE  engineAt' = now /\ engineLeft' = EngineTicks /\ UNCHANGED time
  BY <1>8 DEF EngineReady
<1>9. ASSUME Tick
      PROVE  /\ engineAt' \in Nat
             /\ Counted(TickLength, engineAt', EngineTicks, engineLeft', now', age')
  <2>1. /\ age = TickLength /\ age' = 0 /\ engineLeft' = Countdown(engineLeft)
        /\ UNCHANGED <<now, engineAt, phase>>
    BY <1>9 DEF Tick
  <2>2. /\ engineAt \in Nat
        /\ Counted(TickLength, engineAt, EngineTicks, engineLeft, now, TickLength)
    BY <2>1 DEF EngineTimed
  <2>3. Counted(TickLength, engineAt, EngineTicks, Countdown(engineLeft), now, 0)
    BY <2>2, CountedTick, Times
  <2> QED
    BY <2>1, <2>2, <2>3
<1>10. ASSUME Advance
       PROVE  /\ engineAt' \in Nat
              /\ Counted(TickLength, engineAt', EngineTicks, engineLeft', now', age')
  <2>1. /\ now' = now + 1 /\ UNCHANGED <<engineAt, engineLeft, phase>>
        /\ age' = (IF age = TickLength THEN age ELSE age + 1)
    BY <1>10 DEF Advance, engine
  <2>2. age' \in Nat /\ age' <= age + 1
    BY <2>1, Times
  <2>3. /\ engineAt \in Nat
        /\ Counted(TickLength, engineAt, EngineTicks, engineLeft, now, age)
    BY <2>1 DEF EngineTimed
  <2>4. Counted(TickLength, engineAt, EngineTicks, engineLeft, now + 1, age')
    BY <2>2, <2>3, CountedAdvance, Times
  <2> QED
    BY <2>1, <2>3, <2>4
<1>11. ASSUME UNCHANGED vars
       PROVE  phase \in {"init", "engine"} /\ UNCHANGED <<engine, time>>
  BY <1>11 DEF vars
<1> QED
  BY <1>1, <1>2, <1>3, <1>4, <1>5, <1>6, <1>7, <1>8, <1>9, <1>10, <1>11 DEF Next, HostStep

(* The clock's part of the inductive invariant.                            *)
TimeInv == LimitSet /\ WorkerTimed /\ EngineTimed

LEMMA TimeInvariant == Spec => []TimeInv
<1>1. Init => TimeInv
  BY DEF Init, TimeInv, LimitSet, WorkerTimed, EngineTimed, Armed
<1>2. IInv /\ TimeInv /\ [Next]_vars => TimeInv'
  BY LimitStep, WorkerStep, EngineTimedStep DEF IInv, TimeInv
<1> QED
  BY <1>1, <1>2, InductiveInvariant, PTL DEF Spec

-----------------------------------------------------------------------------
(* TimeoutIsDue: how a render comes to unwind with a timeout.              *)

TooLate == \E q \in Packages : Call(q) /\ Expired(Top.inherited.deadline)

Unwinds == phase = "unwind" /\ cause = "timeout"

LEMMA UnwindMoves ==
    TypeOK /\ [Next]_vars /\ Unwinds' =>
        TooLate \/ EngineInterrupted \/ Interrupt
        \/ (Unwinds /\ (Unwind \/ Tick \/ Advance \/ UNCHANGED vars))
<1> SUFFICES ASSUME TypeOK, [Next]_vars, Unwinds'
             PROVE  \/ TooLate \/ EngineInterrupted \/ Interrupt
                    \/ Unwinds /\ (Unwind \/ Tick \/ Advance \/ UNCHANGED vars)
  OBVIOUS
<1> USE DEF Unwinds
<1>1. ~(Begin \/ ResolveRoot \/ ResolveRootFails \/ Measure \/ Launch \/ LaunchFails)
  BY DEF Begin, ResolveRoot, ResolveRootFails, Measure, Launch, LaunchFails, Panic
<1>2. ASSUME NEW q \in Packages, Call(q) PROVE TooLate
  <2>1. ~Cycle(q) /\ ~(Len(stack) >= Top.inherited.depth) /\ ~Admitted(q)
    BY <1>2 DEF Call, Panic
  <2>2. Len(stack) \in Nat /\ Top.inherited.depth \in Nat
    BY <1>2, TopFrame DEF Call, TypeOK, Frame, Posture
  <2>3. Expired(Top.inherited.deadline)
    BY <2>1, <2>2 DEF Admitted
  <2> QED
    BY <1>2, <2>3 DEF TooLate
<1>3. ASSUME NEW typed \in BOOLEAN PROVE ~CallEngine(typed)
  BY DEF CallEngine, Panic
<1>4. ~(EnterChild \/ LoadFails \/ EngineReady \/ EngineReturns \/ EngineFails)
  BY DEF EnterChild, LoadFails, EngineReady, EngineReturns, EngineFails, Panic
<1>5. ~(EvalFails \/ FinishChild \/ FinishRoot)
  BY DEF EvalFails, FinishChild, FinishRoot, Panic
<1>6. Unwind \/ Tick \/ Advance \/ UNCHANGED vars => Unwinds
  BY DEF Unwind, Tick, Advance, vars
<1> QED
  BY <1>1, <1>2, <1>3, <1>4, <1>5, <1>6 DEF Next, HostStep

LEMMA MomentType ==
    ASSUME NEW t \in Int, NEW n \in Int, NEW k \in Int
    PROVE  t + n * k \in Int
OBVIOUS

(* The epochs a render is given end within two of its deadline.            *)
LEMMA TicksFit ==
    ASSUME NEW d \in Int, d # Unlimited, NEW t \in Int, NEW u \in Int,
           NEW k \in Nat \ {0}, k = TickLength, MaxTicks \in Nat \ {0},
           u >= t + (Ticks(d, t) - 1) * k
    PROVE  u > d - 2 * k \/ u >= t + (MaxTicks - 1) * k
<1> DEFINE m == (d - t) \div k
<1>1. m \in Int /\ d - t < m * k + k
  BY DivBounds
<1>2. Ticks(d, t) = IF m < 1 THEN 1 ELSE IF m > MaxTicks THEN MaxTicks ELSE m
  BY DEF Ticks, Clamp
<1> HIDE DEF m
<1>3. CASE m < 1
  <2>1. m * k <= 0 * k
    BY <1>1, <1>3, TimesGrows
  <2>2. m * k \in Int /\ d - t < k /\ u >= t
    BY <1>1, <1>2, <1>3, <2>1
  <2> QED
    BY <2>2
<1>4. CASE ~(m < 1) /\ m > MaxTicks
  BY <1>2, <1>4
<1>5. CASE ~(m < 1) /\ ~(m > MaxTicks)
  <2>1. u >= t + (m - 1) * k
    BY <1>2, <1>5
  <2>2. (m - 1) * k = m * k - k /\ m * k \in Int
    BY <1>1
  <2> QED
    BY <1>1, <2>1, <2>2
<1> QED
  BY <1>3, <1>4, <1>5

LEMMA TimeoutStep ==
    TypeOK /\ Inherited /\ TimeInv /\ TimeoutIsDue /\ [Next]_vars => TimeoutIsDue'
<1> SUFFICES ASSUME TypeOK, Inherited, TimeInv, TimeoutIsDue, [Next]_vars, Unwinds'
             PROVE  TimeoutIsDue'
  BY DEF TimeoutIsDue, Unwinds
<1>t. TypeOK'
  BY StepType
<1>1. ASSUME TooLate PROVE TimeoutIsDue'
  <2>1. /\ stack # <<>> /\ stack' = stack /\ now' = now
        /\ Top.inherited.deadline # Unlimited /\ now >= Top.inherited.deadline
    BY <1>1 DEF TooLate, Call, Expired, TypeOK, time
  <2>2. now > Top.inherited.deadline - 2 * TickLength
    BY <2>1, Times
  <2> QED
    BY <2>1, <2>2 DEF TimeoutIsDue, Top
<1>2. ASSUME EngineInterrupted PROVE TimeoutIsDue'
  <2>1. engineAt' = engineAt /\ now' = now /\ engineLeft = 0 /\ phase \in {"init", "engine"}
    BY <1>2 DEF EngineInterrupted, EngineDue, engine, time
  <2>2. engineAt \in Nat /\ now >= engineAt + (EngineTicks - 1) * TickLength
    <3>1. /\ engineAt \in Nat
          /\ Counted(TickLength, engineAt, EngineTicks, 0, now, age)
      BY <2>1 DEF TimeInv, EngineTimed
    <3> QED
      BY <3>1, CountedOut, Times
  <2> QED
    BY <2>1, <2>2 DEF TimeoutIsDue, Had, NoCall
<1>3. ASSUME Interrupt PROVE TimeoutIsDue'
  <2> DEFINE d == Top.inherited.deadline
  <2>1. /\ stack # <<>> /\ stack' = stack /\ now' = now /\ launched' = launched
        /\ left = 0 /\ phase = "eval"
    BY <1>3 DEF Interrupt, InterruptDue, GuestRuns, TypeOK, time, worker
  <2>2. d \in Int /\ limit = Ticks(d, launched)
    BY <2>1, Times, TopInherits DEF TimeInv, LimitSet, Armed
  <2>3. now >= launched + (Ticks(d, launched) - 1) * TickLength
    <3>1. Counted(TickLength, launched, limit, 0, now, age)
      BY <2>1 DEF TimeInv, WorkerTimed, Armed
    <3>2. launched \in Int
      BY Times
    <3> HIDE DEF d
    <3>3. limit \in Nat \ {0}
      BY <2>2, <3>2, TicksType
    <3>4. now >= launched + (limit - 1) * TickLength
      BY <3>1, <3>3, CountedOut, Times
    <3> QED
      BY <2>2, <3>4
  <2>4. CASE d = Unlimited
    BY <2>1, <2>3, <2>4 DEF TimeoutIsDue, Had, Top, Ticks
  <2>5. CASE d # Unlimited
    <3>1. now > d - 2 * TickLength \/ now >= launched + (MaxTicks - 1) * TickLength
      <4>1. /\ launched \in Int /\ now \in Int /\ TickLength \in Nat \ {0}
            /\ MaxTicks \in Nat \ {0}
        BY Times
      <4> HIDE DEF d
      <4> QED
        BY <2>2, <2>3, <2>5, <4>1, TicksFit
    <3> QED
      BY <2>1, <2>5, <3>1 DEF TimeoutIsDue, Had, Top
  <2> QED
    BY <2>4, <2>5
<1>4. ASSUME Unwinds, Unwind PROVE TimeoutIsDue'
  <2>1. /\ stack # <<>> /\ stack' = Pop /\ stack' # <<>>
        /\ UNCHANGED <<now, launched, engineAt>>
    BY <1>4, <1>t DEF Unwind, Unwinds, TypeOK, engine, time, worker
  <2>2. Top'.inherited = Top.inherited
    <3>1. Top.inherited = stack[1].inherited
      BY <2>1, TopInherits
    <3>2. Len(stack') \in Nat \ {0}
      BY <1>t, <2>1, EmptySeq, LenProperties DEF TypeOK
    <3>3. /\ Len(stack) \in Nat \ {0} /\ Len(stack') = Len(stack) - 1
          /\ \A i \in 1..Len(stack') : stack'[i] = stack[i]
      BY <2>1, TopFrame, Popped DEF Pop, TypeOK
    <3>4. Len(stack') \in 1..Len(stack') /\ Len(stack') \in 1..Len(stack)
      BY <3>2, <3>3
    <3>5. Top' = stack[Len(stack')]
      BY <3>3, <3>4 DEF Top
    <3> QED
      BY <3>1, <3>4, <3>5 DEF Inherited
  <2> QED
    BY <1>4, <2>1, <2>2 DEF TimeoutIsDue, Had, Unwinds
<1>5. ASSUME Unwinds, Advance PROVE TimeoutIsDue'
  <2>1. stack # <<>> /\ now' = now + 1 /\ UNCHANGED <<stack, launched, engineAt>>
    BY <1>5 DEF Advance, Unwinds, TypeOK, engine, worker
  <2>2. ASSUME NEW x \in Int
        PROVE  (now > x => now' > x) /\ (now >= x => now' >= x)
    BY <2>1, <2>2, Times
  <2>3. /\ launched + (DefaultTicks - 1) * TickLength \in Int
        /\ launched + (MaxTicks - 1) * TickLength \in Int
        /\ Top.inherited.deadline - 2 * TickLength \in Int
        /\ engineAt # NoCall => engineAt + (EngineTicks - 1) * TickLength \in Int
    <3>1. /\ TickLength \in Int /\ DefaultTicks - 1 \in Int /\ MaxTicks - 1 \in Int
          /\ EngineTicks - 1 \in Int /\ launched \in Int /\ Top.inherited.deadline \in Int
          /\ engineAt # NoCall => engineAt \in Int
      BY <2>1, Times
    <3>2. Top.inherited.deadline - 2 * TickLength \in Int
      BY <3>1
    <3> QED
      BY <3>1, <3>2, MomentType
  <2> QED
    BY <1>5, <2>1, <2>2, <2>3 DEF TimeoutIsDue, Had, Top, Unwinds
<1>6. ASSUME Tick \/ UNCHANGED vars PROVE TimeoutIsDue'
  BY <1>6 DEF Tick, vars, time, worker, engine, TimeoutIsDue, Had, Top
<1> QED
  BY <1>1, <1>2, <1>3, <1>4, <1>5, <1>6, UnwindMoves

(* A render that unwinds with a timeout is within two epochs of its        *)
(* deadline or past it, or had the longest time a render or an engine may  *)
(* take (epoch_ticks_for_remaining, Session::call).                        *)
THEOREM TimeoutsAreDue == Spec => []TimeoutIsDue
<1>1. Init => TimeoutIsDue
  BY DEF Init, TimeoutIsDue
<1>2. IInv /\ TimeInv /\ TimeoutIsDue /\ [Next]_vars => TimeoutIsDue'
  BY TimeoutStep DEF IInv
<1> QED
  BY <1>1, <1>2, InductiveInvariant, TimeInvariant, PTL DEF Spec

-----------------------------------------------------------------------------
(* GuestStopsInTime: time passes for the worker only while its epochs last.*)

LEMMA TicksEnd ==
    ASSUME NEW d \in Int, d # Unlimited, NEW t \in Int, NEW u \in Int,
           NEW k \in Nat \ {0}, k = TickLength, MaxTicks \in Nat \ {0},
           u <= t + Ticks(d, t) * k
    PROVE  u <= (IF d < t + k THEN t + k ELSE d)
<1> DEFINE m == (d - t) \div k
<1>1. m \in Int /\ m * k <= d - t /\ d - t < m * k + k
  BY DivBounds
<1>2. Ticks(d, t) = IF m < 1 THEN 1 ELSE IF m > MaxTicks THEN MaxTicks ELSE m
  BY DEF Ticks, Clamp
<1> HIDE DEF m
<1>3. CASE m < 1
  <2>1. m * k <= 0 * k
    BY <1>1, <1>3, TimesGrows
  <2>2. m * k \in Int /\ d - t < k /\ u <= t + k
    BY <1>1, <1>2, <1>3, <2>1
  <2> QED
    BY <2>2
<1>4. CASE ~(m < 1)
  <2>1. Ticks(d, t) \in Int /\ Ticks(d, t) <= m
    BY <1>1, <1>2, <1>4
  <2> DEFINE n == Ticks(d, t)
  <2>2. n \in Int /\ n <= m /\ u <= t + n * k
    BY <2>1
  <2> HIDE DEF n
  <2>3. n * k \in Int /\ m * k \in Int /\ n * k <= m * k /\ 1 * k <= m * k
    BY <1>1, <1>4, <2>2, TimesGrows
  <2> QED
    BY <1>1, <2>2, <2>3
<1> QED
  BY <1>3, <1>4

GuestStops ==
    GuestRuns /\ now' > now => now' <= LastMoment(Top.inherited.deadline) + lost'

LEMMA NowMoves == TypeOK /\ [Next]_vars /\ now' > now => Advance
<1> SUFFICES ASSUME TypeOK, [Next]_vars, ~Advance PROVE now' = now \/ now' = 0
  BY DEF TypeOK
<1> QED
  BY TimeKinds DEF Begin, Measure, Launch, Tick, Steady, time

(* As long as the worker has an epoch, less has gone by than it was given. *)
LEMMA SpentLess ==
    ASSUME NEW k \in Nat, NEW since \in Nat, NEW n \in Nat, NEW l \in 1..n, NEW t \in Nat,
           NEW a \in Nat, a <= k, Spent(k, since, n, l, t, a)
    PROVE  t <= since + n * k
<1>1. (n - l) * k \in Int /\ t <= since + (n - l) * k + a
  BY TimesNext DEF Spent
<1>2. (n - l + 1) * k = (n - l) * k + k /\ (n - l + 1) * k <= n * k /\ n * k \in Int
  BY TimesNext, TimesGrows
<1> QED
  BY <1>1, <1>2

LEMMA GuestBound ==
    ASSUME NEW d \in Int, NEW since \in Nat, NEW n \in Nat, NEW z \in Nat, NEW u \in Nat,
           NEW l \in 1..n, NEW a \in Nat, a <= TickLength, n = Ticks(d, since),
           Spent(TickLength, since + z, n, l, u, a),
           TickLength \in Nat \ {0}, MaxTicks \in Nat \ {0}, DefaultTicks \in Nat
    PROVE  u <= (IF d = Unlimited THEN since + DefaultTicks * TickLength
                 ELSE IF d < since + TickLength THEN since + TickLength ELSE d) + z
<1>1. u <= since + z + n * TickLength /\ n * TickLength \in Int
  <2>1. since + z \in Nat
    BY NatSum
  <2> QED
    BY <2>1, SpentLess, TimesGrows
<1>2. CASE d = Unlimited
  <2>1. n = DefaultTicks
    BY <1>2 DEF Ticks
  <2>2. u <= since + DefaultTicks * TickLength + z
    BY <1>1, <2>1
  <2> QED
    BY <1>2, <2>2
<1>3. CASE d # Unlimited
  <2> DEFINE w == u - z
  <2>1. w \in Int /\ w <= since + n * TickLength
    BY <1>1
  <2> HIDE DEF w
  <2>2. w <= since + Ticks(d, since) * TickLength
    BY <2>1
  <2>3. w <= (IF d < since + TickLength THEN since + TickLength ELSE d)
    <3>1. since \in Int /\ w \in Int
      BY <2>1
    <3> QED
      BY ONLY d \in Int, <1>3, <2>2, <3>1, TicksEnd,
              TickLength \in Nat \ {0}, MaxTicks \in Nat \ {0}
  <2>4. u <= (IF d < since + TickLength THEN since + TickLength ELSE d) + z
    BY <2>3 DEF w
  <2> QED
    BY <1>3, <2>4
<1> QED
  BY <1>2, <1>3

LEMMA GuestStopsStep == TypeOK /\ Inherited /\ TimeInv /\ [Next]_vars => [GuestStops]_vars
<1> SUFFICES ASSUME TypeOK, Inherited, TimeInv, [Next]_vars, GuestRuns, now' > now
             PROVE  now' <= LastMoment(Top.inherited.deadline) + lost'
  BY DEF GuestStops
<1> DEFINE d == Top.inherited.deadline
<1>1. /\ stack # <<>> /\ phase = "eval" /\ left # 0
      /\ UNCHANGED <<phase, left, limit, launched>>
  BY NowMoves DEF Advance, InterruptDue, GuestRuns, TypeOK, worker
<1>t. TypeOK' /\ WorkerTimed'
  BY StepType, WorkerStep DEF TimeInv
<1>2. /\ launched \in Nat /\ limit \in Nat /\ d \in Int /\ left \in 1..limit
      /\ now' \in Nat /\ lost' \in Nat /\ age' \in Nat /\ age' <= TickLength
      /\ TickLength \in Nat \ {0} /\ MaxTicks \in Nat \ {0} /\ DefaultTicks \in Nat
  <2>1. launched \in Nat /\ limit \in Nat /\ left \in Nat /\ d \in Int
    BY <1>1, Times
  <2>2. left \in 0..limit
    BY <1>1 DEF TimeInv, WorkerTimed, Counted, Armed
  <2>3. /\ TickLength \in Nat \ {0} /\ MaxTicks \in Nat \ {0} /\ DefaultTicks \in Nat
    BY Times
  <2>4. now' \in Nat /\ lost' \in Nat /\ age' \in Nat /\ age' <= TickLength
    BY <1>t, <2>3 DEF TypeOK
  <2> QED
    BY <1>1, <2>1, <2>2, <2>3, <2>4
<1>3. Spent(TickLength, launched + lost', limit, left, now', age')
  BY <1>1, <1>t DEF WorkerTimed, Armed
<1>4. limit = Ticks(d, launched)
  BY <1>1, TopInherits DEF TimeInv, LimitSet, Armed
<1> HIDE DEF d
<1>5. now' <= (IF d = Unlimited THEN launched + DefaultTicks * TickLength
               ELSE IF d < launched + TickLength THEN launched + TickLength ELSE d) + lost'
  BY <1>2, <1>3, <1>4, GuestBound
<1> QED
  BY <1>5 DEF LastMoment, d

(* The worker runs past the deadline of its render, or past one epoch when *)
(* the deadline is nearer than that, by no more than was lost before it    *)
(* had its epochs and to epochs that were late, however much that is       *)
(* (for_deadline, set_epoch_deadline, spawn_epoch_ticker).                 *)
THEOREM GuestsStopInTime == Spec => GuestStopsInTime
<1>1. IInv /\ TimeInv /\ [Next]_vars => [GuestStops]_vars
  BY GuestStopsStep DEF IInv
<1>2. Spec => [][GuestStops]_vars
  BY <1>1, InductiveInvariant, TimeInvariant, PTL DEF Spec
<1>3. [][GuestStops]_vars => GuestStopsInTime
  BY PTL DEF GuestStopsInTime, GuestStops
<1> QED
  BY <1>2, <1>3, PTL
=============================================================================
