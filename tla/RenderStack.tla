----------------------------- MODULE RenderStack -----------------------------
(***************************************************************************)
(* One render: packages composed through pkg.render, on the thread-local   *)
(* stack of render frames, with the depth cap, the wall-clock budget and   *)
(* the resolver's posture that every frame inherits.                       *)
(*                                                                         *)
(* The root package is evaluated in the wasm worker, which the engine's    *)
(* epoch interrupts; composed packages are evaluated natively, inside the  *)
(* plugin call of the package below them, and check the deadline only when *)
(* they start.  The Helm and Kustomize engines are wasm again, in sessions *)
(* that are kept, with a deadline of their own for each call.              *)
(***************************************************************************)
EXTENDS Integers, Sequences

CONSTANTS
    Packages,    \* directories that hold a package.k
    Root,        \* the one to render
    FileOf,      \* the file each package.k is (elsewhere if a symbolic link)
    Graphs,      \* what the packages may depend on: sets of Dep
    Options,     \* the command lines
    TickLength,  \* least time between two epochs (100 ms)
    DefaultTicks,\* epochs of a render without --timeout (60)
    MaxTicks,    \* most epochs of any render (an hour)
    EngineTicks, \* epochs of an engine call (300)
    MaxStart,    \* bound: time until evaluation starts
    MaxEngineStart, \* bound: time of the last engine call
    MaxTime,     \* bound: time of a render
    MaxLost,     \* bound: time lost to set-up and to late epochs
    MaxCalls     \* bound: plugin calls of a render

Unlimited == -1
NoCall == -1

Kinds == {"path", "remote", "fork"}
Dep == [from : Packages, package : Packages, kind : Kinds]
Posture == [deadline : Int, depth : Nat, offline : BOOLEAN, gate : BOOLEAN]

(* strict belongs to a frame; the rest is copied from frame to frame.      *)
Frame == [dir : Packages, strict : BOOLEAN, inherited : Posture]

ASSUME RenderAssumption ==
    /\ Root \in Packages
    /\ Graphs \subseteq SUBSET Dep
    /\ Options \subseteq [timeout : Nat \cup {Unlimited}, depth : Nat,
                          offline : BOOLEAN, gate : BOOLEAN, strict : BOOLEAN]
    /\ {TickLength, DefaultTicks, MaxTicks, EngineTicks} \subseteq Nat \ {0}
    /\ {MaxStart, MaxEngineStart, MaxTime, MaxLost, MaxCalls} \subseteq Nat

VARIABLES
    now,          \* time since the command
    age,          \* time since the epoch began, as far as it must last
    lost,         \* time that counts for no epoch, since launched (history)
    opt, deps,    \* the command line and the packages on disk
    phase, stack, target, calls,
    launched, limit, \* when the worker's epochs were computed, and how many
    left,         \* epochs the worker still has
    session,      \* the engine is instantiated (for this thread)
    engineAt, engineLeft, \* when the engine at work was given its epochs,
                  \* and how many of them it still has
    cause,        \* why the render failed
    late,         \* nested evaluations begun after the deadline (history)
    reached,      \* kinds of dependencies taken (history)
    raw           \* packages that used a path of their own (history)

time    == <<now, age, lost>>
input   == <<opt, deps>>
worker  == <<launched, limit, left>>
engine  == <<session, engineAt, engineLeft>>
history == <<late, reached, raw>>
vars == <<time, input, phase, stack, target, worker, calls, engine, cause, history>>

Top == stack[Len(stack)]
Pop == SubSeq(stack, 1, Len(stack) - 1)

Expired(deadline) == deadline # Unlimited /\ now >= deadline

Init ==
    /\ now = 0 /\ age \in 0..TickLength /\ lost = 0
    /\ opt \in Options /\ deps \in Graphs
    /\ phase = "idle" /\ stack = <<>> /\ target = Root
    /\ launched = 0 /\ limit = 0 /\ left = 0 /\ calls = 0 /\ cause = "none"
    /\ session = FALSE /\ engineAt = NoCall /\ engineLeft = 0
    /\ late = 0 /\ reached = {} /\ raw = {}

-----------------------------------------------------------------------------
Panic(why) == phase' = "unwind" /\ cause' = why

(* resolve_with_options stops at a fork if the gate is closed; offline it  *)
(* takes remote packages from the caches only.                             *)
KindsOf(q) == {d.kind : d \in {e \in deps : e.from = q}}
Refused(q, gate) == gate /\ "fork" \in KindsOf(q)
Reached(q, offline) == KindsOf(q) \ (IF offline THEN {"remote"} ELSE {})

(* akuapkg does it once, the Node binding again and again in one process.  *)
Begin ==
    /\ phase = "idle"
    /\ phase' = "resolve" /\ target' = Root
    /\ now' = 0 /\ age' \in 0..TickLength /\ lost' = 0
    /\ launched' = 0 /\ limit' = 0 /\ left' = 0 /\ calls' = 0 /\ cause' = "none"
    /\ engineAt' = NoCall /\ engineLeft' = 0
    /\ late' = 0 /\ reached' = {} /\ raw' = {}
    /\ opt' \in Options
    /\ UNCHANGED <<deps, stack, session>>

(* The budget is built after the root's dependencies are resolved.         *)
RootFrame ==
    [dir |-> Root, strict |-> opt.strict,
     inherited |-> [deadline |-> IF opt.timeout = Unlimited THEN Unlimited
                                 ELSE now + opt.timeout,
                    depth |-> opt.depth, offline |-> opt.offline, gate |-> opt.gate]]

ResolveRoot ==
    /\ phase = "resolve"
    /\ ~Refused(Root, opt.gate)
    /\ reached' = Reached(Root, opt.offline)
    /\ stack' = <<RootFrame>>
    /\ phase' = "host"
    /\ UNCHANGED <<time, input, target, worker, calls, engine, cause, late, raw>>

ResolveRootFails ==
    /\ phase = "resolve"
    /\ phase' = "idle" /\ cause' = "error"
    /\ UNCHANGED <<time, input, stack, target, worker, calls, engine, history>>

(* ResourceLimits::for_deadline.                                           *)
Clamp(n, low, high) == IF n < low THEN low ELSE IF n > high THEN high ELSE n

(* Mutant: the last tick may end after the deadline.                       *)
TicksRoundedUp(deadline, t) ==
    IF deadline = Unlimited THEN DefaultTicks
    ELSE Clamp((deadline - t + TickLength - 1) \div TickLength, 1, MaxTicks)
(* Mutant: the epoch that has begun is not counted on.                     *)
TicksOneFewer(deadline, t) ==
    IF deadline = Unlimited THEN DefaultTicks
    ELSE Clamp((deadline - t) \div TickLength - 1, 1, MaxTicks)

Ticks(deadline, t) ==
    IF deadline = Unlimited THEN DefaultTicks
    ELSE Clamp((deadline - t) \div TickLength, 1, MaxTicks)

(* The epochs are computed when the worker is called, and it has them once *)
(* its request is encoded and its directories are opened.                  *)
Measure ==
    /\ phase = "host"
    /\ phase' = "launch"
    /\ launched' = now /\ limit' = Ticks(Top.inherited.deadline, now)
    /\ lost' = 0
    /\ UNCHANGED <<now, age, left, input, stack, target, calls, engine, cause, history>>

Launch ==
    /\ phase = "launch"
    /\ phase' = "eval"
    /\ left' = limit
    /\ UNCHANGED <<time, launched, limit>>
    /\ UNCHANGED <<input, stack, target, calls, engine, cause, history>>

LaunchFails ==
    /\ phase \in {"host", "launch"}
    /\ Panic("error")
    /\ UNCHANGED <<time, input, stack, target, worker, calls, engine, history>>

-----------------------------------------------------------------------------
(* Evaluation of the package on top.                                       *)

(* pre_check compares the path of the called package.k with the canonical  *)
(* paths on the stack.                                                     *)
(* Mutant: only the caller is compared.                                    *)
CycleOfCaller(q) == FileOf[Top.dir] = q
Cycle(q) == \E i \in 1..Len(stack) : FileOf[stack[i].dir] = q

Admitted(q) ==
    /\ ~Cycle(q)
    /\ Len(stack) < Top.inherited.depth
    /\ ~Expired(Top.inherited.deadline)

(* pkg.render of a dependency of the top package.                          *)
Call(q) ==
    /\ phase = "eval"
    /\ calls < MaxCalls
    /\ \E d \in deps : d.from = Top.dir /\ d.package = q
    /\ calls' = calls + 1
    /\ IF Admitted(q)
       THEN phase' = "load" /\ target' = q /\ UNCHANGED cause
       ELSE /\ Panic(IF Cycle(q) \/ Len(stack) >= Top.inherited.depth
                     THEN "error" ELSE "timeout")
            /\ UNCHANGED target
    /\ UNCHANGED <<time, input, stack, worker, engine, history>>

(* Mutants: the child's scope starts from the defaults, or without the     *)
(* deadline.                                                               *)
ChildFrameDefaults(q) ==
    [dir |-> q, strict |-> FALSE,
     inherited |-> [Top.inherited EXCEPT !.offline = FALSE, !.gate = FALSE]]
ChildFrameUntimed(q) ==
    [dir |-> q, strict |-> FALSE,
     inherited |-> [Top.inherited EXCEPT !.deadline = Unlimited]]
ChildFrame(q) == [dir |-> q, strict |-> FALSE, inherited |-> Top.inherited]

(* PackageK::load, resolve_child_charts under the caller's posture, and    *)
(* enter_for_render.                                                       *)
EnterChild ==
    /\ phase = "load"
    /\ ~Refused(target, Top.inherited.gate)
    /\ reached' = reached \cup Reached(target, Top.inherited.offline)
    /\ late' = IF Expired(stack[1].inherited.deadline) THEN late + 1 ELSE late
    /\ stack' = Append(stack, ChildFrame(target))
    /\ phase' = "eval"
    /\ UNCHANGED <<time, input, target, worker, calls, engine, cause, raw>>

LoadFails ==
    /\ phase = "load"
    /\ Panic("error")
    /\ UNCHANGED <<time, input, stack, target, worker, calls, engine, history>>

(* helm.template or kustomize.build, on an imported chart or on a path of  *)
(* the package's own.                                                      *)
CallEngine(typed) ==
    /\ phase = "eval"
    /\ calls < MaxCalls /\ now <= MaxEngineStart
    /\ calls' = calls + 1
    /\ raw' = IF typed \/ Top.strict THEN raw ELSE raw \cup {Top.dir}
    /\ IF ~typed /\ Top.strict
       THEN Panic("error") /\ UNCHANGED <<engineAt, engineLeft>>
       ELSE /\ phase' = IF session THEN "engine" ELSE "init"
            /\ engineAt' = now /\ engineLeft' = EngineTicks
            /\ UNCHANGED cause
    /\ UNCHANGED <<time, input, stack, target, worker, session, late, reached>>

(* The first call makes the session; every call refills its epochs.        *)
EngineReady ==
    /\ phase = "init"
    /\ phase' = "engine" /\ session' = TRUE
    /\ engineAt' = now /\ engineLeft' = EngineTicks
    /\ UNCHANGED <<time, input, stack, target, worker, calls, cause, history>>

EngineReturns ==
    /\ phase = "engine"
    /\ phase' = "eval" /\ engineAt' = NoCall /\ engineLeft' = 0
    /\ UNCHANGED <<time, input, stack, target, worker, calls, session, cause, history>>

EngineFails ==
    /\ phase \in {"init", "engine"}
    /\ Panic("error")
    /\ UNCHANGED <<time, input, stack, target, worker, calls, engine, history>>

EngineDue ==
    /\ phase \in {"init", "engine"}
    /\ engineLeft = 0

(* An interrupted session stays in its slot.  How the interrupt is worded  *)
(* decides what it is reported as.                                         *)
EngineInterrupted ==
    /\ EngineDue
    /\ \E why \in {"error", "timeout"} : Panic(why)
    /\ UNCHANGED <<time, input, stack, target, worker, calls, engine, history>>

EvalFails ==
    /\ phase = "eval"
    /\ Panic("error")
    /\ UNCHANGED <<time, input, stack, target, worker, calls, engine, history>>

FinishChild ==
    /\ phase = "eval" /\ Len(stack) > 1
    /\ stack' = Pop
    /\ UNCHANGED <<time, input, phase, target, worker, calls, engine, cause, history>>

FinishRoot ==
    /\ phase = "eval" /\ Len(stack) = 1
    /\ stack' = <<>>
    /\ phase' = "idle"
    /\ UNCHANGED <<time, input, target, worker, calls, engine, cause, history>>

(* Only wasm code is interrupted: not while a plugin call is under way.    *)
GuestRuns == phase = "eval" /\ Len(stack) = 1

InterruptDue ==
    /\ GuestRuns
    /\ left = 0

(* Mutant: only a render with --timeout is interrupted.                    *)
InterruptTimed ==
    /\ InterruptDue /\ Top.inherited.deadline # Unlimited
    /\ Panic("timeout")
    /\ UNCHANGED <<time, input, stack, target, worker, calls, engine, history>>

Interrupt ==
    /\ InterruptDue
    /\ Panic("timeout")
    /\ UNCHANGED <<time, input, stack, target, worker, calls, engine, history>>

(* An error passes through every frame; the first one is reported.         *)
(* Mutant: the scopes of the frames are not dropped.                       *)
UnwindAtOnce ==
    /\ phase = "unwind"
    /\ phase' = "idle"
    /\ UNCHANGED <<time, input, stack, target, worker, calls, engine, cause, history>>

Unwind ==
    /\ phase = "unwind"
    /\ stack' = Pop
    /\ IF Len(stack) = 1
       THEN phase' = "idle"
       ELSE UNCHANGED phase
    /\ UNCHANGED <<time, input, target, worker, calls, engine, cause, history>>

(* The ticker sleeps for the length of an epoch and begins the next one    *)
(* when it gets to it.                                                     *)
Countdown(n) == IF n = 0 THEN 0 ELSE n - 1

Tick ==
    /\ phase # "idle"
    /\ age = TickLength
    /\ age' = 0
    /\ left' = Countdown(left) /\ engineLeft' = Countdown(engineLeft)
    /\ UNCHANGED <<now, lost, launched, limit, session, engineAt>>
    /\ UNCHANGED <<input, phase, stack, target, calls, cause, history>>

(* Time passes wherever the code is, but not for a guest that is stopped.  *)
(* While the worker is set up, or an epoch lasts longer, no epoch of the   *)
(* worker's counts it.                                                     *)
Losing == phase = "launch" \/ age = TickLength

Advance ==
    /\ phase # "idle"
    /\ now < (IF phase \in {"resolve", "host", "launch"} THEN MaxStart ELSE MaxTime)
    /\ ~InterruptDue /\ ~EngineDue
    /\ Losing => lost < MaxLost
    /\ now' = now + 1
    /\ age' = IF age = TickLength THEN age ELSE age + 1
    /\ lost' = IF Losing THEN lost + 1 ELSE lost
    /\ UNCHANGED <<input, phase, stack, target, worker, calls, engine, cause, history>>

-----------------------------------------------------------------------------
(* What the host does by itself.  No evaluation need end, of the root and   *)
(* of the engines in wasm, or of a composed package in the host.           *)
HostStep ==
    \/ ResolveRoot \/ ResolveRootFails \/ Measure \/ Launch \/ LaunchFails
    \/ EnterChild \/ LoadFails \/ Interrupt \/ Unwind
    \/ EngineReady \/ EngineInterrupted

Next ==
    \/ Begin
    \/ \E q \in Packages : Call(q)
    \/ \E typed \in BOOLEAN : CallEngine(typed)
    \/ EngineReturns \/ EngineFails
    \/ EvalFails \/ FinishChild \/ FinishRoot
    \/ HostStep
    \/ Tick \/ Advance

Spec == Init /\ [][Next]_vars

FairSpec == Spec /\ WF_vars(HostStep) /\ WF_vars(Tick) /\ WF_vars(Advance)

-----------------------------------------------------------------------------
(* The stack is empty exactly when nothing renders: every scope that was   *)
(* entered is dropped, on every path out (RenderScope::drop).              *)
TypeOK ==
    /\ {now, lost, launched, limit, left, engineLeft, calls, late} \subseteq Nat
    /\ engineAt \in Nat \cup {NoCall}
    /\ session \in BOOLEAN
    /\ age \in 0..TickLength
    /\ opt \in Options /\ deps \in Graphs
    /\ phase \in {"idle", "resolve", "host", "launch", "eval", "load", "init",
                 "engine", "unwind"}
    /\ stack \in Seq(Frame)
    /\ stack = <<>> <=> phase \in {"idle", "resolve"}
    /\ target \in Packages
    /\ cause \in {"none", "error", "timeout"}
    /\ reached \subseteq Kinds /\ raw \subseteq Packages

(* No package of the composition, however deep, goes to the network in an  *)
(* offline render or takes a fork while replace is rejected                *)
(* (ResolverContext).                                                      *)
NothingForbidden ==
    /\ opt.offline => "remote" \notin reached
    /\ opt.gate => "fork" \notin reached

(* A package is not rendered inside itself, unless its package.k is a      *)
(* link, and then the depth cap ends it (pre_check).                       *)
BoundedComposition ==
    /\ Len(stack) <= (IF opt.depth > 1 THEN opt.depth ELSE 1)
    /\ \A i, j \in 1..Len(stack) :
          i < j /\ stack[i].dir = stack[j].dir => FileOf[stack[i].dir] # stack[i].dir

(* After the deadline at most one nested evaluation still begins: the one  *)
(* that was let in before (pkg_render::install).                           *)
AtMostOneLateStart == late <= 1

(* The worker's code runs past the deadline, or past one epoch if the      *)
(* deadline was nearer than that, by no more than was lost: until it had   *)
(* its epochs (set_epoch_deadline) and to epochs that were late            *)
(* (ResourceLimits::for_deadline, spawn_epoch_ticker).                     *)
LastMoment(d) ==
    IF d = Unlimited THEN launched + DefaultTicks * TickLength
    ELSE IF d < launched + TickLength THEN launched + TickLength ELSE d
GuestStopsInTime ==
    [][GuestRuns /\ now' > now => now' <= LastMoment(Top.inherited.deadline) + lost']_vars

(* A timeout is reported only in the last two epochs before the deadline,  *)
(* after the longest time a render may take, or for an engine that had all *)
(* of its epochs (epoch_ticks_for_remaining, Session::call).               *)
Had(ticks, since) == now >= since + (ticks - 1) * TickLength
TimeoutIsDue ==
    phase = "unwind" /\ cause = "timeout" =>
        LET d == Top.inherited.deadline IN
        \/ d = Unlimited /\ Had(DefaultTicks, launched)
        \/ d # Unlimited /\ (now > d - 2 * TickLength \/ Had(MaxTicks, launched))
        \/ engineAt # NoCall /\ Had(EngineTicks, engineAt)

(* Every render ends, even if the root package or an engine never stops    *)
(* (spawn_epoch_ticker).  A composed package that never stops is the only  *)
(* thing that can keep it: nothing interrupts it.                          *)
NestedRuns == phase = "eval" /\ Len(stack) > 1
RenderEnds == <>[]NestedRuns \/ (phase # "idle" ~> phase = "idle")

(* A strict render's root calls no engine on a path of its own, not even   *)
(* by way of a package it composes and that composes it (pre_check).       *)
StrictRootIsTyped == opt.strict => Root \notin raw
=============================================================================
