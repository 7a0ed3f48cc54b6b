------------------------------- MODULE DevLoop -------------------------------
(***************************************************************************)
(* akuapkg dev: a first render, then a watch on every directory of the     *)
(* workspace, then a render for each batch of changes until Ctrl-C or      *)
(* until nobody reads the output.  The author edits at any time; the       *)
(* watcher's thread collects what changed and sends it down a channel.     *)
(***************************************************************************)
EXTENDS Naturals, Sequences

CONSTANTS
    Files,     \* what the package is made of
    Package,   \* its package.k, loaded first
    Inputs,    \* the inputs file, loaded next
    Composed,  \* files of the packages it composes, evaluated in the host
    Relevant,  \* files whose extension is one that is watched
    Dirs,
    DirOf,     \* the directory of each file
    OutDir,    \* where the manifests go
    SkipDirs,  \* directories whose name should_skip_dir rejects
    AtStart,   \* directories that exist when the verb starts
    Rooted,    \* paths of events begin with the path of the workspace
    Manifests, \* stands for the files of the last render
    MaxEdits,  \* bound: edits
    MaxErrors  \* bound: errors of the watcher

ASSUME DevAssumption ==
    /\ {Package, Inputs} \subseteq Files
    /\ Composed \subseteq Files \ {Package, Inputs}
    /\ Relevant \subseteq Files
    /\ Manifests \notin Files
    /\ DirOf \in [Files -> Dirs]
    /\ {OutDir} \cup AtStart \cup SkipDirs \subseteq Dirs
    /\ Rooted \in BOOLEAN
    /\ {MaxEdits, MaxErrors} \subseteq Nat

(* What a file holds: the number of its last edit, and how it evaluates.   *)
Content == [edit : Nat, is : {"fine", "broken", "endless"}]
Unread == [edit |-> 0, is |-> "unread"]

VARIABLES
    file,     \* the author's files
    present,  \* directories that exist
    watched,  \* directories with a watch on them
    toWatch,  \* those still to be given one
    noticed,  \* changed files the debouncer holds back
    channel,  \* batches sent to the loop
    pc,       \* the loop
    trigger,  \* the batch the render under way is for
    got,      \* what that render has read so far
    shown,    \* what the last verdict is a verdict on
    stop,     \* the flag Ctrl-C and a failed write set
    closed,   \* nobody reads the output any more
    edits, errors, \* counters
    blind,    \* files edited where no watch was, and not read since (history)
    late      \* renders begun after the flag was set (history)

loop == <<pc, trigger, got, shown, late>>
watcher == <<watched, toWatch, noticed, channel>>
vars == <<file, present, watcher, loop, stop, closed, edits, errors, blind>>

Ended == pc \in {"stopped", "failed"}
Batch(fs) == [error |-> FALSE, files |-> fs]
WatchError == [error |-> TRUE, files |-> {}]

Init ==
    /\ file = [f \in Files |-> [edit |-> 0, is |-> "fine"]]
    /\ present = AtStart
    /\ watched = {} /\ toWatch = {} /\ noticed = {} /\ channel = <<>>
    /\ pc = "load" /\ trigger = {}
    /\ got = [f \in Files |-> Unread] /\ shown = [f \in Files |-> Unread]
    /\ stop = FALSE /\ closed = FALSE
    /\ edits = 0 /\ errors = 0 /\ blind = {} /\ late = 0

-----------------------------------------------------------------------------
(* The author, and the threads of the watcher and of the signal            *)

(* Mutant: the directory of the manifests is like any other.               *)
SkippedButOutput(d) == d \in SkipDirs \ {OutDir}

Skipped(d) == d \in SkipDirs

(* A write in a directory that has a watch is an event of its path.        *)
Event(f, d) == IF d \in watched THEN noticed \cup {f} ELSE noticed

(* The author saves f, in a directory that may be new.                     *)
Edit(f, is) ==
    /\ edits < MaxEdits
    /\ edits' = edits + 1
    /\ file' = [file EXCEPT ![f] = [edit |-> @.edit + 1, is |-> is]]
    /\ present' = present \cup {DirOf[f]}
    /\ noticed' = Event(f, DirOf[f])
    /\ blind' = IF DirOf[f] \in watched THEN blind ELSE blind \cup {f}
    /\ UNCHANGED <<watched, toWatch, channel, loop, stop, closed, errors>>

(* Mutant: a batch that was not yet received makes way for the next.       *)
FlushLatest ==
    /\ noticed # {}
    /\ channel' = <<Batch(noticed)>>
    /\ noticed' = {}
    /\ UNCHANGED <<file, present, watched, toWatch, loop, stop, closed, edits, errors, blind>>

(* The debouncer's quiet period is over.                                   *)
Flush ==
    /\ noticed # {}
    /\ channel' = Append(channel, Batch(noticed))
    /\ noticed' = {}
    /\ UNCHANGED <<file, present, watched, toWatch, loop, stop, closed, edits, errors, blind>>

WatcherFails ==
    /\ errors < MaxErrors
    /\ watched # {}
    /\ errors' = errors + 1
    /\ channel' = Append(channel, WatchError)
    /\ UNCHANGED <<file, present, watched, toWatch, noticed, loop, stop, closed, edits, blind>>

CtrlC ==
    /\ ~stop
    /\ stop' = TRUE
    /\ UNCHANGED <<file, present, watcher, loop, closed, edits, errors, blind>>

CloseOutput ==
    /\ ~closed
    /\ closed' = TRUE
    /\ UNCHANGED <<file, present, watcher, loop, stop, edits, errors, blind>>

-----------------------------------------------------------------------------
(* One render                                                              *)

Reads(f) ==
    /\ got' = [got EXCEPT ![f] = file[f]]
    /\ blind' = blind \ {f}

(* A verdict goes out; if it cannot be written, the loop is to stop.       *)
Emit == stop' = (stop \/ closed)

(* The render ends with a verdict on what it has read.                     *)
Verdict(reading) ==
    /\ shown' = reading
    /\ pc' = IF trigger = {} THEN "collect" ELSE "check"
    /\ Emit

Load ==
    /\ pc = "load"
    /\ Reads(Package)
    /\ IF file[Package].is # "fine"
       THEN Verdict(got')
       ELSE pc' = "inputs" /\ UNCHANGED <<shown, stop>>
    /\ UNCHANGED <<file, present, watcher, trigger, closed, edits, errors, late>>

LoadInputs ==
    /\ pc = "inputs"
    /\ Reads(Inputs)
    /\ IF file[Inputs].is # "fine"
       THEN Verdict(got')
       ELSE pc' = "eval" /\ UNCHANGED <<shown, stop>>
    /\ UNCHANGED <<file, present, watcher, trigger, closed, edits, errors, late>>

(* A composed package that does not end.  The worker's epoch, the only     *)
(* limit of this render, does not stop it.                                 *)
Hung == \E f \in Composed : got[f].is = "endless"

(* The evaluation opens the other files; what does not end in the worker   *)
(* is interrupted.                                                         *)
Evaluate(f) ==
    /\ pc = "eval" /\ ~Hung
    /\ got[f] = Unread
    /\ Reads(f)
    /\ IF file[f].is = "fine" \/ (f \in Composed /\ file[f].is = "endless")
       THEN UNCHANGED <<pc, shown, stop>>
       ELSE Verdict(got')
    /\ UNCHANGED <<file, present, watcher, trigger, closed, edits, errors, late>>

(* Mutant: a composed package that was evaluated before is not read again. *)
WriteFromCache ==
    /\ pc = "eval" /\ ~Hung
    /\ \A f \in Files \ Composed : got[f] # Unread
    /\ present' = present \cup {OutDir} /\ noticed' = Event(Manifests, OutDir)
    /\ Verdict(got)
    /\ UNCHANGED <<file, watched, toWatch, channel, trigger, got, closed, edits, errors, blind, late>>

(* package_render writes the manifests, or fails to.                       *)
Write ==
    /\ pc = "eval" /\ ~Hung
    /\ \A f \in Files : got[f] # Unread
    /\ \/ present' = present \cup {OutDir} /\ noticed' = Event(Manifests, OutDir)
       \/ UNCHANGED <<present, noticed>>
    /\ Verdict(got)
    /\ UNCHANGED <<file, watched, toWatch, channel, trigger, got, closed, edits, errors, blind, late>>

-----------------------------------------------------------------------------
(* The loop                                                                *)

(* collect_directories, and then a watch on each.                          *)
Collect ==
    /\ pc = "collect"
    /\ toWatch' = {d \in present : ~Skipped(d)}
    /\ pc' = "watch"
    /\ UNCHANGED <<file, present, watched, noticed, channel, trigger, got, shown, late,
                   stop, closed, edits, errors, blind>>

Watch(d) ==
    /\ pc = "watch" /\ d \in toWatch
    /\ watched' = watched \cup {d}
    /\ toWatch' = toWatch \ {d}
    /\ UNCHANGED <<file, present, noticed, channel, loop, stop, closed, edits, errors, blind>>

(* The watches are dropped with the debouncer.                             *)
Drop ==
    /\ watched' = {} /\ noticed' = {} /\ channel' = <<>>
    /\ UNCHANGED toWatch

(* Too many watches, or a directory that is gone.                          *)
WatchFails ==
    /\ pc = "collect" \/ (pc = "watch" /\ toWatch # {})
    /\ pc' = "failed"
    /\ Drop
    /\ UNCHANGED <<file, present, trigger, got, shown, late,
                   stop, closed, edits, errors, blind>>

Watching ==
    /\ pc = "watch" /\ toWatch = {}
    /\ pc' = "check"
    /\ UNCHANGED <<file, present, watcher, trigger, got, shown, late,
                   stop, closed, edits, errors, blind>>

(* Mutant: the flag counts only when no change waits.                      *)
CheckWhenQuiet ==
    /\ pc = "check"
    /\ IF stop /\ channel = <<>> THEN pc' = "stopped" /\ Drop
                                 ELSE pc' = "recv" /\ UNCHANGED watcher
    /\ UNCHANGED <<file, present, trigger, got, shown, late,
                   stop, closed, edits, errors, blind>>

(* Stopped is emitted and the watcher dropped.                             *)
Check ==
    /\ pc = "check"
    /\ IF stop THEN pc' = "stopped" /\ Drop
               ELSE pc' = "recv" /\ UNCHANGED watcher
    /\ UNCHANGED <<file, present, trigger, got, shown, late,
                   stop, closed, edits, errors, blind>>

(* Mutant: the templates of a chart are not among the extensions.          *)
ChangedButComposed(fs) ==
    {f \in fs : Rooted /\ f \in Relevant \ Composed /\ ~Skipped(DirOf[f])}

(* filter_relevant; the manifests are .yaml.                               *)
PlaceOf(f) == IF f = Manifests THEN OutDir ELSE DirOf[f]
Changed(fs) ==
    {f \in fs : Rooted /\ f \in Relevant \cup {Manifests} /\ ~Skipped(PlaceOf(f))}

(* The sender belongs to the debouncer, which the loop itself keeps until  *)
(* it returns: the channel is never found disconnected.                    *)
Receive ==
    /\ pc = "recv" /\ channel # <<>>
    /\ channel' = Tail(channel)
    /\ LET batch == Head(channel)
           changed == Changed(batch.files) IN
       IF batch.error \/ changed = {}
       THEN /\ pc' = "check"
            /\ IF batch.error THEN Emit ELSE UNCHANGED stop
            /\ UNCHANGED <<trigger, got, late>>
       ELSE /\ pc' = "load" /\ trigger' = changed
            /\ got' = [f \in Files |-> Unread]
            /\ late' = IF stop THEN late + 1 ELSE late
            /\ UNCHANGED stop
    /\ UNCHANGED <<file, present, watched, toWatch, noticed, shown, closed, edits, errors, blind>>

(* Mutant: the wait has no end.                                            *)
TimeoutNever == FALSE /\ UNCHANGED vars

(* 250 ms without a batch.                                                 *)
Timeout ==
    /\ pc = "recv" /\ channel = <<>>
    /\ pc' = "check"
    /\ UNCHANGED <<file, present, watcher, trigger, got, shown, late,
                   stop, closed, edits, errors, blind>>

-----------------------------------------------------------------------------
Author == \E f \in Files, is \in {"fine", "broken", "endless"} : Edit(f, is)
Render == Load \/ LoadInputs \/ (\E f \in Files : Evaluate(f)) \/ Write
Setup  == Collect \/ (\E d \in Dirs : Watch(d)) \/ WatchFails \/ Watching
Loop   == Render \/ Setup \/ Check \/ Receive \/ Timeout

Done == Ended /\ UNCHANGED vars

(* The composed package runs on.                                           *)
Spin == pc = "eval" /\ Hung /\ UNCHANGED vars

Next == Author \/ Flush \/ WatcherFails \/ CtrlC \/ CloseOutput \/ Loop \/ Spin \/ Done

Spec == Init /\ [][Next]_vars

(* The loop's thread and the debouncer's both get to run.                  *)
FairSpec == Spec /\ WF_vars(Loop) /\ WF_vars(Flush)
=============================================================================
