--------------------------- MODULE DevLoopProperties ---------------------------
(***************************************************************************)
(* What DevLoop is checked for.                                            *)
(***************************************************************************)
EXTENDS DevLoop

Version == Content \cup {Unread}
Batches == [error : BOOLEAN, files : SUBSET (Files \cup {Manifests})]

(* Every variable of `akuapkg dev` has its type, and once it has stopped   *)
(* (watch_and_render returned) nothing is watched and no batch waits.      *)
TypeOK ==
    /\ file \in [Files -> Content]
    /\ present \subseteq Dirs
    /\ watched \subseteq Dirs /\ toWatch \subseteq Dirs
    /\ noticed \subseteq Files \cup {Manifests}
    /\ channel \in Seq(Batches)
    /\ pc \in {"load", "inputs", "eval", "collect", "watch", "check", "recv",
               "stopped", "failed"}
    /\ trigger \subseteq Files \cup {Manifests}
    /\ got \in [Files -> Version] /\ shown \in [Files -> Version]
    /\ stop \in BOOLEAN /\ closed \in BOOLEAN
    /\ edits \in 0..MaxEdits /\ errors \in 0..MaxErrors
    /\ blind \subseteq Files
    /\ late \in Nat
    /\ Ended => watched = {} /\ channel = <<>>

(* The files of which the verb's help and dev.rs say that an edit is       *)
(* followed by a verdict.                                                  *)
Promised == {f \in Relevant : ~Skipped(DirOf[f])}

Rendering == pc \in {"load", "inputs", "eval"}
Shown(f) == shown[f] \in {file[f], Unread}

(* An edit that some batch, not yet or just now received, is about.        *)
OnItsWay(f) ==
    \/ f \in noticed
    \/ \E i \in 1..Len(channel) : f \in channel[i].files
    \/ Rendering /\ got[f] \in {file[f], Unread}

(* No edit is lost: if the last verdict is on another content of a file,   *)
(* a render that will read it is on its way, whatever was saved during the *)
(* render or while the loop was busy (the debouncer and channel of         *)
(* watch_and_render); only where no watch was at the time, none is.        *)
NothingLost ==
    \A f \in Promised : Shown(f) \/ OnItsWay(f) \/ f \in blind \/ Ended

(* A render gives up early only for a file that does not load: what the    *)
(* last verdict did not look at (render_once returning at the first error) *)
(* is excused by something broken that it did look at.                     *)
SilenceIsEarned ==
    (\E f \in Files : shown[f] # Unread) =>
        \A f \in Files : shown[f] = Unread =>
            \E g \in Files : shown[g].is \in {"broken", "endless"}

(* After Ctrl-C, or the first write to a closed pipe, one more render may  *)
(* begin (the loop may be in recv_timeout), never a second.                *)
StopsWithinOneRender == late <= 1

(* An edit of a watched file gets its verdict, unless the loop ends or     *)
(* hangs in a composed package.                                            *)
EditsAreShown ==
    \A f \in Promised :
        (f \notin blind /\ ~Shown(f)) ~> (Shown(f) \/ f \in blind \/ Ended \/ Hung)

(* Once the author rests, so does the loop: a render does not set off      *)
(* another.                                                                *)
Idles == <>[](Ended \/ Hung \/ pc \in {"check", "recv"})

(* Ctrl-C ends the verb, and so does a failed write, unless a composed     *)
(* package never returns.                                                  *)
StopEnds == stop ~> (Ended \/ Hung)
=============================================================================
