---------------------------- MODULE DevLoopProofs ----------------------------
(***************************************************************************)
(* What of DevLoop holds for every workspace and every number of edits.    *)
(***************************************************************************)
EXTENDS DevLoopProperties, TLAPS

(* After the end nothing is collected any more, and an error of the        *)
(* watcher carries no paths.                                               *)
LoopInv ==
    /\ TypeOK
    /\ Ended => noticed = {}
    /\ \A i \in 1..Len(channel) : channel[i].error => channel[i].files = {}

LEMMA InitLoop == Init => LoopInv
<1> SUFFICES ASSUME Init PROVE LoopInv
    OBVIOUS
<1> USE DevAssumption DEF Init
<1>1. /\ file \in [Files -> Content]
      /\ got \in [Files -> Version] /\ shown \in [Files -> Version]
    BY DEF Content, Version, Unread
<1>2. channel \in Seq(Batches) /\ Len(channel) = 0
    OBVIOUS
<1>3. MaxEdits \in Nat /\ MaxErrors \in Nat
    OBVIOUS
<1>4. edits \in 0..MaxEdits /\ errors \in 0..MaxErrors /\ late \in Nat
    BY <1>3
<1>5. present \subseteq Dirs /\ blind \subseteq Files
    OBVIOUS
<1>6. TypeOK
    BY <1>1, <1>2, <1>4, <1>5 DEF TypeOK, Ended
<1> QED
    BY <1>2, <1>6 DEF LoopInv, Ended

(* A saved file has content again, and so has one that was just read.      *)
LEMMA SavedType ==
    ASSUME file \in [Files -> Content], NEW f \in Files,
           NEW is \in {"fine", "broken", "endless"}
    PROVE  [file EXCEPT ![f] = [edit |-> @.edit + 1, is |-> is]] \in [Files -> Content]
<1>1. file[f].edit + 1 \in Nat
    BY DEF Content
<1>2. [edit |-> file[f].edit + 1, is |-> is] \in Content
    BY <1>1 DEF Content
<1> QED
    BY <1>2

LEMMA ReadType ==
    ASSUME TypeOK, NEW f \in Files, Reads(f)
    PROVE  /\ got' \in [Files -> Version]
           /\ blind' \subseteq Files
           /\ \A g \in Files : got'[g] = IF g = f THEN file[f] ELSE got[g]
<1>1. file[f] \in Version
    BY DEF TypeOK, Version
<1> QED
    BY <1>1 DEF TypeOK, Reads

(* The ways a sequence of batches changes.                                 *)
LEMMA SentType ==
    ASSUME channel \in Seq(Batches), NEW b \in Batches,
           \A i \in 1..Len(channel) : channel[i].error => channel[i].files = {},
           b.error => b.files = {}
    PROVE  /\ Append(channel, b) \in Seq(Batches)
           /\ \A i \in 1..Len(Append(channel, b)) :
                Append(channel, b)[i].error => Append(channel, b)[i].files = {}
           /\ \A i \in 1..Len(channel) : \E j \in 1..Len(Append(channel, b)) :
                Append(channel, b)[j] = channel[i]
           /\ \E j \in 1..Len(Append(channel, b)) : Append(channel, b)[j] = b
<1> DEFINE next == Append(channel, b)
<1>1. next \in Seq(Batches) /\ Len(next) = Len(channel) + 1
    OBVIOUS
<1>2. \A i \in 1..Len(channel) : next[i] = channel[i]
    OBVIOUS
<1>3. next[Len(channel) + 1] = b
    OBVIOUS
<1>4. Len(channel) \in Nat
    OBVIOUS
<1> HIDE DEF next
<1>5. \A i \in 1..Len(channel) : i \in 1..Len(next)
    BY <1>1, <1>4
<1>6. Len(channel) + 1 \in 1..Len(next)
    BY <1>1, <1>4
<1>7. \A i \in 1..Len(next) : i \in 1..Len(channel) \/ i = Len(channel) + 1
    BY <1>1, <1>4
<1>8. \A i \in 1..Len(next) : next[i].error => next[i].files = {}
    BY <1>2, <1>3, <1>7
<1> QED
    BY <1>1, <1>2, <1>3, <1>5, <1>6, <1>8 DEF next

LEMMA TakenType ==
    ASSUME channel \in Seq(Batches), channel # <<>>,
           \A i \in 1..Len(channel) : channel[i].error => channel[i].files = {}
    PROVE  /\ Tail(channel) \in Seq(Batches)
           /\ \A i \in 1..Len(Tail(channel)) :
                Tail(channel)[i].error => Tail(channel)[i].files = {}
           /\ \A i \in 1..Len(channel) :
                \/ channel[i] = Head(channel)
                \/ \E j \in 1..Len(Tail(channel)) : Tail(channel)[j] = channel[i]
           /\ Head(channel) \in Batches
           /\ Head(channel).error => Head(channel).files = {}
<1> DEFINE rest == Tail(channel)
<1>1. rest \in Seq(Batches) /\ Len(rest) = Len(channel) - 1
    OBVIOUS
<1>2. \A i \in 1..Len(rest) : rest[i] = channel[i + 1]
    OBVIOUS
<1>3. Head(channel) = channel[1] /\ Head(channel) \in Batches
    OBVIOUS
<1>4. Len(channel) \in Nat /\ Len(channel) # 0
    OBVIOUS
<1> HIDE DEF rest
<1>5. \A i \in 1..Len(rest) : i + 1 \in 1..Len(channel)
    BY <1>1, <1>4
<1>6. \A i \in 1..Len(channel) : i = 1 \/ (i - 1 \in 1..Len(rest) /\ (i - 1) + 1 = i)
    BY <1>1, <1>4
<1>7. 1 \in 1..Len(channel)
    BY <1>4
<1>8. \A i \in 1..Len(rest) : rest[i].error => rest[i].files = {}
    BY <1>2, <1>5
<1>9. \A i \in 1..Len(channel) : channel[i] = Head(channel) \/ \E j \in 1..Len(rest) : rest[j] = channel[i]
    BY <1>2, <1>3, <1>6
<1> QED
    BY <1>1, <1>3, <1>7, <1>8, <1>9 DEF rest

(* What every verdict leaves in place.                                     *)
LEMMA VerdictType ==
    ASSUME TypeOK, NEW reading \in [Files -> Version], Verdict(reading)
    PROVE  /\ shown' = reading
           /\ pc' \in {"collect", "check"}
           /\ stop' \in BOOLEAN
           /\ stop => stop'
<1> QED
    BY DEF Verdict, Emit, TypeOK

LEMMA LoopNext == LoopInv /\ [Next]_vars => LoopInv'
<1> SUFFICES ASSUME LoopInv, [Next]_vars
             PROVE  LoopInv'
    OBVIOUS
<1> USE DevAssumption
<1> USE DEF LoopInv, Ended
<1>types. MaxEdits \in Nat /\ MaxErrors \in Nat /\ edits \in Nat /\ errors \in Nat
    BY DEF TypeOK
<1>1. ASSUME NEW f \in Files, NEW is \in {"fine", "broken", "endless"}, Edit(f, is)
      PROVE  LoopInv'
    <2>1. file' \in [Files -> Content]
        BY <1>1, SavedType DEF Edit, TypeOK
    <2>2. edits' \in 0..MaxEdits
        BY <1>1, <1>types DEF Edit, TypeOK
    <2>3. present' \subseteq Dirs /\ blind' \subseteq Files /\ noticed' \subseteq Files \cup {Manifests}
        BY <1>1 DEF Edit, TypeOK, Event
    <2>4. Ended => noticed' = {}
        BY <1>1 DEF Edit, TypeOK, Event
    <2> QED
        BY <1>1, <2>1, <2>2, <2>3, <2>4 DEF Edit, TypeOK, loop
<1>2. CASE Flush
    <2> DEFINE b == Batch(noticed)
    <2>1. b \in Batches /\ ~b.error
        BY DEF Batch, Batches, TypeOK
    <2>2. channel \in Seq(Batches)
        BY DEF TypeOK
    <2>3. channel' = Append(channel, b)
        BY <1>2 DEF Flush
    <2> HIDE DEF b
    <2>4. /\ channel' \in Seq(Batches)
          /\ \A i \in 1..Len(channel') : channel'[i].error => channel'[i].files = {}
        BY <2>1, <2>2, <2>3, SentType
    <2> QED
        BY <1>2, <2>4 DEF Flush, TypeOK, loop
<1>3. CASE WatcherFails
    <2> DEFINE b == WatchError
    <2>1. b \in Batches /\ b.files = {}
        BY DEF WatchError, Batches
    <2>2. channel \in Seq(Batches)
        BY DEF TypeOK
    <2>3. channel' = Append(channel, b)
        BY <1>3 DEF WatcherFails
    <2> HIDE DEF b
    <2>4. /\ channel' \in Seq(Batches)
          /\ \A i \in 1..Len(channel') : channel'[i].error => channel'[i].files = {}
        BY <2>1, <2>2, <2>3, SentType
    <2>5. errors' \in 0..MaxErrors
        BY <1>3, <1>types DEF WatcherFails, TypeOK
    <2> QED
        BY <1>3, <2>4, <2>5 DEF WatcherFails, TypeOK, loop
<1>4. CASE CtrlC
    BY <1>4 DEF CtrlC, TypeOK, loop, watcher
<1>5. CASE CloseOutput
    BY <1>5 DEF CloseOutput, TypeOK, loop, watcher
<1>6. CASE Load
    <2>1. Package \in Files /\ Reads(Package)
        BY <1>6 DEF Load
    <2>2. got' \in [Files -> Version] /\ blind' \subseteq Files
        BY <2>1, ReadType
    <2>3. CASE Verdict(got')
        BY <1>6, <2>2, <2>3, VerdictType DEF Load, TypeOK, watcher
    <2>4. CASE pc' = "inputs" /\ UNCHANGED <<shown, stop>>
        BY <1>6, <2>2, <2>4 DEF Load, TypeOK, watcher
    <2> QED
        BY <1>6, <2>3, <2>4 DEF Load
<1>7. CASE LoadInputs
    <2>1. Inputs \in Files /\ Reads(Inputs)
        BY <1>7 DEF LoadInputs
    <2>2. got' \in [Files -> Version] /\ blind' \subseteq Files
        BY <2>1, ReadType
    <2>3. CASE Verdict(got')
        BY <1>7, <2>2, <2>3, VerdictType DEF LoadInputs, TypeOK, watcher
    <2>4. CASE pc' = "eval" /\ UNCHANGED <<shown, stop>>
        BY <1>7, <2>2, <2>4 DEF LoadInputs, TypeOK, watcher
    <2> QED
        BY <1>7, <2>3, <2>4 DEF LoadInputs
<1>8. ASSUME NEW f \in Files, Evaluate(f)
      PROVE  LoopInv'
    <2>1. Reads(f)
        BY <1>8 DEF Evaluate
    <2>2. got' \in [Files -> Version] /\ blind' \subseteq Files
        BY <2>1, ReadType
    <2>3. CASE Verdict(got')
        BY <1>8, <2>2, <2>3, VerdictType DEF Evaluate, TypeOK, watcher
    <2>4. CASE UNCHANGED <<pc, shown, stop>>
        BY <1>8, <2>2, <2>4 DEF Evaluate, TypeOK, watcher
    <2> QED
        BY <1>8, <2>3, <2>4 DEF Evaluate
<1>9. CASE Write
    <2>1. got \in [Files -> Version] /\ Verdict(got)
        BY <1>9 DEF Write, TypeOK
    <2>2. present' \subseteq Dirs /\ noticed' \subseteq Files \cup {Manifests}
        BY <1>9 DEF Write, TypeOK, Event
    <2> QED
        BY <1>9, <2>1, <2>2, VerdictType DEF Write, TypeOK
<1>10. CASE Collect
    BY <1>10 DEF Collect, TypeOK
<1>11. ASSUME NEW d \in Dirs, Watch(d)
       PROVE  LoopInv'
    BY <1>11 DEF Watch, TypeOK, loop
<1>12. CASE WatchFails
    <2>1. channel' = <<>> /\ channel' \in Seq(Batches) /\ Len(channel') = 0
        BY <1>12 DEF WatchFails, Drop
    <2> QED
        BY <1>12, <2>1 DEF WatchFails, Drop, TypeOK
<1>13. CASE Watching
    BY <1>13 DEF Watching, TypeOK, watcher
<1>14. CASE Check
    <2>1. CASE stop
        <3>1. channel' = <<>> /\ channel' \in Seq(Batches) /\ Len(channel') = 0
            BY <1>14, <2>1 DEF Check, Drop
        <3> QED
            BY <1>14, <2>1, <3>1 DEF Check, Drop, TypeOK
    <2>2. CASE ~stop
        BY <1>14, <2>2 DEF Check, TypeOK, watcher
    <2> QED
        BY <2>1, <2>2
<1>15. CASE Receive
    <2>1. channel \in Seq(Batches) /\ channel # <<>> /\ channel' = Tail(channel)
        BY <1>15 DEF Receive, TypeOK
    <2>2. /\ channel' \in Seq(Batches)
          /\ \A i \in 1..Len(channel') : channel'[i].error => channel'[i].files = {}
        BY <2>1, TakenType
    <2>3. CASE Head(channel).error \/ Changed(Head(channel).files) = {}
        BY <1>15, <2>2, <2>3 DEF Receive, TypeOK, Emit
    <2>4. CASE ~(Head(channel).error \/ Changed(Head(channel).files) = {})
        <3>1. Head(channel).files \subseteq Files \cup {Manifests}
            BY <2>1, TakenType DEF Batches
        <3>2. trigger' = Changed(Head(channel).files) /\ pc' = "load" /\ stop' = stop
              /\ got' = [g \in Files |-> Unread] /\ late' \in Nat
            BY <1>15, <2>4 DEF Receive, TypeOK
        <3>3. trigger' \subseteq Files \cup {Manifests} /\ got' \in [Files -> Version]
            BY <3>1, <3>2 DEF Changed, Version
        <3> QED
            BY <1>15, <2>2, <3>2, <3>3 DEF Receive, TypeOK
    <2> QED
        BY <2>3, <2>4
<1>16. CASE Timeout
    BY <1>16 DEF Timeout, TypeOK, watcher
<1>17. CASE UNCHANGED vars
    BY <1>17 DEF vars, loop, watcher, TypeOK
<1> QED
    BY <1>1, <1>2, <1>3, <1>4, <1>5, <1>6, <1>7, <1>8, <1>9, <1>10, <1>11, <1>12,
       <1>13, <1>14, <1>15, <1>16, <1>17
       DEF Next, Author, Loop, Render, Setup, Spin, Done

(* Every variable keeps its type, and nothing is watched or waits once the *)
(* verb has ended (watch_and_render), however long it runs.                *)
THEOREM DevTypeCorrect == Spec => []TypeOK
<1>1. LoopInv => TypeOK
    BY DEF LoopInv
<1> QED
    BY InitLoop, LoopNext, <1>1, PTL DEF Spec

-----------------------------------------------------------------------------
(* The flag is never lowered, and a loop that sees it raised does not wait *)
(* for another batch.                                                      *)
StopInv ==
    /\ late <= 1
    /\ late # 0 => stop /\ pc # "recv"

LEMMA StopNext == LoopInv /\ StopInv /\ [Next]_vars => StopInv'
<1> SUFFICES ASSUME LoopInv, StopInv, [Next]_vars
             PROVE  StopInv'
    OBVIOUS
<1> USE DEF StopInv
<1>0. stop \in BOOLEAN /\ late \in Nat
    BY DEF LoopInv, TypeOK
<1>1. CASE UNCHANGED late /\ (stop => stop') /\ pc' \notin {"recv", pc}
    BY <1>1
<1>2. CASE UNCHANGED late /\ (stop => stop') /\ pc' = pc
    BY <1>2
<1>3. CASE Check
    BY <1>3, <1>0 DEF Check
<1>4. CASE Receive
    <2>1. late = 0
        BY <1>4, <1>0 DEF Receive
    <2> QED
        BY <1>4, <2>1 DEF Receive, Emit
<1>5. ASSUME Next, ~Check, ~Receive
      PROVE  /\ UNCHANGED late
             /\ stop => stop'
             /\ pc' # "recv" \/ pc' = pc
    <2>1. CASE Author \/ Flush \/ WatcherFails \/ CtrlC \/ CloseOutput \/ Spin \/ Done
        BY <2>1 DEF Author, Edit, Flush, WatcherFails, CtrlC, CloseOutput, Spin, Done, loop, vars
    <2>2. CASE Setup \/ Timeout
        BY <2>2 DEF Setup, Collect, Watch, WatchFails, Watching, Timeout, loop
    <2>3. CASE Load
        BY <2>3 DEF Load, Verdict, Emit
    <2>4. CASE LoadInputs
        BY <2>4 DEF LoadInputs, Verdict, Emit
    <2>5. ASSUME NEW f \in Files, Evaluate(f)
          PROVE  UNCHANGED late /\ (stop => stop') /\ (pc' # "recv" \/ pc' = pc)
        BY <2>5 DEF Evaluate, Verdict, Emit
    <2>6. CASE Write
        BY <2>6 DEF Write, Verdict, Emit
    <2> QED
        BY <1>5, <2>1, <2>2, <2>3, <2>4, <2>5, <2>6 DEF Next, Loop, Render
<1>6. CASE UNCHANGED vars
    BY <1>6 DEF vars, loop
<1> QED
    BY <1>1, <1>2, <1>3, <1>4, <1>5, <1>6

(* At most one render begins after Ctrl-C or a failed write (the check of  *)
(* the flag before recv_timeout), with any number of edits and batches.    *)
THEOREM DevStops == Spec => []StopsWithinOneRender
<1>1. Init => StopInv
    BY DEF Init, StopInv
<1>2. StopInv => StopsWithinOneRender
    BY DEF StopInv, StopsWithinOneRender
<1> QED
    BY InitLoop, LoopNext, <1>1, StopNext, <1>2, PTL DEF Spec

-----------------------------------------------------------------------------
(* A file that was read holds something, and what ends a render early is   *)
(* among what it read.                                                     *)
LEMMA EarlyVerdict ==
    ASSUME LoopInv, NEW f \in Files, Reads(f), file[f].is # "fine", shown' = got'
    PROVE  SilenceIsEarned'
<1>1. got'[f] = file[f] /\ file[f] \in Content
    BY ReadType DEF LoopInv, TypeOK
<1>2. shown'[f].is \in {"broken", "endless"}
    BY <1>1 DEF Content
<1> QED
    BY <1>2 DEF SilenceIsEarned

LEMMA SilenceNext == LoopInv /\ SilenceIsEarned /\ [Next]_vars => SilenceIsEarned'
<1> SUFFICES ASSUME LoopInv, SilenceIsEarned, [Next]_vars
             PROVE  SilenceIsEarned'
    OBVIOUS
<1>1. CASE UNCHANGED shown
    BY <1>1 DEF SilenceIsEarned
<1>2. CASE Load
    <2>1. CASE file[Package].is # "fine"
        BY <1>2, <2>1, EarlyVerdict, DevAssumption DEF Load, Verdict
    <2>2. CASE file[Package].is = "fine"
        BY <1>1, <1>2, <2>2 DEF Load
    <2> QED
        BY <2>1, <2>2
<1>3. CASE LoadInputs
    <2>1. CASE file[Inputs].is # "fine"
        BY <1>3, <2>1, EarlyVerdict, DevAssumption DEF LoadInputs, Verdict
    <2>2. CASE file[Inputs].is = "fine"
        BY <1>1, <1>3, <2>2 DEF LoadInputs
    <2> QED
        BY <2>1, <2>2
<1>4. ASSUME NEW f \in Files, Evaluate(f)
      PROVE  SilenceIsEarned'
    <2>1. CASE file[f].is = "fine"
        BY <1>1, <1>4, <2>1 DEF Evaluate
    <2>2. CASE file[f].is # "fine" /\ UNCHANGED shown
        BY <1>1, <2>2
    <2>3. CASE file[f].is # "fine" /\ shown' = got'
        BY <1>4, <2>3, EarlyVerdict DEF Evaluate
    <2> QED
        BY <1>4, <2>1, <2>2, <2>3 DEF Evaluate, Verdict
<1>5. CASE Write
    <2>1. \A f \in Files : shown'[f] # Unread
        BY <1>5 DEF Write, Verdict
    <2> QED
        BY <2>1 DEF SilenceIsEarned
<1>6. ASSUME Next, ~Render
      PROVE  UNCHANGED shown
    BY <1>6 DEF Next, Author, Edit, Flush, WatcherFails, CtrlC, CloseOutput, Loop, Setup, Collect,
       Watch, WatchFails, Watching, Check, Receive, Timeout, Spin, Done, loop, vars
<1>7. CASE UNCHANGED vars
    BY <1>1, <1>7 DEF vars, loop
<1> QED
    BY <1>1, <1>2, <1>3, <1>4, <1>5, <1>6, <1>7 DEF Render

(* What a verdict leaves out is excused by a file it looked at             *)
(* (render_once), in whatever order files are read and saved.              *)
THEOREM SilenceHasAReason == Spec => []SilenceIsEarned
<1>1. Init => SilenceIsEarned
    BY DEF Init, SilenceIsEarned
<1> QED
    BY InitLoop, LoopNext, <1>1, SilenceNext, PTL DEF Spec

-----------------------------------------------------------------------------
(* NothingLost is not inductive: a verdict may replace a current one by    *)
(* one on older content.  While a render is under way only what it has     *)
(* read counts, not what was shown before.                                 *)
InChannel(f) == \E i \in 1..Len(channel) : f \in channel[i].files
Awaited(f) == f \in noticed \/ InChannel(f) \/ f \in blind \/ Ended
Current(f) == IF Rendering THEN got[f] \in {file[f], Unread} ELSE Shown(f)
LostInv == \A f \in Promised : Awaited(f) \/ Current(f)

LEMMA LostIsEnough == LostInv => NothingLost
BY DEF LostInv, NothingLost, Awaited, InChannel, Current, OnItsWay

LEMMA PromisedFiles == \A f \in Promised : f \in Files /\ f \in Relevant /\ ~Skipped(DirOf[f])
BY DevAssumption DEF Promised

(* A render reads a file: what was awaited for it stays so or was read.    *)
LEMMA ReadKeeps ==
    ASSUME LoopInv, LostInv, NEW f \in Files, Reads(f), Rendering,
           UNCHANGED <<file, noticed, channel>>,
           \/ UNCHANGED <<shown>> /\ pc' \in {"load", "inputs", "eval"}
           \/ shown' = got' /\ pc' \in {"collect", "check"}
    PROVE  LostInv'
<1> SUFFICES ASSUME NEW g \in Promised PROVE Awaited(g)' \/ Current(g)'
    BY DEF LostInv, Promised, Skipped
<1>1. ~Ended
    BY DEF Rendering, Ended
<1>2. g \in Files
    BY PromisedFiles
<1>3. got'[g] = IF g = f THEN file[f] ELSE got[g]
    BY <1>2, ReadType DEF LoopInv
<1>4. g # f => (g \in blind <=> g \in blind')
    BY DEF Reads
<1>5. InChannel(g)' = InChannel(g)
    BY DEF InChannel
<1>6. CASE got'[g] \in {file[g], Unread}
    BY <1>6 DEF Current, Rendering, Shown
<1>7. CASE got'[g] \notin {file[g], Unread}
    <2>1. g # f /\ got[g] \notin {file[g], Unread}
        BY <1>3, <1>7
    <2>2. Awaited(g)
        BY <2>1 DEF LostInv, Current
    <2> QED
        BY <2>1, <2>2, <1>1, <1>4, <1>5 DEF Awaited
<1> QED
    BY <1>6, <1>7

LEMMA LostNext == Rooted /\ LoopInv /\ LostInv /\ [Next]_vars => LostInv'
<1> SUFFICES ASSUME Rooted, LoopInv, LostInv, [Next]_vars
             PROVE  LostInv'
    OBVIOUS
<1>1. CASE /\ UNCHANGED <<file, noticed, channel, blind, got, shown>>
           /\ (Rendering)' = Rendering
           /\ Ended => Ended'
    BY <1>1 DEF LostInv, Awaited, InChannel, Current, Shown, Promised, Skipped
<1>2. ASSUME NEW f \in Files, NEW is \in {"fine", "broken", "endless"}, Edit(f, is)
      PROVE  LostInv'
    <2> SUFFICES ASSUME NEW g \in Promised PROVE Awaited(g)' \/ Current(g)'
        BY DEF LostInv, Promised, Skipped
    <2>1. CASE g = f
        BY <1>2, <2>1 DEF Edit, Event, Awaited
    <2>2. CASE g # f
        <3>1. file'[g] = file[g] /\ (g \in noticed => g \in noticed') /\ (g \in blind => g \in blind')
            BY <1>2, <2>2, PromisedFiles DEF Edit, Event, LoopInv, TypeOK
        <3>2. InChannel(g)' = InChannel(g) /\ Ended' = Ended
            BY <1>2 DEF Edit, InChannel, Ended, loop
        <3>3. Awaited(g) => Awaited(g)'
            BY <3>1, <3>2 DEF Awaited
        <3>4. Current(g) => Current(g)'
            BY <1>2, <3>1 DEF Edit, Current, Rendering, Shown, loop
        <3> QED
            BY <3>3, <3>4 DEF LostInv
    <2> QED
        BY <2>1, <2>2
<1>3. ASSUME NEW b \in Batches, b.error => b.files = {}, channel' = Append(channel, b),
             \A f \in noticed : f \in noticed' \/ f \in b.files,
             UNCHANGED <<file, loop, blind>>
      PROVE  LostInv'
    <2> SUFFICES ASSUME NEW g \in Promised PROVE Awaited(g)' \/ Current(g)'
        BY DEF LostInv, Promised, Skipped
    <2>1. /\ \A i \in 1..Len(channel) : \E j \in 1..Len(channel') : channel'[j] = channel[i]
          /\ \E j \in 1..Len(channel') : channel'[j] = b
        BY <1>3, SentType DEF LoopInv, TypeOK
    <2>2. InChannel(g) => InChannel(g)'
        BY <2>1 DEF InChannel
    <2>3. g \in b.files => InChannel(g)'
        BY <2>1 DEF InChannel
    <2>4. Awaited(g) => Awaited(g)'
        BY <1>3, <2>2, <2>3 DEF Awaited, Ended, loop
    <2>5. Current(g) => Current(g)'
        BY <1>3 DEF Current, Rendering, Shown, loop
    <2> QED
        BY <2>4, <2>5 DEF LostInv
<1>4. CASE Flush
    <2> DEFINE b == Batch(noticed)
    <2>1. b \in Batches /\ ~b.error /\ b.files = noticed
        BY DEF Batch, Batches, LoopInv, TypeOK
    <2>2. channel' = Append(channel, b) /\ UNCHANGED <<file, loop, blind>>
        BY <1>4 DEF Flush
    <2> HIDE DEF b
    <2> QED
        BY <1>3, <2>1, <2>2
<1>5. CASE WatcherFails
    <2> DEFINE b == WatchError
    <2>1. b \in Batches /\ b.files = {}
        BY DEF WatchError, Batches
    <2>2. channel' = Append(channel, b) /\ UNCHANGED <<file, loop, blind, noticed>>
        BY <1>5 DEF WatcherFails
    <2> HIDE DEF b
    <2> QED
        BY <1>3, <2>1, <2>2
<1>6. CASE CtrlC \/ CloseOutput \/ Collect \/ Watching \/ Timeout \/ Spin \/ Done
    BY <1>1, <1>6 DEF CtrlC, CloseOutput, Collect, Watching, Timeout, Spin, Done, loop, watcher, vars,
       Rendering, Ended
<1>7. ASSUME NEW d \in Dirs, Watch(d)
      PROVE  LostInv'
    BY <1>1, <1>7 DEF Watch, loop, Rendering, Ended
<1>8. CASE Load
    BY <1>8, ReadKeeps, DevAssumption DEF Load, Verdict, Rendering, watcher
<1>9. CASE LoadInputs
    BY <1>9, ReadKeeps, DevAssumption DEF LoadInputs, Verdict, Rendering, watcher
<1>10. ASSUME NEW f \in Files, Evaluate(f)
       PROVE  LostInv'
    BY <1>10, ReadKeeps DEF Evaluate, Verdict, Rendering, watcher
<1>11. CASE Write
    <2> SUFFICES ASSUME NEW g \in Promised PROVE Awaited(g)' \/ Current(g)'
        BY DEF LostInv, Promised, Skipped
    <2>1. shown' = got /\ pc' \in {"collect", "check"} /\ pc = "eval"
        BY <1>11 DEF Write, Verdict
    <2>2. Awaited(g) => Awaited(g)'
        BY <1>11, <2>1 DEF Write, Event, Awaited, InChannel, Ended
    <2>3. Current(g) => Current(g)'
        BY <1>11, <2>1 DEF Write, Current, Rendering, Shown
    <2> QED
        BY <2>2, <2>3 DEF LostInv
<1>12. CASE Ended'
    BY <1>12 DEF LostInv, Awaited
<1>13. CASE WatchFails
    BY <1>12, <1>13 DEF WatchFails, Ended
<1>14. CASE Check
    <2>1. CASE stop
        BY <1>12, <1>14, <2>1 DEF Check, Ended
    <2>2. CASE ~stop
        BY <1>1, <1>14, <2>2 DEF Check, watcher, Rendering, Ended
    <2> QED
        BY <2>1, <2>2
<1>15. CASE Receive
    <2> SUFFICES ASSUME NEW g \in Promised PROVE Awaited(g)' \/ Current(g)'
        BY DEF LostInv, Promised, Skipped
    <2>1. /\ pc = "recv" /\ channel' = Tail(channel)
          /\ UNCHANGED <<file, noticed, blind, shown>>
        BY <1>15 DEF Receive
    <2>2. CASE ~(Head(channel).error \/ Changed(Head(channel).files) = {})
        <3>1. pc' = "load" /\ got' = [f \in Files |-> Unread]
            BY <1>15, <2>2 DEF Receive
        <3> QED
            BY <3>1, PromisedFiles DEF Current, Rendering
    <2>3. CASE Head(channel).error \/ Changed(Head(channel).files) = {}
        <3>1. pc' = "check"
            BY <1>15, <2>3 DEF Receive
        <3>2. CASE Current(g)
            BY <2>1, <3>1, <3>2 DEF Current, Rendering, Shown
        <3>3. /\ \A i \in 1..Len(channel) :
                    \/ channel[i] = Head(channel)
                    \/ \E j \in 1..Len(channel') : channel'[j] = channel[i]
              /\ Head(channel).error => Head(channel).files = {}
            BY <1>15, <2>1, TakenType DEF Receive, LoopInv, TypeOK
        <3>4. g \notin Head(channel).files
            <4>1. CASE Head(channel).error
                BY <3>3, <4>1
            <4>2. CASE Changed(Head(channel).files) = {}
                <5>1. g \in Files /\ g \in Relevant /\ ~Skipped(DirOf[g]) /\ g # Manifests
                    BY PromisedFiles, DevAssumption
                <5> QED
                    BY <4>2, <5>1 DEF Changed, PlaceOf
            <4> QED
                BY <2>3, <4>1, <4>2
        <3>5. InChannel(g) => InChannel(g)'
            BY <3>3, <3>4 DEF InChannel
        <3>6. Awaited(g) => Awaited(g)'
            BY <2>1, <3>5 DEF Awaited, Ended
        <3> QED
            BY <3>2, <3>6 DEF LostInv
    <2> QED
        BY <2>2, <2>3
<1>16. CASE UNCHANGED vars
    BY <1>1, <1>16 DEF vars, loop, watcher, Rendering, Ended
<1> QED
    BY <1>2, <1>4, <1>5, <1>6, <1>7, <1>8, <1>9, <1>10, <1>11, <1>13, <1>14, <1>15, <1>16
       DEF Next, Author, Loop, Render, Setup

(* Where event paths begin with the path of the workspace, no edit of a    *)
(* watched file is lost (the debouncer and the channel of                  *)
(* watch_and_render), for any files, directories, edits and errors.        *)
THEOREM NoEditIsLost == Rooted => (Spec => []NothingLost)
<1>1. Init => LostInv
    BY PromisedFiles DEF Init, LostInv, Current, Rendering
<1>2. Rooted /\ Spec => []NothingLost
    <2>1. Rooted => (LoopInv /\ LostInv /\ [Next]_vars => LostInv')
        BY LostNext
    <2> SUFFICES ASSUME Rooted PROVE Spec => []NothingLost
        OBVIOUS
    <2>2. LoopInv /\ LostInv /\ [Next]_vars => LostInv'
        BY <2>1
    <2> QED
        BY InitLoop, LoopNext, <1>1, <2>2, LostIsEnough, PTL DEF Spec
<1> QED
    BY <1>2
=============================================================================
