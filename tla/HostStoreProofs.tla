--------------------------- MODULE HostStoreProofs ---------------------------
(***************************************************************************)
(* Proofs that the configuration on the disk is whole and agrees with the  *)
(* session that is served, that abnormal ends are counted, and that only   *)
(* the oldest lines of the log are lost, for any monitors, any number of   *)
(* changes, kills and failing calls and any size of the files.             *)
(***************************************************************************)
EXTENDS HostStore, SequenceTheorems, TLAPS

\* The part of TypeOK that is about the configuration.
StoreTyped ==
    /\ file \in Config \cup {NoFile, Torn}
    /\ temp \in [Savers -> Config \cup {NoFile, Torn}]
    /\ saving \in [Savers -> {"no", "open", "write", "move", "saved", "failed"}]
    /\ change \in Config /\ memory \in Config /\ config \in Config

\* A thread saves only where its code calls Save, and what it is about to move
\* over the file is what it was asked to save.
SavesInPlace ==
    /\ ui \notin {"defaults", "save"} => saving[Window] = "no"
    /\ accept # "save" => saving[Accept] = "no"
    /\ saving[Window] = "move" => temp[Window] = IF ui = "defaults" THEN Default ELSE change
    /\ saving[Accept] = "move" => temp[Accept] = config

\* The accept thread lives only between the start and the join of a stop.
AcceptLives ==
    /\ accept # "off" => ui \in {"idle", "save", "stop", "exit"}
    /\ accept # "off" /\ ui \in {"idle", "save"} => running
    /\ ui = "begin" => running

\* A change of the user's has replaced the file, and the server is being stopped
\* or is about to be.
Overtaken == ui = "stop" \/ (ui = "save" /\ saving[Window] = "saved")

\* Unless it has been overtaken, what the accept thread saved is on the disk.
SavedStays ==
    /\ accept = "served" => config = memory
    /\ ~Overtaken /\ (accept = "served" \/ saving[Accept] = "saved") => file = config

\* What every step keeps.
HostInv == StoreTyped /\ SavesInPlace /\ AcceptLives /\ SavedStays /\ file # Torn
-----------------------------------------------------------------------------
\* Init establishes the invariant.
LEMMA HostStarts == Init => HostInv
BY SaversAssumption, StoreAssumption
   DEF Init, StoreInit, HostInv, StoreTyped, SavesInPlace, AcceptLives, SavedStays, Overtaken, Config, Default

\* A step of WriteAtomic keeps it, whichever thread takes it and whatever fails.
LEMMA SavingKeeps == HostInv /\ Saving => HostInv'
<1> SUFFICES ASSUME HostInv, Saving PROVE HostInv'
    OBVIOUS
<1> USE SaversAssumption, StoreAssumption DEF HostInv
<1>0. UNCHANGED <<ui, change, memory, running, accept, config>>
    BY DEF Saving, hostVars
<1>d. Default \in Config
    BY DEF Default, Config
<1>1. CASE WriteAtomic(Window, IF ui = "defaults" THEN Default ELSE change)
    <2> DEFINE c == IF ui = "defaults" THEN Default ELSE change
    <2>0. c \in Config
        BY <1>d DEF StoreTyped
    <2>1. saving[Window] # "no" => ui \in {"defaults", "save"}
        BY DEF SavesInPlace
    <2>2. saving'[Accept] = saving[Accept] /\ temp'[Accept] = temp[Accept]
        BY <1>1 DEF WriteAtomic, OpenTemporary, Replace, StoreTyped
    <2>3. /\ file' = file \/ (file' = c /\ saving'[Window] = "saved")
          /\ saving'[Window] = "move" => temp'[Window] = c
          /\ saving[Window] \notin {"no", "saved"}
        BY <1>1, <2>0 DEF WriteAtomic, OpenTemporary, Replace, StoreTyped, SavesInPlace
    <2>4. StoreTyped'
        BY <1>0, <1>1, <2>0, <2>3 DEF WriteAtomic, OpenTemporary, Replace, StoreTyped
    <2>5. SavesInPlace' /\ AcceptLives'
        BY <1>0, <2>1, <2>2, <2>3 DEF SavesInPlace, AcceptLives
    <2>6. SavedStays'
        BY <1>0, <2>1, <2>2, <2>3 DEF SavedStays, Overtaken, AcceptLives, SavesInPlace
    <2>7. file' # Torn
        BY <2>0, <2>3
    <2> QED
        BY <2>4, <2>5, <2>6, <2>7
<1>2. CASE WriteAtomic(Accept, config)
    <2>1. saving'[Window] = saving[Window] /\ temp'[Window] = temp[Window]
        BY <1>2 DEF WriteAtomic, OpenTemporary, Replace, StoreTyped
    <2>2. /\ (file' = file /\ saving'[Accept] # "saved") \/ file' = config
          /\ saving'[Accept] = "move" => temp'[Accept] = config
          /\ accept = "save"
        BY <1>2 DEF WriteAtomic, OpenTemporary, Replace, StoreTyped, SavesInPlace
    <2>3. StoreTyped'
        BY <1>0, <1>2, <2>2 DEF WriteAtomic, OpenTemporary, Replace, StoreTyped
    <2>4. SavesInPlace' /\ AcceptLives'
        BY <1>0, <2>1, <2>2 DEF SavesInPlace, AcceptLives
    <2>5. SavedStays'
        BY <1>0, <2>1, <2>2 DEF SavedStays, Overtaken
    <2>6. file' # Torn
        BY <2>2 DEF StoreTyped
    <2> QED
        BY <2>3, <2>4, <2>5, <2>6
<1> QED
    BY <1>1, <1>2 DEF Saving

\* The steps of the window's thread keep it.
LEMMA WindowKeeps ==
    ASSUME HostInv,
           \/ Launch \/ DefaultsSaved \/ Start \/ BeginRunSteps \/ Started
           \/ Change \/ ChangeSaved \/ Exit \/ StopJoins \/ Apply
    PROVE  HostInv'
<1> USE SaversAssumption, StoreAssumption
    DEF HostInv, StoreTyped, SavesInPlace, AcceptLives, SavedStays, Overtaken
<1>d. Default \in Config
    BY DEF Default, Config
<1>1. CASE Launch
    BY <1>1, <1>d DEF Launch, Load, SaveBegins, storeVars
<1>2. CASE DefaultsSaved
    BY <1>2 DEF DefaultsSaved, SaveEnds
<1>3. CASE Start
    BY <1>3 DEF Start, storeVars
<1>4. CASE BeginRunSteps \/ Started
    BY <1>4 DEF BeginRunSteps, Started, Disk, hostVars, storeVars
<1>5. CASE Change
    <2>1. change' \in Config
        BY <1>5 DEF Change, Config
    <2> QED
        BY <1>5, <2>1 DEF Change, SaveBegins
<1>6. CASE ChangeSaved
    BY <1>6 DEF ChangeSaved, SaveEnds
<1>7. CASE Exit \/ Apply
    BY <1>7 DEF Exit, Apply, Disk, storeVars
<1>8. CASE StopJoins
    BY <1>8 DEF StopJoins, storeVars
<1> QED
    BY <1>1, <1>2, <1>3, <1>4, <1>5, <1>6, <1>7, <1>8

\* The steps of the accept thread and of the session keep it, and so does a kill.
LEMMA AcceptKeeps ==
    ASSUME HostInv,
           Connect \/ HandshakeFails \/ ChooseMonitor \/ Established \/ SessionEnds \/ Log \/ Crash
    PROVE  HostInv'
<1> USE SaversAssumption, StoreAssumption
    DEF HostInv, StoreTyped, SavesInPlace, AcceptLives, SavedStays, Overtaken
<1>1. CASE Connect \/ HandshakeFails \/ SessionEnds
    BY <1>1 DEF Connect, HandshakeFails, SessionEnds, Disk, storeVars
<1>2. CASE ChooseMonitor
    <2>1. config' \in Config
        BY <1>2 DEF ChooseMonitor, Config
    <2> QED
        BY <1>2, <2>1 DEF ChooseMonitor, SaveBegins
<1>3. CASE Established
    BY <1>3 DEF Established, SaveEnds
<1>4. CASE Log
    BY <1>4 DEF Log, hostVars, storeVars
<1>5. CASE Crash
    <2>1. change' \in Config /\ Default \in Config
        BY <1>5 DEF Crash, Config, Default
    <2> QED
        BY <1>5, <2>1 DEF Crash, StoreAbandoned
<1> QED
    BY <1>1, <1>2, <1>3, <1>4, <1>5

\* Every step keeps it.
LEMMA HostKeeps == HostInv /\ [Next]_vars => HostInv'
<1> SUFFICES ASSUME HostInv, [Next]_vars PROVE HostInv'
    OBVIOUS
<1>1. CASE UNCHANGED vars
    BY <1>1 DEF HostInv, StoreTyped, SavesInPlace, AcceptLives, SavedStays, Overtaken, vars, hostVars, storeVars
<1> QED
    BY <1>1, SavingKeeps, WindowKeeps, AcceptKeeps DEF Next

\* However the two threads' saves interleave, whichever call fails and wherever
\* the process is killed, the file is never half written, and a session that is
\* served while no change is made has the configuration of memory and disk.
THEOREM SettingsSafety == Spec => []SettingsAgree
<1>1. HostInv => SettingsAgree
    BY DEF HostInv, SavedStays, Overtaken, SettingsAgree
<1> QED
    BY HostStarts, HostKeeps, <1>1, PTL DEF Spec
-----------------------------------------------------------------------------
(* The count of abnormal ends. *)

\* The part of TypeOK that is about the marker.
MarkerTyped ==
    /\ marker \in BOOLEAN /\ active \in BOOLEAN
    /\ crashes \in Nat \cup {Emptied}
    /\ run \in [at : {"no", "empty", "mark", "markOnly", "flush", "begun"}, count : Nat]
    /\ ended \in Nat /\ incidents \in Nat

\* A run is begun and ended where Start and Stop do it.
RunInPlace ==
    /\ ui = "begin" => running
    /\ run.at # "no" => ui \in {"begin", "stop", "exit"} \/ (ui \in {"idle", "save"} /\ running)
    /\ run.at \notin {"no", "begun"} => ui = "begin"

\* What the marker adds to the count.
Marked == IF marker THEN 1 ELSE 0

\* Between runs the files say how many ended abnormally; while a run begins, it
\* knows; once it has begun, its marker stands for one more.
FilesCount ==
    certain =>
        /\ run.at \in {"no", "empty"} =>
              /\ ~active /\ crashes \in Nat
              /\ crashes + Marked = ended
        /\ run.at # "no" => run.count = ended
        /\ run.at # "markOnly"
        /\ run.at \in {"flush", "begun"} => marker /\ active
        /\ run.at \in {"mark", "flush"} => crashes = Emptied
        /\ run.at = "begun" => crashes = ended

CountInv == MarkerTyped /\ RunInPlace /\ FilesCount

\* The count is right at first.
LEMMA CountStarts == Init => CountInv
<1> SUFFICES ASSUME Init PROVE CountInv
    OBVIOUS
<1> USE DEF Init, TelemetryInit
<1>1. Marked = 0
    BY DEF Marked
<1>2. MarkerTyped /\ RunInPlace
    BY DEF MarkerTyped, RunInPlace
<1>3. FilesCount
    BY <1>1 DEF FilesCount
<1> QED
    BY <1>2, <1>3 DEF CountInv

\* BeginRun computes the count that the files stand for.
LEMMA BeginCounts ==
    ASSUME MarkerTyped
    PROVE  /\ CountFound(marker) \in Nat
           /\ crashes \in Nat => CountFound(marker) = crashes + Marked
BY TelemetryAssumption DEF MarkerTyped, CountFound, Marked

\* A run that begins reads the files, ...
LEMMA StartKeepsCount == CountInv /\ Start => CountInv'
<1> SUFFICES ASSUME CountInv, Start PROVE CountInv'
    OBVIOUS
<1> USE DEF CountInv
<1>1. UNCHANGED <<marker, crashes, active, ended, certain>> /\ Marked' = Marked
    BY DEF Start, BeginRun, markerVars, Marked
<1>2. run' = run \/ (run' = [at |-> "empty", count |-> CountFound(marker)] /\ running')
    BY DEF Start, BeginRun, markerVars
<1>3. run.at = "no" /\ ui' \in {"begin", "idle"} /\ (ui' = "idle" => run' = run)
      /\ (ui' = "begin" => running')
    BY DEF Start, BeginRun, RunInPlace, markerVars
<1>4. MarkerTyped'
    <2>1. incidents' \in Nat
        BY DEF Start, Smooth, Incident, MarkerTyped
    <2> QED
        BY <1>1, <1>2, <2>1, BeginCounts DEF MarkerTyped
<1>5. RunInPlace'
    BY <1>2, <1>3 DEF RunInPlace
<1>6. FilesCount'
    BY <1>1, <1>2, <1>3, BeginCounts DEF FilesCount
<1> QED
    BY <1>4, <1>5, <1>6

\* ... then writes them, and may fail to.
LEMMA BeginKeepsCount == CountInv /\ (BeginRunSteps \/ Started) => CountInv'
<1> SUFFICES ASSUME CountInv, BeginRunSteps \/ Started PROVE CountInv'
    OBVIOUS
<1> USE DEF CountInv
<1>1. CASE BeginRunSteps
    <2>1. run'.count = run.count /\ ended' = ended /\ ui = "begin" /\ ui' = "begin" /\ running' = running
        BY <1>1 DEF BeginRunSteps, RunSteps, MarkerTyped, hostVars
    <2>2. \/ run.at = "empty" /\ run'.at \in {"mark", "markOnly"} /\ UNCHANGED <<marker, active>>
          \/ run.at \in {"mark", "markOnly"} /\ run'.at \in {"flush", "begun"} /\ crashes' = crashes
          \/ run.at = "flush" /\ run'.at = "begun" /\ crashes' = run.count /\ UNCHANGED <<marker, active>>
        BY <1>1 DEF BeginRunSteps, RunSteps, MarkerTyped
    <2>3. MarkerTyped'
        <3>1. PICK place \in {"mark", "markOnly", "flush", "begun"} : run' = [run EXCEPT !.at = place]
            BY <1>1 DEF BeginRunSteps, RunSteps
        <3>2. run' \in [at : {"no", "empty", "mark", "markOnly", "flush", "begun"}, count : Nat]
            BY <3>1 DEF MarkerTyped
        <3>3. crashes' \in Nat \cup {Emptied} /\ incidents' \in Nat /\ ended' \in Nat
            BY <1>1 DEF BeginRunSteps, RunSteps, MarkerTyped, Incident, Smooth
        <3>4. marker' \in BOOLEAN /\ active' \in BOOLEAN
            <4>1. (marker' = marker /\ active' = active) \/ (marker' = TRUE /\ active' = TRUE)
                BY <1>1 DEF BeginRunSteps, RunSteps
            <4> QED
                BY <4>1 DEF MarkerTyped
        <3> QED
            BY <3>2, <3>3, <3>4 DEF MarkerTyped
    <2>4. RunInPlace'
        BY <2>1 DEF RunInPlace
    <2>5. ASSUME certain' PROVE certain /\ incidents' = incidents
        BY <2>5, <1>1 DEF BeginRunSteps
    <2>6. ASSUME certain'
          PROVE  \/ run.at = "empty" /\ run'.at = "mark" /\ crashes' = Emptied
                 \/ run.at = "mark" /\ run'.at = "flush" /\ marker' /\ active' /\ crashes' = crashes
                 \/ run.at = "flush" /\ run'.at = "begun" /\ crashes' = run.count /\ UNCHANGED <<marker, active>>
        BY <2>5, <2>6, <1>1 DEF BeginRunSteps, RunSteps, FilesCount, MarkerTyped, Incident, Smooth
    <2>7. FilesCount'
        BY <2>1, <2>5, <2>6 DEF FilesCount
    <2> QED
        BY <2>3, <2>4, <2>7
<1>2. CASE Started
    <2>1. UNCHANGED <<marker, crashes, active, run, ended, certain, running, incidents>> /\ ui' = "idle" /\ Marked' = Marked
        BY <1>2 DEF Started, Disk, telemetryVars, markerVars, Marked
    <2>2. run.at = "begun" => running
        BY <1>2 DEF Started, RunInPlace
    <2>3. MarkerTyped' /\ RunInPlace'
        BY <2>1, <2>2, <1>2 DEF MarkerTyped, RunInPlace, Started
    <2>4. FilesCount'
        BY <2>1 DEF FilesCount
    <2> QED
        BY <2>3, <2>4
<1> QED
    BY <1>1, <1>2

\* A run that ends, or is killed, leaves the files right.
LEMMA EndKeepsCount == CountInv /\ (StopJoins \/ Crash) => CountInv'
<1> SUFFICES ASSUME CountInv, StopJoins \/ Crash PROVE CountInv'
    OBVIOUS
<1> USE DEF CountInv
<1>1. CASE StopJoins
    <2>1. run' = [run EXCEPT !.at = "no"] /\ crashes' = crashes /\ ended' = ended /\ active' = FALSE
        BY <1>1 DEF StopJoins, EndRun
    <2>2. marker' = (marker /\ ~active) \/ marker' = marker
        BY <1>1 DEF StopJoins, EndRun
    <2>3. ui \in {"stop", "exit"} /\ ui' \in {"applyAndStart", "down"} /\ incidents' \in Nat
        BY <1>1 DEF StopJoins, EndRun, MarkerTyped, Incident, Smooth
    <2>4. marker' \in BOOLEAN
        BY <2>2 DEF MarkerTyped
    <2>5. MarkerTyped' /\ RunInPlace'
        BY <2>1, <2>3, <2>4 DEF MarkerTyped, RunInPlace
    <2>6. ASSUME certain' PROVE certain /\ marker' = FALSE
        BY <2>4, <2>6, <1>1 DEF StopJoins
    <2>7. ASSUME certain' PROVE crashes' \in Nat /\ crashes' + Marked' = ended'
        <3>1. run.at \in {"no", "begun"}
            BY <1>1, <2>3 DEF RunInPlace, MarkerTyped
        <3>2. Marked' = 0
            BY <2>6, <2>7 DEF Marked
        <3>3. CASE run.at = "begun"
            BY <2>1, <2>6, <2>7, <3>2, <3>3 DEF FilesCount, MarkerTyped
        <3>4. CASE run.at = "no"
            <4>1. marker = FALSE
                BY <2>2, <2>6, <2>7, <3>4 DEF FilesCount, MarkerTyped
            <4>2. Marked = 0
                BY <4>1 DEF Marked
            <4> QED
                BY <2>1, <2>6, <2>7, <3>2, <3>4, <4>2 DEF FilesCount, MarkerTyped
        <3> QED
            BY <3>1, <3>3, <3>4
    <2>8. FilesCount'
        BY <2>1, <2>7 DEF FilesCount, MarkerTyped
    <2> QED
        BY <2>5, <2>8
<1>2. CASE Crash
    <2>1. /\ run' = [at |-> "no", count |-> 0] /\ active' = FALSE /\ UNCHANGED <<marker, crashes, incidents>>
          /\ ended' = ended + (IF active THEN 1 ELSE 0)
          /\ ui' = "down" /\ Marked' = Marked
        BY <1>2 DEF Crash, TelemetryAbandoned, Marked
    <2>2. MarkerTyped' /\ RunInPlace'
        <3>1. ended' \in Nat
            <4>1. CASE active
                BY <2>1, <4>1 DEF MarkerTyped
            <4>2. CASE ~active
                BY <2>1, <4>2 DEF MarkerTyped
            <4> QED
                BY <4>1, <4>2
        <3>2. run' \in [at : {"no", "empty", "mark", "markOnly", "flush", "begun"}, count : Nat]
            BY <2>1
        <3>3. RunInPlace'
            BY <2>1 DEF RunInPlace
        <3>4. marker' \in BOOLEAN /\ active' \in BOOLEAN /\ crashes' \in Nat \cup {Emptied} /\ incidents' \in Nat
            BY <2>1 DEF MarkerTyped
        <3> QED
            BY <3>1, <3>2, <3>3, <3>4 DEF MarkerTyped
    <2>3. ASSUME certain' PROVE certain /\ crashes # Emptied
        BY <2>3, <1>2 DEF Crash
    <2>4. ASSUME certain' PROVE crashes \in Nat /\ crashes + Marked = ended'
        <3>1. run.at \in {"no", "empty", "begun"} /\ crashes \in Nat
            BY <2>3, <2>4 DEF FilesCount, MarkerTyped
        <3>2. CASE run.at = "begun"
            <4>1. marker /\ active /\ crashes = ended
                BY <2>3, <2>4, <3>2 DEF FilesCount
            <4>2. Marked = 1 /\ ended' = ended + 1
                BY <2>1, <4>1 DEF Marked
            <4> QED
                BY <3>1, <4>1, <4>2
        <3>3. CASE run.at \in {"no", "empty"}
            <4>1. ~active /\ crashes + Marked = ended
                BY <2>3, <2>4, <3>3 DEF FilesCount
            <4>2. ended' = ended + 0
                BY <2>1, <4>1
            <4> QED
                BY <3>1, <4>1, <4>2 DEF MarkerTyped
        <3> QED
            BY <3>1, <3>2, <3>3
    <2>5. FilesCount'
        BY <2>1, <2>4 DEF FilesCount
    <2> QED
        BY <2>2, <2>5
<1> QED
    BY <1>1, <1>2

\* Every step keeps the count.
LEMMA StepKeepsCount == CountInv /\ [Next]_vars => CountInv'
<1> SUFFICES ASSUME CountInv, [Next]_vars PROVE CountInv'
    OBVIOUS
<1>1. CASE \/ Launch \/ DefaultsSaved \/ Change \/ ChangeSaved \/ Exit \/ Apply
           \/ Connect \/ HandshakeFails \/ ChooseMonitor \/ Established \/ SessionEnds \/ Saving \/ Log
    <2>0. incidents' \in Nat
        BY <1>1 DEF CountInv, MarkerTyped, Launch, DefaultsSaved, Change, ChangeSaved, Exit, Apply, Connect,
                    HandshakeFails, ChooseMonitor, Established, SessionEnds, Saving, Log, Disk, Smooth,
                    Incident, WriteAtomic, WriteSteps
    <2>1. UNCHANGED <<markerVars, ended, certain>>
        BY <1>1 DEF Launch, DefaultsSaved, Change, ChangeSaved, Exit, Apply, Connect, HandshakeFails,
                    ChooseMonitor, Established, SessionEnds, Saving, Log, Disk, telemetryVars
    <2>2. RunInPlace'
        BY <1>1, <2>1 DEF CountInv, RunInPlace, Launch, DefaultsSaved, Change, ChangeSaved, Exit, Apply,
                    Connect, HandshakeFails, ChooseMonitor, Established, SessionEnds, Saving, Log,
                    hostVars, markerVars
    <2> QED
        BY <2>0, <2>1, <2>2 DEF CountInv, MarkerTyped, FilesCount, Marked, markerVars
<1>2. CASE UNCHANGED vars
    BY <1>2 DEF CountInv, MarkerTyped, RunInPlace, FilesCount, Marked, vars, hostVars, telemetryVars, markerVars
<1> QED
    BY <1>1, <1>2, StartKeepsCount, BeginKeepsCount, EndKeepsCount DEF Next

\* A run that has begun knows how many of those before it ended abnormally,
\* unless a file could not be written or a kill hit the moment in which the
\* count's file is empty.
THEOREM CrashCountSafety == Spec => []CrashCountRight
<1>1. CountInv => CrashCountRight
    BY DEF CountInv, FilesCount, CrashCountRight
<1> QED
    BY CountStarts, StepKeepsCount, <1>1, PTL DEF Spec
-----------------------------------------------------------------------------
(* The rest of the types. *)

LogTyped ==
    /\ log \in [Indices -> Seq(1 .. MaxLines)]
    /\ lines \in 0 .. MaxLines
    /\ rotating \in Indices

PlacesTyped ==
    /\ ui \in {"down", "defaults", "start", "begin", "idle", "save", "stop", "exit", "apply", "applyAndStart"}
    /\ running \in BOOLEAN /\ certain \in BOOLEAN
    /\ accept \in {"off", "idle", "handshake", "save", "served", "unsaved"}
    /\ ended \in 0 .. MaxCrashes /\ incidents \in 0 .. MaxIncidents

\* A file that lost its lines to the next one is empty.
LEMMA EmptyFile == <<>> \in Seq(1 .. MaxLines) /\ Len(<<>>) = 0
BY EmptySeq

\* The line that is written goes to the end of the current file.
LEMMA LineAppended ==
    ASSUME NEW s \in Seq(1 .. MaxLines), lines \in 0 .. MaxLines, lines < MaxLines
    PROVE  /\ Append(s, lines + 1) \in Seq(1 .. MaxLines)
           /\ Len(Append(s, lines + 1)) = Len(s) + 1
           /\ DOMAIN s = 1 .. Len(s) /\ DOMAIN Append(s, lines + 1) = 1 .. Len(s) + 1
           /\ \A k \in 1 .. Len(s) : Append(s, lines + 1)[k] = s[k]
           /\ Append(s, lines + 1)[Len(s) + 1] = lines + 1
<1>1. lines + 1 \in 1 .. MaxLines
    BY TelemetryAssumption
<1>2. Append(s, lines + 1) \in Seq(1 .. MaxLines) /\ Len(Append(s, lines + 1)) = Len(s) + 1
    BY <1>1, AppendProperties
<1> QED
    BY <1>1, <1>2, AppendProperties, LenProperties

\* The indices of the files.
LEMMA Files == 0 \in Indices /\ Kept \in Indices /\ \A i \in Indices \ {0} : i - 1 \in Indices /\ i - 1 # i
BY TelemetryAssumption DEF Indices

\* What a write does to the log: a line at the end of the current file, the
\* beginning of a rotation, a file that moves up, or a rotation that is given up.
LEMMA WriteOutcomes ==
    ASSUME LogTyped, WriteSteps
    PROVE  \/ /\ lines < MaxLines /\ lines' = lines + 1 /\ rotating = 0 /\ rotating' = 0 /\ ~Full
              /\ log' = [log EXCEPT ![0] = Append(log[0], lines + 1)]
           \/ UNCHANGED <<log, lines>> /\ rotating = 0 /\ rotating' = Kept /\ Full
           \/ /\ rotating > 0 /\ log' = Shift(rotating) /\ rotating' = rotating - 1 /\ lines' = lines
           \/ /\ rotating > 0 /\ rotating' = 0 /\ lines < MaxLines /\ lines' = lines + 1 /\ Incident
              /\ \/ log' = [log EXCEPT ![0] = Append(log[0], lines + 1)]
                 \/ log' = [log EXCEPT ![rotating] = <<>>, ![0] = Append(log[0], lines + 1)]
<1>1. CASE ~Full /\ rotating = 0 /\ Line /\ Smooth
    BY <1>1 DEF Line
<1>2. CASE /\ Full /\ rotating = 0 /\ lines < MaxLines
           /\ rotating' = Kept /\ Smooth /\ UNCHANGED <<log, lines>>
    BY <1>2
<1>3. CASE /\ rotating > 0 /\ Smooth
           /\ log' = Shift(rotating) /\ rotating' = rotating - 1 /\ UNCHANGED lines
    BY <1>3
<1>4. CASE /\ rotating > 0 /\ Incident /\ lines < MaxLines
           /\ \E removed \in BOOLEAN :
                 LET left == IF removed THEN [log EXCEPT ![rotating] = <<>>] ELSE log
                 IN  log' = [left EXCEPT ![0] = Append(@, lines + 1)]
           /\ lines' = lines + 1 /\ rotating' = 0
    <2>1. rotating \in Indices /\ rotating # 0
        BY <1>4 DEF LogTyped
    <2>2. \/ log' = [log EXCEPT ![0] = Append(log[0], lines + 1)]
          \/ log' = [log EXCEPT ![rotating] = <<>>, ![0] = Append(log[0], lines + 1)]
        BY <1>4, <2>1, Files DEF LogTyped
    <2> QED
        BY <1>4, <2>2
<1> QED
    BY <1>1, <1>2, <1>3, <1>4 DEF WriteSteps

\* Every step keeps the types of the log, ...
LEMMA LogTypedKept == LogTyped /\ [Next]_vars => LogTyped'
<1> SUFFICES ASSUME LogTyped, [Next]_vars PROVE LogTyped'
    OBVIOUS
<1>1. CASE Log
    <2> USE DEF LogTyped
    <2>0. WriteSteps
        BY <1>1 DEF Log
    <2>1. log[0] \in Seq(1 .. MaxLines)
        BY Files
    <2>2. lines < MaxLines => Append(log[0], lines + 1) \in Seq(1 .. MaxLines) /\ lines + 1 \in 0 .. MaxLines
        BY <2>1, LineAppended, TelemetryAssumption
    <2>3. lines' \in 0 .. MaxLines /\ rotating' \in Indices
        BY <2>0, <2>2, WriteOutcomes, Files
    <2>4. log' \in [Indices -> Seq(1 .. MaxLines)]
        <3>1. CASE rotating > 0 /\ log' = Shift(rotating)
            <4>1. rotating \in Indices \ {0}
                BY <3>1
            <4> QED
                BY <3>1, <4>1, Files, EmptyFile DEF Shift
        <3> QED
            BY <2>0, <2>1, <2>2, <3>1, WriteOutcomes, Files, EmptyFile
    <2> QED
        BY <2>3, <2>4
<1>2. CASE UNCHANGED <<log, lines>> /\ (rotating' = rotating \/ rotating' = 0)
    BY <1>2, Files DEF LogTyped
<1> QED
    BY <1>1, <1>2 DEF Next, vars, Launch, DefaultsSaved, Start, BeginRunSteps, Started, Change, ChangeSaved, Exit,
        StopJoins, Apply, Connect, HandshakeFails, ChooseMonitor, Established, SessionEnds, Saving, Crash,
        TelemetryAbandoned, Disk, telemetryVars, logVars

\* ... and those of the places, the ghosts and the counters.
LEMMA PlacesKept == PlacesTyped /\ MarkerTyped /\ [Next]_vars => PlacesTyped'
<1> SUFFICES ASSUME PlacesTyped, MarkerTyped, [Next]_vars PROVE PlacesTyped'
    OBVIOUS
<1> USE DEF PlacesTyped
<1>1. incidents' = incidents \/ Incident
    BY DEF Next, vars, Launch, DefaultsSaved, Start, BeginRunSteps, RunSteps, Started, Change, ChangeSaved, Exit,
        StopJoins, EndRun, Apply, Connect, HandshakeFails, ChooseMonitor, Established, SessionEnds, Saving, WriteAtomic,
        Log, WriteSteps, Crash, Disk, Smooth
<1>2. incidents' \in 0 .. MaxIncidents
    BY <1>1, IncidentsAssumption DEF Incident
<1>3. ended' \in 0 .. MaxCrashes
    <2>1. CASE Crash
        BY <2>1, CrashesAssumption DEF Crash
    <2> QED
        BY <2>1 DEF Next, vars, Launch, DefaultsSaved, Start, BeginRunSteps, Started, Change, ChangeSaved, Exit,
            StopJoins, Apply, Connect, HandshakeFails, ChooseMonitor, Established, SessionEnds, Saving, Log, Disk
<1>4. certain' \in BOOLEAN
    <2>1. certain' = certain \/ certain' = (certain /\ incidents' = incidents) \/ certain' = (certain /\ ~marker')
             \/ certain' = (certain /\ crashes # Emptied)
        BY DEF Next, vars, Launch, DefaultsSaved, Start, BeginRunSteps, Started, Change, ChangeSaved, Exit,
            StopJoins, Apply, Connect, HandshakeFails, ChooseMonitor, Established, SessionEnds, Saving, Log, Crash, Disk
    <2> QED
        BY <2>1
<1>5. running' \in BOOLEAN
    <2>1. running' = running \/ running' = TRUE \/ running' = FALSE \/ running' = (running /\ ui' # "stop")
        BY DEF Next, vars, hostVars, Launch, DefaultsSaved, Start, BeginRunSteps, Started, Change, ChangeSaved, Exit,
            StopJoins, Apply, Connect, HandshakeFails, ChooseMonitor, Established, SessionEnds, Saving, Log, Crash
    <2> QED
        BY <2>1
<1>6. /\ ui' \in {"down", "defaults", "start", "begin", "idle", "save", "stop", "exit", "apply", "applyAndStart"}
      /\ accept' \in {"off", "idle", "handshake", "save", "served", "unsaved"}
    BY DEF Next, vars, hostVars, Launch, DefaultsSaved, Start, BeginRunSteps, Started, Change, ChangeSaved, Exit,
        StopJoins, Apply, Connect, HandshakeFails, ChooseMonitor, Established, SessionEnds, Saving, Log, Crash
<1> QED
    BY <1>2, <1>3, <1>4, <1>5, <1>6

\* The types are right at first.
LEMMA TypedAtFirst == Init => LogTyped /\ PlacesTyped
<1> SUFFICES ASSUME Init PROVE LogTyped /\ PlacesTyped
    OBVIOUS
<1>1. LogTyped
    BY EmptyFile, Files, TelemetryAssumption DEF Init, TelemetryInit, LogTyped
<1>2. PlacesTyped
    <2>1. ended = 0 /\ incidents = 0 /\ ui = "down" /\ accept = "off" /\ running = FALSE /\ certain = TRUE
        BY DEF Init
    <2>2. ended \in 0 .. MaxCrashes /\ incidents \in 0 .. MaxIncidents
        BY <2>1, CrashesAssumption, IncidentsAssumption
    <2>3. running \in BOOLEAN /\ certain \in BOOLEAN
        BY <2>1
    <2> QED
        BY <2>1, <2>2, <2>3 DEF PlacesTyped
<1> QED
    BY <1>1, <1>2

\* Type correctness of the two files, the log and the threads that use them,
\* whichever call fails and wherever the process is killed.
THEOREM HostTyped == Spec => []TypeOK
<1>2. HostInv /\ CountInv /\ LogTyped /\ PlacesTyped => TypeOK
    <2> SUFFICES ASSUME HostInv, CountInv, LogTyped, PlacesTyped PROVE TypeOK
        OBVIOUS
    <2>1. StoreTypeOK /\ change \in Config /\ memory \in Config /\ config \in Config
        BY DEF HostInv, StoreTyped, StoreTypeOK
    <2>2. TelemetryTypeOK
        BY DEF CountInv, MarkerTyped, LogTyped, TelemetryTypeOK
    <2> QED
        BY <2>1, <2>2 DEF PlacesTyped, TypeOK
<1>3. HostInv /\ CountInv /\ LogTyped /\ PlacesTyped /\ [Next]_vars => (HostInv /\ CountInv /\ LogTyped /\ PlacesTyped)'
    BY HostKeeps, StepKeepsCount, LogTypedKept, PlacesKept DEF CountInv
<1> QED
    BY TypedAtFirst, <1>2, <1>3, HostStarts, CountStarts, PTL DEF Spec
-----------------------------------------------------------------------------
(* The log. *)

\* The files have their lines in order, an older file older ones.
InOrder ==
    \A i, j \in Indices : \A k \in DOMAIN log[i], m \in DOMAIN log[j] :
        i > j \/ (i = j /\ k < m) => log[i][k] < log[j][m]

\* No line is missing after one that can be read.
NoGap == \A n \in Readable : n .. lines \subseteq Readable

\* A file has nothing but lines that were written.
Written == \A i \in Indices : \A k \in DOMAIN log[i] : log[i][k] \in 1 .. lines

\* The file that the rotation is about to replace is the oldest one, or empty.
OldestGoes == rotating \in 1 .. Kept - 1 => log[rotating] = <<>>

LogInv == InOrder /\ NoGap /\ Written /\ OldestGoes

\* The lines of a file are numbers, in its positions.
LEMMA LineNumbers ==
    ASSUME LogTyped, NEW i \in Indices
    PROVE  /\ DOMAIN log[i] = 1 .. Len(log[i]) /\ Len(log[i]) \in Nat
           /\ \A k \in DOMAIN log[i] : log[i][k] \in 1 .. MaxLines
<1>1. log[i] \in Seq(1 .. MaxLines)
    BY DEF LogTyped
<1>2. Len(log[i]) \in Nat /\ log[i] \in [1 .. Len(log[i]) -> 1 .. MaxLines]
    BY <1>1, LenProperties
<1> QED
    BY <1>2

\* A line at the end of the current file leaves the log in order, also when the
\* file at index r, the oldest one or an empty one, has just been removed.
LEMMA LineKeepsLog ==
    ASSUME LogTyped, LogInv, lines < MaxLines, lines' = lines + 1, rotating' = 0,
           NEW r \in Indices \ {0}, r = Kept \/ log[r] = <<>>,
           NEW removed \in BOOLEAN,
           log' = [log EXCEPT ![r] = IF removed THEN <<>> ELSE log[r], ![0] = Append(log[0], lines + 1)]
    PROVE  LogInv'
<1> DEFINE grown == Append(log[0], lines + 1)
<1> USE DEF LogInv
<1>t. log \in [Indices -> Seq(1 .. MaxLines)] /\ lines \in Nat /\ 0 \in Indices /\ r # 0 /\ Indices \subseteq Nat
    BY Files, TelemetryAssumption DEF LogTyped, Indices
<1>1. /\ DOMAIN log[0] = 1 .. Len(log[0]) /\ Len(log[0]) \in Nat /\ DOMAIN grown = 1 .. Len(log[0]) + 1
      /\ \A k \in 1 .. Len(log[0]) : grown[k] = log[0][k]
      /\ grown[Len(log[0]) + 1] = lines + 1
    BY <1>t, LineAppended, LineNumbers DEF LogTyped
<1>2. log'[0] = grown /\ \A i \in Indices \ {0} : log'[i] = log[i] \/ (i = r /\ log'[i] = <<>>)
    BY <1>t
<1>3. DOMAIN <<>> = {}
    OBVIOUS
<1>4. ASSUME NEW i \in Indices, NEW k \in DOMAIN log'[i]
      PROVE  \/ k \in DOMAIN log[i] /\ log'[i][k] = log[i][k] /\ log[i][k] \in 1 .. lines
             \/ i = 0 /\ k = Len(log[0]) + 1 /\ log'[i][k] = lines + 1
    <2>1. CASE i = 0
        <3>1. k \in 1 .. Len(log[0]) + 1 /\ log'[i][k] = grown[k]
            BY <1>1, <1>2, <1>4, <2>1
        <3>2. k \in DOMAIN log[0] \/ k = Len(log[0]) + 1
            BY <3>1, <1>1
        <3> QED
            BY <3>1, <3>2, <1>1, <1>t, <2>1 DEF Written
    <2>2. CASE i # 0
        BY <1>2, <1>3, <1>4, <2>2 DEF Written
    <2> QED
        BY <2>1, <2>2
<1>5. InOrder'
    <2> SUFFICES ASSUME NEW i \in Indices, NEW j \in Indices, NEW k \in DOMAIN log'[i], NEW m \in DOMAIN log'[j],
                        i > j \/ (i = j /\ k < m)
                 PROVE  log'[i][k] < log'[j][m]
        BY DEF InOrder, Indices
    <2>1. CASE k \in DOMAIN log[i] /\ log'[i][k] = log[i][k] /\ log[i][k] \in 1 .. lines
        <3>1. CASE m \in DOMAIN log[j] /\ log'[j][m] = log[j][m]
            BY <2>1, <3>1 DEF InOrder
        <3>2. CASE log'[j][m] = lines + 1
            BY SMTT(30), <1>t, <2>1, <3>2
        <3> QED
            BY <1>4, <3>1, <3>2
    <2>2. CASE i = 0 /\ k = Len(log[0]) + 1
        <3>1. j = 0 /\ k < m
            BY <2>2, <1>t
        <3>2. m \in 1 .. Len(log[0]) + 1
            BY <3>1, <1>1, <1>2
        <3> QED
            BY <2>2, <3>1, <3>2, <1>1
    <2> QED
        BY <1>4, <2>1, <2>2
<1>6. Written'
    <2> SUFFICES ASSUME NEW i \in Indices, NEW k \in DOMAIN log'[i] PROVE log'[i][k] \in 1 .. lines'
        BY DEF Written, Indices
    <2> QED
        BY <1>4, <1>t
<1>7. NoGap'
    <2> SUFFICES ASSUME NEW n \in Readable', NEW m \in n .. lines' PROVE m \in Readable'
        BY DEF NoGap
    <2>1. PICK i \in Indices : \E k \in DOMAIN log'[i] : log'[i][k] = n
        BY DEF Readable, Indices
    <2>1a. PICK k \in DOMAIN log'[i] : log'[i][k] = n
        BY <2>1
    <2>2. n \in 1 .. lines + 1 /\ m \in 1 .. lines + 1
        BY <1>t DEF Readable
    <2>3. CASE m = lines + 1
        BY <1>1, <1>2, <1>t, <2>2, <2>3 DEF Readable, Indices
    <2>4. CASE m # lines + 1
        <3>1. m \in 1 .. lines /\ n \in 1 .. lines
            BY <2>2, <2>4, <1>t
        <3>2. k \in DOMAIN log[i] /\ log[i][k] = n
            BY <1>4, <2>1a, <3>1, <1>t
        <3>3. n \in Readable
            BY <3>1, <3>2 DEF Readable
        <3>4. m \in Readable
            BY <3>1, <3>3, <1>t DEF NoGap
        <3>5. PICK j \in Indices : \E h \in DOMAIN log[j] : log[j][h] = m
            BY <3>4 DEF Readable
        <3>5a. PICK h \in DOMAIN log[j] : log[j][h] = m
            BY <3>5
        <3>6. CASE log'[j] = log[j]
            BY <3>1, <3>5a, <3>6, <2>2, <1>t DEF Readable, Indices
        <3>7. CASE j = 0
            <4>1. h \in 1 .. Len(log[0]) /\ log[0][h] = m
                BY <3>5a, <3>7, <1>1
            <4>2. grown[h] = m /\ h \in DOMAIN grown
                BY <4>1, <1>1
            <4>3. log'[0][h] = m /\ h \in DOMAIN log'[0]
                BY <4>2, <1>2
            <4> QED
                BY <4>3, <2>2, <1>t DEF Readable, Indices
        <3>8. CASE j = r /\ log'[r] = <<>>
            <4>1. r = Kept
                BY <3>5a, <3>8, <1>3
            <4>2. i # r
                BY <2>1a, <3>8, <1>3
            <4>3. j > i
                BY <4>1, <4>2, <3>8, TelemetryAssumption DEF Indices
            <4>4. m < n
                BY <3>2, <3>5a, <4>3 DEF InOrder
            <4> QED
                BY <4>4, <2>2, <1>t
        <3> QED
            BY <3>6, <3>7, <3>8, <1>2
    <2> QED
        BY <2>3, <2>4
<1>8. OldestGoes'
    BY TelemetryAssumption DEF OldestGoes
<1> QED
    BY <1>5, <1>6, <1>7, <1>8

\* A file that moves up leaves the log in order.
LEMMA ShiftKeepsLog ==
    ASSUME LogTyped, LogInv, rotating > 0, log' = Shift(rotating), rotating' = rotating - 1, lines' = lines
    PROVE  LogInv'
<1> DEFINE r == rotating
<1> USE DEF LogInv
<1>t. /\ log \in [Indices -> Seq(1 .. MaxLines)] /\ lines \in Nat /\ 0 \in Indices /\ Indices \subseteq Nat
      /\ r \in Indices \ {0} /\ r - 1 \in Indices /\ r - 1 # r /\ r \in 1 .. Kept
    BY Files, TelemetryAssumption DEF LogTyped, Indices
<1>1. log'[r] = log[r - 1] /\ log'[r - 1] = <<>> /\ \A i \in Indices \ {r, r - 1} : log'[i] = log[i]
    BY <1>t DEF Shift
<1>2. DOMAIN <<>> = {}
    OBVIOUS
<1>3. ASSUME NEW i \in Indices, NEW k \in DOMAIN log'[i]
      PROVE  \E p \in Indices : p = (IF i = r THEN r - 1 ELSE i) /\ p # r /\ log'[i] = log[p]
    BY <1>t, <1>1, <1>2, <1>3
<1>4. InOrder'
    <2> SUFFICES ASSUME NEW i \in Indices, NEW j \in Indices, NEW k \in DOMAIN log'[i], NEW m \in DOMAIN log'[j],
                        i > j \/ (i = j /\ k < m)
                 PROVE  log'[i][k] < log'[j][m]
        BY DEF InOrder, Indices
    <2>1. PICK p \in Indices : p = (IF i = r THEN r - 1 ELSE i) /\ p # r /\ log'[i] = log[p]
        BY <1>3
    <2>2. PICK q \in Indices : q = (IF j = r THEN r - 1 ELSE j) /\ q # r /\ log'[j] = log[q]
        BY <1>3
    <2>3. i # r - 1 /\ j # r - 1
        BY <1>1, <1>2
    <2>4. p > q \/ (p = q /\ k < m)
        BY <2>1, <2>2, <2>3, <1>t
    <2> QED
        BY <2>1, <2>2, <2>4 DEF InOrder
<1>5. Written'
    <2> SUFFICES ASSUME NEW i \in Indices, NEW k \in DOMAIN log'[i] PROVE log'[i][k] \in 1 .. lines
        BY DEF Written, Indices
    <2> QED
        BY <1>3 DEF Written
<1>6. NoGap'
    <2> SUFFICES ASSUME NEW n \in Readable', NEW m \in n .. lines PROVE m \in Readable'
        BY DEF NoGap
    <2>1. PICK i \in Indices : \E k \in DOMAIN log'[i] : log'[i][k] = n
        BY DEF Readable, Indices
    <2>1a. PICK k \in DOMAIN log'[i] : log'[i][k] = n
        BY <2>1
    <2>2. PICK p \in Indices : p # r /\ log'[i] = log[p]
        BY <1>3, <2>1a
    <2>3. n \in 1 .. lines /\ m \in 1 .. lines
        BY <1>t DEF Readable
    <2>4. m \in Readable
        BY <2>1a, <2>2, <2>3 DEF Readable, NoGap
    <2>5. PICK q \in Indices : \E h \in DOMAIN log[q] : log[q][h] = m
        BY <2>4 DEF Readable
    <2>5a. PICK h \in DOMAIN log[q] : log[q][h] = m
        BY <2>5
    <2>6. q # r
        <3> SUFFICES ASSUME q = r PROVE FALSE
            OBVIOUS
        <3>1. r = Kept
            BY <2>5a, <1>2, <1>t, TelemetryAssumption DEF OldestGoes
        <3>2. q > p
            BY <3>1, <2>2, TelemetryAssumption DEF Indices
        <3>3. m < n
            BY <3>2, <2>1a, <2>2, <2>5a DEF InOrder
        <3> QED
            BY <3>3, <2>3, <1>t
    <2>7. PICK u \in Indices : log'[u] = log[q]
        BY <2>6, <1>1, <1>t
    <2> QED
        BY <2>3, <2>5a, <2>7 DEF Readable, Indices
<1>7. OldestGoes'
    BY <1>1, <1>t DEF OldestGoes
<1> QED
    BY <1>4, <1>5, <1>6, <1>7

\* Every step keeps the log in order.
LEMMA LogKeeps == LogTyped /\ LogInv /\ [Next]_vars => LogInv'
<1> SUFFICES ASSUME LogTyped, LogInv, [Next]_vars PROVE LogInv'
    OBVIOUS
<1>0. \A i \in Indices : i \in 1 .. Kept - 1 => i # Kept
    BY TelemetryAssumption
<1>1. CASE Log
    <2>0. WriteSteps
        BY <1>1 DEF Log
    <2>1. CASE /\ lines < MaxLines /\ lines' = lines + 1 /\ rotating' = 0
               /\ log' = [log EXCEPT ![0] = Append(log[0], lines + 1)]
        <3>1. log' = [log EXCEPT ![Kept] = IF FALSE THEN <<>> ELSE log[Kept], ![0] = Append(log[0], lines + 1)]
            BY <2>1, Files, TelemetryAssumption DEF LogTyped
        <3>2. Kept \in Indices \ {0}
            BY Files, TelemetryAssumption
        <3> QED
            BY <2>1, <3>1, <3>2, LineKeepsLog
    <2>2. CASE UNCHANGED <<log, lines>> /\ rotating' = Kept
        BY <2>2, TelemetryAssumption DEF LogInv, InOrder, NoGap, Written, OldestGoes, Readable, Indices
    <2>3. CASE rotating > 0 /\ log' = Shift(rotating) /\ rotating' = rotating - 1 /\ lines' = lines
        BY <2>3, ShiftKeepsLog
    <2>4. CASE /\ rotating > 0 /\ rotating' = 0 /\ lines < MaxLines /\ lines' = lines + 1
               /\ log' = [log EXCEPT ![rotating] = <<>>, ![0] = Append(log[0], lines + 1)]
        <3>1. log' = [log EXCEPT ![rotating] = IF TRUE THEN <<>> ELSE log[rotating], ![0] = Append(log[0], lines + 1)]
            BY <2>4
        <3>2. rotating \in Indices \ {0} /\ (rotating = Kept \/ log[rotating] = <<>>)
            BY <2>4, TelemetryAssumption DEF LogTyped, LogInv, OldestGoes, Indices
        <3> QED
            BY <2>4, <3>1, <3>2, LineKeepsLog
    <2> QED
        BY <2>0, <2>1, <2>2, <2>3, <2>4, WriteOutcomes
<1>2. CASE UNCHANGED <<log, lines>> /\ (rotating' = rotating \/ rotating' = 0)
    BY <1>2 DEF LogInv, InOrder, NoGap, Written, OldestGoes, Readable, Indices
<1> QED
    BY <1>1, <1>2 DEF Next, vars, Launch, DefaultsSaved, Start, BeginRunSteps, Started, Change, ChangeSaved, Exit,
        StopJoins, Apply, Connect, HandshakeFails, ChooseMonitor, Established, SessionEnds, Saving, Crash,
        TelemetryAbandoned, Disk, telemetryVars, logVars
-----------------------------------------------------------------------------
(* How much of the log is kept when nothing fails. *)

\* A run that began without a failure has its marker; whoever writes to the log
\* belongs to a run that has begun.
RunMarked ==
    /\ incidents = 0 => run.at # "markOnly" /\ (run.at \in {"flush", "begun"} => active)
    /\ accept # "off" => run.at = "begun"
    /\ rotating > 0 => accept # "off"

\* The lines of the b-th file that was filled.
Block(b) == [k \in 1 .. FileLines |-> b * FileLines + k]

\* What file i holds when the newest file in place i is the b-th: a file that was
\* filled, or nothing if there have not been so many.
Filled(i, b) == IF b >= i THEN Block(b - i) ELSE <<>>

\* q files have been filled; while the current one is rotated, it is one more,
\* and those after the index of the rotation have moved up.
LaidOut(q) ==
    IF rotating = 0
    THEN /\ Len(log[0]) \in 0 .. FileLines /\ lines = q * FileLines + Len(log[0])
         /\ log[0] = [k \in 1 .. Len(log[0]) |-> q * FileLines + k]
         /\ \A i \in Indices \ {0} : log[i] = Filled(i, q)
    ELSE /\ lines = q * FileLines + FileLines
         /\ \A i \in Indices : /\ i < rotating => log[i] = Filled(i, q)
                               /\ i > rotating => log[i] = Filled(i, q + 1)

\* Nothing has failed, and no run was killed.
Calm == incidents = 0 /\ ended = 0

RetentionInv == RunMarked /\ (Calm => \E q \in Nat : LaidOut(q))

\* A step keeps the markers of the runs in place.
LEMMA RunMarkedKept == RunMarked /\ MarkerTyped /\ RunInPlace /\ AcceptLives /\ PlacesTyped /\ LogTyped /\ [Next]_vars => RunMarked'
<1> SUFFICES ASSUME RunMarked, MarkerTyped, RunInPlace, AcceptLives, PlacesTyped, LogTyped, [Next]_vars PROVE RunMarked'
    OBVIOUS
<1>1. incidents' = 0 => incidents = 0
    <2>1. incidents' = incidents \/ Incident
        BY DEF Next, vars, Launch, DefaultsSaved, Start, BeginRunSteps, RunSteps, Started, Change, ChangeSaved, Exit,
            StopJoins, EndRun, Apply, Connect, HandshakeFails, ChooseMonitor, Established, SessionEnds, Saving,
            WriteAtomic, Log, WriteSteps, Crash, Disk, Smooth
    <2> QED
        BY <2>1 DEF Incident, MarkerTyped
<1>2. CASE BeginRunSteps
    <2>1. ui = "begin" /\ accept' = accept /\ rotating' = rotating
        BY <1>2 DEF BeginRunSteps, hostVars, logVars
    <2>2. accept = "off" /\ ~(rotating > 0)
        BY <2>1 DEF AcceptLives, RunMarked
    <2>3. incidents' = 0 => run'.at # "markOnly" /\ (run'.at \in {"flush", "begun"} => active')
        <3> SUFFICES ASSUME incidents' = 0 PROVE run'.at # "markOnly" /\ (run'.at \in {"flush", "begun"} => active')
            OBVIOUS
        <3>1. incidents = 0
            BY <1>1
        <3>2. Smooth /\ ~Incident
            BY <3>1, <1>2 DEF BeginRunSteps, RunSteps, Incident, Smooth
        <3>3. \/ run.at = "empty" /\ run'.at = "mark"
              \/ run.at \in {"mark", "markOnly"} /\ active' = TRUE /\ run'.at \in {"flush", "begun"}
              \/ run.at = "flush" /\ run'.at = "begun" /\ active' = active
            BY <1>2, <3>2 DEF BeginRunSteps, RunSteps, MarkerTyped
        <3> QED
            BY <3>1, <3>3 DEF RunMarked
    <2> QED
        BY <2>1, <2>2, <2>3 DEF RunMarked
<1>3. CASE Start
    <2>1. accept' = accept /\ accept = "off" /\ rotating' = rotating /\ ((run' = run /\ active' = active) \/ run'.at = "empty")
        BY <1>3 DEF Start, BeginRun, markerVars, logVars, AcceptLives
    <2> QED
        BY <1>1, <2>1 DEF RunMarked
<1>4. CASE StopJoins \/ Crash
    <2>1. run'.at = "no" /\ accept' = "off" /\ rotating' = 0
        BY <1>4 DEF StopJoins, Crash, EndRun, TelemetryAbandoned, logVars, MarkerTyped
    <2> QED
        BY <2>1 DEF RunMarked
<1>5. CASE Started
    <2>1. run.at = "begun" /\ UNCHANGED <<run, active, rotating>> /\ accept' = "idle"
        BY <1>5 DEF Started, Disk, telemetryVars, markerVars, logVars
    <2> QED
        BY <1>1, <2>1 DEF RunMarked
<1>6. CASE Log
    <2>1. UNCHANGED <<run, active, accept>> /\ accept # "off"
        BY <1>6 DEF Log, hostVars, markerVars, RunMarked
    <2> QED
        BY <1>1, <2>1 DEF RunMarked
<1>7. CASE \/ Launch \/ DefaultsSaved \/ Change \/ ChangeSaved \/ Exit \/ Apply
           \/ Connect \/ HandshakeFails \/ ChooseMonitor \/ Established \/ SessionEnds \/ Saving
           \/ UNCHANGED vars
    <2>1. UNCHANGED <<run, active, rotating>>
        BY <1>7 DEF vars, Launch, DefaultsSaved, Change, ChangeSaved, Exit, Apply, Connect, HandshakeFails,
            ChooseMonitor, Established, SessionEnds, Saving, Disk, telemetryVars, markerVars, logVars
    <2>2. accept' = accept \/ (accept # "off" /\ accept' # "off")
        BY <1>7 DEF vars, hostVars, Launch, DefaultsSaved, Change, ChangeSaved, Exit, Apply, Connect, HandshakeFails,
            ChooseMonitor, Established, SessionEnds, Saving
    <2> QED
        BY <1>1, <2>1, <2>2 DEF RunMarked
<1> QED
    BY <1>2, <1>3, <1>4, <1>5, <1>6, <1>7 DEF Next

\* A line that is written, a rotation that begins and a file that moves up leave
\* the files laid out.
LEMMA WriteKeepsLayout ==
    ASSUME LogTyped, NEW q \in Nat, LaidOut(q), WriteSteps, ~Incident
    PROVE  \E p \in Nat : LaidOut(p)'
<1> USE TelemetryAssumption
<1>t. /\ log \in [Indices -> Seq(1 .. MaxLines)] /\ lines \in Nat /\ 0 \in Indices /\ Indices \subseteq Nat
      /\ rotating \in Indices /\ Kept \in Indices /\ Indices = 0 .. Kept /\ FileLines \in Nat \ {0}
    BY Files DEF LogTyped, Indices
<1>f. FileLines \in Nat /\ q * FileLines \in Nat /\ (q + 1) * FileLines = q * FileLines + FileLines
    <2>1. FileLines \in Nat
        BY <1>t
    <2> QED
        BY <2>1
<1>1. CASE /\ lines < MaxLines /\ lines' = lines + 1 /\ rotating = 0 /\ rotating' = 0 /\ ~Full
           /\ log' = [log EXCEPT ![0] = Append(log[0], lines + 1)]
    <2> DEFINE grown == Append(log[0], lines + 1)
    <2>1. /\ Len(log[0]) \in 0 .. FileLines /\ lines = q * FileLines + Len(log[0])
          /\ log[0] = [k \in 1 .. Len(log[0]) |-> q * FileLines + k]
          /\ \A i \in Indices \ {0} : log[i] = Filled(i, q)
        BY <1>1 DEF LaidOut
    <2>2. /\ grown \in Seq(1 .. MaxLines) /\ Len(grown) = Len(log[0]) + 1
          /\ \A k \in 1 .. Len(log[0]) : grown[k] = log[0][k]
          /\ grown[Len(log[0]) + 1] = lines + 1
        BY <1>1, <1>t, LineAppended DEF LogTyped
    <2>3. Len(log[0]) + 1 <= FileLines
        <3>1. CASE log[0] = <<>>
            BY <3>1, <1>t, EmptyFile
        <3>2. CASE log[0] # <<>>
            BY <3>2, <1>1, <1>t, <2>1 DEF Full
        <3> QED
            BY <3>1, <3>2
    <2>4. log'[0] = grown /\ \A i \in Indices \ {0} : log'[i] = log[i]
        BY <1>1, <1>t
    <2>n. Len(log[0]) \in Nat /\ Len(grown) \in Nat
        BY <1>t, <2>1, <2>2
    <2>m. lines = q * FileLines + Len(log[0])
        BY <2>1
    <2> HIDE DEF grown
    <2>5. grown = [k \in 1 .. Len(grown) |-> q * FileLines + k]
        <3>1. grown \in [1 .. Len(grown) -> 1 .. MaxLines]
            BY <2>2, LenProperties
        <3>2. ASSUME NEW k \in 1 .. Len(grown) PROVE grown[k] = q * FileLines + k
            <4>1. k \in 1 .. Len(log[0]) \/ k = Len(log[0]) + 1
                BY <2>2, <2>n
            <4>2. k \in 1 .. Len(log[0]) => grown[k] = q * FileLines + k
                BY <2>1, <2>2
            <4>3. lines + 1 = q * FileLines + (Len(log[0]) + 1)
                BY <2>m, <2>n, <1>f, <1>t
            <4> QED
                BY <4>1, <4>2, <4>3, <2>2
        <3> QED
            BY <3>1, <3>2
    <2>6. Len(log'[0]) \in 0 .. FileLines /\ lines' = q * FileLines + Len(log'[0])
        BY <1>1, <1>f, <1>t, <2>1, <2>2, <2>3, <2>4, <2>n
    <2>7. log'[0] = [k \in 1 .. Len(log'[0]) |-> q * FileLines + k]
        BY <2>4, <2>5
    <2>8. \A i \in Indices \ {0} : log'[i] = Filled(i, q)
        BY <2>1, <2>4
    <2>9. LaidOut(q)'
        BY <1>1, <2>6, <2>7, <2>8 DEF LaidOut, Filled, Block, Indices
    <2> QED
        BY <2>9
<1>2. CASE UNCHANGED <<log, lines>> /\ rotating = 0 /\ rotating' = Kept /\ Full
    <2>1. /\ Len(log[0]) \in 0 .. FileLines /\ lines = q * FileLines + Len(log[0])
          /\ log[0] = [k \in 1 .. Len(log[0]) |-> q * FileLines + k]
          /\ \A i \in Indices \ {0} : log[i] = Filled(i, q)
        BY <1>2 DEF LaidOut
    <2>2. Len(log[0]) = FileLines
        BY <1>2, <2>1, <1>t DEF Full
    <2>3. log[0] = Filled(0, q)
        BY <2>1, <2>2 DEF Filled, Block
    <2>4. \A i \in Indices : log[i] = Filled(i, q)
        BY <2>1, <2>3
    <2>5. LaidOut(q)'
        BY <1>2, <1>t, <2>1, <2>2, <2>4 DEF LaidOut, Filled, Block, Indices
    <2> QED
        BY <2>5
<1>3. CASE rotating > 0 /\ log' = Shift(rotating) /\ rotating' = rotating - 1 /\ lines' = lines
    <2> DEFINE r == rotating
    <2>1. /\ lines = q * FileLines + FileLines
          /\ \A i \in Indices : /\ i < r => log[i] = Filled(i, q)
                                /\ i > r => log[i] = Filled(i, q + 1)
        BY <1>3 DEF LaidOut
    <2>2. r \in Indices \ {0} /\ r - 1 \in Indices /\ r - 1 # r
        BY <1>3, <1>t
    <2>3. log'[r] = log[r - 1] /\ log'[r - 1] = <<>> /\ \A i \in Indices \ {r, r - 1} : log'[i] = log[i]
        BY <1>3, <1>t, <2>2 DEF Shift
    <2>4. Filled(r - 1, q) = Filled(r, q + 1)
        <3>1. q >= r - 1 <=> q + 1 >= r
            BY <2>2, <1>t
        <3>2. q - (r - 1) = q + 1 - r
            BY <2>2, <1>t
        <3>3. Block(q - (r - 1)) = Block(q + 1 - r)
            BY <3>2
        <3> QED
            BY <3>1, <3>3, <2>2, <1>t DEF Filled
    <2>5. ASSUME NEW i \in Indices
          PROVE  /\ i < r - 1 => log'[i] = Filled(i, q)
                 /\ i > r - 1 => log'[i] = Filled(i, q + 1)
        <3>1. CASE i = r
            BY <3>1, <1>t, <2>1, <2>2, <2>3, <2>4
        <3>2. CASE i # r
            BY SMTT(30), <3>2, <1>t, <2>1, <2>2, <2>3
        <3> QED
            BY <3>1, <3>2
    <2>6. CASE r > 1
        <3>0. rotating' # 0 /\ rotating' = r - 1 /\ lines' = q * FileLines + FileLines
            BY <1>3, <1>t, <2>1, <2>6
        <3>1. LaidOut(q)'
            BY <3>0, <2>5 DEF LaidOut, Filled, Block, Indices
        <3> QED
            BY <3>1
    <2>7. CASE r = 1
        <3>1. rotating' = 0 /\ log'[0] = <<>>
            BY <1>3, <2>3, <2>7
        <3>2. lines' = (q + 1) * FileLines + 0
            BY <1>3, <1>f, <2>1
        <3>3. log'[0] = [k \in 1 .. 0 |-> (q + 1) * FileLines + k]
            BY <3>1
        <3>4. Len(log'[0]) = 0
            BY <3>1, EmptyFile
        <3>5. \A i \in Indices \ {0} : log'[i] = Filled(i, q + 1)
            BY <2>5, <2>7, <1>t
        <3>6. LaidOut(q + 1)'
            BY <3>1, <3>2, <3>3, <3>4, <3>5, <1>t DEF LaidOut, Filled, Block, Indices
        <3> QED
            BY <3>6
    <2> QED
        BY <2>2, <2>6, <2>7, <1>t
<1> QED
    BY <1>1, <1>2, <1>3, WriteOutcomes

\* Every step keeps what is laid out, as long as nothing fails and no run is
\* killed: a kill before a run has begun finds no rotation under way.
LEMMA RetentionKept ==
    ASSUME RetentionInv, MarkerTyped, RunInPlace, AcceptLives, PlacesTyped, LogTyped, [Next]_vars
    PROVE  RetentionInv'
<1>1. RunMarked'
    BY RunMarkedKept DEF RetentionInv
<1> SUFFICES ASSUME Calm' PROVE \E p \in Nat : LaidOut(p)'
    BY <1>1 DEF RetentionInv
<1>2. incidents = 0 /\ incidents' = incidents /\ ~Incident
    <2>1. incidents' = incidents \/ Incident
        BY DEF Next, vars, Launch, DefaultsSaved, Start, BeginRunSteps, RunSteps, Started, Change, ChangeSaved, Exit,
            StopJoins, EndRun, Apply, Connect, HandshakeFails, ChooseMonitor, Established, SessionEnds, Saving,
            WriteAtomic, Log, WriteSteps, Crash, Disk, Smooth
    <2> QED
        BY <2>1 DEF Incident, MarkerTyped, Calm
<1>3. ASSUME ended' = ended, UNCHANGED <<log, lines, rotating>> PROVE \E p \in Nat : LaidOut(p)'
    <2>1. Calm
        BY <1>2, <1>3 DEF Calm
    <2> QED
        BY <2>1, <1>3 DEF RetentionInv, LaidOut, Filled, Block, Indices
<1>4. CASE Log
    <2>1. Calm
        BY <1>2, <1>4 DEF Calm, Log
    <2>2. PICK q \in Nat : LaidOut(q)
        BY <2>1 DEF RetentionInv
    <2> QED
        BY <1>2, <1>4, <2>2, WriteKeepsLayout DEF Log
<1>5. CASE Crash
    <2>1. ~active /\ ended' = ended
        BY <1>5 DEF Crash, Calm, MarkerTyped
    <2>2. run.at # "begun"
        BY <1>2, <2>1 DEF RetentionInv, RunMarked
    <2>3. rotating = 0
        BY <2>2 DEF RetentionInv, RunMarked, LogTyped, Indices
    <2>4. UNCHANGED <<log, lines, rotating>>
        BY <1>5, <2>3 DEF Crash, TelemetryAbandoned
    <2> QED
        BY <1>3, <2>1, <2>4
<1> QED
    BY <1>3, <1>4, <1>5 DEF Next, vars, Launch, DefaultsSaved, Start, BeginRunSteps, Started, Change, ChangeSaved, Exit,
        StopJoins, Apply, Connect, HandshakeFails, ChooseMonitor, Established, SessionEnds, Saving,
        Disk, telemetryVars, logVars

\* A line is in one file of those that were filled, at one place.
LEMMA LineInBlock ==
    ASSUME NEW f \in Nat \ {0}, NEW n \in Nat \ {0}
    PROVE  \E b \in Nat : \E k \in 1 .. f : n = b * f + k
<1> DEFINE b == (n - 1) \div f
           r == (n - 1) % f
<1>1. n - 1 \in Nat /\ f \in Nat \ {0}
    OBVIOUS
<1>2. b \in Nat /\ r \in 0 .. f - 1 /\ n - 1 = f * b + r
    BY <1>1
<1>3. f * b = b * f /\ f * b \in Nat
    BY <1>2
<1> HIDE DEF b, r
<1>4. r + 1 \in 1 .. f /\ n = b * f + (r + 1)
    BY <1>2, <1>3
<1> QED
    BY <1>2, <1>4

\* More files hold no fewer lines.
LEMMA BlocksGrow ==
    ASSUME NEW f \in Nat, NEW a \in Nat, NEW b \in Nat, a <= b
    PROVE  a * f <= b * f
OBVIOUS

\* When nothing has failed, the last lines, as many as the rotated files hold, can
\* be read.
LEMMA LastLinesLeft ==
    ASSUME LogTyped, rotating = 0, NEW q \in Nat, LaidOut(q),
           NEW n \in 1 .. lines, n + Kept * FileLines > lines
    PROVE  n \in Readable
<1> USE TelemetryAssumption
<1>t. FileLines \in Nat \ {0} /\ FileLines \in Nat /\ Kept \in Nat /\ lines \in Nat /\ n \in Nat \ {0} /\ 0 \in Indices
    BY Files DEF LogTyped
<1> DEFINE old == q * FileLines
           rotated == Kept * FileLines
           current == Len(log[0])
<1>1. /\ current \in 0 .. FileLines /\ lines = old + current
      /\ log[0] = [k \in 1 .. current |-> old + k]
      /\ \A i \in Indices \ {0} : log[i] = Filled(i, q)
    BY DEF LaidOut
<1>f. old \in Nat /\ rotated \in Nat /\ n + rotated > lines /\ current \in Nat /\ lines = old + current
    <2>1. old \in Nat /\ rotated \in Nat
        BY <1>t
    <2>2. n + rotated > lines /\ lines = old + current
        BY <1>1
    <2>3. current \in Nat
        BY <1>1, <1>t
    <2> QED
        BY <2>1, <2>2, <2>3
<1> HIDE DEF old, rotated, current
<1>2. CASE n > old
    <2> DEFINE k == n - old
    <2>1. k \in 1 .. current /\ old + k = n
        BY <1>2, <1>f, <1>t
    <2> HIDE DEF k
    <2>2. k \in DOMAIN log[0] /\ log[0][k] = n
        BY <1>1, <2>1
    <2> QED
        BY <2>2, <1>t DEF Readable
<1>3. CASE n <= old
    <2>1. PICK b \in Nat, k \in 1 .. FileLines : n = b * FileLines + k
        BY <1>t, LineInBlock
    <2> DEFINE before == b * FileLines
    <2>2. before \in Nat /\ n = before + k
        BY <2>1, <1>t
    <2>3. b < q
        <3> SUFFICES ASSUME q <= b PROVE FALSE
            OBVIOUS
        <3>1. old <= before
            BY <1>t, BlocksGrow DEF old
        <3> HIDE DEF before
        <3> QED
            BY <3>1, <2>2, <1>3, <1>f, <1>t
    <2>4. q - b <= Kept
        <3> SUFFICES ASSUME b + 1 + Kept <= q PROVE FALSE
            BY <1>t
        <3>1. (b + 1 + Kept) * FileLines <= old
            BY <1>t, BlocksGrow DEF old
        <3>2. (b + 1 + Kept) * FileLines = before + FileLines + rotated
            BY <1>t DEF rotated
        <3>3. before + FileLines + rotated <= old
            BY <3>1, <3>2
        <3> HIDE DEF before
        <3> QED
            BY <3>3, <2>2, <1>f, <1>t
    <2> DEFINE i == q - b
    <2>5. i \in Indices \ {0} /\ q >= i /\ q - i = b
        BY <2>3, <2>4, <1>t DEF Indices
    <2> HIDE DEF i
    <2>6. log[i] = Block(b)
        BY <1>1, <2>5 DEF Filled
    <2>7. k \in DOMAIN log[i] /\ log[i][k] = n
        BY <2>1, <2>6 DEF Block
    <2> QED
        BY <2>5, <2>7 DEF Readable
<1> QED
    BY <1>2, <1>3, <1>f, <1>t

\* Whatever fails and wherever the process is killed, only the oldest lines of the
\* log are lost; if nothing fails and no run is killed, no more of them than do
\* not fit in the rotated files.
THEOREM LogSafety == Spec => []LogKept
<1> DEFINE All == HostInv /\ CountInv /\ LogTyped /\ PlacesTyped /\ LogInv /\ RetentionInv
<1>1. Init => LogTyped /\ PlacesTyped /\ LogInv /\ RetentionInv
    <2> SUFFICES ASSUME Init PROVE LogTyped /\ PlacesTyped /\ LogInv /\ RetentionInv
        OBVIOUS
    <2>0. /\ log = [i \in Indices |-> <<>>] /\ lines = 0 /\ rotating = 0 /\ run.at = "no" /\ accept = "off"
          /\ DOMAIN <<>> = {}
        BY DEF Init, TelemetryInit
    <2>1. LogTyped /\ PlacesTyped
        BY TypedAtFirst
    <2>2. LogInv
        BY <2>0, TelemetryAssumption DEF LogInv, InOrder, NoGap, Written, OldestGoes, Readable
    <2>3. RunMarked
        BY <2>0 DEF RunMarked
    <2>4. LaidOut(0)
        <3>1. log[0] = <<>> /\ Len(log[0]) = 0
            BY <2>0, Files, EmptyFile
        <3>0. 0 * FileLines = 0 /\ FileLines \in Nat
            BY TelemetryAssumption
        <3>a. lines = 0 /\ 0 = 0 + 0 /\ 0 \in 0 .. FileLines
            BY <2>0, <3>0
        <3>2. lines = 0 * FileLines + Len(log[0]) /\ Len(log[0]) \in 0 .. FileLines
            BY <3>0, <3>a, <3>1
        <3>3. log[0] = [k \in 1 .. Len(log[0]) |-> 0 * FileLines + k]
            BY <3>1
        <3>4. \A i \in Indices \ {0} : log[i] = Filled(i, 0)
            BY <2>0, TelemetryAssumption DEF Filled, Indices
        <3> QED
            BY <2>0, <3>2, <3>3, <3>4 DEF LaidOut
    <2> QED
        BY <2>1, <2>2, <2>3, <2>4 DEF RetentionInv
<1>2. All /\ [Next]_vars => All'
    BY HostKeeps, StepKeepsCount, LogTypedKept, PlacesKept, LogKeeps, RetentionKept DEF CountInv, HostInv
<1>3. All => LogKept
    <2> SUFFICES ASSUME All PROVE LogKept
        OBVIOUS
    <2>1. ASSUME incidents = 0, ended = 0, rotating = 0,
                 NEW n \in 1 .. lines, n + Kept * FileLines > lines
          PROVE  n \in Readable
        BY <2>1, LastLinesLeft DEF RetentionInv, Calm
    <2> QED
        BY <2>1 DEF LogKept, LogInv, InOrder, NoGap
<1> QED
    BY <1>1, <1>2, <1>3, HostStarts, CountStarts, PTL DEF Spec
=============================================================================
