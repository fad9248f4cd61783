--------------------------- MODULE TelemetryWriter ---------------------------
(***************************************************************************)
(* The telemetry log, its rotation, and the marker by which a run finds    *)
(* out that the one before it ended abnormally.  Lines are numbered in the *)
(* order in which they reach the file.                                     *)
(***************************************************************************)
EXTENDS Incidents, Sequences

CONSTANTS
    FileLines,      \* lines that fill a file (kMaximumBytes)
    Kept,           \* rotated files kept (kRetainedRotations)
    MaxLines,       \* bound on the lines written
    Emptied         \* a value that is no number

ASSUME TelemetryAssumption ==
    FileLines \in Nat \ {0} /\ Kept \in Nat \ {0} /\ MaxLines \in Nat /\ Emptied \notin Nat

VARIABLES
    marker,     \* telemetry.jsonl.running exists
    crashes,    \* number in telemetry.jsonl.crashes, Emptied while that file is empty
    active,     \* run_marker_active_
    run,        \* where BeginRun is, and the count it returns
    log,        \* log[0] is telemetry.jsonl, log[i] is telemetry.jsonl.i, <<>> if there is none
    lines,      \* lines written so far
    rotating    \* index RotateIfNeeded works at, 0 if it does not

markerVars == <<marker, crashes, active, run>>
logVars == <<log, lines, rotating>>
telemetryVars == <<markerVars, logVars>>

Indices == 0 .. Kept

TelemetryInit ==
    /\ marker = FALSE /\ crashes = 0 /\ active = FALSE
    /\ run = [at |-> "no", count |-> 0]
    /\ log = [i \in Indices |-> <<>>] /\ lines = 0 /\ rotating = 0
-----------------------------------------------------------------------------
\* Mutants: a count that could not be read is used; the marker is not looked at.
CountFoundUnread(marked) == crashes
CountFoundUnmarked(marked) == IF crashes = Emptied THEN 0 ELSE crashes

\* The count and the marker that the run before left.
CountFound(marked) == (IF crashes = Emptied THEN 0 ELSE crashes) + (IF marked THEN 1 ELSE 0)

\* BeginRun.  The streams are buffered: the count reaches its file, which was
\* emptied when it was opened, after the marker has been created.
BeginRun ==
    /\ run' = [at |-> "empty", count |-> CountFound(marker)]
    /\ UNCHANGED <<marker, crashes, active>>

\* Opening the count's file or the marker's may fail, which BeginRun ignores.
RunSteps ==
    \/ /\ run.at = "empty" /\ run' = [run EXCEPT !.at = "mark"]
       /\ crashes' = Emptied /\ Smooth /\ UNCHANGED <<marker, active>>
    \/ /\ run.at = "empty" /\ run' = [run EXCEPT !.at = "markOnly"]
       /\ Incident /\ UNCHANGED <<marker, crashes, active>>
    \/ /\ run.at \in {"mark", "markOnly"}
       /\ run' = [run EXCEPT !.at = IF run.at = "mark" THEN "flush" ELSE "begun"]
       /\ \/ marker' = TRUE /\ active' = TRUE /\ Smooth
          \/ Incident /\ UNCHANGED <<marker, active>>
       /\ UNCHANGED crashes
    \/ /\ run.at = "flush" /\ run' = [run EXCEPT !.at = "begun"]
       /\ crashes' = run.count /\ Smooth /\ UNCHANGED <<marker, active>>

\* EndRun.  A marker that was not placed by this run is left alone; one that
\* cannot be removed stays.
EndRun ==
    /\ run' = [run EXCEPT !.at = "no"]
    /\ active' = FALSE
    /\ \/ marker' = (marker /\ ~active) /\ Smooth
       \/ marker /\ active /\ Incident /\ UNCHANGED marker
    /\ UNCHANGED crashes
-----------------------------------------------------------------------------
\* Write: a file that is full is rotated first, index by index from the oldest.
Full == log[0] # <<>> /\ Len(log[0]) + 1 > FileLines

\* Mutant: the oldest file is not the first to go.
ShiftOverwriting(i) == [log EXCEPT ![Kept + 1 - i] = log[Kept - i], ![Kept - i] = <<>>]

\* remove(destination), then rename(source, destination) if source exists.
Shift(i) == [log EXCEPT ![i] = log[i - 1], ![i - 1] = <<>>]

Line ==
    /\ lines < MaxLines
    /\ lines' = lines + 1
    /\ log' = [log EXCEPT ![0] = Append(@, lines + 1)]
    /\ rotating' = 0

\* A remove or rename that fails ends the rotation, and the line goes to the
\* file that is there, full or not; the oldest file may have been removed.
WriteSteps ==
    \/ ~Full /\ rotating = 0 /\ Line /\ Smooth
    \/ /\ Full /\ rotating = 0 /\ lines < MaxLines
       /\ rotating' = Kept /\ Smooth /\ UNCHANGED <<log, lines>>
    \/ /\ rotating > 0 /\ Smooth
       /\ log' = Shift(rotating) /\ rotating' = rotating - 1 /\ UNCHANGED lines
    \/ /\ rotating > 0 /\ Incident /\ lines < MaxLines
       /\ \E removed \in BOOLEAN :
             LET left == IF removed THEN [log EXCEPT ![rotating] = <<>>] ELSE log
             IN  log' = [left EXCEPT ![0] = Append(@, lines + 1)]
       /\ lines' = lines + 1 /\ rotating' = 0

\* The process is gone; the files are what they are.
TelemetryAbandoned ==
    /\ active' = FALSE /\ run' = [at |-> "no", count |-> 0] /\ rotating' = 0
    /\ UNCHANGED <<marker, crashes, log, lines>>

\* The lines that can still be read.
Readable == {n \in 1 .. lines : \E i \in Indices : \E k \in DOMAIN log[i] : log[i][k] = n}

TelemetryTypeOK ==
    /\ marker \in BOOLEAN /\ active \in BOOLEAN
    /\ crashes \in Nat \cup {Emptied}
    /\ run.at \in {"no", "empty", "mark", "markOnly", "flush", "begun"} /\ run.count \in Nat
    /\ log \in [Indices -> Seq(1 .. MaxLines)]
    /\ lines \in 0 .. MaxLines
    /\ rotating \in Indices
=============================================================================
