------------------------------ MODULE HostStore ------------------------------
(***************************************************************************)
(* What the desktop program keeps on the disk while it is started,         *)
(* reconfigured, killed and started again: ConfigStore and                 *)
(* TelemetryWriter, used by the tray window's thread (wWinMain,            *)
(* Reconfigure, Start, Stop) and by the accept thread, which saves the     *)
(* monitor it chose in the middle of establishing a session.               *)
(***************************************************************************)
EXTENDS ConfigStore, TelemetryWriter

CONSTANTS
    Window, Accept,     \* the two threads
    MaxCrashes          \* bound

ASSUME SaversAssumption == Savers = {Window, Accept} /\ Window # Accept

ASSUME CrashesAssumption == MaxCrashes \in Nat

VARIABLES
    ui,         \* where the window's thread is
    change,     \* the configuration it applies
    memory,     \* options_.config
    running,    \* running_
    accept,     \* where the accept thread is
    config,     \* the configuration EstablishSession works with
    ended,      \* abnormal ends of runs that had placed their marker
    certain     \* nothing has happened that a count of ends cannot survive

hostVars == <<ui, change, memory, running, accept, config>>
vars == <<hostVars, storeVars, telemetryVars, ended, certain, incidents>>

Init ==
    /\ StoreInit /\ TelemetryInit /\ incidents = 0
    /\ ui = "down" /\ change = Default /\ memory = Default
    /\ running = FALSE /\ accept = "off" /\ config = Default
    /\ ended = 0 /\ certain = TRUE

Disk == UNCHANGED <<storeVars, telemetryVars, ended, certain>>
-----------------------------------------------------------------------------
\* wWinMain: the file is loaded; if it was not, the defaults are saved over it.
Launch ==
    /\ ui = "down"
    /\ \E readable \in BOOLEAN :
          /\ IF readable THEN Smooth ELSE file \in Config /\ Incident
          /\ memory' = Load(readable).config
          /\ IF Load(readable).loaded THEN ui' = "start" /\ UNCHANGED storeVars
             ELSE ui' = "defaults" /\ SaveBegins(Window)
    /\ UNCHANGED <<change, running, accept, config, telemetryVars, ended, certain>>

DefaultsSaved ==
    /\ ui = "defaults" /\ ui' = "start"
    /\ SaveEnds(Window, "saved") \/ SaveEnds(Window, "failed")
    /\ UNCHANGED <<change, memory, running, accept, config, telemetryVars, ended, certain, incidents>>

\* Start: the ports are bound, or not; then BeginRun.
Start ==
    /\ ui = "start"
    /\ \/ ui' = "begin" /\ running' = TRUE /\ BeginRun /\ Smooth
       \/ ui' = "idle" /\ running' = FALSE /\ Incident /\ UNCHANGED markerVars
    /\ UNCHANGED <<change, memory, accept, config, storeVars, logVars, ended, certain>>

BeginRunSteps ==
    /\ ui = "begin" /\ RunSteps
    /\ certain' = (certain /\ incidents' = incidents)
    /\ UNCHANGED <<hostVars, storeVars, logVars, ended>>

Started ==
    /\ ui = "begin" /\ run.at = "begun"
    /\ ui' = "idle" /\ accept' = "idle"
    /\ Disk /\ UNCHANGED <<change, memory, running, config, incidents>>

\* A command of the tray menu: CurrentConfig with one setting changed, saved
\* by Reconfigure before anything else.
Change ==
    /\ ui = "idle" /\ change.rev < MaxChanges
    /\ \E m \in Monitors \cup {memory.monitor} : change' = [rev |-> change.rev + 1, monitor |-> m]
    /\ ui' = "save" /\ SaveBegins(Window)
    /\ UNCHANGED <<memory, running, accept, config, telemetryVars, ended, certain, incidents>>

\* A server that is not running is not started by Reconfigure either.
ChangeSaved ==
    /\ ui = "save"
    /\ \/ SaveEnds(Window, "saved") /\ ui' = IF running THEN "stop" ELSE "apply"
       \/ SaveEnds(Window, "failed") /\ ui' = "idle"
    /\ running' = (running /\ ui' # "stop")
    /\ UNCHANGED <<change, memory, accept, config, telemetryVars, ended, certain, incidents>>

Exit ==
    /\ ui = "idle"
    /\ ui' = IF running THEN "exit" ELSE "down"
    /\ running' = FALSE
    /\ Disk /\ UNCHANGED <<change, memory, accept, config, incidents>>

\* Stop joins the accept thread and the session's, which finish what they are
\* doing, and ends the run.
StopJoins ==
    /\ ui \in {"stop", "exit"} /\ accept \in {"idle", "served", "unsaved"} /\ rotating = 0
    /\ accept' = "off" /\ EndRun
    /\ ui' = IF ui = "stop" THEN "applyAndStart" ELSE "down"
    /\ certain' = (certain /\ ~marker')
    /\ UNCHANGED <<change, memory, running, config, storeVars, logVars, ended>>

\* Only now does memory take the new configuration.
Apply ==
    /\ ui \in {"apply", "applyAndStart"}
    /\ memory' = change
    /\ ui' = IF ui = "apply" THEN "idle" ELSE "start"
    /\ Disk /\ UNCHANGED <<change, running, accept, config, incidents>>
-----------------------------------------------------------------------------
\* EstablishSession: the configuration is copied when a tablet connects, ...
Connect ==
    /\ accept = "idle" /\ running
    /\ accept' = "handshake" /\ config' = memory
    /\ Disk /\ UNCHANGED <<ui, change, memory, running, incidents>>

HandshakeFails ==
    /\ accept = "handshake" /\ accept' = "idle"
    /\ Disk /\ UNCHANGED <<ui, change, memory, running, config, incidents>>

\* ... completed with the monitor that is captured (another one if the
\* selected one is not there), and saved, ...
ChooseMonitor ==
    /\ accept = "handshake" /\ accept' = "save"
    /\ \E m \in Monitors : config' = [config EXCEPT !.monitor = m]
    /\ SaveBegins(Accept)
    /\ UNCHANGED <<ui, change, memory, running, telemetryVars, ended, certain, incidents>>

\* ... and becomes the configuration in memory if it was saved.
Established ==
    /\ accept = "save"
    /\ \/ SaveEnds(Accept, "saved") /\ accept' = "served" /\ memory' = config
       \/ SaveEnds(Accept, "failed") /\ accept' = "unsaved" /\ UNCHANGED memory
    /\ UNCHANGED <<ui, change, running, config, telemetryVars, ended, certain, incidents>>

SessionEnds ==
    /\ accept \in {"served", "unsaved"} /\ accept' = "idle"
    /\ Disk /\ UNCHANGED <<ui, change, memory, running, config, incidents>>

Saving ==
    /\ WriteAtomic(Window, IF ui = "defaults" THEN Default ELSE change) \/ WriteAtomic(Accept, config)
    /\ UNCHANGED <<hostVars, telemetryVars, ended, certain>>

\* A thread of a session writes a line of telemetry, and finishes that also
\* when the session has ended meanwhile.
Log ==
    /\ accept \in {"served", "unsaved"} \/ rotating > 0
    /\ WriteSteps
    /\ UNCHANGED <<hostVars, storeVars, markerVars, ended, certain>>

\* The process is killed, or the computer is.  A run that had begun and whose
\* marker is in place ends abnormally by this.
Crash ==
    /\ ui # "down" /\ ended < MaxCrashes
    /\ ended' = ended + (IF active THEN 1 ELSE 0)
    /\ certain' = (certain /\ crashes # Emptied)
    /\ ui' = "down" /\ running' = FALSE /\ accept' = "off"
    /\ change' = [change EXCEPT !.monitor = "any"] /\ memory' = Default /\ config' = Default
    /\ StoreAbandoned /\ TelemetryAbandoned /\ UNCHANGED incidents

Next ==
    \/ Launch \/ DefaultsSaved \/ Start \/ BeginRunSteps \/ Started
    \/ Change \/ ChangeSaved \/ Exit \/ StopJoins \/ Apply
    \/ Connect \/ HandshakeFails \/ ChooseMonitor \/ Established \/ SessionEnds
    \/ Saving \/ Log \/ Crash

Spec == Init /\ [][Next]_vars
-----------------------------------------------------------------------------
TypeOK ==
    /\ StoreTypeOK /\ TelemetryTypeOK
    /\ ui \in {"down", "defaults", "start", "begin", "idle", "save", "stop", "exit", "apply", "applyAndStart"}
    /\ change \in Config /\ memory \in Config /\ config \in Config
    /\ running \in BOOLEAN /\ certain \in BOOLEAN
    /\ accept \in {"off", "idle", "handshake", "save", "served", "unsaved"}
    /\ ended \in 0 .. MaxCrashes /\ incidents \in 0 .. MaxIncidents

\* The file is never half written, and while a session is served and no change
\* is being made, the session, memory and the file have the same configuration:
\* a session whose establishment a change overtook does not survive the change,
\* and what it saved over the change is put right by the next session.
SettingsAgree ==
    /\ file # Torn
    /\ accept = "served" /\ ui = "idle" => config = memory /\ file = memory

\* The count of abnormal ends is exact, unless the marker or the count could not
\* be opened or removed, or a run was killed while its count's file was empty:
\* then the count starts again at one, although telemetry.h:134 calls it
\* "cumulative across detected abnormal exits".
CrashCountRight == certain /\ run.at = "begun" => run.count = ended

\* Whatever fails and wherever the process is killed, only the oldest lines are
\* lost: the files have their lines in order, an older file older ones, and no
\* line is missing after one that can be read.  If nothing fails and nothing is
\* killed, the rotated files' worth of lines is left; a kill between two renames
\* makes the next rotation remove one file more than it replaces.
LogKept ==
    /\ \A i, j \in Indices : \A k \in DOMAIN log[i], m \in DOMAIN log[j] :
          i > j \/ (i = j /\ k < m) => log[i][k] < log[j][m]
    /\ \A n \in Readable : n .. lines \subseteq Readable
    /\ incidents = 0 /\ ended = 0 /\ rotating = 0 =>
          \A n \in 1 .. lines : n + Kept * FileLines > lines => n \in Readable
=============================================================================
