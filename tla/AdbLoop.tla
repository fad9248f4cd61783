-------------------------------- MODULE AdbLoop --------------------------------
(***************************************************************************)
(* The desktop server's adb thread at work (DesktopServer::AdbLoop):       *)
(* AdbSession driven by the loop that ticks it and by the handshake        *)
(* watchdog, together with the two parties that react to it: the Android   *)
(* client, which connects when it can authenticate through the mappings,   *)
(* and the transport, which reports the session it has lost.  The          *)
(* transport is reduced to whether a session is active; DesktopServer      *)
(* models it in detail.                                                    *)
(***************************************************************************)
EXTENDS AdbSession

VARIABLES
    running,   \* running_
    loop,      \* where AdbLoop stands when no AdbSession method is executing
    waiting,   \* the watchdog's waiting_since_: unset, set, or timeout_ ago
    active,    \* session_active_
    intact,    \* are the sockets of the active session's client still open?
    ending     \* transport threads in EndSession that have yet to report the loss

loopVars == <<vars, running, loop, waiting, active, intact, ending>>

LoopTypeOK ==
    /\ TypeOK
    /\ running \in BOOLEAN
    /\ loop \in {"start", "tick", "observe", "fire", "over"}
    /\ waiting \in {"unset", "set", "elapsed"}
    /\ active \in BOOLEAN
    /\ intact \in BOOLEAN
    /\ ending \in SUBSET Callers

LoopInit ==
    /\ Init
    /\ running = TRUE
    /\ loop = "start"
    /\ waiting = "unset"
    /\ active = FALSE
    /\ intact = FALSE
    /\ ending = {}

\* A step that stops or replaces the client, or moves the cable, breaks the
\* sockets of the session it had.
SocketsFollow == intact' = (intact /\ UNCHANGED <<client, device>>)

-----------------------------------------------------------------------------
(* The adb thread. *)

LoopStart ==
    /\ running /\ loop = "start"
    /\ Start
    /\ loop' = "tick"
    /\ UNCHANGED <<running, waiting, active, intact, ending>>

\* Tick retries, checks the device's health, or has nothing to do yet.
LoopTick ==
    /\ running /\ loop = "tick" /\ pc[Adb] = "idle"
    /\ TickRetry \/ TickHealth \/ (~(state = "Reconnecting" /\ due) /\ UNCHANGED vars)
    /\ loop' = "observe"
    /\ UNCHANGED <<running, waiting, active, intact, ending>>

\* Seeded fault: every observation starts the wait anew.
LoopObserveRestarts ==
    /\ running /\ loop = "observe" /\ pc[Adb] = "idle"
    /\ waiting' = "unset"
    /\ loop' = "tick"
    /\ UNCHANGED <<vars, running, active, intact, ending>>

\* ClientHandshakeWatchdog::Observe.
LoopObserve ==
    /\ running /\ loop = "observe" /\ pc[Adb] = "idle"
    /\ IF state # "Connected" \/ active
       THEN waiting' = "unset" /\ loop' = "tick"
       ELSE CASE waiting = "unset"   -> waiting' = "set" /\ loop' = "tick"
              [] waiting = "set"     -> waiting' = "set" /\ loop' = "tick"
              [] waiting = "elapsed" -> waiting' = "set" /\ loop' = "fire"
    /\ UNCHANGED <<vars, running, active, intact, ending>>

\* The watchdog's verdict is acted upon: whatever happened since it was
\* reached, the token is revoked and the client launched again.
LoopFire ==
    /\ running /\ loop = "fire"
    /\ NotifyChannelLoss(Adb)
    /\ loop' = "tick"
    /\ UNCHANGED <<faults, running, waiting, active, intact, ending>>

LoopExit ==
    /\ ~running /\ loop # "over" /\ pc[Adb] = "idle"
    /\ loop' = "over"
    /\ UNCHANGED <<vars, running, waiting, active, intact, ending>>

\* A method of AdbSession in progress on the adb thread.
SessionStep ==
    /\ AttemptConnect \/ HealthOk \/ HealthBad \/ CleanupRemote(Adb)
    /\ SocketsFollow
    /\ UNCHANGED <<running, loop, waiting, active, ending>>

\* ClientHandshakeWatchdog's timeout passes.
WatchdogElapses ==
    /\ waiting = "set"
    /\ waiting' = "elapsed"
    /\ UNCHANGED <<vars, running, loop, active, intact, ending>>

-----------------------------------------------------------------------------
(* The Android client and the transport. *)

\* The client authenticates its channels over the mappings and the session
\* becomes active (EstablishSession).
ClientConnects ==
    /\ running /\ ~active
    /\ device \in mapped
    /\ Accepts(client[device])
    /\ active' = TRUE
    /\ intact' = TRUE
    /\ UNCHANGED <<vars, running, loop, waiting, ending>>

\* A channel loop of the active session sees its socket fail: the client was
\* killed or relaunched, the tablet went away, or a fault.  The loops run only
\* once EstablishSession has joined those of the session before.
ChannelFails(t) ==
    /\ active
    /\ ending = {} /\ \A c \in Callers : pc[c] = "idle"
    /\ \/ ~intact /\ UNCHANGED faults
       \/ Fault
    /\ active' = FALSE
    /\ ending' = {t}
    /\ intact' = FALSE
    /\ UNCHANGED <<session, threads, secrets, cable, remote, running, loop, waiting>>

\* The rest of EndSession: the loss is reported while the server runs.
ReportLoss(t) ==
    /\ t \in ending
    /\ ending' = ending \ {t}
    /\ IF running THEN NotifyChannelLoss(t) /\ UNCHANGED faults
                  ELSE UNCHANGED vars
    /\ UNCHANGED <<running, loop, waiting, active, intact>>

ThreadCleanup(t) ==
    /\ CleanupRemote(t)
    /\ SocketsFollow
    /\ UNCHANGED <<running, loop, waiting, active, ending>>

\* The user closes the app.
ClientExits ==
    /\ Fault
    /\ device # NoDevice
    /\ client' = [client EXCEPT ![device] = NoToken]
    /\ UNCHANGED <<session, threads, secrets, cable, mapped,
                   running, loop, waiting, active, ending>>
    /\ SocketsFollow

-----------------------------------------------------------------------------
(* Shutdown: DesktopServer::Stop clears running_, joins the adb thread, whose *)
(* loop stops the AdbSession on its way out.                                  *)

ShutDownServer ==
    /\ running
    /\ running' = FALSE
    /\ active' = FALSE
    /\ intact' = FALSE
    /\ UNCHANGED <<vars, loop, waiting, ending>>

\* Seeded fault: Stop forgets its last section.
StopSessionHalfway ==
    /\ loop = "over"
    /\ StopBegin
    /\ UNCHANGED <<running, loop, waiting, active, intact, ending>>

StopSession ==
    /\ loop = "over"
    /\ Stop
    /\ UNCHANGED <<running, loop, waiting, active, intact, ending>>

RetryPasses ==
    /\ RetryElapses
    /\ UNCHANGED <<running, loop, waiting, active, intact, ending>>

CableMoves ==
    /\ Replug
    /\ SocketsFollow
    /\ UNCHANGED <<running, loop, waiting, active, ending>>

AdbThread == LoopStart \/ LoopTick \/ LoopObserve \/ LoopFire \/ LoopExit \/ SessionStep

TransportThread(t) == ReportLoss(t) \/ ThreadCleanup(t)

LoopNext ==
    \/ AdbThread
    \/ WatchdogElapses
    \/ ClientConnects
    \/ \E t \in Callers : ChannelFails(t)
    \/ \E t \in Callers : TransportThread(t)
    \/ ThreadCleanup(Owner)
    \/ ClientExits
    \/ ShutDownServer
    \/ StopSession
    \/ RetryPasses
    \/ CableMoves

\* Threads keep running, time keeps passing, a broken socket is noticed, and
\* a client that can authenticate again and again does so before the watchdog
\* loses patience for ever.
LoopFairness ==
    /\ WF_loopVars(AdbThread)
    /\ WF_loopVars(WatchdogElapses)
    /\ WF_loopVars(RetryPasses)
    /\ \A t \in Callers : WF_loopVars(TransportThread(t))
    /\ WF_loopVars(\E t \in Callers : ChannelFails(t))
    /\ WF_loopVars(ThreadCleanup(Owner) \/ StopSession)
    /\ SF_loopVars(ClientConnects)

LoopSpec == LoopInit /\ [][LoopNext]_loopVars /\ LoopFairness

-----------------------------------------------------------------------------

\* However a loss, its slow cleanup, a retry and the watchdog interleave, the
\* link never gets stuck: as long as the server runs and a tablet is plugged
\* in, a session becomes active again.  This is what the watchdog is for: the
\* cleanup of an old loss can remove the mappings, or stop the client, of the
\* attempt that followed it.  (client_handshake_watchdog.h:8-11)
LinkRecovers == []<>(active \/ ~running \/ device = NoDevice)

\* Shutting down always ends with the session stopped, the adb thread out of
\* its loop and no token valid.  (desktop_server.cpp:479-515, 641)
ShutDownCompletes == ~running ~> (pc[Owner] = "gone" /\ state = "Stopped" /\ ~armed)
=============================================================================
