------------------------------ MODULE AdbSession ------------------------------
(***************************************************************************)
(* The ADB session of the desktop server (desktop/src/adb/session.cpp):    *)
(* one thread selects the device, installs the reverse mappings, publishes *)
(* a one-time token and launches the Android client; any transport thread  *)
(* may report a lost channel, and an owner stops the session.              *)
(*                                                                         *)
(* Every method holds mutex_ for short sections and runs adb commands      *)
(* between them, so a step below is one locked section or one adb command. *)
(* NotifyChannelLoss and Stop clean the device up after they released the  *)
(* lock (CleanupRemote): those commands interleave with a newer attempt.   *)
(***************************************************************************)
EXTENDS Naturals

CONSTANTS
    Callers,         \* transport threads that may call NotifyChannelLoss
    Adb,             \* the thread that calls Start and Tick
    Owner,           \* the thread that calls Stop
    Devices,         \* serial numbers of tablets
    NoDevice,
    Tokens,          \* what GenerateSessionToken can draw; it never repeats itself
    NoToken,
    Recycle,         \* reduction: may a token that no client holds be drawn again?
    MaxAttempts,     \* cap of the backoff's failure count (SIZE_MAX in the code)
    MaxFaults,       \* bound: failing commands and lost channels
    MaxReplugs,      \* bound: how often the device goes away or is exchanged
    ConcurrentStop   \* may Stop overlap an attempt, as adb_tests.cpp does?

ASSUME ThreadAssumption ==
    /\ Adb # Owner
    /\ {Adb, Owner} \cap Callers = {}

ASSUME DeviceAssumption == NoDevice \notin Devices

ASSUME TokenAssumption == NoToken \notin Tokens /\ Recycle \in BOOLEAN

ASSUME BoundAssumption ==
    /\ MaxAttempts \in Nat \ {0}
    /\ MaxFaults \in Nat
    /\ MaxReplugs \in Nat
    /\ ConcurrentStop \in BOOLEAN

VARIABLES
    state,       \* snapshot_.state
    armed,       \* authentication_armed_
    token,       \* session_token_, NoToken when reset
    serial,      \* snapshot_.serial
    shutdown,    \* shutdown_requested_
    attempts,    \* backoff_.attempts_
    due,         \* has snapshot_.next_retry passed?
    cancelled,   \* was a stop requested of stop_source_?
    pc,          \* what each thread does next
    target,      \* the serial each thread passes to its adb commands
    drawn,       \* generated_token of the last attempt that published one
    used,        \* the tokens published so far
    device,      \* the one authorised device adb lists, or NoDevice
    mapped,      \* devices with reverse mappings: all of them, or those of a failed attempt
    client,      \* per device, the token its running client holds, or NoToken
    faults,      \* failing commands and lost channels left
    replugs      \* device changes left

session == <<state, armed, token, serial, shutdown, attempts, due, cancelled>>
threads == <<pc, target>>
secrets == <<drawn, used>>
remote  == <<mapped, client>>
cable   == <<device, replugs>>
vars    == <<session, threads, secrets, cable, remote, faults>>

Threads == Callers \cup {Adb, Owner}

SessionStates == {"Stopped", "Starting", "Connected", "Reconnecting", "Stopping"}

AttemptSteps == {"select", "reverse", "publish", "launch", "launched"}
CleanupSteps == {"snap", "kill", "unmap"}
Steps == {"idle", "health", "final", "gone"} \cup AttemptSteps \cup CleanupSteps

TypeOK ==
    /\ state \in SessionStates
    /\ armed \in BOOLEAN
    /\ token \in Tokens \cup {NoToken}
    /\ serial \in Devices \cup {NoDevice}
    /\ shutdown \in BOOLEAN
    /\ attempts \in 0..MaxAttempts
    /\ due \in BOOLEAN
    /\ cancelled \in BOOLEAN
    /\ pc \in [Threads -> Steps]
    /\ target \in [Threads -> Devices \cup {NoDevice}]
    /\ drawn \in Tokens \cup {NoToken}
    /\ used \in SUBSET Tokens
    /\ device \in Devices \cup {NoDevice}
    /\ mapped \in SUBSET Devices
    /\ client \in [Devices -> Tokens \cup {NoToken}]
    /\ faults \in 0..MaxFaults
    /\ replugs \in 0..MaxReplugs

Init ==
    /\ state = "Stopped"
    /\ armed = FALSE
    /\ token = NoToken
    /\ serial = NoDevice
    /\ shutdown = FALSE
    /\ attempts = 0
    /\ due = TRUE
    /\ cancelled = FALSE
    /\ pc = [t \in Threads |-> "idle"]
    /\ target = [t \in Threads |-> NoDevice]
    /\ drawn = NoToken
    /\ used = {}
    /\ device \in Devices \cup {NoDevice}
    /\ mapped = {}
    /\ client = [d \in Devices |-> NoToken]
    /\ faults = MaxFaults
    /\ replugs = MaxReplugs

-----------------------------------------------------------------------------
(* Helpers shared by the operations. *)

Goto(t, step) == pc' = [pc EXCEPT ![t] = step]

Fault == faults > 0 /\ faults' = faults - 1

\* An adb command of the attempt fails: the device is not the selected one
\* any more, the attempt's stop source was triggered, or adb itself failed.
CommandFails ==
    \/ (device # target[Adb] \/ cancelled) /\ UNCHANGED faults
    \/ Fault

\* Seeded fault: the failure count has no cap.
UncappedFailures(n) == n + 1

Saturated(n) == IF n < MaxAttempts THEN n + 1 ELSE n

\* Seeded faults: a transition forgets to revoke, or only disarms.
RevokeNothing == UNCHANGED <<armed, token>>
RevokeKeepsToken == armed' = FALSE /\ UNCHANGED token

Revoke ==
    /\ armed' = FALSE
    /\ token' = NoToken

\* Seeded fault: the token is not accepted before the launch has returned.
AcceptsOnceConnected(t) == state = "Connected" /\ armed /\ t = token

\* ValidateSessionToken: t authenticates a channel now.
Accepts(t) ==
    /\ state \in {"Starting", "Connected"}
    /\ armed
    /\ token # NoToken
    /\ t = token

\* The section that begins an attempt, common to Start and Tick.
BeginAttempt ==
    /\ state' = "Starting"
    /\ Revoke
    /\ cancelled' = FALSE
    /\ Goto(Adb, "select")
    /\ UNCHANGED <<serial, shutdown, attempts, due, target, secrets, cable, remote, faults>>

\* The attempt failed: the retry is scheduled, or the shutdown acknowledged.
ScheduleReconnect ==
    /\ Revoke
    /\ IF shutdown
       THEN /\ state' = "Stopped"
            /\ UNCHANGED <<attempts, due>>
       ELSE /\ state' = "Reconnecting"
            /\ attempts' = Saturated(attempts)
            /\ due' = FALSE
    /\ Goto(Adb, "idle")
    /\ UNCHANGED <<serial, shutdown, cancelled, target, secrets, cable, client>>

\* The locked section of NotifyChannelLoss; the cleanup follows unlocked.
NotifyChannelLoss(t) ==
    IF shutdown \/ state = "Stopped"
    THEN /\ Goto(t, "idle")
         /\ UNCHANGED <<session, target, secrets, cable, remote>>
    ELSE /\ state' = "Reconnecting"
         /\ Revoke
         /\ cancelled' = TRUE
         /\ attempts' = Saturated(attempts)
         /\ due' = FALSE
         /\ Goto(t, IF serial # NoDevice THEN "snap" ELSE "idle")
         /\ UNCHANGED <<serial, shutdown, target, secrets, cable, remote>>

-----------------------------------------------------------------------------
(* The adb thread: Start, Tick and AttemptConnect. *)

Start ==
    /\ pc[Adb] = "idle"
    /\ ~shutdown
    /\ state \notin {"Connected", "Starting", "Stopping"}
    /\ BeginAttempt

TickRetry ==
    /\ pc[Adb] = "idle"
    /\ ~shutdown
    /\ state = "Reconnecting" /\ due
    /\ BeginAttempt

TickHealth ==
    /\ pc[Adb] = "idle"
    /\ ~shutdown
    /\ state = "Connected"
    /\ target' = [target EXCEPT ![Adb] = serial]
    /\ Goto(Adb, "health")
    /\ UNCHANGED <<session, secrets, cable, remote, faults>>

HealthOk ==
    /\ pc[Adb] = "health"
    /\ device = target[Adb]
    /\ Goto(Adb, "idle")
    /\ UNCHANGED <<session, target, secrets, cable, remote, faults>>

HealthBad ==
    /\ pc[Adb] = "health"
    /\ \/ device # target[Adb] /\ UNCHANGED faults
       \/ Fault
    /\ NotifyChannelLoss(Adb)

SelectDevice ==
    /\ pc[Adb] = "select"
    /\ \/ /\ device # NoDevice
          /\ serial' = device
          /\ target' = [target EXCEPT ![Adb] = device]
          /\ Goto(Adb, "reverse")
          /\ UNCHANGED <<state, armed, token, shutdown, attempts, due, cancelled,
                         secrets, cable, remote, faults>>
       \/ /\ \/ (device = NoDevice \/ cancelled) /\ UNCHANGED faults
             \/ Fault
          /\ ScheduleReconnect
          /\ UNCHANGED mapped

\* Three mappings, one command each; the attempt gives up at the first that
\* fails and leaves those before it installed.
InstallReverse ==
    /\ pc[Adb] = "reverse"
    /\ \/ /\ device = target[Adb]
          /\ mapped' = mapped \cup {device}
          /\ Goto(Adb, "publish")
          /\ UNCHANGED <<session, target, secrets, cable, client, faults>>
       \/ /\ CommandFails
          /\ ScheduleReconnect
          /\ \/ UNCHANGED mapped
             \/ device = target[Adb] /\ mapped' = mapped \cup {device}

\* The tokens that GenerateSessionToken will not draw: those used before or,
\* under the reduction, those a client could still present.
Spent == IF Recycle THEN {client[d] : d \in Devices} \ {NoToken} ELSE used

Fresh == CHOOSE t \in Tokens : t \notin Spent

\* GenerateSessionToken may fail; otherwise the token is published, unless
\* the attempt was overtaken by a loss or a shutdown.
PublishToken ==
    /\ pc[Adb] = "publish"
    /\ \/ /\ ~shutdown /\ state = "Starting"
          /\ Tokens \ Spent # {}
          /\ drawn' = Fresh
          /\ used' = Spent \cup {Fresh}
          /\ token' = Fresh
          /\ armed' = TRUE
          /\ Goto(Adb, "launch")
          /\ UNCHANGED <<state, serial, shutdown, attempts, due, cancelled,
                         target, cable, remote, faults>>
       \/ /\ shutdown \/ state # "Starting"
          /\ Goto(Adb, "idle")
          /\ UNCHANGED <<session, target, secrets, cable, remote, faults>>
       \/ Fault /\ ScheduleReconnect /\ UNCHANGED mapped

\* "am start -S" reaches the device before the command returns; the client
\* it starts holds the token of this attempt, revoked or not.
LaunchDelivered ==
    /\ pc[Adb] = "launch"
    /\ device = target[Adb]
    /\ client' = [client EXCEPT ![device] = drawn]
    /\ Goto(Adb, "launched")
    /\ UNCHANGED <<session, target, secrets, cable, mapped, faults>>

\* Seeded fault: a loss during the launch command goes unnoticed.
LaunchReturnsUnchecked ==
    /\ pc[Adb] = "launched"
    /\ Goto(Adb, "idle")
    /\ state' = "Connected"
    /\ attempts' = 0
    /\ due' = TRUE
    /\ UNCHANGED <<armed, token, serial, shutdown, cancelled>>
    /\ UNCHANGED <<target, secrets, cable, remote, faults>>

LaunchReturns ==
    /\ pc[Adb] = "launched"
    /\ Goto(Adb, "idle")
    /\ IF shutdown \/ state # "Starting" \/ ~armed
       THEN UNCHANGED session
       ELSE /\ state' = "Connected"
            /\ attempts' = 0
            /\ due' = TRUE
            /\ UNCHANGED <<armed, token, serial, shutdown, cancelled>>
    /\ UNCHANGED <<target, secrets, cable, remote, faults>>

LaunchFails ==
    /\ pc[Adb] \in {"launch", "launched"}
    /\ CommandFails
    /\ ScheduleReconnect
    /\ UNCHANGED mapped

AttemptConnect ==
    SelectDevice \/ InstallReverse \/ PublishToken
    \/ LaunchDelivered \/ LaunchReturns \/ LaunchFails

Tick == TickRetry \/ TickHealth \/ HealthOk \/ HealthBad

-----------------------------------------------------------------------------
(* NotifyChannelLoss by a transport thread, and the unlocked cleanup. *)

ChannelLost(t) ==
    /\ pc[t] = "idle"
    /\ Fault
    /\ NotifyChannelLoss(t)

\* CleanupRemote reads the serial anew, under the lock.
CleanupSnapshot(t) ==
    /\ pc[t] = "snap"
    /\ target' = [target EXCEPT ![t] = serial]
    /\ Goto(t, IF serial # NoDevice THEN "kill"
               ELSE IF t = Owner THEN "final" ELSE "idle")
    /\ UNCHANGED <<session, secrets, cable, remote, faults>>

\* am force-stop; its failure is ignored.
CleanupKill(t) ==
    /\ pc[t] = "kill"
    /\ client' = IF device = target[t] THEN [client EXCEPT ![device] = NoToken]
                                       ELSE client
    /\ Goto(t, "unmap")
    /\ UNCHANGED <<session, target, secrets, cable, mapped, faults>>

CleanupUnmap(t) ==
    /\ pc[t] = "unmap"
    /\ mapped' = IF device = target[t] THEN mapped \ {device} ELSE mapped
    /\ Goto(t, IF t = Owner THEN "final" ELSE "idle")
    /\ UNCHANGED <<session, target, secrets, cable, client, faults>>

CleanupRemote(t) == CleanupSnapshot(t) \/ CleanupKill(t) \/ CleanupUnmap(t)

-----------------------------------------------------------------------------
(* The owner. *)

\* Seeded fault: Stop cleans up after an established link only.
StopBeginConnectedOnly ==
    /\ pc[Owner] = "idle"
    /\ ConcurrentStop \/ pc[Adb] = "idle"
    /\ shutdown' = TRUE
    /\ state' = "Stopping"
    /\ Revoke
    /\ cancelled' = TRUE
    /\ Goto(Owner, IF state = "Connected" THEN "snap" ELSE "final")
    /\ UNCHANGED <<serial, attempts, due, target, secrets, cable, remote, faults>>

StopBegin ==
    /\ pc[Owner] = "idle"
    /\ ConcurrentStop \/ pc[Adb] = "idle"
    /\ shutdown' = TRUE
    /\ state' = "Stopping"
    /\ Revoke
    /\ cancelled' = TRUE
    /\ Goto(Owner, IF serial # NoDevice THEN "snap" ELSE "final")
    /\ UNCHANGED <<serial, attempts, due, target, secrets, cable, remote, faults>>

StopEnd ==
    /\ pc[Owner] = "final"
    /\ state' = "Stopped"
    /\ serial' = NoDevice
    /\ due' = TRUE
    /\ Goto(Owner, "gone")
    /\ UNCHANGED <<armed, token, shutdown, attempts, cancelled, target, secrets,
                   cable, remote, faults>>

Stop == StopBegin \/ StopEnd

-----------------------------------------------------------------------------
(* The environment: time passes and the cable is pulled or moved; the adb  *)
(* server drops the reverse mappings of a device that goes away.           *)

RetryElapses ==
    /\ ~due
    /\ due' = TRUE
    /\ UNCHANGED <<state, armed, token, serial, shutdown, attempts, cancelled,
                   threads, secrets, cable, remote, faults>>

Replug ==
    /\ replugs > 0
    /\ replugs' = replugs - 1
    /\ device' \in (Devices \cup {NoDevice}) \ {device}
    /\ mapped' = mapped \ {device}
    /\ UNCHANGED <<session, threads, secrets, client, faults>>

AdbStep == Start \/ Tick \/ AttemptConnect

Next ==
    \/ AdbStep
    \/ \E t \in Callers : ChannelLost(t)
    \/ \E t \in Threads : CleanupRemote(t)
    \/ Stop
    \/ RetryElapses
    \/ Replug

Spec == Init /\ [][Next]_vars

-----------------------------------------------------------------------------
(* The session implements the abstract link. *)

LinkState ==
    IF shutdown THEN "stopped"
    ELSE CASE state = "Starting"     -> "launching"
           [] state = "Connected"    -> "up"
           [] state = "Reconnecting" -> "down"
           [] OTHER                  -> "idle"

Link == INSTANCE AdbLink WITH link <- LinkState, auth <- token, used <- used

\* Whatever the interleaving of losses, retries and shutdown, the session
\* behaves as the abstract link does.  (session.cpp, every transition)
ImplementsLink == Link!Spec

\* The token that authenticates channels is the one the last attempt drew;
\* it does so only while that attempt is launching the client or is connected,
\* and nothing authenticates after a loss, a failed attempt or a shutdown.
\* (session.cpp:127-145, ValidateSessionToken; session.h:74-77)
TokenDiscipline ==
    /\ armed <=> token # NoToken
    /\ armed => /\ token = drawn
                /\ token \in used
                /\ state \in {"Starting", "Connected"}
                /\ ~shutdown
    /\ state = "Connected" => armed
    /\ shutdown => state \in {"Stopping", "Stopped"}
    /\ pc[Adb] \in {"select", "reverse", "publish"} => ~armed

\* A token that does not authenticate any more never authenticates again: a
\* client left over from an earlier launch cannot join a later session.
RevokedForGood ==
    [][\A t \in used : ~Accepts(t) => ~Accepts(t)']_vars

\* Android can authenticate while "am start" is blocked, and as long as the
\* session is connected (session.h:74-77): unless a loss or a shutdown came
\* in between, the token just handed to the client is the one that is valid.
LaunchAuthenticates ==
    \/ pc[Adb] \in {"launch", "launched"} /\ state = "Starting"
    \/ state = "Connected"
    => Accepts(drawn)

\* When Stop has returned on a session whose adb thread was joined, as
\* DesktopServer does, the tablet runs no client and has no mapping left, even
\* if a lost channel was being cleaned up at the same time and whichever step
\* of the last attempt had failed.  (A tablet that was unplugged meanwhile
\* cannot be cleaned up.)
\* (session.cpp:82-105, 252-260; desktop_server.cpp:641)
StopLeavesDeviceClean ==
    pc[Owner] = "gone" /\ device # NoDevice /\ replugs = MaxReplugs =>
        client[device] = NoToken /\ device \notin mapped
=============================================================================
