---------------------------- MODULE DesktopServer ----------------------------
(***************************************************************************)
(* The threads of the desktop server (desktop/src/app/desktop_server.cpp)  *)
(* and the session they share: the owner starts and stops the server, the  *)
(* accept thread establishes a session with the Android client, the adb    *)
(* thread lets it authenticate, and one loop per channel serves it.  Any   *)
(* loop, and the owner, may end the session.                               *)
(*                                                                         *)
(* The fields modelled are atomics or guarded by a mutex that no operation *)
(* holds across another's: a step is one locked section or one atomic      *)
(* access, so that EstablishSession and EndSession, which are sequences of *)
(* such sections, interleave with each other and with the loops.  How the  *)
(* adb thread gets a client to connect is the subject of AdbSession.       *)
(***************************************************************************)
EXTENDS Naturals, FiniteSets

CONSTANTS
    Sessions,       \* names of sessions, drawn anew when nothing refers to them
    NoSession,
    Epochs,         \* values of orientation_epoch_, which are only compared
    NoEpoch,
    MaxFaults,      \* bound: channels that fail, handshakes that fail, lost devices
    MaxEvents,      \* bound: rotations and input batches of the tablet
    MaxRuns,        \* bound: how often the owner starts the server
    Prompt          \* see Settled

ASSUME SessionAssumption == NoSession \notin Sessions

ASSUME BoundAssumption ==
    /\ MaxFaults \in Nat
    /\ MaxEvents \in Nat
    /\ MaxRuns \in Nat
    /\ Prompt \in BOOLEAN

ASSUME EpochAssumption == NoEpoch \notin Epochs /\ Epochs # {}

VARIABLES
    running,     \* running_
    active,      \* session_active_
    current,     \* the threads whose generation is still generation_
    sockets,     \* whose sockets control_, video_ and input_socket_ are
    open,        \* sessions whose sockets the host has not closed
    admits,      \* does AdbSession accept a token?
    pc,          \* what each thread does next
    own,         \* the session whose socket each loop holds
    fresh,       \* the session being established by the accept thread
    epoch,       \* orientation_epoch_
    mapper,      \* the epoch of input_'s coordinate mapper
    adapter,     \* the epoch of input_adapter_
    stamp,       \* the epoch of the contact in the hands of the input loop
    contact,     \* the session whose pen or finger is injected as down
    capturing,   \* is video_ started?
    pending,     \* the session for which pending_frame was encoded
    crossed,     \* has a session's socket carried a frame of another's?
    faults, events, runs

flags  == <<running, active, current>>
wires  == <<sockets, open, own, fresh>>
input  == <<epoch, mapper, adapter, stamp, contact>>
video  == <<capturing, pending, crossed>>
budget == <<faults, events, runs>>
vars   == <<flags, wires, admits, pc, input, video, budget>>

Channels == {"control", "video", "input"}
Threads  == Channels \cup {"owner", "accept", "adb"}

EndSteps       == {"claim", "retire", "close", "lift", "report", "stopvideo"}
EstablishSteps == {"video", "input", "capture", "configure", "adapter", "generation",
                   "publish", "activate", "join"}
LoopSteps      == {"begin", "check", "read", "socket", "adapt", "process",
                   "rotate", "map", "follow", "write", "encode"}
Steps == {"down", "up", "joining", "accept", "observe", "fire", "gone"}
         \cup EndSteps \cup EstablishSteps \cup LoopSteps

TypeOK ==
    /\ running \in BOOLEAN /\ active \in BOOLEAN /\ admits \in BOOLEAN
    /\ current \in SUBSET (Channels \cup {"accept"})
    /\ sockets \in Sessions \cup {NoSession}
    /\ open \in SUBSET Sessions
    /\ pc \in [Threads -> Steps]
    /\ pc["owner"] \in {"down", "up", "joining"} \cup EndSteps
    /\ pc["accept"] \in {"accept", "gone"} \cup EstablishSteps
    /\ pc["adb"] \in {"observe", "fire", "gone"}
    /\ \A c \in Channels : pc[c] \in {"gone"} \cup LoopSteps \cup EndSteps
    /\ own \in [Channels -> Sessions \cup {NoSession}]
    /\ fresh \in Sessions \cup {NoSession}
    /\ epoch \in Epochs /\ mapper \in Epochs /\ adapter \in Epochs
    /\ stamp \in Epochs \cup {NoEpoch}
    /\ contact \in Sessions \cup {NoSession}
    /\ capturing \in BOOLEAN /\ crossed \in BOOLEAN
    /\ pending \in Sessions \cup {NoSession}
    /\ faults \in 0..MaxFaults /\ events \in 0..MaxEvents /\ runs \in 0..MaxRuns

Init ==
    /\ running = FALSE /\ active = FALSE /\ admits = FALSE
    /\ current = {}
    /\ sockets = NoSession /\ fresh = NoSession
    /\ open = {}
    /\ pc = [t \in Threads |-> IF t = "owner" THEN "down" ELSE "gone"]
    /\ own = [c \in Channels |-> NoSession]
    /\ epoch = CHOOSE e \in Epochs : TRUE
    /\ mapper = epoch /\ adapter = epoch
    /\ stamp = NoEpoch
    /\ contact = NoSession
    /\ capturing = FALSE /\ crossed = FALSE
    /\ pending = NoSession
    /\ faults = MaxFaults /\ events = MaxEvents /\ runs = MaxRuns

-----------------------------------------------------------------------------

Goto(t, step) == pc' = [pc EXCEPT ![t] = step]

Fault == faults > 0 /\ faults' = faults - 1

\* A session name, or an epoch, that nothing refers to.
UnusedSessions ==
    Sessions \ (open \cup {sockets, fresh, contact, pending} \cup {own[c] : c \in Channels})
UnusedEpochs == Epochs \ {epoch, mapper, adapter, stamp}

NewSession == CHOOSE s \in UnusedSessions : TRUE
NewEpoch == CHOOSE e \in UnusedEpochs : TRUE

\* Under Prompt, a client takes longer to connect its three channels than the
\* loops of the session before take to notice that it has ended; those that run
\* the adb commands of EndSession, or wait for the video pipeline, may take for
\* ever.
Settled ==
    Prompt => \A c \in Channels : pc[c] \in {"gone", "report", "stopvideo"}

\* The generation check that the loops make before each round.
IsGenerationActive(c) == running /\ active /\ c \in current

-----------------------------------------------------------------------------
(* The owner: Start and Stop.  EndSession is a procedure; Return is where   *)
(* its callers go on.                                                       *)

Start ==
    /\ pc["owner"] = "down"
    /\ runs > 0
    /\ runs' = runs - 1
    /\ running' = TRUE
    /\ pc' = [pc EXCEPT !["owner"] = "up", !["accept"] = "accept", !["adb"] = "observe"]
    /\ UNCHANGED <<active, current, wires, admits, input, video, faults, events>>

Stop ==
    /\ pc["owner"] = "up"
    /\ running' = FALSE
    /\ Goto("owner", "claim")
    /\ UNCHANGED <<active, current, wires, admits, input, video, budget>>

\* Stop joins every thread, the accept thread first; those it can still spawn
\* are joined after it.
StopJoins ==
    /\ pc["owner"] = "joining"
    /\ \A t \in Threads \ {"owner"} : pc[t] = "gone"
    /\ admits' = FALSE
    /\ Goto("owner", "down")
    /\ UNCHANGED <<flags, wires, input, video, budget>>

-----------------------------------------------------------------------------
(* EndSession, by the owner or by a channel loop. *)

Enders == Channels \cup {"owner"}

\* Seeded fault: Stop returns without joining the threads.
ReturnUnjoined(t) == "gone"

Return(t) == IF t = "owner" THEN "joining" ELSE "gone"

\* Seeded fault: the session is not marked as ended.
EndClaimUnmarked(t) ==
    /\ pc[t] = "claim"
    /\ Goto(t, IF active THEN "retire" ELSE Return(t))
    /\ UNCHANGED <<flags, wires, admits, input, video, budget>>

\* session_active_.exchange(false): the first to come ends the session.
EndClaim(t) ==
    /\ pc[t] = "claim"
    /\ IF active
       THEN active' = FALSE /\ Goto(t, "retire")
       ELSE UNCHANGED active /\ Goto(t, Return(t))
    /\ UNCHANGED <<running, current, wires, admits, input, video, budget>>

EndRetire(t) ==
    /\ pc[t] = "retire"
    /\ current' = {}
    /\ Goto(t, "close")
    /\ UNCHANGED <<running, active, wires, admits, input, video, budget>>

\* The sockets are taken under socket_mutex_ and closed.
EndClose(t) ==
    /\ pc[t] = "close"
    /\ sockets' = NoSession
    /\ open' = open \ {sockets}
    /\ Goto(t, "lift")
    /\ UNCHANGED <<flags, own, fresh, admits, input, video, budget>>

\* input_.OnDisconnect.
EndLift(t) ==
    /\ pc[t] = "lift"
    /\ contact' = NoSession
    /\ Goto(t, "report")
    /\ UNCHANGED <<flags, wires, admits, epoch, mapper, adapter, stamp,
                   video, budget>>

\* NotifyChannelLoss: revokes the token, then runs adb commands.
EndReport(t) ==
    /\ pc[t] = "report"
    /\ admits' = (admits /\ ~running)
    /\ Goto(t, "stopvideo")
    /\ UNCHANGED <<flags, wires, input, video, budget>>

\* Seeded fault: the capture goes on.
EndVideoForgotten(t) ==
    /\ pc[t] = "stopvideo"
    /\ Goto(t, Return(t))
    /\ UNCHANGED <<flags, wires, admits, input, video, budget>>

EndVideo(t) ==
    /\ pc[t] = "stopvideo"
    /\ capturing' = FALSE
    /\ Goto(t, Return(t))
    /\ UNCHANGED <<flags, wires, admits, input, pending, crossed, budget>>

EndSession(t) ==
    EndClaim(t) \/ EndRetire(t) \/ EndClose(t) \/ EndLift(t)
    \/ EndReport(t) \/ EndVideo(t)

-----------------------------------------------------------------------------
(* The accept thread: AcceptLoop and EstablishSession. *)

AcceptExits ==
    /\ pc["accept"] = "accept"
    /\ ~running
    /\ Goto("accept", "gone")
    /\ UNCHANGED <<flags, wires, admits, input, video, budget>>

\* A client authenticates its control channel and the handshake succeeds.
AcceptControl ==
    /\ pc["accept"] = "accept"
    /\ running /\ ~active /\ admits
    /\ UnusedSessions # {}
    /\ fresh' = NewSession
    /\ open' = open \cup {NewSession}
    /\ Goto("accept", "video")
    /\ UNCHANGED <<flags, sockets, own, admits, input, video, budget>>

AcceptVideo ==
    /\ pc["accept"] = "video"
    /\ running /\ admits
    /\ Goto("accept", "input")
    /\ UNCHANGED <<flags, wires, admits, input, video, budget>>

AcceptInput ==
    /\ pc["accept"] = "input"
    /\ running /\ admits
    /\ Settled
    /\ Goto("accept", "capture")
    /\ UNCHANGED <<flags, wires, admits, input, video, budget>>

\* Seeded fault: a channel that was accepted is not closed.
GiveUpLeaking ==
    /\ fresh' = NoSession
    /\ Goto("accept", "accept")
    /\ UNCHANGED <<flags, sockets, open, own, admits, pending, crossed, events, runs>>

\* The candidate's sockets are closed and the accept loop goes on.
GiveUp ==
    /\ open' = open \ {fresh}
    /\ fresh' = NoSession
    /\ Goto("accept", "accept")
    /\ UNCHANGED <<flags, sockets, own, admits, pending, crossed, events, runs>>

\* Seeded fault: the wait for a channel ends neither with time nor with a Stop.
HandshakeBlocks ==
    /\ pc["accept"] \in {"video", "input"}
    /\ Fault
    /\ GiveUp
    /\ UNCHANGED <<input, capturing>>

\* A channel does not come, or with a token that is not valid any more.
HandshakeFails ==
    /\ pc["accept"] \in {"video", "input"}
    /\ \/ (~running \/ ~admits) /\ UNCHANGED faults
       \/ Fault
    /\ GiveUp
    /\ UNCHANGED <<input, capturing>>

StartCapture ==
    /\ pc["accept"] = "capture"
    /\ \/ /\ capturing' = TRUE
          /\ Goto("accept", "configure")
          /\ UNCHANGED <<wires, flags, admits, pending, crossed, budget>>
       \/ /\ capturing' = FALSE
          /\ Fault
          /\ GiveUp
    /\ UNCHANGED input

\* Seeded fault: the contacts of the session before stay down.
ConfigureInputUnlifted ==
    /\ pc["accept"] = "configure"
    /\ UnusedEpochs # {}
    /\ epoch' = NewEpoch
    /\ mapper' = NewEpoch
    /\ Goto("accept", "adapter")
    /\ UNCHANGED <<wires, flags, admits, video, budget, contact, adapter, stamp>>

\* ++orientation_epoch_; input_.Configure lifts every contact.
ConfigureInput ==
    /\ pc["accept"] = "configure"
    /\ UnusedEpochs # {}
    /\ epoch' = NewEpoch
    /\ contact' = NoSession
    /\ \/ /\ mapper' = NewEpoch
          /\ Goto("accept", "adapter")
          /\ UNCHANGED <<wires, flags, admits, video, budget>>
       \/ /\ capturing' = FALSE
          /\ UNCHANGED mapper
          /\ Fault
          /\ GiveUp
    /\ UNCHANGED <<adapter, stamp>>

ConfigureAdapter ==
    /\ pc["accept"] = "adapter"
    /\ adapter' = epoch
    /\ Goto("accept", "generation")
    /\ UNCHANGED <<flags, wires, admits, epoch, mapper, stamp, contact,
                   video, budget>>

\* Seeded fault: the session gets the generation of the one before.
NextGenerationForgotten ==
    /\ pc["accept"] = "generation"
    /\ Goto("accept", "publish")
    /\ UNCHANGED <<flags, wires, admits, input, video, budget>>

NextGeneration ==
    /\ pc["accept"] = "generation"
    /\ current' = {"accept"}
    /\ Goto("accept", "publish")
    /\ UNCHANGED <<running, active, wires, admits, input, video, budget>>

PublishSockets ==
    /\ pc["accept"] = "publish"
    /\ sockets' = fresh
    /\ Goto("accept", "activate")
    /\ UNCHANGED <<flags, open, own, fresh, admits, input, video, budget>>

Activate ==
    /\ pc["accept"] = "activate"
    /\ active' = TRUE
    /\ Goto("accept", "join")
    /\ UNCHANGED <<running, current, wires, admits, input, video, budget>>

\* The loops of the session before are joined, those of this one are spawned
\* with the generation of this one.
SpawnLoops ==
    /\ pc["accept"] = "join"
    /\ \A c \in Channels : pc[c] = "gone"
    /\ pc' = [t \in Threads |-> IF t \in Channels THEN "begin"
                                ELSE IF t = "accept" THEN "accept" ELSE pc[t]]
    /\ current' = IF "accept" \in current THEN Channels ELSE {}
    /\ fresh' = NoSession
    /\ UNCHANGED <<running, active, sockets, open, own, admits, input, video, budget>>

AcceptThread ==
    AcceptExits \/ AcceptControl \/ AcceptVideo \/ AcceptInput \/ HandshakeFails
    \/ StartCapture \/ ConfigureInput \/ ConfigureAdapter \/ NextGeneration
    \/ PublishSockets \/ Activate \/ SpawnLoops

-----------------------------------------------------------------------------
(* The adb thread, reduced to whether a client can authenticate. *)

AdbPublishes ==
    /\ pc["adb"] = "observe"
    /\ running /\ ~admits
    /\ admits' = TRUE
    /\ UNCHANGED <<flags, wires, pc, input, video, budget>>

AdbLoses ==
    /\ pc["adb"] = "observe"
    /\ admits /\ Fault
    /\ admits' = FALSE
    /\ UNCHANGED <<flags, wires, pc, input, video, events, runs>>

\* The handshake watchdog runs out of patience.
WatchdogObserves ==
    /\ pc["adb"] = "observe"
    /\ running /\ admits /\ ~active
    /\ Goto("adb", "fire")
    /\ UNCHANGED <<flags, wires, admits, input, video, budget>>

WatchdogFires ==
    /\ pc["adb"] = "fire"
    /\ admits' = FALSE
    /\ Goto("adb", "observe")
    /\ UNCHANGED <<flags, wires, input, video, budget>>

AdbExits ==
    /\ pc["adb"] = "observe"
    /\ ~running
    /\ admits' = FALSE
    /\ Goto("adb", "gone")
    /\ UNCHANGED <<flags, wires, input, video, budget>>

AdbThread == AdbPublishes \/ AdbLoses \/ WatchdogObserves \/ WatchdogFires \/ AdbExits

-----------------------------------------------------------------------------
(* The channel loops. *)

\* Seeded fault: the frame being sent outlives its loop.
LeaveKeepingFrame(c, step) ==
    /\ Goto(c, step)
    /\ own' = [own EXCEPT ![c] = NoSession]
    /\ UNCHANGED pending

\* A loop leaves: it drops its socket, and the frame it was sending.
Leave(c, step) ==
    /\ Goto(c, step)
    /\ own' = [own EXCEPT ![c] = NoSession]
    /\ pending' = IF c = "video" THEN NoSession ELSE pending

\* ControlLoop and InputLoop read their socket once, VideoLoop in each round.
LoopBegins(c) ==
    /\ pc[c] = "begin"
    /\ own' = IF c = "video" THEN own ELSE [own EXCEPT ![c] = sockets]
    /\ Goto(c, "check")
    /\ UNCHANGED <<flags, sockets, open, fresh, admits, input, video, budget>>

LoopChecks(c) ==
    /\ pc[c] = "check"
    /\ IF IsGenerationActive(c)
       THEN Goto(c, IF c = "video" THEN "socket" ELSE "read") /\ UNCHANGED <<own, pending>>
       ELSE Leave(c, "gone")
    /\ UNCHANGED <<flags, sockets, open, fresh, admits, input, capturing, crossed, budget>>

\* A read fails, or a frame that the loop does not accept arrives.
LoopFails(c) ==
    /\ pc[c] \in {"read", "write", "encode"}
    /\ \/ pc[c] # "encode" /\ own[c] \notin open /\ UNCHANGED faults
       \/ pc[c] = "encode" /\ ~capturing /\ UNCHANGED faults
       \/ Fault
    /\ Leave(c, "claim")
    /\ UNCHANGED <<flags, sockets, open, fresh, admits, input, capturing, crossed,
                   events, runs>>

\* A read times out, or a frame arrives that changes nothing here.
LoopIdles(c) ==
    /\ pc[c] = "read"
    /\ own[c] \in open
    /\ Goto(c, "check")
    /\ UNCHANGED <<flags, wires, admits, input, video, budget>>

\* OrientationChanged arrives and is handled in three sections:
\* ++orientation_epoch_, the mapper, the adapter.
RotationArrives ==
    /\ pc["control"] = "read"
    /\ own["control"] \in open
    /\ events > 0
    /\ events' = events - 1
    /\ Goto("control", "rotate")
    /\ UNCHANGED <<flags, wires, admits, input, video, faults, runs>>

Rotate ==
    /\ pc["control"] = "rotate"
    /\ UnusedEpochs # {}
    /\ epoch' = NewEpoch
    /\ Goto("control", "map")
    /\ UNCHANGED <<flags, wires, admits, mapper, adapter, stamp, contact,
                   video, budget>>

RotateMapper ==
    /\ pc["control"] = "map"
    /\ mapper' = epoch
    /\ contact' = NoSession
    /\ Goto("control", "follow")
    /\ UNCHANGED <<flags, wires, admits, epoch, adapter, stamp, video, budget>>

\* Seeded fault: a rotation does not reach the adapter.
RotateAdapterForgotten ==
    /\ pc["control"] = "follow"
    /\ Goto("control", "check")
    /\ UNCHANGED <<flags, wires, admits, input, video, budget>>

RotateAdapter ==
    /\ pc["control"] = "follow"
    /\ adapter' = epoch
    /\ Goto("control", "check")
    /\ UNCHANGED <<flags, wires, admits, epoch, mapper, stamp, contact,
                   video, budget>>

InputArrives ==
    /\ pc["input"] = "read"
    /\ own["input"] \in open
    /\ events > 0
    /\ events' = events - 1
    /\ Goto("input", "adapt")
    /\ UNCHANGED <<flags, wires, admits, input, video, faults, runs>>

\* The adapter stamps the batch with its epoch; NoEpoch is a batch that leaves
\* nothing in contact.
Adapt ==
    /\ pc["input"] = "adapt"
    /\ stamp' \in {adapter, NoEpoch}
    /\ Goto("input", "process")
    /\ UNCHANGED <<flags, wires, admits, epoch, mapper, adapter, contact,
                   video, budget>>

\* input_.Process; a batch of another epoch lifts every contact.
Process ==
    /\ pc["input"] = "process"
    /\ contact' = IF stamp = mapper THEN own["input"] ELSE NoSession
    /\ stamp' = NoEpoch
    /\ Goto("input", "check")
    /\ UNCHANGED <<flags, wires, admits, epoch, mapper, adapter,
                   video, budget>>

\* Each round of the video loop reads video_socket_ anew, after the check.
ReadVideoSocket ==
    /\ pc["video"] = "socket"
    /\ IF sockets = NoSession
       THEN Leave("video", "claim")
       ELSE /\ own' = [own EXCEPT !["video"] = sockets]
            /\ Goto("video", IF pending = NoSession THEN "encode" ELSE "write")
            /\ UNCHANGED pending
    /\ UNCHANGED <<flags, sockets, open, fresh, admits, input, capturing, crossed, budget>>

\* Some or all of the pending frame is written, or none when the peer is slow.
WriteFrame ==
    /\ pc["video"] = "write"
    /\ own["video"] \in open
    /\ \/ UNCHANGED <<pending, crossed>>
       \/ /\ crossed' = (crossed \/ pending # own["video"])
          /\ pending' \in {pending, NoSession}
    /\ Goto("video", "check")
    /\ UNCHANGED <<flags, wires, admits, input, capturing, budget>>

\* An access unit comes out of the encoder, or none does yet.
EncodeLatest ==
    /\ pc["video"] = "encode"
    /\ capturing
    /\ pending' \in {own["video"], NoSession}
    /\ Goto("video", "check")
    /\ UNCHANGED <<flags, wires, admits, input, capturing, crossed, budget>>

ControlLoop == RotationArrives \/ Rotate \/ RotateMapper \/ RotateAdapter
InputLoop   == InputArrives \/ Adapt \/ Process
VideoLoop   == ReadVideoSocket \/ WriteFrame \/ EncodeLatest

LoopThread(c) ==
    \/ LoopBegins(c) \/ LoopChecks(c) \/ LoopFails(c) \/ LoopIdles(c)
    \/ c = "control" /\ ControlLoop
    \/ c = "input" /\ InputLoop
    \/ c = "video" /\ VideoLoop

Next ==
    \/ Start \/ Stop \/ StopJoins
    \/ \E t \in Enders : EndSession(t)
    \/ AcceptThread
    \/ AdbThread
    \/ \E c \in Channels : LoopThread(c)

Spec == Init /\ [][Next]_vars

\* Every thread is scheduled, a client that can authenticate again and again
\* connects, and its further channels follow, before the token is revoked.
Fairness ==
    /\ WF_vars(EndSession("owner") \/ StopJoins)
    /\ \A c \in Channels : WF_vars(LoopThread(c) \/ EndSession(c))
    /\ WF_vars(AdbPublishes \/ WatchdogFires \/ AdbExits)
    /\ WF_vars(AcceptThread)
    /\ SF_vars(AcceptControl)
    /\ SF_vars(AcceptVideo)
    /\ SF_vars(AcceptInput)

FairSpec == Spec /\ Fairness

-----------------------------------------------------------------------------
(* Properties. *)

Establishing == pc["accept"] \in EstablishSteps

\* Who waits for a client, and who would notice that it has gone: an active
\* session that is not being established has all of its loops, with the current
\* generation, on the sockets that are published.
Supervised ==
    running /\ active /\ ~Establishing =>
        \A c \in Channels :
            /\ pc[c] # "gone"
            /\ c \in current
            /\ c # "video" /\ pc[c] \notin {"begin", "claim"} => own[c] = sockets

\* No socket is leaked and none is closed under a session: what is open is
\* published or in the hands of the accept thread.
SocketsAccountedFor ==
    /\ open \subseteq {sockets, fresh}
    /\ active => sockets \in open

\* Every session that is served is watched over, on sockets that are all there.
SessionSupervised == Supervised /\ SocketsAccountedFor

\* Once the input mapper is configured for a new session, nothing that an
\* earlier session's tablet did moves the pointer.
InputBelongsToSession ==
    /\ pc["accept"] \in {"adapter", "generation", "publish", "activate", "join"}
           => contact \in {NoSession, fresh}
    /\ active /\ ~Establishing => contact \in {NoSession, sockets}

\* The adapter stamps what the mapper accepts, except while a rotation, or the
\* establishment of a session, is under way: otherwise all input is dropped.
EpochsAgree ==
    active /\ ~Establishing /\ pc["control"] \notin {"map", "follow"} => mapper = adapter

\* No session's video channel carries a frame encoded for another.
FramesBelongToSession == ~crossed

\* When nobody is ending a session and none is active, none is captured.
CaptureEnds ==
    ~active /\ ~Establishing /\ (\A t \in Enders : pc[t] \notin EndSteps) => ~capturing

\* Whatever outlives a session is its own: contacts, epochs, frames, the capture.
BelongsToSession ==
    InputBelongsToSession /\ EpochsAgree /\ FramesBelongToSession /\ CaptureEnds

\* The session that the loop of a channel acts for, or will once it has read its
\* socket, which the video loop does anew in every round.
Reach(c) ==
    IF active \/ pc["accept"] = "join" THEN sockets
    ELSE IF pc[c] \notin LoopSteps THEN NoSession
    ELSE IF own[c] = NoSession /\ (c = "video" \/ pc[c] = "begin") THEN sockets
    ELSE own[c]

Serving == IF active THEN sockets ELSE NoSession

Promise == INSTANCE ServedSession WITH
    serving <- Serving,
    reach   <- [c \in Channels |-> Reach(c)],
    pointer <- contact,
    frame   <- pending

\* However the loops, the accept thread and the owner interleave, one session at a
\* time is served, and nothing of it is left when the next one is.
ServesInTurn == Promise!Spec

\* All synthetic input is torn down with the session: once it has ended and the
\* input loop is gone, nothing is held down.  (desktop_server.h:60-62)
InputTornDown ==
    ~active /\ ~Establishing /\ pc["input"] = "gone"
    /\ (\A t \in Enders : pc[t] \notin EndSteps) => contact = NoSession

Served == active /\ \A c \in Channels : pc[c] \notin {"gone"} \cup EndSteps

\* Whenever the server runs a session is served again, however the end of one,
\* its slow cleanup and the establishment of the next interleave.
SessionRecovers == []<>(Served \/ ~running)

\* Stop always returns: no thread it joins waits for another for ever.
\* (desktop_server.cpp:479-515)
StopCompletes == pc["owner"] = "claim" ~> pc["owner"] = "down"
=============================================================================
