------------------------- MODULE DesktopServerProofs -------------------------
(***************************************************************************)
(* Proofs about the desktop server's threads, for any set of sessions and  *)
(* epochs, any number of faults, rotations and input batches: the session  *)
(* that is served has its loops and its sockets, and what outlives a       *)
(* session - contacts, epochs, frames, the capture - is its own.  Prompt   *)
(* is a hypothesis: the loops of a session notice its end before the three *)
(* channels of the next are there.                                         *)
(***************************************************************************)
EXTENDS DesktopServer, TLAPS

\* EndSession past its claim.
Ending == {"retire", "close", "lift", "report", "stopvideo"}

\* EstablishSession up to Activate.
Preparing == EstablishSteps \ {"join"}

\* While a session is prepared none is active and the owner has none to end; when
\* its third channel is there, the loops before have left the session's state.
Phases ==
    /\ running <=> pc["owner"] = "up"
    /\ pc["owner"] = "down" => \A t \in Threads \ {"owner"} : pc[t] = "gone"
    /\ fresh = NoSession <=> pc["accept"] \notin EstablishSteps
    /\ pc["accept"] \in Preparing => ~active
    /\ active \/ pc["accept"] \in Preparing => pc["owner"] \notin Ending
    /\ pc["accept"] \in EstablishSteps \ {"video", "input"} =>
          \A c \in Channels : pc[c] \in {"gone", "report", "stopvideo"}
    /\ active => \A c \in Channels : pc[c] \notin {"retire", "close", "lift"}
    /\ active /\ ~Establishing => \A c \in Channels : pc[c] \notin Ending

\* The generation of an active session, or of one about to be, is not retired.
Generations ==
    /\ pc["accept"] \in {"publish", "activate"} => "accept" \in current
    /\ pc["accept"] = "join" /\ active => "accept" \in current
    /\ active /\ ~Establishing => Channels \subseteq current

\* Which sockets are open: those published until someone has closed them, and the
\* candidate's.
Sockets ==
    /\ SocketsAccountedFor
    /\ pc["accept"] \in Preparing => fresh \in open
    /\ pc["accept"] \in Preparing \ {"activate"} => sockets # fresh
    /\ pc["accept"] = "activate" => sockets = fresh
    /\ pc["accept"] = "join" => sockets = fresh \/ fresh \notin open
    /\ pc["accept"] = "join" /\ active => sockets = fresh
    /\ sockets \in open /\ ~active /\ pc["accept"] # "activate" =>
          \E t \in Enders : pc[t] \in {"retire", "close"}

\* What the loops hold: sockets that are published, or nothing; a frame that
\* belongs to the socket.
Holdings ==
    /\ \A c \in Channels : pc[c] \notin LoopSteps => own[c] = NoSession
    /\ active => \A c \in Channels \ {"video"} : pc[c] \in LoopSteps \ {"begin"} => own[c] = sockets
    /\ pc["video"] \in LoopSteps =>
          own["video"] = NoSession \/ sockets \in {NoSession, own["video"]}
    /\ pending \in {NoSession, own["video"]}
    /\ pc["video"] = "write" => pending # NoSession
    /\ FramesBelongToSession

\* Mapper and adapter, while one of them is behind.
Epoch ==
    /\ pc["control"] = "follow" => mapper = epoch
    /\ pc["accept"] = "adapter" => mapper = epoch
    /\ pc["accept"] \in {"generation", "publish", "activate", "join"} => mapper = adapter
    /\ EpochsAgree

\* A capture belongs to an active session, to one being established, or to one
\* that someone is ending.
Captures ==
    capturing =>
        \/ active
        \/ pc["accept"] \in {"configure", "adapter", "generation", "publish", "activate"}
        \/ \E t \in Enders : pc[t] \in Ending

ServerInv ==
    TypeOK /\ Phases /\ Generations /\ Sockets /\ Holdings /\ Epoch /\ InputBelongsToSession /\ Captures

\* With a server started once no loop of an active session has left.
Alive ==
    /\ runs > 0 => pc["owner"] = "down" /\ ~active
    /\ running /\ active /\ ~Establishing => \A c \in Channels : pc[c] # "gone"
-----------------------------------------------------------------------------
(***************************************************************************)
(* Init, and the ranges of the variables, whether Prompt or not.           *)
(***************************************************************************)

\* A name that is drawn is one that nothing has.
LEMMA FreshNames ==
    /\ UnusedSessions # {} => NewSession \in UnusedSessions
    /\ UnusedEpochs # {} => NewEpoch \in Epochs
BY DEF NewSession, NewEpoch, UnusedEpochs

\* Where a thread may be.
Places(t) ==
    IF t = "owner" THEN {"down", "up", "joining"} \cup EndSteps
    ELSE IF t = "accept" THEN {"accept", "gone"} \cup EstablishSteps
    ELSE IF t = "adb" THEN {"observe", "fire", "gone"}
    ELSE {"gone"} \cup LoopSteps \cup EndSteps

PcTyped == pc \in [Threads -> Steps] /\ \A t \in Threads : pc[t] \in Places(t)

FlagsTyped ==
    /\ running \in BOOLEAN /\ active \in BOOLEAN /\ admits \in BOOLEAN
    /\ capturing \in BOOLEAN /\ crossed \in BOOLEAN

NamesTyped ==
    /\ current \in SUBSET (Channels \cup {"accept"})
    /\ sockets \in Sessions \cup {NoSession} /\ fresh \in Sessions \cup {NoSession}
    /\ open \in SUBSET Sessions
    /\ own \in [Channels -> Sessions \cup {NoSession}]
    /\ contact \in Sessions \cup {NoSession} /\ pending \in Sessions \cup {NoSession}

EpochsTyped ==
    /\ epoch \in Epochs /\ mapper \in Epochs /\ adapter \in Epochs
    /\ stamp \in Epochs \cup {NoEpoch}

BudgetTyped == faults \in 0..MaxFaults /\ events \in 0..MaxEvents /\ runs \in 0..MaxRuns

DataTyped == FlagsTyped /\ NamesTyped /\ EpochsTyped /\ BudgetTyped

LEMMA ThreadNames ==
    /\ \A t \in Threads : t \in Enders \/ t \in {"accept", "adb"}
    /\ Channels \subseteq Enders /\ Enders \subseteq Threads
    /\ \A c \in Channels : c \notin {"owner", "accept", "adb"}
    /\ {"owner", "accept", "adb"} \subseteq Threads
BY DEF Threads, Enders, Channels

LEMMA TypeSplits == TypeOK <=> PcTyped /\ DataTyped
<1>1. PcTyped <=> /\ pc \in [Threads -> Steps]
                  /\ pc["owner"] \in {"down", "up", "joining"} \cup EndSteps
                  /\ pc["accept"] \in {"accept", "gone"} \cup EstablishSteps
                  /\ pc["adb"] \in {"observe", "fire", "gone"}
                  /\ \A c \in Channels : pc[c] \in {"gone"} \cup LoopSteps \cup EndSteps
    BY DEF PcTyped, Places, Threads, Channels
<1> QED
    BY <1>1 DEF TypeOK, DataTyped, FlagsTyped, NamesTyped, EpochsTyped, BudgetTyped

\* A thread goes on, and the others stay where they are.
LEMMA Moves ==
    ASSUME PcTyped, NEW t \in Threads, NEW step \in Places(t), Goto(t, step)
    PROVE  /\ PcTyped'
           /\ pc'[t] = step
           /\ \A u \in Threads : u # t => pc'[u] = pc[u]
<1>1. step \in Steps
    BY DEF Places, Steps
<1>2. pc'[t] = step /\ \A u \in Threads : u # t => pc'[u] = pc[u]
    BY DEF PcTyped, Goto
<1>3. pc' \in [Threads -> Steps]
    BY <1>1 DEF PcTyped, Goto
<1>4. \A u \in Threads : pc'[u] \in Places(u)
    BY <1>2 DEF PcTyped
<1> QED
    BY <1>2, <1>3, <1>4 DEF PcTyped

\* What a round of a loop does to the state it shares with the other threads.
LoopMoves(c, step) ==
    /\ pc[c] \in LoopSteps /\ Goto(c, step)
    /\ step \in (LoopSteps \ {"begin"}) \cup {"claim", "gone"}
    /\ step = "gone" => ~IsGenerationActive(c)
    /\ UNCHANGED <<flags, sockets, open, fresh, admits, capturing, runs>>

LEMMA LoopsMove ==
    ASSUME NEW c \in Channels, LoopThread(c)
    PROVE  \E step \in Steps : LoopMoves(c, step)
<1> USE DEF LoopMoves, Steps, LoopSteps, EndSteps, flags, wires, video, budget
<1>1. CASE LoopBegins(c) \/ LoopIdles(c)
    BY <1>1 DEF LoopBegins, LoopIdles
<1>2. CASE LoopChecks(c)
    <2>1. CASE IsGenerationActive(c)
        <3>1. Goto(c, "socket") \/ Goto(c, "read")
            BY <1>2, <2>1 DEF LoopChecks
        <3> QED
            BY <1>2, <2>1, <3>1 DEF LoopChecks
    <2>2. CASE ~IsGenerationActive(c)
        BY <1>2, <2>2 DEF LoopChecks, Leave
    <2> QED
        BY <2>1, <2>2
<1>6. CASE LoopFails(c)
    <2>1. pc[c] \in LoopSteps /\ Goto(c, "claim")
        BY <1>6 DEF LoopFails, Leave
    <2>2. UNCHANGED <<flags, sockets, open, fresh, admits, capturing, runs>>
        BY <1>6 DEF LoopFails
    <2> QED
        BY <2>1, <2>2
<1>3. CASE c = "control" /\ ControlLoop
    BY <1>3 DEF ControlLoop, RotationArrives, Rotate, RotateMapper, RotateAdapter
<1>4. CASE c = "input" /\ InputLoop
    BY <1>4 DEF InputLoop, InputArrives, Adapt, Process
<1>5. CASE c = "video" /\ VideoLoop
    <2>1. CASE ReadVideoSocket
        <3>1. Goto("video", "claim") \/ Goto("video", "encode") \/ Goto("video", "write")
            BY <2>1 DEF ReadVideoSocket, Leave
        <3>2. pc["video"] = "socket"
              /\ UNCHANGED <<flags, sockets, open, fresh, admits, capturing, runs>>
            BY <2>1 DEF ReadVideoSocket
        <3> QED
            BY <1>5, <3>1, <3>2
    <2>2. CASE WriteFrame \/ EncodeLatest
        BY <1>5, <2>2 DEF WriteFrame, EncodeLatest
    <2> QED
        BY <1>5, <2>1, <2>2 DEF VideoLoop
<1> QED
    BY <1>1, <1>2, <1>3, <1>4, <1>5, <1>6 DEF LoopThread

\* Where the thread goes that takes a step of EndSession.
LEMMA EndersMove ==
    ASSUME NEW t \in Enders, EndSession(t)
    PROVE  \E step \in EndSteps \cup {Return(t)} : Goto(t, step) /\ pc[t] \in EndSteps
BY DEF EndSession, EndClaim, EndRetire, EndClose, EndLift, EndReport, EndVideo, EndSteps

\* Where the accept thread goes.
LEMMA AcceptMoves ==
    ASSUME AcceptThread
    PROVE  \/ SpawnLoops
           \/ \E step \in {"accept", "gone"} \cup EstablishSteps : Goto("accept", step)
<1> USE DEF EstablishSteps
<1>1. CASE AcceptExits \/ AcceptControl \/ AcceptVideo \/ AcceptInput
    BY <1>1 DEF AcceptExits, AcceptControl, AcceptVideo, AcceptInput
<1>2. CASE HandshakeFails \/ StartCapture \/ ConfigureInput
    BY <1>2 DEF HandshakeFails, StartCapture, ConfigureInput, GiveUp
<1>3. CASE ConfigureAdapter \/ NextGeneration \/ PublishSockets \/ Activate
    BY <1>3 DEF ConfigureAdapter, NextGeneration, PublishSockets, Activate
<1> QED
    BY <1>1, <1>2, <1>3 DEF AcceptThread

\* The loops are spawned, and the accept thread accepts again.
LEMMA SpawnMoves ==
    ASSUME PcTyped, SpawnLoops
    PROVE  /\ PcTyped'
           /\ pc["accept"] = "join" /\ pc'["accept"] = "accept"
           /\ \A c \in Channels : pc[c] = "gone" /\ pc'[c] = "begin"
           /\ pc'["owner"] = pc["owner"] /\ pc'["adb"] = pc["adb"]
<1>1. /\ \A t \in Threads : pc'[t] = IF t \in Channels THEN "begin"
                                     ELSE IF t = "accept" THEN "accept" ELSE pc[t]
      /\ pc' \in [Threads -> Steps]
    BY DEF SpawnLoops, PcTyped, Steps, LoopSteps
<1>2. \A t \in Threads : pc'[t] \in Places(t)
    BY <1>1, ThreadNames DEF PcTyped, Places, LoopSteps
<1> QED
    BY <1>1, <1>2, ThreadNames DEF SpawnLoops, PcTyped

\* The owner starts the server's own threads.
LEMMA StartMoves ==
    ASSUME PcTyped, Start
    PROVE  /\ PcTyped'
           /\ pc["owner"] = "down" /\ pc'["owner"] = "up" /\ pc'["accept"] = "accept"
           /\ \A c \in Channels : pc'[c] = pc[c]
<1>1. /\ pc' = [pc EXCEPT !["owner"] = "up", !["accept"] = "accept", !["adb"] = "observe"]
      /\ pc' \in [Threads -> Steps]
    BY DEF Start, PcTyped, Steps
<1>2. pc'["owner"] = "up" /\ pc'["accept"] = "accept" /\ pc'["adb"] = "observe"
      /\ \A c \in Channels : pc'[c] = pc[c]
    BY <1>1 DEF PcTyped, Threads, Channels
<1>3. \A t \in Threads : pc'[t] \in Places(t)
    BY <1>2 DEF PcTyped, Places, Threads, Channels
<1> QED
    BY <1>1, <1>2, <1>3 DEF Start, PcTyped

LEMMA PcKept == PcTyped /\ [Next]_vars => PcTyped'
<1> SUFFICES ASSUME PcTyped, [Next]_vars PROVE PcTyped'
    OBVIOUS
<1> USE ThreadNames
<1>1. CASE Stop \/ StopJoins
    <2>1. \E step \in {"claim", "down"} : Goto("owner", step)
        BY <1>1 DEF Stop, StopJoins
    <2>2. {"claim", "down"} \subseteq Places("owner")
        BY DEF Places, EndSteps
    <2> QED
        BY <2>1, <2>2, Moves
<1>2. ASSUME NEW t \in Enders, EndSession(t) PROVE PcTyped'
    <2>1. EndSteps \cup {Return(t)} \subseteq Places(t)
        BY DEF Places, Return, Enders, Channels
    <2> QED
        BY <1>2, <2>1, EndersMove, Moves
<1>3. CASE AcceptThread
    <2>1. {"accept", "gone"} \cup EstablishSteps \subseteq Places("accept")
        BY DEF Places
    <2> QED
        BY <1>3, <2>1, AcceptMoves, SpawnMoves, Moves
<1>4. CASE AdbThread
    <2>1. UNCHANGED pc \/ \E step \in {"observe", "fire", "gone"} : Goto("adb", step)
        BY <1>4 DEF AdbThread, AdbPublishes, AdbLoses, WatchdogObserves, WatchdogFires, AdbExits
    <2>2. {"observe", "fire", "gone"} \subseteq Places("adb")
        BY DEF Places
    <2>3. UNCHANGED pc => PcTyped'
        BY DEF PcTyped
    <2> QED
        BY <2>1, <2>2, <2>3, Moves
<1>5. ASSUME NEW c \in Channels, LoopThread(c) PROVE PcTyped'
    <2>1. PICK step \in Steps : LoopMoves(c, step)
        BY <1>5, LoopsMove
    <2>2. step \in Places(c)
        BY <2>1 DEF LoopMoves, Places, EndSteps
    <2> QED
        BY <2>1, <2>2, Moves DEF LoopMoves
<1>6. CASE UNCHANGED vars
    BY <1>6 DEF vars, PcTyped
<1> QED
    BY <1>1, <1>2, <1>3, <1>4, <1>5, <1>6, StartMoves DEF Next

\* Each variable keeps its range, whatever thread writes it.
LEMMA FlagsKept == FlagsTyped /\ [Next]_vars => FlagsTyped'
<1> SUFFICES ASSUME FlagsTyped, [Next]_vars PROVE FlagsTyped'
    OBVIOUS
<1> USE DEF FlagsTyped, Fault, flags, wires, input, video, budget
<1>1. CASE Start \/ Stop \/ StopJoins
    BY <1>1 DEF Start, Stop, StopJoins
<1>2. ASSUME NEW t \in Enders, EndSession(t) PROVE FlagsTyped'
    BY <1>2 DEF EndSession, EndClaim, EndRetire, EndClose, EndLift, EndReport, EndVideo
<1>3. CASE AcceptExits \/ AcceptControl \/ AcceptVideo \/ AcceptInput
    BY <1>3, FreshNames DEF AcceptExits, AcceptControl, AcceptVideo, AcceptInput, UnusedSessions
<1>4. CASE HandshakeFails \/ StartCapture \/ ConfigureInput \/ ConfigureAdapter
    BY <1>4, FreshNames DEF HandshakeFails, StartCapture, ConfigureInput, ConfigureAdapter, GiveUp
<1>5. CASE NextGeneration \/ PublishSockets \/ Activate \/ SpawnLoops
    BY <1>5 DEF NextGeneration, PublishSockets, Activate, SpawnLoops
<1>6. CASE AdbThread
    BY <1>6 DEF AdbThread, AdbPublishes, AdbLoses, WatchdogObserves, WatchdogFires, AdbExits
<1>7. ASSUME NEW c \in Channels, LoopBegins(c) \/ LoopChecks(c) \/ LoopFails(c) \/ LoopIdles(c) PROVE FlagsTyped'
    BY <1>7 DEF LoopBegins, LoopChecks, LoopFails, LoopIdles, Leave
<1>8. CASE ControlLoop \/ InputLoop
    BY <1>8, FreshNames DEF ControlLoop, InputLoop, RotationArrives, Rotate, RotateMapper, RotateAdapter,
                InputArrives, Adapt, Process, Channels
<1>9. CASE VideoLoop
    BY <1>9 DEF VideoLoop, ReadVideoSocket, WriteFrame, EncodeLatest, Leave, Channels
<1>10. CASE UNCHANGED vars
    BY <1>10 DEF vars
<1> QED
    BY <1>1, <1>2, <1>3, <1>4, <1>5, <1>6, <1>7, <1>8, <1>9, <1>10 DEF Next, AcceptThread, LoopThread

\* Sessions.
LEMMA NamesKept == NamesTyped /\ [Next]_vars => NamesTyped'
<1> SUFFICES ASSUME NamesTyped, [Next]_vars PROVE NamesTyped'
    OBVIOUS
<1> USE DEF NamesTyped, Fault, flags, wires, input, video, budget
<1>1. CASE Start \/ Stop \/ StopJoins
    BY <1>1 DEF Start, Stop, StopJoins
<1>2. ASSUME NEW t \in Enders, EndSession(t) PROVE NamesTyped'
    BY <1>2 DEF EndSession, EndClaim, EndRetire, EndClose, EndLift, EndReport, EndVideo
<1>3. CASE AcceptExits \/ AcceptControl \/ AcceptVideo \/ AcceptInput
    BY <1>3, FreshNames DEF AcceptExits, AcceptControl, AcceptVideo, AcceptInput, UnusedSessions
<1>4. CASE HandshakeFails \/ StartCapture \/ ConfigureInput \/ ConfigureAdapter
    BY <1>4, FreshNames DEF HandshakeFails, StartCapture, ConfigureInput, ConfigureAdapter, GiveUp
<1>5. CASE NextGeneration \/ PublishSockets \/ Activate \/ SpawnLoops
    BY <1>5 DEF NextGeneration, PublishSockets, Activate, SpawnLoops
<1>6. CASE AdbThread
    BY <1>6 DEF AdbThread, AdbPublishes, AdbLoses, WatchdogObserves, WatchdogFires, AdbExits
<1>7. ASSUME NEW c \in Channels, LoopBegins(c) \/ LoopChecks(c) \/ LoopFails(c) \/ LoopIdles(c) PROVE NamesTyped'
    BY <1>7 DEF LoopBegins, LoopChecks, LoopFails, LoopIdles, Leave
<1>8. CASE ControlLoop \/ InputLoop
    BY <1>8, FreshNames DEF ControlLoop, InputLoop, RotationArrives, Rotate, RotateMapper, RotateAdapter,
                InputArrives, Adapt, Process, Channels
<1>9. CASE VideoLoop
    BY <1>9 DEF VideoLoop, ReadVideoSocket, WriteFrame, EncodeLatest, Leave, Channels
<1>10. CASE UNCHANGED vars
    BY <1>10 DEF vars
<1> QED
    BY <1>1, <1>2, <1>3, <1>4, <1>5, <1>6, <1>7, <1>8, <1>9, <1>10 DEF Next, AcceptThread, LoopThread

\* Epochs.
LEMMA EpochsKept == EpochsTyped /\ [Next]_vars => EpochsTyped'
<1> SUFFICES ASSUME EpochsTyped, [Next]_vars PROVE EpochsTyped'
    OBVIOUS
<1> USE DEF EpochsTyped, Fault, flags, wires, input, video, budget
<1>1. CASE Start \/ Stop \/ StopJoins
    BY <1>1 DEF Start, Stop, StopJoins
<1>2. ASSUME NEW t \in Enders, EndSession(t) PROVE EpochsTyped'
    BY <1>2 DEF EndSession, EndClaim, EndRetire, EndClose, EndLift, EndReport, EndVideo
<1>3. CASE AcceptExits \/ AcceptControl \/ AcceptVideo \/ AcceptInput
    BY <1>3, FreshNames DEF AcceptExits, AcceptControl, AcceptVideo, AcceptInput, UnusedSessions
<1>4. CASE HandshakeFails \/ StartCapture \/ ConfigureInput \/ ConfigureAdapter
    BY <1>4, FreshNames DEF HandshakeFails, StartCapture, ConfigureInput, ConfigureAdapter, GiveUp
<1>5. CASE NextGeneration \/ PublishSockets \/ Activate \/ SpawnLoops
    BY <1>5 DEF NextGeneration, PublishSockets, Activate, SpawnLoops
<1>6. CASE AdbThread
    BY <1>6 DEF AdbThread, AdbPublishes, AdbLoses, WatchdogObserves, WatchdogFires, AdbExits
<1>7. ASSUME NEW c \in Channels, LoopBegins(c) \/ LoopChecks(c) \/ LoopFails(c) \/ LoopIdles(c) PROVE EpochsTyped'
    BY <1>7 DEF LoopBegins, LoopChecks, LoopFails, LoopIdles, Leave
<1>8. CASE ControlLoop \/ InputLoop
    BY <1>8, FreshNames DEF ControlLoop, InputLoop, RotationArrives, Rotate, RotateMapper, RotateAdapter,
                InputArrives, Adapt, Process, Channels
<1>9. CASE VideoLoop
    BY <1>9 DEF VideoLoop, ReadVideoSocket, WriteFrame, EncodeLatest, Leave, Channels
<1>10. CASE UNCHANGED vars
    BY <1>10 DEF vars
<1> QED
    BY <1>1, <1>2, <1>3, <1>4, <1>5, <1>6, <1>7, <1>8, <1>9, <1>10 DEF Next, AcceptThread, LoopThread

\* Bounds.
LEMMA BudgetKept == BudgetTyped /\ [Next]_vars => BudgetTyped'
<1> SUFFICES ASSUME BudgetTyped, [Next]_vars PROVE BudgetTyped'
    OBVIOUS
<1> USE BoundAssumption DEF BudgetTyped, Fault, flags, wires, input, video, budget
<1>1. CASE Start \/ Stop \/ StopJoins
    BY <1>1 DEF Start, Stop, StopJoins
<1>2. ASSUME NEW t \in Enders, EndSession(t) PROVE BudgetTyped'
    BY <1>2 DEF EndSession, EndClaim, EndRetire, EndClose, EndLift, EndReport, EndVideo
<1>3. CASE AcceptExits \/ AcceptControl \/ AcceptVideo \/ AcceptInput
    BY <1>3, FreshNames DEF AcceptExits, AcceptControl, AcceptVideo, AcceptInput, UnusedSessions
<1>4. CASE HandshakeFails \/ StartCapture \/ ConfigureInput \/ ConfigureAdapter
    BY <1>4, FreshNames DEF HandshakeFails, StartCapture, ConfigureInput, ConfigureAdapter, GiveUp
<1>5. CASE NextGeneration \/ PublishSockets \/ Activate \/ SpawnLoops
    BY <1>5 DEF NextGeneration, PublishSockets, Activate, SpawnLoops
<1>6. CASE AdbThread
    BY <1>6 DEF AdbThread, AdbPublishes, AdbLoses, WatchdogObserves, WatchdogFires, AdbExits
<1>7. ASSUME NEW c \in Channels, LoopBegins(c) \/ LoopChecks(c) \/ LoopFails(c) \/ LoopIdles(c) PROVE BudgetTyped'
    BY <1>7 DEF LoopBegins, LoopChecks, LoopFails, LoopIdles, Leave
<1>8. CASE ControlLoop \/ InputLoop
    BY <1>8, FreshNames DEF ControlLoop, InputLoop, RotationArrives, Rotate, RotateMapper, RotateAdapter,
                InputArrives, Adapt, Process, Channels
<1>9. CASE VideoLoop
    BY <1>9 DEF VideoLoop, ReadVideoSocket, WriteFrame, EncodeLatest, Leave, Channels
<1>10. CASE UNCHANGED vars
    BY <1>10 DEF vars
<1> QED
    BY <1>1, <1>2, <1>3, <1>4, <1>5, <1>6, <1>7, <1>8, <1>9, <1>10 DEF Next, AcceptThread, LoopThread

LEMMA ServerStarts == Init => ServerInv /\ Alive
<1> SUFFICES ASSUME Init PROVE ServerInv /\ Alive
    OBVIOUS
<1>1. \A t \in Threads : pc[t] = IF t = "owner" THEN "down" ELSE "gone"
    BY DEF Init
<1>2. pc["owner"] = "down" /\ pc["accept"] = "gone" /\ pc["adb"] = "gone"
      /\ \A c \in Channels : pc[c] = "gone"
    BY <1>1 DEF Threads, Channels
<1>3. epoch \in Epochs
    BY EpochAssumption DEF Init
<1>4. pc \in [Threads -> Steps]
    BY DEF Init, Steps
<1>5. TypeOK
    <2>1. PcTyped
        BY <1>1, <1>4 DEF PcTyped, Places
    <2>2. DataTyped
        <3>1. FlagsTyped /\ NamesTyped
            BY DEF Init, FlagsTyped, NamesTyped
        <3>2. EpochsTyped /\ BudgetTyped
            BY <1>3, BoundAssumption DEF Init, EpochsTyped, BudgetTyped
        <3> QED
            BY <3>1, <3>2 DEF DataTyped
    <2> QED
        BY <2>1, <2>2, TypeSplits
<1>6. Phases /\ Generations /\ Sockets
    BY <1>1, <1>2 DEF Init, Phases, Generations, Sockets, SocketsAccountedFor, Preparing, EstablishSteps,
                      Ending, Channels, Establishing
<1>7. Holdings /\ Epoch /\ InputBelongsToSession /\ Captures
    BY <1>2 DEF Init, Holdings, FramesBelongToSession, Epoch, EpochsAgree, InputBelongsToSession, Captures,
                LoopSteps, Channels
<1>8. Alive
    BY <1>2 DEF Init, Alive
<1> QED
    BY <1>5, <1>6, <1>7, <1>8 DEF ServerInv

LEMMA ServerTypes == TypeOK /\ [Next]_vars => TypeOK'
<1>1. (PcTyped /\ DataTyped)' => TypeOK'
    BY TypeSplits, PTL
<1> QED
    BY <1>1, TypeSplits, PcKept, FlagsKept, NamesKept, EpochsKept, BudgetKept DEF DataTyped

\* The variables keep their ranges, whether Prompt or not.
THEOREM ServerTyped == Spec => []TypeOK
<1>1. Init => TypeOK
    BY ServerStarts DEF ServerInv
<1> QED
    BY <1>1, ServerTypes, PTL DEF Spec
-----------------------------------------------------------------------------
(***************************************************************************)
(* Who may be where.                                                       *)
(***************************************************************************)

LEMMA AcceptGoes ==
    ASSUME PcTyped, NEW step \in {"accept", "gone"} \cup EstablishSteps, Goto("accept", step)
    PROVE  /\ pc'["accept"] = step
           /\ \A t \in Enders : pc'[t] = pc[t]
<1>1. step \in Places("accept")
    BY DEF Places
<1> QED
    BY <1>1, Moves, ThreadNames DEF Enders, Channels

LEMMA OwnerGoes ==
    ASSUME PcTyped, NEW step \in {"down", "up", "joining"} \cup EndSteps, Goto("owner", step)
    PROVE  /\ pc'["owner"] = step /\ pc'["accept"] = pc["accept"] /\ pc'["adb"] = pc["adb"]
           /\ \A c \in Channels : pc'[c] = pc[c]
<1>1. step \in Places("owner")
    BY DEF Places
<1> QED
    BY <1>1, Moves, ThreadNames

LEMMA ChannelGoes ==
    ASSUME PcTyped, NEW c \in Channels, NEW step \in {"gone"} \cup LoopSteps \cup EndSteps, Goto(c, step)
    PROVE  /\ pc'["owner"] = pc["owner"] /\ pc'["accept"] = pc["accept"] /\ pc'["adb"] = pc["adb"]
           /\ pc'[c] = step
           /\ \A d \in Channels : d # c => pc'[d] = pc[d]
<1>1. step \in Places(c)
    BY ThreadNames DEF Places
<1> QED
    BY <1>1, Moves, ThreadNames

LEMMA AdbGoes ==
    ASSUME PcTyped, AdbThread
    PROVE  /\ pc["adb"] # "gone"
           /\ pc'["accept"] = pc["accept"] /\ \A t \in Enders : pc'[t] = pc[t]
           /\ UNCHANGED <<running, active, current, sockets, open, own, fresh, input, video, runs>>
<1>1. UNCHANGED pc \/ \E step \in {"observe", "fire", "gone"} : Goto("adb", step)
    BY DEF AdbThread, AdbPublishes, AdbLoses, WatchdogObserves, WatchdogFires, AdbExits
<1>2. {"observe", "fire", "gone"} \subseteq Places("adb")
    BY DEF Places
<1>3. pc'["accept"] = pc["accept"] /\ \A t \in Enders : pc'[t] = pc[t]
    BY <1>1, <1>2, Moves, ThreadNames DEF Enders
<1>4. UNCHANGED <<running, active, current, sockets, open, own, fresh, input, video, runs>>
    BY DEF AdbThread, AdbPublishes, AdbLoses, WatchdogObserves, WatchdogFires, AdbExits,
           flags, wires, budget
<1>5. pc["adb"] # "gone"
    BY DEF AdbThread, AdbPublishes, AdbLoses, WatchdogObserves, WatchdogFires, AdbExits
<1> QED
    BY <1>3, <1>4, <1>5

\* A step of EndSession: the claim succeeds once, the rest follows in order.
LEMMA EndersGo ==
    ASSUME PcTyped, NEW t \in Enders, EndSession(t)
    PROVE  /\ pc'["accept"] = pc["accept"] /\ \A u \in Enders : u # t => pc'[u] = pc[u]
           /\ UNCHANGED <<running, fresh, own, pending, crossed, epoch, mapper, adapter, runs>>
           /\ \/ pc[t] = "claim" /\ active /\ ~active' /\ pc'[t] = "retire"
              \/ /\ UNCHANGED active
                 /\ \/ pc[t] = "claim" /\ ~active /\ pc'[t] = Return(t)
                    \/ pc[t] = "retire" /\ pc'[t] = "close"
                    \/ pc[t] = "close" /\ pc'[t] = "lift"
                    \/ pc[t] = "lift" /\ pc'[t] = "report"
                    \/ pc[t] = "report" /\ pc'[t] = "stopvideo"
                    \/ pc[t] = "stopvideo" /\ pc'[t] = Return(t)
<1>1. \A step \in EndSteps \cup {Return(t)} : Goto(t, step) =>
         /\ pc'[t] = step
         /\ pc'["accept"] = pc["accept"] /\ \A u \in Enders : u # t => pc'[u] = pc[u]
    <2>1. EndSteps \cup {Return(t)} \subseteq Places(t)
        BY DEF Places, Return, Enders, Channels
    <2> QED
        BY <2>1, Moves, ThreadNames DEF Enders
<1>2. {"retire", "close", "lift", "report", "stopvideo"} \subseteq EndSteps
    BY DEF EndSteps
<1>3. PICK step \in EndSteps \cup {Return(t)} : Goto(t, step)
    BY EndersMove
<1>4. UNCHANGED <<running, fresh, own, pending, crossed, epoch, mapper, adapter, runs>>
    BY DEF EndSession, EndClaim, EndRetire, EndClose, EndLift, EndReport, EndVideo, flags, wires, input, video, budget
<1>5. \/ pc[t] = "claim" /\ active /\ ~active' /\ Goto(t, "retire")
      \/ /\ UNCHANGED active
         /\ \/ pc[t] = "claim" /\ ~active /\ Goto(t, Return(t))
            \/ pc[t] = "retire" /\ Goto(t, "close")
            \/ pc[t] = "close" /\ Goto(t, "lift")
            \/ pc[t] = "lift" /\ Goto(t, "report")
            \/ pc[t] = "report" /\ Goto(t, "stopvideo")
            \/ pc[t] = "stopvideo" /\ Goto(t, Return(t))
    BY DEF EndSession, EndClaim, EndRetire, EndClose, EndLift, EndReport, EndVideo, flags
<1> QED
    BY <1>1, <1>2, <1>3, <1>4, <1>5

LEMMA PhasesKept ==
    ASSUME PcTyped, NamesTyped, Phases, Prompt, [Next]_vars
    PROVE  Phases'
<1> USE ThreadNames DEF Phases, Preparing, Ending, Establishing, EstablishSteps, EndSteps
<1>1. CASE Start
    <2>1. pc["accept"] = "gone" /\ UNCHANGED <<active, fresh>> /\ running' = TRUE
        BY <1>1 DEF Start, wires
    <2> QED
        BY <1>1, <2>1, StartMoves
<1>2. CASE Stop
    <2>1. running' = FALSE /\ pc'["owner"] = "claim" /\ UNCHANGED <<active, fresh>>
          /\ pc'["accept"] = pc["accept"] /\ \A c \in Channels : pc'[c] = pc[c]
        BY <1>2, OwnerGoes DEF Stop, wires
    <2> QED
        BY <1>2, <2>1 DEF Stop
<1>3. CASE StopJoins
    <2>1. pc'["owner"] = "down" /\ UNCHANGED <<running, active, fresh>>
          /\ pc'["accept"] = pc["accept"] /\ pc'["adb"] = pc["adb"]
          /\ \A c \in Channels : pc'[c] = pc[c]
        BY <1>3, OwnerGoes DEF StopJoins, wires, flags
    <2>2. \A t \in Threads \ {"owner"} : pc[t] = "gone"
        BY <1>3 DEF StopJoins
    <2>3. pc["owner"] = "joining"
        BY <1>3 DEF StopJoins
    <2> QED
        BY <2>1, <2>2, <2>3 DEF Enders
<1>4. CASE EndSession("owner")
    <2>1. "owner" \in Enders /\ Return("owner") = "joining"
        BY DEF Enders, Return
    <2>2. pc'["accept"] = pc["accept"] /\ (\A c \in Channels : pc'[c] = pc[c]) /\ UNCHANGED <<running, fresh>>
        BY <1>4, <2>1, EndersGo
    <2>3. CASE pc["owner"] = "claim" /\ active /\ ~active' /\ pc'["owner"] = "retire"
        BY <2>2, <2>3
    <2>4. CASE pc["owner"] = "claim" /\ ~active /\ UNCHANGED active /\ pc'["owner"] = "joining"
        BY <2>2, <2>4
    <2>5. CASE pc["owner"] \in Ending /\ UNCHANGED active /\ pc'["owner"] \in Ending \cup {"joining"}
        BY <2>2, <2>5
    <2> QED
        BY <1>4, <2>1, <2>3, <2>4, <2>5, EndersGo
<1>5. ASSUME NEW c \in Channels, EndSession(c) PROVE Phases'
    <2>1. Return(c) = "gone"
        BY DEF Return
    <2>2. pc'["accept"] = pc["accept"] /\ pc'["owner"] = pc["owner"] /\ UNCHANGED <<running, fresh>>
          /\ \A d \in Channels : d # c => pc'[d] = pc[d]
        BY <1>5, EndersGo DEF Enders
    <2>3. CASE pc[c] = "claim"
        <3>1. pc["accept"] \notin EstablishSteps \ {"video", "input"}
            BY <2>3
        <3>2. CASE active /\ ~active' /\ pc'[c] = "retire"
            BY <2>2, <2>3, <3>1, <3>2
        <3>3. CASE UNCHANGED active /\ pc'[c] = "gone"
            BY <2>2, <2>3, <3>1, <3>3
        <3> QED
            BY <1>5, <2>1, <2>3, <3>2, <3>3, EndersGo
    <2>4. CASE pc[c] \in {"retire", "close", "lift"} /\ UNCHANGED active
        <3>1. pc["accept"] \notin EstablishSteps \ {"video", "input"} /\ ~active
            BY <2>4
        <3> QED
            BY <2>2, <2>4, <3>1
    <2>5. CASE pc[c] \in {"report", "stopvideo"} /\ pc'[c] \in {"stopvideo", "gone"} /\ UNCHANGED active
        BY <2>2, <2>5
    <2> QED
        BY <1>5, <2>1, <2>3, <2>4, <2>5, EndersGo
<1>6. ASSUME NEW c \in Channels, LoopThread(c) PROVE Phases'
    <2>1. PICK step \in Steps : LoopMoves(c, step)
        BY <1>6, LoopsMove
    <2>2. pc'["owner"] = pc["owner"] /\ pc'["accept"] = pc["accept"] /\ pc'["adb"] = pc["adb"] /\ pc'[c] = step
          /\ \A d \in Channels : d # c => pc'[d] = pc[d]
        BY <2>1, ChannelGoes DEF LoopMoves
    <2>3. UNCHANGED <<running, active, fresh>> /\ pc[c] \in LoopSteps
          /\ step \in LoopSteps \cup {"claim", "gone"}
        BY <2>1 DEF LoopMoves, flags
    <2> QED
        BY <2>2, <2>3 DEF LoopSteps
<1>7. CASE AdbThread
    BY <1>7, AdbGoes DEF Enders
<1>8. CASE AcceptExits
    BY <1>8, AcceptGoes DEF AcceptExits, flags, wires, Enders
<1>9. CASE AcceptControl
    <2>1. fresh' # NoSession
        BY <1>9, FreshNames, SessionAssumption DEF AcceptControl, UnusedSessions
    <2>2. pc["accept"] = "accept" /\ pc'["accept"] = "video" /\ \A t \in Enders : pc'[t] = pc[t]
        BY <1>9, AcceptGoes DEF AcceptControl
    <2>3. running /\ ~active /\ UNCHANGED <<running, active>>
        BY <1>9 DEF AcceptControl, flags
    <2> QED
        BY <2>1, <2>2, <2>3
<1>10. CASE AcceptVideo \/ AcceptInput
    BY <1>10, AcceptGoes DEF AcceptVideo, AcceptInput, Settled, flags, wires, Enders
<1>11. CASE HandshakeFails \/ StartCapture \/ ConfigureInput
    BY <1>11, AcceptGoes DEF HandshakeFails, StartCapture, ConfigureInput, GiveUp, flags, wires, Enders
<1>12. CASE ConfigureAdapter \/ NextGeneration \/ PublishSockets \/ Activate
    BY <1>12, AcceptGoes DEF ConfigureAdapter, NextGeneration, PublishSockets, Activate, flags, wires, Enders
<1>13. CASE SpawnLoops
    BY <1>13, SpawnMoves DEF SpawnLoops, wires
<1>14. CASE UNCHANGED vars
    BY <1>14 DEF vars, flags, wires
<1> QED
    BY <1>1, <1>2, <1>3, <1>4, <1>5, <1>6, <1>7, <1>8, <1>9, <1>10, <1>11, <1>12, <1>13, <1>14
    DEF Next, AcceptThread, Enders

\* Where the owner's own steps, and the watchdog's, leave the state of a session.
OwnerMoves ==
    /\ pc'["owner"] \notin Ending /\ pc["owner"] \notin Ending
    /\ pc'["accept"] = pc["accept"] \/ (pc["accept"] = "gone" /\ pc'["accept"] = "accept")
    /\ \A c \in Channels : pc'[c] = pc[c]
    /\ UNCHANGED <<active, current, sockets, open, own, fresh, input, video>>

LEMMA OwnersMove ==
    ASSUME PcTyped, Phases, Start \/ Stop \/ StopJoins \/ AdbThread \/ UNCHANGED vars
    PROVE  OwnerMoves \/ (pc'["accept"] = pc["accept"] /\ (\A t \in Enders : pc'[t] = pc[t])
                          /\ UNCHANGED <<active, current, sockets, open, own, fresh, input, video>>)
<1> USE DEF OwnerMoves
<1>1. CASE Start
    <2>1. pc["accept"] = "gone"
        BY <1>1, ThreadNames DEF Start, Phases
    <2>2. UNCHANGED <<active, current, sockets, open, own, fresh, input, video>>
        BY <1>1 DEF Start, wires
    <2> QED
        BY <1>1, <2>1, <2>2, StartMoves DEF Ending
<1>2. CASE Stop
    <2>1. pc'["owner"] = "claim" /\ pc'["accept"] = pc["accept"] /\ (\A c \in Channels : pc'[c] = pc[c])
        BY <1>2, OwnerGoes DEF Stop, EndSteps
    <2>2. UNCHANGED <<active, current, sockets, open, own, fresh, input, video>>
        BY <1>2 DEF Stop, wires, flags
    <2>3. pc["owner"] \notin Ending
        BY <1>2 DEF Stop, Ending
    <2>4. pc'["owner"] \notin Ending
        BY <2>1 DEF Ending
    <2> QED
        BY <2>1, <2>2, <2>3, <2>4
<1>3. CASE StopJoins
    <2>1. pc'["owner"] = "down" /\ pc'["accept"] = pc["accept"] /\ (\A c \in Channels : pc'[c] = pc[c])
        BY <1>3, OwnerGoes DEF StopJoins
    <2>2. UNCHANGED <<active, current, sockets, open, own, fresh, input, video>>
        BY <1>3 DEF StopJoins, wires, flags
    <2>3. pc["owner"] \notin Ending
        BY <1>3 DEF StopJoins, Ending
    <2>4. pc'["owner"] \notin Ending
        BY <2>1 DEF Ending
    <2> QED
        BY <2>1, <2>2, <2>3, <2>4
<1>4. CASE AdbThread
    BY <1>4, AdbGoes
<1>5. CASE UNCHANGED vars
    BY <1>5 DEF vars, wires, flags
<1> QED
    BY <1>1, <1>2, <1>3, <1>4, <1>5

LEMMA GenerationsKept ==
    ASSUME PcTyped, NamesTyped, Phases, Generations, [Next]_vars
    PROVE  Generations'
<1> USE ThreadNames DEF Generations, Establishing, EstablishSteps
<1>1. CASE Start \/ Stop \/ StopJoins \/ AdbThread \/ UNCHANGED vars
    BY <1>1, OwnersMove DEF OwnerMoves
<1>2. ASSUME NEW t \in Enders, EndSession(t) PROVE Generations'
    <2>1. pc'["accept"] = pc["accept"] /\ (active' => active)
        BY <1>2, EndersGo
    <2>2. UNCHANGED current \/ pc[t] = "retire"
        BY <1>2 DEF EndSession, EndClaim, EndRetire, EndClose, EndLift, EndReport, EndVideo, flags
    <2>3. pc[t] = "retire" => ~active /\ pc["accept"] \notin {"publish", "activate"}
        BY DEF Phases, Preparing, Ending, Enders
    <2> QED
        BY <2>1, <2>2, <2>3
<1>3. ASSUME NEW c \in Channels, LoopThread(c) PROVE Generations'
    <2>1. pc'["accept"] = pc["accept"] /\ UNCHANGED <<active, current>>
        BY <1>3, LoopsMove, ChannelGoes DEF LoopMoves, flags, EndSteps
    <2> QED
        BY <2>1
<1>4. CASE AcceptExits \/ AcceptVideo \/ AcceptInput
    BY <1>4, AcceptGoes DEF AcceptExits, AcceptVideo, AcceptInput, flags
<1>5. CASE AcceptControl
    BY <1>5, AcceptGoes DEF AcceptControl, flags
<1>6. CASE HandshakeFails \/ StartCapture \/ ConfigureInput
    BY <1>6, AcceptGoes DEF HandshakeFails, StartCapture, ConfigureInput, GiveUp, flags, Phases, Preparing
<1>7. CASE ConfigureAdapter \/ NextGeneration \/ PublishSockets \/ Activate
    BY <1>7, AcceptGoes DEF ConfigureAdapter, NextGeneration, PublishSockets, Activate, flags, Phases, Preparing
<1>8. CASE SpawnLoops
    BY <1>8, SpawnMoves DEF SpawnLoops
<1> QED
    BY <1>1, <1>2, <1>3, <1>4, <1>5, <1>6, <1>7, <1>8 DEF Next, AcceptThread

LEMMA SocketsKept ==
    ASSUME PcTyped, NamesTyped, Phases, Sockets, [Next]_vars
    PROVE  Sockets'
<1> USE ThreadNames DEF Sockets, SocketsAccountedFor, Preparing, EstablishSteps
<1>1. CASE Start \/ Stop \/ StopJoins \/ AdbThread \/ UNCHANGED vars
    BY <1>1, OwnersMove DEF OwnerMoves, Enders, Ending
<1>2. ASSUME NEW t \in Enders, EndSession(t) PROVE Sockets'
    <2>1. pc'["accept"] = pc["accept"] /\ UNCHANGED fresh /\ (\A u \in Enders : u # t => pc'[u] = pc[u])
        BY <1>2, EndersGo
    <2>2. CASE EndClose(t)
        <3>1. ~active /\ pc["accept"] \notin {"activate"}
            BY <2>2 DEF EndClose, Phases, Ending, Enders
        <3>2. sockets' = NoSession /\ open' = open \ {sockets} /\ UNCHANGED active
            BY <2>2 DEF EndClose, flags
        <3>3. NoSession \notin open
            BY SessionAssumption DEF NamesTyped
        <3>4. fresh = NoSession <=> pc["accept"] \notin EstablishSteps
            BY DEF Phases
        <3> QED
            BY <2>1, <3>1, <3>2, <3>3, <3>4
    <2>3. CASE ~EndClose(t)
        <3>1. UNCHANGED <<sockets, open>> /\ pc[t] # "close"
            BY <1>2, <2>3 DEF EndSession, EndClaim, EndRetire, EndClose, EndLift, EndReport, EndVideo, wires
        <3>2. pc[t] = "claim" /\ active => pc'[t] = "retire"
            BY <1>2, EndersGo
        <3>3. pc[t] = "retire" => pc'[t] = "close"
            BY <1>2, EndersGo
        <3>4. active' => active
            BY <1>2, EndersGo
        <3>5. active /\ ~active' => pc'[t] = "retire"
            BY <1>2, EndersGo
        <3> QED
            BY <2>1, <3>1, <3>2, <3>3, <3>4, <3>5
    <2> QED
        BY <2>2, <2>3
<1>3. ASSUME NEW c \in Channels, LoopThread(c) PROVE Sockets'
    <2>1. PICK step \in Steps : LoopMoves(c, step)
        BY <1>3, LoopsMove
    <2>2. pc'["accept"] = pc["accept"] /\ UNCHANGED <<active, sockets, open, fresh>>
          /\ (\A u \in Enders : u # c => pc'[u] = pc[u])
        BY <2>1, ChannelGoes DEF LoopMoves, flags, EndSteps, Enders
    <2>3. pc[c] \notin {"retire", "close"}
        BY <2>1 DEF LoopMoves, LoopSteps
    <2> QED
        BY <2>2, <2>3
<1>4. CASE AcceptExits \/ AcceptVideo \/ AcceptInput
    <2>1. pc'["accept"] \in {"gone", "input", "capture"} /\ (\A u \in Enders : pc'[u] = pc[u])
          /\ (pc'["accept"] # "gone" => pc["accept"] \in {"video", "input"})
          /\ (pc'["accept"] = "gone" => pc["accept"] = "accept")
        BY <1>4, AcceptGoes DEF AcceptExits, AcceptVideo, AcceptInput
    <2>2. UNCHANGED <<active, sockets, open, fresh>>
        BY <1>4 DEF AcceptExits, AcceptVideo, AcceptInput, flags, wires
    <2> QED
        BY <2>1, <2>2
<1>5. CASE AcceptControl
    <2>1. pc["accept"] = "accept" /\ pc'["accept"] = "video" /\ (\A u \in Enders : pc'[u] = pc[u])
        BY <1>5, AcceptGoes DEF AcceptControl
    <2>2. fresh' # sockets /\ open' = open \cup {fresh'} /\ UNCHANGED <<active, sockets>> /\ ~active
        BY <1>5, FreshNames DEF AcceptControl, UnusedSessions, flags
    <2>3. fresh = NoSession /\ NoSession \notin open
        BY <2>1, SessionAssumption DEF Phases, NamesTyped
    <2> QED
        BY <2>1, <2>2, <2>3
<1>6. CASE (HandshakeFails \/ StartCapture \/ ConfigureInput) /\ GiveUp
    <2>1. pc["accept"] \in {"video", "input", "capture", "configure"} /\ pc'["accept"] = "accept"
          /\ (\A u \in Enders : pc'[u] = pc[u])
        BY <1>6, AcceptGoes DEF HandshakeFails, StartCapture, ConfigureInput, GiveUp
    <2>2. open' = open \ {fresh} /\ fresh' = NoSession /\ UNCHANGED <<active, sockets>>
        BY <1>6 DEF GiveUp, flags
    <2>3. ~active
        BY <2>1 DEF Phases
    <2> QED
        BY <2>1, <2>2, <2>3
<1>7. CASE (StartCapture \/ ConfigureInput) /\ ~GiveUp
    <2>1. pc["accept"] \in {"capture", "configure"} /\ pc'["accept"] \in {"configure", "adapter"}
          /\ (\A u \in Enders : pc'[u] = pc[u])
        BY <1>7, AcceptGoes DEF StartCapture, ConfigureInput
    <2>2. UNCHANGED <<active, sockets, open, fresh>>
        BY <1>7 DEF StartCapture, ConfigureInput, flags, wires
    <2> QED
        BY <2>1, <2>2
<1>8. CASE ConfigureAdapter \/ NextGeneration
    <2>1. pc["accept"] \in {"adapter", "generation"} /\ pc'["accept"] \in {"generation", "publish"}
          /\ (\A u \in Enders : pc'[u] = pc[u])
        BY <1>8, AcceptGoes DEF ConfigureAdapter, NextGeneration
    <2>2. UNCHANGED <<active, sockets, open, fresh>>
        BY <1>8 DEF ConfigureAdapter, NextGeneration, flags, wires
    <2> QED
        BY <2>1, <2>2
<1>9. CASE PublishSockets
    <2>1. pc["accept"] = "publish" /\ pc'["accept"] = "activate"
          /\ (\A u \in Enders : pc'[u] = pc[u])
        BY <1>9, AcceptGoes DEF PublishSockets
    <2>2. sockets' = fresh /\ UNCHANGED <<active, open, fresh>>
        BY <1>9 DEF PublishSockets, flags
    <2>3. ~active /\ \A u \in Enders : pc[u] \notin {"retire", "close"}
        BY <2>1 DEF Phases, Ending, Enders
    <2> QED
        BY <2>1, <2>2, <2>3
<1>10. CASE Activate
    <2>1. pc["accept"] = "activate" /\ pc'["accept"] = "join" /\ active'
          /\ (\A u \in Enders : pc'[u] = pc[u]) /\ UNCHANGED <<sockets, open, fresh>>
        BY <1>10, AcceptGoes DEF Activate, wires
    <2> QED
        BY <2>1
<1>11. CASE SpawnLoops
    <2>1. UNCHANGED <<active, sockets, open>> /\ fresh' = NoSession
        BY <1>11 DEF SpawnLoops
    <2>2. pc["accept"] = "join" /\ pc'["accept"] = "accept" /\ pc'["owner"] = pc["owner"]
          /\ \A c \in Channels : pc[c] = "gone"
        BY <1>11, SpawnMoves
    <2>3. \A t \in Enders : pc[t] \in {"retire", "close"} => t = "owner" /\ pc'[t] = pc[t]
        BY <2>2 DEF Enders
    <2> QED
        BY <2>1, <2>2, <2>3
<1>12. HandshakeFails => GiveUp
    BY DEF HandshakeFails
<1> QED
    BY <1>1, <1>2, <1>3, <1>4, <1>5, <1>6, <1>7, <1>8, <1>9, <1>10, <1>11, <1>12 DEF Next, AcceptThread

LEMMA HoldingsKept ==
    ASSUME PcTyped, NamesTyped, Phases, Holdings, [Next]_vars
    PROVE  Holdings'
<1> USE ThreadNames DEF Holdings, FramesBelongToSession
<1>1. CASE Start \/ Stop \/ StopJoins \/ AdbThread \/ UNCHANGED vars
    <2>1. (\A c \in Channels : pc'[c] = pc[c]) /\ UNCHANGED <<active, sockets, own, pending, crossed>>
        BY <1>1, OwnersMove DEF OwnerMoves, Enders, video
    <2> QED
        BY <2>1 DEF Channels
<1>2. ASSUME NEW t \in Enders, EndSession(t) PROVE Holdings'
    <2>1. /\ UNCHANGED <<own, pending, crossed>>
          /\ \A u \in Enders : u # t => pc'[u] = pc[u]
          /\ active' => active
        BY <1>2, EndersGo
    <2>2. t \in Channels => pc[t] \notin LoopSteps /\ pc'[t] \notin LoopSteps
        BY <1>2, EndersGo DEF Return, LoopSteps
    <2>3. UNCHANGED sockets \/ (sockets' = NoSession /\ ~active)
        <3>1. CASE EndClose(t)
            BY <3>1 DEF EndClose, Phases, Ending, Enders
        <3>2. CASE ~EndClose(t)
            BY <1>2, <3>2 DEF EndSession, EndClaim, EndRetire, EndLift, EndReport, EndVideo, wires
        <3> QED
            BY <3>1, <3>2
    <2>4. \A c \in Channels : (pc'[c] \in LoopSteps <=> pc[c] \in LoopSteps) /\ (pc'[c] \in LoopSteps => pc'[c] = pc[c])
        BY <2>1, <2>2 DEF Enders
    <2> QED
        BY <2>1, <2>3, <2>4 DEF Channels, LoopSteps
<1>3. CASE AcceptThread /\ ~SpawnLoops
    <2>1. \A c \in Channels : pc'[c] = pc[c]
        BY <1>3, AcceptMoves, AcceptGoes
    <2>2. UNCHANGED <<own, pending, crossed>>
        BY <1>3 DEF AcceptThread, AcceptExits, AcceptControl, AcceptVideo, AcceptInput, HandshakeFails, StartCapture,
            ConfigureInput, ConfigureAdapter, NextGeneration, PublishSockets, Activate, GiveUp, wires, video
    <2>3. CASE PublishSockets \/ Activate
        <3>1. \A c \in Channels : pc[c] \notin LoopSteps
            BY <2>3 DEF PublishSockets, Activate, Phases, EstablishSteps, LoopSteps
        <3> QED
            BY <2>1, <2>2, <3>1 DEF Channels, LoopSteps
    <2>4. CASE ~(PublishSockets \/ Activate)
        <3>1. UNCHANGED <<active, sockets>>
            BY <1>3, <2>4 DEF AcceptThread, AcceptExits, AcceptControl, AcceptVideo, AcceptInput, HandshakeFails,
                StartCapture, ConfigureInput, ConfigureAdapter, NextGeneration, GiveUp, wires, flags
        <3> QED
            BY <2>1, <2>2, <3>1 DEF Channels
    <2> QED
        BY <2>3, <2>4
<1>4. CASE SpawnLoops
    <2>1. \A c \in Channels : pc[c] = "gone" /\ pc'[c] = "begin"
        BY <1>4, SpawnMoves
    <2>2. UNCHANGED <<active, sockets, own, pending, crossed>>
        BY <1>4 DEF SpawnLoops, video
    <2> QED
        BY <2>1, <2>2 DEF Channels, LoopSteps
<1>5. ASSUME NEW c \in Channels, LoopThread(c) PROVE Holdings'
    <2>1. PICK step \in Steps : LoopMoves(c, step)
        BY <1>5, LoopsMove
    <2>2. pc'[c] = step /\ (\A d \in Channels : d # c => pc'[d] = pc[d]) /\ UNCHANGED <<active, sockets>>
          /\ pc[c] \in LoopSteps /\ step # "begin"
        BY <2>1, ChannelGoes DEF LoopMoves, EndSteps, flags, LoopSteps
    <2>3. CASE LoopBegins(c)
        <3>1. UNCHANGED <<pending, crossed>> /\ step = "check"
              /\ own' = IF c = "video" THEN own ELSE [own EXCEPT ![c] = sockets]
            BY <2>2, <2>3, ChannelGoes DEF LoopBegins, LoopSteps, video
        <3> QED
            BY <2>2, <3>1 DEF Channels, NamesTyped, LoopSteps
    <2>4. CASE LoopFails(c) \/ (LoopChecks(c) /\ ~IsGenerationActive(c)) \/ (ReadVideoSocket /\ sockets = NoSession /\ c = "video")
        <3>1. UNCHANGED crossed /\ (Leave(c, "claim") \/ Leave(c, "gone"))
            BY <2>4 DEF LoopFails, LoopChecks, ReadVideoSocket
        <3>2. own' = [own EXCEPT ![c] = NoSession] /\ pending' = IF c = "video" THEN NoSession ELSE pending
            BY <3>1 DEF Leave
        <3>3. pc'[c] \notin LoopSteps
            BY <3>1, ChannelGoes DEF Leave, EndSteps, LoopSteps
        <3> QED
            BY <2>2, <3>1, <3>2, <3>3 DEF Channels, NamesTyped, LoopSteps
    <2>5. CASE (LoopChecks(c) /\ IsGenerationActive(c)) \/ LoopIdles(c)
        <3>1. UNCHANGED <<own, pending, crossed>> /\ pc[c] \in {"check", "read"}
            BY <2>5 DEF LoopChecks, LoopIdles, wires, video
        <3>2. step \in {"check", "read", "socket"}
            BY <2>2, <2>5, ChannelGoes DEF LoopChecks, LoopIdles, LoopSteps
        <3> QED
            BY <2>2, <3>1, <3>2 DEF Channels, LoopSteps
    <2>6. CASE (c = "control" /\ ControlLoop) \/ (c = "input" /\ InputLoop)
        <3>1. UNCHANGED <<own, pending, crossed>> /\ pc[c] \in LoopSteps \ {"begin"} /\ c \in Channels \ {"video"}
            BY <2>6 DEF ControlLoop, RotationArrives, Rotate, RotateMapper, RotateAdapter, InputLoop, InputArrives,
                        Adapt, Process, wires, video, LoopSteps, Channels
        <3>2. \E place \in LoopSteps : Goto(c, place)
            BY <2>6 DEF ControlLoop, RotationArrives, Rotate, RotateMapper, RotateAdapter, InputLoop, InputArrives,
                        Adapt, Process, LoopSteps
        <3>3. step \in LoopSteps
            BY <2>2, <3>2, ChannelGoes
        <3> QED
            BY <2>2, <3>1, <3>3 DEF Channels
    <2>7. CASE c = "video" /\ ReadVideoSocket /\ sockets # NoSession
        <3>1. UNCHANGED <<pending, crossed>> /\ own' = [own EXCEPT !["video"] = sockets] /\ pc["video"] = "socket"
              /\ Goto("video", IF pending = NoSession THEN "encode" ELSE "write")
            BY <2>7 DEF ReadVideoSocket
        <3>2. step = IF pending = NoSession THEN "encode" ELSE "write"
            BY <2>2, <2>7, <3>1, ChannelGoes DEF LoopSteps
        <3>3. own'["video"] = sockets /\ \A d \in Channels \ {"video"} : own'[d] = own[d]
            BY <2>7, <3>1 DEF NamesTyped
        <3>4. pending \in {NoSession, sockets}
            BY <2>7, <3>1 DEF LoopSteps
        <3> QED
            BY <2>2, <2>7, <3>1, <3>2, <3>3, <3>4 DEF Channels, LoopSteps
    <2>8. CASE c = "video" /\ WriteFrame
        <3>1. UNCHANGED own /\ pc["video"] = "write" /\ step = "check"
            BY <2>2, <2>8, ChannelGoes DEF WriteFrame, LoopSteps, wires
        <3>2. pending = own["video"]
            BY <3>1
        <3>3. pending' \in {pending, NoSession} /\ (crossed' = crossed \/ crossed' = (crossed \/ pending # own["video"]))
            BY <2>8 DEF WriteFrame
        <3>4. ~crossed'
            BY <3>2, <3>3
        <3> QED
            BY <2>2, <2>8, <3>1, <3>2, <3>3, <3>4 DEF Channels, LoopSteps
    <2>9. CASE c = "video" /\ EncodeLatest
        <3>1. UNCHANGED <<own, crossed>> /\ pc["video"] = "encode" /\ step = "check"
            BY <2>2, <2>9, ChannelGoes DEF EncodeLatest, LoopSteps, wires
        <3>2. pending' \in {own["video"], NoSession}
            BY <2>9 DEF EncodeLatest
        <3> QED
            BY <2>2, <2>9, <3>1, <3>2 DEF Channels, LoopSteps
    <2> QED
        BY <1>5, <2>3, <2>4, <2>5, <2>6, <2>7, <2>8, <2>9 DEF LoopThread, VideoLoop
<1> QED
    BY <1>1, <1>2, <1>3, <1>4, <1>5 DEF Next, AcceptThread

LEMMA EpochKept ==
    ASSUME PcTyped, NamesTyped, Phases, Epoch, [Next]_vars
    PROVE  Epoch'
<1> USE ThreadNames DEF Epoch, EpochsAgree, Establishing
<1>1. CASE Start \/ Stop \/ StopJoins \/ AdbThread \/ UNCHANGED vars
    <2>1. pc'["control"] = pc["control"] /\ UNCHANGED <<active, epoch, mapper, adapter>>
        BY <1>1, OwnersMove DEF OwnerMoves, Enders, Channels, input
    <2>2. pc'["accept"] = pc["accept"] \/ (pc["accept"] = "gone" /\ pc'["accept"] = "accept")
        BY <1>1, OwnersMove DEF OwnerMoves
    <2> QED
        BY <2>1, <2>2 DEF EstablishSteps
<1>2. ASSUME NEW t \in Enders, EndSession(t) PROVE Epoch'
    <2>1. pc'["accept"] = pc["accept"] /\ UNCHANGED <<epoch, mapper, adapter>> /\ (active' => active)
        BY <1>2, EndersGo
    <2>2. pc'["control"] = pc["control"] \/ (pc["control"] \in EndSteps /\ pc'["control"] # "follow")
        BY <1>2, EndersGo DEF Enders, Channels, Return, EndSteps
    <2> QED
        BY <2>1, <2>2 DEF EndSteps
<1>3. CASE AcceptThread /\ ~SpawnLoops
    <2>1. pc'["control"] = pc["control"]
        BY <1>3, AcceptMoves, AcceptGoes DEF Enders, Channels
    <2>2. CASE ConfigureInput \/ ConfigureAdapter
        <3>1. pc["accept"] \in {"configure", "adapter"} /\ ~active /\ pc["control"] # "follow" /\ UNCHANGED active
            BY <2>2 DEF ConfigureInput, ConfigureAdapter, GiveUp, Phases, Preparing, EstablishSteps, Channels, flags
        <3>2. \/ pc'["accept"] = "adapter" /\ mapper' = epoch'
              \/ pc'["accept"] = "accept"
              \/ pc'["accept"] = "generation" /\ pc["accept"] = "adapter" /\ adapter' = epoch /\ UNCHANGED <<epoch, mapper>>
            BY <2>2, AcceptGoes DEF ConfigureInput, ConfigureAdapter, GiveUp, EstablishSteps
        <3> QED
            BY <2>1, <3>1, <3>2
    <2>3. CASE ~(ConfigureInput \/ ConfigureAdapter)
        <3>1. UNCHANGED <<epoch, mapper, adapter>>
            BY <1>3, <2>3 DEF AcceptThread, AcceptExits, AcceptControl, AcceptVideo, AcceptInput, HandshakeFails,
                StartCapture, NextGeneration, PublishSockets, Activate, input
        <3>2. \/ UNCHANGED active /\ pc'["accept"] \in {"accept", "gone", "video", "input", "capture", "configure"}
                 /\ pc["accept"] \in {"accept", "video", "input", "capture"} /\ (active => pc["accept"] = "accept" /\ pc'["accept"] = "gone")
              \/ /\ pc["accept"] \in {"generation", "publish", "activate"}
                 /\ pc'["accept"] \in {"publish", "activate", "join"}
            BY <1>3, <2>3, AcceptGoes DEF AcceptThread, AcceptExits, AcceptControl, AcceptVideo, AcceptInput, HandshakeFails,
                StartCapture, NextGeneration, PublishSockets, Activate, GiveUp, flags, Phases, Preparing, EstablishSteps
        <3> QED
            BY <2>1, <3>1, <3>2 DEF EstablishSteps
    <2> QED
        BY <2>2, <2>3
<1>4. CASE SpawnLoops
    <2>1. pc["accept"] = "join" /\ pc'["accept"] = "accept" /\ pc'["control"] = "begin"
        BY <1>4, SpawnMoves DEF Channels
    <2>2. UNCHANGED <<epoch, mapper, adapter>>
        BY <1>4 DEF SpawnLoops, input
    <2> QED
        BY <2>1, <2>2
<1>5. ASSUME NEW c \in Channels, LoopThread(c) PROVE Epoch'
    <2>1. PICK step \in Steps : LoopMoves(c, step)
        BY <1>5, LoopsMove
    <2>2. pc'["accept"] = pc["accept"] /\ UNCHANGED active /\ pc'[c] = step
          /\ (\A d \in Channels : d # c => pc'[d] = pc[d])
        BY <2>1, ChannelGoes DEF LoopMoves, EndSteps, flags
    <2>3. CASE c = "control" /\ ControlLoop
        <3>1. pc["accept"] \notin EstablishSteps \ {"video", "input"}
            BY <2>3 DEF ControlLoop, RotationArrives, Rotate, RotateMapper, RotateAdapter, Phases, Channels
        <3>2. \/ pc["control"] = "read" /\ step = "rotate" /\ UNCHANGED <<epoch, mapper, adapter>>
              \/ pc["control"] = "rotate" /\ step = "map"
              \/ pc["control"] = "map" /\ step = "follow" /\ mapper' = epoch /\ UNCHANGED epoch
              \/ pc["control"] = "follow" /\ step = "check" /\ adapter' = epoch /\ UNCHANGED <<epoch, mapper>>
            BY <2>2, <2>3, ChannelGoes DEF ControlLoop, RotationArrives, Rotate, RotateMapper, RotateAdapter, input, LoopSteps
        <3> QED
            BY <2>2, <2>3, <3>1, <3>2 DEF EstablishSteps
    <2>4. CASE ~(c = "control" /\ ControlLoop)
        <3>1. UNCHANGED <<epoch, mapper, adapter>>
            BY <1>5, <2>4 DEF LoopThread, LoopBegins, LoopChecks, LoopFails, LoopIdles, InputLoop, InputArrives,
                Adapt, Process, VideoLoop, ReadVideoSocket, WriteFrame, EncodeLatest, input
        <3>2. c = "control" => pc["control"] \in {"begin", "check", "read", "write", "encode"} /\ step \notin {"map", "follow"}
            BY <1>5, <2>2, <2>4, ChannelGoes DEF LoopThread, LoopBegins, LoopChecks, LoopFails, LoopIdles, Leave, LoopSteps, EndSteps
        <3>3. c # "control" => pc'["control"] = pc["control"]
            BY <2>2 DEF Channels
        <3> QED
            BY <2>2, <3>1, <3>2, <3>3
    <2> QED
        BY <2>3, <2>4
<1> QED
    BY <1>1, <1>2, <1>3, <1>4, <1>5 DEF Next, AcceptThread

LEMMA ContactKept ==
    ASSUME PcTyped, NamesTyped, Phases, Sockets, Holdings, InputBelongsToSession, [Next]_vars
    PROVE  InputBelongsToSession'
<1> USE ThreadNames DEF InputBelongsToSession, Establishing, EstablishSteps
<1>1. CASE Start \/ Stop \/ StopJoins \/ AdbThread \/ UNCHANGED vars
    <2>1. UNCHANGED <<active, contact, fresh, sockets>>
        BY <1>1, OwnersMove DEF OwnerMoves, input
    <2>2. pc'["accept"] = pc["accept"] \/ (pc["accept"] = "gone" /\ pc'["accept"] = "accept")
        BY <1>1, OwnersMove DEF OwnerMoves
    <2> QED
        BY <2>1, <2>2
<1>2. ASSUME NEW t \in Enders, EndSession(t) PROVE InputBelongsToSession'
    <2>1. pc'["accept"] = pc["accept"] /\ UNCHANGED fresh /\ (active' => active)
        BY <1>2, EndersGo
    <2>2. contact' \in {contact, NoSession}
        BY <1>2 DEF EndSession, EndClaim, EndRetire, EndClose, EndLift, EndReport, EndVideo, input
    <2>3. UNCHANGED sockets \/ ~active
        <3>1. CASE EndClose(t)
            BY <3>1 DEF EndClose, Phases, Ending, Enders
        <3>2. CASE ~EndClose(t)
            BY <1>2, <3>2 DEF EndSession, EndClaim, EndRetire, EndLift, EndReport, EndVideo, wires
        <3> QED
            BY <3>1, <3>2
    <2> QED
        BY <2>1, <2>2, <2>3
<1>3. CASE AcceptExits \/ AcceptControl \/ AcceptVideo \/ AcceptInput
    <2>1. pc["accept"] \in {"accept", "video", "input"} /\ pc'["accept"] \in {"gone", "video", "input", "capture"}
          /\ UNCHANGED <<active, contact, sockets>> /\ (active => pc'["accept"] = "gone")
        BY <1>3, AcceptGoes DEF AcceptExits, AcceptControl, AcceptVideo, AcceptInput, input, flags, wires, Phases, Preparing
    <2>2. active => pc["accept"] = "accept"
        BY <2>1 DEF Phases, Preparing
    <2> QED
        BY <2>1, <2>2
<1>4. CASE HandshakeFails \/ StartCapture
    <2>1. pc["accept"] \in {"video", "input", "capture"} /\ pc'["accept"] \in {"accept", "configure"}
          /\ UNCHANGED active
        BY <1>4, AcceptGoes DEF HandshakeFails, StartCapture, GiveUp, flags
    <2> QED
        BY <2>1 DEF Phases, Preparing
<1>5. CASE ConfigureInput
    <2>1. pc["accept"] = "configure" /\ contact' = NoSession
        BY <1>5 DEF ConfigureInput
    <2> QED
        BY <2>1
<1>6. CASE ConfigureAdapter \/ NextGeneration \/ PublishSockets \/ Activate
    <2>1. pc["accept"] \in {"adapter", "generation", "publish", "activate"}
          /\ pc'["accept"] \in {"generation", "publish", "activate", "join"} /\ UNCHANGED <<contact, fresh>>
        BY <1>6, AcceptGoes DEF ConfigureAdapter, NextGeneration, PublishSockets, Activate, wires, input
    <2> QED
        BY <2>1
<1>7. CASE SpawnLoops
    <2>1. pc["accept"] = "join" /\ pc'["accept"] = "accept" /\ UNCHANGED <<active, sockets, contact>>
        BY <1>7, SpawnMoves DEF SpawnLoops, input
    <2> QED
        BY <2>1 DEF Sockets
<1>8. ASSUME NEW c \in Channels, LoopThread(c) PROVE InputBelongsToSession'
    <2>1. pc'["accept"] = pc["accept"] /\ UNCHANGED <<active, fresh, sockets>>
        BY <1>8, LoopsMove, ChannelGoes DEF LoopMoves, EndSteps, flags
    <2>2. CASE c = "input" /\ Process
        <3>1. contact' \in {own["input"], NoSession} /\ pc["input"] = "process"
            BY <2>2 DEF Process
        <3>2. pc["accept"] \notin EstablishSteps \ {"video", "input"}
            BY <2>2, <3>1 DEF Phases
        <3>3. active => own["input"] = sockets
            BY <3>1 DEF Holdings, Channels, LoopSteps
        <3> QED
            BY <2>1, <3>1, <3>2, <3>3
    <2>3. CASE ~(c = "input" /\ Process)
        <3>1. contact' \in {contact, NoSession}
            BY <1>8, <2>3 DEF LoopThread, LoopBegins, LoopChecks, LoopFails, LoopIdles, InputLoop, InputArrives,
                Adapt, VideoLoop, ReadVideoSocket, WriteFrame, EncodeLatest, ControlLoop, RotationArrives,
                Rotate, RotateMapper, RotateAdapter, input
        <3> QED
            BY <2>1, <3>1
    <2> QED
        BY <2>2, <2>3
<1> QED
    BY <1>1, <1>2, <1>3, <1>4, <1>5, <1>6, <1>7, <1>8 DEF Next, AcceptThread

LEMMA CapturesKept ==
    ASSUME PcTyped, FlagsTyped, Phases, Captures, [Next]_vars
    PROVE  Captures'
<1> USE ThreadNames DEF Captures
<1>1. CASE Start \/ Stop \/ StopJoins \/ AdbThread \/ UNCHANGED vars
    <2>1. UNCHANGED <<active, capturing>>
        BY <1>1, OwnersMove DEF OwnerMoves, video
    <2>2. pc'["accept"] = pc["accept"] \/ (pc["accept"] = "gone" /\ pc'["accept"] = "accept")
        BY <1>1, OwnersMove DEF OwnerMoves
    <2>3. \A t \in Enders : pc[t] \in Ending => pc'[t] = pc[t]
        BY <1>1, OwnersMove DEF OwnerMoves, Enders
    <2> QED
        BY <2>1, <2>2, <2>3
<1>2. ASSUME NEW t \in Enders, EndSession(t) PROVE Captures'
    <2>1. pc'["accept"] = pc["accept"] /\ (\A u \in Enders : u # t => pc'[u] = pc[u])
        BY <1>2, EndersGo
    <2>2. capturing' => capturing
        BY <1>2 DEF EndSession, EndClaim, EndRetire, EndClose, EndLift, EndReport, EndVideo, video
    <2>3. capturing' => pc[t] # "stopvideo"
        BY <1>2 DEF EndSession, EndClaim, EndRetire, EndClose, EndLift, EndReport, EndVideo
    <2>4. pc'[t] \in Ending \/ (pc[t] = "claim" /\ ~active /\ ~active') \/ pc[t] = "stopvideo"
        BY <1>2, EndersGo DEF Ending
    <2> QED
        BY <2>1, <2>2, <2>3, <2>4 DEF Ending
<1>3. CASE AcceptThread /\ ~SpawnLoops
    <2>1. \A t \in Enders : pc'[t] = pc[t]
        BY <1>3, AcceptMoves, AcceptGoes
    <2>2. CASE AcceptExits \/ AcceptControl \/ AcceptVideo \/ AcceptInput \/ HandshakeFails
        <3>1. UNCHANGED <<active, capturing>>
              /\ pc["accept"] \notin {"configure", "adapter", "generation", "publish", "activate"}
            BY <2>2 DEF AcceptExits, AcceptControl, AcceptVideo, AcceptInput, HandshakeFails, GiveUp, flags, video
        <3> QED
            BY <2>1, <3>1
    <2>3. CASE StartCapture \/ ConfigureInput
        <3>1. capturing' => pc'["accept"] \in {"configure", "adapter"}
            BY <2>3, AcceptGoes DEF StartCapture, ConfigureInput, EstablishSteps
        <3> QED
            BY <3>1
    <2>4. CASE ConfigureAdapter \/ NextGeneration \/ PublishSockets \/ Activate
        <3>1. active' \/ pc'["accept"] \in {"generation", "publish", "activate"}
            BY <2>4, AcceptGoes DEF ConfigureAdapter, NextGeneration, PublishSockets, Activate, EstablishSteps
        <3> QED
            BY <3>1
    <2> QED
        BY <1>3, <2>2, <2>3, <2>4 DEF AcceptThread
<1>4. CASE SpawnLoops
    <2>1. pc["accept"] = "join" /\ pc'["owner"] = pc["owner"] /\ (\A c \in Channels : pc[c] = "gone")
          /\ UNCHANGED <<active, capturing>>
        BY <1>4, SpawnMoves DEF SpawnLoops, video
    <2> QED
        BY <2>1 DEF Enders, Ending
<1>5. ASSUME NEW c \in Channels, LoopThread(c) PROVE Captures'
    <2>1. pc'["accept"] = pc["accept"] /\ UNCHANGED <<active, capturing>> /\ pc[c] \in LoopSteps
          /\ (\A u \in Enders : u # c => pc'[u] = pc[u])
        BY <1>5, LoopsMove, ChannelGoes DEF LoopMoves, EndSteps, flags, Enders
    <2> QED
        BY <2>1 DEF LoopSteps, Ending
<1> QED
    BY <1>1, <1>2, <1>3, <1>4, <1>5 DEF Next, AcceptThread

LEMMA ServerKept ==
    ASSUME ServerInv, Prompt, [Next]_vars
    PROVE  ServerInv'
<1>1. PcTyped /\ FlagsTyped /\ NamesTyped
    BY TypeSplits DEF ServerInv, DataTyped
<1>2. TypeOK'
    BY ServerTypes DEF ServerInv
<1> QED
    BY <1>1, <1>2, PhasesKept, GenerationsKept, SocketsKept, HoldingsKept, EpochKept, ContactKept, CapturesKept
    DEF ServerInv

\* A loop leaves without ending its session only if that is no longer the active
\* one; the flag of a session is set before the first start only by Activate.
LEMMA AliveKept ==
    ASSUME ServerInv, Alive, MaxRuns <= 1, [Next]_vars
    PROVE  Alive'
<1> USE ThreadNames DEF Alive, Establishing
<1> PcTyped /\ NamesTyped /\ BudgetTyped /\ Phases /\ Generations
    BY TypeSplits DEF ServerInv, DataTyped
<1>1. CASE Start
    <2>1. ~active /\ ~active' /\ runs' = 0
        BY <1>1, BoundAssumption DEF Start, BudgetTyped
    <2> QED
        BY <2>1
<1>2. CASE Stop \/ StopJoins
    <2>1. ~running' /\ UNCHANGED <<active, runs>>
        BY <1>2 DEF Stop, StopJoins, flags, budget, Phases
    <2>2. pc["owner"] # "down"
        BY <1>2 DEF Stop, StopJoins
    <2> QED
        BY <2>1, <2>2
<1>3. CASE AdbThread \/ UNCHANGED vars
    <2>1. UNCHANGED <<running, active, runs>> /\ pc'["accept"] = pc["accept"] /\ \A t \in Enders : pc'[t] = pc[t]
        BY <1>3, AdbGoes DEF vars, flags, budget
    <2> QED
        BY <2>1 DEF Enders
<1>4. ASSUME NEW t \in Enders, EndSession(t) PROVE Alive'
    <2>1. pc'["accept"] = pc["accept"] /\ (\A u \in Enders : u # t => pc'[u] = pc[u])
          /\ UNCHANGED <<running, runs>> /\ (active' => active)
        BY <1>4, EndersGo
    <2>2. pc["owner"] # "down"
        <3>1. pc[t] \in EndSteps
            BY <1>4, EndersMove
        <3> QED
            BY <3>1 DEF Phases, EndSteps, Enders
    <2>3. active' => pc[t] \in Ending
        BY <1>4, EndersGo DEF Ending
    <2>4. active /\ pc["accept"] \notin EstablishSteps => pc[t] \notin Ending
        BY DEF Phases, Establishing, Enders
    <2> QED
        BY <2>1, <2>2, <2>3, <2>4
<1>5. CASE AcceptThread /\ ~SpawnLoops
    <2>1. (\A t \in Enders : pc'[t] = pc[t]) /\ pc["accept"] # "gone" /\ pc["accept"] # "join"
        BY <1>5, AcceptMoves, AcceptGoes DEF AcceptThread, AcceptExits, AcceptControl, AcceptVideo, AcceptInput,
            HandshakeFails, StartCapture, ConfigureInput, ConfigureAdapter, NextGeneration, PublishSockets, Activate
    <2>2. pc["owner"] # "down" /\ UNCHANGED <<running, runs>>
        BY <1>5, <2>1 DEF AcceptThread, AcceptExits, AcceptControl, AcceptVideo, AcceptInput, GiveUp,
            HandshakeFails, StartCapture, ConfigureInput, ConfigureAdapter, NextGeneration, PublishSockets, Activate,
            flags, budget, Phases
    <2>3. CASE Activate
        BY <2>1, <2>2, <2>3, AcceptGoes DEF Activate, EstablishSteps
    <2>4. CASE ~Activate
        <3>1. UNCHANGED active
            BY <1>5, <2>4 DEF AcceptThread, AcceptExits, AcceptControl, AcceptVideo, AcceptInput, GiveUp, HandshakeFails,
                StartCapture, ConfigureInput, ConfigureAdapter, NextGeneration, PublishSockets, flags
        <3>2. active => pc["accept"] \notin EstablishSteps
            BY <2>1 DEF Phases, Preparing
        <3> QED
            BY <2>1, <2>2, <3>1, <3>2 DEF Enders
    <2> QED
        BY <2>3, <2>4
<1>6. CASE SpawnLoops
    <2>1. (\A c \in Channels : pc'[c] = "begin") /\ pc["owner"] # "down" /\ UNCHANGED runs
        BY <1>6, SpawnMoves DEF SpawnLoops, Phases, budget
    <2> QED
        BY <2>1
<1>7. ASSUME NEW c \in Channels, LoopThread(c) PROVE Alive'
    <2>1. PICK step \in Steps : LoopMoves(c, step)
        BY <1>7, LoopsMove
    <2>2. pc'["owner"] = pc["owner"] /\ pc'["accept"] = pc["accept"] /\ pc'[c] = step
          /\ (\A d \in Channels : d # c => pc'[d] = pc[d]) /\ UNCHANGED <<running, active, runs>>
        BY <2>1, ChannelGoes DEF LoopMoves, EndSteps, flags
    <2>3. running /\ active /\ pc["accept"] \notin EstablishSteps => step # "gone"
        BY <2>1 DEF LoopMoves, IsGenerationActive, Generations, Establishing
    <2> QED
        BY <2>2, <2>3
<1> QED
    BY <1>1, <1>2, <1>3, <1>4, <1>5, <1>6, <1>7 DEF Next
-----------------------------------------------------------------------------
\* EstablishSession and EndSession, interleaved: no socket is leaked, and none is
\* closed under an active session, however often the server is started.
THEOREM SocketsSafety ==
    ASSUME Prompt
    PROVE  Spec => []SocketsAccountedFor
<1>1. Init => ServerInv
    BY ServerStarts
<1>2. ServerInv /\ [Next]_vars => ServerInv'
    BY ServerKept
<1>3. ServerInv => SocketsAccountedFor
    BY DEF ServerInv, Sockets
<1> QED
    BY <1>1, <1>2, <1>3, PTL DEF Spec

\* Whatever outlives a session - a contact, an epoch, a frame half sent, the
\* capture - is its own, however often the server is started.
THEOREM BelongingSafety ==
    ASSUME Prompt
    PROVE  Spec => []BelongsToSession
<1>1. Init => ServerInv
    BY ServerStarts
<1>2. ServerInv /\ [Next]_vars => ServerInv'
    BY ServerKept
<1>3. ServerInv => BelongsToSession
    <2>1. Captures => CaptureEnds
        BY DEF Captures, CaptureEnds, Ending, EndSteps, Establishing, EstablishSteps
    <2> QED
        BY <2>1 DEF ServerInv, Holdings, Epoch, BelongsToSession
<1> QED
    BY <1>1, <1>2, <1>3, PTL DEF Spec

\* A session that is served has all of its loops, on the sockets that are there;
\* for a server that is started once, as the tray does: the second Start of one
\* stopped during EstablishSession would meet the flag of a session without loops.
THEOREM SupervisionSafety ==
    ASSUME Prompt, MaxRuns <= 1
    PROVE  Spec => []SessionSupervised
<1>1. Init => ServerInv /\ Alive
    BY ServerStarts
<1>2. ServerInv /\ Alive /\ [Next]_vars => (ServerInv /\ Alive)'
    BY ServerKept, AliveKept
<1>3. ServerInv /\ Alive => SessionSupervised
    <2> SUFFICES ASSUME ServerInv, Alive PROVE Supervised
        BY DEF ServerInv, Sockets, SessionSupervised
    <2> SUFFICES ASSUME running, active, ~Establishing, NEW c \in Channels
                 PROVE  /\ pc[c] # "gone" /\ c \in current
                        /\ c # "video" /\ pc[c] \notin {"begin", "claim"} => own[c] = sockets
        BY DEF Supervised
    <2>1. pc[c] # "gone" /\ c \in current /\ pc[c] \notin Ending
        BY DEF ServerInv, Alive, Generations, Phases
    <2>2. pc[c] \in LoopSteps \cup {"claim"}
        BY <2>1 DEF ServerInv, TypeOK, Ending, EndSteps
    <2>3. c # "video" /\ pc[c] \in LoopSteps \ {"begin"} => own[c] = sockets
        BY DEF ServerInv, Holdings
    <2> QED
        BY <2>1, <2>2, <2>3
<1> QED
    BY <1>1, <1>2, <1>3, PTL DEF Spec
-----------------------------------------------------------------------------
(***************************************************************************)
(* The server serves its sessions in turn, as ServedSession promises.      *)
(***************************************************************************)

\* A loop begins without a socket, and a session with nothing down.
StartsClean ==
    /\ \A c \in Channels : pc[c] = "begin" => own[c] = NoSession
    /\ pc["accept"] \in {"adapter", "generation", "publish", "activate"} => contact = NoSession

\* A round of a loop moves no other, and never back to the beginning.
LEMMA LoopGoes ==
    ASSUME PcTyped, NEW c \in Channels, LoopThread(c)
    PROVE  /\ pc'["accept"] = pc["accept"] /\ pc[c] \in LoopSteps /\ pc'[c] # "begin"
           /\ \A d \in Channels : d # c => pc'[d] = pc[d]
           /\ UNCHANGED <<active, sockets, open, fresh>>
<1>1. PICK step \in Steps : LoopMoves(c, step)
    BY LoopsMove
<1>2. step \in {"gone"} \cup LoopSteps \cup EndSteps /\ Goto(c, step) /\ step # "begin"
    BY <1>1 DEF LoopMoves, EndSteps
<1> QED
    BY <1>1, <1>2, ChannelGoes DEF LoopMoves, flags

\* A loop reads and drops its own socket only.
LEMMA LoopOwns ==
    ASSUME NamesTyped, NEW c \in Channels, LoopThread(c)
    PROVE  \A d \in Channels : d # c => own'[d] = own[d]
<1>1. UNCHANGED own \/ \E s \in {sockets, NoSession} : own' = [own EXCEPT ![c] = s]
    BY DEF LoopThread, LoopBegins, LoopChecks, LoopFails, LoopIdles, InputLoop, InputArrives, Leave,
           Adapt, Process, VideoLoop, ReadVideoSocket, WriteFrame, EncodeLatest, ControlLoop, RotationArrives,
           Rotate, RotateMapper, RotateAdapter, wires
<1> QED
    BY <1>1 DEF NamesTyped

LEMMA StartsCleanAtFirst == Init => StartsClean
BY DEF Init, StartsClean, Threads, Channels

LEMMA StartsCleanKept ==
    ASSUME ServerInv, StartsClean, [Next]_vars
    PROVE  StartsClean'
<1> USE ThreadNames DEF StartsClean
<1>0. PcTyped /\ NamesTyped /\ Phases /\ Holdings
    BY TypeSplits DEF ServerInv, DataTyped
<1>1. CASE Start \/ Stop \/ StopJoins \/ AdbThread \/ UNCHANGED vars
    BY <1>0, <1>1, OwnersMove DEF OwnerMoves, input, wires
<1>2. ASSUME NEW t \in Enders, EndSession(t) PROVE StartsClean'
    <2>1. pc'["accept"] = pc["accept"] /\ UNCHANGED own /\ pc'[t] # "begin"
          /\ \A u \in Enders : u # t => pc'[u] = pc[u]
        BY <1>0, <1>2, EndersGo DEF Return
    <2>2. contact' \in {contact, NoSession}
        BY <1>2 DEF EndSession, EndClaim, EndRetire, EndClose, EndLift, EndReport, EndVideo, input
    <2> QED
        BY <2>1, <2>2 DEF Enders
<1>3. CASE SpawnLoops
    <2>1. pc'["accept"] = "accept" /\ UNCHANGED own /\ \A c \in Channels : pc[c] = "gone"
        BY <1>0, <1>3, SpawnMoves DEF SpawnLoops
    <2> QED
        BY <1>0, <2>1 DEF Holdings, LoopSteps
<1>4. CASE AcceptThread /\ ~SpawnLoops
    <2>1. UNCHANGED own
        BY <1>4 DEF AcceptThread, AcceptExits, AcceptControl, AcceptVideo, AcceptInput, HandshakeFails, StartCapture,
            ConfigureInput, ConfigureAdapter, NextGeneration, PublishSockets, Activate, GiveUp, wires
    <2>1a. \A c \in Channels : pc'[c] = pc[c]
        BY <1>0, <1>4, AcceptMoves, AcceptGoes DEF Enders
    <2>2. pc'["accept"] \in {"adapter", "generation", "publish", "activate"} =>
              contact' = NoSession
        BY <1>0, <1>4, AcceptGoes DEF AcceptThread, AcceptExits, AcceptControl, AcceptVideo, AcceptInput,
            HandshakeFails, StartCapture, ConfigureInput, ConfigureAdapter, NextGeneration, PublishSockets,
            Activate, GiveUp, input, EstablishSteps
    <2> QED
        BY <2>1, <2>1a, <2>2
<1>5. ASSUME NEW c \in Channels, LoopThread(c) PROVE StartsClean'
    <2>1. pc'["accept"] = pc["accept"] /\ pc'[c] # "begin" /\ \A d \in Channels : d # c => pc'[d] = pc[d]
        BY <1>0, <1>5, LoopGoes
    <2>2. \A d \in Channels : d # c => own'[d] = own[d]
        BY <1>0, <1>5, LoopOwns
    <2>3. CASE c = "input" /\ Process
        BY <1>0, <2>1, <2>2, <2>3 DEF Process, Phases, EstablishSteps, Channels
    <2>4. CASE ~(c = "input" /\ Process)
        <3>1. contact' \in {contact, NoSession}
            BY <1>5, <2>4 DEF LoopThread, LoopBegins, LoopChecks, LoopFails, LoopIdles, InputLoop, InputArrives,
                Adapt, VideoLoop, ReadVideoSocket, WriteFrame, EncodeLatest, ControlLoop, RotationArrives,
                Rotate, RotateMapper, RotateAdapter, input
        <3> QED
            BY <2>1, <2>2, <3>1
    <2> QED
        BY <2>3, <2>4
<1> QED
    BY <1>1, <1>2, <1>3, <1>4, <1>5 DEF Next

\* Where a loop stands is seen by whom it acts for.
LEMMA ReachStays ==
    ASSUME NEW c \in Channels, UNCHANGED <<active, sockets>>, own'[c] = own[c],
           pc'["accept"] = "join" <=> pc["accept"] = "join",
           \/ pc'[c] = pc[c]
           \/ pc[c] \notin LoopSteps /\ pc'[c] \notin LoopSteps
           \/ pc[c] \in LoopSteps \ {"begin"} /\ pc'[c] \in LoopSteps \ {"begin"}
    PROVE  Reach(c)' = Reach(c)
BY DEF Reach

\* Steps of the server that move at most the pointer or the frame.
LEMMA SmallSteps ==
    ASSUME UNCHANGED <<active, sockets>>, \A c \in Channels : Reach(c)' = Reach(c),
           \/ UNCHANGED <<contact, pending>>
           \/ contact' \in {Reach("input"), NoSession} /\ UNCHANGED pending
           \/ UNCHANGED contact /\ pending' \in {Reach("video"), NoSession}
    PROVE  [Promise!Next]_(Promise!sessionVars)
<1>1. Serving' = Serving /\ [c \in Channels |-> Reach(c)]' = [c \in Channels |-> Reach(c)]
    BY DEF Serving
<1>2. /\ [c \in Channels |-> Reach(c)]["input"] = Reach("input")
      /\ [c \in Channels |-> Reach(c)]["video"] = Reach("video")
    BY DEF Channels
<1>3. CASE UNCHANGED <<contact, pending>>
    BY <1>1, <1>3 DEF Promise!sessionVars
<1>4. CASE contact' = Reach("input") /\ UNCHANGED pending
    BY <1>1, <1>2, <1>4 DEF Promise!Next, Promise!Touch
<1>5. CASE contact' = NoSession /\ UNCHANGED pending
    BY <1>1, <1>5 DEF Promise!Next, Promise!Lift
<1>6. CASE UNCHANGED contact /\ pending' \in {Reach("video"), NoSession}
    BY <1>1, <1>2, <1>6 DEF Promise!Next, Promise!Send
<1> QED
    BY <1>3, <1>4, <1>5, <1>6

\* Some of the loops of a session that is not served any more leave.
LEMMA LeavingSteps ==
    ASSUME ~active, ~active', \A c \in Channels : Reach(c)' \in {Reach(c), NoSession},
           UNCHANGED contact, pending' \in {pending, NoSession}
    PROVE  Promise!LoopLeaves
<1> DEFINE gone == {c \in Channels : Reach(c)' = NoSession}
<1>1. Serving = NoSession /\ Serving' = NoSession
    BY DEF Serving
<1>2. [c \in Channels |-> Reach(c)]' =
      [c \in Channels |-> IF c \in gone THEN NoSession ELSE [d \in Channels |-> Reach(d)][c]]
    OBVIOUS
<1>3. Promise!Withdraw
    BY <1>2, gone \in SUBSET Channels DEF Promise!Withdraw
<1> QED
    BY <1>1, <1>3 DEF Promise!LoopLeaves

\* The session is claimed by whoever ends it.
LEMMA EndingSteps ==
    ASSUME active, ~active', sockets # NoSession, UNCHANGED <<sockets, contact, pending>>,
           \A c \in Channels : Reach(c)' \in {sockets, NoSession}
    PROVE  Promise!End
<1> DEFINE gone == {c \in Channels : Reach(c)' = NoSession}
<1>1. Serving = sockets /\ Serving' = NoSession /\ \A c \in Channels : Reach(c) = sockets
    BY DEF Serving, Reach
<1>2. [c \in Channels |-> Reach(c)]' =
      [c \in Channels |-> IF c \in gone THEN NoSession ELSE [d \in Channels |-> Reach(d)][c]]
    BY <1>1
<1>3. Promise!Withdraw
    BY <1>2, gone \in SUBSET Channels DEF Promise!Withdraw
<1> QED
    BY <1>1, <1>3 DEF Promise!End

\* A session begins to be served when nothing is left of any other.
LEMMA ServingStep ==
    ASSUME ~active, active', UNCHANGED <<sockets, contact, pending>>, sockets \in Sessions,
           \A c \in Channels : Reach(c) = NoSession, contact = NoSession, pending = NoSession
    PROVE  Promise!Serve
<1>1. Serving = NoSession /\ Serving' = sockets /\ \A c \in Channels : Reach(c)' = sockets
    BY DEF Serving, Reach
<1>2. [c \in Channels |-> Reach(c)] = Promise!Nothing
    BY DEF Promise!Nothing
<1>3. [c \in Channels |-> Reach(c)]' = [c \in Channels |-> sockets]
    BY <1>1
<1> QED
    BY <1>1, <1>2, <1>3 DEF Promise!Serve

\* The sockets of an active session are there, and its loops hold them or nothing.
LEMMA ActiveHolds ==
    ASSUME ServerInv, StartsClean, active, NEW c \in Channels, pc[c] \in LoopSteps
    PROVE  /\ own[c] \in {sockets, NoSession}
           /\ own[c] = NoSession => c = "video" \/ pc[c] = "begin"
<1>1. sockets \in Sessions /\ sockets # NoSession
    BY SessionAssumption DEF ServerInv, TypeOK, Sockets, SocketsAccountedFor
<1> QED
    BY <1>1 DEF ServerInv, Holdings, StartsClean

\* Past the third channel nobody is in a loop, and the session is not active yet.
LEMMA LoopsAreOut ==
    ASSUME ServerInv, pc["accept"] \in EstablishSteps \ {"video", "input"}, NEW c \in Channels
    PROVE  pc[c] \notin LoopSteps /\ own[c] = NoSession /\ (pc["accept"] # "join" => Reach(c) = NoSession)
<1>1. pc[c] \notin LoopSteps
    BY DEF ServerInv, Phases, LoopSteps
<1>2. own[c] = NoSession
    BY <1>1 DEF ServerInv, Holdings
<1>3. pc["accept"] # "join" => ~active
    BY DEF ServerInv, Phases, Preparing
<1> QED
    BY <1>1, <1>2, <1>3 DEF Reach

LEMMA EndSessionRefines ==
    ASSUME ServerInv, StartsClean, NEW t \in Enders, EndSession(t)
    PROVE  [Promise!Next]_(Promise!sessionVars)
<1>0. PcTyped /\ NamesTyped
    BY TypeSplits DEF ServerInv, DataTyped
<1>1. /\ pc'["accept"] = pc["accept"] /\ UNCHANGED <<own, pending>>
      /\ pc[t] \in EndSteps /\ pc'[t] \in EndSteps \cup {"gone", "joining"}
      /\ \A u \in Enders : u # t => pc'[u] = pc[u]
    BY <1>0, EndersGo DEF EndSteps, Return
<1>2. \A c \in Channels : pc'[c] = pc[c] \/ (pc[c] \notin LoopSteps /\ pc'[c] \notin LoopSteps)
    BY <1>1 DEF Enders, EndSteps, LoopSteps
<1>3. CASE EndClaim(t) /\ active
    <2>1. ~active' /\ UNCHANGED <<sockets, contact>>
        BY <1>3 DEF EndClaim, wires, input
    <2>2. sockets # NoSession
        BY <1>3, SessionAssumption DEF ServerInv, TypeOK, Sockets, SocketsAccountedFor
    <2>3. ASSUME NEW c \in Channels PROVE Reach(c)' \in {sockets, NoSession}
        <3>1. CASE pc[c] \in LoopSteps
            <4>1. pc'[c] = pc[c] /\ own'[c] = own[c] /\ sockets' = sockets
                BY <1>1, <1>2, <2>1, <3>1
            <4>2. own[c] \in {sockets, NoSession}
                BY <1>3, <3>1, ActiveHolds
            <4> QED
                BY <4>1, <4>2 DEF Reach
        <3>2. CASE pc[c] \notin LoopSteps
            BY <1>2, <2>1, <3>2 DEF Reach
        <3> QED
            BY <3>1, <3>2
    <2>4. Promise!End
        BY <1>1, <1>3, <2>1, <2>2, <2>3, EndingSteps
    <2> QED
        BY <2>4 DEF Promise!Next
<1>4. CASE EndClose(t)
    <2>1. ~active
        BY <1>4 DEF EndClose, ServerInv, Phases, Ending, Enders
    <2>2. sockets' = NoSession /\ UNCHANGED <<active, contact>>
        BY <1>4 DEF EndClose, flags, input
    <2>3. \A c \in Channels : Reach(c)' \in {Reach(c), NoSession}
        BY <1>1, <1>2, <2>1, <2>2 DEF Reach
    <2>4. Promise!LoopLeaves
        BY <1>1, <2>1, <2>2, <2>3, LeavingSteps
    <2> QED
        BY <2>4 DEF Promise!Next
<1>5. CASE ~EndClose(t) /\ ~(EndClaim(t) /\ active)
    <2>1. UNCHANGED <<active, sockets>> /\ contact' \in {contact, NoSession}
        BY <1>5 DEF EndSession, EndClaim, EndRetire, EndLift, EndReport, EndVideo, flags, wires, input
    <2>2. \A c \in Channels : Reach(c)' = Reach(c)
        BY <1>1, <1>2, <2>1, ReachStays
    <2> QED
        BY <1>1, <2>1, <2>2, SmallSteps
<1> QED
    BY <1>3, <1>4, <1>5

LEMMA AcceptRefines ==
    ASSUME ServerInv, StartsClean, AcceptThread
    PROVE  [Promise!Next]_(Promise!sessionVars)
<1> USE DEF EstablishSteps
<1>0. PcTyped /\ NamesTyped
    BY TypeSplits DEF ServerInv, DataTyped
<1>1. UNCHANGED <<own, pending>> /\ (~SpawnLoops => \A c \in Channels : pc'[c] = pc[c])
    <2>1. UNCHANGED <<own, pending>>
        BY DEF AcceptThread, AcceptExits, AcceptControl, AcceptVideo, AcceptInput, HandshakeFails, StartCapture,
            ConfigureInput, ConfigureAdapter, NextGeneration, PublishSockets, Activate, SpawnLoops, GiveUp, wires, video
    <2>2. ~SpawnLoops => \A c \in Channels : pc'[c] = pc[c]
        BY <1>0, AcceptMoves, AcceptGoes DEF Enders
    <2> QED
        BY <2>1, <2>2
<1>2. CASE AcceptExits \/ AcceptControl \/ AcceptVideo \/ AcceptInput \/ HandshakeFails \/ StartCapture
           \/ ConfigureInput \/ ConfigureAdapter \/ NextGeneration
    <2>1. pc["accept"] # "join" /\ pc'["accept"] # "join"
        BY <1>0, <1>2, AcceptGoes DEF AcceptExits, AcceptControl, AcceptVideo, AcceptInput, HandshakeFails, StartCapture,
            ConfigureInput, ConfigureAdapter, NextGeneration, GiveUp
    <2>2. UNCHANGED <<active, sockets>> /\ contact' \in {contact, NoSession} /\ ~SpawnLoops
        BY <1>2, <2>1 DEF AcceptExits, AcceptControl, AcceptVideo, AcceptInput, HandshakeFails, StartCapture,
            ConfigureInput, ConfigureAdapter, NextGeneration, SpawnLoops, GiveUp, flags, wires, input
    <2>3. \A c \in Channels : Reach(c)' = Reach(c)
        BY <1>1, <2>1, <2>2, ReachStays
    <2> QED
        BY <1>1, <2>2, <2>3, SmallSteps
<1>3. CASE PublishSockets
    <2>1. pc["accept"] = "publish" /\ pc'["accept"] = "activate" /\ UNCHANGED <<active, contact>> /\ ~SpawnLoops
        BY <1>0, <1>3, AcceptGoes DEF PublishSockets, SpawnLoops, flags, input
    <2>2. ~active /\ ~active'
        BY <2>1 DEF ServerInv, Phases, Preparing
    <2>3. \A c \in Channels : Reach(c)' \in {Reach(c), NoSession}
        BY <1>1, <2>1, <2>2, LoopsAreOut DEF Reach
    <2>4. Promise!LoopLeaves
        BY <1>1, <2>1, <2>2, <2>3, LeavingSteps
    <2> QED
        BY <2>4 DEF Promise!Next
<1>4. CASE Activate
    <2>1. pc["accept"] = "activate" /\ active' /\ UNCHANGED <<sockets, contact>>
        BY <1>4 DEF Activate, wires, input
    <2>2. ~active /\ contact = NoSession
        BY <2>1 DEF ServerInv, Phases, Preparing, StartsClean
    <2>3. sockets \in Sessions
        BY <2>1 DEF ServerInv, TypeOK, Sockets, Preparing, SocketsAccountedFor
    <2>4. pending = NoSession /\ \A c \in Channels : Reach(c) = NoSession
        <3>1. pending \in {NoSession, own["video"]} /\ "video" \in Channels
            BY DEF ServerInv, Holdings, Channels
        <3> QED
            BY <2>1, <3>1, LoopsAreOut
    <2>5. Promise!Serve
        BY <1>1, <2>1, <2>2, <2>3, <2>4, ServingStep
    <2> QED
        BY <2>5 DEF Promise!Next
<1>5. CASE SpawnLoops
    <2>1. pc["accept"] = "join" /\ pc'["accept"] = "accept" /\ UNCHANGED <<active, sockets, contact>>
          /\ \A c \in Channels : pc'[c] = "begin"
        BY <1>0, <1>5, SpawnMoves DEF SpawnLoops, input
    <2>2. \A c \in Channels : Reach(c)' = Reach(c)
        BY <1>1, <2>1, LoopsAreOut DEF Reach, LoopSteps
    <2> QED
        BY <1>1, <2>1, <2>2, SmallSteps
<1> QED
    BY <1>2, <1>3, <1>4, <1>5 DEF AcceptThread

LEMMA LoopRefines ==
    ASSUME ServerInv, StartsClean, NEW c \in Channels, LoopThread(c)
    PROVE  [Promise!Next]_(Promise!sessionVars)
<1>0. PcTyped /\ NamesTyped
    BY TypeSplits DEF ServerInv, DataTyped
<1>1. /\ pc'["accept"] = pc["accept"] /\ pc[c] \in LoopSteps /\ pc'[c] # "begin"
      /\ \A d \in Channels : d # c => pc'[d] = pc[d] /\ own'[d] = own[d]
      /\ UNCHANGED <<active, sockets>>
    BY <1>0, LoopGoes, LoopOwns
<1>2. pc["accept"] # "join"
    BY <1>1, LoopsAreOut DEF EstablishSteps
<1>3. \A d \in Channels : d # c => Reach(d)' = Reach(d)
    BY <1>1, ReachStays
<1>4. Reach(c) = IF own[c] = NoSession /\ (c = "video" \/ pc[c] = "begin") THEN sockets ELSE own[c]
    BY <1>1, <1>2, ActiveHolds DEF Reach
<1>5. CASE LoopBegins(c)
    <2>1. UNCHANGED <<contact, pending>> /\ pc[c] = "begin" /\ Goto(c, "check")
          /\ own' = IF c = "video" THEN own ELSE [own EXCEPT ![c] = sockets]
        BY <1>5 DEF LoopBegins, input, video
    <2>2. pc'[c] = "check" /\ own'[c] = (IF c = "video" THEN own[c] ELSE sockets)
        <3>1. pc'[c] = "check"
            BY <1>0, <2>1 DEF Goto, PcTyped, Threads
        <3>2. own'[c] = (IF c = "video" THEN own[c] ELSE sockets)
            BY <1>0, <2>1 DEF NamesTyped
        <3> QED
            BY <3>1, <3>2
    <2>3. own[c] = NoSession
        BY <2>1 DEF StartsClean
    <2>4. Reach(c)' = Reach(c)
        BY <1>1, <1>2, <1>4, <2>1, <2>2, <2>3 DEF Reach, LoopSteps
    <2> QED
        BY <1>1, <1>3, <2>1, <2>4, SmallSteps
<1>6. ASSUME NEW step \in {"gone", "claim"}, Leave(c, step), UNCHANGED contact
      PROVE  [Promise!Next]_(Promise!sessionVars)
    <2>1. pc'[c] = step
        BY <1>0, <1>6 DEF Leave, Goto, PcTyped, Threads
    <2>2. pending' \in {pending, NoSession}
        BY <1>6 DEF Leave
    <2>3. CASE active
        <3>1. Reach(c)' = Reach(c)
            BY <1>1, <2>3 DEF Reach
        <3> QED
            BY <1>1, <1>3, <1>6, <2>2, <3>1, SmallSteps
    <2>4. CASE ~active
        <3>1. Reach(c)' = NoSession
            BY <1>1, <1>2, <2>1, <2>4 DEF Reach, LoopSteps
        <3>2. Promise!LoopLeaves
            BY <1>1, <1>3, <1>6, <2>2, <2>4, <3>1, LeavingSteps
        <3> QED
            BY <3>2 DEF Promise!Next
    <2> QED
        BY <2>3, <2>4
<1>7. CASE LoopChecks(c) /\ ~IsGenerationActive(c)
    BY <1>6, <1>7 DEF LoopChecks, input
<1>8. CASE LoopFails(c)
    BY <1>6, <1>8 DEF LoopFails, input
<1>9. CASE c = "video" /\ ReadVideoSocket
    <2>1. CASE sockets = NoSession
        BY <1>6, <1>9, <2>1 DEF ReadVideoSocket, input
    <2>2. CASE sockets # NoSession
        <3>1. /\ own' = [own EXCEPT !["video"] = sockets] /\ UNCHANGED <<contact, pending>>
              /\ Goto("video", "encode") \/ Goto("video", "write")
            BY <1>9, <2>2 DEF ReadVideoSocket, input
        <3>2. own'["video"] = sockets /\ pc'["video"] \in {"encode", "write"}
            BY <1>0, <1>9, <3>1 DEF Goto, PcTyped, NamesTyped, Threads
        <3>3. own["video"] \in {NoSession, sockets}
            BY <1>1, <1>9, <2>2 DEF ServerInv, Holdings
        <3>4. Reach(c)' = Reach(c)
            BY <1>1, <1>2, <1>4, <1>9, <3>2, <3>3 DEF Reach, LoopSteps
        <3> QED
            BY <1>1, <1>3, <3>1, <3>4, SmallSteps
    <2> QED
        BY <2>1, <2>2
<1>10. ASSUME pc[c] # "begin", UNCHANGED own, pc'[c] \in LoopSteps,
              \/ UNCHANGED <<contact, pending>>
              \/ contact' \in {Reach("input"), NoSession} /\ UNCHANGED pending
              \/ UNCHANGED contact /\ pending' \in {Reach("video"), NoSession}
       PROVE  [Promise!Next]_(Promise!sessionVars)
    <2>1. Reach(c)' = Reach(c)
        BY <1>1, <1>10, ReachStays
    <2> QED
        BY <1>1, <1>3, <1>10, <2>1, SmallSteps
<1>11. ASSUME NEW step \in LoopSteps, Goto(c, step) PROVE pc'[c] \in LoopSteps
    BY <1>0, <1>11 DEF Goto, PcTyped, Threads
<1>12. CASE (LoopChecks(c) /\ IsGenerationActive(c)) \/ LoopIdles(c) \/ (c = "control" /\ ControlLoop)
            \/ (c = "input" /\ (InputArrives \/ Adapt))
    <2>1. pc[c] # "begin" /\ UNCHANGED <<own, pending>> /\ contact' \in {contact, NoSession}
        BY <1>12 DEF LoopChecks, LoopIdles, ControlLoop, RotationArrives, Rotate, RotateMapper, RotateAdapter,
            InputArrives, Adapt, wires, input, video
    <2>2. \E step \in LoopSteps : Goto(c, step)
        BY <1>12 DEF LoopChecks, LoopIdles, ControlLoop, RotationArrives, Rotate, RotateMapper, RotateAdapter,
            InputArrives, Adapt, LoopSteps
    <2> QED
        BY <1>10, <1>11, <2>1, <2>2
<1>13. CASE c = "input" /\ Process
    <2>1. pc[c] = "process" /\ Goto(c, "check") /\ UNCHANGED <<own, pending>> /\ contact' \in {own["input"], NoSession}
        BY <1>13 DEF Process, wires, video
    <2>2. own["input"] = Reach("input")
        BY <1>4, <1>13, <2>1
    <2> QED
        BY <1>10, <1>11, <2>1, <2>2 DEF LoopSteps
<1>14. CASE c = "video" /\ WriteFrame
    <2>1. pc[c] = "write" /\ Goto(c, "check") /\ UNCHANGED <<own, contact>> /\ pending' \in {pending, NoSession}
        BY <1>14 DEF WriteFrame, wires, input
    <2> QED
        BY <1>10, <1>11, <2>1 DEF LoopSteps
<1>15. CASE c = "video" /\ EncodeLatest
    <2>1. pc[c] = "encode" /\ Goto(c, "check") /\ UNCHANGED <<own, contact>> /\ pending' \in {own["video"], NoSession}
        BY <1>15 DEF EncodeLatest, wires, input
    <2>2. own["video"] = NoSession \/ own["video"] = Reach("video")
        BY <1>4, <1>15
    <2> QED
        BY <1>10, <1>11, <2>1, <2>2 DEF LoopSteps
<1> QED
    BY <1>5, <1>7, <1>8, <1>9, <1>12, <1>13, <1>14, <1>15 DEF LoopThread, InputLoop, VideoLoop

\* Every step of the server is a step of the abstract session, or none.
LEMMA StepRefines == ServerInv /\ StartsClean /\ [Next]_vars => [Promise!Next]_(Promise!sessionVars)
<1> SUFFICES ASSUME ServerInv, StartsClean, [Next]_vars PROVE [Promise!Next]_(Promise!sessionVars)
    OBVIOUS
<1>1. CASE Start \/ Stop \/ StopJoins \/ AdbThread \/ UNCHANGED vars
    <2>1. PcTyped /\ Phases
        BY TypeSplits DEF ServerInv
    <2>2. /\ pc'["accept"] = pc["accept"] \/ (pc["accept"] = "gone" /\ pc'["accept"] = "accept")
          /\ \A c \in Channels : pc'[c] = pc[c]
          /\ UNCHANGED <<active, sockets, own, contact, pending>>
        BY <1>1, <2>1, OwnersMove DEF OwnerMoves, Enders, input, video
    <2>3. \A c \in Channels : Reach(c)' = Reach(c)
        BY <2>2, ReachStays
    <2> QED
        BY <2>2, <2>3, SmallSteps
<1> QED
    BY <1>1, EndSessionRefines, AcceptRefines, LoopRefines DEF Next

\* However loops, accept thread and owner interleave, the server serves one session
\* after the other, and the next one only when nothing is left of the one before.
THEOREM Refinement ==
    ASSUME Prompt
    PROVE  Spec => ServesInTurn
<1>1. Init => Promise!Init
    BY ThreadNames DEF Init, Promise!Init, Promise!Nothing, Serving, Reach, LoopSteps, Channels, Threads
<1>2. Init => ServerInv /\ StartsClean
    BY ServerStarts, StartsCleanAtFirst
<1>3. ServerInv /\ StartsClean /\ [Next]_vars => (ServerInv /\ StartsClean)'
    BY ServerKept, StartsCleanKept
<1> QED
    BY <1>1, <1>2, <1>3, StepRefines, PTL DEF Spec, ServesInTurn, Promise!Spec
=============================================================================
