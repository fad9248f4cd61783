--------------------------- MODULE AndroidSession ---------------------------
(***************************************************************************)
(* The tablet's end of the three channels: AdbSession.kt.  A connection    *)
(* attempt, the readers of its control and video channel, the writer of    *)
(* the input channel and the activity's thread each may find that the      *)
(* connection has failed; the flags failureNotified and reconnecting and   *)
(* the generation decide whose finding counts, so that the connection is   *)
(* torn down and made again once, and never after close().                 *)
(*                                                                         *)
(* A step is one access of an atomic flag, one section under the sockets'  *)
(* monitor, or one blocking call.  Attempts, readers and reconnects run on *)
(* an executor of three threads.  The control writer is the input writer's *)
(* code over again and is not modelled a second time; telemetry ticks only *)
(* send.  The desktop is outside: it may refuse a channel and drop a       *)
(* connection at any time.                                                 *)
(***************************************************************************)
EXTENDS Naturals, Sequences, FiniteSets

CONSTANTS
    Attempts,       \* names of connection attempts, used again when free
    NoAttempt,
    PoolSize,       \* threads of the executor (3)
    QueueSize,      \* batches the input writer's queue holds (8)
    MaxFaults,      \* bound: refused channels, dropped connections, rejected batches
    Prompt          \* see Settled

ASSUME AttemptAssumption == NoAttempt \notin Attempts
ASSUME SizeAssumption == PoolSize \in Nat /\ QueueSize \in Nat /\ MaxFaults \in Nat
ASSUME PromptAssumption == Prompt \in BOOLEAN

VARIABLES
    running,        \* running
    notified,       \* failureNotified
    reconnecting,   \* reconnecting
    timer,          \* is a reconnect scheduled?
    shut,           \* have the executors been shut down?
    current,        \* the attempts that read the present generation
    held,           \* how many sockets of each attempt are registered and open
    broken,         \* attempts whose connection the desktop has dropped
    streams,        \* the attempt whose streams are published
    queue,          \* input writer: the streams of the batches that wait
    hand,           \* the stream that the activity, or the writer, has looked up
    lost,           \* has the published stream missed a batch?
    retry,          \* attempts that reconnect since their hello was not written
    at,             \* what each thread or task does next
    faults

flags   == <<running, notified, reconnecting, timer, shut>>
conns   == <<current, held, broken, streams>>
writing == <<queue, hand, lost>>
vars    == <<flags, conns, writing, retry, at, faults>>

Roles      == {"connect", "control", "video"}
Tasks      == Roles \X Attempts
Main       == <<"main", NoAttempt>>
Writer     == <<"writer", NoAttempt>>
Threads    == Tasks \cup {Main, Writer}

NotifySteps == {"notify", "schedule", "close", "timer"}

Init ==
    /\ running = FALSE /\ notified = FALSE /\ reconnecting = FALSE
    /\ timer = FALSE /\ shut = FALSE
    /\ current = {} /\ broken = {} /\ retry = {}
    /\ held = [a \in Attempts |-> 0]
    /\ streams = NoAttempt
    /\ queue = <<>> /\ lost = FALSE
    /\ hand = [t \in {Main, Writer} |-> NoAttempt]
    /\ at = [t \in Threads |-> "idle"]
    /\ faults = MaxFaults
-----------------------------------------------------------------------------
Goto(t, step) == at' = [at EXCEPT ![t] = step]

Fault == faults > 0 /\ faults' = faults - 1

Waiting == {"idle", "queued"}
Busy == {t \in Tasks : at[t] \notin Waiting}

\* An executor thread is free for the task.
Scheduled(t) == at[t] = "queued" /\ Cardinality(Busy) < PoolSize

\* Nothing refers to the attempt any more.
Free(a) ==
    /\ \A role \in Roles : at[<<role, a>>] = "idle"
    /\ held[a] = 0 /\ a # hand[Main] /\ a # hand[Writer]
    /\ \A i \in 1..Len(queue) : queue[i] # a

NewAttempt == CHOOSE a \in Attempts : Free(a)

\* The connection stands, on both sides.
Stands(a) == held[a] = 3 /\ a \notin broken

\* closeSockets, in one section: the next generation, no stream, no socket; then
\* the writer's queue is cleared.
CloseSockets ==
    /\ current' = {}
    /\ held' = [a \in Attempts |-> 0]
    /\ broken' = {}
    /\ streams' = NoAttempt
    /\ queue' = <<>>
    /\ lost' = FALSE
    /\ UNCHANGED hand
-----------------------------------------------------------------------------
(***************************************************************************)
(* notifyTransportFailure and scheduleReconnect, by any thread.            *)
(***************************************************************************)
\* Where a thread goes on: a writer and the activity return to their loops, the
\* attempt whose hello failed calls scheduleReconnect itself, the rest end.
Return(t) ==
    IF t = Main THEN "running"
    ELSE IF t[1] = "connect" /\ t[2] \in retry THEN "schedule" ELSE "idle"

Returns(t) ==
    /\ Goto(t, Return(t))
    /\ retry' = retry \ {t[2]}

\* failureNotified: the first to report a failure of a connection acts on it.
Notify(t) ==
    /\ at[t] = "notify"
    /\ IF running /\ ~notified
       THEN notified' = TRUE /\ Goto(t, "schedule") /\ UNCHANGED retry
       ELSE UNCHANGED notified /\ Returns(t)
    /\ UNCHANGED <<running, reconnecting, timer, shut, conns, writing, faults>>

Schedule(t) ==
    /\ at[t] = "schedule"
    /\ IF reconnecting
       THEN UNCHANGED reconnecting /\ Returns(t)
       ELSE reconnecting' = TRUE /\ Goto(t, "close") /\ UNCHANGED retry
    /\ UNCHANGED <<running, notified, timer, shut, conns, writing, faults>>

\* Mutant: only the published connection is closed.
TearDownPublished(t) ==
    /\ at[t] = "close"
    /\ current' = {}
    /\ held' = [a \in Attempts |-> IF a = streams THEN 0 ELSE held[a]]
    /\ streams' = NoAttempt /\ queue' = <<>> /\ lost' = FALSE
    /\ Goto(t, "timer")
    /\ UNCHANGED <<flags, broken, hand, retry, faults>>

TearDown(t) ==
    /\ at[t] = "close"
    /\ CloseSockets
    /\ Goto(t, "timer")
    /\ UNCHANGED <<flags, retry, faults>>

\* executor.schedule; once the executor is shut down it throws instead.
SetTimer(t) ==
    /\ at[t] = "timer"
    /\ timer' = ~shut
    /\ Returns(t)
    /\ UNCHANGED <<running, notified, reconnecting, shut, conns, writing, faults>>

Reports(t) == Notify(t) \/ Schedule(t) \/ TearDown(t) \/ SetTimer(t)

\* Under Prompt a thread that is about to report a failure, or is reporting one,
\* is not held up for the second that the timer takes.
Settled == Prompt => \A t \in Threads : at[t] \notin NotifySteps \cup {"hello", "failed"}

\* Mutant: the flag stays set, so that later failures schedule nothing.
ReconnectKeepsFlag ==
    /\ timer /\ Settled /\ Cardinality(Busy) < PoolSize
    /\ \E a \in Attempts : Free(a)
    /\ timer' = FALSE
    /\ Goto(<<"connect", NewAttempt>>, "fired")
    /\ UNCHANGED <<running, notified, reconnecting, shut, conns, writing, retry, faults>>

\* The scheduled task: reconnecting is cleared before connect is called.
Reconnect ==
    /\ timer /\ Settled /\ Cardinality(Busy) < PoolSize
    /\ \E a \in Attempts : Free(a)
    /\ timer' = FALSE
    /\ reconnecting' = FALSE
    /\ Goto(<<"connect", NewAttempt>>, "fired")
    /\ UNCHANGED <<running, notified, shut, conns, writing, retry, faults>>
-----------------------------------------------------------------------------
(***************************************************************************)
(* connect.                                                                *)
(***************************************************************************)
\* The reconnect task hands the attempt to the executor.
Fired(a) ==
    /\ at[<<"connect", a>>] = "fired"
    /\ Goto(<<"connect", a>>, IF running /\ ~shut THEN "queued" ELSE "idle")
    /\ UNCHANGED <<flags, conns, writing, retry, faults>>

Begin(a) ==
    /\ Scheduled(<<"connect", a>>)
    /\ current' = current \cup {a}
    /\ Goto(<<"connect", a>>, "reset")
    /\ UNCHANGED <<flags, held, broken, streams, writing, retry, faults>>

\* Mutant: failures of the last connection still count as notified.
ResetForgotten(a) ==
    /\ at[<<"connect", a>>] = "reset"
    /\ Goto(<<"connect", a>>, IF running THEN "open" ELSE "idle")
    /\ UNCHANGED <<flags, conns, writing, retry, faults>>

Reset(a) ==
    /\ at[<<"connect", a>>] = "reset"
    /\ IF running
       THEN notified' = FALSE /\ Goto(<<"connect", a>>, "open")
       ELSE UNCHANGED notified /\ Goto(<<"connect", a>>, "idle")
    /\ UNCHANGED <<running, reconnecting, timer, shut, conns, writing, retry, faults>>

\* Mutant: an attempt that was cancelled goes on.
OpenUnchecked(a) ==
    /\ at[<<"connect", a>>] = "open"
    /\ held' = [held EXCEPT ![a] = @ + 1]
    /\ Goto(<<"connect", a>>, "connecting")
    /\ UNCHANGED <<flags, current, broken, streams, writing, retry, faults>>

\* open, under the monitor: the socket is registered before it is connected.
Open(a) ==
    /\ at[<<"connect", a>>] = "open"
    /\ IF running /\ a \in current
       THEN held' = [held EXCEPT ![a] = @ + 1] /\ Goto(<<"connect", a>>, "connecting")
       ELSE UNCHANGED held /\ Goto(<<"connect", a>>, "caught")
    /\ UNCHANGED <<flags, current, broken, streams, writing, retry, faults>>

\* The socket connects; or is refused, and closed; or was closed meanwhile.
Connect(a) ==
    /\ at[<<"connect", a>>] = "connecting"
    /\ \/ /\ held[a] > 0
          /\ Goto(<<"connect", a>>, IF held[a] = 3 THEN "preface" ELSE "open")
          /\ UNCHANGED <<held, faults>>
       \/ /\ held[a] > 0 /\ Fault
          /\ held' = [held EXCEPT ![a] = @ - 1]
          /\ Goto(<<"connect", a>>, "caught")
       \/ /\ held[a] = 0
          /\ Goto(<<"connect", a>>, "caught")
          /\ UNCHANGED <<held, faults>>
    /\ UNCHANGED <<flags, current, broken, streams, writing, retry>>

\* The prefaces are written, which fails on a socket that is closed or dropped.
Preface(a) ==
    /\ at[<<"connect", a>>] = "preface"
    /\ Goto(<<"connect", a>>, IF Stands(a) THEN "publish" ELSE "caught")
    /\ UNCHANGED <<flags, conns, writing, retry, faults>>

\* Mutant: the streams of an attempt that was cancelled are published.
PublishUnchecked(a) ==
    /\ at[<<"connect", a>>] = "publish"
    /\ streams' = a /\ lost' = FALSE
    /\ Goto(<<"connect", a>>, "hello")
    /\ UNCHANGED <<flags, current, held, broken, queue, hand, retry, faults>>

\* Under the monitor, the streams are published unless the attempt was cancelled.
Publish(a) ==
    /\ at[<<"connect", a>>] = "publish"
    /\ IF running /\ a \in current
       THEN streams' = a /\ lost' = FALSE /\ Goto(<<"connect", a>>, "hello")
       ELSE UNCHANGED <<streams, lost>> /\ Goto(<<"connect", a>>, "idle")
    /\ UNCHANGED <<flags, current, held, broken, queue, hand, retry, faults>>

\* writeControl writes the hello to whatever stream is published.
Hello(a) ==
    /\ at[<<"connect", a>>] = "hello"
    /\ \/ /\ streams # NoAttempt /\ Stands(streams)
          /\ Goto(<<"connect", a>>, "serve")
          /\ UNCHANGED retry
       \/ /\ streams # NoAttempt /\ ~Stands(streams)
          /\ Goto(<<"connect", a>>, "notify")
          /\ retry' = retry \cup {a}
       \/ /\ streams = NoAttempt
          /\ Goto(<<"connect", a>>, "schedule")
          /\ UNCHANGED retry
    /\ UNCHANGED <<flags, conns, writing, faults>>

\* Connected: the readers are handed to the executor, which may be shut down.
Serve(a) ==
    /\ at[<<"connect", a>>] = "serve"
    /\ at' = [t \in Threads |->
                 IF t = <<"connect", a>> THEN IF shut THEN "caught" ELSE "idle"
                 ELSE IF t \in {<<"control", a>>, <<"video", a>>} /\ ~shut THEN "queued"
                 ELSE at[t]]
    /\ UNCHANGED <<flags, conns, writing, retry, faults>>

\* The catch clause: an attempt that was not cancelled reports its failure.
Caught(a) ==
    /\ at[<<"connect", a>>] = "caught"
    /\ Goto(<<"connect", a>>, IF running /\ a \in current THEN "notify" ELSE "idle")
    /\ UNCHANGED <<flags, conns, writing, retry, faults>>

ConnectTask(a) ==
    \/ Fired(a) \/ Begin(a) \/ Reset(a) \/ Open(a) \/ Connect(a)
    \/ Preface(a) \/ Publish(a) \/ Hello(a) \/ Serve(a) \/ Caught(a)
-----------------------------------------------------------------------------
(***************************************************************************)
(* read, the task of the control and of the video channel.                 *)
(***************************************************************************)
ReaderStarts(t) ==
    /\ Scheduled(t)
    /\ Goto(t, "reading")
    /\ UNCHANGED <<flags, conns, writing, retry, faults>>

\* Reading fails when the desktop has dropped the connection, or the socket was
\* closed here.
ReaderFails(t) ==
    /\ at[t] = "reading"
    /\ ~Stands(t[2])
    /\ Goto(t, "failed")
    /\ UNCHANGED <<flags, conns, writing, retry, faults>>

\* A failure counts while the socket is registered.
ReaderChecks(t) ==
    /\ at[t] = "failed"
    /\ Goto(t, IF running /\ held[t[2]] = 3 THEN "notify" ELSE "idle")
    /\ UNCHANGED <<flags, conns, writing, retry, faults>>

Reader(t) == ReaderStarts(t) \/ ReaderFails(t) \/ ReaderChecks(t)
-----------------------------------------------------------------------------
(***************************************************************************)
(* sendInput, on the activity's thread, and the input writer.              *)
(***************************************************************************)
SendInput ==
    /\ at[Main] = "running" /\ running
    /\ streams # NoAttempt
    /\ hand' = [hand EXCEPT ![Main] = streams]
    /\ Goto(Main, "send")
    /\ UNCHANGED <<flags, conns, queue, lost, retry, faults>>

\* Mutant: a batch that does not fit is dropped in silence.
EnqueueDrops ==
    /\ at[Main] = "send"
    /\ \/ /\ Len(queue) < QueueSize
          /\ queue' = Append(queue, hand[Main])
          /\ UNCHANGED <<lost, faults>>
       \/ /\ Len(queue) = QueueSize /\ Fault
          /\ lost' = (lost \/ hand[Main] = streams)
          /\ UNCHANGED queue
    /\ Goto(Main, "running")
    /\ hand' = [hand EXCEPT ![Main] = NoAttempt]
    /\ UNCHANGED <<flags, conns, retry>>

\* Mutant: the queue holds one batch more.
EnqueueOverfull ==
    /\ at[Main] = "send"
    /\ Len(queue) <= QueueSize
    /\ queue' = Append(queue, hand[Main])
    /\ Goto(Main, "running")
    /\ hand' = [hand EXCEPT ![Main] = NoAttempt]
    /\ UNCHANGED <<flags, conns, lost, retry, faults>>

\* A full queue rejects the batch: the session is torn down.
Enqueue ==
    /\ at[Main] = "send"
    /\ \/ /\ Len(queue) < QueueSize
          /\ queue' = Append(queue, hand[Main])
          /\ Goto(Main, "running")
          /\ UNCHANGED <<lost, faults>>
       \/ /\ Len(queue) = QueueSize /\ Fault
          /\ lost' = (lost \/ hand[Main] = streams)
          /\ Goto(Main, "notify")
          /\ UNCHANGED queue
    /\ hand' = [hand EXCEPT ![Main] = NoAttempt]
    /\ UNCHANGED <<flags, conns, retry>>

\* The writer takes a batch, and skips it if its stream is not published any more.
WriterTakes ==
    /\ at[Writer] = "idle" /\ queue # <<>>
    /\ queue' = Tail(queue)
    /\ IF Head(queue) = streams
       THEN hand' = [hand EXCEPT ![Writer] = streams] /\ Goto(Writer, "write")
       ELSE UNCHANGED <<hand, at>>
    /\ UNCHANGED <<flags, conns, lost, retry, faults>>

WriterWrites ==
    /\ at[Writer] = "write"
    /\ LET s == hand[Writer] IN
       IF Stands(s)
       THEN Goto(Writer, "idle") /\ UNCHANGED lost
       ELSE /\ lost' = (lost \/ s = streams)
            /\ Goto(Writer, IF s = streams THEN "notify" ELSE "idle")
    /\ hand' = [hand EXCEPT ![Writer] = NoAttempt]
    /\ UNCHANGED <<flags, conns, queue, retry, faults>>
-----------------------------------------------------------------------------
(***************************************************************************)
(* start and close, on the activity's thread, and the desktop.             *)
(***************************************************************************)
Start ==
    /\ at[Main] = "idle"
    /\ \E a \in Attempts : Free(a)
    /\ running' = TRUE
    /\ at' = [at EXCEPT ![Main] = "running", ![<<"connect", NewAttempt>>] = "queued"]
    /\ UNCHANGED <<notified, reconnecting, timer, shut, conns, writing, retry, faults>>

CloseBegins ==
    /\ at[Main] = "running"
    /\ running' = FALSE
    /\ timer' = FALSE
    /\ Goto(Main, "closing")
    /\ UNCHANGED <<notified, reconnecting, shut, conns, writing, retry, faults>>

CloseCloses ==
    /\ at[Main] = "closing"
    /\ CloseSockets
    /\ Goto(Main, "shutdown")
    /\ UNCHANGED <<flags, retry, faults>>

\* shutdownNow drops what has not begun.
CloseEnds ==
    /\ at[Main] = "shutdown"
    /\ shut' = TRUE
    /\ timer' = FALSE
    /\ queue' = <<>>
    /\ at' = [t \in Threads |->
                 IF t = Main THEN "closed" ELSE IF at[t] = "queued" THEN "idle" ELSE at[t]]
    /\ UNCHANGED <<running, notified, reconnecting, conns, hand, lost, retry, faults>>

DesktopDrops(a) ==
    /\ Stands(a) /\ Fault
    /\ broken' = broken \cup {a}
    /\ UNCHANGED <<flags, current, held, streams, writing, retry, at>>
-----------------------------------------------------------------------------
Close == CloseBegins \/ CloseCloses \/ CloseEnds

Next ==
    \/ Start \/ Close \/ SendInput \/ Enqueue \/ WriterTakes \/ WriterWrites \/ Reconnect
    \/ \E t \in Threads : Reports(t)
    \/ \E a \in Attempts :
       ConnectTask(a) \/ Reader(<<"control", a>>) \/ Reader(<<"video", a>>) \/ DesktopDrops(a)

\* Every thread goes on, and a task that was handed to the executor is run.
Fairness ==
    /\ WF_vars(Start)
    /\ WF_vars(CloseCloses \/ CloseEnds)
    /\ WF_vars(Enqueue)
    /\ WF_vars(WriterTakes \/ WriterWrites)
    /\ WF_vars(Reconnect)
    /\ \A t \in Threads : WF_vars(Reports(t))
    /\ \A a \in Attempts :
       /\ WF_vars(ConnectTask(a))
       /\ WF_vars(Reader(<<"control", a>>)) /\ WF_vars(Reader(<<"video", a>>))

Spec == Init /\ [][Next]_vars /\ Fairness
-----------------------------------------------------------------------------
TaskSteps == Waiting \cup NotifySteps
             \cup {"fired", "reset", "open", "connecting", "preface", "publish", "hello",
                   "serve", "caught", "reading", "failed"}
WriterSteps == {"idle", "write"} \cup NotifySteps
MainSteps   == {"idle", "running", "send", "closing", "shutdown", "closed"} \cup NotifySteps

StepsOf(t) ==
    IF t = Main THEN MainSteps ELSE IF t = Writer THEN WriterSteps ELSE TaskSteps

\* The variables keep their ranges, the writer's queue its bound.
TypeOK ==
    /\ running \in BOOLEAN /\ notified \in BOOLEAN /\ reconnecting \in BOOLEAN
    /\ timer \in BOOLEAN /\ shut \in BOOLEAN /\ lost \in BOOLEAN
    /\ current \in SUBSET Attempts /\ broken \in SUBSET Attempts /\ retry \in SUBSET Attempts
    /\ held \in [Attempts -> 0..3]
    /\ streams \in Attempts \cup {NoAttempt}
    /\ queue \in Seq(Attempts) /\ Len(queue) <= QueueSize
    /\ hand \in [{Main, Writer} -> Attempts \cup {NoAttempt}]
    /\ at \in [Threads -> TaskSteps \cup WriterSteps \cup MainSteps]
    /\ \A t \in Threads : at[t] \in StepsOf(t)
    /\ faults \in 0..MaxFaults

\* The published streams belong to sockets that are registered, so that whoever
\* closes the sockets also ends the writers, and no failure goes unnoticed
\* because its socket is not registered (lines 54-57, 142, 172-179).
StreamsOwned == streams # NoAttempt => held[streams] = 3

\* At most one attempt holds sockets: the desktop, which serves one client, is
\* never offered two connections of the same tablet.
OneConnection == Cardinality({a \in Attempts : held[a] > 0}) <= 1

\* While failures are ignored because one was notified, a reconnect is on its
\* way: a thread is about to schedule it, it is scheduled, or its attempt has
\* begun and will heed failures again.
NotifiedMeansReconnect ==
    notified /\ running =>
        \/ timer
        \/ \E t \in Threads : at[t] \in {"schedule", "close", "timer"}
        \/ \E a \in Attempts : at[<<"connect", a>>] \in {"fired", "queued", "reset"}

\* After close() has returned no socket is open, no stream is published, no
\* reconnect is scheduled and no task begins, whatever was under way.
ClosedForGood ==
    at[Main] = "closed" =>
        /\ streams = NoAttempt /\ ~timer
        /\ \A a \in Attempts : held[a] = 0
        /\ \A t \in Tasks : at[t] # "queued"

\* A connection whose stream has missed a batch of input is torn down: what is
\* pressed on the desktop is lifted there, and never left to a lost release
\* (BoundedWriter.kt:7).
LossTearsDown == \A a \in Attempts : lost /\ streams = a ~> streams # a

\* When the desktop has stopped refusing and dropping, the tablet is connected
\* and stays so, with both channels read, unless it is closed.
Reconnects ==
    \/ <>[](streams # NoAttempt /\ Stands(streams)
            /\ at[<<"control", streams>>] = "reading" /\ at[<<"video", streams>>] = "reading")
    \/ <>(~running /\ at[Main] # "idle")
=============================================================================
