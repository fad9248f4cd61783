------------------------- MODULE AndroidSessionProofs -------------------------
(***************************************************************************)
(* Proofs about AndroidSession, for any number of attempts, any sizes of   *)
(* the executor and the writer's queue, any number of faults, and however  *)
(* long a thread is held up (Prompt is not used).  The inductive invariant *)
(* joins the three invariants proved with the facts they rest on: what an  *)
(* attempt holds at each of its steps, who has set reconnecting, and where *)
(* the activity is while the session runs.                                 *)
(***************************************************************************)
EXTENDS AndroidSession, TLAPS

\* The session runs exactly from Start to CloseBegins, and what is shut is closed.
RunsWhileMain ==
    /\ running <=> at[Main] \in {"running", "send"} \cup NotifySteps
    /\ shut <=> at[Main] = "closed"

\* Nothing happens before Start.
NotYetStarted ==
    at[Main] = "idle" =>
        /\ ~timer /\ ~reconnecting /\ ~notified
        /\ \A t \in Tasks : at[t] = "idle"
        /\ at[Writer] = "idle" /\ queue = <<>>

\* The activity sends on a stream it has looked up.
HandHoldsStream == at[Main] = "send" => hand[Main] \in Attempts

\* What an attempt holds, and that its streams are not published before its turn.
Unpublished == {"fired", "queued", "reset", "open", "connecting", "preface", "publish"}

AttemptProgress ==
    \A a \in Attempts :
        LET step == at[<<"connect", a>>] IN
        /\ step \in Unpublished => streams # a
        /\ step \in {"fired", "queued", "reset"} => held[a] = 0
        /\ step = "open" => held[a] <= 2
        /\ step = "publish" /\ a \in current => held[a] = 3

\* The readers of an attempt wait until it has served.
Early == Unpublished \cup {"hello", "serve"}

ReadersWait ==
    \A a \in Attempts :
        at[<<"connect", a>>] \in Early =>
            at[<<"control", a>>] = "idle" /\ at[<<"video", a>>] = "idle"

\* Once close has closed the sockets they stay closed.
StaysClosed ==
    at[Main] \in {"shutdown", "closed"} =>
        streams = NoAttempt /\ \A a \in Attempts : held[a] = 0

\* Whoever has set reconnecting is about to set the timer, or has.
ReconnectingMeansTimer ==
    reconnecting /\ running => timer \/ \E t \in Threads : at[t] \in {"close", "timer"}

Order ==
    /\ RunsWhileMain
    /\ NotYetStarted
    /\ HandHoldsStream
    /\ AttemptProgress
    /\ StaysClosed
    /\ ReconnectingMeansTimer
    /\ StreamsOwned
    /\ NotifiedMeansReconnect
    /\ ClosedForGood

Inv == TypeOK /\ Order /\ ReadersWait

USE AttemptAssumption, SizeAssumption
-----------------------------------------------------------------------------
\* The threads are what they are named, and no two are the same.
LEMMA ThreadNames ==
    /\ Main \in Threads /\ Writer \in Threads /\ Main # Writer
    /\ \A a \in Attempts :
       /\ <<"connect", a>> \in Tasks /\ <<"control", a>> \in Tasks /\ <<"video", a>> \in Tasks
       /\ <<"connect", a>> # <<"control", a>> /\ <<"connect", a>> # <<"video", a>>
    /\ \A t \in Tasks : t \in Threads /\ t # Main /\ t # Writer
    /\ \A a, b \in Attempts : <<"connect", a>> = <<"connect", b>> => a = b
    /\ \A a, b \in Attempts : <<"connect", a>> # <<"control", b>> /\ <<"connect", a>> # <<"video", b>>
  BY DEF Threads, Tasks, Roles, Main, Writer

\* A thread is a task, the writer or the activity.
LEMMA ThreadKinds ==
    ASSUME NEW t \in Threads
    PROVE t \in Tasks \/ t = Main \/ t = Writer
  BY DEF Threads

\* Each kind of thread has its steps, and the steps of all are named.
LEMMA StepKinds ==
    /\ StepsOf(Main) = MainSteps /\ StepsOf(Writer) = WriterSteps
    /\ \A t \in Tasks : StepsOf(t) = TaskSteps
    /\ \A t \in Threads : StepsOf(t) \subseteq TaskSteps \cup WriterSteps \cup MainSteps
    /\ \A t \in Threads : NotifySteps \subseteq StepsOf(t) /\ "idle" \in StepsOf(t)
  BY ThreadNames DEF StepsOf, TaskSteps, WriterSteps, MainSteps, Waiting

\* The threads are each at a step of theirs.
AtOK ==
    /\ at \in [Threads -> TaskSteps \cup WriterSteps \cup MainSteps]
    /\ \A t \in Threads : at[t] \in StepsOf(t)

\* The step of one thread changes, those of the others stay.
LEMMA Moves ==
    ASSUME TypeOK, NEW t \in Threads, NEW step \in StepsOf(t), Goto(t, step)
    PROVE /\ AtOK'
          /\ at'[t] = step
          /\ \A u \in Threads : u # t => at'[u] = at[u]
  BY StepKinds DEF TypeOK, Goto, AtOK

\* The initial state.
LEMMA InitInv == Init => Inv
  <1> SUFFICES ASSUME Init PROVE Inv
    OBVIOUS
  <1> USE ThreadNames DEF Init
  <1>1. \A t \in Threads : at[t] = "idle"
    OBVIOUS
  <1>2. TypeOK
    <2>1. at \in [Threads -> TaskSteps \cup WriterSteps \cup MainSteps]
      BY DEF TaskSteps, Waiting
    <2>2. \A t \in Threads : at[t] \in StepsOf(t)
      BY <1>1, StepKinds
    <2>3. held \in [Attempts -> 0..3] /\ faults \in 0..MaxFaults
      OBVIOUS
    <2>4. hand \in [{Main, Writer} -> Attempts \cup {NoAttempt}]
      OBVIOUS
    <2>5. queue \in Seq(Attempts) /\ Len(queue) <= QueueSize
      OBVIOUS
    <2>6. QED
      BY <2>1, <2>2, <2>3, <2>4, <2>5 DEF TypeOK
  <1>3. Order
    BY <1>1 DEF Order, RunsWhileMain, NotYetStarted, HandHoldsStream, StaysClosed, ClosedForGood,
                StreamsOwned, NotifySteps, AttemptProgress, Unpublished, ReconnectingMeansTimer,
                NotifiedMeansReconnect
  <1>4. ReadersWait
    BY <1>1 DEF ReadersWait, Early, Unpublished, Tasks
  <1>5. QED
    BY <1>2, <1>3, <1>4 DEF Inv
-----------------------------------------------------------------------------
\* Where a thread goes on after a report is a step of its own.
LEMMA ReturnSteps ==
    ASSUME NEW t \in Threads
    PROVE /\ Return(t) \in StepsOf(t)
          /\ t = Main => Return(t) = "running"
          /\ t # Main => Return(t) \in {"schedule", "idle"}
  <1>1. CASE t = Main
    BY <1>1, StepKinds, ThreadNames DEF Return, MainSteps
  <1>2. CASE t # Main
    <2>1. Return(t) \in {"schedule", "idle"}
      BY <1>2 DEF Return
    <2>2. QED
      BY <1>2, <2>1, StepKinds DEF NotifySteps
  <1>3. QED
    BY <1>1, <1>2

\* Closing the sockets leaves every connection with none.
LEMMA Closed ==
    ASSUME CloseSockets
    PROVE /\ current' = {} /\ broken' = {} /\ queue' = <<>> /\ lost' = FALSE /\ hand' = hand
          /\ streams' = NoAttempt
          /\ held' \in [Attempts -> 0..3] /\ \A a \in Attempts : held'[a] = 0
  BY DEF CloseSockets

\* Reporting a failure, by any thread.
LEMMA ReportsStep ==
    ASSUME Inv, NEW t \in Threads, Reports(t)
    PROVE TypeOK' /\ Order'
  <1> USE DEF Inv
  <1>1. CASE Notify(t)
    <2>1. PICK step \in StepsOf(t) :
            /\ Goto(t, step)
            /\ IF running /\ ~notified THEN step = "schedule" /\ notified' = TRUE
                                       ELSE step = Return(t) /\ notified' = notified
            /\ retry' \in SUBSET Attempts
      BY <1>1, ReturnSteps, StepKinds DEF Notify, Returns, NotifySteps, TypeOK
    <2>2. /\ AtOK' /\ at'[t] = step
          /\ \A u \in Threads : u # t => at'[u] = at[u]
      BY <2>1, Moves
    <2>3. TypeOK'
      BY <1>1, <2>1, <2>2 DEF TypeOK, AtOK, Notify, conns, writing
    <2>4. Order'
      <3>1. RunsWhileMain' /\ NotYetStarted' /\ HandHoldsStream' /\ StaysClosed' /\ ClosedForGood'
        BY <1>1, <2>1, <2>2, ReturnSteps, ThreadNames
        DEF Order, RunsWhileMain, NotYetStarted, HandHoldsStream, StaysClosed, ClosedForGood,
            NotifySteps, Notify, conns, writing
      <3>2. AttemptProgress' /\ StreamsOwned'
        BY <1>1, <2>1, <2>2, ReturnSteps, ThreadNames
        DEF Order, AttemptProgress, StreamsOwned, StaysClosed, Unpublished,
            NotifySteps, Notify, conns, writing
      <3>3. ReconnectingMeansTimer'
        BY <1>1, <2>1, <2>2, ReturnSteps, ThreadNames
        DEF Order, RunsWhileMain, NotYetStarted, ReconnectingMeansTimer,
            NotifySteps, Notify, conns, writing
      <3>4. NotifiedMeansReconnect'
        BY <1>1, <2>1, <2>2, ReturnSteps, ThreadNames
        DEF Order, RunsWhileMain, NotYetStarted, ReconnectingMeansTimer,
            NotifiedMeansReconnect,
            NotifySteps, Notify, conns, writing
      <3>5. QED
        BY <3>1, <3>2, <3>3, <3>4 DEF Order
    <2>5. QED
      BY <2>3, <2>4
  <1>2. CASE Schedule(t)
    <2>1. PICK step \in StepsOf(t) :
            /\ Goto(t, step)
            /\ IF reconnecting THEN step = Return(t) ELSE step = "close"
            /\ retry' \in SUBSET Attempts
      BY <1>2, ReturnSteps, StepKinds DEF Schedule, Returns, NotifySteps, TypeOK
    <2>2. /\ AtOK' /\ at'[t] = step
          /\ \A u \in Threads : u # t => at'[u] = at[u]
      BY <2>1, Moves
    <2>3. TypeOK'
      BY <1>2, <2>1, <2>2 DEF TypeOK, AtOK, Schedule, conns, writing
    <2>4. Order'
      <3>1. RunsWhileMain' /\ NotYetStarted' /\ HandHoldsStream' /\ StaysClosed' /\ ClosedForGood'
        BY <1>2, <2>1, <2>2, ReturnSteps, ThreadNames, ThreadKinds
        DEF Order, RunsWhileMain, NotYetStarted, HandHoldsStream, StaysClosed, ClosedForGood,
            NotifySteps, Schedule, conns, writing
      <3>2. AttemptProgress'
        BY ZenonT(60), <1>2, <2>1, <2>2, ReturnSteps, ThreadNames, ThreadKinds
        DEF Order, AttemptProgress, StaysClosed, Unpublished, NotifySteps, Schedule, conns, writing
      <3>3. StreamsOwned'
        BY <1>2, <2>1, <2>2, ReturnSteps, ThreadNames, ThreadKinds
        DEF Order, StreamsOwned, StaysClosed, Unpublished, NotifySteps, Schedule, conns, writing
      <3>4. ReconnectingMeansTimer'
        BY <1>2, <2>1, <2>2, ReturnSteps, ThreadNames, ThreadKinds
        DEF Order, RunsWhileMain, NotYetStarted, ReconnectingMeansTimer,
            NotifySteps, Schedule, conns, writing
      <3>5. NotifiedMeansReconnect'
        BY <1>2, <2>1, <2>2, ReturnSteps, ThreadNames, ThreadKinds
        DEF Order, RunsWhileMain, NotYetStarted, ReconnectingMeansTimer, NotifiedMeansReconnect,
            NotifySteps, Schedule, conns, writing
      <3>6. QED
        BY <3>1, <3>2, <3>3, <3>4, <3>5 DEF Order
    <2>5. QED
      BY <2>3, <2>4
  <1>3. CASE TearDown(t)
    <2>1. /\ AtOK' /\ at'[t] = "timer"
          /\ \A u \in Threads : u # t => at'[u] = at[u]
      BY <1>3, Moves, StepKinds DEF TearDown, NotifySteps
    <2>2. TypeOK'
      BY <1>3, <2>1, Closed DEF TypeOK, AtOK, TearDown, flags
    <2>3. Order'
      <3>1. RunsWhileMain' /\ NotYetStarted' /\ HandHoldsStream' /\ StaysClosed' /\ ClosedForGood'
        BY <1>3, <2>1, Closed, ThreadNames
        DEF Order, RunsWhileMain, NotYetStarted, HandHoldsStream, StaysClosed, ClosedForGood,
            NotifySteps, TearDown, flags
      <3>2. AttemptProgress' /\ StreamsOwned'
        BY <1>3, <2>1, Closed, ThreadNames
        DEF Order, AttemptProgress, StreamsOwned, StaysClosed, Unpublished,
            NotifySteps, TearDown, flags
      <3>3. ReconnectingMeansTimer'
        BY <1>3, <2>1, Closed, ThreadNames
        DEF Order, RunsWhileMain, NotYetStarted, ReconnectingMeansTimer,
            NotifySteps, TearDown, flags
      <3>4. NotifiedMeansReconnect'
        BY <1>3, <2>1, Closed, ThreadNames
        DEF Order, RunsWhileMain, NotYetStarted, ReconnectingMeansTimer,
            NotifiedMeansReconnect,
            NotifySteps, TearDown, flags
      <3>5. QED
        BY <3>1, <3>2, <3>3, <3>4 DEF Order
    <2>4. QED
      BY <2>2, <2>3
  <1>4. CASE SetTimer(t)
    <2>1. Goto(t, Return(t)) /\ retry' \in SUBSET Attempts
      BY <1>4 DEF SetTimer, Returns, TypeOK
    <2>2. /\ AtOK' /\ at'[t] = Return(t)
          /\ \A u \in Threads : u # t => at'[u] = at[u]
      BY <2>1, Moves, ReturnSteps
    <2>3. TypeOK'
      BY <1>4, <2>1, <2>2 DEF TypeOK, AtOK, SetTimer, conns, writing
    <2>4. Order'
      <3>1. RunsWhileMain' /\ NotYetStarted' /\ HandHoldsStream' /\ StaysClosed' /\ ClosedForGood'
        BY <1>4, <2>2, ReturnSteps, ThreadNames, ThreadKinds
        DEF Order, RunsWhileMain, NotYetStarted, HandHoldsStream, StaysClosed, ClosedForGood,
            NotifySteps, SetTimer, conns, writing
      <3>2. AttemptProgress' /\ StreamsOwned'
        BY <1>4, <2>2, ReturnSteps, ThreadNames, ThreadKinds
        DEF Order, AttemptProgress, StreamsOwned, StaysClosed, Unpublished,
            NotifySteps, SetTimer, conns, writing
      <3>3. ReconnectingMeansTimer'
        BY <1>4, <2>2, ReturnSteps, ThreadNames, ThreadKinds
        DEF Order, RunsWhileMain, NotYetStarted, ReconnectingMeansTimer,
            NotifySteps, SetTimer, conns, writing
      <3>4. NotifiedMeansReconnect'
        BY <1>4, <2>2, ReturnSteps, ThreadNames, ThreadKinds
        DEF Order, RunsWhileMain, NotYetStarted, ReconnectingMeansTimer, NotifiedMeansReconnect,
            NotifySteps, SetTimer, conns, writing
      <3>5. QED
        BY <3>1, <3>2, <3>3, <3>4 DEF Order
    <2>5. QED
      BY <2>3, <2>4
  <1>5. QED
    BY <1>1, <1>2, <1>3, <1>4 DEF Reports
-----------------------------------------------------------------------------
\* A step of an attempt's own task, that leaves the flags which reports are
\* about and the activity alone.
LEMMA ConnectStep ==
    ASSUME Inv, NEW a \in Attempts, ConnectTask(a)
    PROVE TypeOK' /\ Order'
  <1> DEFINE t == <<"connect", a>>
  <1> USE DEF Inv
  <1>0. /\ t \in Tasks /\ t \in Threads /\ StepsOf(t) = TaskSteps /\ t # Main
        /\ \A b \in Attempts : <<"connect", b>> \in Threads /\ (b # a => <<"connect", b>> # t)
    BY ThreadNames, StepKinds
  <1>1. CASE Fired(a)
    <2>1. PICK step \in StepsOf(t) :
            Goto(t, step) /\ step = IF running /\ ~shut THEN "queued" ELSE "idle"
      BY <1>0, <1>1 DEF Fired, TaskSteps, Waiting
    <2>2. /\ AtOK' /\ at'[t] = step
          /\ \A u \in Threads : u # t => at'[u] = at[u]
      BY <1>0, <2>1, Moves
    <2>3. TypeOK'
      BY <1>1, <2>2 DEF TypeOK, AtOK, Fired, flags, conns, writing
    <2>4. Order'
      <3>1. RunsWhileMain' /\ NotYetStarted' /\ HandHoldsStream' /\ StaysClosed' /\ ClosedForGood'
        BY <1>0, <1>1, <2>1, <2>2, ThreadNames
        DEF Order, RunsWhileMain, NotYetStarted, HandHoldsStream, StaysClosed, ClosedForGood,
            NotifySteps, Fired, flags, conns, writing
      <3>2. AttemptProgress' /\ StreamsOwned'
        BY <1>0, <1>1, <2>1, <2>2, ThreadNames
        DEF Order, AttemptProgress, StreamsOwned, StaysClosed, Unpublished,
            NotifySteps, Fired, flags, conns, writing
      <3>3. ReconnectingMeansTimer'
        BY <1>0, <1>1, <2>1, <2>2, ThreadNames
        DEF Order, RunsWhileMain, NotYetStarted, ReconnectingMeansTimer,
            NotifySteps, Fired, flags, conns, writing
      <3>4. NotifiedMeansReconnect'
        BY <1>0, <1>1, <2>1, <2>2, ThreadNames
        DEF Order, RunsWhileMain, NotYetStarted, ReconnectingMeansTimer,
            NotifiedMeansReconnect,
            NotifySteps, Fired, flags, conns, writing
      <3>5. QED
        BY <3>1, <3>2, <3>3, <3>4 DEF Order
    <2>5. QED
      BY <2>3, <2>4
  <1>2. CASE Begin(a)
    <2>1. /\ AtOK' /\ at'[t] = "reset"
          /\ \A u \in Threads : u # t => at'[u] = at[u]
      BY <1>0, <1>2, Moves DEF Begin, TaskSteps
    <2>2. TypeOK'
      BY <1>2, <2>1 DEF TypeOK, AtOK, Begin, flags, writing
    <2>3. Order'
      <3>1. RunsWhileMain' /\ NotYetStarted' /\ HandHoldsStream' /\ StaysClosed' /\ ClosedForGood'
        BY <1>0, <1>2, <2>1, ThreadNames
        DEF Order, RunsWhileMain, NotYetStarted, HandHoldsStream, StaysClosed, ClosedForGood,
            NotifySteps, Begin, Scheduled, flags, writing
      <3>2. AttemptProgress' /\ StreamsOwned'
        BY <1>0, <1>2, <2>1, ThreadNames
        DEF Order, AttemptProgress, StreamsOwned, StaysClosed, Unpublished,
            NotifySteps, Begin, Scheduled, flags, writing
      <3>3. ReconnectingMeansTimer'
        BY <1>0, <1>2, <2>1, ThreadNames
        DEF Order, RunsWhileMain, NotYetStarted, ReconnectingMeansTimer,
            NotifySteps, Begin, Scheduled, flags, writing
      <3>4. NotifiedMeansReconnect'
        BY <1>0, <1>2, <2>1, ThreadNames
        DEF Order, RunsWhileMain, NotYetStarted, ReconnectingMeansTimer,
            NotifiedMeansReconnect,
            NotifySteps, Begin, Scheduled, flags, writing
      <3>5. QED
        BY <3>1, <3>2, <3>3, <3>4 DEF Order
    <2>4. QED
      BY <2>2, <2>3
  <1>3. CASE Reset(a)
    <2>1. PICK step \in StepsOf(t) :
            /\ Goto(t, step)
            /\ IF running THEN step = "open" /\ notified' = FALSE
                          ELSE step = "idle" /\ notified' = notified
      BY <1>0, <1>3 DEF Reset, TaskSteps, Waiting
    <2>2. /\ AtOK' /\ at'[t] = step
          /\ \A u \in Threads : u # t => at'[u] = at[u]
      BY <1>0, <2>1, Moves
    <2>3. TypeOK'
      BY <1>3, <2>1, <2>2 DEF TypeOK, AtOK, Reset, conns, writing
    <2>4. Order'
      <3>1. RunsWhileMain' /\ NotYetStarted' /\ HandHoldsStream' /\ StaysClosed' /\ ClosedForGood'
        BY <1>0, <1>3, <2>1, <2>2, ThreadNames
        DEF Order, RunsWhileMain, NotYetStarted, HandHoldsStream, StaysClosed, ClosedForGood,
            NotifySteps, Reset, conns, writing
      <3>2. AttemptProgress' /\ StreamsOwned'
        <4>1. /\ streams' = streams /\ current' = current /\ streams # a
              /\ streams \in Attempts \cup {NoAttempt} /\ held[a] \in 0..3
              /\ at[t] = "reset"
          BY <1>3 DEF Reset, Order, AttemptProgress, Unpublished, TypeOK, conns
        <4>2. StreamsOwned'
          BY <1>3, <2>1, <4>1 DEF Order, StreamsOwned, Reset, conns
        <4>3. ASSUME NEW b \in Attempts, b # a
              PROVE at'[<<"connect", b>>] = at[<<"connect", b>>] /\ held'[b] = held[b]
          <5>1. at'[<<"connect", b>>] = at[<<"connect", b>>]
            BY <1>0, <2>2, <4>3
          <5>2. held'[b] = held[b]
            BY <1>0, <1>3, <2>1, <2>2, <4>3 DEF Reset, conns
          <5>3. QED
            BY <5>1, <5>2
        <4>4. /\ at'[t] \in Unpublished => streams # a
              /\ at'[t] \in {"fired", "queued", "reset"} => held'[a] = 0
              /\ at'[t] = "open" => held'[a] <= 2
              /\ at'[t] # "publish"
          BY <1>3, <2>1, <2>2, <4>1 DEF Order, AttemptProgress, Reset, conns
        <4>5. QED
          BY <4>1, <4>2, <4>3, <4>4 DEF Order, AttemptProgress
      <3>3. ReconnectingMeansTimer'
        BY <1>0, <1>3, <2>1, <2>2, ThreadNames
        DEF Order, RunsWhileMain, NotYetStarted, ReconnectingMeansTimer,
            NotifySteps, Reset, conns, writing
      <3>4. NotifiedMeansReconnect'
        BY <1>0, <1>3, <2>1, <2>2, ThreadNames
        DEF Order, RunsWhileMain, NotYetStarted, ReconnectingMeansTimer, NotifiedMeansReconnect,
            NotifySteps, Reset, conns, writing
      <3>5. QED
        BY <3>1, <3>2, <3>3, <3>4 DEF Order
    <2>5. QED
      BY <2>3, <2>4
  <1>4. CASE Open(a)
    <2>1. PICK step \in StepsOf(t) :
            /\ Goto(t, step)
            /\ IF running /\ a \in current
               THEN step = "connecting" /\ held' = [held EXCEPT ![a] = @ + 1]
               ELSE step = "caught" /\ held' = held
      BY <1>0, <1>4 DEF Open, TaskSteps
    <2>2. /\ AtOK' /\ at'[t] = step
          /\ \A u \in Threads : u # t => at'[u] = at[u]
      BY <1>0, <2>1, Moves
    <2>3. /\ held' \in [Attempts -> 0..3]
          /\ \A b \in Attempts : b # a => held'[b] = held[b]
          /\ ~running => held' = held
          /\ streams \in Attempts \cup {NoAttempt} /\ streams # a /\ streams' = streams
          /\ current' = current
      BY <1>4, <2>1 DEF Order, AttemptProgress, Unpublished, Open, TypeOK
    <2>4. TypeOK'
      BY <1>4, <2>2, <2>3 DEF TypeOK, AtOK, Open, flags, writing
    <2>5. Order'
      <3>1. RunsWhileMain' /\ NotYetStarted' /\ HandHoldsStream' /\ StaysClosed' /\ ClosedForGood'
        BY <1>0, <1>4, <2>1, <2>2, <2>3, ThreadNames
        DEF Order, RunsWhileMain, NotYetStarted, HandHoldsStream, StaysClosed, ClosedForGood,
            NotifySteps, Open, flags, writing
      <3>2. AttemptProgress' /\ StreamsOwned'
        <4>1. /\ streams' = streams /\ current' = current /\ streams # a
              /\ streams \in Attempts \cup {NoAttempt} /\ held[a] \in 0..3
              /\ at[t] = "open"
          BY <1>4 DEF Open, Order, AttemptProgress, Unpublished, TypeOK, conns
        <4>2. StreamsOwned'
          BY <1>4, <2>1, <2>3, <4>1 DEF Order, StreamsOwned, Open, conns
        <4>3. ASSUME NEW b \in Attempts, b # a
              PROVE at'[<<"connect", b>>] = at[<<"connect", b>>] /\ held'[b] = held[b]
          <5>1. at'[<<"connect", b>>] = at[<<"connect", b>>]
            BY <1>0, <2>2, <4>3
          <5>2. held'[b] = held[b]
            BY <1>0, <1>4, <2>1, <2>2, <2>3, <4>3 DEF Open, conns
          <5>3. QED
            BY <5>1, <5>2
        <4>4. /\ at'[t] \in Unpublished => streams # a
              /\ at'[t] \in {"fired", "queued", "reset"} => held'[a] = 0
              /\ at'[t] = "open" => held'[a] <= 2
              /\ at'[t] # "publish"
          BY <1>4, <2>1, <2>2, <2>3, <4>1 DEF Order, AttemptProgress, Open, conns
        <4>5. QED
          BY <4>1, <4>2, <4>3, <4>4 DEF Order, AttemptProgress
      <3>3. ReconnectingMeansTimer'
        BY <1>0, <1>4, <2>1, <2>2, <2>3, ThreadNames
        DEF Order, RunsWhileMain, NotYetStarted, ReconnectingMeansTimer,
            NotifySteps, Open, flags, writing
      <3>4. NotifiedMeansReconnect'
        BY <1>0, <1>4, <2>1, <2>2, <2>3, ThreadNames
        DEF Order, RunsWhileMain, NotYetStarted, ReconnectingMeansTimer, NotifiedMeansReconnect,
            NotifySteps, Open, flags, writing
      <3>5. QED
        BY <3>1, <3>2, <3>3, <3>4 DEF Order
    <2>6. QED
      BY <2>4, <2>5
  <1>5. CASE Connect(a)
    <2>1. PICK step \in StepsOf(t) :
            /\ Goto(t, step)
            /\ \/ /\ held[a] > 0 /\ held' = held /\ faults' = faults
                  /\ step = IF held[a] = 3 THEN "preface" ELSE "open"
               \/ /\ held[a] > 0 /\ Fault /\ held' = [held EXCEPT ![a] = @ - 1]
                  /\ step = "caught"
               \/ held' = held /\ faults' = faults /\ step = "caught"
      BY <1>0, <1>5 DEF Connect, TaskSteps
    <2>2. /\ AtOK' /\ at'[t] = step
          /\ \A u \in Threads : u # t => at'[u] = at[u]
      BY <1>0, <2>1, Moves
    <2>3. /\ held' \in [Attempts -> 0..3] /\ faults' \in 0..MaxFaults
          /\ \A b \in Attempts : b # a => held'[b] = held[b]
          /\ held[a] = 0 => held' = held
          /\ streams \in Attempts \cup {NoAttempt} /\ streams # a /\ streams' = streams
          /\ current' = current
      BY <1>5, <2>1 DEF Order, AttemptProgress, Unpublished, Connect, TypeOK, Fault
    <2>4. TypeOK'
      BY <1>5, <2>2, <2>3 DEF TypeOK, AtOK, Connect, flags, writing
    <2>5. held[a] \in 0..3
      BY DEF TypeOK
    <2>6. Order'
      <3>1. RunsWhileMain' /\ NotYetStarted' /\ HandHoldsStream' /\ StaysClosed' /\ ClosedForGood'
        BY <1>0, <1>5, <2>1, <2>2, <2>3, <2>5, ThreadNames
        DEF Order, RunsWhileMain, NotYetStarted, HandHoldsStream, StaysClosed, ClosedForGood,
            NotifySteps, Connect, flags, writing
      <3>2. AttemptProgress' /\ StreamsOwned'
        <4>1. /\ streams' = streams /\ current' = current /\ streams # a
              /\ streams \in Attempts \cup {NoAttempt} /\ held[a] \in 0..3
              /\ at[t] = "connecting"
          BY <1>5 DEF Connect, Order, AttemptProgress, Unpublished, TypeOK, conns
        <4>2. StreamsOwned'
          BY <1>5, <2>1, <2>3, <4>1 DEF Order, StreamsOwned, Connect, conns
        <4>3. ASSUME NEW b \in Attempts, b # a
              PROVE at'[<<"connect", b>>] = at[<<"connect", b>>] /\ held'[b] = held[b]
          <5>1. at'[<<"connect", b>>] = at[<<"connect", b>>]
            BY <1>0, <2>2, <4>3
          <5>2. held'[b] = held[b]
            BY <1>0, <1>5, <2>1, <2>2, <2>3, <4>3 DEF Connect, conns
          <5>3. QED
            BY <5>1, <5>2
        <4>4. /\ at'[t] \in Unpublished => streams # a
              /\ at'[t] \in {"fired", "queued", "reset"} => held'[a] = 0
              /\ at'[t] = "open" => held'[a] <= 2
              /\ at'[t] # "publish"
          BY <1>5, <2>1, <2>2, <2>3, <4>1 DEF Order, AttemptProgress, Connect, conns
        <4>5. QED
          BY <4>1, <4>2, <4>3, <4>4 DEF Order, AttemptProgress
      <3>3. ReconnectingMeansTimer'
        BY <1>0, <1>5, <2>1, <2>2, <2>3, <2>5, ThreadNames
        DEF Order, RunsWhileMain, NotYetStarted, ReconnectingMeansTimer,
            NotifySteps, Connect, flags, writing
      <3>4. NotifiedMeansReconnect'
        BY <1>0, <1>5, <2>1, <2>2, <2>3, <2>5, ThreadNames
        DEF Order, RunsWhileMain, NotYetStarted, ReconnectingMeansTimer, NotifiedMeansReconnect,
            NotifySteps, Connect, flags, writing
      <3>5. QED
        BY <3>1, <3>2, <3>3, <3>4 DEF Order
    <2>7. QED
      BY <2>4, <2>6
  <1>6. CASE Preface(a)
    <2>1. PICK step \in StepsOf(t) :
            Goto(t, step) /\ step = IF Stands(a) THEN "publish" ELSE "caught"
      BY <1>0, <1>6 DEF Preface, TaskSteps
    <2>2. /\ AtOK' /\ at'[t] = step
          /\ \A u \in Threads : u # t => at'[u] = at[u]
      BY <1>0, <2>1, Moves
    <2>3. TypeOK'
      BY <1>6, <2>2 DEF TypeOK, AtOK, Preface, flags, conns, writing
    <2>4. Order'
      <3>1. RunsWhileMain' /\ NotYetStarted' /\ HandHoldsStream' /\ StaysClosed' /\ ClosedForGood'
        BY <1>0, <1>6, <2>1, <2>2, ThreadNames
        DEF Order, RunsWhileMain, NotYetStarted, HandHoldsStream, StaysClosed, ClosedForGood,
            NotifySteps, Preface, Stands, flags, conns, writing
      <3>2. AttemptProgress' /\ StreamsOwned'
        BY <1>0, <1>6, <2>1, <2>2, ThreadNames
        DEF Order, AttemptProgress, StreamsOwned, StaysClosed, Unpublished,
            NotifySteps, Preface, Stands, flags, conns, writing
      <3>3. ReconnectingMeansTimer'
        BY <1>0, <1>6, <2>1, <2>2, ThreadNames
        DEF Order, RunsWhileMain, NotYetStarted, ReconnectingMeansTimer,
            NotifySteps, Preface, Stands, flags, conns, writing
      <3>4. NotifiedMeansReconnect'
        BY <1>0, <1>6, <2>1, <2>2, ThreadNames
        DEF Order, RunsWhileMain, NotYetStarted, ReconnectingMeansTimer,
            NotifiedMeansReconnect,
            NotifySteps, Preface, Stands, flags, conns, writing
      <3>5. QED
        BY <3>1, <3>2, <3>3, <3>4 DEF Order
    <2>5. QED
      BY <2>3, <2>4
  <1>7. CASE Publish(a)
    <2>1. PICK step \in StepsOf(t) :
            /\ Goto(t, step)
            /\ IF running /\ a \in current
               THEN step = "hello" /\ streams' = a /\ lost' = FALSE
               ELSE step = "idle" /\ streams' = streams /\ lost' = lost
      BY <1>0, <1>7 DEF Publish, TaskSteps, Waiting
    <2>2. /\ AtOK' /\ at'[t] = step
          /\ \A u \in Threads : u # t => at'[u] = at[u]
      BY <1>0, <2>1, Moves
    <2>3. TypeOK'
      BY <1>7, <2>1, <2>2 DEF TypeOK, AtOK, Publish, flags
    <2>4. Order'
      <3>1. RunsWhileMain' /\ NotYetStarted' /\ HandHoldsStream' /\ StaysClosed' /\ ClosedForGood'
        BY <1>0, <1>7, <2>1, <2>2, ThreadNames
        DEF Order, RunsWhileMain, NotYetStarted, HandHoldsStream, StaysClosed, ClosedForGood,
            NotifySteps, Publish, flags
      <3>2. AttemptProgress' /\ StreamsOwned'
        BY <1>0, <1>7, <2>1, <2>2, ThreadNames
        DEF Order, AttemptProgress, StreamsOwned, StaysClosed, Unpublished,
            NotifySteps, Publish, flags
      <3>3. ReconnectingMeansTimer'
        BY <1>0, <1>7, <2>1, <2>2, ThreadNames
        DEF Order, RunsWhileMain, NotYetStarted, ReconnectingMeansTimer,
            NotifySteps, Publish, flags
      <3>4. NotifiedMeansReconnect'
        BY <1>0, <1>7, <2>1, <2>2, ThreadNames
        DEF Order, RunsWhileMain, NotYetStarted, ReconnectingMeansTimer,
            NotifiedMeansReconnect,
            NotifySteps, Publish, flags
      <3>5. QED
        BY <3>1, <3>2, <3>3, <3>4 DEF Order
    <2>5. QED
      BY <2>3, <2>4
  <1>8. CASE Hello(a)
    <2>1. PICK step \in StepsOf(t) :
            /\ Goto(t, step) /\ step \in {"serve", "notify", "schedule"}
            /\ retry' \in SUBSET Attempts
      BY <1>0, <1>8 DEF Hello, TaskSteps, NotifySteps, TypeOK
    <2>2. /\ AtOK' /\ at'[t] = step
          /\ \A u \in Threads : u # t => at'[u] = at[u]
      BY <1>0, <2>1, Moves
    <2>3. TypeOK'
      BY <1>8, <2>1, <2>2 DEF TypeOK, AtOK, Hello, flags, conns, writing
    <2>4. Order'
      <3>1. RunsWhileMain' /\ NotYetStarted' /\ HandHoldsStream' /\ StaysClosed' /\ ClosedForGood'
        BY <1>0, <1>8, <2>1, <2>2, ThreadNames
        DEF Order, RunsWhileMain, NotYetStarted, HandHoldsStream, StaysClosed, ClosedForGood,
            NotifySteps, Hello, flags, conns, writing
      <3>2. AttemptProgress' /\ StreamsOwned'
        BY <1>0, <1>8, <2>1, <2>2, ThreadNames
        DEF Order, AttemptProgress, StreamsOwned, StaysClosed, Unpublished,
            NotifySteps, Hello, flags, conns, writing
      <3>3. ReconnectingMeansTimer'
        BY <1>0, <1>8, <2>1, <2>2, ThreadNames
        DEF Order, RunsWhileMain, NotYetStarted, ReconnectingMeansTimer,
            NotifySteps, Hello, flags, conns, writing
      <3>4. NotifiedMeansReconnect'
        BY <1>0, <1>8, <2>1, <2>2, ThreadNames
        DEF Order, RunsWhileMain, NotYetStarted, ReconnectingMeansTimer,
            NotifiedMeansReconnect,
            NotifySteps, Hello, flags, conns, writing
      <3>5. QED
        BY <3>1, <3>2, <3>3, <3>4 DEF Order
    <2>5. QED
      BY <2>3, <2>4
  <1>9. CASE Serve(a)
    <2>0. at[<<"control", a>>] = "idle" /\ at[<<"video", a>>] = "idle"
      BY <1>9 DEF Serve, ReadersWait, Early
    <2>1. /\ at'[t] = (IF shut THEN "caught" ELSE "idle")
          /\ \A u \in Threads :
                u # t => \/ at'[u] = at[u]
                         \/ (u \in Tasks /\ ~shut /\ at[u] = "idle" /\ at'[u] = "queued")
          /\ \A b \in Attempts : b # a => at'[<<"connect", b>>] = at[<<"connect", b>>]
          /\ DOMAIN at' = Threads
      BY <1>0, <1>9, <2>0, ThreadNames DEF Serve
    <2>2. AtOK'
      BY <1>0, <1>9, <2>1, StepKinds DEF AtOK, TypeOK, Serve, TaskSteps, Waiting
    <2>3. TypeOK'
      BY <1>9, <2>2 DEF TypeOK, AtOK, Serve, flags, conns, writing
    <2>4. Order'
      <3>1. RunsWhileMain' /\ NotYetStarted' /\ HandHoldsStream' /\ StaysClosed' /\ ClosedForGood'
        BY <1>0, <1>9, <2>1, <2>2, ThreadNames
        DEF Order, RunsWhileMain, NotYetStarted, HandHoldsStream, StaysClosed, ClosedForGood,
            NotifySteps, Serve, flags, conns, writing
      <3>2. AttemptProgress' /\ StreamsOwned'
        BY <1>0, <1>9, <2>1, <2>2, ThreadNames
        DEF Order, AttemptProgress, StreamsOwned, StaysClosed, Unpublished,
            NotifySteps, Serve, flags, conns, writing
      <3>3. ReconnectingMeansTimer'
        BY <1>0, <1>9, <2>1, <2>2, ThreadNames
        DEF Order, RunsWhileMain, NotYetStarted, ReconnectingMeansTimer,
            NotifySteps, Serve, flags, conns, writing
      <3>4. NotifiedMeansReconnect'
        BY <1>0, <1>9, <2>1, <2>2, ThreadNames
        DEF Order, RunsWhileMain, NotYetStarted, ReconnectingMeansTimer, NotifiedMeansReconnect,
            NotifySteps, Serve, flags, conns, writing
      <3>5. QED
        BY <3>1, <3>2, <3>3, <3>4 DEF Order
    <2>5. QED
      BY <2>3, <2>4
  <1>10. CASE Caught(a)
    <2>1. PICK step \in StepsOf(t) : Goto(t, step) /\ step \in {"notify", "idle"}
      BY <1>0, <1>10 DEF Caught, TaskSteps, NotifySteps, Waiting
    <2>2. /\ AtOK' /\ at'[t] = step
          /\ \A u \in Threads : u # t => at'[u] = at[u]
      BY <1>0, <2>1, Moves
    <2>3. TypeOK'
      BY <1>10, <2>2 DEF TypeOK, AtOK, Caught, flags, conns, writing
    <2>4. Order'
      <3>1. RunsWhileMain' /\ NotYetStarted' /\ HandHoldsStream' /\ StaysClosed' /\ ClosedForGood'
        BY <1>0, <1>10, <2>1, <2>2, ThreadNames
        DEF Order, RunsWhileMain, NotYetStarted, HandHoldsStream, StaysClosed, ClosedForGood,
            NotifySteps, Caught, flags, conns, writing
      <3>2. AttemptProgress' /\ StreamsOwned'
        BY <1>0, <1>10, <2>1, <2>2, ThreadNames
        DEF Order, AttemptProgress, StreamsOwned, StaysClosed, Unpublished,
            NotifySteps, Caught, flags, conns, writing
      <3>3. ReconnectingMeansTimer'
        BY <1>0, <1>10, <2>1, <2>2, ThreadNames
        DEF Order, RunsWhileMain, NotYetStarted, ReconnectingMeansTimer,
            NotifySteps, Caught, flags, conns, writing
      <3>4. NotifiedMeansReconnect'
        BY <1>0, <1>10, <2>1, <2>2, ThreadNames
        DEF Order, RunsWhileMain, NotYetStarted, ReconnectingMeansTimer,
            NotifiedMeansReconnect,
            NotifySteps, Caught, flags, conns, writing
      <3>5. QED
        BY <3>1, <3>2, <3>3, <3>4 DEF Order
    <2>5. QED
      BY <2>3, <2>4
  <1>11. QED
    BY <1>1, <1>2, <1>3, <1>4, <1>5, <1>6, <1>7, <1>8, <1>9, <1>10 DEF ConnectTask
-----------------------------------------------------------------------------
\* A step of a reader.
LEMMA ReaderStep ==
    ASSUME Inv, NEW a \in Attempts, NEW t \in {<<"control", a>>, <<"video", a>>}, Reader(t)
    PROVE TypeOK' /\ Order'
  <1> USE DEF Inv
  <1>1. /\ t \in Tasks /\ t \in Threads /\ StepsOf(t) = TaskSteps /\ t # Main
        /\ \A b \in Attempts : <<"connect", b>> \in Threads /\ <<"connect", b>> # t
    BY ThreadNames, StepKinds
  <1>2. PICK step \in StepsOf(t) :
          /\ Goto(t, step) /\ step \in {"reading", "failed", "notify", "idle"}
          /\ at[t] \in {"queued", "reading", "failed"}
    BY <1>1 DEF Reader, ReaderStarts, ReaderFails, ReaderChecks, Scheduled,
                TaskSteps, Waiting, NotifySteps
  <1>3. /\ AtOK' /\ at'[t] = step
        /\ \A u \in Threads : u # t => at'[u] = at[u]
    BY <1>1, <1>2, Moves
  <1>4. UNCHANGED <<flags, conns, writing, retry, faults>>
    BY DEF Reader, ReaderStarts, ReaderFails, ReaderChecks
  <1>5. TypeOK'
    BY <1>3, <1>4 DEF TypeOK, AtOK, flags, conns, writing
  <1>6. Order'
    <2>1. RunsWhileMain' /\ NotYetStarted' /\ HandHoldsStream' /\ StaysClosed' /\ ClosedForGood'
      BY <1>1, <1>2, <1>3, <1>4, ThreadNames
      DEF Order, RunsWhileMain, NotYetStarted, HandHoldsStream, StaysClosed, ClosedForGood,
          NotifySteps, flags, conns, writing
    <2>2. AttemptProgress' /\ StreamsOwned'
      BY <1>1, <1>2, <1>3, <1>4, ThreadNames
      DEF Order, AttemptProgress, StreamsOwned, StaysClosed, Unpublished,
          NotifySteps, flags, conns, writing
    <2>3. ReconnectingMeansTimer'
      BY <1>1, <1>2, <1>3, <1>4, ThreadNames
      DEF Order, RunsWhileMain, NotYetStarted, ReconnectingMeansTimer,
          NotifySteps, flags, conns, writing
    <2>4. NotifiedMeansReconnect'
      BY <1>1, <1>2, <1>3, <1>4, ThreadNames
      DEF Order, RunsWhileMain, NotYetStarted, ReconnectingMeansTimer,
            NotifiedMeansReconnect,
          NotifySteps, flags, conns, writing
    <2>5. QED
      BY <2>1, <2>2, <2>3, <2>4 DEF Order
  <1>7. QED
    BY <1>5, <1>6
-----------------------------------------------------------------------------
\* A step of the activity's sendInput, or of the input writer.
LEMMA InputStep ==
    ASSUME Inv, SendInput \/ Enqueue \/ WriterTakes \/ WriterWrites
    PROVE TypeOK' /\ Order'
  <1> USE DEF Inv
  <1>1. /\ \A b \in Attempts :
           <<"connect", b>> \in Threads /\ <<"connect", b>> # Main /\ <<"connect", b>> # Writer
        /\ Main \in Threads /\ Writer \in Threads /\ Main # Writer
        /\ StepsOf(Main) = MainSteps /\ StepsOf(Writer) = WriterSteps
    BY ThreadNames, StepKinds
  <1>2. CASE SendInput
    <2>1. /\ AtOK' /\ at'[Main] = "send"
          /\ \A u \in Threads : u # Main => at'[u] = at[u]
      BY <1>1, <1>2, Moves DEF SendInput, MainSteps
    <2>2. TypeOK'
      BY <1>2, <2>1 DEF TypeOK, AtOK, SendInput, flags, conns
    <2>3. hand'[Main] \in Attempts
      BY <1>2 DEF SendInput, TypeOK
    <2>4. Order'
      <3>1. RunsWhileMain' /\ NotYetStarted' /\ HandHoldsStream' /\ StaysClosed' /\ ClosedForGood'
        BY <1>1, <1>2, <2>1, <2>3, ThreadNames
        DEF Order, RunsWhileMain, NotYetStarted, HandHoldsStream, StaysClosed, ClosedForGood,
            NotifySteps, SendInput, flags, conns
      <3>2. AttemptProgress' /\ StreamsOwned'
        BY <1>1, <1>2, <2>1, <2>3, ThreadNames
        DEF Order, AttemptProgress, StreamsOwned, StaysClosed, Unpublished,
            NotifySteps, SendInput, flags, conns
      <3>3. ReconnectingMeansTimer'
        BY <1>1, <1>2, <2>1, <2>3, ThreadNames
        DEF Order, RunsWhileMain, NotYetStarted, ReconnectingMeansTimer,
            NotifySteps, SendInput, flags, conns
      <3>4. NotifiedMeansReconnect'
        BY <1>1, <1>2, <2>1, <2>3, ThreadNames
        DEF Order, RunsWhileMain, NotYetStarted, ReconnectingMeansTimer,
            NotifiedMeansReconnect,
            NotifySteps, SendInput, flags, conns
      <3>5. QED
        BY <3>1, <3>2, <3>3, <3>4 DEF Order
    <2>5. QED
      BY <2>2, <2>4
  <1>3. CASE Enqueue
    <2>1. PICK step \in StepsOf(Main) : Goto(Main, step) /\ step \in {"running", "notify"}
      BY <1>1, <1>3 DEF Enqueue, MainSteps, NotifySteps
    <2>2. /\ AtOK' /\ at'[Main] = step
          /\ \A u \in Threads : u # Main => at'[u] = at[u]
      BY <1>1, <2>1, Moves
    <2>3. /\ queue' \in Seq(Attempts) /\ Len(queue') <= QueueSize
          /\ lost' \in BOOLEAN /\ faults' \in 0..MaxFaults
          /\ hand' \in [{Main, Writer} -> Attempts \cup {NoAttempt}]
      <3>1. hand[Main] \in Attempts
        BY <1>3 DEF Enqueue, Order, HandHoldsStream
      <3>2. /\ queue' = queue \/ (Len(queue) < QueueSize /\ queue' = Append(queue, hand[Main]))
            /\ queue \in Seq(Attempts) /\ Len(queue) <= QueueSize
        BY <1>3 DEF Enqueue, TypeOK
      <3>3. queue' \in Seq(Attempts) /\ Len(queue') <= QueueSize
        BY <3>1, <3>2
      <3>4. lost' \in BOOLEAN
        BY <1>3 DEF Enqueue, TypeOK
      <3>5. faults' \in 0..MaxFaults
        BY <1>3 DEF Enqueue, TypeOK, Fault
      <3>6. hand' \in [{Main, Writer} -> Attempts \cup {NoAttempt}]
        BY <1>3 DEF Enqueue, TypeOK
      <3>7. QED
        BY <3>3, <3>4, <3>5, <3>6
    <2>4. TypeOK'
      BY <1>3, <2>2, <2>3 DEF TypeOK, AtOK, Enqueue, flags, conns
    <2>5. Order'
      <3>1. RunsWhileMain' /\ NotYetStarted' /\ HandHoldsStream' /\ StaysClosed' /\ ClosedForGood'
        BY <1>1, <1>3, <2>1, <2>2, ThreadNames
        DEF Order, RunsWhileMain, NotYetStarted, HandHoldsStream, StaysClosed, ClosedForGood,
            NotifySteps, Enqueue, flags, conns
      <3>2. AttemptProgress' /\ StreamsOwned'
        BY <1>1, <1>3, <2>1, <2>2, ThreadNames
        DEF Order, AttemptProgress, StreamsOwned, StaysClosed, Unpublished,
            NotifySteps, Enqueue, flags, conns
      <3>3. ReconnectingMeansTimer'
        BY <1>1, <1>3, <2>1, <2>2, ThreadNames
        DEF Order, RunsWhileMain, NotYetStarted, ReconnectingMeansTimer,
            NotifySteps, Enqueue, flags, conns
      <3>4. NotifiedMeansReconnect'
        BY <1>1, <1>3, <2>1, <2>2, ThreadNames
        DEF Order, RunsWhileMain, NotYetStarted, ReconnectingMeansTimer,
            NotifiedMeansReconnect,
            NotifySteps, Enqueue, flags, conns
      <3>5. QED
        BY <3>1, <3>2, <3>3, <3>4 DEF Order
    <2>6. QED
      BY <2>4, <2>5
  <1>4. CASE WriterTakes
    <2>1. PICK step \in StepsOf(Writer) : Goto(Writer, step) /\ step \in {"idle", "write"}
      BY <1>1, <1>4 DEF WriterTakes, WriterSteps, Goto, TypeOK
    <2>2. /\ AtOK' /\ at'[Writer] = step
          /\ \A u \in Threads : u # Writer => at'[u] = at[u]
      BY <1>1, <2>1, Moves
    <2>3. /\ queue' \in Seq(Attempts) /\ Len(queue') <= QueueSize
          /\ hand' \in [{Main, Writer} -> Attempts \cup {NoAttempt}]
          /\ hand'[Main] = hand[Main]
      BY <1>1, <1>4 DEF WriterTakes, TypeOK
    <2>4. TypeOK'
      BY <1>4, <2>2, <2>3 DEF TypeOK, AtOK, WriterTakes, flags, conns
    <2>5. Order'
      <3>1. RunsWhileMain' /\ NotYetStarted' /\ HandHoldsStream' /\ StaysClosed' /\ ClosedForGood'
        BY <1>1, <1>4, <2>1, <2>2, <2>3, ThreadNames
        DEF Order, RunsWhileMain, NotYetStarted, HandHoldsStream, StaysClosed, ClosedForGood,
            NotifySteps, WriterTakes, flags, conns
      <3>2. AttemptProgress' /\ StreamsOwned'
        BY <1>1, <1>4, <2>1, <2>2, <2>3, ThreadNames
        DEF Order, AttemptProgress, StreamsOwned, StaysClosed, Unpublished,
            NotifySteps, WriterTakes, flags, conns
      <3>3. ReconnectingMeansTimer'
        BY <1>1, <1>4, <2>1, <2>2, <2>3, ThreadNames
        DEF Order, RunsWhileMain, NotYetStarted, ReconnectingMeansTimer,
            NotifySteps, WriterTakes, flags, conns
      <3>4. NotifiedMeansReconnect'
        BY <1>1, <1>4, <2>1, <2>2, <2>3, ThreadNames
        DEF Order, RunsWhileMain, NotYetStarted, ReconnectingMeansTimer,
            NotifiedMeansReconnect,
            NotifySteps, WriterTakes, flags, conns
      <3>5. QED
        BY <3>1, <3>2, <3>3, <3>4 DEF Order
    <2>6. QED
      BY <2>4, <2>5
  <1>5. CASE WriterWrites
    <2>1. PICK step \in StepsOf(Writer) : Goto(Writer, step) /\ step \in {"idle", "notify"}
      BY <1>1, <1>5 DEF WriterWrites, WriterSteps, NotifySteps
    <2>2. /\ AtOK' /\ at'[Writer] = step
          /\ \A u \in Threads : u # Writer => at'[u] = at[u]
      BY <1>1, <2>1, Moves
    <2>3. /\ lost' \in BOOLEAN
          /\ hand' \in [{Main, Writer} -> Attempts \cup {NoAttempt}]
          /\ hand'[Main] = hand[Main]
      BY <1>1, <1>5 DEF WriterWrites, TypeOK
    <2>4. TypeOK'
      BY <1>5, <2>2, <2>3 DEF TypeOK, AtOK, WriterWrites, flags, conns
    <2>5. Order'
      <3>1. RunsWhileMain' /\ NotYetStarted' /\ HandHoldsStream' /\ StaysClosed' /\ ClosedForGood'
        BY <1>1, <1>5, <2>1, <2>2, <2>3, ThreadNames
        DEF Order, RunsWhileMain, NotYetStarted, HandHoldsStream, StaysClosed, ClosedForGood,
            NotifySteps, WriterWrites, flags, conns
      <3>2. AttemptProgress' /\ StreamsOwned'
        BY <1>1, <1>5, <2>1, <2>2, <2>3, ThreadNames
        DEF Order, AttemptProgress, StreamsOwned, StaysClosed, Unpublished,
            NotifySteps, WriterWrites, flags, conns
      <3>3. ReconnectingMeansTimer'
        BY <1>1, <1>5, <2>1, <2>2, <2>3, ThreadNames
        DEF Order, RunsWhileMain, NotYetStarted, ReconnectingMeansTimer,
            NotifySteps, WriterWrites, flags, conns
      <3>4. NotifiedMeansReconnect'
        BY <1>1, <1>5, <2>1, <2>2, <2>3, ThreadNames
        DEF Order, RunsWhileMain, NotYetStarted, ReconnectingMeansTimer,
            NotifiedMeansReconnect,
            NotifySteps, WriterWrites, flags, conns
      <3>5. QED
        BY <3>1, <3>2, <3>3, <3>4 DEF Order
    <2>6. QED
      BY <2>4, <2>5
  <1>6. QED
    BY <1>2, <1>3, <1>4, <1>5
-----------------------------------------------------------------------------
\* The attempt that is begun is free.
LEMMA NewAttemptFree ==
    ASSUME \E a \in Attempts : Free(a)
    PROVE /\ NewAttempt \in Attempts /\ held[NewAttempt] = 0
          /\ \A role \in Roles : at[<<role, NewAttempt>>] = "idle"
  BY DEF NewAttempt, Free

\* The timer has fired.
LEMMA ReconnectStep ==
    ASSUME Inv, Reconnect
    PROVE TypeOK' /\ Order'
  <1> DEFINE t == <<"connect", NewAttempt>>
  <1> USE DEF Inv
  <1>1. /\ NewAttempt \in Attempts /\ held[NewAttempt] = 0 /\ streams # NewAttempt
        /\ at[t] = "idle"
    BY NewAttemptFree DEF Reconnect, Order, StreamsOwned, Roles
  <1>2. /\ t \in Tasks /\ t \in Threads /\ StepsOf(t) = TaskSteps /\ t # Main
        /\ \A b \in Attempts :
           <<"connect", b>> \in Threads /\ (b # NewAttempt => <<"connect", b>> # t)
    BY <1>1, ThreadNames, StepKinds
  <1>3. /\ AtOK' /\ at'[t] = "fired"
        /\ \A u \in Threads : u # t => at'[u] = at[u]
    BY <1>2, Moves DEF Reconnect, TaskSteps
  <1>4. TypeOK'
    BY <1>3 DEF TypeOK, AtOK, Reconnect, conns, writing
  <1>5. Order'
    <2>1. RunsWhileMain' /\ NotYetStarted' /\ HandHoldsStream' /\ StaysClosed' /\ ClosedForGood'
      BY <1>1, <1>2, <1>3, ThreadNames
      DEF Order, RunsWhileMain, NotYetStarted, HandHoldsStream, StaysClosed, ClosedForGood,
          NotifySteps, Reconnect, conns, writing
    <2>2. AttemptProgress' /\ StreamsOwned'
      BY <1>1, <1>2, <1>3, ThreadNames
      DEF Order, AttemptProgress, StreamsOwned, StaysClosed, Unpublished,
          NotifySteps, Reconnect, conns, writing
    <2>3. ReconnectingMeansTimer'
      BY <1>1, <1>2, <1>3, ThreadNames
      DEF Order, RunsWhileMain, NotYetStarted, ReconnectingMeansTimer,
          NotifySteps, Reconnect, conns, writing
    <2>4. NotifiedMeansReconnect'
      BY <1>1, <1>2, <1>3, ThreadNames
      DEF Order, RunsWhileMain, NotYetStarted, ReconnectingMeansTimer,
            NotifiedMeansReconnect,
          NotifySteps, Reconnect, conns, writing
    <2>5. QED
      BY <2>1, <2>2, <2>3, <2>4 DEF Order
  <1>6. QED
    BY <1>4, <1>5

\* start.
LEMMA StartStep ==
    ASSUME Inv, Start
    PROVE TypeOK' /\ Order'
  <1> DEFINE t == <<"connect", NewAttempt>>
  <1> USE DEF Inv
  <1>1. /\ NewAttempt \in Attempts /\ held[NewAttempt] = 0 /\ streams # NewAttempt
    BY NewAttemptFree DEF Start, Order, StreamsOwned
  <1>2. /\ t \in Tasks /\ t \in Threads /\ StepsOf(t) = TaskSteps /\ t # Main
        /\ Main \in Threads /\ StepsOf(Main) = MainSteps
        /\ \A b \in Attempts :
           <<"connect", b>> \in Threads /\ (b # NewAttempt => <<"connect", b>> # t)
    BY <1>1, ThreadNames, StepKinds
  <1>3. /\ at'[t] = "queued" /\ at'[Main] = "running"
        /\ \A u \in Threads : u # t /\ u # Main => at'[u] = at[u]
    BY <1>2 DEF Start, TypeOK
  <1>4. AtOK'
    BY <1>2, <1>3, StepKinds DEF Start, TypeOK, AtOK, TaskSteps, MainSteps, Waiting
  <1>5. TypeOK'
    BY <1>4 DEF TypeOK, AtOK, Start, conns, writing
  <1>6. Order'
    <2>1. RunsWhileMain' /\ NotYetStarted' /\ HandHoldsStream' /\ StaysClosed' /\ ClosedForGood'
      BY <1>1, <1>2, <1>3, ThreadNames
      DEF Order, RunsWhileMain, NotYetStarted, HandHoldsStream, StaysClosed, ClosedForGood,
          NotifySteps, Start, conns, writing
    <2>2. AttemptProgress'
      BY ZenonT(60), <1>1, <1>2, <1>3, ThreadNames
      DEF Order, AttemptProgress, StaysClosed, Unpublished, NotifySteps, Start, conns, writing
    <2>3. StreamsOwned'
      BY <1>1, <1>2, <1>3, ThreadNames
      DEF Order, StreamsOwned, StaysClosed, Unpublished, NotifySteps, Start, conns, writing
    <2>4. ReconnectingMeansTimer'
      BY <1>1, <1>2, <1>3, ThreadNames
      DEF Order, RunsWhileMain, NotYetStarted, ReconnectingMeansTimer,
          NotifySteps, Start, conns, writing
    <2>5. NotifiedMeansReconnect'
      BY <1>1, <1>2, <1>3, ThreadNames
      DEF Order, RunsWhileMain, NotYetStarted, ReconnectingMeansTimer,
            NotifiedMeansReconnect,
          NotifySteps, Start, conns, writing
    <2>6. QED
      BY <2>1, <2>2, <2>3, <2>4, <2>5 DEF Order
  <1>7. QED
    BY <1>5, <1>6

\* close, in its three steps.
LEMMA CloseStep ==
    ASSUME Inv, Close
    PROVE TypeOK' /\ Order'
  <1> USE DEF Inv
  <1>1. /\ \A b \in Attempts : <<"connect", b>> \in Threads /\ <<"connect", b>> # Main
        /\ Main \in Threads /\ StepsOf(Main) = MainSteps
    BY ThreadNames, StepKinds
  <1>2. CASE CloseBegins
    <2>1. /\ AtOK' /\ at'[Main] = "closing"
          /\ \A u \in Threads : u # Main => at'[u] = at[u]
      BY <1>1, <1>2, Moves DEF CloseBegins, MainSteps
    <2>2. TypeOK'
      BY <1>2, <2>1 DEF TypeOK, AtOK, CloseBegins, conns, writing
    <2>3. Order'
      <3>1. RunsWhileMain' /\ NotYetStarted' /\ HandHoldsStream' /\ StaysClosed' /\ ClosedForGood'
        BY <1>1, <1>2, <2>1, ThreadNames
        DEF Order, RunsWhileMain, NotYetStarted, HandHoldsStream, StaysClosed, ClosedForGood,
            NotifySteps, CloseBegins, conns, writing
      <3>2. AttemptProgress' /\ StreamsOwned'
        BY <1>1, <1>2, <2>1, ThreadNames
        DEF Order, AttemptProgress, StreamsOwned, StaysClosed, Unpublished,
            NotifySteps, CloseBegins, conns, writing
      <3>3. ReconnectingMeansTimer'
        BY <1>1, <1>2, <2>1, ThreadNames
        DEF Order, RunsWhileMain, NotYetStarted, ReconnectingMeansTimer,
            NotifySteps, CloseBegins, conns, writing
      <3>4. NotifiedMeansReconnect'
        BY <1>1, <1>2, <2>1, ThreadNames
        DEF Order, RunsWhileMain, NotYetStarted, ReconnectingMeansTimer,
            NotifiedMeansReconnect,
            NotifySteps, CloseBegins, conns, writing
      <3>5. QED
        BY <3>1, <3>2, <3>3, <3>4 DEF Order
    <2>4. QED
      BY <2>2, <2>3
  <1>3. CASE CloseCloses
    <2>1. /\ AtOK' /\ at'[Main] = "shutdown"
          /\ \A u \in Threads : u # Main => at'[u] = at[u]
      BY <1>1, <1>3, Moves DEF CloseCloses, MainSteps
    <2>2. TypeOK'
      BY <1>3, <2>1, Closed DEF TypeOK, AtOK, CloseCloses, flags
    <2>3. Order'
      <3>1. RunsWhileMain' /\ NotYetStarted' /\ HandHoldsStream' /\ StaysClosed' /\ ClosedForGood'
        BY <1>1, <1>3, <2>1, Closed, ThreadNames
        DEF Order, RunsWhileMain, NotYetStarted, HandHoldsStream, StaysClosed, ClosedForGood,
            NotifySteps, CloseCloses, flags
      <3>2. AttemptProgress' /\ StreamsOwned'
        BY <1>1, <1>3, <2>1, Closed, ThreadNames
        DEF Order, AttemptProgress, StreamsOwned, StaysClosed, Unpublished,
            NotifySteps, CloseCloses, flags
      <3>3. ReconnectingMeansTimer'
        BY <1>1, <1>3, <2>1, Closed, ThreadNames
        DEF Order, RunsWhileMain, NotYetStarted, ReconnectingMeansTimer,
            NotifySteps, CloseCloses, flags
      <3>4. NotifiedMeansReconnect'
        BY <1>1, <1>3, <2>1, Closed, ThreadNames
        DEF Order, RunsWhileMain, NotYetStarted, ReconnectingMeansTimer,
            NotifiedMeansReconnect,
            NotifySteps, CloseCloses, flags
      <3>5. QED
        BY <3>1, <3>2, <3>3, <3>4 DEF Order
    <2>4. QED
      BY <2>2, <2>3
  <1>4. CASE CloseEnds
    <2>1. /\ at'[Main] = "closed" /\ DOMAIN at' = Threads
          /\ \A u \in Threads :
                u # Main => at'[u] = IF at[u] = "queued" THEN "idle" ELSE at[u]
      BY <1>1, <1>4 DEF CloseEnds
    <2>2. AtOK'
      BY <1>1, <1>4, <2>1, StepKinds DEF TypeOK, AtOK, CloseEnds, MainSteps
    <2>3. TypeOK'
      <3>1. queue' \in Seq(Attempts) /\ Len(queue') <= QueueSize
        BY <1>4 DEF CloseEnds
      <3>2. QED
        BY <1>4, <2>2, <3>1 DEF TypeOK, AtOK, CloseEnds, conns
    <2>4. Order'
      <3>1. RunsWhileMain' /\ NotYetStarted' /\ HandHoldsStream' /\ StaysClosed' /\ ClosedForGood'
        BY <1>1, <1>4, <2>1, ThreadNames
        DEF Order, RunsWhileMain, NotYetStarted, HandHoldsStream, StaysClosed, ClosedForGood,
            NotifySteps, CloseEnds, conns
      <3>2. AttemptProgress' /\ StreamsOwned'
        BY <1>1, <1>4, <2>1, ThreadNames
        DEF Order, AttemptProgress, StreamsOwned, StaysClosed, Unpublished,
            NotifySteps, CloseEnds, conns
      <3>3. ReconnectingMeansTimer'
        BY <1>1, <1>4, <2>1, ThreadNames
        DEF Order, RunsWhileMain, NotYetStarted, ReconnectingMeansTimer,
            NotifySteps, CloseEnds, conns
      <3>4. NotifiedMeansReconnect'
        BY <1>1, <1>4, <2>1, ThreadNames
        DEF Order, RunsWhileMain, NotYetStarted, ReconnectingMeansTimer,
            NotifiedMeansReconnect,
            NotifySteps, CloseEnds, conns
      <3>5. QED
        BY <3>1, <3>2, <3>3, <3>4 DEF Order
    <2>5. QED
      BY <2>3, <2>4
  <1>5. QED
    BY <1>2, <1>3, <1>4 DEF Close

\* The desktop drops a connection, or nothing happens.
LEMMA OutsideStep ==
    ASSUME Inv, (\E a \in Attempts : DesktopDrops(a)) \/ UNCHANGED vars
    PROVE TypeOK' /\ Order'
  <1> USE DEF Inv
  <1>1. /\ UNCHANGED <<flags, current, held, streams, writing, retry, at>>
        /\ broken' \in SUBSET Attempts /\ faults' \in 0..MaxFaults
    BY DEF DesktopDrops, Fault, vars, conns, TypeOK
  <1>2. TypeOK'
    BY <1>1 DEF TypeOK, flags, writing
  <1>3. Order'
    <2>1. RunsWhileMain' /\ NotYetStarted' /\ HandHoldsStream' /\ StaysClosed' /\ ClosedForGood'
      BY <1>1
      DEF Order, RunsWhileMain, NotYetStarted, HandHoldsStream, StaysClosed, ClosedForGood,
          NotifySteps, flags, writing
    <2>2. AttemptProgress' /\ StreamsOwned'
      BY <1>1
      DEF Order, AttemptProgress, StreamsOwned, StaysClosed, Unpublished,
          NotifySteps, flags, writing
    <2>3. ReconnectingMeansTimer'
      BY <1>1
      DEF Order, RunsWhileMain, NotYetStarted, ReconnectingMeansTimer,
          NotifySteps, flags, writing
    <2>4. NotifiedMeansReconnect'
      BY <1>1
      DEF Order, RunsWhileMain, NotYetStarted, ReconnectingMeansTimer,
            NotifiedMeansReconnect,
          NotifySteps, flags, writing
    <2>5. QED
      BY <2>1, <2>2, <2>3, <2>4 DEF Order
  <1>4. QED
    BY <1>2, <1>3
-----------------------------------------------------------------------------
\* The readers still wait when a thread that is no waiting reader moves, and does
\* not go back to the beginning of an attempt.
LEMMA ReadersKept ==
    ASSUME ReadersWait, NEW t \in Threads, at[t] # "idle" \/ t \in {Main, Writer},
           \A u \in Threads : u # t => at'[u] = at[u],
           at'[t] \in Early => at[t] \in Early
    PROVE ReadersWait'
  <1> SUFFICES ASSUME NEW a \in Attempts, at'[<<"connect", a>>] \in Early
               PROVE at'[<<"control", a>>] = "idle" /\ at'[<<"video", a>>] = "idle"
    BY DEF ReadersWait
  <1>1. /\ <<"connect", a>> \in Threads
        /\ <<"control", a>> \in Threads /\ <<"control", a>> \notin {Main, Writer}
        /\ <<"video", a>> \in Threads /\ <<"video", a>> \notin {Main, Writer}
    BY ThreadNames
  <1>2. at[<<"control", a>>] = "idle" /\ at[<<"video", a>>] = "idle"
    BY <1>1 DEF ReadersWait
  <1>3. QED
    BY <1>1, <1>2

\* Every step leaves the readers of an attempt waiting until it has served.
LEMMA ReadersStep ==
    ASSUME Inv, [Next]_vars
    PROVE ReadersWait'
  <1> USE ThreadNames DEF Inv
  <1>1. ASSUME NEW t \in Threads, Reports(t) PROVE ReadersWait'
    <2>1. PICK step : Goto(t, step) /\ step \in NotifySteps \cup {"running", "idle"}
      BY <1>1, ReturnSteps
      DEF Reports, Notify, Schedule, TearDown, SetTimer, Returns, NotifySteps
    <2>2. at'[t] = step /\ \A u \in Threads : u # t => at'[u] = at[u]
      BY <2>1 DEF Goto, TypeOK
    <2>3. at[t] # "idle"
      BY <1>1 DEF Reports, Notify, Schedule, TearDown, SetTimer
    <2>4. QED
      BY <2>1, <2>2, <2>3, ReadersKept DEF Early, Unpublished, NotifySteps
  <1>2. ASSUME NEW a \in Attempts, ConnectTask(a) PROVE ReadersWait'
    <2> DEFINE t == <<"connect", a>>
    <2>1. CASE Serve(a)
      <3>1. ASSUME NEW b \in Attempts, at'[<<"connect", b>>] \in Early
            PROVE at'[<<"control", b>>] = "idle" /\ at'[<<"video", b>>] = "idle"
        <4>1. at'[t] \notin Early
          BY <2>1 DEF Serve, Early, Unpublished
        <4>2. b # a
          BY <3>1, <4>1
        <4>3. \A u \in Threads : u \notin {t, <<"control", a>>, <<"video", a>>} => at'[u] = at[u]
          BY <2>1 DEF Serve
        <4>4. /\ <<"connect", b>> \notin {t, <<"control", a>>, <<"video", a>>}
              /\ <<"control", b>> \notin {t, <<"control", a>>, <<"video", a>>}
              /\ <<"video", b>> \notin {t, <<"control", a>>, <<"video", a>>}
          BY <4>2
        <4>5. QED
          BY <3>1, <4>3, <4>4 DEF ReadersWait
      <3>2. QED
        BY <3>1 DEF ReadersWait
    <2>2. CASE ~Serve(a)
      <3>1. PICK step : Goto(t, step) /\ (step \in Early => at[t] \in Early)
        BY <1>2, <2>2
        DEF ConnectTask, Fired, Begin, Reset, Open, Connect, Preface, Publish, Hello, Caught,
            Scheduled, Early, Unpublished
      <3>2. at'[t] = step /\ \A u \in Threads : u # t => at'[u] = at[u]
        BY <3>1 DEF Goto, TypeOK
      <3>3. at[t] # "idle"
        BY <1>2, <2>2
        DEF ConnectTask, Fired, Begin, Reset, Open, Connect, Preface, Publish, Hello, Caught,
            Scheduled
      <3>4. QED
        BY <3>1, <3>2, <3>3, ReadersKept
    <2>3. QED
      BY <2>1, <2>2
  <1>3. ASSUME NEW a \in Attempts, NEW t \in {<<"control", a>>, <<"video", a>>}, Reader(t)
        PROVE ReadersWait'
    <2>1. PICK step : Goto(t, step) /\ step \notin Early
      BY <1>3 DEF Reader, ReaderStarts, ReaderFails, ReaderChecks, Early, Unpublished
    <2>2. at'[t] = step /\ \A u \in Threads : u # t => at'[u] = at[u]
      <3>1. t \in Threads
        OBVIOUS
      <3>2. QED
        BY <2>1, <3>1 DEF Goto, TypeOK
    <2>3. t \in Threads /\ at[t] # "idle"
      BY <1>3 DEF Reader, ReaderStarts, ReaderFails, ReaderChecks, Scheduled
    <2>4. QED
      BY <2>1, <2>2, <2>3, ReadersKept
  <1>4. CASE SendInput \/ Enqueue \/ CloseBegins \/ CloseCloses
    <2>1. PICK step : Goto(Main, step) /\ step \notin Early
      BY <1>4 DEF SendInput, Enqueue, CloseBegins, CloseCloses, Early, Unpublished
    <2>2. at'[Main] = step /\ \A u \in Threads : u # Main => at'[u] = at[u]
      BY <2>1 DEF Goto, TypeOK
    <2>3. QED
      BY <2>1, <2>2, ReadersKept
  <1>5. CASE WriterTakes \/ WriterWrites
    <2>1. at'[Writer] \notin Early /\ \A u \in Threads : u # Writer => at'[u] = at[u]
      BY <1>5 DEF WriterTakes, WriterWrites, Goto, TypeOK, Early, Unpublished
    <2>2. QED
      BY <2>1, ReadersKept
  <1>6. CASE Reconnect \/ Start
    <2> DEFINE t == <<"connect", NewAttempt>>
    <2>1. /\ NewAttempt \in Attempts
          /\ at[<<"control", NewAttempt>>] = "idle" /\ at[<<"video", NewAttempt>>] = "idle"
      BY <1>6, NewAttemptFree DEF Reconnect, Start, Roles
    <2>2. \A u \in Threads : u # t /\ u # Main => at'[u] = at[u]
      BY <1>6 DEF Reconnect, Start, Goto, TypeOK
    <2>3. ASSUME NEW b \in Attempts, at'[<<"connect", b>>] \in Early
          PROVE at[<<"control", b>>] = "idle" /\ at[<<"video", b>>] = "idle"
      <3>1. CASE b = NewAttempt
        BY <2>1, <3>1
      <3>2. CASE b # NewAttempt
        <4>1. <<"connect", b>> # t /\ <<"connect", b>> # Main /\ <<"connect", b>> \in Threads
          BY <2>1, <3>2
        <4>2. QED
          BY <2>2, <2>3, <4>1 DEF ReadersWait
      <3>3. QED
        BY <3>1, <3>2
    <2>4. ASSUME NEW b \in Attempts
          PROVE /\ <<"control", b>> \in Threads /\ <<"control", b>> # t /\ <<"control", b>> # Main
                /\ <<"video", b>> \in Threads /\ <<"video", b>> # t /\ <<"video", b>> # Main
      BY <2>1
    <2>5. QED
      BY <2>2, <2>3, <2>4 DEF ReadersWait
  <1>7. CASE CloseEnds
    <2>1. /\ at'[Main] = "closed"
          /\ \A u \in Threads : u # Main => at'[u] = IF at[u] = "queued" THEN "idle" ELSE at[u]
      BY <1>7 DEF CloseEnds
    <2>2. QED
      BY <2>1 DEF ReadersWait, Early, Unpublished
  <1>8. CASE (\E a \in Attempts : DesktopDrops(a)) \/ UNCHANGED vars
    BY <1>8 DEF DesktopDrops, vars, ReadersWait
  <1>9. QED
    BY <1>1, <1>2, <1>3, <1>4, <1>5, <1>6, <1>7, <1>8 DEF Next, Close

\* The invariant is inductive.
LEMMA StepInv == Inv /\ [Next]_vars => Inv'
  <1> SUFFICES ASSUME Inv, [Next]_vars PROVE Inv'
    OBVIOUS
  <1>1. TypeOK' /\ Order'
    BY ReportsStep, ConnectStep, ReaderStep, InputStep, ReconnectStep, StartStep, CloseStep,
       OutsideStep
    DEF Next
  <1>2. QED
    BY <1>1, ReadersStep DEF Inv

\* The invariant holds in every state of every behaviour.
LEMMA Invariance == Spec => []Inv
  BY InitInv, StepInv, PTL DEF Spec
-----------------------------------------------------------------------------
\* The variables keep their ranges and the writer's queue its bound, whatever the
\* threads do (AdbSession.kt:32-60).
THEOREM Typed == Spec => []TypeOK
  BY Invariance, PTL DEF Inv

\* The published streams always belong to sockets that are registered
\* (AdbSession.kt:54-57, 142, 172-179).
THEOREM StreamsSafety == Spec => []StreamsOwned
  <1>1. Inv => StreamsOwned
    BY DEF Inv, Order
  <1>2. QED
    BY <1>1, Invariance, PTL

\* As long as failures are ignored because one has been notified, a reconnect is on
\* its way: no interleaving of the threads that find the connection broken leaves
\* the session without one.
THEOREM NoFailureForgotten == Spec => []NotifiedMeansReconnect
  <1>1. Inv => NotifiedMeansReconnect
    BY DEF Inv, Order
  <1>2. QED
    BY <1>1, Invariance, PTL

\* After close() nothing is open, published, scheduled or begun, whatever was under
\* way when it was called.
THEOREM CloseIsFinal == Spec => []ClosedForGood
  <1>1. Inv => ClosedForGood
    BY DEF Inv, Order
  <1>2. QED
    BY <1>1, Invariance, PTL
=============================================================================
