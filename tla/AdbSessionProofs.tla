--------------------------- MODULE AdbSessionProofs ---------------------------
(***************************************************************************)
(* Proofs about AdbSession, for every set of transport threads, devices    *)
(* and tokens and every bound on faults.  The inductive invariant joins    *)
(* the three invariants the run adb_session checks with three facts about  *)
(* the order of steps.  Each part needs the others: the launch may return *)
(* "Connected" only because it checks authentication_armed_, and an armed  *)
(* token is the one the attempt drew because only PublishToken arms it.    *)
(* The last part is about AdbLoop, which drives the session: a stop that   *)
(* follows the adb thread's end leaves nothing on the tablet.              *)
(***************************************************************************)
EXTENDS AdbLoop, TLAPS

\* Once Stop has begun, the shutdown is requested for good.
StopIsFinal == pc[Owner] # "idle" => shutdown

\* Mappings are installed for a selected device only.
SelectedFirst == pc[Adb] = "reverse" => target[Adb] # NoDevice

\* Only a shutdown shows an attempt, or a loop, that the session has stopped.
ShutdownShown ==
    ~shutdown => state # "Stopping" /\ (pc[Adb] # "idle" => state # "Stopped")

Order ==
    /\ TokenDiscipline
    /\ LaunchAuthenticates
    /\ StopIsFinal
    /\ SelectedFirst
    /\ ShutdownShown

SessionInv == TypeOK /\ Order

USE ThreadAssumption, DeviceAssumption, TokenAssumption, BoundAssumption

\* GenerateSessionToken returns a token, one it has not returned before.
LEMMA FreshToken ==
    Tokens \ Spent # {} => Fresh \in Tokens /\ Fresh \notin Spent /\ Fresh # NoToken
  BY DEF Fresh

\* Only tokens are remembered.
LEMMA SpentTokens ==
    TypeOK => Spent \in SUBSET Tokens
  BY DEF TypeOK, Spent

\* The failure count stays below its cap.
LEMMA SaturatedType ==
    ASSUME NEW n \in 0..MaxAttempts PROVE Saturated(n) \in 0..MaxAttempts
  BY DEF Saturated

\* A fault is taken from the budget.
LEMMA FaultType ==
    TypeOK /\ Fault => faults' \in 0..MaxFaults
  BY DEF TypeOK, Fault

\* The program counter of one thread moves, those of the others stay.
LEMMA GotoThread ==
    ASSUME pc \in [Threads -> Steps], NEW t \in Threads, NEW step \in Steps, Goto(t, step)
    PROVE  /\ pc' \in [Threads -> Steps]
           /\ pc'[t] = step
           /\ \A u \in Threads : u # t => pc'[u] = pc[u]
  BY DEF Goto

\* Each step the actions name is a step, and the threads are distinct.
LEMMA StepNames ==
    /\ {"idle", "health", "final", "gone"} \subseteq Steps
    /\ {"select", "reverse", "publish", "launch", "launched"} \subseteq Steps
    /\ {"snap", "kill", "unmap"} \subseteq Steps
    /\ Adb \in Threads /\ Owner \in Threads /\ Callers \subseteq Threads
    /\ Adb \notin Callers /\ Owner \notin Callers /\ Adb # Owner
  <1>1. {"idle", "health", "final", "gone"} \subseteq Steps
    BY DEF Steps
  <1>2. {"select", "reverse", "publish", "launch", "launched"} \subseteq Steps
    BY DEF Steps, AttemptSteps
  <1>3. {"snap", "kill", "unmap"} \subseteq Steps
    BY DEF Steps, CleanupSteps
  <1>4. QED
    BY <1>1, <1>2, <1>3 DEF Threads

\* A failed attempt leaves a well-typed state.
LEMMA ReconnectType ==
    ASSUME TypeOK, ScheduleReconnect, faults' \in 0..MaxFaults, mapped' \in SUBSET Devices
    PROVE  TypeOK'
  <1>1. pc' \in [Threads -> Steps]
    BY StepNames, GotoThread DEF TypeOK, ScheduleReconnect
  <1>2. /\ state' \in SessionStates /\ armed' \in BOOLEAN
        /\ token' \in Tokens \cup {NoToken}
        /\ attempts' \in 0..MaxAttempts /\ due' \in BOOLEAN
    BY SaturatedType DEF TypeOK, ScheduleReconnect, Revoke, SessionStates
  <1>3. QED
    BY <1>1, <1>2 DEF TypeOK, ScheduleReconnect, secrets, cable, remote

\* A reported loss leaves a well-typed state.
LEMMA LossType ==
    ASSUME TypeOK, NEW t \in Threads, NotifyChannelLoss(t), faults' \in 0..MaxFaults
    PROVE  TypeOK'
  <1>1. pc' \in [Threads -> Steps]
    <2>1. CASE Goto(t, "idle")
      BY <2>1, StepNames, GotoThread DEF TypeOK
    <2>2. CASE Goto(t, IF serial # NoDevice THEN "snap" ELSE "idle")
      BY <2>2, StepNames, GotoThread DEF TypeOK
    <2>3. QED
      BY <2>1, <2>2 DEF NotifyChannelLoss
  <1>2. /\ state' \in SessionStates /\ armed' \in BOOLEAN
        /\ token' \in Tokens \cup {NoToken}
        /\ attempts' \in 0..MaxAttempts /\ due' \in BOOLEAN /\ cancelled' \in BOOLEAN
        /\ serial' = serial /\ shutdown' = shutdown
        /\ target' = target
    BY SaturatedType DEF TypeOK, NotifyChannelLoss, Revoke, SessionStates, session
  <1>3. UNCHANGED <<secrets, cable, remote>>
    BY DEF NotifyChannelLoss
  <1>4. QED
    BY <1>1, <1>2, <1>3 DEF TypeOK, secrets, cable, remote

\* The invariant holds before the first attempt.
LEMMA InitInv == Init => SessionInv
  <1> SUFFICES ASSUME Init PROVE SessionInv
    OBVIOUS
  <1>1. TypeOK
    <2>1. pc \in [Threads -> Steps]
      BY StepNames DEF Init
    <2>2. /\ state \in SessionStates /\ attempts \in 0..MaxAttempts
          /\ faults \in 0..MaxFaults /\ replugs \in 0..MaxReplugs
      BY DEF Init, SessionStates
    <2>3. /\ target \in [Threads -> Devices \cup {NoDevice}]
          /\ client \in [Devices -> Tokens \cup {NoToken}]
      BY DEF Init
    <2>4. QED
      BY <2>1, <2>2, <2>3 DEF Init, TypeOK
  <1>2. Order
    BY StepNames DEF Init, Order, TokenDiscipline, LaunchAuthenticates, StopIsFinal,
       SelectedFirst, ShutdownShown
  <1>3. QED
    BY <1>1, <1>2 DEF SessionInv

\* Every step, of whichever thread, keeps the invariant.
LEMMA StepInv == SessionInv /\ [Next]_vars => SessionInv'
  <1> SUFFICES ASSUME SessionInv, [Next]_vars PROVE SessionInv'
    OBVIOUS
  <1>a. TypeOK /\ Order
    BY DEF SessionInv
  <1> USE <1>a, StepNames DEF SessionInv, TypeOK, SessionStates, session, threads, secrets,
          cable, remote, Goto
  <1>1. CASE Start
    <2>1. TypeOK'
      BY <1>1, SaturatedType DEF Start, BeginAttempt, Revoke
    <2>2. Order'
      BY <1>1 DEF Start, BeginAttempt, Revoke, Order, TokenDiscipline, LaunchAuthenticates,
         Accepts, StopIsFinal, SelectedFirst, ShutdownShown
    <2>3. QED
      BY <2>1, <2>2
  <1>2. CASE TickRetry
    <2>1. TypeOK'
      BY <1>2, SaturatedType DEF TickRetry, BeginAttempt, Revoke
    <2>2. Order'
      BY <1>2 DEF TickRetry, BeginAttempt, Revoke, Order, TokenDiscipline,
         LaunchAuthenticates, Accepts, StopIsFinal, SelectedFirst, ShutdownShown
    <2>3. QED
      BY <2>1, <2>2
  <1>3. CASE TickHealth
    <2>1. TypeOK'
      BY <1>3, SaturatedType DEF TickHealth
    <2>2. Order'
      BY <1>3 DEF TickHealth, Order, TokenDiscipline, LaunchAuthenticates, Accepts,
         StopIsFinal, SelectedFirst, ShutdownShown
    <2>3. QED
      BY <2>1, <2>2
  <1>4. CASE HealthOk
    <2>1. TypeOK'
      BY <1>4, SaturatedType DEF HealthOk
    <2>2. Order'
      BY <1>4 DEF HealthOk, Order, TokenDiscipline, LaunchAuthenticates, Accepts,
         StopIsFinal, SelectedFirst, ShutdownShown
    <2>3. QED
      BY <2>1, <2>2
  <1>5. CASE HealthBad
    <2>1. TypeOK'
      BY <1>5, LossType, FaultType DEF HealthBad
    <2>2. Order'
      BY <1>5 DEF HealthBad, NotifyChannelLoss, Revoke, Fault, Order, TokenDiscipline,
         LaunchAuthenticates, Accepts, StopIsFinal, SelectedFirst, ShutdownShown
    <2>3. QED
      BY <2>1, <2>2
  <1>6. CASE SelectDevice
    <2>1. TypeOK'
      <3>1. CASE ScheduleReconnect /\ faults' \in 0..MaxFaults /\ mapped' \in SUBSET Devices
        BY <3>1, ReconnectType
      <3>2. CASE ~ScheduleReconnect
        <4>1. pc' \in [Threads -> Steps]
          BY <1>6, <3>2, GotoThread DEF SelectDevice
        <4>2. QED
          BY <1>6, <3>2, <4>1 DEF SelectDevice
      <3>3. QED
        BY <1>6, <3>1, <3>2, FaultType DEF SelectDevice
    <2>2. Order'
      BY <1>6 DEF SelectDevice, ScheduleReconnect, Revoke, Fault, Order, TokenDiscipline,
         LaunchAuthenticates, Accepts, StopIsFinal, SelectedFirst, ShutdownShown
    <2>3. QED
      BY <2>1, <2>2
  <1>7. CASE InstallReverse
    <2>1. TypeOK'
      <3>1. CASE ScheduleReconnect /\ faults' \in 0..MaxFaults /\ mapped' \in SUBSET Devices
        BY <3>1, ReconnectType
      <3>2. CASE ~ScheduleReconnect
        <4>1. pc' \in [Threads -> Steps]
          BY <1>7, <3>2, GotoThread DEF InstallReverse
        <4>2. mapped' \in SUBSET Devices
          BY <1>7 DEF InstallReverse, Order, SelectedFirst
        <4>3. QED
          BY <1>7, <3>2, <4>1, <4>2 DEF InstallReverse
      <3>3. mapped' \in SUBSET Devices
        BY <1>7 DEF InstallReverse, Order, SelectedFirst
      <3>4. QED
        BY <1>7, <3>1, <3>2, <3>3, FaultType DEF InstallReverse, CommandFails
    <2>2. Order'
      BY <1>7 DEF InstallReverse, ScheduleReconnect, CommandFails, Revoke, Fault, Order,
         TokenDiscipline, LaunchAuthenticates, Accepts, StopIsFinal, SelectedFirst,
         ShutdownShown
    <2>3. QED
      BY <2>1, <2>2
  <1>8. CASE PublishToken
    <2>1. TypeOK'
      <3>1. CASE ScheduleReconnect /\ faults' \in 0..MaxFaults /\ mapped' \in SUBSET Devices
        BY <3>1, ReconnectType
      <3>2. CASE ~ScheduleReconnect
        <4>1. pc' \in [Threads -> Steps]
          BY <1>8, <3>2, GotoThread DEF PublishToken
        <4>2. /\ token' \in Tokens \cup {NoToken} /\ drawn' \in Tokens \cup {NoToken}
              /\ used' \in SUBSET Tokens /\ armed' \in BOOLEAN
          BY <1>8, <3>2, FreshToken, SpentTokens DEF PublishToken, TypeOK, session, secrets
        <4>3. QED
          BY <1>8, <3>2, <4>1, <4>2 DEF PublishToken
      <3>3. QED
        BY <1>8, <3>1, <3>2, FaultType DEF PublishToken
    <2>2. Order'
      <3>1. TokenDiscipline' /\ LaunchAuthenticates'
        BY <1>8, FreshToken, SpentTokens DEF PublishToken, ScheduleReconnect, Revoke, Fault,
           Order, TokenDiscipline, LaunchAuthenticates, Accepts, SelectedFirst, ShutdownShown
      <3>2. StopIsFinal' /\ SelectedFirst' /\ ShutdownShown'
        BY <1>8 DEF PublishToken, ScheduleReconnect, Revoke, Fault,
           Order, TokenDiscipline, StopIsFinal, SelectedFirst, ShutdownShown
      <3>3. QED
        BY <3>1, <3>2 DEF Order
    <2>3. QED
      BY <2>1, <2>2
  <1>9. CASE LaunchDelivered
    <2>1. TypeOK'
      BY <1>9, SaturatedType DEF LaunchDelivered
    <2>2. Order'
      BY <1>9 DEF LaunchDelivered, Order, TokenDiscipline, LaunchAuthenticates, Accepts,
         StopIsFinal, SelectedFirst, ShutdownShown
    <2>3. QED
      BY <2>1, <2>2
  <1>10. CASE LaunchReturns
    <2>1. TypeOK'
      <3>1. pc' \in [Threads -> Steps]
        BY <1>10, GotoThread DEF LaunchReturns
      <3>2. state' \in SessionStates /\ attempts' \in 0..MaxAttempts /\ due' \in BOOLEAN
        <4>1. CASE UNCHANGED session
          BY <4>1 DEF TypeOK, session
        <4>2. CASE state' = "Connected" /\ attempts' = 0 /\ due' = TRUE
          BY <4>2 DEF SessionStates
        <4>3. QED
          BY <1>10, <4>1, <4>2 DEF LaunchReturns
      <3>3. QED
        BY <1>10, <3>1, <3>2 DEF LaunchReturns
    <2>2. Order'
      BY <1>10 DEF LaunchReturns, Order, TokenDiscipline, LaunchAuthenticates, Accepts,
         StopIsFinal, SelectedFirst, ShutdownShown
    <2>3. QED
      BY <2>1, <2>2
  <1>11. CASE LaunchFails
    <2>1. TypeOK'
      <3>1. CASE ScheduleReconnect /\ faults' \in 0..MaxFaults /\ mapped' \in SUBSET Devices
        BY <3>1, ReconnectType
      <3>2. QED
        BY <1>11, <3>1, FaultType DEF LaunchFails, CommandFails
    <2>2. Order'
      BY <1>11 DEF LaunchFails, ScheduleReconnect, CommandFails, Revoke, Fault, Order,
         TokenDiscipline, LaunchAuthenticates, Accepts, StopIsFinal, SelectedFirst,
         ShutdownShown
    <2>3. QED
      BY <2>1, <2>2
  <1>12. CASE StopBegin
    <2>1. TypeOK'
      BY <1>12, SaturatedType DEF StopBegin, Revoke
    <2>2. Order'
      BY <1>12 DEF StopBegin, Revoke, Order, TokenDiscipline, LaunchAuthenticates, Accepts,
         StopIsFinal, SelectedFirst, ShutdownShown
    <2>3. QED
      BY <2>1, <2>2
  <1>13. CASE StopEnd
    <2>1. TypeOK'
      BY <1>13, SaturatedType DEF StopEnd
    <2>2. Order'
      BY <1>13 DEF StopEnd, Order, TokenDiscipline, LaunchAuthenticates, Accepts,
         StopIsFinal, SelectedFirst, ShutdownShown
    <2>3. QED
      BY <2>1, <2>2
  <1>14. CASE RetryElapses
    <2>1. TypeOK'
      BY <1>14, SaturatedType DEF RetryElapses
    <2>2. Order'
      BY <1>14 DEF RetryElapses, Order, TokenDiscipline, LaunchAuthenticates, Accepts,
         StopIsFinal, SelectedFirst, ShutdownShown
    <2>3. QED
      BY <2>1, <2>2
  <1>15. CASE Replug
    <2>1. TypeOK'
      BY <1>15, SaturatedType DEF Replug
    <2>2. Order'
      BY <1>15 DEF Replug, Order, TokenDiscipline, LaunchAuthenticates, Accepts,
         StopIsFinal, SelectedFirst, ShutdownShown
    <2>3. QED
      BY <2>1, <2>2
  <1>16. ASSUME NEW t \in Callers, ChannelLost(t)
         PROVE  SessionInv'
    <2>1. TypeOK'
      BY <1>16, LossType, FaultType DEF ChannelLost
    <2>2. Order'
      BY <1>16 DEF ChannelLost, NotifyChannelLoss, Revoke, Fault, Order, TokenDiscipline,
         LaunchAuthenticates, Accepts, StopIsFinal, SelectedFirst, ShutdownShown
    <2>3. QED
      BY <2>1, <2>2
  <1>17. ASSUME NEW t \in Threads, CleanupRemote(t)
         PROVE  SessionInv'
    <2>1. TypeOK'
      <3>1. CASE CleanupSnapshot(t)
        <4>1. pc' \in [Threads -> Steps]
          BY <1>17, <3>1, GotoThread DEF CleanupSnapshot
        <4>2. QED
          BY <1>17, <3>1, <4>1 DEF CleanupSnapshot
      <3>2. CASE CleanupKill(t)
        <4>1. pc' \in [Threads -> Steps]
          BY <1>17, <3>2, GotoThread DEF CleanupKill
        <4>2. QED
          BY <1>17, <3>2, <4>1 DEF CleanupKill
      <3>3. CASE CleanupUnmap(t)
        <4>1. pc' \in [Threads -> Steps]
          BY <1>17, <3>3, GotoThread DEF CleanupUnmap
        <4>2. QED
          BY <1>17, <3>3, <4>1 DEF CleanupUnmap
      <3>4. QED
        BY <1>17, <3>1, <3>2, <3>3 DEF CleanupRemote
    <2>2. Order'
      BY <1>17 DEF CleanupRemote, CleanupSnapshot, CleanupKill, CleanupUnmap, Order,
         TokenDiscipline, LaunchAuthenticates, Accepts, StopIsFinal, SelectedFirst,
         ShutdownShown
    <2>3. QED
      BY <2>1, <2>2
  <1>18. CASE UNCHANGED vars
    BY <1>18 DEF vars, TypeOK, Order, TokenDiscipline, LaunchAuthenticates, Accepts,
       StopIsFinal, SelectedFirst, ShutdownShown
  <1>19. QED
    BY <1>1, <1>2, <1>3, <1>4, <1>5, <1>6, <1>7, <1>8, <1>9, <1>10, <1>11, <1>12, <1>13,
       <1>14, <1>15, <1>16, <1>17, <1>18
       DEF Next, AdbStep, Tick, AttemptConnect, Stop

-----------------------------------------------------------------------------

\* The invariant holds throughout.
LEMMA Invariance == Spec => []SessionInv
  BY InitInv, StepInv, PTL DEF Spec

\* Every variable of the session keeps its type, for any number of threads,
\* devices, tokens and faults.
THEOREM TypeCorrect == Spec => []TypeOK
  BY Invariance, PTL DEF SessionInv

\* At every moment the only token that authenticates channels is the one the
\* attempt in progress, or the connection it led to, has drawn; after a loss, a
\* failed attempt or a shutdown none does.
THEOREM TokenSafety == Spec => []TokenDiscipline
  BY Invariance, PTL DEF SessionInv, Order

\* The client that is being launched can authenticate before the launch command
\* returns, and as long as the session is connected.
THEOREM LaunchSafety == Spec => []LaunchAuthenticates
  BY Invariance, PTL DEF SessionInv, Order

-----------------------------------------------------------------------------

\* What a step may do to the token: keep it, revoke it, or publish a fresh one.
LEMMA TokenMoves ==
    ASSUME SessionInv, [Next]_vars
    PROVE  \/ UNCHANGED <<armed, token>>
           \/ armed' = FALSE /\ token' = NoToken
           \/ token' \notin Spent
  <1>1. CASE Start
    BY <1>1 DEF Start, BeginAttempt, Revoke, session
  <1>2. CASE TickRetry
    BY <1>2 DEF TickRetry, BeginAttempt, Revoke, session
  <1>3. CASE TickHealth
    BY <1>3 DEF TickHealth, session
  <1>4. CASE HealthOk
    BY <1>4 DEF HealthOk, session
  <1>5. CASE HealthBad
    BY <1>5 DEF HealthBad, NotifyChannelLoss, Revoke, Fault, session
  <1>6. CASE SelectDevice
    BY <1>6 DEF SelectDevice, ScheduleReconnect, Revoke, session
  <1>7. CASE InstallReverse
    BY <1>7 DEF InstallReverse, ScheduleReconnect, Revoke, session
  <1>8. CASE PublishToken
    BY <1>8, FreshToken DEF PublishToken, ScheduleReconnect, Revoke, session
  <1>9. CASE LaunchDelivered
    BY <1>9 DEF LaunchDelivered, session
  <1>10. CASE LaunchReturns
    BY <1>10 DEF LaunchReturns, session
  <1>11. CASE LaunchFails
    BY <1>11 DEF LaunchFails, ScheduleReconnect, Revoke, session
  <1>12. CASE StopBegin
    BY <1>12 DEF StopBegin, Revoke, session
  <1>13. CASE StopEnd
    BY <1>13 DEF StopEnd, session
  <1>14. CASE RetryElapses
    BY <1>14 DEF RetryElapses, session
  <1>15. CASE Replug
    BY <1>15 DEF Replug, session
  <1>16. ASSUME NEW t \in Callers, ChannelLost(t)
         PROVE  UNCHANGED <<armed, token>> \/ (armed' = FALSE /\ token' = NoToken)
    BY <1>16 DEF ChannelLost, NotifyChannelLoss, Revoke, session
  <1>17. ASSUME NEW t \in Threads, CleanupRemote(t)
         PROVE  UNCHANGED <<armed, token>>
    BY <1>17 DEF CleanupRemote, CleanupSnapshot, CleanupKill, CleanupUnmap, session
  <1>18. CASE UNCHANGED vars
    BY <1>18 DEF vars, session
  <1>19. QED
    BY <1>1, <1>2, <1>3, <1>4, <1>5, <1>6, <1>7, <1>8, <1>9, <1>10, <1>11, <1>12, <1>13,
       <1>14, <1>15, <1>16, <1>17, <1>18
       DEF Next, AdbStep, Tick, AttemptConnect, Stop

\* A token that no longer authenticates never does again, whatever the number of
\* reconnections, when the generator does not repeat itself.
THEOREM Revocation == ~Recycle => (Spec => RevokedForGood)
  <1> SUFFICES ASSUME ~Recycle PROVE Spec => RevokedForGood
    OBVIOUS
  <1>1. ASSUME SessionInv, SessionInv', [Next]_vars
        PROVE  [\A t \in used : ~Accepts(t) => ~Accepts(t)']_vars
    <2> SUFFICES ASSUME NEW t \in used, ~Accepts(t), Accepts(t)'
                 PROVE  FALSE
      OBVIOUS
    <2>1. CASE UNCHANGED <<armed, token>>
      BY <1>1, <2>1 DEF Accepts, SessionInv, Order, TokenDiscipline
    <2>2. CASE armed' = FALSE
      BY <2>2 DEF Accepts
    <2>3. CASE token' \notin Spent
      BY <2>3 DEF Accepts, Spent
    <2>4. QED
      BY <1>1, <2>1, <2>2, <2>3, TokenMoves
  <1>2. QED
    BY <1>1, Invariance, PTL DEF Spec, RevokedForGood

-----------------------------------------------------------------------------

\* Every step of the session is a step of the abstract link, or none.
LEMMA StepRefines ==
    ASSUME SessionInv, [Next]_vars, ~Recycle
    PROVE  [Link!Next]_(Link!linkVars)
  <1> USE StepNames DEF Link!linkVars, LinkState, session, secrets, SessionInv, TypeOK, Order,
          TokenDiscipline, ShutdownShown, StopIsFinal, SessionStates
  <1>1. CASE Start
    BY <1>1 DEF Start, BeginAttempt, Revoke, Link!Next, Link!Attempt, Link!Launch
  <1>2. CASE TickRetry
    BY <1>2 DEF TickRetry, BeginAttempt, Revoke, Link!Next, Link!Attempt, Link!Launch
  <1>3. CASE TickHealth
    BY <1>3 DEF TickHealth
  <1>4. CASE HealthOk
    BY <1>4 DEF HealthOk
  <1>5. CASE HealthBad
    BY <1>5 DEF HealthBad, NotifyChannelLoss, Revoke, Fault, Link!Next, Link!Lose
  <1>6. CASE SelectDevice
    BY <1>6 DEF SelectDevice, ScheduleReconnect, Revoke, Link!Next, Link!Lose
  <1>7. CASE InstallReverse
    BY <1>7 DEF InstallReverse, ScheduleReconnect, Revoke, Link!Next, Link!Lose
  <1>8. CASE PublishToken
    BY <1>8, FreshToken DEF Spent, PublishToken, ScheduleReconnect, Revoke, Link!Next,
       Link!Attempt, Link!Publish, Link!Lose
  <1>9. CASE LaunchDelivered
    BY <1>9 DEF LaunchDelivered
  <1>10. CASE LaunchReturns
    BY <1>10 DEF LaunchReturns, Link!Next, Link!Attempt, Link!Complete
  <1>11. CASE LaunchFails
    BY <1>11 DEF LaunchFails, ScheduleReconnect, Revoke, Link!Next, Link!Lose
  <1>12. CASE StopBegin
    BY <1>12 DEF StopBegin, Revoke, Link!Next, Link!ShutDown
  <1>13. CASE StopEnd
    BY <1>13 DEF StopEnd
  <1>14. CASE RetryElapses
    BY <1>14 DEF RetryElapses
  <1>15. CASE Replug
    BY <1>15 DEF Replug
  <1>16. ASSUME NEW t \in Callers, ChannelLost(t)
         PROVE  [Link!Next]_(Link!linkVars)
    BY <1>16 DEF ChannelLost, NotifyChannelLoss, Revoke, Link!Next, Link!Lose
  <1>17. ASSUME NEW t \in Threads, CleanupRemote(t)
         PROVE  [Link!Next]_(Link!linkVars)
    BY <1>17 DEF CleanupRemote, CleanupSnapshot, CleanupKill, CleanupUnmap
  <1>18. CASE UNCHANGED vars
    BY <1>18 DEF vars
  <1>19. QED
    BY <1>1, <1>2, <1>3, <1>4, <1>5, <1>6, <1>7, <1>8, <1>9, <1>10, <1>11, <1>12, <1>13,
       <1>14, <1>15, <1>16, <1>17, <1>18
       DEF Next, AdbStep, Tick, AttemptConnect, Stop

\* Whatever the interleaving of losses, retries, late cleanups and shutdown, the
\* session behaves as the abstract link does, when the generator does not repeat
\* itself.
THEOREM Refinement == ~Recycle => (Spec => ImplementsLink)
  <1> SUFFICES ASSUME ~Recycle PROVE Spec => Link!Spec
    BY DEF ImplementsLink
  <1>1. Init => Link!Init
    BY DEF Init, Link!Init, LinkState
  <1>2. SessionInv /\ [Next]_vars => [Link!Next]_(Link!linkVars)
    BY StepRefines
  <1>3. QED
    BY <1>1, <1>2, Invariance, PTL DEF Spec, Link!Spec
-----------------------------------------------------------------------------
(* The session in the hands of AdbLoop. *)

\* The types that the clean-up depends on.
RemoteTyped ==
    /\ pc \in [Threads -> Steps]
    /\ target \in [Threads -> Devices \cup {NoDevice}]
    /\ drawn \in Tokens \cup {NoToken}
    /\ used \in SUBSET Tokens
    /\ device \in Devices \cup {NoDevice}
    /\ client \in [Devices -> Tokens \cup {NoToken}]
    /\ replugs \in 0..MaxReplugs
    /\ serial \in Devices \cup {NoDevice}

\* The owner stops the session once the adb thread has left its loop, which it
\* does between two calls.
OwnerLast ==
    /\ pc[Owner] # "idle" => loop = "over"
    /\ loop = "over" => pc[Adb] = "idle" /\ ~running

\* The tablet is plugged in and has been since the beginning.
Plugged == device # NoDevice /\ replugs = MaxReplugs

\* Nothing is left on the tablet.
Clean == client[device] = NoToken /\ device \notin mapped

\* While the tablet is plugged in, no other is selected, and it is from the step
\* that installs the mappings on; whatever is left on it belongs to the one that
\* Stop will clean up, and each step of the clean-up removes its part.
CleanUp ==
    Plugged =>
        /\ serial \in {device, NoDevice}
        /\ pc[Adb] \in {"reverse", "publish", "launch", "launched"} => serial = device
        /\ pc[Owner] = "idle" => Clean \/ serial = device
        /\ pc[Owner] = "snap" => serial = device
        /\ pc[Owner] \in {"kill", "unmap"} => target[Owner] = device
        /\ pc[Owner] = "unmap" => client[device] = NoToken
        /\ pc[Owner] \in {"final", "gone"} => Clean

CleanInv == RemoteTyped /\ OwnerLast /\ CleanUp

\* What the watchdog remembers.
Watched == waiting \in {"unset", "set", "elapsed"}

\* The watchdog's memory is in order in every step.
LEMMA WatchKept == Watched /\ [LoopNext]_loopVars => Watched'
  <1> SUFFICES ASSUME Watched, [LoopNext]_loopVars PROVE Watched'
    OBVIOUS
  <1>1. waiting' = waiting \/ waiting' \in {"unset", "set", "elapsed"}
    BY DEF Watched, LoopNext, loopVars, AdbThread, LoopStart, LoopTick, LoopObserve, LoopFire, LoopExit, SessionStep,
       WatchdogElapses, ClientConnects, ChannelFails, TransportThread, ReportLoss, ThreadCleanup, ClientExits,
       ShutDownServer, StopSession, RetryPasses, CableMoves
  <1>2. QED
    BY <1>1 DEF Watched

\* The loop begins with nothing on the tablet.
LEMMA CleanStarts == LoopInit => CleanInv
  <1> SUFFICES ASSUME LoopInit PROVE CleanInv
    OBVIOUS
  <1>1. RemoteTyped
    BY StepNames DEF LoopInit, Init, RemoteTyped
  <1>2. OwnerLast
    BY StepNames DEF LoopInit, Init, OwnerLast
  <1>3. CleanUp
    BY StepNames DEF LoopInit, Init, CleanUp, Plugged, Clean
  <1>4. QED
    BY <1>1, <1>2, <1>3 DEF CleanInv

\* The owner waits for as long as the adb thread is in its loop, so a step of
\* that thread need only say what it selects and leaves on the tablet.
LEMMA AdbMoves ==
    ASSUME CleanInv, loop # "over", loop' # "over", RemoteTyped', pc'[Owner] = pc[Owner],
           UNCHANGED <<device, replugs>>,
           Plugged => /\ serial' \in {device, NoDevice}
                      /\ pc'[Adb] \in {"reverse", "publish", "launch", "launched"} => serial' = device
                      /\ Clean' \/ serial' = device
    PROVE  CleanInv'
  <1>1. pc'[Owner] = "idle"
    BY DEF CleanInv, OwnerLast
  <1>2. OwnerLast'
    BY <1>1 DEF OwnerLast
  <1>3. CleanUp'
    BY <1>1 DEF CleanUp, Plugged
  <1>4. QED
    BY <1>2, <1>3 DEF CleanInv

\* A report of a loss, and a failed attempt, move the thread only.
LEMMA LossMoves ==
    ASSUME RemoteTyped, NEW t \in Threads, NotifyChannelLoss(t)
    PROVE  /\ RemoteTyped' /\ UNCHANGED <<serial, target, secrets, cable, remote>>
           /\ pc'[t] \in {"idle", "snap"} /\ \A u \in Threads : u # t => pc'[u] = pc[u]
  <1>1. UNCHANGED <<serial, target, secrets, cable, remote>>
    BY DEF NotifyChannelLoss, session
  <1>2. Goto(t, "idle") \/ Goto(t, "snap")
    BY DEF NotifyChannelLoss
  <1>3. /\ pc' \in [Threads -> Steps] /\ pc'[t] \in {"idle", "snap"}
        /\ \A u \in Threads : u # t => pc'[u] = pc[u]
    BY <1>2, StepNames, GotoThread DEF RemoteTyped
  <1>4. QED
    BY <1>1, <1>3 DEF RemoteTyped, secrets, cable, remote

LEMMA RetryMoves ==
    ASSUME RemoteTyped, ScheduleReconnect
    PROVE  /\ RemoteTyped' /\ UNCHANGED <<serial, target, secrets, cable, client>>
           /\ pc'[Adb] = "idle" /\ pc'[Owner] = pc[Owner]
  <1>1. UNCHANGED <<serial, target, secrets, cable, client>> /\ Goto(Adb, "idle")
    BY DEF ScheduleReconnect
  <1>2. pc' \in [Threads -> Steps] /\ pc'[Adb] = "idle" /\ pc'[Owner] = pc[Owner]
    BY <1>1, StepNames, GotoThread DEF RemoteTyped
  <1>3. QED
    BY <1>1, <1>2 DEF RemoteTyped, secrets, cable

\* A step of CleanupRemote moves its thread and only takes from the tablet.
LEMMA CleanupMoves ==
    ASSUME RemoteTyped, NEW t \in Threads, CleanupRemote(t)
    PROVE  /\ RemoteTyped' /\ UNCHANGED <<serial, secrets, cable>>
           /\ pc[t] \in {"snap", "kill", "unmap"} /\ pc'[t] \in {"kill", "unmap", "final", "idle"}
           /\ \A u \in Threads : u # t => pc'[u] = pc[u] /\ target'[u] = target[u]
           /\ Plugged /\ client[device] = NoToken => client'[device] = NoToken
           /\ mapped' \subseteq mapped
  <1>1. CASE CleanupSnapshot(t)
    BY <1>1, StepNames DEF CleanupSnapshot, RemoteTyped, Goto, session, secrets, cable, remote
  <1>2. CASE CleanupKill(t)
    BY <1>2, StepNames DEF CleanupKill, RemoteTyped, Goto, session, secrets, cable, Plugged
  <1>3. CASE CleanupUnmap(t)
    BY <1>3, StepNames DEF CleanupUnmap, RemoteTyped, Goto, session, secrets, cable
  <1>4. QED
    BY <1>1, <1>2, <1>3 DEF CleanupRemote

\* A method of the session on the adb thread keeps the invariant.
LEMMA SessionStepKeepsClean == CleanInv /\ SessionStep => CleanInv'
  <1> SUFFICES ASSUME CleanInv, SessionStep PROVE CleanInv'
    OBVIOUS
  <1>a. RemoteTyped /\ OwnerLast /\ CleanUp
    BY DEF CleanInv
  <1>b. pc[Adb] # "idle" /\ loop' = loop
    BY DEF SessionStep, AttemptConnect, SelectDevice, InstallReverse, PublishToken, LaunchDelivered,
       LaunchReturns, LaunchFails, HealthOk, HealthBad, CleanupRemote, CleanupSnapshot, CleanupKill, CleanupUnmap
  <1>c. loop # "over" /\ loop' # "over" /\ pc[Owner] = "idle"
    BY <1>a, <1>b DEF OwnerLast
  <1>d. Plugged => /\ serial \in {device, NoDevice}
                   /\ pc[Adb] \in {"reverse", "publish", "launch", "launched"} => serial = device
                   /\ Clean \/ serial = device
    BY <1>a, <1>c DEF CleanUp
  <1>1. CASE HealthOk \/ LaunchReturns
    <2>1. RemoteTyped' /\ UNCHANGED <<serial, cable, remote>> /\ pc'[Adb] = "idle" /\ pc'[Owner] = pc[Owner]
      BY <1>1, <1>a, StepNames DEF HealthOk, LaunchReturns, RemoteTyped, Goto, session, secrets, cable, remote
    <2>2. QED
      BY <2>1, <1>c, <1>d, AdbMoves DEF Clean, cable, remote
  <1>2. CASE HealthBad \/ CleanupRemote(Adb)
    <2>1. /\ RemoteTyped' /\ UNCHANGED <<serial, cable>> /\ pc'[Owner] = pc[Owner]
          /\ pc'[Adb] \in {"idle", "snap", "kill", "unmap", "final"}
          /\ Plugged /\ Clean => Clean'
      <3>1. CASE HealthBad
        BY <3>1, <1>a, StepNames, LossMoves DEF HealthBad, Clean, remote, cable
      <3>2. CASE CleanupRemote(Adb)
        BY <3>2, <1>a, StepNames, CleanupMoves DEF Clean, cable
      <3>3. QED
        BY <1>2, <3>1, <3>2
    <2>2. QED
      BY <2>1, <1>c, <1>d, AdbMoves DEF cable
  <1>3. CASE SelectDevice
    <2>1. CASE ScheduleReconnect /\ UNCHANGED mapped
      BY <2>1, <1>a, <1>c, <1>d, RetryMoves, AdbMoves DEF Clean, cable
    <2>2. CASE ~(ScheduleReconnect /\ UNCHANGED mapped)
      <3>1. /\ device # NoDevice /\ serial' = device /\ target' = [target EXCEPT ![Adb] = device]
            /\ pc' = [pc EXCEPT ![Adb] = "reverse"] /\ UNCHANGED <<secrets, cable, remote>>
        BY <1>3, <2>2 DEF SelectDevice, Goto
      <3>2. RemoteTyped' /\ pc'[Owner] = pc[Owner]
        BY <3>1, <1>a, StepNames DEF RemoteTyped, secrets, cable, remote
      <3>3. QED
        BY <3>1, <3>2, <1>c, AdbMoves DEF cable
    <2>3. QED
      BY <1>3, <2>1, <2>2 DEF SelectDevice
  <1>4. CASE InstallReverse
    <2>0. Plugged => serial = device
      BY <1>4, <1>d DEF InstallReverse
    <2>1. CASE ScheduleReconnect
      BY <2>0, <2>1, <1>a, <1>c, <1>d, RetryMoves, AdbMoves DEF cable
    <2>2. CASE ~ScheduleReconnect
      <3>1. pc' = [pc EXCEPT ![Adb] = "publish"] /\ UNCHANGED <<serial, target, secrets, cable, client>>
        BY <1>4, <2>2 DEF InstallReverse, Goto, session
      <3>2. RemoteTyped' /\ pc'[Owner] = pc[Owner]
        BY <3>1, <1>a, StepNames DEF RemoteTyped, secrets, cable
      <3>3. QED
        BY <2>0, <3>1, <3>2, <1>c, AdbMoves DEF cable
    <2>3. QED
      BY <2>1, <2>2
  <1>5. CASE PublishToken
    <2>0. Plugged => serial = device
      BY <1>5, <1>d DEF PublishToken
    <2>1. CASE ScheduleReconnect
      BY <2>0, <2>1, <1>a, <1>c, <1>d, RetryMoves, AdbMoves DEF cable
    <2>2. CASE ~ScheduleReconnect
      <3>1. /\ Goto(Adb, "launch") \/ Goto(Adb, "idle")
            /\ UNCHANGED <<serial, target, cable, remote>>
        BY <1>5, <2>2 DEF PublishToken, session
      <3>2. UNCHANGED secrets \/ (Tokens \ Spent # {} /\ drawn' = Fresh /\ used' = Spent \cup {Fresh})
        BY <1>5, <2>2 DEF PublishToken
      <3>3. Spent \in SUBSET Tokens
        BY <1>a DEF Spent, RemoteTyped
      <3>4. drawn' \in Tokens \cup {NoToken} /\ used' \in SUBSET Tokens
        BY <3>2, <3>3, <1>a, FreshToken DEF RemoteTyped, secrets
      <3>5. pc' \in [Threads -> Steps] /\ pc'[Owner] = pc[Owner]
        BY <3>1, <1>a, StepNames, GotoThread DEF RemoteTyped
      <3>6. RemoteTyped'
        BY <3>1, <3>4, <3>5, <1>a DEF RemoteTyped, cable, remote
      <3>7. QED
        BY <2>0, <3>1, <3>5, <3>6, <1>c, AdbMoves DEF cable
    <2>3. QED
      BY <2>1, <2>2
  <1>6. CASE LaunchDelivered
    <2>0. Plugged => serial = device
      BY <1>6, <1>d DEF LaunchDelivered
    <2>1. /\ pc' = [pc EXCEPT ![Adb] = "launched"] /\ UNCHANGED <<serial, target, secrets, cable>>
          /\ client' = [client EXCEPT ![device] = drawn]
      BY <1>6 DEF LaunchDelivered, Goto, session
    <2>2. RemoteTyped' /\ pc'[Owner] = pc[Owner]
      BY <2>1, <1>a, StepNames DEF RemoteTyped, secrets, cable
    <2>3. QED
      BY <2>0, <2>1, <2>2, <1>c, AdbMoves DEF cable
  <1>7. CASE LaunchFails
    <2>1. ScheduleReconnect /\ UNCHANGED mapped
      BY <1>7 DEF LaunchFails
    <2>2. QED
      BY <2>1, <1>a, <1>c, <1>d, RetryMoves, AdbMoves DEF Clean, cable
  <1>8. QED
    BY <1>1, <1>2, <1>3, <1>4, <1>5, <1>6, <1>7 DEF SessionStep, AttemptConnect

\* The adb thread's loop keeps it.
LEMMA AdbKeepsClean == CleanInv /\ Watched /\ AdbThread => CleanInv'
  <1> SUFFICES ASSUME CleanInv, Watched, AdbThread PROVE CleanInv'
    OBVIOUS
  <1>a. RemoteTyped /\ OwnerLast /\ CleanUp
    BY DEF CleanInv
  <1>1. CASE LoopStart \/ (LoopTick /\ ~UNCHANGED vars)
    <2>1. /\ Goto(Adb, "select") \/ Goto(Adb, "health")
          /\ UNCHANGED <<serial, secrets, cable, remote>>
          /\ target' = target \/ target' = [target EXCEPT ![Adb] = serial]
          /\ loop \in {"start", "tick"} /\ loop' \in {"tick", "observe"}
      BY <1>1 DEF LoopStart, LoopTick, Start, TickRetry, TickHealth, BeginAttempt, session
    <2>2. /\ pc' \in [Threads -> Steps] /\ pc'[Owner] = pc[Owner]
          /\ pc'[Adb] \in {"select", "health"}
      BY <2>1, <1>a, StepNames, GotoThread DEF RemoteTyped
    <2>3. RemoteTyped'
      BY <2>1, <2>2, <1>a, StepNames DEF RemoteTyped, secrets, cable, remote
    <2>4. pc[Owner] = "idle"
      BY <2>1, <1>a DEF OwnerLast
    <2>5. QED
      BY <2>1, <2>2, <2>3, <2>4, <1>a, AdbMoves DEF CleanUp, Clean, cable, remote
  <1>2. CASE LoopFire
    <2>1. loop = "fire" /\ loop' = "tick" /\ NotifyChannelLoss(Adb)
      BY <1>2 DEF LoopFire
    <2>2. pc[Owner] = "idle"
      BY <2>1, <1>a DEF OwnerLast
    <2>3. QED
      BY <2>1, <2>2, <1>a, StepNames, LossMoves, AdbMoves DEF CleanUp, Clean, cable, remote
  <1>3. CASE (LoopTick /\ UNCHANGED vars) \/ LoopObserve \/ LoopExit
    <2>1. UNCHANGED vars /\ ((loop' # "over" /\ loop # "over") \/ (loop' = "over" /\ pc[Adb] = "idle" /\ ~running /\ running' = running))
      BY <1>3 DEF LoopTick, LoopObserve, LoopExit, Watched
    <2>2. UNCHANGED <<pc, target, drawn, used, device, replugs, mapped, client, serial>>
      BY <2>1 DEF vars, session, threads, secrets, cable, remote
    <2>3. OwnerLast'
      BY <2>1, <2>2, <1>a DEF OwnerLast
    <2>4. RemoteTyped' /\ CleanUp'
      BY <2>2, <1>a DEF RemoteTyped, CleanUp, Plugged, Clean
    <2>5. QED
      BY <2>3, <2>4 DEF CleanInv
  <1>4. QED
    BY <1>1, <1>2, <1>3, SessionStepKeepsClean DEF AdbThread

\* What the transport's threads do, and what happens to the client, keeps it.
LEMMA OthersKeepClean ==
    ASSUME CleanInv,
           \/ \E t \in Callers : ChannelFails(t) \/ TransportThread(t)
           \/ WatchdogElapses \/ ClientConnects \/ ClientExits \/ ShutDownServer \/ RetryPasses \/ CableMoves
    PROVE  CleanInv'
  <1>a. RemoteTyped /\ OwnerLast /\ CleanUp
    BY DEF CleanInv
  <1>1. ASSUME NEW t \in Callers, ReportLoss(t), NotifyChannelLoss(t)
        PROVE  CleanInv'
    <2>1. /\ RemoteTyped' /\ UNCHANGED <<serial, target, secrets, cable, remote>>
          /\ pc'[Adb] = pc[Adb] /\ pc'[Owner] = pc[Owner]
      BY <1>1, <1>a, StepNames, LossMoves
    <2>2. UNCHANGED <<loop, running>>
      BY <1>1 DEF ReportLoss
    <2>3. OwnerLast' /\ CleanUp'
      BY <2>1, <2>2, <1>a DEF OwnerLast, CleanUp, Plugged, Clean, cable, remote
    <2>4. QED
      BY <2>1, <2>3 DEF CleanInv
  <1>2. ASSUME NEW t \in Callers, ThreadCleanup(t)
        PROVE  CleanInv'
    <2>1. /\ RemoteTyped' /\ UNCHANGED <<serial, secrets, cable>>
          /\ pc'[Adb] = pc[Adb] /\ pc'[Owner] = pc[Owner] /\ target'[Owner] = target[Owner]
          /\ Plugged /\ client[device] = NoToken => client'[device] = NoToken
          /\ mapped' \subseteq mapped
      BY <1>2, <1>a, StepNames, CleanupMoves DEF ThreadCleanup
    <2>2. UNCHANGED <<loop, running>>
      BY <1>2 DEF ThreadCleanup
    <2>3. OwnerLast'
      BY <2>1, <2>2, <1>a DEF OwnerLast
    <2>4. CleanUp'
      BY <2>1, <1>a DEF CleanUp, Plugged, Clean, cable
    <2>5. QED
      BY <2>1, <2>3, <2>4 DEF CleanInv
  <1>3. CASE ClientExits
    <2>1. /\ UNCHANGED <<pc, target, drawn, used, device, replugs, mapped, serial, loop, running>>
          /\ device # NoDevice /\ client' = [client EXCEPT ![device] = NoToken]
      BY <1>3 DEF ClientExits, session, threads, secrets, cable
    <2>2. RemoteTyped' /\ client'[device] = NoToken
      BY <2>1, <1>a DEF RemoteTyped
    <2>3. OwnerLast' /\ CleanUp'
      BY <2>1, <2>2, <1>a DEF OwnerLast, CleanUp, Plugged, Clean
    <2>4. QED
      BY <2>2, <2>3 DEF CleanInv
  <1>4. CASE CableMoves
    <2>1. /\ UNCHANGED <<pc, target, drawn, used, client, serial, loop, running>>
          /\ replugs > 0 /\ replugs' = replugs - 1 /\ device' \in Devices \cup {NoDevice}
      BY <1>4 DEF CableMoves, Replug, session, threads, secrets
    <2>2. RemoteTyped' /\ replugs' # MaxReplugs
      BY <2>1, <1>a DEF RemoteTyped
    <2>3. OwnerLast' /\ CleanUp'
      BY <2>1, <2>2, <1>a DEF OwnerLast, CleanUp, Plugged
    <2>4. QED
      BY <2>2, <2>3 DEF CleanInv
  <1>5. CASE \/ \E t \in Callers : ChannelFails(t) \/ (ReportLoss(t) /\ UNCHANGED vars)
             \/ WatchdogElapses \/ ClientConnects \/ ShutDownServer \/ RetryPasses
    <2>1. /\ UNCHANGED <<pc, target, drawn, used, device, replugs, mapped, client, serial, loop>>
          /\ running' = running \/ running' = FALSE
      BY <1>5 DEF ChannelFails, ReportLoss, WatchdogElapses, ClientConnects, ShutDownServer, RetryPasses,
         RetryElapses, vars, session, threads, secrets, cable, remote
    <2>2. QED
      BY <2>1, <1>a DEF CleanInv, RemoteTyped, OwnerLast, CleanUp, Plugged, Clean
  <1>6. QED
    BY <1>1, <1>2, <1>3, <1>4, <1>5 DEF TransportThread, ReportLoss

\* The owner's steps keep it: it cleans up what is selected.
LEMMA OwnerKeepsClean == CleanInv /\ (StopSession \/ ThreadCleanup(Owner)) => CleanInv'
  <1> SUFFICES ASSUME CleanInv, StopSession \/ ThreadCleanup(Owner) PROVE CleanInv'
    OBVIOUS
  <1>a. RemoteTyped /\ OwnerLast /\ CleanUp
    BY DEF CleanInv
  <1>1. CASE StopSession /\ StopBegin
    <2>1. /\ UNCHANGED <<serial, target, secrets, cable, remote, loop, running>> /\ loop = "over"
          /\ pc[Owner] = "idle" /\ pc' = [pc EXCEPT ![Owner] = IF serial # NoDevice THEN "snap" ELSE "final"]
      BY <1>1 DEF StopSession, StopBegin, Goto
    <2>2. RemoteTyped' /\ pc'[Adb] = pc[Adb] /\ pc'[Owner] = (IF serial # NoDevice THEN "snap" ELSE "final")
      BY <2>1, <1>a, StepNames DEF RemoteTyped, secrets, cable, remote
    <2>3. OwnerLast' /\ CleanUp'
      BY <2>1, <2>2, <1>a DEF OwnerLast, CleanUp, Plugged, Clean, cable, remote
    <2>4. QED
      BY <2>2, <2>3 DEF CleanInv
  <1>2. CASE StopSession /\ StopEnd
    <2>1. /\ UNCHANGED <<target, secrets, cable, remote, loop, running>> /\ loop = "over" /\ serial' = NoDevice
          /\ pc[Owner] = "final" /\ pc' = [pc EXCEPT ![Owner] = "gone"]
      BY <1>2 DEF StopSession, StopEnd, Goto
    <2>2. RemoteTyped' /\ pc'[Adb] = pc[Adb] /\ pc'[Owner] = "gone"
      BY <2>1, <1>a, StepNames DEF RemoteTyped, secrets, cable, remote
    <2>3. OwnerLast' /\ CleanUp'
      BY <2>1, <2>2, <1>a DEF OwnerLast, CleanUp, Plugged, Clean, cable, remote
    <2>4. QED
      BY <2>2, <2>3 DEF CleanInv
  <1>3. CASE ThreadCleanup(Owner)
    <2>1. /\ RemoteTyped' /\ UNCHANGED <<serial, secrets, cable, loop, running>>
          /\ pc[Owner] \in {"snap", "kill", "unmap"} /\ pc'[Adb] = pc[Adb]
          /\ mapped' \subseteq mapped
      BY <1>3, <1>a, StepNames, CleanupMoves DEF ThreadCleanup
    <2>2. OwnerLast'
      BY <2>1, <1>a DEF OwnerLast
    <2>3. CleanUp'
      <3> SUFFICES ASSUME Plugged PROVE CleanUp'
        BY <2>1 DEF CleanUp, Plugged, cable
      <3>0. device \in Devices /\ device # NoDevice /\ device' = device
        BY <1>a, <2>1 DEF Plugged, RemoteTyped, cable
      <3>1. CASE CleanupSnapshot(Owner)
        <4>1. serial = device /\ target'[Owner] = device /\ pc'[Owner] = "kill"
          BY <3>0, <3>1, <1>a, StepNames DEF CleanupSnapshot, Goto, RemoteTyped, CleanUp
        <4>2. QED
          BY <4>1, <2>1, <1>a, <3>0 DEF CleanUp, OwnerLast
      <3>2. CASE CleanupKill(Owner)
        <4>1. /\ target[Owner] = device /\ client' = [client EXCEPT ![device] = NoToken]
              /\ pc' = [pc EXCEPT ![Owner] = "unmap"] /\ target' = target
          BY <3>2, <1>a DEF CleanupKill, Goto, CleanUp
        <4>2. target'[Owner] = device /\ client'[device] = NoToken /\ pc'[Owner] = "unmap"
          BY <4>1, <3>0, <1>a, StepNames DEF RemoteTyped
        <4>3. QED
          BY <4>2, <2>1, <1>a, <3>0 DEF CleanUp, OwnerLast
      <3>3. CASE CleanupUnmap(Owner)
        <4>1. /\ target[Owner] = device /\ client[device] = NoToken /\ client' = client
              /\ mapped' = mapped \ {device} /\ pc' = [pc EXCEPT ![Owner] = "final"]
          BY <3>3, <1>a DEF CleanupUnmap, Goto, CleanUp
        <4>2. Clean' /\ pc'[Owner] = "final"
          BY <4>1, <3>0, <1>a, StepNames DEF RemoteTyped, Clean
        <4>3. QED
          BY <4>2, <2>1, <1>a, <3>0 DEF CleanUp, OwnerLast
      <3>4. QED
        BY <1>3, <3>1, <3>2, <3>3 DEF ThreadCleanup, CleanupRemote
    <2>4. QED
      BY <2>1, <2>2, <2>3 DEF CleanInv
  <1>4. QED
    BY <1>1, <1>2, <1>3 DEF StopSession, Stop

\* Every step of the loop's program keeps it.
LEMMA LoopKeepsClean == CleanInv /\ Watched /\ [LoopNext]_loopVars => CleanInv'
  <1> SUFFICES ASSUME CleanInv, Watched, [LoopNext]_loopVars PROVE CleanInv'
    OBVIOUS
  <1>1. CASE UNCHANGED loopVars
    BY <1>1 DEF CleanInv, RemoteTyped, OwnerLast, CleanUp, Plugged, Clean, loopVars, vars, session, threads,
       secrets, cable, remote
  <1>2. QED
    BY <1>1, AdbKeepsClean, OthersKeepClean, OwnerKeepsClean DEF LoopNext

\* When the server has stopped the session, a tablet that was plugged in all the
\* time runs no client and has no mapping left: whichever command of the last
\* attempt failed, and whatever a late clean-up, the watchdog or the user did
\* meanwhile.
THEOREM StopSafety == LoopSpec => []StopLeavesDeviceClean
  <1>1. CleanInv => StopLeavesDeviceClean
    BY DEF CleanInv, CleanUp, Plugged, Clean, StopLeavesDeviceClean
  <1>2. LoopInit => Watched
    BY DEF LoopInit, Watched
  <1>3. QED
    BY CleanStarts, LoopKeepsClean, WatchKept, <1>1, <1>2, PTL DEF LoopSpec
=============================================================================
