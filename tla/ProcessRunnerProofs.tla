------------------------- MODULE ProcessRunnerProofs -------------------------
(***************************************************************************)
(* Proofs about one call of Win32ProcessRunner::Run, for any streams, any   *)
(* size of the pipes and any number of chunks and failing calls: handles    *)
(* are closed once and only when nobody works on them, success is the       *)
(* child's own, and no output is lost that the readers looked for.  Then,   *)
(* for arguments of any number, length and text: the child reads back what  *)
(* it is given.                                                             *)
(***************************************************************************)
EXTENDS ProcessRunner, FiniteSetTheorems, WellFoundedInduction, TLAPS

Before == {"pipes", "inherit", "create"}
During == {"wait", "woken", "reap", "finish", "join"}

\* Before there is a process there is no reader, no output and no verdict, and
\* what is open can be closed by name.
NothingBefore ==
    at \in Before =>
        /\ child = "none" /\ ~result.started /\ ~result.failed
        /\ \A s \in Streams : reader[s] = "none"

\* The read ends stay open while the readers may use them.
ReadersHaveHandles ==
    /\ at \in During => \A s \in Streams : ReadEnd(s) \in open
    /\ at = "returned" => open = {} /\ \A s \in Streams : reader[s] \notin {"look", "empty"}

\* Nobody kills the child without saying so, and the exit code is its own.
VerdictRight ==
    /\ child = "killed" => result.timed_out \/ result.cancelled \/ result.failed
    /\ at = "finish" => Ended
    /\ at \in {"join", "returned"} /\ ~result.failed => Ended /\ result.exit_code = ExitCode

\* What the child wrote has been taken or is in the pipe, and the latter is what
\* it wrote since the reader last looked.
OutputAccounted ==
    \A s \in Streams :
        /\ wrote[s] = got[s] + OfChild(pipe[s])
        /\ late[s] = OfChild(pipe[s])

\* TypeOK in two parts, as a step of one thread disturbs one of them.
VerdictTypes == result \in Result /\ finished \in BOOLEAN

OtherTypes ==
    /\ at \in {"pipes", "inherit", "create", "wait", "woken", "reap", "finish", "join", "returned"}
    /\ open \subseteq Handles
    /\ reader \in [Streams -> {"none", "look", "empty", "done", "broken"}]
    /\ got \in [Streams -> Nat] /\ late \in [Streams -> Nat]
    /\ child \in {"none", "running", "zero", "other", "killed"}
    /\ wrote \in [Streams -> 0 .. MaxChunks]
    /\ pipe \in [Streams -> Seq({"child", "helper"})]
    /\ helper \in {"none", "holds", "gone"}
    /\ wanted \subseteq {"stop", "timeout"}
    /\ faults \in 0 .. MaxFaults

\* The two parts make up TypeOK.
LEMMA TypesInParts == TypeOK <=> VerdictTypes /\ OtherTypes
BY DEF TypeOK, VerdictTypes, OtherTypes

\* What every step keeps.
RunInv == VerdictTypes /\ OtherTypes /\ NothingBefore /\ ReadersHaveHandles /\ VerdictRight /\ OutputAccounted
-----------------------------------------------------------------------------
\* No chunk of the child is in an empty pipe.
LEMMA EmptyPipe == OfChild(<<>>) = 0
<1>1. {i \in DOMAIN <<>> : <<>>[i] = "child"} = {}
    OBVIOUS
<1> QED
    BY <1>1, FS_EmptySet DEF OfChild

\* The chunks of the child in a pipe can be counted.
LEMMA CountIsNumber ==
    ASSUME NEW chunks \in Seq({"child", "helper"})
    PROVE  /\ IsFiniteSet({i \in DOMAIN chunks : chunks[i] = "child"})
           /\ OfChild(chunks) \in Nat
<1>1. IsFiniteSet(1 .. Len(chunks))
    BY FS_Interval
<1>2. {i \in DOMAIN chunks : chunks[i] = "child"} \in SUBSET (1 .. Len(chunks))
    OBVIOUS
<1>3. IsFiniteSet({i \in DOMAIN chunks : chunks[i] = "child"})
    BY <1>1, <1>2, FS_Subset
<1> QED
    BY <1>3, FS_CardinalityType DEF OfChild

\* A chunk that the child writes counts.
LEMMA ChildCounts ==
    ASSUME NEW chunks \in Seq({"child", "helper"})
    PROVE  OfChild(Append(chunks, "child")) = OfChild(chunks) + 1
<1> DEFINE of(p) == {i \in DOMAIN p : p[i] = "child"}
<1>1. of(Append(chunks, "child")) = of(chunks) \cup {Len(chunks) + 1}
    OBVIOUS
<1>2. Len(chunks) + 1 \notin of(chunks)
    OBVIOUS
<1>3. IsFiniteSet(of(chunks))
    BY CountIsNumber
<1>4. Cardinality(of(chunks) \cup {Len(chunks) + 1}) = Cardinality(of(chunks)) + 1
    BY <1>2, <1>3, FS_AddElement
<1> QED
    BY <1>1, <1>4 DEF OfChild

\* A chunk that its helper writes does not.
LEMMA HelperDoesNot ==
    ASSUME NEW chunks \in Seq({"child", "helper"})
    PROVE  OfChild(Append(chunks, "helper")) = OfChild(chunks)
<1> DEFINE of(p) == {i \in DOMAIN p : p[i] = "child"}
<1>1. of(Append(chunks, "helper")) = of(chunks)
    OBVIOUS
<1> QED
    BY <1>1 DEF OfChild
-----------------------------------------------------------------------------
\* The invariant holds when Run is called.
LEMMA RunStarts == Init => RunInv
<1> SUFFICES ASSUME Init PROVE RunInv
    OBVIOUS
<1> USE DEF Init
<1>1. VerdictTypes
    BY DEF VerdictTypes, Result
<1>2. OtherTypes
    BY RunnerAssumption DEF OtherTypes
<1>3. NothingBefore /\ ReadersHaveHandles /\ VerdictRight
    BY DEF NothingBefore, ReadersHaveHandles, VerdictRight, Before, During
<1>4. OutputAccounted
    BY EmptyPipe DEF OutputAccounted
<1> QED
    BY <1>1, <1>2, <1>3, <1>4 DEF RunInv

\* Every step of the calling thread keeps it.
LEMMA RunKeeps == RunInv /\ Run => RunInv'
<1> SUFFICES ASSUME RunInv, Run PROVE RunInv'
    OBVIOUS
<1> USE DEF RunInv
<1>1. VerdictTypes' /\ VerdictRight'
    <2> USE DEF VerdictTypes, VerdictRight, Result, Ended, ExitCode
    <2>1. CASE CreatePipes \/ PrepareInheritance \/ CreateChild
        BY <2>1 DEF CreatePipes, PrepareInheritance, CreateChild, GiveUp, NothingBefore, Before
    <2>2. CASE Wait
        BY <2>2 DEF Wait, Terminate
    <2>3. CASE Decide
        BY <2>3 DEF Decide, Terminate
    <2>4. CASE Reap \/ Join
        BY <2>4 DEF Reap, Join, readVars, childVars
    <2>5. CASE Finish
        BY <2>5 DEF Finish, childVars
    <2> QED
        BY <2>1, <2>2, <2>3, <2>4, <2>5 DEF Run
<1>2. OtherTypes'
    <2> USE RunnerAssumption DEF OtherTypes, Fault
    <2>1. CASE CreatePipes \/ PrepareInheritance \/ CreateChild
        <3> USE <2>1 DEF CreatePipes, PrepareInheritance, CreateChild, GiveUp
        <3>1. (open \subseteq Handles)'
            BY DEF CloseAll, Handles, Pipes
        <3>2. UNCHANGED <<got, late, wrote, pipe, helper, wanted>>
            OBVIOUS
        <3>3. (reader \in [Streams -> {"none", "look", "empty", "done", "broken"}])'
            OBVIOUS
        <3>4. (/\ at \in {"pipes", "inherit", "create", "wait", "woken", "reap", "finish", "join", "returned"}
               /\ child \in {"none", "running", "zero", "other", "killed"}
               /\ faults \in 0 .. MaxFaults)'
            OBVIOUS
        <3> QED
            BY <3>1, <3>2, <3>3, <3>4
    <2>2. CASE Wait \/ Decide
        <3>1. UNCHANGED <<open, readVars, late, wrote, pipe, helper, wanted>>
            BY <2>2 DEF Wait, Decide, Terminate
        <3>2. (/\ at \in {"pipes", "inherit", "create", "wait", "woken", "reap", "finish", "join", "returned"}
               /\ child \in {"none", "running", "zero", "other", "killed"}
               /\ faults \in 0 .. MaxFaults)'
            BY <2>2 DEF Wait, Decide, Terminate
        <3> QED
            BY <3>1, <3>2 DEF readVars
    <2>3. CASE Reap \/ Join \/ Finish
        BY <2>3 DEF Reap, Join, Finish, CloseAll, readVars, childVars
    <2> QED
        BY <2>1, <2>2, <2>3 DEF Run
<1>3. NothingBefore'
    BY DEF Run, CreatePipes, PrepareInheritance, CreateChild, GiveUp, Wait, Decide, Reap, Finish, Join,
           Terminate, NothingBefore, Before, OtherTypes, readVars, childVars
<1>4. ReadersHaveHandles'
    BY DEF Run, CreatePipes, PrepareInheritance, CreateChild, GiveUp, Wait, Decide, Reap, Finish, Join,
           Terminate, CloseAll, NothingBefore, ReadersHaveHandles, Before, During, ReadEnd, OtherTypes,
           Handles, readVars, childVars
<1>5. OutputAccounted'
    BY DEF Run, CreatePipes, PrepareInheritance, CreateChild, Wait, Decide, Reap, Finish, Join,
           OutputAccounted, readVars, childVars
<1> QED
    BY <1>1, <1>2, <1>3, <1>4, <1>5

\* Every step of a reader keeps it.
LEMMA ReadersKeep ==
    ASSUME RunInv, NEW s \in Streams, Read(s) \/ ReadFails(s)
    PROVE  RunInv'
<1>1. OfChild(pipe[s]) \in Nat
    BY CountIsNumber DEF RunInv, OtherTypes
<1>2. VerdictTypes' /\ VerdictRight' /\ NothingBefore'
    BY DEF RunInv, Read, Look, AfterEmpty, ReadFails, runVars, childVars, VerdictTypes, VerdictRight, Ended, ExitCode, NothingBefore, Before, OtherTypes
<1>3. UNCHANGED <<runVars, childVars, wanted>>
    BY DEF Read, Look, AfterEmpty, ReadFails
<1>4. PICK place \in {"look", "empty", "done", "broken"} : reader' = [reader EXCEPT ![s] = place]
    BY DEF Read, Look, AfterEmpty, ReadFails
<1>5. faults' \in 0 .. MaxFaults
    BY RunnerAssumption DEF RunInv, OtherTypes, Read, Look, AfterEmpty, ReadFails, Fault
<1>6. \/ UNCHANGED <<got, pipe, late>>
      \/ /\ got' = [got EXCEPT ![s] = @ + OfChild(pipe[s])]
         /\ pipe' = [pipe EXCEPT ![s] = <<>>]
         /\ late' = [late EXCEPT ![s] = 0]
    BY DEF Read, Look, AfterEmpty, ReadFails
<1>7. OtherTypes'
    <2>1. (reader \in [Streams -> {"none", "look", "empty", "done", "broken"}])'
        BY <1>4 DEF RunInv, OtherTypes
    <2>2. (/\ got \in [Streams -> Nat] /\ late \in [Streams -> Nat]
           /\ pipe \in [Streams -> Seq({"child", "helper"})])'
        <3>1. CASE UNCHANGED <<got, pipe, late>>
            BY <3>1 DEF RunInv, OtherTypes
        <3>2. CASE ~UNCHANGED <<got, pipe, late>>
            <4>1. <<>> \in Seq({"child", "helper"})
                OBVIOUS
            <4>2. (pipe \in [Streams -> Seq({"child", "helper"})])'
                <5>1. pipe' = [pipe EXCEPT ![s] = <<>>]
                    BY <1>6, <3>2
                <5>2. pipe \in [Streams -> Seq({"child", "helper"})]
                    BY DEF RunInv, OtherTypes
                <5> QED
                    BY <4>1, <5>1, <5>2
            <4>3. /\ got' = [got EXCEPT ![s] = got[s] + OfChild(pipe[s])]
                  /\ late' = [late EXCEPT ![s] = 0]
                BY <1>6, <3>2
            <4>4. got \in [Streams -> Nat] /\ late \in [Streams -> Nat]
                BY DEF RunInv, OtherTypes
            <4>5. got[s] + OfChild(pipe[s]) \in Nat
                BY <1>1, <4>4
            <4>6. got' \in [Streams -> Nat]
                BY <4>3, <4>4, <4>5
            <4>7. late' \in [Streams -> Nat]
                BY <4>3, <4>4
            <4> QED
                BY <4>2, <4>6, <4>7
        <3> QED
            BY <3>1, <3>2
    <2> QED
        BY <1>3, <1>5, <2>1, <2>2 DEF RunInv, OtherTypes, runVars, childVars
<1>8. ReadersHaveHandles'
    BY DEF RunInv, Read, Look, AfterEmpty, ReadFails, runVars, ReadersHaveHandles, OtherTypes
<1>9. OutputAccounted'
    <2>1. CASE UNCHANGED <<got, pipe, late>>
        BY <1>3, <2>1 DEF RunInv, OutputAccounted, childVars
    <2>2. CASE ~UNCHANGED <<got, pipe, late>>
        <3>1. \A other \in Streams \ {s} :
                  got'[other] = got[other] /\ pipe'[other] = pipe[other] /\ late'[other] = late[other]
            BY <1>6, <2>2 DEF RunInv, OtherTypes
        <3>2. got'[s] = got[s] + OfChild(pipe[s]) /\ pipe'[s] = <<>> /\ late'[s] = 0
            BY <1>6, <2>2 DEF RunInv, OtherTypes
        <3>3. wrote[s] = got[s] + OfChild(pipe[s]) /\ got'[s] \in Nat
            BY <1>1, <3>2 DEF RunInv, OtherTypes, OutputAccounted
        <3>4. wrote'[s] = got'[s] + OfChild(pipe'[s]) /\ late'[s] = OfChild(pipe'[s])
            BY <1>3, <3>2, <3>3, EmptyPipe DEF childVars
        <3> QED
            BY <1>3, <3>1, <3>4 DEF RunInv, OutputAccounted, childVars
    <2> QED
        BY <2>1, <2>2
<1> QED
    BY <1>2, <1>7, <1>8, <1>9 DEF RunInv

\* A step that is not the calling thread's leaves what that thread knows.
LEMMA VerdictStays ==
    ASSUME RunInv, UNCHANGED <<runVars, readVars>>, child' = child \/ ChildExits
    PROVE  VerdictTypes' /\ VerdictRight' /\ NothingBefore' /\ ReadersHaveHandles'
BY DEF RunInv, VerdictTypes, VerdictRight, NothingBefore, ReadersHaveHandles, Ended, ExitCode,
       ChildExits, runVars, readVars

\* Every step of the child, of its helper and of the caller keeps it.
LEMMA OutsideKeeps ==
    ASSUME RunInv, (\E s \in Streams : ChildWrites(s)) \/ ChildExits \/ Help \/ Caller
    PROVE  RunInv'
<1> USE DEF RunInv
<1>1. ASSUME NEW s \in Streams, ChildWrites(s) PROVE RunInv'
    <2>1. OfChild(pipe[s]) \in Nat /\ OfChild(pipe'[s]) = OfChild(pipe[s]) + 1
        BY <1>1, CountIsNumber, ChildCounts DEF ChildWrites, OtherTypes
    <2>2. OtherTypes'
        BY <1>1, RunnerAssumption DEF ChildWrites, OtherTypes, runVars, readVars
    <2>3. OutputAccounted'
        <3>1. /\ wrote' = [wrote EXCEPT ![s] = wrote[s] + 1] /\ late' = [late EXCEPT ![s] = late[s] + 1]
              /\ pipe' = [pipe EXCEPT ![s] = Append(pipe[s], "child")] /\ got' = got
            BY <1>1 DEF ChildWrites, readVars
        <3>2. ASSUME NEW u \in Streams
              PROVE  /\ wrote'[u] = got'[u] + OfChild(pipe'[u])
                     /\ late'[u] = OfChild(pipe'[u])
            <4>1. /\ wrote \in [Streams -> Nat] /\ late \in [Streams -> Nat] /\ got[u] \in Nat
                  /\ pipe \in [Streams -> Seq({"child", "helper"})]
                BY RunnerAssumption DEF OtherTypes
            <4>2. wrote[u] = got[u] + OfChild(pipe[u]) /\ late[u] = OfChild(pipe[u])
                BY DEF OutputAccounted
            <4>3. CASE u = s
                BY <2>1, <3>1, <4>1, <4>2, <4>3
            <4>4. CASE u # s
                BY <3>1, <4>1, <4>2, <4>4
            <4> QED
                BY <4>3, <4>4
        <3> QED
            BY <3>2 DEF OutputAccounted
    <2> QED
        BY <1>1, <2>2, <2>3, VerdictStays DEF ChildWrites
<1>2. CASE ChildExits
    <2>1. OtherTypes' /\ OutputAccounted'
        BY <1>2 DEF ChildExits, OtherTypes, OutputAccounted, runVars, readVars
    <2> QED
        BY <1>2, <2>1, VerdictStays DEF ChildExits
<1>3. CASE Help
    <2>1. \A s \in Streams : OfChild(pipe'[s]) = OfChild(pipe[s])
        BY <1>3, HelperDoesNot DEF Help, OtherTypes
    <2>2. (pipe \in [Streams -> Seq({"child", "helper"})] /\ helper \in {"none", "holds", "gone"})'
        <3>1. CASE UNCHANGED pipe
            BY <1>3, <3>1 DEF Help, OtherTypes
        <3>2. ASSUME NEW s \in Streams, pipe' = [pipe EXCEPT ![s] = Append(@, "helper")], helper' = "gone"
              PROVE  pipe' \in [Streams -> Seq({"child", "helper"})]
            BY <3>2 DEF OtherTypes
        <3> QED
            BY <1>3, <3>1, <3>2 DEF Help
    <2>3. UNCHANGED <<runVars, readVars, child, wrote, late, wanted, faults>>
        BY <1>3 DEF Help
    <2>5. OtherTypes'
        BY <2>2, <2>3 DEF OtherTypes, runVars, readVars
    <2>4. OutputAccounted'
        BY <2>1, <2>3 DEF OutputAccounted, readVars
    <2> QED
        BY <2>3, <2>4, <2>5, VerdictStays
<1>4. CASE Caller
    <2>1. OtherTypes' /\ OutputAccounted'
        BY <1>4 DEF Caller, StopRequested, TimeRunsOut, OtherTypes, OutputAccounted, runVars, readVars, childVars
    <2> QED
        BY <1>4, <2>1, VerdictStays DEF Caller, childVars
<1> QED
    BY <1>1, <1>2, <1>3, <1>4

\* Every step keeps it.
LEMMA StepKeeps == RunInv /\ [Next]_vars => RunInv'
<1> SUFFICES ASSUME RunInv, [Next]_vars PROVE RunInv'
    OBVIOUS
<1>1. CASE UNCHANGED vars
    <2>1. OtherTypes' /\ OutputAccounted'
        BY <1>1 DEF RunInv, OtherTypes, OutputAccounted, vars, runVars, readVars, childVars
    <2> QED
        BY <1>1, <2>1, VerdictStays DEF RunInv, vars, childVars
<1>2. CASE Next
    BY <1>2, RunKeeps, ReadersKeep, OutsideKeeps DEF Next
<1> QED
    BY <1>1, <1>2

\* So it holds always.
LEMMA RunInvariant == Spec => []RunInv
BY RunStarts, StepKeeps, PTL DEF Spec

\* Every variable of the call keeps its range.
THEOREM RunTyped == Spec => []TypeOK
<1>1. RunInv => TypeOK
    BY TypesInParts DEF RunInv
<1> QED
    BY RunInvariant, <1>1, PTL

\* Whichever call fails, no handle is leaked and no reader works on a closed one.
THEOREM HandlesSafety == Spec => []HandlesInOrder
<1>1. RunInv => HandlesInOrder
    BY DEF RunInv, ReadersHaveHandles, NothingBefore, OtherTypes, HandlesInOrder, Before, During
<1> QED
    BY RunInvariant, <1>1, PTL

\* Success is the child's, and only late output is lost.
THEOREM ResultSafety == Spec => []ResultRight
<1>1. RunInv => SuccessIsTheChilds
    BY DEF RunInv, VerdictRight, SuccessIsTheChilds, Succeeded, Ended, ExitCode, OtherTypes
<1>2. RunInv => OnlyLateIsLost
    BY DEF RunInv, OutputAccounted, OnlyLateIsLost, OtherTypes
<1>3. RunInv => ResultRight
    BY <1>1, <1>2 DEF ResultRight
<1> QED
    BY RunInvariant, <1>3, PTL
-----------------------------------------------------------------------------
(* Loops.  The library folds a sequence by a choice among functions on sets  *)
(* of positions; the lemmas give it back turn by turn.                       *)

\* A set of numbers that has 0, and with each number the next, has all of them.
LEMMA NumbersReached ==
    ASSUME NEW S, 0 \in S, \A n \in Nat : n \in S => n + 1 \in S
    PROVE  Nat \subseteq S
<1> DEFINE T == Nat \ S
<1>1. SUFFICES ASSUME T # {} PROVE FALSE
    OBVIOUS
<1>2. T \subseteq Nat
    OBVIOUS
<1> HIDE DEF T
<1>3. \E x \in T : \A y \in T : ~ (<<y, x>> \in OpToRel(<, Nat))
    BY <1>1, <1>2, WFMin, NatLessThanWellFounded, Zenon
<1>4. PICK x \in T : \A y \in T : ~ (<<y, x>> \in OpToRel(<, Nat))
    BY <1>3
<1>5. \A y \in T : ~ (y < x)
    BY <1>4, <1>2 DEF OpToRel
<1> QED
    BY <1>2, <1>5 DEF T

\* Numbers below a bound have a largest one.
LEMMA MaxOfNumbers ==
    ASSUME NEW n \in Nat, NEW s \in SUBSET (1..n), s # {}
    PROVE  Max(s) \in s /\ \A y \in s : y <= Max(s)
<1> DEFINE P == {m \in Nat : \A t \in SUBSET (1..m) : t # {} => \E x \in t : \A y \in t : y <= x}
<1>1. 0 \in P
    <2>1. 1..0 = {}
        OBVIOUS
    <2>2. \A t \in SUBSET (1..0) : t = {}
        BY <2>1
    <2> QED
        BY <2>2
<1>2. ASSUME NEW m \in Nat, m \in P PROVE m + 1 \in P
    <2> SUFFICES ASSUME NEW t \in SUBSET (1..(m + 1)), t # {}
                 PROVE  \E x \in t : \A y \in t : y <= x
        BY <1>2
    <2>1. CASE m + 1 \in t
        BY <2>1
    <2>2. CASE m + 1 \notin t
        <3>1. t \in SUBSET (1..m)
            BY <2>2
        <3> QED
            BY <3>1, <1>2
    <2> QED
        BY <2>1, <2>2
<1>3. n \in P
    <2> HIDE DEF P
    <2> QED
        BY <1>1, <1>2, NumbersReached
<1>4. \E x \in s : \A y \in s : y <= x
    BY <1>3
<1> QED
    BY <1>4 DEF Max

\* The first k numbers, as a fold meets them.
LEMMA FirstNumbers ==
    ASSUME NEW n \in Nat, NEW k \in 1..n
    PROVE  Max(1..k) = k /\ (1..k) \ {k} = 1..(k - 1) /\ 1..k \in SUBSET (1..n) /\ 1..k # {}
<1>1. k \in Nat /\ 1..k \in SUBSET (1..k) /\ 1..k # {} /\ k \in 1..k
    OBVIOUS
<1>2. Max(1..k) \in 1..k /\ k <= Max(1..k)
    BY <1>1, MaxOfNumbers
<1>3. Max(1..k) = k
    BY <1>2
<1> QED
    BY <1>1, <1>3

\* What the library's folds choose: for each set of positions of a sequence, the
\* result of the loop over those positions.  F is a turn of the loop.
Folds(iter, V, base, F, n) ==
    /\ iter \in [SUBSET (1..n) -> V]
    /\ \A s \in SUBSET (1..n) :
          iter[s] = IF s = {} THEN base ELSE F[<<iter[s \ {Max(s)}], Max(s)>>]

\* There is such a function, whatever the turns do.
LEMMA FoldExists ==
    ASSUME NEW V, NEW base \in V, NEW F, NEW N \in Nat,
           \A v \in V : \A k \in 1..N : F[<<v, k>>] \in V
    PROVE  \E iter : Folds(iter, V, base, F, N)
<1> DEFINE P == {n \in Nat : n <= N => \E iter : Folds(iter, V, base, F, n)}
<1>1. 0 \in P
    <2> DEFINE iter == [s \in SUBSET (1..0) |-> base]
    <2>1. Folds(iter, V, base, F, 0)
        BY DEF Folds
    <2> QED
        BY <2>1
<1>2. ASSUME NEW n \in Nat, n \in P PROVE n + 1 \in P
    <2> SUFFICES ASSUME n + 1 <= N PROVE \E iter : Folds(iter, V, base, F, n + 1)
        OBVIOUS
    <2>1. PICK old : Folds(old, V, base, F, n)
        BY <1>2
    <2> DEFINE new == [s \in SUBSET (1..(n + 1)) |->
                          IF n + 1 \in s THEN F[<<old[s \ {n + 1}], n + 1>>] ELSE old[s]]
    <2>2. ASSUME NEW s \in SUBSET (1..(n + 1))
          PROVE  /\ s \ {n + 1} \in SUBSET (1..n)
                 /\ new[s \ {n + 1}] = old[s \ {n + 1}]
                 /\ n + 1 \in s => Max(s) = n + 1
                 /\ n + 1 \notin s => s \in SUBSET (1..n)
        <3>1. s \ {n + 1} \in SUBSET (1..n)
            OBVIOUS
        <3>2. s \ {n + 1} \in SUBSET (1..(n + 1))
            OBVIOUS
        <3>3. n + 1 \in s => Max(s) = n + 1
            <4> SUFFICES ASSUME n + 1 \in s PROVE Max(s) = n + 1
                OBVIOUS
            <4>1. Max(s) \in s /\ n + 1 <= Max(s)
                BY MaxOfNumbers, n + 1 \in Nat
            <4> HIDE DEF new
            <4>2. Max(s) \in 1..(n + 1)
                BY <4>1
            <4> QED
                BY <4>1, <4>2
        <3>4. n + 1 \notin s => s \in SUBSET (1..n)
            OBVIOUS
        <3> QED
            BY <3>1, <3>2, <3>3, <3>4
    <2>3. new \in [SUBSET (1..(n + 1)) -> V]
        <3> SUFFICES ASSUME NEW s \in SUBSET (1..(n + 1)) PROVE new[s] \in V
            OBVIOUS
        <3> QED
            BY <2>1, <2>2 DEF Folds
    <2>4. ASSUME NEW s \in SUBSET (1..(n + 1))
          PROVE  new[s] = IF s = {} THEN base ELSE F[<<new[s \ {Max(s)}], Max(s)>>]
        <3>1. CASE n + 1 \in s
            BY <3>1, <2>2
        <3>2. CASE n + 1 \notin s
            <4>1. s \in SUBSET (1..n) /\ new[s] = old[s]
                BY <3>2, <2>2
            <4>2. CASE s = {}
                BY <4>1, <4>2, <2>1 DEF Folds
            <4>3. CASE s # {}
                <5>1. s \ {Max(s)} \in SUBSET (1..n)
                    BY <4>1
                <5>2. new[s \ {Max(s)}] = old[s \ {Max(s)}]
                    BY <5>1
                <5> QED
                    BY <4>1, <4>3, <5>2, <2>1 DEF Folds
            <4> QED
                BY <4>2, <4>3
        <3> QED
            BY <3>1, <3>2
    <2> HIDE DEF new
    <2>5. Folds(new, V, base, F, n + 1)
        BY <2>3, <2>4 DEF Folds
    <2> QED
        BY <2>5
<1>3. N \in P
    <2> HIDE DEF P
    <2> QED
        BY <1>1, <1>2, NumbersReached
<1> QED
    BY <1>3

\* The loop of QuoteWindowsArgument, turn by turn.
LEMMA QuoteStages ==
    ASSUME NEW seq \in Seq(Character), NEW V, NEW base \in V,
           \A v \in V : \A x \in Character : QuoteCharacter(v, x) \in V
    PROVE  \E g :
              /\ g[0] = base
              /\ \A k \in 1..Len(seq) : g[k] = QuoteCharacter(g[k - 1], seq[k])
              /\ FoldLeft(QuoteCharacter, base, seq) = g[Len(seq)]
<1> DEFINE D == DOMAIN seq
           n == Len(seq)
           F == [x \in V \X (1..n) |-> QuoteCharacter(x[1], seq[x[2]])]
           Iter(h) == h = [s \in SUBSET D |-> IF s = {} THEN base
                                   ELSE QuoteCharacter(h[s \ {Max(s)}], seq[Max(s)])]
           iter == CHOOSE h : Iter(h)
           g == [k \in 0..n |-> iter[1..k]]
<1>1. FoldLeft(QuoteCharacter, base, seq) = iter[D]
    BY Zenon DEF FoldLeft, MapThenFoldSet
<1>2. D = 1..n /\ n \in Nat /\ \A k \in 1..n : seq[k] \in Character
    OBVIOUS
<1>3. \E h : Folds(h, V, base, F, n)
    <2>1. \A v \in V : \A k \in 1..n : F[<<v, k>>] \in V
        BY <1>2
    <2> HIDE DEF F, n
    <2> QED
        BY <2>1, <1>2, FoldExists
<1>4. ASSUME NEW h, Folds(h, V, base, F, n) PROVE Iter(h)
    <2> SUFFICES ASSUME NEW s \in SUBSET D, s # {}
                 PROVE  h[s] = QuoteCharacter(h[s \ {Max(s)}], seq[Max(s)])
        BY <1>2, <1>4 DEF Folds
    <2>1. Max(s) \in 1..n
        BY <1>2, MaxOfNumbers
    <2> QED
        BY <2>1, <1>2, <1>4 DEF Folds
<1>5. Iter(iter)
    BY <1>3, <1>4
<1> HIDE DEF iter, n
<1>6. g[0] = base
    <2>1. 1..0 = {} /\ 0 \in 0..n
        BY <1>2
    <2> QED
        BY <2>1, <1>5, <1>2
<1>7. ASSUME NEW k \in 1..n PROVE g[k] = QuoteCharacter(g[k - 1], seq[k])
    <2>1. Max(1..k) = k /\ (1..k) \ {k} = 1..(k - 1) /\ 1..k \in SUBSET D /\ 1..k # {}
        BY <1>2, FirstNumbers
    <2>2. iter[1..k] = QuoteCharacter(iter[(1..k) \ {Max(1..k)}], seq[Max(1..k)])
        BY <1>5, <2>1
    <2>3. g[k] = iter[1..k] /\ g[k - 1] = iter[1..(k - 1)]
        BY <1>2
    <2> QED
        BY <2>1, <2>2, <2>3
<1>8. iter[D] = g[n]
    BY <1>2
<1> HIDE DEF g
<1> QED
    BY <1>1, <1>6, <1>7, <1>8 DEF n

\* The reading of a command line, character by character.
LEMMA ReadStages ==
    ASSUME NEW seq \in Seq(Character), NEW V, NEW base \in V,
           \A v \in V : \A x \in Character : ReadCharacter(v, x) \in V
    PROVE  \E g :
              /\ g[0] = base
              /\ \A k \in 1..Len(seq) : g[k] = ReadCharacter(g[k - 1], seq[k])
              /\ FoldLeft(ReadCharacter, base, seq) = g[Len(seq)]
<1> DEFINE D == DOMAIN seq
           n == Len(seq)
           F == [x \in V \X (1..n) |-> ReadCharacter(x[1], seq[x[2]])]
           Iter(h) == h = [s \in SUBSET D |-> IF s = {} THEN base
                                   ELSE ReadCharacter(h[s \ {Max(s)}], seq[Max(s)])]
           iter == CHOOSE h : Iter(h)
           g == [k \in 0..n |-> iter[1..k]]
<1>1. FoldLeft(ReadCharacter, base, seq) = iter[D]
    BY Zenon DEF FoldLeft, MapThenFoldSet
<1>2. D = 1..n /\ n \in Nat /\ \A k \in 1..n : seq[k] \in Character
    OBVIOUS
<1>3. \E h : Folds(h, V, base, F, n)
    <2>1. \A v \in V : \A k \in 1..n : F[<<v, k>>] \in V
        BY <1>2
    <2> HIDE DEF F, n
    <2> QED
        BY <2>1, <1>2, FoldExists
<1>4. ASSUME NEW h, Folds(h, V, base, F, n) PROVE Iter(h)
    <2> SUFFICES ASSUME NEW s \in SUBSET D, s # {}
                 PROVE  h[s] = ReadCharacter(h[s \ {Max(s)}], seq[Max(s)])
        BY <1>2, <1>4 DEF Folds
    <2>1. Max(s) \in 1..n
        BY <1>2, MaxOfNumbers
    <2> QED
        BY <2>1, <1>2, <1>4 DEF Folds
<1>5. Iter(iter)
    BY <1>3, <1>4
<1> HIDE DEF iter, n
<1>6. g[0] = base
    <2>1. 1..0 = {} /\ 0 \in 0..n
        BY <1>2
    <2> QED
        BY <2>1, <1>5, <1>2
<1>7. ASSUME NEW k \in 1..n PROVE g[k] = ReadCharacter(g[k - 1], seq[k])
    <2>1. Max(1..k) = k /\ (1..k) \ {k} = 1..(k - 1) /\ 1..k \in SUBSET D /\ 1..k # {}
        BY <1>2, FirstNumbers
    <2>2. iter[1..k] = ReadCharacter(iter[(1..k) \ {Max(1..k)}], seq[Max(1..k)])
        BY <1>5, <2>1
    <2>3. g[k] = iter[1..k] /\ g[k - 1] = iter[1..(k - 1)]
        BY <1>2
    <2> QED
        BY <2>1, <2>2, <2>3
<1>8. iter[D] = g[n]
    BY <1>2
<1> HIDE DEF g
<1> QED
    BY <1>1, <1>6, <1>7, <1>8 DEF n

\* The loop of BuildWindowsCommandLine, argument by argument.
LEMMA LineStages ==
    ASSUME NEW seq \in Seq(Seq(Character)), NEW V, NEW base \in V,
           \A v \in V : \A x \in Seq(Character) : AddArgument(v, x) \in V
    PROVE  \E g :
              /\ g[0] = base
              /\ \A k \in 1..Len(seq) : g[k] = AddArgument(g[k - 1], seq[k])
              /\ FoldLeft(AddArgument, base, seq) = g[Len(seq)]
<1> DEFINE D == DOMAIN seq
           n == Len(seq)
           F == [x \in V \X (1..n) |-> AddArgument(x[1], seq[x[2]])]
           Iter(h) == h = [s \in SUBSET D |-> IF s = {} THEN base
                                   ELSE AddArgument(h[s \ {Max(s)}], seq[Max(s)])]
           iter == CHOOSE h : Iter(h)
           g == [k \in 0..n |-> iter[1..k]]
<1>1. FoldLeft(AddArgument, base, seq) = iter[D]
    BY Zenon DEF FoldLeft, MapThenFoldSet
<1>2. D = 1..n /\ n \in Nat /\ \A k \in 1..n : seq[k] \in Seq(Character)
    OBVIOUS
<1>3. \E h : Folds(h, V, base, F, n)
    <2>1. \A v \in V : \A k \in 1..n : F[<<v, k>>] \in V
        BY <1>2
    <2> HIDE DEF F, n
    <2> QED
        BY <2>1, <1>2, FoldExists
<1>4. ASSUME NEW h, Folds(h, V, base, F, n) PROVE Iter(h)
    <2> SUFFICES ASSUME NEW s \in SUBSET D, s # {}
                 PROVE  h[s] = AddArgument(h[s \ {Max(s)}], seq[Max(s)])
        BY <1>2, <1>4 DEF Folds
    <2>1. Max(s) \in 1..n
        BY <1>2, MaxOfNumbers
    <2> QED
        BY <2>1, <1>2, <1>4 DEF Folds
<1>5. Iter(iter)
    BY <1>3, <1>4
<1> HIDE DEF iter, n
<1>6. g[0] = base
    <2>1. 1..0 = {} /\ 0 \in 0..n
        BY <1>2
    <2> QED
        BY <2>1, <1>5, <1>2
<1>7. ASSUME NEW k \in 1..n PROVE g[k] = AddArgument(g[k - 1], seq[k])
    <2>1. Max(1..k) = k /\ (1..k) \ {k} = 1..(k - 1) /\ 1..k \in SUBSET D /\ 1..k # {}
        BY <1>2, FirstNumbers
    <2>2. iter[1..k] = AddArgument(iter[(1..k) \ {Max(1..k)}], seq[Max(1..k)])
        BY <1>5, <2>1
    <2>3. g[k] = iter[1..k] /\ g[k - 1] = iter[1..(k - 1)]
        BY <1>2
    <2> QED
        BY <2>1, <2>2, <2>3
<1>8. iter[D] = g[n]
    BY <1>2
<1> HIDE DEF g
<1> QED
    BY <1>1, <1>6, <1>7, <1>8 DEF n


Readings == [now : Seq(Character), held : Nat, inside : BOOLEAN, started : BOOLEAN,
             done : Seq(Seq(Character))]

HavingRead(reading, text) == FoldLeft(ReadCharacter, reading, text)

\* A sequence is the first part of itself.
LEMMA Whole ==
    ASSUME NEW T, NEW s \in Seq(T)
    PROVE  SubSeq(s, 1, Len(s)) = s
OBVIOUS

\* Texts joined.
LEMMA Joined ==
    ASSUME NEW s \in Seq(Character), NEW t \in Seq(Character), NEW c \in Character
    PROVE  /\ s \o t \in Seq(Character) /\ Append(s, c) \in Seq(Character)
           /\ s \o Append(t, c) = Append(s \o t, c) /\ s \o <<c>> = Append(s, c)
           /\ s \o <<>> = s /\ <<>> \o s = s
OBVIOUS

\* Slashes are characters, and one more of them comes at the end.
LEMMA SlashesGrow ==
    ASSUME NEW n \in Nat
    PROVE  /\ Slashes(n) \in Seq(Character) /\ Len(Slashes(n)) = n
           /\ Slashes(0) = <<>>
           /\ Slashes(n + 1) = Append(Slashes(n), "slash")
<1>1. Slashes(n) \in Seq(Character) /\ Slashes(n + 1) \in Seq(Character)
    BY DEF Slashes, Character
<1>2. Len(Slashes(n)) = n /\ Len(Slashes(n + 1)) = n + 1
    BY DEF Slashes
<1>3. Slashes(n + 1) = Append(Slashes(n), "slash")
    <2>1. \A i \in 1..(n + 1) : Slashes(n + 1)[i] = Append(Slashes(n), "slash")[i]
        BY <1>1, <1>2 DEF Slashes
    <2> QED
        BY <1>1, <1>2, <2>1
<1>4. Slashes(0) = <<>>
    BY DEF Slashes
<1> QED
    BY <1>1, <1>2, <1>3, <1>4

Reader(now, held, inside, started, done) ==
    [now |-> now, held |-> held, inside |-> inside, started |-> started, done |-> done]

\* Slashes are counted.
LEMMA SlashRead ==
    ASSUME NEW now \in Seq(Character), NEW held \in Nat, NEW inside \in BOOLEAN,
           NEW started \in BOOLEAN, NEW done \in Seq(Seq(Character))
    PROVE  ReadCharacter(Reader(now, held, inside, started, done), "slash") =
               Reader(now, held + 1, inside, TRUE, done)
BY DEF Reader, ReadCharacter

\* After an odd number of slashes a quote is a character like others.
LEMMA EscapedQuoteRead ==
    ASSUME NEW now \in Seq(Character), NEW held \in Nat, NEW inside \in BOOLEAN,
           NEW started \in BOOLEAN, NEW done \in Seq(Seq(Character)),
           held % 2 = 1
    PROVE  ReadCharacter(Reader(now, held, inside, started, done), "quote") =
               Reader(Append(now \o Slashes(held \div 2), "quote"), 0, inside, started, done)
<1> DEFINE r == Reader(now, held, inside, started, done)
<1>1. r.held % 2 = 1 /\ ~ (r.held % 2 = 0)
    BY DEF Reader
<1>2. ReadCharacter(r, "quote") =
          [r EXCEPT !.now = Append(r.now \o Slashes(r.held \div 2), "quote"), !.held = 0]
    BY <1>1, Zenon DEF ReadCharacter
<1> QED
    BY <1>2 DEF Reader

\* After an even number it opens or closes a quoted part.
LEMMA QuoteRead ==
    ASSUME NEW now \in Seq(Character), NEW held \in Nat, NEW inside \in BOOLEAN,
           NEW started \in BOOLEAN, NEW done \in Seq(Seq(Character)),
           held % 2 = 0
    PROVE  ReadCharacter(Reader(now, held, inside, started, done), "quote") =
               Reader(now \o Slashes(held \div 2), 0, ~inside, TRUE, done)
<1> DEFINE r == Reader(now, held, inside, started, done)
<1>1. r.held % 2 = 0 /\ ~ (r.held % 2 = 1)
    BY DEF Reader
<1>2. ReadCharacter(r, "quote") =
          [r EXCEPT !.now = r.now \o Slashes(r.held \div 2), !.held = 0,
                    !.inside = ~@, !.started = TRUE]
    BY <1>1, Zenon DEF ReadCharacter
<1> QED
    BY <1>2 DEF Reader

\* Outside of quotes a space ends an argument.
LEMMA SpaceRead ==
    ASSUME NEW now \in Seq(Character), NEW held \in Nat, NEW inside \in BOOLEAN,
           NEW started \in BOOLEAN, NEW done \in Seq(Seq(Character)),
           ~inside
    PROVE  ReadCharacter(Reader(now, held, inside, started, done), "space") =
               Reader(<<>>, 0, FALSE, FALSE,
                      IF started THEN Append(done, now \o Slashes(held)) ELSE done)
BY DEF Reader, ReadCharacter, Between

\* Elsewhere a character is itself, and the slashes before it are slashes.
LEMMA OtherRead ==
    ASSUME NEW now \in Seq(Character), NEW held \in Nat, NEW inside \in BOOLEAN,
           NEW started \in BOOLEAN, NEW done \in Seq(Seq(Character)),
           NEW c \in {"a", "space"}, c = "space" => inside
    PROVE  ReadCharacter(Reader(now, held, inside, started, done), c) =
               Reader(Append(now \o Slashes(held), c), 0, inside, TRUE, done)
BY DEF Reader, ReadCharacter

\* A character read leaves the reader in a state it can be in.
LEMMA ReadCharacterTyped ==
    ASSUME NEW r \in Readings, NEW c \in Character
    PROVE  ReadCharacter(r, c) \in Readings
<1>1. PICK now \in Seq(Character), held \in Nat, inside \in BOOLEAN, started \in BOOLEAN,
           done \in Seq(Seq(Character)) : r = Reader(now, held, inside, started, done)
    BY DEF Reader, Readings
<1>2. held \div 2 \in Nat /\ (held % 2 = 0 \/ held % 2 = 1)
    OBVIOUS
<1>3. Slashes(held) \in Seq(Character) /\ Slashes(held \div 2) \in Seq(Character)
    BY <1>2, SlashesGrow
<1>4. now \o Slashes(held) \in Seq(Character) /\ now \o Slashes(held \div 2) \in Seq(Character)
    BY <1>3
<1>6. CASE c = "quote"
    <2>1. Append(now \o Slashes(held \div 2), "quote") \in Seq(Character) /\ (~inside) \in BOOLEAN
        BY <1>4 DEF Character
    <2>2. CASE held % 2 = 0
        <3>1. ReadCharacter(r, c) = Reader(now \o Slashes(held \div 2), 0, ~inside, TRUE, done)
            BY ZenonT(30), <1>1, <1>6, <2>2, QuoteRead
        <3>2. Reader(now \o Slashes(held \div 2), 0, ~inside, TRUE, done) \in Readings
            BY <1>4, <2>1 DEF Reader, Readings
        <3> QED
            BY <3>1, <3>2
    <2>3. CASE held % 2 = 1
        <3>1. ReadCharacter(r, c) =
                  Reader(Append(now \o Slashes(held \div 2), "quote"), 0, inside, started, done)
            BY <1>1, <1>6, <2>3, EscapedQuoteRead
        <3>2. Reader(Append(now \o Slashes(held \div 2), "quote"), 0, inside, started, done) \in Readings
            BY <2>1 DEF Reader, Readings
        <3> QED
            BY <3>1, <3>2
    <2> QED
        BY <1>2, <2>2, <2>3
<1>7. CASE c \in {"a", "space"}
    <2>1. /\ Append(now \o Slashes(held), c) \in Seq(Character)
          /\ Append(done, now \o Slashes(held)) \in Seq(Seq(Character))
          /\ <<>> \in Seq(Character)
        BY <1>4, <1>7
    <2>2. CASE c = "space" /\ ~inside
        <3>1. ReadCharacter(r, c) = Reader(<<>>, 0, FALSE, FALSE,
                  IF started THEN Append(done, now \o Slashes(held)) ELSE done)
            BY ZenonT(30), <1>1, <2>2, SpaceRead
        <3>2. Reader(<<>>, 0, FALSE, FALSE,
                  IF started THEN Append(done, now \o Slashes(held)) ELSE done) \in Readings
            BY <2>1 DEF Reader, Readings
        <3> QED
            BY <3>1, <3>2
    <2>3. CASE c = "space" => inside
        <3>1. ReadCharacter(r, c) = Reader(Append(now \o Slashes(held), c), 0, inside, TRUE, done)
            BY ZenonT(30), <1>1, <1>7, <2>3, OtherRead
        <3>2. Reader(Append(now \o Slashes(held), c), 0, inside, TRUE, done) \in Readings
            BY <2>1 DEF Reader, Readings
        <3> QED
            BY <3>1, <3>2
    <2> QED
        BY <2>2, <2>3
<1>8. CASE c = "slash"
    <2>1. ReadCharacter(r, c) = Reader(now, held + 1, inside, TRUE, done)
        BY <1>1, <1>8, SlashRead
    <2>2. Reader(now, held + 1, inside, TRUE, done) \in Readings
        BY DEF Reader, Readings
    <2> QED
        BY <2>1, <2>2
<1> QED
    BY <1>6, <1>7, <1>8 DEF Character

\* Reading nothing changes nothing.
LEMMA ReadNothing ==
    ASSUME NEW r \in Readings
    PROVE  HavingRead(r, <<>>) = r
<1>1. <<>> \in Seq(Character) /\ Len(<<>>) = 0
    OBVIOUS
<1>2. \A v \in Readings : \A c \in Character : ReadCharacter(v, c) \in Readings
    BY ReadCharacterTyped
<1>3. \E g : /\ g[0] = r
             /\ \A k \in 1..Len(<<>>) : g[k] = ReadCharacter(g[k - 1], <<>>[k])
             /\ FoldLeft(ReadCharacter, r, <<>>) = g[Len(<<>>)]
    BY ZenonT(30), <1>1, <1>2, ReadStages
<1> QED
    BY <1>1, <1>3 DEF HavingRead

\* A text is read character by character.  Its two parts are cited apart, as ReadTyped
\* and ReadOneMore: the first alone makes readings of readings.
LEMMA ReadTypedOneMore ==
    ASSUME NEW r \in Readings, NEW text \in Seq(Character), NEW c \in Character
    PROVE  /\ HavingRead(r, text) \in Readings
           /\ HavingRead(r, Append(text, c)) = ReadCharacter(HavingRead(r, text), c)
<1> DEFINE more == Append(text, c)
           n == Len(text)
<1>1. PICK g : /\ g[0] = r
               /\ \A k \in 1..Len(text) : g[k] = ReadCharacter(g[k - 1], text[k])
               /\ HavingRead(r, text) = g[Len(text)]
    BY ReadStages, ReadCharacterTyped DEF HavingRead
<1>2. more \in Seq(Character) /\ Len(more) = n + 1 /\ more[n + 1] = c /\ n \in Nat
      /\ \A k \in 1..n : more[k] = text[k]
    OBVIOUS
<1>3. PICK h : /\ h[0] = r
               /\ \A k \in 1..Len(more) : h[k] = ReadCharacter(h[k - 1], more[k])
               /\ HavingRead(r, more) = h[Len(more)]
    <2> HIDE DEF more
    <2> QED
        BY <1>2, ReadStages, ReadCharacterTyped DEF HavingRead
<1> HIDE DEF more
<1>4. \A k \in 0..n : g[k] = h[k] /\ g[k] \in Readings
    <2> DEFINE P == {k \in Nat : k <= n => g[k] = h[k] /\ g[k] \in Readings}
    <2>1. 0 \in P
        BY <1>1, <1>3
    <2>2. ASSUME NEW k \in Nat, k \in P PROVE k + 1 \in P
        <3> SUFFICES ASSUME k + 1 <= n PROVE g[k + 1] = h[k + 1] /\ g[k + 1] \in Readings
            OBVIOUS
        <3>1. k + 1 \in 1..Len(text) /\ k + 1 \in 1..Len(more) /\ (k + 1) - 1 = k
            BY <1>2
        <3>2. g[k] = h[k] /\ g[k] \in Readings
            BY <2>2
        <3>3. g[k + 1] = ReadCharacter(g[k], text[k + 1]) /\ h[k + 1] = ReadCharacter(h[k], more[k + 1])
            BY <1>1, <1>3, <3>1
        <3>4. more[k + 1] = text[k + 1] /\ text[k + 1] \in Character
            BY <1>2, <3>1
        <3> QED
            BY <3>2, <3>3, <3>4, ReadCharacterTyped
    <2> HIDE DEF P
    <2>3. Nat \subseteq P
        BY <2>1, <2>2, NumbersReached
    <2> QED
        BY <2>3, <1>2 DEF P
<1>5. HavingRead(r, more) = ReadCharacter(h[n], c)
    <2>1. n + 1 \in 1..Len(more) /\ (n + 1) - 1 = n
        BY <1>2
    <2> QED
        BY <2>1, <1>2, <1>3
<1>6. h[n] = HavingRead(r, text) /\ HavingRead(r, text) \in Readings
    BY <1>1, <1>2, <1>4
<1> QED
    BY <1>5, <1>6 DEF more

\* What has been read is a reading.
LEMMA ReadTyped ==
    ASSUME NEW r \in Readings, NEW text \in Seq(Character)
    PROVE  HavingRead(r, text) \in Readings
<1>1. "a" \in Character
    BY DEF Character
<1> QED
    BY <1>1, ReadTypedOneMore, Zenon

\* One character more.
LEMMA ReadOneMore ==
    ASSUME NEW r \in Readings, NEW text \in Seq(Character), NEW c \in Character
    PROVE  HavingRead(r, Append(text, c)) = ReadCharacter(HavingRead(r, text), c)
BY ReadTypedOneMore, Zenon

\* A text is read in two parts as in one.
LEMMA ReadInParts ==
    ASSUME NEW r \in Readings, NEW first \in Seq(Character), NEW second \in Seq(Character)
    PROVE  HavingRead(r, first \o second) = HavingRead(HavingRead(r, first), second)
<1> DEFINE P == {n \in Nat : \A t \in Seq(Character) :
                    Len(t) = n => HavingRead(r, first \o t) = HavingRead(HavingRead(r, first), t)}
<1>1. 0 \in P
    <2> SUFFICES ASSUME NEW t \in Seq(Character), Len(t) = 0
                 PROVE  HavingRead(r, first \o t) = HavingRead(HavingRead(r, first), t)
        OBVIOUS
    <2>1. t = <<>> /\ first \o t = first
        OBVIOUS
    <2> QED
        BY <2>1, ReadNothing, ReadTyped
<1>2. ASSUME NEW n \in Nat, n \in P PROVE n + 1 \in P
    <2> SUFFICES ASSUME NEW t \in Seq(Character), Len(t) = n + 1
                 PROVE  HavingRead(r, first \o t) = HavingRead(HavingRead(r, first), t)
        OBVIOUS
    <2> DEFINE s == SubSeq(t, 1, n)
               c == t[n + 1]
    <2>1. s \in Seq(Character) /\ Len(s) = n /\ c \in Character /\ t = Append(s, c)
        OBVIOUS
    <2> HIDE DEF s, c
    <2>2. first \o t = Append(first \o s, c) /\ first \o s \in Seq(Character)
        BY <2>1
    <2>3. HavingRead(r, first \o s) = HavingRead(HavingRead(r, first), s)
        BY <1>2, <2>1
    <2>4. HavingRead(r, Append(first \o s, c)) = ReadCharacter(HavingRead(r, first \o s), c)
        BY <2>1, <2>2, ReadOneMore
    <2>5. HavingRead(HavingRead(r, first), Append(s, c)) = ReadCharacter(HavingRead(HavingRead(r, first), s), c)
        <3>1. HavingRead(r, first) \in Readings
            BY ReadTyped
        <3> QED
            BY <2>1, <3>1, ReadOneMore
    <2> QED
        BY <2>1, <2>2, <2>3, <2>4, <2>5
<1> HIDE DEF P
<1>3. Len(second) \in P
    BY <1>1, <1>2, NumbersReached
<1> QED
    BY <1>3 DEF P

\* Slashes wait for what follows them.
LEMMA ReadSlashes ==
    ASSUME NEW now \in Seq(Character), NEW held \in Nat, NEW inside \in BOOLEAN,
           NEW done \in Seq(Seq(Character)), NEW n \in Nat
    PROVE  HavingRead(Reader(now, held, inside, TRUE, done), Slashes(n)) =
               Reader(now, held + n, inside, TRUE, done)
<1> DEFINE r == Reader(now, held, inside, TRUE, done)
           P == {k \in Nat : HavingRead(r, Slashes(k)) = Reader(now, held + k, inside, TRUE, done)}
<1>a. r \in Readings /\ "slash" \in Character
    BY DEF Reader, Readings, Character
<1>1. 0 \in P
    <2>1. HavingRead(r, Slashes(0)) = r
        BY <1>a, ReadNothing, SlashesGrow
    <2>2. r = Reader(now, held + 0, inside, TRUE, done)
        OBVIOUS
    <2> QED
        BY <2>1, <2>2
<1>2. ASSUME NEW k \in Nat, k \in P PROVE k + 1 \in P
    <2>1. Slashes(k) \in Seq(Character) /\ Slashes(k + 1) = Append(Slashes(k), "slash")
        BY SlashesGrow
    <2>3. HavingRead(r, Slashes(k)) = Reader(now, held + k, inside, TRUE, done)
        BY <1>2
    <2> HIDE DEF P, r
    <2>2. HavingRead(r, Slashes(k + 1)) = ReadCharacter(HavingRead(r, Slashes(k)), "slash")
        <3> DEFINE text == Slashes(k)
        <3>1. text \in Seq(Character)
            BY <2>1
        <3> HIDE DEF text
        <3>2. HavingRead(r, Append(text, "slash")) = ReadCharacter(HavingRead(r, text), "slash")
            BY <1>a, <3>1, ReadOneMore
        <3> QED
            BY <2>1, <3>2 DEF text
    <2>4. ReadCharacter(Reader(now, held + k, inside, TRUE, done), "slash") =
              Reader(now, (held + k) + 1, inside, TRUE, done)
        <3>1. held + k \in Nat
            OBVIOUS
        <3> QED
            BY <3>1, SlashRead
    <2>5. (held + k) + 1 = held + (k + 1)
        OBVIOUS
    <2>6. HavingRead(r, Slashes(k + 1)) = Reader(now, held + (k + 1), inside, TRUE, done)
        BY <2>2, <2>3, <2>4, <2>5
    <2>7. k + 1 \in Nat
        OBVIOUS
    <2> QED
        BY <2>6, <2>7, Zenon DEF P
<1> HIDE DEF P
<1>3. n \in P
    BY <1>1, <1>2, NumbersReached
<1> QED
    BY <1>3 DEF P


\* The same inside of quotes, when none has been held back.
LEMMA ReadSlashesInside ==
    ASSUME NEW now \in Seq(Character), NEW done \in Seq(Seq(Character)), NEW n \in Nat
    PROVE  HavingRead(Reader(now, 0, TRUE, TRUE, done), Slashes(n)) = Reader(now, n, TRUE, TRUE, done)
<1>1. 0 \in Nat /\ TRUE \in BOOLEAN /\ 0 + n = n
    OBVIOUS
<1>2. \A held \in Nat : HavingRead(Reader(now, held, TRUE, TRUE, done), Slashes(n)) =
                            Reader(now, held + n, TRUE, TRUE, done)
    BY <1>1, ReadSlashes, Zenon
<1>3. HavingRead(Reader(now, 0, TRUE, TRUE, done), Slashes(n)) = Reader(now, 0 + n, TRUE, TRUE, done)
    BY <1>1, <1>2, Zenon
<1> QED
    BY <1>1, <1>3, Zenon

-----------------------------------------------------------------------------
Texts == [out : Seq(Character), held : Nat]

\* A character quoted leaves a text.
LEMMA QuoteCharacterTyped ==
    ASSUME NEW t \in Texts, NEW c \in Character
    PROVE  QuoteCharacter(t, c) \in Texts
<1>1. t.held \in Nat /\ 2 * t.held + 1 \in Nat /\ t.out \in Seq(Character)
    BY DEF Texts
<1>2. Slashes(t.held) \in Seq(Character) /\ Slashes(2 * t.held + 1) \in Seq(Character)
    BY <1>1, SlashesGrow
<1>3. /\ t.out \o Slashes(2 * t.held + 1) \o <<c>> \in Seq(Character)
      /\ t.out \o Slashes(t.held) \o <<c>> \in Seq(Character)
    BY <1>1, <1>2
<1>4. CASE c = "slash"
    BY <1>1, <1>4 DEF QuoteCharacter, Texts
<1>5. CASE c = "quote"
    BY <1>3, <1>5 DEF QuoteCharacter, Texts
<1>6. CASE c \in {"a", "space"}
    BY <1>3, <1>6 DEF QuoteCharacter, Texts
<1> QED
    BY <1>4, <1>5, <1>6 DEF Character

\* The part of an argument that has been quoted, read from inside of the quotes, is
\* the argument so far, but for the slashes that are held back.
QuotedSoFar(text, argument, done) ==
    \E now \in Seq(Character) :
        /\ HavingRead(Reader(<<>>, 0, TRUE, TRUE, done), text.out) = Reader(now, 0, TRUE, TRUE, done)
        /\ now \o Slashes(text.held) = argument

\* One more character keeps that.
LEMMA QuoteCharacterRight ==
    ASSUME NEW t \in Texts, NEW c \in Character, NEW sofar \in Seq(Character),
           NEW done \in Seq(Seq(Character)), QuotedSoFar(t, sofar, done)
    PROVE  QuotedSoFar(QuoteCharacter(t, c), Append(sofar, c), done)
<1> DEFINE start == Reader(<<>>, 0, TRUE, TRUE, done)
           h == t.held
<1>1. PICK now \in Seq(Character) :
          /\ HavingRead(start, t.out) = Reader(now, 0, TRUE, TRUE, done)
          /\ now \o Slashes(h) = sofar
    BY DEF QuotedSoFar
<1>2. h \in Nat /\ t.out \in Seq(Character) /\ start \in Readings /\ 2 * h + 1 \in Nat
    BY DEF Texts, Reader, Readings
<1> HIDE DEF start, h
<1>3. /\ Slashes(h) \in Seq(Character) /\ Slashes(2 * h + 1) \in Seq(Character)
      /\ Slashes(h + 1) = Append(Slashes(h), "slash") /\ Slashes(0) = <<>>
    BY <1>2, SlashesGrow
<1>4. \A n \in Nat : /\ t.out \o Slashes(n) \in Seq(Character)
                     /\ HavingRead(start, t.out \o Slashes(n)) = Reader(now, n, TRUE, TRUE, done)
    <2> SUFFICES ASSUME NEW n \in Nat
                 PROVE  /\ t.out \o Slashes(n) \in Seq(Character)
                        /\ HavingRead(start, t.out \o Slashes(n)) = Reader(now, n, TRUE, TRUE, done)
        OBVIOUS
    <2>1. Slashes(n) \in Seq(Character)
        BY SlashesGrow
    <2>2. HavingRead(start, t.out \o Slashes(n)) = HavingRead(HavingRead(start, t.out), Slashes(n))
        BY <1>2, <2>1, ReadInParts
    <2>3. HavingRead(Reader(now, 0, TRUE, TRUE, done), Slashes(n)) = Reader(now, n, TRUE, TRUE, done)
        BY ReadSlashesInside, Zenon
    <2>4. t.out \o Slashes(n) \in Seq(Character)
        BY <1>2, <2>1
    <2> QED
        BY <1>1, <2>2, <2>3, <2>4
<1>5. \A n \in Nat : HavingRead(start, t.out \o Slashes(n) \o <<c>>) =
                         ReadCharacter(Reader(now, n, TRUE, TRUE, done), c)
    <2> SUFFICES ASSUME NEW n \in Nat
                 PROVE  HavingRead(start, t.out \o Slashes(n) \o <<c>>) =
                            ReadCharacter(Reader(now, n, TRUE, TRUE, done), c)
        OBVIOUS
    <2>1. t.out \o Slashes(n) \o <<c>> = Append(t.out \o Slashes(n), c)
        BY <1>4
    <2>2. HavingRead(start, Append(t.out \o Slashes(n), c)) =
              ReadCharacter(HavingRead(start, t.out \o Slashes(n)), c)
        <3> DEFINE text == t.out \o Slashes(n)
        <3>1. text \in Seq(Character)
            BY <1>4
        <3> HIDE DEF text
        <3>2. HavingRead(start, Append(text, c)) = ReadCharacter(HavingRead(start, text), c)
            BY <1>2, <3>1, ReadOneMore
        <3> QED
            BY <3>2 DEF text
    <2> QED
        BY <1>4, <2>1, <2>2
<1>6. CASE c = "slash"
    <2>1. QuoteCharacter(t, c).out = t.out /\ QuoteCharacter(t, c).held = h + 1
        BY <1>6 DEF QuoteCharacter, Texts, h
    <2>2. now \o Append(Slashes(h), "slash") = Append(now \o Slashes(h), "slash")
        BY SMTT(30), <1>3, Joined DEF Character
    <2> QED
        BY <1>1, <1>3, <1>6, <2>1, <2>2 DEF QuotedSoFar, start
<1>7. CASE c = "quote"
    <2>1. /\ QuoteCharacter(t, c).out = t.out \o Slashes(2 * h + 1) \o <<c>>
          /\ QuoteCharacter(t, c).held = 0
        BY <1>7 DEF QuoteCharacter, Texts, h
    <2>2. (2 * h + 1) % 2 = 1 /\ (2 * h + 1) \div 2 = h
        BY <1>2
    <2>3. ReadCharacter(Reader(now, 2 * h + 1, TRUE, TRUE, done), "quote") =
              Reader(Append(now \o Slashes((2 * h + 1) \div 2), "quote"), 0, TRUE, TRUE, done)
        BY <1>2, <2>2, EscapedQuoteRead
    <2>4. HavingRead(start, QuoteCharacter(t, c).out) = Reader(Append(sofar, c), 0, TRUE, TRUE, done)
        BY <1>1, <1>2, <1>5, <1>7, <2>1, <2>2, <2>3
    <2>5. Append(sofar, c) \o Slashes(0) = Append(sofar, c) /\ Append(sofar, c) \in Seq(Character)
        BY <1>3
    <2> QED
        BY <2>1, <2>4, <2>5 DEF QuotedSoFar, start
<1>8. CASE c \in {"a", "space"}
    <2>1. /\ QuoteCharacter(t, c).out = t.out \o Slashes(h) \o <<c>>
          /\ QuoteCharacter(t, c).held = 0
        BY <1>8 DEF QuoteCharacter, Texts, h
    <2>2. ReadCharacter(Reader(now, h, TRUE, TRUE, done), c) =
              Reader(Append(now \o Slashes(h), c), 0, TRUE, TRUE, done)
        BY <1>2, <1>8, OtherRead
    <2>3. HavingRead(start, QuoteCharacter(t, c).out) = Reader(Append(sofar, c), 0, TRUE, TRUE, done)
        BY <1>1, <1>2, <1>5, <2>1, <2>2
    <2>4. Append(sofar, c) \o Slashes(0) = Append(sofar, c) /\ Append(sofar, c) \in Seq(Character)
        BY <1>3
    <2> QED
        BY <2>1, <2>3, <2>4 DEF QuotedSoFar, start
<1> QED
    BY <1>6, <1>7, <1>8 DEF Character

\* The loop has quoted the whole argument.
LEMMA QuotedInFull ==
    ASSUME NEW argument \in Seq(Character), NEW done \in Seq(Seq(Character)),
           NEW text, text = FoldLeft(QuoteCharacter, [out |-> <<>>, held |-> 0], argument)
    PROVE  text \in Texts /\ QuotedSoFar(text, argument, done)
<1> DEFINE none == [out |-> <<>>, held |-> 0]
           n == Len(argument)
           Upto(k) == SubSeq(argument, 1, k)
<1>1. none \in Texts
    BY DEF Texts
<1>2. PICK g : /\ g[0] = none
               /\ \A k \in 1..Len(argument) : g[k] = QuoteCharacter(g[k - 1], argument[k])
               /\ FoldLeft(QuoteCharacter, none, argument) = g[Len(argument)]
    BY <1>1, QuoteStages, QuoteCharacterTyped
<1> DEFINE P == {k \in Nat : k <= n => g[k] \in Texts /\ QuotedSoFar(g[k], Upto(k), done)}
<1>3. 0 \in P
    <2> DEFINE start == Reader(<<>>, 0, TRUE, TRUE, done)
    <2>1. start \in Readings
        BY DEF Reader, Readings
    <2>2. HavingRead(start, <<>>) = start
        BY <2>1, ReadNothing
    <2>3. <<>> \o Slashes(0) = <<>> /\ Upto(0) = <<>> /\ <<>> \in Seq(Character)
        <3>1. Slashes(0) = <<>>
            BY SlashesGrow
        <3>2. Upto(0) = <<>>
            OBVIOUS
        <3> QED
            BY <3>1, <3>2
    <2>4. none.out = <<>> /\ none.held = 0
        OBVIOUS
    <2> HIDE DEF none, Upto
    <2>5. QuotedSoFar(g[0], Upto(0), done)
        BY <1>2, <2>2, <2>3, <2>4 DEF QuotedSoFar
    <2> QED
        BY <1>1, <1>2, <2>5
<1>4. ASSUME NEW k \in Nat, k \in P PROVE k + 1 \in P
    <2> SUFFICES ASSUME k + 1 <= n
                 PROVE  g[k + 1] \in Texts /\ QuotedSoFar(g[k + 1], Upto(k + 1), done)
        OBVIOUS
    <2>1. g[k] \in Texts /\ QuotedSoFar(g[k], Upto(k), done)
        BY <1>4
    <2>2. k + 1 \in 1..Len(argument) /\ (k + 1) - 1 = k
        OBVIOUS
    <2>3. /\ argument[k + 1] \in Character /\ Upto(k) \in Seq(Character)
          /\ Upto(k + 1) = Append(Upto(k), argument[k + 1])
        BY <2>2
    <2>4. g[k + 1] = QuoteCharacter(g[k], argument[k + 1])
        BY <1>2, <2>2
    <2> HIDE DEF Upto
    <2> QED
        BY <2>1, <2>3, <2>4, QuoteCharacterTyped, QuoteCharacterRight
<1> HIDE DEF P
<1>a. Nat \subseteq P
    BY <1>3, <1>4, NumbersReached
<1>5. n \in P /\ n \in Nat
    BY <1>a
<1>6. Upto(n) = argument
    BY Whole
<1>7. text = g[n]
    BY <1>2
<1>8. g[n] \in Texts /\ QuotedSoFar(g[n], Upto(n), done)
    BY <1>5 DEF P
<1> QED
    BY <1>6, <1>7, <1>8

\* Outside of quotes, what has been read is the argument so far.
PlainSoFar(reading, argument, done) ==
    \E now \in Seq(Character), held \in Nat, started \in BOOLEAN :
        /\ reading = Reader(now, held, FALSE, started, done)
        /\ now \o Slashes(held) = argument
        /\ argument # <<>> => started

\* When that is so.
LEMMA PlainNow ==
    ASSUME NEW now \in Seq(Character), NEW held \in Nat, NEW argument, NEW done,
           now \o Slashes(held) = argument
    PROVE  PlainSoFar(Reader(now, held, FALSE, TRUE, done), argument, done)
BY Zenon DEF PlainSoFar

\* One more character that needs no quotes keeps that.
LEMMA PlainCharacterRight ==
    ASSUME NEW c \in {"a", "slash"}, NEW sofar \in Seq(Character),
           NEW done \in Seq(Seq(Character)), NEW r, PlainSoFar(r, sofar, done)
    PROVE  PlainSoFar(ReadCharacter(r, c), Append(sofar, c), done)
<1>1. PICK now \in Seq(Character), held \in Nat, started \in BOOLEAN :
          /\ r = Reader(now, held, FALSE, started, done)
          /\ now \o Slashes(held) = sofar
    BY DEF PlainSoFar
<1>2. /\ Slashes(held) \in Seq(Character) /\ Slashes(held + 1) = Append(Slashes(held), "slash")
      /\ Slashes(0) = <<>> /\ held + 1 \in Nat /\ c \in Character
    <2>1. c \in Character
        BY DEF Character
    <2>2. held \in Nat /\ held + 1 \in Nat
        OBVIOUS
    <2>3. Slashes(held) \in Seq(Character) /\ Slashes(held + 1) = Append(Slashes(held), "slash")
        BY <2>2, SlashesGrow
    <2>4. Slashes(0) = <<>>
        BY SlashesGrow
    <2> QED
        BY <2>1, <2>2, <2>3, <2>4
<1>3. CASE c = "slash"
    <2>1. ReadCharacter(r, c) = Reader(now, held + 1, FALSE, TRUE, done)
        BY <1>1, <1>3, SlashRead
    <2>2. now \o Append(Slashes(held), c) = Append(now \o Slashes(held), c)
        BY <1>2, Joined
    <2>3. now \o Slashes(held + 1) = Append(sofar, c)
        BY <1>1, <1>2, <1>3, <2>2
    <2>4. PlainSoFar(Reader(now, held + 1, FALSE, TRUE, done), Append(sofar, c), done)
        BY <1>2, <2>3, PlainNow, Zenon
    <2> QED
        BY <2>1, <2>4, Zenon
<1>4. CASE c = "a"
    <2>1. ReadCharacter(r, c) = Reader(Append(now \o Slashes(held), c), 0, FALSE, TRUE, done)
        <3>1. "a" \in {"a", "space"} /\ "a" # "space" /\ FALSE \in BOOLEAN
            OBVIOUS
        <3> DEFINE inside == FALSE
        <3>2. inside \in BOOLEAN
            OBVIOUS
        <3> HIDE DEF inside
        <3>3. ReadCharacter(Reader(now, held, inside, started, done), "a") =
                  Reader(Append(now \o Slashes(held), "a"), 0, inside, TRUE, done)
            BY ZenonT(30), <3>1, <3>2, OtherRead
        <3> QED
            BY <1>1, <1>4, <3>3, Zenon DEF inside
    <2>2. Append(sofar, c) \o Slashes(0) = Append(sofar, c) /\ Append(sofar, c) \in Seq(Character)
        BY <1>2, Joined
    <2>3. Append(now \o Slashes(held), c) = Append(sofar, c) /\ 0 \in Nat
        BY <1>1
    <2> QED
        BY <2>1, <2>2, <2>3, PlainNow, Zenon
<1> QED
    BY <1>3, <1>4

\* An argument that needs no quotes is read as it is.
LEMMA PlainRead ==
    ASSUME NEW argument \in Seq(Character), NEW done \in Seq(Seq(Character)),
           ~NeedsQuotes(argument)
    PROVE  PlainSoFar(HavingRead(Between(done), argument), argument, done)
<1> DEFINE n == Len(argument)
           Upto(k) == SubSeq(argument, 1, k)
           P == {k \in Nat : k <= n => PlainSoFar(HavingRead(Between(done), Upto(k)), Upto(k), done)}
<1>1. Between(done) = Reader(<<>>, 0, FALSE, FALSE, done) /\ Between(done) \in Readings
    BY DEF Between, Reader, Readings
<1>2. 0 \in P
    <2>1. Upto(0) = <<>> /\ <<>> \o Slashes(0) = <<>> /\ <<>> \in Seq(Character)
        BY SlashesGrow
    <2>2. HavingRead(Between(done), <<>>) = Between(done)
        BY <1>1, ReadNothing
    <2> HIDE DEF Upto
    <2>3. PlainSoFar(HavingRead(Between(done), Upto(0)), Upto(0), done)
        BY <1>1, <2>1, <2>2 DEF PlainSoFar
    <2> QED
        BY <2>3
<1>3. ASSUME NEW k \in Nat, k \in P PROVE k + 1 \in P
    <2> SUFFICES ASSUME k + 1 <= n
                 PROVE  PlainSoFar(HavingRead(Between(done), Upto(k + 1)), Upto(k + 1), done)
        OBVIOUS
    <2> DEFINE c == argument[k + 1]
    <2>1. k + 1 \in DOMAIN argument /\ c \in Character
        OBVIOUS
    <2>2. c \in {"a", "slash"}
        BY <2>1 DEF NeedsQuotes, Character
    <2>3. Upto(k) \in Seq(Character) /\ Upto(k + 1) = Append(Upto(k), c)
        OBVIOUS
    <2>4. PlainSoFar(HavingRead(Between(done), Upto(k)), Upto(k), done)
        BY <1>3
    <2> HIDE DEF Upto, c
    <2> HIDE DEF P
    <2>5. HavingRead(Between(done), Upto(k + 1)) = ReadCharacter(HavingRead(Between(done), Upto(k)), c)
        <3> DEFINE text == Upto(k)
        <3>1. text \in Seq(Character)
            BY <2>3
        <3> HIDE DEF text
        <3>2. HavingRead(Between(done), Append(text, c)) = ReadCharacter(HavingRead(Between(done), text), c)
            BY <1>1, <2>1, <3>1, ReadOneMore
        <3> QED
            BY <2>3, <3>2 DEF text
    <2>6. PlainSoFar(ReadCharacter(HavingRead(Between(done), Upto(k)), c), Append(Upto(k), c), done)
        BY <2>2, <2>3, <2>4, PlainCharacterRight
    <2> QED
        BY <2>3, <2>5, <2>6, Zenon
<1> HIDE DEF P
<1>a. Nat \subseteq P
    BY <1>2, <1>3, NumbersReached
<1>4. n \in P /\ n \in Nat
    BY <1>a
<1>5. Upto(n) = argument
    BY Whole
<1>6. PlainSoFar(HavingRead(Between(done), Upto(n)), Upto(n), done)
    BY <1>4 DEF P
<1> QED
    BY <1>5, <1>6

\* One argument and the space behind it: the reader has one argument more.
LEMMA OneArgumentRead ==
    ASSUME NEW argument \in Seq(Character), NEW done \in Seq(Seq(Character))
    PROVE  /\ Quoted(argument) \in Seq(Character)
           /\ HavingRead(Between(done), Append(Quoted(argument), "space")) = Between(Append(done, argument))
<1>1. /\ {"space", "quote"} \subseteq Character
      /\ Between(done) = Reader(<<>>, 0, FALSE, FALSE, done) /\ Between(done) \in Readings
      /\ \A d : Between(d) = Reader(<<>>, 0, FALSE, FALSE, d)
    BY DEF Between, Reader, Readings, Character
<1>2. CASE ~NeedsQuotes(argument)
    <2>1. Quoted(argument) = argument
        BY <1>2 DEF Quoted
    <2>2. PICK now \in Seq(Character), held \in Nat :
              /\ HavingRead(Between(done), argument) = Reader(now, held, FALSE, TRUE, done)
              /\ now \o Slashes(held) = argument
        <3>1. argument # <<>>
            BY <1>2 DEF NeedsQuotes
        <3>2. PICK now \in Seq(Character), held \in Nat, started \in BOOLEAN :
                  /\ HavingRead(Between(done), argument) = Reader(now, held, FALSE, started, done)
                  /\ now \o Slashes(held) = argument
                  /\ argument # <<>> => started
            BY <1>2, PlainRead DEF PlainSoFar
        <3>3. started = TRUE
            BY <3>1, <3>2
        <3> QED
            BY <3>2, <3>3, Zenon
    <2>3. ReadCharacter(Reader(now, held, FALSE, TRUE, done), "space") =
              Reader(<<>>, 0, FALSE, FALSE, Append(done, argument))
        BY <2>2, SpaceRead
    <2>4. HavingRead(Between(done), Append(argument, "space")) =
              ReadCharacter(HavingRead(Between(done), argument), "space")
        BY <1>1, ReadOneMore
    <2> QED
        BY <1>1, <2>1, <2>2, <2>3, <2>4
<1>3. CASE NeedsQuotes(argument)
    <2> DEFINE text == FoldLeft(QuoteCharacter, [out |-> <<>>, held |-> 0], argument)
               h == text.held
    <2>1. text \in Texts /\ QuotedSoFar(text, argument, done)
        BY QuotedInFull
    <2>2. Quoted(argument) = <<"quote">> \o text.out \o Slashes(2 * h) \o <<"quote">>
        BY <1>3 DEF Quoted
    <2> HIDE DEF text
    <2>3. h \in Nat /\ text.out \in Seq(Character) /\ 2 * h \in Nat
        BY <2>1 DEF Texts
    <2>4. Slashes(2 * h) \in Seq(Character) /\ Slashes(0) = <<>> /\ Slashes(h) \in Seq(Character)
        BY <2>3, SlashesGrow
    <2>5. PICK now \in Seq(Character) :
              /\ HavingRead(Reader(<<>>, 0, TRUE, TRUE, done), text.out) = Reader(now, 0, TRUE, TRUE, done)
              /\ now \o Slashes(h) = argument
        BY <2>1 DEF QuotedSoFar
    <2>6. HavingRead(Between(done), <<"quote">>) = Reader(<<>>, 0, TRUE, TRUE, done)
        <3>1. <<"quote">> = Append(<<>>, "quote") /\ <<>> \in Seq(Character)
            OBVIOUS
        <3>2. HavingRead(Between(done), Append(<<>>, "quote")) = ReadCharacter(HavingRead(Between(done), <<>>), "quote")
            BY <1>1, <3>1, ReadOneMore
        <3>3. HavingRead(Between(done), <<>>) = Reader(<<>>, 0, FALSE, FALSE, done)
            BY <1>1, ReadNothing
        <3>4. 0 \in Nat /\ 0 % 2 = 0 /\ 0 \div 2 = 0
            OBVIOUS
        <3>5. ReadCharacter(Reader(<<>>, 0, FALSE, FALSE, done), "quote") =
                  Reader(<<>> \o Slashes(0 \div 2), 0, ~FALSE, TRUE, done)
            BY <3>1, <3>4, QuoteRead
        <3>6. <<>> \o Slashes(0 \div 2) = <<>>
            BY <2>4, <3>4
        <3> QED
            BY <3>1, <3>2, <3>3, <3>5, <3>6
    <2> DEFINE opened == <<"quote">> \o text.out
               waiting == opened \o Slashes(2 * h)
    <2>7. opened \in Seq(Character) /\ waiting \in Seq(Character) /\ <<"quote">> \in Seq(Character)
        BY <1>1, <2>3, <2>4
    <2>8. HavingRead(Between(done), opened) = Reader(now, 0, TRUE, TRUE, done)
        <3>1. HavingRead(Between(done), opened) = HavingRead(HavingRead(Between(done), <<"quote">>), text.out)
            BY <1>1, <2>3, <2>7, ReadInParts
        <3> QED
            BY <2>5, <2>6, <3>1
    <2> HIDE DEF opened
    <2>9. HavingRead(Between(done), waiting) = Reader(now, 2 * h, TRUE, TRUE, done)
        <3>1. HavingRead(Between(done), waiting) = HavingRead(HavingRead(Between(done), opened), Slashes(2 * h))
            BY <1>1, <2>4, <2>7, ReadInParts
        <3>2. HavingRead(Reader(now, 0, TRUE, TRUE, done), Slashes(2 * h)) =
                  Reader(now, 2 * h, TRUE, TRUE, done)
            BY <2>3, ReadSlashesInside, Zenon
        <3> QED
            BY <2>8, <3>1, <3>2
    <2> HIDE DEF waiting
    <2>10. Quoted(argument) = Append(waiting, "quote") /\ Quoted(argument) \in Seq(Character)
        <3>1. Quoted(argument) = waiting \o <<"quote">>
            BY <2>2 DEF waiting, opened
        <3> QED
            BY <1>1, <2>7, <3>1, Joined
    <2>11. HavingRead(Between(done), Quoted(argument)) = Reader(argument, 0, FALSE, TRUE, done)
        <3>0. HavingRead(Between(done), Append(waiting, "quote")) =
                  ReadCharacter(HavingRead(Between(done), waiting), "quote")
            BY <1>1, <2>7, ReadOneMore
        <3>1. HavingRead(Between(done), Quoted(argument)) =
                  ReadCharacter(Reader(now, 2 * h, TRUE, TRUE, done), "quote")
            BY <2>9, <2>10, <3>0
        <3>2. (2 * h) % 2 = 0 /\ (2 * h) \div 2 = h
            BY <2>3
        <3>3. ReadCharacter(Reader(now, 2 * h, TRUE, TRUE, done), "quote") =
                  Reader(now \o Slashes((2 * h) \div 2), 0, ~TRUE, TRUE, done)
            BY <2>3, <3>2, QuoteRead
        <3> QED
            BY <2>5, <3>1, <3>2, <3>3
    <2>12. HavingRead(Between(done), Append(Quoted(argument), "space")) =
               ReadCharacter(Reader(argument, 0, FALSE, TRUE, done), "space")
        <3>1. HavingRead(Between(done), Append(Quoted(argument), "space")) =
                  ReadCharacter(HavingRead(Between(done), Quoted(argument)), "space")
            BY <1>1, <2>10, ReadOneMore
        <3> QED
            BY <2>11, <3>1
    <2>13. ReadCharacter(Reader(argument, 0, FALSE, TRUE, done), "space") =
               Reader(<<>>, 0, FALSE, FALSE, Append(done, argument \o Slashes(0)))
        BY SpaceRead
    <2>14. argument \o Slashes(0) = argument
        BY <2>4
    <2> QED
        BY <1>1, <2>10, <2>12, <2>13, <2>14
<1> QED
    BY <1>2, <1>3

\* A child reads back the arguments it is given, however many they are and whatever
\* is in them.
THEOREM EveryCommandLine ==
    ASSUME NEW arguments \in Seq(Seq(Character))
    PROVE  ArgumentsIn(CommandLineOf(arguments)) = arguments
<1> DEFINE n == Len(arguments)
           Upto(k) == SubSeq(arguments, 1, k)
<1>1. \A line \in Seq(Character) : \A a \in Seq(Character) :
          /\ Quoted(a) \in Seq(Character)
          /\ AddArgument(line, a) \in Seq(Character)
    <2> SUFFICES ASSUME NEW line \in Seq(Character), NEW a \in Seq(Character)
                 PROVE  /\ Quoted(a) \in Seq(Character)
                        /\ AddArgument(line, a) \in Seq(Character)
        OBVIOUS
    <2>1. Quoted(a) \in Seq(Character) /\ "space" \in Character
        BY OneArgumentRead, <<>> \in Seq(Seq(Character)) DEF Character
    <2> QED
        BY <2>1 DEF AddArgument
<1>2. PICK g : /\ g[0] = <<>>
               /\ \A k \in 1..Len(arguments) : g[k] = AddArgument(g[k - 1], arguments[k])
               /\ CommandLineOf(arguments) = g[Len(arguments)]
    BY <1>1, <<>> \in Seq(Character), LineStages DEF CommandLineOf
<1> DEFINE P == {k \in Nat : k <= n =>
                    /\ g[k] \in Seq(Character)
                    /\ HavingRead(Between(<<>>), Append(g[k], "space")) = Between(Upto(k))}
<1>3. /\ \A d \in Seq(Seq(Character)) : /\ Between(d) = Reader(<<>>, 0, FALSE, FALSE, d)
                                        /\ Between(d) \in Readings
      /\ <<>> \in Seq(Character) /\ <<>> \in Seq(Seq(Character)) /\ "space" \in Character
    BY DEF Between, Reader, Readings, Character
<1>4. HavingRead(Between(<<>>), Append(<<>>, "space")) = Between(<<>>)
    <2>1. HavingRead(Between(<<>>), Append(<<>>, "space")) =
              ReadCharacter(HavingRead(Between(<<>>), <<>>), "space")
        BY <1>3, ReadOneMore
    <2>2. HavingRead(Between(<<>>), <<>>) = Reader(<<>>, 0, FALSE, FALSE, <<>>)
        BY <1>3, ReadNothing
    <2>3. ReadCharacter(Reader(<<>>, 0, FALSE, FALSE, <<>>), "space") =
              Reader(<<>>, 0, FALSE, FALSE, IF FALSE THEN Append(<<>>, <<>> \o Slashes(0)) ELSE <<>>)
        BY <1>3, SpaceRead
    <2> QED
        BY <1>3, <2>1, <2>2, <2>3
<1>5. 0 \in P
    <2>1. Upto(0) = <<>>
        OBVIOUS
    <2> HIDE DEF Upto
    <2> QED
        BY <1>2, <1>3, <1>4, <2>1
<1>6. ASSUME NEW k \in Nat, k \in P PROVE k + 1 \in P
    <2> SUFFICES ASSUME k + 1 <= n
                 PROVE  /\ g[k + 1] \in Seq(Character)
                        /\ HavingRead(Between(<<>>), Append(g[k + 1], "space")) = Between(Upto(k + 1))
        OBVIOUS
    <2> DEFINE a == arguments[k + 1]
               line == g[k]
    <2>1. /\ line \in Seq(Character)
          /\ HavingRead(Between(<<>>), Append(line, "space")) = Between(Upto(k))
        BY <1>6
    <2>2. /\ k + 1 \in 1..Len(arguments) /\ (k + 1) - 1 = k /\ a \in Seq(Character)
          /\ Upto(k) \in Seq(Seq(Character)) /\ Upto(k + 1) = Append(Upto(k), a)
        OBVIOUS
    <2>3. g[k + 1] = AddArgument(line, a)
        BY <1>2, <2>2
    <2> HIDE DEF Upto, a, line
    <2>4. Quoted(a) \in Seq(Character) /\ g[k + 1] \in Seq(Character)
        BY <1>1, <2>1, <2>2, <2>3
    <2>5. /\ Append(Quoted(a), "space") \in Seq(Character)
          /\ HavingRead(Between(Upto(k)), Append(Quoted(a), "space")) = Between(Append(Upto(k), a))
        BY <1>3, <2>2, <2>4, OneArgumentRead
    <2>6. CASE line = <<>>
        <3>0. <<>> \o Quoted(a) = Quoted(a)
            BY <2>4
        <3>1. g[k + 1] = Quoted(a)
            BY <2>3, <2>6, <3>0 DEF AddArgument
        <3>2. Between(Upto(k)) = Between(<<>>)
            BY <1>4, <2>1, <2>6
        <3> QED
            BY <2>2, <2>4, <2>5, <3>1, <3>2
    <2>7. CASE line # <<>>
        <3> DEFINE before == Append(line, "space")
        <3>1. before \in Seq(Character) /\ g[k + 1] = before \o Quoted(a)
            BY <1>3, <2>1, <2>3, <2>7 DEF AddArgument
        <3> HIDE DEF before
        <3>2. before \o Append(Quoted(a), "space") = Append(before \o Quoted(a), "space")
            BY <1>3, <2>4, <3>1, Joined
        <3>3. HavingRead(Between(<<>>), before \o Append(Quoted(a), "space")) =
                  HavingRead(HavingRead(Between(<<>>), before), Append(Quoted(a), "space"))
            BY <1>3, <2>5, <3>1, ReadInParts
        <3>4. HavingRead(Between(<<>>), before) = Between(Upto(k))
            BY <2>1 DEF before
        <3> QED
            BY <2>2, <2>4, <2>5, <3>1, <3>2, <3>3, <3>4
    <2> QED
        BY <2>6, <2>7
<1> HIDE DEF P
<1>a. Nat \subseteq P
    BY <1>5, <1>6, NumbersReached
<1>7. n \in P /\ n \in Nat
    BY <1>a
<1>8. HavingRead(Between(<<>>), Append(g[n], "space")) = Between(Upto(n))
    BY <1>7 DEF P
<1>9. Upto(n) = arguments
    BY Whole
<1>10. ArgumentsIn(CommandLineOf(arguments)) = Between(arguments).done
    BY <1>2, <1>8, <1>9 DEF ArgumentsIn, HavingRead
<1> QED
    BY <1>10 DEF Between

\* What is enumerated are argument texts.
LEMMA SomeArgumentsAreTexts == SomeArguments \subseteq Seq(Character)
BY DEF SomeArguments, BoundedSeq, SeqOf

\* Whatever the caller passes, and whenever it does, the child is given it.
THEOREM QuotingSafety == Spec => []QuotingRoundTrips
<1>1. RoundTrips
    <2> SUFFICES ASSUME NEW a \in SomeArguments, NEW b \in SomeArguments
                 PROVE  ArgumentsIn(CommandLineOf(<<<<"a">>, a, b>>)) = <<<<"a">>, a, b>>
        BY DEF RoundTrips
    <2>1. a \in Seq(Character) /\ b \in Seq(Character) /\ <<"a">> \in Seq(Character)
        BY SomeArgumentsAreTexts DEF Character
    <2>2. <<<<"a">>, a, b>> \in Seq(Seq(Character))
        BY <2>1
    <2> QED
        BY <2>2, EveryCommandLine
<1>2. QuotingRoundTrips
    BY <1>1 DEF QuotingRoundTrips
<1> QED
    BY <1>2, PTL
=============================================================================
