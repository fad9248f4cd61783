---------------------------- MODULE ProcessRunner ----------------------------
(***************************************************************************)
(* One call of Win32ProcessRunner::Run: the calling thread, the two        *)
(* threads that drain the child's pipes, the child, and a helper the child *)
(* may leave behind that holds the pipes' write ends (adb starts its       *)
(* server this way).  A pipe carries chunks; a chunk is who wrote it.      *)
(***************************************************************************)
EXTENDS CommandLine, FiniteSets

CONSTANTS
    Streams,        \* the child's output streams: stdout and stderr
    PipeSize,       \* chunks a pipe holds before its writer blocks
    MaxChunks,      \* chunks the child writes to a stream, at most
    MaxFaults       \* Win32 calls that fail in one behaviour, at most

ASSUME RunnerAssumption == PipeSize \in Nat \ {0} /\ MaxChunks \in Nat /\ MaxFaults \in Nat

VARIABLES
    at,         \* where Run is
    open,       \* handles and lists Run has open
    result,     \* ProcessResult, the texts apart
    finished,   \* process_finished
    reader,     \* per stream, where its ReadPipe is
    got,        \* per stream, chunks of the child in the reader's text
    child,      \* the child process
    wrote,      \* per stream, chunks the child has written
    pipe,       \* per stream, the chunks in the pipe
    helper,     \* the child's own child: none yet, holding the pipes, or gone
    wanted,     \* what the caller's stop token and clock say
    late,       \* per stream, chunks the child wrote since the reader's last look
    faults      \* Win32 calls that have failed

runVars == <<at, open, result, finished>>
readVars == <<reader, got>>
childVars == <<child, wrote, helper>>
vars == <<runVars, readVars, childVars, pipe, wanted, late, faults>>

ReadEnd(s) == <<"read", s>>
WriteEnd(s) == <<"write", s>>
Pipes == {ReadEnd(s) : s \in Streams} \cup {WriteEnd(s) : s \in Streams}
Handles == Pipes \cup {<<"attributes", "list">>, <<"process", "handle">>}

Result == [started : BOOLEAN, timed_out : BOOLEAN, cancelled : BOOLEAN,
           failed : BOOLEAN, exit_code : {"zero", "other"}]

\* Mutant: the exit code is not looked at.
SucceededIfNotStopped(r) == r.started /\ ~r.timed_out /\ ~r.cancelled /\ ~r.failed

\* ProcessResult::succeeded
Succeeded(r) ==
    r.started /\ ~r.timed_out /\ ~r.cancelled /\ ~r.failed /\ r.exit_code = "zero"

Init ==
    /\ at = "pipes" /\ open = {} /\ finished = FALSE
    /\ result = [started |-> FALSE, timed_out |-> FALSE, cancelled |-> FALSE,
                 failed |-> FALSE, exit_code |-> "zero"]
    /\ reader = [s \in Streams |-> "none"] /\ got = [s \in Streams |-> 0]
    /\ child = "none" /\ helper = "none"
    /\ wrote = [s \in Streams |-> 0] /\ late = [s \in Streams |-> 0]
    /\ pipe = [s \in Streams |-> <<>>]
    /\ wanted = {} /\ faults = 0

Fault == faults < MaxFaults /\ faults' = faults + 1
-----------------------------------------------------------------------------
\* Mutant: the write ends are forgotten.
CloseReadEnds(handles) == handles \ ({ReadEnd(s) : s \in Streams} \cup {<<"attributes", "list">>})

\* An error path before there is a process: close what is open, return the error.
CloseAll(handles) == handles \ Handles

GiveUp ==
    /\ Fault
    /\ at' = "returned"
    /\ open' = CloseAll(open)
    /\ result' = [result EXCEPT !.failed = TRUE]
    /\ UNCHANGED <<finished, reader, child>>

\* CreatePipe twice; the second may fail when the first has succeeded.
CreatePipes ==
    /\ at = "pipes"
    /\ \/ /\ at' = "inherit" /\ open' = Pipes
          /\ UNCHANGED <<result, finished, reader, child, faults>>
       \/ GiveUp
    /\ UNCHANGED <<got, wrote, helper, pipe, wanted, late>>

\* SetHandleInformation, then the attribute list that names what is inherited.
PrepareInheritance ==
    /\ at = "inherit"
    /\ \/ /\ at' = "create" /\ open' = open \cup {<<"attributes", "list">>}
          /\ UNCHANGED <<result, finished, reader, child, faults>>
       \/ GiveUp
    /\ UNCHANGED <<got, wrote, helper, pipe, wanted, late>>

\* CreateProcessW; the write ends stay open in the child only, the readers start.
CreateChild ==
    /\ at = "create"
    /\ \/ /\ at' = "wait" /\ child' = "running"
          /\ open' = {ReadEnd(s) : s \in Streams} \cup {<<"process", "handle">>}
          /\ result' = [result EXCEPT !.started = TRUE]
          /\ reader' = [s \in Streams |-> "look"]
          /\ UNCHANGED <<finished, faults>>
       \/ GiveUp
    /\ UNCHANGED <<got, wrote, helper, pipe, wanted, late>>

Ended == child \in {"zero", "other", "killed"}

\* TerminateProcess has no effect on a process that has ended.
Terminate(why) ==
    /\ at' = "reap"
    /\ child' = IF Ended THEN child ELSE "killed"
    /\ result' = [result EXCEPT ![why] = TRUE]
    /\ UNCHANGED <<open, finished>>

\* WaitForSingleObject(50 ms) says that the process has ended, or that it has
\* not yet: it may end before the next line.  Or the call fails.
Wait ==
    /\ at = "wait"
    /\ \/ Ended /\ at' = "finish" /\ UNCHANGED <<open, result, finished, child, faults>>
       \/ ~Ended /\ at' = "woken" /\ UNCHANGED <<open, result, finished, child, faults>>
       \/ Fault /\ Terminate("failed")
    /\ UNCHANGED <<readVars, wrote, helper, pipe, wanted, late>>

\* The stop token is asked before the clock.
Decide ==
    /\ at = "woken"
    /\ \/ "stop" \in wanted /\ Terminate("cancelled")
       \/ "stop" \notin wanted /\ "timeout" \in wanted /\ Terminate("timed_out")
       \/ wanted = {} /\ at' = "wait" /\ UNCHANGED <<open, result, finished, child>>
    /\ UNCHANGED <<readVars, wrote, helper, pipe, wanted, late, faults>>

\* WaitForSingleObject(INFINITE) after a termination.
Reap ==
    /\ at = "reap" /\ Ended
    /\ at' = "finish"
    /\ UNCHANGED <<open, result, finished, readVars, childVars, pipe, wanted, late, faults>>

ExitCode == IF child = "zero" THEN "zero" ELSE "other"

\* process_finished is published, the exit code fetched, the process closed.
Finish ==
    /\ at = "finish"
    /\ at' = "join" /\ finished' = TRUE
    /\ open' = open \ {<<"process", "handle">>}
    /\ \/ /\ result' = IF result.failed THEN result ELSE [result EXCEPT !.exit_code = ExitCode]
          /\ UNCHANGED faults
       \/ Fault /\ ~result.failed /\ result' = [result EXCEPT !.failed = TRUE]
    /\ UNCHANGED <<readVars, childVars, pipe, wanted, late>>

\* Both readers are joined before their handles are closed.
Join ==
    /\ at = "join"
    /\ \A s \in Streams : reader[s] \in {"done", "broken"}
    /\ at' = "returned" /\ open' = CloseAll(open)
    /\ UNCHANGED <<result, finished, readVars, childVars, pipe, wanted, late, faults>>

Run == CreatePipes \/ PrepareInheritance \/ CreateChild \/ Wait \/ Decide \/ Reap \/ Finish \/ Join
-----------------------------------------------------------------------------
\* ReadPipe.  PeekNamedPipe fails once nobody holds the write end any more and
\* the pipe is empty; while there are chunks they are read.
Broken(s) == Ended /\ helper # "holds" /\ pipe[s] = <<>>

OfChild(chunks) == Cardinality({i \in DOMAIN chunks : chunks[i] = "child"})

\* Mutant: process_finished is asked before the pipe has been drained.
LookUnlessFinished(s) ==
    /\ reader[s] = "look"
    /\ reader' = [reader EXCEPT ![s] = IF finished \/ Broken(s) THEN "done"
                                       ELSE IF pipe[s] = <<>> THEN "empty" ELSE "look"]
    /\ IF finished THEN UNCHANGED <<got, pipe>>
       ELSE /\ got' = [got EXCEPT ![s] = @ + OfChild(pipe[s])]
            /\ pipe' = [pipe EXCEPT ![s] = <<>>]
    /\ late' = [late EXCEPT ![s] = 0]
    /\ UNCHANGED <<runVars, childVars, wanted, faults>>

Look(s) ==
    /\ reader[s] = "look"
    /\ reader' = [reader EXCEPT ![s] = IF Broken(s) THEN "done"
                                       ELSE IF pipe[s] = <<>> THEN "empty" ELSE "look"]
    /\ got' = [got EXCEPT ![s] = @ + OfChild(pipe[s])]
    /\ pipe' = [pipe EXCEPT ![s] = <<>>]
    /\ late' = [late EXCEPT ![s] = 0]
    /\ UNCHANGED <<runVars, childVars, wanted, faults>>

\* Mutant: the reader goes on until the pipe is broken.
AfterEmptyUntilBroken(s) ==
    /\ reader[s] = "empty"
    /\ reader' = [reader EXCEPT ![s] = "look"]
    /\ UNCHANGED <<runVars, got, childVars, pipe, wanted, late, faults>>

\* The pipe was empty: process_finished decides, on what was seen before.
AfterEmpty(s) ==
    /\ reader[s] = "empty"
    /\ reader' = [reader EXCEPT ![s] = IF finished THEN "done" ELSE "look"]
    /\ UNCHANGED <<runVars, got, childVars, pipe, wanted, late, faults>>

\* ReadFile fails: the reader ends with what it has.
ReadFails(s) ==
    /\ reader[s] = "look" /\ pipe[s] # <<>> /\ Fault
    /\ reader' = [reader EXCEPT ![s] = "broken"]
    /\ UNCHANGED <<runVars, got, childVars, pipe, wanted, late>>

Read(s) == Look(s) \/ AfterEmpty(s)
-----------------------------------------------------------------------------
\* The child writes, unless the pipe is full, and ends by itself if it ends.
ChildWrites(s) ==
    /\ child = "running" /\ wrote[s] < MaxChunks /\ Len(pipe[s]) < PipeSize
    /\ pipe' = [pipe EXCEPT ![s] = Append(@, "child")]
    /\ wrote' = [wrote EXCEPT ![s] = @ + 1]
    /\ late' = [late EXCEPT ![s] = @ + 1]
    /\ UNCHANGED <<runVars, readVars, child, helper, wanted, faults>>

ChildExits ==
    /\ child = "running"
    /\ child' \in {"zero", "other"}
    /\ UNCHANGED <<runVars, readVars, wrote, helper, pipe, wanted, late, faults>>

\* The helper inherits the write ends, may write one chunk itself, may go.
Help ==
    /\ \/ child = "running" /\ helper = "none" /\ helper' = "holds" /\ UNCHANGED pipe
       \/ helper = "holds" /\ helper' = "gone" /\ UNCHANGED pipe
       \/ /\ helper = "holds" /\ helper' = "gone"
          /\ \E s \in Streams : Len(pipe[s]) < PipeSize /\ pipe' = [pipe EXCEPT ![s] = Append(@, "helper")]
    /\ UNCHANGED <<runVars, readVars, child, wrote, wanted, late, faults>>

\* The caller requests a stop; the time runs out.
StopRequested == "stop" \notin wanted /\ wanted' = wanted \cup {"stop"}
TimeRunsOut == "timeout" \notin wanted /\ wanted' = wanted \cup {"timeout"}

Caller ==
    /\ StopRequested \/ TimeRunsOut
    /\ UNCHANGED <<runVars, readVars, childVars, pipe, late, faults>>

Next ==
    \/ Run
    \/ \E s \in Streams : Read(s) \/ ReadFails(s) \/ ChildWrites(s)
    \/ ChildExits \/ Help \/ Caller

\* The threads of this process are scheduled and time passes; the child and its
\* helper may hang.
Spec ==
    /\ Init /\ [][Next]_vars
    /\ WF_vars(Run) /\ \A s \in Streams : WF_vars(Read(s))
    /\ WF_vars(TimeRunsOut /\ UNCHANGED <<runVars, readVars, childVars, pipe, late, faults>>)
-----------------------------------------------------------------------------
TypeOK ==
    /\ at \in {"pipes", "inherit", "create", "wait", "woken", "reap", "finish", "join", "returned"}
    /\ open \subseteq Handles
    /\ result \in Result
    /\ finished \in BOOLEAN
    /\ reader \in [Streams -> {"none", "look", "empty", "done", "broken"}]
    /\ got \in [Streams -> Nat] /\ late \in [Streams -> Nat]
    /\ child \in {"none", "running", "zero", "other", "killed"}
    /\ wrote \in [Streams -> 0 .. MaxChunks]
    /\ pipe \in [Streams -> Seq({"child", "helper"})]
    /\ helper \in {"none", "holds", "gone"}
    /\ wanted \subseteq {"stop", "timeout"}
    /\ faults \in 0 .. MaxFaults

\* Whichever call fails, nothing stays open once Run has returned, and no reader
\* ever works on a handle that has been closed.
HandlesInOrder ==
    /\ at = "returned" => open = {}
    /\ \A s \in Streams : reader[s] \in {"look", "empty"} => ReadEnd(s) \in open

\* A run that reports success is one whose child ended by itself with code zero:
\* a kill by timeout, by stop or after a failed wait never looks like success,
\* although the child may end in the middle of the decision.
SuccessIsTheChilds == at = "returned" /\ Succeeded(result) => child = "zero"

\* Every chunk the child wrote is in the result, whatever the helper holds open,
\* unless ReadFile failed, and except those written after the reader's last look:
\* if the child writes, ends and is reaped between that look and the reader's
\* load of process_finished, ReadPipe leaves them.  (The comment at
\* process.cpp:64 takes the look to come after the load.)
OnlyLateIsLost ==
    at = "returned" /\ result.started => \A s \in Streams :
        reader[s] = "broken" \/ wrote[s] = got[s] + late[s]

ResultRight == SuccessIsTheChilds /\ OnlyLateIsLost

\* Quoted arguments reach the child as they were given.
QuotingRoundTrips == at = "create" => RoundTrips

\* Run returns although the child hangs, fills its pipe or leaves a helper that
\* keeps the pipes open.
RunReturns == <>(at = "returned")
=============================================================================
