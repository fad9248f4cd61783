----------------------------- MODULE ConfigStore -----------------------------
(***************************************************************************)
(* The configuration file.  ConfigStore::Save writes a temporary file,     *)
(* flushes it and moves it over config.json; the process may be killed     *)
(* between any two of these, and any of them may fail.  A file's content   *)
(* is a configuration, or Torn: something that Load does not parse.        *)
(***************************************************************************)
EXTENDS Incidents, Sequences

CONSTANTS
    Savers,         \* threads that save: the window's and the accept thread
    Monitors,       \* monitors the user may select
    MaxChanges,     \* changes the user makes, at most
    NoFile, Torn

\* AppConfig: rev stands for what only the user changes (bit rate, palm guard,
\* profiles), monitor is also set when a session is established.
Config == [rev : 0 .. MaxChanges, monitor : Monitors \cup {"any"}]
Default == [rev |-> 0, monitor |-> "any"]

ASSUME StoreAssumption ==
    MaxChanges \in Nat /\ NoFile # Torn /\ NoFile \notin Config /\ Torn \notin Config

VARIABLES
    file,       \* content of config.json
    temp,       \* per saver, content of its temporary file
    saving      \* per saver, where its Save is

storeVars == <<file, temp, saving>>

StoreInit ==
    /\ file = NoFile
    /\ temp = [t \in Savers |-> NoFile]
    /\ saving = [t \in Savers |-> "no"]

\* ConfigStore::Load: the configuration, and whether it came from the disk.
\* A file that cannot be opened looks like one that is not there.
Load(readable) ==
    IF readable /\ file \in Config THEN [config |-> file, loaded |-> TRUE]
    ELSE [config |-> Default, loaded |-> FALSE]

SaveBegins(t) ==
    /\ saving' = [saving EXCEPT ![t] = "open"]
    /\ UNCHANGED <<file, temp>>

\* Mutant: config.json itself is opened and written.
OpenInPlace(t) ==
    /\ file' = Torn
    /\ temp' = [temp EXCEPT ![t] = Torn]

\* CreateFileW(CREATE_NEW): the file is there, and empty.
OpenTemporary(t) ==
    /\ temp' = [temp EXCEPT ![t] = Torn]
    /\ UNCHANGED file

\* MoveFileExW over config.json.
Replace(t) ==
    /\ file' = temp[t]
    /\ temp' = [temp EXCEPT ![t] = NoFile]

\* WriteAtomic of configuration c by thread t.
WriteAtomic(t, c) ==
    \/ /\ saving[t] = "open" /\ OpenTemporary(t)
       /\ saving' = [saving EXCEPT ![t] = "write"] /\ Smooth
    \/ /\ saving[t] = "write"
       /\ temp' = [temp EXCEPT ![t] = c] /\ UNCHANGED file
       /\ saving' = [saving EXCEPT ![t] = "move"] /\ Smooth
    \/ /\ saving[t] = "move" /\ Replace(t)
       /\ saving' = [saving EXCEPT ![t] = "saved"] /\ Smooth
    \/ /\ saving[t] \in {"open", "write", "move"} /\ Incident
       /\ temp' = [temp EXCEPT ![t] = NoFile] /\ UNCHANGED file
       /\ saving' = [saving EXCEPT ![t] = "failed"]

SaveEnds(t, outcome) ==
    /\ saving[t] = outcome
    /\ saving' = [saving EXCEPT ![t] = "no"]
    /\ UNCHANGED <<file, temp>>

\* The process is gone: what was being saved stays as it is on the disk, and
\* nobody opens an abandoned temporary file again.
StoreAbandoned ==
    /\ temp' = [t \in Savers |-> NoFile]
    /\ saving' = [t \in Savers |-> "no"]
    /\ UNCHANGED file

StoreTypeOK ==
    /\ file \in Config \cup {NoFile, Torn}
    /\ temp \in [Savers -> Config \cup {NoFile, Torn}]
    /\ saving \in [Savers -> {"no", "open", "write", "move", "saved", "failed"}]
=============================================================================
