---------------------------- MODULE ScriptStore -----------------------------
(***************************************************************************)
(* What the automation keeps on disk: the script and, beside it, the state *)
(* (is it enabled, its revision, is it suspended), each replaced by a file *)
(* written next to it and renamed (src/src/server/automation.cpp).  Any    *)
(* write may fail, the server may stop between any two of them.            *)
(*                                                                         *)
(* A save is the steps of saveScript; the server does nothing else between *)
(* them.  What a valid script does is AutomationEngine's part, here only   *)
(* whether it loads: a server without a Lua state serves its clients all   *)
(* the same (src/src/server/server.cpp:309-311).                           *)
(***************************************************************************)
EXTENDS Naturals

CONSTANTS
    Texts,          \* scripts that pass the check
    Moody,          \* of these, the ones that may raise once they are loaded
    Example,        \* the script of a new installation
    NoText,         \* no script
    Pids,           \* process numbers a server may get
    MaxRevision     \* bound: revision of the script

ASSUME StoreAssumption ==
    /\ Moody \subseteq Texts /\ Example \in Texts \ Moody /\ NoText \notin Texts
    /\ Pids # {} /\ MaxRevision \in Nat \ {0}

Tasks == {"first", "script", "state", "rollback", "override"}
StoredState == [enabled : BOOLEAN, revision : 1..(MaxRevision + 1), override : BOOLEAN]

\* Without a state file these are the values of the configuration.
Default == [enabled |-> FALSE, revision |-> 1, override |-> FALSE]

VARIABLES
    script,     \* the script file
    state,      \* the state file
    leftOver,   \* temporary files: of which file and which process
    server,     \* up, its process number, its fields, the Lua state it runs
    save,       \* the save in hand
    history     \* history: what clients asked for, and the last save they were told of

storeVars == <<script, state, leftOver, server, save, history>>

-----------------------------------------------------------------------------
\* writeAtomic: the file a task writes.
FileOf(task) == IF task \in {"state", "override"} THEN "state" ELSE "script"

\* The file under its temporary name, open with O_EXCL.
OpenTemporary ==
    /\ server.up /\ save.task # "none" /\ ~save.open
    /\ <<FileOf(save.task), server.pid>> \notin leftOver
    /\ leftOver' = leftOver \cup {<<FileOf(save.task), server.pid>>}
    /\ save' = [save EXCEPT !.open = TRUE]
    /\ UNCHANGED <<script, state, server, history>>

Temporary == <<FileOf(save.task), server.pid>>

Renamed ==
    /\ server.up /\ save.open /\ leftOver' = leftOver \ {Temporary}
    /\ IF FileOf(save.task) = "state"
       THEN state' = server.mem /\ UNCHANGED script
       ELSE script' = (IF save.task = "rollback" THEN save.oldText ELSE save.text) /\ UNCHANGED state

\* Opening fails, as it does when the name is taken; or writing or renaming
\* does, and the temporary file goes.
WriteFailed ==
    /\ server.up /\ save.task # "none"
    /\ leftOver' = (IF save.open THEN leftOver \ {Temporary} ELSE leftOver)
    /\ UNCHANGED <<script, state>>

Then(task) == save' = [save EXCEPT !.task = task, !.open = FALSE]

NoSave == [task |-> "none", open |-> FALSE, text |-> NoText, enabled |-> FALSE,
           oldText |-> NoText, old |-> Default, oldState |-> Default, outcome |-> "none"]

\* The client is told how it went; of a refused save it is remembered what it found.
Ends(outcome) ==
    save' = IF outcome = "refused"
            THEN [NoSave EXCEPT !.outcome = outcome, !.oldText = save.oldText, !.oldState = save.oldState]
            ELSE [NoSave EXCEPT !.outcome = outcome]

-----------------------------------------------------------------------------
(* saveScript, as handle("automation_edit_save") calls it.                 *)

\* The lock is granted with the script, see EditLock.
BeginSave(text, enabled) ==
    /\ server.up /\ save.task = "none" /\ server.mem.revision <= MaxRevision /\ script # NoText
    /\ save' = [task |-> "script", open |-> FALSE, text |-> text, enabled |-> enabled,
                oldText |-> script, old |-> server.mem, oldState |-> state, outcome |-> "none"]
    /\ history' = [history EXCEPT !.asked = IF enabled THEN @ \cup {text} ELSE @, !.wasOpen = history.told.open]
    /\ UNCHANGED <<script, state, leftOver, server>>

ScriptWritten ==
    /\ save.task = "script" /\ Renamed /\ Then("state")
    /\ server' = [server EXCEPT !.mem.enabled = save.enabled, !.mem.revision = @ + 1]
    /\ history' = [history EXCEPT !.told.open = TRUE]

ScriptNotWritten ==
    save.task = "script" /\ WriteFailed /\ Ends("refused") /\ UNCHANGED <<server, history>>

\* An enabled script is loaded, a disabled one ends the Lua state.
Loads(text, enabled, ok) == [server EXCEPT !.runs = IF enabled /\ ok THEN text ELSE NoText]

StateWritten(ok) ==
    /\ save.task = "state" /\ Renamed
    /\ ok \/ (save.enabled /\ save.text \in Moody)
    /\ Ends(IF ok THEN "saved" ELSE "raised")
    /\ server' = Loads(save.text, save.enabled, ok)
    /\ history' = [history EXCEPT !.told = [text |-> save.text, mem |-> server.mem, open |-> FALSE]]

\* had, hadPreviousScript: the file the lock was granted with may not have been
\* read again before it was replaced.  Then the new one stays where it is.
TakenBack(had) == IF had THEN Then("rollback") ELSE Ends("half")

\* MUTANT: the fields keep the new values.
StateNotWrittenKeeping(had) ==
    /\ save.task = "state" /\ WriteFailed /\ TakenBack(had) /\ UNCHANGED <<server, history>>
StateNotWritten(had) ==
    /\ save.task = "state" /\ WriteFailed /\ TakenBack(had)
    /\ server' = [server EXCEPT !.mem = save.old] /\ UNCHANGED history

RolledBack ==
    /\ save.task = "rollback" /\ Renamed /\ Ends("refused")
    /\ history' = [history EXCEPT !.told.open = history.wasOpen] /\ UNCHANGED server

\* The error is ignored.
NotRolledBack ==
    save.task = "rollback" /\ WriteFailed /\ Ends("half") /\ UNCHANGED <<server, history>>

(* setManualOverride, and an occurrence that becomes handled.              *)

BeginOverride ==
    /\ server.up /\ save.task = "none"
    /\ server' = [server EXCEPT !.mem.override = ~@]
    /\ Then("override") /\ UNCHANGED <<script, state, leftOver, history>>

OverrideWritten ==
    save.task = "override" /\ Renamed /\ Then("none") /\ UNCHANGED <<server, history>>
OverrideNotWritten ==
    save.task = "override" /\ WriteFailed /\ Then("none") /\ UNCHANGED <<server, history>>

-----------------------------------------------------------------------------
(* Stop and start.                                                         *)

StoreCrash ==
    /\ server.up
    /\ server' = [server EXCEPT !.up = FALSE, !.runs = NoText, !.mem = Default]
    /\ save' = NoSave
    /\ UNCHANGED <<script, state, leftOver, history>>

\* initialize: the state is read, then the script; a new installation gets the
\* example.  The server only logs that it failed: it is up, with the fields it
\* read and no Lua state, when an enabled script raises or there is no script.
StoreStart(pid, ok) ==
    /\ ~server.up
    /\ ok \/ (state.enabled /\ script \in Moody)
    /\ server' = [up |-> TRUE, pid |-> pid, mem |-> state,
                  runs |-> IF state.enabled /\ ok THEN script ELSE NoText]
    /\ save' = IF script = NoText THEN [NoSave EXCEPT !.task = "first", !.text = Example] ELSE NoSave
    /\ UNCHANGED <<script, state, leftOver, history>>

ExampleWritten ==
    /\ save.task = "first" /\ Renamed /\ Then("none")
    /\ server' = Loads(Example, server.mem.enabled, TRUE) /\ UNCHANGED history
ExampleNotWritten ==
    save.task = "first" /\ WriteFailed /\ save' = NoSave /\ UNCHANGED <<server, history>>

StoreInit ==
    /\ script = NoText /\ state = Default /\ leftOver = {}
    /\ server = [up |-> FALSE, pid |-> CHOOSE p \in Pids : TRUE, mem |-> Default, runs |-> NoText]
    /\ save = NoSave
    /\ history = [asked |-> {}, wasOpen |-> TRUE,
                  told |-> [text |-> NoText, mem |-> Default, open |-> TRUE]]

StoreNext ==
    \/ OpenTemporary
    \/ \E t \in Texts, b \in BOOLEAN : BeginSave(t, b)
    \/ ScriptWritten \/ ScriptNotWritten
    \/ \E b \in BOOLEAN : StateWritten(b) \/ StateNotWritten(b)
    \/ RolledBack \/ NotRolledBack
    \/ BeginOverride \/ OverrideWritten \/ OverrideNotWritten
    \/ StoreCrash \/ \E p \in Pids, b \in BOOLEAN : StoreStart(p, b)
    \/ ExampleWritten \/ ExampleNotWritten

StoreSpec == StoreInit /\ [][StoreNext]_storeVars

-----------------------------------------------------------------------------
StoreTypeOK ==
    /\ script \in Texts \cup {NoText} /\ state \in StoredState
    /\ leftOver \subseteq {"script", "state"} \X Pids
    /\ server \in [up : BOOLEAN, pid : Pids, mem : StoredState, runs : Texts \cup {NoText}]
    /\ save \in [task : Tasks \cup {"none"}, open : BOOLEAN, text : Texts \cup {NoText},
                 enabled : BOOLEAN, oldText : Texts \cup {NoText}, old : StoredState,
                 oldState : StoredState, outcome : {"none", "saved", "raised", "refused", "half"}]
    /\ history \in [asked : SUBSET Texts, wasOpen : BOOLEAN,
                    told : [text : Texts \cup {NoText}, mem : StoredState, open : BOOLEAN]]

(* What a client was told is saved is what a later start of the server     *)
(* finds: through crashes, failed writes and suspensions, until another    *)
(* save has replaced the script (automation.cpp:284-296).                  *)
SavedStaysOnDisk ==
    ~history.told.open =>
        /\ script = history.told.text
        /\ state.enabled = history.told.mem.enabled /\ state.revision = history.told.mem.revision

(* Between two saves the fields agree with the file: what a failed save    *)
(* took back is not written by the next suspension (automation.cpp:289).   *)
FieldsAreStored ==
    server.up /\ save.task \notin {"state"} =>
        server.mem.enabled = state.enabled /\ server.mem.revision = state.revision

(* A refused save leaves both files as they were, unless the write that    *)
(* takes it back fails as well or the old script could not be read         *)
(* (outcome "half"; automation.cpp:282-295).                               *)
RefusedChangesNothing ==
    save.task = "none" /\ save.outcome = "refused" =>
        /\ script = save.oldText
        /\ state.enabled = save.oldState.enabled /\ state.revision = save.oldState.revision

(* What a client was told of a save is true of the files, and stays true.  *)
FilesKeepTheirWord == SavedStaysOnDisk /\ FieldsAreStored /\ RefusedChangesNothing

(* Only a script runs that a client asked to enable                        *)
(* (docs/LUA_AUTOMATION.md:12-14, the server "schreibt die Datei atomar    *)
(* und uebernimmt die Aktivierung").                                       *)
(* The code does not keep this; see README.md.                             *)
RunsWhatWasEnabled == server.runs # NoText => server.runs \in history.asked
=============================================================================
