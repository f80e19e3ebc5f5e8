------------------------ MODULE ScriptStore_proofs ------------------------
(***************************************************************************)
(* What a client was told of a save stays true of the files, for all       *)
(* scripts, processes and revisions: through failing writes, through a     *)
(* stop between any two steps, through the suspensions in between.         *)
(*                                                                         *)
(* The argument: as long as a save has not told the client anything, what  *)
(* it needs to take itself back is what was there when it began (SaveInv). *)
(* The word given to a client is open while a save stands between its two  *)
(* files, and closed again when it has taken itself back.                  *)
(***************************************************************************)
EXTENDS ScriptStore, TLAPS

\* One says of the activation and the revision what the other says.
Agree(a, b) == a.enabled = b.enabled /\ a.revision = b.revision

\* The save in hand: what it found is what is there ...
SaveInv ==
    /\ save.task \in {"script", "state", "rollback"} =>
        /\ save.outcome = "none" /\ save.text \in Texts
        /\ Agree(save.old, state) /\ Agree(save.oldState, state)
    /\ save.task = "script" =>
        /\ script = save.oldText /\ server.mem.revision <= MaxRevision
        /\ history.wasOpen = history.told.open
    /\ save.task = "state" => script = save.text
    \* ... and, when the script is already the new one, what was told of the old.
    /\ save.task \in {"state", "rollback"} =>
        /\ history.told.open
        /\ ~history.wasOpen =>
            /\ save.oldText = history.told.text /\ history.told.text \in Texts
            /\ Agree(state, history.told.mem)
    /\ save.task = "first" => history.told.open /\ save.outcome = "none" /\ save.text = Example

\* What was told was a script, so that a start finds one.
ToldInv == ~history.told.open => history.told.text \in Texts

\* A suspension begun after a refused save does not lose what it found.
RefusedInv ==
    save.task \in {"none", "override"} /\ save.outcome = "refused" =>
        script = save.oldText /\ Agree(state, save.oldState)

StoreInv == StoreTypeOK /\ SavedStaysOnDisk /\ FieldsAreStored /\ SaveInv /\ ToldInv /\ RefusedInv

-----------------------------------------------------------------------------
(* Types *)

Outcomes == {"none", "saved", "raised", "refused", "half"}
Script   == Texts \cup {NoText}

LEMMA StoredFacts ==
         /\ Default \in StoredState
         /\ \A m \in StoredState : m.enabled \in BOOLEAN /\ m.override \in BOOLEAN
                              /\ m.revision \in Nat
         /\ \A m \in StoredState : [m EXCEPT !.override = ~m.override] \in StoredState
         /\ \A m \in StoredState : \A b \in BOOLEAN : m.revision <= MaxRevision =>
               [m EXCEPT !.enabled = b, !.revision = m.revision + 1] \in StoredState
<1>1. MaxRevision \in Nat /\ MaxRevision # 0
  BY StoreAssumption
<1>2. Default \in StoredState
  BY <1>1 DEF Default, StoredState
<1>3. ASSUME NEW m \in StoredState
      PROVE  /\ m.enabled \in BOOLEAN /\ m.override \in BOOLEAN /\ m.revision \in Nat
             /\ [m EXCEPT !.override = ~m.override] \in StoredState
  <2>1. m.enabled \in BOOLEAN /\ m.override \in BOOLEAN /\ m.revision \in Nat
    BY <1>1 DEF StoredState
  <2>2. PICK b \in BOOLEAN : b = ~m.override
    OBVIOUS
  <2>3. [m EXCEPT !.override = b] \in StoredState
    BY DEF StoredState
  <2>4. QED BY <2>1, <2>2, <2>3
<1>4. ASSUME NEW m \in StoredState, NEW b \in BOOLEAN, m.revision <= MaxRevision
      PROVE  [m EXCEPT !.enabled = b, !.revision = m.revision + 1] \in StoredState
  <2>1. m.revision + 1 \in 1..(MaxRevision + 1)
    BY <1>1, <1>4 DEF StoredState
  <2>2. QED BY <2>1 DEF StoredState
<1>5. QED BY <1>2, <1>3, <1>4

\* The fields of the records of a state, as the steps below use them.
LEMMA FieldTypes ==
  ASSUME StoreTypeOK
  PROVE  /\ server = [up |-> server.up, pid |-> server.pid, mem |-> server.mem, runs |-> server.runs]
         /\ server.up \in BOOLEAN /\ server.pid \in Pids /\ server.mem \in StoredState /\ server.runs \in Script
         /\ save.task \in Tasks \cup {"none"} /\ save.open \in BOOLEAN /\ save.text \in Script
         /\ save.enabled \in BOOLEAN /\ save.oldText \in Script /\ save.old \in StoredState
         /\ save.oldState \in StoredState /\ save.outcome \in Outcomes
         /\ history.asked \subseteq Texts /\ history.wasOpen \in BOOLEAN
         /\ history.told.text \in Script /\ history.told.mem \in StoredState /\ history.told.open \in BOOLEAN
  BY DEF StoreTypeOK, Script, Outcomes

LEMMA NoSaveTypes ==
  ASSUME StoreTypeOK
  PROVE  /\ \A o \in Outcomes : [NoSave EXCEPT !.outcome = o] \in
              [task : Tasks \cup {"none"}, open : BOOLEAN, text : Script,
               enabled : BOOLEAN, oldText : Script, old : StoredState,
               oldState : StoredState, outcome : Outcomes]
         /\ \A t \in Script, s \in StoredState :
              [NoSave EXCEPT !.outcome = "refused", !.oldText = t, !.oldState = s] \in
              [task : Tasks \cup {"none"}, open : BOOLEAN, text : Script,
               enabled : BOOLEAN, oldText : Script, old : StoredState,
               oldState : StoredState, outcome : Outcomes]
         /\ NoSave \in [task : Tasks \cup {"none"}, open : BOOLEAN, text : Script,
                       enabled : BOOLEAN, oldText : Script, old : StoredState,
                       oldState : StoredState, outcome : Outcomes]
<1>1. Default \in StoredState /\ NoText \in Script
  BY StoredFacts DEF Script
<1>2. NoSave \in [task : Tasks \cup {"none"}, open : BOOLEAN, text : Script,
                 enabled : BOOLEAN, oldText : Script, old : StoredState,
                 oldState : StoredState, outcome : Outcomes]
  BY <1>1 DEF NoSave, Outcomes
<1>3. "refused" \in Outcomes
  BY DEF Outcomes
<1>4. QED BY <1>2, <1>3

\* A step of writeAtomic leaves at most its own file with the other name.
LEMMA WritingTypes ==
  ASSUME StoreTypeOK, Renamed \/ WriteFailed \/ OpenTemporary
  PROVE  leftOver' \subseteq {"script", "state"} \X Pids
<1>1. leftOver \subseteq {"script", "state"} \X Pids /\ server.pid \in Pids
  BY FieldTypes DEF StoreTypeOK
<1>2. FileOf(save.task) \in {"script", "state"}
  BY DEF FileOf
<1>3. QED BY <1>1, <1>2 DEF Renamed, WriteFailed, OpenTemporary, Temporary

LEMMA ThenTypes ==
  ASSUME StoreTypeOK, NEW task \in Tasks \cup {"none"}, Then(task)
  PROVE  save' \in [task : Tasks \cup {"none"}, open : BOOLEAN, text : Script,
                    enabled : BOOLEAN, oldText : Script, old : StoredState,
                    oldState : StoredState, outcome : Outcomes]
  BY DEF StoreTypeOK, Then, Script, Outcomes

LEMMA EndsTypes ==
  ASSUME StoreTypeOK, NEW outcome \in Outcomes, Ends(outcome)
  PROVE  save' \in [task : Tasks \cup {"none"}, open : BOOLEAN, text : Script,
                    enabled : BOOLEAN, oldText : Script, old : StoredState,
                    oldState : StoredState, outcome : Outcomes]
  BY NoSaveTypes, FieldTypes DEF Ends

\* What the end of a save leaves of it.
LEMMA EndsFacts ==
  ASSUME NEW outcome \in Outcomes, Ends(outcome)
  PROVE  /\ save'.task = "none" /\ ~save'.open /\ save'.outcome = outcome
         /\ outcome = "refused" => save'.oldText = save.oldText /\ save'.oldState = save.oldState
  BY DEF Ends, NoSave, Outcomes

LEMMA ThenFacts ==
  ASSUME StoreTypeOK, NEW task, Then(task)
  PROVE  /\ save'.task = task /\ ~save'.open /\ save'.text = save.text
         /\ save'.enabled = save.enabled /\ save'.oldText = save.oldText
         /\ save'.old = save.old /\ save'.oldState = save.oldState /\ save'.outcome = save.outcome
  BY DEF Then, StoreTypeOK

\* The files after a step of writeAtomic.
LEMMA RenamedFacts ==
  ASSUME Renamed
  PROVE  /\ server.up
         /\ save.task \in {"state", "override"} => state' = server.mem /\ script' = script
         /\ save.task = "rollback" => script' = save.oldText /\ state' = state
         /\ save.task \in {"first", "script"} => script' = save.text /\ state' = state
  BY DEF Renamed, FileOf

-----------------------------------------------------------------------------
(* The steps of a save *)

LEMMA StepOpenTemporary ==
  ASSUME StoreInv, OpenTemporary
  PROVE  StoreInv'
<1>1. /\ UNCHANGED <<script, state, server, history>> /\ save' = [save EXCEPT !.open = TRUE]
      /\ save'.task = save.task /\ save'.text = save.text /\ save'.oldText = save.oldText
      /\ save'.old = save.old /\ save'.oldState = save.oldState /\ save'.outcome = save.outcome
  BY DEF OpenTemporary, StoreInv, StoreTypeOK
<1>2. StoreTypeOK'
  BY <1>1, WritingTypes DEF StoreInv, StoreTypeOK
<1>3. (SavedStaysOnDisk /\ FieldsAreStored /\ SaveInv /\ ToldInv /\ RefusedInv)'
  BY <1>1 DEF StoreInv, SavedStaysOnDisk, FieldsAreStored, SaveInv, ToldInv, RefusedInv
<1>4. QED BY <1>2, <1>3 DEF StoreInv

LEMMA StepBeginSave ==
  ASSUME StoreInv, NEW text \in Texts, NEW enabled \in BOOLEAN,
         BeginSave(text, enabled)
  PROVE  StoreInv'
<1>1. /\ UNCHANGED <<script, state, leftOver, server>>
      /\ server.up /\ save.task = "none" /\ server.mem.revision <= MaxRevision
      /\ save' = [task |-> "script", open |-> FALSE, text |-> text, enabled |-> enabled,
                  oldText |-> script, old |-> server.mem, oldState |-> state, outcome |-> "none"]
  BY DEF BeginSave
<1>2. /\ history'.told = history.told /\ history'.wasOpen = history.told.open
      /\ history' \in [asked : SUBSET Texts, wasOpen : BOOLEAN,
                       told : [text : Texts \cup {NoText}, mem : StoredState, open : BOOLEAN]]
  BY DEF BeginSave, StoreInv, StoreTypeOK
<1>3. StoreTypeOK'
  BY <1>1, <1>2, FieldTypes DEF StoreInv, StoreTypeOK, Tasks
<1>4. Agree(server.mem, state)
  BY <1>1 DEF StoreInv, FieldsAreStored, Agree
<1>5. (SavedStaysOnDisk /\ FieldsAreStored /\ SaveInv /\ ToldInv /\ RefusedInv)'
  BY <1>1, <1>2, <1>4 DEF StoreInv, SavedStaysOnDisk, FieldsAreStored, SaveInv, ToldInv, RefusedInv, Agree
<1>6. QED BY <1>3, <1>5 DEF StoreInv

LEMMA StepScriptWritten ==
  ASSUME StoreInv, ScriptWritten
  PROVE  StoreInv'
<1>1. /\ save.task = "script" /\ script' = save.text /\ state' = state /\ server.up
      /\ Then("state") /\ leftOver' \subseteq {"script", "state"} \X Pids
  BY RenamedFacts, WritingTypes DEF ScriptWritten, StoreInv
<1>2. /\ server' = [server EXCEPT !.mem = [server.mem EXCEPT !.enabled = save.enabled,
                                                             !.revision = server.mem.revision + 1]]
      /\ server'.up = server.up
  BY DEF ScriptWritten, StoreInv, StoreTypeOK, StoredState
<1>3. /\ history'.told.open /\ history'.told.text = history.told.text
      /\ history'.told.mem = history.told.mem /\ history'.wasOpen = history.wasOpen
      /\ history' \in [asked : SUBSET Texts, wasOpen : BOOLEAN,
                       told : [text : Texts \cup {NoText}, mem : StoredState, open : BOOLEAN]]
  BY DEF ScriptWritten, StoreInv, StoreTypeOK
<1>4. server.mem.revision <= MaxRevision /\ save.text \in Texts
  BY <1>1 DEF StoreInv, SaveInv
<1>5. server' \in [up : BOOLEAN, pid : Pids, mem : StoredState, runs : Texts \cup {NoText}]
  BY <1>2, <1>4, FieldTypes, StoredFacts DEF StoreInv, StoreTypeOK
<1>6. StoreTypeOK'
  <2>1. "state" \in Tasks \cup {"none"} BY DEF Tasks
  <2>2. QED BY <1>1, <1>3, <1>4, <1>5, <2>1, ThenTypes DEF StoreInv, StoreTypeOK, Script, Outcomes
<1>7. /\ save'.task = "state" /\ save'.text = save.text /\ save'.oldText = save.oldText
      /\ save'.old = save.old /\ save'.oldState = save.oldState /\ save'.outcome = save.outcome
  BY <1>1, ThenFacts DEF StoreInv
<1>8. SaveInv'
  BY <1>1, <1>3, <1>7 DEF StoreInv, SaveInv, SavedStaysOnDisk, ToldInv, Agree
<1>9. (SavedStaysOnDisk /\ FieldsAreStored /\ ToldInv /\ RefusedInv)'
  BY <1>1, <1>3, <1>7 DEF StoreInv, SaveInv, SavedStaysOnDisk, FieldsAreStored, ToldInv, RefusedInv
<1>10. QED BY <1>6, <1>8, <1>9 DEF StoreInv

LEMMA StepScriptNotWritten ==
  ASSUME StoreInv, ScriptNotWritten
  PROVE  StoreInv'
<1>1. /\ save.task = "script" /\ UNCHANGED <<script, state, server, history>> /\ Ends("refused")
      /\ leftOver' \subseteq {"script", "state"} \X Pids
  BY WritingTypes DEF ScriptNotWritten, WriteFailed, StoreInv
<1>2. "refused" \in Outcomes BY DEF Outcomes
<1>3. StoreTypeOK'
  BY <1>1, <1>2, EndsTypes DEF StoreInv, StoreTypeOK, Script, Outcomes
<1>4. /\ save'.task = "none" /\ save'.outcome = "refused"
      /\ save'.oldText = save.oldText /\ save'.oldState = save.oldState
  BY <1>1, <1>2, EndsFacts
<1>5. (SavedStaysOnDisk /\ FieldsAreStored /\ SaveInv /\ ToldInv /\ RefusedInv)'
  BY <1>1, <1>4 DEF StoreInv, SavedStaysOnDisk, FieldsAreStored, SaveInv, ToldInv, RefusedInv, Agree
<1>6. QED BY <1>3, <1>5 DEF StoreInv

\* The state follows the script; the client is told.
LEMMA StepStateWritten ==
  ASSUME StoreInv, NEW ok \in BOOLEAN, StateWritten(ok)
  PROVE  StoreInv'
<1>1. PICK outcome \in {"saved", "raised"} : Ends(outcome)
  BY DEF StateWritten
<1>2. /\ save.task = "state" /\ script' = script /\ state' = server.mem /\ server.up
      /\ leftOver' \subseteq {"script", "state"} \X Pids
  BY RenamedFacts, WritingTypes DEF StateWritten, StoreInv
<1>3. /\ server'.mem = server.mem /\ server'.up = server.up
      /\ server' \in [up : BOOLEAN, pid : Pids, mem : StoredState, runs : Texts \cup {NoText}]
  BY DEF StateWritten, Loads, StoreInv, StoreTypeOK
<1>4. script = save.text /\ save.text \in Texts
  BY <1>2 DEF StoreInv, SaveInv
<1>5. /\ history'.told = [text |-> save.text, mem |-> server.mem, open |-> FALSE]
      /\ history' \in [asked : SUBSET Texts, wasOpen : BOOLEAN,
                       told : [text : Texts \cup {NoText}, mem : StoredState, open : BOOLEAN]]
  BY <1>4, FieldTypes DEF StateWritten, StoreInv, StoreTypeOK
<1>6. outcome \in Outcomes BY <1>1 DEF Outcomes
<1>7. StoreTypeOK'
  BY <1>1, <1>2, <1>3, <1>5, <1>6, EndsTypes, FieldTypes DEF StoreInv, StoreTypeOK, Script, Outcomes
<1>8. save'.task = "none" /\ save'.outcome # "refused"
  BY <1>1, <1>6, EndsFacts
<1>9. (SavedStaysOnDisk /\ FieldsAreStored /\ SaveInv /\ ToldInv /\ RefusedInv)'
  BY <1>2, <1>3, <1>4, <1>5, <1>8 DEF SavedStaysOnDisk, FieldsAreStored, SaveInv, ToldInv, RefusedInv
<1>10. QED BY <1>7, <1>9 DEF StoreInv

LEMMA StepStateNotWritten ==
  ASSUME StoreInv, NEW had \in BOOLEAN, StateNotWritten(had)
  PROVE  StoreInv'
<1>1. /\ save.task = "state" /\ UNCHANGED <<script, state, history>> /\ TakenBack(had)
      /\ leftOver' \subseteq {"script", "state"} \X Pids
  BY WritingTypes DEF StateNotWritten, WriteFailed, StoreInv
<1>2. /\ server'.mem = save.old
      /\ server' \in [up : BOOLEAN, pid : Pids, mem : StoredState, runs : Texts \cup {NoText}]
  BY FieldTypes DEF StateNotWritten, StoreInv, StoreTypeOK
<1>3. "rollback" \in Tasks \cup {"none"} /\ "half" \in Outcomes
  BY DEF Tasks, Outcomes
<1>4. CASE Then("rollback")
  <2>1. StoreTypeOK'
    BY <1>1, <1>2, <1>3, <1>4, ThenTypes DEF StoreInv, StoreTypeOK, Script, Outcomes
  <2>2. /\ save'.task = "rollback" /\ save'.text = save.text /\ save'.oldText = save.oldText
        /\ save'.old = save.old /\ save'.oldState = save.oldState /\ save'.outcome = save.outcome
    BY <1>4, ThenFacts DEF StoreInv
  <2>3. (SavedStaysOnDisk /\ FieldsAreStored /\ SaveInv /\ ToldInv /\ RefusedInv)'
    BY <1>1, <1>2, <2>2 DEF StoreInv, SavedStaysOnDisk, FieldsAreStored, SaveInv, ToldInv, RefusedInv, Agree
  <2>4. QED BY <2>1, <2>3 DEF StoreInv
\* Nothing was promised of the script that stays.
<1>5. CASE Ends("half")
  <2>1. StoreTypeOK'
    BY <1>1, <1>2, <1>3, <1>5, EndsTypes DEF StoreInv, StoreTypeOK, Script, Outcomes
  <2>2. save'.task = "none" /\ save'.outcome = "half"
    BY <1>3, <1>5, EndsFacts
  <2>3. (SavedStaysOnDisk /\ FieldsAreStored /\ SaveInv /\ ToldInv /\ RefusedInv)'
    BY <1>1, <1>2, <2>2 DEF StoreInv, SavedStaysOnDisk, FieldsAreStored, SaveInv, ToldInv, RefusedInv, Agree
  <2>4. QED BY <2>1, <2>3 DEF StoreInv
<1>6. QED BY <1>1, <1>4, <1>5 DEF TakenBack

\* The old script is back: the word given before this save holds again.
LEMMA StepRolledBack ==
  ASSUME StoreInv, RolledBack
  PROVE  StoreInv'
<1>1. /\ save.task = "rollback" /\ script' = save.oldText /\ UNCHANGED <<state, server>>
      /\ Ends("refused") /\ leftOver' \subseteq {"script", "state"} \X Pids
  BY RenamedFacts, WritingTypes DEF RolledBack, StoreInv
<1>2. /\ history'.told.open = history.wasOpen /\ history'.told.text = history.told.text
      /\ history'.told.mem = history.told.mem
      /\ history' \in [asked : SUBSET Texts, wasOpen : BOOLEAN,
                       told : [text : Texts \cup {NoText}, mem : StoredState, open : BOOLEAN]]
  BY DEF RolledBack, StoreInv, StoreTypeOK
<1>3. "refused" \in Outcomes BY DEF Outcomes
<1>4. StoreTypeOK'
  BY <1>1, <1>2, <1>3, EndsTypes, FieldTypes DEF StoreInv, StoreTypeOK, Script, Outcomes
<1>5. /\ save'.task = "none" /\ save'.outcome = "refused"
      /\ save'.oldText = save.oldText /\ save'.oldState = save.oldState
  BY <1>1, <1>3, EndsFacts
<1>6. (SavedStaysOnDisk /\ FieldsAreStored /\ SaveInv /\ ToldInv /\ RefusedInv)'
  BY <1>1, <1>2, <1>5 DEF StoreInv, SavedStaysOnDisk, FieldsAreStored, SaveInv, ToldInv, RefusedInv, Agree
<1>7. QED BY <1>4, <1>6 DEF StoreInv

LEMMA StepNotRolledBack ==
  ASSUME StoreInv, NotRolledBack
  PROVE  StoreInv'
<1>1. /\ save.task = "rollback" /\ UNCHANGED <<script, state, server, history>> /\ Ends("half")
      /\ leftOver' \subseteq {"script", "state"} \X Pids
  BY WritingTypes DEF NotRolledBack, WriteFailed, StoreInv
<1>2. "half" \in Outcomes BY DEF Outcomes
<1>3. StoreTypeOK'
  BY <1>1, <1>2, EndsTypes DEF StoreInv, StoreTypeOK, Script, Outcomes
<1>4. save'.task = "none" /\ save'.outcome = "half"
  BY <1>1, <1>2, EndsFacts
<1>5. (SavedStaysOnDisk /\ FieldsAreStored /\ SaveInv /\ ToldInv /\ RefusedInv)'
  BY <1>1, <1>4 DEF StoreInv, SavedStaysOnDisk, FieldsAreStored, SaveInv, ToldInv, RefusedInv
<1>6. QED BY <1>3, <1>5 DEF StoreInv

-----------------------------------------------------------------------------
(* Suspensions, stop and start *)

LEMMA StepBeginOverride ==
  ASSUME StoreInv, BeginOverride
  PROVE  StoreInv'
<1>1. /\ save.task = "none" /\ server.up /\ UNCHANGED <<script, state, leftOver, history>>
      /\ Then("override")
  BY DEF BeginOverride
<1>2. /\ server' = [server EXCEPT !.mem = [server.mem EXCEPT !.override = ~server.mem.override]]
      /\ Agree(server'.mem, server.mem) /\ server'.up
  BY <1>1, FieldTypes DEF BeginOverride, StoreInv, StoreTypeOK, StoredState, Agree
<1>3. server' \in [up : BOOLEAN, pid : Pids, mem : StoredState, runs : Texts \cup {NoText}]
  BY <1>2, FieldTypes, StoredFacts DEF StoreInv, StoreTypeOK
<1>4. StoreTypeOK'
  <2>1. "override" \in Tasks \cup {"none"} BY DEF Tasks
  <2>2. QED BY <1>1, <1>3, <2>1, ThenTypes DEF StoreInv, StoreTypeOK, Script, Outcomes
<1>5. /\ save'.task = "override" /\ save'.oldText = save.oldText
      /\ save'.oldState = save.oldState /\ save'.outcome = save.outcome
  BY <1>1, ThenFacts DEF StoreInv
<1>6. (SavedStaysOnDisk /\ FieldsAreStored /\ SaveInv /\ ToldInv /\ RefusedInv)'
  BY <1>1, <1>2, <1>5 DEF StoreInv, SavedStaysOnDisk, FieldsAreStored, SaveInv, ToldInv, RefusedInv, Agree
<1>7. QED BY <1>4, <1>6 DEF StoreInv

\* Written or not, activation and revision stay what they were in both places.
LEMMA StepOverride ==
  ASSUME StoreInv, OverrideWritten \/ OverrideNotWritten
  PROVE  StoreInv'
<1>1. /\ save.task = "override" /\ server.up /\ UNCHANGED <<script, server, history>>
      /\ Then("none") /\ leftOver' \subseteq {"script", "state"} \X Pids
      /\ state' = server.mem \/ state' = state
  BY RenamedFacts, WritingTypes DEF OverrideWritten, OverrideNotWritten, WriteFailed, StoreInv
<1>2. Agree(state', state)
  BY <1>1 DEF StoreInv, FieldsAreStored, Agree
<1>3. StoreTypeOK'
  BY <1>1, ThenTypes, FieldTypes DEF StoreInv, StoreTypeOK, Script, Outcomes
<1>4. /\ save'.task = "none" /\ save'.oldText = save.oldText
      /\ save'.oldState = save.oldState /\ save'.outcome = save.outcome
  BY <1>1, ThenFacts DEF StoreInv
<1>5. (SavedStaysOnDisk /\ FieldsAreStored /\ SaveInv /\ ToldInv /\ RefusedInv)'
  BY <1>1, <1>2, <1>4 DEF StoreInv, SavedStaysOnDisk, FieldsAreStored, SaveInv, ToldInv, RefusedInv, Agree
<1>6. QED BY <1>3, <1>5 DEF StoreInv

LEMMA StepCrash ==
  ASSUME StoreInv, StoreCrash
  PROVE  StoreInv'
<1>1. /\ UNCHANGED <<script, state, leftOver, history>> /\ save' = NoSave
      /\ server' \in [up : BOOLEAN, pid : Pids, mem : StoredState, runs : Texts \cup {NoText}]
      /\ ~server'.up
  BY StoredFacts DEF StoreCrash, StoreInv, StoreTypeOK
<1>3. StoreTypeOK'
  BY <1>1, NoSaveTypes, ZenonT(30) DEF StoreInv, StoreTypeOK, Script, Outcomes
<1>4. (SavedStaysOnDisk /\ FieldsAreStored /\ SaveInv /\ ToldInv /\ RefusedInv)'
  BY <1>1 DEF StoreInv, SavedStaysOnDisk, FieldsAreStored, SaveInv, ToldInv, RefusedInv, NoSave
<1>5. QED BY <1>3, <1>4 DEF StoreInv

\* Only an installation that was never told of a script gets the example.
LEMMA StepStart ==
  ASSUME StoreInv, NEW pid \in Pids, NEW ok \in BOOLEAN, StoreStart(pid, ok)
  PROVE  StoreInv'
<1>1. /\ UNCHANGED <<script, state, leftOver, history>>
      /\ server'.mem = state
      /\ server' \in [up : BOOLEAN, pid : Pids, mem : StoredState, runs : Texts \cup {NoText}]
  BY DEF StoreStart, StoreInv, StoreTypeOK
<1>2. CASE script = NoText
  <2>1. save' = [NoSave EXCEPT !.task = "first", !.text = Example]
    BY <1>2 DEF StoreStart
  <2>2. /\ save'.task = "first" /\ save'.text = Example /\ save'.outcome = "none"
        /\ save' \in [task : Tasks \cup {"none"}, open : BOOLEAN, text : Texts \cup {NoText},
                      enabled : BOOLEAN, oldText : Texts \cup {NoText}, old : StoredState,
                      oldState : StoredState, outcome : {"none", "saved", "raised", "refused", "half"}]
    BY <2>1, StoredFacts, StoreAssumption DEF NoSave, Tasks
  <2>3. history.told.open
    BY <1>2, StoreAssumption DEF StoreInv, SavedStaysOnDisk, ToldInv
  <2>4. StoreTypeOK'
    BY <1>1, <2>2 DEF StoreInv, StoreTypeOK
  <2>5. (SavedStaysOnDisk /\ FieldsAreStored /\ SaveInv /\ ToldInv /\ RefusedInv)'
    BY <1>1, <2>2, <2>3 DEF StoreInv, SavedStaysOnDisk, FieldsAreStored, SaveInv, ToldInv, RefusedInv
  <2>6. QED BY <2>4, <2>5 DEF StoreInv
<1>3. CASE script # NoText
  <2>1. save' = NoSave
    BY <1>3 DEF StoreStart
  <2>3. StoreTypeOK'
    BY <1>1, <2>1, NoSaveTypes, ZenonT(30) DEF StoreInv, StoreTypeOK, Script, Outcomes
  <2>4. (SavedStaysOnDisk /\ FieldsAreStored /\ SaveInv /\ ToldInv /\ RefusedInv)'
    BY <1>1, <2>1 DEF StoreInv, SavedStaysOnDisk, FieldsAreStored, SaveInv, ToldInv, RefusedInv, NoSave
  <2>5. QED BY <2>3, <2>4 DEF StoreInv
<1>4. QED BY <1>2, <1>3

LEMMA StepExampleWritten ==
  ASSUME StoreInv, ExampleWritten
  PROVE  StoreInv'
<1>1. /\ save.task = "first" /\ script' = save.text /\ UNCHANGED <<state, history>>
      /\ Then("none") /\ leftOver' \subseteq {"script", "state"} \X Pids
  BY RenamedFacts, WritingTypes DEF ExampleWritten, StoreInv
<1>2. history.told.open /\ save.outcome = "none"
  BY <1>1 DEF StoreInv, SaveInv
<1>3. /\ server'.up = server.up /\ server'.mem = server.mem
      /\ server' \in [up : BOOLEAN, pid : Pids, mem : StoredState, runs : Texts \cup {NoText}]
  BY StoreAssumption DEF ExampleWritten, Loads, StoreInv, StoreTypeOK
<1>4. StoreTypeOK'
  BY <1>1, <1>3, ThenTypes, FieldTypes DEF StoreInv, StoreTypeOK, Script, Outcomes
<1>5. save'.task = "none" /\ save'.outcome = save.outcome
  BY <1>1, ThenFacts DEF StoreInv
<1>6. (SavedStaysOnDisk /\ FieldsAreStored /\ SaveInv /\ ToldInv /\ RefusedInv)'
  BY <1>1, <1>2, <1>3, <1>5 DEF StoreInv, SavedStaysOnDisk, FieldsAreStored, SaveInv, ToldInv, RefusedInv
<1>7. QED BY <1>4, <1>6 DEF StoreInv

LEMMA StepExampleNotWritten ==
  ASSUME StoreInv, ExampleNotWritten
  PROVE  StoreInv'
<1>1. /\ UNCHANGED <<script, state, server, history>> /\ save' = NoSave
      /\ save.task = "first" /\ leftOver' \subseteq {"script", "state"} \X Pids
  BY WritingTypes DEF ExampleNotWritten, WriteFailed, StoreInv
<1>3. StoreTypeOK'
  BY <1>1, NoSaveTypes, ZenonT(30) DEF StoreInv, StoreTypeOK, Script, Outcomes
<1>4. (SavedStaysOnDisk /\ FieldsAreStored /\ SaveInv /\ ToldInv /\ RefusedInv)'
  BY <1>1 DEF StoreInv, SavedStaysOnDisk, FieldsAreStored, SaveInv, ToldInv, RefusedInv, NoSave
<1>5. QED BY <1>3, <1>4 DEF StoreInv

LEMMA StoreInvNext == StoreInv /\ [StoreNext]_storeVars => StoreInv'
<1> SUFFICES ASSUME StoreInv, [StoreNext]_storeVars PROVE StoreInv'
  OBVIOUS
<1>1. ASSUME UNCHANGED storeVars PROVE StoreInv'
  BY <1>1 DEF storeVars, StoreInv, StoreTypeOK, SavedStaysOnDisk, FieldsAreStored, SaveInv, ToldInv, RefusedInv
<1>2. QED
  BY <1>1, StepOpenTemporary, StepBeginSave, StepScriptWritten, StepScriptNotWritten,
     StepStateWritten, StepStateNotWritten, StepRolledBack, StepNotRolledBack,
     StepBeginOverride, StepOverride, StepCrash, StepStart, StepExampleWritten,
     StepExampleNotWritten DEF StoreNext

LEMMA StoreInvInit == StoreInit => StoreInv
<1> SUFFICES ASSUME StoreInit PROVE StoreInv
  OBVIOUS
<1>1. (CHOOSE p \in Pids : TRUE) \in Pids
  BY StoreAssumption
<1>2. StoreTypeOK
  BY <1>1, StoredFacts DEF StoreInit, StoreTypeOK, NoSave, Tasks
<1>3. SavedStaysOnDisk /\ FieldsAreStored /\ SaveInv /\ ToldInv /\ RefusedInv
  BY DEF StoreInit, NoSave, SavedStaysOnDisk, FieldsAreStored, SaveInv, ToldInv, RefusedInv
<1>4. QED BY <1>2, <1>3 DEF StoreInv

LEMMA StoreInvSafe == StoreSpec => []StoreInv
  BY StoreInvInit, StoreInvNext, PTL DEF StoreSpec

(***************************************************************************)
(* Files, fields and the save in hand keep their types (StoreTypeOK).           *)
(***************************************************************************)
THEOREM StoreTypesCorrect == StoreSpec => []StoreTypeOK
<1>1. StoreInv => StoreTypeOK
  BY DEF StoreInv
<1>2. QED BY <1>1, StoreInvSafe, PTL

(***************************************************************************)
(* What a client was told of a save is true of the files and stays true    *)
(* (FilesKeepTheirWord): a saved script survives crashes and failed        *)
(* writes, a refused save has changed nothing unless taking it back failed *)
(* too or the old script was not read, and the server's fields never carry *)
(* what is not on disk, with and without a Lua state (saveScript,          *)
(* initialize).                                                            *)
(***************************************************************************)
THEOREM FilesKept == StoreSpec => []FilesKeepTheirWord
<1>1. StoreInv => FilesKeepTheirWord
  BY DEF StoreInv, FilesKeepTheirWord, RefusedInv, RefusedChangesNothing, Agree
<1>2. QED BY <1>1, StoreInvSafe, PTL
=============================================================================
