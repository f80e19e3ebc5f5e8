------------------------------ MODULE EditLock ------------------------------
(***************************************************************************)
(* The exclusive edit lock on the server's Lua script: the server          *)
(* (src/src/server/server.cpp, the automation_edit requests), the          *)
(* controller of each desklet (src/src/client/controller.cpp) and the      *)
(* dialog it serves (src/src/client/desklet.cpp, showAutomationSettings).  *)
(*                                                                         *)
(* Server and controllers talk over TCP: two ordered queues per            *)
(* connection, which end with the connection.  A client that has lost its  *)
(* connection may have a new one before the server notices; connections    *)
(* of one client are therefore told apart, as the server does.  The text   *)
(* of the script is abstracted to its revision.                            *)
(***************************************************************************)
EXTENDS Naturals, Sequences

CONSTANTS
    Clients,
    Nobody,         \* no connection
    MaxSessions,    \* bound: connections a client makes
    MaxRequests,    \* bound: edit requests a client makes
    MaxRevision     \* bound: the script's last revision

Conn == Clients \X (1..MaxSessions)

ASSUME NobodyAssumption == Nobody \notin Conn

ASSUME BoundsAssumption ==
    MaxSessions \in Nat /\ MaxRequests \in Nat /\ MaxRevision \in Nat \ {0}

Requests == [kind : {"begin", "save", "cancel"}, id : 0..MaxRequests, revision : 0..MaxRevision]
Replies  == [kind : {"edit", "saved"}, id : 1..MaxRequests, ok : BOOLEAN,
             revision : 0..MaxRevision]

VARIABLES
    editor,     \* automationEditor_: the connection that holds the lock
    revision,   \* AutomationEngine::revision_
    open,       \* clients_: the connections the server has
    inbox,      \* per connection: requests on their way to the server
    outbox,     \* per connection: replies on their way to the client
    session,    \* per client: the number of its last connection
    linked,     \* per client: the socket is in the connected state
    lastId,     \* nextAutomationRequestId_ - 1
    pending,    \* pendingAutomationRequestId_
    held,       \* automationEditHeld_
    dialog,     \* the dialog: lockHeld and saving
    base,       \* the revision the dialog was given
    cut         \* history: the settings have stopped the controller under the dialog

serverVars  == <<editor, revision, open>>
linkVars    == <<session, linked>>
requestVars == <<lastId, pending, held>>
dialogVars  == <<dialog, base, cut>>
vars        == <<serverVars, inbox, outbox, linkVars, requestVars, dialogVars>>

ConnOf(c) == <<c, session[c]>>

Init ==
    /\ editor = Nobody /\ revision = 1 /\ open = {}
    /\ inbox = [k \in Conn |-> <<>>] /\ outbox = [k \in Conn |-> <<>>]
    /\ session = [c \in Clients |-> 0] /\ linked = [c \in Clients |-> FALSE]
    /\ lastId = [c \in Clients |-> 0] /\ pending = [c \in Clients |-> 0]
    /\ held = [c \in Clients |-> FALSE]
    /\ dialog = [c \in Clients |-> "closed"] /\ base = [c \in Clients |-> 0]
    /\ cut = [c \in Clients |-> FALSE]

-----------------------------------------------------------------------------
(* The connection *)

Connect(c) ==
    /\ ~linked[c] /\ session[c] < MaxSessions
    /\ session' = [session EXCEPT ![c] = @ + 1]
    /\ linked' = [linked EXCEPT ![c] = TRUE]
    /\ open' = open \cup {<<c, session[c] + 1>>}
    /\ UNCHANGED <<editor, revision, inbox, outbox, requestVars, dialogVars>>

\* automationEditFailed, as the dialog takes it: it looks whether the lock is held.
TellFailure(c, heldNow) ==
    dialog' = IF dialog[c] = "closed" THEN dialog
              ELSE [dialog EXCEPT ![c] = IF heldNow THEN "editing" ELSE "waiting"]

\* The connection ends, and with it the request and the lock.  What was not read
\* yet is lost.
Unlink(c) ==
    /\ linked[c]
    /\ linked' = [linked EXCEPT ![c] = FALSE]
    /\ outbox' = [outbox EXCEPT ![ConnOf(c)] = <<>>]
    /\ held' = [held EXCEPT ![c] = FALSE]
    /\ pending' = [pending EXCEPT ![c] = 0]
    /\ UNCHANGED <<serverVars, inbox, session, lastId, base>>

\* The disconnected signal: the server has closed, the heartbeat was not answered,
\* or the network is gone.
Disconnect(c) ==
    /\ Unlink(c)
    /\ IF held[c] \/ pending[c] # 0 THEN TellFailure(c, FALSE) ELSE UNCHANGED dialog
    /\ UNCHANGED cut

\* Controller::stop, which the settings call before they show themselves, from the
\* tray over a dialog as well: the dialog is told nothing.  Afterwards it connects
\* again.
Stop(c) ==
    /\ Unlink(c)
    /\ cut' = [cut EXCEPT ![c] = dialog[c] # "closed"]
    /\ UNCHANGED dialog

\* Mutant: a connection takes its lock to the grave.
CloseKeepingLock(k) ==
    /\ k \in open
    /\ open' = open \ {k}
    /\ inbox' = [inbox EXCEPT ![k] = <<>>]
    /\ UNCHANGED <<editor, revision, outbox, linkVars, requestVars, dialogVars>>

(***************************************************************************)
(* closeClient: after the end of the stream, an error, or too much output. *)
(* Requests that arrive together with the end of the stream are not        *)
(* handled (readClient closes before it looks for lines).                  *)
(***************************************************************************)
CloseClient(k) ==
    /\ k \in open
    /\ open' = open \ {k}
    /\ inbox' = [inbox EXCEPT ![k] = <<>>]
    /\ editor' = IF editor = k THEN Nobody ELSE editor
    /\ UNCHANGED <<revision, outbox, linkVars, requestVars, dialogVars>>

-----------------------------------------------------------------------------
(* The controller and its dialog *)

\* Controller::send: what goes to a connection the server has closed is lost.
Send(c, kind, id, rev) ==
    inbox' = IF linked[c] /\ ConnOf(c) \in open
             THEN [inbox EXCEPT ![ConnOf(c)] =
                       Append(@, [kind |-> kind, id |-> id, revision |-> rev])]
             ELSE inbox

\* showAutomationSettings up to dialog.exec(), with beginAutomationEdit.
OpenDialog(c) ==
    /\ dialog[c] = "closed" /\ lastId[c] < MaxRequests
    /\ dialog' = [dialog EXCEPT ![c] = "waiting"]
    /\ IF pending[c] # 0 \/ held[c] \/ ~linked[c]
       THEN UNCHANGED <<inbox, lastId, pending>>
       ELSE /\ lastId' = [lastId EXCEPT ![c] = @ + 1]
            /\ pending' = [pending EXCEPT ![c] = lastId[c] + 1]
            /\ Send(c, "begin", lastId[c] + 1, 0)
    /\ UNCHANGED <<serverVars, outbox, linkVars, held, base, cut>>

\* Mutant: the lock is given up without a word to the server.
CancelSilently(c) ==
    /\ pending' = [pending EXCEPT ![c] = 0]
    /\ held' = [held EXCEPT ![c] = FALSE]
    /\ UNCHANGED inbox

CancelAutomationEdit(c) ==
    /\ pending' = [pending EXCEPT ![c] = 0]
    /\ held' = [held EXCEPT ![c] = FALSE]
    /\ Send(c, "cancel", 0, 0)

\* The dialog is cancelled: it gives the lock back if it knows that it has it.
CloseDialog(c) ==
    /\ dialog[c] # "closed"
    /\ dialog' = [dialog EXCEPT ![c] = "closed"]
    /\ cut' = [cut EXCEPT ![c] = FALSE]
    /\ IF dialog[c] \in {"editing", "saving"}
       THEN CancelAutomationEdit(c)
       ELSE UNCHANGED <<inbox, pending, held>>
    /\ UNCHANGED <<serverVars, outbox, linkVars, lastId, base>>

\* The dialog's save button, with saveAutomationEdit.
SaveDialog(c) ==
    /\ dialog[c] = "editing" /\ lastId[c] < MaxRequests
    /\ IF pending[c] # 0
       THEN /\ dialog' = [dialog EXCEPT ![c] = "saving"]
            /\ UNCHANGED <<inbox, lastId, pending>>
       ELSE IF held[c] /\ linked[c]
       THEN /\ dialog' = [dialog EXCEPT ![c] = "saving"]
            /\ lastId' = [lastId EXCEPT ![c] = @ + 1]
            /\ pending' = [pending EXCEPT ![c] = lastId[c] + 1]
            /\ Send(c, "save", lastId[c] + 1, base[c])
       ELSE TellFailure(c, held[c]) /\ UNCHANGED <<inbox, lastId, pending>>
    /\ UNCHANGED <<serverVars, outbox, linkVars, held, base, cut>>

\* Mutant: the time-out is not told to the dialog.
WatchdogSilent(c) ==
    /\ pending[c] # 0
    /\ CancelAutomationEdit(c)
    /\ UNCHANGED <<dialogVars, serverVars, outbox, linkVars, lastId>>

\* automationWatchdog_: no reply for 10 seconds.
Watchdog(c) ==
    /\ pending[c] # 0
    /\ CancelAutomationEdit(c)
    /\ TellFailure(c, FALSE)
    /\ UNCHANGED <<serverVars, outbox, linkVars, lastId, base, cut>>

(***************************************************************************)
(* handleEnvelope for the replies; one with another id than the pending    *)
(* one is too late and ignored.                                            *)
(***************************************************************************)
Receive(c) ==
    LET reply == Head(outbox[ConnOf(c)]) IN
    /\ linked[c] /\ outbox[ConnOf(c)] # <<>>
    /\ outbox' = [outbox EXCEPT ![ConnOf(c)] = Tail(@)]
    /\ IF reply.id # pending[c]
       THEN UNCHANGED <<pending, held, dialogVars>>
       ELSE /\ pending' = [pending EXCEPT ![c] = 0] /\ UNCHANGED cut
            /\ \/ /\ ~reply.ok
                  /\ TellFailure(c, held[c])
                  /\ UNCHANGED <<held, base>>
               \/ /\ reply.ok /\ reply.kind = "edit"
                  /\ held' = [held EXCEPT ![c] = TRUE]
                  /\ IF dialog[c] = "closed" THEN UNCHANGED <<dialog, base>>
                     ELSE /\ dialog' = [dialog EXCEPT ![c] = "editing"]
                          /\ base' = [base EXCEPT ![c] = reply.revision]
               \/ /\ reply.ok /\ reply.kind = "saved"
                  /\ held' = [held EXCEPT ![c] = FALSE]
                  /\ dialog' = [dialog EXCEPT ![c] = "closed"]
                  /\ UNCHANGED base
    /\ UNCHANGED <<serverVars, inbox, linkVars, lastId>>

-----------------------------------------------------------------------------
(* The server *)

\* AirCtrlServer::send to connection k, if the client still reads it.
Reply(k, kind, id, ok, rev) ==
    outbox' = IF linked[k[1]] /\ session[k[1]] = k[2]
              THEN [outbox EXCEPT ![k] =
                        Append(@, [kind |-> kind, id |-> id, ok |-> ok, revision |-> rev])]
              ELSE outbox

\* The first request of connection k is of this kind.
Handling(k, kind) ==
    /\ k \in open /\ inbox[k] # <<>> /\ Head(inbox[k]).kind = kind
    /\ inbox' = [inbox EXCEPT ![k] = Tail(@)]
    /\ UNCHANGED <<open, linkVars, requestVars, dialogVars>>

\* Mutant: whoever asks last has the lock.
HandleBeginAlways(k) ==
    LET request == Head(inbox[k]) IN
    /\ Handling(k, "begin")
    /\ editor' = k
    /\ Reply(k, "edit", request.id, TRUE, revision)
    /\ UNCHANGED revision

\* automation_edit_begin: refused when another connection edits, or when the
\* script cannot be read.
HandleBegin(k) ==
    LET request == Head(inbox[k]) IN
    /\ Handling(k, "begin")
    /\ \/ /\ editor \in {Nobody, k}
          /\ editor' = k
          /\ Reply(k, "edit", request.id, TRUE, revision)
       \/ /\ UNCHANGED editor
          /\ Reply(k, "edit", request.id, FALSE, 0)
    /\ UNCHANGED revision

\* Mutant: saveScript and its caller both advance the revision.
HandleSaveTwice(k) ==
    LET request == Head(inbox[k]) IN
    /\ Handling(k, "save")
    /\ editor = k /\ request.revision = revision /\ revision < MaxRevision
    /\ revision' = revision + 2
    /\ editor' = Nobody
    /\ Reply(k, "saved", request.id, TRUE, revision + 2)

(***************************************************************************)
(* automation_edit_save.  saveScript may refuse the script or fail to      *)
(* write it; it may also store it, advance the revision and then fail to   *)
(* load it, which it reports as a failure as well.                         *)
(***************************************************************************)
HandleSave(k) ==
    LET request == Head(inbox[k]) IN
    /\ Handling(k, "save")
    /\ \/ /\ editor = k /\ request.revision = revision /\ revision < MaxRevision
          /\ revision' = revision + 1
          /\ \/ /\ editor' = Nobody
                /\ Reply(k, "saved", request.id, TRUE, revision + 1)
             \/ /\ UNCHANGED editor
                /\ Reply(k, "saved", request.id, FALSE, 0)
       \/ /\ UNCHANGED <<editor, revision>>
          /\ Reply(k, "saved", request.id, FALSE, 0)

\* Mutant: the owner is not reset.
HandleCancelKeepingLock(k) ==
    Handling(k, "cancel") /\ UNCHANGED <<editor, revision, outbox>>

\* automation_edit_cancel; its reply changes nothing at the client.
HandleCancel(k) ==
    /\ Handling(k, "cancel")
    /\ editor' = IF editor = k THEN Nobody ELSE editor
    /\ UNCHANGED <<revision, outbox>>

-----------------------------------------------------------------------------

User(c)       == OpenDialog(c) \/ CloseDialog(c) \/ SaveDialog(c)
Controller(c) == Receive(c) \/ Watchdog(c)
Server(k)     == HandleBegin(k) \/ HandleSave(k) \/ HandleCancel(k)

Next ==
    \/ \E c \in Clients : User(c) \/ Controller(c) \/ Connect(c) \/ Disconnect(c) \/ Stop(c)
    \/ \E k \in Conn : Server(k) \/ CloseClient(k)

Spec == Init /\ [][Next]_vars

\* The client has left connection k, or the server has closed it: the other notices.
Left(k)    == ~(linked[k[1]] /\ session[k[1]] = k[2])
Dropped(c) == ConnOf(c) \notin open

(***************************************************************************)
(* Both ends serve what arrives, the watchdog rings, and the end of a      *)
(* connection is noticed.  No user has to do anything, and no client has   *)
(* to connect.                                                             *)
(***************************************************************************)
FairSpec ==
    /\ Spec
    /\ \A c \in Clients : /\ WF_vars(Controller(c))
                          /\ WF_vars(Dropped(c) /\ Disconnect(c))
    /\ \A k \in Conn : WF_vars(Server(k)) /\ WF_vars(Left(k) /\ CloseClient(k))

-----------------------------------------------------------------------------
(* Properties *)

TypeOK ==
    /\ editor \in Conn \cup {Nobody} /\ revision \in 1..MaxRevision /\ open \subseteq Conn
    /\ inbox \in [Conn -> Seq(Requests)] /\ outbox \in [Conn -> Seq(Replies)]
    /\ session \in [Clients -> 0..MaxSessions] /\ linked \in [Clients -> BOOLEAN]
    /\ lastId \in [Clients -> 0..MaxRequests] /\ pending \in [Clients -> 0..MaxRequests]
    /\ held \in [Clients -> BOOLEAN]
    /\ dialog \in [Clients -> {"closed", "waiting", "editing", "saving"}]
    /\ base \in [Clients -> 0..MaxRevision] /\ cut \in [Clients -> BOOLEAN]

Holds(queue, Test(_)) == \E i \in DOMAIN queue : Test(queue[i])

(***************************************************************************)
(* A controller that believes to hold the lock is right, as long as its    *)
(* connection lasts: the server says the same, unless it has just stored   *)
(* the script and the reply is on its way.                                 *)
(***************************************************************************)
HeldIsOwned ==
    \A c \in Clients :
        LET Stored(reply) == reply.kind = "saved" /\ reply.ok /\ reply.id = pending[c] IN
        linked[c] /\ held[c] /\ ConnOf(c) \in open =>
            editor = ConnOf(c) \/ Holds(outbox[ConnOf(c)], Stored)

(***************************************************************************)
(* The lock is never forgotten: its connection is open, and the client of  *)
(* that connection, unless it has left it, holds the lock, is about to be  *)
(* told, or has sent its cancellation.                                     *)
(***************************************************************************)
LockIsKnown ==
    \A c \in Clients :
        LET Granted(reply) == reply.kind = "edit" /\ reply.ok /\ reply.id = pending[c]
            Cancel(request) == request.kind = "cancel"
        IN linked[c] /\ editor = ConnOf(c) =>
               \/ held[c]
               \/ Holds(outbox[ConnOf(c)], Granted)
               \/ Holds(inbox[ConnOf(c)], Cancel)

(***************************************************************************)
(* A dialog that waits for the result of a save has a request pending, so  *)
(* that the reply or the watchdog ends its waiting, unless the settings    *)
(* have stopped the controller under it (saveAutomationEdit, the watchdog, *)
(* the disconnected signal).                                               *)
(***************************************************************************)
SavingIsPending ==
    \A c \in Clients : dialog[c] = "saving" /\ ~cut[c] => pending[c] # 0 /\ held[c]

\* The same of every dialog that saves.  The code does not keep this: the settings
\* end the waiting of the controller alone; see README.md.
SavingIsAnswered ==
    \A c \in Clients : dialog[c] = "saving" => pending[c] # 0 /\ held[c]

\* A connection that its client has left does not keep the lock
\* (closeClient; docs/LUA_AUTOMATION.md: a broken connection frees the lock).
DisconnectReleases ==
    \A k \in Conn : (editor = k /\ Left(k)) ~> editor # k

\* Once the controller has given up the lock the server frees it
\* (automation_edit_cancel, unless another request for it follows).
CancelReleases ==
    \A c \in Clients :
        (editor = ConnOf(c) /\ ~held[c] /\ pending[c] = 0)
            ~> (editor # ConnOf(c) \/ held[c] \/ pending[c] # 0)

(***************************************************************************)
(* Two things the documentation says that the code does not keep.          *)
(*                                                                         *)
(* "Cancelling ... frees the lock automatically" (docs/LUA_AUTOMATION.md): *)
(* a dialog that was closed leaves no lock behind.                         *)
(***************************************************************************)
ClosingReleases ==
    \A c \in Clients :
        (dialog[c] = "closed" /\ editor = ConnOf(c))
            ~> (dialog[c] # "closed" \/ editor # ConnOf(c))

(***************************************************************************)
(* "After a failed check the lock is kept, so that the text can be         *)
(* corrected and saved again" (docs/LUA_AUTOMATION.md): while a dialog     *)
(* edits under the lock and nothing is on its way, its revision is the     *)
(* server's, so that saving is not refused as a conflict.                  *)
(***************************************************************************)
RetryPossible ==
    \A c \in Clients :
        /\ dialog[c] = "editing" /\ linked[c] /\ editor = ConnOf(c)
        /\ inbox[ConnOf(c)] = <<>> /\ outbox[ConnOf(c)] = <<>>
        => base[c] = revision

=============================================================================
