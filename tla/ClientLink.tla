----------------------------- MODULE ClientLink -----------------------------
(***************************************************************************)
(* The server and its connections: accept, read, write, close, and the     *)
(* messages to all of them (src/src/server/server.cpp).                    *)
(*                                                                         *)
(* Everything runs in the main thread, one handler after the other.  A     *)
(* handler that sends may close the connection it sends to, and closing    *)
(* the connection of the editor sends to all others, within the handler.   *)
(* The handlers are operators on the record server.  Output is counted in  *)
(* messages; the script of a grant counts for two.                         *)
(***************************************************************************)
EXTENDS Naturals, Sequences, SequencesExt, FiniteSets

CONSTANTS
    MaxClients,     \* bound: connections, numbered as they come
    MaxOutput,      \* maximumOutputSize
    MaxLines        \* bound: lines that one read finds

ClientAssumption == MaxClients \in Nat /\ MaxOutput \in Nat /\ MaxLines \in Nat

Ids == 1..MaxClients
LineKinds == {"begin", "save", "cancel", "ping", "long"}

\* What a client was last told of the edit lock.
Told == {"nothing", "free", "busy"}

VARIABLES
    server,     \* clients_ (open, out, closing), automationEditor_, nextClient_, quit
    told,       \* history: per client, the last editor_busy sent to it
    actor       \* history: the connection the step was about, 0 for none

vars == <<server, told, actor>>

-----------------------------------------------------------------------------
(* The functions of the program, on s = [server, told].                    *)

Busy(s) == IF s.editor = 0 THEN "free" ELSE "busy"

RECURSIVE CloseClient(_, _, _), Send(_, _, _, _, _), Broadcast(_, _, _, _)

\* closeClient.  unordered_map has no order: order is the one it happens to have.
CloseClient(s, id, order) ==
    LET d == [s EXCEPT !.open = @ \ {id}, !.out[id] = 0, !.closing[id] = FALSE]
        e == IF s.editor # id THEN d
             ELSE Broadcast([d EXCEPT !.editor = 0], "free", SelectSeq(order, LAMBDA c : c \in d.open), order)
    IN  IF id \notin s.open THEN s ELSE [e EXCEPT !.quit = @ \/ e.open = {}]

\* send: size messages, the last tells about the edit lock.
Send(s, id, size, lock, order) ==
    LET d == [s EXCEPT !.out[id] = @ + size, !.told[id] = IF lock = "nothing" THEN @ ELSE lock]
    IN  IF id \notin s.open THEN s
        ELSE IF d.out[id] > MaxOutput THEN CloseClient(d, id, order) ELSE d

\* broadcast: to the clients there were when it began.
Broadcast(s, lock, ids, order) ==
    IF ids = <<>> THEN s
    ELSE Broadcast(Send(s, Head(ids), 1, lock, order), lock, Tail(ids), order)

\* broadcastAutomationState, and a status or a state for all.
BroadcastAutomationState(s, order) ==
    Broadcast(s, Busy(s), SelectSeq(order, LAMBDA c : c \in s.open), order)
BroadcastOther(s, order) == Broadcast(s, "nothing", SelectSeq(order, LAMBDA c : c \in s.open), order)

\* flushClient: the network takes taken messages, or fails.
FlushClient(s, id, taken, fails, order) ==
    LET d == [s EXCEPT !.out[id] = @ - taken]
    IN  IF id \notin s.open THEN s
        ELSE IF d.out[id] > 0 /\ ~fails THEN d
        ELSE IF d.out[id] > 0 \/ d.closing[id] THEN CloseClient(d, id, order) ELSE d

\* handle, by kind.
Begin(s, id, order) ==
    IF s.editor \notin {0, id} THEN Send(s, id, 1, "nothing", order)
    ELSE BroadcastAutomationState(Send([s EXCEPT !.editor = id], id, 2, "nothing", order), order)

Cancel(s, id, order) ==
    LET d == Send([s EXCEPT !.editor = IF @ = id THEN 0 ELSE @], id, 1, "nothing", order)
    IN  IF s.editor = id THEN BroadcastAutomationState(d, order) ELSE d

Save(s, id, saved, order) ==
    IF s.editor # id \/ ~saved THEN Send(s, id, 1, "nothing", order)
    ELSE BroadcastAutomationState(Send([s EXCEPT !.editor = 0], id, 1, "nothing", order), order)

Handle(s, id, request, saved, order) ==
    CASE request = "begin"  -> Begin(s, id, order)
      [] request = "cancel" -> Cancel(s, id, order)
      [] request = "save"   -> Save(s, id, saved, order)
      [] request = "ping"   -> Send(s, id, 1, "nothing", order)

\* readClient: the lines one after the other, as long as the client is there.
\* MUTANT: also without it.
HandleAll(s, id, lines, saved, order) ==
    FoldLeft(LAMBDA d, line : Handle(d, id, line, saved, order), s, lines)

HandleLines(s, id, lines, saved, order) ==
    FoldLeft(LAMBDA d, line : IF id \in d.open THEN Handle(d, id, line, saved, order) ELSE d, s, lines)

\* Input that is too long is answered, stays, and the connection closes when the
\* answer is sent.
ReadClient(s, id, lines, saved, taken, order) ==
    LET long == s.closing[id] \/ \E i \in 1..Len(lines) : lines[i] = "long"
        d == IF long
             THEN LET e == Send(s, id, 1, "nothing", order)
                  IN  IF id \in e.open THEN [e EXCEPT !.closing[id] = TRUE] ELSE e
             ELSE HandleLines(s, id, lines, saved, order)
    IN  FlushClient(d, id, IF taken < d.out[id] THEN taken ELSE d.out[id], FALSE, order)

-----------------------------------------------------------------------------
Lines  == UNION {[1..n -> LineKinds] : n \in 1..MaxLines}
Orders == {o \in [1..MaxClients -> Ids] : Cardinality({o[i] : i \in 1..MaxClients}) = MaxClients}

Fields == [open |-> server.open, out |-> server.out, closing |-> server.closing,
           editor |-> server.editor, next |-> server.next, quit |-> server.quit, told |-> told]

Becomes(s) ==
    /\ server' = [open |-> s.open, out |-> s.out, closing |-> s.closing, editor |-> s.editor,
                  next |-> s.next, quit |-> s.quit]
    /\ told' = s.told

\* acceptClients: state, status and automation state, and what of it the network takes.
Accept(taken, order) ==
    LET id == server.next
        s  == Send(Send([Fields EXCEPT !.open = @ \cup {id}, !.next = @ + 1],
                        id, 2, "nothing", order), id, 1, Busy(server), order)
    IN  /\ id \in Ids
        /\ Becomes(FlushClient(s, id, IF taken < s.out[id] THEN taken ELSE s.out[id], FALSE, order))
        /\ actor' = id

\* Whatever the client has sent by then.
DoRead(id, lines, saved, taken, order) ==
    /\ id \in server.open
    /\ Becomes(ReadClient(Fields, id, lines, saved, taken, order))
    /\ actor' = id

\* End of file, or an error of the socket: what was read before it is not handled.
Hangup(id, order) ==
    /\ id \in server.open
    /\ Becomes(CloseClient(Fields, id, order))
    /\ actor' = id

DoFlush(id, taken, fails, order) ==
    /\ id \in server.open /\ server.out[id] > 0
    /\ taken \in IF fails THEN {0} ELSE 1..server.out[id]
    /\ Becomes(FlushClient(Fields, id, taken, fails, order))
    /\ actor' = id

\* processEvents: a status, a state, an alarm for all.
Event(order) == server.open # {} /\ Becomes(BroadcastOther(Fields, order)) /\ actor' = 0
AutomationEvent(order) ==
    server.open # {} /\ Becomes(BroadcastAutomationState(Fields, order)) /\ actor' = 0

Init ==
    /\ server = [open |-> {}, out |-> [i \in Ids |-> 0], closing |-> [i \in Ids |-> FALSE],
                 editor |-> 0, next |-> 1, quit |-> FALSE]
    /\ told = [i \in Ids |-> "nothing"] /\ actor = 0

Next ==
    /\ ~server.quit
    /\ \E order \in Orders :
          \/ Event(order) \/ AutomationEvent(order)
          \/ \E n \in 0..3 : Accept(n, order)
          \/ \E id \in Ids :
                \/ Hangup(id, order)
                \/ \E lines \in Lines, n \in {0, MaxOutput}, b \in BOOLEAN :
                      DoRead(id, lines, b, n, order)
                \/ \E n \in 0..MaxOutput, b \in BOOLEAN : DoFlush(id, n, b, order)

Spec == Init /\ [][Next]_vars

-----------------------------------------------------------------------------
(* The edit lock is free or with a connected client: a grant that closes   *)
(* the connection it is sent to leaves no lock behind that nobody could    *)
(* give back, nor does a request of a client that is gone by then          *)
(* (server.cpp:544-548, 519-521).                                          *)
EditorIsConnected == server.editor = 0 \/ server.editor \in server.open

(* While a client edits, every client knows (docs/IPC_PROTOCOL.md:57), in  *)
(* whatever order lists of clients are gone through and connections close. *)
BusyIsKnown == server.editor # 0 => \A id \in server.open : told[id] = "busy"

(* The lock ends by its holder alone: a step that reads or closes another  *)
(* connection takes it from nobody, as long as the holder can be written   *)
(* to (docs/IPC_PROTOCOL.md, "Gleichzeitig besitzt hoechstens eine         *)
(* TCP-Verbindung die Editier-Sperre").                                    *)
OnlyTheHolderEnds ==
    [][server.editor \notin {0, server'.editor}
          => actor' = server.editor \/ server.editor \notin server'.open]_vars

(* The lock has one holder, who is there, whom everybody knows and who     *)
(* alone gives it back.                                                    *)
LockHasItsHolder == [](EditorIsConnected /\ BusyIsKnown) /\ OnlyTheHolderEnds

(* The automation state sent last to a client is the one that holds: a     *)
(* lock that was given back is known to be free (docs/IPC_PROTOCOL.md:57,  *)
(* "Serverweiter Lua-Zustand").                                            *)
(* The code does not keep this; see README.md.                             *)
FreeIsKnown == server.editor = 0 => \A id \in server.open : told[id] = "free"
=============================================================================
