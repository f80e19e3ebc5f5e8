----------------------------- MODULE ServerLink -----------------------------
(***************************************************************************)
(* How the desklet keeps its connection to the server: resolve the name,   *)
(* try its addresses, watch the connection with pings and start again      *)
(* after every failure (src/src/client/controller.cpp).                    *)
(*                                                                         *)
(* Qt calls the handlers one at a time; aborting a connected socket calls  *)
(* the handler of "disconnected" at once, within the caller.  The handlers *)
(* are operators on the record link; those that may connect at once return *)
(* the set of records the network allows.                                  *)
(***************************************************************************)
EXTENDS Naturals

CONSTANTS
    Invalid,        \* a name or port that cannot be one
    Numeric, Names, \* servers given by address, by name
    NoHost,
    Executable,     \* a test server is started where none listens
    MaxAddresses,   \* bound: addresses of a name
    MaxCalls        \* bound: calls of the window

ASSUME LinkAssumption ==
    Executable \in BOOLEAN /\ MaxAddresses \in Nat /\ MaxCalls \in Nat /\ Names # {}

Hosts == {Invalid} \cup Numeric \cup Names

VARIABLES
    link,       \* the fields of Controller, its timers, its socket and its look-ups
    up,         \* the server can be reached and answers
    calls       \* calls of the window so far

linkVars == <<link, up, calls>>

-----------------------------------------------------------------------------
(* The functions of the program.                                           *)

\* connectionFailed.  MUTANT: only a failure that is reported is retried.
ConnectionFailedOnce(c) ==
    [c EXCEPT !.reported = TRUE,
              !.timers = IF c.active /\ ~c.reported THEN @ \cup {"reconnect"} ELSE @]

ConnectionFailed(c) ==
    [c EXCEPT !.reported = TRUE, !.timers = IF c.active THEN @ \cup {"reconnect"} ELSE @]

\* ++lookupGeneration_: the answer still to come is of no use.
Outdated(c) == [c EXCEPT !.stale = @ \cup ({c.lookup} \ {NoHost}), !.lookup = NoHost]

\* The signals connected and disconnected.
Connected(c) ==
    [c EXCEPT !.sock = "connected", !.connecting = FALSE, !.left = 0, !.reported = FALSE,
              !.timers = (@ \ {"connect", "pong"}) \cup {"heartbeat"}]

Disconnected(c) ==
    LET d == [c EXCEPT !.timers = @ \ {"connect", "heartbeat", "pong"}, !.launched = FALSE]
    IN  IF c.connecting THEN c ELSE IF d.active THEN ConnectionFailed(d) ELSE d

Abort(c) ==
    LET d == [c EXCEPT !.sock = "unconnected"]
    IN  IF c.sock = "connected" THEN Disconnected(d) ELSE d

\* connectToHost; the loopback may connect before it returns, and a socket in
\* use refuses.
ToHost(c) ==
    LET d == [c EXCEPT !.sock = "connecting", !.target = c.of]
    IN  IF c.sock # "unconnected" THEN {c}
        ELSE {d} \cup (IF up THEN {Connected(d)} ELSE {})

\* tryNextAddress.
TryNextAddress(c) ==
    IF ~c.active THEN {c}
    ELSE IF c.left = 0 THEN {ConnectionFailed([c EXCEPT !.connecting = FALSE])}
    ELSE ToHost([c EXCEPT !.left = @ - 1, !.connecting = TRUE, !.timers = @ \cup {"connect"}])

ConnectServer(c) ==
    IF ~c.active \/ c.resolving \/ c.connecting \/ c.sock # "unconnected" THEN {c}
    ELSE IF c.host = Invalid THEN {ConnectionFailed(c)}
    ELSE IF c.host \in Numeric THEN TryNextAddress([c EXCEPT !.left = 1, !.of = c.host])
    ELSE {[Outdated(c) EXCEPT !.resolving = TRUE, !.lookup = c.host, !.timers = @ \cup {"connect"}]}

\* The answer of the resolver: n addresses of host.
\* MUTANT: to whichever look-up.
LookedUpLate(c, host, current, n) ==
    LET d == [c EXCEPT !.resolving = FALSE, !.timers = @ \ {"connect"}, !.left = n, !.of = host]
    IN  IF ~c.active THEN {c}
        ELSE IF n = 0 THEN {ConnectionFailed(d)} ELSE TryNextAddress(d)

LookedUp(c, host, current, n) ==
    LET d == [c EXCEPT !.resolving = FALSE, !.timers = @ \ {"connect"}, !.left = n, !.of = host]
    IN  IF ~c.active \/ ~current THEN {c}
        ELSE IF n = 0 THEN {ConnectionFailed(d)} ELSE TryNextAddress(d)

\* connectWatchdog_.
ConnectExpired(c) ==
    IF c.resolving THEN {ConnectionFailed([Outdated(c) EXCEPT !.resolving = FALSE])}
    ELSE IF c.connecting THEN TryNextAddress(Abort(c))
    ELSE {ConnectionFailed(Abort(c))}

\* errorOccurred of an attempt, with launchServer.
AttemptFailed(c, refused) ==
    LET d == [c EXCEPT !.sock = "unconnected", !.timers = @ \ {"connect"}]
        e == [d EXCEPT !.connecting = FALSE, !.launched = TRUE]
    IN  IF ~c.active THEN {c}
        ELSE IF Executable /\ ~c.launched /\ refused
             THEN {[f EXCEPT !.timers = @ \cup {"reconnect"}] : f \in {e, ConnectionFailed(e)}}
             ELSE TryNextAddress(d)

\* configure.
Configure(c, host) ==
    LET d == Abort([Outdated(c) EXCEPT !.host = host, !.resolving = FALSE, !.connecting = FALSE,
                                       !.left = 0, !.timers = @ \ {"connect"}])
    IN  IF host = c.host \/ ~c.active THEN {[c EXCEPT !.host = host]}
        ELSE ConnectServer([d EXCEPT !.timers = @ \ {"reconnect"}])

\* stop.
Stop(c) ==
    Abort([Outdated(c) EXCEPT !.active = FALSE, !.resolving = FALSE, !.connecting = FALSE,
                              !.left = 0, !.scheduled = FALSE, !.timers = {}])

\* sendHeartbeat.  MUTANT: nobody waits for the answer.
PingUnwatched(c) == c
Ping(c) == IF ~c.active \/ c.sock # "connected" THEN c ELSE [c EXCEPT !.timers = @ \cup {"pong"}]

\* refresh, when the event loop gets to it.
RefreshNow(c) ==
    LET d == [c EXCEPT !.scheduled = FALSE, !.shots = @ - 1]
    IN  IF ~c.active \/ c.sock = "connected" THEN {d}
        ELSE ConnectServer([d EXCEPT !.timers = @ \ {"reconnect"}])

-----------------------------------------------------------------------------
(* The calls of the window.                                                *)

Call == calls < MaxCalls /\ calls' = calls + 1 /\ UNCHANGED up

DoStart ==
    /\ Call /\ ~link.active
    /\ link' \in ConnectServer([link EXCEPT !.active = TRUE, !.launched = FALSE])
DoStop == Call /\ link' = Stop(link)
DoConfigure(host) == Call /\ link' \in Configure(link, host)
Refresh ==
    /\ Call /\ link.active /\ ~link.scheduled
    /\ link' = [link EXCEPT !.scheduled = TRUE, !.shots = @ + 1]

(* What Qt calls.                                                          *)

Running == UNCHANGED <<up, calls>>
Expired(timer) == [link EXCEPT !.timers = @ \ {timer}]

DoRefresh == Running /\ link.shots > 0 /\ link' \in RefreshNow(link)

ReconnectTimeout ==
    Running /\ "reconnect" \in link.timers /\ link' \in ConnectServer(Expired("reconnect"))

\* A server that can be reached answers in time.
ConnectTimeout ==
    /\ Running /\ "connect" \in link.timers
    /\ up => ~link.resolving /\ (link.connecting => link.left > 0)
    /\ link' \in ConnectExpired(Expired("connect"))

Lookup(n) ==
    /\ Running /\ link.lookup # NoHost /\ (up => n > 0)
    /\ link' \in LookedUp([link EXCEPT !.lookup = NoHost], link.lookup, TRUE, n)

StaleLookup(host, n) ==
    /\ Running /\ host \in link.stale
    /\ link' \in LookedUp([link EXCEPT !.stale = @ \ {host}], host, FALSE, n)

Attempt == Running /\ link.sock = "connecting" /\ up /\ link' = Connected(link)

\* Of several addresses the last one answers for certain.
AttemptError(refused) ==
    /\ Running /\ link.sock = "connecting" /\ (up => link.left > 0)
    /\ link' \in AttemptFailed(link, refused)

\* The server closes, the network fails, or the server sends what is no message.
Closed ==
    /\ Running /\ link.sock = "connected" /\ ~up
    /\ \/ link' = Disconnected([link EXCEPT !.sock = "unconnected"])
       \/ link' = Abort(ConnectionFailed(link))
       \/ link' = ConnectionFailed(Abort(link))

HeartbeatTimeout ==
    Running /\ "heartbeat" \in link.timers /\ link' = Ping(Expired("heartbeat"))

Pong ==
    /\ Running /\ up /\ "pong" \in link.timers
    /\ link' = [link EXCEPT !.timers = (@ \ {"pong"}) \cup {"heartbeat"}]

PongTimeout ==
    /\ Running /\ ~up /\ "pong" \in link.timers
    /\ link' = IF ~link.active \/ link.sock # "connected" THEN Expired("pong")
               ELSE Abort(ConnectionFailed(Expired("pong")))

ServerUpOrDown == up' = ~up /\ UNCHANGED <<link, calls>>

LinkInit ==
    /\ link = [active |-> FALSE, host |-> CHOOSE h \in Names : TRUE, sock |-> "unconnected",
               target |-> NoHost, resolving |-> FALSE, connecting |-> FALSE, left |-> 0,
               of |-> NoHost, timers |-> {}, launched |-> FALSE, reported |-> FALSE,
               scheduled |-> FALSE, shots |-> 0, lookup |-> NoHost, stale |-> {}]
    /\ up \in BOOLEAN /\ calls = 0

LinkNext ==
    \/ DoStart \/ DoStop \/ Refresh \/ DoRefresh \/ ReconnectTimeout \/ ConnectTimeout
    \/ Attempt \/ Closed \/ HeartbeatTimeout \/ Pong \/ PongTimeout \/ ServerUpOrDown
    \/ \E h \in Hosts : DoConfigure(h)
    \/ \E n \in 0..MaxAddresses : Lookup(n) \/ \E h \in Hosts : StaleLookup(h, n)
    \/ \E b \in BOOLEAN : AttemptError(b)

\* Timers expire, the resolver answers, what is sent to a reachable server arrives.
LinkSpec ==
    /\ LinkInit /\ [][LinkNext]_linkVars
    /\ WF_linkVars(ReconnectTimeout) /\ WF_linkVars(ConnectTimeout) /\ WF_linkVars(Attempt)
    /\ WF_linkVars(HeartbeatTimeout) /\ WF_linkVars(Pong) /\ WF_linkVars(PongTimeout)
    /\ WF_linkVars(\E n \in 0..MaxAddresses : Lookup(n))

-----------------------------------------------------------------------------
(* Without a connection something is always under way that leads to the    *)
(* next attempt, with one the next ping or its answer is: no order of      *)
(* failures, settings and refreshes leaves the desklet waiting for nothing *)
(* (controller.cpp:238-246).                                               *)
NeverIdle ==
    link.active =>
        IF link.sock = "connected" THEN link.timers \cap {"heartbeat", "pong"} # {}
        ELSE \/ "reconnect" \in link.timers
             \/ (link.resolving \/ link.connecting) /\ "connect" \in link.timers

(* The watchdog of an attempt does not outlive it: it would take down the  *)
(* connection that came about (controller.cpp:222-224).                    *)
WatchdogOfAnAttempt == "connect" \in link.timers => link.resolving \/ link.connecting

(* The timers fit what is under way.                                       *)
AlwaysUnderWay == NeverIdle /\ WatchdogOfAnAttempt

(* The socket leads to the server the preferences name, also when an       *)
(* answer of the resolver comes after they changed (controller.cpp:191).   *)
ConnectsToItsHost == link.sock # "unconnected" => link.target = link.host

(* A server that stays reachable is reached, whatever happened before.     *)
Reconnects == <>[]up => <>[](link.active /\ link.host # Invalid => link.sock = "connected")

(* A server that falls silent is noticed without anything being sent to it *)
(* by the user (controller.cpp:266-270).                                   *)
SilenceNoticed == <>[]~up => <>[](link.sock # "connected")

(* The connection follows the server.                                      *)
FollowsServer == Reconnects /\ SilenceNoticed
=============================================================================
