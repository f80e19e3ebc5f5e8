--------------------------- MODULE Desklet_proofs ---------------------------
(***************************************************************************)
(* The desklet: its connection to the server, the presses on its window    *)
(* and its commands, for every set of servers and addresses, every depth   *)
(* of menus and dialogs, every number of commands and messages.            *)
(*                                                                         *)
(* The handlers of the client are operators on a record (link, client)     *)
(* that call others.  An invariant is therefore a predicate on such a      *)
(* record; there is a lemma for each operator, which says from what record *)
(* it makes one that is sound, and a handler is proved as it is written,   *)
(* call by call.                                                           *)
(***************************************************************************)
EXTENDS ServerLink, DeskletInput, CommandPanel, SequenceTheorems, WellFoundedInduction, TLAPS

-----------------------------------------------------------------------------
(* The desklet is never left waiting for nothing, and its socket leads to  *)
(* the server the preferences name (ServerLink).                           *)

Timers == {"reconnect", "connect", "heartbeat", "pong"}

Links ==
    [active : BOOLEAN, host : Hosts, sock : {"unconnected", "connecting", "connected"},
     target : Hosts \cup {NoHost}, resolving : BOOLEAN, connecting : BOOLEAN, left : Nat,
     of : Hosts \cup {NoHost}, timers : SUBSET Timers, launched : BOOLEAN, reported : BOOLEAN,
     scheduled : BOOLEAN, shots : Nat, lookup : Hosts \cup {NoHost}, stale : SUBSET (Hosts \cup {NoHost})]

\* A connection given up is given up as a whole.
Rests(c) ==
    ~c.active => /\ c.sock = "unconnected" /\ ~c.resolving /\ ~c.connecting
                 /\ c.timers = {} /\ c.lookup = NoHost

\* One thing at a time: a look-up, an attempt or a connection; the watchdog
\* runs during the first two.
OneThing(c) ==
    /\ c.connecting <=> c.sock = "connecting"
    /\ c.resolving => c.sock = "unconnected"
    /\ "connect" \in c.timers <=> c.resolving \/ c.connecting

\* What is under way is about the server that is set.
Current(c) ==
    /\ c.lookup # NoHost => c.resolving /\ c.lookup = c.host
    /\ c.connecting => c.of = c.host
    /\ c.sock # "unconnected" => c.target = c.host

\* What a handler may rely on while it runs ...
SoundLink(c) ==
    /\ c \in Links /\ Rests(c) /\ OneThing(c) /\ Current(c)
    /\ c.sock = "connected" => "heartbeat" \in c.timers \/ "pong" \in c.timers

\* ... and what holds when it returns: who does nothing will try again.
Retries(c) ==
    c.active /\ c.sock = "unconnected" /\ ~c.resolving => "reconnect" \in c.timers

Fits(c) == SoundLink(c) /\ Retries(c)

LinkInv == Fits(link)

-----------------------------------------------------------------------------
(* The functions of the program *)

LEMMA FailedFits ==
  ASSUME NEW c, SoundLink(c), c.active
  PROVE  /\ Fits(ConnectionFailed(c))
         /\ ConnectionFailed(c).sock = c.sock /\ ConnectionFailed(c).resolving = c.resolving
         /\ ConnectionFailed(c).active
<1>1. PICK t : t = c.timers \cup {"reconnect"} OBVIOUS
<1>2. PICK d : d = [c EXCEPT !.reported = TRUE, !.timers = t] OBVIOUS
<1>3. ConnectionFailed(c) = d
  BY <1>1, <1>2 DEF ConnectionFailed, SoundLink, Links
<1>4. t \subseteq Timers
  BY <1>1 DEF SoundLink, Links, Timers
<1>5. d \in Links
  BY <1>2, <1>4 DEF SoundLink, Links
<1>6. /\ d.active = c.active /\ d.host = c.host /\ d.sock = c.sock /\ d.target = c.target
      /\ d.resolving = c.resolving /\ d.connecting = c.connecting /\ d.of = c.of
      /\ d.lookup = c.lookup /\ d.timers = t
  BY <1>2 DEF SoundLink, Links
<1>7. QED
  BY <1>1, <1>3, <1>5, <1>6 DEF Fits, SoundLink, Rests, OneThing, Current, Retries

\* A look-up that no longer counts.
LEMMA OutdatedFacts ==
  ASSUME NEW c \in Links
  PROVE  LET d == Outdated(c)
         IN  /\ d \in Links /\ d.active = c.active /\ d.host = c.host /\ d.sock = c.sock
             /\ d.target = c.target /\ d.resolving = c.resolving /\ d.connecting = c.connecting
             /\ d.of = c.of /\ d.timers = c.timers /\ d.lookup = NoHost
<1>1. PICK s : s = c.stale \cup ({c.lookup} \ {NoHost}) OBVIOUS
<1>2. s \subseteq Hosts \cup {NoHost}
  BY <1>1 DEF Links
<1>3. PICK d : d = [c EXCEPT !.stale = s, !.lookup = NoHost] OBVIOUS
<1>4. d \in Links
  BY <1>2, <1>3 DEF Links
<1>5. Outdated(c) = d
  BY <1>1, <1>3 DEF Outdated
<1>6. QED BY <1>3, <1>4, <1>5 DEF Links

\* A connection that comes about.
LEMMA ConnectedFits ==
  ASSUME NEW c \in Links, c.active, ~c.resolving, c.lookup = NoHost, c.target = c.host
  PROVE  Fits(Connected(c))
<1>1. PICK t : t = (c.timers \ {"connect", "pong"}) \cup {"heartbeat"} OBVIOUS
<1>2. PICK d : d = [c EXCEPT !.sock = "connected", !.connecting = FALSE, !.left = 0,
                             !.reported = FALSE, !.timers = t]
  OBVIOUS
<1>3. Connected(c) = d
  BY <1>1, <1>2 DEF Connected
<1>4. t \subseteq Timers
  BY <1>1 DEF Links, Timers
<1>5. d \in Links
  BY <1>2, <1>4 DEF Links
<1>6. /\ d.active /\ d.host = c.host /\ d.sock = "connected" /\ d.target = c.host
      /\ ~d.resolving /\ ~d.connecting /\ d.lookup = NoHost /\ d.timers = t
  BY <1>2 DEF Links
<1>7. QED
  BY <1>1, <1>3, <1>5, <1>6 DEF Fits, SoundLink, Rests, OneThing, Current, Retries

\* The signal disconnected, with the socket already free.
LEMMA DisconnectedFits ==
  ASSUME NEW c \in Links, c.active, c.sock = "unconnected", ~c.resolving, ~c.connecting,
         c.lookup = NoHost
  PROVE  /\ Fits(Disconnected(c)) /\ Disconnected(c).active
         /\ Disconnected(c).sock = "unconnected" /\ ~Disconnected(c).resolving
<1>1. PICK t : t = c.timers \ {"connect", "heartbeat", "pong"} OBVIOUS
<1>2. PICK d : d = [c EXCEPT !.timers = t, !.launched = FALSE] OBVIOUS
<1>3. t \subseteq Timers
  BY <1>1 DEF Links
<1>4. d \in Links
  BY <1>2, <1>3 DEF Links
<1>5. /\ d.active /\ d.sock = "unconnected" /\ ~d.resolving /\ ~d.connecting
      /\ d.lookup = NoHost /\ d.timers = t
  BY <1>2 DEF Links
<1>6. SoundLink(d)
  BY <1>1, <1>4, <1>5 DEF SoundLink, Rests, OneThing, Current
<1>7. Disconnected(c) = ConnectionFailed(d)
  BY <1>1, <1>2, <1>5 DEF Disconnected
<1>8. QED BY <1>5, <1>6, <1>7, FailedFits

\* Giving up a connection runs the handler of its end.
LEMMA AbortFits ==
  ASSUME NEW c, SoundLink(c), c.active, c.sock = "connected"
  PROVE  /\ Fits(Abort(c)) /\ Abort(c).active
         /\ Abort(c).sock = "unconnected" /\ ~Abort(c).resolving
<1>1. PICK d : d = [c EXCEPT !.sock = "unconnected"] OBVIOUS
<1>2. /\ d \in Links /\ d.active /\ d.sock = "unconnected" /\ ~d.resolving /\ ~d.connecting
      /\ d.lookup = NoHost
  BY <1>1 DEF SoundLink, Links, OneThing, Current
<1>3. Abort(c) = Disconnected(d)
  BY <1>1 DEF Abort
<1>4. QED BY <1>2, <1>3, DisconnectedFits

\* The next address, if one is left; otherwise a later attempt.
LEMMA TryFits ==
  ASSUME NEW c \in Links, c.active, c.sock = "unconnected", ~c.resolving, c.lookup = NoHost,
         "connect" \notin c.timers, c.of = c.host
  PROVE  \A d \in TryNextAddress(c) : Fits(d)
<1>1. CASE c.left = 0
  <2>1. PICK e : e = [c EXCEPT !.connecting = FALSE] OBVIOUS
  <2>2. /\ e \in Links /\ e.active /\ e.sock = "unconnected" /\ ~e.resolving /\ ~e.connecting
        /\ e.lookup = NoHost /\ e.timers = c.timers
    BY <2>1 DEF Links
  <2>3. SoundLink(e)
    BY <2>2 DEF SoundLink, Rests, OneThing, Current
  <2>4. TryNextAddress(c) = {ConnectionFailed(e)}
    BY <1>1, <2>1 DEF TryNextAddress
  <2>5. QED BY <2>2, <2>3, <2>4, FailedFits
<1>2. CASE c.left # 0
  <2>1. PICK t, n : t = c.timers \cup {"connect"} /\ n = c.left - 1 OBVIOUS
  <2>2. PICK e : e = [c EXCEPT !.left = n, !.connecting = TRUE, !.timers = t] OBVIOUS
  <2>3. PICK d : d = [e EXCEPT !.sock = "connecting", !.target = e.of] OBVIOUS
  <2>4. t \subseteq Timers /\ n \in Nat
    BY <1>2, <2>1 DEF Links, Timers
  <2>5. /\ e \in Links /\ e.sock = "unconnected" /\ e.of = c.of
    BY <2>2, <2>4 DEF Links
  <2>6. d \in Links
    BY <2>3, <2>5 DEF Links
  <2>7. /\ d.active /\ d.host = c.host /\ d.sock = "connecting" /\ d.target = c.host
        /\ ~d.resolving /\ d.connecting /\ d.of = c.host /\ d.lookup = NoHost /\ d.timers = t
    BY <2>2, <2>3 DEF Links
  <2>8. Fits(d)
    BY <2>1, <2>6, <2>7 DEF Fits, SoundLink, Rests, OneThing, Current, Retries
  <2>9. Fits(Connected(d))
    BY <2>6, <2>7, ConnectedFits
  <2>10. TryNextAddress(c) = ToHost(e)
    BY <1>2, <2>1, <2>2 DEF TryNextAddress
  <2>11. ToHost(e) \subseteq {d, Connected(d)}
    BY <2>3, <2>5 DEF ToHost
  <2>12. QED BY <2>8, <2>9, <2>10, <2>11
<1>3. QED BY <1>1, <1>2

LEMMA ConnectFits ==
  ASSUME NEW c, SoundLink(c), c.active
  PROVE  \A d \in ConnectServer(c) : Fits(d)
<1>0. c \in Links /\ (~c.resolving => c.lookup = NoHost)
  BY DEF SoundLink, Current
<1>1. CASE c.resolving \/ c.connecting \/ c.sock # "unconnected"
  <2>1. Fits(c)
    BY <1>1 DEF Fits, Retries, SoundLink, OneThing
  <2>2. QED BY <1>1, <2>1 DEF ConnectServer
<1>2. CASE ~c.resolving /\ ~c.connecting /\ c.sock = "unconnected"
  <2>1. "connect" \notin c.timers
    BY <1>2 DEF SoundLink, OneThing
  <2>2. CASE c.host = Invalid
    <3>1. ConnectServer(c) = {ConnectionFailed(c)}
      BY <1>2, <2>2 DEF ConnectServer
    <3>2. QED BY <3>1, FailedFits
  <2>3. CASE c.host # Invalid /\ c.host \in Numeric
    <3>1. PICK e : e = [c EXCEPT !.left = 1, !.of = c.host] OBVIOUS
    <3>2. /\ e \in Links /\ e.active /\ e.sock = "unconnected" /\ ~e.resolving /\ e.lookup = NoHost
          /\ e.timers = c.timers /\ e.of = e.host
      BY <1>0, <1>2, <3>1 DEF Links
    <3>3. ConnectServer(c) = TryNextAddress(e)
      BY <1>2, <2>3, <3>1 DEF ConnectServer
    <3>4. QED BY <2>1, <3>2, <3>3, TryFits
  <2>4. CASE c.host # Invalid /\ c.host \notin Numeric
    <3>1. PICK o, t : o = Outdated(c) /\ t = o.timers \cup {"connect"} OBVIOUS
    <3>2. PICK e : e = [o EXCEPT !.resolving = TRUE, !.lookup = c.host, !.timers = t] OBVIOUS
    <3>3. /\ o \in Links /\ o.active /\ o.host = c.host /\ o.sock = "unconnected"
          /\ ~o.connecting /\ o.timers = c.timers
      BY <1>0, <1>2, <3>1, OutdatedFacts
    <3>4. t \subseteq Timers
      BY <3>1, <3>3 DEF Links, Timers
    <3>5. e \in Links
      BY <1>0, <3>2, <3>3, <3>4 DEF Links
    <3>6. /\ e.active /\ e.host = c.host /\ e.sock = "unconnected" /\ e.resolving
          /\ ~e.connecting /\ e.lookup = c.host /\ e.timers = t
      BY <3>2, <3>3 DEF Links
    <3>7. Fits(e)
      BY <3>1, <3>5, <3>6 DEF Fits, SoundLink, Rests, OneThing, Current, Retries
    <3>8. ConnectServer(c) = {e}
      BY <1>2, <2>4, <3>1, <3>2 DEF ConnectServer
    <3>9. QED BY <3>7, <3>8
  <2>5. QED BY <2>2, <2>3, <2>4
<1>3. QED BY <1>1, <1>2

\* A timer that has expired, or is stopped, and is not the watchdog of what is
\* under way nor what watches a connection.
LEMMA WithoutReconnect ==
  ASSUME NEW c, SoundLink(c), NEW d, d = [c EXCEPT !.timers = c.timers \ {"reconnect"}]
  PROVE  SoundLink(d) /\ d.active = c.active
<1>1. PICK t : t = c.timers \ {"reconnect"} OBVIOUS
<1>2. d \in Links
  <2>1. t \subseteq Timers BY <1>1 DEF SoundLink, Links
  <2>2. QED BY <1>1, <2>1 DEF SoundLink, Links
<1>3. /\ d.active = c.active /\ d.host = c.host /\ d.sock = c.sock /\ d.target = c.target
      /\ d.resolving = c.resolving /\ d.connecting = c.connecting /\ d.of = c.of
      /\ d.lookup = c.lookup /\ d.timers = t
  BY <1>1 DEF SoundLink, Links
<1>4. QED BY <1>1, <1>2, <1>3 DEF SoundLink, Rests, OneThing, Current

-----------------------------------------------------------------------------
(* The calls of the window *)

LEMMA LinkStepStart == ASSUME LinkInv, DoStart PROVE LinkInv'
<1>1. PICK c : c = [link EXCEPT !.active = TRUE, !.launched = FALSE] OBVIOUS
<1>2. ~link.active /\ link' \in ConnectServer(c)
  BY <1>1 DEF DoStart
<1>3. link \in Links /\ Rests(link)
  BY DEF LinkInv, Fits, SoundLink
<1>4. /\ c \in Links /\ c.active /\ c.sock = "unconnected" /\ ~c.resolving /\ ~c.connecting
      /\ c.timers = {} /\ c.lookup = NoHost
  BY <1>1, <1>2, <1>3 DEF Links, Rests
<1>5. SoundLink(c)
  BY <1>4 DEF SoundLink, Rests, OneThing, Current
<1>6. QED BY <1>2, <1>4, <1>5, ConnectFits DEF LinkInv

\* Whatever was under way is given up; nothing is left to expire.
LEMMA LinkStepStop == ASSUME LinkInv, DoStop PROVE LinkInv'
<1>1. PICK o : o = Outdated(link) OBVIOUS
<1>2. PICK c : c = [o EXCEPT !.active = FALSE, !.resolving = FALSE, !.connecting = FALSE,
                             !.left = 0, !.scheduled = FALSE, !.timers = {}]
  OBVIOUS
<1>3. link' = Abort(c)
  BY <1>1, <1>2 DEF DoStop, Stop
<1>4. o \in Links /\ o.lookup = NoHost
  BY <1>1, OutdatedFacts DEF LinkInv, Fits, SoundLink
<1>5. /\ c \in Links /\ ~c.active /\ ~c.resolving /\ ~c.connecting /\ c.timers = {}
      /\ c.lookup = NoHost
  BY <1>2, <1>4, ZenonT(30) DEF Links
<1>6. PICK d : d = [c EXCEPT !.sock = "unconnected"] OBVIOUS
<1>7. PICK e : e = [d EXCEPT !.timers = d.timers \ {"connect", "heartbeat", "pong"}, !.launched = FALSE]
  OBVIOUS
<1>8. /\ d \in Links /\ ~d.active /\ ~d.resolving /\ ~d.connecting /\ d.timers = {}
      /\ d.lookup = NoHost /\ d.sock = "unconnected"
  BY <1>5, <1>6 DEF Links
<1>9. /\ e \in Links /\ ~e.active /\ ~e.resolving /\ ~e.connecting /\ e.timers = {}
      /\ e.lookup = NoHost /\ e.sock = "unconnected"
  <2>1. d.timers \ {"connect", "heartbeat", "pong"} = {}
    BY <1>8
  <2>2. QED BY <1>7, <1>8, <2>1 DEF Links
<1>10. link' \in {d, e}
  BY <1>3, <1>5, <1>6, <1>7, <1>8, <1>9 DEF Abort, Disconnected
<1>11. Fits(d) /\ Fits(e)
  BY <1>8, <1>9 DEF Fits, SoundLink, Rests, OneThing, Current, Retries
<1>12. QED BY <1>10, <1>11 DEF LinkInv

\* Another server: what the old one's name was looked up for is outdated, its
\* socket given up, and a new attempt begins.
LEMMA LinkStepConfigure ==
  ASSUME LinkInv, NEW host \in Hosts, DoConfigure(host)
  PROVE  LinkInv'
<1>0. link \in Links /\ Rests(link) /\ OneThing(link)
  BY DEF LinkInv, Fits, SoundLink
<1>1. CASE host = link.host
  <2>1. link' = [link EXCEPT !.host = link.host]
    BY <1>1 DEF DoConfigure, Configure
  <2>2. link' = link
    BY <1>0, <2>1 DEF Links
  <2>3. QED BY <2>2 DEF LinkInv
<1>2. CASE ~link.active
  <2>1. link' = [link EXCEPT !.host = host]
    BY <1>2 DEF DoConfigure, Configure
  <2>2. /\ link' \in Links /\ ~link'.active /\ link'.sock = "unconnected" /\ ~link'.resolving
        /\ ~link'.connecting /\ link'.timers = {} /\ link'.lookup = NoHost
    BY <1>0, <1>2, <2>1 DEF Links, Rests
  <2>3. QED
    BY <2>2 DEF LinkInv, Fits, SoundLink, Rests, OneThing, Current, Retries
<1>3. CASE host # link.host /\ link.active
  <2>1. PICK o, t : o = Outdated(link) /\ t = o.timers \ {"connect"} OBVIOUS
  <2>2. PICK c : c = [o EXCEPT !.host = host, !.resolving = FALSE, !.connecting = FALSE,
                               !.left = 0, !.timers = t]
    OBVIOUS
  <2>3. PICK d : d = Abort(c) OBVIOUS
  <2>4. PICK e : e = [d EXCEPT !.timers = d.timers \ {"reconnect"}] OBVIOUS
  <2>5. link' \in ConnectServer(e)
    BY <1>3, <2>1, <2>2, <2>3, <2>4 DEF DoConfigure, Configure
  <2>6. o \in Links /\ o.lookup = NoHost /\ o.active /\ o.sock = link.sock
    BY <1>0, <1>3, <2>1, OutdatedFacts
  <2>7. /\ c \in Links /\ c.active /\ ~c.resolving /\ ~c.connecting /\ c.lookup = NoHost
        /\ c.timers = t /\ c.sock = link.sock
    <3>1. t \subseteq Timers BY <2>1, <2>6 DEF Links
    <3>2. QED BY <2>2, <2>6, <3>1 DEF Links
  <2>8. PICK u : u = [c EXCEPT !.sock = "unconnected"] OBVIOUS
  <2>9. /\ u \in Links /\ u.active /\ ~u.resolving /\ ~u.connecting /\ u.lookup = NoHost
        /\ u.timers = t /\ u.sock = "unconnected"
    BY <2>7, <2>8 DEF Links
  <2>10. SoundLink(u)
    BY <2>1, <2>9 DEF SoundLink, Rests, OneThing, Current
  <2>11. d = u \/ d = Disconnected(u)
    BY <2>3, <2>8 DEF Abort
  <2>12. SoundLink(d) /\ d.active
    BY <2>9, <2>10, <2>11, DisconnectedFits DEF Fits
  <2>13. SoundLink(e) /\ e.active
    BY <2>4, <2>12, WithoutReconnect
  <2>14. QED BY <2>5, <2>13, ConnectFits DEF LinkInv
<1>4. QED BY <1>1, <1>2, <1>3

-----------------------------------------------------------------------------
(* What Qt calls *)

\* Fields that say nothing of what is under way.
LEMMA OtherFields ==
  ASSUME NEW c, SoundLink(c), NEW d \in Links,
         d.active = c.active, d.host = c.host, d.sock = c.sock, d.target = c.target,
         d.resolving = c.resolving, d.connecting = c.connecting, d.of = c.of,
         d.lookup = c.lookup, d.timers = c.timers
  PROVE  SoundLink(d) /\ (Retries(c) => Retries(d))
  BY DEF SoundLink, Rests, OneThing, Current, Retries

LEMMA LinkStepRefresh == ASSUME LinkInv, Refresh PROVE LinkInv'
<1>1. link' = [link EXCEPT !.scheduled = TRUE, !.shots = link.shots + 1]
  BY DEF Refresh
<1>2. link \in Links
  BY DEF LinkInv, Fits, SoundLink
<1>3. link.shots + 1 \in Nat
  BY <1>2 DEF Links
<1>4. /\ link' \in Links
      /\ link'.active = link.active /\ link'.host = link.host /\ link'.sock = link.sock
      /\ link'.target = link.target /\ link'.resolving = link.resolving
      /\ link'.connecting = link.connecting /\ link'.of = link.of
      /\ link'.lookup = link.lookup /\ link'.timers = link.timers
  BY <1>1, <1>2, <1>3 DEF Links
<1>5. QED BY <1>4, OtherFields DEF LinkInv, Fits

LEMMA LinkStepDoRefresh == ASSUME LinkInv, DoRefresh PROVE LinkInv'
<1>1. PICK d : d = [link EXCEPT !.scheduled = FALSE, !.shots = link.shots - 1] OBVIOUS
<1>2. link \in Links /\ link.shots > 0
  BY DEF LinkInv, Fits, SoundLink, DoRefresh
<1>3. link.shots - 1 \in Nat
  BY <1>2 DEF Links
<1>4. /\ d \in Links
      /\ d.active = link.active /\ d.host = link.host /\ d.sock = link.sock
      /\ d.target = link.target /\ d.resolving = link.resolving
      /\ d.connecting = link.connecting /\ d.of = link.of
      /\ d.lookup = link.lookup /\ d.timers = link.timers
  BY <1>1, <1>2, <1>3 DEF Links
<1>5. SoundLink(d) /\ Retries(d)
  BY <1>4, OtherFields DEF LinkInv, Fits
<1>6. CASE ~link.active \/ link.sock = "connected"
  <2>1. link' = d
    BY <1>1, <1>6 DEF DoRefresh, RefreshNow
  <2>2. QED BY <1>5, <2>1 DEF LinkInv, Fits
<1>7. CASE link.active /\ link.sock # "connected"
  <2>1. PICK e : e = [d EXCEPT !.timers = d.timers \ {"reconnect"}] OBVIOUS
  <2>2. link' \in ConnectServer(e)
    BY <1>1, <1>7, <2>1 DEF DoRefresh, RefreshNow
  <2>3. SoundLink(e) /\ e.active
    BY <1>4, <1>5, <1>7, <2>1, WithoutReconnect
  <2>4. QED BY <2>2, <2>3, ConnectFits DEF LinkInv
<1>8. QED BY <1>6, <1>7

LEMMA LinkStepReconnectTimeout == ASSUME LinkInv, ReconnectTimeout PROVE LinkInv'
<1>1. PICK e : e = Expired("reconnect") OBVIOUS
<1>2. e = [link EXCEPT !.timers = link.timers \ {"reconnect"}]
  BY <1>1 DEF Expired
<1>3. SoundLink(e) /\ link.active
  BY <1>2, WithoutReconnect DEF LinkInv, Fits, SoundLink, Rests, ReconnectTimeout
<1>4. e.active
  BY <1>2, <1>3, WithoutReconnect DEF LinkInv, Fits
<1>5. QED BY <1>1, <1>3, <1>4, ConnectFits DEF LinkInv, ReconnectTimeout

\* The watchdog: the look-up is given up, or the address, and the next is tried.
LEMMA LinkStepConnectTimeout == ASSUME LinkInv, ConnectTimeout PROVE LinkInv'
<1>1. PICK t : t = link.timers \ {"connect"} OBVIOUS
<1>2. PICK c : c = Expired("connect") OBVIOUS
<1>3. c = [link EXCEPT !.timers = t]
  BY <1>1, <1>2 DEF Expired
<1>4. link \in Links /\ link.active /\ (link.resolving \/ link.connecting)
  BY DEF LinkInv, Fits, SoundLink, Rests, OneThing, ConnectTimeout
<1>5. t \subseteq Timers
  BY <1>1, <1>4 DEF Links
<1>6. /\ c \in Links
      /\ c.active /\ c.host = link.host /\ c.sock = link.sock /\ c.resolving = link.resolving
      /\ c.connecting = link.connecting /\ c.of = link.of /\ c.lookup = link.lookup /\ c.timers = t
  BY <1>3, <1>4, <1>5 DEF Links
<1>7. link' \in ConnectExpired(c)
  BY <1>2 DEF ConnectTimeout
<1>8. CASE link.resolving
  <2>1. PICK o : o = Outdated(c) OBVIOUS
  <2>2. PICK e : e = [o EXCEPT !.resolving = FALSE] OBVIOUS
  <2>3. link.sock = "unconnected" /\ ~link.connecting
    BY <1>8 DEF LinkInv, Fits, SoundLink, OneThing
  <2>4. /\ o \in Links /\ o.active /\ o.sock = "unconnected" /\ ~o.connecting /\ o.lookup = NoHost
        /\ o.timers = t
    BY <1>6, <2>1, <2>3, OutdatedFacts
  <2>5. /\ e \in Links /\ e.active /\ e.sock = "unconnected" /\ ~e.connecting /\ e.lookup = NoHost
        /\ e.timers = t /\ ~e.resolving
    BY <2>2, <2>4 DEF Links
  <2>6. SoundLink(e)
    BY <1>1, <2>5 DEF SoundLink, Rests, OneThing, Current
  <2>7. link' = ConnectionFailed(e)
    BY <1>6, <1>7, <1>8, <2>1, <2>2 DEF ConnectExpired
  <2>8. QED BY <2>5, <2>6, <2>7, FailedFits DEF LinkInv
<1>9. CASE ~link.resolving
  <2>1. PICK d : d = [c EXCEPT !.sock = "unconnected"] OBVIOUS
  <2>2. link.sock = "connecting" /\ link.of = link.host /\ link.lookup = NoHost
    BY <1>4, <1>9 DEF LinkInv, Fits, SoundLink, OneThing, Current
  <2>3. /\ d \in Links /\ d.active /\ d.sock = "unconnected" /\ ~d.resolving /\ d.lookup = NoHost
        /\ d.timers = t /\ d.of = d.host
    BY <1>6, <1>9, <2>1, <2>2 DEF Links
  <2>4. Abort(c) = d
    BY <1>6, <2>1, <2>2 DEF Abort
  <2>5. link' \in TryNextAddress(d)
    BY <1>4, <1>6, <1>7, <1>9, <2>4 DEF ConnectExpired
  <2>6. QED BY <1>1, <2>3, <2>5, TryFits DEF LinkInv
<1>10. QED BY <1>8, <1>9

LEMMA LinkStepLookup ==
  ASSUME LinkInv, NEW n \in 0..MaxAddresses, Lookup(n)
  PROVE  LinkInv'
<1>0. n \in Nat
  BY LinkAssumption
<1>1. PICK c, t : c = [link EXCEPT !.lookup = NoHost] /\ t = c.timers \ {"connect"} OBVIOUS
<1>2. PICK d : d = [c EXCEPT !.resolving = FALSE, !.timers = t, !.left = n, !.of = link.lookup]
  OBVIOUS
<1>3. /\ link \in Links /\ link.lookup # NoHost /\ link.resolving /\ link.lookup = link.host
      /\ link.active /\ link.sock = "unconnected" /\ ~link.connecting
  BY DEF LinkInv, Fits, SoundLink, Rests, OneThing, Current, Lookup
<1>4. /\ c \in Links /\ c.active /\ c.sock = "unconnected" /\ c.lookup = NoHost
      /\ c.host = link.host /\ ~c.connecting
  BY <1>1, <1>3 DEF Links
<1>5. /\ d \in Links /\ d.active /\ d.sock = "unconnected" /\ d.lookup = NoHost
      /\ ~d.resolving /\ d.of = d.host /\ d.timers = t /\ ~d.connecting
  <2>1. t \subseteq Timers BY <1>1, <1>4 DEF Links
  <2>2. QED BY <1>0, <1>2, <1>3, <1>4, <2>1 DEF Links
<1>6. link' \in LookedUp(c, link.lookup, TRUE, n)
  BY <1>1 DEF Lookup
<1>7. SoundLink(d)
  BY <1>1, <1>5 DEF SoundLink, Rests, OneThing, Current
<1>8. CASE n = 0
  <2>1. link' = ConnectionFailed(d)
    BY <1>1, <1>2, <1>4, <1>6, <1>8 DEF LookedUp
  <2>2. QED BY <1>5, <1>7, <2>1, FailedFits DEF LinkInv
<1>9. CASE n # 0
  <2>1. link' \in TryNextAddress(d)
    BY <1>1, <1>2, <1>4, <1>6, <1>9 DEF LookedUp
  <2>2. QED BY <1>1, <1>5, <2>1, TryFits DEF LinkInv
<1>10. QED BY <1>8, <1>9

\* An answer of a look-up that was given up changes nothing.
LEMMA LinkStepStaleLookup ==
  ASSUME LinkInv, NEW host, NEW n, StaleLookup(host, n)
  PROVE  LinkInv'
<1>1. PICK s : s = link.stale \ {host} OBVIOUS
<1>2. PICK c : c = [link EXCEPT !.stale = s] OBVIOUS
<1>3. link' = c
  BY <1>1, <1>2 DEF StaleLookup, LookedUp
<1>4. link \in Links
  BY DEF LinkInv, Fits, SoundLink
<1>5. s \subseteq Hosts \cup {NoHost}
  BY <1>1, <1>4 DEF Links
<1>6. /\ c \in Links
      /\ c.active = link.active /\ c.host = link.host /\ c.sock = link.sock
      /\ c.target = link.target /\ c.resolving = link.resolving
      /\ c.connecting = link.connecting /\ c.of = link.of
      /\ c.lookup = link.lookup /\ c.timers = link.timers
  BY <1>2, <1>4, <1>5 DEF Links
<1>7. QED BY <1>3, <1>6, OtherFields DEF LinkInv, Fits

LEMMA LinkStepAttempt == ASSUME LinkInv, Attempt PROVE LinkInv'
<1>1. link.sock = "connecting" /\ link' = Connected(link)
  BY DEF Attempt
<1>2. /\ link \in Links /\ link.active /\ ~link.resolving /\ link.lookup = NoHost
      /\ link.target = link.host
  BY <1>1 DEF LinkInv, Fits, SoundLink, Rests, OneThing, Current
<1>3. QED BY <1>1, <1>2, ConnectedFits DEF LinkInv

\* An attempt that fails: a test server is started, or the next address is tried.
LEMMA LinkStepAttemptError ==
  ASSUME LinkInv, NEW refused \in BOOLEAN, AttemptError(refused)
  PROVE  LinkInv'
<1>1. PICK t : t = link.timers \ {"connect"} OBVIOUS
<1>2. PICK d : d = [link EXCEPT !.sock = "unconnected", !.timers = t] OBVIOUS
<1>3. PICK e : e = [d EXCEPT !.connecting = FALSE, !.launched = TRUE] OBVIOUS
<1>4. /\ link \in Links /\ link.active /\ ~link.resolving /\ link.lookup = NoHost
      /\ link.of = link.host
  BY DEF LinkInv, Fits, SoundLink, Rests, OneThing, Current, AttemptError
<1>5. t \subseteq Timers
  BY <1>1, <1>4 DEF Links
<1>6. /\ d \in Links /\ d.active /\ d.sock = "unconnected" /\ ~d.resolving /\ d.lookup = NoHost
      /\ d.timers = t /\ d.of = d.host
  BY <1>2, <1>4, <1>5 DEF Links
<1>7. /\ e \in Links /\ e.active /\ e.sock = "unconnected" /\ ~e.resolving /\ e.lookup = NoHost
      /\ e.timers = t /\ ~e.connecting
  BY <1>3, <1>6 DEF Links
<1>8. SoundLink(e)
  BY <1>1, <1>7 DEF SoundLink, Rests, OneThing, Current
<1>9. \/ link' \in {[f EXCEPT !.timers = f.timers \cup {"reconnect"}] : f \in {e, ConnectionFailed(e)}}
      \/ link' \in TryNextAddress(d)
  BY <1>1, <1>2, <1>3, <1>4 DEF AttemptError, AttemptFailed
<1>10. CASE link' \in TryNextAddress(d)
  BY <1>1, <1>6, <1>10, TryFits DEF LinkInv
<1>11. ASSUME NEW f \in {e, ConnectionFailed(e)},
              link' = [f EXCEPT !.timers = f.timers \cup {"reconnect"}]
       PROVE  LinkInv'
  <2>1. SoundLink(f) /\ f.active
    BY <1>7, <1>8, FailedFits DEF Fits
  <2>2. PICK u : u = f.timers \cup {"reconnect"} OBVIOUS
  <2>3. u \subseteq Timers
    BY <2>1, <2>2 DEF SoundLink, Links, Timers
  <2>4. /\ link' \in Links
        /\ link'.active = f.active /\ link'.host = f.host /\ link'.sock = f.sock
        /\ link'.target = f.target /\ link'.resolving = f.resolving
        /\ link'.connecting = f.connecting /\ link'.of = f.of
        /\ link'.lookup = f.lookup /\ link'.timers = u
    BY <1>11, <2>1, <2>2, <2>3 DEF SoundLink, Links
  <2>5. QED
    BY <2>1, <2>2, <2>4 DEF LinkInv, Fits, SoundLink, Rests, OneThing, Current, Retries
<1>12. QED BY <1>9, <1>10, <1>11

LEMMA LinkStepClosed == ASSUME LinkInv, Closed PROVE LinkInv'
<1>1. /\ SoundLink(link) /\ link.sock = "connected" /\ link.active
  BY DEF LinkInv, Fits, SoundLink, Rests, Closed
<1>2. CASE link' = Disconnected([link EXCEPT !.sock = "unconnected"])
  <2>1. Abort(link) = Disconnected([link EXCEPT !.sock = "unconnected"])
    BY <1>1 DEF Abort
  <2>2. QED BY <1>1, <1>2, <2>1, AbortFits DEF LinkInv
<1>3. CASE link' = Abort(ConnectionFailed(link))
  <2>1. PICK c : c = ConnectionFailed(link) OBVIOUS
  <2>2. SoundLink(c) /\ c.active /\ c.sock = "connected"
    BY <1>1, <2>1, FailedFits DEF Fits
  <2>3. QED BY <1>3, <2>1, <2>2, AbortFits DEF LinkInv
<1>4. CASE link' = ConnectionFailed(Abort(link))
  <2>1. PICK c : c = Abort(link) OBVIOUS
  <2>2. SoundLink(c) /\ c.active
    BY <1>1, <2>1, AbortFits DEF Fits
  <2>3. QED BY <1>4, <2>1, <2>2, FailedFits DEF LinkInv
<1>5. QED BY <1>2, <1>3, <1>4 DEF Closed

-----------------------------------------------------------------------------
(* The heartbeat *)

\* The watch over a connection changes hands, or there is nothing to watch.
LEMMA WatchFits ==
  ASSUME LinkInv, NEW t \in SUBSET Timers, link' = [link EXCEPT !.timers = t],
         link.sock = "connected" => "heartbeat" \in t \/ "pong" \in t,
         \A x \in {"connect", "reconnect"} : x \in t <=> x \in link.timers,
         link.active
  PROVE  LinkInv'
<1>1. link \in Links
  BY DEF LinkInv, Fits, SoundLink
<1>2. /\ link' \in Links
      /\ link'.active = link.active /\ link'.host = link.host /\ link'.sock = link.sock
      /\ link'.target = link.target /\ link'.resolving = link.resolving
      /\ link'.connecting = link.connecting /\ link'.of = link.of
      /\ link'.lookup = link.lookup /\ link'.timers = t
  BY <1>1 DEF Links
<1>3. QED BY <1>2 DEF LinkInv, Fits, SoundLink, Rests, OneThing, Current, Retries

LEMMA LinkStepHeartbeat == ASSUME LinkInv, HeartbeatTimeout PROVE LinkInv'
<1>1. PICK t, u : t = link.timers \ {"heartbeat"} /\ u = t \cup {"pong"} OBVIOUS
<1>2. PICK c : c = [link EXCEPT !.timers = t] OBVIOUS
<1>3. link \in Links /\ link.active
  BY DEF LinkInv, Fits, SoundLink, Rests, HeartbeatTimeout
<1>4. t \subseteq Timers /\ u \subseteq Timers
  BY <1>1, <1>3 DEF Links, Timers
<1>5. c.active = link.active /\ c.sock = link.sock /\ c.timers = t
  BY <1>2, <1>3, <1>4 DEF Links
<1>6. link' = Ping(c)
  BY <1>1, <1>2 DEF HeartbeatTimeout, Expired
<1>7. CASE link.sock # "connected"
  <2>1. link' = [link EXCEPT !.timers = t]
    BY <1>2, <1>5, <1>6, <1>7 DEF Ping
  <2>2. QED BY <1>1, <1>3, <1>4, <1>7, <2>1, WatchFits
<1>8. CASE link.sock = "connected"
  <2>1. link' = [c EXCEPT !.timers = u]
    BY <1>1, <1>3, <1>5, <1>6, <1>8 DEF Ping
  <2>2. link' = [link EXCEPT !.timers = u]
    BY <1>2, <1>3, <2>1 DEF Links
  <2>3. QED BY <1>1, <1>3, <1>4, <2>2, WatchFits
<1>9. QED BY <1>7, <1>8

LEMMA LinkStepPong == ASSUME LinkInv, Pong PROVE LinkInv'
<1>1. PICK t : t = (link.timers \ {"pong"}) \cup {"heartbeat"} OBVIOUS
<1>2. link \in Links /\ link.active
  BY DEF LinkInv, Fits, SoundLink, Rests, Pong
<1>3. t \subseteq Timers
  BY <1>1, <1>2 DEF Links, Timers
<1>4. link' = [link EXCEPT !.timers = t]
  BY <1>1 DEF Pong
<1>5. QED BY <1>1, <1>2, <1>3, <1>4, WatchFits

LEMMA LinkStepPongTimeout == ASSUME LinkInv, PongTimeout PROVE LinkInv'
<1>1. PICK t : t = link.timers \ {"pong"} OBVIOUS
<1>2. link \in Links /\ link.active
  BY DEF LinkInv, Fits, SoundLink, Rests, PongTimeout
<1>3. t \subseteq Timers
  BY <1>1, <1>2 DEF Links
<1>4. Expired("pong") = [link EXCEPT !.timers = t]
  BY <1>1 DEF Expired
<1>5. CASE link.sock # "connected"
  <2>1. link' = [link EXCEPT !.timers = t]
    BY <1>4, <1>5 DEF PongTimeout
  <2>2. QED BY <1>1, <1>2, <1>3, <1>5, <2>1, WatchFits
<1>6. CASE link.sock = "connected"
  <2>1. PICK u : u = t \cup {"reconnect"} OBVIOUS
  <2>2. PICK c : c = [link EXCEPT !.timers = t] OBVIOUS
  <2>3. PICK e : e = [c EXCEPT !.reported = TRUE, !.timers = u] OBVIOUS
  <2>4. PICK d : d = [e EXCEPT !.sock = "unconnected"] OBVIOUS
  <2>5. u \subseteq Timers
    BY <1>3, <2>1 DEF Timers
  <2>6. /\ ~link.resolving /\ ~link.connecting /\ link.lookup = NoHost
    BY <1>6 DEF LinkInv, Fits, SoundLink, OneThing, Current
  <2>7. /\ c \in Links /\ c.active /\ c.timers = t /\ c.sock = "connected"
        /\ ~c.resolving /\ ~c.connecting /\ c.lookup = NoHost
    BY <1>2, <1>3, <1>6, <2>2, <2>6 DEF Links
  <2>8. /\ e \in Links /\ e.active /\ e.sock = "connected"
        /\ ~e.resolving /\ ~e.connecting /\ e.lookup = NoHost
    BY <2>3, <2>5, <2>7 DEF Links
  <2>9. /\ d \in Links /\ d.active /\ d.sock = "unconnected" /\ ~d.resolving /\ ~d.connecting
        /\ d.lookup = NoHost
    BY <2>4, <2>8 DEF Links
  <2>10. ConnectionFailed(c) = e
    BY <2>1, <2>3, <2>7 DEF ConnectionFailed
  <2>11. link' = Abort(e)
    BY <1>2, <1>4, <1>6, <2>2, <2>10 DEF PongTimeout
  <2>12. link' = Disconnected(d)
    BY <2>4, <2>8, <2>11 DEF Abort
  <2>13. QED BY <2>9, <2>12, DisconnectedFits DEF LinkInv
<1>7. QED BY <1>5, <1>6

-----------------------------------------------------------------------------

LEMMA LinkInvInit == LinkInit => LinkInv
<1> SUFFICES ASSUME LinkInit PROVE LinkInv
  OBVIOUS
<1>1. (CHOOSE h \in Names : TRUE) \in Hosts
  BY LinkAssumption DEF Hosts
<1>2. link \in Links
  BY <1>1 DEF LinkInit, Links, Timers
<1>3. /\ ~link.active /\ link.sock = "unconnected" /\ ~link.resolving /\ ~link.connecting
      /\ link.timers = {} /\ link.lookup = NoHost
  BY DEF LinkInit
<1>4. QED BY <1>2, <1>3 DEF LinkInv, Fits, SoundLink, Rests, OneThing, Current, Retries

LEMMA LinkInvNext == LinkInv /\ [LinkNext]_linkVars => LinkInv'
<1> SUFFICES ASSUME LinkInv, [LinkNext]_linkVars PROVE LinkInv'
  OBVIOUS
<1>1. CASE UNCHANGED link
  BY <1>1 DEF LinkInv
<1>2. QED
  BY <1>1, LinkStepStart, LinkStepStop, LinkStepConfigure, LinkStepRefresh, LinkStepDoRefresh, LinkStepReconnectTimeout,
     LinkStepConnectTimeout, LinkStepLookup, LinkStepStaleLookup, LinkStepAttempt, LinkStepAttemptError, LinkStepClosed,
     LinkStepHeartbeat, LinkStepPong, LinkStepPongTimeout
  DEF LinkNext, linkVars, ServerUpOrDown

LEMMA LinkInvSafe == LinkSpec => []LinkInv
<1>1. LinkInit /\ [][LinkNext]_linkVars => []LinkInv
  BY LinkInvInit, LinkInvNext, PTL
<1>2. LinkSpec => LinkInit /\ [][LinkNext]_linkVars
  BY PTL DEF LinkSpec
<1>3. QED BY <1>1, <1>2, PTL

(***************************************************************************)
(* The timers fit what is under way (AlwaysUnderWay): without a connection *)
(* an attempt, a look-up or the wait for the next one is under way and is  *)
(* watched, with one the next ping or its answer is; the watchdog of an    *)
(* attempt does not outlive it.                                            *)
(***************************************************************************)
THEOREM LinkNeverIdle == LinkSpec => []AlwaysUnderWay
<1>1. LinkInv => AlwaysUnderWay
  BY DEF LinkInv, Fits, SoundLink, OneThing, Retries, Links, AlwaysUnderWay, NeverIdle,
     WatchdogOfAnAttempt
<1>2. QED BY <1>1, LinkInvSafe, PTL

(***************************************************************************)
(* The socket leads to the server that is set (ConnectsToItsHost), however *)
(* late the resolver answers.                                              *)
(***************************************************************************)
THEOREM LinkLeadsToItsHost == LinkSpec => []ConnectsToItsHost
<1>1. LinkInv => ConnectsToItsHost
  BY DEF LinkInv, Fits, SoundLink, Current, ConnectsToItsHost
<1>2. QED BY <1>1, LinkInvSafe, PTL

-----------------------------------------------------------------------------
(* One press does one thing (DeskletInput). *)

UiType ==
    [leftPressed : BOOLEAN, rightPressed : BOOLEAN, moved : BOOLEAN, locked : BOOLEAN,
     longTimer : BOOLEAN, triggered : BOOLEAN, menuShot : BOOLEAN, alarmShot : BOOLEAN,
     menuOpen : BOOLEAN, paused : BOOLEAN, active : BOOLEAN]
MouseType ==
    [on : Widgets \cup {"nothing"}, far : BOOLEAN, seen : BOOLEAN, down : BOOLEAN, right : BOOLEAN]
Popups    == {"menu", "control"} \cup Dialogs

Shows(s, w) == \E i \in 1..Len(s) : s[i] = w
OneOf(s, w) == \A i, j \in 1..Len(s) : s[i] = w /\ s[j] = w => i = j

\* The stack and the fields that tell of it.
StackInv ==
    /\ stack \in Seq(Popups) /\ OneOf(stack, "menu")
    /\ Shows(stack, "menu") => ui.menuOpen
    /\ Shows(stack, "settings") => ui.paused

\* The press in hand and what it led to: after the short function the press is
\* over and the timer off, after the long one the release finds it triggered
\* unless the button was pressed again by the pointer that came back; a far move
\* of a press that drags is known to be one.
PressInv ==
    /\ mouse.down => mouse.seen /\ mouse.on \in Buttons
    /\ "short" \in history => ~ui.longTimer /\ mouse.on = "nothing"
    /\ "long" \in history /\ mouse.on = "timer" /\ mouse.seen => ui.triggered \/ "again" \in history
    /\ LongOrShort
    /\ ui.leftPressed /\ mouse.far => ui.moved
    /\ "alarms" \in history => mouse.on = "nothing" /\ ~mouse.far

InputInv == ui \in UiType /\ mouse \in MouseType /\ StackInv /\ PressInv

LEMMA AppendFacts ==
  ASSUME NEW s \in Seq(Popups), NEW w \in Popups
  PROVE  /\ Append(s, w) \in Seq(Popups)
         /\ \A v : Shows(Append(s, w), v) => Shows(s, v) \/ v = w
         /\ \A v : OneOf(s, v) /\ (v = w => ~Shows(s, v)) => OneOf(Append(s, w), v)
<1>1. PICK t : t = Append(s, w) OBVIOUS
<1>2. /\ Append(s, w) \in Seq(Popups) /\ Len(Append(s, w)) = Len(s) + 1 /\ Len(s) \in Nat
      /\ Append(s, w)[Len(s) + 1] = w /\ \A i \in 1..Len(s) : Append(s, w)[i] = s[i]
  BY AppendProperties, LenProperties
<1>3. /\ t \in Seq(Popups) /\ Len(t) = Len(s) + 1 /\ Len(s) \in Nat /\ t[Len(s) + 1] = w
      /\ \A i \in 1..Len(s) : t[i] = s[i]
  BY <1>1, <1>2
<1>4. \A i \in 1..Len(t) : i \in 1..Len(s) \/ i = Len(s) + 1
  BY <1>3
<1>5. \A v : Shows(t, v) => Shows(s, v) \/ v = w
  BY <1>3, <1>4 DEF Shows
<1>6. ASSUME NEW v, OneOf(s, v), v = w => ~Shows(s, v) PROVE OneOf(t, v)
  <2>1. SUFFICES ASSUME NEW i \in 1..Len(t), NEW j \in 1..Len(t), t[i] = v, t[j] = v PROVE i = j
    BY DEF OneOf
  <2>2. CASE i \in 1..Len(s) /\ j \in 1..Len(s)
    BY <1>3, <1>6, <2>1, <2>2 DEF OneOf
  <2>3. CASE i = Len(s) + 1 /\ j \in 1..Len(s)
    BY <1>3, <1>6, <2>1, <2>3 DEF Shows
  <2>4. CASE j = Len(s) + 1 /\ i \in 1..Len(s)
    BY <1>3, <1>6, <2>1, <2>4 DEF Shows
  <2> QED BY <1>4, <2>1, <2>2, <2>3, <2>4
<1> QED BY <1>1, <1>3, <1>5, <1>6

LEMMA FrontFacts ==
  ASSUME NEW s \in Seq(Popups), s # <<>>
  PROVE  /\ Front(s) \in Seq(Popups) /\ Len(Front(s)) = Len(s) - 1
         /\ \A i \in 1..Len(Front(s)) : Front(s)[i] = s[i]
         /\ \A v : OneOf(s, v) => OneOf(Front(s), v)
<1>1. Len(s) \in Nat /\ Len(s) # 0
  BY LenProperties, EmptySeq
<1>2. Front(s) = SubSeq(s, 1, Len(s) - 1)
  BY DEF Front
<1>3. PICK n : n = Len(s) - 1 /\ n \in 0..Len(s)
  BY <1>1
<1>4. /\ SubSeq(s, 1, n) \in Seq(Popups) /\ Len(SubSeq(s, 1, n)) = n
      /\ \A i \in 1..n : SubSeq(s, 1, n)[i] = s[1 + i - 1]
  BY <1>1, <1>3, SubSeqProperties
<1>5. \A i \in 1..n : SubSeq(s, 1, n)[i] = s[i]
  BY <1>3, <1>4
<1>6. PICK t : t = Front(s) OBVIOUS
<1>7. t \in Seq(Popups) /\ Len(t) = n /\ \A i \in 1..n : t[i] = s[i]
  BY <1>2, <1>3, <1>4, <1>5, <1>6
<1>8. \A v : OneOf(s, v) => OneOf(t, v)
  BY <1>1, <1>3, <1>7, SMTT(30) DEF OneOf
<1> QED BY <1>3, <1>6, <1>7, <1>8

LEMMA InputInvInit == InputInit => InputInv
<1> SUFFICES ASSUME InputInit PROVE InputInv
  OBVIOUS
<1>1. stack = <<>> /\ stack \in Seq(Popups) /\ Len(stack) = 0 /\ history = {} /\ ~mouse.down
  BY EmptySeq DEF InputInit
<1>2. ui \in UiType /\ ~ui.leftPressed
  BY DEF InputInit, UiType
<1>3. mouse \in MouseType
  BY DEF InputInit, MouseType
<1>4. StackInv
  BY <1>1 DEF StackInv, Shows, OneOf
<1> QED BY <1>1, <1>2, <1>3, <1>4 DEF InputInv, PressInv, LongOrShort

\* A popup is put on the others.
LEMMA Pushed ==
  ASSUME InputInv, NEW w \in Popups, stack' = Append(stack, w),
         w = "menu" => ~ui.menuOpen /\ ui'.menuOpen,
         w = "settings" => ui'.paused, ui.menuOpen => ui'.menuOpen, ui.paused => ui'.paused
  PROVE  StackInv'
<1>1. stack \in Seq(Popups) /\ OneOf(stack, "menu") /\ (Shows(stack, "menu") => ui.menuOpen)
      /\ (Shows(stack, "settings") => ui.paused)
  BY DEF InputInv, StackInv
<1>2. stack' \in Seq(Popups) /\ OneOf(stack', "menu")
  BY <1>1, AppendFacts
<1>3. /\ Shows(stack', "menu") => Shows(stack, "menu") \/ w = "menu"
      /\ Shows(stack', "settings") => Shows(stack, "settings") \/ w = "settings"
  BY <1>1, AppendFacts
<1> QED BY <1>1, <1>2, <1>3 DEF StackInv

LEMMA StepOpened ==
  ASSUME InputInv, stack' = Opened, ui'.menuOpen, ui'.paused = ui.paused
  PROVE  StackInv'
<1>1. CASE ui.menuOpen
  BY <1>1 DEF Opened, InputInv, StackInv
<1>2. CASE ~ui.menuOpen
  BY <1>2, Pushed DEF Opened, Popups
<1> QED BY <1>1, <1>2

LEMMA StepShow ==
  ASSUME InputInv, NEW d \in Dialogs, NEW f \in UiType, Open(d, f),
         f.leftPressed = ui.leftPressed, f.moved = ui.moved, f.triggered = ui.triggered,
         f.menuOpen = ui.menuOpen, ui.paused => f.paused, d = "settings" => f.paused
  PROVE  InputInv'
<1>1. /\ ui' \in UiType /\ ui'.leftPressed = ui.leftPressed /\ ui'.moved = ui.moved
      /\ ui'.triggered = ui.triggered /\ ~ui'.longTimer /\ ui'.menuOpen = ui.menuOpen
      /\ ui'.paused = f.paused
  BY DEF Open, UiType
<1>2. /\ mouse' \in MouseType /\ mouse'.on = mouse.on /\ mouse'.far = mouse.far
      /\ mouse'.seen = mouse.seen /\ ~mouse'.down
  BY DEF Open, InputInv, MouseType
<1>3. history' = history
  BY DEF Open
<1>4. PressInv'
  BY <1>1, <1>2, <1>3 DEF InputInv, PressInv, LongOrShort
<1>5. stack' = Append(stack, d) /\ d \in Popups /\ d # "menu"
  BY DEF Open, Popups, Dialogs
<1>6. StackInv'
  BY <1>1, <1>5, Pushed
<1> QED BY <1>1, <1>2, <1>4, <1>6 DEF InputInv

LEMMA StepDialog ==
  ASSUME InputInv, NEW d \in Dialogs, Show(d)
  PROVE  InputInv'
<1>1. PICK f : f = (IF d = "settings" THEN [ui EXCEPT !.active = FALSE, !.paused = TRUE] ELSE ui)
  OBVIOUS
<1>2. /\ f \in UiType /\ f.leftPressed = ui.leftPressed /\ f.moved = ui.moved
      /\ f.triggered = ui.triggered /\ f.menuOpen = ui.menuOpen /\ (ui.paused => f.paused)
      /\ (d = "settings" => f.paused)
  BY <1>1 DEF InputInv, UiType
<1>3. Open(d, f)
  BY <1>1 DEF Show
<1> QED BY <1>2, <1>3, StepShow

LEMMA StepClose == InputInv /\ Close => InputInv'
<1> SUFFICES ASSUME InputInv, Close PROVE InputInv'
  OBVIOUS
<1>1. PICK below : below = Front(stack) OBVIOUS
<1>2. PICK rest : rest = (IF below # <<>> /\ Last(below) = "menu" THEN Front(below) ELSE below)
  OBVIOUS
<1>3. /\ stack # <<>> /\ stack' = rest /\ mouse' = mouse /\ history' = history
      /\ ui' = [ui EXCEPT !.active = @ \/ Last(stack) = "settings", !.paused = PausedAfter(rest),
                          !.menuOpen = \E i \in 1..Len(rest) : rest[i] = "menu"]
  BY <1>1, <1>2 DEF Close
<1>4. below \in Seq(Popups) /\ OneOf(below, "menu")
  BY <1>1, <1>3, FrontFacts DEF InputInv, StackInv
<1>5. rest \in Seq(Popups) /\ OneOf(rest, "menu")
  BY <1>2, <1>4, FrontFacts
<1>6. /\ ui' \in UiType /\ ui'.leftPressed = ui.leftPressed /\ ui'.moved = ui.moved
      /\ ui'.triggered = ui.triggered /\ ui'.longTimer = ui.longTimer
      /\ ui'.paused = Shows(rest, "settings") /\ ui'.menuOpen = Shows(rest, "menu")
  <2>1. PICK a, p, m : /\ a = (ui.active \/ Last(stack) = "settings")
                       /\ p = PausedAfter(rest) /\ m = (\E i \in 1..Len(rest) : rest[i] = "menu")
    OBVIOUS
  <2>2. a \in BOOLEAN /\ p \in BOOLEAN /\ m \in BOOLEAN
    BY <2>1 DEF PausedAfter
  <2>3. ui' = [ui EXCEPT !.active = a, !.paused = p, !.menuOpen = m]
    BY <1>3, <2>1
  <2>4. /\ ui' \in UiType /\ ui'.leftPressed = ui.leftPressed /\ ui'.moved = ui.moved
        /\ ui'.triggered = ui.triggered /\ ui'.longTimer = ui.longTimer
        /\ ui'.paused = p /\ ui'.menuOpen = m
    BY <2>2, <2>3, ZenonT(30) DEF InputInv, UiType
  <2> QED BY <2>1, <2>4 DEF PausedAfter, Shows
<1>7. PressInv'
  BY <1>3, <1>6 DEF InputInv, PressInv, LongOrShort
<1> QED BY <1>3, <1>5, <1>6, <1>7 DEF InputInv, StackInv

LEMMA StepLeftDown == ASSUME InputInv, NEW w \in Widgets, LeftDown(w) PROVE InputInv'
<1>1. /\ mouse' \in MouseType /\ mouse'.on = w /\ ~mouse'.far /\ mouse'.seen = InWindow
      /\ mouse'.down = (InWindow /\ w \in Buttons) /\ history' = {} /\ stack' = stack
  BY DEF LeftDown, InputInv, MouseType, InWindow
<1>2. ui' \in UiType /\ ui'.menuOpen = ui.menuOpen /\ ui'.paused = ui.paused
  <2>1. CASE ~InWindow
    BY <2>1 DEF LeftDown, InputInv
  <2>2. CASE InWindow
    <3>1. ui' = (IF w \notin Buttons
                 THEN [ui EXCEPT !.leftPressed = TRUE, !.moved = FALSE, !.longTimer = FALSE]
                 ELSE IF w = "timer" THEN [ui EXCEPT !.longTimer = TRUE, !.triggered = FALSE]
                 ELSE [ui EXCEPT !.longTimer = FALSE])
      BY <2>2 DEF LeftDown, Pressed
    <3>2. CASE w \notin Buttons
      BY <3>1, <3>2 DEF InputInv, UiType
    <3>3. CASE w \in Buttons
      <4>1. CASE w = "timer"
        BY <3>1, <3>3, <4>1 DEF InputInv, UiType
      <4>2. CASE w # "timer"
        BY <3>1, <3>3, <4>2 DEF InputInv, UiType
      <4> QED BY <4>1, <4>2
    <3> QED BY <3>2, <3>3
  <2> QED BY <2>1, <2>2
<1>3. StackInv'
  BY <1>1, <1>2 DEF InputInv, StackInv
<1> QED BY <1>1, <1>2, <1>3 DEF InputInv, PressInv, LongOrShort

LEMMA StepLeftMove == ASSUME InputInv, NEW far \in BOOLEAN, LeftMove(far) PROVE InputInv'
<1>1. mouse.on # "nothing" /\ stack' = stack /\ history' = history
  BY DEF LeftMove
<1>2. /\ mouse' \in MouseType /\ mouse'.on = mouse.on /\ mouse'.seen = mouse.seen
      /\ mouse'.down = mouse.down /\ mouse'.far = (mouse.far \/ (far /\ InWindow))
  BY DEF LeftMove, InputInv, MouseType, InWindow
<1>3. /\ ui' \in UiType /\ ui'.menuOpen = ui.menuOpen /\ ui'.paused = ui.paused
      /\ ui'.leftPressed = ui.leftPressed /\ ui'.triggered = ui.triggered
      /\ ui'.longTimer = ui.longTimer
      /\ ui'.moved = (IF InWindow /\ ui.leftPressed THEN ui.moved \/ far ELSE ui.moved)
  BY DEF LeftMove, Moved, InputInv, UiType
<1>4. StackInv'
  BY <1>1, <1>3 DEF InputInv, StackInv
<1>5. PressInv'
  BY <1>1, <1>2, <1>3 DEF InputInv, PressInv, LongOrShort
<1> QED BY <1>2, <1>3, <1>4, <1>5 DEF InputInv

LEMMA StepLeftUp == InputInv /\ LeftUp => InputInv'
<1> SUFFICES ASSUME InputInv, LeftUp PROVE InputInv'
  OBVIOUS
<1>1. /\ mouse.on # "nothing" /\ mouse' \in MouseType /\ mouse'.on = "nothing"
      /\ mouse'.far = mouse.far /\ ~mouse'.down
  BY DEF LeftUp, InputInv, MouseType
<1>2. CASE UNCHANGED <<ui, stack, history>>
  <2>1. StackInv'
    BY <1>2 DEF InputInv, StackInv
  <2> QED BY <1>1, <1>2, <2>1 DEF InputInv, PressInv, LongOrShort
<1>3. CASE /\ InWindow /\ ui.leftPressed
           /\ ui' = [ui EXCEPT !.leftPressed = FALSE,
                               !.alarmShot = @ \/ (~ui.moved /\ mouse.on = "monitor")]
           /\ history' = history \cup (IF ~ui.moved /\ mouse.on = "monitor" THEN {"alarms"} ELSE {})
           /\ UNCHANGED stack
  <2>1. /\ ui' \in UiType /\ ~ui'.leftPressed /\ ui'.longTimer = ui.longTimer
        /\ ui'.menuOpen = ui.menuOpen /\ ui'.paused = ui.paused
    BY <1>3 DEF InputInv, UiType
  <2>2. StackInv'
    BY <1>3, <2>1 DEF InputInv, StackInv
  <2>3. "alarms" \in history' => ~mouse.far
    BY <1>3 DEF InputInv, PressInv
  <2>4. \A x \in {"short", "long", "again"} : x \in history' <=> x \in history
    BY <1>3
  <2> QED BY <1>1, <2>1, <2>2, <2>3, <2>4 DEF InputInv, PressInv, LongOrShort
<1>4. CASE /\ InWindow /\ ~ui.leftPressed /\ mouse.down
           /\ ui' = [ui EXCEPT !.longTimer = FALSE,
                               !.triggered = IF mouse.on = "timer" THEN FALSE ELSE @]
           /\ history' = history \cup (IF ~Clicked(mouse.on) THEN {"swallowed"}
                                       ELSE IF mouse.on = "timer" THEN {"short"} ELSE {"action"})
           /\ stack' = (IF Clicked(mouse.on) /\ mouse.on = "timer"
                        THEN Append(stack, "control") ELSE stack)
  <2>1. /\ ui' \in UiType /\ ~ui'.longTimer /\ ui'.leftPressed = ui.leftPressed
        /\ ui'.menuOpen = ui.menuOpen /\ ui'.paused = ui.paused
    BY <1>4 DEF InputInv, UiType
  <2>2. StackInv'
    <3>1. CASE Clicked(mouse.on) /\ mouse.on = "timer"
      BY <1>4, <2>1, <3>1, Pushed DEF Popups
    <3>2. CASE ~(Clicked(mouse.on) /\ mouse.on = "timer")
      BY <1>4, <2>1, <3>2 DEF InputInv, StackInv
    <3> QED BY <3>1, <3>2
  <2>3. "short" \in history' => "short" \in history \/ (mouse.on = "timer" /\ ~ui.triggered)
    BY <1>4 DEF Clicked
  <2>4. \A x \in {"long", "alarms", "again"} : x \in history' <=> x \in history
    BY <1>4
  <2>5. LongOrShort'
    BY <1>4, <2>3, <2>4 DEF InputInv, PressInv, LongOrShort
  <2>6. PressInv'
    BY <1>1, <1>4, <2>1, <2>4, <2>5 DEF InputInv, PressInv
  <2> QED BY <1>1, <2>1, <2>2, <2>6 DEF InputInv
<1> QED BY <1>2, <1>3, <1>4 DEF LeftUp

LEMMA StepComesUp == InputInv /\ ComesUp => InputInv'
<1> SUFFICES ASSUME InputInv, ComesUp PROVE InputInv'
  OBVIOUS
<1>1. /\ mouse' \in MouseType /\ mouse'.on = mouse.on /\ mouse'.far = mouse.far
      /\ mouse'.seen = mouse.seen /\ ~mouse'.down
  BY DEF ComesUp, InputInv, MouseType
<1>2. /\ ui' \in UiType /\ ui'.menuOpen = ui.menuOpen /\ ui'.paused = ui.paused /\ ~ui'.longTimer
      /\ ui'.leftPressed = ui.leftPressed /\ ui'.triggered = ui.triggered /\ ui'.moved = ui.moved
  BY DEF ComesUp, InputInv, UiType
<1>3. stack' = stack /\ history' = history
  BY DEF ComesUp
<1>4. StackInv'
  BY <1>2, <1>3 DEF InputInv, StackInv
<1> QED BY <1>1, <1>2, <1>3, <1>4 DEF InputInv, PressInv, LongOrShort

LEMMA StepComesDown == InputInv /\ ComesDown => InputInv'
<1> SUFFICES ASSUME InputInv, ComesDown PROVE InputInv'
  OBVIOUS
<1>1. /\ mouse' \in MouseType /\ mouse'.on = mouse.on /\ mouse'.far = mouse.far
      /\ mouse'.seen /\ mouse.on \in Buttons
  BY DEF ComesDown, InputInv, MouseType
<1>2. /\ ui' \in UiType /\ ui'.menuOpen = ui.menuOpen /\ ui'.paused = ui.paused
      /\ ui'.leftPressed = ui.leftPressed /\ ui'.moved = ui.moved
  <2>1. CASE mouse.on = "timer"
    BY <2>1 DEF ComesDown, Pressed, InputInv, UiType
  <2>2. CASE mouse.on # "timer"
    BY <2>2 DEF ComesDown, InputInv
  <2> QED BY <2>1, <2>2
<1>3. stack' = stack /\ history' = history \cup {"again"}
  BY DEF ComesDown
<1>4. StackInv'
  BY <1>2, <1>3 DEF InputInv, StackInv
<1>5. mouse.on # "nothing"
  BY <1>1 DEF Buttons
<1> QED BY <1>1, <1>2, <1>3, <1>4, <1>5 DEF InputInv, PressInv, LongOrShort

LEMMA InputInvariant == InputSpec => []InputInv
<1>1. InputInv /\ [InputNext]_inputVars => InputInv'
  <2> SUFFICES ASSUME InputInv, [InputNext]_inputVars PROVE InputInv'
    OBVIOUS
  <2>1. CASE OpenMenu \/ MenuKey
    <3>1. /\ ui' \in UiType /\ ui'.menuOpen /\ ui'.paused = ui.paused
          /\ ui'.leftPressed = ui.leftPressed /\ ui'.moved = ui.moved
          /\ ui'.triggered = ui.triggered /\ ui'.longTimer = ui.longTimer
      BY <2>1 DEF OpenMenu, MenuKey, InputInv, UiType
    <3>2. stack' = Opened /\ mouse' = mouse /\ history' = history
      BY <2>1 DEF OpenMenu, MenuKey
    <3>3. StackInv'
      BY <3>1, <3>2, StepOpened
    <3> QED BY <3>1, <3>2, <3>3 DEF InputInv, PressInv, LongOrShort
  <2>2. CASE NativeMove \/ RightDown \/ RightUp \/ ContextMenu \/ TrayMenu \/ Lock
    <3>1. /\ ui' \in UiType /\ ui'.menuOpen = ui.menuOpen /\ ui'.paused = ui.paused
          /\ (ui'.leftPressed => ui.leftPressed) /\ ui'.moved = ui.moved
          /\ ui'.triggered = ui.triggered /\ ui'.longTimer = ui.longTimer
      <4>1. CASE NativeMove
        BY <4>1 DEF NativeMove, InputInv, UiType
      <4>2. CASE RightDown
        BY <4>2 DEF RightDown, InputInv, UiType
      <4>3. CASE RightUp
        BY <4>3 DEF RightUp, RequestMenu, InputInv, UiType
      <4>4. CASE ContextMenu \/ TrayMenu
        BY <4>4 DEF ContextMenu, TrayMenu, RequestMenu, InputInv, UiType
      <4>5. CASE Lock
        BY <4>5 DEF Lock, InputInv, UiType
      <4> QED BY <2>2, <4>1, <4>2, <4>3, <4>4, <4>5
    <3>2. /\ stack' = stack /\ history' = history /\ mouse' \in MouseType /\ mouse'.on = mouse.on
          /\ mouse'.far = mouse.far /\ mouse'.seen = mouse.seen /\ mouse'.down = mouse.down
      BY <2>2 DEF NativeMove, RightDown, RightUp, ContextMenu, TrayMenu, Lock, InputInv, MouseType
    <3>3. StackInv'
      BY <3>1, <3>2 DEF InputInv, StackInv
    <3> QED BY <3>1, <3>2, <3>3 DEF InputInv, PressInv, LongOrShort
  <2>3. CASE LongPress
    <3>1. /\ ui' \in UiType /\ ui'.menuOpen = ui.menuOpen /\ ui'.paused = ui.paused
          /\ ui'.leftPressed = ui.leftPressed /\ ui'.moved = ui.moved
          /\ ui'.triggered /\ ~ui'.longTimer /\ ui.longTimer
      BY <2>3 DEF LongPress, InputInv, UiType
    <3>2. stack' = stack /\ mouse' = mouse /\ history' = history \cup {"long"}
      BY <2>3 DEF LongPress
    <3>3. StackInv'
      BY <3>1, <3>2 DEF InputInv, StackInv
    <3> QED BY <3>1, <3>2, <3>3 DEF InputInv, PressInv, LongOrShort
  <2>4. CASE ShowAlarms
    <3>1. PICK f : f = [ui EXCEPT !.alarmShot = FALSE] OBVIOUS
    <3>2. /\ f \in UiType /\ f.leftPressed = ui.leftPressed /\ f.moved = ui.moved
          /\ f.triggered = ui.triggered /\ f.menuOpen = ui.menuOpen /\ f.paused = ui.paused
      BY <3>1 DEF InputInv, UiType
    <3>3. Open("other", f)
      BY <2>4, <3>1 DEF ShowAlarms
    <3> QED BY <3>2, <3>3, StepShow DEF Dialogs
  <2>5. CASE \E d \in Dialogs : Choose(d) \/ Tray(d)
    BY <2>5, StepDialog DEF Choose, Tray
  <2>6. CASE UNCHANGED inputVars
    BY <2>6 DEF inputVars, InputInv, StackInv, PressInv, LongOrShort
  <2> QED BY <2>1, <2>2, <2>3, <2>4, <2>5, <2>6, StepClose, StepLeftDown, StepLeftMove, StepLeftUp,
          StepComesUp, StepComesDown DEF InputNext
<1> QED BY <1>1, InputInvInit, PTL DEF InputSpec

(* One press does one thing (OnePressOneThing), however many menus and     *)
(* dialogs are open within one another and wherever the mouse is pressed   *)
(* and released: at most one menu is open, the timer button leads to its   *)
(* long function or to its menu, a drag opens no alarms, and alarms pause  *)
(* below whatever lies over the settings (eventFilter, showSettings).      *)
THEOREM PressesDoOneThing == InputSpec => []OnePressOneThing
<1>1. InputInv => OnePressOneThing
  BY DEF InputInv, StackInv, PressInv, OneOf, Shows, OnePressOneThing, OneMenu, DragIsNoClick,
         PausedInSettings
<1> QED BY <1>1, InputInvariant, PTL

-----------------------------------------------------------------------------
(* A command of the window (CommandPanel). *)

Whole == Message \cup {Garbage}
Line  == Whole \cup {HeadOf(m) : m \in Whole} \cup {TailOf(m) : m \in Whole}

\* The message a part of a line belongs to.
Content(x) == IF x.kind \in {"head", "tail"} THEN x.of ELSE x

Orders == [kind : {"control"}, id : Ids] \cup [kind : {"automation_resume"}]

ClientType ==
    [active : BOOLEAN, linked : BOOLEAN, hasStatus : BOOLEAN, busy : BOOLEAN, awaiting : BOOLEAN,
     pendingId : 0..MaxOrders, nextId : 1..(MaxOrders + 1), writeWatchdog : BOOLEAN,
     confirmation : BOOLEAN, failureReported : BOOLEAN, stream : Seq(Line), host : Servers,
     connected : BOOLEAN, shown : Servers \cup {NoServer}, panelAwaiting : BOOLEAN,
     resumeRequested : BOOLEAN, override : BOOLEAN, ended : [Ids -> Nat],
     judged : 0..MaxOrders, judgedBy : 0..MaxOrders]

\* What holds of the fields of the client, also between two lines of one read.
Waits(c) == (c.panelAwaiting <=> c.busy) /\ (c.busy <=> c.writeWatchdog \/ c.confirmation)
Ends(c) ==
    \A i \in Ids : c.ended[i] = IF i < c.nextId /\ ~(c.busy /\ i = c.nextId - 1) THEN 1 ELSE 0
Works(c) ==
    /\ c.pendingId \in {0, c.nextId - 1} /\ (c.busy => 2 <= c.nextId)
    /\ c.awaiting => c.busy /\ ~c.writeWatchdog /\ c.pendingId = 0
Judges(c) == c.judged <= c.judgedBy /\ c.shown \in {NoServer, c.host}
Sound(c) == c \in ClientType /\ Waits(c) /\ Ends(c) /\ Works(c) /\ Judges(c)

\* What a line on its way to the client tells is true: a status is of the host it is
\* set to and, if one is waited for, later than the command; an answer was given.
Fine(x, c, answered) ==
    /\ Content(x).kind = "status" =>
          Content(x).host = c.host /\ (c.awaiting => c.nextId - 1 <= Content(x).after)
    /\ Content(x).kind = "control" /\ Content(x).ok => Content(x).id <= answered

\* A status behind an answer is later than the command.
Before(x, y) ==
    Content(x).kind = "control" /\ Content(x).ok /\ Content(y).kind = "status"
        => Content(x).id <= Content(y).after

\* The lines read and the lines t that follow them.
Flow(c, t, answered) ==
    /\ \A i \in 1..Len(c.stream) : Fine(c.stream[i], c, answered)
    /\ \A i \in 1..Len(t) : Fine(t[i], c, answered)
    /\ \A i, j \in 1..Len(c.stream) : i < j => Before(c.stream[i], c.stream[j])
    /\ \A i \in 1..Len(c.stream) : \A j \in 1..Len(t) : Before(c.stream[i], t[j])
    /\ \A i, j \in 1..Len(t) : i < j => Before(t[i], t[j])
    /\ c.awaiting => c.nextId - 1 <= answered

\* Only the last line read is a half one, and only its rest comes next.
WholeLines(s) == \A i \in 1..Len(s) : s[i].kind # "tail" /\ (s[i].kind = "head" => i = Len(s))
Continues(s, t) ==
    \A i \in 1..Len(t) :
        /\ t[i].kind # "head"
        /\ t[i].kind = "tail" => i = 1 /\ Len(s) # 0 /\ s[Len(s)].kind = "head"

\* The orders on their way and those in the server's hands are in their order.
OrdersInv ==
    /\ toServer \in Seq(Orders)
    /\ server \in [override : BOOLEAN, open : SUBSET Ids, answered : 0..MaxOrders]
    /\ server.answered < client.nextId
    /\ \A o \in server.open : server.answered < o /\ o < client.nextId
    /\ \A i \in 1..Len(toServer) : toServer[i].kind = "control" =>
          /\ server.answered < toServer[i].id /\ toServer[i].id < client.nextId
          /\ \A o \in server.open : o < toServer[i].id
    /\ \A i, j \in 1..Len(toServer) :
          i < j /\ toServer[i].kind = "control" /\ toServer[j].kind = "control"
              => toServer[i].id < toServer[j].id

LinkedInv ==
    /\ ~client.active => ~client.linked /\ client.stream = <<>>
    /\ ~client.linked => toClient = <<>>

PanelInv ==
    /\ Sound(client) /\ toClient \in Seq(Line) /\ Flow(client, toClient, server.answered)
    /\ WholeLines(client.stream) /\ Continues(client.stream, toClient)
    /\ OrdersInv /\ LinkedInv

LEMMA WholeFacts ==
  ASSUME NEW m \in Whole
  PROVE  /\ m.kind \in {"status", "control", "state", "automation_state", "garbage"}
         /\ m.kind = "status" => m.host \in Servers /\ m.after \in 0..MaxOrders
         /\ m.kind = "control" => m.id \in Ids /\ m.ok \in BOOLEAN
         /\ m.kind = "state" => m.state \in {"connecting", "error"}
         /\ m.kind = "automation_state" => m.override \in BOOLEAN
  BY DEF Whole, Message, Garbage

LEMMA PartFacts ==
  ASSUME NEW m \in Whole
  PROVE  /\ HeadOf(m) \in Line /\ HeadOf(m).kind = "head" /\ HeadOf(m).of = m
         /\ Content(HeadOf(m)) = m
         /\ TailOf(m) \in Line /\ TailOf(m).kind = "tail" /\ Content(TailOf(m)) = m
         /\ m \in Line /\ Content(m) = m
  BY WholeFacts DEF Line, HeadOf, TailOf, Content

LEMMA LineFacts ==
  ASSUME NEW x \in Line
  PROVE  /\ Content(x) \in Whole
         /\ x.kind \notin {"head", "tail"} => x \in Whole /\ Content(x) = x
         /\ x.kind = "head" => x.of \in Whole
<1>1. CASE x \in Whole
  BY <1>1, WholeFacts DEF Content
<1>2. CASE \E m \in Whole : x = HeadOf(m)
  BY <1>2 DEF HeadOf, Content
<1>3. CASE \E m \in Whole : x = TailOf(m)
  BY <1>3 DEF TailOf, Content, Whole
<1> QED BY <1>1, <1>2, <1>3 DEF Line

\* What a handler leaves of the client, of the flow of lines and its condition.
Same(c, d) ==
    /\ d.stream = c.stream /\ d.host = c.host /\ d.nextId = c.nextId /\ d.active = c.active
    /\ (d.linked => c.linked) /\ (d.awaiting => c.awaiting)

LEMMA SameFlow ==
  ASSUME NEW c, NEW d, Same(c, d), NEW t, NEW answered, Flow(c, t, answered)
  PROVE  Flow(d, t, answered)
<1>1. \A x : Fine(x, c, answered) => Fine(x, d, answered)
  BY DEF Same, Fine
<1> QED BY <1>1 DEF Same, Flow

LEMMA OverFacts ==
  ASSUME NEW c, Sound(c), c.busy
  PROVE  Over(c) \in [Ids -> Nat] /\ \A i \in Ids : Over(c)[i] = IF i < c.nextId THEN 1 ELSE 0
<1>1. /\ c.ended \in [Ids -> Nat] /\ c.nextId - 1 \in Ids /\ c.nextId \in Nat
      /\ \A i \in Ids : c.ended[i] = IF i < c.nextId /\ i # c.nextId - 1 THEN 1 ELSE 0
  BY PanelAssumption DEF Sound, ClientType, Ends, Works, Ids
<1>2. PICK k \in Ids : k = c.nextId - 1
  BY <1>1
<1>3. Over(c) = [c.ended EXCEPT ![k] = @ + 1]
  BY <1>2 DEF Over
<1>4. PICK e : e = c.ended OBVIOUS
<1>5. Over(c) = [e EXCEPT ![k] = e[k] + 1]
  BY <1>3, <1>4
<1>6. Over(c) \in [Ids -> Nat] /\ \A i \in Ids : Over(c)[i] = IF i = k THEN e[k] + 1 ELSE e[i]
  BY <1>1, <1>4, <1>5
<1>7. ASSUME NEW i \in Ids PROVE Over(c)[i] = IF i < c.nextId THEN 1 ELSE 0
  <2>1. i \in Nat /\ k \in Nat
    BY DEF Ids
  <2> QED BY <1>1, <1>2, <1>4, <1>6, <2>1
<1> QED BY <1>6, <1>7

LEMMA FailFacts ==
  ASSUME NEW c \in ClientType, Sound(c)
  PROVE  /\ Sound(FailCommand(c)) /\ Same(c, FailCommand(c)) /\ ~FailCommand(c).busy
         /\ ~FailCommand(c).awaiting /\ FailCommand(c).linked = c.linked
<1>1. PICK e : e = (IF c.busy THEN Over(c) ELSE c.ended)
  OBVIOUS
<1>2. e \in [Ids -> Nat] /\ \A i \in Ids : e[i] = IF i < c.nextId THEN 1 ELSE 0
  <2>1. CASE c.busy
    BY <1>1, <2>1, OverFacts
  <2>2. CASE ~c.busy
    BY <1>1, <2>2 DEF Sound, Ends, ClientType
  <2> QED BY <2>1, <2>2
<1>3. PICK d : d = FailCommand(c) OBVIOUS
<1>4. d = [c EXCEPT !.pendingId = 0, !.awaiting = FALSE, !.writeWatchdog = FALSE,
                    !.confirmation = FALSE, !.busy = FALSE, !.panelAwaiting = FALSE, !.ended = e]
  BY <1>1, <1>3 DEF FailCommand
<1>5. /\ d \in ClientType /\ d.pendingId = 0 /\ ~d.awaiting /\ ~d.writeWatchdog /\ ~d.confirmation
      /\ ~d.busy /\ ~d.panelAwaiting /\ d.ended = e /\ d.nextId = c.nextId /\ d.judged = c.judged
      /\ d.judgedBy = c.judgedBy /\ d.shown = c.shown /\ d.host = c.host /\ d.stream = c.stream
      /\ d.active = c.active /\ d.linked = c.linked
  <2>1. PICK b : b = [c EXCEPT !.pendingId = 0, !.awaiting = FALSE, !.writeWatchdog = FALSE,
                               !.confirmation = FALSE, !.busy = FALSE, !.panelAwaiting = FALSE]
    OBVIOUS
  <2>2. /\ b \in ClientType /\ b.pendingId = 0 /\ ~b.awaiting /\ ~b.writeWatchdog
        /\ ~b.confirmation /\ ~b.busy /\ ~b.panelAwaiting /\ b.nextId = c.nextId
        /\ b.judged = c.judged /\ b.judgedBy = c.judgedBy /\ b.shown = c.shown
        /\ b.host = c.host /\ b.stream = c.stream /\ b.active = c.active /\ b.linked = c.linked
    <3>1. PICK a : a = [c EXCEPT !.pendingId = 0, !.awaiting = FALSE, !.writeWatchdog = FALSE]
      OBVIOUS
    <3>2. 0 \in 0..MaxOrders
      BY PanelAssumption
    <3>3. /\ a \in ClientType /\ a.pendingId = 0 /\ ~a.awaiting /\ ~a.writeWatchdog
          /\ a.nextId = c.nextId /\ a.judged = c.judged /\ a.judgedBy = c.judgedBy
          /\ a.shown = c.shown /\ a.host = c.host /\ a.stream = c.stream
          /\ a.active = c.active /\ a.linked = c.linked
      BY <3>1, <3>2 DEF ClientType
    <3>4. b = [a EXCEPT !.confirmation = FALSE, !.busy = FALSE, !.panelAwaiting = FALSE]
      BY <2>1, <3>1
    <3> QED BY <3>3, <3>4, ZenonT(30) DEF ClientType
  <2>3. d = [b EXCEPT !.ended = e]
    BY <1>4, <2>1
  <2> QED BY <1>2, <2>2, <2>3, ZenonT(30) DEF ClientType
<1>6. Sound(d)
  BY <1>2, <1>5 DEF Sound, Waits, Ends, Works, Judges
<1> QED BY <1>3, <1>5, <1>6 DEF Same

LEMMA FailedFacts ==
  ASSUME NEW c \in ClientType, Sound(c)
  PROVE  /\ Sound(PanelConnectionFailed(c)) /\ Same(c, PanelConnectionFailed(c))
         /\ PanelConnectionFailed(c).linked = c.linked
<1>1. PICK d : d = PanelConnectionFailed(c) OBVIOUS
<1>2. PICK p : p = (c.panelAwaiting /\ c.busy) OBVIOUS
<1>3. p \in BOOLEAN /\ (p <=> c.panelAwaiting)
  BY <1>2 DEF Sound, Waits
<1>4. CASE c.failureReported
  <2>1. d = [c EXCEPT !.hasStatus = FALSE]
    BY <1>1, <1>4 DEF PanelConnectionFailed
  <2>2. /\ d \in ClientType /\ d.pendingId = c.pendingId /\ d.awaiting = c.awaiting
        /\ d.writeWatchdog = c.writeWatchdog /\ d.confirmation = c.confirmation
        /\ d.busy = c.busy /\ d.panelAwaiting = c.panelAwaiting /\ d.ended = c.ended
        /\ d.nextId = c.nextId /\ d.judged = c.judged
        /\ d.judgedBy = c.judgedBy /\ d.shown = c.shown /\ d.host = c.host /\ d.stream = c.stream
        /\ d.active = c.active /\ d.linked = c.linked
    BY <2>1 DEF ClientType
  <2>3. Sound(d)
    BY <2>2 DEF Sound, Waits, Ends, Works, Judges
  <2> QED BY <1>1, <2>2, <2>3 DEF Same
<1>5. CASE ~c.failureReported
  <2>1. d = [c EXCEPT !.hasStatus = FALSE, !.failureReported = TRUE, !.connected = FALSE,
                      !.resumeRequested = FALSE, !.panelAwaiting = p]
    BY <1>1, <1>2, <1>5 DEF PanelConnectionFailed
  <2>2. /\ d \in ClientType /\ d.pendingId = c.pendingId /\ d.awaiting = c.awaiting
        /\ d.writeWatchdog = c.writeWatchdog /\ d.confirmation = c.confirmation
        /\ d.busy = c.busy /\ d.panelAwaiting = p /\ d.ended = c.ended
        /\ d.nextId = c.nextId /\ d.judged = c.judged
        /\ d.judgedBy = c.judgedBy /\ d.shown = c.shown /\ d.host = c.host /\ d.stream = c.stream
        /\ d.active = c.active /\ d.linked = c.linked
    BY <1>3, <2>1, ZenonT(30) DEF ClientType
  <2>3. Sound(d)
    BY <1>3, <2>2 DEF Sound, Waits, Ends, Works, Judges
  <2> QED BY <1>1, <2>2, <2>3 DEF Same
<1> QED BY <1>4, <1>5

\* The fields the condition does not look at.
Alike(c, d) ==
    /\ d.pendingId = c.pendingId /\ d.awaiting = c.awaiting /\ d.writeWatchdog = c.writeWatchdog
    /\ d.confirmation = c.confirmation /\ d.busy = c.busy /\ d.panelAwaiting = c.panelAwaiting
    /\ d.ended = c.ended /\ d.nextId = c.nextId /\ d.judged = c.judged /\ d.judgedBy = c.judgedBy
    /\ d.shown = c.shown /\ d.host = c.host

LEMMA AlikeFacts ==
  ASSUME NEW c, Sound(c), NEW d \in ClientType, Alike(c, d)
  PROVE  Sound(d)
  BY DEF Alike, Sound, Waits, Ends, Works, Judges

LEMMA LostFacts ==
  ASSUME NEW c \in ClientType, Sound(c)
  PROVE  /\ Sound(PanelDisconnected(c)) /\ Same(c, PanelDisconnected(c))
         /\ ~PanelDisconnected(c).linked
<1>1. PICK d : d = [c EXCEPT !.linked = FALSE, !.hasStatus = FALSE] OBVIOUS
<1>2. PICK e : e = (IF d.busy THEN FailCommand(d) ELSE d) OBVIOUS
<1>3. PICK f : f = (IF e.active THEN PanelConnectionFailed(e) ELSE e) OBVIOUS
<1>4. PanelDisconnected(c) = IF ~c.linked THEN c ELSE f
  BY <1>1, <1>2, <1>3 DEF PanelDisconnected
<1>5. d \in ClientType /\ Alike(c, d) /\ Same(c, d) /\ ~d.linked
  BY <1>1 DEF ClientType, Alike, Same
<1>6. Sound(d)
  BY <1>5, AlikeFacts
<1>7. e \in ClientType /\ Sound(e) /\ Same(d, e) /\ ~e.linked
  <2>1. CASE d.busy
    BY <1>2, <1>5, <1>6, <2>1, FailFacts DEF Sound
  <2>2. CASE ~d.busy
    BY <1>2, <1>5, <1>6, <2>2 DEF Same
  <2> QED BY <2>1, <2>2
<1>8. Sound(f) /\ Same(e, f) /\ ~f.linked
  <2>1. CASE e.active
    BY <1>3, <1>7, <2>1, FailedFacts
  <2>2. CASE ~e.active
    BY <1>3, <1>7, <2>2 DEF Same
  <2> QED BY <2>1, <2>2
<1>9. Same(c, f)
  BY <1>5, <1>7, <1>8 DEF Same
<1>10. CASE c.linked
  BY <1>4, <1>8, <1>9, <1>10
<1>11. CASE ~c.linked
  BY <1>4, <1>11 DEF Same
<1> QED BY <1>10, <1>11

-----------------------------------------------------------------------------
(* One message. *)

LEMMA StatusFacts ==
  ASSUME NEW c \in ClientType, Sound(c), NEW m \in Whole, m.kind = "status",
         NEW answered, Fine(m, c, answered)
  PROVE  Sound(StatusMessage(c, m)) /\ Same(c, StatusMessage(c, m))
<1>1. /\ m.host = c.host /\ m.host \in Servers /\ m.after \in 0..MaxOrders
      /\ c.awaiting => c.nextId - 1 <= m.after
  BY WholeFacts, PartFacts DEF Fine
<1>2. PICK d : d = [c EXCEPT !.hasStatus = TRUE, !.failureReported = FALSE] OBVIOUS
<1>3. d \in ClientType /\ Alike(c, d) /\ Same(c, d)
  BY <1>2 DEF ClientType, Alike, Same
<1>4. Sound(d)
  BY <1>3, AlikeFacts
<1>5. CASE d.busy /\ ~d.awaiting
  <2>1. StatusMessage(c, m) = d
    BY <1>2, <1>5 DEF StatusMessage
  <2> QED BY <1>3, <1>4, <2>1
<1>6. CASE d.awaiting
  <2>1. d.busy /\ d.panelAwaiting /\ ~d.writeWatchdog /\ d.pendingId = 0
    BY <1>4, <1>6 DEF Sound, Waits, Works
  <2>2. PICK e : e = [d EXCEPT !.awaiting = FALSE, !.confirmation = FALSE, !.busy = FALSE,
                               !.ended = Over(d)]
    OBVIOUS
  <2>3. PICK r : r = StatusMessage(c, m) OBVIOUS
  <2>4. r = ApplyStatus(e, m)
    BY <1>2, <1>6, <2>1, <2>2, <2>3 DEF StatusMessage
  <2>5. /\ e \in ClientType /\ ~e.awaiting /\ ~e.confirmation /\ ~e.busy /\ e.ended = Over(d)
        /\ e.panelAwaiting /\ ~e.writeWatchdog /\ e.pendingId = 0 /\ e.nextId = d.nextId
        /\ e.host = d.host /\ e.stream = d.stream /\ e.active = d.active /\ e.linked = d.linked
    <3>1. Over(d) \in [Ids -> Nat]
      BY <1>3, <1>4, <2>1, OverFacts
    <3>2. PICK o \in [Ids -> Nat] : o = Over(d)
      BY <3>1
    <3>3. PICK b : b = [d EXCEPT !.awaiting = FALSE, !.confirmation = FALSE, !.busy = FALSE] OBVIOUS
    <3>4. /\ b \in ClientType /\ ~b.awaiting /\ ~b.confirmation /\ ~b.busy
          /\ b.panelAwaiting = d.panelAwaiting /\ b.writeWatchdog = d.writeWatchdog
          /\ b.pendingId = d.pendingId /\ b.nextId = d.nextId
          /\ b.host = d.host /\ b.stream = d.stream /\ b.active = d.active /\ b.linked = d.linked
      BY <1>3, <3>3, ZenonT(30) DEF ClientType
    <3>5. e = [b EXCEPT !.ended = o]
      BY <2>2, <3>2, <3>3
    <3>6. /\ e \in ClientType /\ e.awaiting = b.awaiting /\ e.confirmation = b.confirmation
          /\ e.busy = b.busy /\ e.ended = o /\ e.panelAwaiting = b.panelAwaiting
          /\ e.writeWatchdog = b.writeWatchdog /\ e.pendingId = b.pendingId
          /\ e.nextId = b.nextId /\ e.host = b.host /\ e.stream = b.stream
          /\ e.active = b.active /\ e.linked = b.linked
      <4>1. b \in ClientType
        BY <3>4
      <4> QED BY <3>5, <4>1 DEF ClientType
    <3> QED BY <2>1, <3>2, <3>4, <3>6
  <2>6. r = [e EXCEPT !.connected = TRUE, !.shown = m.host, !.panelAwaiting = FALSE,
                      !.judgedBy = m.after, !.judged = e.nextId - 1]
    BY <2>4, <2>5 DEF ApplyStatus
  <2>7. e.nextId - 1 \in 0..MaxOrders
    BY <2>5, PanelAssumption DEF ClientType
  <2>8. /\ r \in ClientType /\ ~r.awaiting /\ ~r.confirmation /\ ~r.busy /\ r.ended = Over(d)
        /\ ~r.panelAwaiting /\ ~r.writeWatchdog /\ r.pendingId = 0 /\ r.nextId = d.nextId
        /\ r.host = d.host /\ r.stream = d.stream /\ r.active = d.active /\ r.linked = d.linked
        /\ r.judgedBy = m.after /\ r.judged = d.nextId - 1 /\ r.shown = m.host
    <3>1. PICK b : b = [e EXCEPT !.connected = TRUE, !.shown = m.host, !.panelAwaiting = FALSE]
      OBVIOUS
    <3>2. /\ b \in ClientType /\ ~b.awaiting /\ ~b.confirmation /\ ~b.busy /\ b.ended = Over(d)
          /\ ~b.panelAwaiting /\ ~b.writeWatchdog /\ b.pendingId = 0 /\ b.nextId = d.nextId
          /\ b.host = d.host /\ b.stream = d.stream /\ b.active = d.active /\ b.linked = d.linked
          /\ b.shown = m.host
      <4>1. PICK h \in Servers : h = m.host
        BY <1>1
      <4>2. b = [e EXCEPT !.connected = TRUE, !.shown = h, !.panelAwaiting = FALSE]
        BY <3>1, <4>1
      <4>3. /\ b \in ClientType /\ b.awaiting = e.awaiting /\ b.confirmation = e.confirmation
            /\ b.busy = e.busy /\ b.ended = e.ended /\ ~b.panelAwaiting
            /\ b.writeWatchdog = e.writeWatchdog /\ b.pendingId = e.pendingId
            /\ b.nextId = e.nextId /\ b.host = e.host /\ b.stream = e.stream
            /\ b.active = e.active /\ b.linked = e.linked /\ b.shown = h
        BY <2>5, <4>2, ZenonT(30) DEF ClientType
      <4> QED BY <2>5, <4>1, <4>3
    <3>3. PICK k \in 0..MaxOrders : k = e.nextId - 1
      BY <2>7
    <3>4. r = [b EXCEPT !.judgedBy = m.after, !.judged = k]
      BY <2>6, <3>1, <3>3
    <3> QED BY <1>1, <2>5, <3>2, <3>3, <3>4, ZenonT(30) DEF ClientType
  <2>9. Judges(r)
    BY <1>1, <1>3, <1>6, <2>8 DEF Judges, Alike
  <2>10. Ends(r)
    BY <1>3, <1>4, <2>1, <2>8, OverFacts DEF Ends
  <2>11. Sound(r)
    BY <2>8, <2>9, <2>10 DEF Sound, Waits, Works
  <2> QED BY <1>3, <2>3, <2>8, <2>11 DEF Same
<1>7. CASE ~d.busy /\ ~d.awaiting
  <2>1. ~d.panelAwaiting
    BY <1>4, <1>7 DEF Sound, Waits
  <2>2. PICK r : r = StatusMessage(c, m) OBVIOUS
  <2>3. r = [d EXCEPT !.connected = TRUE, !.shown = m.host, !.panelAwaiting = FALSE,
                      !.judgedBy = d.judgedBy, !.judged = d.judged]
    BY <1>2, <1>7, <2>1, <2>2 DEF StatusMessage, ApplyStatus
  <2>4. /\ r \in ClientType /\ r.pendingId = d.pendingId /\ r.awaiting = d.awaiting
        /\ r.writeWatchdog = d.writeWatchdog /\ r.confirmation = d.confirmation
        /\ r.busy = d.busy /\ ~r.panelAwaiting /\ r.ended = d.ended /\ r.nextId = d.nextId
        /\ r.judged = d.judged /\ r.judgedBy = d.judgedBy /\ r.shown = m.host
        /\ r.host = d.host /\ r.stream = d.stream /\ r.active = d.active /\ r.linked = d.linked
    BY <1>1, <1>3, <2>3 DEF ClientType
  <2>5. Judges(r)
    BY <1>1, <1>3, <1>4, <2>4 DEF Judges, Sound, Alike
  <2>6. Sound(r)
    BY <1>4, <2>1, <2>4, <2>5 DEF Sound, Waits, Ends, Works
  <2> QED BY <1>3, <2>2, <2>4, <2>6 DEF Same
<1> QED BY <1>5, <1>6, <1>7

LEMMA ControlFacts ==
  ASSUME NEW c \in ClientType, Sound(c), NEW m \in Whole, m.kind = "control",
         NEW d, d = ControlMessage(c, m)
  PROVE  /\ Sound(d)
         /\ Same(c, d)
            \/ /\ d.stream = c.stream /\ d.host = c.host /\ d.nextId = c.nextId
               /\ d.active = c.active /\ d.linked = c.linked
               /\ m.ok /\ m.id = c.nextId - 1
<1>1. CASE ~c.busy \/ m.id # c.pendingId
  <2>1. d = c
    BY <1>1 DEF ControlMessage
  <2> QED BY <2>1 DEF Same
<1>2. CASE c.busy /\ m.id = c.pendingId
  <2>1. m.id \in Ids /\ m.ok \in BOOLEAN
    BY WholeFacts
  <2>2. c.pendingId = c.nextId - 1 /\ ~c.awaiting
    BY <1>2, <2>1 DEF Sound, Works, Ids
  <2>3. PICK e : e = [c EXCEPT !.writeWatchdog = FALSE, !.pendingId = 0] OBVIOUS
  <2>4. 0 \in 0..MaxOrders
    BY PanelAssumption
  <2>5. CASE ~m.ok
    <3>1. d = FailCommand(e)
      BY <1>2, <2>3, <2>5 DEF ControlMessage
    <3>2. FailCommand(e) = FailCommand(c)
      <4>1. e.ended = c.ended /\ e.nextId = c.nextId /\ e.busy = c.busy /\ Over(e) = Over(c)
        BY <2>3 DEF ClientType, Over
      <4>2. PICK x : x = (IF c.busy THEN Over(c) ELSE c.ended) OBVIOUS
      <4>3. FailCommand(c)
              = [c EXCEPT !.pendingId = 0, !.awaiting = FALSE, !.writeWatchdog = FALSE,
                          !.confirmation = FALSE, !.busy = FALSE, !.panelAwaiting = FALSE,
                          !.ended = x]
        BY <4>2 DEF FailCommand
      <4>4. FailCommand(e)
              = [e EXCEPT !.pendingId = 0, !.awaiting = FALSE, !.writeWatchdog = FALSE,
                          !.confirmation = FALSE, !.busy = FALSE, !.panelAwaiting = FALSE,
                          !.ended = x]
        BY <4>1, <4>2 DEF FailCommand
      <4> QED BY <2>3, <4>3, <4>4
    <3> QED BY <3>1, <3>2, FailFacts
  <2>6. CASE m.ok
    <3>1. d = [e EXCEPT !.awaiting = TRUE, !.confirmation = TRUE]
      BY <1>2, <2>3, <2>6 DEF ControlMessage
    <3>2. /\ e \in ClientType /\ e.pendingId = 0 /\ e.awaiting = c.awaiting
          /\ ~e.writeWatchdog /\ e.confirmation = c.confirmation
          /\ e.busy = c.busy /\ e.panelAwaiting = c.panelAwaiting /\ e.ended = c.ended
          /\ e.nextId = c.nextId /\ e.judged = c.judged
          /\ e.judgedBy = c.judgedBy /\ e.shown = c.shown /\ e.host = c.host /\ e.stream = c.stream
          /\ e.active = c.active /\ e.linked = c.linked
      BY <2>3, <2>4 DEF ClientType
    <3>3. /\ d \in ClientType /\ d.pendingId = 0 /\ d.awaiting
          /\ ~d.writeWatchdog /\ d.confirmation
          /\ d.busy = c.busy /\ d.panelAwaiting = c.panelAwaiting /\ d.ended = c.ended
          /\ d.nextId = c.nextId /\ d.judged = c.judged
          /\ d.judgedBy = c.judgedBy /\ d.shown = c.shown /\ d.host = c.host /\ d.stream = c.stream
          /\ d.active = c.active /\ d.linked = c.linked
      <4>1. /\ d \in ClientType /\ d.pendingId = e.pendingId /\ d.awaiting
            /\ d.writeWatchdog = e.writeWatchdog /\ d.confirmation
            /\ d.busy = e.busy /\ d.panelAwaiting = e.panelAwaiting /\ d.ended = e.ended
            /\ d.nextId = e.nextId /\ d.judged = e.judged /\ d.judgedBy = e.judgedBy
            /\ d.shown = e.shown /\ d.host = e.host /\ d.stream = e.stream
            /\ d.active = e.active /\ d.linked = e.linked
        <5>1. e \in ClientType
          BY <3>2
        <5> QED BY <3>1, <5>1 DEF ClientType
      <4> QED BY <3>2, <4>1
    <3>4. Sound(d)
      BY <1>2, <3>3 DEF Sound, Waits, Ends, Works, Judges
    <3> QED BY <1>2, <2>2, <2>6, <3>3, <3>4
  <2> QED BY <2>1, <2>5, <2>6
<1> QED BY <1>1, <1>2

LEMMA StateFacts ==
  ASSUME NEW c \in ClientType, Sound(c), NEW m
  PROVE  Sound(StateMessage(c, m)) /\ Same(c, StateMessage(c, m))
<1>1. PICK d : d = [c EXCEPT !.hasStatus = FALSE] OBVIOUS
<1>2. d \in ClientType /\ Alike(c, d) /\ Same(c, d)
  BY <1>1 DEF ClientType, Alike, Same
<1>3. Sound(d)
  BY <1>2, AlikeFacts
<1>4. PICK e : e = (IF d.busy THEN FailCommand(d) ELSE d) OBVIOUS
<1>5. StateMessage(c, m) = IF m.state = "connecting" THEN d ELSE PanelConnectionFailed(e)
  BY <1>1, <1>4 DEF StateMessage
<1>6. Sound(e) /\ e \in ClientType /\ Same(c, e)
  <2>1. CASE d.busy
    BY <1>2, <1>3, <1>4, <2>1, FailFacts DEF Sound, Same
  <2>2. CASE ~d.busy
    BY <1>2, <1>3, <1>4, <2>2
  <2> QED BY <2>1, <2>2
<1>7. Sound(PanelConnectionFailed(e)) /\ Same(c, PanelConnectionFailed(e))
  BY <1>6, FailedFacts DEF Same
<1> QED BY <1>2, <1>3, <1>5, <1>7

LEMMA AutomationFacts ==
  ASSUME NEW c \in ClientType, Sound(c), NEW m, m.override \in BOOLEAN
  PROVE  Sound(AutomationMessage(c, m)) /\ Same(c, AutomationMessage(c, m))
<1>1. PICK d : d = AutomationMessage(c, m) OBVIOUS
<1>2. PICK q \in BOOLEAN : q = (c.resumeRequested /\ m.override)
  OBVIOUS
<1>3. d = [c EXCEPT !.override = m.override, !.resumeRequested = q]
  BY <1>1, <1>2 DEF AutomationMessage
<1>4. d \in ClientType /\ Alike(c, d) /\ Same(c, d)
  BY <1>3 DEF ClientType, Alike, Same
<1> QED BY <1>1, <1>4, AlikeFacts

LEMMA GarbageFacts ==
  ASSUME NEW c \in ClientType, Sound(c)
  PROVE  Sound(GarbageMessage(c)) /\ Same(c, GarbageMessage(c))
<1>1. PICK d : d = PanelDisconnected(c) OBVIOUS
<1>2. Sound(d) /\ d \in ClientType /\ Same(c, d)
  BY <1>1, LostFacts DEF Sound
<1>3. Sound(PanelConnectionFailed(d)) /\ Same(d, PanelConnectionFailed(d))
  BY <1>2, FailedFacts
<1> QED BY <1>1, <1>2, <1>3 DEF GarbageMessage, Same

\* A message that is true, in front of lines that are, is handled soundly, and
\* the lines behind it stay true.
LEMMA HandleFacts ==
  ASSUME NEW c \in ClientType, Sound(c), NEW t, NEW answered \in Nat, Flow(c, t, answered),
         NEW m \in Whole, Fine(m, c, answered),
         \A i \in 1..Len(c.stream) : Before(m, c.stream[i]),
         \A i \in 1..Len(t) : Before(m, t[i]),
         NEW d, d = HandleEnvelope(c, m)
  PROVE  /\ Sound(d) /\ Flow(d, t, answered) /\ d.stream = c.stream /\ d.host = c.host
         /\ d.nextId = c.nextId /\ d.active = c.active /\ (d.linked => c.linked)
<1>0. ASSUME Same(c, d), Sound(d) PROVE
         /\ Sound(d) /\ Flow(d, t, answered) /\ d.stream = c.stream /\ d.host = c.host
         /\ d.nextId = c.nextId /\ d.active = c.active /\ (d.linked => c.linked)
  BY <1>0, SameFlow DEF Same
<1>1. m.kind \in {"status", "control", "state", "automation_state", "garbage"}
  BY WholeFacts
<1>2. CASE m.kind = "status"
  <2>1. d = StatusMessage(c, m)
    BY <1>2 DEF HandleEnvelope
  <2> QED BY <1>0, <1>2, <2>1, StatusFacts
<1>3. CASE m.kind = "control"
  <2>1. d = ControlMessage(c, m)
    BY <1>3 DEF HandleEnvelope
  <2>2. CASE Same(c, d)
    BY <1>0, <1>3, <2>1, <2>2, ControlFacts
  <2>3. CASE ~Same(c, d)
    <3>1. /\ Sound(d) /\ d.stream = c.stream /\ d.host = c.host /\ d.nextId = c.nextId
          /\ d.active = c.active /\ d.linked = c.linked /\ m.ok /\ m.id = c.nextId - 1
      BY <1>3, <2>1, <2>3, ControlFacts
    <3>2. Content(m) = m /\ m.id <= answered
      BY <1>3, <3>1, PartFacts DEF Fine
    <3>3. ASSUME NEW x, Fine(x, c, answered), Before(m, x) PROVE Fine(x, d, answered)
      BY <1>3, <3>1, <3>2, <3>3 DEF Fine, Before
    <3>4. Flow(d, t, answered)
      BY <3>1, <3>2, <3>3 DEF Flow
    <3> QED BY <3>1, <3>4
  <2> QED BY <2>2, <2>3
<1>4. CASE m.kind = "state"
  <2>1. d = StateMessage(c, m)
    BY <1>4 DEF HandleEnvelope
  <2> QED BY <1>0, <2>1, StateFacts
<1>5. CASE m.kind = "automation_state"
  <2>1. d = AutomationMessage(c, m)
    BY <1>5 DEF HandleEnvelope
  <2>2. m.override \in BOOLEAN
    BY <1>5, WholeFacts
  <2> QED BY <1>0, <2>1, <2>2, AutomationFacts
<1>6. CASE m.kind = "garbage"
  <2>1. d = GarbageMessage(c)
    BY <1>6 DEF HandleEnvelope
  <2> QED BY <1>0, <2>1, GarbageFacts
<1> QED BY <1>1, <1>2, <1>3, <1>4, <1>5, <1>6

-----------------------------------------------------------------------------
(* The lines of one read. *)

LEMMA EndFacts ==
  ASSUME NEW s \in Seq(Line), s # <<>>
  PROVE  /\ Len(s) \in Nat \ {0} /\ Last(s) = s[Len(s)] /\ Head(s) = s[1]
         /\ Front(s) \in Seq(Line) /\ Len(Front(s)) = Len(s) - 1
         /\ \A i \in 1..(Len(s) - 1) : Front(s)[i] = s[i]
<1>1. Len(s) \in Nat \ {0}
  BY EmptySeq
<1>2. PICK n \in Nat : n = Len(s) - 1
  BY <1>1
<1>3. \A i \in 1..n : s[i] \in Line
  BY <1>1, <1>2, ElementOfSeq
<1>4. /\ SubSeq(s, 1, n) \in Seq(Line) /\ Len(SubSeq(s, 1, n)) = IF 1 <= n THEN n - 1 + 1 ELSE 0
      /\ \A i \in 1..(n - 1 + 1) : SubSeq(s, 1, n)[i] = s[1 + i - 1]
  BY <1>2, <1>3, SubSeqProperties
<1>5. Len(SubSeq(s, 1, n)) = n /\ \A i \in 1..n : SubSeq(s, 1, n)[i] = s[i]
  BY <1>2, <1>4
<1>6. Front(s) = SubSeq(s, 1, n)
  BY <1>2 DEF Front
<1> QED BY <1>1, <1>2, <1>4, <1>5, <1>6 DEF Last

\* Where the lines come from; a half one is made whole, or garbage.
JoinedFrom(s, chunk, lines, shift) ==
    /\ lines \in Seq(Line) /\ shift \in {0, 1} /\ Len(lines) = Len(s) + Len(chunk) - shift
    /\ \A i \in 1..Len(lines) :
          \/ /\ i <= Len(s)
             /\ Content(lines[i]) = Content(s[i]) \/ Content(lines[i]) = Garbage
          \/ /\ Len(s) < i /\ i - Len(s) + shift \in 1..Len(chunk)
             /\ lines[i] = chunk[i - Len(s) + shift]

LEMMA JoinedFacts ==
  ASSUME NEW s \in Seq(Line), NEW chunk \in Seq(Line), chunk # <<>>, WholeLines(s),
         \A i \in 1..Len(chunk) :
            /\ chunk[i].kind = "head" => i = Len(chunk)
            /\ chunk[i].kind = "tail" => i = 1 /\ Len(s) # 0 /\ s[Len(s)].kind = "head",
         NEW lines, lines = Joined(s, chunk)
  PROVE  /\ \E shift : JoinedFrom(s, chunk, lines, shift)
         /\ Len(lines) # 0 /\ WholeLines(lines)
         /\ chunk[Len(chunk)].kind = "head" => lines[Len(lines)].kind = "head"
<1>1. PICK m \in Nat, l \in Nat \ {0} : m = Len(s) /\ l = Len(chunk)
  BY LenProperties, EndFacts
<1>2. CASE s = <<>> \/ Last(s).kind # "head"
  <2>1. lines = s \o chunk
    BY <1>2 DEF Joined
  <2>2. /\ lines \in Seq(Line) /\ Len(lines) = m + l
        /\ \A i \in 1..(m + l) : lines[i] = IF i <= m THEN s[i] ELSE chunk[i - m]
    BY <1>1, <2>1, ConcatProperties
  <2>3. \A i \in 1..(m + l) : i <= m \/ (m < i /\ i - m \in 1..l)
    BY <1>1
  <2>4. \A i \in 1..m : s[i].kind # "tail" /\ s[i].kind # "head"
    <3>1. TAKE i \in 1..m
    <3>2. s # <<>>
      BY <1>1, <3>1, EmptySeq
    <3>3. Last(s) = s[m] /\ s[m].kind # "head"
      BY <1>1, <1>2, <3>2, EndFacts
    <3> QED BY <1>1, <3>3 DEF WholeLines
  <2>5. m # 0 => s[m].kind # "head"
    BY <1>1, <2>4
  <2>6. WholeLines(lines)
    <3>1. ASSUME NEW i \in 1..(m + l)
          PROVE  lines[i].kind # "tail" /\ (lines[i].kind = "head" => i = m + l)
      <4>1. CASE i <= m
        BY <1>1, <2>2, <2>4, <3>1, <4>1
      <4>2. CASE m < i /\ i - m \in 1..l
        BY <1>1, <2>2, <2>5, <3>1, <4>2
      <4> QED BY <2>3, <3>1, <4>1, <4>2
    <3> QED BY <2>2, <3>1 DEF WholeLines
  <2>7. JoinedFrom(s, chunk, lines, 0)
    <3>1. ASSUME NEW i \in 1..(m + l)
          PROVE  \/ i <= m /\ lines[i] = s[i]
                 \/ m < i /\ i - m + 0 \in 1..l /\ lines[i] = chunk[i - m + 0]
      BY <1>1, <2>2, <2>3, <3>1
    <3> QED BY <1>1, <2>2, <3>1 DEF JoinedFrom
  <2>8. lines[m + l] = chunk[l]
    <3>1. m + l \in 1..(m + l) /\ ~(m + l <= m) /\ (m + l) - m = l
      BY <1>1
    <3>2. lines[m + l] = chunk[(m + l) - m]
      BY <2>2, <3>1
    <3> QED BY <3>1, <3>2
  <2> QED BY <1>1, <2>2, <2>6, <2>7, <2>8
<1>3. CASE s # <<>> /\ Last(s).kind = "head"
  <2>1. PICK line : line = (IF Head(chunk).kind = "tail" THEN Last(s).of
                            ELSE IF Head(chunk).kind = "head" THEN HeadOf(Garbage) ELSE Garbage)
    OBVIOUS
  <2>2. lines = Front(s) \o <<line>> \o Tail(chunk)
    BY <1>3, <2>1 DEF Joined
  <2>3. /\ m # 0 /\ Last(s) = s[m] /\ Front(s) \in Seq(Line) /\ Len(Front(s)) = m - 1
        /\ \A i \in 1..(m - 1) : Front(s)[i] = s[i]
    BY <1>1, <1>3, EndFacts
  <2>4. s[m] \in Line /\ s[m].kind = "head" /\ s[m].of \in Whole /\ Content(s[m]) = s[m].of
    BY <1>1, <1>3, <2>3, ElementOfSeq, LineFacts DEF Content
  <2>5. Head(chunk) = chunk[1]
    BY EndFacts
  <2>6. /\ line \in Line /\ (Content(line) = Content(s[m]) \/ Content(line) = Garbage)
        /\ line.kind # "tail" /\ (line.kind = "head" <=> chunk[1].kind = "head")
    <3>1. Garbage \in Whole
      BY DEF Whole
    <3>2. CASE chunk[1].kind = "tail"
      <4>1. line = s[m].of
        BY <2>1, <2>3, <2>5, <3>2
      <4>2. line \in Whole /\ Content(s[m]) = line
        BY <2>4, <4>1
      <4>3. line \in Line /\ Content(line) = line
        BY <4>2, PartFacts
      <4>4. line.kind # "tail" /\ line.kind # "head"
        BY <4>2, WholeFacts
      <4> QED BY <3>2, <4>2, <4>3, <4>4
    <3>3. CASE chunk[1].kind = "head"
      BY <2>1, <2>5, <3>1, <3>3, PartFacts
    <3>4. CASE chunk[1].kind \notin {"head", "tail"}
      BY <2>1, <2>5, <3>1, <3>4, PartFacts DEF Garbage
    <3> QED BY <3>2, <3>3, <3>4
  <2>7. PICK a : a = Front(s) \o <<line>>
    OBVIOUS
  <2>8. /\ a \in Seq(Line) /\ Len(a) = m
        /\ \A i \in 1..m : a[i] = IF i = m THEN line ELSE s[i]
    <3>1. <<line>> \in Seq(Line) /\ Len(<<line>>) = 1 /\ <<line>>[1] = line
      BY <2>6
    <3>2. /\ a \in Seq(Line) /\ Len(a) = (m - 1) + 1
          /\ \A i \in 1..((m - 1) + 1) : a[i] = IF i <= m - 1 THEN Front(s)[i] ELSE <<line>>[i - (m - 1)]
      BY <1>1, <2>3, <2>7, <3>1, ConcatProperties
    <3>3. ASSUME NEW i \in 1..m PROVE a[i] = IF i = m THEN line ELSE s[i]
      BY <1>1, <2>3, <3>1, <3>2
    <3> QED BY <1>1, <3>2, <3>3
  <2>9. /\ Tail(chunk) \in Seq(Line) /\ Len(Tail(chunk)) = l - 1
        /\ \A i \in 1..(l - 1) : Tail(chunk)[i] = chunk[i + 1]
    BY <1>1, HeadTailProperties
  <2>10. /\ lines \in Seq(Line) /\ Len(lines) = m + (l - 1)
         /\ \A i \in 1..(m + (l - 1)) : lines[i] = IF i <= m THEN a[i] ELSE Tail(chunk)[i - m]
    <3>1. lines = a \o Tail(chunk)
      BY <2>2, <2>7
    <3>2. PICK b : b = Tail(chunk) OBVIOUS
    <3>3. /\ lines \in Seq(Line) /\ Len(lines) = Len(a) + Len(b)
          /\ \A i \in 1..(Len(a) + Len(b)) : lines[i] = IF i <= Len(a) THEN a[i] ELSE b[i - Len(a)]
      <4>1. a \in Seq(Line) /\ b \in Seq(Line) /\ lines = a \o b
        BY <2>8, <2>9, <3>1, <3>2
      <4> QED BY <4>1, ConcatProperties
    <3>4. Len(a) = m /\ Len(b) = l - 1
      BY <2>8, <2>9, <3>2
    <3> QED BY <3>2, <3>3, <3>4
  <2>11. /\ lines[m] = line /\ \A i \in 1..(m - 1) : lines[i] = s[i]
         /\ \A i \in (m + 1)..(m + (l - 1)) : i - m + 1 \in 2..l /\ lines[i] = chunk[i - m + 1]
    <3>1. \A i \in (m + 1)..(m + (l - 1)) : i - m \in 1..(l - 1) /\ i - m + 1 \in 2..l
      BY <1>1
    <3>2. lines[m] = line
      <4>1. m \in 1..(m + (l - 1)) /\ m \in 1..m
        BY <1>1, <2>3
      <4>2. lines[m] = a[m]
        BY <1>1, <2>10, <4>1, SMTT(30)
      <4> QED BY <2>8, <4>1, <4>2
    <3>3. ASSUME NEW i \in 1..(m - 1) PROVE lines[i] = s[i]
      <4>1. i \in 1..(m + (l - 1)) /\ i \in 1..m /\ i # m /\ i <= m
        BY <1>1
      <4>2. lines[i] = a[i]
        BY <2>10, <4>1
      <4> QED BY <2>8, <4>1, <4>2
    <3>4. ASSUME NEW i \in (m + 1)..(m + (l - 1)) PROVE lines[i] = chunk[i - m + 1]
      <4>1. PICK k \in 1..(l - 1) : k = i - m
        BY <3>1
      <4>2. lines[i] = Tail(chunk)[k]
        BY <1>1, <2>10, <4>1
      <4> QED BY <2>9, <4>1, <4>2
    <3> QED BY <3>1, <3>2, <3>3, <3>4
  <2>12. \A i \in 1..(m + (l - 1)) : i \in 1..(m - 1) \/ i = m \/ i \in (m + 1)..(m + (l - 1))
    BY <1>1
  <2>13. WholeLines(lines)
    <3>1. ASSUME NEW i \in 1..(m + (l - 1))
          PROVE  lines[i].kind # "tail" /\ (lines[i].kind = "head" => i = m + (l - 1))
      <4>1. CASE i \in 1..(m - 1)
        BY <1>1, <2>11, <4>1 DEF WholeLines
      <4>2. CASE i = m
        BY <1>1, <2>6, <2>11, <4>2
      <4>3. CASE i \in (m + 1)..(m + (l - 1))
        <5>1. PICK k \in 2..l : k = i - m + 1 /\ lines[i] = chunk[k]
          BY <2>11, <4>3
        <5>2. k \in 1..Len(chunk) /\ k # 1
          BY <1>1, <5>1
        <5>3. lines[i].kind # "tail" /\ (lines[i].kind = "head" => k = l)
          BY <1>1, <5>1, <5>2
        <5> QED BY <1>1, <5>1, <5>3
      <4> QED BY <2>12, <4>1, <4>2, <4>3
    <3> QED BY <2>10, <3>1 DEF WholeLines
  <2>14. JoinedFrom(s, chunk, lines, 1)
    <3>1. ASSUME NEW i \in 1..(m + (l - 1))
          PROVE  \/ i <= m /\ (Content(lines[i]) = Content(s[i]) \/ Content(lines[i]) = Garbage)
                 \/ m < i /\ i - m + 1 \in 1..l /\ lines[i] = chunk[i - m + 1]
      <4>1. CASE i \in 1..(m - 1)
        BY <1>1, <2>11, <4>1
      <4>2. CASE i = m
        BY <1>1, <2>6, <2>11, <4>2
      <4>3. CASE i \in (m + 1)..(m + (l - 1))
        BY <1>1, <2>11, <4>3
      <4> QED BY <2>12, <4>1, <4>2, <4>3
    <3>2. Len(lines) = m + l - 1
      BY <1>1, <2>10
    <3> QED BY <1>1, <2>10, <3>1, <3>2 DEF JoinedFrom
  <2>15. chunk[l].kind = "head" => lines[m + (l - 1)].kind = "head"
    <3>1. CASE l = 1
      <4>1. m + (l - 1) = m
        BY <1>1, <3>1
      <4> QED BY <2>6, <2>11, <3>1, <4>1
    <3>2. CASE l # 1
      <4>1. m + (l - 1) \in (m + 1)..(m + (l - 1)) /\ (m + (l - 1)) - m + 1 = l
        BY <1>1, <3>2
      <4> QED BY <2>11, <4>1
    <3> QED BY <3>1, <3>2
  <2> QED BY <1>1, <2>3, <2>10, <2>13, <2>14, <2>15
<1> QED BY <1>2, <1>3

LEMMA GarbageTellsNothing ==
  /\ \A x, y : Content(x) = Garbage \/ Content(y) = Garbage => Before(x, y)
  /\ \A x, c, answered : Content(x) = Garbage => Fine(x, c, answered)
<1>1. Garbage.kind = "garbage"
  BY DEF Garbage
<1> QED BY <1>1 DEF Before, Fine

\* What is true of the lines in two pieces is true of them joined.
LEMMA JoinedFlow ==
  ASSUME NEW c \in ClientType, NEW chunk \in Seq(Line), NEW t, NEW answered, NEW lines, NEW shift,
         JoinedFrom(c.stream, chunk, lines, shift),
         Flow(c, chunk, answered), Flow(c, t, answered),
         \A i \in 1..Len(chunk) : \A j \in 1..Len(t) : Before(chunk[i], t[j]),
         NEW d, d.stream = lines, d.host = c.host, d.nextId = c.nextId, d.awaiting = c.awaiting
  PROVE  Flow(d, t, answered)
<1>1. PICK m \in Nat, l \in Nat : m = Len(c.stream) /\ l = Len(chunk)
  BY LenProperties DEF ClientType
<1>2. \A x : Fine(x, c, answered) <=> Fine(x, d, answered)
  BY DEF Fine
<1>3. \A x, y, z : Content(x) = Content(y) =>
          /\ Fine(x, c, answered) <=> Fine(y, c, answered)
          /\ Before(x, z) <=> Before(y, z)
          /\ Before(z, x) <=> Before(z, y)
  BY DEF Fine, Before
<1>4. ASSUME NEW i \in 1..Len(lines)
      PROVE  \/ Content(lines[i]) = Garbage
             \/ i \in 1..m /\ Content(lines[i]) = Content(c.stream[i])
             \/ m < i /\ \E k \in 1..l : k = i - m + shift /\ Content(lines[i]) = Content(chunk[k])
  <2>1. CASE i <= m /\ (Content(lines[i]) = Content(c.stream[i]) \/ Content(lines[i]) = Garbage)
    <3>1. i \in 1..m
      BY <1>1, <1>4, <2>1 DEF JoinedFrom
    <3> QED BY <2>1, <3>1
  <2>2. CASE m < i /\ i - m + shift \in 1..l /\ lines[i] = chunk[i - m + shift]
    BY <2>2
  <2> QED BY <1>1, <2>1, <2>2 DEF JoinedFrom
<1>5. ASSUME NEW i \in 1..Len(lines) PROVE Fine(lines[i], d, answered)
  BY <1>1, <1>2, <1>3, <1>4, GarbageTellsNothing, ZenonT(30) DEF Flow
<1>6. ASSUME NEW i \in 1..Len(lines), NEW j \in 1..Len(t) PROVE Before(lines[i], t[j])
  BY <1>1, <1>3, <1>4, GarbageTellsNothing DEF Flow
<1>7. ASSUME NEW i \in 1..Len(lines), NEW j \in 1..Len(lines), i < j
      PROVE  Before(lines[i], lines[j])
  <2>1. i \in Nat /\ j \in Nat /\ shift \in {0, 1}
    BY DEF JoinedFrom
  <2>2. CASE Content(lines[i]) = Garbage \/ Content(lines[j]) = Garbage
    BY <2>2, GarbageTellsNothing
  <2>3. CASE /\ i \in 1..m /\ Content(lines[i]) = Content(c.stream[i])
             /\ j \in 1..m /\ Content(lines[j]) = Content(c.stream[j])
    <3>1. Before(c.stream[i], c.stream[j])
      BY <1>1, <1>7, <2>3 DEF Flow
    <3> QED BY <1>3, <2>3, <3>1
  <2>4. CASE /\ i \in 1..m /\ Content(lines[i]) = Content(c.stream[i])
             /\ m < j /\ \E k \in 1..l : k = j - m + shift /\ Content(lines[j]) = Content(chunk[k])
    <3>1. PICK k \in 1..l : Content(lines[j]) = Content(chunk[k])
      BY <2>4
    <3>2. Before(c.stream[i], chunk[k])
      BY <1>1, <2>4, <3>1 DEF Flow
    <3> QED BY <1>3, <2>4, <3>1, <3>2
  <2>5. CASE /\ m < i /\ \E k \in 1..l : k = i - m + shift /\ Content(lines[i]) = Content(chunk[k])
             /\ m < j /\ \E k \in 1..l : k = j - m + shift /\ Content(lines[j]) = Content(chunk[k])
    <3>1. PICK k \in 1..l : k = i - m + shift /\ Content(lines[i]) = Content(chunk[k])
      BY <2>5
    <3>2. PICK h \in 1..l : h = j - m + shift /\ Content(lines[j]) = Content(chunk[h])
      BY <2>5
    <3>3. k < h
      BY <1>7, <2>1, <3>1, <3>2, SMTT(30)
    <3>4. Before(chunk[k], chunk[h])
      BY <1>1, <3>1, <3>2, <3>3 DEF Flow
    <3> QED BY <1>3, <3>1, <3>2, <3>4
  <2>6. ~(j \in 1..m /\ m < i)
    BY <1>7, <2>1
  <2> QED BY <1>4, <2>2, <2>3, <2>4, <2>5, <2>6
<1>8. (d.awaiting => d.nextId - 1 <= answered) /\ (\A i \in 1..Len(t) : Fine(t[i], d, answered))
      /\ (\A i, j \in 1..Len(t) : i < j => Before(t[i], t[j]))
  BY <1>2 DEF Flow
<1> QED BY <1>5, <1>6, <1>7, <1>8 DEF Flow

\* The stream while the lines are handled: what is left of them.
Suffix(s, lines, k) ==
    s \in Seq(Line) /\ Len(s) = Len(lines) - k /\ \A j \in 1..Len(s) : s[j] = lines[k + j]

Handled(c, r, lines, i, t, answered) ==
    /\ Sound(r) /\ Flow(r, t, answered)
    /\ r.host = c.host /\ r.nextId = c.nextId /\ r.active = c.active /\ (r.linked => c.linked)
    /\ \E k \in 0..i : /\ Suffix(r.stream, lines, k)
                       /\ \A h \in 1..k : lines[h].kind # "head"
                       /\ r.linked /\ i < Len(lines) => k = i

LineHandled(r, line) ==
    IF line.kind = "head" \/ ~r.linked THEN r
    ELSE HandleEnvelope([r EXCEPT !.stream = Tail(@)], line)

LEMMA OneLine ==
  ASSUME NEW c, NEW r \in ClientType, NEW lines \in Seq(Line), WholeLines(lines), NEW t,
         NEW answered \in Nat, NEW i \in 1..Len(lines), Handled(c, r, lines, i - 1, t, answered),
         NEW d, d = LineHandled(r, lines[i])
  PROVE  Handled(c, d, lines, i, t, answered)
<1>1. PICK n \in Nat : n = Len(lines)
  BY LenProperties
<1>2. i \in Nat /\ i >= 1 /\ i <= n /\ i - 1 < n
  BY <1>1
<1>3. PICK k \in 0..(i - 1) : /\ Suffix(r.stream, lines, k)
                              /\ \A h \in 1..k : lines[h].kind # "head"
                              /\ r.linked /\ i - 1 < n => k = i - 1
  BY <1>1 DEF Handled
<1>4. k \in 0..i /\ k \in Nat
  BY <1>2
<1>5. CASE ~r.linked
  <2>1. d = r
    BY <1>5 DEF LineHandled
  <2> QED BY <1>3, <1>4, <1>5, <2>1 DEF Handled
<1>6. CASE r.linked /\ lines[i].kind = "head"
  <2>1. d = r /\ i = n
    BY <1>1, <1>6 DEF LineHandled, WholeLines
  <2> QED BY <1>1, <1>3, <1>4, <2>1 DEF Handled
<1>7. CASE r.linked /\ lines[i].kind # "head"
  <2>1. k = i - 1
    BY <1>2, <1>3, <1>7
  <2>2. PICK s : s = r.stream OBVIOUS
  <2>3. s \in Seq(Line) /\ Len(s) = n - (i - 1) /\ \A j \in 1..Len(s) : s[j] = lines[(i - 1) + j]
    BY <1>1, <1>3, <2>1, <2>2 DEF Suffix
  <2>4. s # <<>> /\ Len(s) \in Nat \ {0} /\ s[1] = lines[i]
    BY <1>2, <2>3, EmptySeq
  <2>5. /\ Tail(s) \in Seq(Line) /\ Len(Tail(s)) = Len(s) - 1
        /\ \A j \in 1..Len(Tail(s)) : Tail(s)[j] = s[j + 1]
    BY <2>3, <2>4, HeadTailProperties
  <2>6. PICK e : e = [r EXCEPT !.stream = Tail(s)] OBVIOUS
  <2>7. e \in ClientType /\ Alike(r, e) /\ e.stream = Tail(s) /\ e.active = r.active /\ e.linked = r.linked
    BY <2>5, <2>6 DEF ClientType, Alike
  <2>8. Sound(e)
    BY <2>7, AlikeFacts DEF Handled
  <2>9. lines[i] \in Line /\ lines[i].kind # "tail"
    BY ElementOfSeq DEF WholeLines
  <2>10. PICK m : m = lines[i] OBVIOUS
  <2>11. m \in Whole
    BY <1>7, <2>9, <2>10, LineFacts
  <2>12. \A x : Fine(x, r, answered) <=> Fine(x, e, answered)
    BY <2>7 DEF Fine, Alike
  <2>13. Fine(m, e, answered) /\ \A j \in 1..Len(t) : Before(m, t[j])
    BY <2>2, <2>4, <2>10, <2>12 DEF Handled, Flow
  <2>14. \A j \in 1..Len(Tail(s)) : j + 1 \in 1..Len(s) /\ 1 < j + 1
    BY <2>4, <2>5
  <2>15. \A j \in 1..Len(e.stream) : Before(m, e.stream[j])
    <3>1. \A j \in 1..Len(Tail(s)) : Before(s[1], s[j + 1])
      BY <2>2, <2>4, <2>14 DEF Handled, Flow
    <3> QED BY <2>4, <2>5, <2>7, <2>10, <3>1
  <2>16. Flow(e, t, answered)
    <3>1. \A j \in 1..Len(e.stream) : Fine(e.stream[j], e, answered)
      BY <2>2, <2>5, <2>7, <2>12, <2>14 DEF Handled, Flow
    <3>2. \A j \in 1..Len(t) : Fine(t[j], e, answered)
      BY <2>12 DEF Handled, Flow
    <3>3. ASSUME NEW x \in 1..Len(e.stream), NEW y \in 1..Len(e.stream), x < y
          PROVE  Before(e.stream[x], e.stream[y])
      <4>1. x + 1 \in 1..Len(s) /\ y + 1 \in 1..Len(s) /\ x + 1 < y + 1
        BY <2>7, <2>14, <3>3
      <4>2. Before(s[x + 1], s[y + 1])
        BY <2>2, <4>1 DEF Handled, Flow
      <4> QED BY <2>5, <2>7, <4>2
    <3>4. \A x \in 1..Len(e.stream) : \A y \in 1..Len(t) : Before(e.stream[x], t[y])
      BY <2>2, <2>5, <2>7, <2>14 DEF Handled, Flow
    <3>5. \A x, y \in 1..Len(t) : x < y => Before(t[x], t[y])
      BY DEF Handled, Flow
    <3>6. e.awaiting => e.nextId - 1 <= answered
      BY <2>7 DEF Handled, Flow, Alike
    <3> QED BY <3>1, <3>2, <3>3, <3>4, <3>5, <3>6 DEF Flow
  <2>17. d = HandleEnvelope(e, m)
    BY <1>7, <2>2, <2>6, <2>10 DEF LineHandled
  <2>18. /\ Sound(d) /\ Flow(d, t, answered) /\ d.stream = e.stream /\ d.host = e.host
         /\ d.nextId = e.nextId /\ d.active = e.active /\ (d.linked => e.linked)
    <3>1. \A y : y = HandleEnvelope(e, m) =>
              /\ Sound(y) /\ Flow(y, t, answered) /\ y.stream = e.stream /\ y.host = e.host
              /\ y.nextId = e.nextId /\ y.active = e.active /\ (y.linked => e.linked)
      <4>1. e \in ClientType
        BY <2>7
      <4> QED BY <4>1, <2>8, <2>11, <2>13, <2>15, <2>16, HandleFacts
    <3> QED BY <2>17, <3>1
  <2>19. Suffix(d.stream, lines, i)
    <3>1. d.stream = Tail(s) /\ Len(Tail(s)) = n - i
      BY <1>2, <2>3, <2>5, <2>7, <2>18
    <3>2. ASSUME NEW j \in 1..Len(Tail(s)) PROVE Tail(s)[j] = lines[i + j]
      <4>1. j + 1 \in 1..Len(s) /\ (i - 1) + (j + 1) = i + j
        BY <1>2, <2>14
      <4>2. s[j + 1] = lines[(i - 1) + (j + 1)]
        BY <2>3, <4>1
      <4> QED BY <2>5, <4>1, <4>2
    <3> QED BY <1>1, <2>5, <3>1, <3>2 DEF Suffix
  <2>20. \A h \in 1..i : lines[h].kind # "head"
    <3>1. \A h \in 1..i : h \in 1..(i - 1) \/ h = i
      BY <1>2
    <3> QED BY <1>3, <1>7, <2>1, <3>1
  <2> QED BY <1>1, <1>2, <2>7, <2>18, <2>19, <2>20, SMTT(30) DEF Handled, Alike
<1> QED BY <1>5, <1>6, <1>7

\* The function by which readServer goes through the lines is there, and the
\* client is sound after every line.
LEMMA ReadFacts ==
  ASSUME NEW c \in ClientType, NEW chunk, NEW lines \in Seq(Line), lines = Joined(c.stream, chunk),
         WholeLines(lines), NEW t, NEW answered \in Nat,
         NEW base, base = [c EXCEPT !.stream = lines], Sound(base), Flow(base, t, answered)
  PROVE  Handled(c, ReadServer(c, chunk), lines, Len(lines), t, answered)
<1>1. PICK n \in Nat : n = Len(lines)
  BY LenProperties
<1> DEFINE body(g, k) == [i \in 0..k |-> IF i = 0 THEN base ELSE LineHandled(g[i - 1], lines[i])]
<1>2. ReadServer(c, chunk) = (CHOOSE g : g = body(g, n))[n]
  BY <1>1, Zenon DEF ReadServer, LineHandled
<1>3. \A k \in 0..n : \E g : g = body(g, k)
  <2>1. PICK Bad : Bad = {k \in 0..n : ~ \E g : g = body(g, k)}
    OBVIOUS
  <2>2. SUFFICES ASSUME Bad # {} PROVE FALSE
    BY <2>1
  <2>3. Bad \subseteq Nat
    BY <2>1
  <2>4. PICK x \in Bad : \A y \in Bad : ~ (<<y, x>> \in OpToRel(<, Nat))
    BY <2>2, <2>3, NatLessThanWellFounded, WFMin
  <2>5. \A y \in Nat : y < x => y \notin Bad
    BY <2>3, <2>4 DEF OpToRel
  <2>6. CASE x = 0
    <3>1. PICK g : g = [i \in 0..0 |-> base] OBVIOUS
    <3>2. g = body(g, 0)
      BY <3>1
    <3> QED BY <2>1, <2>6, <3>2
  <2>7. CASE x # 0
    <3>1. x - 1 \in 0..n /\ x - 1 \notin Bad /\ x \in 1..n
      <4>1. x \in 0..n
        BY <2>1
      <4> QED BY <2>5, <2>7, <4>1
    <3>2. PICK g : g = body(g, x - 1)
      BY <2>1, <3>1
    <3>3. \A i \in 0..(x - 1) : g[i] = IF i = 0 THEN base ELSE LineHandled(g[i - 1], lines[i])
      BY <3>2
    <3>4. PICK f : f = [i \in 0..x |-> IF i = x THEN LineHandled(g[x - 1], lines[x]) ELSE g[i]]
      OBVIOUS
    <3>5. \A i \in 0..(x - 1) : f[i] = g[i]
      BY <3>1, <3>4
    <3>6. ASSUME NEW i \in 0..x
          PROVE  f[i] = IF i = 0 THEN base ELSE LineHandled(f[i - 1], lines[i])
      <4>1. CASE i = x
        BY <3>1, <3>4, <3>5, <4>1
      <4>2. CASE i # x /\ i # 0
        <5>1. i \in 0..(x - 1) /\ i - 1 \in 0..(x - 1)
          BY <3>1, <4>2
        <5> QED BY <3>3, <3>5, <4>2, <5>1
      <4>3. CASE i = 0
        BY <3>1, <3>3, <3>5, <4>3, SMTT(30)
      <4> QED BY <4>1, <4>2, <4>3
    <3>7. f = body(f, x)
      BY <3>4, <3>6
    <3> QED BY <2>1, <3>7
  <2> QED BY <2>6, <2>7
<1>4. PICK f : f = (CHOOSE g : g = body(g, n)) OBVIOUS
<1>5. f = body(f, n)
  <2>1. \E g : g = body(g, n)
    BY <1>3
  <2> HIDE DEF body
  <2> QED BY <1>4, <2>1, Zenon
<1>6. /\ f[0] = base
      /\ \A i \in 1..n : f[i] = LineHandled(f[i - 1], lines[i])
  <2>1. \A i \in 0..n : f[i] = IF i = 0 THEN base ELSE LineHandled(f[i - 1], lines[i])
    BY <1>5
  <2> QED BY <2>1
<1>7. Handled(c, base, lines, 0, t, answered)
  <2>1. /\ base.stream = lines /\ base.host = c.host /\ base.nextId = c.nextId
        /\ base.active = c.active /\ base.linked = c.linked
    BY DEF ClientType
  <2>2. Suffix(base.stream, lines, 0)
    BY <1>1, <2>1 DEF Suffix
  <2> QED BY <2>1, <2>2 DEF Handled
<1>8. \A k \in 0..n : Handled(c, f[k], lines, k, t, answered)
  <2>1. PICK Bad : Bad = {k \in 0..n : ~Handled(c, f[k], lines, k, t, answered)}
    OBVIOUS
  <2>2. SUFFICES ASSUME Bad # {} PROVE FALSE
    BY <2>1
  <2>3. Bad \subseteq Nat
    BY <2>1
  <2>4. PICK x \in Bad : \A y \in Bad : ~ (<<y, x>> \in OpToRel(<, Nat))
    BY <2>2, <2>3, NatLessThanWellFounded, WFMin
  <2>5. \A y \in Nat : y < x => y \notin Bad
    BY <2>3, <2>4 DEF OpToRel
  <2>6. x # 0
    BY <1>6, <1>7, <2>1, <2>4
  <2>7. x - 1 \in 0..n /\ x - 1 \notin Bad /\ x \in 1..n
    BY <2>1, <2>5, <2>6
  <2>8. Handled(c, f[x - 1], lines, x - 1, t, answered)
    BY <2>1, <2>7
  <2>9. f[x - 1] \in ClientType
    BY <2>8 DEF Handled, Sound
  <2>10. f[x] = LineHandled(f[x - 1], lines[x])
    BY <1>6, <2>7
  <2>11. Handled(c, f[x], lines, x, t, answered)
    BY <1>1, <2>7, <2>8, <2>9, <2>10, OneLine
  <2> QED BY <2>1, <2>11
<1> QED BY <1>1, <1>2, <1>4, <1>8

-----------------------------------------------------------------------------
(* The steps. *)

\* What a read takes and what it leaves.
Taken(q, n, half) == SubSeq(q, 1, n) \o (IF half THEN <<HeadOf(q[n + 1])>> ELSE <<>>)
Left(q, n, half) ==
    LET rest == SubSeq(q, n + 1, Len(q))
    IN  IF half THEN <<TailOf(Head(rest))>> \o Tail(rest) ELSE rest

LEMMA TakenFacts ==
  ASSUME NEW q \in Seq(Line), NEW n \in 0..Len(q), NEW half \in BOOLEAN,
         n + (IF half THEN 1 ELSE 0) <= Len(q),
         half => q[n + 1] \in Whole,
         NEW chunk, chunk = Taken(q, n, half)
  PROVE  /\ chunk \in Seq(Line) /\ Len(chunk) = n + (IF half THEN 1 ELSE 0)
         /\ \A i \in 1..n : chunk[i] = q[i]
         /\ half => chunk[n + 1] = HeadOf(q[n + 1])
<1>1. Len(q) \in Nat /\ n \in Nat
  BY LenProperties
<1>2. \A i \in 1..n : q[i] \in Line
  BY <1>1, ElementOfSeq
<1>3. PICK a : a = SubSeq(q, 1, n) OBVIOUS
<1>4. a \in Seq(Line) /\ Len(a) = n /\ \A i \in 1..n : a[i] = q[i]
  <2>1. /\ SubSeq(q, 1, n) \in Seq(Line) /\ Len(SubSeq(q, 1, n)) = IF 1 <= n THEN n - 1 + 1 ELSE 0
        /\ \A i \in 1..(n - 1 + 1) : SubSeq(q, 1, n)[i] = q[1 + i - 1]
    BY <1>1, <1>2, SubSeqProperties
  <2> QED BY <1>1, <1>3, <2>1
<1>5. CASE ~half
  <2>1. chunk = a
    <3>1. a \o <<>> = a
      BY <1>4, ConcatEmptySeq
    <3> QED BY <1>3, <1>5, <3>1 DEF Taken
  <2> QED BY <1>1, <1>4, <1>5, <2>1
<1>6. CASE half
  <2>1. PICK h : h = HeadOf(q[n + 1]) OBVIOUS
  <2>2. h \in Line
    BY <1>6, <2>1, PartFacts
  <2>3. <<h>> \in Seq(Line) /\ Len(<<h>>) = 1 /\ <<h>>[1] = h
    BY <2>2
  <2>4. chunk = a \o <<h>>
    BY <1>3, <1>6, <2>1 DEF Taken
  <2>5. /\ chunk \in Seq(Line) /\ Len(chunk) = n + 1
        /\ \A i \in 1..(n + 1) : chunk[i] = IF i <= n THEN a[i] ELSE <<h>>[i - n]
    BY <1>1, <1>4, <2>3, <2>4, ConcatProperties
  <2>6. chunk[n + 1] = h
    <3>1. n + 1 \in 1..(n + 1) /\ ~(n + 1 <= n) /\ (n + 1) - n = 1
      BY <1>1
    <3> QED BY <2>3, <2>5, <3>1
  <2>7. ASSUME NEW i \in 1..n PROVE chunk[i] = q[i]
    <3>1. i \in 1..(n + 1) /\ i <= n
      BY <1>1
    <3> QED BY <1>4, <2>5, <3>1
  <2> QED BY <1>6, <2>1, <2>5, <2>6, <2>7
<1> QED BY <1>5, <1>6

LEMMA LeftFacts ==
  ASSUME NEW q \in Seq(Line), NEW n \in 0..Len(q), NEW half \in BOOLEAN,
         n + (IF half THEN 1 ELSE 0) <= Len(q),
         half => q[n + 1] \in Whole,
         NEW t, t = Left(q, n, half)
  PROVE  /\ t \in Seq(Line) /\ Len(t) = Len(q) - n
         /\ half => t[1] = TailOf(q[n + 1])
         /\ \A i \in 1..Len(t) : i # 1 \/ ~half => t[i] = q[n + i]
<1>1. PICK l \in Nat : l = Len(q)
  BY LenProperties
<1>2. n \in Nat /\ n <= l /\ \A i \in (n + 1)..l : q[i] \in Line
  BY <1>1, ElementOfSeq
<1>3. PICK a : a = SubSeq(q, n + 1, l) OBVIOUS
<1>4. a \in Seq(Line) /\ Len(a) = l - n /\ \A i \in 1..(l - n) : a[i] = q[n + i]
  <2>1. /\ a \in Seq(Line) /\ Len(a) = (IF n + 1 <= l THEN l - (n + 1) + 1 ELSE 0)
        /\ \A i \in 1..(l - (n + 1) + 1) : a[i] = q[(n + 1) + i - 1]
    BY <1>1, <1>2, <1>3, SubSeqProperties
  <2> QED BY <1>1, <1>2, <2>1
<1>5. CASE ~half
  <2>1. t = a
    BY <1>1, <1>3, <1>5 DEF Left
  <2> QED BY <1>1, <1>4, <1>5, <2>1
<1>6. CASE half
  <2>1. n + 1 <= l
    BY <1>1, <1>6
  <2>2. a # <<>> /\ Head(a) = q[n + 1]
    <3>1. Len(a) # 0 /\ 1 \in 1..(l - n)
      BY <1>1, <1>2, <1>4, <2>1
    <3>2. a # <<>>
      BY <3>1
    <3> QED BY <1>4, <3>1, <3>2, EndFacts
  <2>3. PICK b : b = Tail(a) OBVIOUS
  <2>4. b \in Seq(Line) /\ Len(b) = l - n - 1 /\ \A i \in 1..Len(b) : b[i] = a[i + 1]
    BY <1>4, <2>2, <2>3, HeadTailProperties
  <2>5. PICK x : x = TailOf(q[n + 1]) OBVIOUS
  <2>6. x \in Line
    BY <1>6, <2>5, PartFacts
  <2>7. <<x>> \in Seq(Line) /\ Len(<<x>>) = 1 /\ <<x>>[1] = x
    BY <2>6
  <2>8. t = <<x>> \o b
    BY <1>1, <1>3, <1>6, <2>2, <2>3, <2>5 DEF Left
  <2>9. /\ t \in Seq(Line) /\ Len(t) = 1 + Len(b)
        /\ \A i \in 1..(1 + Len(b)) : t[i] = IF i <= 1 THEN <<x>>[i] ELSE b[i - 1]
    BY <2>4, <2>7, <2>8, ConcatProperties
  <2>10. ASSUME NEW i \in 1..(l - n), i # 1 PROVE t[i] = q[n + i]
    <3>1. PICK j \in 1..Len(b) : j = i - 1
      BY <1>1, <1>2, <2>4, <2>10
    <3>2. t[i] = b[j]
      BY <2>4, <2>9, <2>10, <3>1
    <3>3. b[j] = a[i]
      BY <2>4, <3>1
    <3> QED BY <1>4, <3>2, <3>3
  <2>11. t[1] = x /\ Len(t) = l - n
    BY <1>1, <1>2, <2>1, <2>4, <2>7, <2>9
  <2> QED BY <1>1, <1>6, <2>5, <2>9, <2>10, <2>11
<1> QED BY <1>5, <1>6

\* With the connection everything is gone that was on its way.
LEMMA Cut ==
  ASSUME PanelInv, Sound(client'), NEW t, Flow(client', t, server.answered),
         WholeLines(client'.stream), ~client'.active => client'.stream = <<>>,
         ~client'.linked, client'.nextId = client.nextId,
         toClient' = <<>>, toServer' = <<>>, server' = [server EXCEPT !.open = {}]
  PROVE  PanelInv'
<1>1. toClient' \in Seq(Line) /\ toServer' \in Seq(Orders) /\ Len(toClient') = 0 /\ Len(toServer') = 0
  BY EmptySeq
<1>2. /\ server' \in [override : BOOLEAN, open : SUBSET Ids, answered : 0..MaxOrders]
      /\ server'.answered = server.answered /\ server'.open = {}
  BY DEF PanelInv, OrdersInv
<1>3. OrdersInv'
  BY <1>1, <1>2 DEF PanelInv, OrdersInv
<1>4. Flow(client', toClient', server'.answered)
  BY <1>1, <1>2 DEF Flow
<1>5. Continues(client'.stream, toClient') /\ LinkedInv'
  BY <1>1 DEF Continues, LinkedInv
<1> QED BY <1>1, <1>3, <1>4, <1>5 DEF PanelInv

LEMMA Local ==
  ASSUME PanelInv, Sound(client'), Same(client, client'), client'.linked = client.linked,
         UNCHANGED <<toServer, toClient, server>>
  PROVE  PanelInv'
<1>1. Flow(client', toClient', server'.answered)
  BY SameFlow DEF PanelInv
<1>2. OrdersInv' /\ LinkedInv'
  BY DEF PanelInv, OrdersInv, LinkedInv, Same
<1> QED BY <1>1, <1>2 DEF PanelInv, Same

LEMMA StepRead ==
  ASSUME PanelInv, NEW n \in 0..Len(toClient), NEW half \in BOOLEAN,
         n + (IF half THEN 1 ELSE 0) <= Len(toClient), Read(n, half)
  PROVE  PanelInv'
<1>1. PICK q : q = toClient OBVIOUS
<1>2. PICK chunk : chunk = Taken(q, n, half) OBVIOUS
<1>3. PICK t : t = Left(q, n, half) OBVIOUS
<1>4. PICK c : c = ReadServer(client, chunk) OBVIOUS
<1>5. PICK answered \in Nat : answered = server.answered
  BY PanelAssumption DEF PanelInv, OrdersInv
<1>6. /\ client \in ClientType /\ Sound(client) /\ client.linked /\ q \in Seq(Line)
      /\ Flow(client, q, answered) /\ WholeLines(client.stream) /\ Continues(client.stream, q)
      /\ client.stream \in Seq(Line) /\ chunk # <<>> /\ (half => q[n + 1].kind # "tail")
  BY <1>1, <1>2, <1>5 DEF PanelInv, Sound, ClientType, Read, Taken
<1>7. /\ client' = c
      /\ IF c.linked THEN UNCHANGED server ELSE server' = [server EXCEPT !.open = {}]
      /\ toClient' = IF ~c.linked THEN <<>> ELSE t
      /\ toServer' = IF c.linked THEN toServer ELSE <<>>
  BY <1>1, <1>2, <1>3, <1>4 DEF Read, Taken, Left, Settle
<1>8. PICK l \in Nat : l = Len(q)
  BY <1>6, LenProperties
<1>9. n \in Nat /\ n <= l /\ (half => n + 1 \in 1..l)
  BY <1>1, <1>8
<1>10. half => q[n + 1] \in Whole
  <2>1. ASSUME half PROVE q[n + 1] \in Line /\ q[n + 1].kind \notin {"head", "tail"}
    BY <1>6, <1>8, <1>9, <2>1, ElementOfSeq DEF Continues
  <2> QED BY <2>1, LineFacts
<1>11. /\ chunk \in Seq(Line) /\ Len(chunk) = n + (IF half THEN 1 ELSE 0)
       /\ \A i \in 1..n : chunk[i] = q[i]
       /\ half => chunk[n + 1] = HeadOf(q[n + 1])
  BY <1>1, <1>2, <1>6, <1>10, TakenFacts
<1>12. /\ t \in Seq(Line) /\ Len(t) = l - n
       /\ half => t[1] = TailOf(q[n + 1])
       /\ \A i \in 1..Len(t) : i # 1 \/ ~half => t[i] = q[n + i]
  <2>1. n \in 0..Len(q) /\ n + (IF half THEN 1 ELSE 0) <= Len(q)
    BY <1>1
  <2>2. /\ t \in Seq(Line) /\ Len(t) = Len(q) - n
        /\ half => t[1] = TailOf(q[n + 1])
        /\ \A i \in 1..Len(t) : i # 1 \/ ~half => t[i] = q[n + i]
    <3>1. q \in Seq(Line)
      BY <1>6
    <3> QED BY <1>3, <1>10, <2>1, <3>1, LeftFacts, SMTT(30)
  <2> QED BY <1>8, <2>2
<1>13. ASSUME NEW i \in 1..Len(chunk)
       PROVE  i \in 1..l /\ i <= n + 1 /\ Content(chunk[i]) = Content(q[i])
  <2>1. CASE i \in 1..n
    BY <1>8, <1>9, <1>11, <2>1
  <2>2. CASE half /\ i = n + 1
    BY <1>9, <1>10, <1>11, <2>2, PartFacts
  <2> QED BY <1>9, <1>11, <1>13, <2>1, <2>2
<1>14. ASSUME NEW j \in 1..Len(t)
       PROVE  n + j \in 1..l /\ Content(t[j]) = Content(q[n + j])
  <2>1. n + j \in 1..l
    BY <1>9, <1>12
  <2>2. CASE half /\ j = 1
    BY <1>10, <1>12, <2>1, <2>2, PartFacts
  <2>3. CASE ~(half /\ j = 1)
    BY <1>12, <2>1, <2>3
  <2> QED BY <2>1, <2>2, <2>3
<1>15. \A x, y, z : Content(x) = Content(y) =>
          /\ Fine(x, client, answered) <=> Fine(y, client, answered)
          /\ Before(x, z) <=> Before(y, z)
          /\ Before(z, x) <=> Before(z, y)
  BY DEF Fine, Before
<1>16. Flow(client, chunk, answered)
  <2>1. \A i \in 1..Len(chunk) : Fine(chunk[i], client, answered)
    BY <1>6, <1>8, <1>13, <1>15 DEF Flow
  <2>2. \A i \in 1..Len(client.stream) : \A j \in 1..Len(chunk) : Before(client.stream[i], chunk[j])
    BY <1>6, <1>8, <1>13, <1>15 DEF Flow
  <2>3. ASSUME NEW i \in 1..Len(chunk), NEW j \in 1..Len(chunk), i < j PROVE Before(chunk[i], chunk[j])
    <3>1. Before(q[i], q[j])
      BY <1>6, <1>8, <1>13, <2>3 DEF Flow
    <3> QED BY <1>13, <1>15, <3>1
  <2> QED BY <1>6, <2>1, <2>2, <2>3 DEF Flow
<1>17. Flow(client, t, answered)
  <2>1. \A i \in 1..Len(t) : Fine(t[i], client, answered)
    BY <1>6, <1>8, <1>14, <1>15 DEF Flow
  <2>2. ASSUME NEW i \in 1..Len(client.stream), NEW j \in 1..Len(t)
        PROVE  Before(client.stream[i], t[j])
    <3>1. Before(client.stream[i], q[n + j])
      BY <1>6, <1>8, <1>14 DEF Flow
    <3> QED BY <1>14, <1>15, <3>1
  <2>3. ASSUME NEW i \in 1..Len(t), NEW j \in 1..Len(t), i < j PROVE Before(t[i], t[j])
    <3>1. n + i < n + j
      BY <1>9, <1>12, <2>3
    <3>2. Before(q[n + i], q[n + j])
      BY <1>6, <1>8, <1>14, <3>1 DEF Flow
    <3> QED BY <1>14, <1>15, <3>2
  <2> QED BY <1>6, <2>1, <2>2, <2>3 DEF Flow
<1>18. ASSUME NEW i \in 1..Len(chunk), NEW j \in 1..Len(t) PROVE Before(chunk[i], t[j])
  <2>1. i \in 1..l /\ n + j \in 1..l /\ (i < n + j \/ i = n + j)
    BY <1>9, <1>12, <1>13, <1>14
  <2>2. CASE i < n + j
    <3>1. Before(q[i], q[n + j])
      BY <1>6, <1>8, <2>1, <2>2 DEF Flow
    <3> QED BY <1>13, <1>14, <1>15, <3>1
  <2>3. CASE i = n + j
    <3>1. Before(q[i], q[n + j])
      BY <2>3 DEF Before
    <3> QED BY <1>13, <1>14, <1>15, <3>1
  <2> QED BY <2>1, <2>2, <2>3
<1>19. ASSUME NEW i \in 1..Len(chunk)
       PROVE  /\ chunk[i].kind = "head" => i = Len(chunk)
              /\ chunk[i].kind = "tail" => /\ i = 1 /\ Len(client.stream) # 0
                                           /\ client.stream[Len(client.stream)].kind = "head"
  <2>1. CASE i \in 1..n
    <3>1. chunk[i] = q[i] /\ i \in 1..l
      BY <1>8, <1>9, <1>11, <2>1
    <3> QED BY <1>6, <1>8, <3>1 DEF Continues
  <2>2. CASE half /\ i = n + 1
    BY <1>10, <1>11, <2>2, PartFacts
  <2> QED BY <1>9, <1>11, <1>19, <2>1, <2>2
<1>20. PICK lines : lines = Joined(client.stream, chunk) OBVIOUS
<1>21. PICK shift : JoinedFrom(client.stream, chunk, lines, shift)
  BY <1>6, <1>11, <1>19, <1>20, JoinedFacts
<1>22. /\ lines \in Seq(Line) /\ Len(lines) # 0 /\ WholeLines(lines)
       /\ chunk[Len(chunk)].kind = "head" => lines[Len(lines)].kind = "head"
  <2>1. lines \in Seq(Line)
    BY <1>21 DEF JoinedFrom
  <2>2. /\ Len(lines) # 0 /\ WholeLines(lines)
        /\ chunk[Len(chunk)].kind = "head" => lines[Len(lines)].kind = "head"
    BY <1>6, <1>11, <1>19, <1>20, JoinedFacts, SMTT(30)
  <2> QED BY <2>1, <2>2
<1>23. PICK base : base = [client EXCEPT !.stream = lines] OBVIOUS
<1>24. /\ base \in ClientType /\ Alike(client, base) /\ base.stream = lines
  BY <1>6, <1>22, <1>23 DEF ClientType, Alike
<1>25. Sound(base)
  BY <1>6, <1>24, AlikeFacts
<1>26. Flow(base, t, answered)
  BY <1>6, <1>11, <1>16, <1>17, <1>18, <1>21, <1>24, JoinedFlow DEF Alike
<1>27. Handled(client, c, lines, Len(lines), t, answered)
  BY <1>4, <1>6, <1>20, <1>22, <1>23, <1>25, <1>26, ReadFacts
<1>28. PICK m \in Nat : m = Len(lines)
  BY <1>22, LenProperties
<1>29. PICK k \in 0..m : Suffix(c.stream, lines, k) /\ \A h \in 1..k : lines[h].kind # "head"
  BY <1>27, <1>28 DEF Handled
<1>30. /\ Sound(c) /\ Flow(c, t, answered) /\ c.nextId = client.nextId /\ c.host = client.host
       /\ c.active = client.active
  BY <1>27 DEF Handled
<1>31. client.active
  BY <1>6 DEF PanelInv, LinkedInv
<1>32. Len(c.stream) = m - k /\ \A j \in 1..(m - k) : c.stream[j] = lines[k + j] /\ k + j \in 1..m
  BY <1>28, <1>29 DEF Suffix
<1>33. WholeLines(c.stream)
  BY <1>22, <1>28, <1>32 DEF WholeLines
<1>34. CASE ~c.linked
  BY <1>5, <1>7, <1>30, <1>31, <1>33, <1>34, Cut
<1>35. CASE c.linked
  <2>1. client' = c /\ toClient' = t /\ UNCHANGED <<server, toServer>>
    BY <1>7, <1>35
  <2>2. OrdersInv'
    BY <1>30, <2>1 DEF PanelInv, OrdersInv
  <2>3. half => Len(c.stream) # 0 /\ c.stream[Len(c.stream)].kind = "head"
    <3>1. ASSUME half PROVE lines[m].kind = "head"
      <4>1. chunk[n + 1].kind = "head" /\ Len(chunk) = n + 1
        BY <1>10, <1>11, <3>1, PartFacts
      <4> QED BY <1>22, <1>28, <4>1
    <3>2. m # 0
      BY <1>22, <1>28
    <3>3. half => k # m
      BY <1>28, <1>29, <3>1, <3>2
    <3>4. ASSUME half PROVE m - k # 0 /\ c.stream[m - k] = lines[m]
      <4>1. m - k \in 1..(m - k) /\ k + (m - k) = m
        BY <1>28, <3>3, <3>4
      <4>2. c.stream[m - k] = lines[k + (m - k)]
        BY <1>32, <4>1
      <4> QED BY <4>1, <4>2
    <3> QED BY <1>32, <3>1, <3>4
  <2>4. ~half => n # 0
    <3>1. ASSUME ~half, n = 0 PROVE FALSE
      BY <1>6, <1>11, <3>1, EmptySeq
    <3> QED BY <3>1
  <2>5. Continues(c.stream, t)
    <3>1. SUFFICES ASSUME NEW i \in 1..Len(t)
                   PROVE  /\ t[i].kind # "head"
                          /\ t[i].kind = "tail" => /\ i = 1 /\ Len(c.stream) # 0
                                                   /\ c.stream[Len(c.stream)].kind = "head"
      BY DEF Continues
    <3>2. n + i \in 1..l
      BY <1>14
    <3>3. CASE half /\ i = 1
      BY <1>10, <1>12, <2>3, <3>3, PartFacts
    <3>4. CASE half /\ i # 1
      <4>1. n + i # 1 /\ t[i] = q[n + i]
        BY <1>9, <1>12, <3>4
      <4> QED BY <1>6, <1>8, <3>2, <4>1 DEF Continues
    <3>5. CASE ~half
      <4>1. n + i # 1 /\ t[i] = q[n + i]
        BY <1>9, <1>12, <2>4, <3>5
      <4> QED BY <1>6, <1>8, <3>2, <4>1 DEF Continues
    <3> QED BY <3>3, <3>4, <3>5
  <2>6. LinkedInv'
    BY <1>30, <1>31, <1>35, <2>1 DEF LinkedInv
  <2> QED BY <1>5, <1>12, <1>30, <1>33, <2>1, <2>2, <2>5, <2>6 DEF PanelInv
<1> QED BY <1>34, <1>35

LEMMA StepLose == PanelInv /\ Lose => PanelInv'
<1> SUFFICES ASSUME PanelInv, Lose PROVE PanelInv'
  OBVIOUS
<1>1. client' = PanelDisconnected(client) /\ toClient' = <<>> /\ toServer' = <<>> /\ client.linked
  BY DEF Lose, Settle
<1>2. Sound(client') /\ Same(client, client') /\ ~client'.linked
  BY <1>1, LostFacts DEF PanelInv, Sound
<1>3. server' = [server EXCEPT !.open = {}]
  BY <1>1, <1>2 DEF Lose, Settle
<1>4. Flow(client', toClient, server.answered)
  BY <1>2, SameFlow DEF PanelInv
<1>5. WholeLines(client'.stream) /\ client'.nextId = client.nextId /\ client'.active
  BY <1>1, <1>2 DEF PanelInv, Same, LinkedInv
<1> QED BY <1>1, <1>2, <1>3, <1>4, <1>5, Cut

LEMMA StepTimeout == PanelInv /\ (WriteTimeout \/ ConfirmationTimeout) => PanelInv'
  BY FailFacts, Local DEF WriteTimeout, ConfirmationTimeout, PanelInv, Sound

LEMMA StepStop == PanelInv /\ StopForSettings => PanelInv'
<1> SUFFICES ASSUME PanelInv, StopForSettings PROVE PanelInv'
  OBVIOUS
<1>1. client \in ClientType /\ Sound(client) /\ ~client.busy /\ ~client.panelAwaiting
  BY DEF PanelInv, Sound, StopForSettings
<1>2. PICK s \in Seq(Line) : s = <<>>
  BY EmptySeq
<1>3. PICK i : i = [client EXCEPT !.active = FALSE, !.writeWatchdog = FALSE, !.confirmation = FALSE,
                                  !.awaiting = FALSE, !.pendingId = 0, !.hasStatus = FALSE,
                                  !.stream = s]
  OBVIOUS
<1>4. /\ i \in ClientType /\ ~i.active /\ ~i.writeWatchdog /\ ~i.confirmation /\ ~i.awaiting
      /\ i.pendingId = 0 /\ i.stream = s /\ i.busy = client.busy
      /\ i.panelAwaiting = client.panelAwaiting /\ i.nextId = client.nextId
      /\ i.host = client.host /\ i.shown = client.shown /\ i.ended = client.ended
      /\ i.judged = client.judged /\ i.judgedBy = client.judgedBy
  <2>1. 0 \in 0..MaxOrders
    BY PanelAssumption
  <2>2. PICK a : a = [client EXCEPT !.active = FALSE, !.writeWatchdog = FALSE, !.confirmation = FALSE]
    OBVIOUS
  <2>3. /\ a \in ClientType /\ ~a.active /\ ~a.writeWatchdog /\ ~a.confirmation
        /\ a.busy = client.busy
        /\ a.panelAwaiting = client.panelAwaiting /\ a.nextId = client.nextId
        /\ a.host = client.host /\ a.shown = client.shown /\ a.ended = client.ended
        /\ a.judged = client.judged /\ a.judgedBy = client.judgedBy
    BY <1>1, <2>2 DEF ClientType
  <2>4. i = [a EXCEPT !.awaiting = FALSE, !.pendingId = 0, !.hasStatus = FALSE, !.stream = s]
    BY <1>3, <2>2
  <2> QED BY <2>1, <2>3, <2>4 DEF ClientType
<1>5. Sound(i)
  BY <1>1, <1>4 DEF Sound, Waits, Ends, Works, Judges
<1>6. PICK d : d = (IF i.linked THEN [i EXCEPT !.linked = FALSE, !.hasStatus = FALSE] ELSE i)
  OBVIOUS
<1>7. /\ d \in ClientType /\ Alike(i, d) /\ ~d.linked /\ d.active = i.active /\ d.stream = i.stream
      /\ ~d.busy
  <2>1. CASE i.linked
    <3>1. d = [i EXCEPT !.linked = FALSE, !.hasStatus = FALSE] /\ i \in ClientType
      BY <1>4, <1>6, <2>1
    <3>2. /\ d \in ClientType /\ Alike(i, d) /\ ~d.linked /\ d.active = i.active
          /\ d.stream = i.stream /\ d.busy = i.busy
      BY <3>1 DEF ClientType, Alike
    <3> QED BY <1>1, <1>4, <3>2
  <2>2. CASE ~i.linked
    BY <1>1, <1>4, <1>6, <2>2 DEF Alike
  <2> QED BY <2>1, <2>2
<1>8. PanelDisconnected(i) = d
  BY <1>1, <1>4, <1>6, <1>7 DEF PanelDisconnected, ClientType, Alike
<1>9. client' = [d EXCEPT !.busy = FALSE]
  BY <1>2, <1>3, <1>8 DEF StopForSettings, Settle, PanelStop
<1>10. /\ client' \in ClientType /\ Alike(d, client') /\ client'.linked = d.linked
       /\ client'.active = d.active /\ client'.stream = d.stream
  BY <1>7, <1>9 DEF ClientType, Alike
<1>11. Sound(client') /\ client'.nextId = client.nextId /\ client'.host = client.host
       /\ ~client'.linked /\ ~client'.awaiting /\ client'.stream = <<>>
  BY <1>2, <1>4, <1>5, <1>7, <1>10, AlikeFacts DEF Alike
<1>12. toClient' = <<>> /\ toServer' = <<>> /\ server' = [server EXCEPT !.open = {}]
  BY <1>11 DEF StopForSettings, Settle
<1>13. Len(<<>>) = 0
  OBVIOUS
<1>14. Flow(client', <<>>, server.answered)
  BY <1>11, <1>13 DEF Flow
<1>15. WholeLines(client'.stream)
  BY <1>11, <1>13 DEF WholeLines
<1> QED BY <1>11, <1>12, <1>14, <1>15, Cut

\* An order behind the others.
LEMMA OrderSent ==
  ASSUME PanelInv, NEW m \in Orders, toServer' = Append(toServer, m), server' = server,
         client.nextId <= client'.nextId, client'.nextId \in Nat,
         m.kind = "control" => m.id = client.nextId /\ m.id < client'.nextId
  PROVE  OrdersInv'
<1>1. /\ toServer \in Seq(Orders) /\ client.nextId \in Nat
      /\ server \in [override : BOOLEAN, open : SUBSET Ids, answered : 0..MaxOrders]
  BY PanelAssumption DEF PanelInv, OrdersInv, Sound, ClientType
<1>2. PICK s : s = toServer OBVIOUS
<1>3. PICK l \in Nat : l = Len(s)
  BY <1>1, <1>2, LenProperties
<1>4. PICK u : u = toServer' OBVIOUS
<1>5. u \in Seq(Orders) /\ Len(u) = l + 1 /\ u[l + 1] = m /\ \A i \in 1..l : u[i] = s[i]
  BY <1>1, <1>2, <1>3, <1>4, AppendProperties
<1>6. \A i \in 1..(l + 1) : i \in 1..l \/ i = l + 1
  BY <1>3
<1>7. ASSUME NEW i \in 1..l, s[i].kind = "control"
      PROVE  /\ server.answered < s[i].id /\ s[i].id < client.nextId /\ s[i].id \in Nat
             /\ \A o \in server.open : o < s[i].id
  <2>1. s[i] \in Orders
    BY <1>1, <1>2, <1>3, ElementOfSeq
  <2>2. s[i].id \in Nat
    BY <1>7, <2>1 DEF Orders, Ids
  <2> QED BY <1>2, <1>3, <1>7, <2>2 DEF PanelInv, OrdersInv
<1>8. server.answered \in Nat /\ \A o \in server.open : o \in Nat
  BY <1>1, PanelAssumption DEF Ids
<1>9. server.answered < client.nextId /\ \A o \in server.open : server.answered < o /\ o < client.nextId
  BY DEF PanelInv, OrdersInv
<1>10. ASSUME NEW i \in 1..(l + 1), u[i].kind = "control"
       PROVE  /\ server.answered < u[i].id /\ u[i].id < client'.nextId
              /\ \A o \in server.open : o < u[i].id
  <2>1. CASE i \in 1..l
    <3>1. s[i].kind = "control" /\ u[i].id = s[i].id
      BY <1>5, <1>10, <2>1
    <3>2. /\ server.answered < s[i].id /\ s[i].id < client.nextId /\ s[i].id \in Nat
          /\ \A o \in server.open : o < s[i].id
      BY <1>7, <2>1, <3>1
    <3>3. s[i].id < client'.nextId
      BY <1>1, <3>2
    <3> QED BY <3>1, <3>2, <3>3
  <2>2. CASE i = l + 1
    BY <1>5, <1>9, <1>10, <2>2
  <2> QED BY <1>6, <2>1, <2>2
<1>11. ASSUME NEW i \in 1..(l + 1), NEW j \in 1..(l + 1), i < j,
              u[i].kind = "control", u[j].kind = "control"
       PROVE  u[i].id < u[j].id
  <2>1. i \in 1..l
    BY <1>3, <1>11
  <2>2. CASE j \in 1..l
    <3>1. s[i].id < s[j].id
      BY <1>2, <1>3, <1>5, <1>11, <2>1, <2>2 DEF PanelInv, OrdersInv
    <3> QED BY <1>5, <2>1, <2>2, <3>1
  <2>3. CASE j = l + 1
    BY <1>5, <1>7, <1>11, <2>1, <2>3
  <2> QED BY <1>6, <2>2, <2>3
<1>12. \A o \in server.open : server.answered < o /\ o < client'.nextId
  BY <1>1, <1>8, <1>9
<1>13. server.answered < client'.nextId
  BY <1>1, <1>8, <1>9
<1> QED BY <1>1, <1>4, <1>5, <1>10, <1>11, <1>12, <1>13 DEF OrdersInv

LEMMA StepClick == PanelInv /\ ClickCommand => PanelInv'
<1> SUFFICES ASSUME PanelInv, ClickCommand PROVE PanelInv'
  OBVIOUS
<1>1. PICK b : b = [client EXCEPT !.panelAwaiting = TRUE] OBVIOUS
<1>2. PICK c : c = LaunchWrite(b) OBVIOUS
<1>3. /\ client \in ClientType /\ Sound(client) /\ client.active /\ ~client.panelAwaiting
      /\ ~client.busy /\ client.nextId \in Ids /\ client' = c
      /\ toServer' = (IF c.busy THEN Append(toServer, [kind |-> "control", id |-> c.pendingId])
                      ELSE toServer)
      /\ UNCHANGED <<toClient, server>>
  BY <1>1, <1>2 DEF ClickCommand, PanelInv, Sound
<1>4. /\ b \in ClientType /\ b.panelAwaiting /\ b.busy = client.busy /\ b.ended = client.ended
      /\ b.nextId = client.nextId /\ b.writeWatchdog = client.writeWatchdog
      /\ b.confirmation = client.confirmation /\ b.judged = client.judged
      /\ b.judgedBy = client.judgedBy /\ b.shown = client.shown /\ b.host = client.host
      /\ b.active = client.active /\ b.linked = client.linked /\ b.stream = client.stream
  BY <1>1, <1>3 DEF ClientType
<1>5. CASE ~b.active \/ ~b.linked \/ ~b.hasStatus
  <2>1. c = FailCommand(b)
    BY <1>2, <1>5 DEF LaunchWrite
  <2>2. FailCommand(b) = FailCommand(client)
    <3>1. PICK e : e = client.ended OBVIOUS
    <3>2. FailCommand(client)
            = [client EXCEPT !.pendingId = 0, !.awaiting = FALSE, !.writeWatchdog = FALSE,
                             !.confirmation = FALSE, !.busy = FALSE, !.panelAwaiting = FALSE,
                             !.ended = e]
      BY <1>3, <3>1 DEF FailCommand
    <3>3. FailCommand(b)
            = [b EXCEPT !.pendingId = 0, !.awaiting = FALSE, !.writeWatchdog = FALSE,
                        !.confirmation = FALSE, !.busy = FALSE, !.panelAwaiting = FALSE,
                        !.ended = e]
      BY <1>3, <1>4, <3>1 DEF FailCommand
    <3> QED BY <1>1, <3>2, <3>3
  <2>3. Sound(c) /\ Same(client, c) /\ ~c.busy /\ c.linked = client.linked
    BY <1>3, <2>1, <2>2, FailFacts
  <2> QED BY <1>3, <2>3, Local
<1>6. CASE b.active /\ b.linked /\ b.hasStatus
  <2>1. c = [b EXCEPT !.pendingId = b.nextId, !.nextId = b.nextId + 1, !.awaiting = FALSE,
                      !.busy = TRUE, !.writeWatchdog = TRUE]
    BY <1>2, <1>6 DEF LaunchWrite
  <2>2. PICK id \in Ids : id = client.nextId
    BY <1>3
  <2>3. id \in 0..MaxOrders /\ id + 1 \in 1..(MaxOrders + 1) /\ id \in Nat /\ id >= 1
    BY PanelAssumption DEF Ids
  <2>4. /\ c \in ClientType /\ c.pendingId = id /\ c.nextId = id + 1 /\ ~c.awaiting /\ c.busy
        /\ c.writeWatchdog /\ c.panelAwaiting /\ c.ended = client.ended
        /\ c.judged = client.judged /\ c.judgedBy = client.judgedBy /\ c.shown = client.shown
        /\ c.host = client.host /\ c.active = client.active /\ c.linked = client.linked
        /\ c.stream = client.stream
    <3>1. PICK d : d = [b EXCEPT !.pendingId = id, !.nextId = id + 1] OBVIOUS
    <3>2. /\ d \in ClientType /\ d.pendingId = id /\ d.nextId = id + 1 /\ d.panelAwaiting
          /\ d.ended = client.ended
          /\ d.judged = client.judged /\ d.judgedBy = client.judgedBy /\ d.shown = client.shown
          /\ d.host = client.host /\ d.active = client.active /\ d.linked = client.linked
          /\ d.stream = client.stream
      BY <1>4, <2>3, <3>1 DEF ClientType
    <3>3. c = [d EXCEPT !.awaiting = FALSE, !.busy = TRUE, !.writeWatchdog = TRUE]
      BY <1>4, <2>1, <2>2, <3>1
    <3> QED BY <3>2, <3>3 DEF ClientType
  <2>5. Ends(c)
    <3>1. ASSUME NEW i \in Ids
          PROVE  c.ended[i] = IF i < c.nextId /\ ~(c.busy /\ i = c.nextId - 1) THEN 1 ELSE 0
      <4>1. client.ended[i] = IF i < id THEN 1 ELSE 0
        BY <1>3, <2>2 DEF Sound, Ends
      <4>2. i \in Nat /\ c.nextId - 1 = id
        BY <2>3, <2>4 DEF Ids
      <4> QED BY <2>3, <2>4, <4>1, <4>2
    <3> QED BY <3>1 DEF Ends
  <2>6. Sound(c)
    BY <1>3, <2>3, <2>4, <2>5 DEF Sound, Waits, Works, Judges
  <2>7. Flow(c, toClient, server.answered)
    <3>1. \A x : Fine(x, client, server.answered) => Fine(x, c, server.answered)
      BY <2>4 DEF Fine
    <3> QED BY <2>4, <3>1 DEF PanelInv, Flow
  <2>8. PICK m : m = [kind |-> "control", id |-> id] OBVIOUS
  <2>9. m \in Orders /\ m.kind = "control" /\ m.id = id /\ toServer' = Append(toServer, m)
    BY <1>3, <2>4, <2>8 DEF Orders
  <2>10. OrdersInv'
    BY <1>3, <2>2, <2>3, <2>4, <2>9, OrderSent
  <2>11. LinkedInv'
    BY <1>3, <2>4 DEF PanelInv, LinkedInv
  <2> QED BY <1>3, <2>4, <2>6, <2>7, <2>10, <2>11 DEF PanelInv
<1> QED BY <1>5, <1>6

LEMMA StepResume == PanelInv /\ ClickResume => PanelInv'
<1> SUFFICES ASSUME PanelInv, ClickResume PROVE PanelInv'
  OBVIOUS
<1>1. /\ client \in ClientType /\ Sound(client) /\ client' = [client EXCEPT !.resumeRequested = TRUE]
      /\ UNCHANGED <<toClient, server>>
  BY DEF ClickResume, PanelInv, Sound
<1>2. /\ client' \in ClientType /\ Alike(client, client') /\ Same(client, client')
      /\ client'.linked = client.linked /\ client'.active = client.active
      /\ client'.stream = client.stream /\ client'.nextId = client.nextId
  BY <1>1 DEF ClientType, Alike, Same
<1>3. Sound(client')
  BY <1>1, <1>2, AlikeFacts
<1>4. CASE ~client.linked
  BY <1>1, <1>2, <1>3, <1>4, Local DEF ClickResume
<1>5. CASE client.linked
  <2>1. PICK m : m = [kind |-> "automation_resume"] OBVIOUS
  <2>2. m \in Orders /\ m.kind # "control" /\ toServer' = Append(toServer, m)
    BY <1>5, <2>1 DEF Orders, ClickResume
  <2>3. client.nextId \in Nat
    BY <1>1, PanelAssumption DEF ClientType
  <2>4. OrdersInv'
    BY <1>1, <1>2, <2>2, <2>3, OrderSent
  <2>5. Flow(client', toClient', server'.answered)
    BY <1>1, <1>2, SameFlow DEF PanelInv
  <2>6. LinkedInv'
    BY <1>1, <1>2 DEF PanelInv, LinkedInv
  <2> QED BY <1>1, <1>2, <1>3, <2>4, <2>5, <2>6 DEF PanelInv
<1> QED BY <1>4, <1>5

LEMMA StepStart == ASSUME PanelInv, NEW h \in Servers, StartAfterSettings(h) PROVE PanelInv'
<1>1. /\ client \in ClientType /\ Sound(client) /\ ~client.active /\ ~client.linked
      /\ client.stream = <<>> /\ toClient = <<>> /\ UNCHANGED <<toServer, toClient, server>>
  BY DEF StartAfterSettings, PanelInv, Sound, LinkedInv
<1>2. PICK shown \in Servers \cup {NoServer}, connected \in BOOLEAN :
         /\ client' = [client EXCEPT !.active = TRUE, !.host = h, !.shown = shown,
                                     !.connected = connected]
         /\ shown \in {NoServer, h}
  <2>1. CASE h = client.host
    <3>1. client' = [client EXCEPT !.active = TRUE]
      BY <2>1 DEF StartAfterSettings
    <3>2. client' = [client EXCEPT !.active = TRUE, !.host = h, !.shown = client.shown,
                                   !.connected = client.connected]
      BY <1>1, <2>1, <3>1 DEF ClientType
    <3>3. client.shown \in {NoServer, h} /\ client.connected \in BOOLEAN
      BY <1>1, <2>1 DEF Sound, Judges, ClientType
    <3> QED BY <3>2, <3>3
  <2>2. CASE h # client.host
    <3>1. client' = [client EXCEPT !.active = TRUE, !.host = h, !.shown = NoServer,
                                   !.connected = FALSE]
      BY <2>2 DEF StartAfterSettings
    <3> QED BY <3>1
  <2> QED BY <2>1, <2>2
<1>3. /\ client' \in ClientType /\ client'.active /\ client'.host = h /\ client'.shown = shown
      /\ client'.pendingId = client.pendingId /\ client'.awaiting = client.awaiting
      /\ client'.writeWatchdog = client.writeWatchdog
      /\ client'.confirmation = client.confirmation /\ client'.busy = client.busy
      /\ client'.panelAwaiting = client.panelAwaiting /\ client'.ended = client.ended
      /\ client'.nextId = client.nextId /\ client'.judged = client.judged
      /\ client'.judgedBy = client.judgedBy /\ client'.linked = client.linked
      /\ client'.stream = client.stream
  BY <1>1, <1>2 DEF ClientType
<1>4. Sound(client')
  BY <1>1, <1>2, <1>3 DEF Sound, Waits, Ends, Works, Judges
<1>5. Len(<<>>) = 0
  OBVIOUS
<1>6. client.awaiting => client.nextId - 1 <= server.answered
  BY DEF PanelInv, Flow
<1>7. Flow(client', toClient', server'.answered)
  BY <1>1, <1>3, <1>5, <1>6 DEF Flow
<1>8. OrdersInv' /\ LinkedInv'
  BY <1>1, <1>3 DEF PanelInv, OrdersInv, LinkedInv
<1> QED BY <1>1, <1>3, <1>4, <1>7, <1>8 DEF PanelInv

\* A message of the server that says what is true is true behind all others.
Tells(m, c, answered) ==
    /\ m.kind = "status" => m.host = c.host /\ m.after = answered
    /\ m.kind = "control" /\ m.ok => m.id <= answered

LEMMA TellsFacts ==
  ASSUME PanelInv, NEW m \in Message, NEW answered \in Nat, server.answered <= answered,
         Tells(m, client, answered)
  PROVE  /\ m \in Line /\ Fine(m, client, answered)
         /\ \A x \in Line : Fine(x, client, server.answered)
                => Fine(x, client, answered) /\ Before(x, m)
<1>1. m \in Whole /\ Content(m) = m /\ m \in Line
  BY PartFacts DEF Whole
<1>2. server.answered \in Nat /\ client.nextId \in Nat
  BY PanelAssumption DEF PanelInv, OrdersInv, Sound, ClientType
<1>3. client.awaiting => client.nextId - 1 <= answered
  BY <1>2 DEF PanelInv, Flow
<1>4. Fine(m, client, answered)
  BY <1>1, <1>3 DEF Tells, Fine
<1>5. ASSUME NEW x \in Line, Fine(x, client, server.answered)
      PROVE  Fine(x, client, answered) /\ Before(x, m)
  <2>1. PICK y : y = Content(x) OBVIOUS
  <2>2. y \in Whole
    BY <2>1, LineFacts
  <2>3. y.kind = "control" => y.id \in Ids
    BY <2>2, WholeFacts
  <2>4. y.kind = "control" /\ y.ok => y.id <= answered
    BY <1>2, <1>5, <2>1, <2>3 DEF Fine, Ids
  <2> QED BY <1>1, <1>5, <2>1, <2>4 DEF Fine, Before, Tells
<1> QED BY <1>1, <1>4, <1>5

LEMMA MessageSent ==
  ASSUME PanelInv, NEW m \in Message, NEW answered \in Nat, server.answered <= answered,
         Tells(m, client, answered), toClient' = Append(toClient, m)
  PROVE  /\ toClient' \in Seq(Line) /\ Flow(client, toClient', answered)
         /\ Continues(client.stream, toClient')
<1>1. m \in Whole /\ m \in Line /\ m.kind # "head" /\ m.kind # "tail"
  BY PartFacts, WholeFacts DEF Whole, Message
<1>2. PICK q : q = toClient OBVIOUS
<1>3. PICK u : u = toClient' OBVIOUS
<1>4. q \in Seq(Line) /\ Flow(client, q, server.answered) /\ Continues(client.stream, q)
  BY <1>2 DEF PanelInv
<1>5. PICK l \in Nat : l = Len(q)
  BY <1>4, LenProperties
<1>6. u \in Seq(Line) /\ Len(u) = l + 1 /\ u[l + 1] = m /\ \A i \in 1..l : u[i] = q[i]
  BY <1>1, <1>2, <1>3, <1>4, <1>5, AppendProperties
<1>7. \A i \in 1..(l + 1) : i \in 1..l \/ i = l + 1
  BY <1>5
<1>8. \A x \in Line : Fine(x, client, server.answered) => Fine(x, client, answered) /\ Before(x, m)
  BY TellsFacts
<1>9. Fine(m, client, answered)
  BY TellsFacts
<1>10. /\ \A i \in 1..Len(client.stream) : client.stream[i] \in Line
       /\ \A i \in 1..l : q[i] \in Line
  BY <1>4, <1>5, ElementOfSeq DEF PanelInv, Sound, ClientType
<1>11. /\ \A i \in 1..Len(client.stream) :
              Fine(client.stream[i], client, answered) /\ Before(client.stream[i], m)
       /\ \A i \in 1..l : Fine(q[i], client, answered) /\ Before(q[i], m)
  BY <1>4, <1>5, <1>8, <1>10 DEF Flow
<1>12. \A i \in 1..(l + 1) : Fine(u[i], client, answered)
  BY <1>6, <1>7, <1>9, <1>11
<1>13. ASSUME NEW i \in 1..Len(client.stream), NEW j \in 1..(l + 1)
       PROVE  Before(client.stream[i], u[j])
  <2>1. CASE j \in 1..l
    BY <1>4, <1>5, <1>6, <2>1 DEF Flow
  <2>2. CASE j = l + 1
    BY <1>6, <1>11, <2>2
  <2> QED BY <1>7, <2>1, <2>2
<1>14. ASSUME NEW i \in 1..(l + 1), NEW j \in 1..(l + 1), i < j PROVE Before(u[i], u[j])
  <2>1. i \in 1..l
    BY <1>5, <1>14
  <2>2. CASE j \in 1..l
    BY <1>4, <1>5, <1>6, <1>14, <2>1, <2>2 DEF Flow
  <2>3. CASE j = l + 1
    BY <1>6, <1>11, <2>1, <2>3
  <2> QED BY <1>7, <2>2, <2>3
<1>15. client.awaiting => client.nextId - 1 <= answered
  <2>1. server.answered \in Nat /\ client.nextId \in Nat
    BY PanelAssumption DEF PanelInv, OrdersInv, Sound, ClientType
  <2> QED BY <1>4, <2>1 DEF Flow
<1>16. Flow(client, u, answered)
  BY <1>4, <1>6, <1>11, <1>12, <1>13, <1>14, <1>15 DEF Flow
<1>17. Continues(client.stream, u)
  <2>1. ASSUME NEW i \in 1..(l + 1)
        PROVE  /\ u[i].kind # "head"
               /\ u[i].kind = "tail" => /\ i = 1 /\ Len(client.stream) # 0
                                        /\ client.stream[Len(client.stream)].kind = "head"
    <3>1. CASE i \in 1..l
      BY <1>4, <1>5, <1>6, <3>1 DEF Continues
    <3>2. CASE i = l + 1
      BY <1>1, <1>6, <3>2
    <3> QED BY <1>7, <3>1, <3>2
  <2> QED BY <1>6, <2>1 DEF Continues
<1> QED BY <1>3, <1>6, <1>16, <1>17

\* The server says what is true.
LEMMA Told ==
  ASSUME PanelInv, NEW m \in Message, client' = client, server.answered <= server'.answered,
         server'.answered \in Nat, Tells(m, client, server'.answered), Send(m), OrdersInv'
  PROVE  PanelInv'
<1>1. client.linked /\ toClient' = Append(toClient, m)
  BY DEF Send
<1>2. PICK a \in Nat : a = server'.answered
  OBVIOUS
<1>3. /\ toClient' \in Seq(Line) /\ Flow(client, toClient', a)
      /\ Continues(client.stream, toClient')
  BY <1>1, <1>2, MessageSent
<1>4. Flow(client', toClient', server'.answered)
  BY <1>2, <1>3
<1>5. LinkedInv'
  BY <1>1 DEF PanelInv, LinkedInv
<1> QED BY <1>3, <1>4, <1>5 DEF PanelInv

LEMMA OrdersKept ==
  ASSUME PanelInv, toServer' = toServer, client' = client, server'.open = server.open,
         server'.answered = server.answered,
         server' \in [override : BOOLEAN, open : SUBSET Ids, answered : 0..MaxOrders]
  PROVE  OrdersInv'
BY DEF PanelInv, OrdersInv

LEMMA ServerFacts ==
  ASSUME PanelInv
  PROVE  /\ server.answered \in Nat /\ server.override \in BOOLEAN /\ server.answered \in 0..MaxOrders
         /\ server.open \in SUBSET Ids /\ Status \in Message /\ Tells(Status, client, server.answered)
         /\ Automation(TRUE) \in Message /\ Automation(FALSE) \in Message
         /\ Automation(server.override) \in Message
         /\ \A a : Tells(Automation(TRUE), client, a) /\ Tells(Automation(FALSE), client, a)
         /\ \A a : Tells(Automation(server.override), client, a)
<1>1. /\ server \in [override : BOOLEAN, open : SUBSET Ids, answered : 0..MaxOrders]
      /\ client.host \in Servers
  BY DEF PanelInv, OrdersInv, Sound, ClientType
<1>2. server.answered \in Nat
  BY <1>1, PanelAssumption
<1>3. Status \in Message /\ Tells(Status, client, server.answered)
  BY <1>1 DEF Status, Message, Tells
<1>4. ASSUME NEW o \in BOOLEAN, NEW m, m = Automation(o) PROVE m \in Message /\ \A a : Tells(m, client, a)
  BY <1>4 DEF Automation, Message, Tells
<1>5. /\ Automation(TRUE) \in Message /\ Automation(FALSE) \in Message
      /\ \A a : Tells(Automation(TRUE), client, a) /\ Tells(Automation(FALSE), client, a)
  BY <1>4
<1>6. /\ Automation(server.override) \in Message /\ \A a : Tells(Automation(server.override), client, a)
  BY <1>1, <1>4
<1> QED BY <1>1, <1>2, <1>3, <1>5, <1>6

States == [kind : {"state"}, state : {"connecting", "error"}]

LEMMA StatesTold ==
  ASSUME NEW m \in States PROVE m \in Message /\ \A a : Tells(m, client, a)
  BY DEF States, Message, Tells

LEMMA StepStatus == PanelInv /\ SendStatus => PanelInv'
<1> SUFFICES ASSUME PanelInv, SendStatus PROVE PanelInv'
  OBVIOUS
<1>1. client' = client /\ toServer' = toServer /\ server' = server /\ Send(Status)
  BY DEF SendStatus
<1>2. OrdersInv'
  BY <1>1 DEF PanelInv, OrdersInv
<1>3. /\ Status \in Message /\ server.answered <= server'.answered /\ server'.answered \in Nat
      /\ Tells(Status, client, server'.answered)
  BY <1>1, ServerFacts
<1> QED BY <1>1, <1>2, <1>3, Told

LEMMA StepState ==
  ASSUME PanelInv, NEW s \in {"connecting", "error"}, SendState(s) PROVE PanelInv'
<1>1. PICK m : m = [kind |-> "state", state |-> s] OBVIOUS
<1>2. client' = client /\ toServer' = toServer /\ server' = server /\ Send(m)
  BY <1>1 DEF SendState
<1>3. OrdersInv'
  BY <1>2 DEF PanelInv, OrdersInv
<1>4. m \in Message /\ Tells(m, client, server'.answered)
  <2>1. m \in States
    BY <1>1 DEF States
  <2> QED BY <2>1, StatesTold
<1>5. server.answered <= server'.answered /\ server'.answered \in Nat
  BY <1>2, ServerFacts
<1> QED BY <1>2, <1>3, <1>4, <1>5, Told

LEMMA StepSuspend == PanelInv /\ Suspend => PanelInv'
<1> SUFFICES ASSUME PanelInv, Suspend PROVE PanelInv'
  OBVIOUS
<1>1. /\ client' = client /\ toServer' = toServer /\ server' = [server EXCEPT !.override = TRUE]
      /\ client.linked => Send(Automation(TRUE))
      /\ ~client.linked => toClient' = toClient
  BY DEF Suspend
<1>2. server \in [override : BOOLEAN, open : SUBSET Ids, answered : 0..MaxOrders]
  BY DEF PanelInv, OrdersInv
<1>3. /\ server' \in [override : BOOLEAN, open : SUBSET Ids, answered : 0..MaxOrders]
      /\ server'.open = server.open /\ server'.answered = server.answered
  BY <1>1, <1>2
<1>4. OrdersInv'
  BY <1>1, <1>3, OrdersKept
<1>5. CASE client.linked
  <2>1. /\ Automation(TRUE) \in Message /\ server.answered <= server'.answered
        /\ server'.answered \in Nat /\ Tells(Automation(TRUE), client, server'.answered)
    <3>1. server.answered <= server'.answered /\ server'.answered \in Nat
      BY <1>3, ServerFacts
    <3>2. Automation(TRUE) \in Message /\ \A a : Tells(Automation(TRUE), client, a)
      BY ServerFacts
    <3> QED BY <3>1, <3>2, Zenon
  <2> QED BY <1>1, <1>4, <1>5, <2>1, Told
<1>6. CASE ~client.linked
  BY <1>1, <1>3, <1>4, <1>6 DEF PanelInv, LinkedInv
<1> QED BY <1>5, <1>6

LEMMA StepAnswer ==
  ASSUME PanelInv, NEW id \in Ids, NEW ok \in BOOLEAN, Answer(id, ok) PROVE PanelInv'
<1>1. PICK m : m = [kind |-> "control", id |-> id, ok |-> ok] OBVIOUS
<1>2. PICK a : a = IF ok THEN id ELSE server.answered OBVIOUS
<1>3. PICK open : open = server.open \ {id} OBVIOUS
<1>4. /\ id \in server.open /\ \A other \in server.open : id <= other
      /\ Send(m) /\ server' = [server EXCEPT !.open = open, !.answered = a]
      /\ client' = client /\ toServer' = toServer
  BY <1>1, <1>2, <1>3 DEF Answer
<1>5. /\ server \in [override : BOOLEAN, open : SUBSET Ids, answered : 0..MaxOrders]
      /\ server.answered < client.nextId /\ client.nextId \in Nat
      /\ \A o \in server.open : server.answered < o /\ o < client.nextId
  BY PanelAssumption DEF PanelInv, OrdersInv, Sound, ClientType
<1>6. /\ id \in Nat /\ id \in 0..MaxOrders /\ server.answered \in Nat
      /\ \A o \in server.open : o \in Nat
  BY <1>5, PanelAssumption DEF Ids
<1>7. a \in 0..MaxOrders /\ a \in Nat /\ server.answered <= a /\ a <= id
  BY <1>2, <1>4, <1>5, <1>6
<1>8. /\ server' \in [override : BOOLEAN, open : SUBSET Ids, answered : 0..MaxOrders]
      /\ server'.open = open /\ server'.answered = a
  BY <1>3, <1>4, <1>5, <1>7
<1>9. OrdersInv'
  <2>1. PICK s : s = toServer OBVIOUS
  <2>2. s \in Seq(Orders)
    BY <2>1 DEF PanelInv, OrdersInv
  <2>3. \A o \in open : a < o /\ o < client.nextId
    BY <1>3, <1>4, <1>5, <1>6, <1>7
  <2>4. a < client.nextId
    BY <1>4, <1>5, <1>6, <1>7
  <2>5. ASSUME NEW i \in 1..Len(s), s[i].kind = "control"
        PROVE  a < s[i].id /\ s[i].id < client.nextId /\ \A o \in open : o < s[i].id
    <3>1. s[i] \in Orders
      BY <2>2, ElementOfSeq
    <3>2. s[i].id \in Nat
      BY <2>5, <3>1 DEF Orders, Ids
    <3>3. s[i].id < client.nextId /\ \A o \in server.open : o < s[i].id
      BY <2>1, <2>5 DEF PanelInv, OrdersInv
    <3> QED BY <1>3, <1>4, <1>6, <1>7, <3>2, <3>3
  <2>6. \A i, j \in 1..Len(s) :
          i < j /\ s[i].kind = "control" /\ s[j].kind = "control" => s[i].id < s[j].id
    BY <2>1 DEF PanelInv, OrdersInv
  <2>7. s = toServer' /\ client.nextId = client'.nextId
    BY <1>4, <2>1
  <2> QED BY <1>8, <2>2, <2>3, <2>4, <2>5, <2>6, <2>7 DEF OrdersInv
<1>10. m \in Message /\ Tells(m, client, a)
  BY <1>1, <1>2, <1>6 DEF Message, Tells
<1> QED BY <1>4, <1>7, <1>8, <1>9, <1>10, Told

LEMMA StepServe == PanelInv /\ Serve => PanelInv'
<1> SUFFICES ASSUME PanelInv, Serve PROVE PanelInv'
  OBVIOUS
<1>1. PICK s : s = toServer OBVIOUS
<1>2. /\ s \in Seq(Orders) /\ s # <<>> /\ toServer' = Tail(s) /\ client' = client
      /\ server \in [override : BOOLEAN, open : SUBSET Ids, answered : 0..MaxOrders]
      /\ server.answered < client.nextId
      /\ \A o \in server.open : server.answered < o /\ o < client.nextId
  BY <1>1 DEF Serve, PanelInv, OrdersInv
<1>3. \A i \in 1..Len(s) : s[i].kind = "control" =>
          /\ server.answered < s[i].id /\ s[i].id < client.nextId
          /\ \A o \in server.open : o < s[i].id
  BY <1>1 DEF PanelInv, OrdersInv
<1>4. \A i, j \in 1..Len(s) :
          i < j /\ s[i].kind = "control" /\ s[j].kind = "control" => s[i].id < s[j].id
  BY <1>1 DEF PanelInv, OrdersInv
<1>5. PICK u : u = Tail(s) OBVIOUS
<1>6. /\ u \in Seq(Orders) /\ Len(u) = Len(s) - 1 /\ \A i \in 1..Len(u) : u[i] = s[i + 1]
      /\ Head(s) = s[1] /\ Len(s) \in Nat /\ Len(s) # 0
  BY <1>2, <1>5, HeadTailProperties, LenProperties, EmptySeq
<1>7. \A i \in 1..Len(u) : i + 1 \in 1..Len(s) /\ 1 < i + 1
  BY <1>6
<1>8. 1 \in 1..Len(s)
  BY <1>6
<1>9. PICK m : m = s[1] OBVIOUS
<1>10. m \in Orders
  BY <1>2, <1>8, <1>9, ElementOfSeq
<1>11. \A i \in 1..Len(u) : u[i].kind = "control" =>
          /\ server.answered < u[i].id /\ u[i].id < client.nextId
          /\ \A o \in server.open : o < u[i].id
  BY <1>3, <1>6, <1>7
<1>12. \A i, j \in 1..Len(u) :
          i < j /\ u[i].kind = "control" /\ u[j].kind = "control" => u[i].id < u[j].id
  BY <1>4, <1>6, <1>7
<1>13. CASE m.kind = "control"
  <2>1. PICK open : open = server.open \cup {m.id} OBVIOUS
  <2>2. server' = [server EXCEPT !.open = open] /\ toClient' = toClient
    BY <1>1, <1>6, <1>9, <1>13, <2>1 DEF Serve
  <2>3. m.id \in Ids
    BY <1>10, <1>13 DEF Orders
  <2>4. /\ server' \in [override : BOOLEAN, open : SUBSET Ids, answered : 0..MaxOrders]
        /\ server'.open = open /\ server'.answered = server.answered
    BY <1>2, <2>1, <2>2, <2>3
  <2>5. \A o \in open : server.answered < o /\ o < client.nextId
    BY <1>2, <1>3, <1>8, <1>9, <1>13, <2>1
  <2>6. \A i \in 1..Len(u) : u[i].kind = "control" => m.id < u[i].id
    BY <1>4, <1>6, <1>7, <1>8, <1>9, <1>13
  <2>7. \A i \in 1..Len(u) : u[i].kind = "control" =>
          /\ server.answered < u[i].id /\ u[i].id < client.nextId
          /\ \A o \in open : o < u[i].id
    BY <1>11, <2>1, <2>6
  <2>8. u = toServer' /\ client.nextId = client'.nextId
    BY <1>2, <1>5
  <2>9. OrdersInv'
    BY <1>2, <1>6, <1>12, <2>4, <2>5, <2>7, <2>8 DEF OrdersInv
  <2> QED BY <1>2, <2>2, <2>4, <2>9 DEF PanelInv, LinkedInv
<1>14. CASE m.kind # "control"
  <2>1. server' = [server EXCEPT !.override = FALSE] /\ Send(Automation(FALSE))
    BY <1>1, <1>6, <1>9, <1>14 DEF Serve
  <2>2. /\ server' \in [override : BOOLEAN, open : SUBSET Ids, answered : 0..MaxOrders]
        /\ server'.open = server.open /\ server'.answered = server.answered
    BY <1>2, <2>1
  <2>3. u = toServer' /\ client.nextId = client'.nextId
    BY <1>2, <1>5
  <2>4. OrdersInv'
    BY <1>2, <1>6, <1>11, <1>12, <2>2, <2>3 DEF OrdersInv
  <2>5. /\ Automation(FALSE) \in Message /\ server.answered <= server'.answered
        /\ server'.answered \in Nat /\ Tells(Automation(FALSE), client, server'.answered)
    <3>1. server.answered <= server'.answered /\ server'.answered \in Nat
      BY <2>2, ServerFacts
    <3>2. Automation(FALSE) \in Message /\ \A a : Tells(Automation(FALSE), client, a)
      BY ServerFacts
    <3> QED BY <3>1, <3>2, Zenon
  <2> QED BY <1>2, <2>1, <2>4, <2>5, Told
<1> QED BY <1>13, <1>14

LEMMA StepConnect == ASSUME PanelInv, NEW b \in BOOLEAN, Connect(b) PROVE PanelInv'
<1>1. /\ client \in ClientType /\ Sound(client) /\ client.active /\ ~client.linked
      /\ toClient = <<>> /\ toServer' = <<>> /\ server' = server
      /\ client' = [client EXCEPT !.linked = TRUE, !.failureReported = FALSE]
  BY DEF Connect, PanelInv, Sound, LinkedInv
<1>2. PICK x : x = (IF b THEN Status ELSE [kind |-> "state", state |-> "connecting"])
  OBVIOUS
<1>3. PICK y : y = Automation(server.override)
  OBVIOUS
<1>4. /\ x \in Message /\ y \in Message /\ Tells(x, client, server.answered) /\ Tells(y, client, server.answered)
  <2>1. x \in Message /\ Tells(x, client, server.answered)
    <3>1. CASE b
      BY <1>2, <3>1, ServerFacts
    <3>2. CASE ~b
      <4>1. x \in States
        BY <1>2, <3>2 DEF States
      <4> QED BY <4>1, StatesTold
    <3> QED BY <3>1, <3>2
  <2> QED BY <1>3, <2>1, ServerFacts
<1>5. toClient' = <<x>> \o <<y>>
  BY <1>2, <1>3 DEF Connect
<1>6. PICK q : q = <<x>> \o <<y>> OBVIOUS
<1>7. q \in Seq(Message) /\ Len(q) = 2 /\ q[1] = x /\ q[2] = y
  <2>1. /\ <<x>> \in Seq(Message) /\ <<y>> \in Seq(Message) /\ Len(<<x>>) = 1 /\ Len(<<y>>) = 1
        /\ <<x>>[1] = x /\ <<y>>[1] = y
    BY <1>4
  <2> QED BY <1>6, <2>1, ConcatProperties
<1>8. PICK a \in Nat : a = server.answered
  BY ServerFacts
<1>9. /\ x \in Line /\ Fine(x, client, a) /\ y \in Line /\ Fine(y, client, a)
      /\ \A z \in Line : Fine(z, client, a) => Before(z, x) /\ Before(z, y)
  BY <1>4, <1>8, TellsFacts
<1>10. q \in Seq(Line)
  <2>1. <<x>> \in Seq(Line) /\ <<y>> \in Seq(Line)
    BY <1>9
  <2> QED BY <1>6, <2>1, ConcatProperties
<1>11. /\ client' \in ClientType /\ Alike(client, client') /\ client'.stream = client.stream
       /\ client'.host = client.host /\ client'.nextId = client.nextId
       /\ client'.awaiting = client.awaiting /\ client'.active = client.active /\ client'.linked
  BY <1>1 DEF ClientType, Alike
<1>12. Sound(client')
  BY <1>1, <1>11, AlikeFacts
<1>13. \A z : Fine(z, client, a) => Fine(z, client', a)
  BY <1>11 DEF Fine
<1>14. \A i \in 1..2 : i = 1 \/ i = 2
  OBVIOUS
<1>15. /\ \A i \in 1..Len(client.stream) : Fine(client.stream[i], client, a)
       /\ \A i, j \in 1..Len(client.stream) : i < j => Before(client.stream[i], client.stream[j])
       /\ client.awaiting => client.nextId - 1 <= a
  BY <1>8 DEF PanelInv, Flow
<1>16. \A i \in 1..Len(client.stream) : client.stream[i] \in Line
  BY <1>1, ElementOfSeq DEF ClientType
<1>17. \A i \in 1..Len(client.stream) : \A j \in 1..2 : Before(client.stream[i], q[j])
  BY <1>7, <1>9, <1>14, <1>15, <1>16
<1>18. \A i, j \in 1..2 : i < j => Before(q[i], q[j])
  BY <1>7, <1>9, <1>14
<1>19. Flow(client', q, a)
  BY <1>7, <1>9, <1>11, <1>13, <1>14, <1>15, <1>17, <1>18 DEF Flow
<1>20. x.kind # "head" /\ x.kind # "tail" /\ y.kind # "head" /\ y.kind # "tail"
  BY <1>4 DEF Message
<1>21. Continues(client'.stream, q)
  BY <1>7, <1>14, <1>20 DEF Continues
<1>22. Len(<<>>) = 0 /\ <<>> \in Seq(Orders)
  BY EmptySeq
<1>23. OrdersInv'
  BY <1>1, <1>11, <1>22 DEF PanelInv, OrdersInv
<1>24. LinkedInv'
  BY <1>1, <1>11 DEF LinkedInv
<1>25. q = toClient' /\ a = server'.answered
  BY <1>1, <1>5, <1>6, <1>8
<1> QED BY <1>10, <1>11, <1>12, <1>19, <1>21, <1>23, <1>24, <1>25 DEF PanelInv

LEMMA PanelInitFacts == PanelInit => PanelInv
<1> SUFFICES ASSUME PanelInit PROVE PanelInv
  OBVIOUS
<1>1. PICK h \in Servers : h = CHOOSE host \in Servers : TRUE
  BY PanelAssumption
<1>2. PICK e : e = [i \in Ids |-> 0] OBVIOUS
<1>3. client = [active |-> TRUE, linked |-> FALSE, hasStatus |-> FALSE, busy |-> FALSE,
                awaiting |-> FALSE, pendingId |-> 0, nextId |-> 1, writeWatchdog |-> FALSE,
                confirmation |-> FALSE, failureReported |-> FALSE, stream |-> <<>>,
                host |-> h, connected |-> FALSE, shown |-> NoServer,
                panelAwaiting |-> FALSE, resumeRequested |-> FALSE, override |-> FALSE,
                ended |-> e, judged |-> 0, judgedBy |-> 0]
  BY <1>1, <1>2 DEF PanelInit
<1>4. 0 \in 0..MaxOrders /\ 1 \in 1..(MaxOrders + 1) /\ <<>> \in Seq(Line)
  BY PanelAssumption, EmptySeq
<1>5. e \in [Ids -> Nat] /\ \A i \in Ids : e[i] = 0 /\ i \in Nat /\ i >= 1
  BY <1>2 DEF Ids
<1>6. client \in ClientType
  BY <1>1, <1>3, <1>4, <1>5 DEF ClientType
<1>7. Waits(client) /\ Works(client) /\ Judges(client)
  BY <1>3 DEF Waits, Works, Judges
<1>8. Ends(client)
  BY <1>3, <1>5 DEF Ends
<1>9. toServer = <<>> /\ toClient = <<>> /\ server = [override |-> FALSE, open |-> {}, answered |-> 0]
  BY DEF PanelInit
<1>10. Len(<<>>) = 0 /\ <<>> \in Seq(Orders)
  BY EmptySeq
<1>11. Flow(client, toClient, server.answered)
  BY <1>3, <1>9, <1>10 DEF Flow
<1>12. WholeLines(client.stream) /\ Continues(client.stream, toClient)
  BY <1>3, <1>9, <1>10 DEF WholeLines, Continues
<1>13. OrdersInv
  BY <1>3, <1>4, <1>9, <1>10 DEF OrdersInv
<1>14. LinkedInv
  BY <1>3, <1>9 DEF LinkedInv
<1> QED BY <1>4, <1>6, <1>7, <1>8, <1>9, <1>11, <1>12, <1>13, <1>14 DEF PanelInv, Sound

LEMMA PanelStep == PanelInv /\ [PanelNext]_panelVars => PanelInv'
<1> SUFFICES ASSUME PanelInv, [PanelNext]_panelVars PROVE PanelInv'
  OBVIOUS
<1>1. CASE Reading
  BY <1>1, StepRead DEF Reading
<1>2. CASE Lose
  BY <1>2, StepLose
<1>3. CASE ClickCommand
  BY <1>3, StepClick
<1>4. CASE ClickResume
  BY <1>4, StepResume
<1>5. CASE WriteTimeout \/ ConfirmationTimeout
  BY <1>5, StepTimeout
<1>6. CASE StopForSettings
  BY <1>6, StepStop
<1>7. CASE Serve
  BY <1>7, StepServe
<1>8. CASE SendStatus
  BY <1>8, StepStatus
<1>9. CASE Suspend
  BY <1>9, StepSuspend
<1>10. CASE \E h \in Servers : StartAfterSettings(h)
  BY <1>10, StepStart
<1>11. CASE \E b \in BOOLEAN : Connect(b)
  BY <1>11, StepConnect
<1>12. CASE \E id \in Ids, b \in BOOLEAN : Answer(id, b)
  BY <1>12, StepAnswer
<1>13. CASE \E s \in {"connecting", "error"} : SendState(s)
  BY <1>13, StepState
<1>14. CASE UNCHANGED panelVars
  BY <1>14 DEF panelVars, PanelInv, OrdersInv, LinkedInv
<1> QED BY <1>1, <1>2, <1>3, <1>4, <1>5, <1>6, <1>7, <1>8, <1>9, <1>10, <1>11, <1>12, <1>13, <1>14
        DEF PanelNext

LEMMA PanelInvariant == PanelSpec => []PanelInv
  BY PanelInitFacts, PanelStep, PTL DEF PanelSpec

(* Every command that was sent ends once for the user, and no button waits *)
(* for what is over: whatever the network cuts in two, however late an     *)
(* answer comes, whenever the settings dialog stops the controller.        *)
THEOREM PanelCommandsEnd == PanelSpec => []CommandsEnd
<1>1. PanelInv => CommandsEnd
  BY DEF PanelInv, Sound, Waits, Ends, CommandsEnd, WaitsForWork, EndsOnce
<1> QED BY <1>1, PanelInvariant, PTL

(* The status that ends a command was sent after the answer to this very   *)
(* command, and it is of the server the window is set to: a status on its  *)
(* way when the answer comes, or one of the server before the dialog, does *)
(* not pass for the confirmation.                                          *)
THEOREM PanelShowsTheTruth == PanelSpec => []ShownIsTrue
<1>1. PanelInv => ShownIsTrue
  <2> SUFFICES ASSUME PanelInv PROVE ShownIsTrue
    OBVIOUS
  <2>2. client \in ClientType /\ client.judged <= client.judgedBy
        /\ client.shown \in {NoServer, client.host}
    BY DEF PanelInv, Sound, Judges
  <2>3. client.judged \in Int /\ client.judgedBy \in Int
    BY <2>2 DEF ClientType
  <2> QED BY <2>2, <2>3 DEF ShownIsTrue, JudgedAfterAnswer, ShowsItsServer
<1> QED BY <1>1, PanelInvariant, PTL
=============================================================================
