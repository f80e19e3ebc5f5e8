-------------------------- MODULE EditLock_proofs --------------------------
(***************************************************************************)
(* Proofs about EditLock, for every number of clients, connections,        *)
(* requests and revisions: client and server agree on who has the lock.    *)
(*                                                                         *)
(* The agreement is one between a controller and its connection: what it   *)
(* believes (pending, held), what is on its way in either direction and    *)
(* whether the server's lock is this connection's.  It is stated over      *)
(* these five values (Agreed), and every step of the client or the server  *)
(* is a lemma about them, without states.  What other clients do changes   *)
(* none of the five.                                                       *)
(***************************************************************************)
EXTENDS EditLock, TLAPS

LEMMA AppendFacts ==
  ASSUME NEW S, NEW q \in Seq(S), NEW e \in S
  PROVE  /\ Append(q, e) \in Seq(S) /\ Append(q, e) # <<>>
         /\ Len(Append(q, e)) = Len(q) + 1 /\ Append(q, e)[Len(q) + 1] = e
         /\ DOMAIN Append(q, e) = 1..(Len(q) + 1)
         /\ \A i \in DOMAIN q : i \in DOMAIN Append(q, e) /\ Append(q, e)[i] = q[i]
  OBVIOUS

LEMMA TailFacts ==
  ASSUME NEW S, NEW q \in Seq(S), q # <<>>
  PROVE  /\ Tail(q) \in Seq(S) /\ Head(q) \in S /\ Head(q) = q[1] /\ 1 \in DOMAIN q
         /\ Len(q) \in Nat /\ Len(q) > 0 /\ Len(Tail(q)) = Len(q) - 1
         /\ DOMAIN Tail(q) = 1..(Len(q) - 1) /\ DOMAIN q = 1..Len(q)
         /\ \A i \in DOMAIN Tail(q) : i + 1 \in DOMAIN q /\ Tail(q)[i] = q[i + 1]
         /\ \A i \in DOMAIN q : i # 1 => i - 1 \in DOMAIN Tail(q) /\ Tail(q)[i - 1] = q[i]
  OBVIOUS

-----------------------------------------------------------------------------
(* The agreement of a controller and its connection: in and out are what   *)
(* is on its way to the server and back, id is the pending request, held   *)
(* what the controller believes, mine whether the server agrees.           *)

OnlyLast(queue, kind, id) ==
    /\ queue # <<>>
    /\ queue[Len(queue)].id = id /\ queue[Len(queue)].kind = kind
    /\ \A i \in DOMAIN queue : queue[i].id = id => i = Len(queue)

\* The pending request is the last one on its way, and not answered.
OnItsWay(in, out, id, has, mine) ==
    /\ OnlyLast(in, IF has THEN "save" ELSE "begin", id)
    /\ \A i \in DOMAIN out : out[i].id # id
    /\ has => Len(in) = 1 /\ mine

\* Its answer is the last one on its way; it tells how the lock has changed.
Answered(in, out, id, has, mine) ==
    /\ in = <<>>
    /\ OnlyLast(out, IF has THEN "saved" ELSE "edit", id)
    /\ out[Len(out)].ok <=> (mine <=> ~has)

\* A request that was given up has a cancellation behind it.
GivenUp(in, id) ==
    \A i \in DOMAIN in :
        in[i].kind = "begin" /\ in[i].id # id
            => \E j \in DOMAIN in : j > i /\ in[j].kind = "cancel"

\* A lock the controller does not hold is about to be told or given back.
Known(in, out, id, has, mine) ==
    mine => \/ has
            \/ \E i \in DOMAIN out : out[i].kind = "edit" /\ out[i].ok /\ out[i].id = id
            \/ \E i \in DOMAIN in : in[i].kind = "cancel"

Agreed(in, out, id, has, mine) ==
    /\ id # 0 => OnItsWay(in, out, id, has, mine) \/ Answered(in, out, id, has, mine)
    /\ id = 0 /\ has => in = <<>> /\ mine
    /\ GivenUp(in, id)
    /\ Known(in, out, id, has, mine)

\* No message has a number that was not given; only a cancellation has none.
Numbered(in, out, last) ==
    /\ \A i \in DOMAIN in : in[i].id <= last /\ (in[i].kind # "cancel" => in[i].id # 0)
    /\ \A i \in DOMAIN out : out[i].id <= last

LEMMA MessageIds ==
  /\ \A r \in Requests : r.id \in Nat /\ r.id <= MaxRequests
  /\ \A r \in Replies : r.id \in Nat /\ r.id <= MaxRequests /\ r.id # 0 /\ r.ok \in BOOLEAN
  /\ \A in \in Seq(Requests), i \in Nat : i \in DOMAIN in => in[i] \in Requests /\ in[i].id \in Nat
  /\ \A out \in Seq(Replies), i \in Nat : i \in DOMAIN out => out[i] \in Replies /\ out[i].id \in Nat
<1>1. /\ \A r \in Requests : r.id \in Nat /\ r.id <= MaxRequests
      /\ \A r \in Replies : r.id \in Nat /\ r.id <= MaxRequests /\ r.id # 0 /\ r.ok \in BOOLEAN
  BY BoundsAssumption DEF Requests, Replies
<1>2. /\ \A in \in Seq(Requests), i \in Nat : i \in DOMAIN in => in[i] \in Requests
      /\ \A out \in Seq(Replies), i \in Nat : i \in DOMAIN out => out[i] \in Replies
  OBVIOUS
<1>3. QED BY <1>1, <1>2

-----------------------------------------------------------------------------
(* The client's steps *)

\* A new request: for the lock, or with it for a save.
LEMMA AskAgreed ==
  ASSUME NEW in \in Seq(Requests), NEW out \in Seq(Replies), NEW has \in BOOLEAN,
         NEW mine \in BOOLEAN, NEW new \in Requests, new.id # 0,
         new.kind = IF has THEN "save" ELSE "begin",
         NEW last \in Nat, Numbered(in, out, last), new.id > last,
         Agreed(in, out, 0, has, mine)
  PROVE  Agreed(Append(in, new), out, new.id, has, mine)
<1> DEFINE q == Append(in, new)
<1> HIDE DEF q
<1>1. /\ q # <<>> /\ Len(q) = Len(in) + 1 /\ q[Len(q)] = new /\ DOMAIN q = 1..(Len(in) + 1)
      /\ \A i \in DOMAIN in : i \in DOMAIN q /\ q[i] = in[i]
      /\ Len(in) \in Nat /\ DOMAIN in = 1..Len(in)
  BY AppendFacts DEF q
<1>2. \A i \in DOMAIN q : i # Len(q) => i \in DOMAIN in
  BY <1>1
<1>3. /\ \A i \in DOMAIN in : in[i].id # new.id
      /\ \A i \in DOMAIN out : out[i].id # new.id
  <2>1. /\ new.id \in Nat
        /\ \A i \in DOMAIN in : in[i].id \in Nat
        /\ \A i \in DOMAIN out : out[i].id \in Nat
    BY MessageIds
  <2>2. QED BY <2>1 DEF Numbered
<1>4. OnlyLast(q, IF has THEN "save" ELSE "begin", new.id)
  BY <1>1, <1>2, <1>3 DEF OnlyLast
<1>5. has => Len(q) = 1 /\ mine
  BY <1>1 DEF Agreed
<1>6. OnItsWay(q, out, new.id, has, mine)
  BY <1>3, <1>4, <1>5 DEF OnItsWay
<1>7. GivenUp(q, new.id)
  <2>1. SUFFICES ASSUME NEW i \in DOMAIN q, q[i].kind = "begin", q[i].id # new.id
                 PROVE  \E j \in DOMAIN q : j > i /\ q[j].kind = "cancel"
    BY DEF GivenUp
  <2>2. i \in DOMAIN in /\ in[i] = q[i] /\ in[i].id # 0
    <3>1. i \in DOMAIN in /\ in[i] = q[i]
      BY <1>1, <1>2, <2>1
    <3>2. QED BY <2>1, <3>1 DEF Numbered
  <2>3. QED BY <1>1, <2>1, <2>2 DEF Agreed, GivenUp
<1>8. Known(q, out, new.id, has, mine)
  <2>1. \A i \in DOMAIN out : out[i].id # 0
    BY MessageIds
  <2>2. QED BY <1>1, <2>1 DEF Agreed, Known
<1>9. Agreed(q, out, new.id, has, mine)
  BY <1>6, <1>7, <1>8 DEF Agreed
<1>10. QED BY <1>9 DEF q

\* The cancellation of what is pending and of the lock.
LEMMA CancelAgreed ==
  ASSUME NEW in \in Seq(Requests), NEW out \in Seq(Replies), NEW has, NEW mine, NEW id,
         NEW new \in Requests, new.kind = "cancel"
  PROVE  Agreed(Append(in, new), out, 0, FALSE, mine)
<1> DEFINE q == Append(in, new)
<1> HIDE DEF q
<1>1. /\ Len(q) = Len(in) + 1 /\ q[Len(q)] = new /\ DOMAIN q = 1..(Len(in) + 1) /\ Len(in) \in Nat
  BY AppendFacts DEF q
<1>2. Len(q) \in DOMAIN q /\ \A i \in DOMAIN q : q[i].kind = "begin" => Len(q) > i
  BY <1>1
<1>3. Agreed(q, out, 0, FALSE, mine)
  BY <1>1, <1>2 DEF Agreed, GivenUp, Known
<1>4. QED BY <1>3 DEF q

\* A reply that comes too late.
LEMMA ReceiveOther ==
  ASSUME NEW in \in Seq(Requests), NEW out \in Seq(Replies), NEW has \in BOOLEAN,
         NEW mine \in BOOLEAN, NEW id \in Nat,
         out # <<>>, Head(out).id # id, Agreed(in, out, id, has, mine)
  PROVE  Agreed(in, Tail(out), id, has, mine)
<1> DEFINE q == Tail(out)
<1> HIDE DEF q
<1>1. /\ Head(out) = out[1] /\ Len(out) \in Nat /\ Len(out) > 0 /\ Len(q) = Len(out) - 1
      /\ DOMAIN q = 1..(Len(out) - 1) /\ DOMAIN out = 1..Len(out)
      /\ \A i \in DOMAIN q : i + 1 \in DOMAIN out /\ q[i] = out[i + 1]
      /\ \A i \in DOMAIN out : i # 1 => i - 1 \in DOMAIN q /\ q[i - 1] = out[i]
      /\ q \in Seq(Replies)
  BY TailFacts DEF q
<1>2. ASSUME NEW kind, OnlyLast(out, kind, id)
      PROVE  OnlyLast(q, kind, id) /\ q[Len(q)] = out[Len(out)]
  <2>1. Len(out) # 1 BY <1>1, <1>2 DEF OnlyLast
  <2>2. q # <<>> /\ q[Len(q)] = out[Len(out)]
    BY <1>1, <2>1
  <2>3. \A i \in DOMAIN q : q[i].id = id => i = Len(q)
    BY <1>1, <1>2 DEF OnlyLast
  <2>4. QED BY <1>2, <2>2, <2>3 DEF OnlyLast
<1>3. OnItsWay(in, out, id, has, mine) => OnItsWay(in, q, id, has, mine)
  BY <1>1 DEF OnItsWay
<1>4. Answered(in, out, id, has, mine) => Answered(in, q, id, has, mine)
  BY <1>2 DEF Answered
<1>5. Known(in, out, id, has, mine) => Known(in, q, id, has, mine)
  <2>1. \A i \in DOMAIN out : out[i].id = id => \E j \in DOMAIN q : q[j] = out[i]
    BY <1>1
  <2>2. QED BY <2>1 DEF Known
<1>6. Agreed(in, q, id, has, mine)
  BY <1>3, <1>4, <1>5 DEF Agreed
<1>7. QED BY <1>6 DEF q

(***************************************************************************)
(* The answer.  There is nothing else on its way then, and it says whose   *)
(* the lock is; the request itself cannot be on its way any more.          *)
(***************************************************************************)
LEMMA ReceiveMine ==
  ASSUME NEW in \in Seq(Requests), NEW out \in Seq(Replies), NEW has \in BOOLEAN,
         NEW mine \in BOOLEAN, NEW id \in Nat, id # 0,
         out # <<>>, Head(out).id = id, Agreed(in, out, id, has, mine)
  PROVE  /\ in = <<>> /\ (Head(out).ok <=> (mine <=> ~has))
         /\ Head(out).kind = IF has THEN "saved" ELSE "edit"
         /\ mine \/ (has /\ Head(out).ok) \/ (~has /\ ~Head(out).ok)
         /\ Agreed(in, Tail(out), 0, mine, mine)
<1>1. Head(out) = out[1] /\ 1 \in DOMAIN out
  BY TailFacts
<1>2. Answered(in, out, id, has, mine)
  BY <1>1 DEF Agreed, OnItsWay
<1>3. Len(out) = 1 /\ out[Len(out)] = Head(out)
  BY <1>1, <1>2 DEF Answered, OnlyLast
<1>4. in = <<>> /\ (Head(out).ok <=> (mine <=> ~has)) /\ Head(out).kind = IF has THEN "saved" ELSE "edit"
  BY <1>2, <1>3 DEF Answered, OnlyLast
<1>5. mine \/ (has /\ Head(out).ok) \/ (~has /\ ~Head(out).ok)
  <2>1. Head(out).ok \in BOOLEAN BY <1>1, MessageIds
  <2>2. QED BY <1>4, <2>1
<1>6. Agreed(in, Tail(out), 0, mine, mine)
  BY <1>4 DEF Agreed, GivenUp, Known
<1>7. QED BY <1>4, <1>5, <1>6

-----------------------------------------------------------------------------
(* The server's steps *)

(***************************************************************************)
(* The request that is served is either the pending one, and the last, or  *)
(* one that was given up; its cancellation is then still to be served.     *)
(***************************************************************************)
CancelIn(queue) == \E i \in DOMAIN queue : queue[i].kind = "cancel"

Served(in, out, id, has, mine) ==
    /\ GivenUp(Tail(in), id)
    /\ id # 0 /\ Head(in).id = id =>
          /\ Tail(in) = <<>> /\ Head(in).kind = (IF has THEN "save" ELSE "begin")
          /\ mine <=> has
          /\ \A i \in DOMAIN out : out[i].id # id
    /\ id = 0 \/ Head(in).id # id =>
          /\ ~has
          /\ id # 0 => /\ OnlyLast(Tail(in), "begin", id)
                       /\ \A i \in DOMAIN out : out[i].id # id
          /\ Head(in).kind = "begin" => CancelIn(Tail(in))
          /\ mine => (\E i \in DOMAIN out : out[i].id = id) \/ CancelIn(in)
    /\ Head(in).kind # "cancel" /\ CancelIn(in) => CancelIn(Tail(in))

LEMMA ServeFacts ==
  ASSUME NEW in \in Seq(Requests), NEW out \in Seq(Replies), NEW has \in BOOLEAN,
         NEW mine \in BOOLEAN, NEW id \in Nat, NEW last \in Nat, in # <<>>,
         Agreed(in, out, id, has, mine), Numbered(in, out, last)
  PROVE  Served(in, out, id, has, mine)
<1> DEFINE q == Tail(in)
<1> HIDE DEF q
<1>1. /\ Head(in) = in[1] /\ Len(in) \in Nat /\ Len(in) > 0 /\ Len(q) = Len(in) - 1
      /\ DOMAIN q = 1..(Len(in) - 1) /\ DOMAIN in = 1..Len(in) /\ 1 \in DOMAIN in
      /\ \A i \in DOMAIN q : i + 1 \in DOMAIN in /\ q[i] = in[i + 1]
      /\ \A i \in DOMAIN in : i # 1 => i - 1 \in DOMAIN q /\ q[i - 1] = in[i]
      /\ q \in Seq(Requests)
  BY TailFacts DEF q
<1>2. id # 0 => OnItsWay(in, out, id, has, mine)
  BY DEF Agreed, Answered
<1>3. id = 0 => ~has
  BY DEF Agreed
<1>4. GivenUp(q, id)
  <2>1. SUFFICES ASSUME NEW i \in DOMAIN q, q[i].kind = "begin", q[i].id # id
                 PROVE  \E j \in DOMAIN q : j > i /\ q[j].kind = "cancel"
    BY DEF GivenUp
  <2>2. PICK j \in DOMAIN in : j > i + 1 /\ in[j].kind = "cancel"
    BY <1>1, <2>1 DEF Agreed, GivenUp
  <2>3. j - 1 \in DOMAIN q /\ q[j - 1].kind = "cancel" /\ j - 1 > i
    BY <1>1, <2>2
  <2>4. QED BY <2>3
<1>5. ASSUME id # 0, Head(in).id = id
      PROVE  /\ q = <<>> /\ Head(in).kind = (IF has THEN "save" ELSE "begin")
             /\ mine <=> has
             /\ \A i \in DOMAIN out : out[i].id # id
  <2>1. Len(in) = 1 /\ Head(in).kind = (IF has THEN "save" ELSE "begin")
    BY <1>1, <1>2, <1>5 DEF OnItsWay, OnlyLast
  <2>2. \A i \in DOMAIN out : out[i].id # id
    BY <1>2, <1>5 DEF OnItsWay
  <2>3. \A i \in DOMAIN in : in[i].kind # "cancel"
    BY <1>1, <2>1
  <2>4. mine => has
    BY <2>2, <2>3 DEF Agreed, Known
  <2>5. has => mine
    BY <1>2, <1>5 DEF OnItsWay
  <2>6. q = <<>> BY <1>1, <2>1
  <2>7. QED BY <2>1, <2>2, <2>4, <2>5, <2>6
<1>6. ASSUME id = 0 \/ Head(in).id # id PROVE ~has
  <2>1. id # 0 /\ has => Len(in) = 1 /\ in[1].id = id
    BY <1>2 DEF OnItsWay, OnlyLast
  <2>2. QED BY <1>1, <1>3, <1>6, <2>1
<1>7. ASSUME id # 0, Head(in).id # id
      PROVE  OnlyLast(q, "begin", id) /\ \A i \in DOMAIN out : out[i].id # id
  <2>1. ~has /\ OnlyLast(in, "begin", id) /\ \A i \in DOMAIN out : out[i].id # id
    BY <1>2, <1>6, <1>7 DEF OnItsWay
  <2>2. Len(in) # 1
    BY <1>1, <1>7, <2>1 DEF OnlyLast
  <2>3. Len(q) \in DOMAIN q /\ q # <<>> /\ q[Len(q)] = in[Len(in)]
    <3>1. Len(q) \in DOMAIN q /\ Len(q) + 1 = Len(in) /\ Len(q) # 0
      BY <1>1, <2>2
    <3>2. q[Len(q)] = in[Len(in)]
      BY <1>1, <3>1
    <3>3. QED BY <3>1, <3>2
  <2>4. \A i \in DOMAIN q : q[i].id = id => i = Len(q)
    BY <1>1, <2>1 DEF OnlyLast
  <2>5. OnlyLast(q, "begin", id)
    BY <2>1, <2>3, <2>4 DEF OnlyLast
  <2>6. QED BY <2>1, <2>5
<1>8. \A i \in DOMAIN in : i # 1 /\ in[i].kind = "cancel" => CancelIn(q)
  BY <1>1 DEF CancelIn
<1>9. ASSUME id = 0 \/ Head(in).id # id, Head(in).kind = "begin"
      PROVE  CancelIn(q)
  <2>1. Head(in).id # id
    BY <1>1, <1>9 DEF Numbered
  <2>2. PICK j \in DOMAIN in : j > 1 /\ in[j].kind = "cancel"
    BY <1>1, <1>9, <2>1 DEF Agreed, GivenUp
  <2>3. QED BY <1>1, <1>8, <2>2
<1>10. Head(in).kind # "cancel" /\ CancelIn(in) => CancelIn(q)
  BY <1>1, <1>8 DEF CancelIn
<1>11. mine /\ ~has => (\E i \in DOMAIN out : out[i].id = id) \/ CancelIn(in)
  BY DEF Agreed, Known, CancelIn
<1>12. QED BY <1>4, <1>5, <1>6, <1>7, <1>9, <1>10, <1>11 DEF Served, q

\* The answer r to the first request, when the lock is mine2 afterwards.
LEMMA ServeAgreed ==
  ASSUME NEW in \in Seq(Requests), NEW out \in Seq(Replies), NEW has \in BOOLEAN,
         NEW mine \in BOOLEAN, NEW id \in Nat, NEW last \in Nat, in # <<>>,
         Agreed(in, out, id, has, mine), Numbered(in, out, last),
         NEW r \in Replies, NEW mine2 \in BOOLEAN, r.id = Head(in).id,
         id # 0 /\ r.id = id =>
            r.kind = (IF has THEN "saved" ELSE "edit") /\ (r.ok <=> (mine2 <=> ~has)),
         (id = 0 \/ r.id # id) /\ mine2 => CancelIn(Tail(in))
  PROVE  Agreed(Tail(in), Append(out, r), id, has, mine2)
<1> DEFINE q == Append(out, r)
<1> HIDE DEF q
<1>1. /\ q # <<>> /\ Len(q) = Len(out) + 1 /\ q[Len(q)] = r /\ DOMAIN q = 1..(Len(out) + 1)
      /\ \A i \in DOMAIN out : i \in DOMAIN q /\ q[i] = out[i]
      /\ Len(out) \in Nat /\ DOMAIN out = 1..Len(out)
  BY AppendFacts DEF q
<1>2. \A i \in DOMAIN q : i # Len(q) => i \in DOMAIN out /\ q[i] = out[i]
  BY <1>1
<1>3. Served(in, out, id, has, mine)
  BY ServeFacts
<1>4. CASE id # 0 /\ r.id = id
  <2>1. Tail(in) = <<>> /\ \A i \in DOMAIN out : out[i].id # id
    BY <1>3, <1>4 DEF Served
  <2>2. OnlyLast(q, IF has THEN "saved" ELSE "edit", id)
    BY <1>1, <1>2, <1>4, <2>1 DEF OnlyLast
  <2>3. Answered(Tail(in), q, id, has, mine2)
    BY <1>1, <1>4, <2>1, <2>2 DEF Answered
  <2>4. Known(Tail(in), q, id, has, mine2)
    <3>1. r.ok \in BOOLEAN BY MessageIds
    <3>2. Len(q) \in DOMAIN q BY <1>1
    <3>3. mine2 /\ ~has => q[Len(q)].kind = "edit" /\ q[Len(q)].ok /\ q[Len(q)].id = id
      BY <1>1, <1>4, <3>1
    <3>4. QED BY <3>2, <3>3 DEF Known
  <2>5. Agreed(Tail(in), q, id, has, mine2)
    BY <1>3, <1>4, <2>3, <2>4 DEF Agreed, Served
  <2>6. QED BY <2>5 DEF q
<1>5. CASE id = 0 \/ r.id # id
  <2>1. /\ ~has
        /\ id # 0 => OnlyLast(Tail(in), "begin", id) /\ \A i \in DOMAIN out : out[i].id # id
    BY <1>3, <1>5 DEF Served
  <2>2. id # 0 => \A i \in DOMAIN q : q[i].id # id
    BY <1>1, <1>2, <1>5, <2>1
  <2>3. id # 0 => OnItsWay(Tail(in), q, id, has, mine2)
    BY <2>1, <2>2 DEF OnItsWay
  <2>4. Known(Tail(in), q, id, has, mine2)
    BY <1>5 DEF Known, CancelIn
  <2>5. Agreed(Tail(in), q, id, has, mine2)
    BY <1>3, <2>1, <2>3, <2>4 DEF Agreed, Served
  <2>6. QED BY <2>5 DEF q
<1>6. QED BY <1>4, <1>5

\* automation_edit_begin: granted, or refused with the lock as it was.
LEMMA ServeBegin ==
  ASSUME NEW in \in Seq(Requests), NEW out \in Seq(Replies), NEW has \in BOOLEAN,
         NEW mine \in BOOLEAN, NEW id \in Nat, NEW last \in Nat, in # <<>>,
         Agreed(in, out, id, has, mine), Numbered(in, out, last), Head(in).kind = "begin",
         NEW r \in Replies, r.id = Head(in).id, r.kind = "edit",
         NEW mine2 \in BOOLEAN, (r.ok /\ mine2) \/ (~r.ok /\ (mine2 <=> mine))
  PROVE  Agreed(Tail(in), Append(out, r), id, has, mine2)
<1>1. Served(in, out, id, has, mine)
  BY ServeFacts
<1>2. id # 0 /\ r.id = id => ~has /\ ~mine
  BY <1>1 DEF Served
<1>3. id # 0 /\ r.id = id => r.kind = (IF has THEN "saved" ELSE "edit") /\ (r.ok <=> (mine2 <=> ~has))
  BY <1>2
<1>4. (id = 0 \/ r.id # id) /\ mine2 => CancelIn(Tail(in))
  BY <1>1 DEF Served
<1>5. QED BY <1>3, <1>4, ServeAgreed

\* automation_edit_save: stored and the lock freed, or failed with the lock as it was.
LEMMA ServeSave ==
  ASSUME NEW in \in Seq(Requests), NEW out \in Seq(Replies), NEW has \in BOOLEAN,
         NEW mine \in BOOLEAN, NEW id \in Nat, NEW last \in Nat, in # <<>>,
         Agreed(in, out, id, has, mine), Numbered(in, out, last), Head(in).kind = "save",
         NEW r \in Replies, r.id = Head(in).id, r.kind = "saved",
         NEW mine2 \in BOOLEAN, (r.ok /\ mine /\ ~mine2) \/ (~r.ok /\ (mine2 <=> mine))
  PROVE  Agreed(Tail(in), Append(out, r), id, has, mine2)
<1>1. Served(in, out, id, has, mine)
  BY ServeFacts
<1>2. id # 0 /\ r.id = id => has /\ mine
  BY <1>1 DEF Served
<1>3. id # 0 /\ r.id = id => r.kind = (IF has THEN "saved" ELSE "edit") /\ (r.ok <=> (mine2 <=> ~has))
  BY <1>2
<1>4. ASSUME id = 0 \/ r.id # id, mine2 PROVE CancelIn(Tail(in))
  <2>1. \A i \in DOMAIN out : out[i].id # 0
    BY MessageIds
  <2>2. \A i \in DOMAIN out : out[i].id # id
    BY <1>1, <1>4, <2>1 DEF Served
  <2>3. CancelIn(in)
    BY <1>1, <1>4, <2>2 DEF Served
  <2>4. QED BY <1>1, <2>3 DEF Served
<1>5. QED BY <1>3, <1>4, ServeAgreed

\* automation_edit_cancel: the lock is not this connection's afterwards.
LEMMA ServeCancel ==
  ASSUME NEW in \in Seq(Requests), NEW out \in Seq(Replies), NEW has \in BOOLEAN,
         NEW mine \in BOOLEAN, NEW id \in Nat, NEW last \in Nat, in # <<>>,
         Agreed(in, out, id, has, mine), Numbered(in, out, last), Head(in).kind = "cancel"
  PROVE  Agreed(Tail(in), out, id, has, FALSE)
<1>1. Served(in, out, id, has, mine)
  BY ServeFacts
<1>2. id = 0 \/ Head(in).id # id
  BY <1>1 DEF Served
<1>3. ~has /\ GivenUp(Tail(in), id) /\ (id # 0 => OnItsWay(Tail(in), out, id, has, FALSE))
  BY <1>1, <1>2 DEF Served, OnItsWay
<1>4. QED BY <1>3 DEF Agreed, Known

-----------------------------------------------------------------------------
(* Types and numbers: an answer has the number of a request that was made. *)

NumberInv ==
    /\ \A k \in Conn : Numbered(inbox[k], outbox[k], lastId[k[1]])
    /\ \A c \in Clients : pending[c] <= lastId[c]

LinkedInv == \A c \in Clients : linked[c] => session[c] # 0

BaseInv == TypeOK /\ NumberInv /\ LinkedInv

Message(kind, id, rev) == [kind |-> kind, id |-> id, revision |-> rev]
Result(kind, id, ok, rev) == [kind |-> kind, id |-> id, ok |-> ok, revision |-> rev]

LEMMA ConnFacts ==
  ASSUME TypeOK
  PROVE  /\ \A k \in Conn : k[1] \in Clients /\ k[2] \in 1..MaxSessions /\ k = <<k[1], k[2]>>
         /\ \A c \in Clients : session[c] \in Nat /\ ConnOf(c)[1] = c /\ ConnOf(c)[2] = session[c]
         /\ \A c \in Clients : session[c] # 0 => ConnOf(c) \in Conn
         /\ \A c \in Clients, k \in Conn : ConnOf(c) = k <=> k[1] = c /\ k[2] = session[c]
<1>1. /\ \A k \in Conn : k[1] \in Clients /\ k[2] \in 1..MaxSessions /\ k = <<k[1], k[2]>>
      /\ \A c \in Clients, n \in 1..MaxSessions : <<c, n>> \in Conn
  BY DEF Conn
<1>2. \A c \in Clients : session[c] \in 0..MaxSessions
  BY DEF TypeOK
<1>3. \A c \in Clients : session[c] \in Nat /\ (session[c] # 0 => session[c] \in 1..MaxSessions)
  <2>1. TAKE c \in Clients
  <2>2. PICK n : n = session[c] OBVIOUS
  <2>3. n \in 0..MaxSessions BY <1>2, <2>2
  <2>4. n \in Nat /\ (n # 0 => n \in 1..MaxSessions) BY <2>3, BoundsAssumption
  <2>5. QED BY <2>2, <2>4
<1>4. \A c \in Clients : ConnOf(c) = <<c, session[c]>> /\ ConnOf(c)[1] = c /\ ConnOf(c)[2] = session[c]
  BY DEF ConnOf
<1>5. \A c \in Clients, k \in Conn : ConnOf(c) = k <=> k[1] = c /\ k[2] = session[c]
  BY <1>1, <1>4
<1>6. QED BY <1>1, <1>3, <1>4, <1>5

LEMMA NumberedAppend ==
  ASSUME NEW in \in Seq(Requests), NEW out \in Seq(Replies), NEW last \in Nat,
         Numbered(in, out, last), NEW more \in Nat, more >= last
  PROVE  /\ Numbered(in, out, more)
         /\ \A e \in Requests : e.id <= more /\ (e.kind # "cancel" => e.id # 0)
               => Numbered(Append(in, e), out, more)
         /\ \A r \in Replies : r.id <= more => Numbered(in, Append(out, r), more)
<1>1. /\ \A i \in DOMAIN in : in[i].id \in Nat
      /\ \A i \in DOMAIN out : out[i].id \in Nat
  BY MessageIds
<1>2. Numbered(in, out, more)
  BY <1>1 DEF Numbered
<1>3. ASSUME NEW e \in Requests, e.id <= more, e.kind # "cancel" => e.id # 0
      PROVE  Numbered(Append(in, e), out, more)
  <2>1. \A i \in DOMAIN Append(in, e) : Append(in, e)[i] = e \/ (i \in DOMAIN in /\ Append(in, e)[i] = in[i])
    BY AppendFacts
  <2>2. QED BY <1>2, <1>3, <2>1 DEF Numbered
<1>4. ASSUME NEW r \in Replies, r.id <= more
      PROVE  Numbered(in, Append(out, r), more)
  <2>1. \A i \in DOMAIN Append(out, r) :
            Append(out, r)[i] = r \/ (i \in DOMAIN out /\ Append(out, r)[i] = out[i])
    BY AppendFacts
  <2>2. QED BY <1>2, <1>4, <2>1 DEF Numbered
<1>5. QED BY <1>2, <1>3, <1>4

LEMMA NumberedTail ==
  ASSUME NEW in \in Seq(Requests), NEW out \in Seq(Replies), NEW last,
         Numbered(in, out, last)
  PROVE  /\ Numbered(<<>>, out, last) /\ Numbered(in, <<>>, last)
         /\ in # <<>> => Numbered(Tail(in), out, last) /\ Head(in) \in Requests
               /\ Head(in).id <= last /\ (Head(in).kind # "cancel" => Head(in).id # 0)
         /\ out # <<>> => Numbered(in, Tail(out), last) /\ Head(out) \in Replies
<1>1. Numbered(<<>>, out, last) /\ Numbered(in, <<>>, last)
  BY DEF Numbered
<1>2. ASSUME in # <<>>
      PROVE  Numbered(Tail(in), out, last) /\ Head(in) \in Requests
               /\ Head(in).id <= last /\ (Head(in).kind # "cancel" => Head(in).id # 0)
  <2>1. /\ Head(in) = in[1] /\ Head(in) \in Requests /\ 1 \in DOMAIN in
        /\ \A i \in DOMAIN Tail(in) : i + 1 \in DOMAIN in /\ Tail(in)[i] = in[i + 1]
    BY <1>2, TailFacts
  <2>2. QED BY <2>1 DEF Numbered
<1>3. ASSUME out # <<>>
      PROVE  Numbered(in, Tail(out), last) /\ Head(out) \in Replies
  <2>1. /\ Head(out) \in Replies
        /\ \A i \in DOMAIN Tail(out) : i + 1 \in DOMAIN out /\ Tail(out)[i] = out[i + 1]
    BY <1>3, TailFacts
  <2>2. QED BY <2>1 DEF Numbered
<1>4. QED BY <1>1, <1>2, <1>3

\* How a step may change what is on its way.
NewRequests(old, new, last) ==
    \/ new = old \/ new = <<>> \/ (old # <<>> /\ new = Tail(old))
    \/ \E e \in Requests : /\ e.id <= last /\ (e.kind # "cancel" => e.id # 0)
                           /\ new = Append(old, e)

NewReplies(old, new, last) ==
    \/ new = old \/ new = <<>> \/ (old # <<>> /\ new = Tail(old))
    \/ \E r \in Replies : r.id <= last /\ new = Append(old, r)

LEMMA NumberedStep ==
  ASSUME NEW in \in Seq(Requests), NEW out \in Seq(Replies), NEW last \in Nat,
         Numbered(in, out, last), NEW more \in Nat, more >= last,
         NEW in2 \in Seq(Requests), NEW out2 \in Seq(Replies),
         NewRequests(in, in2, more), NewReplies(out, out2, more)
  PROVE  Numbered(in2, out2, more)
<1>1. Numbered(in, out, more)
  BY NumberedAppend
<1>2. Numbered(in2, out, more)
  <2>1. CASE \E e \in Requests : /\ e.id <= more /\ (e.kind # "cancel" => e.id # 0)
                                /\ in2 = Append(in, e)
    BY <2>1, NumberedAppend
  <2>2. CASE in2 = in \/ in2 = <<>> \/ (in # <<>> /\ in2 = Tail(in))
    BY <1>1, <2>2, NumberedTail
  <2>3. QED BY <2>1, <2>2 DEF NewRequests
<1>3. CASE \E r \in Replies : r.id <= more /\ out2 = Append(out, r)
  BY <1>2, <1>3, more >= more, NumberedAppend
<1>4. CASE out2 = out \/ out2 = <<>> \/ (out # <<>> /\ out2 = Tail(out))
  BY <1>2, <1>4, NumberedTail
<1>5. QED BY <1>3, <1>4 DEF NewReplies

LEMMA NumberStep ==
  ASSUME BaseInv, TypeOK', LinkedInv',
         \A c \in Clients : lastId'[c] >= lastId[c] /\ pending'[c] <= lastId'[c],
         \A k \in Conn : NewRequests(inbox[k], inbox'[k], lastId'[k[1]]),
         \A k \in Conn : NewReplies(outbox[k], outbox'[k], lastId'[k[1]])
  PROVE  BaseInv'
<1>1. SUFFICES ASSUME NEW k \in Conn PROVE Numbered(inbox'[k], outbox'[k], lastId'[k[1]])
  BY DEF BaseInv, NumberInv
<1>2. /\ inbox[k] \in Seq(Requests) /\ inbox'[k] \in Seq(Requests)
      /\ outbox[k] \in Seq(Replies) /\ outbox'[k] \in Seq(Replies)
  BY DEF BaseInv, TypeOK
<1>3. k[1] \in Clients
  BY DEF Conn
<1>4. lastId[k[1]] \in Nat /\ lastId'[k[1]] \in Nat
  <2>1. lastId[k[1]] \in 0..MaxRequests /\ lastId'[k[1]] \in 0..MaxRequests
    BY <1>3 DEF BaseInv, TypeOK
  <2>2. QED BY <2>1, BoundsAssumption
<1>5. Numbered(inbox[k], outbox[k], lastId[k[1]])
  BY DEF BaseInv, NumberInv
<1>6. QED BY <1>2, <1>3, <1>4, <1>5, NumberedStep

LEMMA SendFacts ==
  ASSUME TypeOK, NEW c \in Clients, NEW kind \in {"begin", "save", "cancel"},
         NEW id \in 0..MaxRequests, NEW rev \in 0..MaxRevision, Send(c, kind, id, rev)
  PROVE  /\ Message(kind, id, rev) \in Requests
         /\ inbox' \in [Conn -> Seq(Requests)]
         /\ \A k \in Conn : k # ConnOf(c) => inbox'[k] = inbox[k]
         /\ linked[c] /\ ConnOf(c) \in open =>
               inbox'[ConnOf(c)] = Append(inbox[ConnOf(c)], Message(kind, id, rev))
         /\ ~(linked[c] /\ ConnOf(c) \in open) => inbox' = inbox
<1>1. Message(kind, id, rev) \in Requests
  BY DEF Message, Requests
<1>2. CASE linked[c] /\ ConnOf(c) \in open
  <2>1. PICK k : k = ConnOf(c) OBVIOUS
  <2>2. PICK e : e = Message(kind, id, rev) OBVIOUS
  <2>3. k \in Conn /\ inbox \in [Conn -> Seq(Requests)] /\ e \in Requests
    BY <1>1, <1>2, <2>1, <2>2 DEF TypeOK
  <2>4. inbox' = [inbox EXCEPT ![k] = Append(@, e)]
    BY <1>2, <2>1, <2>2 DEF Send, Message
  <2>5. Append(inbox[k], e) \in Seq(Requests)
    BY <2>3, AppendFacts
  <2>6. QED BY <1>1, <1>2, <2>1, <2>2, <2>3, <2>4, <2>5
<1>3. CASE ~(linked[c] /\ ConnOf(c) \in open)
  BY <1>1, <1>3 DEF Send, TypeOK
<1>4. QED BY <1>2, <1>3

LEMMA ReplyFacts ==
  ASSUME TypeOK, NEW k \in Conn, NEW kind \in {"edit", "saved"}, NEW id \in 1..MaxRequests,
         NEW ok \in BOOLEAN, NEW rev \in 0..MaxRevision, Reply(k, kind, id, ok, rev)
  PROVE  /\ Result(kind, id, ok, rev) \in Replies
         /\ outbox' \in [Conn -> Seq(Replies)]
         /\ \A j \in Conn : j # k => outbox'[j] = outbox[j]
         /\ linked[k[1]] /\ session[k[1]] = k[2] =>
               outbox'[k] = Append(outbox[k], Result(kind, id, ok, rev))
         /\ ~(linked[k[1]] /\ session[k[1]] = k[2]) => outbox' = outbox
<1>1. Result(kind, id, ok, rev) \in Replies
  BY DEF Result, Replies
<1>2. CASE linked[k[1]] /\ session[k[1]] = k[2]
  <2>1. PICK e : e = Result(kind, id, ok, rev) OBVIOUS
  <2>2. outbox \in [Conn -> Seq(Replies)] /\ e \in Replies
    BY <1>1, <2>1 DEF TypeOK
  <2>3. outbox' = [outbox EXCEPT ![k] = Append(@, e)]
    BY <1>2, <2>1 DEF Reply, Result
  <2>4. Append(outbox[k], e) \in Seq(Replies)
    BY <2>2, AppendFacts
  <2>5. QED BY <1>1, <1>2, <2>1, <2>2, <2>3, <2>4
<1>3. CASE ~(linked[k[1]] /\ session[k[1]] = k[2])
  BY <1>1, <1>3 DEF Reply, TypeOK
<1>4. QED BY <1>2, <1>3

-----------------------------------------------------------------------------
(* Each step keeps the types and the numbers *)

LEMMA LinkedConn ==
  ASSUME BaseInv, NEW c \in Clients, linked[c]
  PROVE  ConnOf(c) \in Conn
  BY ConnFacts DEF BaseInv, LinkedInv

LEMMA BaseUnchanged == BaseInv /\ UNCHANGED vars => BaseInv'
  BY DEF BaseInv, TypeOK, NumberInv, LinkedInv, vars, serverVars, linkVars, requestVars, dialogVars

LEMMA NumberFacts ==
  ASSUME BaseInv
  PROVE  /\ \A c \in Clients : lastId[c] \in 0..MaxRequests /\ lastId[c] \in Nat
                             /\ pending[c] \in Nat /\ pending[c] <= lastId[c]
         /\ \A k \in Conn : lastId[k[1]] \in Nat /\ lastId[k[1]] \in 0..MaxRequests
<1>1. ASSUME NEW c \in Clients
      PROVE  /\ lastId[c] \in 0..MaxRequests /\ lastId[c] \in Nat
             /\ pending[c] \in Nat /\ pending[c] <= lastId[c]
  <2>1. lastId[c] \in 0..MaxRequests /\ pending[c] \in 0..MaxRequests /\ pending[c] <= lastId[c]
    BY DEF BaseInv, TypeOK, NumberInv
  <2>2. QED BY <2>1, BoundsAssumption
<1>2. \A k \in Conn : k[1] \in Clients
  BY ConnFacts DEF BaseInv
<1>3. QED BY <1>1, <1>2

LEMMA TellFailureTypes ==
  ASSUME TypeOK, NEW c \in Clients, NEW heldNow \in BOOLEAN, TellFailure(c, heldNow)
  PROVE  dialog' \in [Clients -> {"closed", "waiting", "editing", "saving"}]
  BY DEF TypeOK, TellFailure

LEMMA BaseConnect ==
  ASSUME BaseInv, NEW c \in Clients, Connect(c)
  PROVE  BaseInv'
<1>1. session[c] \in 0..MaxSessions /\ session[c] < MaxSessions
  BY DEF BaseInv, TypeOK, Connect
<1>2. session[c] + 1 \in 0..MaxSessions /\ session[c] + 1 \in 1..MaxSessions
  BY <1>1, BoundsAssumption
<1>3. <<c, session[c] + 1>> \in Conn
  BY <1>2 DEF Conn
<1>4. TypeOK'
  BY <1>2, <1>3 DEF BaseInv, TypeOK, Connect, requestVars, dialogVars
<1>5. LinkedInv'
  BY <1>1, BoundsAssumption DEF BaseInv, TypeOK, LinkedInv, Connect
<1>6. QED BY <1>4, <1>5 DEF BaseInv, NumberInv, Connect, requestVars

LEMMA BaseUnlink ==
  ASSUME BaseInv, NEW c \in Clients, Unlink(c),
         dialog' \in [Clients -> {"closed", "waiting", "editing", "saving"}],
         cut' \in [Clients -> BOOLEAN]
  PROVE  BaseInv'
<1>1. /\ UNCHANGED <<editor, revision, open, inbox, session, lastId, base>>
      /\ linked' = [linked EXCEPT ![c] = FALSE]
      /\ outbox' = [outbox EXCEPT ![ConnOf(c)] = <<>>]
  BY DEF Unlink, serverVars
<1>2. /\ held' \in [Clients -> BOOLEAN]
      /\ pending' \in [Clients -> 0..MaxRequests] /\ \A d \in Clients : pending'[d] \in {0, pending[d]}
  <2>1. 0 \in 0..MaxRequests BY BoundsAssumption
  <2>2. pending' = [pending EXCEPT ![c] = 0] /\ held' = [held EXCEPT ![c] = FALSE]
    BY DEF Unlink
  <2>3. QED BY <2>1, <2>2 DEF BaseInv, TypeOK
<1>3. outbox' \in [Conn -> Seq(Replies)] /\ \A k \in Conn : outbox'[k] \in {<<>>, outbox[k]}
  <2>1. PICK j : j = ConnOf(c) OBVIOUS
  <2>2. outbox' = [outbox EXCEPT ![j] = <<>>] BY <1>1, <2>1
  <2>3. outbox \in [Conn -> Seq(Replies)] /\ <<>> \in Seq(Replies)
    BY DEF BaseInv, TypeOK
  <2>4. QED BY <2>2, <2>3
<1>4. TypeOK'
  BY <1>1, <1>2, <1>3 DEF BaseInv, TypeOK
<1>5. \A d \in Clients : lastId'[d] >= lastId[d] /\ pending'[d] <= lastId'[d]
  <2>1. \A d \in Clients : lastId[d] \in Nat /\ pending[d] <= lastId[d]
    BY NumberFacts
  <2>2. \A d \in Clients : pending'[d] \in {0, pending[d]} /\ lastId'[d] = lastId[d]
    BY <1>1, <1>2
  <2>3. QED BY <2>1, <2>2
<1>6. /\ \A k \in Conn : NewRequests(inbox[k], inbox'[k], lastId'[k[1]])
      /\ \A k \in Conn : NewReplies(outbox[k], outbox'[k], lastId'[k[1]])
  BY <1>1, <1>3 DEF NewRequests, NewReplies
<1>7. LinkedInv'
  BY <1>1 DEF BaseInv, TypeOK, LinkedInv
<1>8. QED BY <1>4, <1>5, <1>6, <1>7, NumberStep

LEMMA BaseDisconnect ==
  ASSUME BaseInv, NEW c \in Clients, Disconnect(c) \/ Stop(c)
  PROVE  BaseInv'
<1>1. Unlink(c)
  BY DEF Disconnect, Stop
<1>2. dialog' \in [Clients -> {"closed", "waiting", "editing", "saving"}]
  BY TellFailureTypes DEF BaseInv, TypeOK, Disconnect, Stop
<1>3. cut' \in [Clients -> BOOLEAN]
  BY DEF BaseInv, TypeOK, Disconnect, Stop
<1>4. QED BY <1>1, <1>2, <1>3, BaseUnlink

LEMMA BaseCloseClient ==
  ASSUME BaseInv, NEW k \in Conn, CloseClient(k)
  PROVE  BaseInv'
<1>1. TypeOK'
  BY DEF BaseInv, TypeOK, CloseClient, linkVars, requestVars, dialogVars
<1>2. /\ UNCHANGED <<outbox, lastId, pending>>
      /\ \A j \in Conn : inbox'[j] \in {<<>>, inbox[j]}
  BY DEF BaseInv, TypeOK, CloseClient, requestVars
<1>3. \A d \in Clients : lastId'[d] >= lastId[d] /\ pending'[d] <= lastId'[d]
  BY <1>2, NumberFacts
<1>4. /\ \A j \in Conn : NewRequests(inbox[j], inbox'[j], lastId'[j[1]])
      /\ \A j \in Conn : NewReplies(outbox[j], outbox'[j], lastId'[j[1]])
  BY <1>2 DEF NewRequests, NewReplies
<1>5. LinkedInv'
  BY DEF BaseInv, LinkedInv, CloseClient, linkVars
<1>6. QED BY <1>1, <1>3, <1>4, <1>5, NumberStep

\* A request of a new number.
LEMMA BaseAsk ==
  ASSUME BaseInv, NEW c \in Clients, NEW kind \in {"begin", "save"}, NEW rev \in 0..MaxRevision,
         lastId[c] < MaxRequests, lastId' = [lastId EXCEPT ![c] = @ + 1],
         pending' = [pending EXCEPT ![c] = lastId[c] + 1], Send(c, kind, lastId[c] + 1, rev),
         dialog' \in [Clients -> {"closed", "waiting", "editing", "saving"}],
         UNCHANGED <<serverVars, outbox, linkVars, held, base, cut>>
  PROVE  BaseInv'
<1>1. PICK id : id = lastId[c] + 1 OBVIOUS
<1>2. id \in 0..MaxRequests /\ id # 0 /\ id \in Nat /\ id > lastId[c]
  <2>1. lastId[c] \in 0..MaxRequests BY NumberFacts
  <2>2. QED BY <1>1, <2>1, BoundsAssumption
<1>3. /\ lastId' = [lastId EXCEPT ![c] = id] /\ pending' = [pending EXCEPT ![c] = id]
      /\ Send(c, kind, id, rev)
  BY <1>1
<1>4. PICK e : e = Message(kind, id, rev) OBVIOUS
<1>5. /\ e \in Requests /\ e.id = id /\ e.kind = kind /\ inbox' \in [Conn -> Seq(Requests)]
      /\ \A k \in Conn : inbox'[k] = inbox[k] \/ (k[1] = c /\ inbox'[k] = Append(inbox[k], e))
  <2>1. TypeOK BY DEF BaseInv
  <2>2. \A k \in Conn : k = ConnOf(c) => k[1] = c BY DEF ConnOf
  <2>3. QED BY <1>2, <1>3, <1>4, <2>1, <2>2, SendFacts DEF Message
<1>6. TypeOK'
  BY <1>2, <1>3, <1>5 DEF BaseInv, TypeOK, serverVars, linkVars
<1>7. \A d \in Clients : lastId'[d] >= lastId[d] /\ pending'[d] <= lastId'[d]
  <2>1. \A d \in Clients : lastId[d] \in Nat /\ pending[d] <= lastId[d]
    BY NumberFacts
  <2>2. \A d \in Clients : \/ d = c /\ lastId'[d] = id /\ pending'[d] = id
                           \/ lastId'[d] = lastId[d] /\ pending'[d] = pending[d]
    BY <1>3 DEF BaseInv, TypeOK
  <2>3. QED BY <1>2, <2>1, <2>2
<1>8. lastId'[c] = id
  BY <1>3 DEF BaseInv, TypeOK
<1>9. /\ \A k \in Conn : NewRequests(inbox[k], inbox'[k], lastId'[k[1]])
      /\ \A k \in Conn : NewReplies(outbox[k], outbox'[k], lastId'[k[1]])
  BY <1>2, <1>5, <1>8 DEF NewRequests, NewReplies
<1>10. LinkedInv'
  BY DEF BaseInv, LinkedInv, linkVars
<1>11. QED BY <1>6, <1>7, <1>9, <1>10, NumberStep

\* CancelAutomationEdit, with what the dialog makes of it.
LEMMA BaseGiveUp ==
  ASSUME BaseInv, NEW c \in Clients, CancelAutomationEdit(c),
         dialog' \in [Clients -> {"closed", "waiting", "editing", "saving"}],
         cut' \in [Clients -> BOOLEAN],
         UNCHANGED <<serverVars, outbox, linkVars, lastId, base>>
  PROVE  BaseInv'
<1>1. 0 \in 0..MaxRequests /\ 0 \in 0..MaxRevision /\ TypeOK
  BY BoundsAssumption DEF BaseInv
<1>2. PICK e : e = Message("cancel", 0, 0) OBVIOUS
<1>3. /\ e \in Requests /\ e.id = 0 /\ e.kind = "cancel" /\ inbox' \in [Conn -> Seq(Requests)]
      /\ \A k \in Conn : inbox'[k] = inbox[k] \/ inbox'[k] = Append(inbox[k], e)
  BY <1>1, <1>2, SendFacts DEF CancelAutomationEdit, Message
<1>4. TypeOK'
  BY <1>1, <1>3 DEF BaseInv, TypeOK, CancelAutomationEdit, serverVars, linkVars
<1>5. \A d \in Clients : lastId'[d] >= lastId[d] /\ pending'[d] <= lastId'[d]
  <2>1. \A d \in Clients : lastId[d] \in Nat /\ pending[d] <= lastId[d]
    BY NumberFacts
  <2>2. \A d \in Clients : pending'[d] \in {0, pending[d]}
    BY DEF BaseInv, TypeOK, CancelAutomationEdit
  <2>3. QED BY <2>1, <2>2
<1>6. /\ \A k \in Conn : NewRequests(inbox[k], inbox'[k], lastId'[k[1]])
      /\ \A k \in Conn : NewReplies(outbox[k], outbox'[k], lastId'[k[1]])
  BY <1>3, NumberFacts DEF NewRequests, NewReplies
<1>7. LinkedInv'
  BY DEF BaseInv, LinkedInv, linkVars
<1>8. QED BY <1>4, <1>5, <1>6, <1>7, NumberStep

LEMMA BaseReceive ==
  ASSUME BaseInv, NEW c \in Clients, Receive(c)
  PROVE  BaseInv'
<1>1. PICK k : k = ConnOf(c) OBVIOUS
<1>2. PICK reply : reply = Head(outbox[k]) OBVIOUS
<1>3. /\ linked[c] /\ outbox[k] # <<>> /\ outbox' = [outbox EXCEPT ![k] = Tail(outbox[k])]
      /\ UNCHANGED <<editor, revision, open, inbox, session, linked, lastId>>
  BY <1>1 DEF Receive, serverVars, linkVars
<1>4. outbox \in [Conn -> Seq(Replies)]
  BY DEF BaseInv, TypeOK
<1>5. \A j \in Conn : \/ outbox'[j] = outbox[j]
                      \/ outbox[j] # <<>> /\ outbox'[j] = Tail(outbox[j])
  <2>1. \A j \in Conn : j # k => outbox'[j] = outbox[j]
    BY <1>3, <1>4
  <2>2. k \in Conn => outbox'[k] = Tail(outbox[k]) /\ outbox[k] # <<>>
    BY <1>3, <1>4
  <2>3. QED BY <2>1, <2>2
<1>6. outbox' \in [Conn -> Seq(Replies)]
  <2>1. CASE k \in Conn
    <3>1. Tail(outbox[k]) \in Seq(Replies) BY <1>3, <1>4, <2>1, TailFacts
    <3>2. QED BY <1>3, <1>4, <2>1, <3>1
  <2>2. CASE k \notin Conn
    BY <1>3, <1>4, <2>2
  <2>3. QED BY <2>1, <2>2
<1>7. /\ held' \in [Clients -> BOOLEAN]
      /\ pending' \in [Clients -> 0..MaxRequests] /\ \A d \in Clients : pending'[d] \in {0, pending[d]}
      /\ dialog' \in [Clients -> {"closed", "waiting", "editing", "saving"}]
      /\ base' \in [Clients -> 0..MaxRevision] /\ cut' = cut
  <2>1. CASE reply.id # pending[c]
    <3>1. UNCHANGED <<pending, held, dialog, base, cut>>
      BY <1>1, <1>2, <2>1 DEF Receive, dialogVars
    <3>2. QED BY <3>1 DEF BaseInv, TypeOK
  <2>2. CASE reply.id = pending[c]
    <3>1. pending' = [pending EXCEPT ![c] = 0] /\ cut' = cut /\ 0 \in 0..MaxRequests
      BY <1>1, <1>2, <2>2, BoundsAssumption DEF Receive
    <3>2. pending' \in [Clients -> 0..MaxRequests] /\ \A d \in Clients : pending'[d] \in {0, pending[d]}
      BY <3>1 DEF BaseInv, TypeOK
    <3>3. k \in Conn /\ reply \in Replies
      <4>1. k \in Conn
        BY <1>1, <1>3, <3>1, LinkedConn
      <4>2. QED BY <1>2, <1>3, <1>4, <4>1, TailFacts
    <3>4. CASE ~reply.ok /\ TellFailure(c, held[c]) /\ UNCHANGED <<held, base>>
      <4>1. held[c] \in BOOLEAN BY DEF BaseInv, TypeOK
      <4>2. QED BY <3>1, <3>2, <3>4, <4>1, TellFailureTypes DEF BaseInv, TypeOK
    <3>5. CASE /\ held' = [held EXCEPT ![c] = TRUE]
               /\ \/ UNCHANGED <<dialog, base>>
                  \/ /\ dialog' = [dialog EXCEPT ![c] = "editing"]
                     /\ base' = [base EXCEPT ![c] = reply.revision]
      <4>1. reply.revision \in 0..MaxRevision BY <3>3 DEF Replies
      <4>2. QED BY <3>1, <3>2, <3>5, <4>1 DEF BaseInv, TypeOK
    <3>6. CASE /\ held' = [held EXCEPT ![c] = FALSE]
               /\ dialog' = [dialog EXCEPT ![c] = "closed"] /\ UNCHANGED base
      BY <3>1, <3>2, <3>6 DEF BaseInv, TypeOK
    <3>7. QED BY <1>1, <1>2, <2>2, <3>4, <3>5, <3>6 DEF Receive, dialogVars
  <2>3. QED BY <2>1, <2>2
<1>8. TypeOK'
  BY <1>3, <1>6, <1>7 DEF BaseInv, TypeOK
<1>9. \A d \in Clients : lastId'[d] >= lastId[d] /\ pending'[d] <= lastId'[d]
  <2>1. \A d \in Clients : lastId[d] \in Nat /\ pending[d] <= lastId[d]
    BY NumberFacts
  <2>2. \A d \in Clients : pending'[d] = 0 \/ pending'[d] = pending[d]
    BY <1>7
  <2>3. QED BY <1>3, <2>1, <2>2
<1>10. /\ \A j \in Conn : NewRequests(inbox[j], inbox'[j], lastId'[j[1]])
       /\ \A j \in Conn : NewReplies(outbox[j], outbox'[j], lastId'[j[1]])
  BY <1>3, <1>5 DEF NewRequests, NewReplies
<1>11. LinkedInv'
  BY <1>3 DEF BaseInv, LinkedInv
<1>12. QED BY <1>8, <1>9, <1>10, <1>11, NumberStep

\* The first request of a connection is served, with or without a reply.
LEMMA BaseServe ==
  ASSUME BaseInv, NEW k \in Conn, NEW kind, Handling(k, kind),
         editor' \in {editor, k, Nobody}, revision' \in 1..MaxRevision,
         outbox' \in [Conn -> Seq(Replies)],
         \A j \in Conn : NewReplies(outbox[j], outbox'[j], lastId[j[1]])
  PROVE  BaseInv'
<1>1. /\ inbox[k] # <<>> /\ inbox' = [inbox EXCEPT ![k] = Tail(inbox[k])]
      /\ UNCHANGED <<open, session, linked, lastId, pending, held, dialog, base, cut>>
  BY DEF Handling, linkVars, requestVars, dialogVars
<1>2. inbox \in [Conn -> Seq(Requests)]
  BY DEF BaseInv, TypeOK
<1>3. Tail(inbox[k]) \in Seq(Requests)
  BY <1>1, <1>2, TailFacts
<1>4. TypeOK'
  BY <1>1, <1>2, <1>3 DEF BaseInv, TypeOK
<1>5. \A d \in Clients : lastId'[d] >= lastId[d] /\ pending'[d] <= lastId'[d]
  BY <1>1, NumberFacts
<1>6. \A j \in Conn : NewRequests(inbox[j], inbox'[j], lastId'[j[1]])
  <2>1. TAKE j \in Conn
  <2>2. CASE j = k BY <1>1, <1>2, <2>2 DEF NewRequests
  <2>3. CASE j # k BY <1>1, <1>2, <2>3 DEF NewRequests
  <2>4. QED BY <2>2, <2>3
<1>7. \A j \in Conn : NewReplies(outbox[j], outbox'[j], lastId'[j[1]])
  BY <1>1
<1>8. LinkedInv'
  BY <1>1 DEF BaseInv, LinkedInv
<1>9. QED BY <1>4, <1>5, <1>6, <1>7, <1>8, NumberStep

\* The request that is answered has a number, and so has the answer.
LEMMA ServedNumber ==
  ASSUME BaseInv, NEW k \in Conn, NEW kind \in {"begin", "save"}, Handling(k, kind)
  PROVE  /\ Head(inbox[k]) \in Requests /\ Head(inbox[k]).id \in 1..MaxRequests
         /\ Head(inbox[k]).id <= lastId[k[1]]
<1>1. /\ inbox[k] \in Seq(Requests) /\ inbox[k] # <<>> /\ Head(inbox[k]).kind = kind
      /\ outbox[k] \in Seq(Replies) /\ Numbered(inbox[k], outbox[k], lastId[k[1]])
  BY DEF Handling, BaseInv, TypeOK, NumberInv
<1>2. /\ Head(inbox[k]) \in Requests /\ Head(inbox[k]).id <= lastId[k[1]]
      /\ Head(inbox[k]).id # 0
  BY <1>1, NumberedTail
<1>3. QED BY <1>2, MessageIds, BoundsAssumption

LEMMA BaseReply ==
  ASSUME BaseInv, NEW k \in Conn, NEW kind \in {"begin", "save"}, Handling(k, kind),
         NEW answer \in {"edit", "saved"}, NEW ok \in BOOLEAN, NEW rev \in 0..MaxRevision,
         Reply(k, answer, Head(inbox[k]).id, ok, rev),
         editor' \in {editor, k, Nobody}, revision' \in 1..MaxRevision
  PROVE  BaseInv'
<1>1. PICK id : id = Head(inbox[k]).id OBVIOUS
<1>2. PICK e : e = Result(answer, id, ok, rev) OBVIOUS
<1>3. id \in 1..MaxRequests /\ id <= lastId[k[1]] /\ TypeOK
  BY <1>1, ServedNumber DEF BaseInv
<1>4. /\ e \in Replies /\ e.id = id /\ outbox' \in [Conn -> Seq(Replies)]
      /\ \A j \in Conn : j # k => outbox'[j] = outbox[j]
      /\ outbox'[k] = outbox[k] \/ outbox'[k] = Append(outbox[k], e)
  BY <1>1, <1>2, <1>3, ReplyFacts DEF Result
<1>5. \A j \in Conn : NewReplies(outbox[j], outbox'[j], lastId[j[1]])
  BY <1>3, <1>4 DEF NewReplies
<1>6. QED BY <1>4, <1>5, BaseServe

LEMMA RevisionFacts ==
  ASSUME TypeOK
  PROVE  /\ 0 \in 0..MaxRevision /\ revision \in 1..MaxRevision /\ revision \in 0..MaxRevision
         /\ revision < MaxRevision => revision + 1 \in 1..MaxRevision /\ revision + 1 \in 0..MaxRevision
<1>1. revision \in 1..MaxRevision BY DEF TypeOK
<1>2. QED BY <1>1, BoundsAssumption

LEMMA BaseServer ==
  ASSUME BaseInv, NEW k \in Conn, Server(k)
  PROVE  BaseInv'
<1>1. TypeOK BY DEF BaseInv
<1>2. CASE HandleBegin(k)
  <2>1. PICK ok \in BOOLEAN, rev \in 0..MaxRevision : Reply(k, "edit", Head(inbox[k]).id, ok, rev)
    BY <1>1, <1>2, RevisionFacts DEF HandleBegin
  <2>2. /\ editor' \in {editor, k, Nobody} /\ revision' \in 1..MaxRevision
        /\ Handling(k, "begin")
    BY <1>1, <1>2, RevisionFacts DEF HandleBegin
  <2>3. QED BY <2>1, <2>2, BaseReply
<1>3. CASE HandleSave(k)
  <2>1. PICK ok \in BOOLEAN, rev \in 0..MaxRevision : Reply(k, "saved", Head(inbox[k]).id, ok, rev)
    BY <1>1, <1>3, RevisionFacts DEF HandleSave
  <2>2. /\ editor' \in {editor, k, Nobody} /\ revision' \in 1..MaxRevision
        /\ Handling(k, "save")
    BY <1>1, <1>3, RevisionFacts DEF HandleSave
  <2>3. QED BY <2>1, <2>2, BaseReply
<1>4. CASE HandleCancel(k)
  <2>1. /\ editor' \in {editor, k, Nobody} /\ revision' = revision /\ outbox' = outbox
        /\ Handling(k, "cancel")
    BY <1>4 DEF HandleCancel
  <2>2. \A j \in Conn : NewReplies(outbox[j], outbox'[j], lastId[j[1]])
    BY <2>1 DEF NewReplies
  <2>3. QED BY <1>1, <2>1, <2>2, BaseServe, RevisionFacts DEF TypeOK
<1>5. QED BY <1>2, <1>3, <1>4 DEF Server

LEMMA BaseUser ==
  ASSUME BaseInv, NEW c \in Clients, User(c)
  PROVE  BaseInv'
<1> DEFINE Dialogs == [Clients -> {"closed", "waiting", "editing", "saving"}]
<1>1. TypeOK /\ dialog \in Dialogs /\ base[c] \in 0..MaxRevision /\ held[c] \in BOOLEAN
  BY DEF BaseInv, TypeOK
<1>2. \A state \in {"closed", "waiting", "editing", "saving"} : [dialog EXCEPT ![c] = state] \in Dialogs
  BY <1>1
<1>3. ASSUME dialog' \in Dialogs, cut' \in [Clients -> BOOLEAN],
             UNCHANGED <<serverVars, inbox, outbox, linkVars, lastId, pending, held, base>>
      PROVE  BaseInv'
  BY <1>3 DEF BaseInv, TypeOK, NumberInv, LinkedInv, serverVars, linkVars
<1>4. CASE OpenDialog(c)
  <2>1. dialog' \in Dialogs /\ cut' \in [Clients -> BOOLEAN]
    BY <1>1, <1>2, <1>4 DEF OpenDialog, TypeOK
  <2>2. CASE pending[c] # 0 \/ held[c] \/ ~linked[c]
    BY <1>3, <1>4, <2>1, <2>2 DEF OpenDialog
  <2>3. CASE ~(pending[c] # 0 \/ held[c] \/ ~linked[c])
    BY <1>1, <1>4, <2>1, <2>3, RevisionFacts, BaseAsk DEF OpenDialog
  <2>4. QED BY <2>2, <2>3
<1>5. CASE CloseDialog(c)
  <2>1. dialog' \in Dialogs /\ cut' \in [Clients -> BOOLEAN]
    BY <1>1, <1>2, <1>5 DEF CloseDialog, TypeOK
  <2>2. CASE dialog[c] \in {"editing", "saving"}
    BY <1>5, <2>1, <2>2, BaseGiveUp DEF CloseDialog
  <2>3. CASE dialog[c] \notin {"editing", "saving"}
    BY <1>3, <1>5, <2>1, <2>3 DEF CloseDialog
  <2>4. QED BY <2>2, <2>3
<1>6. CASE SaveDialog(c)
  <2>0. cut' \in [Clients -> BOOLEAN]
    BY <1>1, <1>6 DEF SaveDialog, TypeOK
  <2>1. CASE pending[c] # 0
    BY <1>2, <1>3, <1>6, <2>0, <2>1 DEF SaveDialog
  <2>2. CASE pending[c] = 0 /\ held[c] /\ linked[c]
    <3>1. dialog' \in Dialogs
      BY <1>2, <1>6, <2>2 DEF SaveDialog
    <3>2. QED BY <1>1, <1>6, <2>2, <3>1, BaseAsk DEF SaveDialog
  <2>3. CASE pending[c] = 0 /\ ~(held[c] /\ linked[c])
    BY <1>1, <1>3, <1>6, <2>0, <2>3, TellFailureTypes DEF SaveDialog
  <2>4. QED BY <2>1, <2>2, <2>3
<1>7. QED BY <1>4, <1>5, <1>6 DEF User

LEMMA BaseWatchdog ==
  ASSUME BaseInv, NEW c \in Clients, Watchdog(c)
  PROVE  BaseInv'
<1>1. dialog' \in [Clients -> {"closed", "waiting", "editing", "saving"}]
  BY TellFailureTypes DEF BaseInv, Watchdog
<1>2. cut' \in [Clients -> BOOLEAN]
  BY DEF BaseInv, TypeOK, Watchdog
<1>3. QED BY <1>1, <1>2, BaseGiveUp DEF Watchdog

LEMMA BaseInit == Init => BaseInv
<1> SUFFICES ASSUME Init PROVE BaseInv
  OBVIOUS
<1>1. 0 \in 0..MaxRequests /\ 0 \in 0..MaxRevision /\ 0 \in 0..MaxSessions /\ 1 \in 1..MaxRevision
  BY BoundsAssumption
<1>2. TypeOK
  BY <1>1 DEF Init, TypeOK
<1>3. NumberInv
  BY ConnFacts, <1>2 DEF Init, NumberInv, Numbered
<1>4. LinkedInv
  BY DEF Init, LinkedInv
<1>5. QED BY <1>2, <1>3, <1>4 DEF BaseInv

LEMMA BaseNext == BaseInv /\ [Next]_vars => BaseInv'
<1> SUFFICES ASSUME BaseInv, [Next]_vars PROVE BaseInv'
  OBVIOUS
<1>1. CASE UNCHANGED vars BY <1>1, BaseUnchanged
<1>2. ASSUME NEW c \in Clients, User(c) \/ Controller(c) \/ Connect(c) \/ Disconnect(c) \/ Stop(c)
      PROVE  BaseInv'
  BY <1>2, BaseUser, BaseReceive, BaseWatchdog, BaseConnect, BaseDisconnect DEF Controller
<1>3. ASSUME NEW k \in Conn, Server(k) \/ CloseClient(k) PROVE BaseInv'
  BY <1>3, BaseServer, BaseCloseClient
<1>4. QED BY <1>1, <1>2, <1>3 DEF Next

\* What the lock is made of has its type, and no message has a number that was not given.
THEOREM EditTypesCorrect == Spec => []TypeOK
<1>1. BaseInv => TypeOK BY DEF BaseInv
<1>2. QED BY <1>1, BaseInit, BaseNext, PTL DEF Spec

-----------------------------------------------------------------------------
(* The inductive invariant *)

\* Only open connections own the lock or have requests, only linked clients ask or hold.
LinkInv ==
    /\ editor \in open \cup {Nobody}
    /\ \A k \in open : k[2] <= session[k[1]]
    /\ \A k \in Conn : k \notin open => inbox[k] = <<>>
    /\ \A k \in Conn : k[2] > session[k[1]] => outbox[k] = <<>>
    /\ \A c \in Clients : ~linked[c] => ~held[c] /\ pending[c] = 0

AgreedOf(c) ==
    linked[c] /\ ConnOf(c) \in open =>
        Agreed(inbox[ConnOf(c)], outbox[ConnOf(c)], pending[c], held[c], editor = ConnOf(c))

AgreeInv == \A c \in Clients : AgreedOf(c)

LockInv == BaseInv /\ LinkInv /\ AgreeInv

\* What the user and the watchdog make a controller do: nothing, ask, or give up.
Idle == UNCHANGED <<inbox, lastId, pending, held>>

Ask(c) ==
    /\ linked[c] /\ pending[c] = 0 /\ lastId[c] < MaxRequests
    /\ lastId' = [lastId EXCEPT ![c] = @ + 1]
    /\ pending' = [pending EXCEPT ![c] = lastId[c] + 1]
    /\ \E rev \in 0..MaxRevision :
          Send(c, IF held[c] THEN "save" ELSE "begin", lastId[c] + 1, rev)
    /\ UNCHANGED held

ClientStep(c) ==
    /\ Idle \/ Ask(c) \/ (CancelAutomationEdit(c) /\ UNCHANGED lastId)
    /\ UNCHANGED <<serverVars, outbox, linkVars>>

LEMMA ClientSteps ==
  ASSUME BaseInv, NEW c \in Clients, User(c) \/ Watchdog(c)
  PROVE  ClientStep(c)
<1>1. 0 \in 0..MaxRevision /\ base[c] \in 0..MaxRevision /\ held[c] \in BOOLEAN
  BY BoundsAssumption DEF BaseInv, TypeOK
<1>2. CASE OpenDialog(c)
  BY <1>1, <1>2 DEF OpenDialog, ClientStep, Idle, Ask
<1>3. CASE CloseDialog(c)
  BY <1>3 DEF CloseDialog, ClientStep, Idle
<1>4. CASE SaveDialog(c)
  BY <1>1, <1>4 DEF SaveDialog, ClientStep, Idle, Ask
<1>5. CASE Watchdog(c)
  BY <1>5 DEF Watchdog, ClientStep
<1>6. QED BY <1>2, <1>3, <1>4, <1>5 DEF User

\* Such a step changes nothing of the other clients.
LEMMA ClientStepFacts ==
  ASSUME BaseInv, NEW c \in Clients, ClientStep(c)
  PROVE  /\ UNCHANGED <<editor, revision, open, outbox, session, linked>>
         /\ \A k \in Conn : k # ConnOf(c) \/ k \notin open => inbox'[k] = inbox[k]
         /\ \A d \in Clients : d # c => pending'[d] = pending[d] /\ held'[d] = held[d]
         /\ ~linked[c] => pending'[c] \in {0, pending[c]} /\ held'[c] \in {FALSE, held[c]}
<1>1. UNCHANGED <<editor, revision, open, outbox, session, linked>>
  BY DEF ClientStep, serverVars, linkVars
<1>2. CASE Idle
  BY <1>1, <1>2 DEF Idle
<1>3. CASE Ask(c)
  <2>1. PICK rev \in 0..MaxRevision :
            Send(c, IF held[c] THEN "save" ELSE "begin", lastId[c] + 1, rev)
    BY <1>3 DEF Ask
  <2>2. lastId[c] + 1 \in 0..MaxRequests /\ (IF held[c] THEN "save" ELSE "begin") \in {"begin", "save", "cancel"}
    BY <1>3, NumberFacts, BoundsAssumption DEF Ask
  <2>3. \A k \in Conn : k # ConnOf(c) \/ k \notin open => inbox'[k] = inbox[k]
    BY <2>1, <2>2, SendFacts DEF BaseInv
  <2>4. QED BY <1>1, <1>3, <2>3 DEF Ask, BaseInv, TypeOK
<1>4. CASE CancelAutomationEdit(c)
  <2>1. 0 \in 0..MaxRequests /\ 0 \in 0..MaxRevision
    BY BoundsAssumption
  <2>2. \A k \in Conn : k # ConnOf(c) \/ k \notin open => inbox'[k] = inbox[k]
    BY <1>4, <2>1, SendFacts DEF BaseInv, CancelAutomationEdit
  <2>3. QED BY <1>1, <1>4, <2>2 DEF CancelAutomationEdit, BaseInv, TypeOK
<1>5. QED BY <1>2, <1>3, <1>4 DEF ClientStep

-----------------------------------------------------------------------------
(* Each step keeps the links *)

LEMMA LinkClient ==
  ASSUME BaseInv, LinkInv, NEW c \in Clients, ClientStep(c)
  PROVE  LinkInv'
<1>1. /\ UNCHANGED <<editor, open, outbox, session, linked>>
      /\ \A k \in Conn : k \notin open => inbox'[k] = inbox[k]
  BY ClientStepFacts
<1>2. \A d \in Clients : ~linked[d] => held'[d] \in {FALSE, held[d]} /\ pending'[d] \in {0, pending[d]}
  BY ClientStepFacts
<1>3. QED BY <1>1, <1>2 DEF LinkInv

LEMMA LinkReceive ==
  ASSUME BaseInv, LinkInv, NEW c \in Clients, Receive(c)
  PROVE  LinkInv'
<1>1. PICK k : k = ConnOf(c) OBVIOUS
<1>2. /\ linked[c] /\ outbox[k] # <<>> /\ outbox' = [outbox EXCEPT ![k] = Tail(outbox[k])]
      /\ UNCHANGED <<editor, open, inbox, session, linked>>
      /\ \A d \in Clients : d # c => pending'[d] = pending[d] /\ held'[d] = held[d]
  BY <1>1 DEF Receive, serverVars, linkVars, BaseInv, TypeOK
<1>3. \A j \in Conn : j # k => outbox'[j] = outbox[j]
  BY <1>2 DEF BaseInv, TypeOK
<1>4. ~(k[2] > session[k[1]])
  BY <1>1, ConnFacts DEF BaseInv
<1>5. \A j \in Conn : j[2] > session[j[1]] => outbox'[j] = <<>>
  BY <1>3, <1>4 DEF LinkInv
<1>6. QED BY <1>2, <1>5 DEF LinkInv

LEMMA LinkConnect ==
  ASSUME BaseInv, LinkInv, NEW c \in Clients, Connect(c)
  PROVE  LinkInv'
<1>1. PICK n : n = session[c] OBVIOUS
<1>2. PICK k : k = <<c, n + 1>> OBVIOUS
<1>3. /\ n \in Nat /\ session' = [session EXCEPT ![c] = n + 1] /\ open' = open \cup {k}
      /\ linked' = [linked EXCEPT ![c] = TRUE]
      /\ UNCHANGED <<editor, inbox, outbox, pending, held>>
  BY <1>1, <1>2, ConnFacts DEF BaseInv, Connect, requestVars
<1>4. \A d \in Clients : session'[d] = IF d = c THEN n + 1 ELSE session[d]
  BY <1>3 DEF BaseInv, TypeOK
<1>5. \A d \in Clients : session[d] \in Nat /\ session'[d] \in Nat /\ session'[d] >= session[d]
  BY <1>1, <1>3, <1>4, ConnFacts DEF BaseInv
<1>6. \A j \in open' : j[2] <= session'[j[1]]
  <2>1. \A j \in open : j \in Conn /\ j[1] \in Clients /\ j[2] \in Nat /\ j[2] <= session[j[1]]
    BY ConnFacts DEF BaseInv, LinkInv, TypeOK
  <2>2. k[2] <= session'[k[1]]
    BY <1>2, <1>3, <1>4
  <2>3. \A j \in open : j[2] <= session'[j[1]]
    BY <1>5, <2>1
  <2>4. QED BY <1>3, <2>2, <2>3
<1>7. \A j \in Conn : j[2] > session'[j[1]] => outbox'[j] = <<>>
  <2>1. \A j \in Conn : j[1] \in Clients /\ j[2] \in Nat
    BY ConnFacts DEF BaseInv
  <2>2. \A j \in Conn : j[2] > session'[j[1]] => j[2] > session[j[1]]
    BY <1>5, <2>1
  <2>3. QED BY <1>3, <2>2 DEF LinkInv
<1>8. \A d \in Clients : ~linked'[d] => ~linked[d]
  BY <1>3 DEF BaseInv, TypeOK
<1>9. editor' \in open' \cup {Nobody} /\ \A j \in Conn : j \notin open' => inbox'[j] = <<>>
  BY <1>3 DEF LinkInv
<1>10. \A d \in Clients : ~linked'[d] => ~held'[d] /\ pending'[d] = 0
  BY <1>3, <1>8 DEF LinkInv
<1>11. QED BY <1>6, <1>7, <1>9, <1>10 DEF LinkInv

LEMMA LinkUnlink ==
  ASSUME BaseInv, LinkInv, NEW c \in Clients, Unlink(c)
  PROVE  LinkInv'
<1>1. /\ UNCHANGED <<editor, open, inbox, session>>
      /\ linked' = [linked EXCEPT ![c] = FALSE] /\ outbox' = [outbox EXCEPT ![ConnOf(c)] = <<>>]
  BY DEF Unlink, serverVars
<1>2. \A j \in Conn : outbox'[j] \in {<<>>, outbox[j]}
  <2>1. PICK k : k = ConnOf(c) OBVIOUS
  <2>2. QED BY <1>1, <2>1 DEF BaseInv, TypeOK
<1>3. ~held'[c] /\ pending'[c] = 0 /\ \A d \in Clients : d # c => held'[d] = held[d] /\ pending'[d] = pending[d]
  BY DEF Unlink, BaseInv, TypeOK
<1>4. \A d \in Clients : d # c => linked'[d] = linked[d]
  BY <1>1 DEF BaseInv, TypeOK
<1>5. \A d \in Clients : ~linked'[d] => ~held'[d] /\ pending'[d] = 0
  BY <1>3, <1>4 DEF LinkInv
<1>6. QED BY <1>1, <1>2, <1>5 DEF LinkInv

LEMMA LinkCloseClient ==
  ASSUME BaseInv, LinkInv, NEW k \in Conn, CloseClient(k)
  PROVE  LinkInv'
<1>1. /\ UNCHANGED <<outbox, session, linked, pending, held>>
      /\ open' = open \ {k} /\ editor' = IF editor = k THEN Nobody ELSE editor
      /\ inbox' = [inbox EXCEPT ![k] = <<>>]
  BY DEF CloseClient, linkVars, requestVars
<1>2. \A j \in Conn : inbox'[j] = IF j = k THEN <<>> ELSE inbox[j]
  BY <1>1 DEF BaseInv, TypeOK
<1>3. QED BY <1>1, <1>2 DEF LinkInv

\* What a request that is served changes.
LEMMA ServerStepFacts ==
  ASSUME BaseInv, NEW k \in Conn, Server(k)
  PROVE  /\ k \in open /\ inbox[k] # <<>> /\ inbox'[k] = Tail(inbox[k])
         /\ UNCHANGED <<open, session, linked, lastId, pending, held, dialog, base, cut>>
         /\ \A j \in Conn : j # k => inbox'[j] = inbox[j] /\ outbox'[j] = outbox[j]
         /\ ~(linked[k[1]] /\ session[k[1]] = k[2]) => outbox' = outbox
         /\ editor' = editor \/ (editor' = k /\ editor = Nobody) \/ (editor' = Nobody /\ editor = k)
<1>1. PICK kind : Handling(k, kind)
  BY DEF Server, HandleBegin, HandleSave, HandleCancel
<1>2. /\ k \in open /\ inbox[k] # <<>> /\ inbox' = [inbox EXCEPT ![k] = Tail(inbox[k])]
      /\ UNCHANGED <<open, session, linked, lastId, pending, held, dialog, base, cut>>
  BY <1>1 DEF Handling, linkVars, requestVars, dialogVars
<1>3. inbox'[k] = Tail(inbox[k]) /\ \A j \in Conn : j # k => inbox'[j] = inbox[j]
  BY <1>2 DEF BaseInv, TypeOK
<1>4. editor' = editor \/ (editor' = k /\ editor = Nobody) \/ (editor' = Nobody /\ editor = k)
  BY DEF Server, HandleBegin, HandleSave, HandleCancel
<1>5. /\ \A j \in Conn : j # k => outbox'[j] = outbox[j]
      /\ ~(linked[k[1]] /\ session[k[1]] = k[2]) => outbox' = outbox
  <2>1. TypeOK BY DEF BaseInv
  <2>2. CASE HandleCancel(k) BY <2>2 DEF HandleCancel
  <2>3. CASE HandleBegin(k)
    <3>1. Head(inbox[k]).id \in 1..MaxRequests BY <2>3, ServedNumber DEF HandleBegin
    <3>2. PICK ok \in BOOLEAN, rev \in 0..MaxRevision : Reply(k, "edit", Head(inbox[k]).id, ok, rev)
      BY <2>1, <2>3, RevisionFacts DEF HandleBegin
    <3>3. QED BY <2>1, <3>1, <3>2, ReplyFacts
  <2>4. CASE HandleSave(k)
    <3>1. Head(inbox[k]).id \in 1..MaxRequests BY <2>4, ServedNumber DEF HandleSave
    <3>2. PICK ok \in BOOLEAN, rev \in 0..MaxRevision : Reply(k, "saved", Head(inbox[k]).id, ok, rev)
      BY <2>1, <2>4, RevisionFacts DEF HandleSave
    <3>3. QED BY <2>1, <3>1, <3>2, ReplyFacts
  <2>5. QED BY <2>2, <2>3, <2>4 DEF Server
<1>6. QED BY <1>2, <1>3, <1>4, <1>5

LEMMA LinkServer ==
  ASSUME BaseInv, LinkInv, NEW k \in Conn, Server(k)
  PROVE  LinkInv'
<1>1. /\ k \in open /\ UNCHANGED <<open, session, linked, pending, held>>
      /\ \A j \in Conn : j # k => inbox'[j] = inbox[j] /\ outbox'[j] = outbox[j]
      /\ ~(linked[k[1]] /\ session[k[1]] = k[2]) => outbox' = outbox
      /\ editor' \in {editor, k, Nobody}
  BY ServerStepFacts
<1>2. ASSUME k[2] > session[k[1]] PROVE outbox'[k] = outbox[k]
  <2>1. session[k[1]] # k[2]
    BY <1>2, ConnFacts DEF BaseInv
  <2>2. QED BY <1>1, <2>1
<1>3. QED BY <1>1, <1>2 DEF LinkInv

-----------------------------------------------------------------------------
(* Each step keeps the agreement *)

\* What concerns another client or another connection.
LEMMA AgreedFrame ==
  ASSUME NEW d \in Clients, AgreedOf(d), linked'[d] => linked[d], session'[d] = session[d],
         pending'[d] = pending[d], held'[d] = held[d],
         ConnOf(d) \in open' => ConnOf(d) \in open,
         ConnOf(d) \in open' /\ linked'[d] =>
            /\ inbox'[ConnOf(d)] = inbox[ConnOf(d)] /\ outbox'[ConnOf(d)] = outbox[ConnOf(d)]
            /\ editor' = ConnOf(d) <=> editor = ConnOf(d)
  PROVE  AgreedOf(d)'
<1>1. PICK k : k = ConnOf(d) OBVIOUS
<1>2. ConnOf(d)' = k
  BY <1>1 DEF ConnOf
<1>3. SUFFICES ASSUME linked'[d], k \in open'
               PROVE  Agreed(inbox'[k], outbox'[k], pending'[d], held'[d], editor' = k)
  BY <1>2 DEF AgreedOf
<1>4. Agreed(inbox[k], outbox[k], pending[d], held[d], editor = k)
  BY <1>1, <1>3 DEF AgreedOf
<1>5. (editor' = k) = (editor = k)
  BY <1>1, <1>3
<1>6. inbox'[k] = inbox[k] /\ outbox'[k] = outbox[k]
  BY <1>1, <1>3
<1>7. QED BY <1>4, <1>5, <1>6

LEMMA OtherConn ==
  \A c, d \in Clients : c # d => ConnOf(c) # ConnOf(d)
  BY DEF ConnOf

\* The values the agreement of a linked client is about.
LEMMA AgreedValues ==
  ASSUME BaseInv, NEW c \in Clients, linked[c]
  PROVE  /\ ConnOf(c) \in Conn
         /\ inbox[ConnOf(c)] \in Seq(Requests) /\ outbox[ConnOf(c)] \in Seq(Replies)
         /\ pending[c] \in Nat /\ lastId[c] \in Nat /\ held[c] \in BOOLEAN
         /\ Numbered(inbox[ConnOf(c)], outbox[ConnOf(c)], lastId[c])
<1>1. ConnOf(c) \in Conn /\ ConnOf(c)[1] = c
  BY LinkedConn, ConnFacts DEF BaseInv
<1>2. inbox[ConnOf(c)] \in Seq(Requests) /\ outbox[ConnOf(c)] \in Seq(Replies) /\ held[c] \in BOOLEAN
  BY <1>1 DEF BaseInv, TypeOK
<1>3. Numbered(inbox[ConnOf(c)], outbox[ConnOf(c)], lastId[ConnOf(c)[1]])
  BY <1>1 DEF BaseInv, NumberInv
<1>4. QED BY <1>1, <1>2, <1>3, NumberFacts

LEMMA AgreeAsk ==
  ASSUME LockInv, NEW c \in Clients, Ask(c), ClientStep(c), ConnOf(c) \in open
  PROVE  Agreed(inbox'[ConnOf(c)], outbox[ConnOf(c)], pending'[c], held[c], editor = ConnOf(c))
<1>1. PICK k : k = ConnOf(c) OBVIOUS
<1>2. PICK id : id = lastId[c] + 1 OBVIOUS
<1>3. PICK kind : kind = IF held[c] THEN "save" ELSE "begin" OBVIOUS
<1>4. PICK rev \in 0..MaxRevision : Send(c, kind, id, rev)
  BY <1>2, <1>3 DEF Ask
<1>5. BaseInv /\ TypeOK /\ linked[c] /\ pending[c] = 0
  BY DEF LockInv, BaseInv, Ask
<1>6. id \in 0..MaxRequests /\ kind \in {"begin", "save", "cancel"} /\ id # 0 /\ id > lastId[c]
  BY <1>2, <1>3, <1>5, NumberFacts, BoundsAssumption DEF Ask
<1>7. PICK new : new = Message(kind, id, rev) OBVIOUS
<1>8. new \in Requests /\ inbox'[k] = Append(inbox[k], new) /\ new.id = id /\ new.kind = kind
  BY <1>1, <1>4, <1>5, <1>6, <1>7, SendFacts DEF Message
<1>9. /\ inbox[k] \in Seq(Requests) /\ outbox[k] \in Seq(Replies) /\ held[c] \in BOOLEAN
      /\ lastId[c] \in Nat /\ Numbered(inbox[k], outbox[k], lastId[c])
  BY <1>1, <1>5, AgreedValues
<1>10. PICK mine \in BOOLEAN : mine = (editor = k)
  OBVIOUS
<1>11. Agreed(inbox[k], outbox[k], 0, held[c], mine)
  BY <1>1, <1>5, <1>10 DEF LockInv, AgreeInv, AgreedOf
<1>12. Agreed(Append(inbox[k], new), outbox[k], new.id, held[c], mine)
  BY <1>3, <1>6, <1>8, <1>9, <1>11, AskAgreed
<1>13. pending'[c] = id
  BY <1>2 DEF Ask, LockInv, BaseInv, TypeOK
<1>14. QED BY <1>1, <1>8, <1>10, <1>12, <1>13

LEMMA AgreeClient ==
  ASSUME LockInv, NEW c \in Clients, ClientStep(c)
  PROVE  AgreeInv'
<1>1. /\ UNCHANGED <<editor, revision, open, outbox, session, linked>>
      /\ \A k \in Conn : k # ConnOf(c) => inbox'[k] = inbox[k]
      /\ \A d \in Clients : d # c => pending'[d] = pending[d] /\ held'[d] = held[d]
  BY ClientStepFacts DEF LockInv
<1>2. BaseInv /\ \A d \in Clients : AgreedOf(d)
  BY DEF LockInv, AgreeInv
<1>3. ASSUME NEW d \in Clients, d # c PROVE AgreedOf(d)'
  <2>1. linked[d] => inbox'[ConnOf(d)] = inbox[ConnOf(d)]
    BY <1>1, <1>2, <1>3, OtherConn, LinkedConn
  <2>2. QED BY <1>1, <1>2, <1>3, <2>1, AgreedFrame
<1>4. AgreedOf(c)'
  <2>1. PICK k : k = ConnOf(c) OBVIOUS
  <2>2. ConnOf(c)' = k BY <1>1, <2>1 DEF ConnOf
  <2>3. SUFFICES ASSUME linked[c], k \in open
                 PROVE  Agreed(inbox'[k], outbox[k], pending'[c], held'[c], editor = k)
    BY <1>1, <2>2 DEF AgreedOf
  <2>4. CASE Idle
    BY <1>2, <2>1, <2>3, <2>4 DEF AgreedOf, Idle
  <2>5. CASE Ask(c)
    BY <2>1, <2>3, <2>5, AgreeAsk DEF Ask
  <2>6. CASE CancelAutomationEdit(c)
    <3>1. 0 \in 0..MaxRequests /\ 0 \in 0..MaxRevision /\ TypeOK
      BY <1>2, BoundsAssumption DEF BaseInv
    <3>2. PICK new : new = Message("cancel", 0, 0) OBVIOUS
    <3>3. new \in Requests /\ inbox'[k] = Append(inbox[k], new) /\ new.kind = "cancel"
      BY <2>1, <2>3, <2>6, <3>1, <3>2, SendFacts DEF CancelAutomationEdit, Message
    <3>4. pending'[c] = 0 /\ held'[c] = FALSE
      BY <2>6, <3>1 DEF CancelAutomationEdit, TypeOK
    <3>5. inbox[k] \in Seq(Requests) /\ outbox[k] \in Seq(Replies)
      BY <1>2, <2>1, <2>3, AgreedValues
    <3>6. QED BY <3>3, <3>4, <3>5, CancelAgreed
  <2>7. QED BY <2>4, <2>5, <2>6 DEF ClientStep
<1>5. QED BY <1>3, <1>4 DEF AgreeInv

LEMMA AgreeReceive ==
  ASSUME LockInv, NEW c \in Clients, Receive(c)
  PROVE  AgreeInv'
<1>1. PICK k : k = ConnOf(c) OBVIOUS
<1>2. PICK reply : reply = Head(outbox[k]) OBVIOUS
<1>3. BaseInv /\ TypeOK /\ \A d \in Clients : AgreedOf(d)
  BY DEF LockInv, AgreeInv, BaseInv
<1>4. /\ linked[c] /\ outbox[k] # <<>> /\ outbox' = [outbox EXCEPT ![k] = Tail(outbox[k])]
      /\ UNCHANGED <<editor, open, inbox, session, linked>>
      /\ \A d \in Clients : d # c => pending'[d] = pending[d] /\ held'[d] = held[d]
  BY <1>1, <1>3 DEF Receive, serverVars, linkVars, TypeOK
<1>5. k \in Conn /\ \A j \in Conn : j # k => outbox'[j] = outbox[j]
  BY <1>1, <1>3, <1>4, LinkedConn DEF TypeOK
<1>6. outbox'[k] = Tail(outbox[k])
  BY <1>3, <1>4, <1>5 DEF TypeOK
<1>7. ASSUME NEW d \in Clients, d # c PROVE AgreedOf(d)'
  <2>1. linked[d] => outbox'[ConnOf(d)] = outbox[ConnOf(d)]
    BY <1>1, <1>3, <1>5, <1>7, OtherConn, LinkedConn
  <2>2. QED BY <1>3, <1>4, <1>7, <2>1, AgreedFrame
<1>8. AgreedOf(c)'
  <2>1. ConnOf(c)' = k BY <1>1, <1>4 DEF ConnOf
  <2>2. SUFFICES ASSUME k \in open
                 PROVE  Agreed(inbox[k], Tail(outbox[k]), pending'[c], held'[c], editor = k)
    BY <1>4, <1>6, <2>1 DEF AgreedOf
  <2>3. PICK mine \in BOOLEAN : mine = (editor = k)
    OBVIOUS
  <2>4. /\ inbox[k] \in Seq(Requests) /\ outbox[k] \in Seq(Replies)
        /\ held[c] \in BOOLEAN /\ pending[c] \in Nat
    BY <1>1, <1>3, <1>4, AgreedValues
  <2>5. Agreed(inbox[k], outbox[k], pending[c], held[c], mine)
    BY <1>1, <1>3, <1>4, <2>2, <2>3 DEF AgreedOf
  <2>6. reply \in Replies
    BY <1>2, <1>4, <2>4, TailFacts
  <2>7. CASE reply.id # pending[c]
    <3>1. UNCHANGED <<pending, held>>
      BY <1>1, <1>2, <2>7 DEF Receive
    <3>2. Agreed(inbox[k], Tail(outbox[k]), pending[c], held[c], mine)
      BY <1>2, <1>4, <2>4, <2>5, <2>7, ReceiveOther
    <3>3. QED BY <2>3, <3>1, <3>2
  <2>8. CASE reply.id = pending[c]
    <3>1. pending[c] # 0 /\ reply.ok \in BOOLEAN
      BY <2>6, <2>8, MessageIds
    <3>2. /\ reply.ok <=> (mine <=> ~held[c])
          /\ reply.kind = IF held[c] THEN "saved" ELSE "edit"
          /\ Agreed(inbox[k], Tail(outbox[k]), 0, mine, mine)
      BY <1>2, <1>4, <2>4, <2>5, <2>8, <3>1, ReceiveMine
    <3>3. pending'[c] = 0
      BY <1>1, <1>2, <1>3, <2>8 DEF Receive, TypeOK
    <3>4. held'[c] = mine
      <4>1. \/ ~reply.ok /\ held' = held
            \/ reply.ok /\ reply.kind = "edit" /\ held' = [held EXCEPT ![c] = TRUE]
            \/ reply.ok /\ reply.kind = "saved" /\ held' = [held EXCEPT ![c] = FALSE]
        BY <1>1, <1>2, <2>8 DEF Receive
      <4>2. \/ ~reply.ok /\ held'[c] = held[c]
            \/ reply.ok /\ ~held[c] /\ held'[c] = TRUE
            \/ reply.ok /\ held[c] /\ held'[c] = FALSE
        BY <1>3, <3>2, <4>1 DEF TypeOK
      <4>3. QED BY <2>4, <3>2, <4>2
    <3>5. QED BY <2>3, <3>2, <3>3, <3>4
  <2>9. QED BY <2>7, <2>8
<1>9. QED BY <1>7, <1>8 DEF AgreeInv

LEMMA AgreeConnect ==
  ASSUME LockInv, NEW c \in Clients, Connect(c)
  PROVE  AgreeInv'
<1>1. PICK k : k = <<c, session[c] + 1>> OBVIOUS
<1>2. BaseInv /\ TypeOK /\ LinkInv /\ \A d \in Clients : AgreedOf(d)
  BY DEF LockInv, AgreeInv, BaseInv
<1>3. /\ ~linked[c] /\ session[c] < MaxSessions
      /\ session' = [session EXCEPT ![c] = session[c] + 1] /\ open' = open \cup {k}
      /\ linked' = [linked EXCEPT ![c] = TRUE]
      /\ UNCHANGED <<editor, inbox, outbox, pending, held>>
  BY <1>1 DEF Connect, requestVars
<1>4. session[c] \in Nat /\ k \in Conn /\ k[1] = c /\ k[2] > session[c]
  <2>1. session[c] \in 0..MaxSessions BY <1>2 DEF TypeOK
  <2>2. session[c] \in Nat /\ session[c] + 1 \in 1..MaxSessions BY <1>3, <2>1, BoundsAssumption
  <2>3. QED BY <1>1, <2>2 DEF Conn
<1>5. k \notin open /\ k # Nobody
  <2>1. k[2] = session[c] + 1 BY <1>1
  <2>2. ~(k[2] <= session[k[1]]) BY <1>4, <2>1
  <2>3. QED BY <1>2, <1>4, <2>2, NobodyAssumption DEF LinkInv
<1>6. ASSUME NEW d \in Clients, d # c PROVE AgreedOf(d)'
  <2>1. session'[d] = session[d] /\ linked'[d] = linked[d] /\ ConnOf(d) # k
    BY <1>1, <1>2, <1>3, <1>6 DEF TypeOK, ConnOf
  <2>2. ConnOf(d) \in open' => ConnOf(d) \in open
    BY <1>3, <2>1
  <2>3. QED BY <1>2, <1>3, <1>6, <2>1, <2>2, AgreedFrame
<1>7. AgreedOf(c)'
  <2>1. ConnOf(c)' = k
    BY <1>1, <1>2, <1>3 DEF ConnOf, TypeOK
  <2>2. inbox[k] = <<>> /\ outbox[k] = <<>> /\ editor # k /\ ~held[c] /\ pending[c] = 0
    BY <1>2, <1>3, <1>4, <1>5 DEF LinkInv
  <2>3. held[c] = FALSE /\ (editor = k) = FALSE
    BY <1>2, <2>2 DEF TypeOK
  <2>4. Agreed(<<>>, <<>>, 0, FALSE, FALSE)
    BY DEF Agreed, GivenUp, Known
  <2>5. QED BY <1>3, <2>1, <2>2, <2>3, <2>4 DEF AgreedOf
<1>8. QED BY <1>6, <1>7 DEF AgreeInv

LEMMA AgreeUnlink ==
  ASSUME LockInv, NEW c \in Clients, Unlink(c)
  PROVE  AgreeInv'
<1>1. BaseInv /\ TypeOK /\ \A d \in Clients : AgreedOf(d)
  BY DEF LockInv, AgreeInv, BaseInv
<1>2. /\ linked[c] /\ UNCHANGED <<editor, open, inbox, session>>
      /\ linked' = [linked EXCEPT ![c] = FALSE] /\ outbox' = [outbox EXCEPT ![ConnOf(c)] = <<>>]
  BY DEF Unlink, serverVars
<1>3. ASSUME NEW d \in Clients, d # c PROVE AgreedOf(d)'
  <2>1. held'[d] = held[d] /\ pending'[d] = pending[d]
    BY <1>1, <1>3 DEF Unlink, TypeOK
  <2>2. linked'[d] = linked[d]
    BY <1>1, <1>2, <1>3 DEF TypeOK
  <2>3. linked[d] => outbox'[ConnOf(d)] = outbox[ConnOf(d)]
    BY <1>1, <1>2, <1>3, OtherConn, LinkedConn DEF TypeOK
  <2>4. QED BY <1>1, <1>2, <1>3, <2>1, <2>2, <2>3, AgreedFrame
<1>4. AgreedOf(c)'
  BY <1>1, <1>2 DEF AgreedOf, TypeOK
<1>5. QED BY <1>3, <1>4 DEF AgreeInv

LEMMA AgreeCloseClient ==
  ASSUME LockInv, NEW k \in Conn, CloseClient(k)
  PROVE  AgreeInv'
<1>1. BaseInv /\ TypeOK /\ \A d \in Clients : AgreedOf(d)
  BY DEF LockInv, AgreeInv, BaseInv
<1>2. /\ UNCHANGED <<outbox, session, linked, pending, held>>
      /\ open' = open \ {k} /\ editor' = (IF editor = k THEN Nobody ELSE editor)
      /\ inbox' = [inbox EXCEPT ![k] = <<>>]
  BY DEF CloseClient, linkVars, requestVars
<1>3. ASSUME NEW d \in Clients PROVE AgreedOf(d)'
  <2>1. SUFFICES ASSUME ConnOf(d) \in open', linked[d] PROVE AgreedOf(d)'
    BY <1>2 DEF AgreedOf, ConnOf
  <2>2. ConnOf(d) # k /\ ConnOf(d) \in Conn /\ ConnOf(d) \in open
    BY <1>1, <1>2, <2>1 DEF TypeOK
  <2>3. inbox'[ConnOf(d)] = inbox[ConnOf(d)] /\ (editor' = ConnOf(d) <=> editor = ConnOf(d))
    BY <1>1, <1>2, <2>2, NobodyAssumption DEF TypeOK
  <2>4. QED BY <1>1, <1>2, <2>2, <2>3, AgreedFrame
<1>4. QED BY <1>3 DEF AgreeInv

\* What the server answers to the client at the other end.
LEMMA AgreeServed ==
  ASSUME LockInv, NEW c \in Clients, linked[c], ConnOf(c) \in open, Server(ConnOf(c))
  PROVE  Agreed(inbox'[ConnOf(c)], outbox'[ConnOf(c)], pending[c], held[c], editor' = ConnOf(c))
<1>1. PICK k : k = ConnOf(c) OBVIOUS
<1>2. BaseInv /\ TypeOK
  BY DEF LockInv, BaseInv
<1>3. k \in Conn /\ k[1] = c /\ k[2] = session[c] /\ k # Nobody
  BY <1>1, <1>2, LinkedConn, ConnFacts, NobodyAssumption
<1>4. PICK mine \in BOOLEAN : mine = (editor = k)
  OBVIOUS
<1>5. PICK mine2 \in BOOLEAN : mine2 = (editor' = k)
  OBVIOUS
<1>6. /\ inbox[k] \in Seq(Requests) /\ outbox[k] \in Seq(Replies) /\ pending[c] \in Nat
      /\ lastId[c] \in Nat /\ held[c] \in BOOLEAN /\ Numbered(inbox[k], outbox[k], lastId[c])
  BY <1>1, <1>2, AgreedValues
<1>7. Agreed(inbox[k], outbox[k], pending[c], held[c], mine)
  BY <1>1, <1>4 DEF LockInv, AgreeInv, AgreedOf
<1>8. inbox[k] # <<>> /\ inbox'[k] = Tail(inbox[k])
  BY <1>1, <1>2, <1>3, ServerStepFacts
<1>9. SUFFICES Agreed(Tail(inbox[k]), outbox'[k], pending[c], held[c], mine2)
  BY <1>1, <1>5, <1>8
<1>10. CASE HandleBegin(k)
  <2>1. Head(inbox[k]).kind = "begin" /\ Head(inbox[k]).id \in 1..MaxRequests
    BY <1>2, <1>3, <1>10, ServedNumber DEF HandleBegin, Handling
  <2>2. PICK ok \in BOOLEAN, rev \in 0..MaxRevision :
          /\ Reply(k, "edit", Head(inbox[k]).id, ok, rev)
          /\ (ok /\ editor' = k) \/ (~ok /\ editor' = editor)
    BY <1>2, <1>10, RevisionFacts DEF HandleBegin
  <2>3. PICK r : r = Result("edit", Head(inbox[k]).id, ok, rev) OBVIOUS
  <2>4. r \in Replies /\ outbox'[k] = Append(outbox[k], r)
    BY <1>2, <1>3, <2>1, <2>2, <2>3, ReplyFacts
  <2>5. r.id = Head(inbox[k]).id /\ r.kind = "edit" /\ r.ok = ok
    BY <2>3 DEF Result
  <2>6. (r.ok /\ mine2) \/ (~r.ok /\ (mine2 <=> mine))
    BY <1>4, <1>5, <2>2, <2>5
  <2>7. QED BY <1>6, <1>7, <1>8, <2>1, <2>4, <2>5, <2>6, ServeBegin, ZenonT(60)
<1>11. CASE HandleSave(k)
  <2>1. Head(inbox[k]).kind = "save" /\ Head(inbox[k]).id \in 1..MaxRequests
    BY <1>2, <1>3, <1>11, ServedNumber DEF HandleSave, Handling
  <2>2. PICK ok \in BOOLEAN, rev \in 0..MaxRevision :
          /\ Reply(k, "saved", Head(inbox[k]).id, ok, rev)
          /\ (ok /\ editor = k /\ editor' = Nobody) \/ (~ok /\ editor' = editor)
    BY <1>2, <1>11, RevisionFacts DEF HandleSave
  <2>3. PICK r : r = Result("saved", Head(inbox[k]).id, ok, rev) OBVIOUS
  <2>4. r \in Replies /\ outbox'[k] = Append(outbox[k], r)
    BY <1>2, <1>3, <2>1, <2>2, <2>3, ReplyFacts
  <2>5. r.id = Head(inbox[k]).id /\ r.kind = "saved" /\ r.ok = ok
    BY <2>3 DEF Result
  <2>6. (r.ok /\ mine /\ ~mine2) \/ (~r.ok /\ (mine2 <=> mine))
    BY <1>3, <1>4, <1>5, <2>2, <2>5
  <2>7. QED BY <1>6, <1>7, <1>8, <2>1, <2>4, <2>5, <2>6, ServeSave, ZenonT(60)
<1>12. CASE HandleCancel(k)
  <2>1. Head(inbox[k]).kind = "cancel" /\ outbox' = outbox /\ mine2 = FALSE
    BY <1>3, <1>5, <1>12 DEF HandleCancel, Handling
  <2>2. QED BY <1>6, <1>7, <1>8, <2>1, ServeCancel
<1>13. QED BY <1>1, <1>10, <1>11, <1>12 DEF Server

LEMMA AgreeServer ==
  ASSUME LockInv, NEW k \in Conn, Server(k)
  PROVE  AgreeInv'
<1>1. BaseInv /\ TypeOK /\ \A d \in Clients : AgreedOf(d)
  BY DEF LockInv, AgreeInv, BaseInv
<1>2. /\ UNCHANGED <<open, session, linked, pending, held>>
      /\ \A j \in Conn : j # k => inbox'[j] = inbox[j] /\ outbox'[j] = outbox[j]
      /\ editor' = editor \/ (editor' = k /\ editor = Nobody) \/ (editor' = Nobody /\ editor = k)
  BY <1>1, ServerStepFacts
<1>3. ASSUME NEW d \in Clients, ConnOf(d) # k PROVE AgreedOf(d)'
  <2>1. ConnOf(d) \in open => ConnOf(d) \in Conn /\ ConnOf(d) # Nobody
    BY <1>1, NobodyAssumption DEF TypeOK
  <2>2. QED BY <1>1, <1>2, <1>3, <2>1, AgreedFrame
<1>4. ASSUME NEW d \in Clients, ConnOf(d) = k PROVE AgreedOf(d)'
  <2>1. ConnOf(d)' = k BY <1>2, <1>4 DEF ConnOf
  <2>2. linked[d] /\ k \in open =>
           Agreed(inbox'[k], outbox'[k], pending[d], held[d], editor' = k)
    BY <1>4, AgreeServed
  <2>3. QED BY <1>2, <2>1, <2>2 DEF AgreedOf
<1>5. QED BY <1>3, <1>4 DEF AgreeInv

LEMMA LockInit == Init => LockInv
<1> SUFFICES ASSUME Init PROVE LockInv
  OBVIOUS
<1>1. LinkInv /\ AgreeInv
  BY DEF Init, LinkInv, AgreeInv, AgreedOf
<1>2. QED BY <1>1, BaseInit DEF LockInv

LEMMA LockNext == LockInv /\ [Next]_vars => LockInv'
<1> SUFFICES ASSUME LockInv, [Next]_vars PROVE LockInv'
  OBVIOUS
<1>1. BaseInv /\ LinkInv /\ BaseInv'
  BY BaseNext DEF LockInv
<1>2. CASE UNCHANGED vars
  BY <1>1, <1>2 DEF LockInv, LinkInv, AgreeInv, AgreedOf, ConnOf, vars, serverVars, linkVars, requestVars
<1>3. ASSUME NEW c \in Clients, User(c) \/ Watchdog(c) PROVE LockInv'
  <2>1. ClientStep(c) BY <1>1, <1>3, ClientSteps
  <2>2. QED BY <1>1, <2>1, LinkClient, AgreeClient DEF LockInv
<1>4. ASSUME NEW c \in Clients, Receive(c) \/ Connect(c) \/ Unlink(c) PROVE LockInv'
  BY <1>1, <1>4, LinkReceive, LinkConnect, LinkUnlink, AgreeReceive, AgreeConnect, AgreeUnlink
     DEF LockInv
<1>5. ASSUME NEW k \in Conn, Server(k) \/ CloseClient(k) PROVE LockInv'
  BY <1>1, <1>5, LinkServer, LinkCloseClient, AgreeServer, AgreeCloseClient DEF LockInv
<1>6. QED BY <1>2, <1>3, <1>4, <1>5 DEF Next, Controller, Disconnect, Stop

-----------------------------------------------------------------------------
(* The dialog *)

DialogInv ==
    \A c \in Clients : \/ cut[c]
                       \/ /\ dialog[c] \in {"editing", "saving"} => held[c]
                          /\ dialog[c] = "saving" => pending[c] # 0

\* A step that concerns the dialog of c alone.
LEMMA DialogFrame ==
  ASSUME DialogInv, NEW c \in Clients,
         \A d \in Clients : d # c =>
            /\ dialog'[d] = dialog[d] /\ held'[d] = held[d] /\ pending'[d] = pending[d]
            /\ cut'[d] = cut[d],
         dialog'[c] \in {"editing", "saving"} => held'[c],
         dialog'[c] = "saving" => pending'[c] # 0
  PROVE  DialogInv'
  BY DEF DialogInv

LEMMA DialogTold ==
  ASSUME TypeOK, NEW c \in Clients, NEW heldNow \in BOOLEAN, TellFailure(c, heldNow)
  PROVE  /\ \A d \in Clients : d # c => dialog'[d] = dialog[d]
         /\ dialog'[c] = IF dialog[c] = "closed" THEN "closed"
                         ELSE IF heldNow THEN "editing" ELSE "waiting"
  BY DEF TellFailure, TypeOK

LEMMA DialogUser ==
  ASSUME TypeOK, DialogInv, NEW c \in Clients, User(c)
  PROVE  DialogInv'
<1>1. CASE OpenDialog(c)
  <2>1. /\ dialog' = [dialog EXCEPT ![c] = "waiting"] /\ held' = held /\ cut' = cut
        /\ pending' = pending \/ pending' = [pending EXCEPT ![c] = lastId[c] + 1]
    BY <1>1 DEF OpenDialog, dialogVars
  <2>2. dialog'[c] = "waiting" /\ \A d \in Clients : d # c =>
            /\ dialog'[d] = dialog[d] /\ held'[d] = held[d] /\ pending'[d] = pending[d]
            /\ cut'[d] = cut[d]
    BY <2>1 DEF TypeOK
  <2>3. QED BY <2>2, DialogFrame
<1>2. CASE CloseDialog(c)
  <2>1. /\ dialog' = [dialog EXCEPT ![c] = "closed"] /\ cut' = [cut EXCEPT ![c] = FALSE]
        /\ held' = held \/ held' = [held EXCEPT ![c] = FALSE]
        /\ pending' = pending \/ pending' = [pending EXCEPT ![c] = 0]
    BY <1>2 DEF CloseDialog, CancelAutomationEdit
  <2>2. dialog'[c] = "closed" /\ \A d \in Clients : d # c =>
            /\ dialog'[d] = dialog[d] /\ held'[d] = held[d] /\ pending'[d] = pending[d]
            /\ cut'[d] = cut[d]
    BY <2>1 DEF TypeOK
  <2>3. QED BY <2>2, DialogFrame
<1>3. CASE SaveDialog(c)
  <2>1. /\ held' = held /\ cut' = cut /\ held[c] \in BOOLEAN /\ dialog[c] = "editing"
        /\ cut[c] \/ held[c]
    BY <1>3 DEF SaveDialog, TypeOK, DialogInv
  <2>2. CASE pending[c] # 0
    <3>1. pending' = pending /\ dialog' = [dialog EXCEPT ![c] = "saving"]
      BY <1>3, <2>2 DEF SaveDialog
    <3>2. QED BY <2>1, <2>2, <3>1 DEF DialogInv, TypeOK
  <2>3. CASE pending[c] = 0 /\ held[c] /\ linked[c]
    <3>1. pending' = [pending EXCEPT ![c] = lastId[c] + 1] /\ dialog' = [dialog EXCEPT ![c] = "saving"]
      BY <1>3, <2>3 DEF SaveDialog
    <3>2. lastId[c] \in 0..MaxRequests BY DEF TypeOK
    <3>3. lastId[c] + 1 # 0 BY <3>2, BoundsAssumption
    <3>4. pending'[c] # 0 /\ \A d \in Clients : d # c =>
              /\ dialog'[d] = dialog[d] /\ held'[d] = held[d] /\ pending'[d] = pending[d]
              /\ cut'[d] = cut[d]
      BY <2>1, <3>1, <3>3 DEF TypeOK
    <3>5. QED BY <2>1, <2>3, <3>4, DialogFrame
  <2>4. CASE pending[c] = 0 /\ ~(held[c] /\ linked[c])
    <3>1. TellFailure(c, held[c]) /\ pending' = pending
      BY <1>3, <2>4 DEF SaveDialog
    <3>2. /\ dialog'[c] = IF held[c] THEN "editing" ELSE "waiting"
          /\ \A d \in Clients : d # c => dialog'[d] = dialog[d]
      BY <2>1, <3>1, DialogTold
    <3>3. QED BY <2>1, <3>1, <3>2, DialogFrame
  <2>5. QED BY <2>2, <2>3, <2>4
<1>4. QED BY <1>1, <1>2, <1>3 DEF User

LEMMA DialogWatchdog ==
  ASSUME TypeOK, DialogInv, NEW c \in Clients, Watchdog(c)
  PROVE  DialogInv'
<1>1. \A d \in Clients : d # c =>
          held'[d] = held[d] /\ pending'[d] = pending[d] /\ cut'[d] = cut[d]
  BY DEF Watchdog, CancelAutomationEdit, TypeOK
<1>2. dialog'[c] \in {"closed", "waiting"} /\ \A d \in Clients : d # c => dialog'[d] = dialog[d]
  BY DialogTold DEF Watchdog
<1>3. QED BY <1>1, <1>2, DialogFrame

LEMMA DialogDisconnect ==
  ASSUME TypeOK, DialogInv, NEW c \in Clients, Disconnect(c)
  PROVE  DialogInv'
<1>1. \A d \in Clients : d # c =>
          held'[d] = held[d] /\ pending'[d] = pending[d] /\ cut'[d] = cut[d]
  BY DEF Disconnect, Unlink, TypeOK
<1>2. CASE held[c] \/ pending[c] # 0
  <2>1. dialog'[c] \in {"closed", "waiting"} /\ \A d \in Clients : d # c => dialog'[d] = dialog[d]
    BY <1>2, DialogTold DEF Disconnect
  <2>2. QED BY <1>1, <2>1, DialogFrame
<1>3. CASE ~(held[c] \/ pending[c] # 0)
  <2>1. held' = held /\ pending' = pending /\ UNCHANGED <<dialog, cut>>
    BY <1>3 DEF Disconnect, Unlink, TypeOK
  <2>2. QED BY <2>1 DEF DialogInv
<1>4. QED BY <1>2, <1>3

\* The settings leave the dialog as it is, and cut off.
LEMMA DialogStop ==
  ASSUME TypeOK, DialogInv, NEW c \in Clients, Stop(c)
  PROVE  DialogInv'
<1>1. /\ dialog' = dialog /\ cut'[c] = (dialog[c] # "closed")
      /\ \A d \in Clients : d # c =>
            held'[d] = held[d] /\ pending'[d] = pending[d] /\ cut'[d] = cut[d]
  BY DEF Stop, Unlink, TypeOK
<1>2. QED BY <1>1 DEF DialogInv

LEMMA DialogReceive ==
  ASSUME TypeOK, DialogInv, NEW c \in Clients, Receive(c)
  PROVE  DialogInv'
<1>1. PICK reply : reply = Head(outbox[ConnOf(c)]) OBVIOUS
<1>2. CASE reply.id # pending[c]
  BY <1>1, <1>2 DEF Receive, dialogVars, DialogInv
<1>3. CASE reply.id = pending[c]
  <2>1. \A d \in Clients : d # c =>
            held'[d] = held[d] /\ pending'[d] = pending[d] /\ cut'[d] = cut[d]
    BY <1>1, <1>3 DEF Receive, TypeOK
  <2>2. /\ \A d \in Clients : d # c => dialog'[d] = dialog[d]
        /\ dialog'[c] # "saving" /\ (dialog'[c] = "editing" => held'[c])
    <3>1. CASE TellFailure(c, held[c]) /\ held' = held
      <4>1. held[c] \in BOOLEAN BY DEF TypeOK
      <4>2. QED BY <3>1, <4>1, DialogTold
    <3>2. CASE /\ held' = [held EXCEPT ![c] = TRUE]
               /\ IF dialog[c] = "closed" THEN dialog' = dialog
                  ELSE dialog' = [dialog EXCEPT ![c] = "editing"]
      BY <3>2 DEF TypeOK
    <3>3. CASE dialog' = [dialog EXCEPT ![c] = "closed"]
      BY <3>3 DEF TypeOK
    <3>4. QED BY <1>1, <1>3, <3>1, <3>2, <3>3 DEF Receive, dialogVars
  <2>3. QED BY <2>1, <2>2, DialogFrame
<1>4. QED BY <1>2, <1>3

LEMMA DialogNext == BaseInv /\ DialogInv /\ [Next]_vars => DialogInv'
<1> SUFFICES ASSUME BaseInv, DialogInv, [Next]_vars PROVE DialogInv'
  OBVIOUS
<1>1. TypeOK BY DEF BaseInv
<1>2. CASE UNCHANGED <<held, pending, dialog, cut>>
  BY <1>2 DEF DialogInv
<1>3. ASSUME NEW c \in Clients, User(c) \/ Controller(c) \/ Connect(c) \/ Disconnect(c) \/ Stop(c)
      PROVE  DialogInv'
  BY <1>1, <1>2, <1>3, DialogUser, DialogWatchdog, DialogReceive, DialogDisconnect,
     DialogStop
     DEF Controller, Connect, requestVars, dialogVars
<1>4. ASSUME NEW k \in Conn, Server(k) \/ CloseClient(k) PROVE DialogInv'
  BY <1>2, <1>4, ServerStepFacts DEF CloseClient, requestVars, dialogVars
<1>5. CASE UNCHANGED vars
  BY <1>2, <1>5 DEF vars, requestVars, dialogVars
<1>6. QED BY <1>3, <1>4, <1>5 DEF Next

-----------------------------------------------------------------------------
(* Theorems *)

\* A controller that believes to hold the lock is right, or about to be told that
\* the script is stored: no two desklets edit at a time (automation_edit_begin).
THEOREM HeldOwned == Spec => []HeldIsOwned
<1>1. LockInv => HeldIsOwned
  <2>1. SUFFICES ASSUME LockInv, NEW c \in Clients, linked[c], held[c], ConnOf(c) \in open,
                        editor # ConnOf(c)
                 PROVE  \E i \in DOMAIN outbox[ConnOf(c)] :
                            /\ outbox[ConnOf(c)][i].kind = "saved" /\ outbox[ConnOf(c)][i].ok
                            /\ outbox[ConnOf(c)][i].id = pending[c]
    BY DEF HeldIsOwned, Holds
  <2>2. PICK in, out, has, mine : /\ in = inbox[ConnOf(c)] /\ out = outbox[ConnOf(c)]
                                  /\ has = held[c] /\ mine = (editor = ConnOf(c))
    OBVIOUS
  <2>3. Agreed(in, out, pending[c], has, mine) /\ has /\ ~mine /\ out \in Seq(Replies)
    BY <2>1, <2>2, AgreedValues DEF LockInv, AgreeInv, AgreedOf
  <2>4. Answered(in, out, pending[c], has, mine)
    BY <2>3 DEF Agreed, OnItsWay
  <2>5. /\ out # <<>> /\ out[Len(out)].id = pending[c] /\ out[Len(out)].kind = "saved"
        /\ out[Len(out)].ok
    BY <2>3, <2>4 DEF Answered, OnlyLast
  <2>6. Len(out) \in DOMAIN out
    BY <2>3, <2>5
  <2>7. QED BY <2>2, <2>5, <2>6
<1>2. QED BY <1>1, LockInit, LockNext, PTL DEF Spec

\* The lock is never forgotten: its owner holds it, is about to be told, or has
\* sent its cancellation (automationEditor_ and automationEditHeld_).
THEOREM LockKnown == Spec => []LockIsKnown
<1>1. LockInv => LockIsKnown
  <2>1. SUFFICES ASSUME LockInv, NEW c \in Clients, linked[c], editor = ConnOf(c), ~held[c]
                 PROVE  \/ \E i \in DOMAIN outbox[ConnOf(c)] :
                              /\ outbox[ConnOf(c)][i].kind = "edit" /\ outbox[ConnOf(c)][i].ok
                              /\ outbox[ConnOf(c)][i].id = pending[c]
                        \/ \E i \in DOMAIN inbox[ConnOf(c)] : inbox[ConnOf(c)][i].kind = "cancel"
    BY DEF LockIsKnown, Holds
  <2>2. ConnOf(c) \in open
    BY <2>1, LinkedConn, NobodyAssumption DEF LockInv, LinkInv
  <2>3. Known(inbox[ConnOf(c)], outbox[ConnOf(c)], pending[c], held[c], editor = ConnOf(c))
    BY <2>1, <2>2 DEF LockInv, AgreeInv, AgreedOf, Agreed
  <2>4. QED BY <2>1, <2>3 DEF Known
<1>2. QED BY <1>1, LockInit, LockNext, PTL DEF Spec

\* A dialog that waits for the result of a save has a request pending, with the
\* lock, so that the watchdog or the reply ends its waiting, as long as the settings
\* have not stopped the controller under it (saveAutomationEdit, stop).
THEOREM SavingPending == Spec => []SavingIsPending
<1>1. Init => DialogInv
  BY DEF Init, DialogInv
<1>2. DialogInv => SavingIsPending
  BY DEF DialogInv, SavingIsPending
<1>3. QED BY <1>1, <1>2, BaseInit, BaseNext, DialogNext, PTL DEF Spec

=============================================================================
