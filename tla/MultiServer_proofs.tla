-------------------------- MODULE MultiServer_proofs --------------------------
(***************************************************************************)
(* Proofs about MultiServer for every set of clients and addresses, every  *)
(* size of the cache and every bound.                                      *)
(*                                                                         *)
(* An iteration of run_once is a record that its parts hand on.  The first *)
(* lemmas say what each part can make of such a record; the parts of the   *)
(* inductive invariant are stated of a record, so that they can be shown   *)
(* to survive each part of an iteration.                                   *)
(***************************************************************************)
EXTENDS MultiServer, SlidingWindow_proofs, SequenceTheorems, FiniteSetTheorems

USE SizeAssumption, ConstantsAssumption

(***************************************************************************)
(* The record of an iteration                                              *)
(***************************************************************************)

Packet == [token : Tokens, seq : Numbers, src : Sources]

Progress == [status  : Status,
             session : Seq(Session),
             cache   : Seq(Tokens),
             at      : [Keys -> Tokens \cup {NoSession}],
             route   : [Clients -> Tokens \cup {NoSession}],
             out     : SUBSET Datagram,
             wrote   : SUBSET Packet]

Known(t) == 1 .. Len(t.session)

\* What a session object is created with and keeps.
SameIdentity(x, y) ==
  /\ x.client = y.client /\ x.addr = y.addr /\ x.sid = y.sid
  /\ x.hello = y.hello /\ x.run = y.run

SameSessions(t, u) ==
  /\ Len(u.session) = Len(t.session)
  /\ \A n \in Known(t) : SameIdentity(t.session[n], u.session[n])

SameTables(t, u) == u.at = t.at /\ u.route = t.route

LEMMA SessionType ==
  ASSUME NEW s \in Seq(Session), NEW n \in 1 .. Len(s)
  PROVE  /\ s[n] \in Session
         /\ s[n].client \in Clients /\ s[n].addr \in Addresses /\ s[n].sid \in SessionIds
         /\ KeyOf(s[n]) \in Keys
         /\ s[n].hello \in Hellos /\ s[n].run \in 0 .. MaxRestarts
         /\ s[n].seq \in 0 .. MaxSequence + 1 /\ s[n].window \in Window
<1>1. s[n] \in Session
  BY ElementOfSeq
<1> QED
  BY <1>1 DEF Session, KeyOf, Keys

\* Ending an iteration changes the status and nothing else.
LEMMA EndedEffect ==
  ASSUME NEW t \in Progress, NEW s \in Status
  PROVE  /\ Ended(t, s) \in Progress
         /\ Ended(t, s).status = s
         /\ Ended(t, s).session = t.session /\ Ended(t, s).cache = t.cache
         /\ SameTables(t, Ended(t, s))
         /\ Ended(t, s).out = t.out /\ Ended(t, s).wrote = t.wrote
BY DEF Ended, Progress, SameTables

LEMMA EmitEffect ==
  ASSUME NEW t \in Progress, NEW d \in Datagram
  PROVE  /\ Emit(t, d) \in Progress
         /\ Emit(t, d).out = t.out \cup {d}
         /\ Emit(t, d).status = t.status
         /\ Emit(t, d).session = t.session /\ Emit(t, d).cache = t.cache
         /\ SameTables(t, Emit(t, d))
         /\ Emit(t, d).wrote = t.wrote
BY DEF Emit, Progress, SameTables

Removed(t, u, x) ==
  /\ u.status = t.status /\ u.session = t.session /\ u.cache = t.cache
  /\ u.at = [t.at EXCEPT ![KeyOf(x)] = NoSession]
  /\ u.route = [t.route EXCEPT ![x.client] = NoSession]
  /\ u.out = t.out /\ u.wrote = t.wrote

LEMMA RemoveEffect ==
  ASSUME NEW t \in Progress, NEW x \in Session, t.at[KeyOf(x)] # NoSession
  PROVE  RemoveSession(t, x) \in Progress /\ Removed(t, RemoveSession(t, x), x)
<1> DEFINE k == KeyOf(x)
           c == x.client
           u == RemoveSession(t, x)
<1>1. k \in Keys /\ c \in Clients
  BY DEF KeyOf, Keys, Session
<1>2. u = [t EXCEPT !.at[k] = NoSession, !.route[c] = NoSession]
  BY DEF RemoveSession
<1> HIDE DEF k, c, u
<1>3. /\ u.status = t.status /\ u.session = t.session /\ u.cache = t.cache
      /\ u.out = t.out /\ u.wrote = t.wrote
  BY <1>2 DEF Progress
<1>4. u.at = [t.at EXCEPT ![k] = NoSession] /\ u.route = [t.route EXCEPT ![c] = NoSession]
  BY <1>2 DEF Progress
<1>5. /\ u.at \in [Keys -> Tokens \cup {NoSession}]
      /\ u.route \in [Clients -> Tokens \cup {NoSession}]
  BY <1>1, <1>4 DEF Progress
<1>6. u \in Progress
  BY <1>2, <1>3, <1>5 DEF Progress
<1>7. Removed(t, u, x)
  BY <1>3, <1>4 DEF k, c, Removed
<1> QED
  BY <1>6, <1>7 DEF u

Added(t, u, n) ==
  /\ u.status = t.status /\ u.session = t.session /\ u.cache = t.cache
  /\ u.at = [t.at EXCEPT ![KeyOf(t.session[n])] = n]
  /\ u.route = [t.route EXCEPT ![t.session[n].client] = n]
  /\ u.out = t.out /\ u.wrote = t.wrote

LEMMA AddEffect ==
  ASSUME NEW t \in Progress, NEW n \in Known(t), n \in Tokens,
         t.at[KeyOf(t.session[n])] = NoSession, t.route[t.session[n].client] = NoSession
  PROVE  AddSession(t, n) \in Progress /\ Added(t, AddSession(t, n), n)
<1> DEFINE u == AddSession(t, n)
<1> DEFINE k == KeyOf(t.session[n])
           c == t.session[n].client
<1>1. k \in Keys /\ c \in Clients
  BY SessionType DEF Known, Progress
<1>2. u = [t EXCEPT !.at[k] = n, !.route[c] = n]
  BY DEF AddSession
<1> HIDE DEF k, c, u
<1>3. /\ u.status = t.status /\ u.session = t.session /\ u.cache = t.cache
      /\ u.out = t.out /\ u.wrote = t.wrote
  BY <1>2 DEF Progress
<1>4. u.at = [t.at EXCEPT ![k] = n] /\ u.route = [t.route EXCEPT ![c] = n]
  BY <1>2 DEF Progress
<1>5. /\ u.at \in [Keys -> Tokens \cup {NoSession}]
      /\ u.route \in [Clients -> Tokens \cup {NoSession}]
  BY <1>1, <1>4 DEF Progress
<1>6. u \in Progress
  BY <1>2, <1>3, <1>5 DEF Progress
<1>7. Added(t, u, n)
  BY <1>3, <1>4 DEF k, c, Added
<1> QED
  BY <1>6, <1>7 DEF u

(***************************************************************************)
(* replace_session                                                         *)
(***************************************************************************)

\* TablesAgree, of a record.
Agree(t) ==
  /\ \A c \in Clients : t.route[c] # NoSession =>
       LET x == t.session[t.route[c]] IN
       x.client = c /\ t.at[KeyOf(x)] = t.route[c]
  /\ \A k \in Keys : t.at[k] # NoSession =>
       LET x == t.session[t.at[k]] IN
       KeyOf(x) = k /\ t.route[x.client] = t.at[k]

\* Only sessions that exist are in the tables and in the cache.
Filed(t) ==
  /\ Len(t.session) <= MaxSessions
  /\ \A c \in Clients : t.route[c] <= Len(t.session)
  /\ \A k \in Keys : t.at[k] <= Len(t.session)
  /\ \A i \in 1 .. Len(t.cache) : t.cache[i] <= Len(t.session)

\* What the tables lead to exists.
LEMMA TokenIsKnown ==
  ASSUME NEW t \in Progress, Filed(t)
  PROVE  /\ \A c \in Clients : t.route[c] # NoSession => t.route[c] \in 1 .. Len(t.session)
         /\ \A k \in Keys : t.at[k] # NoSession => t.at[k] \in 1 .. Len(t.session)
<1>1. /\ \A c \in Clients : t.route[c] \in Tokens \cup {NoSession} /\ t.route[c] <= Len(t.session)
      /\ \A k \in Keys : t.at[k] \in Tokens \cup {NoSession} /\ t.at[k] <= Len(t.session)
  BY DEF Progress, Filed
<1> QED
  BY <1>1 DEF Tokens, NoSession

\* What replace_session can come to for session n: n takes the place of its
\* client's session, or another client's session is in its place.
Replaced(t, u, n) ==
  LET x == t.session[n] IN
  /\ u.status = t.status
  /\ u.route = [t.route EXCEPT ![x.client] = n]

Collides(t, u, n) ==
  LET x == t.session[n] IN
  /\ u.status = "value_error"
  /\ u.route \in {t.route, [t.route EXCEPT ![x.client] = NoSession]}
  /\ t.at[KeyOf(x)] # NoSession
  /\ t.session[t.at[KeyOf(x)]].client # x.client

LEMMA ReplaceEffect ==
  ASSUME NEW t \in Progress, Running(t), Agree(t), Filed(t),
         NEW n \in Known(t), n \in Tokens
  PROVE  LET u == ReplaceSession(t, n) IN
         /\ u \in Progress
         /\ u.session = t.session /\ u.cache = t.cache
         /\ u.out = t.out /\ u.wrote = t.wrote
         /\ Agree(u) /\ Filed(u)
         /\ Replaced(t, u, n) \/ Collides(t, u, n)
<1> DEFINE x == t.session[n]
           old == t.route[x.client]
           y == t.session[old]
           u == IF old = NoSession THEN t ELSE RemoveSession(t, y)
           v == ReplaceSession(t, n)
<1>1. /\ t.session \in Seq(Session) /\ t.status \in Status
      /\ t.at \in [Keys -> Tokens \cup {NoSession}]
      /\ t.route \in [Clients -> Tokens \cup {NoSession}]
  BY DEF Progress
<1>2. x \in Session /\ x.client \in Clients /\ KeyOf(x) \in Keys
  BY <1>1, SessionType DEF Known
<1>3. /\ u \in Progress
      /\ u.status = t.status /\ u.session = t.session /\ u.cache = t.cache
      /\ u.out = t.out /\ u.wrote = t.wrote
      /\ u.route = [t.route EXCEPT ![x.client] = NoSession]
      /\ \A k \in Keys : u.at[k] = IF t.at[k] # NoSession /\ t.session[t.at[k]].client = x.client
                                     THEN NoSession ELSE t.at[k]
  <2>1. CASE old = NoSession
    <3>1. [t.route EXCEPT ![x.client] = NoSession] = t.route
      BY <1>1, <1>2, <2>1
    <3>2. \A k \in Keys : t.at[k] # NoSession => t.session[t.at[k]].client # x.client
      BY <1>1, <2>1 DEF Agree
    <3> QED
      BY <2>1, <3>1, <3>2
  <2>2. CASE old # NoSession
    <3>1. old \in 1 .. Len(t.session)
      BY <1>1, <1>2, <2>2 DEF Filed, NoSession, Tokens
    <3>2. y \in Session /\ KeyOf(y) \in Keys
      BY <1>1, <3>1, SessionType
    <3>3. y.client = x.client /\ t.at[KeyOf(y)] = old
      BY <1>2, <2>2 DEF Agree
    <3>4. u = RemoveSession(t, y) /\ t.at[KeyOf(y)] # NoSession
      BY <2>2, <3>3
    <3>5. /\ u \in Progress
          /\ u.status = t.status /\ u.session = t.session /\ u.cache = t.cache
          /\ u.at = [t.at EXCEPT ![KeyOf(y)] = NoSession]
          /\ u.route = [t.route EXCEPT ![x.client] = NoSession]
          /\ u.out = t.out /\ u.wrote = t.wrote
      <4>1. u \in Progress /\ Removed(t, u, y)
        BY <3>2, <3>4, RemoveEffect
      <4> QED
        BY <3>3, <4>1 DEF Removed
    <3>6. ASSUME NEW k \in Keys
          PROVE  u.at[k] = IF t.at[k] # NoSession /\ t.session[t.at[k]].client = x.client
                             THEN NoSession ELSE t.at[k]
      <4>1. CASE k = KeyOf(y)
        BY <1>1, <2>2, <3>2, <3>3, <3>5, <4>1
      <4>2. CASE k # KeyOf(y)
        <5>1. u.at[k] = t.at[k]
          BY <1>1, <3>5, <4>2
        <5>2. ~ (t.at[k] # NoSession /\ t.session[t.at[k]].client = x.client)
          BY <4>2 DEF Agree
        <5> QED
          BY <5>1, <5>2
      <4> QED
        BY <4>1, <4>2
    <3> QED
      BY <3>5, <3>6
  <2> QED
    BY <2>1, <2>2
<1>4. v = AddSession(u, n) /\ u.session[n] = x /\ n \in Known(u)
  BY <1>3 DEF ReplaceSession, Running, Known
<1>5. u.route[x.client] = NoSession
  BY <1>1, <1>2, <1>3
<1>6. /\ Filed(u)
      /\ u.at \in [Keys -> Tokens \cup {NoSession}]
      /\ u.route \in [Clients -> Tokens \cup {NoSession}]
  <2>1. u.at \in [Keys -> Tokens \cup {NoSession}]
        /\ u.route \in [Clients -> Tokens \cup {NoSession}]
    BY <1>3 DEF Progress
  <2>2. \A c \in Clients : u.route[c] \in {t.route[c], NoSession}
    BY <1>1, <1>2, <1>3
  <2>3. \A k \in Keys : u.at[k] \in {t.at[k], NoSession}
    BY <1>3
  <2>4. Len(t.session) \in Nat
    BY <1>1, LenProperties
  <2>5. NoSession <= Len(t.session)
    BY <2>4 DEF NoSession
  <2>6. /\ \A c \in Clients : t.route[c] <= Len(t.session)
        /\ \A k \in Keys : t.at[k] <= Len(t.session)
    BY DEF Filed
  <2>7. \A c \in Clients : u.route[c] <= Len(t.session)
    BY <2>2, <2>5, <2>6
  <2>8. \A k \in Keys : u.at[k] <= Len(t.session)
    BY <2>3, <2>5, <2>6
  <2> QED
    BY <1>3, <2>1, <2>7, <2>8 DEF Filed
<1> HIDE DEF u
<1>7. Agree(u)
  <2>1. ASSUME NEW c \in Clients, u.route[c] # NoSession
        PROVE  /\ u.session[u.route[c]].client = c
               /\ u.at[KeyOf(u.session[u.route[c]])] = u.route[c]
    <3>1. c # x.client /\ u.route[c] = t.route[c]
      BY <1>1, <1>2, <1>3, <2>1
    <3>2. t.route[c] \in 1 .. Len(t.session)
      BY <1>1, <2>1, <3>1 DEF Filed, NoSession, Tokens
    <3>3. KeyOf(t.session[t.route[c]]) \in Keys
      BY <1>1, <3>2, SessionType
    <3>4. /\ t.session[t.route[c]].client = c
          /\ t.at[KeyOf(t.session[t.route[c]])] = t.route[c]
      BY <2>1, <3>1 DEF Agree
    <3>5. u.at[KeyOf(t.session[t.route[c]])] = t.route[c]
      BY <1>3, <3>1, <3>3, <3>4
    <3> QED
      BY <1>3, <3>1, <3>4, <3>5
  <2>2. ASSUME NEW k \in Keys, u.at[k] # NoSession
        PROVE  /\ KeyOf(u.session[u.at[k]]) = k
               /\ u.route[u.session[u.at[k]].client] = u.at[k]
    <3>1. u.at[k] = t.at[k] /\ t.session[t.at[k]].client # x.client
      BY <1>3, <2>2
    <3>2. t.route[t.session[t.at[k]].client] = t.at[k] /\ KeyOf(t.session[t.at[k]]) = k
      BY <2>2, <3>1 DEF Agree
    <3>3. u.route[t.session[t.at[k]].client] = t.route[t.session[t.at[k]].client]
      <4>1. t.at[k] \in 1 .. Len(t.session)
        BY <1>1, <2>2, <3>1 DEF Filed, NoSession, Tokens
      <4>2. t.session[t.at[k]].client \in Clients
        BY <1>1, <4>1, SessionType
      <4> QED
        BY <1>1, <1>3, <3>1, <4>2
    <3> QED
      BY <1>3, <3>1, <3>2, <3>3
  <2> QED
    BY <2>1, <2>2 DEF Agree
<1> HIDE DEF v
<1>8. CASE u.at[KeyOf(x)] = NoSession
  <2>1. /\ v \in Progress
        /\ v.status = u.status /\ v.session = u.session /\ v.cache = u.cache
        /\ v.at = [u.at EXCEPT ![KeyOf(x)] = n]
        /\ v.route = [u.route EXCEPT ![x.client] = n]
        /\ v.out = u.out /\ v.wrote = u.wrote
    <3>1. v \in Progress /\ Added(u, v, n)
      BY <1>3, <1>4, <1>5, <1>8, AddEffect
    <3> QED
      BY <1>4, <3>1 DEF Added
  <2>2. Filed(v)
    BY <1>2, <1>3, <1>4, <1>6, <2>1 DEF Filed, Known, Tokens
  <2>3. Agree(v)
    <3>1. n # NoSession
      BY DEF NoSession, Tokens
    <3>2. ASSUME NEW c \in Clients, v.route[c] # NoSession
          PROVE  /\ v.session[v.route[c]].client = c
                 /\ v.at[KeyOf(v.session[v.route[c]])] = v.route[c]
      <4>1. CASE c = x.client
        BY <1>2, <1>4, <1>6, <2>1, <4>1
      <4>2. CASE c # x.client
        <5>1. v.route[c] = u.route[c]
          BY <1>6, <2>1, <4>2
        <5>2. /\ u.session[u.route[c]].client = c
              /\ u.at[KeyOf(u.session[u.route[c]])] = u.route[c]
          BY <1>7, <3>2, <5>1 DEF Agree
        <5>3. KeyOf(u.session[u.route[c]]) # KeyOf(x)
          BY <1>8, <3>2, <5>1, <5>2
        <5>4. v.at[KeyOf(u.session[u.route[c]])] = u.at[KeyOf(u.session[u.route[c]])]
          BY <1>6, <2>1, <5>3
        <5> QED
          BY <2>1, <5>1, <5>2, <5>4
      <4> QED
        BY <4>1, <4>2
    <3>3. ASSUME NEW k \in Keys, v.at[k] # NoSession
          PROVE  /\ KeyOf(v.session[v.at[k]]) = k
                 /\ v.route[v.session[v.at[k]].client] = v.at[k]
      <4>1. CASE k = KeyOf(x)
        BY <1>2, <1>4, <1>6, <2>1, <4>1
      <4>2. CASE k # KeyOf(x)
        <5>1. v.at[k] = u.at[k]
          BY <1>6, <2>1, <4>2
        <5>2. KeyOf(u.session[u.at[k]]) = k /\ u.route[u.session[u.at[k]].client] = u.at[k]
          BY <1>7, <3>3, <5>1 DEF Agree
        <5>3. u.session[u.at[k]].client # x.client
          BY <1>5, <3>3, <5>1, <5>2
        <5>4. v.route[u.session[u.at[k]].client] = u.route[u.session[u.at[k]].client]
          BY <1>6, <2>1, <5>3
        <5> QED
          BY <2>1, <5>1, <5>2, <5>4
      <4> QED
        BY <4>1, <4>2
    <3> QED
      BY <3>2, <3>3 DEF Agree
  <2>4. Replaced(t, v, n)
    <3>1. v.route = [t.route EXCEPT ![x.client] = n]
      BY <1>1, <1>2, <1>3, <2>1
    <3> QED
      BY <1>3, <2>1, <3>1 DEF Replaced
  <2> QED
    BY <1>3, <2>1, <2>2, <2>3, <2>4 DEF v
<1>9. CASE u.at[KeyOf(x)] # NoSession
  <2>1. v = Ended(u, "value_error")
    BY <1>4, <1>9 DEF AddSession
  <2>2. /\ v \in Progress /\ v.status = "value_error"
        /\ v.session = u.session /\ v.cache = u.cache
        /\ v.at = u.at /\ v.route = u.route
        /\ v.out = u.out /\ v.wrote = u.wrote
    BY <1>3, <2>1, EndedEffect DEF Status, SameTables
  <2>3. Filed(v) /\ Agree(v)
    BY <1>6, <1>7, <2>2 DEF Filed, Agree
  <2>4. Collides(t, v, n)
    BY <1>2, <1>3, <1>9, <2>2 DEF Collides
  <2> QED
    BY <1>3, <2>2, <2>3, <2>4 DEF v
<1> QED
  BY <1>8, <1>9

(***************************************************************************)
(* The parts of an iteration                                               *)
(***************************************************************************)

LEMMA DatagramType ==
  ASSUME NEW d \in Datagram
  PROVE  /\ d.type = "HELLO" => d.hello \in Hellos /\ d.addr \in Addresses
         /\ d.type = "REPLY" => d.token \in Tokens /\ d.addr \in Addresses
         /\ d.type \in {"DATA", "KEEPALIVE"} =>
              d.token \in Tokens /\ d.seq \in Numbers /\ d.addr \in Addresses /\ d.src \in Sources
         /\ d.type = "DOWN" =>
              d.token \in Tokens /\ d.seq \in Numbers /\ d.addr \in Addresses /\ d.dst \in Clients
         /\ d.type \in {"HELLO", "REPLY", "DATA", "KEEPALIVE", "DOWN"}
BY DEF Datagram

\* A part of an iteration raises and leaves everything else as it is.
Stopped(t, u) ==
  /\ u.status \in {"too_large", "overflow", "os_error"}
  /\ u.session = t.session /\ u.cache = t.cache /\ SameTables(t, u)
  /\ u.out = t.out /\ u.wrote = t.wrote

Downlink(t, n, dst) ==
  [type |-> "DOWN", token |-> n, seq |-> t.session[n].seq, addr |-> t.session[n].addr, dst |-> dst]

\* A packet has left for client dst in session n.
Transmitted(t, u, n, dst) ==
  /\ dst \in Clients /\ n \in Known(t) /\ t.route[dst] = n
  /\ Downlink(t, n, dst) \in Datagram
  /\ u.status = t.status /\ u.cache = t.cache /\ SameTables(t, u)
  /\ u.out = t.out \cup {Downlink(t, n, dst)} /\ u.wrote = t.wrote
  /\ u.session = [t.session EXCEPT ![n].seq = @ + 1]

LEMMA StoppedEffect ==
  ASSUME NEW t \in Progress, NEW s \in {"too_large", "overflow", "os_error"}
  PROVE  Ended(t, s) \in Progress /\ Stopped(t, Ended(t, s))
BY EndedEffect DEF Status, Stopped

LEMMA TransmitEffect ==
  ASSUME NEW t \in Progress, NEW n \in Known(t), n \in Tokens, t.session[n].seq <= MaxSequence,
         NEW p, p.dst \in Clients, t.route[p.dst] = n
  PROVE  Transmit(t, n, p) \in Progress /\ Transmitted(t, Transmit(t, n, p), n, p.dst)
<1> DEFINE x == t.session[n]
           d == Downlink(t, n, p.dst)
           u == Emit(t, d)
           y == [x EXCEPT !.seq = @ + 1]
           v == [u EXCEPT !.session[n].seq = @ + 1]
<1>1. t.session \in Seq(Session) /\ n \in 1 .. Len(t.session)
  BY DEF Progress, Known
<1>2. /\ x \in Session /\ x.addr \in Addresses /\ x.seq \in 0 .. MaxSequence + 1
  BY <1>1, SessionType
<1>3. d \in Datagram
  BY <1>2 DEF Datagram, Downlink, Numbers
<1>4. /\ u \in Progress
      /\ u.out = t.out \cup {d} /\ u.status = t.status
      /\ u.session = t.session /\ u.cache = t.cache /\ SameTables(t, u) /\ u.wrote = t.wrote
  BY <1>3, EmitEffect
<1>5. y \in Session
  BY <1>2 DEF Session
<1>6. [t.session EXCEPT ![n].seq = @ + 1] = [t.session EXCEPT ![n] = y]
  OBVIOUS
<1>7. [t.session EXCEPT ![n].seq = @ + 1] \in Seq(Session)
  BY <1>1, <1>5, <1>6, ExceptSeq
<1>8. v = Transmit(t, n, p)
  BY DEF Transmit, Downlink
<1> HIDE DEF u, d
<1>9. /\ v.status = u.status /\ v.cache = u.cache /\ v.at = u.at /\ v.route = u.route
      /\ v.out = u.out /\ v.wrote = u.wrote
      /\ v.session = [u.session EXCEPT ![n].seq = @ + 1]
  BY <1>4 DEF Progress
<1>10. v \in Progress
  BY <1>4, <1>7, <1>9 DEF Progress
<1> HIDE DEF v
<1> QED
  BY <1>3, <1>4, <1>8, <1>9, <1>10 DEF Transmitted, SameTables, d

LEMMA TunEffect ==
  ASSUME NEW t \in Progress, Filed(t), NEW p \in TunPackets, NEW fault
  PROVE  LET u == HandleTun(t, p, fault) IN
         /\ u \in Progress
         /\ \/ u = t
            \/ Stopped(t, u)
            \/ \E n \in Tokens : Transmitted(t, u, n, p.dst)
<1> DEFINE n == IF p.dst \in Clients THEN t.route[p.dst] ELSE NoSession
           u == HandleTun(t, p, fault)
<1>1. CASE n = NoSession
  BY <1>1 DEF HandleTun
<1>2. CASE n # NoSession
  <2>1. p.dst \in Clients /\ t.route[p.dst] = n
    BY <1>2
  <2>2. n \in Tokens /\ n \in Known(t)
    <3>1. t.route[p.dst] \in Tokens \cup {NoSession} /\ t.route[p.dst] <= Len(t.session)
      BY <2>1 DEF Progress, Filed
    <3> QED
      BY <1>2, <2>1, <3>1 DEF Known, Tokens
  <2>3. CASE Exhausted(t.session[n].seq)
    <3>1. u = Ended(t, "overflow")
      BY <1>2, <2>3 DEF HandleTun
    <3> QED
      BY <3>1, StoppedEffect
  <2>4. CASE ~ Exhausted(t.session[n].seq) /\ ~ p.fits
    <3>1. u = Ended(t, "too_large")
      BY <1>2, <2>4 DEF HandleTun
    <3> QED
      BY <3>1, StoppedEffect
  <2>5. CASE ~ Exhausted(t.session[n].seq) /\ p.fits /\ fault = "send"
    <3>1. u = Ended(t, "os_error")
      BY <1>2, <2>5 DEF HandleTun
    <3> QED
      BY <3>1, StoppedEffect
  <2>6. CASE ~ Exhausted(t.session[n].seq) /\ p.fits /\ fault # "send"
    <3>1. u = Transmit(t, n, p)
      BY <1>2, <2>6 DEF HandleTun
    <3>2. t.session[n].seq <= MaxSequence
      <4>1. t.session[n].seq \in 0 .. MaxSequence + 1
        BY <2>2, SessionType DEF Progress, Known
      <4> QED
        BY <2>6, <4>1 DEF Exhausted
    <3> QED
      BY <2>1, <2>2, <3>1, <3>2, TransmitEffect
  <2> QED
    BY <2>3, <2>4, <2>5, <2>6
<1> QED
  BY <1>1, <1>2

(***************************************************************************)
(* The cache                                                               *)
(***************************************************************************)

\* Entries of the cache have changed places.
Shuffled(cache, r) ==
  /\ r \in Seq(Tokens) /\ Len(r) = Len(cache)
  /\ \E f \in [1 .. Len(cache) -> 1 .. Len(cache)] :
       /\ \A i \in 1 .. Len(cache) : r[i] = cache[f[i]]
       /\ \A i, j \in 1 .. Len(cache) : f[i] = f[j] => i = j
       /\ \A i \in 1 .. Len(cache) : \E j \in 1 .. Len(cache) : f[j] = i

\* Moving an entry to the end changes the order of entries only.
LEMMA MoveToEndEffect ==
  ASSUME NEW cache \in Seq(Tokens), NEW k \in 1 .. Len(cache)
  PROVE  Shuffled(cache, MoveToEnd(cache, k))
<1> DEFINE n == Len(cache)
           moved == MoveToEnd(cache, k)
           f == [i \in 1 .. n |-> IF i < k THEN i ELSE IF i < n THEN i + 1 ELSE k]
<1>1. n \in Nat /\ k \in Nat /\ k <= n
  BY LenProperties
<1>2. moved = [i \in 1 .. n |-> cache[f[i]]]
  BY DEF MoveToEnd
<1>3. f \in [1 .. n -> 1 .. n]
  BY <1>1
<1>4. \A i \in 1 .. n : cache[f[i]] \in Tokens
  BY <1>3, ElementOfSeq
<1>5. moved \in Seq(Tokens) /\ Len(moved) = n
  BY <1>1, <1>2, <1>4
<1>6. \A i, j \in 1 .. n : f[i] = f[j] => i = j
  BY <1>1
<1>7. ASSUME NEW i \in 1 .. n
      PROVE  \E j \in 1 .. n : f[j] = i
  <2>1. CASE i < k
    BY <1>1, <2>1
  <2>2. CASE i = k
    <3>1. n \in 1 .. n /\ f[n] = k
      BY <1>1
    <3> QED
      BY <2>2, <3>1
  <2>3. CASE i > k
    <3>1. i - 1 \in 1 .. n /\ f[i - 1] = i
      BY <1>1, <2>3
    <3> QED
      BY <3>1
  <2> QED
    BY <1>1, <2>1, <2>2, <2>3
<1>8. \A i \in 1 .. n : moved[i] = cache[f[i]]
  BY <1>2
<1> HIDE DEF f, moved
<1> QED
  BY <1>3, <1>5, <1>6, <1>7, <1>8 DEF Shuffled, moved

\* A new entry comes last; the oldest goes if the cache was full.
Kept(cache, r, gone) ==
  /\ Len(r) = Len(cache) + 1 - gone
  /\ \A i \in 1 .. Len(r) - 1 : i + gone \in 1 .. Len(cache) /\ r[i] = cache[i + gone]

Remembered(cache, r, n) ==
  /\ r \in Seq(Tokens) /\ Len(r) \in 1 .. CacheSize /\ r[Len(r)] = n
  /\ \/ Kept(cache, r, 0)
     \/ Kept(cache, r, 1) /\ Len(cache) = CacheSize

LEMMA RememberEffect ==
  ASSUME NEW cache \in Seq(Tokens), Len(cache) <= CacheSize, NEW n \in Tokens
  PROVE  Remembered(cache, Remember(cache, n), n)
<1> DEFINE r == Remember(cache, n)
<1>1. Len(cache) \in Nat /\ CacheSize \in Nat \ {0}
  BY LenProperties
<1>2. CASE Len(cache) < CacheSize
  <2>1. r = Append(cache, n)
    BY <1>2 DEF Remember
  <2>2. r \in Seq(Tokens) /\ Len(r) = Len(cache) + 1
    BY <2>1
  <2>3. r[Len(r)] = n /\ \A i \in 1 .. Len(r) - 1 : r[i] = cache[i]
    BY <1>1, <2>1
  <2> HIDE DEF r
  <2>4. Kept(cache, r, 0)
    <3>1. ASSUME NEW i \in 1 .. Len(r) - 1
          PROVE  i + 0 \in 1 .. Len(cache) /\ r[i] = cache[i + 0]
      <4>1. i + 0 = i /\ i \in 1 .. Len(cache)
        BY <1>1, <2>2
      <4> QED
        BY <2>3, <4>1
    <3> QED
      BY <1>1, <2>2, <3>1 DEF Kept
  <2> QED
    BY <1>1, <1>2, <2>2, <2>3, <2>4 DEF Remembered, r
<1>3. CASE ~ (Len(cache) < CacheSize)
  <2>1. Len(cache) = CacheSize
    BY <1>1, <1>3
  <2>2. cache # <<>>
    BY <1>1, <2>1
  <2>3. /\ Tail(cache) \in Seq(Tokens) /\ Len(Tail(cache)) = Len(cache) - 1
        /\ \A i \in 1 .. Len(cache) - 1 : Tail(cache)[i] = cache[i + 1]
    BY <2>2, HeadTailProperties
  <2>4. r = Append(Tail(cache), n)
    BY <1>3 DEF Remember
  <2>5. r \in Seq(Tokens) /\ Len(r) = Len(cache)
    BY <1>1, <2>3, <2>4
  <2>6. r[Len(r)] = n /\ \A i \in 1 .. Len(r) - 1 : r[i] = cache[i + 1]
    BY <1>1, <2>3, <2>4
  <2> HIDE DEF r
  <2>7. Kept(cache, r, 1)
    <3>1. ASSUME NEW i \in 1 .. Len(r) - 1
          PROVE  i + 1 \in 1 .. Len(cache)
      BY <1>1, <2>5
    <3> QED
      BY <1>1, <2>5, <2>6, <3>1 DEF Kept
  <2> QED
    BY <1>1, <2>1, <2>5, <2>6, <2>7 DEF Remembered, r
<1> QED
  BY <1>2, <1>3

(***************************************************************************)
(* A hello                                                                 *)
(***************************************************************************)

\* A hello found in the cache, at place k.
Repeated(t, u, k, addr) ==
  /\ u.status \in {t.status, "os_error"}
  /\ u.session = t.session /\ SameTables(t, u) /\ u.wrote = t.wrote
  /\ u.cache = MoveToEnd(t.cache, k)
  /\ u.out \in {t.out, t.out \cup {Reply(t.cache[k], addr)}}

LEMMA ReplyType ==
  ASSUME NEW n \in Tokens, NEW addr \in Addresses
  PROVE  Reply(n, addr) \in Datagram
BY DEF Reply, Datagram

LEMMA RepeatedEffect ==
  ASSUME NEW t \in Progress, NEW k \in 1 .. Len(t.cache), NEW addr \in Addresses, NEW fault
  PROVE  LET u == AnswerCached(t, k, addr, fault) IN
         u \in Progress /\ Repeated(t, u, k, addr)
<1> DEFINE v == [t EXCEPT !.cache = MoveToEnd(@, k)]
           u == AnswerCached(t, k, addr, fault)
<1>1. t.cache \in Seq(Tokens) /\ t.cache[k] \in Tokens
  BY ElementOfSeq DEF Progress
<1>2. MoveToEnd(t.cache, k) \in Seq(Tokens)
  BY <1>1, MoveToEndEffect DEF Shuffled
<1>3. /\ v.status = t.status /\ v.session = t.session /\ v.at = t.at /\ v.route = t.route
      /\ v.out = t.out /\ v.wrote = t.wrote /\ v.cache = MoveToEnd(t.cache, k)
  BY DEF Progress
<1>4. v \in Progress
  BY <1>2, <1>3 DEF Progress
<1>5. u = IF fault = "send" THEN Ended(v, "os_error") ELSE Emit(v, Reply(t.cache[k], addr))
  BY DEF AnswerCached
<1> HIDE DEF u, v
<1>6. CASE fault = "send"
  <2>1. u = Ended(v, "os_error")
    BY <1>5, <1>6
  <2>2. u \in Progress /\ Stopped(v, u) /\ u.status = "os_error"
    BY <1>4, <2>1, StoppedEffect, EndedEffect DEF Status
  <2> QED
    BY <1>3, <2>2 DEF Stopped, Repeated, SameTables, u
<1>7. CASE fault # "send"
  <2>1. u = Emit(v, Reply(t.cache[k], addr)) /\ Reply(t.cache[k], addr) \in Datagram
    BY <1>1, <1>5, <1>7, ReplyType
  <2>2. /\ u \in Progress /\ u.out = v.out \cup {Reply(t.cache[k], addr)}
        /\ u.status = v.status /\ u.session = v.session /\ u.cache = v.cache
        /\ SameTables(v, u) /\ u.wrote = v.wrote
    BY <1>4, <2>1, EmitEffect
  <2> QED
    BY <1>3, <2>2 DEF Repeated, SameTables, u
<1> QED
  BY <1>6, <1>7

\* What a new hello finds when it is accepted, and what it makes of it.
Acceptable(t, d) ==
  /\ Running(t) /\ Agree(t) /\ Filed(t)
  /\ Len(t.cache) <= CacheSize /\ Len(t.session) < MaxSessions
  /\ d.hello \in Hellos /\ d.addr \in Addresses /\ d.hello <= Len(hellos)

NewSession(d) ==
  [client |-> hellos[d.hello].client, addr |-> d.addr, sid |-> hellos[d.hello].sid,
   hello |-> d.hello, run |-> restarts, seq |-> 0, window |-> EmptyWindow]

Accepted(t, u, d) ==
  LET n == Len(t.session) + 1
      c == hellos[d.hello].client IN
  /\ u.session = Append(t.session, NewSession(d))
  /\ u.cache = Remember(t.cache, n)
  /\ u.wrote = t.wrote
  /\ \/ u.status = "os_error" /\ SameTables(t, u) /\ u.out = t.out
     \/ /\ u.status = t.status /\ u.route = [t.route EXCEPT ![c] = n]
        /\ u.out = t.out \cup {Reply(n, d.addr)}
     \/ /\ u.status = "value_error" /\ u.route \in {t.route, [t.route EXCEPT ![c] = NoSession]}
        /\ u.out = t.out \cup {Reply(n, d.addr)}
        /\ \E m \in Known(t) : t.session[m].addr = d.addr /\ t.session[m].client # c

LEMMA NewSessionType ==
  ASSUME hellos \in Seq([client : Clients, sid : SessionIds]), restarts \in 0 .. MaxRestarts,
         NEW d, d.hello \in Hellos, d.addr \in Addresses, d.hello <= Len(hellos)
  PROVE  NewSession(d) \in Session /\ NewSession(d).client = hellos[d.hello].client
<1>1. d.hello \in 1 .. Len(hellos)
  BY LenProperties DEF Hellos
<1>2. hellos[d.hello] \in [client : Clients, sid : SessionIds]
  BY <1>1, ElementOfSeq
<1> QED
  BY <1>2, EmptyRepresents DEF NewSession, Session

LEMMA AppendSession ==
  ASSUME NEW s \in Seq(Session), NEW x \in Session
  PROVE  /\ Append(s, x) \in Seq(Session) /\ Len(Append(s, x)) = Len(s) + 1
         /\ \A n \in 1 .. Len(s) : Append(s, x)[n] = s[n]
         /\ Append(s, x)[Len(s) + 1] = x
OBVIOUS

LEMMA AcceptedEffect ==
  ASSUME NEW t \in Progress, NEW d, Acceptable(t, d), NEW fault,
         hellos \in Seq([client : Clients, sid : SessionIds]), restarts \in 0 .. MaxRestarts
  PROVE  LET u == AcceptNew(t, d, restarts, fault) IN
         u \in Progress /\ Accepted(t, u, d) /\ Agree(u) /\ Filed(u)
<1> DEFINE n == Len(t.session) + 1
           x == NewSession(d)
           v == [t EXCEPT !.session = Append(@, x), !.cache = Remember(@, n)]
           u == AcceptNew(t, d, restarts, fault)
<1>1. /\ t.session \in Seq(Session) /\ t.cache \in Seq(Tokens) /\ Len(t.session) \in Nat
      /\ t.at \in [Keys -> Tokens \cup {NoSession}]
      /\ t.route \in [Clients -> Tokens \cup {NoSession}]
  BY LenProperties DEF Progress
<1>2. x \in Session /\ x.client = hellos[d.hello].client /\ x.addr = d.addr
  <2>1. x \in Session /\ x.client = hellos[d.hello].client
    BY NewSessionType DEF Acceptable
  <2> QED
    BY <2>1 DEF NewSession
<1>3. n \in Tokens
  BY <1>1 DEF Acceptable, Tokens
<1>4. /\ Append(t.session, x) \in Seq(Session) /\ Len(Append(t.session, x)) = n
      /\ \A m \in 1 .. Len(t.session) : Append(t.session, x)[m] = t.session[m]
      /\ Append(t.session, x)[n] = x
  BY <1>1, <1>2, AppendSession
<1>5. /\ Remember(t.cache, n) \in Seq(Tokens)
      /\ \A i \in 1 .. Len(Remember(t.cache, n)) : Remember(t.cache, n)[i] <= n
  <2> DEFINE r == Remember(t.cache, n)
  <2>1. Remembered(t.cache, r, n)
    BY <1>1, <1>3, RememberEffect DEF Acceptable
  <2> HIDE DEF r
  <2>2. r \in Seq(Tokens) /\ Len(r) \in Nat /\ r[Len(r)] = n
    BY <2>1, LenProperties DEF Remembered
  <2>3. \A i \in 1 .. Len(r) - 1 : \E j \in 1 .. Len(t.cache) : r[i] = t.cache[j]
    BY <2>1 DEF Remembered, Kept
  <2>4. ASSUME NEW i \in 1 .. Len(r)
        PROVE  r[i] <= n
    <3>1. CASE i = Len(r)
      BY <1>1, <2>2, <3>1
    <3>2. CASE i # Len(r)
      <4>1. i \in 1 .. Len(r) - 1
        BY <2>2, <3>2
      <4>2. r[i] <= Len(t.session)
        BY <2>3, <4>1 DEF Acceptable, Filed
      <4>3. r[i] \in Tokens
        BY <2>2, ElementOfSeq
      <4> QED
        BY <1>1, <4>2, <4>3 DEF Tokens
    <3> QED
      BY <3>1, <3>2
  <2> QED
    BY <2>2, <2>4 DEF r
<1>6. /\ v.status = t.status /\ v.at = t.at /\ v.route = t.route
      /\ v.out = t.out /\ v.wrote = t.wrote
      /\ v.session = Append(t.session, x) /\ v.cache = Remember(t.cache, n)
  BY DEF Progress
<1>7. v \in Progress
  BY <1>4, <1>5, <1>6 DEF Progress
<1>8. u = IF fault = "send" THEN Ended(v, "os_error")
                            ELSE ReplaceSession(Emit(v, Reply(n, d.addr)), n)
  BY DEF AcceptNew, NewSession
<1> HIDE DEF u, v, x
<1>9. Filed(v)
  <2>1. ASSUME NEW c \in Clients
        PROVE  t.route[c] <= n
    <3>1. t.route[c] \in Tokens \cup {NoSession} /\ t.route[c] <= Len(t.session)
      BY <1>1 DEF Acceptable, Filed
    <3> QED
      BY <1>1, <3>1 DEF NoSession, Tokens
  <2>2. ASSUME NEW k \in Keys
        PROVE  t.at[k] <= n
    <3>1. t.at[k] \in Tokens \cup {NoSession} /\ t.at[k] <= Len(t.session)
      BY <1>1 DEF Acceptable, Filed
    <3> QED
      BY <1>1, <3>1 DEF NoSession, Tokens
  <2>3. n <= MaxSessions
    BY <1>1 DEF Acceptable
  <2> QED
    BY <1>4, <1>5, <1>6, <2>1, <2>2, <2>3 DEF Filed
<1>10. Agree(v)
  <2>1. ASSUME NEW c \in Clients, t.route[c] # NoSession
        PROVE  v.session[t.route[c]] = t.session[t.route[c]]
    BY <1>1, <1>4, <1>6, <2>1, TokenIsKnown DEF Acceptable
  <2>2. ASSUME NEW k \in Keys, t.at[k] # NoSession
        PROVE  v.session[t.at[k]] = t.session[t.at[k]]
    BY <1>1, <1>4, <1>6, <2>2, TokenIsKnown DEF Acceptable
  <2>3. ASSUME NEW c \in Clients, v.route[c] # NoSession
        PROVE  v.session[v.route[c]].client = c /\ v.at[KeyOf(v.session[v.route[c]])] = v.route[c]
    <3>1. t.session[t.route[c]].client = c /\ t.at[KeyOf(t.session[t.route[c]])] = t.route[c]
      BY <1>6, <2>3 DEF Acceptable, Agree
    <3> QED
      BY <1>6, <2>1, <2>3, <3>1
  <2>4. ASSUME NEW k \in Keys, v.at[k] # NoSession
        PROVE  KeyOf(v.session[v.at[k]]) = k /\ v.route[v.session[v.at[k]].client] = v.at[k]
    <3>1. KeyOf(t.session[t.at[k]]) = k /\ t.route[t.session[t.at[k]].client] = t.at[k]
      BY <1>6, <2>4 DEF Acceptable, Agree
    <3> QED
      BY <1>6, <2>2, <2>4, <3>1
  <2> QED
    BY <2>3, <2>4 DEF Agree
<1>11. CASE fault = "send"
  <2>1. u = Ended(v, "os_error")
    BY <1>8, <1>11
  <2>2. u \in Progress /\ Stopped(v, u) /\ u.status = "os_error"
    BY <1>7, <2>1, StoppedEffect, EndedEffect DEF Status
  <2>3. Agree(u) /\ Filed(u)
    BY <1>9, <1>10, <2>2 DEF Stopped, SameTables, Agree, Filed
  <2>4. Accepted(t, u, d)
    BY <1>6, <2>2 DEF Accepted, Stopped, SameTables, x
  <2> QED
    BY <2>2, <2>3, <2>4 DEF u
<1>12. CASE fault # "send"
  <2> DEFINE w == Emit(v, Reply(n, d.addr))
  <2>1. u = ReplaceSession(w, n) /\ Reply(n, d.addr) \in Datagram
    BY <1>3, <1>8, <1>12, ReplyType DEF Acceptable
  <2>2. /\ w \in Progress /\ w.out = v.out \cup {Reply(n, d.addr)}
        /\ w.status = v.status /\ w.session = v.session /\ w.cache = v.cache
        /\ SameTables(v, w) /\ w.wrote = v.wrote
    BY <1>7, <2>1, EmitEffect
  <2> HIDE DEF w
  <2>3. Running(w) /\ Agree(w) /\ Filed(w) /\ n \in Known(w)
    <3>1. n \in Known(w)
      BY <1>1, <1>4, <1>6, <2>2 DEF Known
    <3>2. Agree(w) /\ Filed(w)
      BY <1>9, <1>10, <2>2 DEF Agree, Filed, SameTables
    <3> QED
      BY <1>6, <2>2, <3>1, <3>2 DEF Running, Acceptable
  <2>4. /\ u \in Progress
        /\ u.session = w.session /\ u.cache = w.cache
        /\ u.out = w.out /\ u.wrote = w.wrote
        /\ Agree(u) /\ Filed(u)
        /\ Replaced(w, u, n) \/ Collides(w, u, n)
    BY <1>3, <2>1, <2>2, <2>3, ReplaceEffect
  <2>5. w.session[n] = x /\ w.route = t.route /\ w.at = t.at /\ w.status = t.status
    BY <1>4, <1>6, <2>2 DEF SameTables
  <2>6. /\ u.session = Append(t.session, x) /\ u.cache = Remember(t.cache, n)
        /\ u.wrote = t.wrote /\ u.out = t.out \cup {Reply(n, d.addr)}
    BY <1>6, <2>2, <2>4
  <2>7. CASE Replaced(w, u, n)
    <3>1. u.status = t.status /\ u.route = [t.route EXCEPT ![hellos[d.hello].client] = n]
      BY <1>2, <2>5, <2>7 DEF Replaced
    <3>2. Accepted(t, u, d)
      BY <2>6, <3>1 DEF Accepted, x
    <3> QED
      BY <2>4, <3>2 DEF u
  <2>8. CASE Collides(w, u, n)
    <3> DEFINE m == t.at[KeyOf(x)]
    <3>1. /\ u.status = "value_error"
          /\ u.route \in {t.route, [t.route EXCEPT ![hellos[d.hello].client] = NoSession]}
          /\ m # NoSession /\ w.session[m].client # hellos[d.hello].client
      BY <1>2, <2>5, <2>8 DEF Collides
    <3>2. KeyOf(x) \in Keys
      BY <1>2 DEF KeyOf, Keys, Session
    <3>3. m \in 1 .. Len(t.session)
      BY <1>1, <3>1, <3>2 DEF Acceptable, Filed, NoSession, Tokens
    <3>4. w.session[m] = t.session[m]
      BY <1>4, <1>6, <2>2, <3>3
    <3>5. KeyOf(t.session[m]) = KeyOf(x)
      BY <3>1, <3>2 DEF Acceptable, Agree
    <3>6. t.session[m].addr = d.addr
      BY <1>2, <3>5 DEF KeyOf
    <3>7. \E q \in Known(t) : t.session[q].addr = d.addr /\ t.session[q].client # hellos[d.hello].client
      BY <3>1, <3>3, <3>4, <3>6 DEF Known
    <3>8. Accepted(t, u, d)
      BY <2>6, <3>1, <3>7 DEF Accepted, x
    <3> QED
      BY <2>4, <3>8 DEF u
  <2> QED
    BY <2>4, <2>7, <2>8
<1> QED
  BY <1>11, <1>12

(***************************************************************************)
(* A packet                                                                *)
(***************************************************************************)

\* DATA d was sealed for its session, is new to its window and was sent from
\* its client's address: it is marked, and written unless the write fails.
Taken(t, u, d) ==
  LET n == d.token IN
  /\ n \in Known(t) /\ n \in Tokens /\ d.type = "DATA" /\ d.seq \in Numbers
  /\ d.src = t.session[n].client
  /\ ~ IsReplay(t.session[n].window, d.seq)
  /\ u.session = [t.session EXCEPT ![n].window = MarkAuthenticated(@, d.seq)]
  /\ u.cache = t.cache /\ SameTables(t, u) /\ u.out = t.out
  /\ \/ u.status = "os_error" /\ u.wrote = t.wrote
     \/ u.status = t.status /\ u.wrote = t.wrote \cup {[token |-> n, seq |-> d.seq, src |-> d.src]}

LEMMA TakenEffect ==
  ASSUME NEW t \in Progress, Filed(t), NEW d \in Datagram, d.type \in {"DATA", "KEEPALIVE"},
         d.token \in Known(t), NEW fault
  PROVE  LET u == HandleData(t, d, fault) IN
         u \in Progress /\ (u = t \/ Taken(t, u, d))
<1> DEFINE n == t.at[<<d.addr, t.session[d.token].sid>>]
           v == [t EXCEPT !.session[n].window = MarkAuthenticated(@, d.seq)]
           w == [v EXCEPT !.wrote = @ \cup {[token |-> n, seq |-> d.seq, src |-> d.src]}]
           u == HandleData(t, d, fault)
<1>1. CASE Refuses(t, n, d)
  BY <1>1 DEF HandleData
<1>2. CASE ~ Refuses(t, n, d)
  <2>1. /\ d.type = "DATA" /\ d.token = n /\ d.src = t.session[n].client
        /\ ~ IsReplay(t.session[n].window, d.seq)
    BY <1>2 DEF Refuses
  <2>2. n \in Tokens /\ d.seq \in Numbers /\ d.src \in Sources /\ n \in 1 .. Len(t.session)
    BY <2>1, DatagramType DEF Known
  <2>3. u = IF fault = "write" THEN Ended(v, "os_error") ELSE w
    BY <1>2 DEF HandleData
  <2> HIDE DEF n, u
  <2> DEFINE x == t.session[n]
             y == [x EXCEPT !.window = MarkAuthenticated(@, d.seq)]
  <2>4. x \in Session /\ x.window \in Window /\ t.session \in Seq(Session)
    BY <2>2, SessionType DEF Progress
  <2>5. MarkAuthenticated(x.window, d.seq) \in Window
    BY <2>1, <2>2, <2>4, MarkType DEF Numbers
  <2>6. y \in Session
    BY <2>4, <2>5 DEF Session
  <2>7. [t.session EXCEPT ![n].window = MarkAuthenticated(@, d.seq)] \in Seq(Session)
    <3>1. [t.session EXCEPT ![n].window = MarkAuthenticated(@, d.seq)] = [t.session EXCEPT ![n] = y]
      OBVIOUS
    <3> QED
      BY <2>2, <2>4, <2>6, <3>1, ExceptSeq
  <2>8. /\ v.status = t.status /\ v.cache = t.cache /\ v.at = t.at /\ v.route = t.route
        /\ v.out = t.out /\ v.wrote = t.wrote
        /\ v.session = [t.session EXCEPT ![n].window = MarkAuthenticated(@, d.seq)]
    BY DEF Progress
  <2>9. v \in Progress
    BY <2>7, <2>8 DEF Progress
  <2>10. /\ w.status = v.status /\ w.cache = v.cache /\ w.at = v.at /\ w.route = v.route
         /\ w.out = v.out /\ w.session = v.session
         /\ w.wrote = v.wrote \cup {[token |-> n, seq |-> d.seq, src |-> d.src]}
    BY <2>9 DEF Progress
  <2>11. w \in Progress
    <3>1. [token |-> n, seq |-> d.seq, src |-> d.src] \in Packet
      BY <2>2 DEF Packet
    <3>2. w.wrote \in SUBSET Packet
      BY <2>9, <2>10, <3>1 DEF Progress
    <3>3. w = [v EXCEPT !.wrote = w.wrote]
      BY <2>9, <2>10 DEF Progress, w
    <3> QED
      BY <2>9, <3>2, <3>3 DEF Progress
  <2> HIDE DEF v, w
  <2>12. CASE fault = "write"
    <3>1. u = Ended(v, "os_error")
      BY <2>3, <2>12
    <3>2. u \in Progress /\ Stopped(v, u) /\ u.status = "os_error"
      BY <2>9, <3>1, StoppedEffect, EndedEffect DEF Status
    <3>3. Taken(t, u, d)
      BY <2>1, <2>2, <2>8, <3>2 DEF Taken, Stopped, SameTables, Known
    <3> QED
      BY <3>2, <3>3 DEF u
  <2>13. CASE fault # "write"
    <3>1. u = w
      BY <2>3, <2>13
    <3>2. Taken(t, u, d)
      BY <2>1, <2>2, <2>8, <2>10, <3>1 DEF Taken, SameTables, Known
    <3> QED
      BY <2>11, <3>1, <3>2 DEF u
  <2> QED
    BY <2>12, <2>13
<1> QED
  BY <1>1, <1>2

(***************************************************************************)
(* The moves of an iteration                                               *)
(***************************************************************************)

TunMove(t, u) ==
  \/ u = t
  \/ Stopped(t, u)
  \/ \E n \in Tokens, c \in Clients : Transmitted(t, u, n, c)

\* A hello may be accepted only if its client still waits for it, unless late
\* hellos arrive.
NetMove(t, u, d) ==
  \/ u = t
  \/ /\ d.type = "HELLO"
     /\ \E k \in CachedAt(t, d.hello) : Repeated(t, u, k, d.addr)
  \/ /\ d.type = "HELLO" /\ CachedAt(t, d.hello) = {}
     /\ LateHellos \/ client[hellos[d.hello].client].hello = d.hello
     /\ Acceptable(t, d) /\ Accepted(t, u, d)
  \/ Taken(t, u, d)

\* What every move but an acceptance leaves as it is.
Quiet(t, u) ==
  /\ SameSessions(t, u) /\ SameTables(t, u) /\ Shuffled(t.cache, u.cache)
  /\ u.status \in {t.status, "too_large", "overflow", "os_error"}

LEMMA ShuffledSame ==
  ASSUME NEW cache \in Seq(Tokens)
  PROVE  Shuffled(cache, cache)
<1> DEFINE f == [i \in 1 .. Len(cache) |-> i]
<1>1. /\ f \in [1 .. Len(cache) -> 1 .. Len(cache)]
      /\ \A i \in 1 .. Len(cache) : cache[i] = cache[f[i]]
      /\ \A i, j \in 1 .. Len(cache) : f[i] = f[j] => i = j
      /\ \A i \in 1 .. Len(cache) : \E j \in 1 .. Len(cache) : f[j] = i
  OBVIOUS
<1> HIDE DEF f
<1> QED
  BY <1>1 DEF Shuffled

LEMMA TunMoveIsQuiet ==
  ASSUME NEW t \in Progress, NEW u \in Progress, TunMove(t, u)
  PROVE  Quiet(t, u)
<1>1. t.session \in Seq(Session) /\ t.cache \in Seq(Tokens) /\ Shuffled(t.cache, t.cache)
  BY ShuffledSame DEF Progress
<1>2. SameSessions(t, t) /\ SameTables(t, t)
  BY DEF SameSessions, SameIdentity, SameTables
<1>3. CASE u = t
  BY <1>1, <1>2, <1>3 DEF Quiet
<1>4. CASE Stopped(t, u)
  <2>1. SameSessions(t, u)
    BY <1>2, <1>4 DEF Stopped, SameSessions
  <2> QED
    BY <1>1, <1>4, <2>1 DEF Stopped, Quiet
<1>5. ASSUME NEW n \in Tokens, NEW c \in Clients, Transmitted(t, u, n, c)
      PROVE  Quiet(t, u)
  <2>1. SameSessions(t, u)
    <3>1. u.session = [t.session EXCEPT ![n].seq = @ + 1] /\ n \in 1 .. Len(t.session)
      BY <1>5 DEF Transmitted, Known
    <3>2. Len(u.session) = Len(t.session)
      BY <1>1, <3>1
    <3>3. ASSUME NEW m \in 1 .. Len(t.session)
          PROVE  SameIdentity(t.session[m], u.session[m])
      <4>1. t.session[m] \in Session
        BY <1>1, SessionType
      <4>2. u.session[m] = IF m = n THEN [t.session[n] EXCEPT !.seq = @ + 1] ELSE t.session[m]
        BY <1>1, <3>1
      <4> QED
        BY <4>1, <4>2 DEF Session, SameIdentity
    <3> QED
      BY <3>2, <3>3 DEF SameSessions, Known
  <2> QED
    BY <1>1, <1>5, <2>1 DEF Transmitted, Quiet
<1> QED
  BY <1>3, <1>4, <1>5 DEF TunMove

LEMMA RepeatedIsQuiet ==
  ASSUME NEW t \in Progress, NEW u \in Progress, NEW k \in 1 .. Len(t.cache), NEW addr,
         Repeated(t, u, k, addr)
  PROVE  Quiet(t, u)
<1>1. SameSessions(t, u)
  BY DEF Repeated, SameSessions, SameIdentity
<1>2. Shuffled(t.cache, u.cache)
  <2>1. t.cache \in Seq(Tokens) /\ u.cache = MoveToEnd(t.cache, k)
    BY DEF Repeated, Progress
  <2> QED
    BY <2>1, MoveToEndEffect
<1> QED
  BY <1>1, <1>2 DEF Repeated, Quiet

LEMMA TakenIsQuiet ==
  ASSUME NEW t \in Progress, NEW u \in Progress, NEW d, Taken(t, u, d)
  PROVE  Quiet(t, u)
<1> DEFINE n == d.token
<1>1. t.session \in Seq(Session) /\ t.cache \in Seq(Tokens) /\ Shuffled(t.cache, t.cache)
  BY ShuffledSame DEF Progress
<1>2. /\ u.session = [t.session EXCEPT ![n].window = MarkAuthenticated(@, d.seq)]
      /\ n \in 1 .. Len(t.session)
  BY DEF Taken, Known
<1>3. Len(u.session) = Len(t.session)
  BY <1>1, <1>2
<1>4. ASSUME NEW m \in 1 .. Len(t.session)
      PROVE  SameIdentity(t.session[m], u.session[m])
  <2>1. t.session[m] \in Session
    BY <1>1, SessionType
  <2>2. u.session[m] = IF m = n THEN [t.session[n] EXCEPT !.window = MarkAuthenticated(@, d.seq)]
                                ELSE t.session[m]
    BY <1>1, <1>2
  <2> QED
    BY <2>1, <2>2 DEF Session, SameIdentity
<1>5. SameSessions(t, u)
  BY <1>3, <1>4 DEF SameSessions, Known
<1> QED
  BY <1>1, <1>5 DEF Taken, Quiet

(***************************************************************************)
(* The inductive invariant, part by part, of a record                      *)
(***************************************************************************)

\* A session belongs to the hello that it was accepted for, and lies at an
\* address of that hello's client.
Owned(t) ==
  \A n \in Known(t) :
    /\ t.session[n].hello <= Len(hellos)
    /\ hellos[t.session[n].hello].client = t.session[n].client
    /\ t.session[n].addr \in AddressesOf[t.session[n].client]
    /\ t.session[n].run <= restarts

\* The cache holds hellos of this run only, each once; if it can hold all
\* hellos, none was ever dropped from it.
Remembers(t) ==
  /\ Len(t.cache) <= CacheSize
  /\ \A i \in 1 .. Len(t.cache) : t.session[t.cache[i]].run = restarts
  /\ \A i, j \in 1 .. Len(t.cache) :
       t.session[t.cache[i]].hello = t.session[t.cache[j]].hello => i = j
  /\ MaxHellos <= CacheSize =>
       \A n \in Known(t) : t.session[n].run = restarts => \E i \in 1 .. Len(t.cache) : t.cache[i] = n

\* OneSessionPerHello, of a record.
OneSession(t) ==
  MaxHellos <= CacheSize =>
    \A m, n \in Known(t) :
      t.session[m].hello = t.session[n].hello /\ t.session[m].run = t.session[n].run => m = n

\* ReplaceNeverFails, of a record.
Harmless(t) == DisjointAddresses => t.status \notin {"key_error", "value_error"}

\* The session of a client's latest hello has the client's route.
Served(t) ==
  MaxHellos <= CacheSize /\ ~ LateHellos /\ Running(t) =>
    \A n \in Known(t) :
      t.session[n].run = restarts /\ t.session[n].hello = client[t.session[n].client].hello
        => t.route[t.session[n].client] = n

LEMMA QuietKeepsTables ==
  ASSUME NEW t \in Progress, NEW u \in Progress, Quiet(t, u), Filed(t)
  PROVE  Filed(u) /\ (Agree(t) => Agree(u))
<1>1. /\ Len(u.session) = Len(t.session) /\ u.at = t.at /\ u.route = t.route
      /\ \A n \in 1 .. Len(t.session) : SameIdentity(t.session[n], u.session[n])
      /\ Shuffled(t.cache, u.cache)
  BY DEF Quiet, SameSessions, SameTables, Known
<1>2. Filed(u)
  <2>1. ASSUME NEW i \in 1 .. Len(u.cache)
        PROVE  u.cache[i] <= Len(u.session)
    <3>1. \E j \in 1 .. Len(t.cache) : u.cache[i] = t.cache[j]
      BY <1>1 DEF Shuffled
    <3> QED
      BY <1>1, <3>1 DEF Filed
  <2> QED
    BY <1>1, <2>1 DEF Filed
<1>3. ASSUME Agree(t)
      PROVE  Agree(u)
  <2>1. ASSUME NEW c \in Clients, u.route[c] # NoSession
        PROVE  u.session[u.route[c]].client = c /\ u.at[KeyOf(u.session[u.route[c]])] = u.route[c]
    <3>1. SameIdentity(t.session[t.route[c]], u.session[t.route[c]])
      BY <1>1, <2>1, TokenIsKnown
    <3>2. t.session[t.route[c]].client = c /\ t.at[KeyOf(t.session[t.route[c]])] = t.route[c]
      BY <1>1, <1>3, <2>1 DEF Agree
    <3> QED
      BY <1>1, <3>1, <3>2 DEF SameIdentity, KeyOf
  <2>2. ASSUME NEW k \in Keys, u.at[k] # NoSession
        PROVE  KeyOf(u.session[u.at[k]]) = k /\ u.route[u.session[u.at[k]].client] = u.at[k]
    <3>1. SameIdentity(t.session[t.at[k]], u.session[t.at[k]])
      BY <1>1, <2>2, TokenIsKnown
    <3>2. KeyOf(t.session[t.at[k]]) = k /\ t.route[t.session[t.at[k]].client] = t.at[k]
      BY <1>1, <1>3, <2>2 DEF Agree
    <3> QED
      BY <1>1, <3>1, <3>2 DEF SameIdentity, KeyOf
  <2> QED
    BY <2>1, <2>2 DEF Agree
<1> QED
  BY <1>2, <1>3

LEMMA QuietKeepsSessions ==
  ASSUME NEW t \in Progress, NEW u \in Progress, Quiet(t, u), Filed(t)
  PROVE  /\ Owned(t) => Owned(u)
         /\ Remembers(t) => Remembers(u)
         /\ OneSession(t) => OneSession(u)
         /\ Harmless(t) => Harmless(u)
         /\ Served(t) => Served(u)
<1>1. /\ Len(u.session) = Len(t.session) /\ u.route = t.route /\ Known(u) = Known(t)
      /\ \A n \in Known(t) : SameIdentity(t.session[n], u.session[n])
      /\ u.status \in {t.status, "too_large", "overflow", "os_error"}
  BY DEF Quiet, SameSessions, SameTables, Known
<1>2. Owned(t) => Owned(u)
  BY <1>1 DEF Owned, SameIdentity
<1>3. OneSession(t) => OneSession(u)
  BY <1>1 DEF OneSession, SameIdentity
<1>4. Harmless(t) => Harmless(u)
  BY <1>1 DEF Harmless
<1>5. Served(t) => Served(u)
  BY <1>1 DEF Served, SameIdentity, Running
<1>6. ASSUME Remembers(t)
      PROVE  Remembers(u)
  <2>1. t.cache \in Seq(Tokens) /\ Len(u.cache) = Len(t.cache)
    BY DEF Progress, Quiet, Shuffled
  <2>2. PICK f \in [1 .. Len(t.cache) -> 1 .. Len(t.cache)] :
          /\ \A i \in 1 .. Len(t.cache) : u.cache[i] = t.cache[f[i]]
          /\ \A i, j \in 1 .. Len(t.cache) : f[i] = f[j] => i = j
          /\ \A i \in 1 .. Len(t.cache) : \E j \in 1 .. Len(t.cache) : f[j] = i
    BY DEF Quiet, Shuffled
  <2>3. ASSUME NEW i \in 1 .. Len(t.cache)
        PROVE  /\ f[i] \in 1 .. Len(t.cache) /\ u.cache[i] = t.cache[f[i]]
               /\ SameIdentity(t.session[t.cache[f[i]]], u.session[u.cache[i]])
    <3>1. f[i] \in 1 .. Len(t.cache) /\ u.cache[i] = t.cache[f[i]]
      BY <2>2
    <3>2. t.cache[f[i]] \in Tokens /\ t.cache[f[i]] <= Len(t.session)
      BY <2>1, <3>1, ElementOfSeq DEF Filed
    <3>3. t.cache[f[i]] \in Known(t)
      BY <3>2 DEF Known, Tokens
    <3> QED
      BY <1>1, <3>1, <3>3
  <2>4. \A i \in 1 .. Len(u.cache) : u.session[u.cache[i]].run = restarts
    BY <1>6, <2>1, <2>3 DEF Remembers, SameIdentity
  <2>5. \A i, j \in 1 .. Len(u.cache) :
          u.session[u.cache[i]].hello = u.session[u.cache[j]].hello => i = j
    <3>1. SUFFICES ASSUME NEW i \in 1 .. Len(t.cache), NEW j \in 1 .. Len(t.cache),
                          u.session[u.cache[i]].hello = u.session[u.cache[j]].hello
                   PROVE  i = j
      BY <2>1
    <3>2. t.session[t.cache[f[i]]].hello = t.session[t.cache[f[j]]].hello
      BY <2>3, <3>1 DEF SameIdentity
    <3>3. f[i] = f[j]
      BY <1>6, <2>3, <3>2 DEF Remembers
    <3> QED
      BY <2>2, <3>3
  <2>6. ASSUME MaxHellos <= CacheSize, NEW n \in Known(u), u.session[n].run = restarts
        PROVE  \E i \in 1 .. Len(u.cache) : u.cache[i] = n
    <3>1. t.session[n].run = restarts
      BY <1>1, <2>6 DEF SameIdentity
    <3>2. PICK i \in 1 .. Len(t.cache) : t.cache[i] = n
      BY <1>1, <1>6, <2>6, <3>1 DEF Remembers
    <3>3. PICK j \in 1 .. Len(t.cache) : f[j] = i
      BY <2>2
    <3> QED
      BY <2>1, <2>2, <3>2, <3>3
  <2> QED
    BY <1>6, <2>1, <2>4, <2>5, <2>6 DEF Remembers
<1> QED
  BY <1>2, <1>3, <1>4, <1>5, <1>6

\* A cache that can hold all hellos is not full when one is missing from it.
LEMMA RoomInCache ==
  ASSUME NEW t \in Progress, Filed(t), Remembers(t), MaxHellos <= CacheSize,
         NEW h \in Hellos, CachedAt(t, h) = {}
  PROVE  Len(t.cache) < CacheSize
<1>1. SUFFICES ASSUME Len(t.cache) = CacheSize
               PROVE  FALSE
  <2>1. t.cache \in Seq(Tokens)
    BY DEF Progress
  <2> QED
    BY <2>1, LenProperties DEF Remembers
<1> DEFINE S == 1 .. CacheSize + 1
           f == [i \in S |-> IF i = CacheSize + 1 THEN h ELSE t.session[t.cache[i]].hello]
<1>2. ASSUME NEW i \in S, i # CacheSize + 1
      PROVE  /\ i \in 1 .. Len(t.cache) /\ t.session[t.cache[i]].hello \in Hellos
             /\ t.session[t.cache[i]].hello # h
  <2>1. i \in 1 .. Len(t.cache)
    BY <1>1, <1>2
  <2>2. t.cache[i] \in Tokens /\ t.cache[i] <= Len(t.session)
    BY <2>1, ElementOfSeq DEF Filed, Progress
  <2>3. t.cache[i] \in 1 .. Len(t.session) /\ t.session \in Seq(Session)
    BY <2>2 DEF Tokens, Progress
  <2>4. t.session[t.cache[i]].hello \in Hellos
    BY <2>3, SessionType
  <2> QED
    BY <2>1, <2>4 DEF CachedAt
<1>3. f \in [S -> Hellos]
  BY <1>2
<1>4. /\ IsFiniteSet(S) /\ Cardinality(S) = CacheSize + 1
      /\ IsFiniteSet(Hellos) /\ Cardinality(Hellos) = MaxHellos
  <2>1. /\ IsFiniteSet(S) /\ Cardinality(S) = IF 1 > CacheSize + 1 THEN 0 ELSE CacheSize + 1 - 1 + 1
        /\ IsFiniteSet(Hellos) /\ Cardinality(Hellos) = IF 1 > MaxHellos THEN 0 ELSE MaxHellos - 1 + 1
    BY FS_Interval DEF Hellos
  <2> QED
    BY <2>1
<1>5. Cardinality(Hellos) < Cardinality(S)
  BY <1>4
<1>6. PICK i \in S, j \in S : i # j /\ f[i] = f[j]
  <2> HIDE DEF f, S
  <2>1. \E i, j \in S : i # j /\ f[i] = f[j]
    BY <1>3, <1>4, <1>5, FS_PigeonHole
  <2> QED
    BY <2>1
<1>7. CASE i = CacheSize + 1
  BY <1>2, <1>6, <1>7
<1>8. CASE j = CacheSize + 1
  BY <1>2, <1>6, <1>8
<1>9. CASE i # CacheSize + 1 /\ j # CacheSize + 1
  <2>1. t.session[t.cache[i]].hello = t.session[t.cache[j]].hello
    BY <1>6, <1>9
  <2> QED
    BY <1>2, <1>6, <1>9, <2>1 DEF Remembers
<1> QED
  BY <1>7, <1>8, <1>9

\* The parts of the invariant survive an acceptance.
Sound(t) == Owned(t) /\ Remembers(t) /\ OneSession(t) /\ Harmless(t) /\ Served(t)

LEMMA AcceptedKeeps ==
  ASSUME NEW t \in Progress, NEW u \in Progress, NEW d,
         hellos \in Seq([client : Clients, sid : SessionIds]), restarts \in 0 .. MaxRestarts,
         d.addr \in AddressesOf[hellos[d.hello].client],
         CachedAt(t, d.hello) = {},
         LateHellos \/ client[hellos[d.hello].client].hello = d.hello,
         Acceptable(t, d), Accepted(t, u, d), Sound(t)
  PROVE  Sound(u)
<1> DEFINE n == Len(t.session) + 1
           c == hellos[d.hello].client
           r == u.cache
<1>1. /\ t.session \in Seq(Session) /\ u.session \in Seq(Session) /\ t.cache \in Seq(Tokens)
      /\ Len(t.session) \in Nat /\ t.route \in [Clients -> Tokens \cup {NoSession}]
  BY LenProperties DEF Progress
<1>2. NewSession(d) \in Session /\ NewSession(d).client = c /\ c \in Clients
  <2>1. NewSession(d) \in Session /\ NewSession(d).client = c
    BY NewSessionType DEF Acceptable
  <2> QED
    BY <2>1 DEF Session
<1>3. /\ u.session = Append(t.session, NewSession(d)) /\ Len(u.session) = n
      /\ \A m \in Known(t) : u.session[m] = t.session[m]
      /\ u.session[n] = NewSession(d)
  BY <1>1, <1>2, AppendSession DEF Accepted, Known
<1>4. /\ u.session[n].client = c /\ u.session[n].addr = d.addr
      /\ u.session[n].hello = d.hello /\ u.session[n].run = restarts
  BY <1>2, <1>3 DEF NewSession
<1>5. \A m \in Known(u) : m = n \/ m \in Known(t)
  BY <1>1, <1>3 DEF Known
<1>6. /\ d.hello \in Hellos /\ d.hello <= Len(hellos) /\ Filed(t) /\ n \in Tokens
      /\ Running(t) /\ Len(t.cache) <= CacheSize
  BY <1>1 DEF Acceptable, Tokens
<1>7. Owned(u)
  <2>1. ASSUME NEW m \in Known(u)
        PROVE  /\ u.session[m].hello <= Len(hellos)
               /\ hellos[u.session[m].hello].client = u.session[m].client
               /\ u.session[m].addr \in AddressesOf[u.session[m].client]
               /\ u.session[m].run <= restarts
    <3>1. CASE m = n
      BY <1>4, <1>6, <3>1
    <3>2. CASE m \in Known(t)
      BY <1>3, <3>2 DEF Sound, Owned
    <3> QED
      BY <1>5, <3>1, <3>2
  <2> QED
    BY <2>1 DEF Owned
<1>8. Remembered(t.cache, r, n)
  BY <1>1, <1>6, RememberEffect DEF Accepted
<1> HIDE DEF n, c, r
\* While all hellos fit, no session of this run has the new one's hello.
<1>9. ASSUME MaxHellos <= CacheSize, NEW m \in Known(t), t.session[m].run = restarts
      PROVE  t.session[m].hello # d.hello
  <2>1. PICK i \in 1 .. Len(t.cache) : t.cache[i] = m
    BY <1>9 DEF Sound, Remembers
  <2> QED
    BY <2>1 DEF CachedAt
<1>10. Remembers(u)
  <2>1. /\ r \in Seq(Tokens) /\ Len(r) \in Nat \ {0} /\ Len(r) <= CacheSize /\ r[Len(r)] = n
        /\ Len(t.cache) \in Nat
    BY <1>1, <1>8, LenProperties DEF Remembered
  <2>2. PICK gone \in {0, 1} : Kept(t.cache, r, gone) /\ (gone = 1 => Len(t.cache) = CacheSize)
    BY <1>8 DEF Remembered
  <2> DEFINE Place(i) == i + gone
  <2>8. \A i, j \in 1 .. Len(r) : Place(i) = Place(j) => i = j
    BY <2>1
  <2>3. ASSUME NEW i \in 1 .. Len(r), i # Len(r)
        PROVE  /\ Place(i) \in 1 .. Len(t.cache) /\ r[i] = t.cache[Place(i)]
               /\ u.session[r[i]] = t.session[t.cache[Place(i)]]
    <3>1. i \in 1 .. Len(r) - 1
      BY <2>1, <2>3
    <3>2. Place(i) \in 1 .. Len(t.cache) /\ r[i] = t.cache[Place(i)]
      BY <2>2, <3>1 DEF Kept
    <3> HIDE DEF Place
    <3>3. t.cache[Place(i)] \in Tokens /\ t.cache[Place(i)] <= Len(t.session)
      BY <1>1, <1>6, <3>2, ElementOfSeq DEF Filed
    <3>4. t.cache[Place(i)] \in Known(t)
      BY <1>1, <3>3 DEF Known, Tokens
    <3>5. u.session[t.cache[Place(i)]] = t.session[t.cache[Place(i)]]
      BY <1>3, <3>4
    <3> QED
      BY <3>2, <3>5
  <2> HIDE DEF Place
  <2>4. ASSUME NEW i \in 1 .. Len(r)
        PROVE  u.session[r[i]].run = restarts
    <3>1. CASE i = Len(r)
      BY <1>4, <2>1, <3>1
    <3>2. CASE i # Len(r)
      BY <2>3, <3>2 DEF Sound, Remembers
    <3> QED
      BY <3>1, <3>2
  \* The other entries are hellos that were in the cache, and this one was not.
  <2>5. ASSUME NEW i \in 1 .. Len(r), i # Len(r)
        PROVE  u.session[r[i]].hello # u.session[r[Len(r)]].hello
    <3>1. t.session[t.cache[Place(i)]].hello # d.hello
      BY <2>3, <2>5 DEF CachedAt
    <3> QED
      BY <1>4, <2>1, <2>3, <2>5, <3>1
  <2>6. ASSUME NEW i \in 1 .. Len(r), NEW j \in 1 .. Len(r),
               u.session[r[i]].hello = u.session[r[j]].hello
        PROVE  i = j
    <3>1. CASE i = Len(r) \/ j = Len(r)
      BY <2>5, <2>6, <3>1
    <3>2. CASE i # Len(r) /\ j # Len(r)
      <4>1. /\ Place(i) \in 1 .. Len(t.cache) /\ Place(j) \in 1 .. Len(t.cache)
            /\ t.session[t.cache[Place(i)]].hello = t.session[t.cache[Place(j)]].hello
        BY <2>3, <2>6, <3>2
      <4>2. Place(i) = Place(j)
        BY <4>1 DEF Sound, Remembers
      <4> QED
        BY <2>8, <4>2
    <3> QED
      BY <3>1, <3>2
  <2>7. ASSUME MaxHellos <= CacheSize, NEW m \in Known(u), u.session[m].run = restarts
        PROVE  \E i \in 1 .. Len(r) : r[i] = m
    <3>1. CASE m = n
      <4>1. Len(r) \in 1 .. Len(r) /\ r[Len(r)] = m
        BY <2>1, <3>1
      <4> QED
        BY <4>1
    <3>2. CASE m \in Known(t)
      <4>1. Len(t.cache) < CacheSize
        BY <1>6, <2>7, RoomInCache DEF Sound
      <4>2. gone = 0
        BY <2>1, <2>2, <4>1
      <4>3. PICK i \in 1 .. Len(t.cache) : t.cache[i] = m
        BY <1>3, <2>7, <3>2 DEF Sound, Remembers
      <4>4. Len(r) = Len(t.cache) + 1
        BY <2>1, <2>2, <4>2 DEF Kept
      <4>5. i \in 1 .. Len(r) /\ i # Len(r) /\ Place(i) = i
        BY <2>1, <4>2, <4>4 DEF Place
      <4>6. r[i] = t.cache[i]
        BY <2>3, <4>5
      <4> QED
        BY <4>3, <4>5, <4>6
    <3> QED
      BY <1>5, <3>1, <3>2
  <2> QED
    BY <2>1, <2>4, <2>6, <2>7 DEF Remembers, r
<1>11. OneSession(u)
  <2>1. SUFFICES ASSUME MaxHellos <= CacheSize, NEW l \in Known(u), NEW m \in Known(u),
                        u.session[l].hello = u.session[m].hello, u.session[l].run = u.session[m].run
                 PROVE  l = m
    BY DEF OneSession
  <2>2. CASE l \in Known(t) /\ m \in Known(t)
    BY <1>3, <2>1, <2>2 DEF Sound, OneSession
  <2>3. CASE l \in Known(t) /\ m = n
    BY <1>3, <1>4, <1>9, <2>1, <2>3
  <2>4. CASE l = n /\ m \in Known(t)
    BY <1>3, <1>4, <1>9, <2>1, <2>4
  <2> QED
    BY <1>5, <2>2, <2>3, <2>4
<1>12. Harmless(u)
  <2>1. SUFFICES ASSUME DisjointAddresses
                 PROVE  u.status \notin {"key_error", "value_error"}
    BY DEF Harmless
  <2>2. t.status \notin {"key_error", "value_error"}
    BY <2>1 DEF Sound, Harmless
  <2>3. ASSUME NEW m \in Known(t), t.session[m].addr = d.addr, t.session[m].client # c
        PROVE  FALSE
    <3>1. t.session[m].client \in Clients /\ t.session[m].addr \in AddressesOf[t.session[m].client]
      BY <1>1, SessionType DEF Sound, Owned, Known
    <3> QED
      BY <1>2, <2>1, <2>3, <3>1 DEF DisjointAddresses, c
  <2> QED
    BY <2>2, <2>3 DEF Accepted, c
<1>13. Served(u)
  <2>1. SUFFICES ASSUME MaxHellos <= CacheSize, ~ LateHellos, Running(u),
                        NEW m \in Known(u), u.session[m].run = restarts,
                        u.session[m].hello = client[u.session[m].client].hello
                 PROVE  u.route[u.session[m].client] = m
    BY DEF Served
  <2>2. u.route = [t.route EXCEPT ![c] = n]
    BY <2>1 DEF Accepted, Running, c, n
  <2>3. CASE m = n
    BY <1>1, <1>2, <1>4, <2>2, <2>3
  <2>4. CASE m \in Known(t)
    <3>1. /\ t.session[m] = u.session[m] /\ t.session[m].client \in Clients
          /\ t.session[m].hello # d.hello
      BY <1>1, <1>3, <1>9, <2>1, <2>4, SessionType DEF Known
    <3>2. t.session[m].client # c
      BY <2>1, <3>1 DEF c
    <3>3. t.route[t.session[m].client] = m
      BY <1>6, <2>1, <2>4, <3>1 DEF Sound, Served
    <3> QED
      BY <1>1, <2>2, <3>1, <3>2, <3>3
  <2> QED
    BY <1>5, <2>3, <2>4
<1> QED
  BY <1>7, <1>10, <1>11, <1>12, <1>13 DEF Sound

(***************************************************************************)
(* What is sent and what is written                                        *)
(***************************************************************************)

\* Sessions are only added, and keep what they were created with.
Grows(t, u) ==
  /\ Len(t.session) <= Len(u.session)
  /\ \A n \in Known(t) : n \in Known(u) /\ SameIdentity(t.session[n], u.session[n])

\* Hellos are those of clients, everything else belongs to a session.
Sent(t) ==
  \A d \in net \cup t.out :
    /\ d.type = "HELLO" => d.hello <= Len(hellos) /\ d.addr \in AddressesOf[hellos[d.hello].client]
    /\ d.type # "HELLO" => d.token <= Len(t.session)

\* DownlinkIsPrivate, of a record.
Private(t) ==
  \A d \in net \cup t.out : d.type = "DOWN" =>
    /\ t.session[d.token].client = d.dst
    /\ d.seq < t.session[d.token].seq
    /\ \A e \in net \cup t.out :
         e.type = "DOWN" /\ e.token = d.token /\ e.seq = d.seq => e = d

IsWritten(t, n, q) == written[n][q] > 0 \/ \E w \in t.wrote : w.token = n /\ w.seq = q

\* What was written is a replay to its session's window, it was not written
\* before this iteration, and it came from the session's client.
Recorded(t) ==
  /\ \A n \in Tokens, q \in Numbers : IsWritten(t, n, q) =>
       /\ n \in Known(t) /\ IsReplay(t.session[n].window, q)
       /\ \E d \in net : /\ d.type = "DATA" /\ d.token = n /\ d.seq = q
                         /\ d.src = t.session[n].client
  /\ \A w \in t.wrote : written[w.token][w.seq] = 0

Traffic(t) == Sent(t) /\ Private(t) /\ Recorded(t)

LEMMA QuietGrows ==
  ASSUME NEW t, NEW u, SameSessions(t, u), Len(t.session) \in Nat
  PROVE  Grows(t, u)
BY DEF SameSessions, Grows, Known

LEMMA AcceptedGrows ==
  ASSUME NEW t \in Progress, NEW u \in Progress, NEW d, Acceptable(t, d), Accepted(t, u, d),
         hellos \in Seq([client : Clients, sid : SessionIds]), restarts \in 0 .. MaxRestarts
  PROVE  /\ Grows(t, u) /\ Len(u.session) = Len(t.session) + 1
         /\ \A n \in Known(t) : u.session[n] = t.session[n]
<1>1. t.session \in Seq(Session) /\ Len(t.session) \in Nat
  BY LenProperties DEF Progress
<1>2. NewSession(d) \in Session
  BY NewSessionType DEF Acceptable
<1>3. /\ Len(u.session) = Len(t.session) + 1
      /\ \A n \in 1 .. Len(t.session) : u.session[n] = t.session[n]
  <2>1. u.session = Append(t.session, NewSession(d))
    BY DEF Accepted
  <2> QED
    BY <1>1, <1>2, <2>1, AppendSession
<1> QED
  BY <1>1, <1>3 DEF Grows, Known, SameIdentity

\* Whatever leaves the windows alone and writes nothing.
LEMMA KeepsRecord ==
  ASSUME NEW t, NEW u, Grows(t, u), u.wrote = t.wrote, Recorded(t),
         \A n \in Known(t) : u.session[n].window = t.session[n].window
  PROVE  Recorded(u)
<1>1. ASSUME NEW n \in Tokens, NEW q \in Numbers, IsWritten(u, n, q)
      PROVE  /\ n \in Known(u) /\ IsReplay(u.session[n].window, q)
             /\ \E d \in net : /\ d.type = "DATA" /\ d.token = n /\ d.seq = q
                               /\ d.src = u.session[n].client
  <2>1. IsWritten(t, n, q)
    BY <1>1 DEF IsWritten
  <2>2. /\ n \in Known(t) /\ IsReplay(t.session[n].window, q)
        /\ \E d \in net : /\ d.type = "DATA" /\ d.token = n /\ d.seq = q
                          /\ d.src = t.session[n].client
    BY <2>1 DEF Recorded
  <2> QED
    BY <2>2 DEF Grows, SameIdentity
<1> QED
  BY <1>1 DEF Recorded

\* Whatever leaves the sessions' numbers alone and sends nothing but an answer.
LEMMA KeepsSent ==
  ASSUME NEW t \in Progress, NEW u \in Progress, NEW x, Grows(t, u), u.out \subseteq t.out \cup {x},
         u.out # t.out => x.type = "REPLY" /\ x.token <= Len(u.session),
         t.out \subseteq u.out, net \subseteq Datagram,
         \A n \in Known(t) : u.session[n].seq = t.session[n].seq,
         Sent(t), Private(t)
  PROVE  Sent(u) /\ Private(u)
<1>1. Len(t.session) \in Nat /\ Len(u.session) \in Nat /\ Len(t.session) <= Len(u.session)
  BY LenProperties DEF Progress, Grows
<1>2. ASSUME NEW d \in net \cup t.out, d.type # "HELLO"
      PROVE  d.token \in Known(t)
  <2>1. d \in Datagram
    BY DEF Progress
  <2>2. d.token \in Tokens
    BY <1>2, <2>1, DatagramType
  <2>3. d.token <= Len(t.session)
    BY <1>2 DEF Sent
  <2> QED
    BY <2>2, <2>3 DEF Tokens, Known
<1>3. ASSUME NEW d \in net \cup u.out
      PROVE  d \in net \cup t.out \/ (d.type = "REPLY" /\ d.token <= Len(u.session))
  OBVIOUS
<1>4. Sent(u)
  <2>1. ASSUME NEW d \in net \cup u.out
        PROVE  /\ d.type = "HELLO" =>
                    d.hello <= Len(hellos) /\ d.addr \in AddressesOf[hellos[d.hello].client]
               /\ d.type # "HELLO" => d.token <= Len(u.session)
    <3>1. CASE d \in net \cup t.out
      <4>1. d.type = "HELLO" =>
              d.hello <= Len(hellos) /\ d.addr \in AddressesOf[hellos[d.hello].client]
        BY <3>1 DEF Sent
      <4>2. d.type # "HELLO" => d.token <= Len(u.session)
        BY <1>1, <1>2, <3>1 DEF Known
      <4> QED
        BY <4>1, <4>2
    <3>2. CASE d.type = "REPLY" /\ d.token <= Len(u.session)
      BY <3>2
    <3> QED
      BY <1>3, <3>1, <3>2
  <2> QED
    BY <2>1 DEF Sent
<1>5. Private(u)
  <2>1. ASSUME NEW d \in net \cup u.out, d.type = "DOWN"
        PROVE  /\ u.session[d.token].client = d.dst
               /\ d.seq < u.session[d.token].seq
               /\ \A e \in net \cup u.out :
                    e.type = "DOWN" /\ e.token = d.token /\ e.seq = d.seq => e = d
    <3>1. d \in net \cup t.out
      BY <1>3, <2>1
    <3>2. /\ t.session[d.token].client = d.dst
          /\ d.seq < t.session[d.token].seq
          /\ \A e \in net \cup t.out :
               e.type = "DOWN" /\ e.token = d.token /\ e.seq = d.seq => e = d
      BY <2>1, <3>1 DEF Private
    <3>3. d.token \in Known(t)
      BY <1>2, <2>1, <3>1
    <3>4. u.session[d.token].client = d.dst /\ d.seq < u.session[d.token].seq
      BY <3>2, <3>3 DEF Grows, SameIdentity
    <3>5. \A e \in net \cup u.out : e.type = "DOWN" => e \in net \cup t.out
      BY <1>3
    <3> QED
      BY <3>2, <3>4, <3>5
  <2> QED
    BY <2>1 DEF Private
<1> QED
  BY <1>4, <1>5

LEMMA TunKeepsTraffic ==
  ASSUME NEW t \in Progress, NEW u \in Progress, TunMove(t, u), Agree(t), Filed(t),
         net \subseteq Datagram, Traffic(t)
  PROVE  Traffic(u)
<1>1. Quiet(t, u) /\ Len(t.session) \in Nat /\ t.session \in Seq(Session)
  BY TunMoveIsQuiet, LenProperties DEF Progress
<1>2. Grows(t, u)
  BY <1>1, QuietGrows DEF Quiet
<1>3. CASE u = t
  BY <1>3
<1>4. CASE Stopped(t, u)
  <2>1. u.session = t.session /\ u.out = t.out /\ u.wrote = t.wrote
    BY <1>4 DEF Stopped
  <2>2. Sent(u) /\ Private(u)
    BY <2>1 DEF Traffic, Sent, Private
  <2>3. Recorded(u)
    BY <1>2, <2>1, KeepsRecord DEF Traffic
  <2> QED
    BY <2>2, <2>3 DEF Traffic
<1>5. ASSUME NEW n \in Tokens, NEW c \in Clients, Transmitted(t, u, n, c)
      PROVE  Traffic(u)
  <2> DEFINE x == Downlink(t, n, c)
             s == t.session[n].seq
  <2>1. /\ u.session = [t.session EXCEPT ![n].seq = @ + 1] /\ n \in 1 .. Len(t.session)
        /\ u.out = t.out \cup {x} /\ u.wrote = t.wrote /\ t.route[c] = n /\ x \in Datagram
    BY <1>5 DEF Transmitted, Known
  <2>2. /\ Len(u.session) = Len(t.session)
        /\ \A m \in 1 .. Len(t.session) :
             u.session[m] = IF m = n THEN [t.session[n] EXCEPT !.seq = @ + 1] ELSE t.session[m]
    BY <1>1, <2>1
  <2>3. \A m \in 1 .. Len(t.session) : t.session[m] \in Session
    BY <1>1, SessionType
  <2>4. ASSUME NEW m \in 1 .. Len(t.session)
        PROVE  /\ u.session[m].window = t.session[m].window
               /\ u.session[m].client = t.session[m].client
               /\ u.session[m].seq = IF m = n THEN s + 1 ELSE t.session[m].seq
               /\ t.session[m].seq \in Int
    <3>1. t.session[m] \in Session /\ t.session[m].seq \in Int
      BY <2>3 DEF Session
    <3>2. CASE m = n
      <4>1. u.session[m] = [t.session[m] EXCEPT !.seq = @ + 1]
        BY <2>2, <3>2
      <4> QED
        BY <3>1, <3>2, <4>1 DEF Session
    <3>3. CASE m # n
      BY <2>2, <3>1, <3>3
    <3> QED
      BY <3>2, <3>3
  <2>5. /\ x.type = "DOWN" /\ x.token = n /\ x.seq = s /\ x.dst = c
    BY DEF Downlink
  <2>6. t.session[n].client = c
    BY <2>1 DEF Agree, NoSession, Tokens
  <2> HIDE DEF x, s
  <2>7. Recorded(u)
    BY <1>2, <2>1, <2>4, KeepsRecord DEF Traffic, Known
  <2>8. Sent(u)
    <3>1. x.token <= Len(u.session)
      BY <2>1, <2>2, <2>5
    <3> QED
      BY <2>1, <2>2, <2>5, <3>1 DEF Traffic, Sent
  <2>9. ASSUME NEW d \in net \cup t.out, d.type = "DOWN"
        PROVE  /\ d.token \in 1 .. Len(t.session) /\ d.seq \in Int
               /\ t.session[d.token].client = d.dst
               /\ d.seq < t.session[d.token].seq
               /\ \A e \in net \cup t.out :
                    e.type = "DOWN" /\ e.token = d.token /\ e.seq = d.seq => e = d
    <3>1. d \in Datagram
      BY DEF Progress
    <3>2. d.token \in Tokens /\ d.token <= Len(t.session) /\ d.seq \in Numbers
      BY <2>9, <3>1, DatagramType DEF Traffic, Sent
    <3>3. d.token \in 1 .. Len(t.session) /\ d.seq \in Int
      BY <3>2 DEF Tokens, Numbers
    <3> QED
      BY <2>9, <3>3 DEF Traffic, Private
  <2>10. ASSUME NEW d \in net \cup t.out, d.type = "DOWN"
         PROVE  /\ u.session[d.token].client = d.dst
                /\ d.seq < u.session[d.token].seq
                /\ ~ (d.token = n /\ d.seq = s)
    <3>1. /\ d.token \in 1 .. Len(t.session) /\ d.seq \in Int
          /\ t.session[d.token].client = d.dst /\ d.seq < t.session[d.token].seq
      BY <2>9, <2>10
    <3>2. ~ (d.token = n /\ d.seq = s)
      BY <2>4, <3>1 DEF s
    <3>3. d.seq < u.session[d.token].seq
      BY <2>4, <3>1 DEF s
    <3> QED
      BY <2>4, <3>1, <3>2, <3>3
  <2>11. u.session[n].client = c /\ s < u.session[n].seq
    BY <2>1, <2>4, <2>6 DEF s
  <2>12. Private(u)
    <3>1. ASSUME NEW d \in net \cup u.out, d.type = "DOWN"
          PROVE  /\ u.session[d.token].client = d.dst
                 /\ d.seq < u.session[d.token].seq
                 /\ \A e \in net \cup u.out :
                      e.type = "DOWN" /\ e.token = d.token /\ e.seq = d.seq => e = d
      <4>1. CASE d = x
        BY <2>1, <2>5, <2>10, <2>11, <4>1
      <4>2. CASE d \in net \cup t.out
        BY <2>1, <2>5, <2>9, <2>10, <3>1, <4>2
      <4> QED
        BY <2>1, <4>1, <4>2
    <3> QED
      BY <3>1 DEF Private
  <2> QED
    BY <2>7, <2>8, <2>12 DEF Traffic
<1> QED
  BY <1>3, <1>4, <1>5 DEF TunMove

LEMMA NetKeepsTraffic ==
  ASSUME NEW t \in Progress, NEW u \in Progress, NEW d \in net \cup {[type |-> "stray"]},
         NetMove(t, u, d), Filed(t),
         hellos \in Seq([client : Clients, sid : SessionIds]), restarts \in 0 .. MaxRestarts,
         written \in [Tokens -> [Numbers -> 0 .. 2]],
         net \subseteq Datagram, Traffic(t)
  PROVE  Traffic(u)
<1>1. Len(t.session) \in Nat /\ t.session \in Seq(Session) /\ t.cache \in Seq(Tokens)
  BY LenProperties DEF Progress
<1>2. CASE u = t
  BY <1>2
<1>3. ASSUME NEW k \in CachedAt(t, d.hello), Repeated(t, u, k, d.addr)
      PROVE  Traffic(u)
  <2> DEFINE x == Reply(t.cache[k], d.addr)
  <2>1. /\ u.session = t.session /\ u.wrote = t.wrote
        /\ u.out \in {t.out, t.out \cup {x}}
    BY <1>3 DEF Repeated
  <2>2. k \in 1 .. Len(t.cache)
    BY DEF CachedAt
  <2>3. Grows(t, u)
    <3>1. SameSessions(t, u)
      BY <2>1 DEF SameSessions, SameIdentity
    <3> QED
      BY <1>1, <3>1, QuietGrows
  <2>4. x.type = "REPLY" /\ x.token <= Len(u.session)
    BY <2>1, <2>2 DEF Reply, Filed
  <2> HIDE DEF x
  <2>5. Sent(u) /\ Private(u)
    BY <2>1, <2>3, <2>4, KeepsSent DEF Traffic
  <2>6. Recorded(u)
    BY <2>1, <2>3, KeepsRecord DEF Traffic
  <2> QED
    BY <2>5, <2>6 DEF Traffic
<1>4. CASE Acceptable(t, d) /\ Accepted(t, u, d)
  <2> DEFINE x == Reply(Len(t.session) + 1, d.addr)
  <2>1. u.wrote = t.wrote /\ u.out \in {t.out, t.out \cup {x}}
    BY <1>4 DEF Accepted
  <2>2. /\ Grows(t, u) /\ Len(u.session) = Len(t.session) + 1
        /\ \A n \in Known(t) : u.session[n] = t.session[n]
    BY <1>4, AcceptedGrows
  <2>3. x.type = "REPLY" /\ x.token <= Len(u.session)
    BY <1>1, <2>2 DEF Reply
  <2> HIDE DEF x
  <2>4. Sent(u) /\ Private(u)
    BY <2>1, <2>2, <2>3, KeepsSent DEF Traffic
  <2>5. Recorded(u)
    BY <2>1, <2>2, KeepsRecord DEF Traffic
  <2> QED
    BY <2>4, <2>5 DEF Traffic
<1>5. CASE Taken(t, u, d)
  <2> DEFINE n == d.token
             q == d.seq
             w == t.session[n].window
  <2>1. /\ n \in 1 .. Len(t.session) /\ n \in Tokens /\ q \in Numbers /\ q \in Nat
        /\ d.type = "DATA" /\ d.src = t.session[n].client /\ ~ IsReplay(w, q)
        /\ u.session = [t.session EXCEPT ![n].window = MarkAuthenticated(@, q)]
        /\ u.out = t.out
        /\ u.wrote \in {t.wrote, t.wrote \cup {[token |-> n, seq |-> q, src |-> d.src]}}
    BY <1>5 DEF Taken, Known, Numbers
  <2>2. d \in net
    BY <2>1
  <2>3. Grows(t, u)
    BY <1>1, <1>5, TakenIsQuiet, QuietGrows DEF Quiet
  <2>4. /\ Len(u.session) = Len(t.session)
        /\ \A m \in 1 .. Len(t.session) :
             u.session[m] = IF m = n THEN [t.session[n] EXCEPT !.window = MarkAuthenticated(@, q)]
                                     ELSE t.session[m]
    BY <1>1, <2>1
  <2>5. t.session[n] \in Session /\ w \in Window
    BY <1>1, <2>1, SessionType
  <2>6. \A m \in 1 .. Len(t.session) : u.session[m].seq = t.session[m].seq
    <3>1. u.session[n] = [t.session[n] EXCEPT !.window = MarkAuthenticated(@, q)]
      BY <2>1, <2>4
    <3>2. u.session[n].seq = t.session[n].seq
      BY <2>5, <3>1 DEF Session
    <3>3. \A m \in 1 .. Len(t.session) : m # n => u.session[m] = t.session[m]
      BY <2>4
    <3> QED
      BY <3>2, <3>3
  <2>7. /\ u.session[n].window = MarkAuthenticated(w, q)
        /\ \A m \in 1 .. Len(t.session) : m # n => u.session[m].window = t.session[m].window
    <3>1. \A m \in 1 .. Len(t.session) : m # n => u.session[m] = t.session[m]
      BY <2>4
    <3>2. u.session[n] = [t.session[n] EXCEPT !.window = MarkAuthenticated(@, q)]
      BY <2>1, <2>4
    <3>3. u.session[n].window = MarkAuthenticated(w, q)
      BY <2>5, <3>2 DEF Session
    <3> QED
      BY <3>1, <3>3
  <2> HIDE DEF w, n, q
  <2>8. Sent(u) /\ Private(u)
    BY <2>1, <2>3, <2>6, KeepsSent DEF Traffic, Known
  \* The window of n only learns.
  <2>9. ASSUME NEW m \in Known(t), NEW p \in Numbers, IsReplay(t.session[m].window, p)
        PROVE  IsReplay(u.session[m].window, p)
    <3>1. CASE m = n
      <4>1. p \in Nat
        BY DEF Numbers
      <4>2. IsReplay(w, p)
        BY <2>9, <3>1 DEF w
      <4> QED
        BY <2>1, <2>5, <2>7, <3>1, <4>1, <4>2, ReplayStaysReplay
    <3>2. CASE m # n
      BY <2>7, <2>9, <3>2 DEF Known
    <3> QED
      BY <3>1, <3>2
  <2>10. IsReplay(u.session[n].window, q)
    BY <2>1, <2>5, <2>7, MarkedIsReplay
  <2>11. ASSUME NEW m \in Tokens, NEW p \in Numbers, IsWritten(u, m, p)
         PROVE  /\ m \in Known(u) /\ IsReplay(u.session[m].window, p)
                /\ \E e \in net : /\ e.type = "DATA" /\ e.token = m /\ e.seq = p
                                  /\ e.src = u.session[m].client
    <3>1. CASE IsWritten(t, m, p)
      <4>1. /\ m \in Known(t) /\ IsReplay(t.session[m].window, p)
            /\ \E e \in net : /\ e.type = "DATA" /\ e.token = m /\ e.seq = p
                              /\ e.src = t.session[m].client
        BY <3>1 DEF Traffic, Recorded
      <4> QED
        BY <2>3, <2>9, <4>1 DEF Grows, SameIdentity
    <3>2. CASE ~ IsWritten(t, m, p)
      <4>1. m = n /\ p = q
        BY <2>1, <2>11, <3>2 DEF IsWritten
      <4>2. n \in Known(t) /\ d.src = u.session[n].client
        BY <2>1, <2>3 DEF Grows, SameIdentity, Known
      <4> QED
        BY <2>1, <2>2, <2>3, <2>10, <4>1, <4>2 DEF Grows, n, q
    <3> QED
      BY <3>1, <3>2
  <2>12. written[n][q] = 0
    <3>1. ~ IsWritten(t, n, q)
      BY <2>1 DEF Traffic, Recorded, w
    <3>2. written[n][q] \in 0 .. 2
      BY <2>1
    <3> QED
      BY <3>1, <3>2 DEF IsWritten
  <2>13. \A x \in u.wrote : written[x.token][x.seq] = 0
    BY <2>1, <2>12 DEF Traffic, Recorded
  <2> QED
    BY <2>8, <2>11, <2>13 DEF Traffic, Recorded
<1> QED
  BY <1>2, <1>3, <1>4, <1>5 DEF NetMove

(***************************************************************************)
(* One iteration                                                           *)
(***************************************************************************)

\* The record that an iteration begins with.
Begun ==
  [status |-> server.status, session |-> server.session, cache |-> server.cache,
   at |-> server.at, route |-> server.route, out |-> {}, wrote |-> {}]

\* What a client knows of its hello and of its session.
ClientsKnown ==
  \A c \in Clients :
    /\ client[c].addr \in AddressesOf[c]
    /\ client[c].hello <= Len(hellos)
    /\ client[c].hello # 0 => hellos[client[c].hello].client = c
    /\ client[c].phase # "down" => client[c].hello # 0
    /\ client[c].token <= Len(server.session)
    /\ client[c].phase = "up" =>
         client[c].token # 0 /\ server.session[client[c].token].hello = client[c].hello

\* The inductive invariant.
IInv ==
  /\ TypeOK
  /\ Filed(Begun) /\ Agree(Begun) /\ Sound(Begun) /\ Traffic(Begun)
  /\ ClientsKnown
  /\ WrittenAtMostOnce

LEMMA BegunType ==
  ASSUME TypeOK
  PROVE  /\ Begun \in Progress
         /\ hellos \in Seq([client : Clients, sid : SessionIds]) /\ restarts \in 0 .. MaxRestarts
         /\ written \in [Tokens -> [Numbers -> 0 .. 2]] /\ net \subseteq Datagram
         /\ client \in [Clients -> Client]
         /\ Begun.status = server.status /\ Begun.session = server.session
         /\ Begun.cache = server.cache /\ Begun.at = server.at /\ Begun.route = server.route
         /\ Begun.out = {} /\ Begun.wrote = {}
BY DEF TypeOK, Begun, Progress, Server

LEMMA HelloMoves ==
  ASSUME NEW t \in Progress, Agree(t), Filed(t), Running(t), Len(t.cache) <= CacheSize,
         NEW d \in Datagram, d.type = "HELLO", d.hello <= Len(hellos),
         LateHellos \/ client[hellos[d.hello].client].hello = d.hello,
         Len(t.session) < MaxSessions \/ CachedAt(t, d.hello) # {},
         hellos \in Seq([client : Clients, sid : SessionIds]), restarts \in 0 .. MaxRestarts,
         NEW fault
  PROVE  LET u == HandleHello(t, d, restarts, fault) IN
         u \in Progress /\ NetMove(t, u, d) /\ Agree(u) /\ Filed(u)
<1> DEFINE u == HandleHello(t, d, restarts, fault)
<1>1. d.hello \in Hellos /\ d.addr \in Addresses
  BY DatagramType
<1>2. CASE CachedAt(t, d.hello) # {}
  <2> DEFINE k == CHOOSE k \in CachedAt(t, d.hello) : TRUE
  <2>1. k \in CachedAt(t, d.hello)
    BY <1>2
  <2>2. u = AnswerCached(t, k, d.addr, fault)
    BY <1>2 DEF HandleHello
  <2> HIDE DEF u, k
  <2>3. k \in 1 .. Len(t.cache)
    BY <2>1 DEF CachedAt
  <2>4. u \in Progress /\ Repeated(t, u, k, d.addr)
    BY <1>1, <2>2, <2>3, RepeatedEffect
  <2>5. Agree(u) /\ Filed(u)
    BY <2>3, <2>4, RepeatedIsQuiet, QuietKeepsTables
  <2> QED
    BY <2>1, <2>4, <2>5 DEF NetMove, u
<1>3. CASE CachedAt(t, d.hello) = {}
  <2>1. u = AcceptNew(t, d, restarts, fault)
    BY <1>3 DEF HandleHello
  <2> HIDE DEF u
  <2>2. Acceptable(t, d)
    BY <1>1, <1>3 DEF Acceptable
  <2>3. u \in Progress /\ Accepted(t, u, d) /\ Agree(u) /\ Filed(u)
    BY <2>1, <2>2, AcceptedEffect
  <2> QED
    BY <1>3, <2>2, <2>3 DEF NetMove, u
<1> QED
  BY <1>2, <1>3

LEMMA IterationMoves ==
  ASSUME IInv, server.status = "running",
         NEW p \in TunPackets, NEW d \in Arrivals, NEW fault
  PROVE  LET u == Iteration(p, d, fault) IN
         /\ u \in Progress /\ Agree(u) /\ Filed(u)
         /\ \E t \in Progress :
              /\ TunMove(Begun, t) /\ Agree(t) /\ Filed(t)
              /\ NetMove(t, u, d)
<1> DEFINE t == IF p.dst = "nothing" THEN Begun ELSE HandleTun(Begun, p, fault)
           u == Iteration(p, d, fault)
<1>1. Begun \in Progress /\ Filed(Begun) /\ Agree(Begun) /\ Sound(Begun) /\ Traffic(Begun)
  BY BegunType DEF IInv
<1>2. u = IF ~ Running(t) \/ d.type = "stray" THEN t
          ELSE IF d.type = "HELLO" THEN HandleHello(t, d, restarts, fault)
          ELSE HandleData(t, d, fault)
  BY DEF Iteration, Begun
<1>3. t \in Progress /\ TunMove(Begun, t)
  <2>1. CASE p.dst = "nothing"
    BY <1>1, <2>1 DEF TunMove
  <2>2. CASE p.dst # "nothing"
    <3>1. t = HandleTun(Begun, p, fault)
      BY <2>2
    <3> HIDE DEF t
    <3>2. /\ t \in Progress
          /\ \/ t = Begun
             \/ Stopped(Begun, t)
             \/ \E n \in Tokens : Transmitted(Begun, t, n, p.dst)
      BY <1>1, <3>1, TunEffect
    <3>3. ASSUME NEW n \in Tokens, Transmitted(Begun, t, n, p.dst)
          PROVE  p.dst \in Clients
      BY <3>3 DEF Transmitted
    <3> QED
      BY <3>2, <3>3 DEF TunMove
  <2> QED
    BY <2>1, <2>2
<1> HIDE DEF t, u
<1>4. Agree(t) /\ Filed(t) /\ Quiet(Begun, t)
  BY <1>1, <1>3, TunMoveIsQuiet, QuietKeepsTables
<1>5. t.cache = server.cache /\ Len(t.cache) <= CacheSize
  <2>1. t.cache = Begun.cache
    BY <1>3 DEF TunMove, Stopped, Transmitted
  <2> QED
    BY <1>1, <2>1 DEF Sound, Remembers, Begun
<1>6. CASE ~ Running(t) \/ d.type = "stray"
  BY <1>2, <1>3, <1>4, <1>6 DEF NetMove, u
<1>7. CASE Running(t) /\ d.type = "HELLO"
  <2>1. /\ d \in net
        /\ LateHellos \/ client[hellos[d.hello].client].hello = d.hello
        /\ Len(server.session) < MaxSessions \/ CachedAt(server, d.hello) # {}
    BY <1>7 DEF Arrivals
  <2>2. d \in Datagram /\ d.hello <= Len(hellos)
    <3>1. d \in Datagram
      BY <2>1, BegunType DEF IInv
    <3>2. Sent(Begun)
      BY <1>1 DEF Traffic
    <3> QED
      BY <1>7, <2>1, <3>1, <3>2 DEF Sent
  <2>3. Len(t.session) = Len(server.session) /\ CachedAt(t, d.hello) = CachedAt(server, d.hello)
    <3>1. /\ Len(t.session) = Len(server.session)
          /\ \A n \in 1 .. Len(server.session) : t.session[n].hello = server.session[n].hello
      BY <1>4 DEF Quiet, SameSessions, SameIdentity, Known, Begun
    <3>2. ASSUME NEW i \in 1 .. Len(server.cache)
          PROVE  server.cache[i] \in 1 .. Len(server.session)
      <4>1. Begun.cache = server.cache /\ Begun.session = server.session
        BY DEF Begun
      <4>2. server.cache[i] \in Tokens /\ server.cache[i] <= Len(server.session)
        BY <1>1, <4>1, ElementOfSeq DEF Progress, Filed
      <4> QED
        BY <4>2 DEF Tokens
    <3> QED
      BY <1>5, <3>1, <3>2 DEF CachedAt
  <2>4. u = HandleHello(t, d, restarts, fault)
    BY <1>2, <1>7
  <2>5. Len(t.session) < MaxSessions \/ CachedAt(t, d.hello) # {}
    BY <2>1, <2>3
  <2>6. u \in Progress /\ NetMove(t, u, d) /\ Agree(u) /\ Filed(u)
    BY <1>3, <1>4, <1>5, <1>7, <2>1, <2>2, <2>4, <2>5, HelloMoves, BegunType DEF IInv
  <2> QED
    BY <1>3, <1>4, <2>6 DEF u
<1>8. CASE Running(t) /\ d.type # "stray" /\ d.type # "HELLO"
  <2>1. d \in net /\ d.type \in {"DATA", "KEEPALIVE"}
    BY <1>8 DEF Arrivals
  <2>2. d \in Datagram
    BY <2>1, BegunType DEF IInv
  <2>3. d.token \in Known(t)
    <3>1. d.token \in Tokens /\ d.token <= Len(Begun.session)
      BY <1>1, <1>8, <2>1, <2>2, DatagramType DEF Traffic, Sent
    <3>2. Len(t.session) = Len(Begun.session)
      BY <1>4 DEF Quiet, SameSessions
    <3> QED
      BY <3>1, <3>2 DEF Known, Tokens
  <2>4. u = HandleData(t, d, fault)
    BY <1>2, <1>8
  <2>5. u \in Progress /\ (u = t \/ Taken(t, u, d))
    BY <1>3, <1>4, <2>1, <2>2, <2>3, <2>4, TakenEffect
  <2>6. Agree(u) /\ Filed(u)
    BY <1>3, <1>4, <2>5, TakenIsQuiet, QuietKeepsTables
  <2> QED
    BY <1>3, <1>4, <2>5, <2>6 DEF NetMove, u
<1> QED
  BY <1>6, <1>7, <1>8

LEMMA IterationKeeps ==
  ASSUME IInv, server.status = "running",
         NEW p \in TunPackets, NEW d \in Arrivals, NEW fault
  PROVE  LET u == Iteration(p, d, fault) IN
         /\ u \in Progress /\ Agree(u) /\ Filed(u) /\ Sound(u) /\ Traffic(u)
         /\ Grows(server, u)
<1> DEFINE u == Iteration(p, d, fault)
<1>1. /\ Begun \in Progress /\ Filed(Begun) /\ Agree(Begun) /\ Sound(Begun) /\ Traffic(Begun)
      /\ hellos \in Seq([client : Clients, sid : SessionIds]) /\ restarts \in 0 .. MaxRestarts
      /\ written \in [Tokens -> [Numbers -> 0 .. 2]] /\ net \subseteq Datagram
  BY BegunType DEF IInv
<1>2. /\ u \in Progress /\ Agree(u) /\ Filed(u)
      /\ \E t \in Progress : TunMove(Begun, t) /\ Agree(t) /\ Filed(t) /\ NetMove(t, u, d)
  BY IterationMoves
<1> HIDE DEF u
<1>3. PICK t \in Progress : TunMove(Begun, t) /\ Agree(t) /\ Filed(t) /\ NetMove(t, u, d)
  BY <1>2
<1>4. Len(Begun.session) \in Nat /\ Len(t.session) \in Nat /\ Len(u.session) \in Nat
  BY <1>1, <1>2, LenProperties DEF Progress
<1>5. Quiet(Begun, t) /\ Sound(t) /\ Traffic(t) /\ Grows(Begun, t)
  <2>1. Quiet(Begun, t)
    BY <1>1, <1>3, TunMoveIsQuiet
  <2>2. Sound(t)
    BY <1>1, <1>3, <2>1, QuietKeepsSessions DEF Sound
  <2>3. Traffic(t)
    BY <1>1, <1>3, TunKeepsTraffic
  <2> QED
    BY <1>4, <2>1, <2>2, <2>3, QuietGrows DEF Quiet
<1>6. d \in net \cup {[type |-> "stray"]}
  BY DEF Arrivals
<1>7. Traffic(u)
  BY <1>1, <1>2, <1>3, <1>5, <1>6, NetKeepsTraffic
<1>8. Sound(u) /\ Grows(t, u)
  <2>1. CASE Quiet(t, u)
    BY <1>2, <1>3, <1>4, <1>5, <2>1, QuietKeepsSessions, QuietGrows DEF Sound, Quiet
  <2>2. CASE u = t
    <3>1. Grows(t, t)
      BY DEF Grows, SameIdentity
    <3> QED
      BY <1>5, <2>2, <3>1
  <2>3. ASSUME d.type = "HELLO", NEW k \in CachedAt(t, d.hello), Repeated(t, u, k, d.addr)
        PROVE  Quiet(t, u)
    <3>1. k \in 1 .. Len(t.cache)
      BY DEF CachedAt
    <3> QED
      BY <1>2, <2>3, <3>1, RepeatedIsQuiet
  <2>4. CASE Taken(t, u, d)
    BY <1>2, <2>1, <2>4, TakenIsQuiet
  <2>5. CASE /\ d.type = "HELLO" /\ CachedAt(t, d.hello) = {}
             /\ LateHellos \/ client[hellos[d.hello].client].hello = d.hello
             /\ Acceptable(t, d) /\ Accepted(t, u, d)
    <3>1. d \in net
      BY <1>6, <2>5
    <3>2. d.addr \in AddressesOf[hellos[d.hello].client]
      BY <1>1, <2>5, <3>1 DEF Traffic, Sent
    <3>3. Sound(u)
      BY <1>1, <1>2, <1>5, <2>5, <3>2, AcceptedKeeps
    <3>4. Grows(t, u)
      BY <1>1, <1>2, <2>5, AcceptedGrows
    <3> QED
      BY <3>3, <3>4
  <2> QED
    BY <1>3, <2>1, <2>2, <2>3, <2>4, <2>5 DEF NetMove
<1>9. Grows(server, u)
  <2>1. Grows(Begun, u)
    BY <1>4, <1>5, <1>8 DEF Grows, SameIdentity
  <2> QED
    BY <2>1 DEF Grows, Known, SameIdentity, Begun
<1> QED
  BY <1>2, <1>7, <1>8, <1>9 DEF u

LEMMA ServeKeeps ==
  ASSUME IInv, NEW p \in TunPackets, NEW d \in Arrivals, NEW fault, Serve(p, d, fault)
  PROVE  IInv'
<1> DEFINE u == Iteration(p, d, fault)
           InWrote(n, q) == \E w \in u.wrote : w.token = n /\ w.seq = q
<1>1. /\ server.status = "running"
      /\ server' = [status |-> u.status, session |-> u.session, cache |-> u.cache,
                    at |-> u.at, route |-> u.route]
      /\ net' = net \cup u.out
      /\ written' = [n \in Tokens |-> [q \in Numbers |->
           IF InWrote(n, q) THEN Once(written[n][q]) ELSE written[n][q]]]
      /\ client' = client /\ hellos' = hellos /\ restarts' = restarts
  BY DEF Serve
<1>2. /\ u \in Progress /\ Agree(u) /\ Filed(u) /\ Sound(u) /\ Traffic(u)
      /\ Grows(server, u)
  BY <1>1, IterationKeeps
<1>3. /\ TypeOK /\ written \in [Tokens -> [Numbers -> 0 .. 2]] /\ net \subseteq Datagram
      /\ client \in [Clients -> Client]
  BY BegunType DEF IInv
<1> HIDE DEF u
<1>4. /\ server'.status = u.status /\ server'.session = u.session /\ server'.cache = u.cache
      /\ server'.at = u.at /\ server'.route = u.route
      /\ Begun'.status = u.status /\ Begun'.session = u.session /\ Begun'.cache = u.cache
      /\ Begun'.at = u.at /\ Begun'.route = u.route
      /\ Begun'.out = {} /\ Begun'.wrote = {}
  BY <1>1 DEF Begun
<1>5. ASSUME NEW n \in Tokens, NEW q \in Numbers
      PROVE  /\ written'[n][q] = IF InWrote(n, q) THEN Once(written[n][q]) ELSE written[n][q]
             /\ written[n][q] \in 0 .. 1 /\ Once(written[n][q]) \in 1 .. 2
             /\ InWrote(n, q) => written[n][q] = 0
  <2>1. written'[n][q] = IF InWrote(n, q) THEN Once(written[n][q]) ELSE written[n][q]
    BY <1>1
  <2>2. written[n][q] \in 0 .. 2 /\ written[n][q] <= 1
    BY <1>3 DEF IInv, WrittenAtMostOnce
  <2>3. InWrote(n, q) => written[n][q] = 0
    BY <1>2 DEF Traffic, Recorded
  <2> QED
    BY <2>1, <2>2, <2>3 DEF Once
<1>6. WrittenAtMostOnce'
  BY <1>5 DEF WrittenAtMostOnce, Once
<1>7. TypeOK'
  <2>1. server' \in Server
    BY <1>1, <1>2 DEF Server, Progress
  <2>2. net' \subseteq Datagram
    BY <1>1, <1>2, <1>3 DEF Progress
  <2>3. written' \in [Tokens -> [Numbers -> 0 .. 2]]
    <3>1. ASSUME NEW n \in Tokens, NEW q \in Numbers
          PROVE  (IF InWrote(n, q) THEN Once(written[n][q]) ELSE written[n][q]) \in 0 .. 2
      BY <1>5
    <3> HIDE DEF InWrote
    <3> QED
      BY <1>1, <3>1
  <2> QED
    BY <1>1, <1>3, <2>1, <2>2, <2>3 DEF TypeOK
<1>8. Filed(Begun)' /\ Agree(Begun)'
  BY <1>2, <1>4 DEF Filed, Agree
<1>9. Sound(Begun)'
  BY <1>1, <1>2, <1>4 DEF Sound, Owned, Remembers, OneSession, Harmless, Served, Running, Known,
     DisjointAddresses
<1>10. Traffic(Begun)'
  <2>1. Sent(Begun)' /\ Private(Begun)'
    BY <1>1, <1>2, <1>4 DEF Traffic, Sent, Private
  <2>2. ASSUME NEW n \in Tokens, NEW q \in Numbers, IsWritten(Begun, n, q)'
        PROVE  IsWritten(u, n, q)
    <3>1. written'[n][q] > 0
      BY <1>4, <2>2 DEF IsWritten
    <3> QED
      BY <1>5, <3>1 DEF IsWritten
  <2>3. Recorded(Begun)'
    BY <1>1, <1>2, <1>4, <2>2 DEF Traffic, Recorded, Known
  <2> QED
    BY <2>1, <2>3 DEF Traffic
<1>11. ClientsKnown'
  <2>1. Len(server.session) \in Nat /\ Len(u.session) \in Nat
    BY <1>2, BegunType, LenProperties DEF Progress, IInv
  <2>2. ASSUME NEW c \in Clients
        PROVE  /\ client[c].token <= Len(u.session)
               /\ client[c].phase = "up" =>
                    u.session[client[c].token].hello = client[c].hello
    <3>1. client[c].token \in Tokens \cup {NoSession} /\ client[c].token <= Len(server.session)
      BY <1>3 DEF IInv, ClientsKnown, Client
    <3>2. client[c].token \in Nat
      BY <3>1 DEF Tokens, NoSession
    <3>3. client[c].token <= Len(u.session)
      BY <1>2, <2>1, <3>1, <3>2 DEF Grows
    <3>4. ASSUME client[c].phase = "up"
          PROVE  u.session[client[c].token].hello = client[c].hello
      <4>1. /\ client[c].token # 0
            /\ server.session[client[c].token].hello = client[c].hello
        BY <3>4 DEF IInv, ClientsKnown
      <4>2. client[c].token \in Known(server)
        BY <2>1, <3>1, <3>2, <4>1 DEF Known
      <4> QED
        BY <1>2, <4>1, <4>2 DEF Grows, SameIdentity
    <3> QED
      BY <3>3, <3>4
  <2> QED
    BY <1>1, <1>4, <2>2 DEF IInv, ClientsKnown
<1> QED
  BY <1>6, <1>7, <1>8, <1>9, <1>10, <1>11 DEF IInv

(***************************************************************************)
(* The other steps                                                         *)
(***************************************************************************)

LEMMA RestartKeeps ==
  ASSUME IInv, Restart
  PROVE  IInv'
<1>1. /\ TypeOK /\ Begun \in Progress /\ restarts \in 0 .. MaxRestarts
      /\ server.session \in Seq(Session) /\ Begun.session = server.session /\ Begun.out = {}
  BY BegunType DEF IInv, Progress
<1>2. /\ restarts' = restarts + 1 /\ restarts < MaxRestarts
      /\ server'.status = "running" /\ server'.session = server.session /\ server'.cache = <<>>
      /\ server'.at = [k \in Keys |-> NoSession] /\ server'.route = [c \in Clients |-> NoSession]
      /\ client' = client /\ hellos' = hellos /\ net' = net /\ written' = written
  BY DEF Restart, FreshServer
<1>3. /\ Begun'.status = "running" /\ Begun'.session = server.session /\ Begun'.cache = <<>>
      /\ Begun'.at = [k \in Keys |-> NoSession] /\ Begun'.route = [c \in Clients |-> NoSession]
      /\ Begun'.out = {} /\ Begun'.wrote = {} /\ Begun.wrote = {}
      /\ Known(Begun)' = Known(Begun)
  BY <1>1, <1>2 DEF Begun, Known
<1>4. TypeOK'
  <2>1. server' \in Server
    BY <1>1 DEF Restart, FreshServer, Server, Status
  <2> QED
    BY <1>1, <1>2, <2>1 DEF TypeOK
<1>5. Filed(Begun)' /\ Agree(Begun)'
  <2>1. Len(server.session) \in Nat /\ Len(server.session) <= MaxSessions
    BY <1>1, LenProperties DEF IInv, Filed
  <2> QED
    BY <1>3, <2>1 DEF Filed, Agree, NoSession
<1>6. \A n \in Known(Begun) : server.session[n].run < restarts'
  <2>1. ASSUME NEW n \in Known(Begun)
        PROVE  server.session[n].run \in Nat /\ server.session[n].run <= restarts
    BY <1>1, SessionType DEF IInv, Sound, Owned, Known
  <2> QED
    BY <1>1, <1>2, <2>1
<1>7. Sound(Begun)'
  <2>1. Owned(Begun)'
    <3>1. \A n \in Known(Begun) : server.session[n].run <= restarts'
      <4>1. \A n \in Known(Begun) : server.session[n].run \in Int
        BY <1>1, SessionType DEF Known
      <4> QED
        BY <1>1, <1>2, <1>6, <4>1
    <3> QED
      BY <1>1, <1>2, <1>3, <3>1 DEF IInv, Sound, Owned
  <2>2. \A n \in Known(Begun) : server.session[n].run # restarts'
    <3>1. \A n \in Known(Begun) : server.session[n].run \in Int
      BY <1>1, SessionType DEF Known
    <3> QED
      BY <1>1, <1>2, <1>6, <3>1
  <2>3. Remembers(Begun)'
    BY <1>3, <2>2 DEF Remembers
  <2>4. OneSession(Begun)'
    BY <1>1, <1>3 DEF IInv, Sound, OneSession
  <2>5. Harmless(Begun)'
    BY <1>3 DEF Harmless
  <2>6. Served(Begun)'
    BY <1>3, <2>2 DEF Served
  <2> QED
    BY <2>1, <2>3, <2>4, <2>5, <2>6 DEF Sound
<1>8. Traffic(Begun)'
  BY <1>1, <1>2, <1>3 DEF IInv, Traffic, Sent, Private, Recorded, IsWritten
<1>9. ClientsKnown' /\ WrittenAtMostOnce'
  BY <1>2 DEF IInv, ClientsKnown, WrittenAtMostOnce
<1> QED
  BY <1>4, <1>5, <1>7, <1>8, <1>9 DEF IInv

\* A hello that is new to everybody.
LEMMA ConnectKeeps ==
  ASSUME IInv, NEW c \in Clients, NEW sid \in SessionIds, NEW addr \in AddressesOf[c],
         Connect(c, sid, addr)
  PROVE  IInv'
<1> DEFINE h == Len(hellos) + 1
<1>1. /\ TypeOK /\ Begun \in Progress /\ client \in [Clients -> Client]
      /\ hellos \in Seq([client : Clients, sid : SessionIds]) /\ Len(hellos) \in Nat
      /\ Begun.session = server.session
  BY BegunType, LenProperties DEF IInv
<1>2. /\ Len(hellos) < MaxHellos
      /\ hellos' = Append(hellos, [client |-> c, sid |-> sid])
      /\ client' = [client EXCEPT ![c] =
           [phase |-> "hello", addr |-> addr, hello |-> h, tries |-> 0,
            token |-> NoSession, seq |-> 0]]
      /\ server' = server /\ net' = net /\ written' = written /\ restarts' = restarts
      /\ Begun' = Begun
  BY DEF Connect, Begun
<1>3. /\ hellos' \in Seq([client : Clients, sid : SessionIds]) /\ Len(hellos') = h
      /\ \A i \in 1 .. Len(hellos) : hellos'[i] = hellos[i]
      /\ hellos'[h].client = c
  BY <1>1, <1>2
<1>4. h \in Hellos /\ h \in Nat
  BY <1>1, <1>2 DEF Hellos
<1> HIDE DEF h
<1>5. \A e \in Clients : client'[e] = IF e = c
        THEN [phase |-> "hello", addr |-> addr, hello |-> h, tries |-> 0,
              token |-> NoSession, seq |-> 0]
        ELSE client[e]
  BY <1>1, <1>2
<1>6. TypeOK'
  <2>1. [phase |-> "hello", addr |-> addr, hello |-> h, tries |-> 0,
         token |-> NoSession, seq |-> 0] \in Client
    BY <1>4 DEF Client
  <2>2. client' \in [Clients -> Client]
    BY <1>1, <1>2, <2>1
  <2> QED
    BY <1>1, <1>2, <1>3, <2>2 DEF TypeOK
\* All hellos mentioned so far are older.
<1>7. \A n \in Known(Begun) : /\ Begun.session[n].hello \in 1 .. Len(hellos)
                              /\ Begun.session[n].client \in Clients
  <2>1. ASSUME NEW n \in Known(Begun)
        PROVE  /\ Begun.session[n].hello \in 1 .. Len(hellos)
               /\ Begun.session[n].client \in Clients
    <3>1. n \in 1 .. Len(Begun.session) /\ Begun.session \in Seq(Session)
      BY <1>1 DEF Known, Progress
    <3>2. Begun.session[n].hello \in Hellos /\ Begun.session[n].client \in Clients
      BY <3>1, SessionType
    <3>3. Begun.session[n].hello <= Len(hellos)
      BY DEF IInv, Sound, Owned
    <3> QED
      BY <1>1, <3>2, <3>3 DEF Hellos
  <2> QED
    BY <2>1
<1>8. Filed(Begun)' /\ Agree(Begun)'
  BY <1>2 DEF IInv, Filed, Agree
<1>9. Sound(Begun)'
  <2>1. Owned(Begun)'
    <3>1. ASSUME NEW n \in Known(Begun)
          PROVE  /\ Begun.session[n].hello <= Len(hellos')
                 /\ hellos'[Begun.session[n].hello].client = Begun.session[n].client
                 /\ Begun.session[n].addr \in AddressesOf[Begun.session[n].client]
                 /\ Begun.session[n].run <= restarts
      <4>1. hellos'[Begun.session[n].hello].client = Begun.session[n].client
        BY <1>3, <1>7 DEF IInv, Sound, Owned
      <4>2. Begun.session[n].hello <= Len(hellos')
        BY <1>1, <1>3, <1>7 DEF h
      <4> QED
        BY <4>1, <4>2 DEF IInv, Sound, Owned
    <3> QED
      BY <1>2, <3>1 DEF Owned, Known
  <2>2. Remembers(Begun)' /\ OneSession(Begun)' /\ Harmless(Begun)'
    BY <1>2 DEF IInv, Sound, Remembers, OneSession, Harmless, Known
  <2>3. Served(Begun)'
    <3>1. ASSUME NEW n \in Known(Begun),
                 Begun.session[n].hello = client'[Begun.session[n].client].hello
          PROVE  Begun.session[n].hello = client[Begun.session[n].client].hello
      <4>1. Begun.session[n].hello # h
        BY <1>1, <1>7 DEF h
      <4> QED
        BY <1>5, <1>7, <3>1, <4>1
    <3> QED
      BY <1>2, <3>1 DEF IInv, Sound, Served, Running, Known
  <2> QED
    BY <2>1, <2>2, <2>3 DEF Sound
<1>10. Traffic(Begun)'
  <2>1. Sent(Begun)'
    <3>1. ASSUME NEW d \in net \cup Begun.out, d.type = "HELLO"
          PROVE  d.hello <= Len(hellos') /\ d.addr \in AddressesOf[hellos'[d.hello].client]
      <4>1. d.hello <= Len(hellos) /\ d.addr \in AddressesOf[hellos[d.hello].client]
        BY <3>1 DEF IInv, Traffic, Sent
      <4>2. d \in Datagram
        BY BegunType DEF IInv, Progress
      <4>3. d.hello \in Hellos
        BY <3>1, <4>2, DatagramType
      <4>4. d.hello \in 1 .. Len(hellos)
        BY <1>1, <4>1, <4>3 DEF Hellos
      <4>5. d.hello <= Len(hellos')
        BY <1>1, <1>3, <4>4 DEF h
      <4> QED
        BY <1>3, <4>1, <4>4, <4>5
    <3> QED
      BY <1>2, <3>1 DEF IInv, Traffic, Sent
  <2>2. Private(Begun)' /\ Recorded(Begun)'
    BY <1>2 DEF IInv, Traffic, Private, Recorded, IsWritten, Known
  <2> QED
    BY <2>1, <2>2 DEF Traffic
<1>11. ClientsKnown'
  <2>1. ASSUME NEW e \in Clients
        PROVE  /\ client'[e].addr \in AddressesOf[e]
               /\ client'[e].hello <= Len(hellos')
               /\ client'[e].hello # 0 => hellos'[client'[e].hello].client = e
               /\ client'[e].phase # "down" => client'[e].hello # 0
               /\ client'[e].token <= Len(server.session)
               /\ client'[e].phase = "up" =>
                    client'[e].token # 0 /\ server.session[client'[e].token].hello = client'[e].hello
    <3>1. CASE e = c
      <4>1. client'[e] = [phase |-> "hello", addr |-> addr, hello |-> h, tries |-> 0,
                          token |-> NoSession, seq |-> 0]
        BY <1>5, <3>1
      <4>2. Len(server.session) \in Nat /\ h # 0
        BY <1>1, LenProperties DEF Progress, h
      <4> QED
        BY <1>3, <1>4, <3>1, <4>1, <4>2 DEF NoSession
    <3>2. CASE e # c
      <4>1. client'[e] = client[e] /\ client[e].hello \in Hellos \cup {0}
        BY <1>1, <1>5, <3>2 DEF Client
      <4>2. client[e].hello <= Len(hellos)
        BY DEF IInv, ClientsKnown
      <4>3. client[e].hello # 0 => client[e].hello \in 1 .. Len(hellos)
        BY <1>1, <4>1, <4>2 DEF Hellos
      <4>4. client[e].hello <= Len(hellos')
        BY <1>1, <1>3, <4>1, <4>2 DEF Hellos, h
      <4>5. client[e].hello # 0 => hellos'[client[e].hello].client = e
        BY <1>3, <4>3 DEF IInv, ClientsKnown
      <4> QED
        BY <4>1, <4>4, <4>5 DEF IInv, ClientsKnown
    <3> QED
      BY <3>1, <3>2
  <2> QED
    BY <1>2, <2>1 DEF ClientsKnown
<1>12. WrittenAtMostOnce'
  BY <1>2 DEF IInv, WrittenAtMostOnce
<1> QED
  BY <1>6, <1>8, <1>9, <1>10, <1>11, <1>12 DEF IInv

\* A step of one client that keeps its hello, and may send x.
LEMMA ClientKeeps ==
  ASSUME IInv, NEW c \in Clients, NEW y \in Client, NEW x,
         client' = [client EXCEPT ![c] = y],
         UNCHANGED <<server, hellos, written, restarts>>,
         y.hello = client[c].hello, y.addr \in AddressesOf[c], client[c].phase # "down",
         y.token <= Len(server.session),
         y.phase = "up" => y.token # 0 /\ server.session[y.token].hello = y.hello,
         \/ net' = net
         \/ /\ net' = net \cup {x} /\ x \in Datagram /\ x.type # "DOWN"
            /\ x.type = "HELLO" =>
                 x.hello <= Len(hellos) /\ x.addr \in AddressesOf[hellos[x.hello].client]
            /\ x.type # "HELLO" => x.token <= Len(server.session)
  PROVE  IInv'
<1>1. /\ TypeOK /\ client \in [Clients -> Client] /\ net \subseteq Datagram
      /\ Begun' = Begun /\ Begun.session = server.session /\ Begun.out = {}
      /\ Begun \in Progress /\ Len(server.session) \in Nat
  BY BegunType, LenProperties DEF IInv, Begun, Progress
<1>2. client' \in [Clients -> Client] /\ \A e \in Clients : client'[e] = IF e = c THEN y ELSE client[e]
  BY <1>1
<1>3. \A e \in Clients : client'[e].hello = client[e].hello
  BY <1>2
<1>4. net' \subseteq Datagram /\ net \subseteq net'
  BY <1>1
<1>5. TypeOK'
  BY <1>1, <1>2, <1>4 DEF TypeOK
<1>6. Filed(Begun)' /\ Agree(Begun)'
  BY <1>1 DEF IInv, Filed, Agree
<1>7. Sound(Begun)'
  <2>1. \A n \in Known(Begun) : Begun.session[n].client \in Clients
    BY <1>1, SessionType DEF Known, Progress
  <2>2. Served(Begun)'
    BY <1>1, <1>3, <2>1 DEF IInv, Sound, Served, Running, Known
  <2> QED
    BY <1>1, <2>2 DEF IInv, Sound, Owned, Remembers, OneSession, Harmless, Known
<1>8. Traffic(Begun)'
  <2>1. Sent(Begun)'
    BY <1>1 DEF IInv, Traffic, Sent
  <2>2. Private(Begun)'
    <3>1. \A d \in net' : d.type = "DOWN" => d \in net
      OBVIOUS
    <3> QED
      BY <1>1, <1>4, <3>1 DEF IInv, Traffic, Private
  <2>3. Recorded(Begun)'
    BY <1>1, <1>4 DEF IInv, Traffic, Recorded, IsWritten, Known
  <2> QED
    BY <2>1, <2>2, <2>3 DEF Traffic
<1>9. ClientsKnown'
  <2>1. ASSUME NEW e \in Clients
        PROVE  /\ client'[e].addr \in AddressesOf[e]
               /\ client'[e].hello <= Len(hellos)
               /\ client'[e].hello # 0 => hellos[client'[e].hello].client = e
               /\ client'[e].phase # "down" => client'[e].hello # 0
               /\ client'[e].token <= Len(server.session)
               /\ client'[e].phase = "up" =>
                    client'[e].token # 0 /\ server.session[client'[e].token].hello = client'[e].hello
    <3>1. CASE e = c
      BY <1>2, <3>1 DEF IInv, ClientsKnown
    <3>2. CASE e # c
      BY <1>2, <3>2 DEF IInv, ClientsKnown
    <3> QED
      BY <3>1, <3>2
  <2> QED
    BY <2>1 DEF ClientsKnown
<1>10. WrittenAtMostOnce'
  BY DEF IInv, WrittenAtMostOnce
<1> QED
  BY <1>5, <1>6, <1>7, <1>8, <1>9, <1>10 DEF IInv

\* What ClientKeeps needs to know of a client.
LEMMA ClientFacts ==
  ASSUME IInv, NEW c \in Clients
  PROVE  /\ client \in [Clients -> Client] /\ client[c] \in Client
         /\ client[c].addr \in AddressesOf[c] /\ client[c].addr \in Addresses
         /\ AddressesOf[c] \subseteq Addresses
         /\ client[c].token \in Tokens \cup {NoSession}
         /\ client[c].token <= Len(server.session)
         /\ client[c].hello <= Len(hellos)
         /\ client[c].phase # "down" =>
              client[c].hello \in Hellos /\ hellos[client[c].hello].client = c
         /\ client[c].phase = "up" => /\ client[c].token \in Tokens
                                      /\ server.session[client[c].token].hello = client[c].hello
<1>1. client \in [Clients -> Client] /\ client[c] \in Client
  BY BegunType DEF IInv
<1> QED
  BY <1>1 DEF IInv, ClientsKnown, Client, NoSession, Tokens

LEMMA SendHelloKeeps ==
  ASSUME IInv, NEW c \in Clients, SendHello(c)
  PROVE  IInv'
<1> DEFINE n == client[c].tries + 1
           y == [client[c] EXCEPT !.phase = "waiting", !.tries = n]
           x == [type |-> "HELLO", hello |-> client[c].hello, addr |-> client[c].addr]
<1>1. /\ client \in [Clients -> Client] /\ client[c] \in Client
      /\ client[c].addr \in AddressesOf[c] /\ client[c].addr \in Addresses
      /\ client[c].token <= Len(server.session) /\ client[c].hello <= Len(hellos)
      /\ client[c].phase = "hello" => client[c].hello \in Hellos /\ hellos[client[c].hello].client = c
  BY ClientFacts
<1>2. /\ client' = [client EXCEPT ![c].phase = "waiting", ![c].tries = @ + 1]
      /\ client[c].phase = "hello" /\ client[c].tries < Attempts
      /\ net' = net \cup {x} /\ UNCHANGED <<server, hellos, written, restarts>>
  BY DEF SendHello
<1>3. client' = [client EXCEPT ![c] = y]
  BY <1>1, <1>2
<1>4. n \in 0 .. Attempts
  BY <1>1, <1>2 DEF Client
<1> HIDE DEF n
<1>6. /\ y \in Client /\ y.hello = client[c].hello /\ y.addr = client[c].addr
      /\ y.token = client[c].token /\ y.phase = "waiting"
  BY <1>1, <1>4 DEF Client
<1>5. /\ x \in Datagram /\ x.type = "HELLO" /\ x.hello = client[c].hello /\ x.addr = client[c].addr
  BY <1>1, <1>2 DEF Datagram
<1> HIDE DEF x, y
<1>7. /\ net' = net \cup {x} /\ x \in Datagram /\ x.type # "DOWN"
      /\ x.type = "HELLO" =>
           x.hello <= Len(hellos) /\ x.addr \in AddressesOf[hellos[x.hello].client]
      /\ x.type # "HELLO" => x.token <= Len(server.session)
  BY <1>1, <1>2, <1>5
<1>8. /\ UNCHANGED <<server, hellos, written, restarts>>
      /\ y.addr \in AddressesOf[c] /\ y.token <= Len(server.session)
      /\ client[c].phase # "down" /\ y.phase # "up"
  BY <1>1, <1>2, <1>6
<1> QED
  BY <1>3, <1>6, <1>7, <1>8, ClientKeeps

LEMMA FinishHelloKeeps ==
  ASSUME IInv, NEW c \in Clients, NEW d \in net, FinishHello(c, d)
  PROVE  IInv'
<1> DEFINE y == [client[c] EXCEPT !.phase = "up", !.token = d.token]
<1>1. /\ client \in [Clients -> Client] /\ client[c] \in Client
      /\ client[c].addr \in AddressesOf[c]
  BY ClientFacts
<1>2. /\ client' = [client EXCEPT ![c].phase = "up", ![c].token = d.token]
      /\ client[c].phase = "waiting" /\ d.type = "REPLY"
      /\ server.session[d.token].hello = client[c].hello
      /\ net' = net /\ UNCHANGED <<server, hellos, written, restarts>>
  BY DEF FinishHello
<1>3. d.token \in Tokens /\ d.token <= Len(server.session) /\ d.token # 0
  <2>1. d \in Datagram
    BY BegunType DEF IInv
  <2>2. d.token \in Tokens /\ d.token <= Len(Begun.session)
    BY <1>2, <2>1, DatagramType DEF IInv, Traffic, Sent
  <2> QED
    BY <2>2 DEF Begun, Tokens
<1>4. client' = [client EXCEPT ![c] = y]
  BY <1>1, <1>2
<1>5. /\ y \in Client /\ y.hello = client[c].hello /\ y.addr = client[c].addr
      /\ y.token = d.token /\ y.phase = "up"
  BY <1>1, <1>3 DEF Client
<1> HIDE DEF y
<1>6. /\ net' = net /\ UNCHANGED <<server, hellos, written, restarts>>
      /\ y.addr \in AddressesOf[c] /\ y.token <= Len(server.session)
      /\ client[c].phase # "down" /\ y.token # 0 /\ server.session[y.token].hello = y.hello
  BY <1>1, <1>2, <1>3, <1>5
<1> QED
  BY <1>4, <1>5, <1>6, ClientKeeps

LEMMA MissReplyKeeps ==
  ASSUME IInv, NEW c \in Clients, MissReply(c)
  PROVE  IInv'
<1> DEFINE y == [client[c] EXCEPT !.phase = "hello"]
<1>1. /\ client \in [Clients -> Client] /\ client[c] \in Client
      /\ client[c].addr \in AddressesOf[c] /\ client[c].token <= Len(server.session)
  BY ClientFacts
<1>2. /\ client' = [client EXCEPT ![c].phase = "hello"] /\ client[c].phase = "waiting"
      /\ net' = net /\ UNCHANGED <<server, hellos, written, restarts>>
  BY DEF MissReply
<1>3. client' = [client EXCEPT ![c] = y]
  BY <1>1, <1>2
<1>4. /\ y \in Client /\ y.hello = client[c].hello /\ y.addr = client[c].addr
      /\ y.token = client[c].token /\ y.phase = "hello"
  BY <1>1 DEF Client
<1> HIDE DEF y
<1> QED
  BY <1>1, <1>2, <1>3, <1>4, ClientKeeps

LEMMA LeaveKeeps ==
  ASSUME IInv, NEW c \in Clients, Leave(c)
  PROVE  IInv'
<1> DEFINE y == [client[c] EXCEPT !.phase = "down"]
<1>1. /\ client \in [Clients -> Client] /\ client[c] \in Client
      /\ client[c].addr \in AddressesOf[c] /\ client[c].token <= Len(server.session)
  BY ClientFacts
<1>2. /\ client' = [client EXCEPT ![c].phase = "down"] /\ client[c].phase # "down"
      /\ net' = net /\ UNCHANGED <<server, hellos, written, restarts>>
  BY DEF Leave
<1>3. client' = [client EXCEPT ![c] = y]
  BY <1>1, <1>2
<1>4. /\ y \in Client /\ y.hello = client[c].hello /\ y.addr = client[c].addr
      /\ y.token = client[c].token /\ y.phase = "down"
  BY <1>1 DEF Client
<1> HIDE DEF y
<1> QED
  BY <1>1, <1>2, <1>3, <1>4, ClientKeeps

LEMMA SendKeeps ==
  ASSUME IInv, NEW c \in Clients, NEW type \in UpTypes, NEW src \in Sources, Send(c, type, src)
  PROVE  IInv'
<1> DEFINE n == client[c].seq + 1
           y == [client[c] EXCEPT !.seq = n]
           x == [type |-> type, token |-> client[c].token, seq |-> client[c].seq,
                 addr |-> client[c].addr, src |-> src]
<1>1. /\ client \in [Clients -> Client] /\ client[c] \in Client
      /\ client[c].addr \in AddressesOf[c] /\ client[c].addr \in Addresses
      /\ client[c].token <= Len(server.session)
      /\ client[c].phase = "up" => /\ client[c].token \in Tokens
                                   /\ server.session[client[c].token].hello = client[c].hello
  BY ClientFacts
<1>2. /\ client' = [client EXCEPT ![c].seq = @ + 1]
      /\ client[c].phase = "up" /\ client[c].seq <= MaxSequence
      /\ net' = net \cup {x} /\ UNCHANGED <<server, hellos, written, restarts>>
  BY DEF Send
<1>3. client' = [client EXCEPT ![c] = y]
  BY <1>1, <1>2
<1>4. n \in 0 .. MaxSequence + 1 /\ client[c].seq \in 0 .. MaxSequence
  <2>1. client[c].seq \in 0 .. MaxSequence + 1
    BY <1>1 DEF Client
  <2> QED
    BY <1>2, <2>1
<1> HIDE DEF n
<1>5. /\ y \in Client /\ y.hello = client[c].hello /\ y.addr = client[c].addr
      /\ y.token = client[c].token /\ y.phase = client[c].phase
  BY <1>1, <1>4 DEF Client
<1>6. /\ x \in Datagram /\ x.type \in {"DATA", "KEEPALIVE"} /\ x.token = client[c].token
  BY <1>1, <1>2, <1>4 DEF Datagram, Numbers
<1>7. client[c].token # 0
  BY <1>1, <1>2 DEF Tokens
<1> HIDE DEF x, y
<1>8. /\ net' = net \cup {x} /\ x.type # "DOWN" /\ x.type # "HELLO"
      /\ x.token <= Len(server.session)
      /\ UNCHANGED <<server, hellos, written, restarts>>
      /\ y.addr \in AddressesOf[c] /\ y.token <= Len(server.session)
      /\ client[c].phase # "down" /\ y.token # 0 /\ server.session[y.token].hello = y.hello
  BY <1>1, <1>2, <1>5, <1>6, <1>7
<1> QED
  BY <1>3, <1>5, <1>6, <1>8, ClientKeeps

LEMMA RebindKeeps ==
  ASSUME IInv, NEW c \in Clients, NEW addr \in AddressesOf[c], Rebind(c, addr)
  PROVE  IInv'
<1> DEFINE y == [client[c] EXCEPT !.addr = addr]
<1>1. /\ client \in [Clients -> Client] /\ client[c] \in Client
      /\ AddressesOf[c] \subseteq Addresses /\ client[c].token <= Len(server.session)
      /\ client[c].phase = "up" => /\ client[c].token \in Tokens
                                   /\ server.session[client[c].token].hello = client[c].hello
  BY ClientFacts
<1>2. /\ client' = [client EXCEPT ![c].addr = addr] /\ client[c].phase # "down"
      /\ net' = net /\ UNCHANGED <<server, hellos, written, restarts>>
  BY DEF Rebind
<1>3. client' = [client EXCEPT ![c] = y]
  BY <1>1, <1>2
<1>4. /\ y \in Client /\ y.hello = client[c].hello /\ y.addr = addr
      /\ y.token = client[c].token /\ y.phase = client[c].phase
  BY <1>1 DEF Client
<1>5. client[c].phase = "up" => client[c].token # 0
  BY <1>1 DEF Tokens
<1> HIDE DEF y
<1>6. /\ net' = net /\ UNCHANGED <<server, hellos, written, restarts>>
      /\ y.addr \in AddressesOf[c] /\ y.token <= Len(server.session)
      /\ y.phase = "up" => y.token # 0 /\ server.session[y.token].hello = y.hello
  BY <1>1, <1>2, <1>4, <1>5
<1> QED
  BY <1>2, <1>3, <1>4, <1>6, ClientKeeps

(***************************************************************************)
(* The invariant                                                           *)
(***************************************************************************)

LEMMA InitIInv ==
  ASSUME Init
  PROVE  IInv
<1>1. /\ server = FreshServer(<<>>) /\ hellos = <<>> /\ net = {} /\ restarts = 0
      /\ client = [c \in Clients |->
           [phase |-> "down", addr |-> CHOOSE a \in AddressesOf[c] : TRUE, hello |-> 0,
            tries |-> 0, token |-> NoSession, seq |-> 0]]
      /\ written = [n \in Tokens |-> [q \in Numbers |-> 0]]
  BY DEF Init
<1>2. /\ server.status = "running" /\ server.session = <<>> /\ server.cache = <<>>
      /\ server.at = [k \in Keys |-> NoSession] /\ server.route = [c \in Clients |-> NoSession]
      /\ server \in Server
  BY <1>1 DEF FreshServer, Server, Status
<1>3. Len(<<>>) = 0
  OBVIOUS
<1>4. ASSUME NEW c \in Clients
      PROVE  /\ client[c].addr \in AddressesOf[c] /\ client[c] \in Client
             /\ client[c].hello = 0 /\ client[c].token = 0 /\ client[c].phase = "down"
  <2>1. AddressesOf[c] # {} /\ AddressesOf[c] \subseteq Addresses
    OBVIOUS
  <2> DEFINE a == CHOOSE a \in AddressesOf[c] : TRUE
  <2>2. a \in AddressesOf[c] /\ a \in Addresses
    BY <2>1
  <2>3. client[c] = [phase |-> "down", addr |-> a, hello |-> 0, tries |-> 0,
                     token |-> NoSession, seq |-> 0]
    BY <1>1
  <2> HIDE DEF a
  <2> QED
    BY <2>2, <2>3 DEF Client, NoSession
<1>5. TypeOK
  <2>1. client \in [Clients -> Client]
    BY <1>1, <1>4
  <2> QED
    BY <1>1, <1>2, <2>1 DEF TypeOK
<1>6. /\ Begun.status = "running" /\ Begun.session = <<>> /\ Begun.cache = <<>>
      /\ Begun.at = [k \in Keys |-> NoSession] /\ Begun.route = [c \in Clients |-> NoSession]
      /\ Begun.out = {} /\ Begun.wrote = {}
  BY <1>2 DEF Begun
<1>7. Known(Begun) = {}
  BY <1>3, <1>6 DEF Known
<1>8. Filed(Begun) /\ Agree(Begun)
  BY <1>3, <1>6 DEF Filed, Agree, NoSession
<1>9. Sound(Begun)
  BY <1>3, <1>6, <1>7 DEF Sound, Owned, Remembers, OneSession, Harmless, Served
<1>10. Traffic(Begun)
  BY <1>1, <1>6 DEF Traffic, Sent, Private, Recorded, IsWritten
<1>11. ClientsKnown
  BY <1>1, <1>2, <1>3, <1>4 DEF ClientsKnown
<1>12. WrittenAtMostOnce
  BY <1>1 DEF WrittenAtMostOnce
<1> QED
  BY <1>5, <1>8, <1>9, <1>10, <1>11, <1>12 DEF IInv

LEMMA NextIInv ==
  ASSUME IInv, [Next]_vars
  PROVE  IInv'
<1>1. ASSUME NEW p \in TunPackets, NEW d \in Arrivals, NEW fault \in FaultKinds, Serve(p, d, fault)
      PROVE  IInv'
  BY <1>1, ServeKeeps
<1>2. CASE Restart
  BY <1>2, RestartKeeps
<1>3. ASSUME NEW c \in Clients, NEW sid \in SessionIds, NEW addr \in AddressesOf[c],
             Connect(c, sid, addr)
      PROVE  IInv'
  BY <1>3, ConnectKeeps
<1>4. ASSUME NEW c \in Clients, SendHello(c)
      PROVE  IInv'
  BY <1>4, SendHelloKeeps
<1>5. ASSUME NEW c \in Clients, NEW d \in net, FinishHello(c, d)
      PROVE  IInv'
  BY <1>5, FinishHelloKeeps
<1>6. ASSUME NEW c \in Clients, MissReply(c)
      PROVE  IInv'
  BY <1>6, MissReplyKeeps
<1>7. ASSUME NEW c \in Clients, Leave(c)
      PROVE  IInv'
  BY <1>7, LeaveKeeps
<1>8. ASSUME NEW c \in Clients, NEW type \in UpTypes, NEW src \in Sources, Send(c, type, src)
      PROVE  IInv'
  BY <1>8, SendKeeps
<1>9. ASSUME NEW c \in Clients, NEW addr \in AddressesOf[c], Rebind(c, addr)
      PROVE  IInv'
  BY <1>9, RebindKeeps
<1>10. CASE UNCHANGED vars
  <2>1. /\ server' = server /\ client' = client /\ hellos' = hellos /\ net' = net
        /\ written' = written /\ restarts' = restarts /\ Begun' = Begun
    BY <1>10 DEF vars, Begun
  <2> QED
    BY <2>1 DEF IInv, TypeOK, Filed, Agree, Sound, Owned, Remembers, OneSession, Harmless, Served,
       Running, Traffic, Sent, Private, Recorded, IsWritten, Known, ClientsKnown, WrittenAtMostOnce
<1> QED
  BY <1>1, <1>2, <1>3, <1>4, <1>5, <1>6, <1>7, <1>8, <1>9, <1>10 DEF Next

\* The inductive invariant holds of every reachable state.
THEOREM Invariance == Spec => []IInv
<1>1. Init => IInv
  BY InitIInv
<1>2. IInv /\ [Next]_vars => IInv'
  BY NextIInv
<1> QED
  BY <1>1, <1>2, PTL DEF Spec

(***************************************************************************)
(* What it implies                                                         *)
(***************************************************************************)

\* Every variable keeps its type: no counter of the server or of a client
\* passes its bound, and every window stays one.
THEOREM TypeCorrect == Spec => []TypeOK
<1>1. IInv => TypeOK
  BY DEF IInv
<1> QED
  BY <1>1, Invariance, PTL

\* The engine's two dictionaries describe the same sessions after any sequence
\* of acceptances, replacements, failures and restarts (MultiClientServerEngine).
THEOREM TablesAlwaysAgree == Spec => []TablesAgree
<1>1. IInv => TablesAgree
  BY DEF IInv, Agree, Begun, TablesAgree
<1> QED
  BY <1>1, Invariance, PTL

\* As long as clients do not share source addresses, replace_session never
\* raises, so that no client's hello ends the server for the others.
THEOREM ReplaceIsSafe == Spec => []ReplaceNeverFails
<1>1. IInv => ReplaceNeverFails
  BY DEF IInv, Sound, Harmless, Begun, ReplaceNeverFails
<1> QED
  BY <1>1, Invariance, PTL

\* No packet of a session is written to the server's TUN twice, however often
\* and in whatever order its datagram arrives (handle_udp_packet, SlidingWindow).
THEOREM NeverWrittenTwice == Spec => []WrittenAtMostOnce
<1>1. IInv => WrittenAtMostOnce
  BY DEF IInv
<1> QED
  BY <1>1, Invariance, PTL

\* Whatever reaches the server's TUN was sent by the client of that session
\* with that client's inner source address.
THEOREM NothingSpoofed == Spec => []WrittenFromOwner
<1>1. IInv => WrittenFromOwner
  BY DEF IInv, Traffic, Recorded, IsWritten, Begun, WrittenFromOwner
<1> QED
  BY <1>1, Invariance, PTL

\* A packet for a client leaves under that client's session, with a number that
\* no other packet of the session has (handle_tun_packet).
THEOREM DownlinkAlwaysPrivate == Spec => []DownlinkIsPrivate
<1>1. IInv => DownlinkIsPrivate
  BY DEF IInv, Traffic, Private, Begun, DownlinkIsPrivate
<1> QED
  BY <1>1, Invariance, PTL

\* With a cache that holds every hello, no hello is accepted twice in a run of
\* the server: the pigeonhole argument of RoomInCache.
THEOREM HelloIsAcceptedOnce == Spec => []OneSessionPerHello
<1>1. IInv => OneSessionPerHello
  BY DEF IInv, Sound, OneSession, Known, Begun, OneSessionPerHello
<1> QED
  BY <1>1, Invariance, PTL

\* With such a cache and no hello that outlives its handshake, a client that is
\* up has the route to its tunnel address: what the server accepted last for it
\* is what it runs on.
THEOREM ConnectedIsAlwaysServed == Spec => []ConnectedIsServed
<1>1. ASSUME IInv
      PROVE  ConnectedIsServed
  <2>1. SUFFICES ASSUME MaxHellos <= CacheSize, ~ LateHellos, NEW c \in Clients,
                        client[c].phase = "up", server.status = "running",
                        server.session[client[c].token].run = restarts
                 PROVE  /\ server.route[c] = client[c].token
                        /\ (\A a, b \in AddressesOf[c] : a = b)
                             => server.session[client[c].token].addr = client[c].addr
    BY DEF ConnectedIsServed
  <2> DEFINE n == client[c].token
  <2>2. /\ n \in Tokens /\ n <= Len(server.session)
        /\ server.session[n].hello = client[c].hello
        /\ hellos[client[c].hello].client = c /\ client[c].addr \in AddressesOf[c]
    BY <1>1, <2>1, ClientFacts
  <2>3. n \in Known(Begun) /\ Begun.session = server.session /\ Begun.route = server.route
    BY <2>2 DEF Known, Begun, Tokens
  <2> HIDE DEF n
  <2>4. server.session[n].client = c /\ server.session[n].addr \in AddressesOf[c]
    BY <1>1, <2>2, <2>3 DEF IInv, Sound, Owned
  <2>5. Running(Begun)
    BY <2>1 DEF Running, Begun
  <2>6. server.route[c] = n
    BY <1>1, <2>1, <2>2, <2>3, <2>4, <2>5 DEF IInv, Sound, Served, n
  <2> QED
    BY <2>2, <2>4, <2>6 DEF n
<1> QED
  BY <1>1, Invariance, PTL

(***************************************************************************)
(* The tables implement SessionTable                                       *)
(***************************************************************************)

LEMMA ServeImplements ==
  ASSUME IInv, NEW p \in TunPackets, NEW d \in Arrivals, NEW fault, Serve(p, d, fault)
  PROVE  \/ Table!Fail
         \/ \E c \in Clients : Table!Accept(c)
         \/ UNCHANGED <<server.route, Len(server.session), Running(server)>>
<1> DEFINE u == Iteration(p, d, fault)
<1>1. /\ server.status = "running" /\ server'.status = u.status
      /\ server'.session = u.session /\ server'.route = u.route
  BY DEF Serve
<1>2. /\ u \in Progress
      /\ \E t \in Progress : TunMove(Begun, t) /\ Agree(t) /\ Filed(t) /\ NetMove(t, u, d)
  BY <1>1, IterationMoves
<1> HIDE DEF u
<1>3. PICK t \in Progress : TunMove(Begun, t) /\ NetMove(t, u, d)
  BY <1>2
<1>4. Begun \in Progress /\ Begun.session = server.session /\ Begun.route = server.route
      /\ hellos \in Seq([client : Clients, sid : SessionIds]) /\ restarts \in 0 .. MaxRestarts
  BY BegunType DEF IInv
<1>5. t.route = server.route /\ Len(t.session) = Len(server.session)
  BY <1>3, <1>4, TunMoveIsQuiet DEF Quiet, SameTables, SameSessions
<1>6. CASE u.route = t.route /\ Len(u.session) = Len(t.session)
  <2>1. server'.route = server.route /\ Len(server'.session) = Len(server.session)
    BY <1>1, <1>5, <1>6
  <2>2. CASE u.status = "running"
    BY <1>1, <2>1, <2>2 DEF Running
  <2>3. CASE u.status # "running"
    BY <1>1, <2>1, <2>3 DEF Running, Table!Fail
  <2> QED
    BY <2>2, <2>3
<1>7. CASE Quiet(t, u)
  BY <1>6, <1>7 DEF Quiet, SameTables, SameSessions
<1>8. ASSUME NEW k \in CachedAt(t, d.hello), Repeated(t, u, k, d.addr)
      PROVE  Quiet(t, u)
  <2>1. k \in 1 .. Len(t.cache)
    BY DEF CachedAt
  <2> QED
    BY <1>2, <1>8, <2>1, RepeatedIsQuiet
<1>9. CASE Acceptable(t, d) /\ Accepted(t, u, d)
  <2> DEFINE c == hellos[d.hello].client
             n == Len(server.session) + 1
  <2>1. c \in Clients
    <3>1. NewSession(d) \in Session /\ NewSession(d).client = c
      BY <1>4, <1>9, NewSessionType DEF Acceptable
    <3> QED
      BY <3>1 DEF Session
  <2>2. Len(u.session) = n
    BY <1>2, <1>4, <1>5, <1>9, AcceptedGrows
  <2>3. \/ u.status # "running" /\ u.route \in {t.route, [t.route EXCEPT ![c] = 0]}
        \/ u.status = "running" /\ u.route = [t.route EXCEPT ![c] = n]
    BY <1>5, <1>9 DEF Accepted, Acceptable, Running, SameTables, NoSession
  <2> HIDE DEF c, n
  <2>4. Len(server'.session) = n /\ server'.route = u.route /\ server'.status = u.status
    BY <1>1, <2>2
  <2>5. Table!Accept(c)
    BY <1>1, <1>5, <2>3, <2>4 DEF Table!Accept, Running, n
  <2> QED
    BY <2>1, <2>5
<1> QED
  BY <1>2, <1>3, <1>6, <1>7, <1>8, <1>9, TakenIsQuiet DEF NetMove

\* The cache and the two dictionaries implement SessionTable: each client has
\* the newest session the server accepted of it, a client's hello touches only
\* its own session, and none is lost while the server runs.
THEOREM ImplementsSessionTable == Spec => TableSpec
<1>1. Init => Table!Init
  <2>1. Len(<<>>) = 0
    OBVIOUS
  <2> QED
    BY <2>1 DEF Init, FreshServer, Running, NoSession, Table!Init, Table!NoneServed
<1>2. ASSUME IInv, [Next]_vars
      PROVE  [Table!Next]_<<server.route, Len(server.session), Running(server)>>
  <2>1. ASSUME NEW p \in TunPackets, NEW d \in Arrivals, NEW fault \in FaultKinds,
               Serve(p, d, fault)
        PROVE  [Table!Next]_<<server.route, Len(server.session), Running(server)>>
    BY <1>2, <2>1, ServeImplements DEF Table!Next
  <2>2. CASE Restart
    <3>1. Table!Restart
      BY <2>2 DEF Restart, FreshServer, Running, NoSession, Table!Restart, Table!NoneServed
    <3> QED
      BY <3>1 DEF Table!Next
  <2>3. CASE UNCHANGED server
    BY <2>3 DEF Running
  <2>4. \/ \E p \in TunPackets, d \in Arrivals, fault \in FaultKinds : Serve(p, d, fault)
        \/ Restart
        \/ UNCHANGED server
    BY <1>2 DEF Next, Connect, SendHello, FinishHello, MissReply, Leave, Send, Rebind, vars
  <2> QED
    BY <2>1, <2>2, <2>3, <2>4
<1>3. IInv /\ [Next]_vars => [Table!Next]_<<server.route, Len(server.session), Running(server)>>
  BY <1>2
<1> QED
  BY <1>1, <1>3, Invariance, PTL DEF Spec, TableSpec, Table!Spec
=============================================================================
