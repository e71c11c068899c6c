------------------------------ MODULE MultiServer ------------------------------
(***************************************************************************)
(* The multi-client server: ClientRegistry and MultiClientServer           *)
(* (multi_server.py) over MultiClientServerEngine (multi_client.py), the   *)
(* clients that connect to it (handshake.py, cli.py), and the network      *)
(* between them, which may lose, duplicate, delay and reorder everything.  *)
(*                                                                         *)
(* Serve is one whole iteration of MultiClientServer.run_once: at most one *)
(* packet from TUN and then at most one datagram.  A CLIENT_HELLO is known *)
(* by a number (its fingerprint: fresh keys make every hello unique), and a*)
(* session by the number of its acceptance, which stands for the secret    *)
(* that only this hello and this answer derive.                            *)
(***************************************************************************)
EXTENDS SlidingWindow, Sequences

CONSTANTS
  Clients,       \* the configured identities; a client is also its tunnel address
  Addresses,     \* UDP source addresses
  AddressesOf,   \* per client, the addresses it may connect from
  SessionIds,    \* the values of the random 32-bit session_id
  CacheSize,     \* HANDSHAKE_CACHE_SIZE
  MaxSequence,   \* MAX_SEQUENCE_NUMBER
  Attempts,      \* DEFAULT_HANDSHAKE_ATTEMPTS
  MaxHellos,     \* bound: handshakes that clients begin
  MaxSessions,   \* bound: hellos that the server accepts as new
  MaxRestarts,   \* bound: times the server process is started again
  UpTypes,       \* the message types clients send through their session
  Sources,       \* the inner source addresses of the packets clients send
  TunFits,       \* whether packets from the server's TUN fit a sealed datagram
  LateHellos,    \* a hello may arrive after its client has given it up
  Faults         \* system calls of the server may fail

ASSUME ConstantsAssumption ==
  /\ AddressesOf \in [Clients -> (SUBSET Addresses) \ {{}}]
  /\ CacheSize \in Nat \ {0} /\ MaxSequence \in Nat /\ Attempts \in Nat \ {0}
  /\ MaxHellos \in Nat /\ MaxSessions \in Nat /\ MaxRestarts \in Nat
  /\ UpTypes \subseteq {"DATA", "KEEPALIVE"}
  /\ TunFits \subseteq BOOLEAN /\ LateHellos \in BOOLEAN /\ Faults \in BOOLEAN

VARIABLES
  server,    \* the server process
  client,    \* per client, its process
  hellos,    \* per hello sent so far, who made it
  net,       \* every datagram ever sent: it may arrive at any time, or never
  written,   \* history: how often each packet of a session was written to TUN
  restarts   \* how often the server was started again

vars == <<server, client, hellos, net, written, restarts>>

Tokens == 1 .. MaxSessions
NoSession == 0
Hellos == 1 .. MaxHellos
Keys == Addresses \X SessionIds
Numbers == 0 .. MaxSequence

(***************************************************************************)
(* The server's state: the registry's cache of accepted hellos, oldest     *)
(* first, as the sessions they led to; the engine's two dictionaries       *)
(* _sessions ("at") and _routes ("route"); and the ClientSession objects.  *)
(***************************************************************************)
Session == [client : Clients, addr : Addresses, sid : SessionIds, hello : Hellos,
            run : 0 .. MaxRestarts, seq : 0 .. MaxSequence + 1, window : Window]

KeyOf(x) == <<x.addr, x.sid>>

Status == {"running", "key_error", "value_error", "too_large", "overflow", "os_error"}

Server == [status  : Status,
           session : Seq(Session),          \* every session object ever made
           cache   : Seq(Tokens),
           at      : [Keys -> Tokens \cup {NoSession}],
           route   : [Clients -> Tokens \cup {NoSession}]]

\* A server process begins with nothing but its configuration.
FreshServer(session) ==
  [status |-> "running", session |-> session, cache |-> <<>>,
   at |-> [k \in Keys |-> NoSession], route |-> [c \in Clients |-> NoSession]]

(***************************************************************************)
(* The engine's tables                                                     *)
(***************************************************************************)
Ended(t, status) == [t EXCEPT !.status = status]

Running(t) == t.status = "running"

\* remove_session: pop raises KeyError for a key that is not there.
RemoveSession(t, x) ==
  IF t.at[KeyOf(x)] = NoSession THEN Ended(t, "key_error")
  ELSE [t EXCEPT !.at[KeyOf(x)] = NoSession, !.route[x.client] = NoSession]

\* add_session: ValueError for a key or a tunnel address already in use.
AddSession(t, n) ==
  LET x == t.session[n] IN
  IF t.at[KeyOf(x)] # NoSession \/ t.route[x.client] # NoSession
  THEN Ended(t, "value_error")
  ELSE [t EXCEPT !.at[KeyOf(x)] = n, !.route[x.client] = n]

\* Bug: the old session keeps its key.
ReplaceKeepingOld(t, n) ==
  LET u == [t EXCEPT !.route[t.session[n].client] = NoSession]
  IN  AddSession(u, n)

\* Bug: a session is replaced only if it came from the same address.
ReplaceSameAddress(t, n) ==
  LET old == t.route[t.session[n].client]
      u == IF old # NoSession /\ t.session[old].addr = t.session[n].addr
           THEN RemoveSession(t, t.session[old]) ELSE t
  IN  AddSession(u, n)

\* Bug: the old session is looked up by the new one's key.
ReplaceByKey(t, n) ==
  LET old == t.at[KeyOf(t.session[n])]
      u == IF old = NoSession THEN t ELSE RemoveSession(t, t.session[old])
  IN  IF Running(u) THEN AddSession(u, n) ELSE u

\* replace_session
ReplaceSession(t, n) ==
  LET old == t.route[t.session[n].client]
      u == IF old = NoSession THEN t ELSE RemoveSession(t, t.session[old])
  IN  IF Running(u) THEN AddSession(u, n) ELSE u

(***************************************************************************)
(* The registry's cache                                                    *)
(***************************************************************************)
\* move_to_end, for the entry at position k.
MoveToEnd(cache, k) ==
  [i \in 1 .. Len(cache) |->
     IF i < k THEN cache[i] ELSE IF i < Len(cache) THEN cache[i + 1] ELSE cache[k]]

\* Bug: a hello that is seen again is not remembered as a session's.
RememberNothing(cache, n) == cache

\* A new entry; the oldest goes when there are more than CacheSize.
Remember(cache, n) ==
  IF Len(cache) < CacheSize THEN Append(cache, n) ELSE Append(Tail(cache), n)

CachedAt(t, h) == {k \in 1 .. Len(t.cache) : t.session[t.cache[k]].hello = h}

(***************************************************************************)
(* One iteration.  Its record holds the server, the datagrams it has sent  *)
(* and the packets it has written to TUN.                                  *)
(***************************************************************************)
Reply(n, addr) == [type |-> "REPLY", token |-> n, addr |-> addr]

Emit(t, d) == [t EXCEPT !.out = @ \cup {d}]

\* A hello that is in the cache is answered as before and changes no table.
AnswerCached(t, k, addr, fault) ==
  LET u == [t EXCEPT !.cache = MoveToEnd(@, k)] IN
  IF fault = "send" THEN Ended(u, "os_error") ELSE Emit(u, Reply(t.cache[k], addr))

\* A new hello gets a session object and a cache entry; the answer is sent
\* before the session replaces the client's old one.
AcceptNew(t, d, run, fault) ==
  LET n == Len(t.session) + 1
      new == [client |-> hellos[d.hello].client, addr |-> d.addr,
              sid |-> hellos[d.hello].sid, hello |-> d.hello, run |-> run,
              seq |-> 0, window |-> EmptyWindow]
      u == [t EXCEPT !.session = Append(@, new), !.cache = Remember(@, n)]
  IN  IF fault = "send" THEN Ended(u, "os_error")
      ELSE ReplaceSession(Emit(u, Reply(n, d.addr)), n)

HandleHello(t, d, run, fault) ==
  IF CachedAt(t, d.hello) # {}
  THEN AnswerCached(t, CHOOSE k \in CachedAt(t, d.hello) : TRUE, d.addr, fault)
  ELSE AcceptNew(t, d, run, fault)

\* Bug: the inner source address is not compared.
RefusesNotSource(t, n, d) ==
  \/ n = NoSession \/ d.type # "DATA"
  \/ IsReplay(t.session[n].window, d.seq)
  \/ d.token # n

\* The early returns of handle_udp_packet, all before the window is told: no
\* session under the datagram's source address and session_id, not DATA, a
\* replay, sealed for another session, a foreign inner source.
Refuses(t, n, d) ==
  \/ n = NoSession \/ d.type # "DATA"
  \/ IsReplay(t.session[n].window, d.seq)
  \/ d.token # n
  \/ d.src # t.session[n].client

HandleData(t, d, fault) ==
  LET n == t.at[<<d.addr, t.session[d.token].sid>>] IN
  IF Refuses(t, n, d) THEN t
  ELSE LET u == [t EXCEPT !.session[n].window = MarkAuthenticated(@, d.seq)]
       IN IF fault = "write" THEN Ended(u, "os_error")
          ELSE [u EXCEPT !.wrote = @ \cup {[token |-> n, seq |-> d.seq, src |-> d.src]}]

\* Bug: one number too many is used.
ExhaustedLate(n) == n > MaxSequence + 1

\* No number is left for a session's next packet.
Exhausted(n) == n > MaxSequence

\* Bug: the number is not advanced.
TransmitReusing(t, n, p) ==
  Emit(t, [type |-> "DOWN", token |-> n, seq |-> t.session[n].seq,
           addr |-> t.session[n].addr, dst |-> p.dst])

\* The packet leaves for the session's address; then its number is spent.
Transmit(t, n, p) ==
  LET u == Emit(t, [type |-> "DOWN", token |-> n, seq |-> t.session[n].seq,
                    addr |-> t.session[n].addr, dst |-> p.dst])
  IN  [u EXCEPT !.session[n].seq = @ + 1]

\* handle_tun_packet.  What is not IPv4 or has no route is dropped; a packet
\* too large to be sealed makes encrypt raise ValueError.
HandleTun(t, p, fault) ==
  LET n == IF p.dst \in Clients THEN t.route[p.dst] ELSE NoSession IN
  IF n = NoSession THEN t
  ELSE IF Exhausted(t.session[n].seq) THEN Ended(t, "overflow")
  ELSE IF ~ p.fits THEN Ended(t, "too_large")
  ELSE IF fault = "send" THEN Ended(t, "os_error")
  ELSE Transmit(t, n, p)

\* run_once: TUN first, then one datagram.  A stray datagram (one that does not
\* decode, an unknown identity's hello, data for no session or that no session
\* key opens) changes nothing; an exception ends the server.
Iteration(p, d, fault) ==
  LET t0 == [status |-> server.status, session |-> server.session, cache |-> server.cache,
             at |-> server.at, route |-> server.route, out |-> {}, wrote |-> {}]
      t1 == IF p.dst = "nothing" THEN t0 ELSE HandleTun(t0, p, fault)
  IN  IF ~ Running(t1) \/ d.type = "stray" THEN t1
      ELSE IF d.type = "HELLO" THEN HandleHello(t1, d, restarts, fault)
      ELSE HandleData(t1, d, fault)

(***************************************************************************)
(* The client's process: handshake.py's loop of attempts, then its engine. *)
(***************************************************************************)
Client == [phase : {"down", "hello", "waiting", "up"}, addr : Addresses,
           hello : Hellos \cup {0}, tries : 0 .. Attempts,
           token : Tokens \cup {NoSession}, seq : 0 .. MaxSequence + 1]

Datagram ==
  [type : {"HELLO"}, hello : Hellos, addr : Addresses]
    \cup [type : {"REPLY"}, token : Tokens, addr : Addresses]
    \cup [type : {"DATA", "KEEPALIVE"}, token : Tokens, seq : Numbers,
          addr : Addresses, src : Sources]
    \cup [type : {"DOWN"}, token : Tokens, seq : Numbers, addr : Addresses, dst : Clients]

Init ==
  /\ server = FreshServer(<<>>)
  /\ client = [c \in Clients |->
       [phase |-> "down", addr |-> CHOOSE a \in AddressesOf[c] : TRUE, hello |-> 0,
        tries |-> 0, token |-> NoSession, seq |-> 0]]
  /\ hellos = <<>>
  /\ net = {}
  /\ written = [n \in Tokens |-> [q \in Numbers |-> 0]]
  /\ restarts = 0

(***************************************************************************)
(* Inputs of an iteration                                                  *)
(***************************************************************************)
TunPackets ==
  {[dst |-> "nothing", fits |-> TRUE], [dst |-> "elsewhere", fits |-> TRUE]}
    \cup [dst : Clients, fits : TunFits]

\* What may reach the server's socket.
Arrivals ==
  {[type |-> "stray"]}
    \cup {d \in net : d.type \in {"DATA", "KEEPALIVE"}}
    \cup {d \in net : /\ d.type = "HELLO"
                      /\ LateHellos \/ client[hellos[d.hello].client].hello = d.hello
                      /\ \/ Len(server.session) < MaxSessions
                         \/ CachedAt(server, d.hello) # {}}

FaultKinds == {"none"} \cup (IF Faults THEN {"send", "write"} ELSE {})

(***************************************************************************)
(* Actions                                                                 *)
(***************************************************************************)
Once(n) == IF n = 0 THEN 1 ELSE 2

\* One iteration of MultiClientServer.run_once.
Serve(p, d, fault) ==
  LET t == Iteration(p, d, fault) IN
  /\ server.status = "running"
  /\ server' = [status |-> t.status, session |-> t.session, cache |-> t.cache,
                at |-> t.at, route |-> t.route]
  /\ net' = net \cup t.out
  /\ written' = [n \in Tokens |-> [q \in Numbers |->
       IF \E w \in t.wrote : w.token = n /\ w.seq = q
       THEN Once(written[n][q]) ELSE written[n][q]]]
  /\ UNCHANGED <<client, hellos, restarts>>

\* The operator starts the server again: its tables and its cache are gone.
Restart ==
  /\ restarts < MaxRestarts
  /\ restarts' = restarts + 1
  /\ server' = FreshServer(server.session)
  /\ UNCHANGED <<client, hellos, net, written>>

\* run_session begins: create_client_hello draws a session_id and fresh keys.
Connect(c, sid, addr) ==
  /\ client[c].phase = "down"
  /\ Len(hellos) < MaxHellos
  /\ hellos' = Append(hellos, [client |-> c, sid |-> sid])
  /\ client' = [client EXCEPT ![c] =
       [phase |-> "hello", addr |-> addr, hello |-> Len(hellos) + 1, tries |-> 0,
        token |-> NoSession, seq |-> 0]]
  /\ UNCHANGED <<server, net, written, restarts>>

\* The top of the loop of run_client_handshake: the same hello, once more.
SendHello(c) ==
  /\ client[c].phase = "hello"
  /\ client[c].tries < Attempts
  /\ client' = [client EXCEPT ![c].phase = "waiting", ![c].tries = @ + 1]
  /\ net' = net \cup {[type |-> "HELLO", hello |-> client[c].hello, addr |-> client[c].addr]}
  /\ UNCHANGED <<server, hellos, written, restarts>>

\* finish_client_handshake succeeds for an answer to this hello only; the
\* engine starts with the session's cipher and its counter at zero.
FinishHello(c, d) ==
  /\ client[c].phase = "waiting"
  /\ d \in net /\ d.type = "REPLY" /\ d.addr = client[c].addr
  /\ server.session[d.token].hello = client[c].hello
  /\ client' = [client EXCEPT ![c].phase = "up", ![c].token = d.token]
  /\ UNCHANGED <<server, hellos, net, written, restarts>>

\* A timeout or a datagram that is no valid answer costs the attempt.
MissReply(c) ==
  /\ client[c].phase = "waiting"
  /\ client' = [client EXCEPT ![c].phase = "hello"]
  /\ UNCHANGED <<server, hellos, net, written, restarts>>

\* The attempts are used up, the engine has ended, or the user disconnects.
Leave(c) ==
  /\ \/ client[c].phase = "hello" /\ client[c].tries = Attempts
     \/ client[c].phase = "up"
  /\ client' = [client EXCEPT ![c].phase = "down"]
  /\ UNCHANGED <<server, hellos, net, written, restarts>>

\* The client's engine sends a packet; the inner source of DATA is whatever
\* address the host forwards into the tunnel, a keepalive is empty.
Send(c, type, src) ==
  /\ client[c].phase = "up"
  /\ type = "KEEPALIVE" => src = c
  /\ client[c].seq <= MaxSequence
  /\ client' = [client EXCEPT ![c].seq = @ + 1]
  /\ net' = net \cup {[type |-> type, token |-> client[c].token, seq |-> client[c].seq,
                       addr |-> client[c].addr, src |-> src]}
  /\ UNCHANGED <<server, hellos, written, restarts>>

\* A NAT in between gives the client another source address.
Rebind(c, addr) ==
  /\ client[c].phase # "down"
  /\ client[c].addr # addr
  /\ client' = [client EXCEPT ![c].addr = addr]
  /\ UNCHANGED <<server, hellos, net, written, restarts>>

Next ==
  \/ \E p \in TunPackets, d \in Arrivals, fault \in FaultKinds : Serve(p, d, fault)
  \/ Restart
  \/ \E c \in Clients :
       \/ \E sid \in SessionIds, addr \in AddressesOf[c] : Connect(c, sid, addr)
       \/ SendHello(c)
       \/ \E d \in net : FinishHello(c, d)
       \/ MissReply(c)
       \/ Leave(c)
       \/ \E type \in UpTypes, src \in Sources : Send(c, type, src)
       \/ \E addr \in AddressesOf[c] : Rebind(c, addr)

Spec == Init /\ [][Next]_vars

(***************************************************************************)
(* Properties                                                              *)
(***************************************************************************)

\* Type invariant.  The bound on Seq is only for the model checker's sake.
TypeOK ==
  /\ server \in Server
  /\ client \in [Clients -> Client]
  /\ hellos \in Seq([client : Clients, sid : SessionIds])
  /\ net \subseteq Datagram
  /\ written \in [Tokens -> [Numbers -> 0 .. 2]]
  /\ restarts \in 0 .. MaxRestarts

\* The engine's two dictionaries describe the same set of sessions: each client
\* has at most one, it is filed under its own address and session_id, and its
\* tunnel address leads to it, whatever was accepted, replaced or refused.
TablesAgree ==
  /\ \A c \in Clients : server.route[c] # NoSession =>
       LET x == server.session[server.route[c]] IN
       x.client = c /\ server.at[KeyOf(x)] = server.route[c]
  /\ \A k \in Keys : server.at[k] # NoSession =>
       LET x == server.session[server.at[k]] IN
       KeyOf(x) = k /\ server.route[x.client] = server.at[k]

\* The tables, the cache and the order in which a hello is handled implement
\* SessionTable: even when two clients collide in address and session_id, or a
\* send fails half-way, no client's hello touches another's session, and a
\* session once replaced is never current again (docs/security-analysis.md: a
\* replayed hello "preserves the existing session object").
Table == INSTANCE SessionTable WITH
  current <- server.route, issued <- Len(server.session), up <- Running(server)

TableSpec == Table!Spec

\* No two clients connect from the same address.
DisjointAddresses ==
  \A c, e \in Clients : c # e => AddressesOf[c] \cap AddressesOf[e] = {}

\* replace_session never raises: no client can end the server for all others by
\* reconnecting, repeating a hello or moving to another address of its own.
ReplaceNeverFails ==
  DisjointAddresses => server.status \notin {"key_error", "value_error"}

\* Each packet of a session is written to the server's TUN at most once.
WrittenAtMostOnce ==
  \A n \in Tokens, q \in Numbers : written[n][q] <= 1

\* What is written came from the session's own client, with that client's inner
\* source address (the anti-spoofing of handle_udp_packet).
WrittenFromOwner ==
  \A n \in Tokens, q \in Numbers : written[n][q] > 0 =>
    \E d \in net : /\ d.type = "DATA" /\ d.token = n /\ d.seq = q
                   /\ d.src = server.session[n].client

\* A packet from the server's TUN goes out under a session of the client it is
\* addressed to, and no two packets of a session share a number.
DownlinkIsPrivate ==
  \A d \in net : d.type = "DOWN" =>
    /\ server.session[d.token].client = d.dst
    /\ d.seq < server.session[d.token].seq
    /\ \A e \in net : e.type = "DOWN" /\ e.token = d.token /\ e.seq = d.seq => e = d

\* While the cache can hold every hello, a repeated or replayed hello never
\* leads to a second session in the same run of the server.
OneSessionPerHello ==
  MaxHellos <= CacheSize =>
    \A m, n \in 1 .. Len(server.session) :
      /\ server.session[m].hello = server.session[n].hello
      /\ server.session[m].run = server.session[n].run
      => m = n

\* A client that is up owns the route to its tunnel address, as long as hellos
\* are not delayed past their handshake and the cache has room: repeated hellos,
\* a new source address and other clients do not unseat it.  If it has only one
\* address, its session is filed under that, so that its packets are found.
ConnectedIsServed ==
  MaxHellos <= CacheSize /\ ~ LateHellos
  => \A c \in Clients :
       /\ client[c].phase = "up"
       /\ server.status = "running"
       /\ server.session[client[c].token].run = restarts
       => /\ server.route[c] = client[c].token
          /\ (\A a, b \in AddressesOf[c] : a = b)
               => server.session[client[c].token].addr = client[c].addr
=============================================================================
