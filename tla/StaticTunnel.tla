----------------------------- MODULE StaticTunnel -----------------------------
(***************************************************************************)
(* One endpoint with a fixed key, from keygen to its first session: the    *)
(* operator generates an identity and copies the public file to the peer;  *)
(* main reads its options and the key files, and builds the cipher; the    *)
(* engine then sends and receives with one RotatingPacketCipher for both   *)
(* directions and one ReplayWindow.  The peer is configured alike and      *)
(* holds the other identity.  Endpoints with the ephemeral handshake are   *)
(* followed as far as their start; PointToPoint has the rest.              *)
(***************************************************************************)
EXTENDS ReplayWindow, EndpointConfig, KeyEpochs, KeyPairs

CONSTANTS
  MaxSent,         \* bound: packets the endpoint itself sends
  Generators,      \* keygen processes
  Documents        \* the JSON documents, and the options, the endpoint is started with

ASSUME StaticTunnelAssumption == MaxSent \in Nat /\ 0 .. MaxSent - 1 \subseteq Sequences

VARIABLES
  private, public, process, made, killed,    \* KeyFiles
  ciphers, recent, used,                     \* RotatingCipher
  copy,       \* the peer's copy of the public key file
  endpoint,   \* what became of the last start, and the session it led to
  sent        \* _sequence_number of the engine

Keys == INSTANCE KeyFiles

Cipher == INSTANCE RotatingCipher

windowVars == <<window, accepted, verdict>>
keyVars == <<private, public, process, made, killed>>
sessionVars == <<ciphers, recent, used, sent>>

tunnelVars == <<windowVars, keyVars, sessionVars, copy, endpoint>>

(***************************************************************************)
(* Starting                                                                *)
(***************************************************************************)

Attempt == [by : {"document", "options"}, keys : {"none", "psk", "x25519"},
            checks : {"rejected", "refused", "raised", "handshake", "passed"},
            flaws : SUBSET FlawNames, rotates : BOOLEAN]

Rejected(by) ==
  [by |-> by, keys |-> "none", checks |-> "rejected", flaws |-> {}, rotates |-> FALSE]

\* What main makes of its options before and after it has read the key files:
\* a rejection by the parser of the document or of the command line, a refusal
\* by main itself, an exception from an object it builds, or a session.
AttemptOf(by, document) ==
  IF ~ Parses(document) \/ (by = "document" /\ ~ Validate(ConfigOf(document)))
    THEN Rejected(by)
    ELSE LET c == ConfigOf(document) IN
         [by |-> by,
          keys |-> IF c.key_file THEN "psk" ELSE IF UsesX25519(c) THEN "x25519" ELSE "none",
          checks |-> CASE ~ MainAccepts(c) -> "refused"
                       [] Flaws(c) # {} -> "raised"
                       [] c.ephemeral_handshake -> "handshake"
                       [] OTHER -> "passed",
          flaws |-> IF MainAccepts(c) THEN Flaws(c) ELSE {},
          rotates |-> c.packets_per_key > 0]

Attempts == {AttemptOf(by, document) : by \in {"document", "options"}, document \in Documents}

\* load_x25519_key and load_preshared_key take a file only when it holds a
\* whole key; of the file the operator was given, the peer's public key or the
\* preshared one, either may be the case.
KeysLoad(attempt, given) ==
  CASE attempt.keys = "x25519" -> private.whole /\ given
    [] attempt.keys = "psk" -> given
    [] OTHER -> TRUE

\* What both ends derive their keys from is the same secret: the preshared
\* key, or an X25519 exchange in which the peer uses the other half of the
\* private key the endpoint uses.
SecretsAgree(attempt) ==
  attempt.keys = "x25519" => copy.whole /\ copy.of = private.of

Endpoint == [by : {"document", "options", "nobody"},
             state : {"off", "rejected", "refused", "no_keys", "raised", "failed",
                      "handshake", "plain", "tunnel"},
             flaws : SUBSET FlawNames, rotates : BOOLEAN, agrees : BOOLEAN]

Off == [by |-> "nobody", state |-> "off", flaws |-> {}, rotates |-> FALSE, agrees |-> FALSE]

InTunnel == endpoint.state = "tunnel"

\* The system may refuse what the objects ask of it, whatever the options are:
\* the address is in use, the device may not be opened, ip(8) fails.  Nothing
\* has been asked when the cipher raises.
StateAfter(attempt, given, works) ==
  CASE attempt.checks \in {"rejected", "refused"} -> attempt.checks
    [] ~ KeysLoad(attempt, given) -> "no_keys"
    [] ~ works /\ "cipher" \notin attempt.flaws -> "failed"
    [] attempt.checks \in {"raised", "handshake"} -> attempt.checks
    [] attempt.keys = "none" -> "plain"
    [] OTHER -> "tunnel"

\* main is started when no keygen runs; with a preshared key, before any has.
Start(attempt) ==
  /\ ~ InTunnel
  /\ Keys!Quiet
  /\ attempt.keys = "psk" => made = 0
  /\ \E given, works \in BOOLEAN :
       LET state == StateAfter(attempt, given, works) IN
       endpoint' = [by |-> attempt.by, state |-> state,
                    flaws |-> IF state = "raised" THEN attempt.flaws ELSE {},
                    rotates |-> state = "tunnel" /\ attempt.rotates,
                    agrees |-> state = "tunnel" /\ SecretsAgree(attempt)]
  /\ UNCHANGED <<windowVars, keyVars, sessionVars, copy>>

\* The operator hands the public key file to the peer.
CopyPublic ==
  /\ ~ InTunnel
  /\ public # copy
  /\ copy' = public
  /\ UNCHANGED <<windowVars, keyVars, sessionVars, endpoint>>

Generating ==
  /\ ~ InTunnel
  /\ Keys!Next
  /\ UNCHANGED <<windowVars, sessionVars, copy, endpoint>>

(***************************************************************************)
(* The session                                                             *)
(***************************************************************************)

\* create_cipher: a RotatingPacketCipher, or one PacketCipher for all packets.
UseCipher(n) ==
  IF endpoint.rotates THEN Cipher!Use(n) ELSE UNCHANGED <<ciphers, recent, used>>

\* The key the cipher has just come up with is the one the peer sealed the
\* packet with.
Opens(n) == endpoint.rotates => used'.key = EpochFor(n)

Send ==
  /\ InTunnel
  /\ sent < MaxSent
  /\ UseCipher(sent)
  /\ sent' = sent + 1
  /\ UNCHANGED <<windowVars, keyVars, copy, endpoint>>

\* A replay is dropped before the cipher is asked.
ReceiveReplay(n, genuine) ==
  /\ DropReplay(n, genuine)
  /\ UNCHANGED sessionVars

\* A packet the peer sealed: it is delivered if it can be opened.
ReceiveGenuine(n) ==
  /\ ~ IsReplay(window, n)
  /\ UseCipher(n)
  /\ IF Opens(n) THEN Deliver(n)
     ELSE /\ verdict' = [seq |-> n, genuine |-> TRUE, taken |-> FALSE]
          /\ UNCHANGED <<window, accepted>>
  /\ UNCHANGED sent

\* Bug: the window is told of a number before its tag is checked.
ReceiveForgedMarking(n) ==
  /\ ~ IsReplay(window, n)
  /\ window' = MarkAuthenticated(window, n)
  /\ verdict' = [seq |-> n, genuine |-> FALSE, taken |-> FALSE]
  /\ UseCipher(n)
  /\ UNCHANGED <<accepted, sent>>

\* Anything else: the key of its epoch is looked up all the same.
ReceiveForged(n) ==
  /\ DropForged(n)
  /\ UseCipher(n)
  /\ UNCHANGED sent

Receive ==
  /\ InTunnel
  /\ \E n \in Sequences :
       \/ \E genuine \in BOOLEAN : (genuine => endpoint.agrees) /\ ReceiveReplay(n, genuine)
       \/ endpoint.agrees /\ ReceiveGenuine(n)
       \/ ReceiveForged(n)
  /\ UNCHANGED <<keyVars, copy, endpoint>>

TunnelInit ==
  /\ Init /\ Keys!Init /\ Cipher!Init
  /\ copy = NoFile
  /\ endpoint = Off
  /\ sent = 0

TunnelNext ==
  \/ \E attempt \in Attempts : Start(attempt)
  \/ CopyPublic
  \/ Generating
  \/ Send
  \/ Receive

TunnelSpec == TunnelInit /\ [][TunnelNext]_tunnelVars

(***************************************************************************)
(* Properties                                                              *)
(***************************************************************************)

\* Type invariant.
TunnelTypeOK ==
  /\ TypeOK /\ Keys!TypeOK /\ Cipher!CiphersTypeOK
  /\ copy \in File
  /\ endpoint \in Endpoint
  /\ sent \in 0 .. MaxSent

\* A document that load_config accepts meets no check of main that it fails, and
\* an object that main builds from it raises for two reasons only: a NUL byte in
\* tun_name (TunDevice) and a handshake_timeout that no socket takes
\* (UdpTransport).  Anything else that is wrong with a document is said before
\* keys are read or devices opened.
ConfiguredStarts ==
  endpoint.by = "document" =>
    endpoint.state # "refused" /\ endpoint.flaws \subseteq {"nul", "timeout"}

\* The key files (KeyFiles) and the cipher (RotatingCipher) as parts of the
\* endpoint.
FilesMatch == Keys!FilesMatch

IdentityIsKept == Keys!IdentityIsKept

CipherSpec == Cipher!CipherSpec

\* The endpoint's receive path is ReplayWindow's, rotation and all: no genuine
\* packet is refused for the cipher's sake, so what is proved of ReplayWindow
\* holds for the session.
WindowSpec == Spec
=============================================================================
