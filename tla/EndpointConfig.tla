---------------------------- MODULE EndpointConfig ----------------------------
(***************************************************************************)
(* The options of a point-to-point endpoint: config.py's loading and       *)
(* validation of a JSON document, the checks of cli.py's main, and the     *)
(* conditions under which the objects built from the options raise.        *)
(*                                                                         *)
(* A configuration is a record with the fields of the class EndpointConfig.*)
(* A name is represented by its number of ASCII bytes and by whether one   *)
(* of them is NUL, an address by whether it parses, a path by whether it   *)
(* is given, an interval by a number of ticks or NaN, which JSON documents *)
(* and command lines may contain; Infinity is a number above MaxTimeout.   *)
(***************************************************************************)
EXTENDS Integers

CONSTANTS
  MaxSessionId,    \* 0xFFFFFFFF
  MaxTimeout,      \* the longest timeout settimeout takes of UdpTransport
  NaN              \* the float that is no number

ASSUME NumbersAssumption ==
  MaxSessionId \in Nat /\ MaxTimeout \in Nat /\ NaN \notin Int

Roles == {"client", "server"}

Required == {"tun_address", "bind", "peer"}

Defaults == [
  tun_name |-> [bytes |-> 5, nul |-> FALSE], mtu |-> 1400, session_id |-> 1,
  key_file |-> FALSE, private_key_file |-> FALSE, peer_public_key_file |-> FALSE,
  role |-> "none", ephemeral_handshake |-> FALSE, handshake_timeout |-> 3,
  packets_per_key |-> 0, reconnect_delay |-> 1, json_logs |-> FALSE,
  keepalive_interval |-> 0, liveness_timeout |-> 0]

AllowedFields == Required \cup DOMAIN Defaults

(***************************************************************************)
(* Reading a document                                                      *)
(***************************************************************************)

\* The kinds of JSON value that the parser of each field takes.  A bool is an
\* int to Python, but not to _integer and _number; null counts as absent only
\* where the field is optional.
Kinds(field) ==
  CASE field \in Required \cup {"tun_name"} -> {"string"}
    [] field \in {"key_file", "private_key_file", "peer_public_key_file", "role"} -> {"string", "null"}
    [] field \in {"mtu", "session_id", "packets_per_key"} -> {"int"}
    [] field \in {"ephemeral_handshake", "json_logs"} -> {"bool"}
    [] OTHER -> {"int", "float"}

\* load_config up to _validate: a document is a function from the names of its
\* fields to values [kind, value].  An integer that float() has no room for ends
\* it by OverflowError, and is like a document that does not parse.
Parses(document) ==
  /\ DOMAIN document \subseteq AllowedFields
  /\ Required \subseteq DOMAIN document
  /\ \A field \in DOMAIN document : document[field].kind \in Kinds(field)
  /\ document["bind"].value /\ document["peer"].value
  /\ "role" \in DOMAIN document /\ document["role"].kind = "string" =>
       document["role"].value \in Roles

ConfigOf(document) ==
  [field \in AllowedFields |->
     IF field \in DOMAIN document /\ document[field].kind # "null"
       THEN document[field].value
       ELSE Defaults[field]]

(***************************************************************************)
(* The rules                                                               *)
(***************************************************************************)

UsesX25519(c) == c.private_key_file \/ c.peer_public_key_file

Encrypted(c) == c.key_file \/ UsesX25519(c)

\* Comparisons of floats: none is true of NaN.
AtMost(a, b) == a # NaN /\ b # NaN /\ a <= b

Below(a, b) == a # NaN /\ b # NaN /\ a < b

NameFits(c) == c.tun_name.bytes \in 1 .. 15

MtuFits(c) == c.mtu \in 576 .. 65535

SessionFits(c) == c.session_id \in 0 .. MaxSessionId

\* The code names what is wrong, so that NaN passes.
DelaysAreValid(c) == ~ AtMost(c.handshake_timeout, 0) /\ ~ Below(c.reconnect_delay, 0)

LivenessIsValid(c) ==
  /\ ~ Below(c.keepalive_interval, 0) /\ ~ Below(c.liveness_timeout, 0)
  /\ (c.keepalive_interval # 0) = (c.liveness_timeout # 0)
  /\ c.liveness_timeout # 0 => ~ AtMost(c.liveness_timeout, c.keepalive_interval)

KeysAreConsistent(c) ==
  /\ ~ (c.key_file /\ UsesX25519(c))
  /\ UsesX25519(c) => c.private_key_file /\ c.peer_public_key_file
  /\ Encrypted(c) = (c.role # "none")
  /\ c.ephemeral_handshake => UsesX25519(c)
  /\ c.packets_per_key > 0 => Encrypted(c)
  /\ c.liveness_timeout # 0 => c.ephemeral_handshake

\* Bug: the range of session_id is left to the engine.
ValidateAnySession(c) ==
  /\ c.tun_address /\ NameFits(c) /\ MtuFits(c)
  /\ DelaysAreValid(c)
  /\ c.packets_per_key >= 0
  /\ LivenessIsValid(c)
  /\ KeysAreConsistent(c)

\* config.py: _validate.
Validate(c) ==
  /\ c.tun_address /\ NameFits(c) /\ MtuFits(c) /\ SessionFits(c)
  /\ DelaysAreValid(c)
  /\ c.packets_per_key >= 0
  /\ LivenessIsValid(c)
  /\ KeysAreConsistent(c)

\* cli.py: the checks of main, which also see options from the command line.
MainAccepts(c) ==
  /\ KeysAreConsistent(c)
  /\ DelaysAreValid(c)
  /\ c.packets_per_key >= 0
  /\ LivenessIsValid(c)

\* create_cipher, called by main with the keys of the files unless they are
\* for a handshake.
CipherAccepts(c) ==
  Encrypted(c) /\ ~ c.ephemeral_handshake => SessionFits(c) /\ c.packets_per_key >= 0

\* TunnelEngine.__init__; after a handshake the session_id is the handshake's.
EngineAccepts(c) ==
  /\ c.ephemeral_handshake \/ SessionFits(c)
  /\ LivenessIsValid(c)

\* UdpTransport.__init__: only a handshake has a timeout, and settimeout raises
\* ValueError for NaN and OverflowError for what is too long.
TransportAccepts(c) ==
  c.ephemeral_handshake =>
    AtMost(0, c.handshake_timeout) /\ AtMost(c.handshake_timeout, MaxTimeout)

\* What can be wrong with the options for the objects that main builds: for the
\* cipher, the loop around the sessions, the transport, the TUN device (the
\* length of its name, a NUL in it), the device's configuration, the engine.
FlawNames == {"cipher", "delay", "timeout", "length", "nul", "network", "engine"}

Flaws(c) ==
  {flaw \in FlawNames :
     ~ CASE flaw = "cipher" -> CipherAccepts(c)
         [] flaw = "delay" -> c.ephemeral_handshake => ~ Below(c.reconnect_delay, 0)
         [] flaw = "timeout" -> TransportAccepts(c)
         [] flaw = "length" -> NameFits(c)
         [] flaw = "nul" -> ~ c.tun_name.nul
         [] flaw = "network" -> c.tun_address /\ MtuFits(c)
         [] flaw = "engine" -> EngineAccepts(c)}
=============================================================================
