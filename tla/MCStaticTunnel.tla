---------------------------- MODULE MCStaticTunnel ----------------------------
(***************************************************************************)
(* StaticTunnel with a window of 2, three key epochs against a cache of    *)
(* two, two keygen processes, and the documents that differ from a valid   *)
(* one in at most two fields.                                              *)
(***************************************************************************)
EXTENDS StaticTunnel, TLC

MCSequences == 0 .. 4

String(v) == [kind |-> "string", value |-> v]
Int32(v) == [kind |-> "int", value |-> v]
Float(v) == [kind |-> "float", value |-> v]
Name(n, nul) == String([bytes |-> n, nul |-> nul])
Bool(v) == [kind |-> "bool", value |-> v]
Null == [kind |-> "null"]

Minimal == [tun_address |-> String(TRUE), bind |-> String(TRUE), peer |-> String(TRUE)]

Preshared == Minimal @@ [key_file |-> String(TRUE), role |-> String("client")]

Static == Minimal @@ [private_key_file |-> String(TRUE), peer_public_key_file |-> String(TRUE),
                      role |-> String("server"), packets_per_key |-> Int32(PacketsPerKey)]

Handshake == Static @@ [ephemeral_handshake |-> Bool(TRUE),
                        keepalive_interval |-> Int32(1), liveness_timeout |-> Int32(3)]

Values(field) ==
  CASE field \in {"bind", "peer", "tun_address"} -> {String(FALSE), Int32(1)}
    [] field = "tun_name" -> {Name(0, FALSE), Name(15, FALSE), Name(16, FALSE), Name(1, TRUE)}
    [] field = "mtu" -> {Int32(575), Int32(65535), Int32(65536), Bool(TRUE)}
    [] field = "session_id" -> {Int32(-1), Int32(MaxSessionId), Int32(MaxSessionId + 1)}
    [] field \in {"key_file", "private_key_file", "peer_public_key_file"} -> {String(TRUE), Null, Bool(TRUE)}
    [] field = "role" -> {String("client"), String("peer"), Null}
    [] field \in {"ephemeral_handshake", "json_logs"} -> {Bool(TRUE), Bool(FALSE), Null}
    [] field = "packets_per_key" -> {Int32(-1), Int32(0), Int32(PacketsPerKey), Bool(TRUE)}
    [] field \in {"handshake_timeout", "reconnect_delay"} ->
         {Int32(-1), Int32(0), Int32(1), Float(MaxTimeout), Float(MaxTimeout + 1), Float(NaN)}
    [] OTHER -> {Int32(-1), Int32(0), Int32(1), Int32(3), Float(NaN)}

Changed(document) ==
  UNION {{(field :> value) @@ document : value \in Values(field)} : field \in AllowedFields}

MCDocuments ==
  LET once == UNION {Changed(base) : base \in {Minimal, Preshared, Static, Handshake}} IN
  once \cup UNION {Changed(document) : document \in once}
    \cup {Minimal @@ [unknown |-> Null], [bind |-> String(TRUE), peer |-> String(TRUE)]}
=============================================================================
