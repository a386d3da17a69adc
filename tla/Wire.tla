-------------------------------- MODULE Wire --------------------------------
(***************************************************************************)
(* The binary signer protocol of libs/signer/src/protocol.rs: how a        *)
(* request and a response are laid out, and how a decoder walks over what  *)
(* it was handed.                                                          *)
(*                                                                         *)
(* A message is a sequence of cells, one per field: a byte (the tags the   *)
(* decoders branch on) or a longer field, with its kind and its value.  A  *)
(* decoder returns the value it read and the cells that are left, or Bad:  *)
(* a field that is cut, or a field of another kind where it expected one   *)
(* of its own, cannot be read.                                             *)
(***************************************************************************)
EXTENDS Naturals, Sequences

CONSTANTS MaxDataLen,   \* MAX_DATA_LEN: 65535 in the code
          None          \* an optional value that is absent

Bad == [ok |-> FALSE, val |-> None, rest |-> <<>>]
Read(v, rest) == [ok |-> TRUE, val |-> v, rest |-> rest]
Field(kind, v) == [f |-> kind, v |-> v]
Byte(n) == Field("u8", n)

SignLike == {"Sign", "DeterministicNonce", "DeterministicNonceHash"}
PkhOnly == {"PublicKey", "SupportsDeterministicNonces"}

tag == [Sign |-> 0, PublicKey |-> 1, AuthorizedKeys |-> 2, DeterministicNonce |-> 3,
        DeterministicNonceHash |-> 4, SupportsDeterministicNonces |-> 5,
        KnownKeys |-> 6, BlsProveRequest |-> 7]

-----------------------------------------------------------------------------
(* The primitives.  Only BLS keys exist here, and their tag is 3.          *)

encode_raw_pkh(pkh) == <<Byte(3), Field("pkh", pkh)>>
encode_versioned_pkh(pkh) == <<Byte(3)>> \o encode_raw_pkh(pkh) \o <<Byte(0)>>
encode_pk(pk) == <<Byte(3), Field("pk", pk)>>
encode_signature(sig) == <<Field("sig", sig)>>
encode_bytes(d) == <<Field("len", d.size), Field("data", d)>>
encode_option_signature(sig) == IF sig = None THEN <<>> ELSE <<Byte(255)>> \o encode_signature(sig)
encode_option_pk(pk) == IF pk = None THEN <<Byte(0)>> ELSE <<Byte(255)>> \o encode_pk(pk)

\* The cells of a list of hashes, two for each.
raw_pkhs(list) ==
    [i \in 1 .. 2 * Len(list) |-> encode_raw_pkh(list[(i + 1) \div 2])[IF i % 2 = 1 THEN 1 ELSE 2]]

\* Mutant: the list is prefixed with the number of keys, not of bytes.
encode_pkh_list_count(list) == <<Field("len", Len(list))>> \o raw_pkhs(list)

encode_pkh_list(list) == <<Field("len", 21 * Len(list))>> \o raw_pkhs(list)

read_field(kind, m) ==
    IF m # <<>> /\ Head(m).f = kind THEN Read(Head(m).v, Tail(m)) ELSE Bad

read_u8(m) == read_field("u8", m)

\* A tag that must be 3, then the field itself.
read_tagged(kind, m) ==
    LET t == read_u8(m) IN IF t.ok /\ t.val = 3 THEN read_field(kind, t.rest) ELSE Bad

decode_raw_pkh(m) == read_tagged("pkh", m)
decode_pk(m) == read_tagged("pk", m)
decode_signature(m) == read_field("sig", m)

decode_versioned_pkh(m) ==
    LET outer == read_u8(m)
        pkh == decode_raw_pkh(outer.rest)
        version == read_u8(pkh.rest)
    IN  IF outer.ok /\ outer.val = 3 /\ pkh.ok /\ version.ok THEN Read(pkh.val, version.rest) ELSE Bad

\* The length prefix is refused before anything is allocated for it.
decode_bytes(m) ==
    LET len == read_field("len", m) IN
    IF len.ok /\ len.val <= MaxDataLen THEN read_field("data", len.rest) ELSE Bad

\* The optional signature ends the object and is left out altogether when absent.
decode_option_signature(m) ==
    IF m = <<>> THEN Read(None, m)
    ELSE IF Head(m) = Byte(255) THEN decode_signature(Tail(m)) ELSE Bad

decode_option_pk(m) ==
    LET t == read_u8(m) IN
    IF t.ok /\ t.val = 255 THEN decode_pk(t.rest)
    ELSE IF t.ok /\ t.val = 0 THEN Read(None, t.rest) ELSE Bad

\* Hash i of a list.
read_pkh(m, i) == decode_raw_pkh(SubSeq(m, 2 * i - 1, 2 * i))

\* Keys are read until the announced number of bytes is used up.
decode_pkh_list(m) ==
    LET len == read_field("len", m)
        n == (len.val + 20) \div 21
    IN  IF len.ok /\ 2 * n <= Len(len.rest) /\ \A i \in 1 .. n : read_pkh(len.rest, i).ok
        THEN Read([i \in 1 .. n |-> read_pkh(len.rest, i).val],
                  SubSeq(len.rest, 2 * n + 1, Len(len.rest)))
        ELSE Bad

decode_option_pkh_list(m) ==
    LET t == read_u8(m) IN
    IF t.ok /\ t.val = 255 THEN decode_pkh_list(t.rest)
    ELSE IF t.ok /\ t.val = 0 THEN Read(None, t.rest) ELSE Bad

-----------------------------------------------------------------------------
(* Requests.  Fields a kind of request does not have are None.             *)

encode_request(r) ==
    <<Byte(tag[r.kind])>> \o
    (CASE r.kind \in SignLike ->
            encode_versioned_pkh(r.pkh) \o encode_bytes(r.data) \o encode_option_signature(r.sig)
       [] r.kind \in PkhOnly -> encode_raw_pkh(r.pkh)
       [] r.kind = "BlsProveRequest" -> encode_raw_pkh(r.pkh) \o encode_option_pk(r.pk)
       [] OTHER -> <<>>)

Request(kind, pkh, data, sig, pk) ==
    [kind |-> kind, pkh |-> pkh, data |-> data, sig |-> sig, pk |-> pk]

\* The requests there are, by kind.
IsRequest(r) ==
    /\ r = Request(r.kind, r.pkh, r.data, r.sig, r.pk) /\ r.kind \in DOMAIN tag
    /\ IF r.kind \in SignLike THEN r.data.size <= MaxDataLen
       ELSE r.data = None /\ r.sig = None
    /\ r.kind # "BlsProveRequest" => r.pk = None
    /\ r.pkh = None <=> r.kind \in {"AuthorizedKeys", "KnownKeys"}

\* The fields of a request of a kind; trailing cells are never looked at.
decode_fields(kind, m) ==
    LET vpkh == decode_versioned_pkh(m)
        data == decode_bytes(vpkh.rest)
        sig == decode_option_signature(data.rest)
        pkh == decode_raw_pkh(m)
        pk == decode_option_pk(pkh.rest)
    IN  CASE kind \in SignLike ->
               IF vpkh.ok /\ data.ok /\ sig.ok
               THEN Read(Request(kind, vpkh.val, data.val, sig.val, None), sig.rest) ELSE Bad
          [] kind \in PkhOnly ->
               IF pkh.ok THEN Read(Request(kind, pkh.val, None, None, None), pkh.rest) ELSE Bad
          [] kind = "BlsProveRequest" ->
               IF pkh.ok /\ pk.ok
               THEN Read(Request(kind, pkh.val, None, None, pk.val), pk.rest) ELSE Bad
          [] OTHER -> Read(Request(kind, None, None, None, None), m)

decode_request(m) ==
    LET t == read_u8(m)
        kinds == {k \in DOMAIN tag : tag[k] = t.val}
    IN  IF ~ t.ok \/ kinds = {} THEN Bad
        ELSE decode_fields(CHOOSE k \in kinds : TRUE, t.rest)

-----------------------------------------------------------------------------
(* Responses.  Ok and Error are told apart by the first cell; what an Ok   *)
(* response holds is known to the client from what it asked.               *)

encode_response(resp) ==
    CASE resp.kind = "Error" -> <<Byte(1), Field("len", resp.val.size), Field("data", resp.val)>>
      [] resp.kind = "Signature" -> <<Byte(0)>> \o encode_signature(resp.val)
      [] resp.kind = "PublicKey" -> <<Byte(0)>> \o encode_pk(resp.val)
      [] resp.kind = "AuthorizedKeys" ->
            IF resp.val = None THEN <<Byte(0), Byte(0)>> ELSE <<Byte(0), Byte(1)>> \o encode_pkh_list(resp.val)
      [] resp.kind \in {"Nonce", "NonceHash"} -> <<Byte(0), Field("hash", resp.val)>>
      [] resp.kind = "Bool" -> <<Byte(0), Byte(IF resp.val THEN 255 ELSE 0)>>
      [] resp.kind = "KnownKeys" -> <<Byte(0)>> \o encode_pkh_list(resp.val)

\* The kind of Ok response each kind of request is answered with.
ResponseKind ==
    [Sign |-> "Signature", BlsProveRequest |-> "Signature", PublicKey |-> "PublicKey",
     AuthorizedKeys |-> "AuthorizedKeys", DeterministicNonce |-> "Nonce",
     DeterministicNonceHash |-> "NonceHash", SupportsDeterministicNonces |-> "Bool",
     KnownKeys |-> "KnownKeys"]

decode_payload(kind, m) ==
    CASE kind = "Signature" -> decode_signature(m)
      [] kind = "PublicKey" -> decode_pk(m)
      [] kind = "AuthorizedKeys" -> decode_option_pkh_list(m)
      [] kind \in {"Nonce", "NonceHash"} -> read_field("hash", m)
      [] kind = "Bool" ->
            LET b == read_u8(m) IN IF b.ok THEN Read(b.val # 0, b.rest) ELSE Bad
      [] kind = "KnownKeys" -> decode_pkh_list(m)

decode_response(m, request) ==
    LET t == read_u8(m)
        kind == IF t.val = 1 THEN "Error" ELSE ResponseKind[request.kind]
        payload == IF t.val = 1 THEN decode_bytes(t.rest) ELSE decode_payload(kind, t.rest)
    IN  IF t.ok /\ t.val \in {0, 1} /\ payload.ok
        THEN Read([kind |-> kind, val |-> payload.val], payload.rest) ELSE Bad

=============================================================================
