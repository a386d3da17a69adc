------------------------------ MODULE MCServer ------------------------------
(* A small instance of Server.  The key file that loads names key 1 twice, *)
(* the last time as the companion key, and holds a key of no role; key 2   *)
(* is the consensus key and key 3 is not held.                             *)
EXTENDS Server

CONSTANTS c1, c2, c3

MCConns == {c1, c2, c3}

Entry(pkh, alias) == [pkh |-> pkh, alias |-> alias, good |-> TRUE]

MCKeyFiles ==
    {<<Entry(1, "consensus"), Entry(0, "spare"), Entry(2, "consensus"), Entry(1, "companion")>>,
     <<Entry(1, "companion"), [Entry(2, "consensus") EXCEPT !.good = FALSE]>>}

Block == [size |-> 120, magic |-> 17, chain |-> "main", fitness |-> 36, level |-> 7]
Foreign == [Block EXCEPT !.chain = "ghost"]
Stub == [size |-> 4, magic |-> 18, chain |-> "ghost", fitness |-> 0, level |-> 7]

Whole(r) == [req |-> r, cells |-> encode_request(r), torn |-> FALSE]
Torn(r) == [Whole(r) EXCEPT !.torn = TRUE]
Cut(r) == [Whole(r) EXCEPT !.cells = SubSeq(@, 1, Len(@) - 1)]

SignBlock == Request("Sign", 2, Block, None, None)
SignAuth == Request("Sign", 1, Block, "auth", None)

Query(kind, pkh, pk) == Request(kind, pkh, None, None, pk)

\* One client signs, one sends what is broken or refused, one looks keys up.
MCFrames ==
    [c \in MCConns |->
        CASE c = c1 -> {Whole(SignBlock), Torn(SignBlock)}
          [] c = c2 -> {Cut(SignAuth), Whole(Request("Sign", 2, Foreign, None, None))}
          [] c = c3 -> {Whole(Query("PublicKey", 3, None)), Whole(Query("KnownKeys", None, None)),
                        Whole(Query("BlsProveRequest", 1, None))}]

\* Every kind of request, with and without its options: what is decoded is what
\* was encoded, and an encoding that lost its last field does not decode.
Requests ==
    {Request(k, p, d, s, None) : k \in SignLike, p \in 1 .. 3, d \in {Block, Stub}, s \in {None, "auth"}}
    \cup {Query(k, p, None) : k \in PkhOnly, p \in 1 .. 3}
    \cup {Query("BlsProveRequest", p, k) : p \in 1 .. 3, k \in {None, 1, 2}}
    \cup {Query(k, None, None) : k \in {"AuthorizedKeys", "KnownKeys"}}

ASSUME WireRoundTrip ==
    \A r \in Requests :
        /\ decode_request(encode_request(r)) = Read(r, <<>>)
        /\ ~ decode_request(Cut(r).cells).ok

=============================================================================
