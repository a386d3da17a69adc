------------------------------- MODULE Server -------------------------------
(***************************************************************************)
(* The TCP side of the signer: the accept loop and its connection limit,   *)
(* one thread per connection, the requests a thread serves, the callbacks  *)
(* that bracket a connection (activity LED and CPU frequency) and the      *)
(* record of what was signed that the display shows.  The restart loop of  *)
(* signer_server.rs runs the server again when binding or accepting fails. *)
(*                                                                         *)
(* Clients connect, send whole or broken frames, fall silent or hang up at *)
(* any moment.  What the watermark says to a well-formed operation is the  *)
(* subject of module Signer and is a free choice here.                     *)
(***************************************************************************)
EXTENDS Wire, FiniteSets, SequencesExt

CONSTANTS Conns,        \* the connections clients may open
          MaxConn,      \* max_connections: 4 in the code
          RingSize,     \* events of SigningEventRing: 5 in the code
          Frames,       \* what each client may send: frames of the protocol
          KeyFiles,     \* the key files the signer may be started with
          Chain,        \* the chain the device is provisioned for
          MaxOpens,     \* bound: connections opened
          MaxRequests,  \* bound: frames sent over all connections
          MaxFaults     \* bound: failing bind, accept and socket calls

ASSUME ServerAssumption ==
    /\ MaxConn \in Nat \ {0} /\ RingSize \in Nat \ {0}
    /\ IsFiniteSet(Conns) /\ MaxFaults \in Nat

\* The error text fits a length prefix the client accepts.
ASSUME MaxDataLenAssumption == MaxDataLen \in Nat /\ 60 <= MaxDataLen

\* Keys are numbered.
ASSUME KeyFilesAssumption ==
    \A entries \in KeyFiles :
        entries \in Seq([pkh : Nat, alias : STRING, good : BOOLEAN])

\* A client sends the encoding of what it asks, or what is no request at all.
ASSUME FramesAssumption ==
    \A c \in Conns : \A f \in Frames[c] :
        /\ IsRequest(f.req)
        /\ f.cells = encode_request(f.req) \/ ~ decode_request(f.cells).ok

VARIABLES
    server,     \* the thread of start_integrated_signer: "bind", "accept" or "sleep"
    inst,       \* the Server value of this turn of the restart loop
    count,      \* connection_count of each Server value
    conn,       \* for each connection, its thread and its socket
    keys,       \* the KeyManager: key hash to lower-case alias
    cpu,        \* CpuBoost: nested sessions and the frequency in sysfs
    led,        \* Led: nested sessions, generation, brightness and deferred offs
    activity,   \* SigningActivity: total_signatures and the event ring
    signed,     \* ghost: every signature handed to the activity record, in order
    opened, sent, faults

vars == <<server, inst, count, conn, keys, cpu, led, activity, signed, opened, sent, faults>>

-----------------------------------------------------------------------------
(* The key manager: keys are numbered in the order of their base58 hashes. *)

Roles == <<"consensus", "companion">>

\* parse_secret_keys and add_signer: one bad key refuses the whole file, and
\* the last entry of a hash names it.
LoadKeys(entries) ==
    [k \in {entries[i].pkh : i \in DOMAIN entries} |->
        entries[CHOOSE i \in DOMAIN entries :
                    /\ entries[i].pkh = k
                    /\ \A j \in DOMAIN entries : entries[j].pkh = k => j <= i].alias]

parses(entries) == entries # <<>> /\ \A i \in DOMAIN entries : entries[i].good

\* The elements of a set from the smallest up.
InOrder(S) == [i \in 1 .. Cardinality(S) |-> CHOOSE k \in S : Cardinality({j \in S : j < k}) = i - 1]

\* Mutant: the keys in the order of their hashes.
list_keys_by_hash(names) == InOrder(DOMAIN names)

list_keys(names) ==
    LET holders(role) == {k \in DOMAIN names : names[k] = role}
        first(role) == IF holders(role) = {} THEN <<>>
                       ELSE <<CHOOSE k \in holders(role) : \A j \in holders(role) : k <= j>>
        head == first(Roles[1]) \o first(Roles[2])
        extras == DOMAIN names \ {head[i] : i \in DOMAIN head}
    IN  head \o InOrder(extras)

-----------------------------------------------------------------------------
(* The payload of a Sign request, by the fields magic_bytes.rs reads.      *)

check_magic_byte(d) == d.size > 0 /\ d.magic \in {17, 18, 19}

get_chain_id_for_tenderbake(d) == IF d.size < 5 THEN None ELSE d.chain

\* The round ends at an offset the fitness length of the payload gives.
get_level_and_round_for_tenderbake_block(d) ==
    LET round_offset == 83 + d.fitness IN
    IF d.size < 87 \/ d.size < round_offset THEN None ELSE d.level

get_level_and_round_for_tenderbake_attestation(d) == IF d.size < 46 THEN None ELSE d.level

parse_sign_payload(d) ==
    [chain |-> get_chain_id_for_tenderbake(d),
     level |-> IF d.magic = 17 THEN get_level_and_round_for_tenderbake_block(d)
               ELSE get_level_and_round_for_tenderbake_attestation(d)]

-----------------------------------------------------------------------------
\* A connection nobody has opened.  in is the frame in the socket, by what it
\* decodes to, asked the request the client meant, resp the answer on its way back and alert the event its
\* handling sent to the UI loop.
Idle == [st |-> "none", inst |-> 0, in |-> None, asked |-> None, req |-> None, resp |-> None,
         alert |-> None, gone |-> FALSE]

Threads == {c \in Conns : conn[c].st \notin {"none", "queued"}}
Serving == {c \in Conns : conn[c].st \in {"read", "record", "write", "done"}}
ErrorResponse == [kind |-> "Error", val |-> [size |-> 60, text |-> "error"]]
Ok(kind, v) == [kind |-> kind, val |-> v]

\* The ring as SigningEventRing keeps it: slots counted from 0, the next slot
\* to write and how many are in use.
EmptyRing == [events |-> [i \in 0 .. RingSize - 1 |-> None], head |-> 0, len |-> 0]

\* Mutant: the length is not capped.
push_uncapped(ring, e) ==
    [events |-> [ring.events EXCEPT ![ring.head % RingSize] = e],
     head |-> (ring.head + 1) % RingSize,
     len |-> ring.len + 1]

push(ring, e) ==
    [events |-> [ring.events EXCEPT ![ring.head % RingSize] = e],
     head |-> (ring.head + 1) % RingSize,
     len |-> IF ring.len < RingSize THEN ring.len + 1 ELSE ring.len]

iter(ring) ==
    [i \in 1 .. ring.len |-> ring.events[(ring.head + RingSize - ring.len + i - 1) % RingSize]]

Init ==
    /\ \E entries \in KeyFiles : parses(entries) /\ keys = LoadKeys(entries)
    /\ server = "bind" /\ inst = 1 /\ count = [i \in 1 .. MaxFaults + 1 |-> 0]
    /\ conn = [c \in Conns |-> Idle]
    /\ cpu = [active |-> 0, freq |-> "min"]
    /\ led = [active |-> 0, generation |-> 0, lit |-> FALSE, deferred |-> {}]
    /\ activity = [total |-> 0, ring |-> EmptyRing]
    /\ signed = <<>> /\ opened = 0 /\ sent = 0 /\ faults = 0

Fault == faults < MaxFaults /\ faults' = faults + 1

-----------------------------------------------------------------------------
(* The server thread.                                                      *)

run ==
    /\ server = "bind" /\ server' = "accept"
    /\ UNCHANGED <<inst, count, conn, keys, cpu, led, activity, signed, opened, sent, faults>>

bind_fails ==
    /\ server = "bind" /\ server' = "sleep" /\ Fault
    /\ UNCHANGED <<inst, count, conn, keys, cpu, led, activity, signed, opened, sent>>

\* Mutant: one connection too many.
accept_loop_off_by_one(c) ==
    /\ server = "accept" /\ conn[c].st = "queued"
    /\ IF count[inst] > MaxConn
       THEN conn' = [conn EXCEPT ![c] = Idle] /\ UNCHANGED count
       ELSE /\ count' = [count EXCEPT ![inst] = @ + 1]
            /\ conn' = [conn EXCEPT ![c].st = "spawned", ![c].inst = inst]
    /\ UNCHANGED <<server, inst, keys, cpu, led, activity, signed, opened, sent, faults>>

\* The limit is checked and the slot taken by the one accepting thread.
accept_loop(c) ==
    /\ server = "accept" /\ conn[c].st = "queued"
    /\ IF count[inst] >= MaxConn
       THEN conn' = [conn EXCEPT ![c] = Idle] /\ UNCHANGED count
       ELSE /\ count' = [count EXCEPT ![inst] = @ + 1]
            /\ conn' = [conn EXCEPT ![c].st = "spawned", ![c].inst = inst]
    /\ UNCHANGED <<server, inst, keys, cpu, led, activity, signed, opened, sent, faults>>

\* An accept error ends run: the listener is dropped and whoever waits on it
\* is reset; the threads of accepted connections live on.
accept_fails ==
    /\ server = "accept" /\ server' = "sleep" /\ Fault
    /\ conn' = [c \in Conns |-> IF conn[c].st = "queued" THEN Idle ELSE conn[c]]
    /\ UNCHANGED <<inst, count, keys, cpu, led, activity, signed, opened, sent>>

\* Five seconds later run_signer_once builds a new Server, with a new counter.
start_integrated_signer ==
    /\ server = "sleep" /\ server' = "bind" /\ inst' = inst + 1
    /\ UNCHANGED <<count, conn, keys, cpu, led, activity, signed, opened, sent, faults>>

-----------------------------------------------------------------------------
(* A connection's thread.                                                  *)

ThreadUnchanged == UNCHANGED <<server, inst, keys, opened, sent>>

\* Led::on and CpuBoost::boost; each holds its own lock over its sysfs write.
Led_on ==
    led' = IF led.active = 0
           THEN [led EXCEPT !.active = 1, !.generation = @ + 1, !.lit = TRUE]
           ELSE [led EXCEPT !.active = @ + 1]

CpuBoost_boost ==
    cpu' = [active |-> cpu.active + 1, freq |-> IF cpu.active = 0 THEN "max" ELSE cpu.freq]

\* The socket is configured and notify_request_received runs the pre_sign
\* callback.  A socket that cannot be configured ends the thread before that.
handle_connection(c) ==
    /\ conn[c].st = "spawned"
    /\ \/ Led_on /\ CpuBoost_boost /\ conn' = [conn EXCEPT ![c].st = "read"] /\ UNCHANGED faults
       \/ conn' = [conn EXCEPT ![c].st = "drop"] /\ Fault /\ UNCHANGED <<led, cpu>>
    /\ ThreadUnchanged /\ UNCHANGED <<count, activity, signed>>

\* The end of a connection: the peer hung up (read_message_length sees the end
\* of the stream, or the body does not arrive), or nothing came for 30 seconds.
Broken(c) == conn[c].in # None => conn[c].in.torn

ReadEof(c) ==
    /\ conn[c].st = "read" /\ conn[c].gone /\ Broken(c)
    /\ conn' = [conn EXCEPT ![c].st = "done", ![c].in = None, ![c].asked = None]
    /\ ThreadUnchanged /\ UNCHANGED <<count, cpu, led, activity, signed, faults>>

\* Mutant: no read timeout is set on the socket.
ReadTimeout_unset(c) == conn[c].st = "off" /\ UNCHANGED vars

ReadTimeout(c) ==
    /\ conn[c].st = "read" /\ ~ conn[c].gone /\ Broken(c)
    /\ conn' = [conn EXCEPT ![c].st = "done", ![c].in = None, ![c].asked = None]
    /\ ThreadUnchanged /\ UNCHANGED <<count, cpu, led, activity, signed, faults>>

\* resolve_signer: every request that names a key goes through it, and a key the
\* signer does not hold is reported to the operator.
Unheld(r) == r.pkh # None /\ r.pkh \notin DOMAIN keys

Reply(c, resp, alert) ==
    conn' = [conn EXCEPT ![c].st = "write", ![c].resp = resp, ![c].in = None, ![c].alert = alert]

\* Mutant: the lookup of a key other than for Sign bypasses resolve_signer's report.
handle_other_silent(c, r) ==
    /\ r.kind # "Sign"
    /\ Reply(c, IF Unheld(r) THEN ErrorResponse
                ELSE IF r.kind = "KnownKeys" THEN Ok("KnownKeys", list_keys(keys))
                ELSE Ok("PublicKey", r.pkh), None)

handle_other(c, r) ==
    /\ r.kind # "Sign"
    /\ Reply(c, IF Unheld(r) THEN ErrorResponse
                ELSE CASE r.kind = "PublicKey" -> Ok("PublicKey", r.pkh)
                       [] r.kind = "AuthorizedKeys" -> Ok("AuthorizedKeys", None)
                       [] r.kind = "DeterministicNonce" -> Ok("Nonce", <<r.pkh, r.data>>)
                       [] r.kind = "DeterministicNonceHash" -> Ok("NonceHash", <<r.pkh, r.data>>)
                       [] r.kind = "SupportsDeterministicNonces" -> Ok("Bool", TRUE)
                       [] r.kind = "KnownKeys" -> Ok("KnownKeys", list_keys(keys))
                       [] r.kind = "BlsProveRequest" -> Ok("Signature", <<r.pkh, r.pk>>),
                IF Unheld(r) THEN "unknown" ELSE None)

\* handle_sign up to the signature: the magic byte, then the key, then the
\* chain, then the watermark.  A payload too short for a chain id is signed
\* without consulting the watermark.
handle_sign(c, r) ==
    LET parsed == parse_sign_payload(r.data)
        sign == conn' = [conn EXCEPT ![c].st = "record", ![c].req = r, ![c].in = None]
        refuse(alert) == Reply(c, ErrorResponse, alert)
    IN  /\ r.kind = "Sign"
        /\ CASE ~ check_magic_byte(r.data) -> refuse(None)
             [] check_magic_byte(r.data) /\ Unheld(r) -> refuse("unknown")
             [] OTHER ->
                    \/ /\ parsed.chain = None \/ (parsed.chain = Chain /\ parsed.level # None)
                       /\ sign
                    \/ parsed.chain # None /\ refuse("watermark")

\* A whole frame is decoded and handled; one that does not decode ends the
\* connection without an answer.
handle_request(c) ==
    /\ conn[c].st = "read" /\ ~ Broken(c)
    /\ LET d == conn[c].in.decoded IN
       \/ d.ok /\ (handle_sign(c, d.val) \/ handle_other(c, d.val))
       \/ /\ ~ d.ok
          /\ conn' = [conn EXCEPT ![c].st = "done", ![c].in = None, ![c].asked = None]
    /\ ThreadUnchanged /\ UNCHANGED <<count, cpu, led, activity, signed, faults>>

\* Only a key of a role is recorded and shown; total and ring change under one lock.
record_activity(c) ==
    LET r == conn[c].req
        role == keys[r.pkh]
    IN  /\ conn[c].st = "record"
        /\ conn' = [conn EXCEPT ![c].st = "write", ![c].resp = Ok("Signature", <<r.pkh, r.data>>)]
        /\ IF role \in {Roles[1], Roles[2]}
           THEN /\ activity' = [total |-> activity.total + 1,
                                ring |-> push(activity.ring, <<c, role, r.data>>)]
                /\ signed' = Append(signed, <<c, role, r.data>>)
           ELSE UNCHANGED <<activity, signed>>
        /\ ThreadUnchanged /\ UNCHANGED <<count, cpu, led, faults>>

\* The answer is written; the write fails, or is lost in the socket's buffer,
\* when the client has hung up.
process_request(c) ==
    LET answered == [Idle EXCEPT !.st = "read", !.inst = conn[c].inst, !.gone = conn[c].gone] IN
    /\ conn[c].st = "write"
    /\ \/ conn' = [conn EXCEPT ![c] = answered]
       \/ conn[c].gone /\ conn' = [conn EXCEPT ![c] = [answered EXCEPT !.st = "done"]]
    /\ ThreadUnchanged /\ UNCHANGED <<count, cpu, led, activity, signed, faults>>

\* Mutant: any connection that ends lowers the frequency.
CpuBoost_restore_eager == cpu' = [active |-> cpu.active - 1, freq |-> "min"]

CpuBoost_restore ==
    cpu' = IF cpu.active = 0 THEN cpu
           ELSE [active |-> cpu.active - 1, freq |-> IF cpu.active = 1 THEN "min" ELSE cpu.freq]

\* Mutant: no second deferred off while one is waiting.
Led_off_once ==
    led' = IF led.active = 1 /\ led.deferred = {}
           THEN [led EXCEPT !.active = 0, !.deferred = {led.generation}]
           ELSE [led EXCEPT !.active = @ - 1]

\* The last session schedules a deferred off that remembers the generation.
Led_off ==
    led' = CASE led.active = 0 -> led
             [] led.active = 1 -> [led EXCEPT !.active = 0, !.deferred = @ \cup {led.generation}]
             [] OTHER -> [led EXCEPT !.active = @ - 1]

\* The post_sign callback, however the connection ended.
notify_request_complete(c) ==
    /\ conn[c].st = "done" /\ CpuBoost_restore /\ Led_off
    /\ conn' = [conn EXCEPT ![c].st = "drop"]
    /\ ThreadUnchanged /\ UNCHANGED <<count, activity, signed, faults>>

\* ConnectionGuard::drop, when the thread ends; the socket closes with it.
ConnectionGuard_drop(c) ==
    /\ conn[c].st = "drop"
    /\ count' = [count EXCEPT ![conn[c].inst] = @ - 1]
    /\ conn' = [conn EXCEPT ![c] = Idle]
    /\ ThreadUnchanged /\ UNCHANGED <<cpu, led, activity, signed, faults>>

\* The deferred off of generation g, once the minimum on time has passed.
Led_deferred(g) ==
    /\ g \in led.deferred
    /\ led' = [led EXCEPT !.deferred = @ \ {g},
                          !.lit = IF led.active = 0 /\ led.generation = g THEN FALSE ELSE @]
    /\ ThreadUnchanged /\ UNCHANGED <<count, conn, cpu, activity, signed, faults>>

-----------------------------------------------------------------------------
(* The clients.                                                            *)

Connect(c) ==
    /\ conn[c].st = "none" /\ server = "accept"
    /\ opened < MaxOpens /\ opened' = opened + 1
    /\ conn' = [conn EXCEPT ![c].st = "queued"]
    /\ UNCHANGED <<server, inst, count, keys, cpu, led, activity, signed, sent, faults>>

\* A client asks one thing at a time: it waits for the answer to its last
\* request.  What it sends early waits in the socket until the thread reads.
Send(c) ==
    /\ conn[c].st = "read" /\ conn[c].in = None /\ ~ conn[c].gone
    /\ sent < MaxRequests /\ sent' = sent + 1
    /\ \E frame \in Frames[c] :
          conn' = [conn EXCEPT ![c].in = [decoded |-> decode_request(frame.cells), torn |-> frame.torn],
                               ![c].asked = frame.req]
    /\ UNCHANGED <<server, inst, count, keys, cpu, led, activity, signed, opened, faults>>

\* The thread notices a client that hung up when it next reads or writes.
HangUp(c) ==
    /\ conn[c].st \in {"read", "write"} /\ ~ conn[c].gone
    /\ conn' = [conn EXCEPT ![c].gone = TRUE]
    /\ UNCHANGED <<server, inst, count, keys, cpu, led, activity, signed, opened, sent, faults>>

-----------------------------------------------------------------------------
ServerStep == run \/ bind_fails \/ accept_fails \/ start_integrated_signer \/ \E c \in Conns : accept_loop(c)

ThreadStep(c) ==
    \/ handle_connection(c)
    \/ ReadEof(c) \/ ReadTimeout(c) \/ handle_request(c) \/ record_activity(c) \/ process_request(c)
    \/ notify_request_complete(c) \/ ConnectionGuard_drop(c)

Client == \E c \in Conns : Connect(c) \/ Send(c) \/ HangUp(c)

Next == ServerStep \/ Client \/ (\E c \in Conns : ThreadStep(c)) \/ \E g \in led.deferred : Led_deferred(g)

\* Every thread runs, a silent socket times out and a sleeping thread wakes.
Fairness ==
    /\ WF_vars(run \/ start_integrated_signer)
    /\ \A c \in Conns : WF_vars(accept_loop(c)) /\ WF_vars(ThreadStep(c))
    /\ WF_vars(\E g \in led.deferred : Led_deferred(g))

Spec == Init /\ [][Next]_vars /\ Fairness

-----------------------------------------------------------------------------
(* Properties.                                                             *)

\* No Server value runs more threads than max_connections, and its counter is
\* exact: a connection that ends in any way gives its slot back, once.
SlotsExact ==
    \A i \in DOMAIN count :
        LET live == Cardinality({c \in Threads : conn[c].inst = i})
        IN  count[i] = live /\ live <= MaxConn

\* While a connection is served the CPU is at its maximum and the LED is lit,
\* whatever the other connections open and close meanwhile, and the CPU is back
\* at its minimum when the last one is through.
SpeedFollowsSessions ==
    /\ Serving # {} => cpu.freq = "max" /\ led.lit
    /\ Serving = {} => cpu.freq = "min"

\* What goes back to a client is the answer to what it asked on this connection: an
\* error, or the kind of answer of its request, about the key and the data it
\* named.
AnswersMatch ==
    \A c \in Conns : conn[c].resp # None =>
        LET a == conn[c].asked
            d == decode_response(encode_response(conn[c].resp), a)
        IN  /\ d.ok /\ d.rest = <<>>
            /\ \/ d.val = ErrorResponse
               \/ /\ d.val.kind = ResponseKind[a.kind]
                  /\ a.kind \in SignLike => d.val.val = <<a.pkh, a.data>>
                  /\ a.kind = "BlsProveRequest" => d.val.val = <<a.pkh, a.pk>>
                  /\ a.kind = "PublicKey" => d.val.val = a.pkh

\* Whichever request names a key the signer does not hold, the operator is told:
\* a public-key or proof lookup of a misconfigured baker as much as a Sign.
UnheldKeyReported ==
    \A c \in Conns : conn[c].resp # None =>
        LET a == conn[c].asked IN
        (a.pkh # None /\ a.pkh \notin DOMAIN keys) =>
            \/ conn[c].alert = "unknown"
            \/ a.kind = "Sign" /\ ~ check_magic_byte(a.data)

\* The host reads the first known key as the consensus key and the second as the
\* companion key when the device holds both.
KnownKeysInRoleOrder ==
    \A c \in Conns : conn[c].resp # None /\ conn[c].asked.kind = "KnownKeys" =>
        LET list == decode_response(encode_response(conn[c].resp), conn[c].asked).val.val IN
        (\A i \in 1 .. 2 : \E k \in DOMAIN keys : keys[k] = Roles[i]) =>
            keys[list[1]] = Roles[1] /\ keys[list[2]] = Roles[2]

\* The display's list is the last signatures in the order they were recorded,
\* and the total counts them all, however many threads sign at once.
RingShowsLast ==
    /\ activity.total = Len(signed)
    /\ iter(activity.ring) =
          SubSeq(signed, Len(signed) - activity.ring.len + 1, Len(signed))
    /\ activity.ring.len = IF Len(signed) < RingSize THEN Len(signed) ELSE RingSize

\* What the connection threads share agrees with what they did.
SharedStateExact == SlotsExact /\ SpeedFollowsSessions /\ RingShowsLast

\* Clients get the answers to their own requests, in the form the host reads, and
\* a request for a key the device lacks never goes unnoticed.
AnswersRight == AnswersMatch /\ UnheldKeyReported /\ KnownKeysInRoleOrder

\* Slots are never lost for good to clients that fall silent: the server always
\* comes back to a point where it would take a new connection.
SlotsComeBack == []<>(server = "accept" /\ count[inst] < MaxConn)

\* The LED does not stay lit: whenever no session is open it goes dark, unless a
\* new session starts first.
LedGoesDark == led.active = 0 ~> (~ led.lit \/ led.active > 0)

=============================================================================
