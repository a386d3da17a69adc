---------------------------- MODULE ServerProofs ----------------------------
(***************************************************************************)
(* Why what the connection threads share agrees with what they did: the    *)
(* slots of each Server value, the nested sessions behind the CPU          *)
(* frequency and the LED, and the ring of the last signatures.             *)
(*                                                                         *)
(* A thread counts in its slot from accept_loop to its guard's drop, and   *)
(* in a session from the callback before its first request to the one      *)
(* after its last, in whatever order the threads take their turns.         *)
(*                                                                         *)
(* And why a client reads the answer to what it asked: the decoders undo   *)
(* the encoders, field by field, and from the frame to the answer a thread *)
(* works on the request of its own connection.                             *)
(***************************************************************************)
EXTENDS Server, FiniteSetTheorems, SequenceTheorems, WellFoundedInduction, NaturalsInduction, TLAPS

-----------------------------------------------------------------------------
(* The inductive invariant.                                                 *)

States == {"none", "queued", "spawned", "read", "record", "write", "done", "drop"}
Session == {"read", "record", "write", "done"}
Instances == 1 .. MaxFaults + 1

(* The Server value of a turn of the restart loop: a new one needs a fault. *)
ServerInv ==
    /\ server \in {"bind", "accept", "sleep"}
    /\ faults \in 0 .. MaxFaults /\ inst \in Nat \ {0} /\ inst <= faults + 1
    /\ server = "sleep" => inst <= faults

(* A connection has the fields that place it.                               *)
Whole(r) == {"st", "inst"} \subseteq DOMAIN r

ConnInv ==
    /\ conn = [c \in Conns |-> conn[c]]
    /\ \A c \in Conns : /\ Whole(conn[c]) /\ conn[c].st \in States
                        /\ c \in Threads => conn[c].inst \in Instances

Live(i) == {c \in Threads : conn[c].inst = i}

SlotsInv ==
    /\ count \in [Instances -> Nat]
    /\ \A i \in Instances : count[i] = Cardinality(Live(i)) /\ count[i] <= MaxConn

(* The CPU and the LED count the connections that are served.               *)
SessionInv ==
    /\ cpu \in [active : Nat, freq : {"min", "max"}]
    /\ led \in [active : Nat, generation : Nat, lit : BOOLEAN, deferred : SUBSET Nat]
    /\ cpu.active = Cardinality(Serving) /\ led.active = Cardinality(Serving)
    /\ cpu.freq = IF cpu.active = 0 THEN "min" ELSE "max"
    /\ led.active > 0 => led.lit

(* The slot of the ring that holds the i-th of its events.                  *)
Slot(ring, i) == (ring.head + RingSize - ring.len + i - 1) % RingSize

(* The ring holds the last events of s, from its head back.                 *)
Holds(ring, s) ==
    /\ ring = [events |-> ring.events, head |-> ring.head, len |-> ring.len]
    /\ ring.events = [j \in 0 .. RingSize - 1 |-> ring.events[j]]
    /\ ring.head \in 0 .. RingSize - 1
    /\ ring.len = IF Len(s) < RingSize THEN Len(s) ELSE RingSize
    /\ \A i \in 1 .. ring.len : ring.events[Slot(ring, i)] = s[Len(s) - ring.len + i]

RingInv ==
    /\ signed \in Seq(Range(signed))
    /\ activity = [total |-> Len(signed), ring |-> activity.ring]
    /\ Holds(activity.ring, signed)

SharedInv == ServerInv /\ ConnInv /\ SlotsInv /\ SessionInv /\ RingInv

-----------------------------------------------------------------------------
(* The ring.                                                                *)

(* Wrapping round once.                                                     *)
LEMMA Wraps ==
    ASSUME NEW R \in Nat \ {0}, NEW x \in 0 .. 2 * R - 1
    PROVE  x % R = IF x < R THEN x ELSE x - R
<1>1. CASE x < R
  <2>1. x \in 0 .. R - 1
    BY <1>1
  <2>2. ASSUME NEW Q \in Nat \ {0}, NEW y \in 0 .. Q - 1 PROVE y % Q = y
    OBVIOUS
  <2> QED BY <1>1, <2>1, <2>2
<1>2. CASE ~ (x < R)
  <2>1. x \in R .. 2 * R - 1
    BY <1>2
  <2>2. ASSUME NEW Q \in Nat \ {0}, NEW y \in Q .. 2 * Q - 1 PROVE y % Q = y - Q
    OBVIOUS
  <2> QED BY <1>2, <2>1, <2>2
<1> QED BY <1>1, <1>2

(* The head and the length of a ring of R slots before and after a push.    *)
Pushes(R, h, l, g, m) ==
    /\ h \in 0 .. R - 1 /\ l \in 0 .. R
    /\ g = (h + 1) % R
    /\ m = IF l < R THEN l + 1 ELSE l

(* The slot an event was in is its slot once another is pushed, the oldest  *)
(* of a full ring apart, and the newest is in the slot that was the head.   *)
Stay(R, h, l, g, m) ==
    /\ g \in 0 .. R - 1 /\ m \in 1 .. R
    /\ (g + R - m + m - 1) % R = h
    /\ \A i \in 1 .. m - 1 :
         LET k == l + 1 - m + i IN
         /\ k \in 1 .. l
         /\ (g + R - m + i - 1) % R = (h + R - l + k - 1) % R
         /\ (h + R - l + k - 1) % R \in (0 .. R - 1) \ {h}

(* A push moves no event to another slot.                                   *)
LEMMA SlotsStay ==
    ASSUME NEW R \in Nat \ {0}, NEW h, NEW l, NEW g, NEW m, Pushes(R, h, l, g, m)
    PROVE  Stay(R, h, l, g, m)
<1> USE DEF Pushes
<1>1. h + 1 \in 0 .. 2 * R - 1
  OBVIOUS
<1>2. g = IF h + 1 < R THEN h + 1 ELSE 0
  <2>1. PICK x \in 0 .. 2 * R - 1 : x = h + 1
    BY <1>1
  <2>2. x % R = IF x < R THEN x ELSE x - R
    BY Wraps
  <2> QED BY <2>1, <2>2
<1>3. g \in 0 .. R - 1 /\ m \in 1 .. R
  BY <1>2
<1>4. (g + R - m + m - 1) % R = h
  <2>1. g + R - m + m - 1 = g + R - 1 /\ g + R - 1 \in 0 .. 2 * R - 1
    BY <1>3
  <2>2. PICK x \in 0 .. 2 * R - 1 : x = g + R - 1
    BY <2>1
  <2>3. x % R = IF x < R THEN x ELSE x - R
    BY Wraps
  <2> QED BY <1>2, <1>3, <2>1, <2>2, <2>3
<1>5. ASSUME NEW i \in 1 .. m - 1, NEW k, k = l + 1 - m + i
      PROVE  /\ k \in 1 .. l
             /\ (g + R - m + i - 1) % R = (h + R - l + k - 1) % R
             /\ (h + R - l + k - 1) % R \in (0 .. R - 1) \ {h}
  <2>1. k \in 1 .. l
    BY <1>3, <1>5
  <2>2. PICK y \in Nat : y = h + R - l + k - 1
    BY <2>1
  <2>3. PICK x \in Nat : x = g + R - m + i - 1
    BY <1>3, <1>5
  <2>4. y \in 0 .. 2 * R - 1 /\ x \in 0 .. 2 * R - 1
    BY <1>3, <1>5, <2>1, <2>2, <2>3
  <2>5. /\ y % R = IF y < R THEN y ELSE y - R
        /\ x % R = IF x < R THEN x ELSE x - R
    BY <2>4, Wraps
  <2>6. h - l + k = h + 1 - m + i
    BY <1>3, <1>5
  <2>7. y = h + R - m + i
    BY <1>3, <1>5, <2>2, <2>6
  <2>8. x % R = y % R
    <3>1. CASE h + 1 < R
      BY <1>2, <1>3, <1>5, <2>3, <2>5, <2>7, <3>1
    <3>2. CASE ~ (h + 1 < R)
      <4>1. g = 0 /\ h = R - 1
        BY <1>2, <3>2
      <4>2. y = x + R /\ x < R
        BY <1>3, <1>5, <2>3, <2>7, <4>1
      <4> QED BY <2>5, <4>2
    <3> QED BY <3>1, <3>2
  <2>9. y % R \in (0 .. R - 1) \ {h}
    BY <1>3, <1>5, <2>1, <2>2, <2>4, <2>5
  <2> QED BY <2>1, <2>2, <2>3, <2>8, <2>9
<1> QED BY <1>3, <1>4, <1>5 DEF Stay

(* SigningEventRing::push drops the oldest event once the ring is full.     *)
LEMMA PushHolds ==
    ASSUME NEW S, NEW s \in Seq(S), NEW ring, NEW e, Holds(ring, s)
    PROVE  Holds(push(ring, e), Append(s, e))
<1> DEFINE new == push(ring, e)
           t == Append(s, e)
<1>r. RingSize \in Nat \ {0}
  BY ServerAssumption
<1>1. /\ Len(t) = Len(s) + 1 /\ Len(s) \in Nat
      /\ \A i \in 1 .. Len(s) : t[i] = s[i]
      /\ t[Len(s) + 1] = e
  OBVIOUS
<1>2. /\ ring.head \in 0 .. RingSize - 1
      /\ ring.len = IF Len(s) < RingSize THEN Len(s) ELSE RingSize
      /\ ring.events = [j \in 0 .. RingSize - 1 |-> ring.events[j]]
      /\ \A i \in 1 .. ring.len : ring.events[Slot(ring, i)] = s[Len(s) - ring.len + i]
  BY DEF Holds
<1>3. ring.len \in 0 .. RingSize
  BY <1>r, <1>1, <1>2
<1>4. ring.head % RingSize = ring.head
  <2>1. ring.head \in 0 .. 2 * RingSize - 1 /\ ring.head < RingSize
    BY <1>r, <1>2
  <2> QED BY <1>r, <2>1, Wraps
<1>5. /\ new = [events |-> new.events, head |-> new.head, len |-> new.len]
      /\ new.events = [ring.events EXCEPT ![ring.head] = e]
      /\ new.head = (ring.head + 1) % RingSize
      /\ new.len = IF ring.len < RingSize THEN ring.len + 1 ELSE ring.len
  BY <1>4 DEF push
<1> HIDE DEF new, t
<1>6. /\ new.head \in 0 .. RingSize - 1 /\ new.len \in 1 .. RingSize
      /\ Slot(new, new.len) = ring.head
      /\ \A i \in 1 .. new.len - 1 :
            LET k == ring.len + 1 - new.len + i IN
            /\ k \in 1 .. ring.len
            /\ Slot(new, i) = Slot(ring, k)
            /\ Slot(ring, k) \in (0 .. RingSize - 1) \ {ring.head}
  <2>1. Pushes(RingSize, ring.head, ring.len, new.head, new.len)
    BY <1>2, <1>3, <1>5 DEF Pushes
  <2>2. Stay(RingSize, ring.head, ring.len, new.head, new.len)
    BY <1>r, <2>1, SlotsStay
  <2> QED BY <2>2 DEF Slot, Stay
<1>7. new.len = IF Len(t) < RingSize THEN Len(t) ELSE RingSize
  BY <1>r, <1>1, <1>2, <1>5
<1>8. /\ new.events = [j \in 0 .. RingSize - 1 |-> new.events[j]]
      /\ new.events[ring.head] = e
      /\ \A j \in (0 .. RingSize - 1) \ {ring.head} : new.events[j] = ring.events[j]
  BY <1>2, <1>5
<1>9. ASSUME NEW i \in 1 .. new.len
      PROVE  new.events[Slot(new, i)] = t[Len(t) - new.len + i]
  <2>1. CASE i = new.len
    <3>1. Len(t) - new.len + i = Len(s) + 1
      BY <1>1, <1>6, <2>1
    <3> QED BY <1>1, <1>6, <1>8, <2>1, <3>1
  <2>2. CASE i # new.len
    <3>1. i \in 1 .. new.len - 1
      BY <1>6, <1>9, <2>2
    <3>0. Len(t) - new.len + i = Len(s) + 1 - new.len + i
      <4>1. PICK n \in Nat, m \in Nat : n = Len(t) /\ m = new.len
        BY <1>1, <1>6
      <4>2. n = Len(s) + 1
        BY <1>1, <4>1
      <4> QED BY <4>1, <4>2, SMTT(30)
    <3>2. PICK k \in 1 .. ring.len :
            /\ k = ring.len + 1 - new.len + i
            /\ Slot(new, i) = Slot(ring, k)
            /\ Slot(ring, k) \in (0 .. RingSize - 1) \ {ring.head}
      BY <1>6, <3>1
    <3>3. ring.events[Slot(ring, k)] = s[Len(s) - ring.len + k]
      BY <1>2, <3>2
    <3>4. /\ Len(t) - new.len + i = Len(s) - ring.len + k
          /\ Len(s) - ring.len + k \in 1 .. Len(s)
      <4>1. ring.len <= Len(s)
        BY <1>r, <1>1, <1>2
      <4>2. Len(s) \in Nat /\ ring.len \in Nat /\ new.len \in Nat /\ i \in Nat /\ k \in 1 .. ring.len
        BY <1>1, <1>3, <1>6, <1>9
      <4>3. Len(s) + 1 - new.len + i = Len(s) - ring.len + k
        BY <3>2, <4>2
      <4>4. Len(s) - ring.len + k \in 1 .. Len(s)
        BY <4>1, <4>2
      <4> QED BY <3>0, <4>3, <4>4
    <3>5. t[Len(s) - ring.len + k] = s[Len(s) - ring.len + k]
      BY <1>1, <3>4
    <3>6. new.events[Slot(new, i)] = ring.events[Slot(ring, k)]
      BY <1>8, <3>2
    <3> QED BY <3>3, <3>4, <3>5, <3>6
  <2> QED BY <2>1, <2>2
<1>10. Holds(new, t)
  BY <1>5, <1>6, <1>7, <1>8, <1>9 DEF Holds
<1> QED BY <1>10 DEF new, t

(* What the display lists is what the ring holds.                           *)
LEMMA IterShows ==
    ASSUME NEW S, NEW s \in Seq(S), NEW ring, Holds(ring, s)
    PROVE  iter(ring) = SubSeq(s, Len(s) - ring.len + 1, Len(s))
<1> DEFINE a == Len(s) - ring.len + 1
<1>1. /\ Len(s) \in Nat /\ ring.len \in Nat /\ ring.len <= Len(s)
      /\ a \in Nat \ {0} /\ Len(s) - a + 1 = ring.len
  <2>1. PICK n \in Nat, R \in Nat : n = Len(s) /\ R = RingSize
    BY ServerAssumption
  <2>2. PICK l : l = ring.len /\ l = IF n < R THEN n ELSE R
    BY <2>1 DEF Holds
  <2>3. l \in Nat /\ l <= n /\ n - l + 1 \in Nat \ {0} /\ n - (n - l + 1) + 1 = l
    BY <2>2
  <2> QED BY <2>1, <2>2, <2>3
<1>2. SubSeq(s, a, Len(s)) = [i \in 1 .. Len(s) - a + 1 |-> s[a + i - 1]]
  <2>1. PICK n \in Nat, b \in Nat \ {0} : n = Len(s) /\ b = a
    BY <1>1
  <2>2. \A i \in b .. n : s[i] \in S
    BY <2>1
  <2>3. PICK u : u = SubSeq(s, b, n)
    OBVIOUS
  <2>4. /\ u \in Seq(S) /\ Len(u) = IF b <= n THEN n - b + 1 ELSE 0
        /\ \A i \in 1 .. n - b + 1 : u[i] = s[b + i - 1]
    BY <2>2, <2>3, SubSeqProperties
  <2>5. n - b + 1 = ring.len /\ 1 .. Len(u) = 1 .. n - b + 1
    BY <1>1, <2>1, <2>4
  <2>6. u = [i \in 1 .. n - b + 1 |-> s[b + i - 1]]
    BY <2>4, <2>5
  <2> QED BY <2>1, <2>3, <2>6
<1>3. \A i \in 1 .. ring.len : ring.events[Slot(ring, i)] = s[a + i - 1]
  <2> SUFFICES ASSUME NEW i \in 1 .. ring.len PROVE ring.events[Slot(ring, i)] = s[a + i - 1]
    OBVIOUS
  <2>1. Len(s) - ring.len + i = a + i - 1
    BY <1>1
  <2> QED BY <2>1 DEF Holds
<1>4. iter(ring) = [i \in 1 .. ring.len |-> ring.events[Slot(ring, i)]]
  BY DEF iter, Slot
<1> HIDE DEF a
<1>5. iter(ring) = [i \in 1 .. ring.len |-> s[a + i - 1]]
  BY <1>3, <1>4
<1> QED BY <1>1, <1>2, <1>5 DEF a

(* A sequence is one over its own elements.                                 *)
LEMMA OwnRange ==
    ASSUME NEW S, NEW s \in Seq(S)
    PROVE  s \in Seq(Range(s))
<1>1. Len(s) \in Nat /\ DOMAIN s = 1 .. Len(s) /\ s = [i \in 1 .. Len(s) |-> s[i]]
  OBVIOUS
<1>2. s \in [1 .. Len(s) -> Range(s)]
  BY <1>1 DEF Range
<1> QED BY <1>1, <1>2, SeqDef

-----------------------------------------------------------------------------
(* The threads and the sessions.                                            *)

(* The step changes connection c alone, and leaves it whole.                *)
Moves(c) ==
    /\ conn' = [d \in Conns |-> IF d = c THEN conn[c]' ELSE conn[d]]
    /\ Whole(conn[c])' /\ conn[c].st' \in States
    /\ conn[c].st' \notin {"none", "queued"} => conn[c].inst' \in Instances

With(A, c, in) == IF in THEN A \cup {c} ELSE A \ {c}

(* The sets the counters count, after a step of one connection.             *)
LEMMA Sets ==
    ASSUME ConnInv, NEW c \in Conns, Moves(c)
    PROVE  /\ ConnInv'
           /\ Serving' = With(Serving, c, conn[c].st' \in Session)
           /\ \A i \in Instances :
                Live(i)' = With(Live(i), c, conn[c].st' \notin {"none", "queued"} /\ conn[c].inst' = i)
<1>1. /\ \A d \in Conns : conn[d]' = IF d = c THEN conn[c]' ELSE conn[d]
      /\ conn' = [d \in Conns |-> conn'[d]]
  BY DEF Moves
<1>2. ConnInv'
  BY <1>1 DEF ConnInv, Moves, Threads, Whole
<1>3. Serving' = With(Serving, c, conn[c].st' \in Session)
  BY <1>1 DEF Serving, Session, With
<1>4. ASSUME NEW i \in Instances
      PROVE  Live(i)' = With(Live(i), c, conn[c].st' \notin {"none", "queued"} /\ conn[c].inst' = i)
  BY <1>1 DEF Live, Threads, With
<1> QED BY <1>2, <1>3, <1>4

(* What is counted is finite.                                               *)
LEMMA Finite ==
    /\ IsFiniteSet(Serving) /\ Cardinality(Serving) \in Nat
    /\ \A i : IsFiniteSet(Live(i)) /\ Cardinality(Live(i)) \in Nat
<1>1. IsFiniteSet(Conns)
  BY ServerAssumption
<1>2. Serving \in SUBSET Conns /\ \A i : Live(i) \in SUBSET Conns
  BY DEF Serving, Live, Threads
<1>3. IsFiniteSet(Serving) /\ \A i : IsFiniteSet(Live(i))
  BY <1>1, <1>2, FS_Subset
<1> QED BY <1>3, FS_CardinalityType

(* A step that opens no connection and ends none, in this server or any.    *)
LEMMA SlotsKept ==
    ASSUME SlotsInv, count' = count, \A i \in Instances : Live(i)' = Live(i)
    PROVE  SlotsInv'
BY DEF SlotsInv, Instances

(* A step that neither opens a session nor ends one.                        *)
LEMMA SessionsKept ==
    ASSUME SessionInv, cpu' = cpu, led' = led, Serving' = Serving
    PROVE  SessionInv'
BY DEF SessionInv

(* A connection that stays on its side of both callbacks.                   *)
LEMMA Stays ==
    ASSUME ConnInv, NEW c \in Conns, Moves(c), conn[c].inst' = conn[c].inst,
           conn[c].st' \in Session <=> conn[c].st \in Session,
           conn[c].st' \in {"none", "queued"} <=> conn[c].st \in {"none", "queued"}
    PROVE  ConnInv' /\ Serving' = Serving /\ \A i \in Instances : Live(i)' = Live(i)
<1>1. c \in Serving <=> conn[c].st \in Session
  BY DEF Serving, Session
<1>2. \A i : c \in Live(i) <=> conn[c].st \notin {"none", "queued"} /\ conn[c].inst = i
  BY DEF Live, Threads
<1>3. /\ ConnInv'
      /\ Serving' = With(Serving, c, conn[c].st' \in Session)
      /\ \A i \in Instances :
           Live(i)' = With(Live(i), c, conn[c].st' \notin {"none", "queued"} /\ conn[c].inst' = i)
  BY Sets
<1>4. Serving' = Serving
  BY <1>1, <1>3 DEF With
<1>5. ASSUME NEW i \in Instances PROVE Live(i)' = Live(i)
  <2>1. CASE c \in Live(i)
    BY <1>2, <1>3, <2>1 DEF With
  <2>2. CASE c \notin Live(i)
    BY <1>2, <1>3, <2>2 DEF With
  <2> QED BY <2>1, <2>2
<1> QED BY <1>3, <1>4, <1>5

(* The restart loop moves on a fault only; a thread's fault changes nothing *)
(* of it.                                                                   *)
LEMMA ServerKept ==
    ASSUME ServerInv, server' = server, inst' = inst, faults' = faults \/ Fault
    PROVE  ServerInv'
BY ServerAssumption DEF ServerInv, Fault

(* A step that signs nothing.                                               *)
LEMMA RingKept ==
    ASSUME RingInv, activity' = activity, signed' = signed
    PROVE  RingInv'
BY DEF RingInv, Holds, Slot

(* A thread or a client that changes the state of a connection alone.       *)
LEMMA OnlyConn ==
    ASSUME SharedInv, NEW c \in Conns, Moves(c), conn[c].inst' = conn[c].inst,
           conn[c].st' \in Session <=> conn[c].st \in Session,
           conn[c].st' \in {"none", "queued"} <=> conn[c].st \in {"none", "queued"},
           server' = server, inst' = inst, faults' = faults \/ Fault,
           count' = count, cpu' = cpu, led' = led
    PROVE  ServerInv' /\ ConnInv' /\ SlotsInv' /\ SessionInv'
<1>1. ConnInv' /\ Serving' = Serving /\ \A i \in Instances : Live(i)' = Live(i)
  BY Stays DEF SharedInv
<1> QED BY <1>1, ServerKept, SlotsKept, SessionsKept DEF SharedInv

(* A record of a connection with one value changed or more.                 *)
LEMMA MovesHow ==
    ASSUME ConnInv, NEW c \in Conns, NEW r, conn' = [conn EXCEPT ![c] = r],
           Whole(r), r.st \in States, r.st \notin {"none", "queued"} => r.inst \in Instances
    PROVE  Moves(c) /\ conn[c]' = r
BY DEF ConnInv, Moves, Whole

-----------------------------------------------------------------------------
(* At the start nothing is open.                                            *)
LEMMA InitInv == Init => SharedInv
<1> SUFFICES ASSUME Init PROVE SharedInv
  OBVIOUS
<1> USE DEF Init
<1>1. ServerInv
  BY ServerAssumption DEF ServerInv
<1>2. ConnInv /\ Serving = {} /\ \A i : Live(i) = {}
  BY DEF ConnInv, Whole, Idle, States, Serving, Live, Threads
<1>3. Cardinality({}) = 0
  BY FS_EmptySet
<1>4. SlotsInv
  <2>1. MaxConn \in Nat
    BY ServerAssumption
  <2>2. \A i \in Instances : Cardinality(Live(i)) = 0
    BY <1>2, <1>3
  <2>3. count \in [Instances -> Nat] /\ \A i \in Instances : count[i] = 0
    BY DEF Instances
  <2>4. 0 <= MaxConn
    BY <2>1
  <2>5. ASSUME NEW i \in Instances PROVE count[i] = Cardinality(Live(i)) /\ count[i] <= MaxConn
    BY <2>2, <2>3, <2>4, Zenon
  <2> QED BY <2>3, <2>5 DEF SlotsInv
<1>5. SessionInv
  BY <1>2, <1>3 DEF SessionInv
<1>6. RingInv
  <2>1. signed = <<>> /\ Len(signed) = 0 /\ signed \in Seq(Range(signed))
    BY DEF Range
  <2>2. activity.ring = EmptyRing
    OBVIOUS
  <2>3. Holds(EmptyRing, <<>>)
    BY ServerAssumption DEF Holds, EmptyRing
  <2> QED BY <2>1, <2>2, <2>3 DEF RingInv
<1> QED BY <1>1, <1>2, <1>4, <1>5, <1>6 DEF SharedInv

(* The server thread: a slot is taken when there is one.                    *)
LEMMA ServerSteps == SharedInv /\ ServerStep => SharedInv'
<1> SUFFICES ASSUME SharedInv, ServerStep PROVE SharedInv'
  OBVIOUS
<1>0. ServerInv /\ ConnInv /\ SlotsInv /\ SessionInv /\ RingInv
  BY DEF SharedInv
<1>1. CASE run \/ bind_fails \/ start_integrated_signer
  <2>1. ServerInv'
    BY <1>0, <1>1, ServerAssumption DEF ServerInv, run, bind_fails, start_integrated_signer, Fault
  <2>2. UNCHANGED <<conn, count, cpu, led, activity, signed>>
    BY <1>1 DEF run, bind_fails, start_integrated_signer
  <2>3. ConnInv' /\ Serving' = Serving /\ \A i \in Instances : Live(i)' = Live(i)
    BY <1>0, <2>2 DEF ConnInv, Whole, Live, Threads, Serving
  <2> QED BY <1>0, <2>1, <2>2, <2>3, SlotsKept, SessionsKept, RingKept DEF SharedInv
<1>2. CASE accept_fails
  <2>1. ServerInv'
    BY <1>0, <1>2, ServerAssumption DEF ServerInv, accept_fails, Fault
  <2>2. \A c \in Conns : conn[c]' = IF conn[c].st = "queued" THEN Idle ELSE conn[c]
    BY <1>2 DEF accept_fails
  <2>3. ConnInv'
    <3>1. conn' = [c \in Conns |-> conn'[c]]
      BY <1>2 DEF accept_fails
    <3> QED BY <1>0, <2>2, <3>1 DEF ConnInv, Whole, Idle, States, Threads
  <2>4. Serving' = Serving /\ \A i \in Instances : Live(i)' = Live(i)
    BY <2>2 DEF Serving, Live, Threads, Idle
  <2> QED BY <1>0, <1>2, <2>1, <2>3, <2>4, SlotsKept, SessionsKept, RingKept DEF SharedInv, accept_fails
<1>3. ASSUME NEW c \in Conns, accept_loop(c), count[inst] >= MaxConn PROVE SharedInv'
  <2>1. conn' = [conn EXCEPT ![c] = Idle] /\ count' = count
    BY <1>3 DEF accept_loop
  <2>2. Moves(c) /\ conn[c]' = Idle
    BY <1>0, <2>1, MovesHow DEF Whole, Idle, States
  <2>3. conn[c].st = "queued" /\ conn[c].st' = "none"
    BY <1>3, <2>2 DEF accept_loop, Idle
  <2>4. ConnInv' /\ Serving' = Serving /\ \A i \in Instances : Live(i)' = Live(i)
    <3>1. c \notin Serving /\ \A i : c \notin Live(i)
      BY <2>3 DEF Serving, Live, Threads
    <3>2. /\ ConnInv'
          /\ Serving' = With(Serving, c, conn[c].st' \in Session)
          /\ \A i \in Instances :
               Live(i)' = With(Live(i), c, conn[c].st' \notin {"none", "queued"} /\ conn[c].inst' = i)
      BY <1>0, <2>2, Sets
    <3>3. Serving' = Serving
      BY <2>3, <3>1, <3>2 DEF With, Session
    <3>4. ASSUME NEW i \in Instances PROVE Live(i)' = Live(i)
      BY <2>3, <3>1, <3>2 DEF With
    <3> QED BY <3>2, <3>3, <3>4
  <2> QED BY <1>0, <1>3, <2>1, <2>4, ServerKept, SlotsKept, SessionsKept, RingKept DEF SharedInv, accept_loop
<1>4. ASSUME NEW c \in Conns, accept_loop(c), ~ (count[inst] >= MaxConn) PROVE SharedInv'
  <2>0. PICK n \in Instances : n = inst
    BY <1>0, ServerAssumption DEF ServerInv, Instances
  <2> DEFINE r == [conn[c] EXCEPT !.st = "spawned", !.inst = n]
  <2>1. conn' = [conn EXCEPT ![c] = r] /\ count' = [count EXCEPT ![n] = @ + 1]
    BY <1>4, <2>0 DEF accept_loop
  <2>2. Whole(r) /\ r.st = "spawned" /\ r.inst = n
    BY <1>0 DEF ConnInv, Whole
  <2> HIDE DEF r
  <2>3. Moves(c) /\ conn[c].st' = "spawned" /\ conn[c].inst' = n
    BY <1>0, <2>1, <2>2, MovesHow DEF States
  <2>4. conn[c].st = "queued"
    BY <1>4 DEF accept_loop
  <2>5. c \notin Serving /\ \A i : c \notin Live(i)
    BY <2>4 DEF Serving, Live, Threads
  <2>6. ConnInv' /\ Serving' = Serving
        /\ Live(n)' = Live(n) \cup {c}
        /\ \A i \in Instances \ {n} : Live(i)' = Live(i)
    <3>1. ConnInv' /\ Serving' = With(Serving, c, conn[c].st' \in Session)
          /\ \A i \in Instances : Live(i)' = With(Live(i), c, conn[c].st' \notin {"none", "queued"} /\ conn[c].inst' = i)
      BY <1>0, <2>3, Sets
    <3>2. Serving' = Serving
      BY <2>3, <2>5, <3>1 DEF With, Session
    <3>3. Live(n)' = Live(n) \cup {c}
      <4>1. Live(n)' = With(Live(n), c, conn[c].st' \notin {"none", "queued"} /\ conn[c].inst' = n)
        BY <2>2, <3>1, Zenon
      <4> QED BY <2>3, <4>1 DEF With
    <3>4. ASSUME NEW i \in Instances \ {n} PROVE Live(i)' = Live(i)
      BY <2>3, <2>5, <3>1 DEF With
    <3> QED BY <3>1, <3>2, <3>3, <3>4
  <2>7. Cardinality(Live(n)') = Cardinality(Live(n)) + 1
    BY <2>5, <2>6, Finite, FS_AddElement
  <2>8. SlotsInv'
    <3>1. count[n] \in Nat /\ count[n] = Cardinality(Live(n)) /\ count[n] + 1 <= MaxConn
      BY <1>0, <1>4, <2>0, ServerAssumption DEF SlotsInv
    <3>2. count' \in [Instances -> Nat] /\ count[n]' = count[n] + 1
          /\ \A i \in Instances \ {n} : count[i]' = count[i]
      <4>1. count \in [Instances -> Nat]
        BY <1>0 DEF SlotsInv
      <4> QED BY <2>1, <3>1, <4>1
    <3>3. ASSUME NEW i \in Instances PROVE count[i]' = Cardinality(Live(i)') /\ count[i]' <= MaxConn
      <4>1. CASE i = n
        BY <2>7, <3>1, <3>2, <4>1
      <4>2. CASE i # n
        BY <1>0, <2>6, <3>2, <4>2 DEF SlotsInv
      <4> QED BY <4>1, <4>2
    <3> QED BY <3>2, <3>3 DEF SlotsInv, Instances
  <2> QED BY <1>0, <1>4, <2>6, <2>8, ServerKept, SessionsKept, RingKept DEF SharedInv, accept_loop
<1> QED BY <1>1, <1>2, <1>3, <1>4 DEF ServerStep

-----------------------------------------------------------------------------
(* The threads.                                                             *)

(* What Led::on and Led::off assign keeps the LED's record.                 *)
LEMMA LedRecord ==
    ASSUME NEW q \in [active : Nat, generation : Nat, lit : BOOLEAN, deferred : SUBSET Nat],
           NEW a \in Nat, NEW g \in Nat, NEW d \in SUBSET Nat
    PROVE  /\ [q EXCEPT !.active = a, !.generation = g, !.lit = TRUE]
                 \in [active : Nat, generation : Nat, lit : BOOLEAN, deferred : SUBSET Nat]
           /\ [q EXCEPT !.active = a, !.generation = g, !.lit = TRUE].active = a
           /\ [q EXCEPT !.active = a, !.generation = g, !.lit = TRUE].lit
           /\ [q EXCEPT !.active = a, !.deferred = d]
                 \in [active : Nat, generation : Nat, lit : BOOLEAN, deferred : SUBSET Nat]
           /\ [q EXCEPT !.active = a, !.deferred = d].active = a
           /\ [q EXCEPT !.active = a, !.deferred = d].lit = q.lit
OBVIOUS

(* The socket is configured, or the thread ends before its session.         *)
LEMMA OpenStep ==
    ASSUME SharedInv, NEW c \in Conns, handle_connection(c)
    PROVE  SharedInv'
<1>0. ServerInv /\ ConnInv /\ SlotsInv /\ SessionInv /\ RingInv
  BY DEF SharedInv
<1>1. conn[c].st = "spawned" /\ c \in Threads /\ Whole(conn[c]) /\ conn[c].inst \in Instances
  BY <1>0 DEF handle_connection, ConnInv, Threads
<1>2. /\ UNCHANGED <<server, inst, count, activity, signed>>
      /\ faults' = faults \/ Fault
  BY DEF handle_connection, ThreadUnchanged
<1>3. PICK r : /\ conn' = [conn EXCEPT ![c] = r]
               /\ Whole(r) /\ r.inst = conn[c].inst
               /\ \/ r.st = "read" /\ Led_on /\ CpuBoost_boost
                  \/ r.st = "drop" /\ UNCHANGED <<led, cpu>>
  <2>1. CASE Led_on /\ CpuBoost_boost /\ conn' = [conn EXCEPT ![c].st = "read"]
    <3>1. Whole([conn[c] EXCEPT !.st = "read"])
          /\ [conn[c] EXCEPT !.st = "read"].inst = conn[c].inst
          /\ [conn[c] EXCEPT !.st = "read"].st = "read"
      BY <1>1 DEF Whole
    <3> QED BY <2>1, <3>1
  <2>2. CASE UNCHANGED <<led, cpu>> /\ conn' = [conn EXCEPT ![c].st = "drop"]
    <3>1. Whole([conn[c] EXCEPT !.st = "drop"])
          /\ [conn[c] EXCEPT !.st = "drop"].inst = conn[c].inst
          /\ [conn[c] EXCEPT !.st = "drop"].st = "drop"
      BY <1>1 DEF Whole
    <3> QED BY <2>2, <3>1
  <2> QED BY <2>1, <2>2 DEF handle_connection
<1>4. Moves(c) /\ conn[c]' = r
  BY <1>0, <1>1, <1>3, MovesHow DEF States
<1>5. /\ ConnInv'
      /\ Serving' = With(Serving, c, conn[c].st' \in Session)
      /\ \A i \in Instances :
           Live(i)' = With(Live(i), c, conn[c].st' \notin {"none", "queued"} /\ conn[c].inst' = i)
  BY <1>0, <1>4, Sets
<1>6. \A i \in Instances : Live(i)' = Live(i)
  BY <1>1, <1>3, <1>4, <1>5 DEF With, Live
<1>7. c \notin Serving
  BY <1>1 DEF Serving
<1>8. SessionInv'
  <2>1. CASE r.st = "drop" /\ UNCHANGED <<led, cpu>>
    <3>1. Serving' = Serving
      BY <1>4, <1>5, <1>7, <2>1 DEF With, Session
    <3> QED BY <1>0, <2>1, <3>1, SessionsKept
  <2>2. CASE r.st = "read" /\ Led_on /\ CpuBoost_boost
    <3>1. Serving' = Serving \cup {c}
      BY <1>4, <1>5, <2>2 DEF With, Session
    <3>2. Cardinality(Serving') = Cardinality(Serving) + 1 /\ Cardinality(Serving) \in Nat
      BY <1>7, <3>1, Finite, FS_AddElement
    <3>3. cpu' \in [active : Nat, freq : {"min", "max"}] /\ cpu.active' = cpu.active + 1
          /\ cpu.freq' = "max"
      BY <1>0, <2>2 DEF SessionInv, CpuBoost_boost
    <3>4. led' \in [active : Nat, generation : Nat, lit : BOOLEAN, deferred : SUBSET Nat]
          /\ led.active' = led.active + 1 /\ led.lit'
      <4>1. led \in [active : Nat, generation : Nat, lit : BOOLEAN, deferred : SUBSET Nat]
            /\ (led.active > 0 => led.lit)
        BY <1>0 DEF SessionInv
      <4>2. CASE led.active = 0
        <5>1. led' = [led EXCEPT !.active = 1, !.generation = led.generation + 1, !.lit = TRUE]
          BY <2>2, <4>2 DEF Led_on
        <5>2. led.generation + 1 \in Nat
          BY <4>1
        <5>3. 1 = led.active + 1 /\ 0 \in Nat /\ 1 \in Nat
          BY <4>2
        <5> QED BY <4>1, <5>1, <5>2, <5>3, LedRecord
      <4>3. CASE led.active # 0
        <5>1. led' = [led EXCEPT !.active = led.active + 1]
          BY <2>2, <4>3 DEF Led_on
        <5>2. led.active + 1 \in Nat /\ led.lit
          BY <4>1, <4>3
        <5> QED BY <4>1, <5>1, <5>2
      <4> QED BY <4>2, <4>3
    <3> QED BY <1>0, <3>2, <3>3, <3>4 DEF SessionInv
  <2> QED BY <1>3, <2>1, <2>2
<1> QED BY <1>0, <1>2, <1>5, <1>6, <1>8, ServerKept, SlotsKept, RingKept DEF SharedInv

(* The callback after the last request, however the connection ended.       *)
LEMMA CompleteStep ==
    ASSUME SharedInv, NEW c \in Conns, notify_request_complete(c)
    PROVE  SharedInv'
<1>0. ServerInv /\ ConnInv /\ SlotsInv /\ SessionInv /\ RingInv
  BY DEF SharedInv
<1>1. conn[c].st = "done" /\ c \in Threads /\ Whole(conn[c]) /\ conn[c].inst \in Instances
  BY <1>0 DEF notify_request_complete, ConnInv, Threads
<1>2. UNCHANGED <<server, inst, count, activity, signed, faults>>
      /\ CpuBoost_restore /\ Led_off
  BY DEF notify_request_complete, ThreadUnchanged
<1>3. PICK r : conn' = [conn EXCEPT ![c] = r] /\ Whole(r) /\ r.inst = conn[c].inst /\ r.st = "drop"
  <2>1. Whole([conn[c] EXCEPT !.st = "drop"])
        /\ [conn[c] EXCEPT !.st = "drop"].inst = conn[c].inst
        /\ [conn[c] EXCEPT !.st = "drop"].st = "drop"
    BY <1>1 DEF Whole
  <2> QED BY <2>1 DEF notify_request_complete
<1>4. Moves(c) /\ conn[c]' = r
  BY <1>0, <1>1, <1>3, MovesHow DEF States
<1>5. /\ ConnInv'
      /\ Serving' = With(Serving, c, conn[c].st' \in Session)
      /\ \A i \in Instances :
           Live(i)' = With(Live(i), c, conn[c].st' \notin {"none", "queued"} /\ conn[c].inst' = i)
  BY <1>0, <1>4, Sets
<1>6. \A i \in Instances : Live(i)' = Live(i)
  BY <1>1, <1>3, <1>4, <1>5 DEF With, Live
<1>7. SessionInv'
  <2>1. c \in Serving
    BY <1>1 DEF Serving
  <2>2. Serving' = Serving \ {c}
    BY <1>3, <1>4, <1>5 DEF With, Session
  <2>3. Cardinality(Serving') = Cardinality(Serving) - 1
        /\ Cardinality(Serving) \in Nat /\ Cardinality(Serving) # 0
    BY <2>1, <2>2, Finite, FS_RemoveElement, FS_EmptySet
  <2>4. cpu.active \in Nat /\ cpu.active # 0 /\ led.active = cpu.active /\ led.lit /\ cpu.freq = "max"
    BY <1>0, <2>3 DEF SessionInv
  <2>5. cpu' \in [active : Nat, freq : {"min", "max"}] /\ cpu.active' = cpu.active - 1
        /\ cpu.freq' = IF cpu.active' = 0 THEN "min" ELSE "max"
    BY <1>0, <1>2, <2>4 DEF SessionInv, CpuBoost_restore
  <2>6. led' \in [active : Nat, generation : Nat, lit : BOOLEAN, deferred : SUBSET Nat]
        /\ led.active' = led.active - 1 /\ led.lit'
    <3>1. CASE led.active = 1
      <4>1. led \in [active : Nat, generation : Nat, lit : BOOLEAN, deferred : SUBSET Nat]
        BY <1>0 DEF SessionInv
      <4>2. led' = [led EXCEPT !.active = 0, !.deferred = led.deferred \cup {led.generation}]
        BY <1>2, <3>1 DEF Led_off
      <4>3. led.deferred \cup {led.generation} \in SUBSET Nat
        BY <4>1
      <4>4. 0 = led.active - 1 /\ 0 \in Nat
        BY <3>1
      <4> QED BY <2>4, <4>1, <4>2, <4>3, <4>4, LedRecord
    <3>2. CASE led.active # 1
      BY <1>0, <1>2, <2>4, <3>2 DEF SessionInv, Led_off
    <3> QED BY <3>1, <3>2
  <2> QED BY <1>0, <2>3, <2>4, <2>5, <2>6 DEF SessionInv
<1> QED BY <1>0, <1>2, <1>5, <1>6, <1>7, ServerKept, SlotsKept, RingKept DEF SharedInv

(* The guard gives the slot back to the server that took it.                *)
LEMMA DropStep ==
    ASSUME SharedInv, NEW c \in Conns, ConnectionGuard_drop(c)
    PROVE  SharedInv'
<1>0. ServerInv /\ ConnInv /\ SlotsInv /\ SessionInv /\ RingInv
  BY DEF SharedInv
<1>1. conn[c].st = "drop" /\ c \in Threads /\ conn[c].inst \in Instances
  BY <1>0 DEF ConnectionGuard_drop, ConnInv, Threads
<1>2. UNCHANGED <<server, inst, cpu, led, activity, signed, faults>>
  BY DEF ConnectionGuard_drop, ThreadUnchanged
<1>3. PICK n \in Instances : n = conn[c].inst
  BY <1>1
<1>4. conn' = [conn EXCEPT ![c] = Idle] /\ count' = [count EXCEPT ![n] = @ - 1]
  BY <1>3 DEF ConnectionGuard_drop
<1>5. Moves(c) /\ conn[c]' = Idle
  <2>1. Whole(Idle) /\ Idle.st = "none"
    BY DEF Whole, Idle
  <2> QED BY <1>0, <1>4, <2>1, MovesHow DEF States
<1>6. conn[c].st' = "none"
  BY <1>5 DEF Idle
<1>7. /\ ConnInv'
      /\ Serving' = With(Serving, c, conn[c].st' \in Session)
      /\ \A i \in Instances :
           Live(i)' = With(Live(i), c, conn[c].st' \notin {"none", "queued"} /\ conn[c].inst' = i)
  BY <1>0, <1>5, Sets
<1>8. Serving' = Serving
  BY <1>1, <1>6, <1>7 DEF With, Session, Serving
<1>9. \A i \in Instances : Live(i)' = Live(i) \ {c}
  BY <1>6, <1>7 DEF With
<1>10. c \in Live(n) /\ \A i \in Instances \ {n} : Live(i)' = Live(i)
  BY <1>1, <1>3, <1>9 DEF Live
<1>11. Cardinality(Live(n)') = Cardinality(Live(n)) - 1
       /\ Cardinality(Live(n)) \in Nat /\ Cardinality(Live(n)) # 0
  BY <1>9, <1>10, Finite, FS_RemoveElement, FS_EmptySet
<1>12. SlotsInv'
  <2>1. count[n] \in Nat /\ count[n] = Cardinality(Live(n)) /\ count[n] <= MaxConn
        /\ count \in [Instances -> Nat] /\ MaxConn \in Nat
    BY <1>0, ServerAssumption DEF SlotsInv
  <2>2. count' \in [Instances -> Nat] /\ count[n]' = count[n] - 1
        /\ \A i \in Instances \ {n} : count[i]' = count[i]
    BY <1>4, <1>11, <2>1
  <2>3. ASSUME NEW i \in Instances PROVE count[i]' = Cardinality(Live(i)') /\ count[i]' <= MaxConn
    <3>1. CASE i = n
      BY <1>11, <2>1, <2>2, <3>1
    <3>2. CASE i # n
      BY <1>0, <1>10, <2>2, <3>2 DEF SlotsInv
    <3> QED BY <3>1, <3>2
  <2> QED BY <2>2, <2>3 DEF SlotsInv, Instances
<1> QED BY <1>0, <1>2, <1>7, <1>8, <1>12, ServerKept, SessionsKept, RingKept DEF SharedInv

(* A record of a connection in a session that stays in it.                  *)
Serves(c, r) ==
    /\ conn' = [conn EXCEPT ![c] = r]
    /\ Whole(r) /\ r.st \in Session /\ r.inst = conn[c].inst

(* A step of a session that changes its connection alone.                   *)
LEMMA ServesStep ==
    ASSUME SharedInv, NEW c \in Conns, conn[c].st \in Session, NEW r, Serves(c, r),
           server' = server, inst' = inst, faults' = faults,
           count' = count, cpu' = cpu, led' = led
    PROVE  ServerInv' /\ ConnInv' /\ SlotsInv' /\ SessionInv'
<1>1. ConnInv
  BY DEF SharedInv
<1>2. conn[c].inst \in Instances
  BY <1>1 DEF ConnInv, Threads, Session
<1>3. Moves(c) /\ conn[c]' = r
  BY <1>1, <1>2, MovesHow DEF Serves, States, Session
<1> QED BY <1>3, OnlyConn DEF Serves, Session

(* The answer of a request that is not signed.                              *)
LEMMA ReplyServes ==
    ASSUME ConnInv, NEW c \in Conns, NEW resp, NEW alert, Reply(c, resp, alert)
    PROVE  \E r : Serves(c, r)
<1> DEFINE r == [conn[c] EXCEPT !.st = "write", !.resp = resp, !.in = None, !.alert = alert]
<1>1. conn' = [conn EXCEPT ![c] = r]
  BY DEF Reply
<1>2. Whole(r) /\ r.st = "write" /\ r.inst = conn[c].inst
  BY DEF ConnInv, Whole
<1> QED BY <1>1, <1>2 DEF Serves, Session

(* Every way a request is handled ends in an answer, a signature to record  *)
(* or the end of the connection.                                            *)
LEMMA RequestServes ==
    ASSUME ConnInv, NEW c \in Conns, handle_request(c)
    PROVE  \E r : Serves(c, r)
<1>1. Whole(conn[c])
  BY DEF ConnInv
<1>2. ASSUME NEW q, handle_sign(c, q) PROVE \E r : Serves(c, r)
  <2>1. CASE \E a : Reply(c, ErrorResponse, a)
    BY <2>1, ReplyServes
  <2>2. CASE conn' = [conn EXCEPT ![c].st = "record", ![c].req = q, ![c].in = None]
    <3> DEFINE r == [conn[c] EXCEPT !.st = "record", !.req = q, !.in = None]
    <3>1. conn' = [conn EXCEPT ![c] = r]
      BY <2>2
    <3>2. Whole(r) /\ r.st = "record" /\ r.inst = conn[c].inst
      BY <1>1 DEF Whole
    <3> QED BY <3>1, <3>2 DEF Serves, Session
  <2> QED BY <1>2, <2>1, <2>2 DEF handle_sign
<1>3. ASSUME NEW q, handle_other(c, q) PROVE \E r : Serves(c, r)
  <2>1. \E resp, alert : Reply(c, resp, alert)
    BY <1>3 DEF handle_other
  <2> QED BY <2>1, ReplyServes
<1>4. CASE conn' = [conn EXCEPT ![c].st = "done", ![c].in = None, ![c].asked = None]
  <2> DEFINE r == [conn[c] EXCEPT !.st = "done", !.in = None, !.asked = None]
  <2>1. conn' = [conn EXCEPT ![c] = r]
    BY <1>4
  <2>2. Whole(r) /\ r.st = "done" /\ r.inst = conn[c].inst
    BY <1>1 DEF Whole
  <2> QED BY <2>1, <2>2 DEF Serves, Session
<1> QED BY <1>2, <1>3, <1>4 DEF handle_request

(* The steps of a session between its two callbacks that sign nothing.      *)
LEMMA SessionSteps ==
    ASSUME SharedInv, NEW c \in Conns,
           ReadEof(c) \/ ReadTimeout(c) \/ handle_request(c) \/ process_request(c) \/ Send(c) \/ HangUp(c)
    PROVE  SharedInv'
<1>0. ConnInv /\ RingInv /\ Whole(conn[c])
  BY DEF SharedInv, ConnInv
<1>1. /\ conn[c].st \in Session
      /\ UNCHANGED <<server, inst, count, cpu, led, activity, signed, faults>>
  BY DEF ReadEof, ReadTimeout, handle_request, process_request, Send, HangUp, ThreadUnchanged, Session
<1>2. \E r : Serves(c, r)
  <2>1. CASE ReadEof(c) \/ ReadTimeout(c)
    <3> DEFINE r == [conn[c] EXCEPT !.st = "done", !.in = None, !.asked = None]
    <3>1. conn' = [conn EXCEPT ![c] = r]
      BY <2>1 DEF ReadEof, ReadTimeout
    <3>2. Whole(r) /\ r.st = "done" /\ r.inst = conn[c].inst
      BY <1>0 DEF Whole
    <3> QED BY <3>1, <3>2 DEF Serves, Session
  <2>2. CASE handle_request(c)
    BY <1>0, <2>2, RequestServes
  <2>3. CASE process_request(c)
    <3> DEFINE answered == [Idle EXCEPT !.st = "read", !.inst = conn[c].inst, !.gone = conn[c].gone]
               over == [answered EXCEPT !.st = "done"]
    <3>1. Whole(answered) /\ answered.st = "read" /\ answered.inst = conn[c].inst
      BY DEF Whole, Idle
    <3>2. Whole(over) /\ over.st = "done" /\ over.inst = conn[c].inst
      BY DEF Whole, Idle
    <3>3. conn' = [conn EXCEPT ![c] = answered] \/ conn' = [conn EXCEPT ![c] = over]
      BY <2>3 DEF process_request
    <3> HIDE DEF answered, over
    <3> QED BY <3>1, <3>2, <3>3 DEF Serves, Session
  <2>4. CASE Send(c)
    <3>1. PICK i, a : conn' = [conn EXCEPT ![c].in = i, ![c].asked = a]
      BY <2>4 DEF Send
    <3> DEFINE r == [conn[c] EXCEPT !.in = i, !.asked = a]
    <3>2. conn' = [conn EXCEPT ![c] = r]
      BY <3>1
    <3>3. Whole(r) /\ r.st = conn[c].st /\ r.inst = conn[c].inst
      BY <1>0 DEF Whole
    <3> QED BY <1>1, <3>2, <3>3 DEF Serves
  <2>5. CASE HangUp(c)
    <3> DEFINE r == [conn[c] EXCEPT !.gone = TRUE]
    <3>1. conn' = [conn EXCEPT ![c] = r]
      BY <2>5 DEF HangUp
    <3>2. Whole(r) /\ r.st = conn[c].st /\ r.inst = conn[c].inst
      BY <1>0 DEF Whole
    <3> QED BY <1>1, <3>1, <3>2 DEF Serves
  <2> QED BY <2>1, <2>2, <2>3, <2>4, <2>5
<1> QED BY <1>0, <1>1, <1>2, ServesStep, RingKept DEF SharedInv

(* A signature is recorded: the total, the list and the ring move together. *)
LEMMA RecordStep ==
    ASSUME SharedInv, NEW c \in Conns, record_activity(c)
    PROVE  SharedInv'
<1>0. ConnInv /\ RingInv /\ Whole(conn[c])
  BY DEF SharedInv, ConnInv
<1>1. conn[c].st = "record" /\ UNCHANGED <<server, inst, count, cpu, led, faults>>
  BY DEF record_activity, ThreadUnchanged
<1>2. \E r : Serves(c, r)
  <2>1. PICK a : conn' = [conn EXCEPT ![c].st = "write", ![c].resp = a]
    BY DEF record_activity
  <2> DEFINE r == [conn[c] EXCEPT !.st = "write", !.resp = a]
  <2>2. conn' = [conn EXCEPT ![c] = r]
    BY <2>1
  <2>3. Whole(r) /\ r.st = "write" /\ r.inst = conn[c].inst
    BY <1>0 DEF Whole
  <2> QED BY <2>2, <2>3 DEF Serves, Session
<1>3. RingInv'
  <2>1. CASE UNCHANGED <<activity, signed>>
    BY <1>0, <2>1, RingKept
  <2>2. ASSUME NEW e, signed' = Append(signed, e),
               activity' = [total |-> activity.total + 1, ring |-> push(activity.ring, e)]
        PROVE  RingInv'
    <3>1. signed \in Seq(Range(signed)) /\ Holds(activity.ring, signed) /\ activity.total = Len(signed)
      BY <1>0 DEF RingInv
    <3>2. Holds(push(activity.ring, e), Append(signed, e))
      BY <3>1, PushHolds
    <3>3. Append(signed, e) \in Seq(Range(signed) \cup {e}) /\ Len(Append(signed, e)) = Len(signed) + 1
      BY <3>1
    <3>4. Append(signed, e) \in Seq(Range(Append(signed, e)))
      BY <3>3, OwnRange
    <3>5. activity.ring' = push(activity.ring, e) /\ activity.total' = Len(signed')
      BY <2>2, <3>1, <3>3
    <3>6. Holds(activity.ring, signed)'
      BY <2>2, <3>2, <3>5 DEF Holds, Slot
    <3>7. activity' = [total |-> Len(signed'), ring |-> activity.ring']
      BY <2>2, <3>5
    <3>8. signed' \in Seq(Range(signed)')
      BY <2>2, <3>4 DEF Range
    <3> QED BY <3>6, <3>7, <3>8 DEF RingInv
  <2>3. \/ UNCHANGED <<activity, signed>>
        \/ \E e : /\ signed' = Append(signed, e)
                  /\ activity' = [total |-> activity.total + 1, ring |-> push(activity.ring, e)]
    BY DEF record_activity
  <2> QED BY <2>1, <2>2, <2>3
<1> QED BY <1>1, <1>2, <1>3, ServesStep DEF SharedInv, Session

(* A client that connects is queued and counted by no one yet.              *)
LEMMA ConnectStep ==
    ASSUME SharedInv, NEW c \in Conns, Connect(c)
    PROVE  SharedInv'
<1>0. ConnInv /\ RingInv /\ Whole(conn[c])
  BY DEF SharedInv, ConnInv
<1>1. conn[c].st = "none" /\ UNCHANGED <<server, inst, count, cpu, led, activity, signed, faults>>
  BY DEF Connect
<1> DEFINE r == [conn[c] EXCEPT !.st = "queued"]
<1>2. conn' = [conn EXCEPT ![c] = r]
  BY DEF Connect
<1>3. Whole(r) /\ r.st = "queued" /\ r.inst = conn[c].inst
  BY <1>0 DEF Whole
<1> HIDE DEF r
<1>4. Moves(c) /\ conn[c]' = r
  BY <1>0, <1>2, <1>3, MovesHow DEF States
<1> QED BY <1>0, <1>1, <1>3, <1>4, OnlyConn, RingKept DEF SharedInv, Session

(* A deferred off darkens the LED only when no session holds it.            *)
LEMMA DeferredStep ==
    ASSUME SharedInv, NEW g \in led.deferred, Led_deferred(g)
    PROVE  SharedInv'
<1>0. ServerInv /\ ConnInv /\ SlotsInv /\ SessionInv /\ RingInv
  BY DEF SharedInv
<1>1. UNCHANGED <<server, inst, count, conn, cpu, activity, signed, faults>>
  BY DEF Led_deferred, ThreadUnchanged
<1>2. ConnInv' /\ Serving' = Serving /\ \A i \in Instances : Live(i)' = Live(i)
  BY <1>0, <1>1 DEF ConnInv, Whole, Live, Threads, Serving
<1>3. SessionInv'
  <2>1. led \in [active : Nat, generation : Nat, lit : BOOLEAN, deferred : SUBSET Nat]
        /\ (led.active > 0 => led.lit)
    BY <1>0 DEF SessionInv
  <2>2. PICK l \in BOOLEAN, d \in SUBSET Nat :
            /\ led' = [led EXCEPT !.deferred = d, !.lit = l]
            /\ led.active > 0 => l
    <3>1. led' = [led EXCEPT !.deferred = led.deferred \ {g},
                             !.lit = IF led.active = 0 /\ led.generation = g THEN FALSE ELSE led.lit]
      BY DEF Led_deferred
    <3>2. led.deferred \ {g} \in SUBSET Nat
          /\ (IF led.active = 0 /\ led.generation = g THEN FALSE ELSE led.lit) \in BOOLEAN
      BY <2>1
    <3>3. led.active > 0 => IF led.active = 0 /\ led.generation = g THEN FALSE ELSE led.lit
      BY <2>1
    <3> QED BY <3>1, <3>2, <3>3
  <2>3. led' \in [active : Nat, generation : Nat, lit : BOOLEAN, deferred : SUBSET Nat]
        /\ led.active' = led.active /\ led.lit' = l
    BY <2>1, <2>2
  <2> QED BY <1>0, <1>1, <1>2, <2>2, <2>3 DEF SessionInv
<1> QED BY <1>0, <1>1, <1>2, <1>3, ServerKept, SlotsKept, RingKept DEF SharedInv

-----------------------------------------------------------------------------
(* The results.                                                             *)

(* SharedInv is inductive.                                                  *)
LEMMA Inductive == SharedInv /\ [Next]_vars => SharedInv'
<1> SUFFICES ASSUME SharedInv, [Next]_vars PROVE SharedInv'
  OBVIOUS
<1>1. CASE ServerStep
  BY <1>1, ServerSteps
<1>2. CASE Client
  BY <1>2, ConnectStep, SessionSteps DEF Client
<1>3. ASSUME NEW c \in Conns, ThreadStep(c) PROVE SharedInv'
  BY <1>3, OpenStep, SessionSteps, RecordStep, CompleteStep, DropStep DEF ThreadStep
<1>4. CASE \E g \in led.deferred : Led_deferred(g)
  BY <1>4, DeferredStep
<1>5. CASE UNCHANGED vars
  <2>1. UNCHANGED <<server, inst, count, conn, cpu, led, activity, signed, faults>>
    BY <1>5 DEF vars
  <2>2. ConnInv' /\ Serving' = Serving /\ \A i \in Instances : Live(i)' = Live(i)
    BY <2>1 DEF SharedInv, ConnInv, Whole, Live, Threads, Serving
  <2> QED BY <2>1, <2>2, ServerKept, SlotsKept, SessionsKept, RingKept DEF SharedInv
<1> QED BY <1>1, <1>2, <1>3, <1>4, <1>5 DEF Next

(* What the invariant says of the slots, the sessions and the ring is what  *)
(* is promised.                                                             *)
LEMMA InvExact == SharedInv => SharedStateExact
<1> SUFFICES ASSUME SharedInv PROVE SharedStateExact
  OBVIOUS
<1>0. SlotsInv /\ SessionInv /\ RingInv
  BY DEF SharedInv
<1>1. SlotsExact
  <2>1. DOMAIN count = Instances
    BY <1>0 DEF SlotsInv
  <2>2. ASSUME NEW i \in Instances
        PROVE  LET live == Cardinality({c \in Threads : conn[c].inst = i})
               IN  count[i] = live /\ live <= MaxConn
    BY <1>0 DEF SlotsInv, Live
  <2> QED BY <2>1, <2>2 DEF SlotsExact
<1>2. SpeedFollowsSessions
  <2>1. Serving = {} <=> cpu.active = 0
    BY <1>0, Finite, FS_EmptySet DEF SessionInv
  <2>2. cpu.active \in Nat /\ led.active = cpu.active
    BY <1>0 DEF SessionInv
  <2> QED BY <1>0, <2>1, <2>2 DEF SessionInv, SpeedFollowsSessions
<1>3. RingShowsLast
  <2>1. Holds(activity.ring, signed) /\ signed \in Seq(Range(signed)) /\ activity.total = Len(signed)
    BY <1>0 DEF RingInv
  <2>2. iter(activity.ring) = SubSeq(signed, Len(signed) - activity.ring.len + 1, Len(signed))
    BY <2>1, IterShows
  <2> QED BY <2>1, <2>2 DEF RingShowsLast, Holds
<1> QED BY <1>1, <1>2, <1>3 DEF SharedStateExact

(* However many threads open, serve, sign and end, in whatever order, and   *)
(* whatever fails meanwhile: a slot is held by each live thread and by no   *)
(* one else and there are no more than max_connections, the CPU and the LED *)
(* follow the sessions, and the list shown is the last signatures in order. *)
THEOREM SharedExact == Spec => []SharedStateExact
<1>1. Spec => []SharedInv
  BY InitInv, Inductive, PTL DEF Spec
<1> QED BY <1>1, InvExact, PTL

-----------------------------------------------------------------------------
(* The wire: what a decoder makes of what its encoder wrote.                *)

(* A message that starts with a cell: the cell and the rest.                *)
LEMMA ConsIs ==
    ASSUME NEW S, NEW x \in S, NEW s \in Seq(S)
    PROVE  /\ Cons(x, s) \in Seq(S) /\ Cons(x, s) # <<>>
           /\ Head(Cons(x, s)) = x /\ Tail(Cons(x, s)) = s
<1>1. <<x>> \in Seq(S) /\ Len(<<x>>) = 1 /\ <<x>>[1] = x
  OBVIOUS
<1>2. PICK u \in Seq(S) : u = <<x>>
  BY <1>1
<1>3. /\ u \o s \in Seq(S) /\ Len(u \o s) = Len(u) + Len(s)
      /\ \A i \in 1 .. Len(u) + Len(s) : (u \o s)[i] = IF i <= Len(u) THEN u[i] ELSE s[i - Len(u)]
  BY ConcatProperties
<1>4. PICK v \in Seq(S) : v = u \o s
  BY <1>3
<1>5. /\ Len(v) = 1 + Len(s) /\ v[1] = x
      /\ \A i \in 1 .. Len(s) : v[i + 1] = s[i]
  BY <1>1, <1>2, <1>3, <1>4
<1>6. v # <<>> /\ Head(v) = x /\ Tail(v) \in Seq(S) /\ Len(Tail(v)) = Len(s)
  BY <1>5
<1>7. \A i \in 1 .. Len(s) : Tail(v)[i] = s[i]
  BY <1>5, <1>6
<1>8. Tail(v) = s
  BY <1>6, <1>7, SeqEqual
<1> QED
  BY <1>2, <1>4, <1>6, <1>8 DEF Cons

(* Two cells are one and another.                                           *)
LEMMA Pair ==
    ASSUME NEW S, NEW x \in S, NEW y \in S
    PROVE  <<x, y>> = Cons(x, <<y>>) /\ <<x, y>> \in Seq(S)
<1>a. <<x>> \in Seq(S) /\ <<y>> \in Seq(S) /\ <<x, y>> \in Seq(S)
  OBVIOUS
<1>1. PICK u \in Seq(S), v \in Seq(S) : u = <<x>> /\ v = <<y>>
  BY <1>a
<1>2. Len(u) = 1 /\ Len(v) = 1 /\ u[1] = x /\ v[1] = y
  BY <1>1
<1>3. /\ u \o v \in Seq(S) /\ Len(u \o v) = Len(u) + Len(v)
      /\ \A i \in 1 .. Len(u) + Len(v) : (u \o v)[i] = IF i <= Len(u) THEN u[i] ELSE v[i - Len(u)]
  BY ConcatProperties
<1>4. PICK w \in Seq(S), z \in Seq(S) : w = u \o v /\ z = <<x, y>>
  BY <1>a, <1>3
<1>5. Len(w) = 2 /\ w[1] = x /\ w[2] = y
  BY <1>2, <1>3, <1>4
<1>6. Len(z) = 2 /\ z[1] = x /\ z[2] = y
  BY <1>4
<1>7. w = z
  BY <1>5, <1>6, SeqEqual
<1> QED
  BY <1>1, <1>4, <1>7 DEF Cons

(* Reading a cell.                                                          *)
LEMMA ReadsField ==
    ASSUME NEW S, NEW s \in Seq(S), NEW k, NEW v, Field(k, v) \in S
    PROVE  read_field(k, Cons(Field(k, v), s)) = Read(v, s)
<1>1. PICK x \in S : x = Field(k, v)
  OBVIOUS
<1>2. x.f = k /\ x.v = v
  BY <1>1 DEF Field
<1>3. Cons(x, s) # <<>> /\ Head(Cons(x, s)) = x /\ Tail(Cons(x, s)) = s
  BY ConsIs
<1>4. read_field(k, Cons(x, s)) = Read(v, s)
  BY <1>2, <1>3 DEF read_field
<1> QED
  BY <1>1, <1>4

(* Cells before cells.                                                      *)
LEMMA ConsOne ==
    ASSUME NEW S, NEW x \in S
    PROVE  <<>> \in Seq(S) /\ <<x>> \in Seq(S) /\ <<x>> = Cons(x, <<>>)
<1>1. PICK u \in Seq(S) : u = <<x>>
  <2>1. <<x>> \in Seq(S)
    OBVIOUS
  <2> QED
    BY <2>1
<1>2. u \o <<>> = u
  BY ConcatEmptySeq
<1> QED
  BY <1>1, <1>2 DEF Cons

(* Two cells before cells.                                                  *)
LEMMA ConsTwo ==
    ASSUME NEW S, NEW x \in S, NEW y \in S, NEW s \in Seq(S)
    PROVE  <<x, y>> \o s = Cons(x, Cons(y, s)) /\ <<x, y>> \in Seq(S)
<1>1. PICK u \in Seq(S), v \in Seq(S) : u = <<x>> /\ v = <<y>>
  <2>1. <<x>> \in Seq(S) /\ <<y>> \in Seq(S)
    OBVIOUS
  <2> QED
    BY <2>1
<1>2. <<x, y>> = u \o v /\ <<x, y>> \in Seq(S)
  BY <1>1, Pair DEF Cons
<1>3. (u \o v) \o s = u \o (v \o s)
  BY ConcatAssociative
<1> QED
  BY <1>1, <1>2, <1>3 DEF Cons

(* A nonempty set of numbers has a least one.                               *)
LEMMA Least ==
    ASSUME NEW T, T \subseteq Nat, T # {}
    PROVE  \E x \in T : \A y \in T : x <= y
<1>1. IsWellFoundedOn(OpToRel(<, Nat), Nat)
  BY NatLessThanWellFounded
<1>2. PICK R : R = {p \in Nat \X Nat : p[1] < p[2]}
  OBVIOUS
<1>3. R = OpToRel(<, Nat)
  BY <1>2 DEF OpToRel
<1>4. PICK x \in T : \A y \in T : ~ (<<y, x>> \in R)
  BY <1>1, <1>3, WFMin
<1>5. ASSUME NEW y \in T PROVE x <= y
  <2>1. <<y, x>> \in Nat \X Nat /\ x \in Nat /\ y \in Nat
    OBVIOUS
  <2>2. y < x => <<y, x>> \in R
    BY <1>2, <2>1
  <2> QED
    BY <1>4, <2>1, <2>2
<1> QED
  BY <1>5

(* What a decoder makes of a field its encoder wrote, whatever follows it.  *)
LEMMA ReadsTagged ==
    ASSUME NEW S, NEW s \in Seq(S), NEW k, NEW v, Byte(3) \in S, Field(k, v) \in S
    PROVE  /\ <<Byte(3), Field(k, v)>> \in Seq(S)
           /\ read_tagged(k, <<Byte(3), Field(k, v)>> \o s) = Read(v, s)
<1>1. PICK x \in S, y \in S : x = Byte(3) /\ y = Field(k, v)
  OBVIOUS
<1>2. <<x, y>> \o s = Cons(x, Cons(y, s)) /\ <<x, y>> \in Seq(S)
  BY ConsTwo
<1>3. Cons(y, s) \in Seq(S)
  BY ConsIs
<1>4. read_field("u8", Cons(x, Cons(y, s))) = Read(3, Cons(y, s))
  BY <1>1, <1>3, ReadsField DEF Byte
<1>5. read_field(k, Cons(y, s)) = Read(v, s)
  BY <1>1, ReadsField
<1>6. read_tagged(k, Cons(x, Cons(y, s))) = Read(v, s)
  <2>1. /\ read_u8(Cons(x, Cons(y, s))).ok /\ read_u8(Cons(x, Cons(y, s))).val = 3
        /\ read_u8(Cons(x, Cons(y, s))).rest = Cons(y, s)
    BY <1>4 DEF Read, read_u8
  <2> QED
    BY <2>1, <1>5 DEF read_tagged
<1> QED
  BY <1>1, <1>2, <1>6

(* A public key hash with its version.                                      *)
LEMMA ReadsVersioned ==
    ASSUME NEW S, NEW s \in Seq(S), NEW p, {Byte(3), Byte(0), Field("pkh", p)} \subseteq S
    PROVE  /\ encode_versioned_pkh(p) \in Seq(S)
           /\ decode_versioned_pkh(encode_versioned_pkh(p) \o s) = Read(p, s)
<1>1. PICK x \in S, y \in S, z \in S : x = Byte(3) /\ y = Field("pkh", p) /\ z = Byte(0)
  OBVIOUS
<1>2. PICK e \in Seq(S) : e = encode_raw_pkh(p)
  BY <1>1, Pair DEF encode_raw_pkh
<1>a. <<z>> \in Seq(S)
  BY ConsOne
<1>3. encode_versioned_pkh(p) = Cons(x, e \o <<z>>)
  <2>1. PICK t \in Seq(S) : t = <<z>>
    BY <1>a
  <2>2. Cons(x, e) \o t = Cons(x, e \o t)
    <3>1. PICK u \in Seq(S) : u = <<x>>
      BY ConsOne
    <3>2. (u \o e) \o t = u \o (e \o t)
      BY ConcatAssociative, SMTT(30)
    <3> QED
      BY <3>1, <3>2 DEF Cons
  <2> QED
    BY <1>1, <1>2, <2>1, <2>2 DEF encode_versioned_pkh, Cons
<1>4. e \o <<z>> \in Seq(S) /\ Cons(z, s) \in Seq(S)
  BY <1>a, ConsIs, ConcatProperties
<1>5. Cons(x, e \o <<z>>) \o s = Cons(x, e \o Cons(z, s))
  <2>2. (e \o <<z>>) \o s = e \o (<<z>> \o s)
    BY <1>a, ConcatAssociative
  <2>3. <<z>> \o s = Cons(z, s)
    BY DEF Cons
  <2>4. Cons(x, e \o <<z>>) \o s = Cons(x, (e \o <<z>>) \o s)
    <3>1. PICK t \in Seq(S) : t = e \o <<z>>
      BY <1>4
    <3>2. Cons(x, t) \o s = Cons(x, t \o s)
      <4>1. PICK u \in Seq(S) : u = <<x>>
        BY ConsOne
      <4>2. (u \o t) \o s = u \o (t \o s)
        BY ConcatAssociative, SMTT(30)
      <4> QED
        BY <4>1, <4>2 DEF Cons
    <3> QED
      BY <3>1, <3>2
  <2> QED
    BY <2>2, <2>3, <2>4
<1>6. e \o Cons(z, s) \in Seq(S)
  BY <1>4, ConcatProperties
<1>7. read_u8(Cons(x, e \o Cons(z, s))) = Read(3, e \o Cons(z, s))
  <2>1. PICK t \in Seq(S) : t = e \o Cons(z, s)
    BY <1>6
  <2>2. read_field("u8", Cons(x, t)) = Read(3, t)
    BY <1>1, ReadsField DEF Byte
  <2> QED
    BY <2>1, <2>2 DEF read_u8
<1>8. decode_raw_pkh(e \o Cons(z, s)) = Read(p, Cons(z, s))
  BY <1>1, <1>2, <1>4, ReadsTagged DEF encode_raw_pkh, decode_raw_pkh
<1>9. read_u8(Cons(z, s)) = Read(0, s)
  BY <1>1, ReadsField DEF Byte, read_u8
<1>10. decode_versioned_pkh(Cons(x, e \o Cons(z, s))) = Read(p, s)
  <2>1. /\ read_u8(Cons(x, e \o Cons(z, s))).ok /\ read_u8(Cons(x, e \o Cons(z, s))).val = 3
        /\ read_u8(Cons(x, e \o Cons(z, s))).rest = e \o Cons(z, s)
    BY <1>7 DEF Read
  <2>2. /\ decode_raw_pkh(e \o Cons(z, s)).ok /\ decode_raw_pkh(e \o Cons(z, s)).val = p
        /\ decode_raw_pkh(e \o Cons(z, s)).rest = Cons(z, s)
    BY <1>8 DEF Read
  <2>3. read_u8(Cons(z, s)).ok /\ read_u8(Cons(z, s)).val = 0 /\ read_u8(Cons(z, s)).rest = s
    BY <1>9 DEF Read
  <2> QED
    BY <2>1, <2>2, <2>3, <1>8 DEF decode_versioned_pkh
<1>11. Cons(x, e \o <<z>>) \in Seq(S)
  BY <1>4, ConsIs
<1> QED
  BY <1>3, <1>5, <1>10, <1>11

(* Data with its length.                                                    *)
LEMMA ReadsBytes ==
    ASSUME NEW S, NEW s \in Seq(S), NEW d, {Field("len", d.size), Field("data", d)} \subseteq S,
           d.size <= MaxDataLen
    PROVE  /\ encode_bytes(d) \in Seq(S)
           /\ decode_bytes(encode_bytes(d) \o s) = Read(d, s)
<1>1. PICK x \in S, y \in S : x = Field("len", d.size) /\ y = Field("data", d)
  OBVIOUS
<1>2. <<x, y>> \o s = Cons(x, Cons(y, s)) /\ <<x, y>> \in Seq(S)
  BY ConsTwo
<1>3. Cons(y, s) \in Seq(S)
  BY ConsIs
<1>4. read_field("len", Cons(x, Cons(y, s))) = Read(d.size, Cons(y, s))
  BY <1>1, <1>3, ReadsField
<1>5. read_field("data", Cons(y, s)) = Read(d, s)
  BY <1>1, ReadsField
<1>6. decode_bytes(Cons(x, Cons(y, s))) = Read(d, s)
  <2>1. /\ read_field("len", Cons(x, Cons(y, s))).ok
        /\ read_field("len", Cons(x, Cons(y, s))).val = d.size
        /\ read_field("len", Cons(x, Cons(y, s))).rest = Cons(y, s)
    BY <1>4 DEF Read
  <2> QED
    BY <2>1, <1>5 DEF decode_bytes
<1> QED
  BY <1>1, <1>2, <1>6 DEF encode_bytes

(* The optional signature at the end of a request.                          *)
LEMMA ReadsOptionSignature ==
    ASSUME NEW S, NEW g, {Byte(255), Field("sig", g)} \subseteq S
    PROVE  /\ encode_option_signature(g) \in Seq(S)
           /\ decode_option_signature(encode_option_signature(g)) = Read(g, <<>>)
<1>0. <<>> \in Seq(S)
  OBVIOUS
<1>1. CASE g = None
  BY <1>0, <1>1 DEF encode_option_signature, decode_option_signature
<1>2. CASE g # None
  <2>1. PICK x \in S, y \in S : x = Byte(255) /\ y = Field("sig", g)
    OBVIOUS
  <2>2. <<y>> = Cons(y, <<>>) /\ <<y>> \in Seq(S)
    BY ConsOne
  <2>3. PICK t \in Seq(S) : t = <<y>>
    BY <2>2
  <2>4. encode_option_signature(g) = Cons(x, t)
    BY <1>2, <2>1, <2>3 DEF encode_option_signature, encode_signature, Cons
  <2>5. Cons(x, t) \in Seq(S) /\ Cons(x, t) # <<>> /\ Head(Cons(x, t)) = x /\ Tail(Cons(x, t)) = t
    BY ConsIs
  <2>6. decode_signature(t) = Read(g, <<>>)
    <3>1. read_field("sig", Cons(y, <<>>)) = Read(g, <<>>)
      BY <1>0, <2>1, ReadsField
    <3> QED
      BY <2>2, <2>3, <3>1 DEF decode_signature
  <2>7. decode_option_signature(Cons(x, t)) = Read(g, <<>>)
    BY <2>1, <2>5, <2>6 DEF decode_option_signature
  <2> QED
    BY <2>4, <2>5, <2>7
<1> QED
  BY <1>1, <1>2

(* An optional public key.                                                  *)
LEMMA ReadsOptionPk ==
    ASSUME NEW S, NEW k, {Byte(255), Byte(0), Byte(3), Field("pk", k)} \subseteq S
    PROVE  /\ encode_option_pk(k) \in Seq(S)
           /\ decode_option_pk(encode_option_pk(k)) = Read(k, <<>>)
<1>0. <<>> \in Seq(S)
  OBVIOUS
<1>1. CASE k = None
  <2>1. PICK x \in S : x = Byte(0)
    OBVIOUS
  <2>2. <<x>> = Cons(x, <<>>) /\ <<x>> \in Seq(S)
    BY ConsOne
  <2>3. read_u8(Cons(x, <<>>)) = Read(0, <<>>)
    BY <1>0, <2>1, ReadsField DEF Byte, read_u8
  <2>4. decode_option_pk(<<x>>) = Read(None, <<>>)
    <3>1. read_u8(<<x>>).ok /\ read_u8(<<x>>).val = 0 /\ read_u8(<<x>>).rest = <<>>
      BY <2>2, <2>3 DEF Read
    <3> QED
      BY <3>1, <2>2 DEF decode_option_pk
  <2> QED
    BY <1>1, <2>1, <2>2, <2>4 DEF encode_option_pk
<1>2. CASE k # None
  <2>1. PICK x \in S, e \in Seq(S) : x = Byte(255) /\ e = encode_pk(k)
    BY Pair DEF encode_pk
  <2>2. encode_option_pk(k) = Cons(x, e) /\ Cons(x, e) \in Seq(S)
    BY <1>2, <2>1, ConsIs DEF encode_option_pk, Cons
  <2>3. read_u8(Cons(x, e)) = Read(255, e)
    BY <2>1, ReadsField DEF Byte, read_u8
  <2>4. e \o <<>> = e
    BY ConcatEmptySeq
  <2>5. decode_pk(e) = Read(k, <<>>)
    <3>1. read_tagged("pk", <<Byte(3), Field("pk", k)>> \o <<>>) = Read(k, <<>>)
      <4>1. PICK x3 \in S, y \in S : x3 = Byte(3) /\ y = Field("pk", k)
        OBVIOUS
      <4>3. PICK n \in Seq(S) : n = <<>>
        BY <1>0
      <4>2. read_tagged("pk", <<x3, y>> \o n) = Read(k, n)
        BY <4>1, ReadsTagged
      <4> QED
        BY <4>1, <4>2, <4>3
    <3> QED
      BY <2>1, <2>4, <3>1 DEF encode_pk, decode_pk
  <2>6. decode_option_pk(Cons(x, e)) = Read(k, <<>>)
    <3>1. read_u8(Cons(x, e)).ok /\ read_u8(Cons(x, e)).val = 255 /\ read_u8(Cons(x, e)).rest = e
      BY <2>3 DEF Read
    <3> QED
      BY <3>1, <2>5 DEF decode_option_pk
  <2> QED
    BY <2>2, <2>6
<1> QED
  BY <1>1, <1>2

(* Whatever is asked, with any key, data, signature and proof key: what     *)
(* decode_request makes of the cells encode_request wrote is the request,   *)
(* field by field, with nothing left over.                                  *)
THEOREM RequestRoundTrip ==
    ASSUME NEW r, IsRequest(r)
    PROVE  decode_request(encode_request(r)) = Read(r, <<>>)
<1> DEFINE b == Byte(tag[r.kind])
<1>1. PICK S : S = {b, Byte(0), Byte(3), Byte(255), Field("pkh", r.pkh), Field("len", r.data.size),
                    Field("data", r.data), Field("sig", r.sig), Field("pk", r.pk)}
  OBVIOUS
<1>2. <<>> \in Seq(S) /\ b \in S
  BY <1>1
<1>3. /\ r = Request(r.kind, r.pkh, r.data, r.sig, r.pk)
      /\ r.kind \in {"Sign", "PublicKey", "AuthorizedKeys", "DeterministicNonce",
                    "DeterministicNonceHash", "SupportsDeterministicNonces", "KnownKeys",
                    "BlsProveRequest"}
  BY DEF IsRequest, tag
<1>4. {k \in DOMAIN tag : tag[k] = tag[r.kind]} = {r.kind}
  BY <1>3 DEF tag
<1>5. ASSUME NEW s \in Seq(S) PROVE read_u8(<<b>> \o s) = Read(tag[r.kind], s)
  BY <1>2, ReadsField DEF Byte, read_u8, Cons
<1>a. /\ encode_raw_pkh(r.pkh) \in Seq(S)
      /\ \A s \in Seq(S) : decode_raw_pkh(encode_raw_pkh(r.pkh) \o s) = Read(r.pkh, s)
  <2>1. PICK x \in S, y \in S : x = Byte(3) /\ y = Field("pkh", r.pkh)
    BY <1>1
  <2>2. <<x, y>> \in Seq(S)
    BY Pair
  <2>3. ASSUME NEW s \in Seq(S) PROVE read_tagged("pkh", <<x, y>> \o s) = Read(r.pkh, s)
    BY <2>1, ReadsTagged
  <2> QED
    BY <2>1, <2>2, <2>3 DEF encode_raw_pkh, decode_raw_pkh
<1>c. ASSUME NEW s, read_u8(encode_request(r)) = Read(tag[r.kind], s)
      PROVE  decode_request(encode_request(r)) = decode_fields(r.kind, s)
  <2>1. PICK t : t = read_u8(encode_request(r))
    OBVIOUS
  <2>2. t.ok /\ t.val = tag[r.kind] /\ t.rest = s
    BY <1>c, <2>1 DEF Read
  <2>3. {k \in DOMAIN tag : tag[k] = t.val} = {r.kind}
    BY <1>4, <2>2
  <2>4. decode_request(encode_request(r)) =
          IF ~ t.ok \/ {k \in DOMAIN tag : tag[k] = t.val} = {} THEN Bad
          ELSE decode_fields(CHOOSE k \in {k \in DOMAIN tag : tag[k] = t.val} : TRUE, t.rest)
    BY <2>1 DEF decode_request
  <2>5. (CHOOSE k \in {r.kind} : TRUE) = r.kind
    OBVIOUS
  <2> QED
    BY <2>2, <2>3, <2>4, <2>5
<1> HIDE DEF b
<1>6. CASE r.kind \in SignLike
  <2>1. PICK e \in Seq(S), d \in Seq(S), o \in Seq(S) :
          e = encode_versioned_pkh(r.pkh) /\ d = encode_bytes(r.data)
          /\ o = encode_option_signature(r.sig)
    BY <1>1, <1>2, <1>6, ReadsVersioned, ReadsBytes, ReadsOptionSignature DEF IsRequest
  <2>2. encode_request(r) = <<b>> \o ((e \o d) \o o)
    BY <1>6, <2>1 DEF encode_request, b, SignLike, PkhOnly
  <2>3. (e \o d) \o o = e \o (d \o o) /\ d \o o \in Seq(S) /\ e \o (d \o o) \in Seq(S)
    BY ConcatAssociative, ConcatProperties, SMTT(30)
  <2>4. read_u8(encode_request(r)) = Read(tag[r.kind], e \o (d \o o))
    BY <1>5, <2>2, <2>3
  <2>5. decode_versioned_pkh(e \o (d \o o)) = Read(r.pkh, d \o o)
    <3>1. PICK t \in Seq(S) : t = d \o o
      BY <2>3
    <3>2. {Byte(3), Byte(0), Field("pkh", r.pkh)} \subseteq S
      BY <1>1
    <3>3. decode_versioned_pkh(encode_versioned_pkh(r.pkh) \o t) = Read(r.pkh, t)
      BY <3>2, ReadsVersioned
    <3> QED
      BY <2>1, <3>1, <3>3
  <2>6. decode_bytes(d \o o) = Read(r.data, o)
    BY <1>1, <1>6, <2>1, ReadsBytes DEF IsRequest
  <2>7. decode_option_signature(o) = Read(r.sig, <<>>)
    BY <1>1, <2>1, ReadsOptionSignature
  <2>8. r.pk = None /\ r.kind \notin PkhOnly /\ r.kind # "BlsProveRequest"
    BY <1>6 DEF IsRequest, SignLike, PkhOnly
  <2> QED
    <3>1. decode_request(encode_request(r)) = decode_fields(r.kind, e \o (d \o o))
      BY <1>c, <2>4
    <3>2. /\ decode_versioned_pkh(e \o (d \o o)).ok /\ decode_versioned_pkh(e \o (d \o o)).val = r.pkh
          /\ decode_versioned_pkh(e \o (d \o o)).rest = d \o o
      BY <2>5 DEF Read
    <3>3. /\ decode_bytes(d \o o).ok /\ decode_bytes(d \o o).val = r.data
          /\ decode_bytes(d \o o).rest = o
      BY <2>6 DEF Read
    <3>4. /\ decode_option_signature(o).ok /\ decode_option_signature(o).val = r.sig
          /\ decode_option_signature(o).rest = <<>>
      BY <2>7 DEF Read
    <3> QED
      BY <3>1, <3>2, <3>3, <3>4, <1>3, <1>6, <2>8 DEF decode_fields
<1>7. CASE r.kind \in PkhOnly
  <2>1. PICK e \in Seq(S) : e = encode_raw_pkh(r.pkh)
    BY <1>a
  <2>2. encode_request(r) = <<b>> \o e
    BY <1>7, <2>1 DEF encode_request, b, SignLike, PkhOnly
  <2>3. read_u8(encode_request(r)) = Read(tag[r.kind], e)
    BY <1>5, <2>2
  <2>4. e \o <<>> = e
    BY ConcatEmptySeq
  <2>5. decode_raw_pkh(e) = Read(r.pkh, <<>>)
    BY <1>2, <1>a, <2>1, <2>4
  <2>6. /\ r.pk = None /\ r.sig = None /\ r.data = None
        /\ r.kind \notin SignLike /\ r.kind # "BlsProveRequest"
    BY <1>7 DEF IsRequest, SignLike, PkhOnly
  <2> QED
    <3>1. decode_request(encode_request(r)) = decode_fields(r.kind, e)
      BY <1>c, <2>3
    <3>2. decode_raw_pkh(e).ok /\ decode_raw_pkh(e).val = r.pkh /\ decode_raw_pkh(e).rest = <<>>
      BY <2>5 DEF Read
    <3> QED
      BY <3>1, <3>2, <1>3, <1>7, <2>6 DEF decode_fields
<1>8. CASE r.kind = "BlsProveRequest"
  <2>1. PICK e \in Seq(S), k \in Seq(S) : e = encode_raw_pkh(r.pkh) /\ k = encode_option_pk(r.pk)
    BY <1>1, <1>a, ReadsOptionPk
  <2>2. encode_request(r) = <<b>> \o (e \o k) /\ e \o k \in Seq(S)
    BY <1>8, <2>1, ConcatProperties DEF encode_request, b, SignLike, PkhOnly
  <2>3. read_u8(encode_request(r)) = Read(tag[r.kind], e \o k)
    BY <1>5, <2>2
  <2>4. decode_raw_pkh(e \o k) = Read(r.pkh, k)
    BY <1>a, <2>1
  <2>5. decode_option_pk(k) = Read(r.pk, <<>>)
    BY <1>1, <2>1, ReadsOptionPk
  <2>6. r.sig = None /\ r.data = None /\ r.kind \notin SignLike /\ r.kind \notin PkhOnly
    BY <1>8 DEF IsRequest, SignLike, PkhOnly
  <2> QED
    <3>1. decode_request(encode_request(r)) = decode_fields(r.kind, e \o k)
      BY <1>c, <2>3
    <3>2. /\ decode_raw_pkh(e \o k).ok /\ decode_raw_pkh(e \o k).val = r.pkh
          /\ decode_raw_pkh(e \o k).rest = k
      BY <2>4 DEF Read
    <3>3. /\ decode_option_pk(k).ok /\ decode_option_pk(k).val = r.pk
          /\ decode_option_pk(k).rest = <<>>
      BY <2>5 DEF Read
    <3> QED
      BY <3>1, <3>2, <3>3, <1>3, <1>8, <2>6 DEF decode_fields
<1>9. CASE r.kind \in {"AuthorizedKeys", "KnownKeys"}
  <2>1. encode_request(r) = <<b>> \o <<>>
    BY <1>9 DEF encode_request, b, SignLike, PkhOnly
  <2>2. read_u8(encode_request(r)) = Read(tag[r.kind], <<>>)
    BY <1>2, <1>5, <2>1
  <2>3. /\ r.sig = None /\ r.data = None /\ r.pk = None /\ r.pkh = None
        /\ r.kind \notin SignLike /\ r.kind \notin PkhOnly /\ r.kind # "BlsProveRequest"
    BY <1>9 DEF IsRequest, SignLike, PkhOnly
  <2> QED
    <3>1. decode_request(encode_request(r)) = decode_fields(r.kind, <<>>)
      BY <1>c, <2>2
    <3> QED
      BY <3>1, <1>3, <2>3 DEF decode_fields
<1> QED
  BY <1>3, <1>6, <1>7, <1>8, <1>9 DEF SignLike, PkhOnly

(* A cell alone.                                                            *)
LEMMA ReadsLast ==
    ASSUME NEW k, NEW v PROVE read_field(k, <<Field(k, v)>>) = Read(v, <<>>)
<1>1. PICK S : S = {Field(k, v)}
  OBVIOUS
<1>2. PICK x \in S : x = Field(k, v)
  BY <1>1
<1>3. <<>> \in Seq(S) /\ <<x>> = Cons(x, <<>>)
  BY ConsOne
<1>4. PICK n \in Seq(S) : n = <<>>
  BY <1>3
<1>5. read_field(k, Cons(x, n)) = Read(v, n)
  BY <1>2, ReadsField
<1> QED
  BY <1>2, <1>3, <1>4, <1>5

(* A tagged field alone.                                                    *)
LEMMA ReadsLastTagged ==
    ASSUME NEW k, NEW v PROVE read_tagged(k, <<Byte(3), Field(k, v)>>) = Read(v, <<>>)
<1>1. PICK S : S = {Byte(3), Field(k, v)}
  OBVIOUS
<1>2. PICK x \in S, y \in S : x = Byte(3) /\ y = Field(k, v)
  BY <1>1
<1>3. PICK n \in Seq(S) : n = <<>>
  BY ConsOne
<1>4. PICK u \in Seq(S) : u = <<x, y>>
  BY Pair
<1>5. u \o n = u
  BY <1>3, ConcatEmptySeq
<1>6. read_tagged(k, <<x, y>> \o n) = Read(v, n)
  BY <1>2, ReadsTagged
<1> QED
  BY <1>2, <1>3, <1>4, <1>5, <1>6

(* An answer that is no error.                                              *)
LEMMA ReadsAnswer ==
    ASSUME NEW S, NEW p \in Seq(S), NEW a, NEW v, Byte(0) \in S,
           decode_payload(ResponseKind[a.kind], p) = Read(v, <<>>)
    PROVE  decode_response(Cons(Byte(0), p), a) =
             Read([kind |-> ResponseKind[a.kind], val |-> v], <<>>)
<1>1. PICK x \in S : x = Byte(0)
  OBVIOUS
<1>2. read_u8(Cons(x, p)) = Read(0, p)
  BY <1>1, ReadsField DEF read_u8, Byte
<1>3. PICK t : t = read_u8(Cons(x, p))
  OBVIOUS
<1>4. t.ok /\ t.val = 0 /\ t.rest = p
  BY <1>2, <1>3 DEF Read
<1>5. PICK y : y = decode_payload(ResponseKind[a.kind], p)
  OBVIOUS
<1>6. y.ok /\ y.val = v /\ y.rest = <<>>
  BY <1>5 DEF Read
<1>7. decode_response(Cons(x, p), a) = Read([kind |-> ResponseKind[a.kind], val |-> y.val], y.rest)
  BY <1>3, <1>4, <1>5, <1>6 DEF decode_response
<1> QED
  BY <1>1, <1>6, <1>7

(* An error, with its text.                                                 *)
LEMMA ReadsError ==
    ASSUME NEW a
    PROVE  decode_response(encode_response(ErrorResponse), a) = Read(ErrorResponse, <<>>)
<1>1. PICK d : d = [size |-> 60, text |-> "error"]
  OBVIOUS
<1>2. ErrorResponse = [kind |-> "Error", val |-> d] /\ d.size = 60
  BY <1>1 DEF ErrorResponse
<1>3. PICK S : S = {Byte(1), Field("len", d.size), Field("data", d)}
  OBVIOUS
<1>4. PICK x \in S, y \in S, z \in S : x = Byte(1) /\ y = Field("len", d.size) /\ z = Field("data", d)
  BY <1>3
<1>5. PICK p \in Seq(S) : p = <<y, z>>
  BY Pair
<1>6. Cons(x, p) = <<x, y, z>>
  <2>1. PICK u \in Seq(S) : u = <<x>>
    BY ConsOne
  <2>2. PICK w \in Seq(S) : w = <<x, y, z>>
    <3>1. <<x, y, z>> \in Seq(S)
      OBVIOUS
    <3> QED
      BY <3>1
  <2>3. Len(u) = 1 /\ u[1] = x /\ Len(p) = 2 /\ p[1] = y /\ p[2] = z
    BY <1>5, <2>1
  <2>4. Len(w) = 3 /\ w[1] = x /\ w[2] = y /\ w[3] = z
    BY <2>2
  <2>5. /\ u \o p \in Seq(S) /\ Len(u \o p) = Len(u) + Len(p)
        /\ \A i \in 1 .. Len(u) + Len(p) : (u \o p)[i] = IF i <= Len(u) THEN u[i] ELSE p[i - Len(u)]
    BY ConcatProperties
  <2>6. PICK v \in Seq(S) : v = u \o p
    BY <2>5
  <2>7. Len(v) = 3 /\ v[1] = x /\ v[2] = y /\ v[3] = z
    BY <2>3, <2>5, <2>6
  <2>8. v = w
    BY <2>4, <2>7, SeqEqual
  <2> QED
    BY <2>1, <2>2, <2>6, <2>8 DEF Cons
<1>7. encode_response(ErrorResponse) = Cons(x, p)
  BY <1>2, <1>4, <1>6 DEF encode_response
<1>8. read_u8(Cons(x, p)) = Read(1, p)
  BY <1>4, ReadsField DEF read_u8, Byte
<1>9. decode_bytes(p) = Read(d, <<>>)
  <2>1. PICK n \in Seq(S) : n = <<>>
    BY ConsOne
  <2>2. p \o n = p
    BY <2>1, ConcatEmptySeq
  <2>3. encode_bytes(d) = p
    BY <1>4, <1>5 DEF encode_bytes
  <2>4. decode_bytes(encode_bytes(d) \o n) = Read(d, n)
    BY <1>2, <1>3, MaxDataLenAssumption, ReadsBytes
  <2> QED
    BY <2>1, <2>2, <2>3, <2>4
<1>10. PICK t : t = read_u8(Cons(x, p))
  OBVIOUS
<1>11. t.ok /\ t.val = 1 /\ t.rest = p
  BY <1>8, <1>10 DEF Read
<1>12. decode_bytes(p).ok /\ decode_bytes(p).val = d /\ decode_bytes(p).rest = <<>>
  BY <1>9 DEF Read
<1>13. decode_response(Cons(x, p), a) = Read([kind |-> "Error", val |-> d], <<>>)
  BY <1>10, <1>11, <1>12 DEF decode_response
<1> QED
  BY <1>2, <1>7, <1>13

(* The places of the two cells of a hash.                                   *)
LEMMA Places ==
    ASSUME NEW i \in Nat, i > 0
    PROVE  /\ (2 * i) \div 2 = i /\ (2 * i + 1) \div 2 = i
           /\ (2 * i - 1) % 2 = 1 /\ (2 * i) % 2 = 0 /\ (21 * i + 20) \div 21 = i
<1>1. (2 * i) \div 2 = i
  OBVIOUS
<1>2. (2 * i + 1) \div 2 = i
  OBVIOUS
<1>3. (2 * i - 1) % 2 = 1
  OBVIOUS
<1>4. (2 * i) % 2 = 0
  OBVIOUS
<1>5. (21 * i + 20) \div 21 = i
  OBVIOUS
<1> QED
  BY <1>1, <1>2, <1>3, <1>4, <1>5

(* A list of hashes.                                                        *)
LEMMA ReadsList ==
    ASSUME NEW T, NEW list \in Seq(T)
    PROVE  /\ \E S : Byte(0) \in S /\ encode_pkh_list(list) \in Seq(S)
           /\ decode_pkh_list(encode_pkh_list(list)) = Read(list, <<>>)
<1> DEFINE L == Len(list)
           raw == raw_pkhs(list)
<1>1. L \in Nat /\ DOMAIN list = 1 .. L /\ list = [i \in 1 .. L |-> list[i]]
  OBVIOUS
<1>2. PICK S : S = {Byte(0), Byte(3), Field("len", 21 * L)} \cup {Field("pkh", list[i]) : i \in 1 .. L}
  OBVIOUS
<1>3. /\ \A i \in 1 .. L : raw[2 * i - 1] = Byte(3) /\ raw[2 * i] = Field("pkh", list[i])
      /\ raw \in [1 .. 2 * L -> S]
  <2>1. ASSUME NEW j \in 1 .. 2 * L
        PROVE  raw[j] = encode_raw_pkh(list[(j + 1) \div 2])[IF j % 2 = 1 THEN 1 ELSE 2]
    BY <1>1 DEF raw_pkhs
  <2>2. ASSUME NEW i \in 1 .. L
        PROVE  raw[2 * i - 1] = Byte(3) /\ raw[2 * i] = Field("pkh", list[i])
    <3>1. /\ 2 * i - 1 \in 1 .. 2 * L /\ 2 * i \in 1 .. 2 * L
          /\ (2 * i) \div 2 = i /\ (2 * i + 1) \div 2 = i
          /\ (2 * i - 1) % 2 = 1 /\ (2 * i) % 2 = 0 /\ 2 * i - 1 + 1 = 2 * i
      <4>1. i \in Nat /\ i > 0 /\ i <= L
        BY <1>1
      <4> HIDE DEF L
      <4>2. 2 * i - 1 \in 1 .. 2 * L /\ 2 * i \in 1 .. 2 * L /\ 2 * i - 1 + 1 = 2 * i
        BY <1>1, <4>1
      <4> QED
        BY <4>1, <4>2, Places
    <3>2. raw[2 * i - 1] = encode_raw_pkh(list[i])[1] /\ raw[2 * i] = encode_raw_pkh(list[i])[2]
      BY <2>1, <3>1
    <3> QED
      BY <3>2 DEF encode_raw_pkh
  <2>3. ASSUME NEW j \in 1 .. 2 * L PROVE raw[j] \in S
    <3>1. PICK i \in 1 .. L : j = 2 * i - 1 \/ j = 2 * i
      <4>1. (j + 1) \div 2 \in 1 .. L /\ (j = 2 * ((j + 1) \div 2) - 1 \/ j = 2 * ((j + 1) \div 2))
        BY <1>1
      <4> QED
        BY <4>1
    <3> QED
      BY <1>2, <2>2, <3>1
  <2>4. raw = [j \in 1 .. 2 * L |-> raw[j]]
    BY DEF raw_pkhs
  <2> HIDE DEF raw
  <2>5. raw \in [1 .. 2 * L -> S]
    BY <2>3, <2>4
  <2> QED
    BY <2>2, <2>5
<1> HIDE DEF raw
<1>4. raw \in Seq(S) /\ Len(raw) = 2 * L
  <2>1. PICK n \in Nat : n = 2 * L /\ raw \in [1 .. n -> S]
    BY <1>1, <1>3
  <2>2. raw \in Seq(S)
    BY <2>1, SeqDef
  <2>3. Len(raw) = n
    BY <2>1, <2>2, LenProperties
  <2> QED
    BY <2>1, <2>2, <2>3
<1>5. PICK x \in S : x = Field("len", 21 * L)
  BY <1>2
<1>6. encode_pkh_list(list) = Cons(x, raw) /\ Cons(x, raw) \in Seq(S)
  BY <1>4, <1>5, ConsIs DEF encode_pkh_list, raw, Cons
<1>7. read_field("len", Cons(x, raw)) = Read(21 * L, raw)
  BY <1>4, <1>5, ReadsField
<1>8. ASSUME NEW i \in 1 .. L PROVE read_pkh(raw, i) = Read(list[i], <<>>)
  <2>1. PICK a \in 1 .. Len(raw), b \in 1 .. Len(raw) : a = 2 * i - 1 /\ b = 2 * i
    BY <1>1, <1>4
  <2>2. \A j \in a .. b : raw[j] \in S
    BY <1>4, <2>1
  <2>3. PICK u : u = SubSeq(raw, a, b)
    OBVIOUS
  <2>4. /\ u \in Seq(S) /\ Len(u) = IF a <= b THEN b - a + 1 ELSE 0
        /\ \A j \in 1 .. b - a + 1 : u[j] = raw[a + j - 1]
    BY <2>1, <2>2, <2>3, <1>4, SubSeqProperties
  <2>5. Len(u) = 2 /\ u[1] = raw[a] /\ u[2] = raw[b]
    <3>1. a \in Int /\ b = a + 1 /\ b - a + 1 = 2 /\ a <= b /\ a + 1 - 1 = a /\ a + 2 - 1 = b
      BY <2>1
    <3>2. 1 \in 1 .. b - a + 1 /\ 2 \in 1 .. b - a + 1
      BY <3>1
    <3>3. u[1] = raw[a + 1 - 1]
      BY <2>4, <3>2
    <3>4. u[2] = raw[a + 2 - 1]
      BY <2>4, <3>2
    <3> QED
      BY <2>4, <3>1, <3>3, <3>4
  <2>6. PICK c \in S, d \in S : c = Byte(3) /\ d = Field("pkh", list[i])
    BY <1>2
  <2>7. PICK w \in Seq(S) : w = <<c, d>>
    BY Pair
  <2>8. Len(w) = 2 /\ w[1] = c /\ w[2] = d
    BY <2>7
  <2>9. u = w
    <3>1. u[1] = w[1] /\ u[2] = w[2]
      BY <1>3, <2>1, <2>5, <2>6, <2>8
    <3>2. \A j \in 1 .. Len(u) : u[j] = w[j]
      BY <2>5, <3>1
    <3> QED
      BY <2>4, <2>5, <2>8, <3>2, SeqEqual
  <2>10. read_tagged("pkh", w) = Read(list[i], <<>>)
    BY <2>6, <2>7, ReadsLastTagged
  <2> QED
    BY <2>1, <2>3, <2>9, <2>10 DEF read_pkh, decode_raw_pkh
<1>9. \A i \in 1 .. L : read_pkh(raw, i).ok /\ read_pkh(raw, i).val = list[i]
  BY <1>8 DEF Read
<1>10. (21 * L + 20) \div 21 = L
  <2> HIDE DEF L
  <2>1. CASE L = 0
    BY <2>1
  <2>2. CASE L > 0
    BY <1>1, <2>2, Places
  <2> QED
    BY <1>1, <2>1, <2>2
<1>11. SubSeq(raw, 2 * L + 1, Len(raw)) = <<>>
  <2>1. PICK k \in Nat, n \in Nat : k = 2 * L + 1 /\ n = Len(raw) /\ k > n
    BY <1>1, <1>4
  <2>2. SubSeq(raw, k, n) \in Seq(S) /\ Len(SubSeq(raw, k, n)) = 0
    BY <1>4, <2>1, SubSeqProperties
  <2>3. SubSeq(raw, k, n) = <<>>
    BY <2>2, EmptySeq
  <2> QED
    BY <2>1, <2>3
<1>12. PICK l : l = read_field("len", Cons(x, raw))
  OBVIOUS
<1>13. l.ok /\ l.val = 21 * L /\ l.rest = raw
  BY <1>7, <1>12 DEF Read
<1>14. [i \in 1 .. L |-> read_pkh(raw, i).val] = list
  BY <1>1, <1>9
<1>15. 2 * L <= Len(raw)
  BY <1>1, <1>4
<1>16. decode_pkh_list(Cons(x, raw)) = Read(list, <<>>)
  <2> HIDE DEF L
  <2> QED
    BY <1>9, <1>10, <1>11, <1>12, <1>13, <1>14, <1>15 DEF decode_pkh_list
<1> QED
  BY <1>2, <1>6, <1>16

(* What the client makes of an answer of the kind it expects is the answer. *)
LEMMA AnswerRoundTrip ==
    ASSUME NEW a, NEW v, a.kind \in DOMAIN tag,
           a.kind = "KnownKeys" => \E T : v \in Seq(T),
           a.kind = "AuthorizedKeys" => v = None,
           a.kind = "SupportsDeterministicNonces" => v = TRUE
    PROVE  decode_response(encode_response(Ok(ResponseKind[a.kind], v)), a) =
             Read(Ok(ResponseKind[a.kind], v), <<>>)
<1>0. a.kind \in {"Sign", "PublicKey", "AuthorizedKeys", "DeterministicNonce",
                  "DeterministicNonceHash", "SupportsDeterministicNonces", "KnownKeys",
                  "BlsProveRequest"}
  BY DEF tag
<1>1. PICK k : k = ResponseKind[a.kind]
  OBVIOUS
<1>2. PICK r : r = Ok(k, v)
  OBVIOUS
<1>3. r.kind = k /\ r.val = v
  BY <1>2 DEF Ok
<1>4. SUFFICES \E S : \E p \in Seq(S) : /\ Byte(0) \in S /\ encode_response(r) = Cons(Byte(0), p)
                                        /\ decode_payload(k, p) = Read(v, <<>>)
  <2>0. PICK S : \E p \in Seq(S) : /\ Byte(0) \in S /\ encode_response(r) = Cons(Byte(0), p)
                                  /\ decode_payload(k, p) = Read(v, <<>>)
    BY <1>4
  <2>1. PICK p \in Seq(S) : /\ Byte(0) \in S /\ encode_response(r) = Cons(Byte(0), p)
                            /\ decode_payload(k, p) = Read(v, <<>>)
    BY <2>0
  <2>2. decode_response(Cons(Byte(0), p), a) = Read([kind |-> k, val |-> v], <<>>)
    BY <1>1, <2>1, ReadsAnswer
  <2> QED
    BY <1>1, <1>2, <2>1, <2>2 DEF Ok
<1>5. CASE a.kind \in {"Sign", "BlsProveRequest"}
  <2>1. k = "Signature"
    BY <1>1, <1>5 DEF ResponseKind
  <2>2. PICK S : S = {Byte(0), Field("sig", v)}
    OBVIOUS
  <2>3. PICK y \in S : y = Field("sig", v)
    BY <2>2
  <2>4. PICK p \in Seq(S) : p = <<y>>
    BY ConsOne
  <2>5. encode_response(r) = Cons(Byte(0), p)
    BY <1>3, <2>1, <2>3, <2>4 DEF encode_response, encode_signature, Cons
  <2>6. decode_payload(k, p) = read_field("sig", p)
    BY <2>1 DEF decode_payload, decode_signature
  <2> QED
    BY <2>2, <2>3, <2>4, <2>5, <2>6, ReadsLast
<1>6. CASE a.kind = "PublicKey"
  <2>1. k = "PublicKey"
    BY <1>1, <1>6 DEF ResponseKind
  <2>2. PICK S : S = {Byte(0), Byte(3), Field("pk", v)}
    OBVIOUS
  <2>3. PICK x \in S, y \in S : x = Byte(3) /\ y = Field("pk", v)
    BY <2>2
  <2>4. PICK p \in Seq(S) : p = <<x, y>>
    BY Pair
  <2>5. encode_response(r) = Cons(Byte(0), p)
    BY <1>3, <2>1, <2>3, <2>4 DEF encode_response, encode_pk, Cons
  <2>6. decode_payload(k, p) = read_tagged("pk", p)
    BY <2>1 DEF decode_payload, decode_pk
  <2> QED
    BY <2>2, <2>3, <2>4, <2>5, <2>6, ReadsLastTagged
<1>7. CASE a.kind = "AuthorizedKeys"
  <2>1. k = "AuthorizedKeys" /\ v = None
    BY <1>1, <1>7 DEF ResponseKind
  <2>2. PICK S : S = {Byte(0)}
    OBVIOUS
  <2>3. PICK y \in S : y = Byte(0)
    BY <2>2
  <2>4. PICK p \in Seq(S) : p = <<y>>
    BY ConsOne
  <2>5. encode_response(r) = Cons(Byte(0), p)
    <3>1. <<y, y>> = Cons(y, <<y>>)
      BY Pair
    <3> QED
      BY <1>3, <2>1, <2>3, <2>4, <3>1 DEF encode_response
  <2>6. read_u8(p) = Read(0, <<>>)
    BY <2>3, <2>4, ReadsLast DEF read_u8, Byte
  <2>7. read_u8(p).ok /\ read_u8(p).val = 0 /\ read_u8(p).rest = <<>>
    BY <2>6 DEF Read
  <2>8. decode_payload(k, p) = decode_option_pkh_list(p)
    BY <2>1 DEF decode_payload
  <2>9. decode_option_pkh_list(p) = Read(None, <<>>)
    BY <2>7 DEF decode_option_pkh_list
  <2> QED
    BY <2>1, <2>2, <2>5, <2>8, <2>9
<1>8. CASE a.kind \in {"DeterministicNonce", "DeterministicNonceHash"}
  <2>1. k \in {"Nonce", "NonceHash"}
    BY <1>1, <1>8 DEF ResponseKind
  <2>2. PICK S : S = {Byte(0), Field("hash", v)}
    OBVIOUS
  <2>3. PICK x \in S, y \in S : x = Byte(0) /\ y = Field("hash", v)
    BY <2>2
  <2>4. PICK p \in Seq(S) : p = <<y>>
    BY ConsOne
  <2>5. encode_response(r) = Cons(Byte(0), p)
    <3>1. <<x, y>> = Cons(x, <<y>>)
      BY Pair
    <3> QED
      BY <1>3, <2>1, <2>3, <2>4, <3>1 DEF encode_response
  <2>6. decode_payload(k, p) = read_field("hash", p)
    BY <2>1 DEF decode_payload
  <2> QED
    BY <2>2, <2>3, <2>4, <2>5, <2>6, ReadsLast
<1>9. CASE a.kind = "SupportsDeterministicNonces"
  <2>1. k = "Bool" /\ v = TRUE
    BY <1>1, <1>9 DEF ResponseKind
  <2>2. PICK S : S = {Byte(0), Byte(255)}
    OBVIOUS
  <2>3. PICK x \in S, y \in S : x = Byte(0) /\ y = Byte(255)
    BY <2>2
  <2>4. PICK p \in Seq(S) : p = <<y>>
    BY ConsOne
  <2>5. encode_response(r) = Cons(Byte(0), p)
    <3>1. <<x, y>> = Cons(x, <<y>>)
      BY Pair
    <3> QED
      BY <1>3, <2>1, <2>3, <2>4, <3>1 DEF encode_response
  <2>6. read_u8(p) = Read(255, <<>>)
    BY <2>3, <2>4, ReadsLast DEF read_u8, Byte
  <2>7. read_u8(p).ok /\ read_u8(p).val = 255 /\ read_u8(p).rest = <<>>
    BY <2>6 DEF Read
  <2>8. decode_payload(k, p) = Read(255 # 0, <<>>)
    BY <2>1, <2>7 DEF decode_payload
  <2>9. (255 # 0) = TRUE
    OBVIOUS
  <2>10. decode_payload(k, p) = Read(v, <<>>)
    BY <2>1, <2>8, <2>9, Zenon
  <2>11. Byte(0) \in S
    BY <2>2
  <2> QED
    BY <2>5, <2>10, <2>11, Zenon
<1>10. CASE a.kind = "KnownKeys"
  <2>1. k = "KnownKeys"
    BY <1>1, <1>10 DEF ResponseKind
  <2>2. PICK T : v \in Seq(T)
    BY <1>10
  <2>3. PICK S : Byte(0) \in S /\ encode_pkh_list(v) \in Seq(S)
    BY <2>2, ReadsList
  <2>4. encode_response(r) = Cons(Byte(0), encode_pkh_list(v))
    BY <1>3, <2>1 DEF encode_response, Cons
  <2>5. decode_payload(k, encode_pkh_list(v)) = decode_pkh_list(encode_pkh_list(v))
    BY <2>1 DEF decode_payload
  <2> QED
    BY <2>2, <2>3, <2>4, <2>5, ReadsList
<1> QED
  BY <1>0, <1>5, <1>6, <1>7, <1>8, <1>9, <1>10

(* A device that holds both keys names the consensus key first and the     *)
(* companion key second, whatever their hashes.                            *)
LEMMA KeysInRoleOrder ==
    ASSUME NEW names, IsFiniteSet(DOMAIN names), DOMAIN names \subseteq Nat
    PROVE  /\ \E T : list_keys(names) \in Seq(T)
           /\ (\A i \in 1 .. 2 : \E k \in DOMAIN names : names[k] = Roles[i]) =>
                 /\ names[list_keys(names)[1]] = Roles[1]
                 /\ names[list_keys(names)[2]] = Roles[2]
<1> DEFINE holders(role) == {k \in DOMAIN names : names[k] = role}
           least(role) == CHOOSE k \in holders(role) : \A j \in holders(role) : k <= j
           first(role) == IF holders(role) = {} THEN <<>> ELSE <<least(role)>>
           head == first(Roles[1]) \o first(Roles[2])
           extras == DOMAIN names \ {head[i] : i \in DOMAIN head}
           rest == InOrder(extras)
<1>1. list_keys(names) = head \o rest
  BY DEF list_keys
<1>2. ASSUME NEW role, holders(role) # {} PROVE least(role) \in holders(role)
  <2>1. \E k \in holders(role) : \A j \in holders(role) : k <= j
    BY <1>2, Least
  <2> HIDE DEF holders
  <2> QED
    BY <2>1
<1>3. PICK T : T = Nat \cup {rest[i] : i \in 1 .. Cardinality(extras)}
  OBVIOUS
<1>4. rest \in Seq(T)
  <2>1. Cardinality(extras) \in Nat
    <3>1. IsFiniteSet(extras)
      BY FS_Subset
    <3> QED
      BY <3>1, FS_CardinalityType
  <2> HIDE DEF extras
  <2>2. PICK n \in Nat : n = Cardinality(extras)
    BY <2>1
  <2>3. rest = [i \in 1 .. n |-> CHOOSE k \in extras : Cardinality({j \in extras : j < k}) = i - 1]
    BY <2>2 DEF InOrder
  <2>4. rest = [i \in 1 .. n |-> rest[i]]
    BY <2>3
  <2> HIDE DEF rest
  <2> QED
    BY <1>3, <2>2, <2>4
<1>5. ASSUME NEW role PROVE first(role) \in Seq(T)
  <2>1. holders(role) \subseteq T
    BY <1>3
  <2>2. CASE holders(role) = {}
    BY <2>2, ConsOne
  <2>3. CASE holders(role) # {}
    <3>1. PICK x \in T : x = least(role)
      BY <1>2, <2>1, <2>3
    <3>2. <<x>> \in Seq(T)
      BY ConsOne
    <3> QED
      BY <2>3, <3>1, <3>2
  <2> QED
    BY <2>2, <2>3
<1>6. PICK f \in Seq(T), g \in Seq(T) : f = first(Roles[1]) /\ g = first(Roles[2])
  <2>1. first(Roles[1]) \in Seq(T)
    BY <1>5
  <2>2. first(Roles[2]) \in Seq(T)
    BY <1>5
  <2> HIDE DEF first
  <2> QED
    BY <2>1, <2>2
<1>7. f \o g \in Seq(T)
  BY ConcatProperties
<1>8. PICK h \in Seq(T) : h = f \o g
  BY <1>7
<1>9. PICK q \in Seq(T) : q = rest
  BY <1>4
<1> HIDE DEF rest, extras
<1>10. list_keys(names) = h \o q /\ h \o q \in Seq(T)
  BY <1>1, <1>6, <1>8, <1>9, ConcatProperties
<1>11. ASSUME \A i \in 1 .. 2 : \E k \in DOMAIN names : names[k] = Roles[i]
       PROVE  names[(h \o q)[1]] = Roles[1] /\ names[(h \o q)[2]] = Roles[2]
  <2>1. holders(Roles[1]) # {} /\ holders(Roles[2]) # {}
    BY <1>11
  <2>2. PICK x \in T, y \in T : x = least(Roles[1]) /\ y = least(Roles[2])
    BY <1>2, <1>3, <2>1
  <2>3. names[x] = Roles[1] /\ names[y] = Roles[2]
    BY <1>2, <2>1, <2>2
  <2>4. f = <<x>> /\ g = <<y>>
    BY <1>6, <2>1, <2>2
  <2> HIDE DEF least, holders, first, head
  <2>5. h = <<x, y>>
    BY <1>8, <2>4, Pair DEF Cons
  <2>6. h \o q = Cons(x, Cons(y, q))
    BY <2>5, ConsTwo
  <2>7. Len(h) = 2 /\ h[1] = x /\ h[2] = y
    BY <2>5
  <2>8. /\ Len(h \o q) = Len(h) + Len(q)
        /\ \A i \in 1 .. Len(h) + Len(q) : (h \o q)[i] = IF i <= Len(h) THEN h[i] ELSE q[i - Len(h)]
    BY ConcatProperties
  <2>9. Len(q) \in Nat
    OBVIOUS
  <2>10. (h \o q)[1] = x /\ (h \o q)[2] = y
    BY <2>7, <2>8, <2>9
  <2> QED
    BY <2>3, <2>10
<1> QED
  BY <1>10, <1>11

-----------------------------------------------------------------------------
(* The answers: an invariant of their own.                                  *)

(* The answer to a request a signer with the keys K can answer.             *)
Answers(K, a, v) ==
    /\ a.kind \in SignLike => v = <<a.pkh, a.data>>
    /\ a.kind = "BlsProveRequest" => v = <<a.pkh, a.pk>>
    /\ a.kind = "PublicKey" => v = a.pkh
    /\ a.kind = "AuthorizedKeys" => v = None
    /\ a.kind = "SupportsDeterministicNonces" => v = TRUE
    /\ a.kind = "KnownKeys" => v = list_keys(K)

(* A request that names a key of K, or none.                                *)
Held(K, a) == a.pkh = None \/ a.pkh \in DOMAIN K

(* An error, told to the operator when a key is not held, or the answer.    *)
Right(K, a, resp, alert) ==
    \/ /\ resp = ErrorResponse /\ (a.kind = "Sign" \/ ~ Held(K, a))
       /\ Held(K, a) \/ alert = "unknown" \/ (a.kind = "Sign" /\ ~ check_magic_byte(a.data))
    \/ Held(K, a) /\ \E v : resp = Ok(ResponseKind[a.kind], v) /\ Answers(K, a, v)

(* The fields of a connection.                                              *)
Fields == {"st", "inst", "in", "asked", "req", "resp", "alert", "gone"}

(* From the frame to the answer the thread works on what the client asked.  *)
Due(K, r) ==
    /\ Fields \subseteq DOMAIN r
    /\ r.st # "write" => r.resp = None
    /\ r.in # None /\ ~ r.in.torn /\ r.in.decoded.ok => r.in.decoded.val = r.asked /\ IsRequest(r.asked)
    /\ r.st = "record" => /\ r.req = r.asked /\ IsRequest(r.asked)
                          /\ r.asked.kind = "Sign" /\ Held(K, r.asked)
    /\ r.resp # None => IsRequest(r.asked) /\ Right(K, r.asked, r.resp, r.alert)

AnswerInv ==
    /\ IsFiniteSet(DOMAIN keys) /\ DOMAIN keys \subseteq Nat
    /\ conn = [c \in Conns |-> conn[c]]
    /\ \A c \in Conns : Due(keys, conn[c])

(* What the invariant says of an answer is what is promised of it.          *)
LEMMA AnswerInvRight == AnswerInv => AnswersRight
<1> SUFFICES ASSUME AnswerInv PROVE AnswersRight
  OBVIOUS
<1>1. ASSUME NEW c \in Conns, conn[c].resp # None
      PROVE  /\ IsRequest(conn[c].asked)
             /\ Right(keys, conn[c].asked, conn[c].resp, conn[c].alert)
  BY <1>1 DEF AnswerInv, Due
<1>2. /\ \E T : list_keys(keys) \in Seq(T)
      /\ (\A i \in 1 .. 2 : \E k \in DOMAIN keys : keys[k] = Roles[i]) =>
            /\ keys[list_keys(keys)[1]] = Roles[1]
            /\ keys[list_keys(keys)[2]] = Roles[2]
  BY KeysInRoleOrder DEF AnswerInv
<1>3. ASSUME NEW a, NEW v, IsRequest(a), Answers(keys, a, v)
      PROVE  decode_response(encode_response(Ok(ResponseKind[a.kind], v)), a) =
               Read(Ok(ResponseKind[a.kind], v), <<>>)
  <2>1. a.kind \in DOMAIN tag
    BY <1>3 DEF IsRequest
  <2>2. /\ a.kind = "KnownKeys" => \E T : v \in Seq(T)
        /\ a.kind = "AuthorizedKeys" => v = None
        /\ a.kind = "SupportsDeterministicNonces" => v = TRUE
    BY <1>2, <1>3 DEF Answers
  <2> QED BY <2>1, <2>2, AnswerRoundTrip
<1>4. ASSUME NEW c \in Conns, conn[c].resp # None, NEW a, a = conn[c].asked,
             NEW d, d = decode_response(encode_response(conn[c].resp), a)
      PROVE  /\ d.ok /\ d.rest = <<>>
             /\ \/ d.val = ErrorResponse
                \/ \E v : d.val = Ok(ResponseKind[a.kind], v) /\ Answers(keys, a, v)
  <2>1. CASE conn[c].resp = ErrorResponse
    <3>1. d = Read(ErrorResponse, <<>>)
      BY <1>4, <2>1, ReadsError
    <3> QED BY <3>1 DEF Read
  <2>2. ASSUME NEW v, conn[c].resp = Ok(ResponseKind[a.kind], v), Answers(keys, a, v)
        PROVE  d.ok /\ d.rest = <<>> /\ d.val = Ok(ResponseKind[a.kind], v)
    <3>1. d = Read(Ok(ResponseKind[a.kind], v), <<>>)
      BY <1>1, <1>3, <1>4, <2>2
    <3> QED BY <3>1 DEF Read
  <2> QED BY <1>1, <1>4, <2>1, <2>2 DEF Right
<1>5. AnswersMatch
  <2> DEFINE Matches(a, d) ==
               /\ d.ok /\ d.rest = <<>>
               /\ \/ d.val = ErrorResponse
                  \/ /\ d.val.kind = ResponseKind[a.kind]
                     /\ a.kind \in SignLike => d.val.val = <<a.pkh, a.data>>
                     /\ a.kind = "BlsProveRequest" => d.val.val = <<a.pkh, a.pk>>
                     /\ a.kind = "PublicKey" => d.val.val = a.pkh
  <2>1. ASSUME NEW c \in Conns, conn[c].resp # None, NEW a, a = conn[c].asked,
               NEW d, d = decode_response(encode_response(conn[c].resp), a)
        PROVE  Matches(a, d)
    <3>1. CASE d.val = ErrorResponse
      BY <1>4, <2>1, <3>1
    <3>2. ASSUME NEW v, d.val = Ok(ResponseKind[a.kind], v), Answers(keys, a, v)
          PROVE  /\ d.val.kind = ResponseKind[a.kind]
                 /\ a.kind \in SignLike => d.val.val = <<a.pkh, a.data>>
                 /\ a.kind = "BlsProveRequest" => d.val.val = <<a.pkh, a.pk>>
                 /\ a.kind = "PublicKey" => d.val.val = a.pkh
      <4>1. d.val.kind = ResponseKind[a.kind] /\ d.val.val = v
        BY <3>2 DEF Ok
      <4> QED BY <3>2, <4>1 DEF Answers
    <3> QED BY <1>4, <2>1, <3>1, <3>2
  <2>2. ASSUME NEW c \in Conns, conn[c].resp # None
        PROVE  Matches(conn[c].asked, decode_response(encode_response(conn[c].resp), conn[c].asked))
    <3> HIDE DEF Matches
    <3> QED BY <2>1, <2>2
  <2> QED BY <2>2, Zenon DEF AnswersMatch
<1>6. UnheldKeyReported
  BY <1>1 DEF UnheldKeyReported, Right, Held
<1>7. KnownKeysInRoleOrder
  <2>1. ASSUME NEW c \in Conns, conn[c].resp # None, conn[c].asked.kind = "KnownKeys",
               NEW list, list = decode_response(encode_response(conn[c].resp), conn[c].asked).val.val,
               \A i \in 1 .. 2 : \E k \in DOMAIN keys : keys[k] = Roles[i]
        PROVE  keys[list[1]] = Roles[1] /\ keys[list[2]] = Roles[2]
    <3>1. PICK a : a = conn[c].asked
      OBVIOUS
    <3>2. PICK v : conn[c].resp = Ok(ResponseKind[a.kind], v) /\ Answers(keys, a, v)
      <4>1. Held(keys, a) /\ a.kind # "Sign"
        BY <1>1, <2>1, <3>1 DEF IsRequest, Held
      <4> QED BY <1>1, <2>1, <3>1, <4>1 DEF Right
    <3>3. v = list_keys(keys)
      BY <2>1, <3>1, <3>2 DEF Answers
    <3>4. PICK d : d = decode_response(encode_response(conn[c].resp), a)
      OBVIOUS
    <3>5. d = Read(Ok(ResponseKind[a.kind], v), <<>>)
      BY <1>1, <1>3, <2>1, <3>1, <3>2, <3>4
    <3>6. d.val.val = v
      BY <3>5 DEF Read, Ok
    <3> QED BY <1>2, <2>1, <3>1, <3>3, <3>4, <3>6
  <2>2. ASSUME NEW c \in Conns, conn[c].resp # None /\ conn[c].asked.kind = "KnownKeys"
        PROVE  LET list == decode_response(encode_response(conn[c].resp), conn[c].asked).val.val IN
               (\A i \in 1 .. 2 : \E k \in DOMAIN keys : keys[k] = Roles[i]) =>
                  keys[list[1]] = Roles[1] /\ keys[list[2]] = Roles[2]
    BY <2>1, <2>2
  <2> QED BY <2>2 DEF KnownKeysInRoleOrder
<1> QED BY <1>5, <1>6, <1>7 DEF AnswersRight

(* A signer starts with finitely many keys, and with nothing asked.         *)
LEMMA AnswerInit == Init => AnswerInv
<1> SUFFICES ASSUME Init PROVE AnswerInv
  OBVIOUS
<1>1. PICK entries \in KeyFiles : keys = LoadKeys(entries)
  BY DEF Init
<1>2. entries \in Seq([pkh : Nat, alias : STRING, good : BOOLEAN])
  BY KeyFilesAssumption
<1>3. PICK n \in Nat : DOMAIN entries = 1 .. n
  BY <1>2
<1>4. \A i \in 1 .. n : entries[i].pkh \in Nat
  <2>1. ASSUME NEW i \in 1 .. n PROVE entries[i] \in [pkh : Nat, alias : STRING, good : BOOLEAN]
    <3>1. i \in 1 .. Len(entries)
      BY <1>2, <1>3
    <3> QED BY <1>2, <3>1, ElementOfSeq
  <2> QED BY <2>1
<1>5. DOMAIN keys = {entries[i].pkh : i \in 1 .. n}
  BY <1>1, <1>3 DEF LoadKeys
<1>6. DOMAIN keys \subseteq Nat
  BY <1>4, <1>5
<1>7. IsFiniteSet(DOMAIN keys)
  <2>1. IsFiniteSet(1 .. n)
    BY FS_Interval
  <2>2. PICK f : f = [i \in 1 .. n |-> entries[i].pkh]
    OBVIOUS
  <2>3. f \in Surjection(1 .. n, DOMAIN keys)
    BY <1>5, <2>2 DEF Surjection
  <2> QED BY <2>1, <2>3, FS_Surjection
<1>8. Due(keys, Idle)
  BY DEF Due, Idle, Fields
<1>9. conn = [c \in Conns |-> Idle]
  BY DEF Init
<1> QED BY <1>6, <1>7, <1>8, <1>9 DEF AnswerInv

(* A step that changes one connection.                                      *)
LEMMA AnswerStep ==
    ASSUME AnswerInv, keys' = keys, NEW c \in Conns, NEW r, conn' = [conn EXCEPT ![c] = r],
           Due(keys, r)
    PROVE  AnswerInv'
BY DEF AnswerInv

(* A thread that answers.                                                   *)
LEMMA ReplyRight ==
    ASSUME NEW K, NEW o, NEW r, NEW resp, NEW alert, Fields \subseteq DOMAIN o, IsRequest(o.asked),
           Right(K, o.asked, resp, alert),
           r = [o EXCEPT !.st = "write", !.resp = resp, !.in = None, !.alert = alert]
    PROVE  Due(K, r)
<1>1. /\ Fields \subseteq DOMAIN r /\ r.st = "write" /\ r.resp = resp /\ r.in = None
      /\ r.alert = alert /\ r.asked = o.asked
  BY DEF Fields
<1> QED BY <1>1 DEF Due

(* A whole frame that decodes is what the client asked, and every kind of   *)
(* request has an answer of its own.                                        *)
LEMMA RequestRight ==
    ASSUME AnswerInv, NEW c \in Conns, handle_request(c)
    PROVE  AnswerInv'
<1>1. PICK o : o = conn[c]
  OBVIOUS
<1>2. Due(keys, o) /\ Fields \subseteq DOMAIN o /\ o.resp = None /\ o.st = "read"
  BY <1>1 DEF AnswerInv, Due, handle_request
<1>3. keys' = keys
  BY DEF handle_request, ThreadUnchanged
<1>4. PICK d : d = o.in.decoded
  OBVIOUS
<1>5. d.ok => d.val = o.asked /\ IsRequest(o.asked)
  BY <1>1, <1>2, <1>4 DEF Due, handle_request, Broken
<1>6. ASSUME NEW resp, NEW alert, Reply(c, resp, alert), IsRequest(o.asked),
             Right(keys, o.asked, resp, alert)
      PROVE  AnswerInv'
  <2>1. PICK r : r = [o EXCEPT !.st = "write", !.resp = resp, !.in = None, !.alert = alert]
    OBVIOUS
  <2>2. conn' = [conn EXCEPT ![c] = r]
    BY <1>1, <1>6, <2>1 DEF Reply
  <2>3. Due(keys, r)
    BY <1>2, <1>6, <2>1, ReplyRight
  <2> QED BY <1>3, <2>2, <2>3, AnswerStep
<1>7. ASSUME d.ok, handle_sign(c, d.val) PROVE AnswerInv'
  <2>1. PICK a : a = o.asked
    OBVIOUS
  <2>2. a.kind = "Sign" /\ handle_sign(c, a) /\ IsRequest(a)
    BY <1>5, <1>7, <2>1 DEF handle_sign
  <2>3. Unheld(a) <=> ~ Held(keys, a)
    BY DEF Unheld, Held
  <2>4. CASE ~ check_magic_byte(a.data)
    <3>1. Reply(c, ErrorResponse, None)
      BY <2>2, <2>4 DEF handle_sign
    <3> QED BY <1>6, <2>1, <2>2, <2>4, <3>1 DEF Right
  <2>5. CASE check_magic_byte(a.data) /\ Unheld(a)
    <3>1. Reply(c, ErrorResponse, "unknown")
      BY <2>2, <2>5 DEF handle_sign
    <3> QED BY <1>6, <2>1, <2>2, <3>1 DEF Right
  <2>6. CASE check_magic_byte(a.data) /\ ~ Unheld(a)
    <3>1. CASE Reply(c, ErrorResponse, "watermark")
      BY <1>6, <2>1, <2>2, <2>3, <2>6, <3>1 DEF Right
    <3>2. CASE conn' = [conn EXCEPT ![c].st = "record", ![c].req = a, ![c].in = None]
      <4>1. PICK r : r = [o EXCEPT !.st = "record", !.req = a, !.in = None]
        OBVIOUS
      <4>2. conn' = [conn EXCEPT ![c] = r]
        BY <1>1, <3>2, <4>1
      <4>3. /\ Fields \subseteq DOMAIN r /\ r.st = "record" /\ r.req = a /\ r.in = None
            /\ r.asked = a /\ r.resp = None
        BY <1>2, <2>1, <4>1 DEF Fields
      <4>4. Due(keys, r)
        BY <2>2, <2>3, <2>6, <4>3 DEF Due
      <4> QED BY <1>3, <4>2, <4>4, AnswerStep
    <3> QED BY <2>2, <2>6, <3>1, <3>2 DEF handle_sign
  <2> QED BY <2>4, <2>5, <2>6
<1>8. ASSUME d.ok, handle_other(c, d.val) PROVE AnswerInv'
  <2>1. PICK a : a = o.asked
    OBVIOUS
  <2>2. a.kind # "Sign" /\ handle_other(c, a) /\ IsRequest(a)
    BY <1>5, <1>8, <2>1 DEF handle_other
  <2>3. Unheld(a) <=> ~ Held(keys, a)
    BY DEF Unheld, Held
  <2>4. CASE Unheld(a)
    <3>1. Reply(c, ErrorResponse, "unknown")
      BY <2>2, <2>4 DEF handle_other
    <3> QED BY <1>6, <2>1, <2>2, <2>3, <2>4, <3>1 DEF Right
  <2>5. CASE ~ Unheld(a)
    <3>1. SUFFICES ASSUME NEW v, Reply(c, Ok(ResponseKind[a.kind], v), None), Answers(keys, a, v)
                   PROVE  AnswerInv'
      <4>0. a.kind \in {"PublicKey", "AuthorizedKeys", "DeterministicNonce", "DeterministicNonceHash",
                        "SupportsDeterministicNonces", "KnownKeys", "BlsProveRequest"}
        BY <2>2 DEF IsRequest, tag
      <4>1. CASE a.kind = "PublicKey"
        <5>1. Reply(c, Ok("PublicKey", a.pkh), None)
          BY <2>2, <2>5, <4>1 DEF handle_other
        <5> QED BY <3>1, <4>1, <5>1 DEF ResponseKind, Answers, SignLike
      <4>2. CASE a.kind = "AuthorizedKeys"
        <5>1. Reply(c, Ok("AuthorizedKeys", None), None)
          BY <2>2, <2>5, <4>2 DEF handle_other
        <5> QED BY <3>1, <4>2, <5>1 DEF ResponseKind, Answers, SignLike
      <4>3. CASE a.kind = "DeterministicNonce"
        <5>1. Reply(c, Ok("Nonce", <<a.pkh, a.data>>), None)
          BY <2>2, <2>5, <4>3 DEF handle_other
        <5> QED BY <3>1, <4>3, <5>1 DEF ResponseKind, Answers, SignLike
      <4>4. CASE a.kind = "DeterministicNonceHash"
        <5>1. Reply(c, Ok("NonceHash", <<a.pkh, a.data>>), None)
          BY <2>2, <2>5, <4>4 DEF handle_other
        <5> QED BY <3>1, <4>4, <5>1 DEF ResponseKind, Answers, SignLike
      <4>5. CASE a.kind = "SupportsDeterministicNonces"
        <5>1. Reply(c, Ok("Bool", TRUE), None)
          BY <2>2, <2>5, <4>5 DEF handle_other
        <5>2. ResponseKind[a.kind] = "Bool"
          BY <4>5 DEF ResponseKind
        <5>3. Answers(keys, a, TRUE)
          <6>1. a.kind \notin SignLike /\ a.kind # "BlsProveRequest" /\ a.kind # "PublicKey"
            BY <4>5 DEF SignLike
          <6>2. a.kind # "AuthorizedKeys" /\ a.kind # "KnownKeys"
            BY <4>5
          <6> QED BY <6>1, <6>2, Zenon DEF Answers
        <5>4. Reply(c, Ok(ResponseKind[a.kind], TRUE), None)
          BY <5>1, <5>2, Zenon
        <5> QED BY <3>1, <5>3, <5>4, Zenon
      <4>6. CASE a.kind = "KnownKeys"
        <5>1. Reply(c, Ok("KnownKeys", list_keys(keys)), None)
          BY <2>2, <2>5, <4>6 DEF handle_other
        <5> QED BY <3>1, <4>6, <5>1 DEF ResponseKind, Answers, SignLike
      <4>7. CASE a.kind = "BlsProveRequest"
        <5>1. Reply(c, Ok("Signature", <<a.pkh, a.pk>>), None)
          BY <2>2, <2>5, <4>7 DEF handle_other
        <5> QED BY <3>1, <4>7, <5>1 DEF ResponseKind, Answers, SignLike
      <4> QED BY <4>0, <4>1, <4>2, <4>3, <4>4, <4>5, <4>6, <4>7
    <3>2. Right(keys, a, Ok(ResponseKind[a.kind], v), None)
      BY <2>3, <2>5, <3>1 DEF Right
    <3> QED BY <1>6, <2>1, <2>2, <3>1, <3>2
  <2> QED BY <2>4, <2>5
<1>9. CASE conn' = [conn EXCEPT ![c].st = "done", ![c].in = None, ![c].asked = None]
  <2>1. PICK r : r = [o EXCEPT !.st = "done", !.in = None, !.asked = None]
    OBVIOUS
  <2>2. conn' = [conn EXCEPT ![c] = r]
    BY <1>1, <1>9, <2>1
  <2>3. Fields \subseteq DOMAIN r /\ r.st = "done" /\ r.in = None /\ r.resp = None
    BY <1>2, <2>1 DEF Fields
  <2>4. Due(keys, r)
    BY <2>3 DEF Due
  <2> QED BY <1>3, <2>2, <2>4, AnswerStep
<1> QED BY <1>1, <1>4, <1>7, <1>8, <1>9 DEF handle_request

(* What is signed is answered with its signature.                           *)
LEMMA RecordRight ==
    ASSUME AnswerInv, NEW c \in Conns, record_activity(c)
    PROVE  AnswerInv'
<1>1. PICK o : o = conn[c]
  OBVIOUS
<1>2. /\ Due(keys, o) /\ Fields \subseteq DOMAIN o /\ o.st = "record" /\ keys' = keys
  BY <1>1 DEF AnswerInv, Due, record_activity, ThreadUnchanged
<1>3. o.req = o.asked /\ IsRequest(o.asked) /\ o.asked.kind = "Sign" /\ Held(keys, o.asked)
  BY <1>2 DEF Due
<1>4. PICK a, v : a = o.asked /\ v = <<a.pkh, a.data>>
  OBVIOUS
<1>5. PICK r : r = [o EXCEPT !.st = "write", !.resp = Ok("Signature", v)]
  OBVIOUS
<1>6. conn' = [conn EXCEPT ![c] = r]
  BY <1>1, <1>3, <1>4, <1>5 DEF record_activity
<1>7. /\ Fields \subseteq DOMAIN r /\ r.st = "write" /\ r.resp = Ok("Signature", v)
      /\ r.asked = a /\ r.in = o.in
  BY <1>2, <1>4, <1>5 DEF Fields
<1>8. Right(keys, a, r.resp, r.alert)
  <2>1. ResponseKind[a.kind] = "Signature"
    BY <1>3, <1>4 DEF ResponseKind
  <2>2. Answers(keys, a, v)
    BY <1>3, <1>4 DEF Answers
  <2> QED BY <1>3, <1>4, <1>7, <2>1, <2>2 DEF Right
<1>9. Due(keys, r)
  BY <1>2, <1>3, <1>4, <1>7, <1>8 DEF Due
<1> QED BY <1>2, <1>6, <1>9, AnswerStep

(* The steps that neither handle a request nor record a signature: a        *)
(* connection that is not answered has no answer, and what a client sends   *)
(* is the encoding of what it asks or does not decode.                      *)
LEMMA OtherRight ==
    ASSUME AnswerInv, NEW c \in Conns,
           \/ accept_loop(c) \/ handle_connection(c) \/ ReadEof(c) \/ ReadTimeout(c)
           \/ process_request(c) \/ notify_request_complete(c) \/ ConnectionGuard_drop(c)
           \/ Connect(c) \/ Send(c) \/ HangUp(c)
    PROVE  AnswerInv'
<1>1. PICK o : o = conn[c]
  OBVIOUS
<1>2. /\ Due(keys, o) /\ Fields \subseteq DOMAIN o
      /\ o.st # "write" => o.resp = None
  BY <1>1 DEF AnswerInv, Due
<1>3. keys' = keys
  BY DEF accept_loop, handle_connection, ReadEof, ReadTimeout, process_request,
         notify_request_complete, ConnectionGuard_drop, Connect, Send, HangUp, ThreadUnchanged
<1>4. ASSUME NEW st, st \notin {"write", "record"}, o.st # "write", conn' = [conn EXCEPT ![c].st = st]
      PROVE  AnswerInv'
  <2>1. PICK r : r = [o EXCEPT !.st = st]
    OBVIOUS
  <2>2. conn' = [conn EXCEPT ![c] = r]
    BY <1>1, <1>4, <2>1
  <2>3. /\ Fields \subseteq DOMAIN r /\ r.st = st /\ r.in = o.in /\ r.asked = o.asked
        /\ r.resp = None
    BY <1>2, <1>4, <2>1 DEF Fields
  <2>4. Due(keys, r)
    BY <1>2, <1>4, <2>3 DEF Due
  <2> QED BY <1>3, <2>2, <2>4, AnswerStep
<1>5. ASSUME NEW r, conn' = [conn EXCEPT ![c] = r], Fields \subseteq DOMAIN r,
             r.in = None, r.resp = None, r.st # "record"
      PROVE  AnswerInv'
  <2>1. Due(keys, r)
    BY <1>5 DEF Due
  <2> QED BY <1>3, <1>5, <2>1, AnswerStep
<1>6. Fields \subseteq DOMAIN Idle /\ Idle.in = None /\ Idle.resp = None /\ Idle.st # "record"
  BY DEF Fields, Idle
<1>7. CASE accept_loop(c)
  <2>1. CASE conn' = [conn EXCEPT ![c] = Idle]
    BY <1>5, <1>6, <2>1
  <2>2. CASE conn' = [conn EXCEPT ![c].st = "spawned", ![c].inst = inst]
    <3>1. PICK r : r = [o EXCEPT !.st = "spawned", !.inst = inst]
      OBVIOUS
    <3>2. conn' = [conn EXCEPT ![c] = r]
      BY <1>1, <2>2, <3>1
    <3>3. o.st # "write"
      BY <1>1, <1>7 DEF accept_loop
    <3>4. /\ Fields \subseteq DOMAIN r /\ r.st = "spawned" /\ r.in = o.in /\ r.asked = o.asked
          /\ r.resp = None
      BY <1>2, <3>1, <3>3 DEF Fields
    <3>5. Due(keys, r)
      BY <1>2, <3>3, <3>4 DEF Due
    <3> QED BY <1>3, <3>2, <3>5, AnswerStep
  <2> QED BY <1>7, <2>1, <2>2 DEF accept_loop
<1>8. CASE handle_connection(c)
  <2>1. \E st \in {"read", "drop"} : conn' = [conn EXCEPT ![c].st = st]
    BY <1>8 DEF handle_connection
  <2>2. o.st = "spawned"
    BY <1>1, <1>8 DEF handle_connection
  <2> QED BY <1>4, <2>1, <2>2
<1>9. CASE ReadEof(c) \/ ReadTimeout(c)
  <2>1. PICK r : r = [o EXCEPT !.st = "done", !.in = None, !.asked = None]
    OBVIOUS
  <2>2. conn' = [conn EXCEPT ![c] = r] /\ o.st # "write"
    BY <1>1, <1>9, <2>1 DEF ReadEof, ReadTimeout
  <2>3. Fields \subseteq DOMAIN r /\ r.st = "done" /\ r.in = None /\ r.resp = None
    BY <1>2, <2>1, <2>2 DEF Fields
  <2> QED BY <1>5, <2>2, <2>3
<1>10. CASE process_request(c)
  <2>1. PICK r : r = [Idle EXCEPT !.st = "read", !.inst = o.inst, !.gone = o.gone]
    OBVIOUS
  <2>2. PICK q : q = [r EXCEPT !.st = "done"]
    OBVIOUS
  <2>3. conn' = [conn EXCEPT ![c] = r] \/ conn' = [conn EXCEPT ![c] = q]
    BY <1>1, <1>10, <2>1, <2>2 DEF process_request
  <2>4. Fields \subseteq DOMAIN r /\ r.st = "read" /\ r.in = None /\ r.resp = None
    BY <2>1 DEF Fields, Idle
  <2>5. Fields \subseteq DOMAIN q /\ q.st = "done" /\ q.in = None /\ q.resp = None
    BY <2>2, <2>4 DEF Fields
  <2> QED BY <1>5, <2>3, <2>4, <2>5
<1>11. CASE notify_request_complete(c)
  <2>1. \E st \in {"drop"} : conn' = [conn EXCEPT ![c].st = st]
    BY <1>11 DEF notify_request_complete
  <2>2. o.st = "done"
    BY <1>1, <1>11 DEF notify_request_complete
  <2> QED BY <1>4, <2>1, <2>2
<1>12. CASE ConnectionGuard_drop(c)
  BY <1>5, <1>6, <1>12 DEF ConnectionGuard_drop
<1>13. CASE Connect(c)
  <2>1. \E st \in {"queued"} : conn' = [conn EXCEPT ![c].st = st]
    BY <1>13 DEF Connect
  <2>2. o.st = "none"
    BY <1>1, <1>13 DEF Connect
  <2> QED BY <1>4, <2>1, <2>2
<1>14. CASE Send(c)
  <2>0. PICK f \in Frames[c] :
          conn' = [conn EXCEPT ![c].in = [decoded |-> decode_request(f.cells), torn |-> f.torn],
                               ![c].asked = f.req]
    BY <1>14 DEF Send
  <2>1. PICK i : /\ i = [decoded |-> decode_request(f.cells), torn |-> f.torn]
                 /\ conn' = [conn EXCEPT ![c].in = i, ![c].asked = f.req]
    BY <2>0
  <2>2. PICK r : r = [o EXCEPT !.in = i, !.asked = f.req]
    OBVIOUS
  <2>3. conn' = [conn EXCEPT ![c] = r] /\ o.st = "read"
    BY <1>1, <1>14, <2>1, <2>2 DEF Send
  <2>4. Fields \subseteq DOMAIN r /\ r.st = "read" /\ r.in = i /\ r.asked = f.req /\ r.resp = None
    BY <1>2, <2>2, <2>3 DEF Fields
  <2>5. IsRequest(f.req) /\ (i.decoded.ok => i.decoded.val = f.req)
    <3>1. IsRequest(f.req) /\ (f.cells = encode_request(f.req) \/ ~ decode_request(f.cells).ok)
      BY FramesAssumption
    <3>2. i.decoded = decode_request(f.cells)
      BY <2>1
    <3>3. CASE f.cells = encode_request(f.req)
      <4>1. i.decoded = Read(f.req, <<>>)
        BY <3>1, <3>2, <3>3, RequestRoundTrip
      <4> QED BY <3>1, <4>1 DEF Read
    <3> QED BY <3>1, <3>2, <3>3
  <2>6. Due(keys, r)
    BY <2>4, <2>5 DEF Due
  <2> QED BY <1>3, <2>3, <2>6, AnswerStep
<1>15. CASE HangUp(c)
  <2>1. PICK r : r = [o EXCEPT !.gone = TRUE]
    OBVIOUS
  <2>2. conn' = [conn EXCEPT ![c] = r]
    BY <1>1, <1>15, <2>1 DEF HangUp
  <2>3. /\ Fields \subseteq DOMAIN r /\ r.st = o.st /\ r.in = o.in /\ r.asked = o.asked
        /\ r.resp = o.resp /\ r.alert = o.alert /\ r.req = o.req
    BY <1>2, <2>1 DEF Fields
  <2>4. Due(keys, r)
    BY <1>2, <2>3 DEF Due
  <2> QED BY <1>3, <2>2, <2>4, AnswerStep
<1> QED BY <1>7, <1>8, <1>9, <1>10, <1>11, <1>12, <1>13, <1>14, <1>15

(* AnswerInv is inductive.                                                  *)
LEMMA AnswerInductive == AnswerInv /\ [Next]_vars => AnswerInv'
<1> SUFFICES ASSUME AnswerInv, [Next]_vars PROVE AnswerInv'
  OBVIOUS
<1>1. ASSUME keys' = keys, conn' = conn PROVE AnswerInv'
  BY <1>1 DEF AnswerInv
<1>2. CASE accept_fails
  <2>1. /\ keys' = keys
        /\ conn' = [c \in Conns |-> IF conn[c].st = "queued" THEN Idle ELSE conn[c]]
    BY <1>2 DEF accept_fails
  <2>2. Due(keys, Idle)
    BY DEF Due, Idle, Fields
  <2> QED BY <2>1, <2>2 DEF AnswerInv
<1>3. CASE ServerStep
  <2>1. CASE run \/ bind_fails \/ start_integrated_signer
    BY <1>1, <2>1 DEF run, bind_fails, start_integrated_signer
  <2> QED BY <1>2, <1>3, <2>1, OtherRight DEF ServerStep
<1>4. CASE Client
  BY <1>4, OtherRight DEF Client
<1>5. ASSUME NEW c \in Conns, ThreadStep(c) PROVE AnswerInv'
  BY <1>5, OtherRight, RequestRight, RecordRight DEF ThreadStep
<1>6. CASE \E g \in led.deferred : Led_deferred(g)
  BY <1>1, <1>6 DEF Led_deferred, ThreadUnchanged
<1>7. CASE UNCHANGED vars
  BY <1>1, <1>7 DEF vars
<1> QED BY <1>3, <1>4, <1>5, <1>6, <1>7 DEF Next

(* Whatever keys the signer holds, whatever the clients send and however    *)
(* the threads of handle_request interleave: what a client decodes is an    *)
(* error or the answer to what it asked on that connection, resolve_signer  *)
(* reported every key that is not held, and list_keys names the consensus   *)
(* key before the companion key.                                            *)
THEOREM AnswersAreRight == Spec => []AnswersRight
<1>1. Spec => []AnswerInv
  BY AnswerInit, AnswerInductive, PTL DEF Spec
<1> QED BY <1>1, AnswerInvRight, PTL

=============================================================================
