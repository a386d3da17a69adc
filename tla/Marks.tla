-------------------------------- MODULE Marks --------------------------------
(***************************************************************************)
(* The watermark entry of libs/signer/src/high_watermark.rs and the        *)
(* comparisons the signer makes on it.  A mark is a level and a round,     *)
(* both u32; MaxLevel and MaxRound stand for u32::MAX in each field.       *)
(***************************************************************************)
EXTENDS Integers

CONSTANTS MaxLevel,     \* u32::MAX as a level
          MaxRound,     \* u32::MAX as a round: the round of a ceiling
          NoMark        \* Option::None: no mark, or one that does not verify

ASSUME MaxAssumption == MaxLevel \in Nat /\ MaxRound \in Nat

Level == 0 .. MaxLevel

Mark == [level : Level, round : 0 .. MaxRound]

ASSUME NoMarkAssumption == NoMark \notin Mark

OptMark == Mark \cup {NoMark}

(* The lexicographic order on (level, round). *)
Below(a, b) == \/ a.level < b.level
               \/ a.level = b.level /\ a.round < b.round

AtMost(a, b) == \/ a.level < b.level
                \/ a.level = b.level /\ a.round <= b.round

(* A mark bounds p when there is one and it is not under p. *)
Bounds(m, p) == m = NoMark \/ AtMost(p, m)

(* Mutant: the round may repeat. *)
AcceptsSameRound(current, m) ==
    /\ current # NoMark
    /\ ~ (m.level < current.level)
    /\ ~ (m.level = current.level /\ m.round < current.round)

(* The three refusals of check_and_update_parsed: no mark (NotInitialized), *)
(* LevelTooLow, RoundTooLow.                                                *)
Accepts(current, m) ==
    /\ current # NoMark
    /\ ~ (m.level < current.level)
    /\ ~ (m.level = current.level /\ m.round <= current.round)

(* ceiling_covers: the ceiling on stable storage is at or above the update. *)
CeilingCovers(ceiling, m) ==
    /\ ceiling # NoMark
    /\ \/ ceiling.level > m.level
       \/ ceiling.level = m.level /\ ceiling.round >= m.round

(* The mark update_to_level installs and the one write_ceiling installs.   *)
FloorAt(level)   == [level |-> level, round |-> 0]
CeilingAt(level) == [level |-> level, round |-> MaxRound]
=============================================================================
