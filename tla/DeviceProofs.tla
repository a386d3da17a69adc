---------------------------- MODULE DeviceProofs ----------------------------
(***************************************************************************)
(* Proofs about three parts of the device that share no state: the upgrade *)
(* of the key file (KeyMigration), the way from power-on to service (Boot) *)
(* and the display loop with its driver (Panel).  Each has an inductive    *)
(* invariant of its own and theorems about its own specification.          *)
(***************************************************************************)
EXTENDS KeyMigration, Boot, Panel, SequenceTheorems, TLAPS

-----------------------------------------------------------------------------
(* KeyMigration: what the upgrade keeps safe, for any blobs the producer    *)
(* and the card may yield, any retry budget and any number of losses of     *)
(* power.  The next five hold while PINs are checked one at a time.         *)

(* One check is under way at a time. *)
Solo == \A c, d \in Checks : pc[c] # "idle" /\ pc[d] # "idle" => c = d

(* A check that replaces or removes the v2 file has the v1 file to fall     *)
(* back on, and one that is about to unlink v1 has read a v2 blob that the  *)
(* flash holds too.                                                         *)
Backed ==
    \A c \in Checks :
        /\ pc[c] \in {"create", "write", "rename", "count", "mark", "publish",
                         "revert"}
              => cache.v1 # Absent
        /\ pc[c] = "promote" => cache.v2 = "v2"
        /\ fd[c] # "closed" => \/ pc[c] = "write" /\ fd[c] = "tmp"
                               \/ pc[c] = "mark" /\ fd[c] = "tmptries"

(* A blob that only the page cache holds was written since the boot: the    *)
(* check that did is not finished, or the PIN page will not come back.      *)
RotIsFresh ==
    cache.v2 = "rot" =>
        \/ \E c \in Checks : \/ pc[c] \in {"count", "mark", "publish"}
                             \/ pc[c] = "done" /\ out[c] \in {"staged", "stagingfailed"}
        \/ phase # "pin" /\ \A c \in Checks : pc[c] = "idle"

CacheSurvives == cache.v1 = Absent => cache.v2 = "v2"

(* The right PIN is tried on v2 alone only when v1 is gone, so that v2 is a *)
(* blob it opens; where a check goes on with both files, both are there.    *)
RightPin ==
    \A c \in Checks :
        /\ pc[c] = "steady" => cache.v1 = Absent
        /\ pc[c] \in {"stage", "verify", "fallback", "promote"} => cache.v1 # Absent
        /\ pc[c] = "verify" => cache.v2 # Absent
        /\ pc[c] = "done" /\ right[c] /\ out[c] \in Failures =>
               \/ out[c] = "format" /\ cache.v1 = "v2"
               \/ out[c] = "io" /\ cache.v1 # Absent /\ cache.v2 = "v2"

-----------------------------------------------------------------------------
(* What a staging check has read is within the budget. *)
Staging == {"create", "write", "rename", "count", "mark", "publish"}
ReadBound == \A c \in Checks : pc[c] \in Staging => read[c] < Threshold

TypeInv == TypeOK /\ ReadBound

LEMMA TypeInit == Init => TypeInv
<1> SUFFICES ASSUME Init PROVE TypeInv
  OBVIOUS
<1>1. cache \in Keys /\ disk \in Keys
  BY BlobAssumption, LimitAssumption DEF Init, Keys, OldFile, NewFile
<1>2. pc \in [Checks -> Steps] /\ out \in [Checks -> Outcomes]
  BY DEF Init, Idle, Steps, Outcomes
<1>3. ReadBound
  BY DEF Init, Idle, ReadBound, Staging
<1>4. overlapped \in BOOLEAN /\ emptied \in BOOLEAN /\ writable \in BOOLEAN
  BY DEF Init
<1> QED
  BY <1>1, <1>2, <1>3, <1>4, LimitAssumption DEF Init, Idle, TypeInv, TypeOK, NewFile

LEMMA ReloadKeys ==
    ASSUME NEW d \in Keys
    PROVE  /\ Reload(d) \in Keys
           /\ Reload(d).v1 = d.v1 /\ Reload(d).tries = d.tries
           /\ Reload(d).v2 = IF d.v2 = "rot" THEN "bad" ELSE d.v2
<1>1. Flash(d.v1) = d.v1
  BY BlobAssumption DEF Flash, Keys, OldFile
<1> QED
  BY <1>1, BlobAssumption DEF Reload, Flash, Keys, OldFile, NewFile

LEMMA TypeStep == TypeInv /\ [Next]_vars => TypeInv'
<1> SUFFICES ASSUME TypeInv, [Next]_vars PROVE TypeInv'
  OBVIOUS
<1> USE BlobAssumption, LimitAssumption
<1> USE DEF TypeInv, TypeOK, ReadBound, Staging, Keys, OldFile, NewFile, Steps, Outcomes, Notices, Failures
<1>1. ASSUME NEW c \in Checks, Look(c) PROVE TypeInv'
  BY <1>1 DEF Look, Report, Goto, UI, KeepCounter
<1>2. ASSUME NEW c \in Checks, Steady(c) PROVE TypeInv'
  BY <1>2 DEF Steady, Report, Goto, UI, KeepCounter, Decrypts
<1>3. ASSUME NEW c \in Checks, Clear(c) PROVE TypeInv'
  BY <1>3 DEF Clear, Removed, Goto, UI, KeepCounter
<1>4. ASSUME NEW c \in Checks, Stage(c) PROVE TypeInv'
  BY <1>4 DEF Stage, Report, Goto, UI, KeepCounter, Decrypts
<1>5. ASSUME NEW c \in Checks, Create(c) PROVE TypeInv'
  BY <1>5 DEF Create, Report, Goto, UI, KeepCounter
<1>6. ASSUME NEW c \in Checks, Write(c) PROVE TypeInv'
  BY <1>6 DEF Write, Report, Goto, UI, KeepCounter
<1>7. ASSUME NEW c \in Checks, Rename(c) PROVE TypeInv'
  BY <1>7 DEF Rename, Moved, Report, Goto, UI, KeepCounter
<1>8. ASSUME NEW c \in Checks, Count(c) PROVE TypeInv'
  <2>1. {0} \in SUBSET (0 .. Threshold)
    OBVIOUS
  <2>2. tmpTries' \in SUBSET (0 .. Threshold)
    BY <1>8, <2>1, Zenon DEF Count
  <2> QED
    BY <1>8, <2>2 DEF Count, Report, Goto, UI, KeepCounter
<1>9. ASSUME NEW c \in Checks, Mark(c) PROVE TypeInv'
  BY <1>9 DEF Mark, Report, Goto, UI, KeepCounter
<1>10. ASSUME NEW c \in Checks, Publish(c) PROVE TypeInv'
  BY <1>10 DEF Publish, Moved, Report, Goto, UI, KeepCounter
<1>11. ASSUME NEW c \in Checks, Verify(c) PROVE TypeInv'
  BY <1>11 DEF Verify, Report, Goto, UI, KeepCounter, Decrypts
<1>12. ASSUME NEW c \in Checks, Promote(c) PROVE TypeInv'
  BY <1>12 DEF Promote, Report, Goto, UI, KeepCounter
<1>13. ASSUME NEW c \in Checks, Fallback(c) PROVE TypeInv'
  BY <1>13 DEF Fallback, Report, Goto, UI, KeepCounter, Decrypts
<1>14. ASSUME NEW c \in Checks, Revert(c) PROVE TypeInv'
  BY <1>14 DEF Revert, Removed, Report, Goto, UI, KeepCounter
<1>15. ASSUME NEW c \in Checks, HandleUnlock(c) PROVE TypeInv'
  BY <1>15 DEF HandleUnlock, Taken, KeepCounter, InPinEntry
<1>16. ASSUME NEW c \in Checks, HandlePromoted(c) PROVE TypeInv'
  BY <1>16, ZenonT(60) DEF HandlePromoted, Taken, KeepCounter, InPinEntry, Demote
<1>17. ASSUME NEW c \in Checks, HandleStaged(c) PROVE TypeInv'
  <2>1. reboots' \in 0 .. Threshold + 1
    BY <1>17 DEF HandleStaged
  <2>2. disk' \in Keys /\ writable' \in BOOLEAN /\ phase' \in {"reboot", "halted"}
    BY <1>17 DEF HandleStaged, Demote
  <2> QED
    BY <1>17, <2>1, <2>2 DEF HandleStaged, Taken, KeepCounter
<1>18. ASSUME NEW c \in Checks, HandleNotice(c) PROVE TypeInv'
  BY <1>18 DEF HandleNotice, Taken, KeepCounter, InPinEntry
<1>19. ASSUME NEW c \in Checks, HandleFailed(c) PROVE TypeInv'
  BY <1>19 DEF HandleFailed, Taken, KeepCounter, InPinEntry
<1>20. ASSUME NEW c \in Checks, HandleLate(c) PROVE TypeInv'
  BY <1>20 DEF HandleLate, Taken, KeepCounter
<1>21. ASSUME NEW c \in Checks, NEW r \in BOOLEAN, Enter(c, r) PROVE TypeInv'
  BY <1>21 DEF Enter, Goto, KeepCounter
<1>22. CASE AcknowledgeMigrationNotice
  BY <1>22, ZenonT(60) DEF AcknowledgeMigrationNotice, Demote, checkVars, KeepCounter
<1>23. CASE Checkpoint
  BY <1>23 DEF Checkpoint, checkVars, KeepCounter
<1>24. CASE Restart \/ PowerCut
  <2>1. cache' \in Keys /\ disk' \in Keys
    BY <1>24, ReloadKeys DEF Restart, PowerCut, Boot
  <2>2. cuts' \in Nat /\ reboots' = reboots
    BY <1>24 DEF Restart, PowerCut, Boot
  <2>3. /\ pc' = [c \in Checks |-> "idle"] /\ right' = [c \in Checks |-> FALSE]
        /\ read' = [c \in Checks |-> 0] /\ fd' = [c \in Checks |-> "closed"]
        /\ out' = [c \in Checks |-> "none"]
    BY <1>24 DEF Restart, PowerCut, Boot
  <2>4. /\ tmp' \in NewFile /\ tmpTries' \in SUBSET (0 .. Threshold)
        /\ writable' \in BOOLEAN /\ emptied' = emptied
        /\ phase' = "pin" /\ failed' = 0 /\ overlapped' = overlapped
    BY <1>24 DEF Restart, PowerCut, Boot
  <2> QED
    BY <2>1, <2>2, <2>3, <2>4
<1>25. CASE UNCHANGED vars
  BY <1>25 DEF vars, checkVars
<1> QED
  BY <1>1, <1>2, <1>3, <1>4, <1>5, <1>6, <1>7, <1>8, <1>9, <1>10, <1>11, <1>12, <1>13, <1>14, <1>15, <1>16, <1>17, <1>18, <1>19, <1>20, <1>21, <1>22, <1>23, <1>24, <1>25
  DEF Next, Check, HandleResult

(* Type correctness, with the attempts counter within its budget, for any   *)
(* number of overlapping checks (stage_v1_to_v2, increment_counter).        *)
THEOREM MigrationTypeCorrect == Spec => []TypeOK
<1>1. TypeInv => TypeOK
  BY DEF TypeInv
<1> QED
  BY <1>1, TypeInit, TypeStep, PTL DEF Spec

-----------------------------------------------------------------------------
(* The reboot-loop guard, with any number of overlapping checks.  Until one *)
(* of them puts an empty counter in place, the counter covers the restarts  *)
(* for as long as the v1 file is there to be staged again, on flash too;    *)
(* once the file is unlinked it does not come back, and only then may a     *)
(* check clear the counter.                                                 *)
CounterCovers ==
    emptied \/ /\ reboots <= Threshold
               /\ cache.v1 # Absent => reboots <= cache.tries
               /\ disk.v1 # Absent => reboots <= disk.tries

ClearReport ==
    \A c \in Checks :
        /\ pc[c] \in {"steady", "clear"} => cache.v1 = Absent
        /\ pc[c] = "clear" => out[c] \in {"none", "promoted"}

(* What a staging check read covers the restarts while /keys takes writes:  *)
(* none happens before the remount, and after it the check's count fails.   *)
ReadCovers ==
    emptied \/ \A c \in Checks : pc[c] \in Staging /\ writable => reboots <= read[c]

(* A staged outcome that will still be acted on leaves room for a restart. *)
StagedHasRoom ==
    emptied \/ \A c \in Checks :
        pc[c] = "done" /\ out[c] = "staged" /\ phase \in {"pin", "notice"}
            => reboots < Threshold /\ (cache.v1 # Absent => reboots < cache.tries)

(* A file is open for writing only where /keys takes writes. *)
OpenIsWritable ==
    \A c \in Checks : fd[c] # "closed" => writable /\ pc[c] \in {"write", "mark"}

(* What is in the temporary counter, unless a check has yet to write it, is *)
(* more than the restarts so far, whichever check wrote it.                 *)
TmpCovers ==
    \/ emptied
    \/ \A c \in Checks, n \in tmpTries \ {0} :
          writable /\ pc[c] \in {"mark", "publish"} => reboots < n

LoopInv == /\ CounterCovers /\ ClearReport /\ ReadCovers /\ StagedHasRoom
           /\ OpenIsWritable /\ TmpCovers

LEMMA LoopInit == Init => LoopInv
  BY BlobAssumption, LimitAssumption
  DEF Init, Idle, LoopInv, CounterCovers, ClearReport, ReadCovers, StagedHasRoom,
      OpenIsWritable, TmpCovers, Staging

LEMMA LoopStep == TypeInv /\ LoopInv /\ [Next]_vars => LoopInv'
<1> SUFFICES ASSUME TypeInv, LoopInv, [Next]_vars PROVE LoopInv'
  OBVIOUS
<1> USE BlobAssumption, LimitAssumption
<1> USE DEF TypeInv, TypeOK, Keys, OldFile, NewFile, LoopInv, Staging
<1>1. ASSUME NEW c \in Checks, Look(c) PROVE LoopInv'
  <2>1. CounterCovers'
    BY <1>1 DEF CounterCovers, Look, Report, Goto, UI, KeepCounter
  <2>2. ClearReport'
    BY <1>1 DEF ClearReport, Look, Report, Goto, UI, KeepCounter
  <2>3. ReadCovers'
    BY <1>1 DEF CounterCovers, ReadCovers, Look, Report, Goto, UI, KeepCounter
  <2>4. StagedHasRoom'
    BY <1>1 DEF StagedHasRoom, Look, Report, Goto, UI, KeepCounter
  <2>5. OpenIsWritable'
    BY <1>1 DEF OpenIsWritable, Look, Report, Goto, UI, KeepCounter
  <2>6. TmpCovers'
    BY <1>1 DEF TmpCovers, CounterCovers, ReadCovers, Look, Report, Goto, UI, KeepCounter
  <2> QED
    BY <2>1, <2>2, <2>3, <2>4, <2>5, <2>6
<1>2. ASSUME NEW c \in Checks, Steady(c) PROVE LoopInv'
  <2>1. CounterCovers'
    BY <1>2 DEF CounterCovers, Steady, Report, Goto, UI, KeepCounter, Decrypts
  <2>2. ClearReport'
    BY <1>2 DEF ClearReport, Steady, Report, Goto, UI, KeepCounter, Decrypts
  <2>3. ReadCovers'
    BY <1>2 DEF CounterCovers, ReadCovers, Steady, Report, Goto, UI, KeepCounter, Decrypts
  <2>4. StagedHasRoom'
    BY <1>2 DEF StagedHasRoom, Steady, Report, Goto, UI, KeepCounter, Decrypts
  <2>5. OpenIsWritable'
    BY <1>2 DEF OpenIsWritable, Steady, Report, Goto, UI, KeepCounter, Decrypts
  <2>6. TmpCovers'
    BY <1>2 DEF TmpCovers, CounterCovers, ReadCovers, Steady, Report, Goto, UI, KeepCounter, Decrypts
  <2> QED
    BY <2>1, <2>2, <2>3, <2>4, <2>5, <2>6
<1>3. ASSUME NEW c \in Checks, Clear(c) PROVE LoopInv'
  <2>1. CounterCovers'
    BY <1>3 DEF CounterCovers, ClearReport, Clear, Removed, Goto, UI, KeepCounter
  <2>2. ClearReport'
    BY <1>3 DEF ClearReport, Clear, Removed, Goto, UI, KeepCounter
  <2>3. ReadCovers'
    BY <1>3 DEF CounterCovers, ReadCovers, Clear, Removed, Goto, UI, KeepCounter
  <2>4. StagedHasRoom'
    BY <1>3 DEF StagedHasRoom, CounterCovers, ClearReport, Clear, Removed, Goto, UI, KeepCounter
  <2>5. OpenIsWritable'
    BY <1>3 DEF OpenIsWritable, Clear, Removed, Goto, UI, KeepCounter
  <2>6. TmpCovers'
    BY <1>3 DEF TmpCovers, CounterCovers, ReadCovers, Clear, Removed, Goto, UI, KeepCounter
  <2> QED
    BY <2>1, <2>2, <2>3, <2>4, <2>5, <2>6
<1>4. ASSUME NEW c \in Checks, Stage(c) PROVE LoopInv'
  <2>1. CounterCovers'
    BY <1>4 DEF CounterCovers, Stage, Report, Goto, UI, KeepCounter, Decrypts
  <2>2. ClearReport'
    BY <1>4 DEF ClearReport, Stage, Report, Goto, UI, KeepCounter, Decrypts
  <2>3. ReadCovers'
    BY <1>4 DEF CounterCovers, ReadCovers, Stage, Report, Goto, UI, KeepCounter, Decrypts
  <2>4. StagedHasRoom'
    BY <1>4 DEF StagedHasRoom, Stage, Report, Goto, UI, KeepCounter, Decrypts
  <2>5. OpenIsWritable'
    BY <1>4 DEF OpenIsWritable, Stage, Report, Goto, UI, KeepCounter, Decrypts
  <2>6. TmpCovers'
    BY <1>4 DEF TmpCovers, CounterCovers, ReadCovers, Stage, Report, Goto, UI, KeepCounter, Decrypts
  <2> QED
    BY <2>1, <2>2, <2>3, <2>4, <2>5, <2>6
<1>5. ASSUME NEW c \in Checks, Create(c) PROVE LoopInv'
  <2>1. CounterCovers'
    BY <1>5 DEF CounterCovers, Create, Report, Goto, UI, KeepCounter
  <2>2. ClearReport'
    BY <1>5 DEF ClearReport, Create, Report, Goto, UI, KeepCounter
  <2>3. ReadCovers'
    BY <1>5 DEF CounterCovers, ReadCovers, Create, Report, Goto, UI, KeepCounter
  <2>4. StagedHasRoom'
    BY <1>5 DEF StagedHasRoom, Create, Report, Goto, UI, KeepCounter
  <2>5. OpenIsWritable'
    BY <1>5 DEF OpenIsWritable, Create, Report, Goto, UI, KeepCounter
  <2>6. TmpCovers'
    BY <1>5 DEF TmpCovers, CounterCovers, ReadCovers, Create, Report, Goto, UI, KeepCounter
  <2> QED
    BY <2>1, <2>2, <2>3, <2>4, <2>5, <2>6
<1>6. ASSUME NEW c \in Checks, Write(c) PROVE LoopInv'
  <2>1. CounterCovers'
    BY <1>6 DEF CounterCovers, Write, Report, Goto, UI, KeepCounter
  <2>2. ClearReport'
    BY <1>6 DEF ClearReport, Write, Report, Goto, UI, KeepCounter
  <2>3. ReadCovers'
    BY <1>6 DEF CounterCovers, ReadCovers, Write, Report, Goto, UI, KeepCounter
  <2>4. StagedHasRoom'
    BY <1>6 DEF StagedHasRoom, Write, Report, Goto, UI, KeepCounter
  <2>5. OpenIsWritable'
    BY <1>6 DEF OpenIsWritable, Write, Report, Goto, UI, KeepCounter
  <2>6. TmpCovers'
    BY <1>6 DEF TmpCovers, CounterCovers, ReadCovers, Write, Report, Goto, UI, KeepCounter
  <2> QED
    BY <2>1, <2>2, <2>3, <2>4, <2>5, <2>6
<1>7. ASSUME NEW c \in Checks, Rename(c) PROVE LoopInv'
  <2>1. CounterCovers'
    BY <1>7 DEF CounterCovers, Rename, Moved, Report, Goto, UI, KeepCounter
  <2>2. ClearReport'
    BY <1>7 DEF ClearReport, Rename, Moved, Report, Goto, UI, KeepCounter
  <2>3. ReadCovers'
    BY <1>7 DEF CounterCovers, ReadCovers, Rename, Moved, Report, Goto, UI, KeepCounter
  <2>4. StagedHasRoom'
    BY <1>7 DEF StagedHasRoom, Rename, Moved, Report, Goto, UI, KeepCounter
  <2>5. OpenIsWritable'
    BY <1>7 DEF OpenIsWritable, Rename, Moved, Report, Goto, UI, KeepCounter
  <2>6. TmpCovers'
    BY <1>7 DEF TmpCovers, CounterCovers, ReadCovers, Rename, Moved, Report, Goto, UI, KeepCounter
  <2> QED
    BY <2>1, <2>2, <2>3, <2>4, <2>5, <2>6
<1>8. ASSUME NEW c \in Checks, Count(c) PROVE LoopInv'
  <2>1. CounterCovers'
    BY <1>8 DEF CounterCovers, ReadCovers, ReadBound, Count, Report, Goto, UI, KeepCounter
  <2>2. ClearReport'
    BY <1>8 DEF ClearReport, Count, Report, Goto, UI, KeepCounter
  <2>3. ReadCovers'
    BY <1>8 DEF CounterCovers, ReadCovers, Count, Report, Goto, UI, KeepCounter
  <2>4. StagedHasRoom'
    BY <1>8 DEF StagedHasRoom, ReadCovers, ReadBound, Count, Report, Goto, UI, KeepCounter
  <2>5. OpenIsWritable'
    BY <1>8 DEF OpenIsWritable, Count, Report, Goto, UI, KeepCounter
  <2>6. TmpCovers'
    BY <1>8 DEF TmpCovers, CounterCovers, ReadCovers, Count, Report, Goto, UI, KeepCounter
  <2> QED
    BY <2>1, <2>2, <2>3, <2>4, <2>5, <2>6
<1>9. ASSUME NEW c \in Checks, Mark(c) PROVE LoopInv'
  <2>1. CounterCovers'
    BY <1>9 DEF CounterCovers, ReadCovers, ReadBound, OpenIsWritable, Mark, Report, Goto, UI, KeepCounter
  <2>2. ClearReport'
    BY <1>9 DEF ClearReport, Mark, Report, Goto, UI, KeepCounter
  <2>3. ReadCovers'
    BY <1>9 DEF CounterCovers, ReadCovers, Mark, Report, Goto, UI, KeepCounter
  <2>4. StagedHasRoom'
    BY <1>9 DEF StagedHasRoom, ReadCovers, ReadBound, OpenIsWritable, Mark, Report, Goto, UI, KeepCounter
  <2>5. OpenIsWritable'
    BY <1>9 DEF OpenIsWritable, Mark, Report, Goto, UI, KeepCounter
  <2>6. TmpCovers'
    BY <1>9 DEF TmpCovers, CounterCovers, ReadCovers, Mark, Report, Goto, UI, KeepCounter
  <2> QED
    BY <2>1, <2>2, <2>3, <2>4, <2>5, <2>6
<1>10. ASSUME NEW c \in Checks, Publish(c) PROVE LoopInv'
  <2>1. CounterCovers'
    BY <1>10 DEF CounterCovers, ReadCovers, ReadBound, TmpCovers, Publish, Moved, Report, Goto, UI, KeepCounter
  <2>2. ClearReport'
    BY <1>10 DEF ClearReport, Publish, Moved, Report, Goto, UI, KeepCounter
  <2>3. ReadCovers'
    BY <1>10 DEF CounterCovers, ReadCovers, Publish, Moved, Report, Goto, UI, KeepCounter
  <2>4. StagedHasRoom'
    BY <1>10 DEF StagedHasRoom, ReadCovers, ReadBound, TmpCovers, Publish, Moved, Report, Goto, UI, KeepCounter
  <2>5. OpenIsWritable'
    BY <1>10 DEF OpenIsWritable, Publish, Moved, Report, Goto, UI, KeepCounter
  <2>6. TmpCovers'
    BY <1>10 DEF TmpCovers, CounterCovers, ReadCovers, Publish, Moved, Report, Goto, UI, KeepCounter
  <2> QED
    BY <2>1, <2>2, <2>3, <2>4, <2>5, <2>6
<1>11. ASSUME NEW c \in Checks, Verify(c) PROVE LoopInv'
  <2>1. CounterCovers'
    BY <1>11 DEF CounterCovers, Verify, Report, Goto, UI, KeepCounter, Decrypts
  <2>2. ClearReport'
    BY <1>11 DEF ClearReport, Verify, Report, Goto, UI, KeepCounter, Decrypts
  <2>3. ReadCovers'
    BY <1>11 DEF CounterCovers, ReadCovers, Verify, Report, Goto, UI, KeepCounter, Decrypts
  <2>4. StagedHasRoom'
    BY <1>11 DEF StagedHasRoom, Verify, Report, Goto, UI, KeepCounter, Decrypts
  <2>5. OpenIsWritable'
    BY <1>11 DEF OpenIsWritable, Verify, Report, Goto, UI, KeepCounter, Decrypts
  <2>6. TmpCovers'
    BY <1>11 DEF TmpCovers, CounterCovers, ReadCovers, Verify, Report, Goto, UI, KeepCounter, Decrypts
  <2> QED
    BY <2>1, <2>2, <2>3, <2>4, <2>5, <2>6
<1>12. ASSUME NEW c \in Checks, Promote(c) PROVE LoopInv'
  <2>1. CounterCovers'
    BY <1>12 DEF CounterCovers, Promote, Report, Goto, UI, KeepCounter
  <2>2. ClearReport'
    BY <1>12 DEF ClearReport, Promote, Report, Goto, UI, KeepCounter
  <2>3. ReadCovers'
    BY <1>12 DEF CounterCovers, ReadCovers, Promote, Report, Goto, UI, KeepCounter
  <2>4. StagedHasRoom'
    BY <1>12 DEF StagedHasRoom, Promote, Report, Goto, UI, KeepCounter
  <2>5. OpenIsWritable'
    BY <1>12 DEF OpenIsWritable, Promote, Report, Goto, UI, KeepCounter
  <2>6. TmpCovers'
    BY <1>12 DEF TmpCovers, CounterCovers, ReadCovers, Promote, Report, Goto, UI, KeepCounter
  <2> QED
    BY <2>1, <2>2, <2>3, <2>4, <2>5, <2>6
<1>13. ASSUME NEW c \in Checks, Fallback(c) PROVE LoopInv'
  <2>1. CounterCovers'
    BY <1>13 DEF CounterCovers, Fallback, Report, Goto, UI, KeepCounter, Decrypts
  <2>2. ClearReport'
    BY <1>13 DEF ClearReport, Fallback, Report, Goto, UI, KeepCounter, Decrypts
  <2>3. ReadCovers'
    BY <1>13 DEF CounterCovers, ReadCovers, Fallback, Report, Goto, UI, KeepCounter, Decrypts
  <2>4. StagedHasRoom'
    BY <1>13 DEF StagedHasRoom, Fallback, Report, Goto, UI, KeepCounter, Decrypts
  <2>5. OpenIsWritable'
    BY <1>13 DEF OpenIsWritable, Fallback, Report, Goto, UI, KeepCounter, Decrypts
  <2>6. TmpCovers'
    BY <1>13 DEF TmpCovers, CounterCovers, ReadCovers, Fallback, Report, Goto, UI, KeepCounter, Decrypts
  <2> QED
    BY <2>1, <2>2, <2>3, <2>4, <2>5, <2>6
<1>14. ASSUME NEW c \in Checks, Revert(c) PROVE LoopInv'
  <2>1. CounterCovers'
    BY <1>14 DEF CounterCovers, Revert, Removed, Report, Goto, UI, KeepCounter
  <2>2. ClearReport'
    BY <1>14 DEF ClearReport, Revert, Removed, Report, Goto, UI, KeepCounter
  <2>3. ReadCovers'
    BY <1>14 DEF CounterCovers, ReadCovers, Revert, Removed, Report, Goto, UI, KeepCounter
  <2>4. StagedHasRoom'
    BY <1>14 DEF StagedHasRoom, Revert, Removed, Report, Goto, UI, KeepCounter
  <2>5. OpenIsWritable'
    BY <1>14 DEF OpenIsWritable, Revert, Removed, Report, Goto, UI, KeepCounter
  <2>6. TmpCovers'
    BY <1>14 DEF TmpCovers, CounterCovers, ReadCovers, Revert, Removed, Report, Goto, UI, KeepCounter
  <2> QED
    BY <2>1, <2>2, <2>3, <2>4, <2>5, <2>6
<1>15. ASSUME NEW c \in Checks, HandleUnlock(c) PROVE LoopInv'
  <2>1. CounterCovers'
    BY <1>15 DEF CounterCovers, HandleUnlock, Taken, KeepCounter, InPinEntry
  <2>2. ClearReport'
    BY <1>15 DEF ClearReport, HandleUnlock, Taken, KeepCounter, InPinEntry
  <2>3. ReadCovers'
    BY <1>15 DEF CounterCovers, ReadCovers, HandleUnlock, Taken, KeepCounter, InPinEntry
  <2>4. StagedHasRoom'
    BY <1>15 DEF StagedHasRoom, HandleUnlock, Taken, KeepCounter, InPinEntry
  <2>5. OpenIsWritable'
    BY <1>15 DEF OpenIsWritable, HandleUnlock, Taken, KeepCounter, InPinEntry
  <2>6. TmpCovers'
    BY <1>15 DEF TmpCovers, CounterCovers, ReadCovers, HandleUnlock, Taken, KeepCounter, InPinEntry
  <2> QED
    BY <2>1, <2>2, <2>3, <2>4, <2>5, <2>6
<1>16. ASSUME NEW c \in Checks, HandlePromoted(c) PROVE LoopInv'
  <2>1. CounterCovers'
    BY <1>16 DEF CounterCovers, HandlePromoted, Taken, KeepCounter, InPinEntry, Demote
  <2>2. ClearReport'
    BY <1>16 DEF ClearReport, HandlePromoted, Taken, KeepCounter, InPinEntry, Demote
  <2>3. ReadCovers'
    BY <1>16 DEF CounterCovers, ReadCovers, HandlePromoted, Taken, KeepCounter, InPinEntry, Demote
  <2>4. StagedHasRoom'
    BY <1>16 DEF StagedHasRoom, HandlePromoted, Taken, KeepCounter, InPinEntry, Demote
  <2>5. OpenIsWritable'
    BY <1>16 DEF OpenIsWritable, HandlePromoted, Taken, KeepCounter, InPinEntry, Demote
  <2>6. TmpCovers'
    BY <1>16 DEF TmpCovers, CounterCovers, ReadCovers, HandlePromoted, Taken, KeepCounter, InPinEntry, Demote
  <2> QED
    BY <2>1, <2>2, <2>3, <2>4, <2>5, <2>6
<1>17. ASSUME NEW c \in Checks, HandleStaged(c) PROVE LoopInv'
  <2>1. CounterCovers'
    BY <1>17 DEF CounterCovers, StagedHasRoom, HandleStaged, Taken, KeepCounter, InPinEntry, Demote
  <2>2. ClearReport'
    BY <1>17 DEF ClearReport, HandleStaged, Taken, KeepCounter, InPinEntry, Demote
  <2>3. ReadCovers'
    BY <1>17 DEF CounterCovers, ReadCovers, HandleStaged, Taken, KeepCounter, InPinEntry, Demote
  <2>4. StagedHasRoom'
    BY <1>17 DEF StagedHasRoom, HandleStaged, Taken, KeepCounter, InPinEntry, Demote
  <2>5. OpenIsWritable'
    BY <1>17 DEF OpenIsWritable, HandleStaged, Taken, KeepCounter, InPinEntry, Demote
  <2>6. TmpCovers'
    BY <1>17 DEF TmpCovers, CounterCovers, ReadCovers, HandleStaged, Taken, KeepCounter, InPinEntry, Demote
  <2> QED
    BY <2>1, <2>2, <2>3, <2>4, <2>5, <2>6
<1>18. ASSUME NEW c \in Checks, HandleNotice(c) PROVE LoopInv'
  <2>1. CounterCovers'
    BY <1>18 DEF CounterCovers, HandleNotice, Taken, KeepCounter, InPinEntry
  <2>2. ClearReport'
    BY <1>18 DEF ClearReport, HandleNotice, Taken, KeepCounter, InPinEntry
  <2>3. ReadCovers'
    BY <1>18 DEF CounterCovers, ReadCovers, HandleNotice, Taken, KeepCounter, InPinEntry
  <2>4. StagedHasRoom'
    BY <1>18 DEF StagedHasRoom, HandleNotice, Taken, KeepCounter, InPinEntry
  <2>5. OpenIsWritable'
    BY <1>18 DEF OpenIsWritable, HandleNotice, Taken, KeepCounter, InPinEntry
  <2>6. TmpCovers'
    BY <1>18 DEF TmpCovers, CounterCovers, ReadCovers, HandleNotice, Taken, KeepCounter, InPinEntry
  <2> QED
    BY <2>1, <2>2, <2>3, <2>4, <2>5, <2>6
<1>19. ASSUME NEW c \in Checks, HandleFailed(c) PROVE LoopInv'
  <2>1. CounterCovers'
    BY <1>19 DEF CounterCovers, HandleFailed, Taken, KeepCounter, InPinEntry
  <2>2. ClearReport'
    BY <1>19 DEF ClearReport, HandleFailed, Taken, KeepCounter, InPinEntry
  <2>3. ReadCovers'
    BY <1>19 DEF CounterCovers, ReadCovers, HandleFailed, Taken, KeepCounter, InPinEntry
  <2>4. StagedHasRoom'
    BY <1>19 DEF StagedHasRoom, HandleFailed, Taken, KeepCounter, InPinEntry
  <2>5. OpenIsWritable'
    BY <1>19 DEF OpenIsWritable, HandleFailed, Taken, KeepCounter, InPinEntry
  <2>6. TmpCovers'
    BY <1>19 DEF TmpCovers, CounterCovers, ReadCovers, HandleFailed, Taken, KeepCounter, InPinEntry
  <2> QED
    BY <2>1, <2>2, <2>3, <2>4, <2>5, <2>6
<1>20. ASSUME NEW c \in Checks, HandleLate(c) PROVE LoopInv'
  <2>1. CounterCovers'
    BY <1>20 DEF CounterCovers, HandleLate, Taken, KeepCounter
  <2>2. ClearReport'
    BY <1>20 DEF ClearReport, HandleLate, Taken, KeepCounter
  <2>3. ReadCovers'
    BY <1>20 DEF CounterCovers, ReadCovers, HandleLate, Taken, KeepCounter
  <2>4. StagedHasRoom'
    BY <1>20 DEF StagedHasRoom, HandleLate, Taken, KeepCounter
  <2>5. OpenIsWritable'
    BY <1>20 DEF OpenIsWritable, HandleLate, Taken, KeepCounter
  <2>6. TmpCovers'
    BY <1>20 DEF TmpCovers, CounterCovers, ReadCovers, HandleLate, Taken, KeepCounter
  <2> QED
    BY <2>1, <2>2, <2>3, <2>4, <2>5, <2>6
<1>21. ASSUME NEW c \in Checks, NEW r \in BOOLEAN, Enter(c, r) PROVE LoopInv'
  <2>1. CounterCovers'
    BY <1>21 DEF CounterCovers, Enter, Goto, KeepCounter
  <2>2. ClearReport'
    BY <1>21 DEF ClearReport, Enter, Goto, KeepCounter
  <2>3. ReadCovers'
    BY <1>21 DEF CounterCovers, ReadCovers, Enter, Goto, KeepCounter
  <2>4. StagedHasRoom'
    BY <1>21 DEF StagedHasRoom, Enter, Goto, KeepCounter
  <2>5. OpenIsWritable'
    BY <1>21 DEF OpenIsWritable, Enter, Goto, KeepCounter
  <2>6. TmpCovers'
    BY <1>21 DEF TmpCovers, CounterCovers, ReadCovers, Enter, Goto, KeepCounter
  <2> QED
    BY <2>1, <2>2, <2>3, <2>4, <2>5, <2>6
<1>22. CASE AcknowledgeMigrationNotice
  <2>1. CounterCovers'
    BY <1>22 DEF CounterCovers, AcknowledgeMigrationNotice, Demote, checkVars, KeepCounter
  <2>2. ClearReport'
    BY <1>22 DEF ClearReport, AcknowledgeMigrationNotice, Demote, checkVars, KeepCounter
  <2>3. ReadCovers'
    BY <1>22 DEF CounterCovers, ReadCovers, AcknowledgeMigrationNotice, Demote, checkVars, KeepCounter
  <2>4. StagedHasRoom'
    BY <1>22 DEF StagedHasRoom, AcknowledgeMigrationNotice, Demote, checkVars, KeepCounter
  <2>5. OpenIsWritable'
    BY <1>22 DEF OpenIsWritable, AcknowledgeMigrationNotice, Demote, checkVars, KeepCounter
  <2>6. TmpCovers'
    BY <1>22 DEF TmpCovers, CounterCovers, ReadCovers, AcknowledgeMigrationNotice, Demote, checkVars, KeepCounter
  <2> QED
    BY <2>1, <2>2, <2>3, <2>4, <2>5, <2>6
<1>23. CASE Checkpoint
  <2>1. CounterCovers'
    BY <1>23 DEF CounterCovers, Checkpoint, checkVars, KeepCounter
  <2>2. ClearReport'
    BY <1>23 DEF ClearReport, Checkpoint, checkVars, KeepCounter
  <2>3. ReadCovers'
    BY <1>23 DEF CounterCovers, ReadCovers, Checkpoint, checkVars, KeepCounter
  <2>4. StagedHasRoom'
    BY <1>23 DEF StagedHasRoom, Checkpoint, checkVars, KeepCounter
  <2>5. OpenIsWritable'
    BY <1>23 DEF OpenIsWritable, Checkpoint, checkVars, KeepCounter
  <2>6. TmpCovers'
    BY <1>23 DEF TmpCovers, CounterCovers, ReadCovers, Checkpoint, checkVars, KeepCounter
  <2> QED
    BY <2>1, <2>2, <2>3, <2>4, <2>5, <2>6
<1>24. CASE Restart \/ PowerCut
  <2>1. /\ cache'.v1 = disk.v1 /\ cache'.tries = disk.tries /\ disk' = cache'
        /\ pc' = [c \in Checks |-> "idle"] /\ fd' = [c \in Checks |-> "closed"]
        /\ UNCHANGED <<reboots, emptied>>
    BY <1>24, ReloadKeys DEF Restart, PowerCut, Boot
  <2> QED
    BY <2>1 DEF CounterCovers, ClearReport, ReadCovers, StagedHasRoom, OpenIsWritable,
                TmpCovers
<1>25. CASE UNCHANGED vars
  <2>1. CounterCovers'
    BY <1>25 DEF CounterCovers, vars, checkVars
  <2>2. ClearReport'
    BY <1>25 DEF ClearReport, vars, checkVars
  <2>3. ReadCovers'
    BY <1>25 DEF CounterCovers, ReadCovers, vars, checkVars
  <2>4. StagedHasRoom'
    BY <1>25 DEF StagedHasRoom, vars, checkVars
  <2>5. OpenIsWritable'
    BY <1>25 DEF OpenIsWritable, vars, checkVars
  <2>6. TmpCovers'
    BY <1>25 DEF TmpCovers, CounterCovers, ReadCovers, vars, checkVars
  <2> QED
    BY <2>1, <2>2, <2>3, <2>4, <2>5, <2>6
<1> QED
  BY <1>1, <1>2, <1>3, <1>4, <1>5, <1>6, <1>7, <1>8, <1>9, <1>10, <1>11, <1>12, <1>13, <1>14, <1>15, <1>16, <1>17, <1>18, <1>19, <1>20, <1>21, <1>22, <1>23, <1>24, <1>25
  DEF Next, Check, HandleResult

(* The reboot-loop guard holds over any number of power cycles and of       *)
(* overlapping checks that lose each other's updates of the counter, until  *)
(* one of them puts a counter in place that another has truncated: the      *)
(* remount puts it on flash before each restart (SyncDisk,                  *)
(* RemountKeysReadonly of dispatch_pin_verified).                           *)
THEOREM RebootsStayBounded == Spec => []RebootsBounded
<1>1. TypeInv /\ LoopInv => RebootsBounded
  BY DEF LoopInv, CounterCovers, RebootsBounded
<1> QED
  BY <1>1, TypeInit, TypeStep, LoopInit, LoopStep, PTL DEF Spec

-----------------------------------------------------------------------------
Invariant == Solo /\ Backed /\ RotIsFresh /\ CacheSurvives /\ KeysSurvive

LEMMA InvariantInit == Init => Invariant
  BY BlobAssumption, LimitAssumption
  DEF Init, Idle, Invariant, Solo, Backed, RotIsFresh, CacheSurvives, KeysSurvive

LEMMA InvariantStep ==
    TypeInv /\ TypeInv' /\ Invariant /\ [Next]_vars /\ ~ overlapped' => Invariant'
<1> SUFFICES ASSUME TypeInv, TypeInv', Invariant, [Next]_vars, ~ overlapped'
             PROVE  Invariant'
  OBVIOUS
<1> USE BlobAssumption, LimitAssumption
<1> USE DEF TypeInv, TypeOK, Keys, OldFile, NewFile
<1>1. ASSUME NEW c \in Checks, Look(c) PROVE Invariant'
  <2>1. Solo'
    BY <1>1 DEF Invariant, Solo, Look, Report, Goto, UI, KeepCounter
  <2>2. Backed'
    BY <1>1 DEF Invariant, Solo, Backed, RotIsFresh, CacheSurvives, Look, Report, Goto, UI, KeepCounter
  <2>3. RotIsFresh'
    BY <1>1 DEF Invariant, Solo, Backed, RotIsFresh, Look, Report, Goto, UI, KeepCounter
  <2>4. CacheSurvives'
    BY <1>1 DEF Invariant, Solo, Backed, RotIsFresh, CacheSurvives, Look, Report, Goto, UI, KeepCounter
  <2>5. KeysSurvive'
    BY <1>1 DEF Invariant, CacheSurvives, KeysSurvive, Look, Report, Goto, UI, KeepCounter
  <2> QED
    BY <2>1, <2>2, <2>3, <2>4, <2>5 DEF Invariant
<1>2. ASSUME NEW c \in Checks, Steady(c) PROVE Invariant'
  <2>1. Solo'
    BY <1>2 DEF Invariant, Solo, Steady, Report, Goto, UI, KeepCounter, Decrypts
  <2>2. Backed'
    BY <1>2 DEF Invariant, Solo, Backed, RotIsFresh, CacheSurvives, Steady, Report, Goto, UI, KeepCounter, Decrypts
  <2>3. RotIsFresh'
    BY <1>2 DEF Invariant, Solo, Backed, RotIsFresh, Steady, Report, Goto, UI, KeepCounter, Decrypts
  <2>4. CacheSurvives'
    BY <1>2 DEF Invariant, Solo, Backed, RotIsFresh, CacheSurvives, Steady, Report, Goto, UI, KeepCounter, Decrypts
  <2>5. KeysSurvive'
    BY <1>2 DEF Invariant, CacheSurvives, KeysSurvive, Steady, Report, Goto, UI, KeepCounter, Decrypts
  <2> QED
    BY <2>1, <2>2, <2>3, <2>4, <2>5 DEF Invariant
<1>3. ASSUME NEW c \in Checks, Clear(c) PROVE Invariant'
  <2>1. Solo'
    BY <1>3 DEF Invariant, Solo, Clear, Removed, Goto, UI, KeepCounter
  <2>2. Backed'
    BY <1>3 DEF Invariant, Solo, Backed, RotIsFresh, CacheSurvives, Clear, Removed, Goto, UI, KeepCounter
  <2>3. RotIsFresh'
    BY <1>3 DEF Invariant, Solo, Backed, RotIsFresh, Clear, Removed, Goto, UI, KeepCounter
  <2>4. CacheSurvives'
    BY <1>3 DEF Invariant, Solo, Backed, RotIsFresh, CacheSurvives, Clear, Removed, Goto, UI, KeepCounter
  <2>5. KeysSurvive'
    BY <1>3 DEF Invariant, CacheSurvives, KeysSurvive, Clear, Removed, Goto, UI, KeepCounter
  <2> QED
    BY <2>1, <2>2, <2>3, <2>4, <2>5 DEF Invariant
<1>4. ASSUME NEW c \in Checks, Stage(c) PROVE Invariant'
  <2>1. Solo'
    BY <1>4 DEF Invariant, Solo, Stage, Report, Goto, UI, KeepCounter, Decrypts
  <2>2. Backed'
    BY <1>4 DEF Invariant, Solo, Backed, RotIsFresh, CacheSurvives, Stage, Report, Goto, UI, KeepCounter, Decrypts
  <2>3. RotIsFresh'
    BY <1>4 DEF Invariant, Solo, Backed, RotIsFresh, Stage, Report, Goto, UI, KeepCounter, Decrypts
  <2>4. CacheSurvives'
    BY <1>4 DEF Invariant, Solo, Backed, RotIsFresh, CacheSurvives, Stage, Report, Goto, UI, KeepCounter, Decrypts
  <2>5. KeysSurvive'
    BY <1>4 DEF Invariant, CacheSurvives, KeysSurvive, Stage, Report, Goto, UI, KeepCounter, Decrypts
  <2> QED
    BY <2>1, <2>2, <2>3, <2>4, <2>5 DEF Invariant
<1>5. ASSUME NEW c \in Checks, Create(c) PROVE Invariant'
  <2>1. Solo'
    BY <1>5 DEF Invariant, Solo, Create, Report, Goto, UI, KeepCounter
  <2>2. Backed'
    BY <1>5 DEF Invariant, Solo, Backed, RotIsFresh, CacheSurvives, Create, Report, Goto, UI, KeepCounter
  <2>3. RotIsFresh'
    BY <1>5 DEF Invariant, Solo, Backed, RotIsFresh, Create, Report, Goto, UI, KeepCounter
  <2>4. CacheSurvives'
    BY <1>5 DEF Invariant, Solo, Backed, RotIsFresh, CacheSurvives, Create, Report, Goto, UI, KeepCounter
  <2>5. KeysSurvive'
    BY <1>5 DEF Invariant, CacheSurvives, KeysSurvive, Create, Report, Goto, UI, KeepCounter
  <2> QED
    BY <2>1, <2>2, <2>3, <2>4, <2>5 DEF Invariant
<1>6. ASSUME NEW c \in Checks, Write(c) PROVE Invariant'
  <2>1. Solo'
    BY <1>6 DEF Invariant, Solo, Write, Report, Goto, UI, KeepCounter
  <2>2. Backed'
    BY <1>6 DEF Invariant, Solo, Backed, RotIsFresh, CacheSurvives, Write, Report, Goto, UI, KeepCounter
  <2>3. RotIsFresh'
    BY <1>6 DEF Invariant, Solo, Backed, RotIsFresh, Write, Report, Goto, UI, KeepCounter
  <2>4. CacheSurvives'
    BY <1>6 DEF Invariant, Solo, Backed, RotIsFresh, CacheSurvives, Write, Report, Goto, UI, KeepCounter
  <2>5. KeysSurvive'
    BY <1>6 DEF Invariant, CacheSurvives, KeysSurvive, Write, Report, Goto, UI, KeepCounter
  <2> QED
    BY <2>1, <2>2, <2>3, <2>4, <2>5 DEF Invariant
<1>7. ASSUME NEW c \in Checks, Rename(c) PROVE Invariant'
  <2>1. Solo'
    BY <1>7 DEF Invariant, Solo, Rename, Moved, Report, Goto, UI, KeepCounter
  <2>2. Backed'
    BY <1>7 DEF Invariant, Solo, Backed, RotIsFresh, CacheSurvives, Rename, Moved, Report, Goto, UI, KeepCounter
  <2>3. RotIsFresh'
    BY <1>7 DEF Invariant, Solo, Backed, RotIsFresh, Rename, Moved, Report, Goto, UI, KeepCounter
  <2>4. CacheSurvives'
    BY <1>7 DEF Invariant, Solo, Backed, RotIsFresh, CacheSurvives, Rename, Moved, Report, Goto, UI, KeepCounter
  <2>5. KeysSurvive'
    BY <1>7 DEF Invariant, CacheSurvives, KeysSurvive, Rename, Moved, Report, Goto, UI, KeepCounter
  <2> QED
    BY <2>1, <2>2, <2>3, <2>4, <2>5 DEF Invariant
<1>8. ASSUME NEW c \in Checks, Count(c) PROVE Invariant'
  <2>1. Solo'
    BY <1>8 DEF Invariant, Solo, Count, Report, Goto, UI, KeepCounter
  <2>2. Backed'
    BY <1>8 DEF Invariant, Solo, Backed, RotIsFresh, CacheSurvives, Count, Report, Goto, UI, KeepCounter
  <2>3. RotIsFresh'
    BY <1>8 DEF Invariant, Solo, Backed, RotIsFresh, Count, Report, Goto, UI, KeepCounter
  <2>4. CacheSurvives'
    BY <1>8 DEF Invariant, Solo, Backed, RotIsFresh, CacheSurvives, Count, Report, Goto, UI, KeepCounter
  <2>5. KeysSurvive'
    BY <1>8 DEF Invariant, CacheSurvives, KeysSurvive, Count, Report, Goto, UI, KeepCounter
  <2> QED
    BY <2>1, <2>2, <2>3, <2>4, <2>5 DEF Invariant
<1>9. ASSUME NEW c \in Checks, Mark(c) PROVE Invariant'
  <2>1. Solo'
    BY <1>9 DEF Invariant, Solo, Mark, Report, Goto, UI, KeepCounter
  <2>2. Backed'
    BY <1>9 DEF Invariant, Solo, Backed, RotIsFresh, CacheSurvives, Mark, Report, Goto, UI, KeepCounter
  <2>3. RotIsFresh'
    BY <1>9 DEF Invariant, Solo, Backed, RotIsFresh, Mark, Report, Goto, UI, KeepCounter
  <2>4. CacheSurvives'
    BY <1>9 DEF Invariant, Solo, Backed, RotIsFresh, CacheSurvives, Mark, Report, Goto, UI, KeepCounter
  <2>5. KeysSurvive'
    BY <1>9 DEF Invariant, CacheSurvives, KeysSurvive, Mark, Report, Goto, UI, KeepCounter
  <2> QED
    BY <2>1, <2>2, <2>3, <2>4, <2>5 DEF Invariant
<1>10. ASSUME NEW c \in Checks, Publish(c) PROVE Invariant'
  <2>1. Solo'
    BY <1>10 DEF Invariant, Solo, Publish, Moved, Report, Goto, UI, KeepCounter
  <2>2. Backed'
    BY <1>10 DEF Invariant, Solo, Backed, RotIsFresh, CacheSurvives, Publish, Moved, Report, Goto, UI, KeepCounter
  <2>3. RotIsFresh'
    BY <1>10 DEF Invariant, Solo, Backed, RotIsFresh, Publish, Moved, Report, Goto, UI, KeepCounter
  <2>4. CacheSurvives'
    BY <1>10 DEF Invariant, Solo, Backed, RotIsFresh, CacheSurvives, Publish, Moved, Report, Goto, UI, KeepCounter
  <2>5. KeysSurvive'
    BY <1>10 DEF Invariant, CacheSurvives, KeysSurvive, Publish, Moved, Report, Goto, UI, KeepCounter
  <2> QED
    BY <2>1, <2>2, <2>3, <2>4, <2>5 DEF Invariant
<1>11. ASSUME NEW c \in Checks, Verify(c) PROVE Invariant'
  <2>1. Solo'
    BY <1>11 DEF Invariant, Solo, Verify, Report, Goto, UI, KeepCounter, Decrypts
  <2>2. Backed'
    BY <1>11 DEF Invariant, Solo, Backed, RotIsFresh, CacheSurvives, Verify, Report, Goto, UI, KeepCounter, Decrypts
  <2>3. RotIsFresh'
    BY <1>11 DEF Invariant, Solo, Backed, RotIsFresh, Verify, Report, Goto, UI, KeepCounter, Decrypts
  <2>4. CacheSurvives'
    BY <1>11 DEF Invariant, Solo, Backed, RotIsFresh, CacheSurvives, Verify, Report, Goto, UI, KeepCounter, Decrypts
  <2>5. KeysSurvive'
    BY <1>11 DEF Invariant, CacheSurvives, KeysSurvive, Verify, Report, Goto, UI, KeepCounter, Decrypts
  <2> QED
    BY <2>1, <2>2, <2>3, <2>4, <2>5 DEF Invariant
<1>12. ASSUME NEW c \in Checks, Promote(c) PROVE Invariant'
  <2>1. Solo'
    BY <1>12 DEF Invariant, Solo, Promote, Report, Goto, UI, KeepCounter
  <2>2. Backed'
    BY <1>12 DEF Invariant, Solo, Backed, RotIsFresh, CacheSurvives, Promote, Report, Goto, UI, KeepCounter
  <2>3. RotIsFresh'
    BY <1>12 DEF Invariant, Solo, Backed, RotIsFresh, Promote, Report, Goto, UI, KeepCounter
  <2>4. CacheSurvives'
    BY <1>12 DEF Invariant, Solo, Backed, RotIsFresh, CacheSurvives, Promote, Report, Goto, UI, KeepCounter
  <2>5. KeysSurvive'
    BY <1>12 DEF Invariant, CacheSurvives, KeysSurvive, Promote, Report, Goto, UI, KeepCounter
  <2> QED
    BY <2>1, <2>2, <2>3, <2>4, <2>5 DEF Invariant
<1>13. ASSUME NEW c \in Checks, Fallback(c) PROVE Invariant'
  <2>1. Solo'
    BY <1>13 DEF Invariant, Solo, Fallback, Report, Goto, UI, KeepCounter, Decrypts
  <2>2. Backed'
    BY <1>13 DEF Invariant, Solo, Backed, RotIsFresh, CacheSurvives, Fallback, Report, Goto, UI, KeepCounter, Decrypts
  <2>3. RotIsFresh'
    BY <1>13 DEF Invariant, Solo, Backed, RotIsFresh, Fallback, Report, Goto, UI, KeepCounter, Decrypts
  <2>4. CacheSurvives'
    BY <1>13 DEF Invariant, Solo, Backed, RotIsFresh, CacheSurvives, Fallback, Report, Goto, UI, KeepCounter, Decrypts
  <2>5. KeysSurvive'
    BY <1>13 DEF Invariant, CacheSurvives, KeysSurvive, Fallback, Report, Goto, UI, KeepCounter, Decrypts
  <2> QED
    BY <2>1, <2>2, <2>3, <2>4, <2>5 DEF Invariant
<1>14. ASSUME NEW c \in Checks, Revert(c) PROVE Invariant'
  <2>1. Solo'
    BY <1>14 DEF Invariant, Solo, Revert, Removed, Report, Goto, UI, KeepCounter
  <2>2. Backed'
    BY <1>14 DEF Invariant, Solo, Backed, RotIsFresh, CacheSurvives, Revert, Removed, Report, Goto, UI, KeepCounter
  <2>3. RotIsFresh'
    BY <1>14 DEF Invariant, Solo, Backed, RotIsFresh, Revert, Removed, Report, Goto, UI, KeepCounter
  <2>4. CacheSurvives'
    BY <1>14 DEF Invariant, Solo, Backed, RotIsFresh, CacheSurvives, Revert, Removed, Report, Goto, UI, KeepCounter
  <2>5. KeysSurvive'
    BY <1>14 DEF Invariant, CacheSurvives, KeysSurvive, Revert, Removed, Report, Goto, UI, KeepCounter
  <2> QED
    BY <2>1, <2>2, <2>3, <2>4, <2>5 DEF Invariant
<1>15. ASSUME NEW c \in Checks, HandleUnlock(c) PROVE Invariant'
  <2>1. Solo'
    BY <1>15 DEF Invariant, Solo, HandleUnlock, Taken, KeepCounter, InPinEntry
  <2>2. Backed'
    BY <1>15 DEF Invariant, Solo, Backed, RotIsFresh, CacheSurvives, HandleUnlock, Taken, KeepCounter, InPinEntry
  <2>3. RotIsFresh'
    BY <1>15 DEF Invariant, Solo, Backed, RotIsFresh, HandleUnlock, Taken, KeepCounter, InPinEntry
  <2>4. CacheSurvives'
    BY <1>15 DEF Invariant, Solo, Backed, RotIsFresh, CacheSurvives, HandleUnlock, Taken, KeepCounter, InPinEntry
  <2>5. KeysSurvive'
    BY <1>15 DEF Invariant, CacheSurvives, KeysSurvive, HandleUnlock, Taken, KeepCounter, InPinEntry
  <2> QED
    BY <2>1, <2>2, <2>3, <2>4, <2>5 DEF Invariant
<1>16. ASSUME NEW c \in Checks, HandlePromoted(c) PROVE Invariant'
  <2>1. Solo'
    BY <1>16 DEF Invariant, Solo, HandlePromoted, Taken, KeepCounter, InPinEntry, Demote
  <2>2. Backed'
    BY <1>16 DEF Invariant, Solo, Backed, RotIsFresh, CacheSurvives, HandlePromoted, Taken, KeepCounter, InPinEntry, Demote
  <2>3. RotIsFresh'
    BY <1>16 DEF Invariant, Solo, Backed, RotIsFresh, HandlePromoted, Taken, KeepCounter, InPinEntry, Demote
  <2>4. CacheSurvives'
    BY <1>16 DEF Invariant, Solo, Backed, RotIsFresh, CacheSurvives, HandlePromoted, Taken, KeepCounter, InPinEntry, Demote
  <2>5. KeysSurvive'
    BY <1>16 DEF Invariant, CacheSurvives, KeysSurvive, HandlePromoted, Taken, KeepCounter, InPinEntry, Demote
  <2> QED
    BY <2>1, <2>2, <2>3, <2>4, <2>5 DEF Invariant
<1>17. ASSUME NEW c \in Checks, HandleStaged(c) PROVE Invariant'
  <2>1. Solo'
    BY <1>17 DEF Invariant, Solo, HandleStaged, Taken, KeepCounter, InPinEntry, Demote
  <2>2. Backed'
    BY <1>17 DEF Invariant, Solo, Backed, RotIsFresh, CacheSurvives, HandleStaged, Taken, KeepCounter, InPinEntry, Demote
  <2>3. RotIsFresh'
    BY <1>17 DEF Invariant, Solo, Backed, RotIsFresh, HandleStaged, Taken, KeepCounter, InPinEntry, Demote
  <2>4. CacheSurvives'
    BY <1>17 DEF Invariant, Solo, Backed, RotIsFresh, CacheSurvives, HandleStaged, Taken, KeepCounter, InPinEntry, Demote
  <2>5. KeysSurvive'
    BY <1>17 DEF Invariant, CacheSurvives, KeysSurvive, HandleStaged, Taken, KeepCounter, InPinEntry, Demote
  <2> QED
    BY <2>1, <2>2, <2>3, <2>4, <2>5 DEF Invariant
<1>18. ASSUME NEW c \in Checks, HandleNotice(c) PROVE Invariant'
  <2>1. Solo'
    BY <1>18 DEF Invariant, Solo, HandleNotice, Taken, KeepCounter, InPinEntry, Notices
  <2>2. Backed'
    BY <1>18 DEF Invariant, Solo, Backed, RotIsFresh, CacheSurvives, HandleNotice, Taken, KeepCounter, InPinEntry, Notices
  <2>3. RotIsFresh'
    BY <1>18 DEF Invariant, Solo, Backed, RotIsFresh, HandleNotice, Taken, KeepCounter, InPinEntry, Notices
  <2>4. CacheSurvives'
    BY <1>18 DEF Invariant, Solo, Backed, RotIsFresh, CacheSurvives, HandleNotice, Taken, KeepCounter, InPinEntry, Notices
  <2>5. KeysSurvive'
    BY <1>18 DEF Invariant, CacheSurvives, KeysSurvive, HandleNotice, Taken, KeepCounter, InPinEntry, Notices
  <2> QED
    BY <2>1, <2>2, <2>3, <2>4, <2>5 DEF Invariant
<1>19. ASSUME NEW c \in Checks, HandleFailed(c) PROVE Invariant'
  <2>1. Solo'
    BY <1>19 DEF Invariant, Solo, HandleFailed, Taken, KeepCounter, InPinEntry, Failures
  <2>2. Backed'
    BY <1>19 DEF Invariant, Solo, Backed, RotIsFresh, CacheSurvives, HandleFailed, Taken, KeepCounter, InPinEntry, Failures
  <2>3. RotIsFresh'
    BY <1>19 DEF Invariant, Solo, Backed, RotIsFresh, HandleFailed, Taken, KeepCounter, InPinEntry, Failures
  <2>4. CacheSurvives'
    BY <1>19 DEF Invariant, Solo, Backed, RotIsFresh, CacheSurvives, HandleFailed, Taken, KeepCounter, InPinEntry, Failures
  <2>5. KeysSurvive'
    BY <1>19 DEF Invariant, CacheSurvives, KeysSurvive, HandleFailed, Taken, KeepCounter, InPinEntry, Failures
  <2> QED
    BY <2>1, <2>2, <2>3, <2>4, <2>5 DEF Invariant
<1>20. ASSUME NEW c \in Checks, HandleLate(c) PROVE Invariant'
  <2>1. Solo'
    BY <1>20 DEF Invariant, Solo, HandleLate, Taken, KeepCounter
  <2>2. Backed'
    BY <1>20 DEF Invariant, Solo, Backed, RotIsFresh, CacheSurvives, HandleLate, Taken, KeepCounter
  <2>3. RotIsFresh'
    BY <1>20 DEF Invariant, Solo, Backed, RotIsFresh, HandleLate, Taken, KeepCounter
  <2>4. CacheSurvives'
    BY <1>20 DEF Invariant, Solo, Backed, RotIsFresh, CacheSurvives, HandleLate, Taken, KeepCounter
  <2>5. KeysSurvive'
    BY <1>20 DEF Invariant, CacheSurvives, KeysSurvive, HandleLate, Taken, KeepCounter
  <2> QED
    BY <2>1, <2>2, <2>3, <2>4, <2>5 DEF Invariant
<1>21. ASSUME NEW c \in Checks, NEW r \in BOOLEAN, Enter(c, r) PROVE Invariant'
  <2>1. Solo'
    BY <1>21 DEF Invariant, Solo, Enter, Goto, KeepCounter
  <2>2. Backed'
    BY <1>21 DEF Invariant, Solo, Backed, RotIsFresh, CacheSurvives, Enter, Goto, KeepCounter
  <2>3. RotIsFresh'
    BY <1>21 DEF Invariant, Solo, Backed, RotIsFresh, Enter, Goto, KeepCounter
  <2>4. CacheSurvives'
    BY <1>21 DEF Invariant, Solo, Backed, RotIsFresh, CacheSurvives, Enter, Goto, KeepCounter
  <2>5. KeysSurvive'
    BY <1>21 DEF Invariant, CacheSurvives, KeysSurvive, Enter, Goto, KeepCounter
  <2> QED
    BY <2>1, <2>2, <2>3, <2>4, <2>5 DEF Invariant
<1>22. CASE AcknowledgeMigrationNotice
  <2>1. Solo'
    BY <1>22 DEF Invariant, Solo, AcknowledgeMigrationNotice, Demote, checkVars, KeepCounter
  <2>2. Backed'
    BY <1>22 DEF Invariant, Solo, Backed, RotIsFresh, CacheSurvives, AcknowledgeMigrationNotice, Demote, checkVars, KeepCounter
  <2>3. RotIsFresh'
    BY <1>22 DEF Invariant, Solo, Backed, RotIsFresh, AcknowledgeMigrationNotice, Demote, checkVars, KeepCounter
  <2>4. CacheSurvives'
    BY <1>22 DEF Invariant, Solo, Backed, RotIsFresh, CacheSurvives, AcknowledgeMigrationNotice, Demote, checkVars, KeepCounter
  <2>5. KeysSurvive'
    BY <1>22 DEF Invariant, CacheSurvives, KeysSurvive, AcknowledgeMigrationNotice, Demote, checkVars, KeepCounter
  <2> QED
    BY <2>1, <2>2, <2>3, <2>4, <2>5 DEF Invariant
<1>23. CASE Checkpoint
  <2>1. Solo'
    BY <1>23 DEF Invariant, Solo, Checkpoint, checkVars, KeepCounter
  <2>2. Backed'
    BY <1>23 DEF Invariant, Solo, Backed, RotIsFresh, CacheSurvives, Checkpoint, checkVars, KeepCounter
  <2>3. RotIsFresh'
    BY <1>23 DEF Invariant, Solo, Backed, RotIsFresh, Checkpoint, checkVars, KeepCounter
  <2>4. CacheSurvives'
    BY <1>23 DEF Invariant, Solo, Backed, RotIsFresh, CacheSurvives, Checkpoint, checkVars, KeepCounter
  <2>5. KeysSurvive'
    BY <1>23 DEF Invariant, CacheSurvives, KeysSurvive, Checkpoint, checkVars, KeepCounter
  <2> QED
    BY <2>1, <2>2, <2>3, <2>4, <2>5 DEF Invariant
<1>24. CASE Restart \/ PowerCut
  <2>1. /\ cache'.v1 = disk.v1 /\ cache'.tries = disk.tries /\ disk' = cache'
        /\ cache'.v2 = IF disk.v2 = "rot" THEN "bad" ELSE disk.v2
        /\ pc' = [c \in Checks |-> "idle"] /\ fd' = [c \in Checks |-> "closed"]
        /\ UNCHANGED reboots
    BY <1>24, ReloadKeys DEF Restart, PowerCut, Boot
  <2> QED
    BY <2>1 DEF Invariant, Solo, Backed, RotIsFresh, CacheSurvives, KeysSurvive
<1>25. CASE UNCHANGED vars
  <2>1. Solo'
    BY <1>25 DEF Invariant, Solo, vars, checkVars
  <2>2. Backed'
    BY <1>25 DEF Invariant, Solo, Backed, RotIsFresh, CacheSurvives, vars, checkVars
  <2>3. RotIsFresh'
    BY <1>25 DEF Invariant, Solo, Backed, RotIsFresh, vars, checkVars
  <2>4. CacheSurvives'
    BY <1>25 DEF Invariant, Solo, Backed, RotIsFresh, CacheSurvives, vars, checkVars
  <2>5. KeysSurvive'
    BY <1>25 DEF Invariant, CacheSurvives, KeysSurvive, vars, checkVars
  <2> QED
    BY <2>1, <2>2, <2>3, <2>4, <2>5 DEF Invariant
<1> QED
  BY <1>1, <1>2, <1>3, <1>4, <1>5, <1>6, <1>7, <1>8, <1>9, <1>10, <1>11, <1>12, <1>13, <1>14, <1>15, <1>16, <1>17, <1>18, <1>19, <1>20, <1>21, <1>22, <1>23, <1>24, <1>25
  DEF Next, Check, HandleResult

(* A right PIN fails on no blob: v1 it opens, and where v1 is gone, v2.     *)
LEMMA RightPinStep ==
    TypeInv /\ TypeInv' /\ LoopInv /\ Invariant /\ RightPin /\ [Next]_vars /\ ~ overlapped'
        => RightPin'
<1> SUFFICES ASSUME TypeInv, TypeInv', LoopInv, Invariant, RightPin, [Next]_vars, ~ overlapped'
             PROVE  RightPin'
  OBVIOUS
<1> USE BlobAssumption, LimitAssumption
<1> USE DEF TypeInv, TypeOK, Keys, OldFile, NewFile, Invariant, Solo, RightPin, Failures,
            Outcomes, Notices
<1>1. ASSUME NEW c \in Checks, Look(c) PROVE RightPin'
  BY <1>1 DEF Look, CacheSurvives, Report, Goto, UI, KeepCounter
<1>2. ASSUME NEW c \in Checks, Steady(c) PROVE RightPin'
  BY <1>2 DEF Steady, Report, Goto, UI, KeepCounter, Decrypts, CacheSurvives
<1>3. ASSUME NEW c \in Checks, Clear(c) PROVE RightPin'
  BY <1>3 DEF Clear, Removed, Goto, UI, KeepCounter, LoopInv, ClearReport
<1>4. ASSUME NEW c \in Checks, Stage(c) PROVE RightPin'
  BY <1>4 DEF Stage, Report, Goto, UI, KeepCounter, Decrypts
<1>5. ASSUME NEW c \in Checks, Create(c) PROVE RightPin'
  BY <1>5 DEF Create, Report, Goto, UI, KeepCounter
<1>6. ASSUME NEW c \in Checks, Write(c) PROVE RightPin'
  BY <1>6 DEF Write, Report, Goto, UI, KeepCounter
<1>7. ASSUME NEW c \in Checks, Rename(c) PROVE RightPin'
  BY <1>7 DEF Rename, Moved, Report, Goto, UI, KeepCounter
<1>8. ASSUME NEW c \in Checks, Count(c) PROVE RightPin'
  BY <1>8 DEF Count, Report, Goto, UI, KeepCounter
<1>9. ASSUME NEW c \in Checks, Mark(c) PROVE RightPin'
  BY <1>9 DEF Mark, Report, Goto, UI, KeepCounter
<1>10. ASSUME NEW c \in Checks, Publish(c) PROVE RightPin'
  BY <1>10 DEF Publish, Moved, Report, Goto, UI, KeepCounter
<1>11. ASSUME NEW c \in Checks, Verify(c) PROVE RightPin'
  BY <1>11 DEF Verify, Report, Goto, UI, KeepCounter, Decrypts
<1>12. ASSUME NEW c \in Checks, Promote(c) PROVE RightPin'
  BY <1>12 DEF Promote, Backed, Report, Goto, UI, KeepCounter
<1>13. ASSUME NEW c \in Checks, Fallback(c) PROVE RightPin'
  BY <1>13 DEF Fallback, Report, Goto, UI, KeepCounter, Decrypts
<1>14. ASSUME NEW c \in Checks, Revert(c) PROVE RightPin'
  BY <1>14 DEF Revert, Removed, Report, Goto, UI, KeepCounter
<1>15. ASSUME NEW c \in Checks, HandleUnlock(c) PROVE RightPin'
  BY <1>15 DEF HandleUnlock, Taken, KeepCounter
<1>16. ASSUME NEW c \in Checks, HandlePromoted(c) PROVE RightPin'
  BY <1>16 DEF HandlePromoted, Taken, KeepCounter
<1>17. ASSUME NEW c \in Checks, HandleStaged(c) PROVE RightPin'
  BY <1>17 DEF HandleStaged, Taken, KeepCounter
<1>18. ASSUME NEW c \in Checks, HandleNotice(c) PROVE RightPin'
  BY <1>18 DEF HandleNotice, Taken, KeepCounter
<1>19. ASSUME NEW c \in Checks, HandleFailed(c) PROVE RightPin'
  BY <1>19 DEF HandleFailed, Taken, KeepCounter
<1>20. ASSUME NEW c \in Checks, HandleLate(c) PROVE RightPin'
  BY <1>20 DEF HandleLate, Taken, KeepCounter
<1>21. ASSUME NEW c \in Checks, NEW r \in BOOLEAN, Enter(c, r) PROVE RightPin'
  BY <1>21 DEF Enter, Goto, KeepCounter
<1>22. CASE AcknowledgeMigrationNotice \/ Checkpoint
  BY <1>22 DEF AcknowledgeMigrationNotice, Checkpoint, checkVars, KeepCounter
<1>23. CASE Restart \/ PowerCut
  BY <1>23 DEF Restart, PowerCut, Boot
<1>24. CASE UNCHANGED vars
  BY <1>24 DEF vars, checkVars
<1> QED
  BY <1>1, <1>2, <1>3, <1>4, <1>5, <1>6, <1>7, <1>8, <1>9, <1>10, <1>11, <1>12, <1>13, <1>14, <1>15, <1>16, <1>17, <1>18, <1>19, <1>20, <1>21, <1>22, <1>23, <1>24
  DEF Next, Check, HandleResult

(* No step forgets that checks overlapped. *)
LEMMA OverlapStays == overlapped /\ [Next]_vars => overlapped'
<1> SUFFICES ASSUME overlapped, [Next]_vars PROVE overlapped'
  OBVIOUS
<1>1. ASSUME NEW c \in Checks, Check(c) PROVE overlapped'
  BY <1>1 DEF Check, Look, Steady, Clear, Stage, Create, Write, Rename, Count, Mark,
              Publish, Verify, Promote, Fallback, Revert, UI
<1>2. ASSUME NEW c \in Checks, HandleResult(c) PROVE overlapped'
  BY <1>2 DEF HandleResult, HandleUnlock, HandlePromoted, HandleStaged, HandleNotice,
              HandleFailed, HandleLate, Taken, KeepCounter
<1>3. ASSUME NEW c \in Checks, NEW r \in BOOLEAN, Enter(c, r) PROVE overlapped'
  BY <1>3 DEF Enter
<1>4. CASE AcknowledgeMigrationNotice \/ Checkpoint \/ Restart \/ PowerCut
  BY <1>4 DEF AcknowledgeMigrationNotice, Checkpoint, Restart, PowerCut, Boot
<1>5. CASE UNCHANGED vars
  BY <1>5 DEF vars
<1> QED
  BY <1>1, <1>2, <1>3, <1>4, <1>5 DEF Next

SafeInv == TypeInv /\ LoopInv /\ (~ overlapped => Invariant /\ RightPin)

LEMMA SafeInvHolds == Spec => []SafeInv
<1>1. Init => SafeInv
  BY TypeInit, LoopInit, InvariantInit DEF SafeInv, RightPin, Init, Idle
<1>2. SafeInv /\ [Next]_vars => SafeInv'
  BY TypeStep, LoopStep, InvariantStep, RightPinStep, OverlapStays DEF SafeInv
<1> QED
  BY <1>1, <1>2, PTL DEF Spec

(* Until two checks overlap, the keys survive any loss of power, any blob   *)
(* the producer writes and any blob the card corrupts: v1 is unlinked only  *)
(* after a v2 blob was read back from flash (verify_v2_or_revert).          *)
THEOREM KeysAlwaysSurvive == Spec => []KeysSurviveUnlessOverlapped
<1>1. SafeInv => KeysSurviveUnlessOverlapped
  BY DEF SafeInv, Invariant, KeysSurviveUnlessOverlapped
<1> QED
  BY <1>1, SafeInvHolds, PTL

(* Until two checks overlap, the right PIN counts as a failed attempt only  *)
(* where the v1 path holds a v2 blob or a promotion could not unlink v1,    *)
(* whatever was staged, reverted, lost or damaged (migrate_and_decrypt).    *)
THEOREM RightPinOpens == Spec => []RightPinAccepted
<1>1. SafeInv => RightPinAccepted
  BY DEF SafeInv, RightPin, RightPinAccepted
<1> QED
  BY <1>1, SafeInvHolds, PTL

-----------------------------------------------------------------------------
(* Boot: types, Confined and KeysNeverReplaced, for every number of power   *)
(* losses and of commands that fail.                                        *)

(* What is written only with a sync is the same in the cache and on the     *)
(* flash.                                                                   *)
SyncedFields == card.keys = flash.keys /\ card.table = flash.table

(* Keys are on a partition, and what the kernel knows or has mounted is on  *)
(* one too.                                                                 *)
TableInv ==
    /\ ~ card.table => card.keys = 0
    /\ nodes # {} => card.table
    /\ keysMount # "none" => card.table
    /\ bootPc \in {"gate", "pinset", "pubkeys", "consume", "delete", "unmount",
               "marker", "sync", "readonly", "pin"} => keysMount # "none"
    /\ bootPc \in {"node3", "node4", "mkkeys", "mkdata", "mount", "gate", "pinset"}
         => card.table

(* Where a partition is formatted or keys are made, there are none.         *)
NoKeysYet ==
    bootPc \in {"node3", "node4", "mkkeys", "gate", "pinset"} => card.keys = 0

(* Why a process that did not have to give root up has nothing to give up.  *)
MountInv ==
    /\ bootPc \in {"probe", "keys"} => keysMount = "none"
    /\ bootPc \in {"data", "supervise", "start"} /\ keysMount = "rw" /\ ~ remountFailed
         => ~ (card.marker /\ card.old = "none" /\ ~ configPending)
    /\ bootPc = "start" /\ ~ root
         => {3, 4} \subseteq nodes /\ ~ NeedsMigration /\ ~ configPending

(* What was given up stays given up on the way to service.                  *)
GivenUp ==
    /\ bootPc = "drop" => keysMount = "ro"
    /\ bootPc = "unlock" => KeysGuarded /\ ~ root

BootInv == /\ BootTypeOK /\ SyncedFields /\ TableInv /\ NoKeysYet
           /\ MountInv /\ GivenUp /\ Confined

-----------------------------------------------------------------------------
(* What a loss of power leaves is a card, whose fields are each the cached  *)
(* or the written one (LosePower).                                           *)
LEMMA CutCard ==
    ASSUME NEW c \in Card, NEW f \in Card, NEW kept
    PROVE  LET g == [x \in DOMAIN c |-> IF x \in kept THEN c[x] ELSE f[x]]
           IN  /\ g \in Card
               /\ c.keys = f.keys => g.keys = c.keys
               /\ c.table = f.table => g.table = c.table
<1> DEFINE g == [x \in DOMAIN c |-> IF x \in kept THEN c[x] ELSE f[x]]
<1>1. DOMAIN c = {"table", "keysFs", "dataFs", "keys", "old", "marker", "chain",
                  "config", "image"}
  BY DEF Card
<1>2. /\ g.table \in BOOLEAN /\ g.keysFs \in BOOLEAN /\ g.dataFs \in BOOLEAN
      /\ g.keys \in Nat /\ g.old \in {"none", "v1", "staged"}
      /\ g.marker \in BOOLEAN /\ g.chain \in BOOLEAN
      /\ g.config \in {"none", "valid", "invalid"} /\ g.image \in {"good", "bad"}
  BY <1>1 DEF Card
<1>3. g = [table |-> g.table, keysFs |-> g.keysFs, dataFs |-> g.dataFs,
           keys |-> g.keys, old |-> g.old, marker |-> g.marker,
           chain |-> g.chain, config |-> g.config, image |-> g.image]
  BY <1>1
<1>4. g \in Card
  BY <1>2, <1>3 DEF Card
<1>5. /\ c.keys = f.keys => g.keys = c.keys
      /\ c.table = f.table => g.table = c.table
  BY <1>1
<1> QED BY <1>4, <1>5

(* The writes of the boot leave a card, and its keys and partition table    *)
(* alone unless they are about them.                                        *)
LEMMA WrittenCard ==
    ASSUME NEW c \in Card
    PROVE  /\ [c EXCEPT !.chain = TRUE] \in Card
           /\ [c EXCEPT !.marker = TRUE] \in Card
           /\ [c EXCEPT !.table = TRUE] \in Card
           /\ [c EXCEPT !.dataFs = TRUE] \in Card
           /\ [c EXCEPT !.keys = @ + 1] \in Card
           /\ \A v \in {"none", "valid"} : [c EXCEPT !.config = v] \in Card
           /\ \A v \in {"none", "staged"} : [c EXCEPT !.old = v] \in Card
           /\ [c EXCEPT !.keysFs = TRUE, !.keys = 0, !.old = "none",
                        !.marker = FALSE, !.chain = FALSE] \in Card
<1>1. [c EXCEPT !.chain = TRUE] \in Card BY DEF Card
<1>2. [c EXCEPT !.marker = TRUE] \in Card BY DEF Card
<1>3. [c EXCEPT !.table = TRUE] \in Card BY DEF Card
<1>4. [c EXCEPT !.dataFs = TRUE] \in Card BY DEF Card
<1>5. [c EXCEPT !.keys = @ + 1] \in Card
  <2>1. c.keys + 1 \in Nat BY DEF Card
  <2> QED BY <2>1 DEF Card
<1>6. ASSUME NEW v \in {"none", "valid"} PROVE [c EXCEPT !.config = v] \in Card
  BY DEF Card
<1>7. ASSUME NEW v \in {"none", "staged"} PROVE [c EXCEPT !.old = v] \in Card
  BY DEF Card
<1>8. [c EXCEPT !.keysFs = TRUE, !.keys = 0, !.old = "none",
                !.marker = FALSE, !.chain = FALSE] \in Card BY DEF Card
<1> QED BY <1>1, <1>2, <1>3, <1>4, <1>5, <1>6, <1>7, <1>8

(* Where every behaviour starts, the invariant holds.                       *)
LEMMA InitInv == BootInit => BootInv
<1> SUFFICES ASSUME BootInit PROVE BootInv
  OBVIOUS
<1>1. Fresh \in Card /\ Fresh.keys = 0
  BY DEF Fresh, Card
<1>2. InService \in Card /\ InService.table
  BY <1>1 DEF InService, Card
<1>3. card \in Card /\ flash = card /\ (~ card.table => card.keys = 0)
  <2>1. CASE card \in {Fresh, [Fresh EXCEPT !.config = "none"],
                       [Fresh EXCEPT !.image = "bad"]}
    BY <1>1, <2>1 DEF BootInit, Card
  <2>2. CASE card \in {InService, [InService EXCEPT !.old = "v1"],
                       [InService EXCEPT !.old = "v1", !.config = "valid"],
                       [InService EXCEPT !.config = "invalid"]}
    BY <1>2, <2>2 DEF BootInit, Card
  <2> QED BY <2>1, <2>2 DEF BootInit
<1>4. BootTypeOK
  BY <1>3 DEF BootInit, BootTypeOK, Places
<1> QED
  BY <1>3, <1>4 DEF BootInit, BootInv, SyncedFields, TableInv, NoKeysYet, MountInv,
                    GivenUp, Confined, KeysGuarded

(* Every step keeps the types.                                              *)
LEMMA StepTypes == BootTypeOK /\ [BootNext]_bootVars => BootTypeOK'
<1> SUFFICES ASSUME BootTypeOK, [BootNext]_bootVars PROVE BootTypeOK'
  OBVIOUS
<1> USE DEF BootTypeOK, Places, At, Go, Fault, NoFault, KeepCard, KeepMounts, NoCut,
            WriteCard, WriteSynced, Synced, FatalError, Step
<1>1. CASE PowerOn BY <1>1 DEF PowerOn
<1>2. CASE ConfigPending
  <2>1. configPending' \in BOOLEAN
    BY <1>2, Zenon DEF ConfigPending
  <2> QED
    BY <1>2, <2>1 DEF ConfigPending
<1>3. CASE InitKeysPartition
  <2>1. keysMount' \in {"none", "rw", "ro"} /\ remountFailed' \in BOOLEAN
    BY <1>3, Zenon DEF InitKeysPartition
  <2> QED
    BY <1>3, <2>1 DEF InitKeysPartition
<1>4. CASE InitDataPartition
  <2>1. dataMounted' \in BOOLEAN
    BY <1>4, Zenon DEF InitDataPartition
  <2> QED
    BY <1>4, <2>1 DEF InitDataPartition
<1>5. CASE RunSupervisor
  <2>1. root' \in BOOLEAN
    BY <1>5, Zenon DEF RunSupervisor
  <2> QED
    BY <1>5, <2>1 DEF RunSupervisor
<1>6. CASE Start BY <1>6 DEF Start
<1>7. CASE ConsumeConfig
  <2>1. card' \in Card /\ flash' \in Card
    BY <1>7, WrittenCard DEF ConsumeConfig
  <2> QED
    BY <1>7, <2>1 DEF ConsumeConfig
<1>8. CASE DeleteConfig
  <2>1. card' \in Card /\ flash' \in Card
    BY <1>8, WrittenCard DEF DeleteConfig
  <2> QED
    BY <1>8, <2>1 DEF DeleteConfig
<1>9. CASE UnmountBoot BY <1>9 DEF UnmountBoot
<1>10. CASE RemountKeysReadonly BY <1>10 DEF RemountKeysReadonly
<1>11. CASE DropPrivileges
  <2>1. bootPc' \in {"pin", "reboot", "unlock", "fatal"}
    BY <1>11 DEF DropPrivileges
  <2>2. root' \in BOOLEAN
    BY <1>11 DEF DropPrivileges
  <2> QED
    BY <1>11, <2>1, <2>2 DEF DropPrivileges
<1>12. CASE StartSetup BY <1>12 DEF StartSetup
<1>13. CASE CreatePartitions
  <2>1. card' \in Card /\ flash' \in Card
    BY <1>13, WrittenCard DEF CreatePartitions
  <2> QED
    BY <1>13, <2>1 DEF CreatePartitions
<1>14. CASE NotifyKernel BY <1>14 DEF NotifyKernel
<1>15. CASE FormatKeys
  <2>1. card' \in Card /\ flash' \in Card
    BY <1>15, WrittenCard DEF FormatKeys
  <2> QED
    BY <1>15, <2>1 DEF FormatKeys
<1>16. CASE FormatData
  <2>1. card' \in Card /\ flash' \in Card
    BY <1>16, WrittenCard DEF FormatData
  <2> QED
    BY <1>16, <2>1 DEF FormatData
<1>17. CASE MountPartitions
  <2>1. CASE bootPc' = "fatal"
    BY <1>17, <2>1 DEF MountPartitions
  <2>2. CASE bootPc' # "fatal"
    BY <1>17, <2>2 DEF MountPartitions
  <2> QED BY <2>1, <2>2
<1>18. CASE VerifyStorage BY <1>18 DEF VerifyStorage
<1>19. CASE ConfigGate BY <1>19 DEF ConfigGate
<1>20. CASE GenerateKeys
  <2>1. card' \in Card /\ flash' \in Card
    BY <1>20, WrittenCard DEF GenerateKeys
  <2> QED
    BY <1>20, <2>1 DEF GenerateKeys
<1>21. CASE SavePublicKeys BY <1>21 DEF SavePublicKeys
<1>22. CASE WriteSetupMarker
  <2>1. card' \in Card /\ flash' \in Card
    BY <1>22, WrittenCard DEF WriteSetupMarker
  <2> QED
    BY <1>22, <2>1 DEF WriteSetupMarker
<1>23. CASE SyncDisk BY <1>23 DEF SyncDisk
<1>24. CASE PinVerified
  <2>1. card' \in Card /\ flash' \in Card
    BY <1>24, WrittenCard DEF PinVerified
  <2> QED
    BY <1>24, <2>1 DEF PinVerified
<1>25. CASE Unlock BY <1>25 DEF Unlock
<1>26. CASE Reboot BY <1>26 DEF Reboot
<1>27. CASE LosePower
  <2>1. flash' \in Card
    BY <1>27, CutCard DEF LosePower
  <2> QED
    BY <1>27, <2>1 DEF LosePower
<1>28. CASE PowerCycle BY <1>28 DEF PowerCycle
<1>29. CASE HostStages
  <2>1. card' \in Card /\ flash' \in Card
    BY <1>29, WrittenCard DEF HostStages
  <2> QED
    BY <1>29, <2>1 DEF HostStages
<1>30. CASE UNCHANGED bootVars BY <1>30 DEF bootVars
<1> QED
  BY <1>1, <1>2, <1>3, <1>4, <1>5, <1>6, <1>7, <1>8, <1>9, <1>10, <1>11, <1>12,
     <1>13, <1>14, <1>15, <1>16, <1>17, <1>18, <1>19, <1>20, <1>21, <1>22, <1>23,
     <1>24, <1>25, <1>26, <1>27, <1>28, <1>29, <1>30 DEF BootNext, BootStep

-----------------------------------------------------------------------------
(* The fields that are only written with a sync stay equal, and keys and    *)
(* partitions stay where the boot takes them to be.                         *)
LEMMA StepStorage ==
    BootInv /\ [BootNext]_bootVars => (SyncedFields /\ TableInv /\ NoKeysYet)'
<1> SUFFICES ASSUME BootInv, [BootNext]_bootVars
             PROVE  (SyncedFields /\ TableInv /\ NoKeysYet)'
  OBVIOUS
<1>0. BootTypeOK'
  BY StepTypes DEF BootInv
<1> USE DEF BootInv, SyncedFields, TableInv, NoKeysYet, At, Go, KeepCard, KeepMounts,
            WriteCard, WriteSynced, Synced, FatalError, Step
<1>1. CASE PowerOn BY <1>1 DEF PowerOn
<1>2. CASE ConfigPending BY <1>2 DEF ConfigPending
<1>3. CASE InitKeysPartition BY <1>3 DEF InitKeysPartition, NothingToWrite
<1>4. CASE InitDataPartition BY <1>4 DEF InitDataPartition
<1>5. CASE RunSupervisor BY <1>5 DEF RunSupervisor
<1>6. CASE Start
  BY <1>6 DEF Start, IsFirstBoot, MarkerVisible, ShouldRecover
<1>7. CASE ConsumeConfig BY <1>7 DEF ConsumeConfig, BootTypeOK, Card
<1>8. CASE DeleteConfig BY <1>8 DEF DeleteConfig, BootTypeOK, Card
<1>9. CASE UnmountBoot BY <1>9 DEF UnmountBoot
<1>10. CASE RemountKeysReadonly BY <1>10 DEF RemountKeysReadonly
<1>11. CASE DropPrivileges BY <1>11 DEF DropPrivileges, GivenUp
<1>12. CASE StartSetup BY <1>12 DEF StartSetup
<1>13. CASE CreatePartitions BY <1>13 DEF CreatePartitions, BootTypeOK, Card
<1>14. CASE NotifyKernel BY <1>14 DEF NotifyKernel
<1>15. CASE FormatKeys
  <2>1. CASE bootPc' = "fatal"
    BY <1>15, <2>1 DEF FormatKeys
  <2>2. CASE bootPc' # "fatal"
    <3>1. /\ flash' = card'
          /\ card' = [card EXCEPT !.keysFs = TRUE, !.keys = 0, !.old = "none",
                                  !.marker = FALSE, !.chain = FALSE]
      BY <1>15, <2>2 DEF FormatKeys
    <3>2. card'.keys = 0 /\ card'.table = card.table
      BY <3>1 DEF BootTypeOK, Card
    <3> QED
      BY <1>15, <2>2, <3>1, <3>2 DEF FormatKeys
  <2> QED BY <2>1, <2>2
<1>16. CASE FormatData BY <1>16 DEF FormatData, BootTypeOK, Card
<1>17. CASE MountPartitions BY <1>17 DEF MountPartitions
<1>18. CASE VerifyStorage BY <1>18 DEF VerifyStorage, KeysVisible
<1>19. CASE ConfigGate BY <1>19 DEF ConfigGate
<1>20. CASE GenerateKeys BY <1>20 DEF GenerateKeys, BootTypeOK, Card
<1>21. CASE SavePublicKeys BY <1>21 DEF SavePublicKeys
<1>22. CASE WriteSetupMarker BY <1>22 DEF WriteSetupMarker, BootTypeOK, Card
<1>23. CASE SyncDisk BY <1>23 DEF SyncDisk
<1>24. CASE PinVerified BY <1>24 DEF PinVerified, BootTypeOK, Card
<1>25. CASE Unlock BY <1>25 DEF Unlock
<1>26. CASE Reboot BY <1>26 DEF Reboot
<1>27. CASE LosePower
  <2>1. flash'.keys = card.keys /\ flash'.table = card.table /\ card' = flash'
    BY <1>27, CutCard DEF LosePower, BootTypeOK
  <2> QED
    BY <1>27, <2>1 DEF LosePower
<1>28. CASE PowerCycle BY <1>28 DEF PowerCycle
<1>29. CASE HostStages BY <1>29 DEF HostStages, BootTypeOK, Card
<1>30. CASE UNCHANGED bootVars BY <1>30 DEF bootVars
<1> QED
  BY <1>1, <1>2, <1>3, <1>4, <1>5, <1>6, <1>7, <1>8, <1>9, <1>10, <1>11, <1>12,
     <1>13, <1>14, <1>15, <1>16, <1>17, <1>18, <1>19, <1>20, <1>21, <1>22, <1>23,
     <1>24, <1>25, <1>26, <1>27, <1>28, <1>29, <1>30 DEF BootNext, BootStep

(* Root and the write access to /keys are given up on every way to service. *)
LEMMA StepConfined ==
    BootInv /\ [BootNext]_bootVars => (MountInv /\ GivenUp /\ Confined)'
<1> SUFFICES ASSUME BootInv, [BootNext]_bootVars
             PROVE  (MountInv /\ GivenUp /\ Confined)'
  OBVIOUS
<1> USE DEF BootInv, BootTypeOK, MountInv, GivenUp, Confined, KeysGuarded, At, Go, KeepCard, KeepMounts,
            WriteCard, WriteSynced, Synced, FatalError, Step
<1>1. CASE PowerOn BY <1>1 DEF PowerOn
<1>2. CASE ConfigPending BY <1>2 DEF ConfigPending
<1>3. CASE InitKeysPartition BY <1>3 DEF InitKeysPartition, NothingToWrite
<1>4. CASE InitDataPartition BY <1>4 DEF InitDataPartition
<1>5. CASE RunSupervisor BY <1>5 DEF RunSupervisor, NeedsMigration
<1>6. CASE Start
  BY <1>6 DEF Start, ShouldRecover, IsFirstBoot, NeedsStorageSetup, MarkerVisible,
              NeedsMigration
<1>7. CASE ConsumeConfig BY <1>7 DEF ConsumeConfig
<1>8. CASE DeleteConfig BY <1>8 DEF DeleteConfig
<1>9. CASE UnmountBoot BY <1>9 DEF UnmountBoot
<1>10. CASE RemountKeysReadonly BY <1>10 DEF RemountKeysReadonly
<1>11. CASE DropPrivileges BY <1>11 DEF DropPrivileges
<1>12. CASE StartSetup BY <1>12 DEF StartSetup
<1>13. CASE CreatePartitions BY <1>13 DEF CreatePartitions
<1>14. CASE NotifyKernel BY <1>14 DEF NotifyKernel
<1>15. CASE FormatKeys BY <1>15 DEF FormatKeys
<1>16. CASE FormatData BY <1>16 DEF FormatData
<1>17. CASE MountPartitions BY <1>17 DEF MountPartitions
<1>18. CASE VerifyStorage BY <1>18 DEF VerifyStorage
<1>19. CASE ConfigGate BY <1>19 DEF ConfigGate
<1>20. CASE GenerateKeys BY <1>20 DEF GenerateKeys
<1>21. CASE SavePublicKeys BY <1>21 DEF SavePublicKeys
<1>22. CASE WriteSetupMarker BY <1>22 DEF WriteSetupMarker
<1>23. CASE SyncDisk BY <1>23 DEF SyncDisk
<1>24. CASE PinVerified BY <1>24 DEF PinVerified
<1>25. CASE Unlock BY <1>25 DEF Unlock
<1>26. CASE Reboot BY <1>26 DEF Reboot
<1>27. CASE LosePower BY <1>27 DEF LosePower
<1>28. CASE PowerCycle BY <1>28 DEF PowerCycle
<1>29. CASE HostStages BY <1>29 DEF HostStages
<1>30. CASE UNCHANGED bootVars BY <1>30 DEF bootVars, NeedsMigration
<1> QED
  BY <1>1, <1>2, <1>3, <1>4, <1>5, <1>6, <1>7, <1>8, <1>9, <1>10, <1>11, <1>12,
     <1>13, <1>14, <1>15, <1>16, <1>17, <1>18, <1>19, <1>20, <1>21, <1>22, <1>23,
     <1>24, <1>25, <1>26, <1>27, <1>28, <1>29, <1>30 DEF BootNext, BootStep

(* The invariant is inductive.                                              *)
LEMMA StepInv == BootInv /\ [BootNext]_bootVars => BootInv'
  BY StepTypes, StepStorage, StepConfined DEF BootInv

(* The invariant holds in every reachable state.                            *)
LEMMA AlwaysInv == BootSpec => []BootInv
  BY InitInv, StepInv, PTL DEF BootSpec

-----------------------------------------------------------------------------
(* Every variable keeps its type over any number of losses of power and of  *)
(* mounts and commands that fail.                                           *)
THEOREM BootTypeCorrect == BootSpec => []BootTypeOK
<1>1. BootInv => BootTypeOK
  BY DEF BootInv
<1> QED
  BY AlwaysInv, <1>1, PTL

(* Whatever fails and whenever the power goes, a signer that serves is not  *)
(* root and has /data, and has /keys read-only unless the unchecked remount *)
(* of this boot's init failed (RemountKeysReadonly, DropPrivileges).        *)
THEOREM ServesConfined == BootSpec => []Confined
<1>1. BootInv => Confined
  BY DEF BootInv
<1> QED
  BY AlwaysInv, <1>1, PTL

(* Whatever fails and whenever the power goes, keys on the flash are        *)
(* neither formatted away nor replaced (needs_storage_setup,                *)
(* verify_partitions).                                                      *)
THEOREM KeysStay == BootSpec => KeysNeverReplaced
<1>1. BootInv /\ BootInv' /\ [BootNext]_bootVars
        => [flash.keys # 0 => flash'.keys = flash.keys]_bootVars
  <2> SUFFICES ASSUME BootInv, [BootNext]_bootVars, flash.keys # 0
               PROVE  flash'.keys = flash.keys
    OBVIOUS
  <2> USE DEF BootInv, SyncedFields, TableInv, NoKeysYet, At, Go, KeepCard, WriteCard,
              WriteSynced, Synced, Step
  <2>1. CASE LosePower
    BY <2>1, CutCard DEF LosePower, BootTypeOK
  <2>2. CASE CreatePartitions \/ FormatData \/ HostStages
    BY <2>2 DEF CreatePartitions, FormatData, HostStages, BootTypeOK, Card
  <2>3. CASE FormatKeys \/ GenerateKeys
    BY <2>3 DEF FormatKeys, GenerateKeys
  <2>4. CASE BootStep /\ ~ (CreatePartitions \/ FormatData \/ FormatKeys \/ GenerateKeys)
    BY <2>4 DEF BootStep, PowerOn, ConfigPending, InitKeysPartition, NothingToWrite, InitDataPartition,
                RunSupervisor, Start, ConsumeConfig, DeleteConfig, UnmountBoot,
                RemountKeysReadonly, DropPrivileges, StartSetup, NotifyKernel,
                MountPartitions, VerifyStorage, ConfigGate, SavePublicKeys,
                WriteSetupMarker, SyncDisk, PinVerified, Unlock, Reboot
  <2>5. CASE PowerCycle
    BY <2>5 DEF PowerCycle
  <2>6. CASE UNCHANGED bootVars
    BY <2>6 DEF bootVars
  <2> QED
    BY <2>1, <2>2, <2>3, <2>4, <2>5, <2>6 DEF BootNext
<1> QED
  BY AlwaysInv, <1>1, PTL DEF BootSpec, KeysNeverReplaced

-----------------------------------------------------------------------------
(* Panel: why no pixel is turned round in motion and why a panel that       *)
(* sleeps is left alone.                                                    *)
(*                                                                          *)
(* The driver never sees the panel: it knows the last frame it sent, its    *)
(* mask of dirty pixels and the mode of its last push.  They agree with     *)
(* the panel as long as every push reaches a panel that is awake and every  *)
(* wake-up finds one that sleeps.  The effects of an event are applied      *)
(* before the next one is taken, so what is left of them tells which.       *)

-----------------------------------------------------------------------------
(* The inductive invariant.                                                 *)

(* What may be left of an event's effects.                                  *)
GoingToSleep == {<<"drop", "sleep">>, <<"sleep">>}
WakingUp == {<<"wake", "rebuild">>, <<"rebuild">>, <<"wake", "rebuild", "alert">>,
             <<"rebuild", "alert">>}
ShuttingDown == {<<"wake", "clear", "sleep", "end">>, <<"clear", "sleep", "end">>,
                 <<"sleep", "end">>, <<"end">>}
Opening == {<<p>> : p \in Pages}
Todos == {<<>>} \cup GoingToSleep \cup WakingUp \cup ShuttingDown \cup Opening
TodoInv == todo \in Todos

(* The screensaver's page stands only while the screensaver is on, and no   *)
(* page change is pending then.                                             *)
SaverInv ==
    /\ page = "saver" => pending # "Transition"
    /\ page = "saver" /\ todo = <<>> /\ place # "ended" => saver
    /\ todo \in GoingToSleep => saver
    /\ todo = <<"sleep">> => page = "saver"

(* With no page opened behind the screensaver the panel sleeps exactly      *)
(* while the screensaver is on and nothing is left to apply, and until the  *)
(* effect that wakes it.                                                    *)
SleepInv ==
    ~ behind =>
        /\ asleep => \/ saver /\ todo = <<>>
                     \/ todo # <<>> /\ Head(todo) \in {"wake", "end"}
                     \/ place = "ended"
        /\ saver => todo \in {<<>>} \cup GoingToSleep \cup ShuttingDown
        /\ saver /\ todo = <<>> /\ place # "ended" => asleep /\ page = "saver"
        /\ todo # <<>> /\ Head(todo) = "wake" => asleep

(* What the driver takes the panel for is what it is.                       *)
DriverInv ==
    /\ asleep => ~ busy
    /\ busy => pushed
    /\ ~ behind /\ pushed =>
          /\ ram = last
          /\ ~ busy => ink = ram
          /\ busy /\ lastMode = "partial" => driven \subseteq dirty

PanelInv == PanelTypeOK /\ TodoInv /\ SaverInv /\ SleepInv /\ DriverInv

-----------------------------------------------------------------------------
(* Effects.                                                                 *)

(* No name of an effect is the name of a page.                              *)
LEMMA EffectNames ==
    /\ "menu" \in Pages /\ "alert" \in Pages /\ "saver" \notin Pages
    /\ \A p \in Pages : p \notin {"saver", "wake", "rebuild", "drop", "sleep", "clear", "end"}
  BY PageAssumption

(* Short sequences.                                                         *)
LEMMA One == \A a : Head(<<a>>) = a /\ Tail(<<a>>) = <<>> /\ <<a>> # <<>>
  OBVIOUS

(* See above.                                                               *)
LEMMA Two == \A a, b : Head(<<a, b>>) = a /\ Tail(<<a, b>>) = <<b>> /\ <<a, b>> # <<>>
  OBVIOUS

(* See above.                                                               *)
LEMMA Three ==
    \A a, b, c : /\ Head(<<a, b, c>>) = a /\ Tail(<<a, b, c>>) = <<b, c>>
                 /\ <<a, b, c>> # <<>>
  OBVIOUS

(* See above.                                                               *)
LEMMA Four ==
    \A a, b, c, d : /\ Head(<<a, b, c, d>>) = a /\ Tail(<<a, b, c, d>>) = <<b, c, d>>
                    /\ <<a, b, c, d>> # <<>>
  OBVIOUS

(* The kinds of rest are told apart by their first effect.                  *)
LEMMA Apart ==
    /\ <<>> \notin GoingToSleep \cup WakingUp \cup ShuttingDown \cup Opening
    /\ (WakingUp \cup Opening) \cap (GoingToSleep \cup ShuttingDown) = {}
    /\ ShuttingDown \cap GoingToSleep = {}
    /\ \A t \in Opening \cup GoingToSleep : Head(t) \notin {"wake", "end"}
<1>1. \A t \in GoingToSleep : t # <<>> /\ Head(t) \in {"drop", "sleep"}
  BY One, Two DEF GoingToSleep
<1>2. \A t \in WakingUp : t # <<>> /\ Head(t) \in {"wake", "rebuild"}
  BY One, Two, Three DEF WakingUp
<1>3. \A t \in ShuttingDown : t # <<>> /\ Head(t) \in {"wake", "clear", "sleep", "end"}
  BY One, Two, Three, Four DEF ShuttingDown
<1>4. \A t \in Opening : t # <<>> /\ Head(t) \in Pages
  BY One DEF Opening
<1>5. WakingUp \cap ShuttingDown = {}
  <2> SUFFICES ASSUME NEW t \in WakingUp, t \in ShuttingDown PROVE FALSE
    OBVIOUS
  <2>1. Head(t) = "wake"
    BY <1>2, <1>3
  <2>2. t = <<"wake", "clear", "sleep", "end">>
    BY <2>1, One, Two, Three DEF ShuttingDown
  <2>3. Tail(t) = <<"clear", "sleep", "end">> /\ Head(Tail(t)) = "clear"
    BY <2>2, Three, Four
  <2>4. t \in {<<"wake", "rebuild">>, <<"wake", "rebuild", "alert">>}
    BY <2>1, One, Two DEF WakingUp
  <2>5. Head(Tail(t)) = "rebuild"
    BY <2>4, One, Two, Three
  <2> QED BY <2>3, <2>5
<1>6. ShuttingDown \cap GoingToSleep = {}
  <2> SUFFICES ASSUME NEW t \in ShuttingDown, t \in GoingToSleep PROVE FALSE
    OBVIOUS
  <2>1. Head(t) = "sleep"
    BY <1>1, <1>3
  <2>2. t = <<"sleep">> /\ t = <<"sleep", "end">>
    BY <2>1, Two, Three, Four DEF ShuttingDown, GoingToSleep
  <2> QED BY <2>2, One, Two
<1> QED BY <1>1, <1>2, <1>3, <1>4, <1>5, <1>6, EffectNames

(* What is left once the first effect is applied.                           *)
LEMMA Rest ==
    ASSUME TodoInv, todo # <<>>, todo' = Tail(todo)
    PROVE  /\ TodoInv'
           /\ Head(todo) \in Pages => todo' = <<>> /\ todo \in Opening
           /\ Head(todo) = "drop" => todo = <<"drop", "sleep">> /\ todo' = <<"sleep">>
           /\ Head(todo) = "sleep" => \/ todo = <<"sleep">> /\ todo' = <<>>
                                      \/ todo = <<"sleep", "end">> /\ todo' = <<"end">>
           /\ Head(todo) = "wake" => \/ todo' \in WakingUp /\ Head(todo') = "rebuild"
                                     \/ todo' \in ShuttingDown /\ Head(todo') = "clear"
           /\ Head(todo) = "wake" /\ todo \in ShuttingDown => todo' \in ShuttingDown
           /\ Head(todo) = "rebuild" => todo' \in {<<>>, <<"alert">>} /\ todo \in WakingUp
           /\ Head(todo) = "clear" => todo' = <<"sleep", "end">>
           /\ Head(todo) = "end" => todo' = <<>>
<1> USE EffectNames
<1>1. CASE todo \in GoingToSleep
  <2>1. todo = <<"drop", "sleep">> \/ todo = <<"sleep">>
    BY <1>1 DEF GoingToSleep
  <2>2. CASE todo = <<"drop", "sleep">>
    BY <2>2, One, Two DEF TodoInv, Todos, GoingToSleep
  <2>3. CASE todo = <<"sleep">>
    BY <2>3, One DEF TodoInv, Todos
  <2> QED BY <2>1, <2>2, <2>3
<1>2. CASE todo \in WakingUp
  <2>0. todo \notin ShuttingDown
    BY <1>2, Apart
  <2>1. CASE todo = <<"wake", "rebuild", "alert">>
    <3>1. Head(todo) = "wake" /\ todo' = <<"rebuild", "alert">>
      BY <2>1, Three
    <3>2. todo' \in WakingUp /\ Head(todo') = "rebuild"
      BY <3>1, Two DEF WakingUp
    <3> QED BY <3>1, <3>2, <2>0 DEF TodoInv, Todos
  <2>2. CASE todo = <<"rebuild", "alert">>
    BY <2>2, <1>2, One, Two DEF TodoInv, Todos, WakingUp, Opening
  <2>3. CASE todo = <<"wake", "rebuild">>
    <3>1. Head(todo) = "wake" /\ todo' = <<"rebuild">>
      BY <2>3, Two
    <3>2. todo' \in WakingUp /\ Head(todo') = "rebuild"
      BY <3>1, One DEF WakingUp
    <3> QED BY <3>1, <3>2, <2>0 DEF TodoInv, Todos
  <2>4. CASE todo = <<"rebuild">>
    BY <2>4, <1>2, One DEF TodoInv, Todos, WakingUp
  <2> QED BY <1>2, <2>1, <2>2, <2>3, <2>4 DEF WakingUp
<1>3. CASE todo \in ShuttingDown
  <2>1. CASE todo = <<"wake", "clear", "sleep", "end">>
    BY <2>1, <1>3, Three, Four DEF TodoInv, Todos, ShuttingDown
  <2>2. CASE todo = <<"clear", "sleep", "end">>
    BY <2>2, <1>3, Two, Three DEF TodoInv, Todos, ShuttingDown
  <2>3. CASE todo = <<"sleep", "end">>
    BY <2>3, <1>3, One, Two DEF TodoInv, Todos, ShuttingDown
  <2>4. CASE todo = <<"end">>
    BY <2>4, <1>3, One DEF TodoInv, Todos, ShuttingDown
  <2> QED BY <1>3, <2>1, <2>2, <2>3, <2>4 DEF ShuttingDown
<1>4. CASE todo \in Opening
  <2>1. PICK p \in Pages : todo = <<p>>
    BY <1>4 DEF Opening
  <2> QED BY <2>1, <1>4, One DEF TodoInv, Todos
<1> QED BY <1>1, <1>2, <1>3, <1>4 DEF TodoInv, Todos

(* A sequence of four.                                                      *)
LEMMA FourLong ==
    ASSUME NEW S, NEW a \in S, NEW b \in S, NEW c \in S, NEW d \in S
    PROVE  <<a, b, c, d>> \in Seq(S)
  OBVIOUS

(* Two short sequences together.                                            *)
LEMMA TwoOne ==
    ASSUME NEW S, NEW a \in S, NEW b \in S, NEW c \in S
    PROVE  <<a, b>> \o <<c>> = <<a, b, c>>
<1>1. <<a, b>> \in Seq(S) /\ <<c>> \in Seq(S) /\ <<a, b, c>> \in Seq(S)
  OBVIOUS
<1>2. Len(<<a, b>> \o <<c>>) = 3
  BY <1>1, ConcatProperties
<1>3. \A i \in 1 .. 3 : (<<a, b>> \o <<c>>)[i] = <<a, b, c>>[i]
  BY <1>1, ConcatProperties
<1>4. <<a, b>> \o <<c>> \in Seq(S)
  BY <1>1
<1> QED BY <1>1, <1>2, <1>3, <1>4, SeqEqual

(* See above.                                                               *)
LEMMA OneThree ==
    ASSUME NEW S, NEW a \in S, NEW b \in S, NEW c \in S, NEW d \in S
    PROVE  <<a>> \o <<b, c, d>> = <<a, b, c, d>>
<1>0. <<b, c, d>> \in Seq(S)
  OBVIOUS
<1>1. <<a>> \in Seq(S) /\ <<a, b, c, d>> \in Seq(S)
  BY FourLong
<1>2. Len(<<a>> \o <<b, c, d>>) = 4
  BY <1>0, <1>1, ConcatProperties
<1>3. \A i \in 1 .. 4 : (<<a>> \o <<b, c, d>>)[i] = <<a, b, c, d>>[i]
  BY <1>0, <1>1, ConcatProperties
<1>4. <<a>> \o <<b, c, d>> \in Seq(S)
  BY <1>0, <1>1
<1> QED BY <1>1, <1>2, <1>3, <1>4, SeqEqual

(* Effects are known ones.                                                  *)
LEMMA TodoType == Todos \subseteq Seq(Effect)
<1>1. \A a \in Effect : <<a>> \in Seq(Effect)
  OBVIOUS
<1>2. \A a, b \in Effect : <<a, b>> \in Seq(Effect)
  OBVIOUS
<1>3. \A a, b, c \in Effect : <<a, b, c>> \in Seq(Effect)
  OBVIOUS
<1>4. \A a, b, c, d \in Effect : <<a, b, c, d>> \in Seq(Effect)
  BY FourLong
<1>5. /\ {"wake", "rebuild", "drop", "sleep", "clear", "end"} \subseteq Effect
      /\ Pages \subseteq Effect /\ "alert" \in Effect
  BY EffectNames DEF Effect
<1>6. <<>> \in Seq(Effect)
  OBVIOUS
<1>7. GoingToSleep \subseteq Seq(Effect)
  BY <1>1, <1>2, <1>5 DEF GoingToSleep
<1>8. WakingUp \subseteq Seq(Effect)
  BY <1>1, <1>2, <1>3, <1>5 DEF WakingUp
<1>9. ShuttingDown \subseteq Seq(Effect)
  BY <1>1, <1>2, <1>3, <1>4, <1>5 DEF ShuttingDown
<1>10. Opening \subseteq Seq(Effect)
  BY <1>1, <1>5 DEF Opening
<1> QED
  BY <1>6, <1>7, <1>8, <1>9, <1>10 DEF Todos

-----------------------------------------------------------------------------
(* Pushes.                                                                  *)

DriverTypeOK ==
    /\ last \subseteq Pixels /\ dirty \subseteq Pixels
    /\ lastMode \in {"none", "full", "partial"}
    /\ partials \in Nat /\ pushed \in BOOLEAN
    /\ ram \subseteq Pixels /\ ink \subseteq Pixels /\ driven \subseteq Pixels
    /\ busy \in BOOLEAN /\ asleep \in BOOLEAN /\ behind \in BOOLEAN

(* A frame that is pushed, and not skipped or put off.                      *)
Push(f) ==
    \E mode \in {"full", "partial"}, line \in Line :
        /\ mode = "partial" => pushed
        /\ ~ MustWait(mode, line, f) /\ Display(f, mode, line)

(* Both wait policies push, or leave the panel alone.                       *)
LEMMA BlockingPushes ==
    ASSUME NEW f, NEW opportunity, PushBlocking(f, opportunity)
    PROVE  UNCHANGED <<driverVars, panelVars>> \/ Push(f)
<1>1. Decide(f, opportunity) \in {"full", "skip", "partial"}
      /\ (Decide(f, opportunity) = "partial" => pushed)
  BY DEF Decide
<1> QED BY <1>1 DEF PushBlocking, Push

(* See above.                                                               *)
LEMMA BailingPushes ==
    ASSUME NEW f, NEW opportunity, NEW put, NEW else,
           PushOrBail(f, opportunity, put, else)
    PROVE  /\ UNCHANGED <<driverVars, panelVars>> \/ Push(f)
           /\ pending' \in {put, else}
<1>1. Decide(f, opportunity) \in {"full", "skip", "partial"}
      /\ (Decide(f, opportunity) = "partial" => pushed)
  BY DEF Decide
<1> QED BY <1>1 DEF PushOrBail, Push

(* A push to a panel that is awake, or one that sleeps behind a page opened *)
(* over the screensaver, keeps what the driver knows.                       *)
LEMMA PushKeeps ==
    ASSUME NEW f \in SUBSET Pixels, DriverTypeOK, DriverInv, asleep => behind, Push(f)
    PROVE  /\ DriverTypeOK' /\ DriverInv'
           /\ asleep' => asleep /\ behind'
           /\ behind' => behind
           /\ saver => behind' = behind
<1>1. PICK mode \in {"full", "partial"}, line \in Line :
          /\ mode = "partial" => pushed
          /\ ~ MustWait(mode, line, f) /\ Display(f, mode, line)
  BY DEF Push
<1>2. /\ last' = f /\ lastMode' = mode /\ pushed' = TRUE
      /\ dirty' = (IF line THEN dirty ELSE {}) \cup Diff(last, f)
      /\ partials' \in Nat
  BY <1>1 DEF Display, DriverTypeOK
<1>3. CASE asleep /\ mode = "full"
  <2>1. UNCHANGED panelVars
    BY <1>1, <1>3 DEF Display, Refresh
  <2> QED
    BY <1>2, <1>3, <2>1 DEF DriverInv, DriverTypeOK, panelVars, Diff
<1>4. CASE ~ (asleep /\ mode = "full")
  <2>1. /\ ram' = f /\ busy' = TRUE /\ asleep' = FALSE /\ ink' = ink
        /\ behind' = (behind /\ (saver \/ mode = "partial"))
        /\ driven' = CASE mode = "full" -> Pixels
                       [] busy -> driven \cup Diff(ram, f)
                       [] OTHER -> Diff(ink, f)
    BY <1>1, <1>4 DEF Display, Refresh
  <2>2. driven' \subseteq Pixels /\ dirty' \subseteq Pixels
    BY <1>2, <2>1 DEF DriverTypeOK, Diff
  <2>3. ASSUME ~ behind', mode = "partial"
        PROVE  driven' \subseteq dirty'
    <3>1. ~ behind /\ pushed /\ line = busy
      BY <1>1, <2>1, <2>3 DEF Line
    <3>2. CASE busy
      <4>1. driven' = driven \cup Diff(ram, f) /\ dirty' = dirty \cup Diff(last, f)
        BY <1>2, <2>1, <2>3, <3>1, <3>2
      <4>2. driven \subseteq dirty /\ ram = last
        BY <1>1, <3>1, <3>2 DEF MustWait, DriverInv
      <4> QED BY <4>1, <4>2
    <3>3. CASE ~ busy
      <4>1. driven' = Diff(ink, f) /\ dirty' = Diff(last, f) /\ ink = last
        BY <1>2, <2>1, <2>3, <3>1, <3>3 DEF DriverInv
      <4> QED BY <4>1
    <3> QED BY <3>2, <3>3
  <2> QED
    BY <1>2, <2>1, <2>2, <2>3 DEF DriverInv, DriverTypeOK
<1> QED BY <1>3, <1>4

-----------------------------------------------------------------------------
(* Every step keeps the invariant.                                          *)

(* What a page draws.                                                       *)
LEMMA DrawnType ==
    ASSUME PanelTypeOK, NEW p \in Pages \cup {"saver"}
    PROVE  Drawn(p) \in SUBSET Pixels
<1>1. <<p, data>> \in (Pages \cup {"saver"}) \X Data
  BY DEF PanelTypeOK
<1> QED BY <1>1, FrameAssumption DEF Drawn

(* The driver's part is kept where the driver and the panel are.            *)
LEMMA DriverKept ==
    ASSUME PanelInv, UNCHANGED <<driverVars, panelVars>>
    PROVE  DriverTypeOK' /\ DriverInv' /\ asleep' = asleep /\ behind' = behind
  BY DEF PanelInv, PanelTypeOK, DriverTypeOK, DriverInv, driverVars, panelVars

(* A push by an effect that is neither a wake-up nor the end: the panel is  *)
(* awake, or a page was opened over the screensaver.                        *)
LEMMA EffectPushes ==
    ASSUME PanelInv, todo # <<>>, Head(todo) \notin {"wake", "end"}, place # "ended",
           NEW f \in SUBSET Pixels,
           UNCHANGED <<driverVars, panelVars>> \/ Push(f)
    PROVE  /\ DriverTypeOK' /\ DriverInv'
           /\ asleep' => behind'
           /\ behind' => behind
           /\ saver => behind' = behind
<1>1. asleep => behind
  BY DEF PanelInv, SleepInv
<1>2. CASE UNCHANGED <<driverVars, panelVars>>
  BY <1>1, <1>2, DriverKept
<1>3. CASE Push(f)
  BY <1>1, <1>3, PushKeeps DEF PanelInv, PanelTypeOK, DriverTypeOK
<1> QED BY <1>2, <1>3

(* The types of what is not the driver's or the panel's.                    *)
LoopTypeOK ==
    /\ queue \in Seq(Event) /\ place \in {"wait", "drain", "flush", "ended"}
    /\ page \in Pages \cup {"saver"} /\ saved \in Pages
    /\ saver \in BOOLEAN /\ pending \in Renders /\ data \in Data /\ inputs \in Nat

(* The parts of the invariant after a step.                                 *)
LEMMA Assemble ==
    ASSUME LoopTypeOK', DriverTypeOK', TodoInv', SaverInv', SleepInv', DriverInv'
    PROVE  PanelInv'
  BY TodoType DEF TodoInv, LoopTypeOK, DriverTypeOK, PanelInv, PanelTypeOK

(* ApplyEffect keeps the invariant.                                         *)
LEMMA EffectStep == PanelInv /\ ApplyEffect => PanelInv'
<1> SUFFICES ASSUME PanelInv, ApplyEffect PROVE PanelInv'
  OBVIOUS
<1>t. LoopTypeOK /\ TodoInv /\ SaverInv /\ SleepInv /\ DriverInv
  BY DEF PanelInv, PanelTypeOK, LoopTypeOK
<1>1. ASSUME NEW p \in Pages, ShowPage(p) PROVE PanelInv'
  <2>1. /\ todo # <<>> /\ Head(todo) = p /\ todo' = Tail(todo) /\ place # "ended"
        /\ page' = p /\ saved' = p /\ UNCHANGED <<queue, place, saver, inputs, data>>
        /\ PushOrBail(Drawn(p), "Transition", "Transition", pending)
    BY <1>1 DEF ShowPage, Apply, TryTransition, KeepLoop
  <2>2. TodoInv' /\ todo' = <<>> /\ todo \in Opening
    BY <1>t, <2>1, Rest
  <2>3. p \notin {"wake", "end", "saver"}
    BY EffectNames
  <2>4. /\ UNCHANGED <<driverVars, panelVars>> \/ Push(Drawn(p))
        /\ pending' \in {"Transition", pending}
    BY <2>1, BailingPushes
  <2>5. Drawn(p) \in SUBSET Pixels
    BY DrawnType DEF PanelInv
  <2>6. /\ DriverTypeOK' /\ DriverInv' /\ (asleep' => behind') /\ (behind' => behind)
        /\ saver => behind' = behind
    BY <2>1, <2>3, <2>4, <2>5, EffectPushes
  <2>7. saver => behind
    BY <1>t, <2>1, <2>2, Apart DEF SleepInv
  <2>8. SleepInv'
    BY <2>1, <2>2, <2>6, <2>7 DEF SleepInv
  <2>9. SaverInv'
    BY <2>1, <2>2, <2>3, Apart, One DEF SaverInv
  <2>10. LoopTypeOK'
    BY <1>t, <2>1, <2>4 DEF LoopTypeOK, Renders
  <2> QED BY <2>2, <2>6, <2>8, <2>9, <2>10, Assemble
<1>2. CASE RebuildSavedPage
  <2>1. /\ todo # <<>> /\ Head(todo) = "rebuild" /\ todo' = Tail(todo) /\ place # "ended"
        /\ page' = saved /\ UNCHANGED <<queue, place, saver, inputs, saved, data>>
        /\ PushOrBail(Drawn(saved), "Transition", "Transition", pending)
    BY <1>2 DEF RebuildSavedPage, Apply, TryTransition, KeepLoop
  <2>2. TodoInv' /\ todo' \in {<<>>, <<"alert">>} /\ todo \in WakingUp
    BY <1>t, <2>1, Rest
  <2>3. saved \in Pages /\ saved # "saver" /\ (todo' # <<>> => Head(todo') = "alert")
        /\ todo' \notin GoingToSleep
    <3>1. <<"alert">> \in Opening
      BY EffectNames DEF Opening
    <3> QED BY <1>t, <2>2, <3>1, EffectNames, One, Apart DEF LoopTypeOK
  <2>4. /\ UNCHANGED <<driverVars, panelVars>> \/ Push(Drawn(saved))
        /\ pending' \in {"Transition", pending}
    BY <2>1, BailingPushes
  <2>5. Drawn(saved) \in SUBSET Pixels
    BY <2>3, DrawnType DEF PanelInv
  <2>6. /\ DriverTypeOK' /\ DriverInv' /\ (asleep' => behind') /\ (behind' => behind)
        /\ saver => behind' = behind
    BY <2>1, <2>4, <2>5, EffectPushes
  <2>7. saver => behind
    BY <1>t, <2>2, Apart DEF SleepInv
  <2>8. SleepInv'
    BY <2>1, <2>3, <2>6, <2>7 DEF SleepInv
  <2>9. SaverInv'
    BY <2>1, <2>3 DEF SaverInv, GoingToSleep
  <2>10. LoopTypeOK'
    BY <1>t, <2>1, <2>4 DEF LoopTypeOK, Renders
  <2> QED BY <2>2, <2>6, <2>8, <2>9, <2>10, Assemble
<1>3. CASE DropCurrentPage
  <2>1. /\ todo # <<>> /\ Head(todo) = "drop" /\ todo' = Tail(todo) /\ place # "ended"
        /\ pending' = "None" /\ page' = "saver"
        /\ UNCHANGED <<queue, place, saver, inputs, saved, data>>
        /\ PushBlocking(Drawn("saver"), "Transition")
    BY <1>3 DEF DropCurrentPage, Apply, KeepLoop
  <2>2. TodoInv' /\ todo = <<"drop", "sleep">> /\ todo' = <<"sleep">>
    BY <1>t, <2>1, Rest
  <2>3. saver /\ todo' \in GoingToSleep /\ todo' # <<>> /\ Head(todo') = "sleep"
    BY <1>t, <2>2, One DEF SaverInv, GoingToSleep
  <2>4. UNCHANGED <<driverVars, panelVars>> \/ Push(Drawn("saver"))
    BY <2>1, BlockingPushes
  <2>5. Drawn("saver") \in SUBSET Pixels
    BY DrawnType DEF PanelInv
  <2>6. DriverTypeOK' /\ DriverInv' /\ (asleep' => behind') /\ (behind' => behind)
    BY <2>1, <2>4, <2>5, EffectPushes
  <2>7. SleepInv'
    BY <2>1, <2>3, <2>6 DEF SleepInv
  <2>8. SaverInv'
    BY <2>1, <2>3 DEF SaverInv
  <2>9. LoopTypeOK'
    BY <1>t, <2>1 DEF LoopTypeOK, Renders
  <2> QED BY <2>2, <2>6, <2>7, <2>8, <2>9, Assemble
<1>4. CASE SleepDisplay
  <2>1. /\ todo # <<>> /\ Head(todo) = "sleep" /\ todo' = Tail(todo) /\ place # "ended"
        /\ ~ busy /\ asleep' = TRUE
        /\ UNCHANGED <<queue, place, saver, inputs, pageVars, pending, driverVars,
                       ram, ink, driven, busy, behind>>
    BY <1>4 DEF SleepDisplay, Apply, KeepLoop
  <2>2. TodoInv'
    BY <1>t, <2>1, Rest
  <2>3. DriverTypeOK' /\ DriverInv'
    BY <2>1 DEF PanelInv, PanelTypeOK, DriverTypeOK, DriverInv, driverVars
  <2>4. LoopTypeOK'
    BY <1>t, <2>1 DEF LoopTypeOK, pageVars
  <2>5. CASE todo = <<"sleep">> /\ todo' = <<>>
    <3>1. saver /\ page = "saver"
      BY <1>t, <2>5 DEF SaverInv, GoingToSleep
    <3>2. SleepInv' /\ SaverInv'
      BY <1>t, <2>1, <2>5, <3>1, Apart DEF SleepInv, SaverInv, pageVars
    <3> QED BY <2>2, <2>3, <2>4, <3>2, Assemble
  <2>6. CASE todo = <<"sleep", "end">> /\ todo' = <<"end">>
    <3>1. todo' # <<>> /\ Head(todo') = "end" /\ todo' \in ShuttingDown
      BY <2>6, One DEF ShuttingDown
    <3>2. SleepInv'
      BY <2>1, <3>1 DEF SleepInv
    <3>3. SaverInv'
      BY <1>t, <2>1, <3>1, Apart DEF SaverInv, pageVars, GoingToSleep
    <3> QED BY <2>2, <2>3, <2>4, <3>2, <3>3, Assemble
  <2> QED BY <1>t, <2>1, <2>5, <2>6, Rest
<1>5. CASE WakeDisplay
  <2>1. /\ todo # <<>> /\ Head(todo) = "wake" /\ todo' = Tail(todo) /\ place # "ended"
        /\ asleep' = FALSE /\ busy' = FALSE /\ driven' = {} /\ lastMode' = "none"
        /\ UNCHANGED <<queue, place, saver, inputs, pageVars, pending, last, dirty,
                       partials, pushed, ram, ink, behind>>
    BY <1>5 DEF WakeDisplay, Apply, KeepLoop
  <2>2. /\ TodoInv' /\ todo' \in WakingUp \cup ShuttingDown
        /\ Head(todo') \in {"rebuild", "clear"}
        /\ todo \in ShuttingDown => todo' \in ShuttingDown
    BY <1>t, <2>1, Rest
  <2>3. ~ behind => asleep /\ ~ busy
    BY <1>t, <2>1 DEF SleepInv, DriverInv
  <2>4. DriverTypeOK' /\ DriverInv'
    BY <2>1, <2>3 DEF PanelInv, PanelTypeOK, DriverTypeOK, DriverInv
  <2>5. saver /\ ~ behind => todo \in ShuttingDown
    BY <1>t, <2>1, Apart DEF SleepInv
  <2>6. SleepInv'
    BY <2>1, <2>2, <2>5, Apart DEF SleepInv
  <2>7. SaverInv'
    BY <1>t, <2>1, <2>2, Apart DEF SaverInv, pageVars, GoingToSleep
  <2>8. LoopTypeOK'
    BY <1>t, <2>1 DEF LoopTypeOK, pageVars
  <2> QED BY <2>2, <2>4, <2>6, <2>7, <2>8, Assemble
<1>6. CASE ClearDisplay
  <2>1. /\ todo # <<>> /\ Head(todo) = "clear" /\ todo' = Tail(todo) /\ place # "ended"
        /\ PushBlocking({}, "Forced")
        /\ UNCHANGED <<queue, place, saver, inputs, pageVars, pending>>
    BY <1>6 DEF ClearDisplay, Apply, KeepLoop
  <2>2. TodoInv' /\ todo' = <<"sleep", "end">>
    BY <1>t, <2>1, Rest
  <2>3. todo' \in ShuttingDown /\ todo' # <<>> /\ Head(todo') = "sleep"
    BY <2>2, Two DEF ShuttingDown
  <2>4. UNCHANGED <<driverVars, panelVars>> \/ Push({})
    BY <2>1, BlockingPushes
  <2>5. DriverTypeOK' /\ DriverInv' /\ (asleep' => behind')
    BY <2>1, <2>4, EffectPushes
  <2>6. SleepInv'
    BY <2>1, <2>3, <2>5 DEF SleepInv
  <2>7. SaverInv'
    BY <1>t, <2>1, <2>3, Apart DEF SaverInv, pageVars, GoingToSleep
  <2>8. LoopTypeOK'
    BY <1>t, <2>1 DEF LoopTypeOK, pageVars
  <2> QED BY <2>2, <2>5, <2>6, <2>7, <2>8, Assemble
<1>7. CASE EndLoop
  <2>1. /\ todo # <<>> /\ Head(todo) = "end" /\ todo' = Tail(todo) /\ place' = "ended"
        /\ UNCHANGED <<queue, saver, inputs, pageVars, pending, driverVars, panelVars>>
    BY <1>7 DEF EndLoop, Apply
  <2>2. TodoInv' /\ todo' = <<>>
    BY <1>t, <2>1, Rest
  <2>3. DriverTypeOK' /\ DriverInv'
    BY <2>1, DriverKept
  <2>4. SleepInv'
    BY <2>1, <2>2 DEF SleepInv
  <2>5. SaverInv'
    BY <1>t, <2>1, <2>2, Apart DEF SaverInv, pageVars, GoingToSleep
  <2>6. LoopTypeOK'
    BY <1>t, <2>1 DEF LoopTypeOK, pageVars
  <2> QED BY <2>2, <2>3, <2>4, <2>5, <2>6, Assemble
<1> QED BY <1>1, <1>2, <1>3, <1>4, <1>5, <1>6, <1>7 DEF ApplyEffect

(* A handled event leaves the driver and the panel alone.                   *)
LEMMA HandleStep == PanelInv /\ HandleEvent => PanelInv'
<1> SUFFICES ASSUME PanelInv, HandleEvent PROVE PanelInv'
  OBVIOUS
<1>t. LoopTypeOK /\ TodoInv /\ SaverInv /\ SleepInv /\ DriverInv
  BY DEF PanelInv, PanelTypeOK, LoopTypeOK
<1>h. ASSUME NEW e, Handle(e)
      PROVE  /\ todo = <<>> /\ place # "ended" /\ place' = "drain"
             /\ queue # <<>> /\ Head(queue) = e /\ Tail(queue) \in Seq(Event)
             /\ ~ behind => (saver <=> asleep)
             /\ saver /\ ~ behind => page = "saver"
  BY <1>t, <1>h DEF Handle, LoopTypeOK, SleepInv
<1>m. "menu" \in Pages /\ "alert" \in Pages /\ {"Touch", "Deactivate"} \subseteq Event
      /\ Pages \subseteq Event
  BY EffectNames DEF Event
<1>1. CASE HandleTouch
  <2>1. /\ Handle("Touch") /\ UNCHANGED <<pageVars, driverVars, panelVars, inputs>>
        /\ UNCHANGED <<todo, saver, pending>>
        /\ \E e \in Pages \cup {"Deactivate"} : queue' \in {Tail(queue), Append(Tail(queue), e)}
    BY <1>1 DEF HandleTouch, KeepPanel, Took
  <2>2. LoopTypeOK'
    BY <1>t, <1>h, <1>m, <2>1 DEF LoopTypeOK, pageVars
  <2>3. DriverTypeOK' /\ DriverInv' /\ asleep' = asleep /\ behind' = behind
    BY <2>1, DriverKept
  <2>4. TodoInv' /\ SaverInv' /\ SleepInv'
    BY <1>t, <1>h, <2>1, <2>3 DEF TodoInv, SaverInv, SleepInv, pageVars
  <2> QED BY <2>2, <2>3, <2>4, Assemble
<1>2. CASE HandleInvalidate
  <2>1. /\ Handle("Invalidate") /\ UNCHANGED <<pageVars, driverVars, panelVars, inputs>>
        /\ queue' = Tail(queue) /\ UNCHANGED <<todo, saver>>
        /\ pending' = IF pending = "Transition" THEN "Transition" ELSE "InPlace"
    BY <1>2 DEF HandleInvalidate, KeepPanel, Took
  <2>2. LoopTypeOK'
    BY <1>t, <1>h, <2>1 DEF LoopTypeOK, pageVars, Renders
  <2>3. DriverTypeOK' /\ DriverInv' /\ asleep' = asleep /\ behind' = behind
    BY <2>1, DriverKept
  <2>4. TodoInv' /\ SaverInv' /\ SleepInv'
    BY <1>t, <1>h, <2>1, <2>3 DEF TodoInv, SaverInv, SleepInv, pageVars
  <2> QED BY <2>2, <2>3, <2>4, Assemble
<1>3. CASE HandleOpen
  <2>1. PICK p \in Pages :
          /\ Handle(p) /\ todo' \in {<<>>, <<p>>}
          /\ behind' = (behind \/ (saver /\ todo' # <<>>))
          /\ queue' = Tail(queue)
          /\ UNCHANGED <<saver, pending, pageVars, driverVars, ram, ink, driven, busy,
                         asleep, inputs>>
    BY <1>3 DEF HandleOpen, Took
  <2>2. LoopTypeOK'
    BY <1>t, <1>h, <2>1 DEF LoopTypeOK, pageVars
  <2>3. DriverTypeOK' /\ DriverInv'
    BY <2>1 DEF PanelInv, PanelTypeOK, DriverTypeOK, DriverInv, driverVars
  <2>4. CASE todo' = <<>>
    BY <1>t, <1>h, <2>1, <2>2, <2>3, <2>4, Assemble DEF TodoInv, SaverInv, SleepInv, pageVars
  <2>5. CASE todo' = <<p>>
    <3>1. todo' \in Opening /\ todo' # <<>> /\ Head(todo') = p /\ p # "wake"
      BY <2>5, One, EffectNames DEF Opening
    <3>2. TodoInv' /\ SaverInv'
      BY <1>t, <2>1, <3>1, Apart DEF TodoInv, Todos, SaverInv, pageVars, GoingToSleep
    <3>3. SleepInv'
      BY <1>t, <1>h, <2>1, <3>1 DEF SleepInv
    <3> QED BY <2>2, <2>3, <3>2, <3>3, Assemble
  <2> QED BY <2>1, <2>4, <2>5
<1>4. CASE HandleAlert
  <2>1. /\ Handle("Alert") /\ UNCHANGED <<pageVars, driverVars, panelVars, inputs>>
        /\ queue' = Tail(queue) /\ UNCHANGED pending
        /\ \/ UNCHANGED <<todo, saver>>
           \/ saver' = FALSE /\ todo' = WakeEffects \o <<"alert">>
    BY <1>4 DEF HandleAlert, KeepPanel, Took
  <2>2. LoopTypeOK'
    BY <1>t, <1>h, <2>1 DEF LoopTypeOK, pageVars
  <2>3. DriverTypeOK' /\ DriverInv' /\ asleep' = asleep /\ behind' = behind
    BY <2>1, DriverKept
  <2>4. CASE UNCHANGED <<todo, saver>>
    <3>1. TodoInv' /\ SaverInv' /\ SleepInv'
      BY <1>t, <1>h, <2>1, <2>3, <2>4 DEF TodoInv, SaverInv, SleepInv, pageVars
    <3> QED BY <2>2, <2>3, <3>1, Assemble
  <2>5. CASE saver' = FALSE /\ todo' = WakeEffects \o <<"alert">>
    <3>1. CASE saver
      <4>1. todo' = <<"wake", "rebuild", "alert">>
        <5>1. {"wake", "rebuild", "alert"} \subseteq Effect
          BY <1>m DEF Effect
        <5> QED BY <2>5, <3>1, <5>1, TwoOne DEF WakeEffects
      <4>2. todo' \in WakingUp /\ todo' # <<>> /\ Head(todo') = "wake"
        BY <4>1, Three DEF WakingUp
      <4>3. TodoInv' /\ SaverInv'
        BY <1>t, <2>1, <4>2, Apart DEF TodoInv, Todos, SaverInv, pageVars, GoingToSleep
      <4>4. SleepInv'
        BY <1>h, <2>1, <2>3, <2>5, <3>1, <4>2 DEF SleepInv
      <4> QED BY <2>2, <2>3, <4>3, <4>4, Assemble
    <3>2. CASE ~ saver
      <4>1. todo' = <<"alert">>
        BY <2>5, <3>2 DEF WakeEffects
      <4>2. todo' \in Opening /\ todo' # <<>> /\ Head(todo') = "alert"
        BY <1>m, <4>1, One DEF Opening
      <4>3. TodoInv' /\ SaverInv'
        BY <1>t, <2>1, <4>2, Apart DEF TodoInv, Todos, SaverInv, pageVars, GoingToSleep
      <4>4. SleepInv'
        BY <1>h, <2>1, <2>3, <2>5, <3>2, <4>2 DEF SleepInv
      <4> QED BY <2>2, <2>3, <4>3, <4>4, Assemble
    <3> QED BY <3>1, <3>2
  <2> QED BY <2>1, <2>4, <2>5
<1>5. CASE HandleActivate
  <2>1. /\ Handle("Activate") /\ UNCHANGED <<pageVars, driverVars, panelVars, inputs>>
        /\ queue' = Tail(queue) /\ UNCHANGED pending
        /\ \/ UNCHANGED <<todo, saver>>
           \/ ~ saver /\ saver' = TRUE /\ todo' = <<"drop", "sleep">>
    BY <1>5 DEF HandleActivate, KeepPanel, Took
  <2>2. LoopTypeOK'
    BY <1>t, <1>h, <2>1 DEF LoopTypeOK, pageVars
  <2>3. DriverTypeOK' /\ DriverInv' /\ asleep' = asleep /\ behind' = behind
    BY <2>1, DriverKept
  <2>4. CASE UNCHANGED <<todo, saver>>
    <3>1. TodoInv' /\ SaverInv' /\ SleepInv'
      BY <1>t, <1>h, <2>1, <2>3, <2>4 DEF TodoInv, SaverInv, SleepInv, pageVars
    <3> QED BY <2>2, <2>3, <3>1, Assemble
  <2>5. CASE ~ saver /\ saver' = TRUE /\ todo' = <<"drop", "sleep">>
    <3>1. todo' \in GoingToSleep /\ todo' # <<>> /\ Head(todo') = "drop" /\ todo' # <<"sleep">>
      BY <2>5, One, Two DEF GoingToSleep
    <3>2. TodoInv' /\ SaverInv'
      BY <1>t, <2>1, <2>5, <3>1 DEF TodoInv, Todos, SaverInv, pageVars
    <3>3. SleepInv'
      BY <1>h, <2>1, <2>3, <2>5, <3>1 DEF SleepInv
    <3> QED BY <2>2, <2>3, <3>2, <3>3, Assemble
  <2> QED BY <2>1, <2>4, <2>5
<1>6. CASE HandleDeactivate
  <2>1. /\ Handle("Deactivate") /\ UNCHANGED <<pageVars, driverVars, panelVars, inputs>>
        /\ queue' = Tail(queue) /\ UNCHANGED pending
        /\ saver' = FALSE /\ todo' = WakeEffects
    BY <1>6 DEF HandleDeactivate, KeepPanel, Took
  <2>2. LoopTypeOK'
    BY <1>t, <1>h, <2>1 DEF LoopTypeOK, pageVars
  <2>3. DriverTypeOK' /\ DriverInv' /\ asleep' = asleep /\ behind' = behind
    BY <2>1, DriverKept
  <2>4. CASE saver
    <3>1. todo' \in WakingUp /\ todo' # <<>> /\ Head(todo') = "wake"
      BY <2>1, <2>4, Two DEF WakingUp, WakeEffects
    <3>2. TodoInv' /\ SaverInv'
      BY <1>t, <2>1, <3>1, Apart DEF TodoInv, Todos, SaverInv, pageVars, GoingToSleep
    <3>3. SleepInv'
      BY <1>h, <2>1, <2>3, <2>4, <3>1 DEF SleepInv
    <3> QED BY <2>2, <2>3, <3>2, <3>3, Assemble
  <2>5. CASE ~ saver
    <3>1. todo' = <<>> /\ todo' = todo /\ saver' = saver
      BY <1>h, <1>t, <2>1, <2>5 DEF WakeEffects, LoopTypeOK
    <3>2. TodoInv' /\ SaverInv' /\ SleepInv'
      BY <1>t, <1>h, <2>1, <2>3, <3>1 DEF TodoInv, SaverInv, SleepInv, pageVars
    <3> QED BY <2>2, <2>3, <3>2, Assemble
  <2> QED BY <2>4, <2>5
<1>7. CASE HandleShutdown
  <2>1. /\ Handle("Shutdown") /\ UNCHANGED <<pageVars, driverVars, panelVars, inputs>>
        /\ queue' = Tail(queue) /\ UNCHANGED <<saver, pending>>
        /\ todo' = (IF saver THEN <<"wake">> ELSE <<>>) \o <<"clear", "sleep", "end">>
    BY <1>7 DEF HandleShutdown, KeepPanel, Took
  <2>2. LoopTypeOK'
    BY <1>t, <1>h, <2>1 DEF LoopTypeOK, pageVars
  <2>3. DriverTypeOK' /\ DriverInv' /\ asleep' = asleep /\ behind' = behind
    BY <2>1, DriverKept
  <2>4. todo' = IF saver THEN <<"wake", "clear", "sleep", "end">>
                ELSE <<"clear", "sleep", "end">>
    <3>1. <<"wake">> \o <<"clear", "sleep", "end">> = <<"wake", "clear", "sleep", "end">>
      <4>1. {"wake", "clear", "sleep", "end"} \subseteq Effect
        BY DEF Effect
      <4> QED BY <4>1, OneThree
    <3>2. <<>> \o <<"clear", "sleep", "end">> = <<"clear", "sleep", "end">>
      OBVIOUS
    <3> QED BY <2>1, <3>1, <3>2
  <2>5. todo' \in ShuttingDown /\ todo' # <<>> /\ Head(todo') = IF saver THEN "wake" ELSE "clear"
    BY <2>4, Three, Four DEF ShuttingDown
  <2>6. TodoInv' /\ SaverInv'
    BY <1>t, <2>1, <2>5, Apart DEF TodoInv, Todos, SaverInv, pageVars, GoingToSleep
  <2>7. SleepInv'
    BY <1>h, <2>1, <2>3, <2>5 DEF SleepInv
  <2> QED BY <2>2, <2>3, <2>6, <2>7, Assemble
<1> QED BY <1>1, <1>2, <1>3, <1>4, <1>5, <1>6, <1>7 DEF HandleEvent

(* What the end of a turn does about a deferred render.                     *)
LEMMA FlushCases ==
    ASSUME PanelInv, Flush
    PROVE  /\ todo = <<>> /\ place # "ended" /\ place' = "wait" /\ pending' \in {pending, "None"}
           /\ UNCHANGED <<queue, todo, saver, pageVars, inputs>>
           /\ \/ UNCHANGED <<driverVars, panelVars>>
              \/ /\ Push(Drawn(page))
                 /\ page = "saver" => ~ saver
<1>1. /\ todo = <<>> /\ place # "ended" /\ place' = "wait" /\ pending \in Renders
      /\ UNCHANGED <<queue, todo, saver, pageVars, inputs>>
  BY DEF Flush, PanelInv, PanelTypeOK
<1>2. CASE pending' = "None" /\ UNCHANGED <<driverVars, panelVars>>
  BY <1>1, <1>2
<1>3. CASE /\ pending # "None" /\ ~ (pending = "InPlace" /\ saver)
           /\ FlushRender(pending)
  <2>1. /\ UNCHANGED <<driverVars, panelVars>> \/ Push(Drawn(page))
        /\ pending' \in {pending, "None"}
    BY <1>3, BailingPushes DEF FlushRender
  <2>2. page = "saver" => ~ saver
    BY <1>1, <1>3 DEF PanelInv, SaverInv, Renders
  <2> QED BY <1>1, <2>1, <2>2
<1> QED BY <1>2, <1>3 DEF Flush

(* Every step keeps the invariant.                                          *)
LEMMA PanelStep == PanelInv /\ [PanelNext]_panelAll => PanelInv'
<1> SUFFICES ASSUME PanelInv, [PanelNext]_panelAll PROVE PanelInv'
  OBVIOUS
<1>t. LoopTypeOK /\ TodoInv /\ SaverInv /\ SleepInv /\ DriverInv
  BY DEF PanelInv, PanelTypeOK, LoopTypeOK
<1>1. CASE ApplyEffect
  BY <1>1, EffectStep
<1>2. CASE HandleEvent
  BY <1>2, HandleStep
<1>3. CASE Flush
  <2>1. /\ todo = <<>> /\ place # "ended" /\ place' = "wait" /\ pending' \in {pending, "None"}
        /\ UNCHANGED <<queue, todo, saver, pageVars, inputs>>
        /\ \/ UNCHANGED <<driverVars, panelVars>>
           \/ /\ Push(Drawn(page))
              /\ page = "saver" => ~ saver
    BY <1>3, FlushCases
  <2>2. LoopTypeOK' /\ TodoInv' /\ SaverInv'
    BY <1>t, <2>1 DEF LoopTypeOK, TodoInv, SaverInv, Renders, pageVars
  <2>3. CASE UNCHANGED <<driverVars, panelVars>>
    <3>1. DriverTypeOK' /\ DriverInv' /\ asleep' = asleep /\ behind' = behind
      BY <2>3, DriverKept
    <3>2. SleepInv'
      BY <1>t, <2>1, <3>1 DEF SleepInv, pageVars
    <3> QED BY <2>2, <3>1, <3>2, Assemble
  <2>4. CASE Push(Drawn(page)) /\ (page = "saver" => ~ saver)
    <3>1. saver => behind
      BY <1>t, <2>1, <2>4 DEF SleepInv
    <3>2. asleep => behind
      BY <1>t, <2>1, <3>1 DEF SleepInv
    <3>3. Drawn(page) \in SUBSET Pixels
      BY <1>t, DrawnType DEF LoopTypeOK, PanelInv
    <3>4. /\ DriverTypeOK' /\ DriverInv' /\ (asleep' => asleep /\ behind')
          /\ saver => behind' = behind
      BY <2>4, <3>2, <3>3, PushKeeps DEF PanelInv, PanelTypeOK, DriverTypeOK
    <3>5. SleepInv'
      BY <2>1, <3>1, <3>4 DEF SleepInv
    <3> QED BY <2>2, <3>4, <3>5, Assemble
  <2> QED BY <2>1, <2>3, <2>4
<1>4. CASE Timeout
  <2>1. DriverTypeOK' /\ DriverInv' /\ asleep' = asleep /\ behind' = behind
    BY <1>4, DriverKept DEF Timeout
  <2>2. LoopTypeOK' /\ TodoInv' /\ SaverInv' /\ SleepInv'
    BY <1>4, <1>t, <2>1 DEF Timeout, LoopTypeOK, TodoInv, SaverInv, SleepInv, pageVars
  <2> QED BY <2>1, <2>2, Assemble
<1>5. CASE RefreshDone
  <2>1. DriverTypeOK' /\ DriverInv' /\ asleep' = asleep /\ behind' = behind
    BY <1>5, <1>t DEF RefreshDone, PanelInv, PanelTypeOK, DriverTypeOK, DriverInv, driverVars
  <2>2. LoopTypeOK' /\ TodoInv' /\ SaverInv' /\ SleepInv'
    BY <1>5, <1>t, <2>1 DEF RefreshDone, LoopTypeOK, TodoInv, SaverInv, SleepInv, pageVars,
       loopVars
  <2> QED BY <2>1, <2>2, Assemble
<1>6. ASSUME NEW e \in {"Invalidate", "Touch", "Alert", "Activate", "Shutdown"},
             Send(e), data' \in Data
      PROVE  PanelInv'
  <2>1. DriverTypeOK' /\ DriverInv' /\ asleep' = asleep /\ behind' = behind
    BY <1>6, DriverKept DEF Send
  <2>2. e \in Event
    BY DEF Event
  <2>3. LoopTypeOK' /\ TodoInv' /\ SaverInv' /\ SleepInv'
    BY <1>6, <1>t, <2>1, <2>2 DEF Send, LoopTypeOK, TodoInv, SaverInv, SleepInv
  <2> QED BY <2>1, <2>3, Assemble
<1>7. CASE UNCHANGED panelAll
  <2>1. DriverTypeOK' /\ DriverInv' /\ asleep' = asleep /\ behind' = behind
    BY <1>7, DriverKept DEF panelAll
  <2>2. LoopTypeOK' /\ TodoInv' /\ SaverInv' /\ SleepInv'
    BY <1>7, <1>t, <2>1 DEF panelAll, LoopTypeOK, TodoInv, SaverInv, SleepInv, pageVars,
       loopVars
  <2> QED BY <2>1, <2>2, Assemble
<1> QED
  BY <1>t, <1>1, <1>2, <1>3, <1>4, <1>5, <1>6, <1>7 DEF PanelNext, Signed, Outside, LoopTypeOK

(* The invariant holds throughout.                                          *)
LEMMA PanelAlways == PanelSpec => []PanelInv
<1>1. PanelInit => PanelInv
  <2> SUFFICES ASSUME PanelInit PROVE PanelInv
    OBVIOUS
  <2>1. TodoInv /\ todo \in Seq(Effect)
    BY TodoType DEF PanelInit, TodoInv, Todos
  <2>2. SaverInv /\ SleepInv /\ DriverInv
    BY EffectNames, Apart, One DEF PanelInit, SaverInv, SleepInv, DriverInv
  <2>3. queue \in Seq(Event)
    BY EffectNames DEF PanelInit, Event
  <2> QED BY <2>1, <2>2, <2>3, EffectNames DEF PanelInit, PanelInv, PanelTypeOK, Renders
<1> QED BY <1>1, PanelStep, PTL DEF PanelSpec

-----------------------------------------------------------------------------
(* The theorems.                                                            *)

(* The panel and the loop keep their types.                                 *)
THEOREM PanelTypeCorrect == PanelSpec => []PanelTypeOK
<1>1. PanelInv => PanelTypeOK
  BY DEF PanelInv
<1> QED BY <1>1, PanelAlways, PTL

(* A push that overtakes a running refresh turns no pixel round that is in  *)
(* motion (needs_idle_wait, has_overlap).                                   *)
LEMMA PushReversesNothing ==
    ASSUME DriverInv, NEW f \in SUBSET Pixels, busy, ~ behind, Push(f)
    PROVE  Diff(ram, ram') \cap driven = {}
<1>1. PICK mode \in {"full", "partial"}, line \in Line :
          ~ MustWait(mode, line, f) /\ Display(f, mode, line)
  BY DEF Push
<1>2. ~ asleep /\ pushed /\ ram = last /\ line = TRUE
  BY <1>1 DEF DriverInv, Line
<1>3. lastMode = "partial" /\ dirty \cap Diff(last, f) = {}
  BY <1>1, <1>2 DEF MustWait
<1>4. driven \subseteq dirty
  BY <1>2, <1>3 DEF DriverInv
<1>5. ram' = f
  BY <1>1, <1>2 DEF Display, Refresh
<1> QED BY <1>2, <1>3, <1>4, <1>5

(* No push turns a pixel round that is in motion, however page changes,     *)
(* repaints and alerts follow each other (needs_idle_wait).                 *)
THEOREM NothingReversed == PanelSpec => NoPixelReversed
<1>1. ASSUME PanelInv, [PanelNext]_panelAll, busy, busy', ~ behind
      PROVE  Diff(ram, ram') \cap driven = {}
  <2>0. PanelTypeOK /\ DriverInv
    BY <1>1 DEF PanelInv
  <2>1. CASE ram' = ram
    BY <2>1 DEF Diff
  <2>2. ASSUME NEW f \in SUBSET Pixels, UNCHANGED <<driverVars, panelVars>> \/ Push(f)
        PROVE  Diff(ram, ram') \cap driven = {}
    <3>1. CASE UNCHANGED <<driverVars, panelVars>>
      BY <2>1, <3>1 DEF panelVars
    <3>2. CASE Push(f)
      BY <1>1, <2>0, <3>2, PushReversesNothing
    <3> QED BY <2>2, <3>1, <3>2
  <2>3. ASSUME NEW p \in Pages, ShowPage(p) PROVE Diff(ram, ram') \cap driven = {}
    BY <2>0, <2>2, <2>3, DrawnType, BailingPushes DEF ShowPage, TryTransition
  <2>4. CASE RebuildSavedPage
    <3>1. saved \in Pages
      BY <2>0 DEF PanelTypeOK
    <3> QED BY <2>0, <2>2, <2>4, <3>1, DrawnType, BailingPushes DEF RebuildSavedPage, TryTransition
  <2>5. CASE DropCurrentPage
    BY <2>0, <2>2, <2>5, DrawnType, BlockingPushes DEF DropCurrentPage
  <2>6. CASE ClearDisplay
    BY <2>2, <2>6, BlockingPushes DEF ClearDisplay
  <2>7. CASE Flush
    <3>1. page \in Pages \cup {"saver"}
      BY <2>0 DEF PanelTypeOK
    <3> QED BY <1>1, <2>0, <2>2, <2>7, <3>1, DrawnType, FlushCases
  <2>8. CASE SleepDisplay \/ WakeDisplay \/ EndLoop \/ Timeout \/ RefreshDone
    BY <2>1, <2>8 DEF SleepDisplay, WakeDisplay, EndLoop, Timeout, RefreshDone, panelVars
  <2>9. CASE HandleEvent
    BY <2>1, <2>9 DEF HandleEvent, HandleTouch, HandleInvalidate, HandleOpen, HandleAlert,
       HandleActivate, HandleDeactivate, HandleShutdown, KeepPanel, panelVars
  <2>10. CASE Signed \/ Outside \/ UNCHANGED panelAll
    BY <2>1, <2>10 DEF Signed, Outside, Send, panelAll, panelVars
  <2> QED
    BY <1>1, <2>3, <2>4, <2>5, <2>6, <2>7, <2>8, <2>9, <2>10 DEF PanelNext, ApplyEffect
<1>2. PanelInv /\ [PanelNext]_panelAll =>
         [busy /\ busy' /\ ~ behind => Diff(ram, ram') \cap driven = {}]_panelAll
  BY <1>1
<1> QED BY <1>2, PanelAlways, PTL DEF PanelSpec, NoPixelReversed

(* A panel that sleeps behind the logo is left alone: no deferred render    *)
(* lands on it (apply_drop_current_page, should_flush_repaint).             *)
THEOREM SleepsOn == PanelSpec => SleepsUndisturbed
<1>1. ASSUME PanelInv, [PanelNext]_panelAll, asleep, page = "saver", todo = <<>>
      PROVE  UNCHANGED <<driverVars, ram, asleep>>
  <2>1. CASE ApplyEffect
    BY <1>1, <2>1 DEF ApplyEffect, ShowPage, RebuildSavedPage, DropCurrentPage, SleepDisplay,
       WakeDisplay, ClearDisplay, EndLoop, Apply
  <2>2. CASE HandleEvent
    BY <2>2 DEF HandleEvent, HandleTouch, HandleInvalidate, HandleOpen, HandleAlert,
       HandleActivate, HandleDeactivate, HandleShutdown, KeepPanel, panelVars
  <2>3. CASE Flush
    <3>1. saver
      BY <1>1, <2>3 DEF Flush, PanelInv, SaverInv
    <3> QED BY <1>1, <2>3, <3>1, FlushCases DEF panelVars
  <2>4. CASE Timeout \/ RefreshDone \/ Signed \/ Outside \/ UNCHANGED panelAll
    BY <2>4 DEF Timeout, RefreshDone, Signed, Outside, Send, panelAll, panelVars
  <2> QED BY <1>1, <2>1, <2>2, <2>3, <2>4 DEF PanelNext
<1>2. PanelInv /\ [PanelNext]_panelAll =>
         [asleep /\ page = "saver" /\ todo = <<>> =>
             UNCHANGED <<driverVars, ram, asleep>>]_panelAll
  BY <1>1
<1> QED BY <1>2, PanelAlways, PTL DEF PanelSpec, SleepsUndisturbed
=============================================================================
