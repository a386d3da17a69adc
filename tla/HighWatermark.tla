---------------------------- MODULE HighWatermark ----------------------------
(***************************************************************************)
(* The per-key watermark store of libs/signer/src/high_watermark.rs: three *)
(* files per key (block, preattestation, attestation), the in-memory       *)
(* cache, and what the store believes of stable storage.                   *)
(*                                                                         *)
(* A slot is a key and an operation type.  disk[s] is the set of contents  *)
(* the file of slot s may have after a power loss: pwrite adds the new     *)
(* mark and, with TornWrites, NoMark (a torn record, whose MAC does not    *)
(* verify), a successful fdatasync leaves exactly the mark written, and a  *)
(* failed one leaves the set as it is.                                     *)
(***************************************************************************)
EXTENDS Marks

CONSTANTS Keys,         \* the tz4 keys the signer holds
          NumOps,       \* operation types (OperationType::ALL; 3 in the code)
          TornWrites    \* whether a power loss can tear a record in flight

ASSUME NumOpsAssumption == NumOps \in Nat \ {0}
ASSUME TornAssumption == TornWrites \in BOOLEAN

Ops == 0 .. NumOps - 1

Slots == Keys \X Ops

VARIABLES entries,      \* PerKeyWatermark.entries: the in-memory marks
          diskCeiling,  \* PerKeyWatermark.disk_ceiling
          diskEntries,  \* PerKeyWatermark.disk_entries
          disk          \* the files, as sets of contents a crash may leave

storeVars == <<entries, diskCeiling, diskEntries, disk>>

StoreTypeOK ==
    /\ entries     \in [Slots -> OptMark]
    /\ diskCeiling \in [Slots -> OptMark]
    /\ diskEntries \in [Slots -> OptMark]
    /\ disk        \in [Slots -> SUBSET OptMark]

NoMarks == [s \in Slots |-> NoMark]

(* The levels of a key's marks; get_max_level is their maximum, None when   *)
(* there is none.                                                           *)
MarkedLevels(k) ==
    {entries[s].level : s \in {t \in Slots : t[1] = k /\ entries[t] # NoMark}}

MaxMarkedLevel(k) ==
    CHOOSE l \in MarkedLevels(k) : \A m \in MarkedLevels(k) : m <= l

(* load_per_key_watermark for every key: the contents the files turn out to *)
(* have become the marks, and no ceiling is known.                          *)
Load ==
    \E found \in [Slots -> UNION {disk[s] : s \in Slots}] :
        /\ \A s \in Slots : found[s] \in disk[s]
        /\ disk' = [s \in Slots |-> {found[s]}]
        /\ entries' = found
        /\ diskEntries' = found
        /\ diskCeiling' = NoMarks

(* write_all_at: the bytes are handed to the kernel.  Whether the call      *)
(* succeeds or fails part way, a crash may leave the old content, the new   *)
(* one or a torn one.                                                       *)
InFlight(m) == {m} \cup {x \in {NoMark} : TornWrites}

Pwrite(s, m) == disk' = [disk EXCEPT ![s] = @ \cup InFlight(m)]

(* Mutant: the claimed ceiling survives the write that replaces it. *)
MarkSyncedKeepsCeiling(s, m) ==
    /\ disk' = [disk EXCEPT ![s] = {m}]
    /\ diskEntries' = [diskEntries EXCEPT ![s] = m]
    /\ UNCHANGED diskCeiling

(* sync_data succeeded, and write_watermark (and rollback_disk_watermark)   *)
(* record it: the mark is the content, and no ceiling is claimed.           *)
MarkSynced(s, m) ==
    /\ disk' = [disk EXCEPT ![s] = {m}]
    /\ diskCeiling' = [diskCeiling EXCEPT ![s] = NoMark]
    /\ diskEntries' = [diskEntries EXCEPT ![s] = m]

(* sync_data succeeded in write_ceiling. *)
CeilingSynced(s, m) ==
    /\ disk' = [disk EXCEPT ![s] = {m}]
    /\ diskCeiling' = [diskCeiling EXCEPT ![s] = m]
    /\ diskEntries' = [diskEntries EXCEPT ![s] = m]

(* The two early returns of write_ceiling. *)
CeilingNotNeeded(s, level) ==
    \/ entries[s] # NoMark /\ entries[s].level >= level
    \/ diskCeiling[s] # NoMark /\ diskCeiling[s].level >= level

(* rollback_update: the in-memory mark returns to the one before. *)
Rollback(s, prev) == entries' = [entries EXCEPT ![s] = prev]

(* update_to_level, first half: every mark of the key is set in memory,     *)
(* whatever it was.                                                         *)
SetFloorInMemory(k, level) ==
    entries' = [s \in Slots |-> IF s[1] = k THEN FloorAt(level) ELSE entries[s]]

(* Mutant: one mark under the floor is enough to seed all of them. *)
FloorMetByAll(k, level) ==
    MarkedLevels(k) # {} /\ \A l \in MarkedLevels(k) : l >= level

(* seed_floor returns early when some mark is already at or above. *)
FloorAlreadyMet(k, level) ==
    MarkedLevels(k) # {} /\ MaxMarkedLevel(k) >= level
=============================================================================
