-------------------------------- MODULE Signer --------------------------------
(***************************************************************************)
(* The signing device between two power losses and across them: the        *)
(* connection threads that run handle_sign (libs/signer/src/server.rs) on  *)
(* the watermark store, the delayed ceiling threads they spawn, the UI     *)
(* thread that turns an operator's confirmation into update_to_level       *)
(* (rpi-signer/src/app.rs, main.rs), and the boot that consumes a staged   *)
(* floor, loads the files and seeds the floor after the PIN.               *)
(*                                                                         *)
(* All of them take the RwLock around the store: lock names the thread     *)
(* that holds it for writing.  A read lock is taken and dropped within one *)
(* step, so it appears as the guard lock = None.                           *)
(***************************************************************************)
EXTENDS HighWatermark, Sequences

CONSTANTS Conns,        \* connection threads
          Ceilers,      \* slots for outstanding ceiling threads (a bound)
          Ui,           \* the UI thread, as a holder of the lock
          None,         \* Option::None for everything that is not a mark
          Requests,     \* sign requests the baker may send
          ConfigLevels, \* floors the host utility may stage on the card
          GapThreshold, \* LARGE_GAP_CYCLES * blocks_per_cycle
          MaxQueue,     \* bound on the UI event channel
          Failing,      \* whose disk I/O may return an error
          SignMayFail   \* whether BLS signing may return an error

Writers == {"sign", "rollback", "ceiling", "operator"}

ASSUME ThreadAssumption ==
    /\ Ui \notin Conns \cup Ceilers \cup {None}
    /\ None \notin Conns \cup Ceilers
    /\ Conns \cap Ceilers = {}
ASSUME RequestAssumption == Requests \subseteq [slot : Slots, mark : Mark]
ASSUME ConfigAssumption == ConfigLevels \subseteq (Level \ {0})
ASSUME BoundAssumption == GapThreshold \in Nat /\ MaxQueue \in Nat
ASSUME FailAssumption == Failing \subseteq Writers /\ SignMayFail \in BOOLEAN
ASSUME NoneAssumption ==
    /\ None \notin Requests
    /\ None \notin Level
    /\ None \notin [slot : Slots, level : Level]
    /\ None \notin [key : Keys, level : Level, op : Ops,
                    stage : {"pwrite", "sync"}]

VARIABLES phase,        \* "off", "pin", "seed" or "active"
          config,       \* the floor staged on the boot partition, or None
          staged,       \* App.pending_watermark_level
          seedLeft,     \* keys apply_init_watermark has still to seed
          lock,         \* the thread that holds the store's write lock
          pc, req, prev,\* per connection: point in handle_sign, request, undo
          jobs,         \* per ceiling thread: the ceiling it will write
          upd,          \* update_to_level in progress on the UI thread
          queue,        \* the UI event channel
          dialog,       \* the modal page shown
          issued,       \* history: positions signed, per slot
          doubled,      \* history: a position was signed twice
          lowered,      \* history: a floor was set under a signed position
          doubt,        \* history: the ceiling claimed may not be on the card,
                        \* since a write of another mark over it failed
          risked        \* history: a signature rests on such a ceiling

bootVars == <<phase, config, staged, seedLeft>>
connVars == <<pc, req, prev>>
uiVars   == <<upd, queue, dialog>>
history  == <<issued, doubled, lowered>>
trust    == <<doubt, risked>>
vars == <<storeVars, bootVars, lock, connVars, jobs, uiVars, history, trust>>

Points == {"idle", "check", "fast", "pwrite", "sync", "undo", "undosync",
           "respond"}
Holding == {"fast", "pwrite", "sync", "undo", "undosync"}

Job    == [slot : Slots, level : Level]
Update == [key : Keys, level : Level, op : Ops, stage : {"pwrite", "sync"}]

NoDialog == [kind |-> "none"]
ErrorDialog == [kind |-> "error"]
ConfirmDialog == [kind : {"confirm"}, key : Keys, level : Level]
Menu  == [kind |-> "menu"]
Event == [kind : {"alert", "update"}, key : Keys, level : Level] \cup {Menu}

BootTypeOK ==
    /\ phase \in {"off", "pin", "seed", "active"}
    /\ config \in Level \cup {None}
    /\ staged \in Level \cup {None}
    /\ seedLeft \in SUBSET Keys

ConnTypeOK ==
    /\ pc \in [Conns -> Points]
    /\ req \in [Conns -> Requests \cup {None}]
    /\ prev \in [Conns -> OptMark]

LockTypeOK ==
    /\ lock \in Conns \cup Ceilers \cup {Ui, None}
    /\ jobs \in [Ceilers -> Job \cup {None}]
    /\ upd \in Update \cup {None}

UiTypeOK ==
    /\ queue \in Seq(Event)
    /\ dialog \in ConfirmDialog \cup {NoDialog, ErrorDialog}

HistoryTypeOK ==
    /\ issued \in [Slots -> SUBSET Mark]
    /\ doubled \in [Slots -> BOOLEAN]
    /\ lowered \in [Slots -> BOOLEAN]
    /\ doubt \in [Slots -> BOOLEAN]
    /\ risked \in [Slots -> BOOLEAN]

(* Every variable keeps its type: the marks are u32 pairs or absent, the    *)
(* channel carries events of the three kinds, the lock names a thread.      *)
TypeOK == /\ StoreTypeOK /\ BootTypeOK /\ ConnTypeOK /\ LockTypeOK
          /\ UiTypeOK /\ HistoryTypeOK

(* A card whose keys exist and whose watermark files do not. *)
Init ==
    /\ entries = NoMarks
    /\ diskCeiling = NoMarks
    /\ diskEntries = NoMarks
    /\ disk = [s \in Slots |-> {NoMark}]
    /\ phase = "off"
    /\ config = None
    /\ staged = None
    /\ seedLeft = {}
    /\ lock = None
    /\ pc = [c \in Conns |-> "idle"]
    /\ req = [c \in Conns |-> None]
    /\ prev = [c \in Conns |-> NoMark]
    /\ jobs = [t \in Ceilers |-> None]
    /\ upd = None
    /\ queue = <<>>
    /\ dialog = NoDialog
    /\ issued = [s \in Slots |-> {}]
    /\ doubled = [s \in Slots |-> FALSE]
    /\ lowered = [s \in Slots |-> FALSE]
    /\ doubt = [s \in Slots |-> FALSE]
    /\ risked = [s \in Slots |-> FALSE]

-----------------------------------------------------------------------------
(* handle_sign.  S(c) and M(c) are the slot and the mark of c's request.    *)

S(c) == req[c].slot
M(c) == req[c].mark

Return(c) ==
    /\ pc' = [pc EXCEPT ![c] = "idle"]
    /\ req' = [req EXCEPT ![c] = None]
    /\ prev' = [prev EXCEPT ![c] = NoMark]

Goto(c, point) == pc' = [pc EXCEPT ![c] = point] /\ UNCHANGED <<req, prev>>

(* A mark is put over what the file of s held: when that fails, the claim   *)
(* stays and the file may hold either; a sync that succeeds settles it.     *)
OverwriteFailed(s) == /\ doubt' = [doubt EXCEPT ![s] = @ \/ diskCeiling[s] # NoMark]
                      /\ UNCHANGED risked
Settled(s) == doubt' = [doubt EXCEPT ![s] = FALSE] /\ UNCHANGED risked

Missing(r) == MarkedLevels(r.slot[1]) = {}

LargeGap(r) ==
    /\ ~ Missing(r)
    /\ r.mark.level > MaxMarkedLevel(r.slot[1]) + GapThreshold

(* The prechecks, under the read lock.  A missing floor or a large gap is   *)
(* refused and told to the UI; anything else goes on to the write lock.     *)
Precheck(c, r) ==
    /\ phase = "active" /\ pc[c] = "idle" /\ lock = None
    /\ \/ /\ Missing(r) \/ LargeGap(r)
          /\ Len(queue) < MaxQueue
          /\ queue' = Append(queue, [kind |-> "alert", key |-> r.slot[1],
                                     level |-> r.mark.level])
          /\ UNCHANGED connVars
       \/ /\ ~ Missing(r) /\ ~ LargeGap(r)
          /\ pc' = [pc EXCEPT ![c] = "check"]
          /\ req' = [req EXCEPT ![c] = r]
          /\ UNCHANGED <<prev, queue>>
    /\ UNCHANGED <<storeVars, bootVars, lock, jobs, upd, dialog, history, trust>>

(* check_and_update_parsed under the write lock.  A refusal drops the lock  *)
(* and is only logged; an accepted request advances the mark in memory and  *)
(* keeps the lock, on the fast path when a ceiling on disk covers it.       *)
CheckAndUpdate(c) ==
    /\ pc[c] = "check" /\ lock = None
    /\ \/ /\ ~ Accepts(entries[S(c)], M(c))
          /\ Return(c)
          /\ UNCHANGED <<lock, entries>>
       \/ /\ Accepts(entries[S(c)], M(c))
          /\ entries' = [entries EXCEPT ![S(c)] = M(c)]
          /\ prev' = [prev EXCEPT ![c] = entries[S(c)]]
          /\ pc' = [pc EXCEPT ![c] = IF CeilingCovers(diskCeiling[S(c)], M(c))
                                     THEN "fast" ELSE "pwrite"]
          /\ lock' = c
          /\ UNCHANGED req
    /\ UNCHANGED <<diskCeiling, diskEntries, disk, bootVars, jobs, uiVars,
                   history, trust>>

(* Signing and persisting both succeeded: the lock is dropped and the       *)
(* signature will be returned.                                              *)
Sign(c) ==
    /\ issued' = [issued EXCEPT ![S(c)] = @ \cup {M(c)}]
    /\ doubled' = [doubled EXCEPT ![S(c)] = @ \/ M(c) \in issued[S(c)]]
    /\ lock' = None
    /\ Goto(c, "respond")
    /\ UNCHANGED <<entries, lowered>>

(* Signing failed with the mark on disk: the mark is rolled back in memory, *)
(* and the lock is kept to roll back the file.                              *)
SignFailed(c) ==
    /\ SignMayFail
    /\ Rollback(S(c), prev[c])
    /\ Goto(c, "undo")
    /\ UNCHANGED <<lock, history>>

(* Mutant: an early return that keeps the lock. *)
RefuseKeepsLock(c) ==
    /\ Rollback(S(c), prev[c])
    /\ Return(c)
    /\ UNCHANGED <<lock, history>>

(* The write failed: rolled back in memory, lock dropped, refused. *)
Refuse(c) ==
    /\ Rollback(S(c), prev[c])
    /\ lock' = None
    /\ Return(c)
    /\ UNCHANGED history

(* The fast path: a ceiling covers the mark, so only the signature is made. *)
SignCovered(c) ==
    /\ pc[c] = "fast"
    /\ \/ /\ Sign(c)
          /\ risked' = [risked EXCEPT ![S(c)] = @ \/ doubt[S(c)]]
          /\ UNCHANGED doubt
       \/ SignFailed(c) /\ UNCHANGED trust
    /\ UNCHANGED <<diskCeiling, diskEntries, disk, bootVars, jobs, uiVars>>

(* The slow path, write_watermark's write_all_at. *)
WriteMark(c) ==
    /\ pc[c] = "pwrite"
    /\ Pwrite(S(c), M(c))
    /\ \/ Goto(c, "sync") /\ UNCHANGED <<entries, lock, history>>
       \/ "sign" \in Failing /\ Refuse(c)
    /\ UNCHANGED <<diskCeiling, diskEntries, bootVars, jobs, uiVars, trust>>

(* Mutant: a failed sync_data is taken for a success. *)
SyncMarkIgnoresError(c) ==
    /\ pc[c] = "sync"
    /\ Sign(c) \/ SignFailed(c)
    /\ Settled(S(c))
    /\ \/ MarkSynced(S(c), M(c))
       \/ "sign" \in Failing /\ UNCHANGED <<diskCeiling, diskEntries, disk>>
    /\ UNCHANGED <<bootVars, jobs, uiVars>>

(* The slow path, write_watermark's sync_data, joined with the signature    *)
(* made in parallel.                                                        *)
SyncMark(c) ==
    /\ pc[c] = "sync"
    /\ \/ /\ MarkSynced(S(c), M(c)) /\ Settled(S(c))
          /\ Sign(c) \/ SignFailed(c)
       \/ /\ "sign" \in Failing
          /\ Refuse(c)
          /\ UNCHANGED <<diskCeiling, diskEntries, disk, trust>>
    /\ UNCHANGED <<bootVars, jobs, uiVars>>

(* rollback_disk_watermark: an error of either call is logged and leaves    *)
(* disk_ceiling and disk_entries as they were.                              *)
UndoWrite(c) ==
    /\ pc[c] = "undo"
    /\ Pwrite(S(c), prev[c])
    /\ \/ Goto(c, "undosync") /\ UNCHANGED <<lock, trust>>
       \/ /\ "rollback" \in Failing /\ OverwriteFailed(S(c))
          /\ Return(c) /\ lock' = None
    /\ UNCHANGED <<entries, diskCeiling, diskEntries, bootVars, jobs, uiVars,
                   history>>

UndoSync(c) ==
    /\ pc[c] = "undosync"
    /\ \/ MarkSynced(S(c), prev[c]) /\ Settled(S(c))
       \/ /\ "rollback" \in Failing /\ OverwriteFailed(S(c))
          /\ UNCHANGED <<diskCeiling, diskEntries, disk>>
    /\ Return(c) /\ lock' = None
    /\ UNCHANGED <<entries, bootVars, jobs, uiVars, history>>

(* A thread is spawned; where all that Ceilers allows are out, one that     *)
(* does not get to write.                                                   *)
Schedule(c, level) ==
    \/ \E t \in Ceilers :
          /\ jobs[t] = None
          /\ jobs' = [jobs EXCEPT ![t] = [slot |-> S(c), level |-> level]]
    \/ (\A t \in Ceilers : jobs[t] # None) /\ UNCHANGED jobs

(* Mutants: the next level computed without checked_add; a ceiling that     *)
(* skips a level.                                                           *)
RespondUnchecked(c) ==
    /\ pc[c] = "respond"
    /\ Schedule(c, M(c).level + 1)
    /\ Return(c)
    /\ UNCHANGED <<storeVars, bootVars, lock, uiVars, history, trust>>

RespondTwoAhead(c) ==
    /\ pc[c] = "respond"
    /\ IF M(c).level + 1 < MaxLevel THEN Schedule(c, M(c).level + 2)
                                    ELSE UNCHANGED jobs
    /\ Return(c)
    /\ UNCHANGED <<storeVars, bootVars, lock, uiVars, history, trust>>

(* After the lock: schedule the ceiling for the next level unless the level *)
(* is u32::MAX (checked_add), and answer.                                   *)
Respond(c) ==
    /\ pc[c] = "respond"
    /\ IF M(c).level < MaxLevel THEN Schedule(c, M(c).level + 1)
                                ELSE UNCHANGED jobs
    /\ Return(c)
    /\ UNCHANGED <<storeVars, bootVars, lock, uiVars, history, trust>>

-----------------------------------------------------------------------------
(* A ceiling thread, a second or more after its signature.                  *)

CeilingWrite(t) ==
    /\ jobs[t] # None /\ lock = None
    /\ LET s == jobs[t].slot  level == jobs[t].level IN
       \/ /\ CeilingNotNeeded(s, level)
          /\ jobs' = [jobs EXCEPT ![t] = None]
          /\ UNCHANGED <<disk, lock>>
       \/ /\ ~ CeilingNotNeeded(s, level)
          /\ Pwrite(s, CeilingAt(level))
          /\ \/ lock' = t /\ UNCHANGED jobs
             \/ /\ "ceiling" \in Failing
                /\ jobs' = [jobs EXCEPT ![t] = None] /\ UNCHANGED lock
    /\ UNCHANGED <<entries, diskCeiling, diskEntries, bootVars, connVars,
                   uiVars, history, trust>>

(* Mutant: the ceiling is recorded whether or not sync_data succeeded. *)
CeilingSyncIgnoresError(t) ==
    /\ lock = t
    /\ LET s == jobs[t].slot  m == CeilingAt(jobs[t].level) IN
       /\ disk' \in {disk, [disk EXCEPT ![s] = {m}]}
       /\ diskCeiling' = [diskCeiling EXCEPT ![s] = m]
       /\ diskEntries' = [diskEntries EXCEPT ![s] = m]
    /\ Settled(jobs[t].slot)
    /\ jobs' = [jobs EXCEPT ![t] = None]
    /\ lock' = None
    /\ UNCHANGED <<entries, bootVars, connVars, uiVars, history>>

CeilingSync(t) ==
    /\ lock = t
    /\ \/ /\ CeilingSynced(jobs[t].slot, CeilingAt(jobs[t].level))
          /\ Settled(jobs[t].slot)
       \/ "ceiling" \in Failing /\ UNCHANGED <<diskCeiling, diskEntries, disk, trust>>
    /\ jobs' = [jobs EXCEPT ![t] = None]
    /\ lock' = None
    /\ UNCHANGED <<entries, bootVars, connVars, uiVars, history>>

-----------------------------------------------------------------------------
(* update_to_level, on the UI thread, for a confirmed dialog or a seed.     *)

UpdateBegin(k, level) ==
    /\ SetFloorInMemory(k, level)
    /\ lowered' = [s \in Slots |->
                     \/ lowered[s]
                     \/ s[1] = k /\ \E p \in issued[s] : Below(FloorAt(level), p)]
    /\ upd' = [key |-> k, level |-> level, op |-> 0, stage |-> "pwrite"]
    /\ lock' = Ui

(* The loop over the three files ends: the caller goes on to its next key,  *)
(* or reports the outcome to the operator.                                  *)
UpdateEnd(ok) ==
    /\ upd' = None
    /\ lock' = None
    /\ IF phase = "seed"
       THEN seedLeft' = seedLeft \ {upd.key} /\ UNCHANGED <<queue, dialog>>
       ELSE /\ queue' = IF ok THEN Append(queue, Menu) ELSE queue
            /\ dialog' = IF ok THEN dialog ELSE ErrorDialog
            /\ UNCHANGED seedLeft

UpdateWrite ==
    /\ upd # None /\ upd.stage = "pwrite"
    /\ Pwrite(<<upd.key, upd.op>>, FloorAt(upd.level))
    /\ \/ /\ upd' = [upd EXCEPT !.stage = "sync"]
          /\ UNCHANGED <<lock, seedLeft, queue, dialog, trust>>
       \/ /\ "operator" \in Failing /\ UpdateEnd(FALSE)
          /\ OverwriteFailed(<<upd.key, upd.op>>)
    /\ UNCHANGED <<entries, diskCeiling, diskEntries, phase, config, staged,
                   connVars, jobs, history>>

UpdateSync ==
    /\ upd # None /\ upd.stage = "sync"
    /\ \/ /\ MarkSynced(<<upd.key, upd.op>>, FloorAt(upd.level))
          /\ Settled(<<upd.key, upd.op>>)
          /\ IF upd.op + 1 < NumOps
             THEN /\ upd' = [upd EXCEPT !.op = @ + 1, !.stage = "pwrite"]
                  /\ UNCHANGED <<lock, seedLeft, queue, dialog>>
             ELSE UpdateEnd(TRUE)
       \/ /\ "operator" \in Failing
          /\ UpdateEnd(FALSE) /\ OverwriteFailed(<<upd.key, upd.op>>)
          /\ UNCHANGED <<diskCeiling, diskEntries, disk>>
    /\ UNCHANGED <<entries, phase, config, staged, connVars, jobs, history>>

(* The UI thread takes the next event.  An alert opens its dialog unless a  *)
(* modal page is up, in which case it is dropped; an update is applied      *)
(* whatever page is up; Menu closes the page.                               *)
HandleAlert ==
    /\ phase = "active" /\ upd = None /\ queue # <<>>
    /\ Head(queue).kind = "alert"
    /\ queue' = Tail(queue)
    /\ dialog' = IF dialog = NoDialog
                 THEN [kind |-> "confirm", key |-> Head(queue).key,
                       level |-> Head(queue).level]
                 ELSE dialog
    /\ UNCHANGED <<storeVars, bootVars, lock, connVars, jobs, upd, history, trust>>

HandleUpdate ==
    /\ phase = "active" /\ upd = None /\ queue # <<>> /\ lock = None
    /\ Head(queue).kind = "update"
    /\ queue' = Tail(queue)
    /\ UpdateBegin(Head(queue).key, Head(queue).level)
    /\ UNCHANGED <<diskCeiling, diskEntries, disk, bootVars, connVars, jobs,
                   dialog, issued, doubled, trust>>

HandleMenu ==
    /\ phase = "active" /\ upd = None /\ queue # <<>>
    /\ Head(queue).kind = "menu"
    /\ queue' = Tail(queue)
    /\ dialog' = NoDialog
    /\ UNCHANGED <<storeVars, bootVars, lock, connVars, jobs, upd, history, trust>>

(* A touch on the dialog: each one sends the page's event, and the page     *)
(* stays until the event is handled, so a second tap sends a second event.  *)
Tap ==
    /\ phase = "active" /\ upd = None /\ Len(queue) < MaxQueue
    /\ dialog # NoDialog
    /\ \/ /\ dialog.kind = "confirm"
          /\ queue' = Append(queue, [kind |-> "update", key |-> dialog.key,
                                     level |-> dialog.level])
       \/ queue' = Append(queue, Menu)
    /\ UNCHANGED <<storeVars, bootVars, lock, connVars, jobs, upd, dialog,
                   history, trust>>

-----------------------------------------------------------------------------
(* Power and boot.                                                          *)

(* The host utility writes a floor to the boot partition of the card. *)
StageConfig(level) ==
    /\ phase = "off"
    /\ config' = level
    /\ UNCHANGED <<storeVars, phase, staged, seedLeft, lock, connVars, jobs,
                   uiVars, history, trust>>

(* process_watermark_config, before the PIN page: the level is kept in      *)
(* memory and the file is deleted; a failed delete is only logged, any      *)
(* other error leaves the file and no level.                                *)
Boot ==
    /\ phase = "off"
    /\ phase' = "pin"
    /\ \/ staged' = config /\ config' = None
       \/ staged' = config /\ UNCHANGED config
       \/ staged' = None   /\ UNCHANGED config
    /\ UNCHANGED <<storeVars, seedLeft, lock, connVars, jobs, uiVars, history, trust>>

(* apply_init_watermark after the PIN: load every key's files; a staged     *)
(* level is to be seeded for every key before the signer starts.            *)
Unlock ==
    /\ phase = "pin"
    /\ Load
    /\ phase' = "seed"
    /\ seedLeft' = IF staged = None THEN {} ELSE Keys
    /\ UNCHANGED <<config, staged, lock, connVars, jobs, uiVars, history, trust>>

SeedFloor(k) ==
    /\ phase = "seed" /\ upd = None /\ k \in seedLeft
    /\ \/ /\ FloorAlreadyMet(k, staged)
          /\ seedLeft' = seedLeft \ {k}
          /\ UNCHANGED <<entries, upd, lock, lowered>>
       \/ /\ ~ FloorAlreadyMet(k, staged)
          /\ UpdateBegin(k, staged)
          /\ UNCHANGED seedLeft
    /\ UNCHANGED <<diskCeiling, diskEntries, disk, phase, config, staged,
                   connVars, jobs, queue, dialog, issued, doubled, trust>>

StartSigner ==
    /\ phase = "seed" /\ upd = None /\ seedLeft = {}
    /\ phase' = "active"
    /\ staged' = None
    /\ UNCHANGED <<storeVars, config, seedLeft, lock, connVars, jobs, uiVars,
                   history, trust>>

(* Power is lost (or the process ends): everything in memory goes. *)
PowerLoss ==
    /\ phase # "off"
    /\ phase' = "off"
    /\ entries' = NoMarks /\ diskCeiling' = NoMarks /\ diskEntries' = NoMarks
    /\ staged' = None /\ seedLeft' = {}
    /\ lock' = None
    /\ pc' = [c \in Conns |-> "idle"]
    /\ req' = [c \in Conns |-> None]
    /\ prev' = [c \in Conns |-> NoMark]
    /\ jobs' = [t \in Ceilers |-> None]
    /\ upd' = None /\ queue' = <<>> /\ dialog' = NoDialog
    /\ doubt' = [s \in Slots |-> FALSE]
    /\ UNCHANGED <<disk, config, history, risked>>

-----------------------------------------------------------------------------
Handler(c) == \/ CheckAndUpdate(c) \/ SignCovered(c) \/ WriteMark(c)
              \/ SyncMark(c) \/ UndoWrite(c) \/ UndoSync(c) \/ Respond(c)

Next ==
    \/ \E c \in Conns : Handler(c) \/ \E r \in Requests : Precheck(c, r)
    \/ \E t \in Ceilers : CeilingWrite(t) \/ CeilingSync(t)
    \/ UpdateWrite \/ UpdateSync
    \/ HandleAlert \/ HandleUpdate \/ HandleMenu \/ Tap
    \/ \E level \in ConfigLevels : StageConfig(level)
    \/ Boot \/ Unlock \/ StartSigner \/ PowerLoss
    \/ \E k \in Keys : SeedFloor(k)

Spec == Init /\ [][Next]_vars

-----------------------------------------------------------------------------
(* What the device must keep true.                                          *)

(* A position is signed at most once per key and operation type. *)
NoDoubleSign == \A s \in Slots : ~ doubled[s]

(* What a double sign takes: an operator's or a staged floor under a        *)
(* position already signed, or a signature on a claimed ceiling after the   *)
(* write of another mark over it failed (rollback_disk_watermark and        *)
(* update_to_level leave disk_ceiling as it was then).                      *)
Excused(s) == lowered[s] \/ risked[s]

(* A position is signed twice only where that happened, whichever writes    *)
(* fail and wherever the power is lost.                                     *)
NoDoubleSignUnlessExcused == \A s \in Slots : doubled[s] => Excused(s)

(* Every signed position is at or under the mark in memory and every mark a *)
(* power loss could leave: no crash, however placed, and no failed write    *)
(* forgets a signature, with the same exception.                            *)
SignedStaysCovered ==
    \A s \in Slots : ~ Excused(s) =>
        \A p \in issued[s] :
            /\ Bounds(entries[s], p)
            /\ \A v \in disk[s] : Bounds(v, p)

(* The file of s is between the pwrite and the fdatasync of a lower mark.   *)
Rewriting(s) ==
    \/ upd # None /\ upd.stage = "sync" /\ s = <<upd.key, upd.op>>
    \/ \E c \in Conns : pc[c] = "undosync" /\ S(c) = s

(* disk_ceiling claims no more than stable storage holds: a crash loads a   *)
(* mark at or above it, which is what lets the fast path sign without a     *)
(* write.  The exception is a mark put over a ceiling by a write that       *)
(* failed, until the next write of the file that succeeds.                  *)
CeilingIsOnDisk ==
    \A s \in Slots : diskCeiling[s] # NoMark /\ ~ Rewriting(s) /\ ~ doubt[s] =>
        \A v \in disk[s] : Bounds(v, diskCeiling[s])

(* A power loss costs the baker at most the next level: with no request in  *)
(* the critical section and no failed write, no mark that may be loaded is  *)
(* more than one level ahead of the last mark in memory.                    *)
CrashCostsOneLevel ==
    phase = "active" /\ lock = None =>
        \A s \in Slots : ~ lowered[s] /\ entries[s] # NoMark =>
            \A v \in disk[s] : v = NoMark \/ v.level <= entries[s].level + 1

(* Seeding a staged floor after the PIN never lowers a mark that was read.  *)
SeedNeverLowers ==
    [][phase = "seed" /\ phase' # "off" =>
         \A s \in Slots : entries[s] # NoMark =>
             entries'[s] # NoMark /\ AtMost(entries[s], entries'[s])]_vars

-----------------------------------------------------------------------------
(* Why they hold: the parts of an inductive invariant.                      *)

(* A handler past the prechecks has its request, and there is a staged      *)
(* level while keys are to be seeded.                                       *)
RequestInv ==
    /\ \A c \in Conns : pc[c] # "idle" => req[c] \in Requests
    /\ seedLeft # {} => staged # None /\ phase \notin {"off", "pin"}

(* The lock is held by exactly the thread inside its critical section, and  *)
(* only a running signer has handlers and ceiling threads.                  *)
LockInv ==
    /\ \A c \in Conns : (pc[c] \in Holding) <=> (lock = c)
    /\ \A t \in Ceilers : lock = t => jobs[t] # None
    /\ (upd # None) <=> (lock = Ui)
    /\ phase \in {"off", "pin"} => lock = None
    /\ phase # "active" => /\ \A c \in Conns : pc[c] = "idle"
                           /\ \A t \in Ceilers : jobs[t] = None

(* A handler that holds the lock can undo its advance: the mark before it   *)
(* is kept, is under the request and still covers every signature.  The     *)
(* fast path is taken only under a ceiling, the slow path only over it.     *)
HandlerInv ==
    \A c \in Conns :
        /\ pc[c] \in {"fast", "pwrite", "sync"} =>
               entries[S(c)] = M(c) /\ prev[c] # NoMark /\ Below(prev[c], M(c))
        /\ pc[c] \in {"undo", "undosync"} =>
               entries[S(c)] = prev[c] /\ prev[c] # NoMark
        /\ pc[c] \in Holding /\ ~ Excused(S(c)) =>
               \A p \in issued[S(c)] : AtMost(p, prev[c])
        /\ pc[c] = "respond" => entries[S(c)] # NoMark
        /\ pc[c] = "fast" => CeilingCovers(diskCeiling[S(c)], M(c))
        /\ pc[c] \in {"pwrite", "sync"} /\ diskCeiling[S(c)] # NoMark =>
               AtMost(diskCeiling[S(c)], M(c))

(* A ceiling thread serves a slot that has a mark, and writes over it only  *)
(* what is above both that mark and the ceiling it replaces.                *)
CeilerInv ==
    \A t \in Ceilers : jobs[t] # None =>
        /\ entries[jobs[t].slot] # NoMark
        /\ lock = t => ~ CeilingNotNeeded(jobs[t].slot, jobs[t].level)

(* While a floor is written to the files, memory already holds it. *)
UpdateInv ==
    upd # None => \A s \in Slots : s[1] = upd.key => entries[s] = FloorAt(upd.level)

SignerInv ==
    /\ TypeOK /\ RequestInv /\ LockInv
    /\ HandlerInv /\ CeilerInv /\ UpdateInv
    /\ SignedStaysCovered /\ CeilingIsOnDisk /\ NoDoubleSignUnlessExcused

-----------------------------------------------------------------------------
(* Each handler, ceiling thread and the UI thread keeps running while the   *)
(* power is on, and a thread that waits for the lock gets it in the end.    *)
UiThread == UpdateWrite \/ UpdateSync \/ HandleAlert \/ HandleUpdate
              \/ HandleMenu \/ StartSigner \/ \E k \in Keys : SeedFloor(k)

FairSpec ==
    /\ Spec
    /\ \A c \in Conns : SF_vars(Handler(c))
    /\ \A t \in Ceilers : SF_vars(CeilingWrite(t) \/ CeilingSync(t))
    /\ SF_vars(UiThread)

(* Every request that passes the prechecks is answered or cut by a power    *)
(* loss: no order of handlers, ceiling threads and operator updates leaves  *)
(* a handler waiting on the lock for ever.                                  *)
EveryRequestAnswered == \A c \in Conns : pc[c] # "idle" ~> pc[c] = "idle"

(* The device keeps its promise across threads, files and power losses.     *)
Promise == INSTANCE SignerPromise
             WITH signed <- issued, repeated <- doubled,
                  excused <- [s \in Slots |-> Excused(s)]
PromiseKept == Promise!Spec
=============================================================================
