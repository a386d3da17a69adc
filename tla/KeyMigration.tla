---------------------------- MODULE KeyMigration ----------------------------
(***************************************************************************)
(* The upgrade of the encrypted key file when a PIN is entered             *)
(* (rpi-signer/src/tezos_encrypt.rs), the threads that check PINs, what    *)
(* the UI thread does with their outcome, and the card underneath: a page  *)
(* cache that a loss of power throws away and a flash that may not hold    *)
(* what was written to it.                                                 *)
(*                                                                         *)
(* Each check runs migrate_and_decrypt once, one file operation a step.    *)
(* Decryption takes seconds, so what a check has read may be stale when it *)
(* acts on it.                                                             *)
(***************************************************************************)
EXTENDS Naturals, FiniteSets

CONSTANTS Checks,     \* threads of spawn_pin_verify that may run at once
          Absent,     \* no such file
          Legacy,     \* formats of the file at the v1 path: "v1", "v2"
          Written,    \* what a new blob may be: "v2", "bad" or "rot"
          Threshold,  \* MIGRATION_ATTEMPT_THRESHOLD
          MaxFailed,  \* MAX_FAILED_ATTEMPTS
          MaxCuts     \* bound on losses of power

ASSUME BlobAssumption == /\ Legacy \in SUBSET {"v1", "v2"}
                         /\ Written \in SUBSET {"v2", "bad", "rot"}
                         /\ Absent \notin {"v1", "v2", "bad", "rot"}
ASSUME LimitAssumption == /\ Threshold \in Nat \ {0} /\ MaxFailed \in Nat \ {0}
                          /\ MaxCuts \in Nat

(* A blob at the v2 path reads as v2, is damaged, or reads as v2 from the   *)
(* page cache only.  A counter that is missing, empty or no number reads 0. *)
OldFile == {"v1", "v2", Absent}
NewFile == {"v2", "bad", "rot", Absent}

VARIABLES cache, disk,   \* /keys as the kernel shows it, and as on flash
          tmp,           \* secret_keys.enc.v2.tmp
          tmpTries,      \* what .migration_attempts.tmp holds, if it is there
          writable,      \* /keys is mounted read-write
          pc, right,     \* each check: its place, whether its PIN is right
          read,          \* the attempts it has read
          fd,            \* the name its open file goes by
          out,           \* its outcome
          phase, failed, \* the UI thread: where it is, failures so far
          cuts, reboots, \* history: power losses; restarts since the counter
                         \* was last cleared
          overlapped,    \* history: a PIN was entered during another's check
          emptied        \* history: a check put a counter in place that another
                         \* had truncated and not yet written

checkVars == <<pc, right, read, fd, out>>
vars == <<cache, disk, tmp, tmpTries, writable, checkVars, phase, failed, cuts,
          reboots, overlapped, emptied>>

Keys == [v1 : OldFile, v2 : NewFile, tries : 0 .. Threshold]
Steps == {"idle", "look", "steady", "stage", "create", "write", "rename",
          "count", "mark", "publish", "verify", "fallback", "promote", "clear", "revert", "done"}
Notices == {"reverted", "stagingfailed", "disabled"}
Failures == {"badpin", "format", "io"}
Outcomes == {"none", "staged", "promoted"} \cup Notices \cup Failures

TypeOK ==
    /\ cache \in Keys /\ disk \in Keys
    /\ tmp \in NewFile /\ tmpTries \in SUBSET (0 .. Threshold)
    /\ writable \in BOOLEAN
    /\ pc \in [Checks -> Steps] /\ right \in [Checks -> BOOLEAN]
    /\ read \in [Checks -> Nat]
    /\ fd \in [Checks -> {"closed", "tmp", "v2", "tmptries", "tries", "unlinked"}]
    /\ out \in [Checks -> Outcomes]
    /\ phase \in {"pin", "notice", "active", "reboot", "halted"}
    /\ failed \in Nat /\ cuts \in Nat /\ reboots \in 0 .. Threshold + 1
    /\ overlapped \in BOOLEAN /\ emptied \in BOOLEAN

(* What is read after a boot: only the flash is left. *)
Flash(b) == IF b = "rot" THEN "bad" ELSE b
Reload(d) == [v1 |-> Flash(d.v1), v2 |-> Flash(d.v2), tries |-> d.tries]

Idle == /\ pc = [c \in Checks |-> "idle"] /\ right = [c \in Checks |-> FALSE]
        /\ read = [c \in Checks |-> 0] /\ fd = [c \in Checks |-> "closed"]
        /\ out = [c \in Checks |-> "none"]

(* A device set up by a release that knew only the v1 path. *)
Init ==
    /\ \E b \in Legacy : cache = [v1 |-> b, v2 |-> Absent, tries |-> 0]
    /\ disk = cache
    /\ tmp = Absent /\ tmpTries = {} /\ writable = TRUE
    /\ Idle
    /\ phase = "pin" /\ failed = 0 /\ cuts = 0 /\ reboots = 0
    /\ overlapped = FALSE /\ emptied = FALSE

-----------------------------------------------------------------------------
(* One check: decrypt_secret_keys.                                          *)

Goto(c, where) == pc' = [pc EXCEPT ![c] = where]
Report(c, result) == Goto(c, "done") /\ out' = [out EXCEPT ![c] = result]
Decrypts(c, b) == right[c] /\ b \in {"v1", "v2", "rot"}

UI == UNCHANGED <<disk, writable, right, phase, failed, cuts, overlapped>>
KeepCounter == UNCHANGED <<tmpTries, emptied>>

(* What the rename of one file to another, or its removal, makes of the     *)
(* names that open files go by.                                             *)
Moved(from, to) == fd' = [d \in Checks |-> IF fd[d] = from THEN to
                                           ELSE IF fd[d] = to THEN "unlinked"
                                           ELSE fd[d]]
Removed(name) == fd' = [d \in Checks |-> IF fd[d] = name THEN "unlinked" ELSE fd[d]]

Look(c) ==
    /\ pc[c] = "look"
    /\ \/ /\ cache.v1 = Absent /\ cache.v2 = Absent /\ Report(c, "io")
       \/ /\ cache.v1 = Absent /\ cache.v2 # Absent
          /\ Goto(c, "steady") /\ UNCHANGED out
       \/ /\ cache.v1 # Absent /\ cache.v2 = Absent
          /\ Goto(c, "stage") /\ UNCHANGED out
       \/ /\ cache.v1 # Absent /\ cache.v2 # Absent
          /\ Goto(c, "verify") /\ UNCHANGED out
    /\ UI /\ KeepCounter /\ UNCHANGED <<cache, tmp, read, fd, reboots>>

(* Only the v2 file is there. *)
Steady(c) ==
    /\ pc[c] = "steady"
    /\ \/ cache.v2 = Absent /\ Report(c, "io")
       \/ /\ Decrypts(c, cache.v2)
          /\ Goto(c, "clear") /\ out' = [out EXCEPT ![c] = "none"]
       \/ /\ cache.v2 # Absent /\ ~ Decrypts(c, cache.v2)
          /\ Report(c, "badpin")
    /\ UI /\ KeepCounter /\ UNCHANGED <<cache, tmp, read, fd, reboots>>

(* A removal that fails is ignored; it does on a read-only mount. *)
Clear(c) ==
    /\ pc[c] = "clear"
    /\ \/ /\ writable
          /\ cache' = [cache EXCEPT !.tries = 0] /\ reboots' = 0
          /\ Removed("tries")
       \/ UNCHANGED <<cache, reboots, fd>>
    /\ Goto(c, "done")
    /\ UI /\ KeepCounter /\ UNCHANGED <<tmp, read, out>>

(* Only the v1 file is there.  stage_v1_to_v2, up to the call of            *)
(* on_stage_start; the v1 file and the counter are read first.              *)
Stage(c) ==
    /\ pc[c] = "stage"
    /\ read' = [read EXCEPT ![c] = cache.tries]
    /\ \/ cache.v1 = Absent /\ Report(c, "io")
       \/ /\ cache.v1 # Absent /\ ~ Decrypts(c, cache.v1)
          /\ Report(c, "badpin")
       \/ /\ Decrypts(c, cache.v1) /\ cache.tries >= Threshold
          /\ Report(c, "disabled")
       \/ /\ Decrypts(c, cache.v1) /\ cache.tries < Threshold
          /\ cache.v1 # "v1" /\ Report(c, "format")
       \/ /\ Decrypts(c, cache.v1) /\ cache.tries < Threshold
          /\ cache.v1 = "v1" /\ Goto(c, "create") /\ UNCHANGED out
    /\ UI /\ KeepCounter /\ UNCHANGED <<cache, tmp, fd, reboots>>

(* atomic_write of the new blob: File::create truncates the file that has   *)
(* the name, another check's too; rename moves whatever has the name then.  *)
Create(c) ==
    /\ pc[c] = "create"
    /\ \/ /\ writable
          /\ tmp' = "bad" /\ fd' = [fd EXCEPT ![c] = "tmp"]
          /\ Goto(c, "write") /\ UNCHANGED out
       \/ Report(c, "stagingfailed") /\ UNCHANGED <<tmp, fd>>
    /\ UI /\ KeepCounter /\ UNCHANGED <<cache, read, reboots>>

(* write_all and sync_all. *)
Write(c) ==
    /\ pc[c] = "write"
    /\ fd' = [fd EXCEPT ![c] = "closed"]
    /\ \/ /\ \E b \in Written :
                /\ tmp' = IF fd[c] = "tmp" THEN b ELSE tmp
                /\ cache' = IF fd[c] = "v2" THEN [cache EXCEPT !.v2 = b] ELSE cache
          /\ Goto(c, "rename") /\ UNCHANGED out
       \/ Report(c, "stagingfailed") /\ UNCHANGED <<tmp, cache>>
    /\ UI /\ KeepCounter /\ UNCHANGED <<read, reboots>>

Rename(c) ==
    /\ pc[c] = "rename"
    /\ \/ /\ writable /\ tmp # Absent
          /\ cache' = [cache EXCEPT !.v2 = tmp] /\ tmp' = Absent
          /\ Moved("tmp", "v2")
          /\ Goto(c, "count") /\ UNCHANGED out
       \/ Report(c, "stagingfailed") /\ UNCHANGED <<cache, tmp, fd>>
    /\ UI /\ KeepCounter /\ UNCHANGED <<read, reboots>>

(* increment_counter: the same atomic_write, of the attempts read before,   *)
(* plus one; its temporary file is shared by the checks too.                *)
Count(c) ==
    /\ pc[c] = "count"
    /\ \/ /\ writable
          /\ tmpTries' = {0} /\ fd' = [fd EXCEPT ![c] = "tmptries"]
          /\ Goto(c, "mark") /\ UNCHANGED out
       \/ Report(c, "stagingfailed") /\ UNCHANGED <<tmpTries, fd>>
    /\ UI /\ UNCHANGED <<cache, tmp, read, reboots, emptied>>

(* Its write_all and sync_all; either may fail. *)
Mark(c) ==
    /\ pc[c] = "mark"
    /\ fd' = [fd EXCEPT ![c] = "closed"]
    /\ \/ /\ tmpTries' = IF fd[c] = "tmptries" THEN {read[c] + 1} ELSE tmpTries
          /\ cache' = IF fd[c] = "tries" THEN [cache EXCEPT !.tries = read[c] + 1]
                      ELSE cache
          /\ \/ Goto(c, "publish") /\ UNCHANGED out
             \/ Report(c, "stagingfailed")
       \/ Report(c, "stagingfailed") /\ UNCHANGED <<tmpTries, cache>>
    /\ UI /\ UNCHANGED <<tmp, read, reboots, emptied>>

(* Its rename: what another check has truncated by then is empty. *)
Publish(c) ==
    /\ pc[c] = "publish"
    /\ \/ /\ writable
          /\ \E n \in tmpTries : /\ cache' = [cache EXCEPT !.tries = n]
                                /\ emptied' = (emptied \/ n = 0)
          /\ tmpTries' = {}
          /\ Moved("tmptries", "tries")
          /\ Report(c, "staged")
       \/ Report(c, "stagingfailed") /\ UNCHANGED <<cache, tmpTries, emptied, fd>>
    /\ UI /\ UNCHANGED <<tmp, read, reboots>>

(* Mutant: a v2 file that does not decrypt is taken for a wrong PIN. *)
VerifyOnlyV2(c) ==
    /\ pc[c] = "verify"
    /\ \/ Decrypts(c, cache.v2) /\ Goto(c, "promote") /\ UNCHANGED out
       \/ ~ Decrypts(c, cache.v2) /\ Report(c, "badpin")
    /\ UI /\ KeepCounter /\ UNCHANGED <<cache, tmp, read, fd, reboots>>

(* Both files are there: verify_v2_or_revert. *)
Verify(c) ==
    /\ pc[c] = "verify"
    /\ \/ /\ cache.tries >= Threshold
          /\ \/ cache.v1 = Absent /\ Report(c, "io")
             \/ /\ cache.v1 # Absent /\ ~ Decrypts(c, cache.v1)
                /\ Report(c, "badpin")
             \/ Decrypts(c, cache.v1) /\ Report(c, "disabled")
       \/ /\ cache.tries < Threshold
          /\ \/ cache.v2 = Absent /\ Report(c, "io")
             \/ Decrypts(c, cache.v2) /\ Goto(c, "promote") /\ UNCHANGED out
             \/ /\ cache.v2 # Absent /\ ~ Decrypts(c, cache.v2)
                /\ Goto(c, "fallback") /\ UNCHANGED out
    /\ UI /\ KeepCounter /\ UNCHANGED <<cache, tmp, read, fd, reboots>>

Promote(c) ==
    /\ pc[c] = "promote"
    /\ \/ /\ writable /\ cache.v1 # Absent
          /\ cache' = [cache EXCEPT !.v1 = Absent]
          /\ Goto(c, "clear") /\ out' = [out EXCEPT ![c] = "promoted"]
       \/ Report(c, "io") /\ UNCHANGED cache
    /\ UI /\ KeepCounter /\ UNCHANGED <<tmp, read, fd, reboots>>

Fallback(c) ==
    /\ pc[c] = "fallback"
    /\ \/ cache.v1 = Absent /\ Report(c, "io")
       \/ cache.v1 # Absent /\ ~ Decrypts(c, cache.v1) /\ Report(c, "badpin")
       \/ Decrypts(c, cache.v1) /\ Goto(c, "revert") /\ UNCHANGED out
    /\ UI /\ KeepCounter /\ UNCHANGED <<cache, tmp, read, fd, reboots>>

(* Mutant: the other file is unlinked. *)
RevertUnlinksV1(c) ==
    /\ pc[c] = "revert"
    /\ cache' = [cache EXCEPT !.v1 = Absent]
    /\ Report(c, "reverted")
    /\ UI /\ KeepCounter /\ UNCHANGED <<tmp, read, fd, reboots>>

(* The unlink of the v2 file is not checked. *)
Revert(c) ==
    /\ pc[c] = "revert"
    /\ \/ /\ writable
          /\ cache' = [cache EXCEPT !.v2 = Absent]
          /\ Removed("v2")
       \/ UNCHANGED <<cache, fd>>
    /\ Report(c, "reverted")
    /\ UI /\ KeepCounter /\ UNCHANGED <<tmp, read, reboots>>

Check(c) == \/ Look(c) \/ Steady(c) \/ Clear(c) \/ Stage(c) \/ Create(c)
            \/ Write(c) \/ Rename(c) \/ Count(c) \/ Mark(c) \/ Publish(c)
            \/ Verify(c) \/ Promote(c) \/ Fallback(c) \/ Revert(c)

-----------------------------------------------------------------------------
(* The UI thread.                                                           *)

(* PinEntered.  The PIN page is up only before a check and after a failed   *)
(* one, but an entry that is already in the channel starts another check.   *)
Enter(c, r) ==
    /\ pc[c] = "idle" /\ phase \in {"pin", "notice"}
    /\ Goto(c, "look") /\ right' = [right EXCEPT ![c] = r]
    /\ overlapped' = (overlapped \/ phase = "notice" \/ \E d \in Checks : pc[d] # "idle")
    /\ UNCHANGED <<cache, disk, tmp, writable, read, fd, out, phase, failed,
                   cuts, reboots>> /\ KeepCounter

(* Mutant: what was staged has not reached the card. *)
DemoteUnsynced(next) ==
    \/ /\ \A d \in Checks : fd[d] = "closed"
       /\ writable' = FALSE /\ phase' = next /\ UNCHANGED disk
    \/ phase' = "halted" /\ UNCHANGED <<disk, writable>>

(* SetKeyPermissions, SyncDisk, RemountKeysReadonly, DropPrivileges.  A     *)
(* failed sync is only logged, but the remount writes everything back too;  *)
(* it is refused while a file is open for writing and may fail.             *)
Demote(next) ==
    \/ /\ \A d \in Checks : fd[d] = "closed"
       /\ disk' = cache /\ writable' = FALSE /\ phase' = next
    \/ phase' = "halted" /\ disk' \in {disk, cache} /\ UNCHANGED writable

InPinEntry == phase \in {"pin", "notice"}
(* The thread is gone, with what it had read. *)
Taken(c) ==
    /\ pc' = [pc EXCEPT ![c] = "idle"] /\ right' = [right EXCEPT ![c] = FALSE]
    /\ read' = [read EXCEPT ![c] = 0] /\ out' = [out EXCEPT ![c] = "none"]
    /\ UNCHANGED <<cache, tmp, fd, cuts, overlapped>> /\ KeepCounter

(* dispatch_pin_verified: a steady unlock, after which nothing is demoted.  *)
HandleUnlock(c) ==
    /\ pc[c] = "done" /\ InPinEntry /\ out[c] = "none"
    /\ phase' = "active"
    /\ Taken(c) /\ UNCHANGED <<disk, writable, failed, reboots>>

HandlePromoted(c) ==
    /\ pc[c] = "done" /\ InPinEntry /\ out[c] = "promoted"
    /\ Demote("active")
    /\ Taken(c) /\ UNCHANGED <<failed, reboots>>

HandleStaged(c) ==
    /\ pc[c] = "done" /\ InPinEntry /\ out[c] = "staged"
    /\ Demote("reboot")
    /\ reboots' = IF phase' = "reboot" /\ reboots <= Threshold
                  THEN reboots + 1 ELSE reboots
    /\ Taken(c) /\ UNCHANGED failed

HandleNotice(c) ==
    /\ pc[c] = "done" /\ InPinEntry /\ out[c] \in Notices
    /\ phase' = "notice"
    /\ Taken(c) /\ UNCHANGED <<disk, writable, failed, reboots>>

(* PinVerificationFailed, whatever the error was, and InvalidPinEntered.    *)
HandleFailed(c) ==
    /\ pc[c] = "done" /\ InPinEntry /\ out[c] \in Failures
    /\ failed' = failed + 1
    /\ phase' = IF failed' >= MaxFailed THEN "halted" ELSE "pin"
    /\ Taken(c) /\ UNCHANGED <<disk, writable, reboots>>

(* handle_active has no arm for what a check sends. *)
HandleLate(c) ==
    /\ pc[c] = "done" /\ phase = "active"
    /\ Taken(c) /\ UNCHANGED <<disk, writable, phase, failed, reboots>>

HandleResult(c) == \/ HandleUnlock(c) \/ HandlePromoted(c) \/ HandleStaged(c)
                   \/ HandleNotice(c) \/ HandleFailed(c) \/ HandleLate(c)

AcknowledgeMigrationNotice ==
    /\ phase = "notice"
    /\ Demote("active")
    /\ UNCHANGED <<cache, tmp, checkVars, failed, cuts, reboots, overlapped>>
    /\ KeepCounter

-----------------------------------------------------------------------------
(* The card and the power.                                                  *)

(* The file system writes back its metadata, in the order it changed. *)
Checkpoint ==
    /\ disk # cache
    /\ disk' = cache
    /\ UNCHANGED <<cache, tmp, writable, checkVars, phase, failed, cuts, reboots,
                   overlapped>> /\ KeepCounter

(* The init script keeps /keys writable while the v1 file is there.         *)
Boot ==
    /\ cache' = Reload(disk) /\ disk' = cache'
    /\ writable' = (cache'.v1 # Absent)
    /\ pc' = [c \in Checks |-> "idle"] /\ right' = [c \in Checks |-> FALSE]
    /\ read' = [c \in Checks |-> 0] /\ fd' = [c \in Checks |-> "closed"]
    /\ out' = [c \in Checks |-> "none"]
    /\ tmp' \in {tmp, Absent} /\ tmpTries' \in {tmpTries, {}}
    /\ phase' = "pin" /\ failed' = 0
    /\ UNCHANGED <<reboots, overlapped, emptied>>

(* Exit code 42: the supervisor runs reboot -f. *)
Restart == phase = "reboot" /\ Boot /\ UNCHANGED cuts

PowerCut == cuts < MaxCuts /\ cuts' = cuts + 1 /\ Boot

(* A process that has ended runs no check. *)
Alive == phase # "halted"

Next == \/ \E c \in Checks : Alive /\ (Check(c) \/ HandleResult(c)
                                         \/ \E r \in BOOLEAN : Enter(c, r))
        \/ AcknowledgeMigrationNotice \/ Checkpoint \/ Restart \/ PowerCut

Spec == Init /\ [][Next]_vars

-----------------------------------------------------------------------------
(* Whatever the power does, the flash holds a blob the PIN opens at the     *)
(* place the next boot looks: the v1 file, or once it is unlinked a v2 file *)
(* that reads back from flash, even if the v2 producer or the card is bad.  *)
KeysSurvive == disk.v1 = Absent => disk.v2 = "v2"

(* What holds of verify_v2_or_revert: the keys survive, as long as no PIN   *)
(* was entered while another was being checked.                             *)
KeysSurviveUnlessOverlapped == ~ overlapped => KeysSurvive

(* The reboot-loop guard: the device restarts itself at most Threshold      *)
(* times before the counter is cleared, over any number of power cycles,    *)
(* with a v2 blob that never verifies and with checks that lose each        *)
(* other's updates of the counter (read_counter, increment_counter).  One   *)
(* race defeats it: a check that renames the temporary counter after        *)
(* another's File::create has truncated it leaves a counter that reads 0.   *)
RebootsBounded == ~ emptied => reboots <= Threshold

(* migrate_and_decrypt always consults a file that the right PIN opens,     *)
(* whatever was staged, reverted or lost; one such entry counts as a failed *)
(* attempt in two cases only: the v1 path holds a v2 blob, which            *)
(* stage_v1_to_v2 refuses, or the v1 file that v2 has been verified to      *)
(* replace could not be unlinked.                                           *)
RightPinAccepted ==
    ~ overlapped =>
        \A c \in Checks : pc[c] = "done" /\ right[c] /\ out[c] \in Failures =>
            \/ out[c] = "format" /\ cache.v1 = "v2"
            \/ out[c] = "io" /\ cache.v1 # Absent /\ cache.v2 = "v2"
=============================================================================
