----------------------------- MODULE RotateKeys -----------------------------
(***************************************************************************)
(* russignol rotate-keys (host-utility/src/rotate_keys.rs, keys.rs): the   *)
(* command that moves a baker from the keys of one device to those of      *)
(* another, over several runs, two exchanges of the device on the USB      *)
(* cable and one change of cycle.  It keeps no state of its own: each run  *)
(* works out from the aliases of the octez-client wallet and from the      *)
(* chain where an earlier one stopped.                                     *)
(*                                                                         *)
(* A key is identified with the device that holds it.  The wallet is       *)
(* several files, which octez-client changes together and                  *)
(* rename_alias_locally one at a time, each truncated and written again;   *)
(* show address takes the address from the first.  Only the first and one  *)
(* other are told apart: public_keys and secret_keys are treated alike.    *)
(* Each operator's mistake, failed call or probe, lost transaction or      *)
(* interruption is counted as a fault.                                     *)
(***************************************************************************)
EXTENDS Naturals, Sequences

CONSTANTS Devices,     \* signers, each with a consensus and a companion key
          NoKey,       \* no such alias, nothing pending
          First,       \* the device the baker uses at the start
          NumFiles,    \* files of the wallet
          MaxFaults,   \* bound on what goes wrong
          MayReplace,  \* values --replace may have
          MayDry       \* values --dry-run may have

ASSUME RotateAssumption ==
    /\ First \in Devices /\ NoKey \notin Devices
    /\ NumFiles \in Nat \ {0} /\ MaxFaults \in Nat
    /\ MayReplace \subseteq BOOLEAN /\ MayDry \subseteq BOOLEAN

(* KeyRole::ALL, and the aliases a role has. *)
Order == <<"consensus", "companion">>
Roles == {Order[i] : i \in 1 .. 2}
Slots == {"cur", "pending", "old"}
Files == 1 .. NumFiles

VARIABLES wallet,            \* wallet[file][role][slot]
          active, pend,      \* the chain: active and pending key by role
          attached, baker,   \* the device on the cable; the baker is running
          pc, mode, opts,    \* the command: place, state detected, flags
          found, current,    \* keys discovered; active key when read
          left,              \* roles a loop has still to treat
          job,               \* the renames under way
          result,            \* how the last command ended
          unremoved,         \* cleanup could not forget some alias
          broken,            \* files a write cut off left empty or half
          faults, replaced,  \* history: faults; --replace forgot an alias,
          torn, rolledBack,  \* a command left aliases of one role or file
                             \* only; backups were restored
          misled             \* a failed probe made a run start wrongly

chain == <<active, pend>>
local == <<mode, opts, found, current>>
history == <<broken, replaced, rolledBack, misled>>
vars == <<wallet, chain, attached, baker, pc, local, left, job, result,
          unremoved, faults, torn, history>>

Rename == [role : Roles, from : Slots, to : Slots]
NoJob == [kind |-> "none", plan |-> <<>>, n |-> 1, file |-> 1, hit |-> FALSE]
Modes == {"clean", "imported", "pending", "chainonly", "activated", "partial"}
Results == {"none", "nothing", "error", "ok", "unverified", "complete"}
Steps == {"idle", "clear", "connect", "discover", "import", "check", "resume",
          "offer", "submit", "poll", "reconnect", "monitor", "wait", "stop",
          "swap", "ready", "promote", "rename", "start", "verify", "cleanup",
          "rollback"}

TypeOK ==
    /\ wallet \in [Files -> [Roles -> [Slots -> Devices \cup {NoKey}]]]
    /\ active \in [Roles -> Devices] /\ pend \in [Roles -> Devices \cup {NoKey}]
    /\ attached \in Devices /\ baker \in BOOLEAN
    /\ pc \in Steps /\ mode \in Modes
    /\ opts \in [replace : BOOLEAN, dry : BOOLEAN]
    /\ found \in Devices \cup {NoKey} /\ current \in Devices \cup {NoKey}
    /\ left \in Seq(Roles)
    /\ job \in [kind : {"none", "promote", "undo", "rollback"},
               plan : Seq(Rename), n : Nat, file : Files, hit : BOOLEAN]
    /\ result \in Results /\ unremoved \in BOOLEAN
    /\ faults \in 0 .. MaxFaults
    /\ broken \subseteq Files
    /\ {replaced, torn, rolledBack, misled} \subseteq BOOLEAN

Init ==
    /\ wallet = [f \in Files |-> [r \in Roles |->
                   [s \in Slots |-> IF s = "cur" THEN First ELSE NoKey]]]
    /\ active = [r \in Roles |-> First] /\ pend = [r \in Roles |-> NoKey]
    /\ attached = First /\ baker = TRUE
    /\ pc = "idle" /\ mode = "clean"
    /\ opts = [replace |-> FALSE, dry |-> FALSE]
    /\ found = NoKey /\ current = NoKey /\ left = <<>> /\ job = NoJob
    /\ result = "none" /\ unremoved = FALSE /\ faults = 0
    /\ broken = {} /\ replaced = FALSE /\ torn = FALSE /\ rolledBack = FALSE
    /\ misled = FALSE

-----------------------------------------------------------------------------
(* What the command reads.                                                  *)

(* get_key_hash; a role's pair of aliases is looked at with "or".           *)
Alias(r, s) == wallet[1][r][s]
Exists(s) == \E r \in Roles : Alias(r, s) # NoKey

(* query_key_activation_status and get_active_consensus_key.                *)
ConsensusPending == pend["consensus"]
ActiveConsensusKey == active["consensus"]

(* signer_holds_key asks the device on the cable.                           *)
SignerHolds(k) == attached = k

(* verify_preconditions: the checks of the node, the delegate and its       *)
(* balance may fail (a run then does nothing); this one the model decides.  *)
(* octez-client gives no address from a wallet with an unreadable file.     *)
Preconditions == broken = {} /\ Alias("consensus", "cur") # NoKey

(* Mutant: a key that has become active counts as one not submitted.        *)
DetectedNoActive(old, pending, hash) ==
    CASE old -> "partial"
      [] ~ old /\ ConsensusPending # NoKey ->
             IF pending THEN "pending" ELSE "chainonly"
      [] OTHER -> IF pending THEN "imported" ELSE "clean"

(* detect_rotation_state, from the end of the procedure backwards: from     *)
(* what the probes of the aliases say exists and the pending hash they read.*)
Detected(old, pending, hash) ==
    CASE old -> "partial"
      [] ~ old /\ ConsensusPending # NoKey ->
             IF pending THEN "pending" ELSE "chainonly"
      [] ~ old /\ ConsensusPending = NoKey ->
             IF ~ pending THEN "clean"
             ELSE IF hash = ActiveConsensusKey THEN "activated" ELSE "imported"

Truth == Detected(Exists("old"), Exists("pending"), Alias("consensus", "pending"))

(* A probe that fails says that its alias does not exist.                   *)
Seen == {m \in Modes :
            \E old \in {Exists("old"), FALSE}, pending \in {Exists("pending"), FALSE},
               hash \in {Alias("consensus", "pending"), NoKey} :
                  m = Detected(old, pending, hash)}

(* signing_verified: all the signals agree. *)
SigningVerified == /\ baker
                   /\ SignerHolds(Alias("consensus", "cur"))
                   /\ Alias("consensus", "cur") = ActiveConsensusKey

(* The files agree, both roles have a current alias, and each has the       *)
(* aliases the other has.                                                   *)
Whole(w) == /\ \A f \in Files : w[f] = w[1]
            /\ w[1]["consensus"]["cur"] # NoKey
            /\ \A s \in Slots : (w[1]["consensus"][s] = NoKey)
                                  <=> (w[1]["companion"][s] = NoKey)

EndWith(r, w) == /\ pc' = "idle" /\ result' = r
                 /\ torn' = (torn \/ ~ Whole(w))
End(r) == EndWith(r, wallet)
Start(s) == pc' = s /\ result' = "none" /\ UNCHANGED torn
Goto(s) == pc' = s /\ UNCHANGED <<result, torn>>
Fault == faults < MaxFaults /\ faults' = faults + 1
Right == UNCHANGED faults

-----------------------------------------------------------------------------
(* A run, from the operator's call.                                         *)

(* handle_replace_flag, handle_resumed_state: where a run starts.           *)
HandleReplaceFlag(m) ==
    IF m \in {"partial", "activated"}
    THEN mode' = m /\ result' = "error" /\ UNCHANGED <<pc, torn>>
    ELSE mode' = "clean" /\ Start(IF m = "clean" THEN "connect" ELSE "clear")

HandleResumedState(m) ==
    /\ mode' = m
    /\ Start(CASE m = "clean" -> "connect"
               [] m = "imported" -> "resume"
               [] m = "pending" -> "monitor"
               [] m = "chainonly" -> "offer"
               [] m = "activated" -> "ready"
               [] m = "partial" -> "start")

Run(d, replace, dry) ==
    /\ pc = "idle" /\ Preconditions
    /\ attached' = d /\ opts' = [replace |-> replace, dry |-> dry]
    /\ left' = Order /\ unremoved' = FALSE
    /\ \E m \in Seen :
         /\ IF replace THEN HandleReplaceFlag(m) ELSE HandleResumedState(m)
         /\ IF m = Truth THEN Right /\ UNCHANGED misled ELSE Fault /\ misled' = TRUE
    /\ UNCHANGED <<wallet, chain, baker, found, current, job, broken, replaced,
                   rolledBack>>

Forgotten(r, s) == [f \in Files |-> [wallet[f] EXCEPT ![r][s] = NoKey]]

(* --replace, or "Clean up and start fresh": the pending aliases go.        *)
Clear ==
    /\ pc = "clear"
    /\ wallet' = Forgotten(Head(left), "pending")
    /\ left' = IF Len(left) > 1 THEN Tail(left) ELSE Order
    /\ replaced' = (replaced \/ (mode = "clean" /\ wallet' # wallet))
    /\ IF Len(left) > 1 THEN Goto("clear")
       ELSE IF mode = "clean" THEN Goto("connect") ELSE EndWith("ok", wallet')
    /\ Right
    /\ UNCHANGED <<chain, attached, baker, local, job, unremoved, broken,
                   rolledBack, misled>>

ResumeImported ==
    /\ pc = "resume"
    /\ \/ Goto("connect") /\ Right
       \/ Goto("clear") /\ Fault
    /\ UNCHANGED <<wallet, chain, attached, baker, local, left, job, unremoved,
                   history>>

(* guide_device_swap: the operator connects a device, the right one or not. *)
GuideDeviceSwap(right) ==
    /\ attached' \in Devices
    /\ IF attached' \in right THEN Right ELSE Fault

(* The NEW device has no name yet, so any device is taken.  A device that   *)
(* is flashed here first is one more device.                                *)
Connect ==
    /\ pc = "connect"
    /\ GuideDeviceSwap(IF mode = "clean" THEN Devices \ {ActiveConsensusKey}
                       ELSE {Alias("consensus", "pending")})
    /\ Goto(IF mode = "clean" THEN "discover" ELSE "submit")
    /\ UNCHANGED <<wallet, chain, baker, local, left, job, unremoved, history>>

Discover ==
    /\ pc = "discover"
    /\ found' = attached /\ current' = ActiveConsensusKey
    /\ IF found' = current' THEN End("nothing")
       ELSE Goto(IF opts.dry THEN "check" ELSE "import")
    /\ Right
    /\ UNCHANGED <<wallet, chain, attached, baker, mode, opts, left, job,
                   unremoved, history>>

(* import_new_keys: the client asks the device for each public key.         *)
ImportNewKeys ==
    /\ pc = "import"
    /\ IF SignerHolds(found)
       THEN /\ wallet' = [f \in Files |->
                            [wallet[f] EXCEPT ![Head(left)]["pending"] = found]]
            /\ left' = IF Len(left) > 1 THEN Tail(left) ELSE Order
            /\ Goto(IF Len(left) > 1 THEN "import"
                    ELSE IF mode = "clean" THEN "check" ELSE "monitor")
       ELSE UNCHANGED <<wallet, left>> /\ End("error")
    /\ Right
    /\ UNCHANGED <<chain, attached, baker, local, job, unremoved, history>>

(* check_existing_pending_keys, in a fresh rotation. *)
CheckExistingPendingKeys ==
    /\ pc = "check"
    /\ \/ /\ ConsensusPending = found
          /\ mode' = "pending" /\ Goto("reconnect")
       \/ /\ ConsensusPending # found
          /\ ConsensusPending = NoKey \/ opts.replace
          /\ UNCHANGED mode
          /\ Goto(IF opts.dry THEN "reconnect" ELSE "submit")
       \/ /\ ConsensusPending \notin {NoKey, found} /\ ~ opts.replace
          /\ UNCHANGED mode /\ End("error")
    /\ Right
    /\ UNCHANGED <<wallet, chain, attached, baker, opts, found, current, left,
                   job, unremoved, history>>

(* resume_from_pending_on_chain_only: the device on the cable may be the    *)
(* one whose key is pending.                                                *)
ImportPending ==
    /\ pc = "offer"
    /\ found' = attached
    /\ IF SignerHolds(ConsensusPending) THEN Goto("import") ELSE End("ok")
    /\ Right
    /\ UNCHANGED <<wallet, chain, attached, baker, mode, opts, current, left,
                   job, unremoved, history>>

(* submit_key_rotation_transactions: a proof of possession needs the device *)
(* that holds the key.  A transaction may be lost after it was accepted, or *)
(* reach the chain although the client reports a failure.                   *)
SubmitKeyRotationTransactions ==
    /\ pc = "submit"
    /\ LET r == Head(left)
           k == Alias(r, "pending")
           set == [pend EXCEPT ![r] = k]
           next == IF Len(left) > 1 THEN "submit" ELSE "poll" IN
         /\ left' = IF Len(left) > 1 THEN Tail(left) ELSE Order
         /\ IF k = NoKey \/ attached # k \/ k = active[r]
            THEN UNCHANGED pend /\ End("error") /\ Right
            ELSE \/ pend' = set /\ Goto(next) /\ Right
                 \/ UNCHANGED pend /\ Goto(next) /\ Fault
                 \/ pend' = set /\ End("error") /\ Fault
    /\ UNCHANGED <<wallet, active, attached, baker, local, job, unremoved, history>>

PollForPendingActivation ==
    /\ pc = "poll"
    /\ IF ConsensusPending # NoKey THEN Goto("reconnect") ELSE End("error")
    /\ current' = IF mode = "imported" THEN ActiveConsensusKey ELSE current
    /\ Right
    /\ UNCHANGED <<wallet, chain, attached, baker, mode, opts, found, left, job,
                   unremoved, history>>

(* The OLD device must answer with the key read before. *)
Reconnect ==
    /\ pc = "reconnect"
    /\ GuideDeviceSwap({current})
    /\ IF attached' # current THEN End("error")
       ELSE IF opts.dry /\ mode = "clean" THEN End("ok") ELSE Goto("monitor")
    /\ UNCHANGED <<wallet, chain, baker, local, left, job, unremoved, history>>

(* The operator waits, or comes back later. *)
OfferToWait ==
    /\ \/ Goto("wait") /\ Right
       \/ End("ok") /\ Fault
    /\ UNCHANGED <<wallet, chain, attached, baker, local, left, job, unremoved,
                   history>>

RunActivationMonitoring == pc = "monitor" /\ mode = "clean" /\ OfferToWait
ResumeFromPending == pc = "monitor" /\ mode # "clean" /\ OfferToWait

(* Mutant: the transaction being submitted is enough. *)
WaitForNothing ==
    /\ pc = "wait"
    /\ Goto("stop") /\ Right
    /\ UNCHANGED <<wallet, chain, attached, baker, local, left, job, unremoved,
                   history>>

(* wait_for_activation_and_swap looks at the consensus key only. *)
WaitForActivation ==
    /\ pc = "wait" /\ ConsensusPending = NoKey
    /\ Goto("stop") /\ Right
    /\ UNCHANGED <<wallet, chain, attached, baker, local, left, job, unremoved,
                   history>>

(* With the manual method the command only asks. *)
StopBaker ==
    /\ pc = "stop" /\ baker' \in {FALSE, baker}
    /\ Goto("swap") /\ Right
    /\ UNCHANGED <<wallet, chain, attached, local, left, job, unremoved, history>>

Swap ==
    /\ pc = "swap"
    /\ GuideDeviceSwap({Alias("consensus", "pending")})
    /\ Goto("promote")
    /\ UNCHANGED <<wallet, chain, baker, local, left, job, unremoved, history>>

(* resume_from_keys_activated_need_swap, up to the promotion. *)
CompleteRotation ==
    /\ pc = "ready"
    /\ IF SignerHolds(Alias("consensus", "pending")) THEN Goto("promote")
       ELSE End("error")
    /\ Right
    /\ UNCHANGED <<wallet, chain, attached, baker, local, left, job, unremoved,
                   history>>

-----------------------------------------------------------------------------
(* rename_alias_locally, file by file, and the plans made of it.            *)

R(r, a, b) == [role |-> r, from |-> a, to |-> b]
Restore == <<R("consensus", "old", "cur"), R("companion", "old", "cur")>>
Promotion == <<R("consensus", "cur", "old"), R("companion", "cur", "old"),
               R("consensus", "pending", "cur"), R("companion", "pending", "cur")>>
(* What is undone when rename i of the promotion fails. *)
Undo(i) == CASE i = 1 -> <<>>
             [] i = 2 -> <<Restore[1]>>
             [] i = 3 -> Restore
             [] i = 4 -> <<R("consensus", "cur", "pending")>> \o Restore
Job(kind, plan) == [NoJob EXCEPT !.kind = kind, !.plan = plan]

PromoteAliasesWithBackup ==
    /\ pc = "promote"
    /\ IF \A r \in Roles : Alias(r, "pending") # NoKey /\ Alias(r, "cur") # NoKey
       THEN job' = Job("promote", Promotion) /\ Goto("rename")
       ELSE UNCHANGED job /\ End("error")
    /\ Right
    /\ UNCHANGED <<wallet, chain, attached, baker, local, left, unremoved, history>>

NextRename ==
    IF job.n < Len(job.plan)
    THEN /\ job' = [job EXCEPT !.n = @ + 1, !.file = 1, !.hit = FALSE]
         /\ Goto("rename") /\ UNCHANGED rolledBack
    ELSE /\ job' = NoJob
         /\ rolledBack' = (rolledBack \/ job.kind = "rollback")
         /\ CASE job.kind = "promote" -> Goto("start")
              [] job.kind = "undo" -> EndWith("error", wallet')
              [] job.kind = "rollback" -> EndWith("ok", wallet')

FailedRename ==
    CASE job.kind = "promote" /\ job.n > 1 ->
           job' = Job("undo", Undo(job.n)) /\ Goto("rename") /\ UNCHANGED rolledBack
      [] job.kind = "undo" -> NextRename
      [] OTHER -> job' = NoJob /\ EndWith("error", wallet') /\ UNCHANGED rolledBack

(* The file is read, changed in memory and, if it has the alias, written.   *)
RenameInFile ==
    /\ pc = "rename"
    /\ LET r == job.plan[job.n]
           key == wallet[job.file][r.role][r.from]
           hit == IF job.file = 1 THEN key # NoKey ELSE job.hit IN
         IF job.file \in broken THEN UNCHANGED wallet /\ FailedRename
         ELSE /\ wallet' = IF key = NoKey THEN wallet
                           ELSE [wallet EXCEPT ![job.file][r.role][r.to] = key,
                                               ![job.file][r.role][r.from] = NoKey]
              /\ IF job.file < NumFiles
                 THEN /\ job' = [job EXCEPT !.file = @ + 1, !.hit = hit]
                      /\ Goto("rename") /\ UNCHANGED rolledBack
                 ELSE IF hit THEN NextRename ELSE FailedRename
    /\ Right
    /\ UNCHANGED <<chain, attached, baker, local, left, unremoved, broken,
                   replaced, misled>>

(* std::fs::write truncates the file first: what fails or is interrupted    *)
(* from there on leaves nothing that can be parsed.                         *)
CutOff ==
    /\ job.file \notin broken
    /\ LET r == job.plan[job.n] IN wallet[job.file][r.role][r.from] # NoKey
    /\ wallet' = [wallet EXCEPT ![job.file] =
                     [r \in Roles |-> [s \in Slots |-> NoKey]]]
    /\ broken' = broken \cup {job.file}

(* A file cannot be read or opened, or its write fails or is cut short by   *)
(* the end of the command.                                                  *)
RenameFails ==
    /\ pc = "rename" /\ Fault
    /\ \/ UNCHANGED <<wallet, broken>> /\ FailedRename
       \/ CutOff /\ FailedRename
       \/ CutOff /\ job' = NoJob /\ EndWith("error", wallet') /\ UNCHANGED rolledBack
    /\ UNCHANGED <<chain, attached, baker, local, left, unremoved, replaced, misled>>

-----------------------------------------------------------------------------
(* After the promotion.                                                     *)

(* Mutant: a resumed run leaves the baker as it is. *)
StartBakerIfFresh ==
    /\ pc = "start" /\ (mode \notin {"activated", "partial"} \/ ~ baker)
    /\ baker' = (mode \notin {"activated", "partial"}) /\ Goto("verify") /\ Right
    /\ UNCHANGED <<wallet, chain, attached, local, left, job, unremoved, history>>

(* With the manual method the command only asks. *)
StartBaker ==
    /\ pc = "start" /\ (mode \notin {"activated", "partial"} \/ ~ baker)
    /\ \/ baker' = TRUE /\ Right
       \/ ~ baker /\ UNCHANGED baker /\ Fault
    /\ Goto("verify")
    /\ UNCHANGED <<wallet, chain, attached, local, left, job, unremoved, history>>

(* Resumed with a baker that runs, which is left alone. *)
BakerIsRunning ==
    /\ pc = "start" /\ mode \in {"activated", "partial"} /\ baker
    /\ Goto("verify") /\ Right
    /\ UNCHANGED <<wallet, chain, attached, baker, local, left, job, unremoved,
                   history>>

(* The roles whose backup is to go, in the order of KeyRole::ALL: fewer     *)
(* than there are when a probe fails, none when the operator keeps them.    *)
BackedUp(seen) ==
    LET role(r) == IF r \in seen THEN <<r>> ELSE <<>>
    IN role("consensus") \o role("companion")
WithBackup == {r \in Roles : Alias(r, "old") # NoKey}

(* Mutant: a baker that runs counts as one that signs. *)
VerifyProcessOnly ==
    /\ pc = "verify" /\ baker /\ Goto("cleanup")
    /\ left' = BackedUp(WithBackup)
    /\ Right
    /\ UNCHANGED <<wallet, chain, attached, baker, local, job, unremoved, history>>

(* A signal that is not read within the minute counts as one that is not    *)
(* there.                                                                   *)
VerifyBakerSigning ==
    /\ pc = "verify"
    /\ \/ /\ SigningVerified /\ Goto("cleanup")
          /\ \E seen \in SUBSET WithBackup :
               /\ left' = BackedUp(seen)
               /\ IF seen = WithBackup THEN Right ELSE Fault
       \/ /\ IF SigningVerified THEN Fault ELSE Right
          /\ IF mode = "partial" THEN Goto("rollback") ELSE End("unverified")
          /\ UNCHANGED left
    /\ UNCHANGED <<wallet, chain, attached, baker, local, job, unremoved, history>>

(* cleanup_backup_aliases; when there is none left to remove, or the        *)
(* operator keeps them, the rotation is reported complete all the same.     *)
CleanupBackupAliases ==
    /\ pc = "cleanup"
    /\ \/ /\ left # <<>> /\ left' = Tail(left)
          /\ \/ /\ wallet' = Forgotten(Head(left), "old")
                /\ Right /\ UNCHANGED unremoved
             \/ UNCHANGED wallet /\ Fault /\ unremoved' = TRUE
          /\ Goto("cleanup")
       \/ /\ left = <<>> /\ UNCHANGED <<wallet, left, unremoved>> /\ Right
          /\ End(IF unremoved THEN "error" ELSE "complete")
    /\ UNCHANGED <<chain, attached, baker, local, job, history>>

OfferRollback ==
    /\ pc = "rollback"
    /\ \/ job' = Job("rollback", Restore) /\ Goto("rename")
       \/ UNCHANGED job /\ End("unverified")
    /\ Right
    /\ UNCHANGED <<wallet, chain, attached, baker, local, left, unremoved, history>>

(* An error that no handler treats, an answer "no", Ctrl+C or a crash. *)
Abort ==
    /\ pc # "idle" /\ Fault /\ End("error") /\ job' = NoJob
    /\ UNCHANGED <<wallet, chain, attached, baker, local, left, unremoved, history>>

-----------------------------------------------------------------------------
(* What happens beside the command.                                         *)

ActivateKey(r) ==
    /\ pend[r] # NoKey
    /\ active' = [active EXCEPT ![r] = pend[r]] /\ pend' = [pend EXCEPT ![r] = NoKey]
    /\ UNCHANGED <<wallet, attached, baker, pc, local, left, job, result,
                   unremoved, faults, torn, history>>

Disturb ==
    /\ pc # "idle" /\ Fault
    /\ \/ attached' \in Devices /\ UNCHANGED baker
       \/ baker /\ baker' = FALSE /\ UNCHANGED attached
    /\ UNCHANGED <<wallet, chain, pc, local, left, job, result, unremoved, torn,
                   history>>

Step ==
    \/ Clear \/ ResumeImported \/ Connect \/ Discover \/ ImportNewKeys
    \/ CheckExistingPendingKeys \/ ImportPending \/ SubmitKeyRotationTransactions
    \/ PollForPendingActivation \/ Reconnect \/ RunActivationMonitoring
    \/ ResumeFromPending \/ WaitForActivation
    \/ StopBaker \/ Swap \/ CompleteRotation \/ PromoteAliasesWithBackup
    \/ RenameInFile \/ StartBaker \/ BakerIsRunning \/ VerifyBakerSigning
    \/ CleanupBackupAliases \/ OfferRollback

Next ==
    \/ \E d \in Devices, replace \in MayReplace, dry \in MayDry :
          Run(d, replace, dry)
    \/ Step \/ RenameFails \/ Abort \/ Disturb
    \/ \E r \in Roles : ActivateKey(r)

(* A command that runs goes on, the cycle ends, and an operator who has not *)
(* been told that the rotation is complete tries again, with each device.   *)
Fairness == /\ WF_vars(Step /\ Right)
            /\ \A r \in Roles : WF_vars(ActivateKey(r))
            /\ \A d \in Devices : SF_vars(Run(d, FALSE, FALSE))

Spec == Init /\ [][Next]_vars /\ Fairness

-----------------------------------------------------------------------------
(* What a rotation promises, to an operator whose runs started right: one   *)
(* whose probes of the wallet failed takes a rotation under way for none.   *)

(* A run that ends with "Key Rotation Complete" leaves the consensus alias  *)
(* on the key the chain has active, in every file unless a run was cut off  *)
(* between two renames: the gate before cleanup_backup_aliases is enough    *)
(* wherever the run was resumed.                                            *)
CompleteIsActive ==
    [][~ misled /\ pc = "cleanup" /\ pc' = "idle" /\ result' = "complete" =>
         \A f \in IF torn \/ ~ Whole(wallet) THEN {1} ELSE Files :
            wallet'[f]["consensus"]["cur"] = ActiveConsensusKey]_vars

(* promote_aliases_with_backup never makes a key the current one before the *)
(* chain does, whatever the runs before it did, as long as none of them     *)
(* dropped a pending alias with --replace or was misled.                    *)
PromotedKeyIsActive ==
    [][~ replaced /\ ~ misled /\ pc = "rename" /\ job.kind = "promote"
         /\ wallet'[1]["consensus"]["cur"] \notin {wallet[1]["consensus"]["cur"], NoKey}
         => wallet'[1]["consensus"]["cur"] = ActiveConsensusKey]_vars

(* The alias of the key the chain has active is in the wallet after the     *)
(* step if it was before.                                                   *)
KeepsActiveKey ==
    ActiveConsensusKey \in {Alias("consensus", s) : s \in Slots}
      => ActiveConsensusKey \in {wallet'[1]["consensus"][s] : s \in Slots}

(* Imports, renames, cleanups, failed calls and interruptions never lose    *)
(* the alias of the key the baker has to sign with; what may is the         *)
(* rollback the operator asks for, --replace, an undone promotion, a        *)
(* misled run, and the write of a wallet file that is cut off.              *)
ActiveKeyKept ==
    [][~ replaced' /\ ~ misled' /\ broken' = {} /\ job.kind \notin {"rollback", "undo"}
         => KeepsActiveKey]_vars

(* The consensus alias of the wallet follows the chain: it is not moved to  *)
(* a key too early, and the one that is active is not lost.                 *)
AliasFollowsChain == PromotedKeyIsActive /\ ActiveKeyKept

(* However often it is interrupted, a rotation the operator goes on with is *)
(* completed, unless a run was stopped between two renames or imports or    *)
(* within the write of a wallet file, backups were restored, pending keys   *)
(* replaced, or a run misled.                                               *)
RotationCompletes ==
    <>(result = "complete" \/ torn \/ rolledBack \/ replaced \/ misled)

=============================================================================
