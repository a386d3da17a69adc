-------------------------------- MODULE Boot --------------------------------
(***************************************************************************)
(* From power-on to serving: the init script of the hardened image         *)
(* (rootfs-overlay-hardened/init), the storage a first boot makes          *)
(* (storage.rs, setup.rs), and the order in which the signer process gives *)
(* up what it does not need any more (main.rs, app.rs).                    *)
(*                                                                         *)
(* The card is what the kernel shows of it and what is on the flash; what  *)
(* differs between the two is lost or kept, file by file, when the power   *)
(* goes.  The events of the UI are in App, the upgrade of the key file in  *)
(* KeyMigration, the marks in Signer.                                      *)
(***************************************************************************)
EXTENDS Naturals

CONSTANTS MaxBootCuts,    \* bound on losses of power
          MaxFaults   \* bound on commands and mounts that fail

ASSUME BootBounds == MaxBootCuts \in Nat /\ MaxFaults \in Nat

VARIABLES card, flash,     \* the card as the kernel shows it, and as written
          bootPc,          \* how far the boot is
          nodes,           \* partitions the kernel knows
          keysMount,       \* /keys: "none", "rw" or "ro"
          remountFailed,   \* history: init could not make /keys read-only
          dataMounted,
          configPending,   \* CONFIG_PENDING of the init script
          root,            \* the signer process has uid 0
          after,           \* where a shared sequence of effects leads
          bootCuts, faults

bootVars == <<card, flash, bootPc, nodes, keysMount, remountFailed, dataMounted,
              configPending, root, after, bootCuts, faults>>

(* keys counts the key generations whose file is at its place; old is the   *)
(* state of a key file from before the current format.                      *)
Card == [table : BOOLEAN, keysFs : BOOLEAN, dataFs : BOOLEAN, keys : Nat,
         old : {"none", "v1", "staged"}, marker : BOOLEAN, chain : BOOLEAN,
         config : {"none", "valid", "invalid"}, image : {"good", "bad"}]

Places == {"off", "probe", "keys", "data", "supervise", "start", "recover",
           "greeting", "table", "node3", "node4", "mkkeys", "mkdata", "mount",
           "verify", "gate", "pinset", "pubkeys", "consume", "delete", "unmount",
           "marker", "sync", "readonly", "drop", "pin", "unlock", "reboot",
           "fatal", "serving"}

BootTypeOK ==
    /\ card \in Card /\ flash \in Card
    /\ bootPc \in Places /\ after \in Places \cup {"setup"}
    /\ nodes \in SUBSET {3, 4}
    /\ keysMount \in {"none", "rw", "ro"} /\ remountFailed \in BOOLEAN
    /\ dataMounted \in BOOLEAN /\ configPending \in BOOLEAN /\ root \in BOOLEAN
    /\ bootCuts \in Nat /\ faults \in Nat

(* A card as flashed, with or without a staged config, or one in service    *)
(* whose key file may be of the former format.                              *)
Fresh == [table |-> FALSE, keysFs |-> FALSE, dataFs |-> FALSE, keys |-> 0,
          old |-> "none", marker |-> FALSE, chain |-> FALSE, config |-> "valid",
          image |-> "good"]
InService == [Fresh EXCEPT !.table = TRUE, !.keysFs = TRUE, !.dataFs = TRUE,
              !.keys = 1, !.marker = TRUE, !.chain = TRUE, !.config = "none"]

BootInit ==
    /\ card \in {Fresh, [Fresh EXCEPT !.config = "none"],
                 [Fresh EXCEPT !.image = "bad"], InService,
                 [InService EXCEPT !.old = "v1"],
                 [InService EXCEPT !.old = "v1", !.config = "valid"],
                 [InService EXCEPT !.config = "invalid"]}
    /\ flash = card
    /\ bootPc = "off" /\ after = "off"
    /\ nodes = {} /\ keysMount = "none" /\ remountFailed = FALSE /\ dataMounted = FALSE
    /\ configPending = FALSE /\ root = TRUE
    /\ bootCuts = 0 /\ faults = 0

At(p) == bootPc = p
Go(p) == bootPc' = p
Fault == faults < MaxFaults /\ faults' = faults + 1
NoFault == UNCHANGED faults
KeepCard == UNCHANGED <<card, flash>>
KeepMounts == UNCHANGED <<nodes, keysMount, remountFailed, dataMounted, configPending>>
NoCut == UNCHANGED bootCuts

(* A write goes to the cache; an fsync or a sync takes it to the flash. *)
WriteCard(c) == card' = c /\ UNCHANGED flash
WriteSynced(c) == card' = c /\ flash' = c
Synced == flash' = card /\ UNCHANGED card

(* fatal_error: the message stays on the panel until the power is cycled. *)
FatalError == Go("fatal") /\ UNCHANGED after

-----------------------------------------------------------------------------
(* The init script.                                                         *)

PowerOn ==
    /\ At("off")
    /\ nodes' = IF card.table THEN {3, 4} ELSE {}
    /\ keysMount' = "none" /\ remountFailed' = FALSE
    /\ dataMounted' = FALSE /\ root' = TRUE
    /\ configPending' = FALSE /\ after' = "off"
    /\ Go("probe") /\ NoFault /\ KeepCard /\ NoCut

(* config_pending: a boot partition that does not mount has no config. *)
ConfigPending ==
    /\ At("probe")
    /\ \/ configPending' = (card.config # "none") /\ NoFault
       \/ configPending' = FALSE /\ Fault
    /\ Go("keys") /\ KeepCard /\ NoCut
    /\ UNCHANGED <<nodes, keysMount, remountFailed, dataMounted, root, after>>

NeedsMigration == keysMount # "none" /\ card.old # "none"

(* A card that is set up and has nothing for this boot to write. *)
NothingToWrite == card.marker /\ card.old = "none" /\ ~ configPending

(* init_keys_partition: the result of the remount is not looked at. *)
InitKeysPartition ==
    /\ At("keys")
    /\ \/ /\ 3 \in nodes /\ card.keysFs
          /\ \/ ~ NothingToWrite /\ keysMount' = "rw" /\ remountFailed' = FALSE /\ NoFault
             \/ NothingToWrite /\ keysMount' = "ro" /\ remountFailed' = FALSE /\ NoFault
             \/ NothingToWrite /\ keysMount' = "rw" /\ remountFailed' = TRUE /\ Fault
       \/ /\ IF 3 \in nodes /\ card.keysFs THEN Fault ELSE NoFault
          /\ UNCHANGED <<keysMount, remountFailed>>
    /\ Go("data") /\ KeepCard /\ NoCut
    /\ UNCHANGED <<nodes, dataMounted, configPending, root, after>>

InitDataPartition ==
    /\ At("data")
    /\ \/ dataMounted' = (4 \in nodes /\ card.dataFs) /\ NoFault
       \/ 4 \in nodes /\ card.dataFs /\ dataMounted' = FALSE /\ Fault
    /\ Go("supervise") /\ KeepCard /\ NoCut
    /\ UNCHANGED <<nodes, keysMount, remountFailed, configPending, root, after>>

(* Mutant: a staged config does not keep the signer root. *)
RunSupervisorUnprivileged ==
    /\ At("supervise")
    /\ root' = (~ ({3, 4} \subseteq nodes) \/ NeedsMigration)
    /\ Go("start") /\ KeepCard /\ KeepMounts /\ NoFault /\ NoCut
    /\ UNCHANGED after

(* run_supervisor *)
RunSupervisor ==
    /\ At("supervise")
    /\ root' = (~ ({3, 4} \subseteq nodes) \/ NeedsMigration \/ configPending)
    /\ Go("start") /\ KeepCard /\ KeepMounts /\ NoFault /\ NoCut
    /\ UNCHANGED after

-----------------------------------------------------------------------------
(* The signer process up to its first page.                                 *)

(* Mutant: only the path of the former format is looked at. *)
FormerKeysVisible == keysMount # "none" /\ card.keys # 0 /\ card.old # "none"

KeysVisible == keysMount # "none" /\ card.keys # 0
MarkerVisible == keysMount # "none" /\ card.marker

NeedsStorageSetup == 3 \notin nodes
IsFirstBoot == NeedsStorageSetup \/ ~ MarkerVisible

(* should_recover_watermark_config *)
ShouldRecover == ~ IsFirstBoot /\ root /\ ~ NeedsMigration

(* verify_rootfs needs root to read the manifest and the partition, and a   *)
(* command that fails skips it.                                             *)
ImageRefused == root /\ card.image = "bad"

(* run_ui_loop: keys without a marker end the boot before any page. *)
Start ==
    /\ At("start")
    /\ \/ IsFirstBoot /\ KeysVisible /\ FatalError /\ NoFault
       \/ IsFirstBoot /\ ~ KeysVisible /\ ImageRefused /\ FatalError /\ NoFault
       \/ /\ IsFirstBoot /\ ~ KeysVisible
          /\ Go("greeting") /\ UNCHANGED after
          /\ \/ ~ ImageRefused /\ NoFault
             \/ ImageRefused /\ Fault
       \/ ShouldRecover /\ Go("consume") /\ after' = "recover" /\ NoFault
       \/ ~ IsFirstBoot /\ ~ ShouldRecover /\ Go("pin") /\ UNCHANGED after /\ NoFault
    /\ KeepCard /\ KeepMounts /\ NoCut /\ UNCHANGED root

-----------------------------------------------------------------------------
(* A staged config: process_watermark_config, on a first boot (after is     *)
(* "setup") and on a later one ("recover"), where what fails is logged.     *)

SavesChain == card.config = "valid" /\ keysMount = "rw" /\ root

(* save_chain_info; a boot partition that does not mount is an error too. *)
ConsumeConfig ==
    /\ At("consume")
    /\ \/ SavesChain /\ WriteCard([card EXCEPT !.chain = TRUE]) /\ Go("delete") /\ NoFault
       \/ card.config = "none" /\ KeepCard /\ Go("unmount") /\ NoFault
       \/ /\ (card.config = "invalid" /\ NoFault) \/ Fault
          /\ KeepCard
          /\ Go(IF after = "recover" THEN "unmount" ELSE "fatal")
    /\ KeepMounts /\ NoCut /\ UNCHANGED <<root, after>>

(* The delete is not checked. *)
DeleteConfig ==
    /\ At("delete")
    /\ \/ WriteCard([card EXCEPT !.config = "none"]) /\ NoFault
       \/ KeepCard /\ Fault
    /\ Go("unmount") /\ KeepMounts /\ NoCut /\ UNCHANGED <<root, after>>

(* unmount_boot_partition syncs first. *)
UnmountBoot ==
    /\ At("unmount")
    /\ Synced /\ NoFault
    /\ Go(IF after = "recover" THEN "readonly" ELSE "marker")
    /\ KeepMounts /\ NoCut /\ UNCHANGED <<root, after>>

(* remount_keys_readonly and drop_privileges are fatal when they fail. *)
RemountKeysReadonly ==
    /\ At("readonly")
    /\ \/ root /\ keysMount' = "ro" /\ Go("drop") /\ NoFault
       \/ ~ root /\ Go("fatal") /\ UNCHANGED keysMount /\ NoFault
       \/ root /\ Go("fatal") /\ UNCHANGED keysMount /\ Fault
    /\ KeepCard /\ NoCut
    /\ UNCHANGED <<nodes, remountFailed, dataMounted, configPending, root, after>>

DropPrivileges ==
    /\ At("drop")
    /\ \/ /\ root' = FALSE /\ NoFault
          /\ Go(CASE after = "recover" -> "pin"
                  [] after = "reboot"  -> "reboot"
                  [] OTHER             -> "unlock")
       \/ Go("fatal") /\ UNCHANGED root /\ Fault
    /\ KeepCard /\ KeepMounts /\ NoCut /\ UNCHANGED after

-----------------------------------------------------------------------------
(* First boot: storage.  A step that fails ends the boot (StorageSetupFailed).*)

StartSetup ==
    /\ At("greeting")
    /\ Go(IF NeedsStorageSetup THEN "table" ELSE "verify")
    /\ KeepCard /\ KeepMounts /\ NoFault /\ NoCut /\ UNCHANGED <<root, after>>

Step(p, next) ==
    /\ At(p) /\ NoCut /\ UNCHANGED <<root, after>>
    /\ \/ Go(next) /\ NoFault
       \/ Go("fatal") /\ Fault

(* create_partitions: sfdisk appends both partitions; a table that has them *)
(* refuses.  A sync follows.                                                *)
CreatePartitions ==
    /\ Step("table", IF card.table THEN "fatal" ELSE "node3")
    /\ IF bootPc' = "node3" THEN WriteSynced([card EXCEPT !.table = TRUE]) ELSE KeepCard
    /\ KeepMounts

(* notify_kernel_blkpg, once for each partition *)
NotifyKernel ==
    \E n \in {3, 4} :
        /\ Step(IF n = 3 THEN "node3" ELSE "node4", IF n = 3 THEN "node4" ELSE "mkkeys")
        /\ nodes' = IF bootPc' = "fatal" THEN nodes ELSE nodes \cup {n}
        /\ KeepCard /\ UNCHANGED <<keysMount, remountFailed, dataMounted, configPending>>

(* mkfs.f2fs -f empties the partition it is given. *)
FormatKeys ==
    /\ Step("mkkeys", "mkdata")
    /\ IF bootPc' = "fatal" THEN KeepCard
       ELSE WriteSynced([card EXCEPT !.keysFs = TRUE, !.keys = 0, !.old = "none",
                                     !.marker = FALSE, !.chain = FALSE])
    /\ KeepMounts

FormatData ==
    /\ Step("mkdata", "mount")
    /\ IF bootPc' = "fatal" THEN KeepCard ELSE WriteSynced([card EXCEPT !.dataFs = TRUE])
    /\ KeepMounts

MountPartitions ==
    /\ Step("mount", "verify")
    /\ IF bootPc' = "fatal" THEN UNCHANGED <<keysMount, dataMounted>>
       ELSE keysMount' = "rw" /\ dataMounted' = TRUE
    /\ KeepCard /\ UNCHANGED <<nodes, remountFailed, configPending>>

(* verify_partitions and create_directories *)
VerifyStorage ==
    /\ Step("verify", IF /\ keysMount # "none" /\ dataMounted
                         /\ ~ KeysVisible /\ ~ MarkerVisible
                      THEN "gate" ELSE "fatal")
    /\ KeepCard /\ KeepMounts

(* validate_watermark_config: without root the boot partition does not mount. *)
ConfigGate ==
    /\ Step("gate", IF root /\ card.config = "valid" THEN "pinset" ELSE "fatal")
    /\ KeepCard /\ KeepMounts

(* generate_and_encrypt_keys: atomic_write syncs the key file; the public   *)
(* keys that follow may fail.                                               *)
GenerateKeys ==
    /\ Step("pinset", "pubkeys")
    /\ IF bootPc' = "fatal" THEN KeepCard ELSE WriteSynced([card EXCEPT !.keys = @ + 1])
    /\ KeepMounts

SavePublicKeys ==
    /\ At("pubkeys")
    /\ \/ Go("consume") /\ after' = "setup" /\ NoFault
       \/ Go("fatal") /\ UNCHANGED after /\ Fault
    /\ KeepCard /\ KeepMounts /\ NoCut /\ UNCHANGED root

(* finalize_first_boot: the marker's failure is logged; then the sync. *)
WriteSetupMarker ==
    /\ At("marker")
    /\ \/ WriteCard([card EXCEPT !.marker = TRUE]) /\ NoFault
       \/ KeepCard /\ Fault
    /\ Go("sync") /\ KeepMounts /\ NoCut /\ UNCHANGED <<root, after>>

SyncDisk ==
    /\ At("sync")
    /\ Synced /\ NoFault
    /\ Go("readonly") /\ KeepMounts /\ NoCut /\ UNCHANGED <<root, after>>

-----------------------------------------------------------------------------
(* The right PIN.                                                           *)

(* Mutant: an upgraded key file does not make the process give up root. *)
PinVerifiedKeepsRoot ==
    /\ At("pin")
    /\ \/ card.old = "none" /\ KeepCard /\ Go("unlock") /\ UNCHANGED after
       \/ /\ card.old = "v1"
          /\ WriteCard([card EXCEPT !.old = "staged"]) /\ Go("sync") /\ after' = "reboot"
       \/ /\ card.old = "staged"
          /\ WriteCard([card EXCEPT !.old = "none"]) /\ Go("unlock") /\ UNCHANGED after
       \/ card.old # "none" /\ KeepCard /\ Go("sync") /\ after' = "unlock"
    /\ KeepMounts /\ NoFault /\ NoCut /\ UNCHANGED root

(* dispatch_pin_verified: a staged upgrade reboots, a finished one and a    *)
(* failed one give up root before the signer starts.                        *)
PinVerified ==
    /\ At("pin")
    /\ \/ card.old = "none" /\ KeepCard /\ Go("unlock") /\ UNCHANGED after
       \/ /\ card.old = "v1"
          /\ WriteCard([card EXCEPT !.old = "staged"]) /\ Go("sync") /\ after' = "reboot"
       \/ /\ card.old = "staged"
          /\ WriteCard([card EXCEPT !.old = "none"]) /\ Go("sync") /\ after' = "unlock"
       \/ card.old # "none" /\ KeepCard /\ Go("sync") /\ after' = "unlock"
    /\ KeepMounts /\ NoFault /\ NoCut /\ UNCHANGED root

(* apply_init_watermark refuses without /data; then the signer starts. *)
Unlock ==
    /\ At("unlock")
    /\ Go(IF dataMounted THEN "serving" ELSE "fatal")
    /\ KeepCard /\ KeepMounts /\ NoFault /\ NoCut /\ UNCHANGED <<root, after>>

(* Exit code 42. *)
Reboot ==
    /\ At("reboot")
    /\ Go("off") /\ KeepCard /\ KeepMounts /\ NoFault /\ NoCut
    /\ UNCHANGED <<root, after>>

-----------------------------------------------------------------------------
(* Outside the device.                                                      *)

(* Power is lost: each unsynced change is on the flash or it is not. *)
LosePower ==
    /\ bootPc # "off" /\ bootCuts < MaxBootCuts
    /\ bootCuts' = bootCuts + 1
    /\ \E kept \in SUBSET {x \in DOMAIN card : card[x] # flash[x]} :
          flash' = [x \in DOMAIN card |-> IF x \in kept THEN card[x] ELSE flash[x]]
    /\ card' = flash'
    /\ Go("off") /\ NoFault /\ KeepMounts /\ UNCHANGED <<root, after>>

(* The operator cycles the power of a device that shows an error. *)
PowerCycle ==
    /\ At("fatal")
    /\ flash' = card /\ UNCHANGED card
    /\ Go("off") /\ NoFault /\ KeepMounts /\ NoCut /\ UNCHANGED <<root, after>>

(* check disk on the host stages a config for a card that needs one. *)
HostStages ==
    /\ At("off") /\ ~ (card.chain /\ card.marker) /\ card.config # "valid"
    /\ WriteSynced([card EXCEPT !.config = "valid"])
    /\ NoFault /\ KeepMounts /\ NoCut /\ UNCHANGED <<bootPc, root, after>>

BootStep ==
    \/ PowerOn \/ ConfigPending \/ InitKeysPartition \/ InitDataPartition
    \/ RunSupervisor \/ Start \/ ConsumeConfig \/ DeleteConfig \/ UnmountBoot
    \/ RemountKeysReadonly \/ DropPrivileges \/ StartSetup \/ CreatePartitions
    \/ NotifyKernel \/ FormatKeys \/ FormatData \/ MountPartitions \/ VerifyStorage
    \/ ConfigGate \/ GenerateKeys \/ SavePublicKeys \/ WriteSetupMarker \/ SyncDisk
    \/ PinVerified \/ Unlock \/ Reboot

BootNext == BootStep \/ LosePower \/ PowerCycle \/ HostStages

BootSpec ==
    /\ BootInit /\ [][BootNext]_bootVars
    /\ WF_bootVars(BootStep) /\ WF_bootVars(PowerCycle) /\ SF_bootVars(HostStages)

-----------------------------------------------------------------------------
(* Whatever brought it there, a signer that serves has given up root and    *)
(* has /data for its marks, and has /keys read-only unless on this very     *)
(* boot the remount of the init script failed, which no later step makes up *)
(* for; and a signer that waits for a PIN is root only to upgrade the key   *)
(* file (RemountKeysReadonly, DropPrivileges, run_supervisor).              *)
KeysGuarded == keysMount = "ro" \/ remountFailed
Confined ==
    /\ bootPc = "serving" => KeysGuarded /\ ~ root /\ dataMounted
    /\ bootPc = "pin" /\ card.old = "none" => KeysGuarded /\ ~ root

(* Keys that reached the flash stay: no boot formats their partition or     *)
(* generates others over them, whatever failed to mount (verify_partitions, *)
(* needs_storage_setup).                                                    *)
KeysNeverReplaced == [][flash.keys # 0 => flash'.keys = flash.keys]_bootVars

(* Cards only a new flash gets going again: partitions without their file   *)
(* systems, keys without the marker, a damaged image.                       *)
Lost == \/ flash.table /\ ~ (flash.keysFs /\ flash.dataFs)
        \/ flash.keys # 0 /\ ~ flash.marker
        \/ flash.image = "bad" /\ ~ flash.marker

(* Every other card comes to serve once commands stop failing and the power *)
(* stays: an interrupted setup is taken up again, a staged config and a key *)
(* file of the former format are dealt with on the way.                     *)
ComesUp == []<>(bootPc = "serving" \/ Lost)
=============================================================================
