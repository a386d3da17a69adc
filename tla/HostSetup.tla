----------------------------- MODULE HostSetup -----------------------------
(***************************************************************************)
(* The commands of the host utility that change the baker's machine: the   *)
(* setup of the signer (main.rs, phase2.rs, phase3.rs), the configuration  *)
(* file (config.rs) and the purge (purge.rs).                              *)
(*                                                                         *)
(* A command is a sequence of steps; between two of them it may fail or be *)
(* interrupted, the device may be exchanged and the machine restarted.     *)
(* The operator then runs it again: what it finds is what was left.        *)
(***************************************************************************)
EXTENDS Naturals, Sequences, FiniteSets, SequencesExt

CONSTANTS Devices,      \* the signers; each holds one key for every role
          None,
          Backends,     \* the network back ends a host may have
          Signers,      \* where the signer may be configured: "usb", "lan"
          Former,       \* endpoints of earlier times, where no signer answers any more
          Alike,        \* <<e, s>>: the text of endpoint e contains the host of s
          MaxFaults,    \* bound: failures, interruptions and exchanges
          MaxRuns       \* bound: commands

ASSUME HostAssumption ==
  /\ Former \cap {"usb", "lan"} = {}
  /\ Alike \subseteq (Former \cup {"usb", "lan"}) \X {"usb", "lan"}
  /\ None \notin Devices /\ None \notin Devices \X (Former \cup {"usb", "lan"})
  /\ Backends \subseteq {"networkd", "nm"}
  /\ Signers \subseteq {"usb", "lan"}
  /\ MaxFaults \in Nat /\ MaxRuns \in Nat

Order == <<"consensus", "companion">>
Roles == ToSet(Order)

\* The files of /etc in the order in which phase 2 installs them.
FilesOf(b) == IF b = "networkd" THEN <<"unmanaged", "network", "udev">>
                                ELSE <<"connection", "udev">>
Files == {"unmanaged", "network", "connection", "udev"}

\* "raw": our content, moved into place but without its owner and mode yet.
Contents == {"none", "other", "raw", "ours"}

VARIABLES
  config,    \* config.json: "absent", "torn", "invalid", or valid with the signer it names
  octez,     \* the octez binaries are on the PATH
  backend,   \* the network back end of this host
  hidden,    \* the files in a directory that only root may search
  etc,       \* the content of each file of /etc
  kept,      \* the files whose former content is in a backup directory
  live,      \* which of "net" and "udev" the running services have read
  wallet,    \* the entry of each role's alias
  baker,     \* the delegate on chain: its registration and whether it has a stake
  keys,      \* on chain, for each role: the active key, then the pending ones
  plugged,   \* the device that is connected and unlocked
  named,     \* its interface has been given the name of the rule
  cmd,       \* the command that runs
  faults,
  runs

vars == <<config, octez, backend, hidden, etc, kept, live, wallet, baker, keys,
          plugged, named, cmd, faults, runs>>

Idle == [pc |-> "idle", mode |-> "ask", at |-> "usb", todo |-> <<>>,
         changed |-> {}, seen |-> None, dev |-> None, roles |-> {}, failed |-> FALSE,
         sure |-> FALSE]

(***************************************************************************)
(* Running, failing, ending.                                               *)
(***************************************************************************)
At(pc) == cmd.pc = pc
Asked == cmd.mode = "ask"
Goto(pc) == cmd' = [cmd EXCEPT !.pc = pc]

Start == /\ cmd = Idle
         /\ runs < MaxRuns
         /\ runs' = runs + 1

\* An error or a refusal: the command ends, and what it did stays.
Bail == cmd' = Idle

\* Something goes wrong that the code has no influence on.
Fault == /\ faults < MaxFaults
         /\ faults' = faults + 1

Init ==
  /\ config \in {"absent", "invalid", "usb"}
  /\ octez = (config # "absent")
  /\ backend \in Backends
  /\ hidden \in SUBSET ({"connection"} \cap ToSet(FilesOf(backend)))
  /\ \E present \in {{}, ToSet(FilesOf(backend))} :
       etc = [f \in Files |-> IF f \in present THEN "other" ELSE "none"]
  /\ kept = {}
  /\ live = {}
  /\ wallet \in {[r \in Roles |-> None]} \cup
                {[r \in Roles |-> key] : key \in Devices \X ({"usb"} \cup Former)}
  /\ \/ baker = [reg |-> "no", staked |-> FALSE]
     \/ baker \in [reg : {"inactive"}, staked : {TRUE}] \cup [reg : {"active"}, staked : BOOLEAN]
  /\ keys = [r \in Roles |-> <<None>>]
  /\ plugged \in Devices \cup {None} /\ named = FALSE
  /\ cmd = Idle
  /\ faults = 0 /\ runs = 0

(***************************************************************************)
(* The configuration file.                                                 *)
(***************************************************************************)
Valid(c) == c \in {"usb", "lan"}
Unreadable == config \in {"absent", "torn"}

\* What detection finds: a client directory, and the signer where it is by default.
AutoDetected == "usb"

\* load: a file that is missing or cannot be parsed is detected anew and saved;
\* one that can be parsed is handed back, valid or not.
Loaded == IF Unreadable THEN AutoDetected ELSE config

\* save writes the file in place: an interruption leaves a part of it.
Save(c) == \/ config' = c /\ UNCHANGED faults
           \/ Fault /\ config' = "torn"

\* The host of the signer, without its port, occurs in the text of endpoint e.
Names(e, at) == e = at \/ <<e, at>> \in Alike

\* An alias elsewhere passes for one at the signer.
Deceptive(at) == \E r \in Roles : /\ wallet[r] # None
                                  /\ wallet[r][2] # at /\ Names(wallet[r][2], at)

\* The endpoint chosen in the menu may be saved: with it goes whatever the overrides
\* of the command line changed.
OfferToPersist(c, persist) ==
  IF persist THEN Asked /\ Save(c)
  ELSE IF Unreadable THEN Save(Loaded) ELSE UNCHANGED <<config, faults>>

\* load_valid, with the overrides of the command line.
LoadValid ==
  /\ At("load")
  /\ \/ /\ Loaded = "invalid"
        /\ Bail
        /\ UNCHANGED <<config, faults>>
     \/ /\ Valid(Loaded)
        /\ \E over \in Signers \cup {Loaded}, persist \in BOOLEAN :
             /\ OfferToPersist(over, persist)
             /\ cmd' = IF config' = "torn" THEN Idle
                       ELSE [cmd EXCEPT !.pc = "hardware", !.at = over,
                                        !.sure = @ /\ ~Deceptive(over)]
  /\ UNCHANGED <<octez, backend, hidden, etc, kept, live, wallet, baker, keys, plugged, named>>

\* `config set`: one value is checked and replaced, the others stay as they are.
ConfigSet ==
  /\ Start
  /\ \E c \in Signers \cup {Loaded} : Save(c)
  /\ UNCHANGED <<octez, backend, hidden, etc, kept, live, wallet, baker, keys, plugged, named, cmd>>

\* `config reset`: the file is deleted, then detected anew.
ConfigReset ==
  /\ Start
  /\ \/ Save(AutoDetected)
     \/ Fault /\ config' = "absent"
  /\ UNCHANGED <<octez, backend, hidden, etc, kept, live, wallet, baker, keys, plugged, named, cmd>>

\* The content decides, not the mode. The connection is readable by root alone, and so
\* is all of a directory that cannot be searched.
FileNeedsUpdate(f) == \/ etc[f] \in {"none", "other"}
                      \/ f = "connection" /\ etc[f] = "ours"
                      \/ f \in hidden

IfOutdated(f) == IF FileNeedsUpdate(f) THEN <<f>> ELSE <<>>
Outdated == IF backend = "networkd"
              THEN IfOutdated("unmanaged") \o IfOutdated("network") \o IfOutdated("udev")
              ELSE IfOutdated("connection") \o IfOutdated("udev")
Service(f) == IF f = "udev" THEN "udev" ELSE "net"

(***************************************************************************)
(* Setup, before it changes anything: hardware and dependencies.           *)
(***************************************************************************)
\* Nothing is in the way of a run that asks nothing: the device stays and has its name,
\* the network has read its files or will be made to, and no further fault occurs.
Unhindered ==
  /\ faults = MaxFaults
  /\ octez /\ config # "invalid" /\ plugged # None /\ named
  /\ "net" \in live \/ \E f \in ToSet(Outdated) : Service(f) = "net"
  /\ \A f \in Files : etc[f] # "raw"

Setup(mode) ==
  /\ Start
  /\ cmd' = [Idle EXCEPT !.pc = "load", !.mode = mode, !.sure = mode = "yes" /\ Unhindered]
  /\ UNCHANGED <<config, octez, backend, hidden, etc, kept, live, wallet, baker, keys,
                 plugged, named, faults>>

\* lsusb or sysfs lists the device.
HardwareFound == plugged # None

\* Five attempts, unless the check is skipped on the command line.
DetectHardware ==
  /\ At("hardware")
  /\ \E skip \in BOOLEAN :
       IF skip \/ HardwareFound THEN Goto("system") ELSE Bail
  /\ UNCHANGED <<config, octez, backend, hidden, etc, kept, live, wallet, baker, keys,
                 plugged, named, faults>>

\* The static binaries, verified against the registry's checksums.
InstallOctezStatic == octez' = TRUE

\* Missing octez binaries are installed when there is someone to ask.
EnsureOctez ==
  /\ At("system")
  /\ ~octez
  /\ IF Asked THEN \/ InstallOctezStatic /\ UNCHANGED cmd
                   \/ Bail /\ UNCHANGED octez
              ELSE Bail /\ UNCHANGED octez
  /\ UNCHANGED <<config, backend, hidden, etc, kept, live, wallet, baker, keys, plugged, named, faults>>

\* The node answers and is synced, the client directory is complete: what does
\* not hold ends the command, as Abort does.
VerifySystem ==
  /\ At("system")
  /\ octez
  /\ Goto("network")
  /\ UNCHANGED <<config, octez, backend, hidden, etc, kept, live, wallet, baker, keys,
                 plugged, named, faults>>

(***************************************************************************)
(* Phase 2: the network.                                                   *)
(***************************************************************************)
\* What confirm_phase_mutations answers, for a phase that has something to change.
Answers == IF Asked THEN {"confirmed", "skipped", "cancelled"} ELSE {"confirmed"}

ConfigureNetwork ==
  /\ At("network")
  /\ IF cmd.at = "lan" \/ Outdated = <<>>
       THEN Goto("baker") /\ UNCHANGED kept
       ELSE IF cmd.mode = "dry"
       THEN /\ Goto("baker")     \* the udev rule is backed up even then
            /\ kept' = kept \cup ({"udev"} \cap {f \in ToSet(Outdated) : etc[f] = "other"})
       ELSE \E answer \in Answers :
              /\ cmd' = CASE answer = "confirmed" ->
                               [cmd EXCEPT !.pc = "backup", !.todo = Outdated,
                                           !.changed = {Service(f) : f \in ToSet(Outdated)}]
                          [] answer = "skipped" -> [cmd EXCEPT !.pc = "baker"]
                          [] answer = "cancelled" -> Idle
              /\ UNCHANGED kept
  /\ UNCHANGED <<config, octez, backend, hidden, etc, live, wallet, baker, keys, plugged, named, faults>>

\* A mutant: nothing is copied before the move.
NoBackup ==
  /\ At("backup")
  /\ Goto("move")
  /\ UNCHANGED <<config, octez, backend, hidden, etc, kept, live, wallet, baker, keys, plugged, named, faults>>

\* What is in a directory that cannot be searched does not exist for exists().
Exists(f) == etc[f] # "none" /\ f \notin hidden

BackupFile ==
  /\ At("backup")
  /\ kept' = kept \cup {f \in {Head(cmd.todo)} : Exists(f) /\ etc[f] = "other"}
  /\ Goto("move")
  /\ UNCHANGED <<config, octez, backend, hidden, etc, live, wallet, baker, keys, plugged, named, faults>>

\* `mv` of a temporary file; its owner and mode are set afterwards.
MoveFile ==
  /\ At("move")
  /\ etc' = [etc EXCEPT ![Head(cmd.todo)] = "raw"]
  /\ Goto("mode")
  /\ UNCHANGED <<config, octez, backend, hidden, kept, live, wallet, baker, keys, plugged, named, faults>>

SetMode ==
  /\ At("mode")
  /\ etc' = [etc EXCEPT ![Head(cmd.todo)] = "ours"]
  /\ cmd' = [cmd EXCEPT !.todo = Tail(@),
                        !.pc = IF Len(cmd.todo) = 1 THEN "reload" ELSE "backup"]
  /\ UNCHANGED <<config, octez, backend, hidden, kept, live, wallet, baker, keys, plugged, named, faults>>

\* What a service reads from its files. udevd runs as root; the others refuse a
\* file with the wrong owner or mode.
NetRead == etc[IF backend = "networkd" THEN "network" ELSE "connection"] = "ours"
UdevRead == etc["udev"] \in {"raw", "ours"}
Read(s) == {t \in {"net", "udev"} : IF t \notin s THEN t \in live
                                   ELSE IF t = "net" THEN NetRead ELSE UdevRead}

\* A failed reload of networkd only warns.
ReloadNetwork ==
  /\ At("reload")
  /\ \/ live' = Read(cmd.changed \cap {"net"}) /\ UNCHANGED faults
     \/ backend = "networkd" /\ Fault /\ UNCHANGED live
  /\ Goto("udev")
  /\ UNCHANGED <<config, octez, backend, hidden, etc, kept, wallet, baker, keys, plugged, named>>

\* The rule is for an interface that is added; the trigger says of a connected one that
\* it has changed, which names nothing.
ReloadUdevRules ==
  /\ At("udev")
  /\ live' = Read(cmd.changed \cap {"udev"})
  /\ Goto(IF "udev" \in cmd.changed THEN "wait" ELSE "connect")
  /\ UNCHANGED <<config, octez, backend, hidden, etc, kept, wallet, baker, keys, plugged,
                 named, faults>>

\* 45 seconds for the interface to appear, in which the device may be plugged in anew.
WaitForNetworkInterface ==
  /\ At("wait")
  /\ IF named THEN Goto("connect") ELSE Bail
  /\ UNCHANGED <<config, octez, backend, hidden, etc, kept, live, wallet, baker, keys,
                 plugged, named, faults>>

Reachable(at) == /\ plugged # None /\ at \notin Former
                 /\ at = "usb" => named /\ "net" \in live

\* The connection has its address, and the signer accepts connections.
ValidateConnectivity ==
  /\ At("connect")
  /\ IF Reachable("usb") THEN Goto("baker") ELSE Bail
  /\ UNCHANGED <<config, octez, backend, hidden, etc, kept, live, wallet, baker, keys,
                 plugged, named, faults>>

(***************************************************************************)
(* Phase 3: the baker, its registration and its stake.                     *)
(***************************************************************************)
\* The delegate, as one query of the node shows it: registered or not, deactivated,
\* with a stake or without.
BakerStatus == baker

\* One query of the delegate, used to the end of the run. A dry run asks nothing.
ValidateBaker ==
  /\ At("baker")
  /\ IF cmd.mode = "dry" THEN Goto("complete")
     ELSE IF BakerStatus.reg = "active" /\ BakerStatus.staked
     THEN Goto("signer")
     ELSE \E answer \in Answers :
            cmd' = CASE answer = "confirmed" -> [cmd EXCEPT !.pc = IF baker.reg = "no" THEN "sync" ELSE "register",
                                                         !.seen = BakerStatus]
                     [] answer = "skipped" -> [cmd EXCEPT !.pc = "complete", !.failed = TRUE]
                     [] answer = "cancelled" -> Idle
  /\ UNCHANGED <<config, octez, backend, hidden, etc, kept, live, wallet, baker, keys,
                 plugged, named, faults>>

\* A first registration waits until the node is synced, for as long as it takes; a node
\* that is down ends the command, as Abort does.
WaitForNodeSync ==
  /\ At("sync")
  /\ Goto("register")
  /\ UNCHANGED <<config, octez, backend, hidden, etc, kept, live, wallet, baker, keys,
                 plugged, named, faults>>

\* The balance is checked before; whoever declines ends the command.
HandleBakerRegistration ==
  /\ At("register")
  /\ \/ /\ cmd.seen.reg = "active"
        /\ Goto("stake") /\ UNCHANGED baker
     \/ /\ cmd.seen.reg # "active"
        /\ \/ baker' = [baker EXCEPT !.reg = "active"] /\ Goto("stake")
           \/ Asked /\ Bail /\ UNCHANGED baker
  /\ UNCHANGED <<config, octez, backend, hidden, etc, kept, live, wallet, keys, plugged, named, faults>>

\* Only for a baker that was registered when it was looked at; a failure warns.
CheckAndSetStake ==
  /\ At("stake")
  /\ \/ /\ cmd.seen.reg # "no" /\ ~cmd.seen.staked
        /\ baker' = [baker EXCEPT !.staked = TRUE] /\ UNCHANGED faults
     \/ /\ cmd.seen.reg # "no" /\ ~cmd.seen.staked
        /\ UNCHANGED baker
        /\ IF Asked THEN UNCHANGED faults ELSE Fault
     \/ /\ cmd.seen.reg = "no" \/ cmd.seen.staked
        /\ UNCHANGED <<baker, faults>>
  /\ cmd' = [cmd EXCEPT !.pc = "signer", !.seen = None]
  /\ UNCHANGED <<config, octez, backend, hidden, etc, kept, live, wallet, keys, plugged, named>>

(***************************************************************************)
(* Phase 3: the keys.                                                      *)
(***************************************************************************)
\* The keys of the device that answers, in the order of the roles.
WaitForSigner ==
  /\ At("signer")
  /\ cmd' = IF Reachable(cmd.at) THEN [cmd EXCEPT !.pc = "discover", !.dev = plugged] ELSE Idle
  /\ UNCHANGED <<config, octez, backend, hidden, etc, kept, live, wallet, baker, keys,
                 plugged, named, faults>>

\* A mutant: any key at this signer counts as imported.
RolesAtThisSigner == {r \in Roles : wallet[r] # None /\ Names(wallet[r][2], cmd.at)}

\* The value of the alias contains this key and the host of this signer.
Imported(r) == /\ wallet[r] # None
               /\ wallet[r][1] = cmd.dev /\ Names(wallet[r][2], cmd.at)
RolesCorrectlyImported == {r \in Roles : Imported(r)}

RoleKeySetOnChain(r, d) == d \in ToSet(keys[r])

\* The wallet is read once. Nothing is done for keys that are all imported and set;
\* a failed query of the delegate counts as not set.
DiscoverKeys ==
  /\ At("discover")
  /\ \/ /\ RolesCorrectlyImported = Roles
        /\ \A r \in Roles : RoleKeySetOnChain(r, cmd.dev)
        /\ Goto("validate")
        /\ UNCHANGED faults
     \/ /\ cmd' = [cmd EXCEPT !.pc = "import", !.roles = RolesCorrectlyImported, !.todo = Order]
        /\ IF /\ RolesCorrectlyImported = Roles
              /\ \A r \in Roles : RoleKeySetOnChain(r, cmd.dev)
             THEN Fault ELSE UNCHANGED faults
  /\ UNCHANGED <<config, octez, backend, hidden, etc, kept, live, wallet, baker, keys, plugged, named>>

\* A mutant: an alias that exists is not replaced.
ImportWithoutForce ==
  /\ At("import")
  /\ LET r == Head(cmd.todo)
     IN \/ /\ r \in cmd.roles
           /\ Goto("set") /\ UNCHANGED wallet
        \/ /\ r \notin cmd.roles /\ wallet[r] = None /\ plugged = cmd.dev /\ Reachable(cmd.at)
           /\ wallet' = [wallet EXCEPT ![r] = <<cmd.dev, cmd.at>>]
           /\ Goto("set")
        \/ /\ r \notin cmd.roles /\ wallet[r] # None
           /\ Bail /\ UNCHANGED wallet
  /\ UNCHANGED <<config, octez, backend, hidden, etc, kept, live, baker, keys, plugged, named, faults>>

\* octez-client asks the signer for the public key.
ImportKeyFromSigner(r) ==
  /\ plugged = cmd.dev /\ Reachable(cmd.at)
  /\ wallet' = [wallet EXCEPT ![r] = <<cmd.dev, cmd.at>>]

\* An alias is replaced only with --force, for which the wallet is backed up.
ImportKey ==
  /\ At("import")
  /\ LET r == Head(cmd.todo)
         exists == wallet[r] # None
     IN \/ /\ r \in cmd.roles
           /\ Goto("set") /\ UNCHANGED <<wallet, kept>>
        \/ /\ r \notin cmd.roles
           /\ ImportKeyFromSigner(r)
           /\ kept' = kept \cup (IF exists THEN {"wallet"} ELSE {})
           /\ Goto("set")
        \/ /\ r \notin cmd.roles
           /\ ~(plugged = cmd.dev /\ Reachable(cmd.at)) \/ (Asked /\ exists)
           /\ Bail /\ UNCHANGED <<wallet, kept>>
  /\ UNCHANGED <<config, octez, backend, hidden, etc, live, baker, keys, plugged, named, faults>>

\* The key the alias names, unless the chain has it. The new key signs the operation;
\* the chain answers "already active" to a key that is the last one it was given.
SetKey ==
  /\ At("set")
  /\ LET r == Head(cmd.todo)
         d == wallet[r][1]
         next == [cmd EXCEPT !.todo = Tail(@),
                             !.pc = IF Len(cmd.todo) = 1 THEN "validate" ELSE "import"]
     IN \/ /\ RoleKeySetOnChain(r, d)
           /\ cmd' = next /\ UNCHANGED <<keys, faults>>
        \/ /\ IF RoleKeySetOnChain(r, d) THEN Fault ELSE UNCHANGED faults
           /\ IF plugged = d /\ Reachable(wallet[r][2]) /\ baker.reg = "active"
                THEN /\ keys' = IF Last(keys[r]) = d THEN keys
                                ELSE [keys EXCEPT ![r] = Append(@, d)]
                     /\ cmd' = next
                ELSE Bail /\ UNCHANGED keys
  /\ UNCHANGED <<config, octez, backend, hidden, etc, kept, live, wallet, baker, plugged, named>>

\* The file of the wallet has an entry for every role that contains the signer's host.
KeysInFilesystem == \A r \in Roles : wallet[r] # None /\ Names(wallet[r][2], cmd.at)

ValidateImportedKeys ==
  /\ At("validate")
  /\ IF KeysInFilesystem
       THEN Goto("complete") ELSE Bail
  /\ UNCHANGED <<config, octez, backend, hidden, etc, kept, live, wallet, baker, keys,
                 plugged, named, faults>>

(***************************************************************************)
(* Purge.                                                                  *)
(***************************************************************************)
Present == {f \in Files : Exists(f)}
PresentAliases == {r \in Roles : wallet[r] # None}

Purge(mode) ==
  /\ Start
  /\ IF Unreadable THEN Save(AutoDetected) ELSE UNCHANGED <<config, faults>>
  /\ cmd' = IF config' = "torn" /\ Unreadable THEN Idle
            ELSE [Idle EXCEPT !.pc = "list", !.mode = mode]
  /\ UNCHANGED <<octez, backend, hidden, etc, kept, live, wallet, baker, keys, plugged, named>>

\* A mutant: a failed listing reads as an empty wallet.
ListUnchecked ==
  /\ At("list")
  /\ \E known \in BOOLEAN :
       /\ known => octez
       /\ IF ~known /\ octez THEN Fault ELSE UNCHANGED faults
       /\ LET aliases == IF known THEN PresentAliases ELSE {}
          IN cmd' = [cmd EXCEPT !.roles = aliases,
                                !.pc = IF Present = {} /\ aliases = {} THEN "clean"
                                       ELSE IF Present = {} THEN "forget" ELSE "remove"]
  /\ UNCHANGED <<config, octez, backend, hidden, etc, kept, live, wallet, baker, keys, plugged, named>>

\* Files and aliases to remove. Without octez-client the aliases are not known, and
\* the purge is not clean whatever else it does.
ListPresent ==
  /\ At("list")
  /\ \E known \in BOOLEAN :
       /\ known => octez
       /\ IF ~known /\ octez THEN Fault ELSE UNCHANGED faults
       /\ LET aliases == IF known THEN PresentAliases ELSE {}
          IN cmd' = IF Present = {} /\ aliases = {}
                      THEN IF known THEN [cmd EXCEPT !.pc = "clean"] ELSE Idle
                      ELSE IF cmd.mode = "dry" THEN [cmd EXCEPT !.pc = "untouched"]
                      ELSE [cmd EXCEPT !.roles = aliases, !.failed = ~known,
                                       !.pc = IF Present = {} THEN "forget" ELSE "remove"]
  /\ UNCHANGED <<config, octez, backend, hidden, etc, kept, live, wallet, baker, keys, plugged, named>>

\* Each removal and reload is tried, whatever the others did.
RemoveConfig ==
  /\ At("remove")
  /\ \/ /\ Goto("untouched")          \* declined: "Purge cancelled."
        /\ UNCHANGED <<etc, live, faults>>
     \/ \E left \in {{}, Present} \cup {{f} : f \in Present}, reloaded \in BOOLEAN :
          /\ IF left = {} /\ reloaded THEN UNCHANGED faults ELSE Fault
          /\ etc' = [f \in Files |-> IF f \in Present \ left THEN "none" ELSE etc[f]]
          /\ live' = IF reloaded THEN {s \in live : \E f \in Files : etc'[f] # "none" /\ Service(f) = s}
                              ELSE live
          /\ cmd' = [cmd EXCEPT !.failed = @ \/ left # {} \/ ~reloaded,
                                !.pc = IF cmd.roles = {} THEN "verify" ELSE "forget"]
  /\ UNCHANGED <<config, octez, backend, hidden, kept, wallet, baker, keys, plugged, named>>

RemoveKeys ==
  /\ At("forget")
  /\ \/ UNCHANGED <<wallet, faults>> /\ Goto("verify")   \* declined: the keys are kept
     \/ \E left \in SUBSET cmd.roles :
          /\ IF left = {} THEN UNCHANGED faults ELSE Fault
          /\ wallet' = [r \in Roles |-> IF r \in cmd.roles \ left THEN None ELSE wallet[r]]
          /\ cmd' = [cmd EXCEPT !.failed = @ \/ left # {}, !.pc = "verify"]
  /\ UNCHANGED <<config, octez, backend, hidden, etc, kept, live, baker, keys, plugged, named>>

Survivors == Present # {} \/ ~octez \/ PresentAliases # {}

VerifyPurge ==
  /\ At("verify")
  /\ cmd' = IF cmd.failed \/ Survivors THEN Idle ELSE [cmd EXCEPT !.pc = "clean"]
  /\ UNCHANGED <<config, octez, backend, hidden, etc, kept, live, wallet, baker, keys,
                 plugged, named, faults>>

(***************************************************************************)
(* Ends of commands, and what happens around them.                         *)
(***************************************************************************)
Ended == {"complete", "clean", "untouched"}

End ==
  /\ cmd.pc \in Ended
  /\ Bail
  /\ UNCHANGED <<config, octez, backend, hidden, etc, kept, live, wallet, baker, keys,
                 plugged, named, faults>>

\* A command that cannot go on: an error of a tool, the node or the user's Ctrl-C.
Abort ==
  /\ cmd # Idle /\ cmd.pc \notin Ended
  /\ Fault
  /\ Bail
  /\ UNCHANGED <<config, octez, backend, hidden, etc, kept, live, wallet, baker, keys, plugged, named>>

\* The interface is named by the rules that udevd has read.
Plug(d) ==
  /\ plugged = None
  /\ plugged' = d
  /\ named' = ("udev" \in live)
  /\ UNCHANGED <<config, octez, backend, hidden, etc, kept, live, wallet, baker, keys, cmd, faults>>

Unplug ==
  /\ plugged # None
  /\ Fault
  /\ plugged' = None /\ named' = FALSE
  /\ UNCHANGED <<config, octez, backend, hidden, etc, kept, live, wallet, baker, keys, cmd>>

\* A restart of the host: every service reads its files, every interface is added.
Restart ==
  /\ cmd = Idle
  /\ live' = Read({"net", "udev"})
  /\ named' = (plugged # None /\ "udev" \in live')
  /\ live' # live \/ named' # named
  /\ UNCHANGED <<config, octez, backend, hidden, etc, kept, wallet, baker, keys, plugged,
                 cmd, faults>>

\* A cycle begins: the first pending key of a role becomes active.
Activate ==
  /\ cmd = Idle
  /\ keys' = [r \in Roles |-> IF Len(keys[r]) > 1 THEN Tail(keys[r]) ELSE keys[r]]
  /\ keys' # keys
  /\ UNCHANGED <<config, octez, backend, hidden, etc, kept, live, wallet, baker, plugged, named,
                 cmd, faults>>

SetupStep ==
  \/ LoadValid \/ DetectHardware \/ EnsureOctez \/ VerifySystem
  \/ ConfigureNetwork \/ BackupFile \/ MoveFile \/ SetMode
  \/ ReloadNetwork \/ ReloadUdevRules \/ WaitForNetworkInterface
  \/ ValidateConnectivity
  \/ ValidateBaker \/ WaitForNodeSync \/ HandleBakerRegistration \/ CheckAndSetStake
  \/ WaitForSigner \/ DiscoverKeys \/ ImportKey \/ SetKey \/ ValidateImportedKeys
PurgeStep == ListPresent \/ RemoveConfig \/ RemoveKeys \/ VerifyPurge
Step == SetupStep \/ PurgeStep \/ End

Modes == {"ask", "yes", "dry"}
HostNext ==
  \/ \E mode \in Modes : Setup(mode)
  \/ \E mode \in {"ask", "dry"} : Purge(mode)
  \/ ConfigSet \/ ConfigReset
  \/ /\ \/ Step \/ Abort
        \/ \E d \in Devices : Plug(d)
        \/ Unplug \/ Restart \/ Activate
     /\ UNCHANGED runs

(***************************************************************************)
(* Properties.                                                             *)
(***************************************************************************)
(***************************************************************************)
(* When setup says that it is complete and nothing was skipped, the two    *)
(* aliases name the keys of one device, at an endpoint whose text contains *)
(* the host of the configured signer, and the chain has those keys, active *)
(* or pending. That is all the code compares: an alias of the device at an *)
(* old port, or at a longer address, counts, though it leads nowhere. The  *)
(* wallet is read once, the device may be exchanged before each import,    *)
(* aliases of another device may be there, and every earlier run may have  *)
(* stopped anywhere (discover_and_import_keys, import_and_set_key).        *)
(***************************************************************************)
CompleteIsSet ==
  At("complete") /\ cmd.mode # "dry" /\ ~cmd.failed =>
    \E d \in Devices : \A r \in Roles : /\ wallet[r] # None /\ wallet[r][1] = d
                                        /\ Names(wallet[r][2], cmd.at)
                                        /\ RoleKeySetOnChain(r, d)

(***************************************************************************)
(* A file of /etc that was there before the first setup is still there,    *)
(* or in a backup directory, unless the operator had it purged: whatever   *)
(* step a run stopped at, the copy comes before the move. Only a file in a *)
(* directory that the user cannot search is overwritten without a copy.    *)
(***************************************************************************)
OverwrittenIsKept ==
  [][\A f \in Files \ hidden :
        etc[f] = "other" /\ etc'[f] \notin {"other", "none"} => f \in kept]_vars

(***************************************************************************)
(* A setup that asks nothing, started with the device connected and its    *)
(* interface named, and with the network up to date or about to be         *)
(* reloaded, completes: whatever earlier runs left behind in the           *)
(* configuration, the wallet, the registration and the chain is taken up,  *)
(* not stumbled over. Aliases elsewhere that pass for aliases at the       *)
(* configured signer are left out: the run uses them as they are.          *)
(***************************************************************************)
SetupResumes == [][cmd.sure /\ ~At("complete") => cmd' # Idle]_vars

(***************************************************************************)
(* A purge that ends as clean has left no alias, and no file but one in a  *)
(* directory that the user cannot search: the listing of the aliases may   *)
(* fail, removals may fail one by one, the operator may keep the keys      *)
(* (run_purge, purge_is_clean). Cancelled purges and dry runs are told     *)
(* apart here, though the code reports them as clean.                      *)
(***************************************************************************)
CleanIsClean ==
  At("clean") => (\A f \in Files \ hidden : etc[f] = "none") /\ PresentAliases = {}
=============================================================================
