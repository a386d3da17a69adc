----------------------------- MODULE DiskCheck -----------------------------
(***************************************************************************)
(* russignol check disk (host-utility/src/disk.rs): the card of a signer   *)
(* is read on the host, its faults are classified against a node, and the  *)
(* repairs the operator confirms are made.  The host cannot write a mark:  *)
(* it stages a watermark-config.json on the boot partition, which the      *)
(* device consumes at its next boot and applies once it is unlocked.  The  *)
(* device's part is here as far as it changes the card; Signer and App     *)
(* have its detail.                                                        *)
(*                                                                         *)
(* Each damage to the card, failed write and power loss counts as a fault. *)
(* The dialogs that recover a floor on the device, and findings that       *)
(* neither affect health nor have a repair, are left out.                  *)
(***************************************************************************)
EXTENDS Integers, FiniteSetsExt

CONSTANTS Keys, Ops,      \* a card's keys; the operations with a mark each
          Chains, Mainnet,
          None,           \* no node, no chain
          HostUser,       \* "root", "device" (uid 1000) or "other"
          Mounts,         \* outcomes of mounting the f2fs partitions
          MaxLevel,       \* bound on a chain's head
          Gap,            \* LARGE_GAP_CYCLES * blocks_per_cycle
          MaxFaults,
          Damages         \* what may happen to the card

ASSUME DiskAssumption ==
    /\ Ops # {} /\ Mainnet \in Chains /\ None \notin Chains
    /\ HostUser \in {"root", "device", "other"}
    /\ Mounts \subseteq {"inspected", "notcapable", "failed"}
    /\ MaxLevel \in Nat \ {0} /\ Gap \in Nat /\ MaxFaults \in Nat
    /\ Damages \subseteq {"keys", "gone", "bad", "owner", "mode",
                          "dir", "file", "corrupt", "marks", "panic", "migrate",
                          "config"}

Levels == 1 .. MaxLevel

(* Contents of the card: chain_info.json, a mark, the staged config.        *)
ChainFile == [st : {"missing", "bad", "ok"}, chain : Chains,
              owned : BOOLEAN, mode : BOOLEAN]
Mark == [st : {"missing", "corrupt"}] \cup
        [st : {"valid"}, level : Levels, chain : Chains]
Config == [st : {"none", "torn"}] \cup
          [st : {"ok"}, level : Levels, chain : Chains]
KeyMarks == [dir : BOOLEAN, owned : BOOLEAN, file : [Ops -> Mark]]
Card == [setup : BOOLEAN, migr : BOOLEAN, panic : BOOLEAN,
         keys : {"parsed", "unreadable"}, ci : ChainFile, cfg : Config,
         marks : [Keys -> KeyMarks]]

VARIABLES card,      \* the card's files
          head,      \* level of the nodes, the same for every chain
          pc,        \* the command
          node,      \* its snapshot of the node
          todo,      \* the repairs still to be made
          good,      \* it last said that the card is good
          dev,       \* the device: off, locked or unlocked
          pending,   \* pending_watermark_level
          faults

vars == <<card, head, pc, node, todo, good, dev, pending, faults>>

Snapshot == [chain : Chains, level : Levels]
Action == [kind : {"delete", "stage", "write", "chown", "chmod", "truncate"}]
          \cup [kind : {"chownMarks"}, key : Keys]

TypeOK ==
    /\ card \in Card
    /\ head \in Levels
    /\ pc \in {"idle", "repair"} /\ node \in Snapshot \cup {None}
    /\ todo \subseteq Action
    /\ good \in BOOLEAN
    /\ dev \in {"off", "locked", "unlocked"}
    /\ pending \in 0 .. MaxLevel /\ faults \in 0 .. MaxFaults

Missing == [st |-> "missing"]
NoMarks == [dir |-> FALSE, owned |-> TRUE, file |-> [o \in Ops |-> Missing]]
MarksAt(c, l) == [dir |-> TRUE, owned |-> TRUE,
                  file |-> [o \in Ops |-> [st |-> "valid", level |-> l, chain |-> c]]]
NoConfig == [st |-> "none"]
ChainIs(c) == [st |-> "ok", chain |-> c, owned |-> TRUE, mode |-> TRUE]

(* A card in use, or one flashed and not yet set up.                        *)
Init ==
    \E c \in Chains :
      /\ card \in {[setup |-> TRUE, migr |-> FALSE, panic |-> FALSE,
                    keys |-> "parsed", ci |-> ChainIs(c), cfg |-> NoConfig,
                    marks |-> [k \in Keys |-> MarksAt(c, 1)]],
                   [setup |-> FALSE, migr |-> FALSE, panic |-> FALSE,
                    keys |-> "unreadable", cfg |-> NoConfig,
                    ci |-> [ChainIs(c) EXCEPT !.st = "missing"],
                    marks |-> [k \in Keys |-> NoMarks]]}
      /\ head = 1
      /\ pc = "idle" /\ node = None /\ todo = {} /\ good = FALSE
      /\ dev = "off" /\ pending = 0 /\ faults = 0

-----------------------------------------------------------------------------
(* gather_card_state.                                                       *)

MayRead(f) == HostUser = "root" \/ ~ f.mode
                \/ (HostUser = "device" /\ f.owned)

(* read_chain_info_state: one that cannot be read, or does not parse, has   *)
(* an owner and a mode and nothing else.                                    *)
ChainInfoState ==
    IF card.ci.st = "ok" /\ ~ MayRead(card.ci)
    THEN [card.ci EXCEPT !.st = "bad"] ELSE card.ci

(* gather_boot_config: absent and unparseable are the same.                 *)
BootConfig == IF card.cfg.st = "ok" THEN card.cfg ELSE NoConfig

(* gather_keys_partition: the keys whose hashes can be read.                *)
KeyNames == {k \in Keys : card.keys = "parsed"}

(* gather_data_partition: without the MAC key a mark is taken at its word,  *)
(* whatever chain it is for.                                                *)
KeyWatermarks == [k \in KeyNames |-> card.marks[k]]

(* gather_card_state, uninspected_state.                                    *)
Gathered(mount) ==
    IF mount = "inspected"
    THEN [insp |-> mount, setup |-> card.setup, keys |-> card.keys,
          ci |-> ChainInfoState, panic |-> card.panic, cfg |-> BootConfig,
          marks |-> KeyWatermarks]
    ELSE [insp |-> mount, setup |-> FALSE, keys |-> "unreadable",
          ci |-> [card.ci EXCEPT !.st = "missing"], panic |-> FALSE,
          cfg |-> BootConfig, marks |-> [k \in {} |-> NoMarks]]

-----------------------------------------------------------------------------
(* The node the card is judged by.                                          *)

(* card_target_chain_id. *)
CardTarget(s) == CASE s.ci.st = "ok" -> s.ci.chain
                   [] s.ci.st # "ok" /\ s.cfg.st = "ok" -> s.cfg.chain
                   [] OTHER -> None

(* plan_node. *)
PlanNode(current, target, explicit, auto) ==
    CASE target = None \/ current = target -> "accept"
      [] target \notin {None, current} /\ explicit -> "giveup"
      [] target \notin {None, current} /\ ~ explicit /\ target = Mainnet -> "switch"
      [] target \notin {None, current} /\ ~ explicit /\ target # Mainnet ->
             IF auto THEN "giveup" ELSE "prompt"

(* Mutant: the answer after a switch or a prompt is used as it is.          *)
AnyChain(c, target) == c

(* accept_if_on_chain. *)
AcceptIfOnChain(c, target) == IF target # None /\ c # target THEN None ELSE c

(* fetch_node: the endpoint answers for a chain or does not.                *)
FetchNode(c) == IF c = None THEN None ELSE [chain |-> c, level |-> head]

(* resolve_node_for_card: saved is the chain of the configured endpoint,    *)
(* other that of the endpoint switched to or picked.                        *)
ResolveNode(target, saved, other, explicit, auto) ==
    LET plan == PlanNode(saved, target, explicit, auto) IN
    CASE plan = "accept" -> saved
      [] plan = "giveup" -> None
      [] plan \in {"switch", "prompt"} -> AcceptIfOnChain(other, target)

(* What a run may end up with. *)
Nodes(target, auto) ==
    LET answers == Chains \cup {None} IN
    {FetchNode(c) : c \in {ResolveNode(target, saved, other, explicit, auto) :
        saved \in answers, other \in answers, explicit \in BOOLEAN}}

-----------------------------------------------------------------------------
(* classify: the findings that count against a card or have a repair.       *)

Fault(sev, act) == [sev |-> sev, act |-> act]
NoAct == [kind |-> "none"]
Act(kind) == [kind |-> kind]
StageIf(n) == IF n = None THEN NoAct ELSE Act("stage")
WriteIf(n) == IF n = None THEN NoAct ELSE Act("write")
FaultIf(p, sev, act) == IF p THEN {Fault(sev, act)} ELSE {}

(* boot_config_superseded. *)
Superseded(s, n) ==
    /\ s.ci.st = "ok" /\ s.ci.chain = n.chain
    /\ s.insp = "inspected" /\ DOMAIN s.marks # {}
    /\ \A k \in DOMAIN s.marks :
         /\ s.marks[k].dir
         /\ \A o \in Ops : /\ s.marks[k].file[o].st = "valid"
                           /\ s.marks[k].file[o].level >= s.cfg.level

(* classify_boot_config. *)
ClassifyBootConfig(s, n) ==
    FaultIf(/\ s.cfg.st = "ok" /\ n # None
            /\ n.chain # s.cfg.chain \/ Superseded(s, n),
            "warning", Act("delete"))

(* classify_keys. *)
ClassifyKeys(s) == FaultIf(s.keys # "parsed", "critical", NoAct)

(* classify_chain_info. *)
ClassifyChainInfo(s, n) ==
    CASE s.ci.st = "missing" -> {Fault("critical", WriteIf(n))}
      [] s.ci.st = "bad" ->
           {Fault("critical", IF s.ci.owned THEN WriteIf(n) ELSE Act("chown"))}
      [] s.ci.st = "ok" ->
           FaultIf(n # None /\ n.chain # s.ci.chain, "warning", Act("write"))
             \cup FaultIf(~ s.ci.owned, "critical", Act("chown"))
             \cup FaultIf(~ s.ci.mode, "warning", Act("chmod"))

(* staged_config_seeds_watermarks. *)
SeedsPending(s, n) == /\ s.cfg.st = "ok"
                      /\ n = None \/ n.chain = s.cfg.chain

(* floor_significantly_behind. *)
SignificantlyBehind(level, n) == n.level - level > Gap

(* classify_key_watermarks. *)
ClassifyKey(s, k, n) ==
    LET w == s.marks[k]
        valid == {o \in Ops : w.file[o].st = "valid"}
        floor == Min({w.file[o].level : o \in valid})
    IN IF ~ w.dir
       THEN FaultIf(~ SeedsPending(s, n), "critical", StageIf(n))
       ELSE FaultIf(valid # Ops, "critical", StageIf(n))
              \cup FaultIf(/\ n # None /\ valid # {}
                           /\ SignificantlyBehind(floor, n),
                           "warning", StageIf(n))
              \cup FaultIf(~ w.owned, "critical",
                           [kind |-> "chownMarks", key |-> k])

(* classify_logs. *)
ClassifyLogs(s) == FaultIf(s.panic, "warning", Act("truncate"))

(* A card that was read and is set up. *)
ClassifyContents(s, n) ==
    ClassifyKeys(s) \cup ClassifyChainInfo(s, n) \cup ClassifyLogs(s)
      \cup UNION {ClassifyKey(s, k, n) : k \in DOMAIN s.marks}

(* A card that was not read. *)
ClassifyUnread(s, n) ==
    {Fault("warning", NoAct)}
      \cup FaultIf(s.insp = "notcapable" /\ n # None, "info", Act("stage"))

(* classify. *)
Classify(s, n) ==
    ClassifyBootConfig(s, n) \cup
    (CASE s.insp # "inspected" -> ClassifyUnread(s, n)
       [] s.insp = "inspected" /\ ~ s.setup ->
            FaultIf(s.cfg.st # "ok", "warning", StageIf(n))
       [] s.insp = "inspected" /\ s.setup -> ClassifyContents(s, n))

(* is_healthy. *)
IsHealthy(issues) == \A i \in issues : i.sev = "info" /\ i.act = NoAct

(* Mutant: deleting the staged config is not dropped.                       *)
PlanAll(issues) == {i.act : i \in issues} \ {NoAct}

(* plan_repairs: a rewrite of chain_info restores its owner and mode, and   *)
(* staging a config replaces the one to be deleted.                         *)
PlanRepairs(issues) ==
    LET acts == {i.act : i \in issues} \ {NoAct}
        kinds == {a.kind : a \in acts}
    IN {a \in acts : /\ a.kind \in {"chmod", "chown"} => "write" \notin kinds
                     /\ a.kind = "delete" => "stage" \notin kinds}

-----------------------------------------------------------------------------
(* The command.                                                             *)

Host == pc = "idle" /\ dev = "off"

(* run_disk_check up to the repairs, with confirm_actions.                  *)
Check(mount, n, yes, dry) ==
    /\ Host
    /\ LET s == Gathered(mount)
           issues == Classify(s, n)
           plan == PlanRepairs(issues)
       IN /\ good' = IsHealthy(issues)
          /\ \/ /\ IsHealthy(issues) \/ plan = {} \/ dry
                /\ UNCHANGED <<pc, node, todo>>
             \/ /\ ~ IsHealthy(issues) /\ ~ dry
                /\ \E ok \in (IF yes THEN {plan} ELSE SUBSET plan) \ {{}} :
                     todo' = ok /\ node' = n /\ pc' = "repair"
             \/ /\ ~ IsHealthy(issues) /\ ~ dry /\ ~ yes   \* none confirmed
                /\ UNCHANGED <<pc, node, todo>>
    /\ UNCHANGED <<card, head, dev, pending, faults>>

(* Mutant: the mode is set before the owner.                                *)
RankModeFirst(a) ==
    CASE a.kind = "stage" -> 1 [] a.kind = "write" -> 2 [] a.kind = "chmod" -> 3
      [] a.kind = "chown" -> 4 [] a.kind = "chownMarks" -> 5
      [] a.kind = "truncate" -> 6 [] a.kind = "delete" -> 7

(* execute_repairs: staging first, then the partitions keys, data, boot;    *)
(* action_partition, and within one the order of the findings.              *)
Rank(a) ==
    CASE a.kind = "stage" -> 1 [] a.kind = "write" -> 2 [] a.kind = "chown" -> 3
      [] a.kind = "chmod" -> 4 [] a.kind = "chownMarks" -> 5
      [] a.kind = "truncate" -> 6 [] a.kind = "delete" -> 7

Due(a) == pc = "repair" /\ a \in todo /\ \A b \in todo : Rank(a) <= Rank(b)

(* A repair that fails ends the command.                                    *)
Done(a) == todo' = todo \ {a} /\ UNCHANGED <<pc, node, good>>
GiveUp == todo' = {} /\ pc' = "idle" /\ node' = None /\ UNCHANGED good
HostRest == UNCHANGED <<head, dev, pending, faults>>

(* chmod, and a truncating write after it, are for the owner and root.      *)
MayChange(f) == HostUser = "root" \/ (HostUser = "device" /\ f.owned)

(* stage_boot_config: write_watermark_config and read_back_and_verify.      *)
StageBootConfig ==
    \E a \in todo :
      /\ a.kind = "stage" /\ Due(a) /\ Done(a)
      /\ card' = [card EXCEPT !.cfg = [st |-> "ok", level |-> node.level,
                                       chain |-> node.chain]]
      /\ HostRest

(* card_fs::write_chain_info, then the owner.                               *)
WriteChainInfo ==
    \E a \in todo :
      /\ a.kind = "write" /\ Due(a)
      /\ IF MayChange(card.ci) \/ (card.ci.st = "missing" /\ HostUser = "device")
         THEN Done(a) /\ card' = [card EXCEPT !.ci = ChainIs(node.chain)]
         ELSE GiveUp /\ UNCHANGED card
      /\ HostRest

(* ensure_device_owned, with sudo. *)
ChownChainInfo ==
    \E a \in todo : /\ a.kind = "chown" /\ Due(a) /\ Done(a)
                    /\ card' = [card EXCEPT !.ci.owned = TRUE]
                    /\ HostRest

(* set_chain_info_mode. *)
ChmodChainInfo ==
    \E a \in todo :
      /\ a.kind = "chmod" /\ Due(a)
      /\ IF MayChange(card.ci)
         THEN Done(a) /\ card' = [card EXCEPT !.ci.mode = TRUE]
         ELSE GiveUp /\ UNCHANGED card
      /\ HostRest

(* apply_action on the data and boot partitions.                            *)
ApplyAction ==
    \E a \in todo :
      /\ a.kind \in {"chownMarks", "truncate", "delete"} /\ Due(a) /\ Done(a)
      /\ card' = CASE a.kind = "chownMarks" -> [card EXCEPT !.marks[a.key].owned = TRUE]
                   [] a.kind = "truncate" -> [card EXCEPT !.panic = FALSE]
                   [] a.kind = "delete" -> [card EXCEPT !.cfg = NoConfig]
      /\ HostRest

(* The card is pulled, or the mount or the write fails: a config that was   *)
(* being staged, or a chain_info being rewritten, is left half written.     *)
RepairFails ==
    /\ pc = "repair" /\ todo # {} /\ faults < MaxFaults
    /\ faults' = faults + 1
    /\ \E a \in todo :
         /\ Due(a) /\ GiveUp
         /\ \/ UNCHANGED card
            \/ /\ a.kind = "stage"
               /\ card' = [card EXCEPT !.cfg = [st |-> "torn"]]
            \/ /\ a.kind = "write" /\ HostUser = "device"
               /\ card' = [card EXCEPT !.ci.st = "bad", !.ci.mode = FALSE,
                             !.ci.owned = card.ci.owned \/ card.ci.st = "missing"]
    /\ UNCHANGED <<head, dev, pending>>

Finish == /\ pc = "repair" /\ todo = {}
          /\ pc' = "idle" /\ node' = None
          /\ UNCHANGED <<card, head, todo, good, dev, pending, faults>>

-----------------------------------------------------------------------------
(* The device.                                                              *)

(* Power on.  recover_watermark_config consumes the config on a card that   *)
(* is set up, unless the key file is to be migrated first; a first boot     *)
(* needs one, and makes the keys.                                           *)
Boot ==
    /\ Host /\ dev' = "locked"
    /\ card.setup \/ card.cfg.st = "ok"
    /\ IF card.cfg.st = "ok" /\ ~ card.migr
       THEN /\ card' = [card EXCEPT !.ci = ChainIs(card.cfg.chain),
                          !.cfg = NoConfig, !.setup = TRUE,
                          !.keys = IF card.setup THEN @ ELSE "parsed"]
            /\ pending' = card.cfg.level
       ELSE UNCHANGED <<card, pending>>
    /\ UNCHANGED <<head, pc, node, todo, good, faults>>

(* The marks a device on this chain accepts.                                *)
Verified(w) == {o \in Ops : /\ w.file[o].st = "valid"
                            /\ card.ci.st = "ok"
                            /\ card.ci.owned \/ ~ card.ci.mode
                            /\ w.file[o].chain = card.ci.chain}

(* seed_floor: never lower, and of the key's highest mark.                  *)
Seeded(w, c, l) ==
    IF w.dir /\ \E o \in Verified(w) : w.file[o].level >= l THEN w
    ELSE MarksAt(c, l)

(* load_per_key_watermark opens each file and makes the missing ones.       *)
Loaded(w) ==
    IF ~ w.dir THEN w
    ELSE [w EXCEPT !.file = [o \in Ops |-> IF w.file[o].st = "missing"
                                           THEN [st |-> "corrupt"] ELSE w.file[o]]]

(* Marks of another owner cannot be opened, and the device stops.           *)
MarksOpen == \A k \in Keys : card.marks[k].owned

(* The PIN: apply_init_watermark.                                           *)
Unlock ==
    /\ dev = "locked" /\ dev' = "unlocked" /\ pending' = 0
    /\ MarksOpen
    /\ card' = [card EXCEPT !.migr = FALSE,
                  !.marks = [k \in Keys |->
                     IF pending = 0 THEN Loaded(card.marks[k])
                     ELSE Seeded(Loaded(card.marks[k]), card.ci.chain, pending)]]
    /\ UNCHANGED <<head, pc, node, todo, good, faults>>

(* A signature raises the mark of its operation, up to the head.            *)
Sign(k, o) ==
    /\ dev = "unlocked" /\ o \in Verified(card.marks[k])
    /\ card.marks[k].file[o].level < head /\ head < MaxLevel
    /\ card' = [card EXCEPT !.marks[k].file[o].level = head]
    /\ UNCHANGED <<head, pc, node, todo, good, dev, pending, faults>>

(* The device is switched off; before it is unlocked, that loses the level  *)
(* it was to apply.                                                         *)
PowerOff ==
    /\ dev # "off" /\ dev' = "off" /\ pending' = 0
    /\ pending = 0 \/ ~ MarksOpen \/ faults < MaxFaults
    /\ faults' = IF pending = 0 \/ ~ MarksOpen THEN faults ELSE faults + 1
    /\ UNCHANGED <<card, head, pc, node, todo, good>>

-----------------------------------------------------------------------------
(* The world.                                                               *)

Advance ==
    /\ head < MaxLevel /\ head' = head + 1
    /\ UNCHANGED <<card, pc, node, todo, good, dev, pending, faults>>

DamagedMarks(d, w) ==
    CASE d = "dir" -> {NoMarks}
      [] d = "marks" -> {[w EXCEPT !.owned = FALSE]}
      [] d = "file" -> {[w EXCEPT !.file[o] = Missing] : o \in Ops}
      [] d = "corrupt" -> {[w EXCEPT !.file[o] = [st |-> "corrupt"]] : o \in Ops}
      [] OTHER -> {}

DamagedKey(d, k) ==
    {[card EXCEPT !.marks[k] = w] : w \in DamagedMarks(d, card.marks[k])}

(* What the card can look like after wear, an older firmware, a write cut   *)
(* short or a careless copy; a config may have been staged elsewhere.       *)
Damaged(d) ==
    CASE d = "keys" -> {[card EXCEPT !.keys = "unreadable"]}
      [] d = "gone" -> {[card EXCEPT !.ci = [@ EXCEPT !.st = "missing",
                                               !.owned = TRUE, !.mode = TRUE]]}
      [] d = "bad" -> {[card EXCEPT !.ci.st = "bad"]}
      [] d = "owner" -> {[card EXCEPT !.ci.owned = FALSE, !.ci.mode = FALSE]}
      [] d = "mode" -> {[card EXCEPT !.ci.mode = FALSE]}
      [] d = "panic" -> {[card EXCEPT !.panic = TRUE]}
      [] d = "config" -> {[card EXCEPT !.cfg = [st |-> "ok", level |-> head,
                                                chain |-> card.ci.chain]]}
      [] d = "migrate" -> {[card EXCEPT !.migr = TRUE]}
      [] d \in {"dir", "marks", "file", "corrupt"} ->
           UNION {DamagedKey(d, k) : k \in {x \in Keys : card.marks[x].dir}}
      [] OTHER -> {}

Damage ==
    /\ Host /\ faults < MaxFaults /\ card.setup
    /\ head < MaxLevel
    /\ \E d \in Damages : card' \in Damaged(d) \ {card}
    /\ faults' = faults + 1 /\ good' = FALSE
    /\ UNCHANGED <<head, pc, node, todo, dev, pending>>

Repair == \/ StageBootConfig \/ WriteChainInfo \/ ChownChainInfo
          \/ ChmodChainInfo \/ ApplyAction

Next ==
    \/ \E mount \in Mounts, yes, dry \in BOOLEAN :
         \E n \in Nodes(CardTarget(Gathered(mount)), yes \/ dry) : Check(mount, n, yes, dry)
    \/ Repair \/ RepairFails \/ Finish
    \/ Boot \/ Unlock \/ PowerOff
    \/ \E k \in Keys, o \in Ops : Sign(k, o)
    \/ Advance
    \/ Damage

(* The operator goes on: a check with --yes on a host that reads the card   *)
(* and with a node of its chain, the device switched on, unlocked and off.  *)
ThoroughCheck ==
    \E n \in Nodes(CardTarget(Gathered("inspected")), TRUE) \ {None} :
      Check("inspected", n, TRUE, FALSE)

Fairness ==
    /\ SF_vars(ThoroughCheck) /\ WF_vars(Repair) /\ WF_vars(Finish)
    /\ SF_vars(Boot) /\ SF_vars(Unlock) /\ WF_vars(PowerOff)
    /\ WF_vars(Advance)

Spec == Init /\ [][Next]_vars /\ Fairness

-----------------------------------------------------------------------------
(* Properties.                                                              *)

(* A card that names its chain is never moved to another: neither           *)
(* check disk nor the config it stages and the device consumes puts another *)
(* id in chain_info.json, whatever node the host is configured with         *)
(* (resolve_node_for_card, disk.rs:1429).                                   *)
CardChainKept ==
    [][card.ci.st = "ok" /\ card'.ci.st = "ok" => card'.ci.chain = card.ci.chain]_vars

(* The level below which a key is sure not to sign once the device is next  *)
(* unlocked: its lowest mark, or the staged floor.                          *)
Floor(w) == IF Verified(w) = Ops
            THEN Min({w.file[o].level : o \in Ops}) ELSE 0
Staged == IF card.cfg.st = "ok" THEN card.cfg.level ELSE 0
Secured(k) == Max({Floor(card.marks[k]), Staged})

MarksOfChain == \A k \in Keys, o \in Ops :
    card.marks[k].file[o].st = "valid" => card.marks[k].file[o].chain = card.ci.chain

(* Repairs never take a key's protection away: deleting a staged config,    *)
(* staging another and rewriting chain_info.json, in the order              *)
(* execute_repairs makes them, leave every key with a floor at least as     *)
(* high (disk.rs:1283), on a card that was not moved to another chain after *)
(* its chain_info.json was lost.                                            *)
RepairsKeepFloor ==
    [][Repair /\ card.ci.st = "ok" /\ card.cfg.st = "ok"
          /\ card.cfg.chain = card.ci.chain /\ MarksOfChain
       => \A k \in Keys : Secured(k)' >= Secured(k)]_vars

(* With check disk repeated against a node of the card's chain, its repairs *)
(* confirmed and the device booted in between, a card whose public keys can *)
(* be read is in the end reported good, whatever was wrong with it and      *)
(* however a repair was cut short (run_disk_check, disk.rs:1499).           *)
RepairsConverge == []<>(good \/ card.keys # "parsed")
=============================================================================
