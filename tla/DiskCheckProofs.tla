-------------------------- MODULE DiskCheckProofs --------------------------
(***************************************************************************)
(* Why check disk never moves a card to another chain and never takes the  *)
(* protection of a key away, for any chains, keys, operations, faults and  *)
(* damage.                                                                 *)
(*                                                                         *)
(* A repair is chosen from what was read of the card and of a node and is  *)
(* made later, after other repairs.  The invariant says what was true of   *)
(* card and node when it was chosen and is true still.                     *)
(***************************************************************************)
EXTENDS DiskCheck, WellFoundedInduction, TLAPS

-----------------------------------------------------------------------------
(* The inductive invariant.                                                 *)

Todo(kind) == \E a \in todo : a.kind = kind

(* Only root can make chain_info.json unreadable for the device: everybody  *)
(* else may set the mode of a file of the device only.                      *)
OwnerInv == HostUser # "root" => card.ci.owned \/ ~ card.ci.mode

(* The head never goes down, so a config staged earlier is not above the    *)
(* level a node answers later.                                              *)
LevelInv ==
    /\ card.cfg.st = "ok" => card.cfg.level <= head
    /\ node # None /\ card.cfg.st = "ok" => card.cfg.level <= node.level
    /\ node # None => node.level <= head

(* Every mark of every key is there and covers the staged floor.            *)
CoveredByMarks ==
    \A k \in Keys, o \in Ops : /\ card.marks[k].file[o].st = "valid"
                               /\ card.marks[k].file[o].level >= card.cfg.level

(* What the repairs still to be made were chosen on.                        *)
RepairInv ==
    /\ dev # "off" => pc = "idle"
    /\ pc = "idle" => todo = {} /\ node = None
    /\ Todo("stage") \/ Todo("write") \/ Todo("delete") => node # None
    /\ Todo("write") /\ card.ci.st = "ok" => HostUser = "other"
    /\ Todo("delete") => card.ci.st = "ok" /\ ~ Todo("stage") /\ ~ Todo("write")
    /\ Todo("delete") /\ card.cfg.st = "ok" /\ card.cfg.chain = card.ci.chain
         => CoveredByMarks

(* A host that can read the card: it has f2fs, and root or the device's uid.*)
HostReads == HostUser # "other" /\ "notcapable" \notin Mounts

(* Card, staged config and node are of one chain.                           *)
ChainInv == HostReads =>
    /\ card.ci.st = "ok" /\ card.cfg.st = "ok" => card.cfg.chain = card.ci.chain
    /\ Todo("stage") /\ card.ci.st = "ok" => node.chain = card.ci.chain
    /\ Todo("write") /\ card.cfg.st = "ok" => card.cfg.chain = node.chain

DiskInv == TypeOK /\ OwnerInv /\ LevelInv /\ RepairInv /\ ChainInv

-----------------------------------------------------------------------------
(* What a check can find out and decide.                                    *)

(* A repair other than that of the owner of marks is known by its kind.     *)
LEMMA ActionOfKind ==
    ASSUME NEW a \in Action, a.kind # "chownMarks"
    PROVE  a = [kind |-> a.kind]
  BY DEF Action

(* A node is on the card's chain, if the card names one, and at the head.   *)
LEMMA NodesOnTarget ==
    ASSUME TypeOK, NEW t, NEW auto \in BOOLEAN, NEW n \in Nodes(t, auto)
    PROVE  n # None => /\ n \in Snapshot /\ n.level = head
                       /\ t # None => n.chain = t
<1>1. PICK saved \in Chains \cup {None}, other \in Chains \cup {None}, explicit \in BOOLEAN :
        n = FetchNode(ResolveNode(t, saved, other, explicit, auto))
  BY DEF Nodes
<1>2. ResolveNode(t, saved, other, explicit, auto) \in
        {saved, None} \cup {AcceptIfOnChain(other, t)}
  BY DEF ResolveNode, PlanNode
<1> QED
  BY <1>1, <1>2 DEF ResolveNode, PlanNode, AcceptIfOnChain, FetchNode, Snapshot, TypeOK

(* What check disk has read of the card.                                    *)
LEMMA GatheredIs ==
    ASSUME TypeOK, NEW mount \in Mounts, NEW s, s = Gathered(mount)
    PROVE  /\ s.insp = mount
           /\ s.ci \in ChainFile /\ s.cfg \in Config /\ s.setup \in BOOLEAN
           /\ DOMAIN s.marks \subseteq Keys
           /\ s.cfg.st = "ok" <=> card.cfg.st = "ok"
           /\ s.cfg.st = "ok" => s.cfg = card.cfg
           /\ s.ci.st = "ok" => /\ mount = "inspected" /\ card.ci.st = "ok"
                                /\ s.ci = card.ci
           /\ mount = "inspected" /\ card.ci.st = "ok" /\ MayRead(card.ci)
                => s.ci.st = "ok"
           /\ mount = "inspected" /\ card.ci.st # "ok" => s.ci.st # "ok"
           /\ mount = "inspected" => s.ci.owned = card.ci.owned
           /\ \A k \in DOMAIN s.marks : s.marks[k] = card.marks[k]
           /\ DOMAIN s.marks # {} => DOMAIN s.marks = Keys
  BY DEF Gathered, TypeOK, Card, ChainFile, Config, ChainInfoState, BootConfig, NoConfig,
         KeyNames, KeyWatermarks

(* Each finding proposes a repair only where there is cause for it.         *)
Grounded(s, n, a) ==
    /\ a \in Action \cup {NoAct}
    /\ a.kind = "delete" => /\ s.cfg.st = "ok" /\ n # None
                            /\ n.chain # s.cfg.chain \/ Superseded(s, n)
    /\ a.kind = "stage" => n # None /\ s.insp \in {"inspected", "notcapable"}
    /\ a.kind = "write" => /\ n # None /\ s.insp = "inspected"
                           /\ \/ s.ci.st = "missing"
                              \/ s.ci.st = "bad" /\ s.ci.owned
                              \/ s.ci.st = "ok" /\ n.chain # s.ci.chain

LEMMA FindingsGrounded ==
    ASSUME NEW s, NEW n, NEW i \in Classify(s, n), s.ci \in ChainFile,
           s.setup \in BOOLEAN, DOMAIN s.marks \subseteq Keys
    PROVE  Grounded(s, n, i.act)
<1>4. s.insp = "inspected" /\ s.setup /\ i \notin ClassifyBootConfig(s, n)
        => \/ i \in ClassifyKeys(s) \/ i \in ClassifyChainInfo(s, n) \/ i \in ClassifyLogs(s)
           \/ \E k \in DOMAIN s.marks : i \in ClassifyKey(s, k, n)
  <2>1. s.insp = "inspected" /\ s.setup /\ i \notin ClassifyBootConfig(s, n)
          => i \in ClassifyContents(s, n)
    BY DEF Classify, FaultIf
  <2> QED
    BY <2>1 DEF ClassifyContents
<1> USE DEF Fault, FaultIf, Act, NoAct, StageIf, WriteIf, Grounded, Action
<1>1. CASE i \in ClassifyBootConfig(s, n)
  BY <1>1 DEF ClassifyBootConfig
<1>2. CASE s.insp # "inspected" /\ i \notin ClassifyBootConfig(s, n)
  BY <1>2 DEF Classify, ClassifyUnread
<1>3. CASE s.insp = "inspected" /\ ~ s.setup /\ i \notin ClassifyBootConfig(s, n)
  BY <1>3 DEF Classify
<1>5. CASE s.insp = "inspected" /\ s.setup /\ i \notin ClassifyBootConfig(s, n)
  <2>1. \/ i \in ClassifyKeys(s) \/ i \in ClassifyChainInfo(s, n) \/ i \in ClassifyLogs(s)
        \/ \E k \in DOMAIN s.marks : i \in ClassifyKey(s, k, n)
    BY <1>4, <1>5
  <2>2. CASE i \in ClassifyKeys(s) \/ i \in ClassifyLogs(s)
    BY <2>2 DEF ClassifyKeys, ClassifyLogs
  <2>3. CASE i \in ClassifyChainInfo(s, n)
    BY <2>3, <1>5 DEF ClassifyChainInfo, ChainFile
  <2>4. ASSUME NEW k \in DOMAIN s.marks, i \in ClassifyKey(s, k, n) PROVE Grounded(s, n, i.act)
    <3>1. i.act \in {StageIf(n), [kind |-> "chownMarks", key |-> k]}
      BY <2>4 DEF ClassifyKey
    <3> QED
      BY <3>1, <1>5
  <2> QED
    BY <2>1, <2>2, <2>3, <2>4
<1> QED
  BY <1>1, <1>2, <1>3, <1>5

(* What is true of card and node when a repair is chosen.                   *)
LEMMA PlanGrounded ==
    ASSUME TypeOK, OwnerInv, NEW mount \in Mounts, NEW auto \in BOOLEAN, NEW s,
           s = Gathered(mount), NEW n \in Nodes(CardTarget(s), auto),
           NEW a \in PlanRepairs(Classify(s, n))
    PROVE  /\ a \in Action
           /\ a.kind \in {"stage", "write", "delete"} => n # None
           /\ a.kind = "stage" => mount \in {"inspected", "notcapable"}
           /\ a.kind = "write" /\ card.ci.st = "ok" => HostUser = "other"
           /\ a.kind = "write" => mount = "inspected"
           /\ a.kind = "delete" =>
                /\ card.ci.st = "ok" /\ s.ci.st = "ok" /\ n.chain = card.ci.chain
                /\ card.cfg.chain = card.ci.chain => CoveredByMarks
                /\ \A b \in PlanRepairs(Classify(s, n)) : b.kind \notin {"stage", "write"}
<1>1. PICK i \in Classify(s, n) : a = i.act /\ a # NoAct
  BY DEF PlanRepairs
<1>2. /\ s.insp = mount /\ s.ci \in ChainFile /\ s.cfg \in Config
      /\ s.setup \in BOOLEAN /\ DOMAIN s.marks \subseteq Keys
      /\ s.cfg.st = "ok" => s.cfg = card.cfg
      /\ s.ci.st = "ok" => mount = "inspected" /\ card.ci.st = "ok" /\ s.ci = card.ci
      /\ mount = "inspected" /\ card.ci.st = "ok" /\ MayRead(card.ci) => s.ci.st = "ok"
      /\ mount = "inspected" => s.ci.owned = card.ci.owned
      /\ \A k \in DOMAIN s.marks : s.marks[k] = card.marks[k]
      /\ DOMAIN s.marks # {} => DOMAIN s.marks = Keys
  BY GatheredIs
<1>3. Grounded(s, n, a)
  BY <1>1, <1>2, FindingsGrounded
<1>4. n # None => n \in Snapshot /\ (CardTarget(s) # None => n.chain = CardTarget(s))
  BY NodesOnTarget
<1>5. s.ci.st = "ok" => CardTarget(s) = s.ci.chain /\ CardTarget(s) # None
  BY <1>2, DiskAssumption DEF CardTarget, ChainFile
<1>6. s.ci.st # "ok" /\ s.cfg.st = "ok" => CardTarget(s) = s.cfg.chain /\ CardTarget(s) # None
  BY <1>2, DiskAssumption DEF CardTarget, Config
<1>7. a \in Action /\ (a.kind \in {"stage", "write", "delete"} => n # None)
  BY <1>1, <1>3 DEF Grounded
<1>8. a.kind = "stage" => mount \in {"inspected", "notcapable"}
  BY <1>2, <1>3 DEF Grounded
<1>9. a.kind = "write" => mount = "inspected" /\ (card.ci.st = "ok" => HostUser = "other")
  <2>1. HostUser \in {"root", "device", "other"}
    BY DiskAssumption
  <2> QED
    BY <1>2, <1>3, <1>4, <1>5, <2>1 DEF Grounded, MayRead, OwnerInv
<1>10. ASSUME a.kind = "delete" PROVE card.ci.st = "ok" /\ s.ci.st = "ok" /\ n.chain = card.ci.chain
  <2>1. s.ci.st = "ok"
    BY <1>10, <1>3, <1>4, <1>6 DEF Grounded, Superseded
  <2> QED
    BY <1>10, <2>1, <1>2, <1>3, <1>4, <1>5 DEF Grounded
<1>11. ASSUME a.kind = "delete", card.cfg.chain = card.ci.chain PROVE CoveredByMarks
  <2>1. Superseded(s, n) /\ s.cfg = card.cfg
    BY <1>2, <1>3, <1>10, <1>11 DEF Grounded
  <2> QED
    BY <1>2, <2>1 DEF Superseded, CoveredByMarks
<1>12. ASSUME a.kind = "delete", NEW b \in PlanRepairs(Classify(s, n))
       PROVE  b.kind \notin {"stage", "write"}
  <2>1. b.kind # "stage"
    BY <1>12 DEF PlanRepairs
  <2>2. PICK j \in Classify(s, n) : b = j.act
    BY DEF PlanRepairs
  <2>3. Grounded(s, n, b)
    BY <2>2, <1>2, FindingsGrounded
  <2> QED
    BY <1>12, <2>1, <2>3, <1>10, <1>2 DEF Grounded
<1> QED
  BY <1>7, <1>8, <1>9, <1>10, <1>11, <1>12

(* A check keeps the repairs that were confirmed, or changes nothing.       *)
LEMMA CheckPlans ==
    ASSUME NEW mount, NEW n, NEW yes \in BOOLEAN, NEW dry, Check(mount, n, yes, dry)
    PROVE  /\ pc = "idle" /\ dev = "off" /\ good' \in BOOLEAN
           /\ UNCHANGED <<card, head, dev, pending, faults>>
           /\ \/ UNCHANGED <<pc, node, todo>>
              \/ /\ pc' = "repair" /\ node' = n
                 /\ todo' \subseteq PlanRepairs(Classify(Gathered(mount), n))
  BY DEF Check, Host, IsHealthy

-----------------------------------------------------------------------------
(* Types.                                                                   *)

(* The contents of a card that lacks nothing.                               *)
LEMMA Contents ==
    /\ Missing \in Mark /\ [st |-> "corrupt"] \in Mark
    /\ NoConfig \in Config /\ [st |-> "torn"] \in Config
    /\ NoMarks \in KeyMarks
    /\ \A c \in Chains : ChainIs(c) \in ChainFile
    /\ \A c \in Chains, l \in Levels : MarksAt(c, l) \in KeyMarks
    /\ \A c \in Chains, l \in Levels :
         [st |-> "ok", level |-> l, chain |-> c] \in Config
  BY DEF Missing, Mark, NoConfig, Config, NoMarks, KeyMarks, ChainIs, ChainFile, MarksAt

(* Damaged marks are marks.                                                 *)
LEMMA DamagedMarksType ==
    ASSUME NEW w \in KeyMarks, NEW d, NEW x \in DamagedMarks(d, w)
    PROVE  x \in KeyMarks
<1>1. CASE d = "dir"
  BY <1>1, Contents DEF DamagedMarks
<1>2. CASE d = "marks"
  BY <1>2 DEF DamagedMarks, KeyMarks
<1>3. CASE d = "file"
  <2>1. PICK o \in Ops : x = [w EXCEPT !.file[o] = Missing]
    BY <1>3 DEF DamagedMarks
  <2> QED
    BY <2>1, Contents DEF KeyMarks
<1>4. CASE d = "corrupt"
  <2>1. PICK o \in Ops : x = [w EXCEPT !.file[o] = [st |-> "corrupt"]]
    BY <1>4 DEF DamagedMarks
  <2> QED
    BY <2>1, Contents DEF KeyMarks
<1>5. CASE d \notin {"dir", "marks", "file", "corrupt"}
  BY <1>5 DEF DamagedMarks
<1> QED
  BY <1>1, <1>2, <1>3, <1>4, <1>5

(* What damage may do to a card: it stays a card, chain_info.json never     *)
(* comes to be of another chain, readable or of a stranger and locked, and  *)
(* a config staged elsewhere is of the card's chain and of the head.        *)
LEMMA DamagedCard ==
    ASSUME TypeOK, NEW d \in Damages, NEW c \in Damaged(d)
    PROVE  /\ c \in Card
           /\ c.ci.st = "ok" => card.ci.st = "ok"
           /\ c.ci.chain = card.ci.chain
           /\ card.ci.owned \/ ~ card.ci.mode => c.ci.owned \/ ~ c.ci.mode
           /\ \/ c.cfg = card.cfg
              \/ c.cfg = [st |-> "ok", level |-> head, chain |-> card.ci.chain]
<1> USE DEF TypeOK, Card, ChainFile
<1>1. CASE d = "keys"
  <2>1. c = [card EXCEPT !.keys = "unreadable"]
    BY <1>1 DEF Damaged
  <2> QED
    BY <2>1
<1>2. CASE d = "gone"
  <2>1. c = [card EXCEPT !.ci = [@ EXCEPT !.st = "missing", !.owned = TRUE, !.mode = TRUE]]
    BY <1>2 DEF Damaged
  <2> QED
    BY <2>1
<1>3. CASE d = "bad"
  <2>1. c = [card EXCEPT !.ci.st = "bad"]
    BY <1>3 DEF Damaged
  <2> QED
    BY <2>1
<1>4. CASE d = "owner"
  <2>1. c = [card EXCEPT !.ci.owned = FALSE, !.ci.mode = FALSE]
    BY <1>4 DEF Damaged
  <2> QED
    BY <2>1
<1>5. CASE d = "mode"
  <2>1. c = [card EXCEPT !.ci.mode = FALSE]
    BY <1>5 DEF Damaged
  <2> QED
    BY <2>1
<1>6. CASE d = "panic"
  <2>1. c = [card EXCEPT !.panic = TRUE]
    BY <1>6 DEF Damaged
  <2> QED
    BY <2>1
<1>7. CASE d = "config"
  <2>1. c = [card EXCEPT !.cfg = [st |-> "ok", level |-> head, chain |-> card.ci.chain]]
    BY <1>7 DEF Damaged
  <2> QED
    BY <2>1, Contents
<1>8. CASE d = "migrate"
  <2>1. c = [card EXCEPT !.migr = TRUE]
    BY <1>8 DEF Damaged
  <2> QED
    BY <2>1
<1>9. CASE d \in {"dir", "marks", "file", "corrupt"}
  <2>1. PICK k \in {x \in Keys : card.marks[x].dir} : c \in DamagedKey(d, k)
    BY <1>9 DEF Damaged
  <2>2. PICK w \in DamagedMarks(d, card.marks[k]) : c = [card EXCEPT !.marks[k] = w]
    BY <2>1 DEF DamagedKey
  <2>3. w \in KeyMarks
    <3>1. k \in Keys /\ card.marks[k] \in KeyMarks
      OBVIOUS
    <3> QED
      BY <3>1, DamagedMarksType
  <2> QED
    BY <2>2, <2>3
<1> QED
  BY <1>1, <1>2, <1>3, <1>4, <1>5, <1>6, <1>7, <1>8, <1>9, DiskAssumption

(* Marks that were loaded or seeded are marks.                              *)
LEMMA UnlockedMarks ==
    ASSUME NEW w \in KeyMarks, NEW c \in Chains, NEW l \in Levels
    PROVE  Loaded(w) \in KeyMarks /\ Seeded(Loaded(w), c, l) \in KeyMarks
<1>1. Loaded(w) \in KeyMarks
  BY Contents DEF Loaded, KeyMarks
<1> QED
  BY <1>1, Contents DEF Seeded

(* The card that check disk starts with is one.                             *)
LEMMA DiskInitInv == Init => DiskInv
<1> SUFFICES ASSUME Init PROVE DiskInv
  OBVIOUS
<1>1. PICK c \in Chains : card \in {[setup |-> TRUE, migr |-> FALSE, panic |-> FALSE,
                    keys |-> "parsed", ci |-> ChainIs(c), cfg |-> NoConfig,
                    marks |-> [k \in Keys |-> MarksAt(c, 1)]],
                   [setup |-> FALSE, migr |-> FALSE, panic |-> FALSE,
                    keys |-> "unreadable", cfg |-> NoConfig,
                    ci |-> [ChainIs(c) EXCEPT !.st = "missing"],
                    marks |-> [k \in Keys |-> NoMarks]]}
  BY DEF Init
<1>2. /\ head = 1 /\ pc = "idle" /\ node = None /\ todo = {} /\ good = FALSE
      /\ dev = "off" /\ pending = 0 /\ faults = 0
  BY DEF Init
<1>3. 1 \in Levels
  BY DiskAssumption DEF Levels
<1>4. [ChainIs(c) EXCEPT !.st = "missing"] \in ChainFile
  BY DEF ChainIs, ChainFile
<1>5. card \in Card /\ card.cfg = NoConfig /\ card.ci.owned
  <2>1. CASE card = [setup |-> TRUE, migr |-> FALSE, panic |-> FALSE,
                    keys |-> "parsed", ci |-> ChainIs(c), cfg |-> NoConfig,
                    marks |-> [k \in Keys |-> MarksAt(c, 1)]]
    <3>1. [k \in Keys |-> MarksAt(c, 1)] \in [Keys -> KeyMarks]
      BY <1>3, Contents
    <3> QED
      BY <2>1, <3>1, Contents DEF Card, ChainIs
  <2>2. CASE card = [setup |-> FALSE, migr |-> FALSE, panic |-> FALSE,
                    keys |-> "unreadable", cfg |-> NoConfig,
                    ci |-> [ChainIs(c) EXCEPT !.st = "missing"],
                    marks |-> [k \in Keys |-> NoMarks]]
    <3>1. [k \in Keys |-> NoMarks] \in [Keys -> KeyMarks]
      BY Contents
    <3> QED
      BY <2>2, <3>1, <1>4, Contents DEF Card, ChainIs
  <2> QED
    BY <1>1, <2>1, <2>2
<1>6. TypeOK
  <2>1. 0 \in 0 .. MaxLevel /\ 0 \in 0 .. MaxFaults
    BY DiskAssumption
  <2> QED
    BY <1>2, <1>3, <1>5, <2>1 DEF TypeOK
<1> QED
  BY <1>2, <1>5, <1>6 DEF DiskInv, OwnerInv, LevelInv, RepairInv, ChainInv, Todo, NoConfig


(* Types are kept.                                                          *)
LEMMA TypeStep ==
    ASSUME DiskInv, [Next]_vars PROVE TypeOK'
<1> USE DEF DiskInv, TypeOK, Done, GiveUp, HostRest
<1>1. ASSUME NEW mount \in Mounts, NEW yes \in BOOLEAN, NEW dry \in BOOLEAN,
            NEW n \in Nodes(CardTarget(Gathered(mount)), yes \/ dry),
            Check(mount, n, yes, dry)
     PROVE  TypeOK'
  <2>1. /\ good' \in BOOLEAN /\ UNCHANGED <<card, head, dev, pending, faults>>
        /\ \/ UNCHANGED <<pc, node, todo>>
           \/ /\ pc' = "repair" /\ node' = n
              /\ todo' \subseteq PlanRepairs(Classify(Gathered(mount), n))
    BY <1>1, CheckPlans
  <2>2. PlanRepairs(Classify(Gathered(mount), n)) \subseteq Action
    BY <1>1, PlanGrounded
  <2>3. n \in Snapshot \cup {None}
    BY <1>1, NodesOnTarget
  <2> QED
    BY <2>1, <2>2, <2>3
<1>2. CASE StageBootConfig
  <2>1. node \in Snapshot
    BY <1>2 DEF StageBootConfig, RepairInv, Todo
  <2>2. [st |-> "ok", level |-> node.level, chain |-> node.chain] \in Config
    BY <2>1, Contents DEF Snapshot
  <2> QED
    BY <1>2, <2>2 DEF StageBootConfig, Card
<1>3. CASE WriteChainInfo
  <2>1. node \in Snapshot
    BY <1>3 DEF WriteChainInfo, RepairInv, Todo
  <2>2. ChainIs(node.chain) \in ChainFile
    BY <2>1, Contents DEF Snapshot
  <2> QED
    BY <1>3, <2>2 DEF WriteChainInfo, Card
<1>4. CASE ChownChainInfo
  <2>1. card' = [card EXCEPT !.ci.owned = TRUE]
    BY <1>4 DEF ChownChainInfo
  <2>2. [card.ci EXCEPT !.owned = TRUE] \in ChainFile
    BY DEF Card, ChainFile
  <2>3. card' \in Card
    BY <2>1, <2>2 DEF Card
  <2> QED
    BY <1>4, <2>3 DEF ChownChainInfo
<1>5. CASE ChmodChainInfo
  <2>1. card' \in {card, [card EXCEPT !.ci.mode = TRUE]}
    BY <1>5 DEF ChmodChainInfo
  <2>2. [card.ci EXCEPT !.mode = TRUE] \in ChainFile
    BY DEF Card, ChainFile
  <2>3. card' \in Card
    BY <2>1, <2>2 DEF Card
  <2> QED
    BY <1>5, <2>3 DEF ChmodChainInfo
<1>6. CASE ApplyAction
  <2>1. PICK a \in todo :
          /\ a.kind \in {"chownMarks", "truncate", "delete"}
          /\ todo' = todo \ {a} /\ UNCHANGED <<pc, node, good, head, dev, pending, faults>>
          /\ a.kind = "chownMarks" => card' = [card EXCEPT !.marks[a.key].owned = TRUE]
          /\ a.kind = "truncate" => card' = [card EXCEPT !.panic = FALSE]
          /\ a.kind = "delete" => card' = [card EXCEPT !.cfg = NoConfig]
    BY <1>6 DEF ApplyAction
  <2>2. card' \in Card
    <3>1. CASE a.kind = "chownMarks"
      <4>1. a.key \in Keys
        BY <3>1 DEF Action
      <4>2. [card.marks[a.key] EXCEPT !.owned = TRUE] \in KeyMarks
        <5>1. PICK w \in KeyMarks : w = card.marks[a.key]
          BY <4>1 DEF Card
        <5>2. [w EXCEPT !.owned = TRUE] \in KeyMarks
          BY DEF KeyMarks
        <5> QED
          BY <5>1, <5>2
      <4> QED
        BY <2>1, <3>1, <4>1, <4>2 DEF Card
    <3>2. CASE a.kind = "truncate"
      BY <2>1, <3>2 DEF Card
    <3>3. CASE a.kind = "delete"
      BY <2>1, <3>3, Contents DEF Card
    <3> QED
      BY <2>1, <3>1, <3>2, <3>3
  <2> QED
    BY <2>1, <2>2
<1>7. CASE RepairFails
  <2>1. PICK a \in todo : /\ Due(a) /\ GiveUp
         /\ \/ UNCHANGED card
            \/ /\ a.kind = "stage"
               /\ card' = [card EXCEPT !.cfg = [st |-> "torn"]]
            \/ /\ a.kind = "write" /\ HostUser = "device"
               /\ card' = [card EXCEPT !.ci.st = "bad", !.ci.mode = FALSE,
                             !.ci.owned = card.ci.owned \/ card.ci.st = "missing"]
    BY <1>7 DEF RepairFails
  <2>2. card' \in Card
    <3>1. CASE UNCHANGED card
      BY <3>1
    <3>2. CASE card' = [card EXCEPT !.cfg = [st |-> "torn"]]
      BY <3>2, Contents DEF Card
    <3>3. CASE card' = [card EXCEPT !.ci.st = "bad", !.ci.mode = FALSE,
                          !.ci.owned = card.ci.owned \/ card.ci.st = "missing"]
      BY <3>3 DEF Card, ChainFile
    <3> QED
      BY <2>1, <3>1, <3>2, <3>3
  <2> QED
    BY <1>7, <2>1, <2>2, DiskAssumption DEF RepairFails
<1>8. CASE Finish
  BY <1>8 DEF Finish
<1>9. CASE Boot
  <2>1. CASE card.cfg.st = "ok" /\ ~ card.migr
    <3>1. card.cfg.level \in Levels /\ card.cfg.chain \in Chains
      BY <2>1 DEF Card, Config
    <3>2. ChainIs(card.cfg.chain) \in ChainFile
      BY <3>1, Contents
    <3>3. PICK keys \in {"parsed", "unreadable"} :
            card' = [card EXCEPT !.ci = ChainIs(card.cfg.chain), !.cfg = NoConfig, !.setup = TRUE,
                       !.keys = keys]
      <4>1. CASE card.setup
        BY <1>9, <2>1, <4>1 DEF Boot, Card
      <4>2. CASE ~ card.setup
        BY <1>9, <2>1, <4>2 DEF Boot, Card
      <4> QED
        BY <4>1, <4>2
    <3>4. card' \in Card
      BY <3>2, <3>3, Contents DEF Card
    <3> QED
      BY <1>9, <2>1, <3>1, <3>4 DEF Boot, Levels
  <2>2. CASE ~ (card.cfg.st = "ok" /\ ~ card.migr)
    BY <1>9, <2>2 DEF Boot
  <2> QED
    BY <2>1, <2>2
<1>10. CASE Unlock
  <2>1. card.ci.chain \in Chains
    BY DEF Card, ChainFile
  <2>2. pending # 0 => pending \in Levels
    BY DEF Levels
  <2>3. \A k \in Keys : card.marks[k] \in KeyMarks
    BY DEF Card
  <2> DEFINE new == [k \in Keys |-> IF pending = 0 THEN Loaded(card.marks[k])
                     ELSE Seeded(Loaded(card.marks[k]), card.ci.chain, pending)]
  <2>4. ASSUME NEW k \in Keys PROVE new[k] \in KeyMarks
    <3>1. \E l \in Levels : TRUE
      BY DiskAssumption DEF Levels
    <3>2. Loaded(card.marks[k]) \in KeyMarks
      BY <2>1, <2>3, <3>1, UnlockedMarks
    <3> QED
      BY <2>1, <2>2, <2>3, <3>2, UnlockedMarks
  <2> HIDE DEF new
  <2>5. new \in [Keys -> KeyMarks]
    BY <2>4 DEF new
  <2>6. card' = [card EXCEPT !.migr = FALSE, !.marks = new]
    BY <1>10 DEF Unlock, new
  <2>7. card' \in Card
    BY <2>5, <2>6 DEF Card
  <2> QED
    BY <1>10, <2>7, DiskAssumption DEF Unlock
<1>11. CASE PowerOff
  BY <1>11, DiskAssumption DEF PowerOff
<1>12. ASSUME NEW k \in Keys, NEW o \in Ops, Sign(k, o) PROVE TypeOK'
  <2>1. card.marks[k].file[o] \in Mark /\ card.marks[k].file[o].st = "valid"
    BY <1>12 DEF Sign, Verified, Card, KeyMarks
  <2>2. [card.marks[k].file[o] EXCEPT !.level = head] \in Mark
    BY <2>1 DEF Mark
  <2>3. [card.marks[k] EXCEPT !.file[o].level = head] \in KeyMarks
    BY <2>2 DEF Card, KeyMarks
  <2>4. card' \in Card
    BY <1>12, <2>3 DEF Sign, Card
  <2> QED
    BY <1>12, <2>4 DEF Sign
<1>13. CASE Advance
  BY <1>13, DiskAssumption DEF Advance, Levels
<1>14. CASE Damage
  <2>1. card' \in Card
    BY <1>14, DamagedCard DEF Damage
  <2>2. faults' \in 0 .. MaxFaults
    BY <1>14, DiskAssumption DEF Damage
  <2> QED
    BY <1>14, <2>1, <2>2 DEF Damage
<1>15. CASE UNCHANGED vars
  BY <1>15 DEF vars
<1> QED
  BY <1>1, <1>2, <1>3, <1>4, <1>5, <1>6, <1>7, <1>8, <1>9, <1>10,
     <1>11, <1>12, <1>13, <1>14, <1>15 DEF Next, Repair


(* A repair that fails leaves config and chain_info.json as they were or    *)
(* unusable.                                                                *)
LEMMA FailedRepair ==
    ASSUME card \in Card, RepairFails
    PROVE  /\ card'.cfg.st = "ok" => card'.cfg = card.cfg
           /\ card'.ci.st = "ok" => card'.ci = card.ci
           /\ card.ci.owned \/ ~ card.ci.mode => card'.ci.owned \/ ~ card'.ci.mode
<1>1. CASE UNCHANGED card
  BY <1>1
<1>2. CASE card' = [card EXCEPT !.cfg = [st |-> "torn"]]
  BY <1>2 DEF Card
<1>3. CASE card' = [card EXCEPT !.ci.st = "bad", !.ci.mode = FALSE,
                      !.ci.owned = card.ci.owned \/ card.ci.st = "missing"]
  BY <1>3 DEF Card, ChainFile
<1> QED
  BY <1>1, <1>2, <1>3 DEF RepairFails

-----------------------------------------------------------------------------
(* Every action keeps the other parts of the invariant.                     *)

(* No staged level is above the head, and chain_info.json stays readable.   *)
LEMMA LevelStep ==
    ASSUME DiskInv, [Next]_vars PROVE OwnerInv' /\ LevelInv'
<1> USE DEF DiskInv, OwnerInv, LevelInv, Done, GiveUp, HostRest
<1>a. card \in Card
  BY DEF TypeOK
<1>b. /\ head \in Int /\ (node # None => node.level \in Int)
      /\ card.cfg.st = "ok" => card.cfg.level \in Int
  BY <1>a DEF TypeOK, Levels, Snapshot, Card, Config
<1>1. ASSUME NEW mount \in Mounts, NEW yes \in BOOLEAN, NEW dry \in BOOLEAN,
            NEW n \in Nodes(CardTarget(Gathered(mount)), yes \/ dry),
            Check(mount, n, yes, dry)
     PROVE  OwnerInv' /\ LevelInv'
  <2>1. /\ pc = "idle" /\ dev = "off" /\ UNCHANGED <<card, head, dev, pending, faults>>
        /\ \/ UNCHANGED <<pc, node, todo>>
           \/ /\ pc' = "repair" /\ node' = n
              /\ todo' \subseteq PlanRepairs(Classify(Gathered(mount), n))
    BY <1>1, CheckPlans

  <2>2. n # None => n.level = head
    BY <1>1, NodesOnTarget
  <2> QED
    BY <2>1, <2>2, <1>a, <1>b
<1>2. CASE StageBootConfig
  <2>1. node # None
    BY <1>2 DEF StageBootConfig, RepairInv, Todo
  <2>2. card' = [card EXCEPT !.cfg = [st |-> "ok", level |-> node.level, chain |-> node.chain]]
    BY <1>2 DEF StageBootConfig
  <2>3. card'.ci = card.ci /\ card'.cfg.level = node.level
    BY <2>2, <1>a DEF Card
  <2> QED
    BY <1>2, <2>1, <2>3, <1>a, <1>b DEF StageBootConfig
<1>3. CASE WriteChainInfo
  BY <1>3, <1>a DEF WriteChainInfo, Card, ChainIs
<1>4. CASE ChownChainInfo
  BY <1>4, <1>a DEF ChownChainInfo, Card, ChainFile
<1>5. CASE ChmodChainInfo
  BY <1>5, <1>a DEF ChmodChainInfo, Card, ChainFile, MayChange
<1>6. CASE ApplyAction
  <2>1. PICK a \in todo :
          /\ a.kind \in {"chownMarks", "truncate", "delete"}
          /\ todo' = todo \ {a} /\ UNCHANGED <<pc, node, good, head, dev, pending, faults>>
          /\ a.kind = "chownMarks" => card' = [card EXCEPT !.marks[a.key].owned = TRUE]
          /\ a.kind = "truncate" => card' = [card EXCEPT !.panic = FALSE]
          /\ a.kind = "delete" => card' = [card EXCEPT !.cfg = NoConfig]
    BY <1>6 DEF ApplyAction

  <2>2. card'.ci = card.ci /\ (card'.cfg.st = "ok" => card'.cfg = card.cfg)
    BY <2>1, <1>a DEF Card, NoConfig
  <2> QED
    BY <2>1, <2>2
<1>7. CASE RepairFails
  BY <1>7, <1>a, FailedRepair DEF RepairFails
<1>8. CASE Finish
  BY <1>8 DEF Finish
<1>9. CASE Boot
  <2>1. \/ UNCHANGED card
        \/ card'.ci = ChainIs(card.cfg.chain) /\ card'.cfg = NoConfig
    BY <1>9, <1>a DEF Boot, Card
  <2> QED
    BY <1>9, <2>1 DEF Boot, ChainIs, NoConfig
<1>10. CASE Unlock
  BY <1>10, <1>a DEF Unlock, Card
<1>11. CASE PowerOff
  BY <1>11 DEF PowerOff
<1>12. ASSUME NEW k \in Keys, NEW o \in Ops, Sign(k, o) PROVE OwnerInv' /\ LevelInv'
  BY <1>12, <1>a DEF Sign, Card
<1>13. CASE Advance
  BY <1>13, <1>a, <1>b DEF Advance
<1>14. CASE Damage
  <2>1. /\ card.ci.owned \/ ~ card.ci.mode => card'.ci.owned \/ ~ card'.ci.mode
        /\ \/ card'.cfg = card.cfg
           \/ card'.cfg = [st |-> "ok", level |-> head, chain |-> card.ci.chain]
    BY <1>14, DamagedCard DEF Damage
  <2>2. node = None /\ node' = None /\ head' = head
    BY <1>14 DEF Damage, Host, RepairInv
  <2> QED
    BY <2>1, <2>2, <1>b
<1>15. CASE UNCHANGED vars
  BY <1>15 DEF vars
<1> QED
  BY <1>1, <1>2, <1>3, <1>4, <1>5, <1>6, <1>7, <1>8, <1>9, <1>10,
     <1>11, <1>12, <1>13, <1>14, <1>15 DEF Next, Repair


(* What a repair was chosen on holds until it is made.                      *)
LEMMA RepairStep ==
    ASSUME DiskInv, [Next]_vars PROVE RepairInv'
<1> USE DEF DiskInv, RepairInv, Todo, Done, GiveUp, HostRest
<1>a. card \in Card /\ todo \subseteq Action /\ pc \in {"idle", "repair"}
  BY DEF TypeOK
<1>c. dev # "off" => todo = {} /\ pc = "idle"
  OBVIOUS
<1>1. ASSUME NEW mount \in Mounts, NEW yes \in BOOLEAN, NEW dry \in BOOLEAN,
            NEW n \in Nodes(CardTarget(Gathered(mount)), yes \/ dry),
            Check(mount, n, yes, dry)
     PROVE  RepairInv'
  <2>1. /\ pc = "idle" /\ dev = "off" /\ UNCHANGED <<card, head, dev, pending, faults>>
        /\ \/ UNCHANGED <<pc, node, todo>>
           \/ /\ pc' = "repair" /\ node' = n
              /\ todo' \subseteq PlanRepairs(Classify(Gathered(mount), n))
    BY <1>1, CheckPlans

  <2>2. CASE UNCHANGED <<pc, node, todo>>
    BY <2>1, <2>2 DEF CoveredByMarks
  <2>3. CASE /\ pc' = "repair" /\ node' = n
             /\ todo' \subseteq PlanRepairs(Classify(Gathered(mount), n))
    <3>1. \A a \in PlanRepairs(Classify(Gathered(mount), n)) :
           /\ a.kind \in {"stage", "write", "delete"} => n # None
           /\ a.kind = "write" /\ card.ci.st = "ok" => HostUser = "other"
           /\ a.kind = "delete" =>
                /\ card.ci.st = "ok"
                /\ card.cfg.chain = card.ci.chain => CoveredByMarks
                /\ \A b \in PlanRepairs(Classify(Gathered(mount), n)) :
                      b.kind \notin {"stage", "write"}
      BY <1>1, PlanGrounded
    <3>2. UNCHANGED card /\ (CoveredByMarks' <=> CoveredByMarks)
      BY <2>1 DEF CoveredByMarks
    <3> QED
      BY <2>1, <2>3, <3>1, <3>2
  <2> QED
    BY <2>1, <2>2, <2>3
<1>2. CASE StageBootConfig
  <2>1. PICK a \in todo : a.kind = "stage" /\ Due(a) /\ Done(a)
    BY <1>2 DEF StageBootConfig
  <2>2. UNCHANGED <<pc, node, dev, card.ci>> /\ todo' \subseteq todo /\ pc = "repair"
    BY <1>2, <1>a DEF StageBootConfig, Card, Due
  <2> QED
    BY <2>1, <2>2
<1>3. CASE WriteChainInfo
  <2>1. PICK a \in todo : /\ a.kind = "write" /\ Due(a)
                          /\ Done(a) \/ GiveUp
    BY <1>3 DEF WriteChainInfo
  <2>2. CASE GiveUp
    BY <2>2
  <2>3. CASE Done(a)
    <3>1. ~ \E b \in todo' : b.kind = "write"
      BY <2>1, <2>3, <1>a, ActionOfKind
    <3>2. ~ \E b \in todo' : b.kind = "delete"
      BY <2>1, <2>3
    <3> QED
      BY <1>3, <2>1, <2>3, <3>1, <3>2 DEF Due, WriteChainInfo
  <2> QED
    BY <2>1, <2>2, <2>3
<1>4. CASE ChownChainInfo
  <2>1. card' = [card EXCEPT !.ci.owned = TRUE]
    BY <1>4 DEF ChownChainInfo
  <2>2. /\ UNCHANGED <<pc, node, dev>> /\ todo' \subseteq todo /\ pc = "repair"
        /\ UNCHANGED <<card.ci.st, card.ci.chain, card.cfg, card.marks>>
    BY <1>4, <2>1, <1>a DEF ChownChainInfo, Card, ChainFile, Due
  <2> QED
    BY <2>2 DEF CoveredByMarks
<1>5. CASE ChmodChainInfo
  <2>1. CASE GiveUp /\ UNCHANGED card
    BY <2>1
  <2>2. CASE ~ (GiveUp /\ UNCHANGED card)
    <3>1. card' = [card EXCEPT !.ci.mode = TRUE]
      BY <1>5, <2>2 DEF ChmodChainInfo
    <3>2. /\ UNCHANGED <<pc, node, dev>> /\ todo' \subseteq todo /\ pc = "repair"
          /\ UNCHANGED <<card.ci.st, card.ci.chain, card.cfg, card.marks>>
      BY <1>5, <2>2, <3>1, <1>a DEF ChmodChainInfo, Card, ChainFile, Due
    <3> QED
      BY <3>2 DEF CoveredByMarks
  <2> QED
    BY <2>1, <2>2
<1>6. CASE ApplyAction
  <2>1. PICK a \in todo :
          /\ a.kind \in {"chownMarks", "truncate", "delete"}
          /\ todo' = todo \ {a} /\ UNCHANGED <<pc, node, good, head, dev, pending, faults>>
          /\ a.kind = "chownMarks" => card' = [card EXCEPT !.marks[a.key].owned = TRUE]
          /\ a.kind = "truncate" => card' = [card EXCEPT !.panic = FALSE]
          /\ a.kind = "delete" => card' = [card EXCEPT !.cfg = NoConfig]
    BY <1>6 DEF ApplyAction

  <2>2. pc = "repair"
    BY <1>6 DEF ApplyAction, Due
  <2>3. /\ card'.ci = card.ci /\ (card'.cfg.st = "ok" => card'.cfg = card.cfg)
        /\ \A k \in Keys : card'.marks[k].file = card.marks[k].file
    <3>1. CASE a.kind = "chownMarks"
      <4>1. a.key \in Keys
        BY <3>1, <1>a DEF Action
      <4> QED
        BY <2>1, <3>1, <4>1, <1>a DEF Card, KeyMarks
    <3>2. CASE a.kind # "chownMarks"
      BY <2>1, <3>2, <1>a DEF Card, NoConfig
    <3> QED
      BY <3>1, <3>2
  <2> QED
    BY <2>1, <2>2, <2>3 DEF CoveredByMarks
<1>7. CASE RepairFails
  BY <1>7 DEF RepairFails
<1>8. CASE Finish
  BY <1>8 DEF Finish
<1>9. CASE Boot
  BY <1>9 DEF Boot, Host
<1>10. CASE Unlock
  BY <1>10, <1>c DEF Unlock
<1>11. CASE PowerOff
  BY <1>11, <1>c DEF PowerOff
<1>12. ASSUME NEW k \in Keys, NEW o \in Ops, Sign(k, o) PROVE RepairInv'
  BY <1>12, <1>c DEF Sign
<1>13. CASE Advance
  BY <1>13 DEF Advance, CoveredByMarks
<1>14. CASE Damage
  BY <1>14 DEF Damage, Host
<1>15. CASE UNCHANGED vars
  BY <1>15 DEF vars, CoveredByMarks
<1> QED
  BY <1>1, <1>2, <1>3, <1>4, <1>5, <1>6, <1>7, <1>8, <1>9, <1>10,
     <1>11, <1>12, <1>13, <1>14, <1>15 DEF Next, Repair


(* On a host that can read the card, card, config and node stay of one chain. *)
LEMMA ChainStep ==
    ASSUME DiskInv, [Next]_vars PROVE ChainInv'
<1> USE DEF DiskInv, ChainInv, Todo, Done, GiveUp, HostRest
<1>a. card \in Card
  BY DEF TypeOK
<1>1. ASSUME NEW mount \in Mounts, NEW yes \in BOOLEAN, NEW dry \in BOOLEAN,
            NEW n \in Nodes(CardTarget(Gathered(mount)), yes \/ dry),
            Check(mount, n, yes, dry)
     PROVE  ChainInv'
  <2>1. /\ pc = "idle" /\ dev = "off" /\ UNCHANGED <<card, head, dev, pending, faults>>
        /\ \/ UNCHANGED <<pc, node, todo>>
           \/ /\ pc' = "repair" /\ node' = n
              /\ todo' \subseteq PlanRepairs(Classify(Gathered(mount), n))
    BY <1>1, CheckPlans

  <2>2. CASE UNCHANGED <<pc, node, todo>>
    BY <2>1, <2>2
  <2>3. CASE /\ node' = n /\ HostReads
             /\ todo' \subseteq PlanRepairs(Classify(Gathered(mount), n))
    <3>1. \A a \in PlanRepairs(Classify(Gathered(mount), n)) :
           /\ a.kind \in {"stage", "write", "delete"} => n # None
           /\ a.kind = "stage" => mount \in {"inspected", "notcapable"}
           /\ a.kind = "write" /\ card.ci.st = "ok" => HostUser = "other"
           /\ a.kind = "write" => mount = "inspected"
      BY <1>1, PlanGrounded
    <3>2. PICK s : s = Gathered(mount)
      OBVIOUS
    <3>3. /\ s.ci \in ChainFile /\ s.cfg \in Config
          /\ s.cfg.st = "ok" <=> card.cfg.st = "ok"
          /\ s.cfg.st = "ok" => s.cfg = card.cfg
          /\ s.ci.st = "ok" => s.ci = card.ci
          /\ mount = "inspected" /\ card.ci.st = "ok" /\ MayRead(card.ci) => s.ci.st = "ok"
          /\ mount = "inspected" /\ card.ci.st # "ok" => s.ci.st # "ok"
      BY <3>2, GatheredIs
    <3>4. MayRead(card.ci)
      BY <2>3, <1>a, DiskAssumption DEF HostReads, MayRead, OwnerInv
    <3>5. n # None => (CardTarget(s) # None => n.chain = CardTarget(s))
      BY <3>2, NodesOnTarget
    <3>6. mount = "inspected" /\ card.ci.st = "ok" /\ n # None => n.chain = card.ci.chain
      BY <3>3, <3>4, <3>5, DiskAssumption DEF CardTarget, ChainFile
    <3>7. mount = "inspected" /\ card.ci.st # "ok" /\ card.cfg.st = "ok" /\ n # None
            => n.chain = card.cfg.chain
      BY <3>3, <3>5, DiskAssumption DEF CardTarget, Config
    <3> QED
      BY <2>1, <2>3, <3>1, <3>6, <3>7, <1>1 DEF HostReads
  <2> QED
    BY <2>1, <2>2, <2>3
<1>2. CASE StageBootConfig
  <2>1. PICK a \in todo : a.kind = "stage" /\ Due(a) /\ Done(a)
    BY <1>2 DEF StageBootConfig
  <2>2. card' = [card EXCEPT !.cfg = [st |-> "ok", level |-> node.level, chain |-> node.chain]]
    BY <1>2 DEF StageBootConfig
  <2>3. UNCHANGED <<node, card.ci>> /\ todo' \subseteq todo /\ card'.cfg.chain = node.chain
    BY <2>1, <2>2, <1>a DEF Card
  <2> QED
    BY <2>1, <2>3
<1>3. CASE WriteChainInfo
  <2>1. PICK a \in todo : /\ a.kind = "write" /\ Due(a)
                         /\ \/ Done(a) /\ card' = [card EXCEPT !.ci = ChainIs(node.chain)]
                            \/ GiveUp /\ UNCHANGED card
    BY <1>3 DEF WriteChainInfo
  <2>2. CASE GiveUp /\ UNCHANGED card
    BY <2>2
  <2>3. CASE Done(a) /\ card' = [card EXCEPT !.ci = ChainIs(node.chain)]
    <3>1. UNCHANGED <<node, card.cfg>> /\ todo' \subseteq todo /\ card'.ci.chain = node.chain
      BY <2>3, <1>a DEF Card, ChainIs
    <3> QED
      BY <2>1, <3>1
  <2> QED
    BY <2>1, <2>2, <2>3
<1>4. CASE ChownChainInfo
  <2>1. card' = [card EXCEPT !.ci.owned = TRUE]
    BY <1>4 DEF ChownChainInfo
  <2>2. /\ UNCHANGED node /\ todo' \subseteq todo
        /\ UNCHANGED <<card.ci.st, card.ci.chain, card.cfg>>
    BY <1>4, <2>1, <1>a DEF ChownChainInfo, Card, ChainFile
  <2> QED
    BY <2>2
<1>5. CASE ChmodChainInfo
  <2>1. CASE GiveUp /\ UNCHANGED card
    BY <2>1
  <2>2. CASE ~ (GiveUp /\ UNCHANGED card)
    <3>1. card' = [card EXCEPT !.ci.mode = TRUE]
      BY <1>5, <2>2 DEF ChmodChainInfo
    <3>2. /\ UNCHANGED node /\ todo' \subseteq todo
          /\ UNCHANGED <<card.ci.st, card.ci.chain, card.cfg>>
      BY <1>5, <2>2, <3>1, <1>a DEF ChmodChainInfo, Card, ChainFile
    <3> QED
      BY <3>2
  <2> QED
    BY <2>1, <2>2
<1>6. CASE ApplyAction
  <2>1. PICK a \in todo :
          /\ a.kind \in {"chownMarks", "truncate", "delete"}
          /\ todo' = todo \ {a} /\ UNCHANGED <<pc, node, good, head, dev, pending, faults>>
          /\ a.kind = "chownMarks" => card' = [card EXCEPT !.marks[a.key].owned = TRUE]
          /\ a.kind = "truncate" => card' = [card EXCEPT !.panic = FALSE]
          /\ a.kind = "delete" => card' = [card EXCEPT !.cfg = NoConfig]
    BY <1>6 DEF ApplyAction

  <2>2. card'.ci = card.ci /\ (card'.cfg.st = "ok" => card'.cfg = card.cfg)
    BY <2>1, <1>a DEF Card, NoConfig
  <2> QED
    BY <2>1, <2>2
<1>7. CASE RepairFails
  BY <1>7, <1>a, FailedRepair DEF RepairFails
<1>8. CASE Finish
  BY <1>8 DEF Finish
<1>9. CASE Boot
  <2>1. \/ UNCHANGED card
        \/ card'.ci = ChainIs(card.cfg.chain) /\ card'.cfg = NoConfig
    BY <1>9, <1>a DEF Boot, Card
  <2>2. todo' = {}
    BY <1>9 DEF Boot, Host, RepairInv
  <2> QED
    BY <1>9, <2>1, <2>2 DEF NoConfig
<1>10. CASE Unlock
  BY <1>10, <1>a DEF Unlock, Card
<1>11. CASE PowerOff
  BY <1>11, <1>a DEF PowerOff, Card
<1>12. ASSUME NEW k \in Keys, NEW o \in Ops, Sign(k, o) PROVE ChainInv'
  BY <1>12, <1>a DEF Sign, Card
<1>13. CASE Advance
  BY <1>13 DEF Advance
<1>14. CASE Damage
  <2>1. /\ card'.ci.st = "ok" => card.ci.st = "ok"
        /\ card'.ci.chain = card.ci.chain
        /\ \/ card'.cfg = card.cfg
           \/ card'.cfg = [st |-> "ok", level |-> head, chain |-> card.ci.chain]
    BY <1>14, DamagedCard DEF Damage
  <2>2. todo' = {}
    BY <1>14 DEF Damage, Host, RepairInv
  <2> QED
    BY <2>1, <2>2
<1>15. CASE UNCHANGED vars
  BY <1>15 DEF vars
<1> QED
  BY <1>1, <1>2, <1>3, <1>4, <1>5, <1>6, <1>7, <1>8, <1>9, <1>10,
     <1>11, <1>12, <1>13, <1>14, <1>15 DEF Next, Repair


(* The invariant holds in every state.                                      *)
LEMMA AlwaysDiskInv == Spec => []DiskInv
<1>1. DiskInv /\ [Next]_vars => DiskInv'
  BY TypeStep, LevelStep, RepairStep, ChainStep DEF DiskInv
<1> QED
  BY DiskInitInv, <1>1, PTL DEF Spec

-----------------------------------------------------------------------------
(* The theorems.                                                            *)

(* The state of card, command and device keeps its type.                    *)
THEOREM DiskTypeCorrect == Spec => []TypeOK
  BY AlwaysDiskInv, PTL DEF DiskInv

(* On a host that can read the card, one that names its chain is never      *)
(* moved to another: the node was accepted on that chain (plan_node,        *)
(* accept_if_on_chain), and a staged config is of the chain of the card.    *)
THEOREM ChainKept == HostReads /\ Spec => CardChainKept
<1>1. ASSUME HostReads, DiskInv, [Next]_vars, card.ci.st = "ok", card'.ci.st = "ok"
      PROVE  card'.ci.chain = card.ci.chain
  <2> USE <1>1
  <2>1. card \in Card /\ ChainInv /\ RepairInv
    BY DEF DiskInv, TypeOK
  <2>2. CASE WriteChainInfo
    <3>1. Todo("write")
      BY <2>2 DEF WriteChainInfo, Todo
    <3> QED
      BY <2>1, <3>1 DEF RepairInv, HostReads
  <2>3. CASE Boot
    <3>1. \/ UNCHANGED card
          \/ card.cfg.st = "ok" /\ card'.ci = ChainIs(card.cfg.chain)
      BY <2>1, <2>3 DEF Boot, Card
    <3> QED
      BY <2>1, <3>1 DEF ChainInv, ChainIs
  <2>4. CASE Damage
    BY <2>4, DamagedCard DEF Damage, DiskInv
  <2>5. CASE StageBootConfig
    BY <2>5, <2>1 DEF StageBootConfig, Card
  <2>6. CASE ChownChainInfo
    BY <2>6, <2>1 DEF ChownChainInfo, Card, ChainFile
  <2>7. CASE ChmodChainInfo
    BY <2>7, <2>1 DEF ChmodChainInfo, Card, ChainFile
  <2>8. CASE ApplyAction
    BY <2>8, <2>1 DEF ApplyAction, Card
  <2>9. CASE RepairFails
    BY <2>9, <2>1, FailedRepair
  <2>10. CASE Unlock
    BY <2>10, <2>1 DEF Unlock, Card
  <2>11. ASSUME NEW k \in Keys, NEW o \in Ops, Sign(k, o) PROVE card'.ci = card.ci
    BY <2>11, <2>1 DEF Sign, Card
  <2>12. CASE UNCHANGED card
    BY <2>12
  <2> QED
    BY <2>2, <2>3, <2>4, <2>5, <2>6, <2>7, <2>8, <2>9, <2>10, <2>11, <2>12
       DEF Next, Repair, Check, Finish, PowerOff, Advance, vars
<1>2. HostReads => (DiskInv /\ [Next]_vars =>
         [card.ci.st = "ok" /\ card'.ci.st = "ok" => card'.ci.chain = card.ci.chain]_vars)
  BY <1>1
<1>3. CASE HostReads
  <2>1. DiskInv /\ [Next]_vars =>
         [card.ci.st = "ok" /\ card'.ci.st = "ok" => card'.ci.chain = card.ci.chain]_vars
    BY <1>2, <1>3
  <2> QED
    BY <2>1, AlwaysDiskInv, PTL DEF Spec, CardChainKept
<1>4. CASE ~ HostReads
  BY <1>4
<1> QED
  BY <1>3, <1>4

(* A key's lowest mark.                                                     *)
LEMMA LowestLevel ==
    ASSUME NEW T \in SUBSET Nat, T # {}
    PROVE  Min(T) \in T /\ \A m \in T : Min(T) <= m
<1> DEFINE Rel == OpToRel(<, Nat)
<1>1. PICK u \in T : \A v \in T : <<v, u>> \notin Rel
  <2> HIDE DEF Rel
  <2>1. IsWellFoundedOn(Rel, Nat)
    BY NatLessThanWellFounded, Zenon DEF Rel
  <2> QED
    BY <2>1, WFMin
<1>2. \A v \in T : u <= v
  <2>1. \A v \in T : v \in Nat /\ ~ (v < u)
    BY <1>1 DEF OpToRel
  <2> QED
    BY <2>1
<1> QED
  BY <1>2, Zenon DEF Min

(* The higher of two levels.                                                *)
LEMMA HigherOfTwo ==
    ASSUME NEW a \in Nat, NEW b \in Nat
    PROVE  Max({a, b}) \in {a, b} /\ Max({a, b}) >= a /\ Max({a, b}) >= b
<1>1. \E x \in {a, b} : \A y \in {a, b} : x >= y
  <2>1. CASE a >= b
    BY <2>1
  <2>2. CASE b >= a
    BY <2>2
  <2> QED
    BY <2>1, <2>2
<1> QED
  BY <1>1, Zenon DEF Max

(* A key whose marks are all valid has a lowest one.                        *)
LEMMA LowestMark ==
    ASSUME NEW w \in KeyMarks, \A o \in Ops : w.file[o].st = "valid"
    PROVE  Min({w.file[o].level : o \in Ops}) \in Nat
<1> DEFINE T == {w.file[o].level : o \in Ops}
<1>1. \A o \in Ops : w.file[o] \in Mark
  BY DEF KeyMarks
<1>2. T \in SUBSET Nat /\ T # {}
  BY <1>1, DiskAssumption DEF Mark, Levels
<1> HIDE DEF T
<1>3. Min(T) \in Nat
  BY <1>2, LowestLevel
<1> QED
  BY <1>3 DEF T

(* The floor a key has from its marks is a level, or none.                  *)
LEMMA FloorIsLevel ==
    ASSUME card \in Card, card' \in Card, NEW k \in Keys
    PROVE  Floor(card.marks[k]) \in Nat /\ Floor(card.marks[k])' \in Nat
<1>1. Floor(card.marks[k]) \in Nat
  <2>1. PICK w \in KeyMarks : w = card.marks[k]
    BY DEF Card
  <2>2. Verified(w) = Ops => \A o \in Ops : w.file[o].st = "valid"
    BY DEF Verified
  <2> QED
    BY <2>1, <2>2, LowestMark DEF Floor
<1>2. Floor(card.marks[k])' \in Nat
  <2>1. PICK w \in KeyMarks : w = card'.marks[k]
    BY DEF Card
  <2>2. Verified(card.marks[k])' = Ops => \A o \in Ops : w.file[o].st = "valid"
    BY <2>1 DEF Verified
  <2>3. Floor(card.marks[k])' = IF Verified(card.marks[k])' = Ops
                               THEN Min({w.file[o].level : o \in Ops}) ELSE 0
    BY <2>1 DEF Floor
  <2> QED
    BY <2>2, <2>3, LowestMark
<1> QED
  BY <1>1, <1>2

(* A floor that all of a key's marks cover is one the marks give.           *)
LEMMA FloorFromMarks ==
    ASSUME card \in Card, NEW w \in KeyMarks, NEW l \in Nat, Verified(w) = Ops,
           \A o \in Ops : w.file[o].level >= l
    PROVE  Floor(w) >= l
<1> DEFINE T == {w.file[o].level : o \in Ops}
<1>1. \A o \in Ops : w.file[o] \in Mark /\ w.file[o].st = "valid"
  BY DEF Verified, KeyMarks
<1>2. T \in SUBSET Nat /\ T # {} /\ \A m \in T : m >= l
  BY <1>1, DiskAssumption DEF Mark, Levels
<1> HIDE DEF T
<1>3. Min(T) >= l
  BY <1>2, LowestLevel
<1> QED
  BY <1>3 DEF Floor, T

(* Two floors that do not fall, or marks that make up for the config.       *)
LEMMA HigherKept ==
    ASSUME NEW f \in Nat, NEW s \in Nat, NEW g \in Nat, NEW t \in Nat,
           g >= f, t >= s \/ g >= s
    PROVE  Max({g, t}) >= Max({f, s})
<1>1. Max({f, s}) \in {f, s}
  BY HigherOfTwo
<1>2. Max({g, t}) \in {g, t} /\ Max({g, t}) >= g /\ Max({g, t}) >= t
  BY HigherOfTwo
<1> QED
  BY <1>1, <1>2

(* A step that leaves a key's marks and the chain alone, and does not lock  *)
(* the device out of chain_info.json, leaves the floor from the marks.      *)
LEMMA FloorStays ==
    ASSUME card \in Card, card' \in Card, NEW k \in Keys,
           card'.marks[k].file = card.marks[k].file,
           card'.ci.chain = card.ci.chain, card.ci.st = "ok", card'.ci.st = "ok",
           card.ci.owned \/ ~ card.ci.mode => card'.ci.owned \/ ~ card'.ci.mode
    PROVE  Floor(card.marks[k])' >= Floor(card.marks[k])
<1>1. Floor(card.marks[k]) \in Nat
  BY FloorIsLevel
<1>2. Floor(card.marks[k])' \in Nat
  BY FloorIsLevel
<1>3. CASE Verified(card.marks[k]) = Ops
  <2>1. Verified(card.marks[k])' = Ops
    BY <1>3 DEF Verified
  <2>2. Floor(card.marks[k])' = Floor(card.marks[k])
    BY <1>3, <2>1 DEF Floor
  <2> QED
    BY <1>1, <2>2
<1>4. CASE Verified(card.marks[k]) # Ops
  BY <1>2, <1>4 DEF Floor
<1> QED
  BY <1>3, <1>4

(* Unless root runs check disk, no repair takes the protection of a key     *)
(* away: a config is deleted only when the marks of every key cover it,     *)
(* which no repair made in between has changed (boot_config_superseded,     *)
(* execute_repairs).  Root can set the mode of a file the device then       *)
(* cannot read.                                                             *)
THEOREM FloorKept == HostUser # "root" /\ Spec => RepairsKeepFloor
<1> DEFINE P == /\ Repair /\ card.ci.st = "ok" /\ card.cfg.st = "ok"
                /\ card.cfg.chain = card.ci.chain /\ MarksOfChain
           Q == \A k \in Keys : Secured(k)' >= Secured(k)
<1>1. ASSUME HostUser # "root", DiskInv, DiskInv', P, NEW k \in Keys
      PROVE  Secured(k)' >= Secured(k)
  <2> USE <1>1
  <2>1. /\ card \in Card /\ card' \in Card /\ RepairInv /\ OwnerInv /\ LevelInv
        /\ card.marks[k] \in KeyMarks /\ card'.marks[k] \in KeyMarks
    BY DEF DiskInv, TypeOK, Card
  <2>2. Floor(card.marks[k]) \in Nat /\ Floor(card.marks[k])' \in Nat
    BY <2>1, FloorIsLevel
  <2>3. Staged \in Nat /\ Staged' \in Nat
    BY <2>1 DEF Staged, Card, Config, Levels
  <2>4. SUFFICES /\ Floor(card.marks[k])' >= Floor(card.marks[k])
                 /\ Staged' >= Staged \/ Floor(card.marks[k])' >= Staged
    <3>1. Max({Floor(card.marks[k])', Staged'}) >= Max({Floor(card.marks[k]), Staged})
      BY <2>2, <2>3, <2>4, HigherKept
    <3> QED
      BY <3>1 DEF Secured
  <2>5. ASSUME card'.marks[k].file = card.marks[k].file,
               card'.ci.chain = card.ci.chain, card'.ci.st = "ok",
               card.ci.owned \/ ~ card.ci.mode => card'.ci.owned \/ ~ card'.ci.mode
        PROVE  Floor(card.marks[k])' >= Floor(card.marks[k])
    BY <2>1, <2>5, FloorStays
  <2>6. CASE StageBootConfig
    <3>1. node # None /\ node \in Snapshot
      BY <2>1, <2>6 DEF StageBootConfig, RepairInv, Todo, DiskInv, TypeOK
    <3>2. card' = [card EXCEPT !.cfg = [st |-> "ok", level |-> node.level, chain |-> node.chain]]
      BY <2>6 DEF StageBootConfig
    <3>3. /\ card'.ci = card.ci /\ card'.marks = card.marks
          /\ card'.cfg.st = "ok" /\ card'.cfg.level = node.level
      BY <2>1, <3>2 DEF Card
    <3>4. Staged' >= Staged
      BY <2>1, <2>3, <3>1, <3>3 DEF Staged, LevelInv
    <3> QED
      BY <2>5, <3>3, <3>4
  <2>7. CASE WriteChainInfo
    <3>1. HostUser = "other"
      BY <2>1, <2>7 DEF WriteChainInfo, RepairInv, Todo
    <3>2. UNCHANGED card
      BY <2>7, <3>1 DEF WriteChainInfo, MayChange
    <3> QED
      BY <2>2, <2>3, <2>5, <3>2 DEF Staged
  <2>8. CASE ChownChainInfo
    <3>1. card' = [card EXCEPT !.ci.owned = TRUE]
      BY <2>8 DEF ChownChainInfo
    <3>2. /\ card'.marks = card.marks /\ card'.cfg = card.cfg /\ card'.ci.owned
          /\ card'.ci.st = card.ci.st /\ card'.ci.chain = card.ci.chain
      BY <2>1, <3>1 DEF Card, ChainFile
    <3> QED
      BY <2>3, <2>5, <3>2 DEF Staged
  <2>9. CASE ChmodChainInfo
    <3>1. CASE UNCHANGED card
      BY <2>2, <2>3, <2>5, <3>1 DEF Staged
    <3>2. CASE card' = [card EXCEPT !.ci.mode = TRUE] /\ MayChange(card.ci)
      <4>1. /\ card'.marks = card.marks /\ card'.cfg = card.cfg
            /\ card'.ci.owned = card.ci.owned /\ card.ci.owned
            /\ card'.ci.st = card.ci.st /\ card'.ci.chain = card.ci.chain
        BY <2>1, <3>2 DEF Card, ChainFile, MayChange
      <4> QED
        BY <2>3, <2>5, <4>1 DEF Staged
    <3> QED
      BY <2>9, <3>1, <3>2 DEF ChmodChainInfo
  <2>10. CASE ApplyAction
    <3>1. PICK a \in todo :
            /\ a.kind \in {"chownMarks", "truncate", "delete"}
            /\ a.kind = "chownMarks" => card' = [card EXCEPT !.marks[a.key].owned = TRUE]
            /\ a.kind = "truncate" => card' = [card EXCEPT !.panic = FALSE]
            /\ a.kind = "delete" => card' = [card EXCEPT !.cfg = NoConfig]
      BY <2>10 DEF ApplyAction
    <3>2. CASE a.kind = "chownMarks"
      <4>1. a.key \in Keys
        BY <3>2 DEF Action, DiskInv, TypeOK
      <4>2. /\ card'.marks[k].file = card.marks[k].file
            /\ card'.ci = card.ci /\ card'.cfg = card.cfg
        BY <2>1, <3>1, <3>2, <4>1 DEF Card, KeyMarks
      <4> QED
        BY <2>3, <2>5, <4>2 DEF Staged
    <3>3. CASE a.kind = "truncate"
      <4>1. card'.marks = card.marks /\ card'.ci = card.ci /\ card'.cfg = card.cfg
        BY <2>1, <3>1, <3>3 DEF Card
      <4> QED
        BY <2>3, <2>5, <4>1 DEF Staged
    <3>4. CASE a.kind = "delete"
      <4>1. card'.marks = card.marks /\ card'.ci = card.ci
        BY <2>1, <3>1, <3>4 DEF Card
      <4>2. CoveredByMarks
        BY <2>1, <3>4 DEF RepairInv, Todo
      <4>3. Verified(card.marks[k]) = Ops
        BY <2>1, <4>2 DEF Verified, CoveredByMarks, OwnerInv, MarksOfChain
      <4>4. Floor(card.marks[k]) >= Staged
        <5>1. \A o \in Ops : card.marks[k].file[o].level >= Staged
          BY <4>2 DEF CoveredByMarks, Staged
        <5> QED
          BY <2>1, <2>3, <4>3, <5>1, FloorFromMarks
      <4>5. Floor(card.marks[k])' >= Floor(card.marks[k])
        BY <2>5, <4>1
      <4> QED
        BY <2>2, <2>3, <4>4, <4>5
    <3> QED
      BY <3>1, <3>2, <3>3, <3>4
  <2> QED
    BY <2>6, <2>7, <2>8, <2>9, <2>10 DEF Repair
<1>2. CASE HostUser # "root"
  <2>1. DiskInv /\ DiskInv' /\ [Next]_vars => [P => Q]_vars
    BY <1>1, <1>2
  <2> QED
    BY <2>1, AlwaysDiskInv, PTL DEF Spec, RepairsKeepFloor
<1> QED
  BY <1>2

=============================================================================
