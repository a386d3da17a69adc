----------------------------- MODULE HostProofs -----------------------------
(***************************************************************************)
(* Proofs about the baker's machine (Host), for any devices, faults and    *)
(* number of commands: what a setup that completes has set, what it keeps  *)
(* of the files it overwrites, that it takes up what earlier runs left,    *)
(* what a clean purge leaves, and that the tool survives its upgrade.      *)
(***************************************************************************)
EXTENDS Host, SequenceTheorems, TLAPS

-----------------------------------------------------------------------------
(* The inductive invariant.                                                 *)

(* Types; the chain always has an active key or none for a role.            *)
NamesOK ==
  /\ config \in {"absent", "torn", "invalid", "usb", "lan"}
  /\ octez \in BOOLEAN /\ backend \in {"networkd", "nm"} /\ hidden \subseteq Files
  /\ plugged \in Devices \cup {None} /\ named \in BOOLEAN /\ live \subseteq {"net", "udev"}
  /\ baker \in [reg : {"no", "inactive", "active"}, staked : BOOLEAN]
EtcOK == etc \in [Files -> Contents]
CountsOK == faults \in 0 .. MaxFaults /\ runs \in 0 .. MaxRuns
Endpoints == Former \cup {"usb", "lan"}
WalletOK == wallet \in [Roles -> (Devices \X Endpoints) \cup {None}]
ChainOK == keys \in [Roles -> Seq(Devices \cup {None}) \ {<<>>}]

SetupSteps == {"load", "hardware", "system", "network", "backup", "move", "mode",
               "reload", "udev", "wait", "connect", "baker", "sync", "register", "stake",
               "signer", "discover", "import", "set", "validate", "complete"}
PurgeSteps == {"list", "remove", "forget", "verify", "clean", "untouched"}

(* The record of the command; purge does not carry a setup's promise.       *)
CmdInv ==
  /\ DOMAIN cmd = DOMAIN Idle
  /\ cmd.pc \in SetupSteps \cup PurgeSteps \cup {"idle"}
  /\ cmd.pc = "idle" <=> cmd = Idle
  /\ cmd.mode \in Modes /\ cmd.at \in {"usb", "lan"}
  /\ cmd.failed \in BOOLEAN /\ cmd.sure \in BOOLEAN
  /\ cmd.roles \subseteq Roles
  /\ cmd.sure => cmd.pc \in SetupSteps

(* Phase 2: of the file at the head of the list a copy is kept before it is *)
(* moved over, if it can be seen, and afterwards it has our content.        *)
FilesInv ==
  /\ At("backup") \/ At("move") \/ At("mode") => cmd.todo \in Seq(Files) /\ cmd.todo # <<>>
  /\ At("move") /\ etc[Head(cmd.todo)] = "other" => Head(cmd.todo) \in kept \cup hidden
  /\ At("mode") => etc[Head(cmd.todo)] = "raw"

(* Phase 3: the roles dealt with so far name the key of the device that     *)
(* answered, and the chain has it.                                          *)
Done(r) == Imported(r) /\ RoleKeySetOnChain(r, cmd.dev)
KeysInv ==
  /\ cmd.pc \in {"discover", "import", "set", "validate"} => cmd.dev \in Devices
  /\ cmd.pc \in {"import", "set"} => cmd.todo = Order \/ cmd.todo = <<"companion">>
  /\ cmd.pc \in {"import", "set"} => \A r \in cmd.roles : Imported(r)
  /\ cmd.pc \in {"import", "set"} /\ cmd.todo # Order => Done("consensus")
  /\ cmd.pc = "set" => Imported(Head(cmd.todo))
  /\ cmd.pc = "validate" => \A r \in Roles : Done(r)
  /\ cmd.pc = "complete" /\ cmd.mode # "dry" /\ ~cmd.failed => cmd.dev \in Devices /\ \A r \in Roles : Done(r)

(* A setup that nothing is in the way of (cmd.sure): nobody is asked,       *)
(* nothing more goes wrong and the device stays.                            *)
SureInv ==
  cmd.sure => /\ cmd.mode = "yes" /\ faults = MaxFaults
              /\ octez /\ config # "invalid" /\ plugged # None /\ named

(* From the choice of the signer on, an alias that counts as imported is    *)
(* one at this signer.                                                      *)
PlainInv == cmd.sure /\ cmd.pc # "load" => ~ Deceptive(cmd.at)

(* Until the network is configured it is up to date or has a file to be     *)
(* installed, and no file was left without its mode.                        *)
ReadyInv ==
  cmd.sure /\ cmd.pc \in {"load", "hardware", "system", "network"} =>
    /\ "net" \in live \/ \E f \in ToSet(Outdated) : Service(f) = "net"
    /\ \A f \in Files : etc[f] # "raw"

(* Then each file is ours or in the list, and the network has read its      *)
(* files or is to.                                                          *)
Installing == {"backup", "move", "mode", "reload", "udev", "wait", "connect"}
InstallInv ==
  cmd.sure /\ cmd.pc \in Installing =>
    /\ cmd.at = "usb"
    /\ \A f \in ToSet(FilesOf(backend)) : etc[f] = "ours" \/ f \in ToSet(cmd.todo)
    /\ "net" \in live \cup cmd.changed
    /\ cmd.pc \in {"reload", "udev", "wait", "connect"} => cmd.todo = <<>>
    /\ cmd.pc \in {"udev", "wait", "connect"} => "net" \in live

(* Past the network the signer answers, the baker is or becomes active, and *)
(* the device stays the one that was asked for its keys.                    *)
AskingKeys == {"signer", "discover", "import", "set"}
BakerInv ==
  cmd.sure =>
    /\ cmd.pc \in AskingKeys \cup {"baker", "sync", "register", "stake"} => (cmd.at = "usb" => "net" \in live)
    /\ cmd.pc \in {"sync", "register"} => cmd.seen = baker
    /\ cmd.pc \in AskingKeys \cup {"stake"} => baker.reg = "active"
    /\ cmd.pc \in {"discover", "import", "set"} => cmd.dev = plugged

(* The tool: what is put in place was verified, and while the installed     *)
(* binary is away or half written the one beside it runs.                   *)
ToolInv ==
  /\ bin \in [Paths -> {"v1", "v2", "torn", "none"}]
  /\ tool \in [pc : {"idle", "verify", "aside", "place", "copy", "restore", "copied"},
               path : Paths, temp : {"v1", "v2", "bad", "none"}]
  /\ tool.pc = "idle" => tool = NoTool
  /\ tool.pc \in {"aside", "place", "copy", "restore", "copied"} => tool.temp \in Runnable
  /\ tool.pc \in {"verify", "aside"} => bin[tool.path] \in Runnable
  /\ tool.pc \in {"place", "copy", "restore"} /\ tool.path = "installed" => bin["old"] \in Runnable

IInv ==
  /\ NamesOK /\ EtcOK /\ CountsOK /\ WalletOK /\ ChainOK /\ CmdInv
  /\ FilesInv /\ KeysInv /\ CleanIsClean /\ ToolInv
  /\ SureInv /\ PlainInv /\ ReadyInv /\ InstallInv /\ BakerInv

-----------------------------------------------------------------------------
(* Lists of files and roles.                                                *)

(* The two roles.                                                           *)
LEMMA TwoRoles == Roles = {"consensus", "companion"}
  BY DEF Roles, Order, ToSet

(* What is in one list after another.                                       *)
LEMMA ToSetConcat ==
    ASSUME NEW S, NEW s \in Seq(S), NEW t \in Seq(S)
    PROVE  s \o t \in Seq(S) /\ ToSet(s \o t) = ToSet(s) \cup ToSet(t)
<1>1. s \o t \in Seq(S) /\ Len(s \o t) = Len(s) + Len(t)
  OBVIOUS
<1>2. \A i \in DOMAIN (s \o t) : (s \o t)[i] \in ToSet(s) \cup ToSet(t)
  <2> SUFFICES ASSUME NEW i \in 1 .. Len(s) + Len(t)
               PROVE  (s \o t)[i] \in ToSet(s) \cup ToSet(t)
    BY <1>1
  <2>1. CASE i <= Len(s)
    BY <2>1 DEF ToSet
  <2>2. CASE i > Len(s)
    <3>1. i - Len(s) \in DOMAIN t /\ (s \o t)[i] = t[i - Len(s)]
      BY <2>2
    <3> QED
      BY <3>1 DEF ToSet
  <2> QED
    BY <2>1, <2>2
<1>3. \A i \in DOMAIN s : s[i] = (s \o t)[i] /\ i \in DOMAIN (s \o t)
  BY <1>1
<1>4. \A i \in DOMAIN t : t[i] = (s \o t)[Len(s) + i] /\ Len(s) + i \in DOMAIN (s \o t)
  BY <1>1
<1>5. ToSet(s \o t) \subseteq ToSet(s) \cup ToSet(t)
  BY <1>2 DEF ToSet
<1>6. ToSet(s) \subseteq ToSet(s \o t)
  BY <1>3 DEF ToSet
<1>7. ToSet(t) \subseteq ToSet(s \o t)
  BY <1>4 DEF ToSet
<1> QED
  BY <1>1, <1>5, <1>6, <1>7

(* A file that needs no update is left out of the list.                     *)
LEMMA IfOutdatedFile ==
    ASSUME NEW f \in Files
    PROVE  /\ IfOutdated(f) \in Seq(Files)
           /\ ToSet(IfOutdated(f)) = IF FileNeedsUpdate(f) THEN {f} ELSE {}
<1>1. CASE FileNeedsUpdate(f)
  BY <1>1 DEF IfOutdated, ToSet
<1>2. CASE ~FileNeedsUpdate(f)
  BY <1>2 DEF IfOutdated, ToSet
<1> QED
  BY <1>1, <1>2

(* The files that are out of date, in the order of their installation.      *)
LEMMA OutdatedFiles ==
    ASSUME backend \in {"networkd", "nm"}
    PROVE  /\ Outdated \in Seq(Files)
           /\ ToSet(Outdated) = {f \in ToSet(FilesOf(backend)) : FileNeedsUpdate(f)}
<1> DEFINE a(f) == IfOutdated(f)
<1>1. \A f \in Files : a(f) \in Seq(Files) /\ ToSet(a(f)) = IF FileNeedsUpdate(f) THEN {f} ELSE {}
  BY IfOutdatedFile
<1> HIDE DEF a
<1>2. "unmanaged" \in Files /\ "network" \in Files /\ "connection" \in Files /\ "udev" \in Files
  BY DEF Files
<1>3. CASE backend = "networkd"
  <2> DEFINE two == a("unmanaged") \o a("network")
  <2>1. Outdated = two \o a("udev")
    BY <1>3 DEF Outdated, a
  <2>2. two \in Seq(Files) /\ ToSet(two) = ToSet(a("unmanaged")) \cup ToSet(a("network"))
    BY <1>1, <1>2, ToSetConcat
  <2> HIDE DEF two
  <2>3. Outdated \in Seq(Files) /\ ToSet(Outdated) = ToSet(two) \cup ToSet(a("udev"))
    BY <1>1, <1>2, <2>1, <2>2, ToSetConcat
  <2>4. ToSet(FilesOf(backend)) = {"unmanaged", "network", "udev"}
    BY <1>3 DEF FilesOf, ToSet
  <2> QED
    BY <1>1, <1>2, <2>2, <2>3, <2>4
<1>4. CASE backend = "nm"
  <2>1. Outdated = a("connection") \o a("udev")
    BY <1>4 DEF Outdated, a
  <2>2. Outdated \in Seq(Files) /\ ToSet(Outdated) = ToSet(a("connection")) \cup ToSet(a("udev"))
    BY <1>1, <1>2, <2>1, ToSetConcat
  <2>3. ToSet(FilesOf(backend)) = {"connection", "udev"}
    BY <1>4 DEF FilesOf, ToSet
  <2> QED
    BY <1>1, <1>2, <2>2, <2>3
<1> QED
  BY <1>3, <1>4

(* What is left of a list without its head.                                 *)
LEMMA ToSetTail ==
    ASSUME NEW S, NEW s \in Seq(S), s # <<>>
    PROVE  /\ Head(s) \in S /\ Tail(s) \in Seq(S) /\ (Len(s) = 1 <=> Tail(s) = <<>>)
           /\ ToSet(s) \subseteq {Head(s)} \cup ToSet(Tail(s))
<1>1. Len(s) \in Nat \ {0} /\ Head(s) \in S /\ Tail(s) \in Seq(S) /\ Len(Tail(s)) = Len(s) - 1
  OBVIOUS
<1>2. Len(s) = 1 <=> Tail(s) = <<>>
  <2> DEFINE t == Tail(s)
  <2>1. t \in Seq(S) /\ Len(t) = Len(s) - 1 /\ Len(s) \in Nat
    BY <1>1
  <2> HIDE DEF t
  <2>2. t = <<>> <=> Len(t) = 0
    BY <2>1, EmptySeq
  <2>3. Len(s) = 1 <=> t = <<>>
    BY <2>1, <2>2
  <2> QED
    BY <2>3 DEF t
<1>3. ASSUME NEW i \in DOMAIN s, i # 1
      PROVE  i - 1 \in DOMAIN Tail(s) /\ Tail(s)[i - 1] = s[i]
  BY <1>1, <1>3
<1>4. ASSUME NEW i \in DOMAIN s PROVE s[i] \in {Head(s)} \cup ToSet(Tail(s))
  <2>1. CASE i = 1
    BY <2>1
  <2>2. CASE i # 1
    BY <2>2, <1>3 DEF ToSet
  <2> QED
    BY <2>1, <2>2
<1> QED
  BY <1>1, <1>2, <1>4 DEF ToSet

(* A list of more than one is not empty without its head.                   *)
LEMMA TailOfMore ==
    ASSUME NEW S, NEW s \in Seq(S), Len(s) > 1
    PROVE  Tail(s) \in Seq(S) \ {<<>>}
<1>1. Len(s) \in Nat /\ Tail(s) \in Seq(S) /\ Len(Tail(s)) = Len(s) - 1
  OBVIOUS
<1>2. Len(Tail(s)) # 0
  BY <1>1
<1> QED
  BY <1>1, <1>2, EmptySeq

(* A key that is the last of a list, or appended to it, is in it.           *)
LEMMA ToSetLast ==
    ASSUME NEW S, NEW s \in Seq(S) \ {<<>>}, NEW d \in S
    PROVE  /\ Last(s) = d => d \in ToSet(s)
           /\ Append(s, d) \in Seq(S) \ {<<>>} /\ d \in ToSet(Append(s, d))
           /\ ToSet(s) \subseteq ToSet(Append(s, d))
<1>1. Len(s) \in DOMAIN s
  OBVIOUS
<1>2. Append(s, d) \in Seq(S) \ {<<>>} /\ Len(s) + 1 \in DOMAIN Append(s, d) /\ Append(s, d)[Len(s) + 1] = d
  OBVIOUS
<1>3. \A i \in DOMAIN s : i \in DOMAIN Append(s, d) /\ Append(s, d)[i] = s[i]
  OBVIOUS
<1> QED
  BY <1>1, <1>2, <1>3 DEF ToSet, Last

-----------------------------------------------------------------------------
(* Every action keeps each part of the invariant.                           *)

(* Configuration, device, services and baker keep their types.              *)
LEMMA NamesStep ==
    ASSUME IInv, HostNext PROVE NamesOK'
<1> USE DEF IInv, NamesOK
<1>1. ASSUME NEW mode \in Modes, Setup(mode) PROVE NamesOK'
  BY <1>1 DEF Setup, Start
<1>2. ASSUME NEW mode \in {"ask", "dry"}, Purge(mode) PROVE NamesOK'
  BY <1>2 DEF Purge, Start, Save, Fault, Unreadable, AutoDetected
<1>3. CASE ConfigSet
  BY <1>3, HostAssumption DEF ConfigSet, Start, Save, Fault, Unreadable, Loaded, AutoDetected
<1>4. CASE ConfigReset
  BY <1>4 DEF ConfigReset, Start, Save, Fault, AutoDetected
<1>5. CASE LoadValid
  BY <1>5, HostAssumption DEF LoadValid, Loaded, Valid, Unreadable, AutoDetected, OfferToPersist, Save, Fault
<1>6. CASE DetectHardware
  BY <1>6 DEF DetectHardware, HardwareFound
<1>7. CASE EnsureOctez
  BY <1>7 DEF EnsureOctez, InstallOctezStatic
<1>8. CASE VerifySystem
  BY <1>8 DEF VerifySystem
<1>9. CASE ConfigureNetwork
  BY <1>9 DEF ConfigureNetwork, Answers
<1>10. CASE BackupFile
  BY <1>10 DEF BackupFile
<1>11. CASE MoveFile
  BY <1>11 DEF MoveFile
<1>12. CASE SetMode
  BY <1>12 DEF SetMode
<1>13. CASE ReloadNetwork
  BY <1>13 DEF ReloadNetwork, Fault, Read
<1>14. CASE ReloadUdevRules
  BY <1>14 DEF ReloadUdevRules, Read
<1>15. CASE ValidateConnectivity
  BY <1>15 DEF ValidateConnectivity
<1>16. CASE ValidateBaker
  BY <1>16 DEF ValidateBaker, Answers, BakerStatus
<1>17. CASE WaitForNodeSync
  BY <1>17 DEF WaitForNodeSync
<1>18. CASE HandleBakerRegistration
  BY <1>18 DEF HandleBakerRegistration
<1>19. CASE CheckAndSetStake
  BY <1>19 DEF CheckAndSetStake, Fault
<1>20. CASE WaitForSigner
  BY <1>20 DEF WaitForSigner
<1>21. CASE DiscoverKeys
  BY <1>21 DEF DiscoverKeys, Fault
<1>22. CASE ImportKey
  BY <1>22 DEF ImportKey, ImportKeyFromSigner
<1>23. CASE SetKey
  BY <1>23 DEF SetKey, Fault
<1>24. CASE ValidateImportedKeys
  BY <1>24 DEF ValidateImportedKeys
<1>25. CASE ListPresent
  BY <1>25 DEF ListPresent, Fault
<1>26. CASE RemoveConfig
  BY <1>26 DEF RemoveConfig, Fault
<1>27. CASE RemoveKeys
  BY <1>27 DEF RemoveKeys, Fault
<1>28. CASE VerifyPurge
  BY <1>28 DEF VerifyPurge
<1>29. CASE End
  BY <1>29 DEF End, Ended
<1>30. CASE Abort
  BY <1>30 DEF Abort, Fault
<1>31. ASSUME NEW d \in Devices, Plug(d) PROVE NamesOK'
  BY <1>31 DEF Plug
<1>32. CASE Unplug
  BY <1>32 DEF Unplug, Fault
<1>33. CASE Restart
  BY <1>33 DEF Restart, Read
<1>34. CASE Activate
  BY <1>34 DEF Activate
<1>35. CASE WaitForNetworkInterface
  BY <1>35 DEF WaitForNetworkInterface
<1> QED
  BY <1>1, <1>2, <1>3, <1>4, <1>5, <1>6, <1>7, <1>8, <1>9, <1>10, <1>11, <1>12, <1>13, <1>14, <1>15, <1>16, <1>17, <1>18, <1>19, <1>20, <1>21, <1>22, <1>23, <1>24, <1>25, <1>26, <1>27, <1>28, <1>29, <1>30, <1>31, <1>32, <1>33, <1>34, <1>35
     DEF HostNext, Step, SetupStep, PurgeStep

(* Files of /etc keep their types.                                          *)
LEMMA EtcStep ==
    ASSUME IInv, HostNext PROVE EtcOK'
<1> USE DEF IInv, EtcOK, FilesInv, Contents, At
<1>1. ASSUME NEW mode \in Modes, Setup(mode) PROVE EtcOK'
  BY <1>1 DEF Setup, Start
<1>2. ASSUME NEW mode \in {"ask", "dry"}, Purge(mode) PROVE EtcOK'
  BY <1>2 DEF Purge, Start, Save, Fault, Unreadable, AutoDetected
<1>3. CASE ConfigSet
  BY <1>3 DEF ConfigSet, Start, Save, Fault, Unreadable, Loaded, AutoDetected
<1>4. CASE ConfigReset
  BY <1>4 DEF ConfigReset, Start, Save, Fault, AutoDetected
<1>5. CASE LoadValid
  BY <1>5 DEF LoadValid, Loaded, Valid, Unreadable, AutoDetected, OfferToPersist, Save, Fault
<1>6. CASE DetectHardware
  BY <1>6 DEF DetectHardware, HardwareFound
<1>7. CASE EnsureOctez
  BY <1>7 DEF EnsureOctez, InstallOctezStatic
<1>8. CASE VerifySystem
  BY <1>8 DEF VerifySystem
<1>9. CASE ConfigureNetwork
  BY <1>9 DEF ConfigureNetwork, Answers
<1>10. CASE BackupFile
  BY <1>10 DEF BackupFile
<1>11. CASE MoveFile
  BY <1>11 DEF MoveFile
<1>12. CASE SetMode
  BY <1>12 DEF SetMode
<1>13. CASE ReloadNetwork
  BY <1>13 DEF ReloadNetwork, Fault
<1>14. CASE ReloadUdevRules
  BY <1>14 DEF ReloadUdevRules
<1>15. CASE ValidateConnectivity
  BY <1>15 DEF ValidateConnectivity
<1>16. CASE ValidateBaker
  BY <1>16 DEF ValidateBaker, Answers, BakerStatus
<1>17. CASE WaitForNodeSync
  BY <1>17 DEF WaitForNodeSync
<1>18. CASE HandleBakerRegistration
  BY <1>18 DEF HandleBakerRegistration
<1>19. CASE CheckAndSetStake
  BY <1>19 DEF CheckAndSetStake, Fault
<1>20. CASE WaitForSigner
  BY <1>20 DEF WaitForSigner
<1>21. CASE DiscoverKeys
  BY <1>21 DEF DiscoverKeys, Fault
<1>22. CASE ImportKey
  BY <1>22 DEF ImportKey, ImportKeyFromSigner
<1>23. CASE SetKey
  BY <1>23 DEF SetKey, Fault
<1>24. CASE ValidateImportedKeys
  BY <1>24 DEF ValidateImportedKeys
<1>25. CASE ListPresent
  BY <1>25 DEF ListPresent, Fault
<1>26. CASE RemoveConfig
  BY <1>26 DEF RemoveConfig, Fault
<1>27. CASE RemoveKeys
  BY <1>27 DEF RemoveKeys, Fault
<1>28. CASE VerifyPurge
  BY <1>28 DEF VerifyPurge
<1>29. CASE End
  BY <1>29 DEF End, Ended
<1>30. CASE Abort
  BY <1>30 DEF Abort, Fault
<1>31. ASSUME NEW d \in Devices, Plug(d) PROVE EtcOK'
  BY <1>31 DEF Plug
<1>32. CASE Unplug
  BY <1>32 DEF Unplug, Fault
<1>33. CASE Restart
  BY <1>33 DEF Restart
<1>34. CASE Activate
  BY <1>34 DEF Activate
<1>35. CASE WaitForNetworkInterface
  BY <1>35 DEF WaitForNetworkInterface
<1> QED
  BY <1>1, <1>2, <1>3, <1>4, <1>5, <1>6, <1>7, <1>8, <1>9, <1>10, <1>11, <1>12, <1>13, <1>14, <1>15, <1>16, <1>17, <1>18, <1>19, <1>20, <1>21, <1>22, <1>23, <1>24, <1>25, <1>26, <1>27, <1>28, <1>29, <1>30, <1>31, <1>32, <1>33, <1>34, <1>35
     DEF HostNext, Step, SetupStep, PurgeStep

(* Faults and commands stay within their bounds.                            *)
LEMMA CountsStep ==
    ASSUME IInv, HostNext PROVE CountsOK'
<1> USE DEF IInv, CountsOK
<1>1. ASSUME NEW mode \in Modes, Setup(mode) PROVE CountsOK'
  BY <1>1, HostAssumption DEF Setup, Start
<1>2. ASSUME NEW mode \in {"ask", "dry"}, Purge(mode) PROVE CountsOK'
  BY <1>2, HostAssumption DEF Purge, Start, Save, Fault, Unreadable, AutoDetected
<1>3. CASE ConfigSet
  BY <1>3, HostAssumption DEF ConfigSet, Start, Save, Fault, Unreadable, Loaded, AutoDetected
<1>4. CASE ConfigReset
  BY <1>4, HostAssumption DEF ConfigReset, Start, Save, Fault, AutoDetected
<1>5. CASE LoadValid /\ UNCHANGED runs
  <2>1. UNCHANGED faults \/ Fault
    BY <1>5 DEF LoadValid, OfferToPersist, Save
  <2> QED
    BY <1>5, <2>1, HostAssumption DEF Fault
<1>6. CASE DetectHardware /\ UNCHANGED runs
  BY <1>6, HostAssumption DEF DetectHardware, HardwareFound
<1>7. CASE EnsureOctez /\ UNCHANGED runs
  BY <1>7, HostAssumption DEF EnsureOctez, InstallOctezStatic
<1>8. CASE VerifySystem /\ UNCHANGED runs
  BY <1>8, HostAssumption DEF VerifySystem
<1>9. CASE ConfigureNetwork /\ UNCHANGED runs
  BY <1>9, HostAssumption DEF ConfigureNetwork, Answers
<1>10. CASE BackupFile /\ UNCHANGED runs
  BY <1>10, HostAssumption DEF BackupFile
<1>11. CASE MoveFile /\ UNCHANGED runs
  BY <1>11, HostAssumption DEF MoveFile
<1>12. CASE SetMode /\ UNCHANGED runs
  BY <1>12, HostAssumption DEF SetMode
<1>13. CASE ReloadNetwork /\ UNCHANGED runs
  BY <1>13, HostAssumption DEF ReloadNetwork, Fault
<1>14. CASE ReloadUdevRules /\ UNCHANGED runs
  BY <1>14, HostAssumption DEF ReloadUdevRules
<1>15. CASE ValidateConnectivity /\ UNCHANGED runs
  BY <1>15, HostAssumption DEF ValidateConnectivity
<1>16. CASE ValidateBaker /\ UNCHANGED runs
  BY <1>16, HostAssumption DEF ValidateBaker, Answers, BakerStatus
<1>17. CASE WaitForNodeSync /\ UNCHANGED runs
  BY <1>17, HostAssumption DEF WaitForNodeSync
<1>18. CASE HandleBakerRegistration /\ UNCHANGED runs
  BY <1>18, HostAssumption DEF HandleBakerRegistration
<1>19. CASE CheckAndSetStake /\ UNCHANGED runs
  BY <1>19, HostAssumption DEF CheckAndSetStake, Fault
<1>20. CASE WaitForSigner /\ UNCHANGED runs
  BY <1>20, HostAssumption DEF WaitForSigner
<1>21. CASE DiscoverKeys /\ UNCHANGED runs
  BY <1>21, HostAssumption DEF DiscoverKeys, Fault
<1>22. CASE ImportKey /\ UNCHANGED runs
  BY <1>22, HostAssumption DEF ImportKey, ImportKeyFromSigner
<1>23. CASE SetKey /\ UNCHANGED runs
  BY <1>23, HostAssumption DEF SetKey, Fault
<1>24. CASE ValidateImportedKeys /\ UNCHANGED runs
  BY <1>24, HostAssumption DEF ValidateImportedKeys
<1>25. CASE ListPresent /\ UNCHANGED runs
  BY <1>25, HostAssumption DEF ListPresent, Fault
<1>26. CASE RemoveConfig /\ UNCHANGED runs
  <2>1. UNCHANGED faults \/ Fault
    BY <1>26 DEF RemoveConfig
  <2> QED
    BY <1>26, <2>1, HostAssumption DEF Fault
<1>27. CASE RemoveKeys /\ UNCHANGED runs
  <2>1. UNCHANGED faults \/ Fault
    BY <1>27 DEF RemoveKeys
  <2> QED
    BY <1>27, <2>1, HostAssumption DEF Fault
<1>28. CASE VerifyPurge /\ UNCHANGED runs
  BY <1>28, HostAssumption DEF VerifyPurge
<1>29. CASE End /\ UNCHANGED runs
  BY <1>29, HostAssumption DEF End, Ended
<1>30. CASE Abort /\ UNCHANGED runs
  BY <1>30, HostAssumption DEF Abort, Fault
<1>31. ASSUME NEW d \in Devices, Plug(d), UNCHANGED runs PROVE CountsOK'
  BY <1>31, HostAssumption DEF Plug
<1>32. CASE Unplug /\ UNCHANGED runs
  BY <1>32, HostAssumption DEF Unplug, Fault
<1>33. CASE Restart /\ UNCHANGED runs
  BY <1>33, HostAssumption DEF Restart
<1>34. CASE Activate /\ UNCHANGED runs
  BY <1>34, HostAssumption DEF Activate
<1>35. CASE WaitForNetworkInterface /\ UNCHANGED runs
  BY <1>35, HostAssumption DEF WaitForNetworkInterface
<1> QED
  BY <1>1, <1>2, <1>3, <1>4, <1>5, <1>6, <1>7, <1>8, <1>9, <1>10, <1>11, <1>12, <1>13, <1>14, <1>15, <1>16, <1>17, <1>18, <1>19, <1>20, <1>21, <1>22, <1>23, <1>24, <1>25, <1>26, <1>27, <1>28, <1>29, <1>30, <1>31, <1>32, <1>33, <1>34, <1>35
     DEF HostNext, Step, SetupStep, PurgeStep

(* An alias names a device at a signer, or nothing.                         *)
LEMMA WalletStep ==
    ASSUME IInv, HostNext PROVE WalletOK'
<1> USE DEF IInv, WalletOK, Endpoints, CmdInv, KeysInv, At, Order
<1>1. ASSUME NEW mode \in Modes, Setup(mode) PROVE WalletOK'
  BY <1>1, TwoRoles DEF Setup, Start
<1>2. ASSUME NEW mode \in {"ask", "dry"}, Purge(mode) PROVE WalletOK'
  BY <1>2, TwoRoles DEF Purge, Start, Save, Fault, Unreadable, AutoDetected
<1>3. CASE ConfigSet
  BY <1>3, TwoRoles DEF ConfigSet, Start, Save, Fault, Unreadable, Loaded, AutoDetected
<1>4. CASE ConfigReset
  BY <1>4, TwoRoles DEF ConfigReset, Start, Save, Fault, AutoDetected
<1>5. CASE LoadValid
  BY <1>5, TwoRoles DEF LoadValid, Loaded, Valid, Unreadable, AutoDetected, OfferToPersist, Save, Fault
<1>6. CASE DetectHardware
  BY <1>6, TwoRoles DEF DetectHardware, HardwareFound
<1>7. CASE EnsureOctez
  BY <1>7, TwoRoles DEF EnsureOctez, InstallOctezStatic
<1>8. CASE VerifySystem
  BY <1>8, TwoRoles DEF VerifySystem
<1>9. CASE ConfigureNetwork
  BY <1>9, TwoRoles DEF ConfigureNetwork, Answers
<1>10. CASE BackupFile
  BY <1>10, TwoRoles DEF BackupFile
<1>11. CASE MoveFile
  BY <1>11, TwoRoles DEF MoveFile
<1>12. CASE SetMode
  BY <1>12, TwoRoles DEF SetMode
<1>13. CASE ReloadNetwork
  BY <1>13, TwoRoles DEF ReloadNetwork, Fault
<1>14. CASE ReloadUdevRules
  BY <1>14, TwoRoles DEF ReloadUdevRules
<1>15. CASE ValidateConnectivity
  BY <1>15, TwoRoles DEF ValidateConnectivity
<1>16. CASE ValidateBaker
  BY <1>16, TwoRoles DEF ValidateBaker, Answers, BakerStatus
<1>17. CASE WaitForNodeSync
  BY <1>17, TwoRoles DEF WaitForNodeSync
<1>18. CASE HandleBakerRegistration
  BY <1>18, TwoRoles DEF HandleBakerRegistration
<1>19. CASE CheckAndSetStake
  BY <1>19, TwoRoles DEF CheckAndSetStake, Fault
<1>20. CASE WaitForSigner
  BY <1>20, TwoRoles DEF WaitForSigner
<1>21. CASE DiscoverKeys
  BY <1>21, TwoRoles DEF DiscoverKeys, Fault
<1>22. CASE ImportKey
  BY <1>22, TwoRoles DEF ImportKey, ImportKeyFromSigner
<1>23. CASE SetKey
  BY <1>23, TwoRoles DEF SetKey, Fault
<1>24. CASE ValidateImportedKeys
  BY <1>24, TwoRoles DEF ValidateImportedKeys
<1>25. CASE ListPresent
  BY <1>25, TwoRoles DEF ListPresent, Fault
<1>26. CASE RemoveConfig
  BY <1>26, TwoRoles DEF RemoveConfig, Fault
<1>27. CASE RemoveKeys
  <2>1. CASE UNCHANGED wallet
    BY <2>1
  <2>2. CASE \E left \in SUBSET cmd.roles :
               wallet' = [r \in Roles |-> IF r \in cmd.roles \ left THEN None ELSE wallet[r]]
    <3>1. PICK left \in SUBSET cmd.roles :
             wallet' = [r \in Roles |-> IF r \in cmd.roles \ left THEN None ELSE wallet[r]]
      BY <2>2
    <3> QED
      BY <3>1
  <2> QED
    BY <2>1, <2>2, <1>27 DEF RemoveKeys
<1>28. CASE VerifyPurge
  BY <1>28, TwoRoles DEF VerifyPurge
<1>29. CASE End
  BY <1>29, TwoRoles DEF End, Ended
<1>30. CASE Abort
  BY <1>30, TwoRoles DEF Abort, Fault
<1>31. ASSUME NEW d \in Devices, Plug(d) PROVE WalletOK'
  BY <1>31, TwoRoles DEF Plug
<1>32. CASE Unplug
  BY <1>32, TwoRoles DEF Unplug, Fault
<1>33. CASE Restart
  BY <1>33, TwoRoles DEF Restart
<1>34. CASE Activate
  BY <1>34, TwoRoles DEF Activate
<1>35. CASE WaitForNetworkInterface
  BY <1>35, TwoRoles DEF WaitForNetworkInterface
<1> QED
  BY <1>1, <1>2, <1>3, <1>4, <1>5, <1>6, <1>7, <1>8, <1>9, <1>10, <1>11, <1>12, <1>13, <1>14, <1>15, <1>16, <1>17, <1>18, <1>19, <1>20, <1>21, <1>22, <1>23, <1>24, <1>25, <1>26, <1>27, <1>28, <1>29, <1>30, <1>31, <1>32, <1>33, <1>34, <1>35
     DEF HostNext, Step, SetupStep, PurgeStep

(* The chain has a key, or none, as the active one of each role.            *)
LEMMA ChainStep ==
    ASSUME IInv, HostNext PROVE ChainOK'
<1> USE DEF IInv, ChainOK, CmdInv, KeysInv, WalletOK, At, Order
<1>1. ASSUME NEW mode \in Modes, Setup(mode) PROVE ChainOK'
  BY <1>1 DEF Setup, Start
<1>2. ASSUME NEW mode \in {"ask", "dry"}, Purge(mode) PROVE ChainOK'
  BY <1>2 DEF Purge, Start, Save, Fault, Unreadable, AutoDetected
<1>3. CASE ConfigSet
  BY <1>3 DEF ConfigSet, Start, Save, Fault, Unreadable, Loaded, AutoDetected
<1>4. CASE ConfigReset
  BY <1>4 DEF ConfigReset, Start, Save, Fault, AutoDetected
<1>5. CASE LoadValid
  BY <1>5 DEF LoadValid, Loaded, Valid, Unreadable, AutoDetected, OfferToPersist, Save, Fault
<1>6. CASE DetectHardware
  BY <1>6 DEF DetectHardware, HardwareFound
<1>7. CASE EnsureOctez
  BY <1>7 DEF EnsureOctez, InstallOctezStatic
<1>8. CASE VerifySystem
  BY <1>8 DEF VerifySystem
<1>9. CASE ConfigureNetwork
  BY <1>9 DEF ConfigureNetwork, Answers
<1>10. CASE BackupFile
  BY <1>10 DEF BackupFile
<1>11. CASE MoveFile
  BY <1>11 DEF MoveFile
<1>12. CASE SetMode
  BY <1>12 DEF SetMode
<1>13. CASE ReloadNetwork
  BY <1>13 DEF ReloadNetwork, Fault
<1>14. CASE ReloadUdevRules
  BY <1>14 DEF ReloadUdevRules
<1>15. CASE ValidateConnectivity
  BY <1>15 DEF ValidateConnectivity
<1>16. CASE ValidateBaker
  BY <1>16 DEF ValidateBaker, Answers, BakerStatus
<1>17. CASE WaitForNodeSync
  BY <1>17 DEF WaitForNodeSync
<1>18. CASE HandleBakerRegistration
  BY <1>18 DEF HandleBakerRegistration
<1>19. CASE CheckAndSetStake
  BY <1>19 DEF CheckAndSetStake, Fault
<1>20. CASE WaitForSigner
  BY <1>20 DEF WaitForSigner
<1>21. CASE DiscoverKeys
  BY <1>21 DEF DiscoverKeys, Fault
<1>22. CASE ImportKey
  BY <1>22 DEF ImportKey, ImportKeyFromSigner
<1>23. CASE SetKey
  <2> DEFINE r == Head(cmd.todo)
             d == wallet[r][1]
  <2>1. r \in Roles /\ d \in Devices
    BY <1>23, TwoRoles DEF SetKey, Imported
  <2>2. \/ keys' = keys
        \/ keys' = [keys EXCEPT ![r] = Append(keys[r], d)]
    BY <1>23 DEF SetKey
  <2> HIDE DEF r, d
  <2>3. Append(keys[r], d) \in Seq(Devices \cup {None}) \ {<<>>}
    BY <2>1, ToSetLast
  <2> QED
    BY <2>1, <2>2, <2>3
<1>24. CASE ValidateImportedKeys
  BY <1>24 DEF ValidateImportedKeys
<1>25. CASE ListPresent
  BY <1>25 DEF ListPresent, Fault
<1>26. CASE RemoveConfig
  BY <1>26 DEF RemoveConfig, Fault
<1>27. CASE RemoveKeys
  BY <1>27 DEF RemoveKeys, Fault
<1>28. CASE VerifyPurge
  BY <1>28 DEF VerifyPurge
<1>29. CASE End
  BY <1>29 DEF End, Ended
<1>30. CASE Abort
  BY <1>30 DEF Abort, Fault
<1>31. ASSUME NEW d \in Devices, Plug(d) PROVE ChainOK'
  BY <1>31 DEF Plug
<1>32. CASE Unplug
  BY <1>32 DEF Unplug, Fault
<1>33. CASE Restart
  BY <1>33 DEF Restart
<1>34. CASE Activate
  <2>1. ASSUME NEW r \in Roles, Len(keys[r]) > 1
        PROVE  Tail(keys[r]) \in Seq(Devices \cup {None}) \ {<<>>}
    BY <2>1, TailOfMore
  <2> QED
    BY <2>1, <1>34 DEF Activate
<1>35. CASE WaitForNetworkInterface
  BY <1>35 DEF WaitForNetworkInterface
<1> QED
  BY <1>1, <1>2, <1>3, <1>4, <1>5, <1>6, <1>7, <1>8, <1>9, <1>10, <1>11, <1>12, <1>13, <1>14, <1>15, <1>16, <1>17, <1>18, <1>19, <1>20, <1>21, <1>22, <1>23, <1>24, <1>25, <1>26, <1>27, <1>28, <1>29, <1>30, <1>31, <1>32, <1>33, <1>34, <1>35
     DEF HostNext, Step, SetupStep, PurgeStep

(* A configuration that loads names a signer.                               *)
LEMMA LoadForms ==
    ASSUME LoadValid, config \in {"absent", "torn", "invalid", "usb", "lan"}
    PROVE  \/ cmd' = Idle
           \/ \E over \in {"usb", "lan"} : cmd' = [cmd EXCEPT !.pc = "hardware", !.at = over, !.sure = cmd.sure /\ ~Deceptive(over)]
<1>1. CASE Loaded = "invalid" /\ Bail
  BY <1>1 DEF Bail
<1>2. ASSUME NEW over \in Signers \cup {Loaded}, Valid(Loaded),
             cmd' = IF config' = "torn" THEN Idle
                    ELSE [cmd EXCEPT !.pc = "hardware", !.at = over, !.sure = cmd.sure /\ ~Deceptive(over)]
      PROVE  \/ cmd' = Idle
             \/ \E o \in {"usb", "lan"} : cmd' = [cmd EXCEPT !.pc = "hardware", !.at = o, !.sure = cmd.sure /\ ~Deceptive(o)]
  <2>1. over \in {"usb", "lan"}
    BY <1>2, HostAssumption DEF Valid
  <2> QED
    BY <1>2, <2>1
<1> QED
  BY <1>1, <1>2 DEF LoadValid

(* The record of the command keeps its shape.                               *)
LEMMA CmdStep ==
    ASSUME IInv, HostNext PROVE CmdInv'
<1> USE DEF IInv, CmdInv, At, Goto, Asked, Bail, Idle, SetupSteps, PurgeSteps, Modes
<1>1. ASSUME NEW mode \in Modes, Setup(mode) PROVE CmdInv'
  BY <1>1 DEF Setup, Start
<1>2. ASSUME NEW mode \in {"ask", "dry"}, Purge(mode) PROVE CmdInv'
  BY <1>2 DEF Purge, Start, Save, Fault, Unreadable, AutoDetected
<1>3. CASE ConfigSet
  BY <1>3 DEF ConfigSet, Start, Save, Fault, Unreadable, Loaded, AutoDetected
<1>4. CASE ConfigReset
  BY <1>4 DEF ConfigReset, Start, Save, Fault, AutoDetected
<1>5. CASE LoadValid
  <2>1. CASE cmd' = Idle
    BY <2>1, <1>5 DEF LoadValid
  <2>2. ASSUME NEW over \in {"usb", "lan"},
               cmd' = [cmd EXCEPT !.pc = "hardware", !.at = over, !.sure = cmd.sure /\ ~Deceptive(over)]
        PROVE  CmdInv'
    BY <2>2, <1>5 DEF LoadValid
  <2> QED
    BY <2>1, <2>2, <1>5, LoadForms DEF NamesOK
<1>6. CASE DetectHardware
  <2>1. CASE cmd' = Idle
    BY <2>1, <1>6 DEF DetectHardware
  <2>2. CASE cmd' = [cmd EXCEPT !.pc = "system"]
    BY <2>2, <1>6 DEF DetectHardware
  <2> QED
    BY <1>6, <2>1, <2>2 DEF DetectHardware, HardwareFound
<1>7. CASE EnsureOctez
  <2>1. CASE cmd' = Idle
    BY <2>1, <1>7 DEF EnsureOctez
  <2>2. CASE cmd' = cmd
    BY <2>2, <1>7 DEF EnsureOctez
  <2> QED
    BY <1>7, <2>1, <2>2 DEF EnsureOctez, InstallOctezStatic
<1>8. CASE VerifySystem
  BY <1>8 DEF VerifySystem
<1>9. CASE ConfigureNetwork
  <2>1. CASE cmd' = Idle
    BY <2>1, <1>9 DEF ConfigureNetwork
  <2>2. CASE (cmd.mode = "yes" => cmd.at = "lan" \/ Outdated = <<>>) /\ cmd' = [cmd EXCEPT !.pc = "baker"]
    BY <2>2, <1>9 DEF ConfigureNetwork
  <2>3. CASE cmd.at # "lan" /\ cmd' = [cmd EXCEPT !.pc = "backup", !.todo = Outdated, !.changed = {Service(f) : f \in ToSet(Outdated)}]
    BY <2>3, <1>9 DEF ConfigureNetwork
  <2> QED
    BY <1>9, <2>1, <2>2, <2>3 DEF ConfigureNetwork, Answers
<1>10. CASE BackupFile
  BY <1>10 DEF BackupFile
<1>11. CASE MoveFile
  BY <1>11 DEF MoveFile
<1>12. CASE SetMode
  BY <1>12 DEF SetMode
<1>13. CASE ReloadNetwork
  BY <1>13 DEF ReloadNetwork, Fault
<1>14. CASE ReloadUdevRules
  <2>1. CASE cmd' = [cmd EXCEPT !.pc = "wait"]
    BY <2>1, <1>14 DEF ReloadUdevRules
  <2>2. CASE cmd' = [cmd EXCEPT !.pc = "connect"]
    BY <2>2, <1>14 DEF ReloadUdevRules
  <2> QED
    BY <1>14, <2>1, <2>2 DEF ReloadUdevRules
<1>15. CASE ValidateConnectivity
  <2>1. CASE cmd' = Idle
    BY <2>1, <1>15 DEF ValidateConnectivity
  <2>2. CASE cmd' = [cmd EXCEPT !.pc = "baker"]
    BY <2>2, <1>15 DEF ValidateConnectivity
  <2> QED
    BY <1>15, <2>1, <2>2 DEF ValidateConnectivity
<1>16. CASE ValidateBaker
  <2>1. CASE cmd' = Idle
    BY <2>1, <1>16 DEF ValidateBaker
  <2>2. CASE cmd.mode = "dry" /\ cmd' = [cmd EXCEPT !.pc = "complete"]
    BY <2>2, <1>16 DEF ValidateBaker
  <2>3. CASE baker.reg = "active" /\ cmd' = [cmd EXCEPT !.pc = "signer"]
    BY <2>3, <1>16 DEF ValidateBaker
  <2>4. CASE cmd' = [cmd EXCEPT !.pc = "sync", !.seen = baker]
    BY <2>4, <1>16 DEF ValidateBaker
  <2>5. CASE cmd' = [cmd EXCEPT !.pc = "register", !.seen = baker]
    BY <2>5, <1>16 DEF ValidateBaker
  <2>6. CASE cmd' = [cmd EXCEPT !.pc = "complete", !.failed = TRUE]
    BY <2>6, <1>16 DEF ValidateBaker
  <2> QED
    BY <1>16, <2>1, <2>2, <2>3, <2>4, <2>5, <2>6 DEF ValidateBaker, Answers, BakerStatus
<1>17. CASE WaitForNodeSync
  BY <1>17 DEF WaitForNodeSync
<1>18. CASE HandleBakerRegistration
  <2>1. CASE cmd' = Idle
    BY <2>1, <1>18 DEF HandleBakerRegistration
  <2>2. CASE cmd' = [cmd EXCEPT !.pc = "stake"]
    BY <2>2, <1>18 DEF HandleBakerRegistration
  <2> QED
    BY <1>18, <2>1, <2>2 DEF HandleBakerRegistration
<1>19. CASE CheckAndSetStake
  BY <1>19 DEF CheckAndSetStake, Fault
<1>20. CASE WaitForSigner
  <2>1. CASE cmd' = Idle
    BY <2>1
  <2>2. CASE cmd' = [cmd EXCEPT !.pc = "discover", !.dev = plugged]
    BY <2>2
  <2> QED
    BY <2>1, <2>2, <1>20 DEF WaitForSigner
<1>21. CASE DiscoverKeys
  <2>1. CASE RolesCorrectlyImported = Roles /\ (\A r \in Roles : RoleKeySetOnChain(r, cmd.dev)) /\ cmd' = [cmd EXCEPT !.pc = "validate"]
    BY <2>1, <1>21 DEF DiscoverKeys, RolesCorrectlyImported
  <2>2. CASE cmd' = [cmd EXCEPT !.pc = "import", !.roles = RolesCorrectlyImported, !.todo = Order]
    BY <2>2, <1>21 DEF DiscoverKeys, RolesCorrectlyImported
  <2> QED
    BY <1>21, <2>1, <2>2 DEF DiscoverKeys, Fault, RolesCorrectlyImported
<1>22. CASE ImportKey
  <2>1. CASE cmd' = Idle
    BY <2>1, <1>22 DEF ImportKey
  <2>2. CASE cmd' = [cmd EXCEPT !.pc = "set"]
    BY <2>2, <1>22 DEF ImportKey
  <2> QED
    BY <1>22, <2>1, <2>2 DEF ImportKey, ImportKeyFromSigner
<1>23. CASE SetKey
  <2>1. CASE cmd' = Idle
    BY <2>1, <1>23 DEF SetKey
  <2>2. CASE cmd' = [cmd EXCEPT !.todo = Tail(@), !.pc = "validate"]
    BY <2>2, <1>23 DEF SetKey
  <2>3. CASE cmd' = [cmd EXCEPT !.todo = Tail(@), !.pc = "import"]
    BY <2>3, <1>23 DEF SetKey
  <2> QED
    BY <1>23, <2>1, <2>2, <2>3 DEF SetKey, Fault
<1>24. CASE ValidateImportedKeys
  <2>1. CASE cmd' = Idle
    BY <2>1, <1>24 DEF ValidateImportedKeys
  <2>2. CASE cmd' = [cmd EXCEPT !.pc = "complete"]
    BY <2>2, <1>24 DEF ValidateImportedKeys
  <2> QED
    BY <1>24, <2>1, <2>2 DEF ValidateImportedKeys
<1>25. CASE ListPresent
  <2>1. CASE cmd' = Idle
    BY <2>1, <1>25 DEF ListPresent, PresentAliases
  <2>2. CASE Present = {} /\ PresentAliases = {} /\ cmd' = [cmd EXCEPT !.pc = "clean"]
    BY <2>2, <1>25 DEF ListPresent, PresentAliases
  <2>3. CASE cmd' = [cmd EXCEPT !.pc = "untouched"]
    BY <2>3, <1>25 DEF ListPresent, PresentAliases
  <2>4. ASSUME NEW known \in BOOLEAN, NEW as \in {PresentAliases, {}},
               cmd' = [cmd EXCEPT !.roles = as, !.failed = ~known, !.pc = IF Present = {} THEN "forget" ELSE "remove"]
        PROVE  CmdInv'
    BY <2>4, <1>25, ZenonT(60) DEF ListPresent, PresentAliases
  <2> QED
    BY <1>25, <2>1, <2>2, <2>3, <2>4 DEF ListPresent, Fault
<1>26. CASE RemoveConfig
  <2>1. CASE cmd' = [cmd EXCEPT !.pc = "untouched"]
    BY <2>1, <1>26, ZenonT(60) DEF RemoveConfig
  <2>2. ASSUME NEW b \in BOOLEAN,
               cmd' = [cmd EXCEPT !.failed = b, !.pc = IF cmd.roles = {} THEN "verify" ELSE "forget"]
        PROVE  CmdInv'
    BY <2>2, <1>26, ZenonT(60) DEF RemoveConfig
  <2> QED
    BY <1>26, <2>1, <2>2 DEF RemoveConfig, Fault
<1>27. CASE RemoveKeys
  <2>1. CASE cmd' = [cmd EXCEPT !.pc = "verify"]
    BY <2>1, <1>27 DEF RemoveKeys
  <2>2. ASSUME NEW b \in BOOLEAN,
               cmd' = [cmd EXCEPT !.failed = b, !.pc = "verify"]
        PROVE  CmdInv'
    BY <2>2, <1>27 DEF RemoveKeys
  <2> QED
    BY <1>27, <2>1, <2>2 DEF RemoveKeys, Fault
<1>28. CASE VerifyPurge
  BY <1>28 DEF VerifyPurge
<1>29. CASE End
  BY <1>29 DEF End, Ended
<1>30. CASE Abort
  BY <1>30 DEF Abort, Fault
<1>31. ASSUME NEW d \in Devices, Plug(d) PROVE CmdInv'
  BY <1>31 DEF Plug
<1>32. CASE Unplug
  BY <1>32 DEF Unplug, Fault
<1>33. CASE Restart
  BY <1>33 DEF Restart
<1>34. CASE Activate
  BY <1>34 DEF Activate
<1>35. CASE WaitForNetworkInterface
  <2>1. CASE cmd' = Idle
    BY <2>1, <1>35 DEF WaitForNetworkInterface
  <2>2. CASE named /\ cmd' = [cmd EXCEPT !.pc = "connect"]
    BY <2>2, <1>35 DEF WaitForNetworkInterface
  <2> QED
    BY <1>35, <2>1, <2>2 DEF WaitForNetworkInterface
<1> QED
  BY <1>1, <1>2, <1>3, <1>4, <1>5, <1>6, <1>7, <1>8, <1>9, <1>10, <1>11, <1>12, <1>13, <1>14, <1>15, <1>16, <1>17, <1>18, <1>19, <1>20, <1>21, <1>22, <1>23, <1>24, <1>25, <1>26, <1>27, <1>28, <1>29, <1>30, <1>31, <1>32, <1>33, <1>34, <1>35
     DEF HostNext, Step, SetupStep, PurgeStep

(* A file is copied before it is moved over.                                *)
LEMMA FilesStep ==
    ASSUME IInv, HostNext PROVE FilesInv'
<1> USE DEF IInv, NamesOK, CmdInv, EtcOK, FilesInv, At, Goto, Asked, Bail, Idle
<1>1. ASSUME NEW mode \in Modes, Setup(mode) PROVE FilesInv'
  BY <1>1 DEF Setup, Start
<1>2. ASSUME NEW mode \in {"ask", "dry"}, Purge(mode) PROVE FilesInv'
  BY <1>2 DEF Purge, Start, Save, Fault, Unreadable, AutoDetected
<1>3. CASE ConfigSet
  BY <1>3 DEF ConfigSet, Start, Save, Fault, Unreadable, Loaded, AutoDetected
<1>4. CASE ConfigReset
  BY <1>4 DEF ConfigReset, Start, Save, Fault, AutoDetected
<1>5. CASE LoadValid
  <2>1. CASE cmd' = Idle
    BY <2>1, <1>5 DEF LoadValid
  <2>2. ASSUME NEW over \in {"usb", "lan"},
               cmd' = [cmd EXCEPT !.pc = "hardware", !.at = over, !.sure = cmd.sure /\ ~Deceptive(over)]
        PROVE  FilesInv'
    BY <2>2, <1>5 DEF LoadValid
  <2> QED
    BY <2>1, <2>2, <1>5, LoadForms DEF NamesOK
<1>6. CASE DetectHardware
  <2>1. CASE cmd' = Idle
    BY <2>1, <1>6 DEF DetectHardware
  <2>2. CASE cmd' = [cmd EXCEPT !.pc = "system"]
    BY <2>2, <1>6 DEF DetectHardware
  <2> QED
    BY <1>6, <2>1, <2>2 DEF DetectHardware, HardwareFound
<1>7. CASE EnsureOctez
  <2>1. CASE cmd' = Idle
    BY <2>1, <1>7 DEF EnsureOctez
  <2>2. CASE cmd' = cmd
    BY <2>2, <1>7 DEF EnsureOctez
  <2> QED
    BY <1>7, <2>1, <2>2 DEF EnsureOctez, InstallOctezStatic
<1>8. CASE VerifySystem
  BY <1>8 DEF VerifySystem
<1>9. CASE ConfigureNetwork
  <2>1. CASE cmd' = Idle
    BY <2>1, <1>9, OutdatedFiles DEF ConfigureNetwork
  <2>2. CASE (cmd.mode = "yes" => cmd.at = "lan" \/ Outdated = <<>>) /\ cmd' = [cmd EXCEPT !.pc = "baker"]
    BY <2>2, <1>9, OutdatedFiles DEF ConfigureNetwork
  <2>3. CASE cmd.at # "lan" /\ cmd' = [cmd EXCEPT !.pc = "backup", !.todo = Outdated, !.changed = {Service(f) : f \in ToSet(Outdated)}]
    BY <2>3, <1>9, OutdatedFiles DEF ConfigureNetwork
  <2> QED
    BY <1>9, <2>1, <2>2, <2>3 DEF ConfigureNetwork, Answers
<1>10. CASE BackupFile
  BY <1>10 DEF BackupFile, Exists
<1>11. CASE MoveFile
  BY <1>11 DEF MoveFile
<1>12. CASE SetMode
  BY <1>12, ToSetTail DEF SetMode
<1>13. CASE ReloadNetwork
  BY <1>13 DEF ReloadNetwork, Fault
<1>14. CASE ReloadUdevRules
  <2>1. CASE cmd' = [cmd EXCEPT !.pc = "wait"]
    BY <2>1, <1>14 DEF ReloadUdevRules
  <2>2. CASE cmd' = [cmd EXCEPT !.pc = "connect"]
    BY <2>2, <1>14 DEF ReloadUdevRules
  <2> QED
    BY <1>14, <2>1, <2>2 DEF ReloadUdevRules
<1>15. CASE ValidateConnectivity
  <2>1. CASE cmd' = Idle
    BY <2>1, <1>15 DEF ValidateConnectivity
  <2>2. CASE cmd' = [cmd EXCEPT !.pc = "baker"]
    BY <2>2, <1>15 DEF ValidateConnectivity
  <2> QED
    BY <1>15, <2>1, <2>2 DEF ValidateConnectivity
<1>16. CASE ValidateBaker
  <2>1. CASE cmd' = Idle
    BY <2>1, <1>16 DEF ValidateBaker
  <2>2. CASE cmd.mode = "dry" /\ cmd' = [cmd EXCEPT !.pc = "complete"]
    BY <2>2, <1>16 DEF ValidateBaker
  <2>3. CASE baker.reg = "active" /\ cmd' = [cmd EXCEPT !.pc = "signer"]
    BY <2>3, <1>16 DEF ValidateBaker
  <2>4. CASE cmd' = [cmd EXCEPT !.pc = "sync", !.seen = baker]
    BY <2>4, <1>16 DEF ValidateBaker
  <2>5. CASE cmd' = [cmd EXCEPT !.pc = "register", !.seen = baker]
    BY <2>5, <1>16 DEF ValidateBaker
  <2>6. CASE cmd' = [cmd EXCEPT !.pc = "complete", !.failed = TRUE]
    BY <2>6, <1>16 DEF ValidateBaker
  <2> QED
    BY <1>16, <2>1, <2>2, <2>3, <2>4, <2>5, <2>6 DEF ValidateBaker, Answers, BakerStatus
<1>17. CASE WaitForNodeSync
  BY <1>17 DEF WaitForNodeSync
<1>18. CASE HandleBakerRegistration
  <2>1. CASE cmd' = Idle
    BY <2>1, <1>18 DEF HandleBakerRegistration
  <2>2. CASE cmd' = [cmd EXCEPT !.pc = "stake"]
    BY <2>2, <1>18 DEF HandleBakerRegistration
  <2> QED
    BY <1>18, <2>1, <2>2 DEF HandleBakerRegistration
<1>19. CASE CheckAndSetStake
  BY <1>19 DEF CheckAndSetStake, Fault
<1>20. CASE WaitForSigner
  <2>1. CASE cmd' = Idle
    BY <2>1, <1>20 DEF WaitForSigner
  <2>2. CASE plugged # None /\ cmd' = [cmd EXCEPT !.pc = "discover", !.dev = plugged]
    BY <2>2, <1>20 DEF WaitForSigner
  <2> QED
    BY <1>20, <2>1, <2>2 DEF WaitForSigner, Reachable
<1>21. CASE DiscoverKeys
  <2>1. CASE RolesCorrectlyImported = Roles /\ (\A r \in Roles : RoleKeySetOnChain(r, cmd.dev)) /\ cmd' = [cmd EXCEPT !.pc = "validate"]
    BY <2>1, <1>21 DEF DiscoverKeys, RolesCorrectlyImported
  <2>2. CASE cmd' = [cmd EXCEPT !.pc = "import", !.roles = RolesCorrectlyImported, !.todo = Order]
    BY <2>2, <1>21 DEF DiscoverKeys, RolesCorrectlyImported
  <2> QED
    BY <1>21, <2>1, <2>2 DEF DiscoverKeys, Fault, RolesCorrectlyImported
<1>22. CASE ImportKey
  <2>1. CASE cmd' = Idle
    BY <2>1, <1>22 DEF ImportKey
  <2>2. CASE cmd' = [cmd EXCEPT !.pc = "set"]
    BY <2>2, <1>22 DEF ImportKey
  <2> QED
    BY <1>22, <2>1, <2>2 DEF ImportKey, ImportKeyFromSigner
<1>23. CASE SetKey
  <2>1. CASE cmd' = Idle
    BY <2>1, <1>23 DEF SetKey
  <2>2. CASE cmd' = [cmd EXCEPT !.todo = Tail(@), !.pc = "validate"]
    BY <2>2, <1>23 DEF SetKey
  <2>3. CASE cmd' = [cmd EXCEPT !.todo = Tail(@), !.pc = "import"]
    BY <2>3, <1>23 DEF SetKey
  <2> QED
    BY <1>23, <2>1, <2>2, <2>3 DEF SetKey, Fault
<1>24. CASE ValidateImportedKeys
  <2>1. CASE cmd' = Idle
    BY <2>1, <1>24 DEF ValidateImportedKeys
  <2>2. CASE cmd' = [cmd EXCEPT !.pc = "complete"]
    BY <2>2, <1>24 DEF ValidateImportedKeys
  <2> QED
    BY <1>24, <2>1, <2>2 DEF ValidateImportedKeys
<1>25. CASE ListPresent
  <2>1. CASE cmd' = Idle
    BY <2>1, <1>25 DEF ListPresent, PresentAliases
  <2>2. CASE Present = {} /\ PresentAliases = {} /\ cmd' = [cmd EXCEPT !.pc = "clean"]
    BY <2>2, <1>25 DEF ListPresent, PresentAliases
  <2>3. CASE cmd' = [cmd EXCEPT !.pc = "untouched"]
    BY <2>3, <1>25 DEF ListPresent, PresentAliases
  <2>4. ASSUME NEW known \in BOOLEAN, NEW as \in {PresentAliases, {}},
               cmd' = [cmd EXCEPT !.roles = as, !.failed = ~known, !.pc = IF Present = {} THEN "forget" ELSE "remove"]
        PROVE  FilesInv'
    BY <2>4, <1>25 DEF ListPresent, PresentAliases
  <2> QED
    BY <1>25, <2>1, <2>2, <2>3, <2>4 DEF ListPresent, Fault
<1>26. CASE RemoveConfig
  <2>1. CASE cmd' = [cmd EXCEPT !.pc = "untouched"]
    BY <2>1, <1>26 DEF RemoveConfig
  <2>2. ASSUME NEW b \in BOOLEAN,
               cmd' = [cmd EXCEPT !.failed = b, !.pc = IF cmd.roles = {} THEN "verify" ELSE "forget"]
        PROVE  FilesInv'
    BY <2>2, <1>26 DEF RemoveConfig
  <2> QED
    BY <1>26, <2>1, <2>2 DEF RemoveConfig, Fault
<1>27. CASE RemoveKeys
  <2>1. CASE cmd' = [cmd EXCEPT !.pc = "verify"]
    BY <2>1, <1>27 DEF RemoveKeys
  <2>2. ASSUME NEW b \in BOOLEAN,
               cmd' = [cmd EXCEPT !.failed = b, !.pc = "verify"]
        PROVE  FilesInv'
    BY <2>2, <1>27 DEF RemoveKeys
  <2> QED
    BY <1>27, <2>1, <2>2 DEF RemoveKeys, Fault
<1>28. CASE VerifyPurge
  BY <1>28 DEF VerifyPurge
<1>29. CASE End
  BY <1>29 DEF End, Ended
<1>30. CASE Abort
  BY <1>30 DEF Abort, Fault
<1>31. ASSUME NEW d \in Devices, Plug(d) PROVE FilesInv'
  BY <1>31 DEF Plug
<1>32. CASE Unplug
  BY <1>32 DEF Unplug, Fault
<1>33. CASE Restart
  BY <1>33 DEF Restart
<1>34. CASE Activate
  BY <1>34 DEF Activate
<1>35. CASE WaitForNetworkInterface
  <2>1. CASE cmd' = Idle
    BY <2>1, <1>35 DEF WaitForNetworkInterface
  <2>2. CASE named /\ cmd' = [cmd EXCEPT !.pc = "connect"]
    BY <2>2, <1>35 DEF WaitForNetworkInterface
  <2> QED
    BY <1>35, <2>1, <2>2 DEF WaitForNetworkInterface
<1> QED
  BY <1>1, <1>2, <1>3, <1>4, <1>5, <1>6, <1>7, <1>8, <1>9, <1>10, <1>11, <1>12, <1>13, <1>14, <1>15, <1>16, <1>17, <1>18, <1>19, <1>20, <1>21, <1>22, <1>23, <1>24, <1>25, <1>26, <1>27, <1>28, <1>29, <1>30, <1>31, <1>32, <1>33, <1>34, <1>35
     DEF HostNext, Step, SetupStep, PurgeStep

(* Nothing comes back between the verdict of a purge and its end.           *)
LEMMA CleanStep ==
    ASSUME IInv, HostNext PROVE CleanIsClean'
<1> USE DEF IInv, NamesOK, CmdInv, CleanIsClean, Present, PresentAliases, Exists, At, Goto, Asked, Bail, Idle
<1>1. ASSUME NEW mode \in Modes, Setup(mode) PROVE CleanIsClean'
  BY <1>1 DEF Setup, Start
<1>2. ASSUME NEW mode \in {"ask", "dry"}, Purge(mode) PROVE CleanIsClean'
  BY <1>2 DEF Purge, Start, Save, Fault, Unreadable, AutoDetected
<1>3. CASE ConfigSet
  BY <1>3 DEF ConfigSet, Start, Save, Fault, Unreadable, Loaded, AutoDetected
<1>4. CASE ConfigReset
  BY <1>4 DEF ConfigReset, Start, Save, Fault, AutoDetected
<1>5. CASE LoadValid
  <2>1. CASE cmd' = Idle
    BY <2>1, <1>5 DEF LoadValid
  <2>2. ASSUME NEW over \in {"usb", "lan"},
               cmd' = [cmd EXCEPT !.pc = "hardware", !.at = over, !.sure = cmd.sure /\ ~Deceptive(over)]
        PROVE  CleanIsClean'
    BY <2>2, <1>5 DEF LoadValid
  <2> QED
    BY <2>1, <2>2, <1>5, LoadForms DEF NamesOK
<1>6. CASE DetectHardware
  <2>1. CASE cmd' = Idle
    BY <2>1, <1>6 DEF DetectHardware
  <2>2. CASE cmd' = [cmd EXCEPT !.pc = "system"]
    BY <2>2, <1>6 DEF DetectHardware
  <2> QED
    BY <1>6, <2>1, <2>2 DEF DetectHardware, HardwareFound
<1>7. CASE EnsureOctez
  <2>1. CASE cmd' = Idle
    BY <2>1, <1>7 DEF EnsureOctez
  <2>2. CASE cmd' = cmd
    BY <2>2, <1>7 DEF EnsureOctez
  <2> QED
    BY <1>7, <2>1, <2>2 DEF EnsureOctez, InstallOctezStatic
<1>8. CASE VerifySystem
  BY <1>8 DEF VerifySystem
<1>9. CASE ConfigureNetwork
  <2>1. CASE cmd' = Idle
    BY <2>1, <1>9 DEF ConfigureNetwork
  <2>2. CASE (cmd.mode = "yes" => cmd.at = "lan" \/ Outdated = <<>>) /\ cmd' = [cmd EXCEPT !.pc = "baker"]
    BY <2>2, <1>9 DEF ConfigureNetwork
  <2>3. CASE cmd.at # "lan" /\ cmd' = [cmd EXCEPT !.pc = "backup", !.todo = Outdated, !.changed = {Service(f) : f \in ToSet(Outdated)}]
    BY <2>3, <1>9 DEF ConfigureNetwork
  <2> QED
    BY <1>9, <2>1, <2>2, <2>3 DEF ConfigureNetwork, Answers
<1>10. CASE BackupFile
  BY <1>10 DEF BackupFile
<1>11. CASE MoveFile
  BY <1>11 DEF MoveFile
<1>12. CASE SetMode
  BY <1>12 DEF SetMode
<1>13. CASE ReloadNetwork
  BY <1>13 DEF ReloadNetwork, Fault
<1>14. CASE ReloadUdevRules
  <2>1. CASE cmd' = [cmd EXCEPT !.pc = "wait"]
    BY <2>1, <1>14 DEF ReloadUdevRules
  <2>2. CASE cmd' = [cmd EXCEPT !.pc = "connect"]
    BY <2>2, <1>14 DEF ReloadUdevRules
  <2> QED
    BY <1>14, <2>1, <2>2 DEF ReloadUdevRules
<1>15. CASE ValidateConnectivity
  <2>1. CASE cmd' = Idle
    BY <2>1, <1>15 DEF ValidateConnectivity
  <2>2. CASE cmd' = [cmd EXCEPT !.pc = "baker"]
    BY <2>2, <1>15 DEF ValidateConnectivity
  <2> QED
    BY <1>15, <2>1, <2>2 DEF ValidateConnectivity
<1>16. CASE ValidateBaker
  <2>1. CASE cmd' = Idle
    BY <2>1, <1>16 DEF ValidateBaker
  <2>2. CASE cmd.mode = "dry" /\ cmd' = [cmd EXCEPT !.pc = "complete"]
    BY <2>2, <1>16 DEF ValidateBaker
  <2>3. CASE baker.reg = "active" /\ cmd' = [cmd EXCEPT !.pc = "signer"]
    BY <2>3, <1>16 DEF ValidateBaker
  <2>4. CASE cmd' = [cmd EXCEPT !.pc = "sync", !.seen = baker]
    BY <2>4, <1>16 DEF ValidateBaker
  <2>5. CASE cmd' = [cmd EXCEPT !.pc = "register", !.seen = baker]
    BY <2>5, <1>16 DEF ValidateBaker
  <2>6. CASE cmd' = [cmd EXCEPT !.pc = "complete", !.failed = TRUE]
    BY <2>6, <1>16 DEF ValidateBaker
  <2> QED
    BY <1>16, <2>1, <2>2, <2>3, <2>4, <2>5, <2>6 DEF ValidateBaker, Answers, BakerStatus
<1>17. CASE WaitForNodeSync
  BY <1>17 DEF WaitForNodeSync
<1>18. CASE HandleBakerRegistration
  <2>1. CASE cmd' = Idle
    BY <2>1, <1>18 DEF HandleBakerRegistration
  <2>2. CASE cmd' = [cmd EXCEPT !.pc = "stake"]
    BY <2>2, <1>18 DEF HandleBakerRegistration
  <2> QED
    BY <1>18, <2>1, <2>2 DEF HandleBakerRegistration
<1>19. CASE CheckAndSetStake
  BY <1>19 DEF CheckAndSetStake, Fault
<1>20. CASE WaitForSigner
  <2>1. CASE cmd' = Idle
    BY <2>1, <1>20 DEF WaitForSigner
  <2>2. CASE plugged # None /\ cmd' = [cmd EXCEPT !.pc = "discover", !.dev = plugged]
    BY <2>2, <1>20 DEF WaitForSigner
  <2> QED
    BY <1>20, <2>1, <2>2 DEF WaitForSigner, Reachable
<1>21. CASE DiscoverKeys
  <2>1. CASE RolesCorrectlyImported = Roles /\ (\A r \in Roles : RoleKeySetOnChain(r, cmd.dev)) /\ cmd' = [cmd EXCEPT !.pc = "validate"]
    BY <2>1, <1>21 DEF DiscoverKeys, RolesCorrectlyImported
  <2>2. CASE cmd' = [cmd EXCEPT !.pc = "import", !.roles = RolesCorrectlyImported, !.todo = Order]
    BY <2>2, <1>21 DEF DiscoverKeys, RolesCorrectlyImported
  <2> QED
    BY <1>21, <2>1, <2>2 DEF DiscoverKeys, Fault, RolesCorrectlyImported
<1>22. CASE ImportKey
  <2>1. CASE cmd' = Idle
    BY <2>1, <1>22 DEF ImportKey
  <2>2. CASE cmd' = [cmd EXCEPT !.pc = "set"]
    BY <2>2, <1>22 DEF ImportKey
  <2> QED
    BY <1>22, <2>1, <2>2 DEF ImportKey, ImportKeyFromSigner
<1>23. CASE SetKey
  <2>1. CASE cmd' = Idle
    BY <2>1, <1>23 DEF SetKey
  <2>2. CASE cmd' = [cmd EXCEPT !.todo = Tail(@), !.pc = "validate"]
    BY <2>2, <1>23 DEF SetKey
  <2>3. CASE cmd' = [cmd EXCEPT !.todo = Tail(@), !.pc = "import"]
    BY <2>3, <1>23 DEF SetKey
  <2> QED
    BY <1>23, <2>1, <2>2, <2>3 DEF SetKey, Fault
<1>24. CASE ValidateImportedKeys
  <2>1. CASE cmd' = Idle
    BY <2>1, <1>24 DEF ValidateImportedKeys
  <2>2. CASE cmd' = [cmd EXCEPT !.pc = "complete"]
    BY <2>2, <1>24 DEF ValidateImportedKeys
  <2> QED
    BY <1>24, <2>1, <2>2 DEF ValidateImportedKeys
<1>25. CASE ListPresent
  <2>1. CASE cmd' = Idle
    BY <2>1, <1>25 DEF ListPresent, PresentAliases
  <2>2. CASE Present = {} /\ PresentAliases = {} /\ cmd' = [cmd EXCEPT !.pc = "clean"]
    BY <2>2, <1>25 DEF ListPresent, PresentAliases
  <2>3. CASE cmd' = [cmd EXCEPT !.pc = "untouched"]
    BY <2>3, <1>25 DEF ListPresent, PresentAliases
  <2>4. ASSUME NEW known \in BOOLEAN, NEW as \in {PresentAliases, {}},
               cmd' = [cmd EXCEPT !.roles = as, !.failed = ~known, !.pc = IF Present = {} THEN "forget" ELSE "remove"]
        PROVE  CleanIsClean'
    BY <2>4, <1>25 DEF ListPresent, PresentAliases
  <2> QED
    BY <1>25, <2>1, <2>2, <2>3, <2>4 DEF ListPresent, Fault
<1>26. CASE RemoveConfig
  <2>1. CASE cmd' = [cmd EXCEPT !.pc = "untouched"]
    BY <2>1, <1>26 DEF RemoveConfig
  <2>2. ASSUME NEW b \in BOOLEAN,
               cmd' = [cmd EXCEPT !.failed = b, !.pc = IF cmd.roles = {} THEN "verify" ELSE "forget"]
        PROVE  CleanIsClean'
    BY <2>2, <1>26 DEF RemoveConfig
  <2> QED
    BY <1>26, <2>1, <2>2 DEF RemoveConfig, Fault
<1>27. CASE RemoveKeys
  <2>1. CASE cmd' = [cmd EXCEPT !.pc = "verify"]
    BY <2>1, <1>27 DEF RemoveKeys
  <2>2. ASSUME NEW b \in BOOLEAN,
               cmd' = [cmd EXCEPT !.failed = b, !.pc = "verify"]
        PROVE  CleanIsClean'
    BY <2>2, <1>27 DEF RemoveKeys
  <2> QED
    BY <1>27, <2>1, <2>2 DEF RemoveKeys, Fault
<1>28. CASE VerifyPurge
  BY <1>28 DEF VerifyPurge, Survivors
<1>29. CASE End
  BY <1>29 DEF End, Ended
<1>30. CASE Abort
  BY <1>30 DEF Abort, Fault
<1>31. ASSUME NEW d \in Devices, Plug(d) PROVE CleanIsClean'
  BY <1>31 DEF Plug
<1>32. CASE Unplug
  BY <1>32 DEF Unplug, Fault
<1>33. CASE Restart
  BY <1>33 DEF Restart
<1>34. CASE Activate
  BY <1>34 DEF Activate
<1>35. CASE WaitForNetworkInterface
  <2>1. CASE cmd' = Idle
    BY <2>1, <1>35 DEF WaitForNetworkInterface
  <2>2. CASE named /\ cmd' = [cmd EXCEPT !.pc = "connect"]
    BY <2>2, <1>35 DEF WaitForNetworkInterface
  <2> QED
    BY <1>35, <2>1, <2>2 DEF WaitForNetworkInterface
<1> QED
  BY <1>1, <1>2, <1>3, <1>4, <1>5, <1>6, <1>7, <1>8, <1>9, <1>10, <1>11, <1>12, <1>13, <1>14, <1>15, <1>16, <1>17, <1>18, <1>19, <1>20, <1>21, <1>22, <1>23, <1>24, <1>25, <1>26, <1>27, <1>28, <1>29, <1>30, <1>31, <1>32, <1>33, <1>34, <1>35
     DEF HostNext, Step, SetupStep, PurgeStep

(* What was imported and set stays imported and set.                        *)
LEMMA KeysStep ==
    ASSUME IInv, HostNext PROVE KeysInv'
<1> USE DEF IInv, NamesOK, CmdInv, WalletOK, ChainOK, KeysInv, Done, Imported, Names, RoleKeySetOnChain, At, Goto, Asked, Bail, Idle
<1>1. ASSUME NEW mode \in Modes, Setup(mode) PROVE KeysInv'
  BY <1>1 DEF Setup, Start
<1>2. ASSUME NEW mode \in {"ask", "dry"}, Purge(mode) PROVE KeysInv'
  BY <1>2 DEF Purge, Start, Save, Fault, Unreadable, AutoDetected
<1>3. CASE ConfigSet
  BY <1>3 DEF ConfigSet, Start, Save, Fault, Unreadable, Loaded, AutoDetected
<1>4. CASE ConfigReset
  BY <1>4 DEF ConfigReset, Start, Save, Fault, AutoDetected
<1>5. CASE LoadValid
  <2>1. CASE cmd' = Idle
    BY <2>1, <1>5 DEF LoadValid
  <2>2. ASSUME NEW over \in {"usb", "lan"},
               cmd' = [cmd EXCEPT !.pc = "hardware", !.at = over, !.sure = cmd.sure /\ ~Deceptive(over)]
        PROVE  KeysInv'
    BY <2>2, <1>5 DEF LoadValid
  <2> QED
    BY <2>1, <2>2, <1>5, LoadForms DEF NamesOK
<1>6. CASE DetectHardware
  <2>1. CASE cmd' = Idle
    BY <2>1, <1>6 DEF DetectHardware
  <2>2. CASE cmd' = [cmd EXCEPT !.pc = "system"]
    BY <2>2, <1>6 DEF DetectHardware
  <2> QED
    BY <1>6, <2>1, <2>2 DEF DetectHardware, HardwareFound
<1>7. CASE EnsureOctez
  <2>1. CASE cmd' = Idle
    BY <2>1, <1>7 DEF EnsureOctez
  <2>2. CASE cmd' = cmd
    BY <2>2, <1>7 DEF EnsureOctez
  <2> QED
    BY <1>7, <2>1, <2>2 DEF EnsureOctez, InstallOctezStatic
<1>8. CASE VerifySystem
  BY <1>8 DEF VerifySystem
<1>9. CASE ConfigureNetwork
  <2>1. CASE cmd' = Idle
    BY <2>1, <1>9 DEF ConfigureNetwork
  <2>2. CASE (cmd.mode = "yes" => cmd.at = "lan" \/ Outdated = <<>>) /\ cmd' = [cmd EXCEPT !.pc = "baker"]
    BY <2>2, <1>9 DEF ConfigureNetwork
  <2>3. CASE cmd.at # "lan" /\ cmd' = [cmd EXCEPT !.pc = "backup", !.todo = Outdated, !.changed = {Service(f) : f \in ToSet(Outdated)}]
    BY <2>3, <1>9 DEF ConfigureNetwork
  <2> QED
    BY <1>9, <2>1, <2>2, <2>3 DEF ConfigureNetwork, Answers
<1>10. CASE BackupFile
  BY <1>10 DEF BackupFile
<1>11. CASE MoveFile
  BY <1>11 DEF MoveFile
<1>12. CASE SetMode
  BY <1>12 DEF SetMode
<1>13. CASE ReloadNetwork
  BY <1>13 DEF ReloadNetwork, Fault
<1>14. CASE ReloadUdevRules
  <2>1. CASE cmd' = [cmd EXCEPT !.pc = "wait"]
    BY <2>1, <1>14 DEF ReloadUdevRules
  <2>2. CASE cmd' = [cmd EXCEPT !.pc = "connect"]
    BY <2>2, <1>14 DEF ReloadUdevRules
  <2> QED
    BY <1>14, <2>1, <2>2 DEF ReloadUdevRules
<1>15. CASE ValidateConnectivity
  <2>1. CASE cmd' = Idle
    BY <2>1, <1>15 DEF ValidateConnectivity
  <2>2. CASE cmd' = [cmd EXCEPT !.pc = "baker"]
    BY <2>2, <1>15 DEF ValidateConnectivity
  <2> QED
    BY <1>15, <2>1, <2>2 DEF ValidateConnectivity
<1>16. CASE ValidateBaker
  <2>1. CASE cmd' = Idle
    BY <2>1, <1>16 DEF ValidateBaker
  <2>2. CASE cmd.mode = "dry" /\ cmd' = [cmd EXCEPT !.pc = "complete"]
    BY <2>2, <1>16 DEF ValidateBaker
  <2>3. CASE baker.reg = "active" /\ cmd' = [cmd EXCEPT !.pc = "signer"]
    BY <2>3, <1>16 DEF ValidateBaker
  <2>4. CASE cmd' = [cmd EXCEPT !.pc = "sync", !.seen = baker]
    BY <2>4, <1>16 DEF ValidateBaker
  <2>5. CASE cmd' = [cmd EXCEPT !.pc = "register", !.seen = baker]
    BY <2>5, <1>16 DEF ValidateBaker
  <2>6. CASE cmd' = [cmd EXCEPT !.pc = "complete", !.failed = TRUE]
    BY <2>6, <1>16 DEF ValidateBaker
  <2> QED
    BY <1>16, <2>1, <2>2, <2>3, <2>4, <2>5, <2>6 DEF ValidateBaker, Answers, BakerStatus
<1>17. CASE WaitForNodeSync
  BY <1>17 DEF WaitForNodeSync
<1>18. CASE HandleBakerRegistration
  <2>1. CASE cmd' = Idle
    BY <2>1, <1>18 DEF HandleBakerRegistration
  <2>2. CASE cmd' = [cmd EXCEPT !.pc = "stake"]
    BY <2>2, <1>18 DEF HandleBakerRegistration
  <2> QED
    BY <1>18, <2>1, <2>2 DEF HandleBakerRegistration
<1>19. CASE CheckAndSetStake
  BY <1>19 DEF CheckAndSetStake, Fault
<1>20. CASE WaitForSigner
  <2>1. CASE cmd' = Idle
    BY <2>1, <1>20 DEF WaitForSigner
  <2>2. CASE plugged # None /\ cmd' = [cmd EXCEPT !.pc = "discover", !.dev = plugged]
    BY <2>2, <1>20 DEF WaitForSigner
  <2> QED
    BY <1>20, <2>1, <2>2 DEF WaitForSigner, Reachable
<1>21. CASE DiscoverKeys
  <2>1. CASE RolesCorrectlyImported = Roles /\ (\A r \in Roles : RoleKeySetOnChain(r, cmd.dev)) /\ cmd' = [cmd EXCEPT !.pc = "validate"]
    BY <2>1, <1>21 DEF DiscoverKeys, RolesCorrectlyImported
  <2>2. CASE cmd' = [cmd EXCEPT !.pc = "import", !.roles = RolesCorrectlyImported, !.todo = Order]
    BY <2>2, <1>21 DEF DiscoverKeys, RolesCorrectlyImported
  <2> QED
    BY <1>21, <2>1, <2>2 DEF DiscoverKeys, Fault, RolesCorrectlyImported
<1>22. CASE ImportKey
  <2> DEFINE r == Head(cmd.todo)
  <2>1. CASE cmd' = Idle
    BY <2>1, <1>22 DEF ImportKey
  <2>2. CASE r \in cmd.roles /\ UNCHANGED wallet /\ cmd' = [cmd EXCEPT !.pc = "set"]
    BY <2>2, <1>22 DEF ImportKey
  <2>3. CASE wallet' = [wallet EXCEPT ![r] = <<cmd.dev, cmd.at>>] /\ cmd' = [cmd EXCEPT !.pc = "set"]
    <3>1. r \in Roles
      BY <1>22, TwoRoles DEF ImportKey, Order
    <3>2. wallet'[r] = <<cmd.dev, cmd.at>> /\ \A q \in Roles : q # r => wallet'[q] = wallet[q]
      BY <2>3, <3>1
    <3>3. cmd.dev \in Devices /\ \A q \in cmd.roles : Imported(q)
      BY <1>22 DEF ImportKey
    <3>4. wallet'[r] # None /\ wallet'[r][1] = cmd.dev /\ wallet'[r][2] = cmd.at
      BY <3>2, <3>3, HostAssumption
    <3>5. cmd'.dev = cmd.dev /\ cmd'.at = cmd.at /\ cmd'.roles = cmd.roles /\ cmd'.todo = cmd.todo /\ cmd'.pc = "set"
      BY <2>3
    <3>6. Imported(r)'
      BY <3>4, <3>5
    <3>7. \A q \in Roles : q # r /\ Imported(q) => Imported(q)'
      BY <3>2, <3>5
    <3>8. ASSUME NEW q \in cmd.roles PROVE Imported(q)'
      <4>1. CASE q = r
        BY <3>4, <3>5, <4>1
      <4>2. CASE q # r
        BY <3>3, <3>7, <4>2
      <4> QED
        BY <4>1, <4>2
    <3>9. cmd.todo = Order \/ (cmd.todo = <<"companion">> /\ r # "consensus" /\ Done("consensus"))
      BY <1>22 DEF ImportKey, Order
    <3>10. UNCHANGED keys
      BY <1>22 DEF ImportKey
    <3>11. cmd.todo # Order => Done("consensus")'
      BY <3>5, <3>7, <3>9, <3>10, TwoRoles
    <3> HIDE DEF Imported, Done
    <3> QED
      BY <3>3, <3>5, <3>6, <3>8, <3>9, <3>11
  <2> QED
    BY <2>1, <2>2, <2>3, <1>22 DEF ImportKey, ImportKeyFromSigner
<1>23. CASE SetKey
  <2> DEFINE r == Head(cmd.todo)
  <2>1. CASE cmd' = Idle
    BY <2>1, <1>23 DEF SetKey
  <2>2. CASE cmd' # Idle
    <3>1. r \in Roles /\ Imported(r) /\ cmd.dev \in Devices
      BY <1>23, TwoRoles DEF SetKey, Order
    <3>2. /\ cmd' = [cmd EXCEPT !.todo = Tail(cmd.todo), !.pc = IF Len(cmd.todo) = 1 THEN "validate" ELSE "import"]
          /\ \/ RoleKeySetOnChain(r, cmd.dev) /\ keys' = keys
             \/ Last(keys[r]) = cmd.dev /\ keys' = keys
             \/ keys' = [keys EXCEPT ![r] = Append(keys[r], cmd.dev)]
          /\ wallet' = wallet
      BY <2>2, <3>1, <1>23 DEF SetKey
    <3>3. cmd.dev \in ToSet(keys'[r]) /\ \A q \in Roles : cmd.dev \in ToSet(keys[q]) => cmd.dev \in ToSet(keys'[q])
      <4> DEFINE s == keys[r]
      <4>1. s \in Seq(Devices \cup {None}) \ {<<>>} /\ DOMAIN keys = Roles
        BY <3>1
      <4> HIDE DEF s, r
      <4>2. /\ Last(s) = cmd.dev => cmd.dev \in ToSet(s)
            /\ cmd.dev \in ToSet(Append(s, cmd.dev))
        BY <3>1, <4>1, ToSetLast
      <4>3. CASE keys' = keys /\ (RoleKeySetOnChain(r, cmd.dev) \/ Last(keys[r]) = cmd.dev)
        BY <3>2, <4>2, <4>3 DEF s
      <4>4. CASE keys' = [keys EXCEPT ![r] = Append(keys[r], cmd.dev)]
        BY <3>1, <4>1, <4>2, <4>4 DEF s
      <4> QED
        BY <3>2, <4>3, <4>4
    <3>4. CASE cmd.todo = Order
      BY <3>1, <3>2, <3>3, <3>4, TwoRoles, <1>23 DEF SetKey, Order
    <3>5. CASE cmd.todo = <<"companion">>
      BY <3>1, <3>2, <3>3, <3>5, TwoRoles, <1>23 DEF SetKey, Order
    <3> QED
      BY <3>4, <3>5, <1>23 DEF SetKey
  <2> QED
    BY <2>1, <2>2
<1>24. CASE ValidateImportedKeys
  <2>1. CASE cmd' = Idle
    BY <2>1, <1>24 DEF ValidateImportedKeys
  <2>2. CASE cmd' = [cmd EXCEPT !.pc = "complete"]
    BY <2>2, <1>24 DEF ValidateImportedKeys
  <2> QED
    BY <1>24, <2>1, <2>2 DEF ValidateImportedKeys
<1>25. CASE ListPresent
  <2>1. CASE cmd' = Idle
    BY <2>1, <1>25 DEF ListPresent, PresentAliases
  <2>2. CASE Present = {} /\ PresentAliases = {} /\ cmd' = [cmd EXCEPT !.pc = "clean"]
    BY <2>2, <1>25 DEF ListPresent, PresentAliases
  <2>3. CASE cmd' = [cmd EXCEPT !.pc = "untouched"]
    BY <2>3, <1>25 DEF ListPresent, PresentAliases
  <2>4. ASSUME NEW known \in BOOLEAN, NEW as \in {PresentAliases, {}},
               cmd' = [cmd EXCEPT !.roles = as, !.failed = ~known, !.pc = IF Present = {} THEN "forget" ELSE "remove"]
        PROVE  KeysInv'
    BY <2>4, <1>25 DEF ListPresent, PresentAliases
  <2> QED
    BY <1>25, <2>1, <2>2, <2>3, <2>4 DEF ListPresent, Fault
<1>26. CASE RemoveConfig
  <2>1. CASE cmd' = [cmd EXCEPT !.pc = "untouched"]
    BY <2>1, <1>26 DEF RemoveConfig
  <2>2. ASSUME NEW b \in BOOLEAN,
               cmd' = [cmd EXCEPT !.failed = b, !.pc = IF cmd.roles = {} THEN "verify" ELSE "forget"]
        PROVE  KeysInv'
    BY <2>2, <1>26 DEF RemoveConfig
  <2> QED
    BY <1>26, <2>1, <2>2 DEF RemoveConfig, Fault
<1>27. CASE RemoveKeys
  <2>1. CASE cmd' = [cmd EXCEPT !.pc = "verify"]
    BY <2>1, <1>27 DEF RemoveKeys
  <2>2. ASSUME NEW b \in BOOLEAN,
               cmd' = [cmd EXCEPT !.failed = b, !.pc = "verify"]
        PROVE  KeysInv'
    BY <2>2, <1>27 DEF RemoveKeys
  <2> QED
    BY <1>27, <2>1, <2>2 DEF RemoveKeys, Fault
<1>28. CASE VerifyPurge
  BY <1>28 DEF VerifyPurge
<1>29. CASE End
  BY <1>29 DEF End, Ended
<1>30. CASE Abort
  BY <1>30 DEF Abort, Fault
<1>31. ASSUME NEW d \in Devices, Plug(d) PROVE KeysInv'
  BY <1>31 DEF Plug
<1>32. CASE Unplug
  BY <1>32 DEF Unplug, Fault
<1>33. CASE Restart
  BY <1>33 DEF Restart
<1>34. CASE Activate
  BY <1>34 DEF Activate
<1>35. CASE WaitForNetworkInterface
  <2>1. CASE cmd' = Idle
    BY <2>1, <1>35 DEF WaitForNetworkInterface
  <2>2. CASE named /\ cmd' = [cmd EXCEPT !.pc = "connect"]
    BY <2>2, <1>35 DEF WaitForNetworkInterface
  <2> QED
    BY <1>35, <2>1, <2>2 DEF WaitForNetworkInterface
<1> QED
  BY <1>1, <1>2, <1>3, <1>4, <1>5, <1>6, <1>7, <1>8, <1>9, <1>10, <1>11, <1>12, <1>13, <1>14, <1>15, <1>16, <1>17, <1>18, <1>19, <1>20, <1>21, <1>22, <1>23, <1>24, <1>25, <1>26, <1>27, <1>28, <1>29, <1>30, <1>31, <1>32, <1>33, <1>34, <1>35
     DEF HostNext, Step, SetupStep, PurgeStep

(* With no fault left, a configuration that is not invalid loads.           *)
LEMMA LoadSure ==
    ASSUME LoadValid, ~Fault, ~Asked, config \in {"absent", "torn", "usb", "lan"}
    PROVE  /\ config' \in {"usb", "lan"} /\ UNCHANGED <<faults, octez, plugged, named, backend, hidden, etc, live, wallet>>
           /\ cmd.pc = "load"
           /\ \E over \in {"usb", "lan"} : cmd' = [cmd EXCEPT !.pc = "hardware", !.at = over, !.sure = cmd.sure /\ ~Deceptive(over)]
<1> USE DEF Loaded, Valid, Unreadable, AutoDetected
<1>1. Loaded # "invalid"
  OBVIOUS
<1>2. PICK over \in Signers \cup {Loaded} :
         /\ OfferToPersist(over, FALSE)
         /\ cmd' = IF config' = "torn" THEN Idle
                   ELSE [cmd EXCEPT !.pc = "hardware", !.at = over, !.sure = cmd.sure /\ ~Deceptive(over)]
  BY <1>1 DEF LoadValid, OfferToPersist
<1>3. config' \in {"usb", "lan"} /\ UNCHANGED faults
  BY <1>2 DEF OfferToPersist, Save
<1>4. over \in {"usb", "lan"}
  BY <1>2, HostAssumption
<1> QED
  BY <1>2, <1>3, <1>4 DEF LoadValid, At

(* Nothing gets in the way of a setup that nothing was in the way of.       *)
LEMMA SureStep ==
    ASSUME IInv, HostNext PROVE SureInv'
<1> USE DEF IInv, NamesOK, CmdInv, SureInv, At, Goto, Asked, Bail, Idle, SetupSteps, PurgeSteps
<1>a. cmd.sure => ~Fault /\ ~Asked
  BY HostAssumption DEF Fault
<1>1. ASSUME NEW mode \in Modes, Setup(mode) PROVE SureInv'
  BY <1>1, <1>a DEF Setup, Start, Unhindered
<1>2. ASSUME NEW mode \in {"ask", "dry"}, Purge(mode) PROVE SureInv'
  BY <1>2, <1>a DEF Purge, Start, Save, Unreadable, AutoDetected
<1>3. CASE ConfigSet
  BY <1>3, <1>a DEF ConfigSet, Start, Save, Unreadable, Loaded, AutoDetected
<1>4. CASE ConfigReset
  BY <1>4, <1>a DEF ConfigReset, Start, Save, AutoDetected
<1>5. CASE LoadValid
  <2>1. CASE cmd.sure
    <3>1. config \in {"absent", "torn", "usb", "lan"}
      BY <2>1
    <3>2. /\ config' \in {"usb", "lan"} /\ UNCHANGED <<faults, octez, plugged, named, backend, hidden, etc, live, wallet>>
          /\ cmd.pc = "load"
          /\ \E over \in {"usb", "lan"} : cmd' = [cmd EXCEPT !.pc = "hardware", !.at = over, !.sure = cmd.sure /\ ~Deceptive(over)]
      BY <1>a, <2>1, <3>1, <1>5, LoadSure
    <3> QED
      BY <2>1, <3>2
  <2>2. CASE ~cmd.sure
    <3>1. ASSUME cmd' = Idle PROVE ~cmd'.sure
      BY <3>1
    <3>2. ASSUME NEW over, cmd' = [cmd EXCEPT !.pc = "hardware", !.at = over, !.sure = cmd.sure /\ ~Deceptive(over)] PROVE ~cmd'.sure
      BY <2>2, <3>2
    <3>3. ~cmd'.sure
      BY <3>1, <3>2, <1>5, LoadForms
    <3> QED
      BY <3>3
  <2> QED
    BY <2>1, <2>2
<1>6. CASE DetectHardware
  <2>1. CASE cmd' = Idle
    BY <2>1, <1>6, <1>a DEF DetectHardware
  <2>2. CASE cmd' = [cmd EXCEPT !.pc = "system"]
    BY <2>2, <1>6, <1>a DEF DetectHardware
  <2> QED
    BY <1>6, <2>1, <2>2 DEF DetectHardware, HardwareFound
<1>7. CASE EnsureOctez
  <2>1. CASE cmd' = Idle
    BY <2>1, <1>7, <1>a DEF EnsureOctez
  <2>2. CASE cmd' = cmd
    BY <2>2, <1>7, <1>a DEF EnsureOctez
  <2> QED
    BY <1>7, <2>1, <2>2 DEF EnsureOctez, InstallOctezStatic
<1>8. CASE VerifySystem
  BY <1>8, <1>a DEF VerifySystem
<1>9. CASE ConfigureNetwork
  <2>1. CASE cmd' = Idle
    BY <2>1, <1>9, <1>a DEF ConfigureNetwork
  <2>2. CASE (cmd.mode = "yes" => cmd.at = "lan" \/ Outdated = <<>>) /\ cmd' = [cmd EXCEPT !.pc = "baker"]
    BY <2>2, <1>9, <1>a DEF ConfigureNetwork
  <2>3. CASE cmd.at # "lan" /\ cmd' = [cmd EXCEPT !.pc = "backup", !.todo = Outdated, !.changed = {Service(f) : f \in ToSet(Outdated)}]
    BY <2>3, <1>9, <1>a DEF ConfigureNetwork
  <2> QED
    BY <1>9, <2>1, <2>2, <2>3 DEF ConfigureNetwork, Answers
<1>10. CASE BackupFile
  BY <1>10, <1>a DEF BackupFile
<1>11. CASE MoveFile
  BY <1>11, <1>a DEF MoveFile
<1>12. CASE SetMode
  BY <1>12, <1>a DEF SetMode
<1>13. CASE ReloadNetwork
  BY <1>13, <1>a DEF ReloadNetwork
<1>14. CASE ReloadUdevRules
  <2>1. CASE cmd' = [cmd EXCEPT !.pc = "wait"]
    BY <2>1, <1>14, <1>a DEF ReloadUdevRules
  <2>2. CASE cmd' = [cmd EXCEPT !.pc = "connect"]
    BY <2>2, <1>14, <1>a DEF ReloadUdevRules
  <2> QED
    BY <1>14, <2>1, <2>2 DEF ReloadUdevRules
<1>15. CASE ValidateConnectivity
  <2>1. CASE cmd' = Idle
    BY <2>1, <1>15, <1>a DEF ValidateConnectivity
  <2>2. CASE cmd' = [cmd EXCEPT !.pc = "baker"]
    BY <2>2, <1>15, <1>a DEF ValidateConnectivity
  <2> QED
    BY <1>15, <2>1, <2>2 DEF ValidateConnectivity
<1>16. CASE ValidateBaker
  <2>1. CASE cmd' = Idle
    BY <2>1, <1>16, <1>a DEF ValidateBaker
  <2>2. CASE cmd.mode = "dry" /\ cmd' = [cmd EXCEPT !.pc = "complete"]
    BY <2>2, <1>16, <1>a DEF ValidateBaker
  <2>3. CASE baker.reg = "active" /\ cmd' = [cmd EXCEPT !.pc = "signer"]
    BY <2>3, <1>16, <1>a DEF ValidateBaker
  <2>4. CASE cmd' = [cmd EXCEPT !.pc = "sync", !.seen = baker]
    BY <2>4, <1>16, <1>a DEF ValidateBaker
  <2>5. CASE cmd' = [cmd EXCEPT !.pc = "register", !.seen = baker]
    BY <2>5, <1>16, <1>a DEF ValidateBaker
  <2>6. CASE cmd' = [cmd EXCEPT !.pc = "complete", !.failed = TRUE]
    BY <2>6, <1>16, <1>a DEF ValidateBaker
  <2> QED
    BY <1>16, <2>1, <2>2, <2>3, <2>4, <2>5, <2>6 DEF ValidateBaker, Answers, BakerStatus
<1>17. CASE WaitForNodeSync
  BY <1>17, <1>a DEF WaitForNodeSync
<1>18. CASE HandleBakerRegistration
  <2>1. CASE cmd' = Idle
    BY <2>1, <1>18, <1>a DEF HandleBakerRegistration
  <2>2. CASE cmd' = [cmd EXCEPT !.pc = "stake"]
    BY <2>2, <1>18, <1>a DEF HandleBakerRegistration
  <2> QED
    BY <1>18, <2>1, <2>2 DEF HandleBakerRegistration
<1>19. CASE CheckAndSetStake
  BY <1>19, <1>a DEF CheckAndSetStake
<1>20. CASE WaitForSigner
  <2>1. CASE cmd' = Idle
    BY <2>1, <1>20, <1>a DEF WaitForSigner
  <2>2. CASE plugged # None /\ cmd' = [cmd EXCEPT !.pc = "discover", !.dev = plugged]
    BY <2>2, <1>20, <1>a DEF WaitForSigner
  <2> QED
    BY <1>20, <2>1, <2>2 DEF WaitForSigner, Reachable
<1>21. CASE DiscoverKeys
  <2>1. CASE RolesCorrectlyImported = Roles /\ (\A r \in Roles : RoleKeySetOnChain(r, cmd.dev)) /\ cmd' = [cmd EXCEPT !.pc = "validate"]
    BY <2>1, <1>21, <1>a DEF DiscoverKeys, RolesCorrectlyImported
  <2>2. CASE cmd' = [cmd EXCEPT !.pc = "import", !.roles = RolesCorrectlyImported, !.todo = Order]
    BY <2>2, <1>21, <1>a DEF DiscoverKeys, RolesCorrectlyImported
  <2> QED
    BY <1>21, <2>1, <2>2 DEF DiscoverKeys, RolesCorrectlyImported
<1>22. CASE ImportKey
  <2>1. CASE cmd' = Idle
    BY <2>1, <1>22, <1>a DEF ImportKey
  <2>2. CASE cmd' = [cmd EXCEPT !.pc = "set"]
    BY <2>2, <1>22, <1>a DEF ImportKey
  <2> QED
    BY <1>22, <2>1, <2>2 DEF ImportKey, ImportKeyFromSigner
<1>23. CASE SetKey
  <2>1. CASE cmd' = Idle
    BY <2>1, <1>23, <1>a DEF SetKey
  <2>2. CASE cmd' = [cmd EXCEPT !.todo = Tail(@), !.pc = "validate"]
    BY <2>2, <1>23, <1>a DEF SetKey
  <2>3. CASE cmd' = [cmd EXCEPT !.todo = Tail(@), !.pc = "import"]
    BY <2>3, <1>23, <1>a DEF SetKey
  <2> QED
    BY <1>23, <2>1, <2>2, <2>3 DEF SetKey
<1>24. CASE ValidateImportedKeys
  <2>1. CASE cmd' = Idle
    BY <2>1, <1>24, <1>a DEF ValidateImportedKeys
  <2>2. CASE cmd' = [cmd EXCEPT !.pc = "complete"]
    BY <2>2, <1>24, <1>a DEF ValidateImportedKeys
  <2> QED
    BY <1>24, <2>1, <2>2 DEF ValidateImportedKeys
<1>25. CASE ListPresent
  <2>1. CASE cmd' = Idle
    BY <2>1, <1>25, <1>a DEF ListPresent, PresentAliases
  <2>2. CASE Present = {} /\ PresentAliases = {} /\ cmd' = [cmd EXCEPT !.pc = "clean"]
    BY <2>2, <1>25, <1>a DEF ListPresent, PresentAliases
  <2>3. CASE cmd' = [cmd EXCEPT !.pc = "untouched"]
    BY <2>3, <1>25, <1>a DEF ListPresent, PresentAliases
  <2>4. ASSUME NEW known \in BOOLEAN, NEW as \in {PresentAliases, {}},
               cmd' = [cmd EXCEPT !.roles = as, !.failed = ~known, !.pc = IF Present = {} THEN "forget" ELSE "remove"]
        PROVE  SureInv'
    BY <2>4, <1>25, <1>a DEF ListPresent, PresentAliases
  <2> QED
    BY <1>25, <2>1, <2>2, <2>3, <2>4 DEF ListPresent
<1>26. CASE RemoveConfig
  <2>1. CASE cmd' = [cmd EXCEPT !.pc = "untouched"]
    BY <2>1, <1>26, <1>a DEF RemoveConfig
  <2>2. ASSUME NEW b \in BOOLEAN,
               cmd' = [cmd EXCEPT !.failed = b, !.pc = IF cmd.roles = {} THEN "verify" ELSE "forget"]
        PROVE  SureInv'
    BY <2>2, <1>26, <1>a DEF RemoveConfig
  <2> QED
    BY <1>26, <2>1, <2>2 DEF RemoveConfig
<1>27. CASE RemoveKeys
  <2>1. CASE cmd' = [cmd EXCEPT !.pc = "verify"]
    BY <2>1, <1>27, <1>a DEF RemoveKeys
  <2>2. ASSUME NEW b \in BOOLEAN,
               cmd' = [cmd EXCEPT !.failed = b, !.pc = "verify"]
        PROVE  SureInv'
    BY <2>2, <1>27, <1>a DEF RemoveKeys
  <2> QED
    BY <1>27, <2>1, <2>2 DEF RemoveKeys
<1>28. CASE VerifyPurge
  BY <1>28, <1>a DEF VerifyPurge
<1>29. CASE End
  BY <1>29, <1>a DEF End, Ended
<1>30. CASE Abort
  BY <1>30, <1>a DEF Abort
<1>31. ASSUME NEW d \in Devices, Plug(d) PROVE SureInv'
  BY <1>31, <1>a DEF Plug
<1>32. CASE Unplug
  BY <1>32, <1>a DEF Unplug
<1>33. CASE Restart
  BY <1>33, <1>a DEF Restart
<1>34. CASE Activate
  BY <1>34, <1>a DEF Activate
<1>35. CASE WaitForNetworkInterface
  <2>1. CASE cmd' = Idle
    BY <2>1, <1>35, <1>a DEF WaitForNetworkInterface
  <2>2. CASE named /\ cmd' = [cmd EXCEPT !.pc = "connect"]
    BY <2>2, <1>35, <1>a DEF WaitForNetworkInterface
  <2> QED
    BY <1>35, <2>1, <2>2 DEF WaitForNetworkInterface
<1> QED
  BY <1>1, <1>2, <1>3, <1>4, <1>5, <1>6, <1>7, <1>8, <1>9, <1>10, <1>11, <1>12, <1>13, <1>14, <1>15, <1>16, <1>17, <1>18, <1>19, <1>20, <1>21, <1>22, <1>23, <1>24, <1>25, <1>26, <1>27, <1>28, <1>29, <1>30, <1>31, <1>32, <1>33, <1>34, <1>35
     DEF HostNext, Step, SetupStep, PurgeStep

(* No alias that passes for another appears in a setup without one.         *)
LEMMA PlainStep ==
    ASSUME IInv, HostNext PROVE PlainInv'
<1> USE DEF IInv, NamesOK, CmdInv, SureInv, PlainInv, Deceptive, Names, WalletOK, At, Goto, Asked, Bail, Idle, SetupSteps, PurgeSteps
<1>a. cmd.sure => ~Fault /\ ~Asked
  BY HostAssumption DEF Fault
<1>1. ASSUME NEW mode \in Modes, Setup(mode) PROVE PlainInv'
  BY <1>1, <1>a DEF Setup, Start, Unhindered
<1>2. ASSUME NEW mode \in {"ask", "dry"}, Purge(mode) PROVE PlainInv'
  BY <1>2, <1>a DEF Purge, Start, Save, Unreadable, AutoDetected
<1>3. CASE ConfigSet
  BY <1>3, <1>a DEF ConfigSet, Start, Save, Unreadable, Loaded, AutoDetected
<1>4. CASE ConfigReset
  BY <1>4, <1>a DEF ConfigReset, Start, Save, AutoDetected
<1>5. CASE LoadValid
  <2>1. CASE cmd.sure
    <3>1. config \in {"absent", "torn", "usb", "lan"}
      BY <2>1
    <3>2. /\ config' \in {"usb", "lan"} /\ UNCHANGED <<faults, octez, plugged, named, backend, hidden, etc, live, wallet>>
          /\ cmd.pc = "load"
          /\ \E over \in {"usb", "lan"} : cmd' = [cmd EXCEPT !.pc = "hardware", !.at = over, !.sure = cmd.sure /\ ~Deceptive(over)]
      BY <1>a, <2>1, <3>1, <1>5, LoadSure
    <3> QED
      BY <2>1, <3>2
  <2>2. CASE ~cmd.sure
    <3>1. ASSUME cmd' = Idle PROVE ~cmd'.sure
      BY <3>1
    <3>2. ASSUME NEW over, cmd' = [cmd EXCEPT !.pc = "hardware", !.at = over, !.sure = cmd.sure /\ ~Deceptive(over)] PROVE ~cmd'.sure
      BY <2>2, <3>2
    <3>3. ~cmd'.sure
      BY <3>1, <3>2, <1>5, LoadForms
    <3> QED
      BY <3>3
  <2> QED
    BY <2>1, <2>2
<1>6. CASE DetectHardware
  <2>1. CASE cmd' = Idle
    BY <2>1, <1>6, <1>a DEF DetectHardware
  <2>2. CASE cmd' = [cmd EXCEPT !.pc = "system"]
    BY <2>2, <1>6, <1>a DEF DetectHardware
  <2> QED
    BY <1>6, <2>1, <2>2 DEF DetectHardware, HardwareFound
<1>7. CASE EnsureOctez
  <2>1. CASE cmd' = Idle
    BY <2>1, <1>7, <1>a DEF EnsureOctez
  <2>2. CASE cmd' = cmd
    BY <2>2, <1>7, <1>a DEF EnsureOctez
  <2> QED
    BY <1>7, <2>1, <2>2 DEF EnsureOctez, InstallOctezStatic
<1>8. CASE VerifySystem
  BY <1>8, <1>a DEF VerifySystem
<1>9. CASE ConfigureNetwork
  <2>1. CASE cmd' = Idle
    BY <2>1, <1>9, <1>a DEF ConfigureNetwork
  <2>2. CASE (cmd.mode = "yes" => cmd.at = "lan" \/ Outdated = <<>>) /\ cmd' = [cmd EXCEPT !.pc = "baker"]
    BY <2>2, <1>9, <1>a DEF ConfigureNetwork
  <2>3. CASE cmd.at # "lan" /\ cmd' = [cmd EXCEPT !.pc = "backup", !.todo = Outdated, !.changed = {Service(f) : f \in ToSet(Outdated)}]
    BY <2>3, <1>9, <1>a DEF ConfigureNetwork
  <2> QED
    BY <1>9, <2>1, <2>2, <2>3 DEF ConfigureNetwork, Answers
<1>10. CASE BackupFile
  BY <1>10, <1>a DEF BackupFile
<1>11. CASE MoveFile
  BY <1>11, <1>a DEF MoveFile
<1>12. CASE SetMode
  BY <1>12, <1>a DEF SetMode
<1>13. CASE ReloadNetwork
  BY <1>13, <1>a DEF ReloadNetwork
<1>14. CASE ReloadUdevRules
  <2>1. CASE cmd' = [cmd EXCEPT !.pc = "wait"]
    BY <2>1, <1>14, <1>a DEF ReloadUdevRules
  <2>2. CASE cmd' = [cmd EXCEPT !.pc = "connect"]
    BY <2>2, <1>14, <1>a DEF ReloadUdevRules
  <2> QED
    BY <1>14, <2>1, <2>2 DEF ReloadUdevRules
<1>15. CASE ValidateConnectivity
  <2>1. CASE cmd' = Idle
    BY <2>1, <1>15, <1>a DEF ValidateConnectivity
  <2>2. CASE cmd' = [cmd EXCEPT !.pc = "baker"]
    BY <2>2, <1>15, <1>a DEF ValidateConnectivity
  <2> QED
    BY <1>15, <2>1, <2>2 DEF ValidateConnectivity
<1>16. CASE ValidateBaker
  <2>1. CASE cmd' = Idle
    BY <2>1, <1>16, <1>a DEF ValidateBaker
  <2>2. CASE cmd.mode = "dry" /\ cmd' = [cmd EXCEPT !.pc = "complete"]
    BY <2>2, <1>16, <1>a DEF ValidateBaker
  <2>3. CASE baker.reg = "active" /\ cmd' = [cmd EXCEPT !.pc = "signer"]
    BY <2>3, <1>16, <1>a DEF ValidateBaker
  <2>4. CASE cmd' = [cmd EXCEPT !.pc = "sync", !.seen = baker]
    BY <2>4, <1>16, <1>a DEF ValidateBaker
  <2>5. CASE cmd' = [cmd EXCEPT !.pc = "register", !.seen = baker]
    BY <2>5, <1>16, <1>a DEF ValidateBaker
  <2>6. CASE cmd' = [cmd EXCEPT !.pc = "complete", !.failed = TRUE]
    BY <2>6, <1>16, <1>a DEF ValidateBaker
  <2> QED
    BY <1>16, <2>1, <2>2, <2>3, <2>4, <2>5, <2>6 DEF ValidateBaker, Answers, BakerStatus
<1>17. CASE WaitForNodeSync
  BY <1>17, <1>a DEF WaitForNodeSync
<1>18. CASE HandleBakerRegistration
  <2>1. CASE cmd' = Idle
    BY <2>1, <1>18, <1>a DEF HandleBakerRegistration
  <2>2. CASE cmd' = [cmd EXCEPT !.pc = "stake"]
    BY <2>2, <1>18, <1>a DEF HandleBakerRegistration
  <2> QED
    BY <1>18, <2>1, <2>2 DEF HandleBakerRegistration
<1>19. CASE CheckAndSetStake
  BY <1>19, <1>a DEF CheckAndSetStake
<1>20. CASE WaitForSigner
  <2>1. CASE cmd' = Idle
    BY <2>1, <1>20, <1>a DEF WaitForSigner
  <2>2. CASE plugged # None /\ cmd' = [cmd EXCEPT !.pc = "discover", !.dev = plugged]
    BY <2>2, <1>20, <1>a DEF WaitForSigner
  <2> QED
    BY <1>20, <2>1, <2>2 DEF WaitForSigner, Reachable
<1>21. CASE DiscoverKeys
  <2>1. CASE RolesCorrectlyImported = Roles /\ (\A r \in Roles : RoleKeySetOnChain(r, cmd.dev)) /\ cmd' = [cmd EXCEPT !.pc = "validate"]
    BY <2>1, <1>21, <1>a DEF DiscoverKeys, RolesCorrectlyImported
  <2>2. CASE cmd' = [cmd EXCEPT !.pc = "import", !.roles = RolesCorrectlyImported, !.todo = Order]
    BY <2>2, <1>21, <1>a DEF DiscoverKeys, RolesCorrectlyImported
  <2> QED
    BY <1>21, <2>1, <2>2 DEF DiscoverKeys, RolesCorrectlyImported
<1>22. CASE ImportKey
  <2>1. CASE cmd' = Idle
    BY <2>1, <1>22, <1>a DEF ImportKey
  <2>2. CASE cmd' = [cmd EXCEPT !.pc = "set"] /\ UNCHANGED wallet
    BY <2>2, <1>22, <1>a DEF ImportKey
  <2>3. CASE cmd' = [cmd EXCEPT !.pc = "set"] /\ \E r \in Roles : wallet' = [wallet EXCEPT ![r] = <<cmd.dev, cmd.at>>]
    <3>1. PICK r \in Roles : wallet' = [wallet EXCEPT ![r] = <<cmd.dev, cmd.at>>]
      BY <2>3
    <3>2. wallet'[r][2] = cmd.at /\ \A q \in Roles : q # r => wallet'[q] = wallet[q]
      BY <3>1
    <3>3. cmd'.at = cmd.at /\ cmd'.sure = cmd.sure /\ cmd.pc # "load"
      BY <2>3, <1>22 DEF ImportKey
    <3> QED
      BY <3>2, <3>3
  <2>4. Head(cmd.todo) \in Roles
    BY <1>22, TwoRoles DEF ImportKey, KeysInv, Order
  <2> QED
    BY <1>22, <2>1, <2>2, <2>3, <2>4 DEF ImportKey, ImportKeyFromSigner
<1>23. CASE SetKey
  <2>1. CASE cmd' = Idle
    BY <2>1, <1>23, <1>a DEF SetKey
  <2>2. CASE cmd' = [cmd EXCEPT !.todo = Tail(@), !.pc = "validate"]
    BY <2>2, <1>23, <1>a DEF SetKey
  <2>3. CASE cmd' = [cmd EXCEPT !.todo = Tail(@), !.pc = "import"]
    BY <2>3, <1>23, <1>a DEF SetKey
  <2> QED
    BY <1>23, <2>1, <2>2, <2>3 DEF SetKey
<1>24. CASE ValidateImportedKeys
  <2>1. CASE cmd' = Idle
    BY <2>1, <1>24, <1>a DEF ValidateImportedKeys
  <2>2. CASE cmd' = [cmd EXCEPT !.pc = "complete"]
    BY <2>2, <1>24, <1>a DEF ValidateImportedKeys
  <2> QED
    BY <1>24, <2>1, <2>2 DEF ValidateImportedKeys
<1>25. CASE ListPresent
  <2>1. CASE cmd' = Idle
    BY <2>1, <1>25, <1>a DEF ListPresent, PresentAliases
  <2>2. CASE Present = {} /\ PresentAliases = {} /\ cmd' = [cmd EXCEPT !.pc = "clean"]
    BY <2>2, <1>25, <1>a DEF ListPresent, PresentAliases
  <2>3. CASE cmd' = [cmd EXCEPT !.pc = "untouched"]
    BY <2>3, <1>25, <1>a DEF ListPresent, PresentAliases
  <2>4. ASSUME NEW known \in BOOLEAN, NEW as \in {PresentAliases, {}},
               cmd' = [cmd EXCEPT !.roles = as, !.failed = ~known, !.pc = IF Present = {} THEN "forget" ELSE "remove"]
        PROVE  PlainInv'
    BY <2>4, <1>25, <1>a DEF ListPresent, PresentAliases
  <2> QED
    BY <1>25, <2>1, <2>2, <2>3, <2>4 DEF ListPresent
<1>26. CASE RemoveConfig
  <2>1. CASE cmd' = [cmd EXCEPT !.pc = "untouched"]
    BY <2>1, <1>26, <1>a DEF RemoveConfig
  <2>2. ASSUME NEW b \in BOOLEAN,
               cmd' = [cmd EXCEPT !.failed = b, !.pc = IF cmd.roles = {} THEN "verify" ELSE "forget"]
        PROVE  PlainInv'
    BY <2>2, <1>26, <1>a DEF RemoveConfig
  <2> QED
    BY <1>26, <2>1, <2>2 DEF RemoveConfig
<1>27. CASE RemoveKeys
  <2>1. CASE cmd' = [cmd EXCEPT !.pc = "verify"]
    BY <2>1, <1>27, <1>a DEF RemoveKeys
  <2>2. ASSUME NEW b \in BOOLEAN,
               cmd' = [cmd EXCEPT !.failed = b, !.pc = "verify"]
        PROVE  PlainInv'
    BY <2>2, <1>27, <1>a DEF RemoveKeys
  <2> QED
    BY <1>27, <2>1, <2>2 DEF RemoveKeys
<1>28. CASE VerifyPurge
  BY <1>28, <1>a DEF VerifyPurge
<1>29. CASE End
  BY <1>29, <1>a DEF End, Ended
<1>30. CASE Abort
  BY <1>30, <1>a DEF Abort
<1>31. ASSUME NEW d \in Devices, Plug(d) PROVE PlainInv'
  BY <1>31, <1>a DEF Plug
<1>32. CASE Unplug
  BY <1>32, <1>a DEF Unplug
<1>33. CASE Restart
  BY <1>33, <1>a DEF Restart
<1>34. CASE Activate
  BY <1>34, <1>a DEF Activate
<1>35. CASE WaitForNetworkInterface
  <2>1. CASE cmd' = Idle
    BY <2>1, <1>35, <1>a DEF WaitForNetworkInterface
  <2>2. CASE named /\ cmd' = [cmd EXCEPT !.pc = "connect"]
    BY <2>2, <1>35, <1>a DEF WaitForNetworkInterface
  <2> QED
    BY <1>35, <2>1, <2>2 DEF WaitForNetworkInterface
<1> QED
  BY <1>1, <1>2, <1>3, <1>4, <1>5, <1>6, <1>7, <1>8, <1>9, <1>10, <1>11, <1>12, <1>13, <1>14, <1>15, <1>16, <1>17, <1>18, <1>19, <1>20, <1>21, <1>22, <1>23, <1>24, <1>25, <1>26, <1>27, <1>28, <1>29, <1>30, <1>31, <1>32, <1>33, <1>34, <1>35
     DEF HostNext, Step, SetupStep, PurgeStep

(* Before the network nothing changes that setup counts on.                  *)
LEMMA ReadyStep ==
    ASSUME IInv, HostNext PROVE ReadyInv'
<1> USE DEF IInv, NamesOK, CmdInv, SureInv, At, Goto, Asked, Bail, Idle, ReadyInv
<1>a. cmd.sure => ~Fault /\ ~Asked
  BY HostAssumption DEF Fault
<1>b. UNCHANGED <<etc, backend, hidden>> => Outdated' = Outdated
  BY DEF Outdated, IfOutdated, FileNeedsUpdate
<1>1. ASSUME NEW mode \in Modes, Setup(mode) PROVE ReadyInv'
  BY <1>1, <1>a, <1>b, ZenonT(60) DEF Setup, Start, Unhindered
<1>2. ASSUME NEW mode \in {"ask", "dry"}, Purge(mode) PROVE ReadyInv'
  BY <1>2, <1>a, <1>b DEF Purge, Start, Save, Unreadable, AutoDetected
<1>3. CASE ConfigSet
  BY <1>3, <1>a, <1>b DEF ConfigSet, Start, Save, Unreadable, Loaded, AutoDetected
<1>4. CASE ConfigReset
  BY <1>4, <1>a, <1>b DEF ConfigReset, Start, Save, AutoDetected
<1>5. CASE LoadValid
  <2>1. CASE cmd.sure
    <3>1. config \in {"absent", "torn", "usb", "lan"}
      BY <2>1
    <3>2. /\ config' \in {"usb", "lan"} /\ UNCHANGED <<faults, octez, plugged, named, backend, hidden, etc, live, wallet>>
          /\ cmd.pc = "load"
          /\ \E over \in {"usb", "lan"} : cmd' = [cmd EXCEPT !.pc = "hardware", !.at = over, !.sure = cmd.sure /\ ~Deceptive(over)]
      BY <1>a, <2>1, <3>1, <1>5, LoadSure
    <3> QED
      BY <2>1, <3>2, <1>b
  <2>2. CASE ~cmd.sure
    <3>1. ASSUME cmd' = Idle PROVE ~cmd'.sure
      BY <3>1
    <3>2. ASSUME NEW over, cmd' = [cmd EXCEPT !.pc = "hardware", !.at = over, !.sure = cmd.sure /\ ~Deceptive(over)] PROVE ~cmd'.sure
      BY <2>2, <3>2
    <3>3. ~cmd'.sure
      BY <3>1, <3>2, <1>5, LoadForms
    <3> QED
      BY <3>3
  <2> QED
    BY <2>1, <2>2
<1>6. CASE DetectHardware
  <2>1. CASE cmd' = Idle
    BY <2>1, <1>6, <1>a, <1>b DEF DetectHardware
  <2>2. CASE cmd' = [cmd EXCEPT !.pc = "system"]
    BY <2>2, <1>6, <1>a, <1>b DEF DetectHardware
  <2> QED
    BY <1>6, <2>1, <2>2 DEF DetectHardware, HardwareFound
<1>7. CASE EnsureOctez
  <2>1. CASE cmd' = Idle
    BY <2>1, <1>7, <1>a, <1>b DEF EnsureOctez
  <2>2. CASE cmd' = cmd
    BY <2>2, <1>7, <1>a, <1>b DEF EnsureOctez
  <2> QED
    BY <1>7, <2>1, <2>2 DEF EnsureOctez, InstallOctezStatic
<1>8. CASE VerifySystem
  BY <1>8, <1>a, <1>b DEF VerifySystem
<1>9. CASE ConfigureNetwork
  <2>1. CASE cmd' = Idle
    BY <2>1, <1>9, <1>a, <1>b DEF ConfigureNetwork
  <2>2. CASE (cmd.mode = "yes" => cmd.at = "lan" \/ Outdated = <<>>) /\ cmd' = [cmd EXCEPT !.pc = "baker"]
    BY <2>2, <1>9, <1>a, <1>b DEF ConfigureNetwork
  <2>3. CASE cmd.at # "lan" /\ cmd' = [cmd EXCEPT !.pc = "backup", !.todo = Outdated, !.changed = {Service(f) : f \in ToSet(Outdated)}]
    BY <2>3, <1>9, <1>a, <1>b DEF ConfigureNetwork
  <2> QED
    BY <1>9, <2>1, <2>2, <2>3 DEF ConfigureNetwork, Answers
<1>10. CASE BackupFile
  BY <1>10, <1>a, <1>b DEF BackupFile
<1>11. CASE MoveFile
  BY <1>11, <1>a, <1>b DEF MoveFile
<1>12. CASE SetMode
  BY <1>12, <1>a, <1>b DEF SetMode
<1>13. CASE ReloadNetwork
  BY <1>13, <1>a, <1>b DEF ReloadNetwork
<1>14. CASE ReloadUdevRules
  <2>1. CASE cmd' = [cmd EXCEPT !.pc = "wait"]
    BY <2>1, <1>14, <1>a, <1>b DEF ReloadUdevRules
  <2>2. CASE cmd' = [cmd EXCEPT !.pc = "connect"]
    BY <2>2, <1>14, <1>a, <1>b DEF ReloadUdevRules
  <2> QED
    BY <1>14, <2>1, <2>2 DEF ReloadUdevRules
<1>15. CASE ValidateConnectivity
  <2>1. CASE cmd' = Idle
    BY <2>1, <1>15, <1>a, <1>b DEF ValidateConnectivity
  <2>2. CASE cmd' = [cmd EXCEPT !.pc = "baker"]
    BY <2>2, <1>15, <1>a, <1>b DEF ValidateConnectivity
  <2> QED
    BY <1>15, <2>1, <2>2 DEF ValidateConnectivity
<1>16. CASE ValidateBaker
  <2>1. CASE cmd' = Idle
    BY <2>1, <1>16, <1>a, <1>b DEF ValidateBaker
  <2>2. CASE cmd.mode = "dry" /\ cmd' = [cmd EXCEPT !.pc = "complete"]
    BY <2>2, <1>16, <1>a, <1>b DEF ValidateBaker
  <2>3. CASE baker.reg = "active" /\ cmd' = [cmd EXCEPT !.pc = "signer"]
    BY <2>3, <1>16, <1>a, <1>b DEF ValidateBaker
  <2>4. CASE cmd' = [cmd EXCEPT !.pc = "sync", !.seen = baker]
    BY <2>4, <1>16, <1>a, <1>b DEF ValidateBaker
  <2>5. CASE cmd' = [cmd EXCEPT !.pc = "register", !.seen = baker]
    BY <2>5, <1>16, <1>a, <1>b DEF ValidateBaker
  <2>6. CASE cmd' = [cmd EXCEPT !.pc = "complete", !.failed = TRUE]
    BY <2>6, <1>16, <1>a, <1>b DEF ValidateBaker
  <2> QED
    BY <1>16, <2>1, <2>2, <2>3, <2>4, <2>5, <2>6 DEF ValidateBaker, Answers, BakerStatus
<1>17. CASE WaitForNodeSync
  BY <1>17, <1>a, <1>b DEF WaitForNodeSync
<1>18. CASE HandleBakerRegistration
  <2>1. CASE cmd' = Idle
    BY <2>1, <1>18, <1>a, <1>b DEF HandleBakerRegistration
  <2>2. CASE cmd' = [cmd EXCEPT !.pc = "stake"]
    BY <2>2, <1>18, <1>a, <1>b DEF HandleBakerRegistration
  <2> QED
    BY <1>18, <2>1, <2>2 DEF HandleBakerRegistration
<1>19. CASE CheckAndSetStake
  BY <1>19, <1>a, <1>b DEF CheckAndSetStake
<1>20. CASE WaitForSigner
  <2>1. CASE cmd' = Idle
    BY <2>1, <1>20, <1>a, <1>b DEF WaitForSigner
  <2>2. CASE plugged # None /\ cmd' = [cmd EXCEPT !.pc = "discover", !.dev = plugged]
    BY <2>2, <1>20, <1>a, <1>b DEF WaitForSigner
  <2> QED
    BY <1>20, <2>1, <2>2 DEF WaitForSigner, Reachable
<1>21. CASE DiscoverKeys
  <2>1. CASE RolesCorrectlyImported = Roles /\ (\A r \in Roles : RoleKeySetOnChain(r, cmd.dev)) /\ cmd' = [cmd EXCEPT !.pc = "validate"]
    BY <2>1, <1>21, <1>a, <1>b DEF DiscoverKeys, RolesCorrectlyImported
  <2>2. CASE cmd' = [cmd EXCEPT !.pc = "import", !.roles = RolesCorrectlyImported, !.todo = Order]
    BY <2>2, <1>21, <1>a, <1>b DEF DiscoverKeys, RolesCorrectlyImported
  <2> QED
    BY <1>21, <2>1, <2>2 DEF DiscoverKeys, RolesCorrectlyImported
<1>22. CASE ImportKey
  <2>1. CASE cmd' = Idle
    BY <2>1, <1>22, <1>a, <1>b DEF ImportKey
  <2>2. CASE cmd' = [cmd EXCEPT !.pc = "set"]
    BY <2>2, <1>22, <1>a, <1>b DEF ImportKey
  <2> QED
    BY <1>22, <2>1, <2>2 DEF ImportKey, ImportKeyFromSigner
<1>23. CASE SetKey
  <2>1. CASE cmd' = Idle
    BY <2>1, <1>23, <1>a, <1>b DEF SetKey
  <2>2. CASE cmd' = [cmd EXCEPT !.todo = Tail(@), !.pc = "validate"]
    BY <2>2, <1>23, <1>a, <1>b DEF SetKey
  <2>3. CASE cmd' = [cmd EXCEPT !.todo = Tail(@), !.pc = "import"]
    BY <2>3, <1>23, <1>a, <1>b DEF SetKey
  <2> QED
    BY <1>23, <2>1, <2>2, <2>3 DEF SetKey
<1>24. CASE ValidateImportedKeys
  <2>1. CASE cmd' = Idle
    BY <2>1, <1>24, <1>a, <1>b DEF ValidateImportedKeys
  <2>2. CASE cmd' = [cmd EXCEPT !.pc = "complete"]
    BY <2>2, <1>24, <1>a, <1>b DEF ValidateImportedKeys
  <2> QED
    BY <1>24, <2>1, <2>2 DEF ValidateImportedKeys
<1>25. CASE ListPresent
  <2>1. CASE cmd' = Idle
    BY <2>1, <1>25, <1>a, <1>b DEF ListPresent, PresentAliases
  <2>2. CASE Present = {} /\ PresentAliases = {} /\ cmd' = [cmd EXCEPT !.pc = "clean"]
    BY <2>2, <1>25, <1>a, <1>b DEF ListPresent, PresentAliases
  <2>3. CASE cmd' = [cmd EXCEPT !.pc = "untouched"]
    BY <2>3, <1>25, <1>a, <1>b DEF ListPresent, PresentAliases
  <2>4. ASSUME NEW known \in BOOLEAN, NEW as \in {PresentAliases, {}},
               cmd' = [cmd EXCEPT !.roles = as, !.failed = ~known, !.pc = IF Present = {} THEN "forget" ELSE "remove"]
        PROVE  ReadyInv'
    BY <2>4, <1>25, <1>a, <1>b DEF ListPresent, PresentAliases
  <2> QED
    BY <1>25, <2>1, <2>2, <2>3, <2>4 DEF ListPresent
<1>26. CASE RemoveConfig
  <2>1. CASE cmd' = [cmd EXCEPT !.pc = "untouched"]
    BY <2>1, <1>26, <1>a, <1>b DEF RemoveConfig
  <2>2. ASSUME NEW b \in BOOLEAN,
               cmd' = [cmd EXCEPT !.failed = b, !.pc = IF cmd.roles = {} THEN "verify" ELSE "forget"]
        PROVE  ReadyInv'
    BY <2>2, <1>26, <1>a, <1>b DEF RemoveConfig
  <2> QED
    BY <1>26, <2>1, <2>2 DEF RemoveConfig
<1>27. CASE RemoveKeys
  <2>1. CASE cmd' = [cmd EXCEPT !.pc = "verify"]
    BY <2>1, <1>27, <1>a, <1>b DEF RemoveKeys
  <2>2. ASSUME NEW b \in BOOLEAN,
               cmd' = [cmd EXCEPT !.failed = b, !.pc = "verify"]
        PROVE  ReadyInv'
    BY <2>2, <1>27, <1>a, <1>b DEF RemoveKeys
  <2> QED
    BY <1>27, <2>1, <2>2 DEF RemoveKeys
<1>28. CASE VerifyPurge
  BY <1>28, <1>a, <1>b DEF VerifyPurge
<1>29. CASE End
  BY <1>29, <1>a, <1>b DEF End, Ended
<1>30. CASE Abort
  BY <1>30, <1>a, <1>b DEF Abort
<1>31. ASSUME NEW d \in Devices, Plug(d) PROVE ReadyInv'
  BY <1>31, <1>a, <1>b DEF Plug
<1>32. CASE Unplug
  BY <1>32, <1>a, <1>b DEF Unplug
<1>33. CASE Restart
  BY <1>33, <1>a, <1>b DEF Restart
<1>34. CASE Activate
  BY <1>34, <1>a, <1>b DEF Activate
<1>35. CASE WaitForNetworkInterface
  <2>1. CASE cmd' = Idle
    BY <2>1, <1>35, <1>a, <1>b DEF WaitForNetworkInterface
  <2>2. CASE named /\ cmd' = [cmd EXCEPT !.pc = "connect"]
    BY <2>2, <1>35, <1>a, <1>b DEF WaitForNetworkInterface
  <2> QED
    BY <1>35, <2>1, <2>2 DEF WaitForNetworkInterface
<1> QED
  BY <1>1, <1>2, <1>3, <1>4, <1>5, <1>6, <1>7, <1>8, <1>9, <1>10, <1>11, <1>12, <1>13, <1>14, <1>15, <1>16, <1>17, <1>18, <1>19, <1>20, <1>21, <1>22, <1>23, <1>24, <1>25, <1>26, <1>27, <1>28, <1>29, <1>30, <1>31, <1>32, <1>33, <1>34, <1>35
     DEF HostNext, Step, SetupStep, PurgeStep

(* Files are installed one by one, then the services read them.             *)
LEMMA InstallStep ==
    ASSUME IInv, HostNext PROVE InstallInv'
<1> USE DEF IInv, NamesOK, CmdInv, SureInv, InstallInv, Installing, At, Goto, Asked, Bail, Idle
<1>a. cmd.sure => ~Fault /\ ~Asked
  BY HostAssumption DEF Fault
<1>1. ASSUME NEW mode \in Modes, Setup(mode) PROVE InstallInv'
  BY <1>1, <1>a DEF Setup, Start
<1>2. ASSUME NEW mode \in {"ask", "dry"}, Purge(mode) PROVE InstallInv'
  BY <1>2, <1>a DEF Purge, Start, Save, Unreadable, AutoDetected
<1>3. CASE ConfigSet
  BY <1>3, <1>a DEF ConfigSet, Start, Save, Unreadable, Loaded, AutoDetected
<1>4. CASE ConfigReset
  BY <1>4, <1>a DEF ConfigReset, Start, Save, AutoDetected
<1>5. CASE LoadValid
  <2>1. CASE cmd.sure
    <3>1. config \in {"absent", "torn", "usb", "lan"}
      BY <2>1
    <3>2. /\ config' \in {"usb", "lan"} /\ UNCHANGED <<faults, octez, plugged, named, backend, hidden, etc, live, wallet>>
          /\ cmd.pc = "load"
          /\ \E over \in {"usb", "lan"} : cmd' = [cmd EXCEPT !.pc = "hardware", !.at = over, !.sure = cmd.sure /\ ~Deceptive(over)]
      BY <1>a, <2>1, <3>1, <1>5, LoadSure
    <3> QED
      BY <2>1, <3>2
  <2>2. CASE ~cmd.sure
    <3>1. ASSUME cmd' = Idle PROVE ~cmd'.sure
      BY <3>1
    <3>2. ASSUME NEW over, cmd' = [cmd EXCEPT !.pc = "hardware", !.at = over, !.sure = cmd.sure /\ ~Deceptive(over)] PROVE ~cmd'.sure
      BY <2>2, <3>2
    <3>3. ~cmd'.sure
      BY <3>1, <3>2, <1>5, LoadForms
    <3> QED
      BY <3>3
  <2> QED
    BY <2>1, <2>2
<1>6. CASE DetectHardware
  <2>1. CASE cmd' = Idle
    BY <2>1, <1>6, <1>a DEF DetectHardware
  <2>2. CASE cmd' = [cmd EXCEPT !.pc = "system"]
    BY <2>2, <1>6, <1>a DEF DetectHardware
  <2> QED
    BY <1>6, <2>1, <2>2 DEF DetectHardware, HardwareFound
<1>7. CASE EnsureOctez
  <2>1. CASE cmd' = Idle
    BY <2>1, <1>7, <1>a DEF EnsureOctez
  <2>2. CASE cmd' = cmd
    BY <2>2, <1>7, <1>a DEF EnsureOctez
  <2> QED
    BY <1>7, <2>1, <2>2 DEF EnsureOctez, InstallOctezStatic
<1>8. CASE VerifySystem
  BY <1>8, <1>a DEF VerifySystem
<1>9. CASE ConfigureNetwork
  <2>1. CASE cmd' = Idle
    BY <2>1
  <2>2. CASE cmd' = [cmd EXCEPT !.pc = "baker"]
    BY <2>2
  <2>3. CASE /\ cmd.at # "lan"
             /\ cmd' = [cmd EXCEPT !.pc = "backup", !.todo = Outdated, !.changed = {Service(f) : f \in ToSet(Outdated)}]
    <3> SUFFICES ASSUME cmd.sure PROVE InstallInv'
      BY <2>3
    <3>1. \A f \in ToSet(FilesOf(backend)) : f \in Files
      BY DEF FilesOf, Files, ToSet
    <3>2. /\ \A f \in Files : etc[f] # "raw"
          /\ "net" \in live \/ \E f \in ToSet(Outdated) : Service(f) = "net"
      BY <2>3, <1>9 DEF ReadyInv, ConfigureNetwork
    <3>3. \A f \in ToSet(FilesOf(backend)) : f \notin ToSet(Outdated) => etc[f] = "ours"
      BY <3>1, <3>2, OutdatedFiles DEF FileNeedsUpdate, EtcOK, Contents
    <3>4. UNCHANGED <<etc, backend, live>>
      BY <1>9 DEF ConfigureNetwork
    <3> QED
      BY <2>3, <3>2, <3>3, <3>4
  <2> QED
    BY <2>1, <2>2, <2>3, <1>9 DEF ConfigureNetwork, Answers
<1>10. CASE BackupFile
  BY <1>10, <1>a DEF BackupFile
<1>11. CASE MoveFile
  <2>1. Head(cmd.todo) \in ToSet(cmd.todo)
    BY <1>11 DEF MoveFile, FilesInv, ToSet
  <2> QED
    BY <2>1, <1>11 DEF MoveFile, EtcOK
<1>12. CASE SetMode
  <2>1. /\ cmd.pc = "mode" /\ cmd.todo \in Seq(Files) /\ cmd.todo # <<>>
        /\ UNCHANGED <<backend, live>> /\ etc' = [etc EXCEPT ![Head(cmd.todo)] = "ours"]
        /\ cmd' = [cmd EXCEPT !.todo = Tail(@), !.pc = IF Len(cmd.todo) = 1 THEN "reload" ELSE "backup"]
    BY <1>12 DEF SetMode, FilesInv
  <2>2. /\ ToSet(cmd.todo) \subseteq {Head(cmd.todo)} \cup ToSet(Tail(cmd.todo))
        /\ Head(cmd.todo) \in Files /\ (Len(cmd.todo) = 1 <=> Tail(cmd.todo) = <<>>)
    BY <2>1, ToSetTail
  <2>3. \A f \in ToSet(FilesOf(backend)) : f \in Files
    BY DEF FilesOf, Files, ToSet
  <2> QED
    BY <2>1, <2>2, <2>3 DEF EtcOK
<1>13. CASE ReloadNetwork
  <2> SUFFICES ASSUME cmd.sure PROVE InstallInv'
    BY <1>13 DEF ReloadNetwork
  <2>1. cmd.pc = "reload" /\ live' = Read(cmd.changed \cap {"net"}) /\ UNCHANGED <<etc, backend, hidden>> /\ cmd' = [cmd EXCEPT !.pc = "udev"]
    BY <1>a, <1>13 DEF ReloadNetwork
  <2>2. NetRead
    BY <2>1 DEF NetRead, FilesOf, ToSet
  <2>3. "net" \in live'
    BY <2>1, <2>2 DEF Read
  <2> QED
    BY <2>1, <2>3
<1>14. CASE ReloadUdevRules
  <2>1. CASE cmd.sure /\ cmd' = [cmd EXCEPT !.pc = "wait"]
    <3>1. cmd.pc = "udev" /\ live' = Read(cmd.changed \cap {"udev"}) /\ UNCHANGED <<etc, backend, hidden>>
      BY <1>14 DEF ReloadUdevRules
    <3>2. "net" \in live'
      BY <2>1, <3>1 DEF Read
    <3> QED
      BY <2>1, <3>1, <3>2
  <2>2. CASE cmd.sure /\ cmd' = [cmd EXCEPT !.pc = "connect"]
    <3>1. cmd.pc = "udev" /\ live' = Read(cmd.changed \cap {"udev"}) /\ UNCHANGED <<etc, backend, hidden>>
      BY <1>14 DEF ReloadUdevRules
    <3>2. "net" \in live'
      BY <2>2, <3>1 DEF Read
    <3> QED
      BY <2>2, <3>1, <3>2
  <2>3. CASE ~cmd.sure
    BY <2>3, <1>14 DEF ReloadUdevRules
  <2> QED
    BY <2>1, <2>2, <2>3, <1>14 DEF ReloadUdevRules
<1>15. CASE ValidateConnectivity
  <2>1. CASE cmd' = Idle
    BY <2>1, <1>15, <1>a DEF ValidateConnectivity
  <2>2. CASE cmd' = [cmd EXCEPT !.pc = "baker"]
    BY <2>2, <1>15, <1>a DEF ValidateConnectivity
  <2> QED
    BY <1>15, <2>1, <2>2 DEF ValidateConnectivity
<1>16. CASE ValidateBaker
  <2>1. CASE cmd' = Idle
    BY <2>1, <1>16, <1>a DEF ValidateBaker
  <2>2. CASE cmd.mode = "dry" /\ cmd' = [cmd EXCEPT !.pc = "complete"]
    BY <2>2, <1>16, <1>a DEF ValidateBaker
  <2>3. CASE baker.reg = "active" /\ cmd' = [cmd EXCEPT !.pc = "signer"]
    BY <2>3, <1>16, <1>a DEF ValidateBaker
  <2>4. CASE cmd' = [cmd EXCEPT !.pc = "sync", !.seen = baker]
    BY <2>4, <1>16, <1>a DEF ValidateBaker
  <2>5. CASE cmd' = [cmd EXCEPT !.pc = "register", !.seen = baker]
    BY <2>5, <1>16, <1>a DEF ValidateBaker
  <2>6. CASE cmd' = [cmd EXCEPT !.pc = "complete", !.failed = TRUE]
    BY <2>6, <1>16, <1>a DEF ValidateBaker
  <2> QED
    BY <1>16, <2>1, <2>2, <2>3, <2>4, <2>5, <2>6 DEF ValidateBaker, Answers, BakerStatus
<1>17. CASE WaitForNodeSync
  BY <1>17, <1>a DEF WaitForNodeSync
<1>18. CASE HandleBakerRegistration
  <2>1. CASE cmd' = Idle
    BY <2>1, <1>18, <1>a DEF HandleBakerRegistration
  <2>2. CASE cmd' = [cmd EXCEPT !.pc = "stake"]
    BY <2>2, <1>18, <1>a DEF HandleBakerRegistration
  <2> QED
    BY <1>18, <2>1, <2>2 DEF HandleBakerRegistration
<1>19. CASE CheckAndSetStake
  BY <1>19, <1>a DEF CheckAndSetStake
<1>20. CASE WaitForSigner
  <2>1. CASE cmd' = Idle
    BY <2>1, <1>20, <1>a DEF WaitForSigner
  <2>2. CASE plugged # None /\ cmd' = [cmd EXCEPT !.pc = "discover", !.dev = plugged]
    BY <2>2, <1>20, <1>a DEF WaitForSigner
  <2> QED
    BY <1>20, <2>1, <2>2 DEF WaitForSigner, Reachable
<1>21. CASE DiscoverKeys
  <2>1. CASE RolesCorrectlyImported = Roles /\ (\A r \in Roles : RoleKeySetOnChain(r, cmd.dev)) /\ cmd' = [cmd EXCEPT !.pc = "validate"]
    BY <2>1, <1>21, <1>a DEF DiscoverKeys, RolesCorrectlyImported
  <2>2. CASE cmd' = [cmd EXCEPT !.pc = "import", !.roles = RolesCorrectlyImported, !.todo = Order]
    BY <2>2, <1>21, <1>a DEF DiscoverKeys, RolesCorrectlyImported
  <2> QED
    BY <1>21, <2>1, <2>2 DEF DiscoverKeys, RolesCorrectlyImported
<1>22. CASE ImportKey
  <2>1. CASE cmd' = Idle
    BY <2>1, <1>22, <1>a DEF ImportKey
  <2>2. CASE cmd' = [cmd EXCEPT !.pc = "set"]
    BY <2>2, <1>22, <1>a DEF ImportKey
  <2> QED
    BY <1>22, <2>1, <2>2 DEF ImportKey, ImportKeyFromSigner
<1>23. CASE SetKey
  <2>1. CASE cmd' = Idle
    BY <2>1, <1>23, <1>a DEF SetKey
  <2>2. CASE cmd' = [cmd EXCEPT !.todo = Tail(@), !.pc = "validate"]
    BY <2>2, <1>23, <1>a DEF SetKey
  <2>3. CASE cmd' = [cmd EXCEPT !.todo = Tail(@), !.pc = "import"]
    BY <2>3, <1>23, <1>a DEF SetKey
  <2> QED
    BY <1>23, <2>1, <2>2, <2>3 DEF SetKey
<1>24. CASE ValidateImportedKeys
  <2>1. CASE cmd' = Idle
    BY <2>1, <1>24, <1>a DEF ValidateImportedKeys
  <2>2. CASE cmd' = [cmd EXCEPT !.pc = "complete"]
    BY <2>2, <1>24, <1>a DEF ValidateImportedKeys
  <2> QED
    BY <1>24, <2>1, <2>2 DEF ValidateImportedKeys
<1>25. CASE ListPresent
  <2>1. CASE cmd' = Idle
    BY <2>1, <1>25, <1>a DEF ListPresent, PresentAliases
  <2>2. CASE Present = {} /\ PresentAliases = {} /\ cmd' = [cmd EXCEPT !.pc = "clean"]
    BY <2>2, <1>25, <1>a DEF ListPresent, PresentAliases
  <2>3. CASE cmd' = [cmd EXCEPT !.pc = "untouched"]
    BY <2>3, <1>25, <1>a DEF ListPresent, PresentAliases
  <2>4. ASSUME NEW known \in BOOLEAN, NEW as \in {PresentAliases, {}},
               cmd' = [cmd EXCEPT !.roles = as, !.failed = ~known, !.pc = IF Present = {} THEN "forget" ELSE "remove"]
        PROVE  InstallInv'
    BY <2>4, <1>25, <1>a DEF ListPresent, PresentAliases
  <2> QED
    BY <1>25, <2>1, <2>2, <2>3, <2>4 DEF ListPresent
<1>26. CASE RemoveConfig
  <2>1. CASE cmd' = [cmd EXCEPT !.pc = "untouched"]
    BY <2>1, <1>26, <1>a DEF RemoveConfig
  <2>2. ASSUME NEW b \in BOOLEAN,
               cmd' = [cmd EXCEPT !.failed = b, !.pc = IF cmd.roles = {} THEN "verify" ELSE "forget"]
        PROVE  InstallInv'
    BY <2>2, <1>26, <1>a DEF RemoveConfig
  <2> QED
    BY <1>26, <2>1, <2>2 DEF RemoveConfig
<1>27. CASE RemoveKeys
  <2>1. CASE cmd' = [cmd EXCEPT !.pc = "verify"]
    BY <2>1, <1>27, <1>a DEF RemoveKeys
  <2>2. ASSUME NEW b \in BOOLEAN,
               cmd' = [cmd EXCEPT !.failed = b, !.pc = "verify"]
        PROVE  InstallInv'
    BY <2>2, <1>27, <1>a DEF RemoveKeys
  <2> QED
    BY <1>27, <2>1, <2>2 DEF RemoveKeys
<1>28. CASE VerifyPurge
  BY <1>28, <1>a DEF VerifyPurge
<1>29. CASE End
  BY <1>29, <1>a DEF End, Ended
<1>30. CASE Abort
  BY <1>30, <1>a DEF Abort
<1>31. ASSUME NEW d \in Devices, Plug(d) PROVE InstallInv'
  BY <1>31, <1>a DEF Plug
<1>32. CASE Unplug
  BY <1>32, <1>a DEF Unplug
<1>33. CASE Restart
  BY <1>33, <1>a DEF Restart
<1>34. CASE Activate
  BY <1>34, <1>a DEF Activate
<1>35. CASE WaitForNetworkInterface
  <2>1. CASE cmd' = Idle
    BY <2>1, <1>35, <1>a DEF WaitForNetworkInterface
  <2>2. CASE named /\ cmd' = [cmd EXCEPT !.pc = "connect"]
    BY <2>2, <1>35, <1>a DEF WaitForNetworkInterface
  <2> QED
    BY <1>35, <2>1, <2>2 DEF WaitForNetworkInterface
<1> QED
  BY <1>1, <1>2, <1>3, <1>4, <1>5, <1>6, <1>7, <1>8, <1>9, <1>10, <1>11, <1>12, <1>13, <1>14, <1>15, <1>16, <1>17, <1>18, <1>19, <1>20, <1>21, <1>22, <1>23, <1>24, <1>25, <1>26, <1>27, <1>28, <1>29, <1>30, <1>31, <1>32, <1>33, <1>34, <1>35
     DEF HostNext, Step, SetupStep, PurgeStep

(* Once reachable the signer stays so, and the baker active.                *)
LEMMA BakerStep ==
    ASSUME IInv, HostNext PROVE BakerInv'
<1> USE DEF IInv, NamesOK, CmdInv, SureInv, BakerInv, AskingKeys, At, Goto, Asked, Bail, Idle
<1>a. cmd.sure => ~Fault /\ ~Asked
  BY HostAssumption DEF Fault
<1>1. ASSUME NEW mode \in Modes, Setup(mode) PROVE BakerInv'
  BY <1>1, <1>a DEF Setup, Start
<1>2. ASSUME NEW mode \in {"ask", "dry"}, Purge(mode) PROVE BakerInv'
  BY <1>2, <1>a DEF Purge, Start, Save, Unreadable, AutoDetected
<1>3. CASE ConfigSet
  BY <1>3, <1>a DEF ConfigSet, Start, Save, Unreadable, Loaded, AutoDetected
<1>4. CASE ConfigReset
  BY <1>4, <1>a DEF ConfigReset, Start, Save, AutoDetected
<1>5. CASE LoadValid
  <2>1. CASE cmd.sure
    <3>1. config \in {"absent", "torn", "usb", "lan"}
      BY <2>1
    <3>2. /\ config' \in {"usb", "lan"} /\ UNCHANGED <<faults, octez, plugged, named, backend, hidden, etc, live, wallet>>
          /\ cmd.pc = "load"
          /\ \E over \in {"usb", "lan"} : cmd' = [cmd EXCEPT !.pc = "hardware", !.at = over, !.sure = cmd.sure /\ ~Deceptive(over)]
      BY <1>a, <2>1, <3>1, <1>5, LoadSure
    <3> QED
      BY <2>1, <3>2
  <2>2. CASE ~cmd.sure
    <3>1. ASSUME cmd' = Idle PROVE ~cmd'.sure
      BY <3>1
    <3>2. ASSUME NEW over, cmd' = [cmd EXCEPT !.pc = "hardware", !.at = over, !.sure = cmd.sure /\ ~Deceptive(over)] PROVE ~cmd'.sure
      BY <2>2, <3>2
    <3>3. ~cmd'.sure
      BY <3>1, <3>2, <1>5, LoadForms
    <3> QED
      BY <3>3
  <2> QED
    BY <2>1, <2>2
<1>6. CASE DetectHardware
  <2>1. CASE cmd' = Idle
    BY <2>1, <1>6, <1>a DEF DetectHardware
  <2>2. CASE cmd' = [cmd EXCEPT !.pc = "system"]
    BY <2>2, <1>6, <1>a DEF DetectHardware
  <2> QED
    BY <1>6, <2>1, <2>2 DEF DetectHardware, HardwareFound
<1>7. CASE EnsureOctez
  <2>1. CASE cmd' = Idle
    BY <2>1, <1>7, <1>a DEF EnsureOctez
  <2>2. CASE cmd' = cmd
    BY <2>2, <1>7, <1>a DEF EnsureOctez
  <2> QED
    BY <1>7, <2>1, <2>2 DEF EnsureOctez, InstallOctezStatic
<1>8. CASE VerifySystem
  BY <1>8, <1>a DEF VerifySystem
<1>9. CASE ConfigureNetwork
  <2>1. CASE cmd' = Idle
    BY <2>1
  <2>2. CASE (cmd.mode = "yes" => cmd.at = "lan" \/ Outdated = <<>>) /\ cmd' = [cmd EXCEPT !.pc = "baker"]
    <3> SUFFICES ASSUME cmd.sure, cmd.at = "usb" PROVE "net" \in live'
      BY <2>2
    <3>1. ToSet(Outdated) = {}
      BY <2>2 DEF ToSet
    <3> QED
      BY <3>1, <1>9 DEF ConfigureNetwork, ReadyInv
  <2>3. CASE cmd' = [cmd EXCEPT !.pc = "backup", !.todo = Outdated, !.changed = {Service(f) : f \in ToSet(Outdated)}]
    BY <2>3
  <2> QED
    BY <2>1, <2>2, <2>3, <1>9 DEF ConfigureNetwork, Answers
<1>10. CASE BackupFile
  BY <1>10, <1>a DEF BackupFile
<1>11. CASE MoveFile
  BY <1>11, <1>a DEF MoveFile
<1>12. CASE SetMode
  BY <1>12, <1>a DEF SetMode
<1>13. CASE ReloadNetwork
  BY <1>13, <1>a DEF ReloadNetwork
<1>14. CASE ReloadUdevRules
  <2>1. CASE cmd' = [cmd EXCEPT !.pc = "wait"]
    BY <2>1, <1>14, <1>a DEF ReloadUdevRules
  <2>2. CASE cmd' = [cmd EXCEPT !.pc = "connect"]
    BY <2>2, <1>14, <1>a DEF ReloadUdevRules
  <2> QED
    BY <1>14, <2>1, <2>2 DEF ReloadUdevRules
<1>15. CASE ValidateConnectivity
  <2>1. CASE cmd' = Idle
    BY <2>1, <1>15, <1>a DEF ValidateConnectivity, InstallInv, Installing
  <2>2. CASE cmd' = [cmd EXCEPT !.pc = "baker"]
    BY <2>2, <1>15, <1>a DEF ValidateConnectivity, InstallInv, Installing
  <2> QED
    BY <1>15, <2>1, <2>2 DEF ValidateConnectivity
<1>16. CASE ValidateBaker
  <2>1. CASE cmd' = Idle
    BY <2>1, <1>16, <1>a DEF ValidateBaker
  <2>2. CASE cmd.mode = "dry" /\ cmd' = [cmd EXCEPT !.pc = "complete"]
    BY <2>2, <1>16, <1>a DEF ValidateBaker
  <2>3. CASE baker.reg = "active" /\ cmd' = [cmd EXCEPT !.pc = "signer"]
    BY <2>3, <1>16, <1>a DEF ValidateBaker
  <2>4. CASE cmd' = [cmd EXCEPT !.pc = "sync", !.seen = baker]
    BY <2>4, <1>16, <1>a DEF ValidateBaker
  <2>5. CASE cmd' = [cmd EXCEPT !.pc = "register", !.seen = baker]
    BY <2>5, <1>16, <1>a DEF ValidateBaker
  <2>6. CASE cmd' = [cmd EXCEPT !.pc = "complete", !.failed = TRUE]
    BY <2>6, <1>16, <1>a DEF ValidateBaker
  <2> QED
    BY <1>16, <2>1, <2>2, <2>3, <2>4, <2>5, <2>6 DEF ValidateBaker, Answers, BakerStatus
<1>17. CASE WaitForNodeSync
  BY <1>17, <1>a DEF WaitForNodeSync
<1>18. CASE HandleBakerRegistration
  <2>1. CASE cmd' = Idle
    BY <2>1, <1>18, <1>a DEF HandleBakerRegistration
  <2>2. CASE cmd' = [cmd EXCEPT !.pc = "stake"]
    BY <2>2, <1>18, <1>a DEF HandleBakerRegistration
  <2> QED
    BY <1>18, <2>1, <2>2 DEF HandleBakerRegistration
<1>19. CASE CheckAndSetStake
  BY <1>19, <1>a DEF CheckAndSetStake
<1>20. CASE WaitForSigner
  <2>1. CASE cmd' = Idle
    BY <2>1, <1>20, <1>a DEF WaitForSigner
  <2>2. CASE plugged # None /\ cmd' = [cmd EXCEPT !.pc = "discover", !.dev = plugged]
    BY <2>2, <1>20, <1>a DEF WaitForSigner
  <2> QED
    BY <1>20, <2>1, <2>2 DEF WaitForSigner, Reachable
<1>21. CASE DiscoverKeys
  <2>1. CASE RolesCorrectlyImported = Roles /\ (\A r \in Roles : RoleKeySetOnChain(r, cmd.dev)) /\ cmd' = [cmd EXCEPT !.pc = "validate"]
    BY <2>1, <1>21, <1>a DEF DiscoverKeys, RolesCorrectlyImported
  <2>2. CASE cmd' = [cmd EXCEPT !.pc = "import", !.roles = RolesCorrectlyImported, !.todo = Order]
    BY <2>2, <1>21, <1>a DEF DiscoverKeys, RolesCorrectlyImported
  <2> QED
    BY <1>21, <2>1, <2>2 DEF DiscoverKeys, RolesCorrectlyImported
<1>22. CASE ImportKey
  <2>1. CASE cmd' = Idle
    BY <2>1, <1>22, <1>a DEF ImportKey
  <2>2. CASE cmd' = [cmd EXCEPT !.pc = "set"]
    BY <2>2, <1>22, <1>a DEF ImportKey
  <2> QED
    BY <1>22, <2>1, <2>2 DEF ImportKey, ImportKeyFromSigner
<1>23. CASE SetKey
  <2>1. CASE cmd' = Idle
    BY <2>1, <1>23, <1>a DEF SetKey
  <2>2. CASE cmd' = [cmd EXCEPT !.todo = Tail(@), !.pc = "validate"]
    BY <2>2, <1>23, <1>a DEF SetKey
  <2>3. CASE cmd' = [cmd EXCEPT !.todo = Tail(@), !.pc = "import"]
    BY <2>3, <1>23, <1>a DEF SetKey
  <2> QED
    BY <1>23, <2>1, <2>2, <2>3 DEF SetKey
<1>24. CASE ValidateImportedKeys
  <2>1. CASE cmd' = Idle
    BY <2>1, <1>24, <1>a DEF ValidateImportedKeys
  <2>2. CASE cmd' = [cmd EXCEPT !.pc = "complete"]
    BY <2>2, <1>24, <1>a DEF ValidateImportedKeys
  <2> QED
    BY <1>24, <2>1, <2>2 DEF ValidateImportedKeys
<1>25. CASE ListPresent
  <2>1. CASE cmd' = Idle
    BY <2>1, <1>25, <1>a DEF ListPresent, PresentAliases
  <2>2. CASE Present = {} /\ PresentAliases = {} /\ cmd' = [cmd EXCEPT !.pc = "clean"]
    BY <2>2, <1>25, <1>a DEF ListPresent, PresentAliases
  <2>3. CASE cmd' = [cmd EXCEPT !.pc = "untouched"]
    BY <2>3, <1>25, <1>a DEF ListPresent, PresentAliases
  <2>4. ASSUME NEW known \in BOOLEAN, NEW as \in {PresentAliases, {}},
               cmd' = [cmd EXCEPT !.roles = as, !.failed = ~known, !.pc = IF Present = {} THEN "forget" ELSE "remove"]
        PROVE  BakerInv'
    BY <2>4, <1>25, <1>a DEF ListPresent, PresentAliases
  <2> QED
    BY <1>25, <2>1, <2>2, <2>3, <2>4 DEF ListPresent
<1>26. CASE RemoveConfig
  <2>1. CASE cmd' = [cmd EXCEPT !.pc = "untouched"]
    BY <2>1, <1>26, <1>a DEF RemoveConfig
  <2>2. ASSUME NEW b \in BOOLEAN,
               cmd' = [cmd EXCEPT !.failed = b, !.pc = IF cmd.roles = {} THEN "verify" ELSE "forget"]
        PROVE  BakerInv'
    BY <2>2, <1>26, <1>a DEF RemoveConfig
  <2> QED
    BY <1>26, <2>1, <2>2 DEF RemoveConfig
<1>27. CASE RemoveKeys
  <2>1. CASE cmd' = [cmd EXCEPT !.pc = "verify"]
    BY <2>1, <1>27, <1>a DEF RemoveKeys
  <2>2. ASSUME NEW b \in BOOLEAN,
               cmd' = [cmd EXCEPT !.failed = b, !.pc = "verify"]
        PROVE  BakerInv'
    BY <2>2, <1>27, <1>a DEF RemoveKeys
  <2> QED
    BY <1>27, <2>1, <2>2 DEF RemoveKeys
<1>28. CASE VerifyPurge
  BY <1>28, <1>a DEF VerifyPurge
<1>29. CASE End
  BY <1>29, <1>a DEF End, Ended
<1>30. CASE Abort
  BY <1>30, <1>a DEF Abort
<1>31. ASSUME NEW d \in Devices, Plug(d) PROVE BakerInv'
  BY <1>31, <1>a DEF Plug
<1>32. CASE Unplug
  BY <1>32, <1>a DEF Unplug
<1>33. CASE Restart
  BY <1>33, <1>a DEF Restart
<1>34. CASE Activate
  BY <1>34, <1>a DEF Activate
<1>35. CASE WaitForNetworkInterface
  <2>1. CASE cmd' = Idle
    BY <2>1, <1>35, <1>a DEF WaitForNetworkInterface, InstallInv, Installing
  <2>2. CASE named /\ cmd' = [cmd EXCEPT !.pc = "connect"]
    BY <2>2, <1>35, <1>a DEF WaitForNetworkInterface, InstallInv, Installing
  <2> QED
    BY <1>35, <2>1, <2>2 DEF WaitForNetworkInterface
<1> QED
  BY <1>1, <1>2, <1>3, <1>4, <1>5, <1>6, <1>7, <1>8, <1>9, <1>10, <1>11, <1>12, <1>13, <1>14, <1>15, <1>16, <1>17, <1>18, <1>19, <1>20, <1>21, <1>22, <1>23, <1>24, <1>25, <1>26, <1>27, <1>28, <1>29, <1>30, <1>31, <1>32, <1>33, <1>34, <1>35
     DEF HostNext, Step, SetupStep, PurgeStep

(* No step of a setup that nothing is in the way of ends it early.          *)
LEMMA SureGoesOn ==
    ASSUME NamesOK, CmdInv, SureInv, PlainInv, InstallInv, BakerInv, KeysInv, WalletOK, cmd.sure, ~At("complete"), HostNext PROVE cmd' # Idle
<1> USE DEF NamesOK, CmdInv, SureInv, At, Goto, Asked, Bail, Idle
<1>a. ~Fault /\ ~Asked
  BY HostAssumption DEF Fault
<1>1. ASSUME NEW mode \in Modes, Setup(mode) PROVE cmd' # Idle
  BY <1>1, <1>a DEF Setup, Start
<1>2. ASSUME NEW mode \in {"ask", "dry"}, Purge(mode) PROVE cmd' # Idle
  BY <1>2, <1>a DEF Purge, Start, Save, Unreadable, AutoDetected
<1>3. CASE ConfigSet
  BY <1>3, <1>a DEF ConfigSet, Start, Save, Unreadable, Loaded, AutoDetected
<1>4. CASE ConfigReset
  BY <1>4, <1>a DEF ConfigReset, Start, Save, AutoDetected
<1>5. CASE LoadValid
  <2>1. \E over \in {"usb", "lan"} : cmd' = [cmd EXCEPT !.pc = "hardware", !.at = over, !.sure = cmd.sure /\ ~Deceptive(over)]
    BY <1>a, <1>5, LoadSure
  <2>2. PICK over \in {"usb", "lan"} : cmd' = [cmd EXCEPT !.pc = "hardware", !.at = over, !.sure = cmd.sure /\ ~Deceptive(over)]
    BY <2>1
  <2> QED
    BY <2>2
<1>6. CASE DetectHardware
  BY <1>6, <1>a DEF DetectHardware, HardwareFound
<1>7. CASE EnsureOctez
  BY <1>7, <1>a DEF EnsureOctez, InstallOctezStatic
<1>8. CASE VerifySystem
  BY <1>8, <1>a DEF VerifySystem
<1>9. CASE ConfigureNetwork
  <2>1. CASE cmd' = [cmd EXCEPT !.pc = "baker"]
    BY <2>1
  <2>2. CASE cmd' = [cmd EXCEPT !.pc = "backup", !.todo = Outdated, !.changed = {Service(f) : f \in ToSet(Outdated)}]
    BY <2>2
  <2> QED
    BY <1>a, <2>1, <2>2, <1>9 DEF ConfigureNetwork, Answers
<1>10. CASE BackupFile
  BY <1>10, <1>a DEF BackupFile
<1>11. CASE MoveFile
  BY <1>11, <1>a DEF MoveFile
<1>12. CASE SetMode
  BY <1>12, <1>a DEF SetMode
<1>13. CASE ReloadNetwork
  BY <1>13, <1>a DEF ReloadNetwork
<1>14. CASE ReloadUdevRules
  BY <1>14, <1>a DEF ReloadUdevRules
<1>15. CASE ValidateConnectivity
  BY <1>15, <1>a, HostAssumption DEF ValidateConnectivity, Reachable, SureInv, InstallInv, Installing
<1>16. CASE ValidateBaker
  <2>1. CASE cmd.mode = "dry" /\ cmd' = [cmd EXCEPT !.pc = "complete"]
    BY <2>1
  <2>2. CASE baker.reg = "active" /\ cmd' = [cmd EXCEPT !.pc = "signer"]
    BY <2>2
  <2>3. CASE cmd' = [cmd EXCEPT !.pc = "sync", !.seen = baker]
    BY <2>3
  <2>4. CASE cmd' = [cmd EXCEPT !.pc = "register", !.seen = baker]
    BY <2>4
  <2>5. CASE cmd' = [cmd EXCEPT !.pc = "complete", !.failed = TRUE]
    BY <2>5
  <2> QED
    BY <1>a, <2>1, <2>2, <2>3, <2>4, <2>5, <1>16 DEF ValidateBaker, Answers, BakerStatus
<1>17. CASE WaitForNodeSync
  BY <1>17, <1>a DEF WaitForNodeSync
<1>18. CASE HandleBakerRegistration
  BY <1>18, <1>a DEF HandleBakerRegistration
<1>19. CASE CheckAndSetStake
  BY <1>19, <1>a DEF CheckAndSetStake
<1>20. CASE WaitForSigner
  BY <1>20, <1>a, HostAssumption DEF WaitForSigner, Reachable, SureInv, BakerInv, AskingKeys
<1>21. CASE DiscoverKeys
  <2>1. CASE RolesCorrectlyImported = Roles /\ (\A r \in Roles : RoleKeySetOnChain(r, cmd.dev)) /\ cmd' = [cmd EXCEPT !.pc = "validate"]
    BY <2>1
  <2>2. CASE cmd' = [cmd EXCEPT !.pc = "import", !.roles = RolesCorrectlyImported, !.todo = Order]
    BY <2>2
  <2> QED
    BY <1>a, <2>1, <2>2, <1>21 DEF DiscoverKeys, RolesCorrectlyImported
<1>22. CASE ImportKey
  BY <1>22, <1>a, HostAssumption DEF ImportKey, ImportKeyFromSigner, Reachable, SureInv, BakerInv, AskingKeys
<1>23. CASE SetKey
  <2>1. Imported(Head(cmd.todo)) /\ Head(cmd.todo) \in Roles
    BY <1>23, TwoRoles DEF SetKey, KeysInv, Order
  <2>2. plugged = cmd.dev /\ Reachable(cmd.at) /\ baker.reg = "active"
    BY <1>23, HostAssumption DEF SetKey, SureInv, BakerInv, AskingKeys, Reachable
  <2>3. wallet[Head(cmd.todo)][1] = cmd.dev /\ wallet[Head(cmd.todo)][2] = cmd.at
    BY <2>1, <1>23 DEF SetKey, PlainInv, Deceptive, Imported
  <2>4. cmd' = [cmd EXCEPT !.todo = Tail(cmd.todo), !.pc = IF Len(cmd.todo) = 1 THEN "validate" ELSE "import"]
    BY <2>2, <2>3, <1>23 DEF SetKey
  <2> QED
    BY <2>4
<1>24. CASE ValidateImportedKeys
  BY <1>24 DEF ValidateImportedKeys, KeysInFilesystem, KeysInv, Done, Imported
<1>25. CASE ListPresent
  BY <1>25, <1>a DEF ListPresent, SetupSteps
<1>26. CASE RemoveConfig
  BY <1>26, <1>a DEF RemoveConfig, SetupSteps
<1>27. CASE RemoveKeys
  BY <1>27, <1>a DEF RemoveKeys, SetupSteps
<1>28. CASE VerifyPurge
  BY <1>28, <1>a DEF VerifyPurge, SetupSteps
<1>29. CASE End
  BY <1>29, <1>a DEF End, Ended, SetupSteps
<1>30. CASE Abort
  BY <1>30, <1>a DEF Abort
<1>31. ASSUME NEW d \in Devices, Plug(d) PROVE cmd' # Idle
  BY <1>31, <1>a DEF Plug
<1>32. CASE Unplug
  BY <1>32, <1>a DEF Unplug
<1>33. CASE Restart
  BY <1>33, <1>a DEF Restart
<1>34. CASE Activate
  BY <1>34, <1>a DEF Activate
<1>35. CASE WaitForNetworkInterface
  BY <1>35, <1>a DEF WaitForNetworkInterface, SureInv
<1> QED
  BY <1>1, <1>2, <1>3, <1>4, <1>5, <1>6, <1>7, <1>8, <1>9, <1>10, <1>11, <1>12, <1>13, <1>14, <1>15, <1>16, <1>17, <1>18, <1>19, <1>20, <1>21, <1>22, <1>23, <1>24, <1>25, <1>26, <1>27, <1>28, <1>29, <1>30, <1>31, <1>32, <1>33, <1>34, <1>35
     DEF HostNext, Step, SetupStep, PurgeStep

(* The tool: each step of an upgrade or an installation.                    *)
LEMMA ToolKept ==
    ASSUME ToolInv, ToolNext PROVE ToolInv'
<1> USE DEF ToolInv, ToolAt, ToolGoto, NoTool, Paths, Runnable, BackupPath
<1>1. ASSUME NEW p \in Paths, Upgrade(p) PROVE ToolInv'
  BY <1>1 DEF Upgrade, CheckForUpdates, Downloads
<1>2. ASSUME NEW p \in Paths, Install(p) PROVE ToolInv'
  BY <1>2 DEF Install
<1>3. CASE VerifyChecksum
  BY <1>3 DEF VerifyChecksum
<1>4. CASE MoveAside
  BY <1>4 DEF MoveAside
<1>5. CASE PlaceNew
  BY <1>5 DEF PlaceNew, Replaced
<1>6. CASE CopyNew
  BY <1>6 DEF CopyNew, Replaced
<1>7. CASE RestoreOld
  BY <1>7 DEF RestoreOld
<1>8. CASE FinishInstall
  BY <1>8 DEF FinishInstall
<1>9. CASE Interrupt
  BY <1>9 DEF Interrupt
<1> QED
  BY <1>1, <1>2, <1>3, <1>4, <1>5, <1>6, <1>7, <1>8, <1>9 DEF ToolNext, ToolStep

(* No step of an upgrade of the installed binary leaves none that runs.     *)
LEMMA ToolRuns ==
    ASSUME ToolInv, ToolNext PROVE (Usable /\ tool.path = "installed" => Usable')
<1> USE DEF ToolInv, ToolAt, ToolGoto, NoTool, Paths, Runnable, BackupPath, Usable
<1>1. ASSUME NEW p \in Paths, Upgrade(p) PROVE (Usable /\ tool.path = "installed" => Usable')
  BY <1>1 DEF Upgrade, CheckForUpdates, Downloads
<1>2. ASSUME NEW p \in Paths, Install(p) PROVE (Usable /\ tool.path = "installed" => Usable')
  BY <1>2 DEF Install
<1>3. CASE VerifyChecksum
  BY <1>3 DEF VerifyChecksum
<1>4. CASE MoveAside
  BY <1>4 DEF MoveAside
<1>5. CASE PlaceNew
  BY <1>5 DEF PlaceNew, Replaced
<1>6. CASE CopyNew
  BY <1>6 DEF CopyNew, Replaced
<1>7. CASE RestoreOld
  BY <1>7 DEF RestoreOld
<1>8. CASE FinishInstall
  BY <1>8 DEF FinishInstall
<1>9. CASE Interrupt
  BY <1>9 DEF Interrupt
<1> QED
  BY <1>1, <1>2, <1>3, <1>4, <1>5, <1>6, <1>7, <1>8, <1>9 DEF ToolNext, ToolStep

(* The files of /etc: what was there is overwritten by MoveFile alone.      *)
LEMMA EtcSteps ==
    ASSUME EtcOK, FilesInv, HostNext PROVE (\A f \in Files : etc[f] = "other" /\ etc'[f] \notin {"other", "none"} => f \in kept \cup hidden)
<1> USE DEF At, Goto, Bail, Start
<1>1. ASSUME NEW mode \in Modes, Setup(mode) PROVE (\A f \in Files : etc[f] = "other" /\ etc'[f] \notin {"other", "none"} => f \in kept \cup hidden)
  BY <1>1 DEF Setup, Start
<1>2. ASSUME NEW mode \in {"ask", "dry"}, Purge(mode) PROVE (\A f \in Files : etc[f] = "other" /\ etc'[f] \notin {"other", "none"} => f \in kept \cup hidden)
  BY <1>2 DEF Purge, Start, Save, Fault, Unreadable, AutoDetected
<1>3. CASE ConfigSet
  BY <1>3 DEF ConfigSet, Start, Save, Fault, Unreadable, Loaded, AutoDetected
<1>4. CASE ConfigReset
  BY <1>4 DEF ConfigReset, Start, Save, Fault, AutoDetected
<1>5. CASE LoadValid
  BY <1>5 DEF LoadValid, Loaded, Valid, Unreadable, AutoDetected, OfferToPersist, Save, Fault
<1>6. CASE DetectHardware
  BY <1>6 DEF DetectHardware, HardwareFound
<1>7. CASE EnsureOctez
  BY <1>7 DEF EnsureOctez, InstallOctezStatic
<1>8. CASE VerifySystem
  BY <1>8 DEF VerifySystem
<1>9. CASE ConfigureNetwork
  BY <1>9 DEF ConfigureNetwork, Answers
<1>10. CASE BackupFile
  BY <1>10 DEF BackupFile
<1>11. CASE MoveFile
  BY <1>11 DEF MoveFile, EtcOK, FilesInv
<1>12. CASE SetMode
  BY <1>12 DEF SetMode, EtcOK, FilesInv
<1>13. CASE ReloadNetwork
  BY <1>13 DEF ReloadNetwork, Fault
<1>14. CASE ReloadUdevRules
  BY <1>14 DEF ReloadUdevRules
<1>15. CASE ValidateConnectivity
  BY <1>15 DEF ValidateConnectivity
<1>16. CASE ValidateBaker
  BY <1>16 DEF ValidateBaker, Answers, BakerStatus
<1>17. CASE WaitForNodeSync
  BY <1>17 DEF WaitForNodeSync
<1>18. CASE HandleBakerRegistration
  BY <1>18 DEF HandleBakerRegistration
<1>19. CASE CheckAndSetStake
  BY <1>19 DEF CheckAndSetStake, Fault
<1>20. CASE WaitForSigner
  BY <1>20 DEF WaitForSigner
<1>21. CASE DiscoverKeys
  BY <1>21 DEF DiscoverKeys, Fault
<1>22. CASE ImportKey
  BY <1>22 DEF ImportKey, ImportKeyFromSigner
<1>23. CASE SetKey
  BY <1>23 DEF SetKey, Fault
<1>24. CASE ValidateImportedKeys
  BY <1>24 DEF ValidateImportedKeys
<1>25. CASE ListPresent
  BY <1>25 DEF ListPresent, Fault
<1>26. CASE RemoveConfig
  BY <1>26 DEF RemoveConfig, Fault
<1>27. CASE RemoveKeys
  BY <1>27 DEF RemoveKeys, Fault
<1>28. CASE VerifyPurge
  BY <1>28 DEF VerifyPurge
<1>29. CASE End
  BY <1>29 DEF End, Ended
<1>30. CASE Abort
  BY <1>30 DEF Abort, Fault
<1>31. ASSUME NEW d \in Devices, Plug(d) PROVE (\A f \in Files : etc[f] = "other" /\ etc'[f] \notin {"other", "none"} => f \in kept \cup hidden)
  BY <1>31 DEF Plug
<1>32. CASE Unplug
  BY <1>32 DEF Unplug, Fault
<1>33. CASE Restart
  BY <1>33 DEF Restart
<1>34. CASE Activate
  BY <1>34 DEF Activate
<1>35. CASE WaitForNetworkInterface
  BY <1>35 DEF WaitForNetworkInterface
<1> QED
  BY <1>1, <1>2, <1>3, <1>4, <1>5, <1>6, <1>7, <1>8, <1>9, <1>10, <1>11, <1>12, <1>13, <1>14, <1>15, <1>16, <1>17, <1>18, <1>19, <1>20, <1>21, <1>22, <1>23, <1>24, <1>25, <1>26, <1>27, <1>28, <1>29, <1>30, <1>31, <1>32, <1>33, <1>34, <1>35
     DEF HostNext, Step, SetupStep, PurgeStep

-----------------------------------------------------------------------------
(* The theorems.                                                            *)

(* A machine on which no command has run.                                   *)
LEMMA InitIInv == HostInit => IInv
<1> SUFFICES ASSUME HostInit PROVE IInv
  OBVIOUS
<1> USE DEF HostInit, Init
<1>1. NamesOK /\ EtcOK /\ CountsOK
  <2>1. baker \in [reg : {"no", "inactive", "active"}, staked : BOOLEAN]
    <3>1. CASE baker = [reg |-> "no", staked |-> FALSE]
      BY <3>1
    <3>2. CASE baker \in [reg : {"inactive"}, staked : {TRUE}] \cup [reg : {"active"}, staked : BOOLEAN]
      BY <3>2
    <3> QED
      BY <3>1, <3>2
  <2>2. NamesOK
    BY <2>1, HostAssumption DEF NamesOK, Files
  <2>3. EtcOK
    <3>1. PICK present \in {{}, ToSet(FilesOf(backend))} : etc = [f \in Files |-> IF f \in present THEN "other" ELSE "none"]
      OBVIOUS
    <3> QED
      BY <3>1 DEF EtcOK, Contents
  <2>4. CountsOK
    BY HostAssumption DEF CountsOK
  <2> QED
    BY <2>2, <2>3, <2>4
<1>2. WalletOK
  <2>1. CASE wallet = [r \in Roles |-> None]
    BY <2>1 DEF WalletOK
  <2>2. CASE \E key \in Devices \X ({"usb"} \cup Former) : wallet = [r \in Roles |-> key]
    BY <2>2 DEF WalletOK, Endpoints
  <2> QED
    BY <2>1, <2>2
<1>3. ChainOK
  BY DEF ChainOK
<1>4. CmdInv /\ FilesInv /\ KeysInv /\ CleanIsClean /\ SureInv /\ PlainInv /\ ReadyInv /\ InstallInv /\ BakerInv
  BY DEF CmdInv, FilesInv, KeysInv, CleanIsClean, SureInv, PlainInv, ReadyInv, InstallInv, BakerInv, Idle, At, Installing, Modes, AskingKeys
<1>5. ToolInv
  BY DEF ToolInit, ToolInv, NoTool, Paths, Runnable
<1> QED
  BY <1>1, <1>2, <1>3, <1>4, <1>5 DEF IInv

(* A step of the machine is one of a command or one of the tool, which runs *)
(* while no other command does.                                             *)
LEMMA Steps ==
    ASSUME [Next]_HostVars
    PROVE  \/ HostNext /\ UNCHANGED toolVars
           \/ cmd = Idle /\ ToolNext /\ (runs' = runs \/ (runs < MaxRuns /\ runs' = runs + 1))
              /\ UNCHANGED <<config, octez, backend, hidden, etc, kept, live, wallet, baker, keys, plugged, named, cmd, faults>>
           \/ UNCHANGED HostVars
  BY DEF Next

(* The invariant does not depend on the tool, nor the tool on the rest.     *)
LEMMA OtherSteps ==
    ASSUME IInv, runs' \in 0 .. MaxRuns,
           UNCHANGED <<config, octez, backend, hidden, etc, kept, live, wallet, baker, keys, plugged, named, cmd, faults>>
    PROVE  /\ NamesOK' /\ EtcOK' /\ CountsOK' /\ WalletOK' /\ ChainOK' /\ CmdInv'
           /\ FilesInv' /\ KeysInv' /\ CleanIsClean'
           /\ SureInv' /\ PlainInv' /\ ReadyInv' /\ InstallInv' /\ BakerInv'
<1> USE DEF IInv, At
<1>1. NamesOK' /\ EtcOK' /\ CountsOK' /\ WalletOK' /\ ChainOK' /\ CmdInv'
  BY DEF NamesOK, EtcOK, CountsOK, WalletOK, ChainOK, CmdInv
<1>2. FilesInv' /\ KeysInv' /\ CleanIsClean'
  BY DEF FilesInv, KeysInv, CleanIsClean, Done, Imported, Names, RoleKeySetOnChain, Present, PresentAliases
<1>3. SureInv' /\ PlainInv' /\ InstallInv' /\ BakerInv'
  BY DEF SureInv, PlainInv, Deceptive, Names, InstallInv, BakerInv
<1>4. Outdated' = Outdated
  BY DEF Outdated, IfOutdated, FileNeedsUpdate
<1>5. ReadyInv'
  BY <1>4 DEF ReadyInv
<1> QED
  BY <1>1, <1>2, <1>3, <1>5

(* The invariant is kept by every step, and holds throughout.               *)
LEMMA AlwaysIInv == Spec => []IInv
<1>1. IInv /\ [Next]_HostVars => IInv'
  <2> SUFFICES ASSUME IInv, [Next]_HostVars PROVE IInv'
    OBVIOUS
  <2>1. CASE HostNext /\ UNCHANGED toolVars
    <3>1. ToolInv'
      BY <2>1 DEF IInv, ToolInv, toolVars
    <3> QED
      BY <2>1, <3>1, NamesStep, EtcStep, CountsStep, WalletStep, ChainStep, CmdStep, FilesStep,
         KeysStep, CleanStep, SureStep, PlainStep, ReadyStep, InstallStep, BakerStep DEF IInv
  <2>2. CASE /\ ToolNext /\ (runs' = runs \/ (runs < MaxRuns /\ runs' = runs + 1))
             /\ UNCHANGED <<config, octez, backend, hidden, etc, kept, live, wallet, baker, keys, plugged, named, cmd, faults>>
    <3>1. runs' \in 0 .. MaxRuns
      BY <2>2, HostAssumption DEF IInv, CountsOK
    <3>2. ToolInv'
      BY <2>2, ToolKept DEF IInv
    <3> QED
      BY <2>2, <3>1, <3>2, OtherSteps DEF IInv
  <2>3. CASE UNCHANGED HostVars
    <3>1. UNCHANGED vars /\ ToolInv'
      BY <2>3 DEF HostVars, toolVars, IInv, ToolInv
    <3>2. runs' \in 0 .. MaxRuns
      BY <3>1 DEF vars, IInv, CountsOK
    <3> QED
      BY <3>1, <3>2, OtherSteps DEF IInv, vars
  <2> QED
    BY <2>1, <2>2, <2>3, Steps
<1> QED
  BY InitIInv, <1>1, PTL DEF Spec

(* When setup completes with nothing skipped, both aliases name the keys of *)
(* one device at an endpoint that contains the host of the configured       *)
(* signer, which is what the code compares, and the chain has those keys,   *)
(* whatever was left by earlier runs and whichever devices were exchanged   *)
(* meanwhile (roles_correctly_imported, import_and_set_key).                *)
THEOREM SetupSets == Spec => []CompleteIsSet
<1>1. IInv => CompleteIsSet
  BY DEF IInv, KeysInv, CompleteIsSet, Done, Imported, At
<1> QED
  BY AlwaysIInv, <1>1, PTL

(* A purge that reports a clean machine has left no alias, and no file that *)
(* the user can see (run_purge, purge_is_clean).                            *)
THEOREM PurgeCleans == Spec => []CleanIsClean
<1>1. IInv => CleanIsClean
  BY DEF IInv
<1> QED
  BY AlwaysIInv, <1>1, PTL

(* No step of any command overwrites a file of /etc that was there before   *)
(* without a copy in a backup directory, but for one in a directory that    *)
(* the user cannot search (configure_network, backup_file_if_exists).       *)
THEOREM BackedUp == Spec => OverwrittenIsKept
<1>1. IInv /\ [Next]_HostVars =>
        [\A f \in Files \ hidden : etc[f] = "other" /\ etc'[f] \notin {"other", "none"} => f \in kept]_vars
  <2> SUFFICES ASSUME IInv, [Next]_HostVars, ~ UNCHANGED vars,
                      NEW f \in Files \ hidden, etc[f] = "other", etc'[f] \notin {"other", "none"}
               PROVE  f \in kept
    OBVIOUS
  <2>1. HostNext
    BY Steps DEF HostVars, vars
  <2> QED
    BY <2>1, EtcSteps DEF IInv
<1> QED
  BY AlwaysIInv, <1>1, PTL DEF Spec, OverwrittenIsKept

(* A setup that asks nothing and that nothing is in the way of completes:   *)
(* no step of it gives up on what earlier runs left in the configuration,   *)
(* the files, the wallet, the registration or the chain (run_setup).        *)
THEOREM SetupTakesUp == Spec => SetupResumes
<1>1. IInv /\ [Next]_HostVars => [cmd.sure /\ ~At("complete") => cmd' # Idle]_vars
  <2> SUFFICES ASSUME IInv, [Next]_HostVars, cmd.sure, ~At("complete")
               PROVE  cmd' # Idle
    OBVIOUS
  <2>1. cmd # Idle
    BY DEF Idle
  <2>2. CASE HostNext
    BY <2>2, SureGoesOn DEF IInv
  <2>3. CASE UNCHANGED HostVars
    BY <2>1, <2>3 DEF HostVars, vars
  <2> QED
    BY <2>1, <2>2, <2>3, Steps
<1> QED
  BY AlwaysIInv, <1>1, PTL DEF Spec, SetupResumes

(* However an upgrade of the installed binary or an installation stops, a   *)
(* binary that runs is left, and none that was not verified (run_upgrade).  *)
THEOREM ToolIsKept == Spec => ToolSurvives
<1>1. IInv /\ IInv' /\ [Next]_HostVars =>
        [/\ Usable /\ tool.path = "installed" => Usable'
         /\ \A p \in Paths : bin'[p] # "bad"]_toolVars
  <2> SUFFICES ASSUME IInv, IInv', [Next]_HostVars, ~ UNCHANGED toolVars
               PROVE  /\ Usable /\ tool.path = "installed" => Usable'
                      /\ \A p \in Paths : bin'[p] # "bad"
    OBVIOUS
  <2>1. ToolNext
    BY Steps DEF HostVars
  <2>2. \A p \in Paths : bin'[p] # "bad"
    BY DEF IInv, ToolInv
  <2> QED
    BY <2>1, <2>2, ToolRuns DEF IInv
<1> QED
  BY AlwaysIInv, <1>1, PTL DEF Spec, ToolSurvives

=============================================================================
