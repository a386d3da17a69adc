-------------------------- MODULE RotateKeysProofs --------------------------
(***************************************************************************)
(* Why the consensus alias follows the chain, for any devices, number of   *)
(* wallet files and faults, wherever runs are interrupted and resumed.     *)
(*                                                                         *)
(* A run remembers nothing of the one before it.  The invariant says what  *)
(* the places of the command have in common with the wallet's first file   *)
(* and with the chain: no backup exists before the promotion, nothing is   *)
(* pending on the chain from the swap on, and, until --replace drops an    *)
(* alias, what is pending on the chain is what the pending alias names;    *)
(* all this as long as no failed probe has misled a run.                   *)
(***************************************************************************)
EXTENDS RotateKeys, SequenceTheorems, TLAPS

-----------------------------------------------------------------------------
(* The inductive invariant.                                                 *)

Cur == Alias("consensus", "cur")
Pending == Alias("consensus", "pending")
Old == Alias("consensus", "old")

(* The places up to the activation, from there to the promotion, and after  *)
(* the promotion.                                                           *)
Before == {"clear", "connect", "discover", "import", "check", "resume",
           "offer", "submit", "poll", "reconnect", "monitor", "wait"}
Swapping == {"stop", "swap", "ready", "promote"}
After == {"start", "verify", "cleanup", "rollback"}

(* Roles left in a loop.                                                    *)
LeftInv ==
    /\ pc \in {"clear", "import", "submit"} => left \in {Order, <<"companion">>}
    /\ pc \in {"connect", "discover", "resume", "offer", "check"} => left = Order

(* What the place says of the chain and of the backups.                     *)
StageInv == ~ misled =>
    /\ pc \in Before \cup Swapping => ~ Exists("old")
    /\ pc \in Swapping \cup After \cup {"rename"} => ConsensusPending = NoKey
    /\ Exists("old") => ConsensusPending = NoKey
    /\ pc = "cleanup" => Cur = ActiveConsensusKey

(* What the place says of the run.                                          *)
ModeInv ==
    /\ pc \in {"clear", "resume", "connect"} => mode \in {"clean", "imported"}
    /\ pc \in {"clear", "resume"} /\ mode # "clean" => ConsensusPending = NoKey
    /\ pc = "resume" => mode = "imported"
    /\ pc \in {"discover", "check"} => mode = "clean"
    /\ pc \in {"import", "check"} => found # NoKey

(* Until --replace drops an alias, the pending alias is the key that is     *)
(* pending on the chain, or was and has become active.                      *)
PendingInv == ~ replaced /\ ~ misled =>
    /\ ConsensusPending # NoKey => ConsensusPending = Pending
    /\ pc \in {"reconnect", "monitor", "wait"} =>
         \/ ConsensusPending # NoKey
         \/ Pending = ActiveConsensusKey
         \/ pc = "reconnect" /\ opts.dry /\ mode = "clean"
    /\ pc \in Swapping => Pending = ActiveConsensusKey
    /\ pc \in {"clear", "resume"} /\ mode # "clean" => Pending # ActiveConsensusKey
    /\ pc = "import" => mode = "clean"
    /\ pc # "offer"

(* In a fresh rotation nothing is pending before the import.                *)
FreshInv == ~ replaced /\ ~ misled /\ mode = "clean" =>
    /\ pc \in {"connect", "discover", "import"} \/ (pc = "clear" /\ left # Order)
         => ConsensusPending = NoKey
    /\ pc \in {"connect", "discover"} \/ (pc = "clear" /\ left # Order)
       \/ (pc = "import" /\ left = Order) => Pending = NoKey

(* How far a promotion is: the current alias goes first, then the pending   *)
(* one takes its place.                                                     *)
JobInv ==
    /\ pc = "rename" <=> job.kind # "none"
    /\ job.kind # "none" => job.n \in 1 .. Len(job.plan)
    /\ job.kind = "promote" =>
        /\ job.plan = Promotion
        /\ ~ misled /\ job.n = 1 /\ job.file = 1 => Old = NoKey
        /\ job.n = 1 /\ job.file # 1 => Cur = NoKey
        /\ job.n = 2 => Cur = NoKey
        /\ job.n = 3 /\ job.file = 1 => Cur = NoKey
        /\ ~ replaced /\ ~ misled /\ (job.n < 3 \/ (job.n = 3 /\ job.file = 1))
             => Pending = ActiveConsensusKey

RotateInv == /\ TypeOK /\ LeftInv /\ StageInv /\ ModeInv /\ PendingInv
             /\ FreshInv /\ JobInv

-----------------------------------------------------------------------------
(* Operators of the model.                                                  *)

(* KeyRole::ALL has the two roles, the consensus key first.                 *)
LEMMA RolesAre ==
    /\ Roles = {"consensus", "companion"} /\ Order \in Seq(Roles)
    /\ Len(Order) = 2 /\ Head(Order) = "consensus" /\ Tail(Order) = <<"companion">>
    /\ Order # <<"companion">> /\ <<"companion">> \in Seq(Roles)
    /\ <<"consensus">> \in Seq(Roles) /\ <<>> \in Seq(Roles)
    /\ Len(<<"companion">>) = 1 /\ Head(<<"companion">>) = "companion"
<1>1. Roles = {"consensus", "companion"}
  BY DEF Roles, Order
<1> QED
  BY <1>1 DEF Order

(* The wallet's files, each with every alias; renames under way.            *)
Jobs == [kind : {"none", "promote", "undo", "rollback"},
         plan : Seq(Rename), n : Nat, file : Files, hit : BOOLEAN]
Wallets == [Files -> [Roles -> [Slots -> Devices \cup {NoKey}]]]

(* One alias of a role is changed in every file; one is moved in one file.  *)
WithAlias(w, r, t, k) == [f \in Files |-> [w[f] EXCEPT ![r][t] = k]]
Moved(w, f, r, a, b, k) == [w EXCEPT ![f][r][b] = k, ![f][r][a] = NoKey]

(* What changing an alias does.                                             *)
LEMMA SetAlias ==
    ASSUME NEW w \in Wallets, NEW r \in Roles, NEW s \in Slots,
           NEW k \in Devices \cup {NoKey}
    PROVE  /\ WithAlias(w, r, s, k) \in Wallets
           /\ \A f \in Files, q \in Roles, t \in Slots :
                WithAlias(w, r, s, k)[f][q][t] = IF q = r /\ t = s THEN k ELSE w[f][q][t]
<1> DEFINE v == WithAlias(w, r, s, k)
<1>1. \A f \in Files : w[f] \in [Roles -> [Slots -> Devices \cup {NoKey}]]
  BY DEF Wallets
<1>2. ASSUME NEW f \in Files
      PROVE  /\ v[f] \in [Roles -> [Slots -> Devices \cup {NoKey}]]
             /\ \A q \in Roles, t \in Slots :
                  v[f][q][t] = IF q = r /\ t = s THEN k ELSE w[f][q][t]
  BY <1>1 DEF WithAlias
<1>3. v = [f \in Files |-> v[f]]
  BY DEF WithAlias
<1> HIDE DEF v
<1>4. v \in Wallets /\ \A f \in Files, q \in Roles, t \in Slots :
                v[f][q][t] = IF q = r /\ t = s THEN k ELSE w[f][q][t]
  BY <1>2, <1>3 DEF Wallets
<1> QED
  BY <1>4 DEF v

(* rename_alias_locally on one file.                                        *)
LEMMA MoveAlias ==
    ASSUME NEW w \in Wallets, NEW f \in Files, NEW r \in Roles, NEW a \in Slots,
           NEW b \in Slots, NEW k \in Devices \cup {NoKey}
    PROVE  /\ Moved(w, f, r, a, b, k) \in Wallets
           /\ \A g \in Files, q \in Roles, t \in Slots :
                Moved(w, f, r, a, b, k)[g][q][t] =
                   IF g = f /\ q = r
                   THEN IF t = a THEN NoKey ELSE IF t = b THEN k ELSE w[g][q][t]
                   ELSE w[g][q][t]
<1> DEFINE v == Moved(w, f, r, a, b, k)
<1>1. \A g \in Files : w[g] \in [Roles -> [Slots -> Devices \cup {NoKey}]]
  BY DEF Wallets
<1>2. ASSUME NEW g \in Files
      PROVE  /\ v[g] \in [Roles -> [Slots -> Devices \cup {NoKey}]]
             /\ \A q \in Roles, t \in Slots :
                v[g][q][t] = IF g = f /\ q = r
                             THEN IF t = a THEN NoKey ELSE IF t = b THEN k ELSE w[g][q][t]
                             ELSE w[g][q][t]
  BY <1>1 DEF Wallets, Moved
<1>3. v = [g \in Files |-> v[g]]
  BY DEF Wallets, Moved
<1> HIDE DEF v
<1>4. v \in Wallets /\ \A g \in Files, q \in Roles, t \in Slots :
                v[g][q][t] = IF g = f /\ q = r
                             THEN IF t = a THEN NoKey ELSE IF t = b THEN k ELSE w[g][q][t]
                             ELSE w[g][q][t]
  BY <1>2, <1>3 DEF Wallets
<1> QED
  BY <1>4 DEF v

(* What detect_rotation_state tells of the chain, and, with no failed       *)
(* probe, of the wallet.                                                    *)
LEMMA DetectedMeans ==
    /\ \A m \in Seen :
         /\ m \in Modes
         /\ m \in {"clean", "imported", "activated"} => ConsensusPending = NoKey
         /\ m \in {"pending", "chainonly"} => ConsensusPending # NoKey
    /\ Truth = "partial" <=> Exists("old")
    /\ Truth \in {"clean", "chainonly"} => ~ Exists("pending")
    /\ Truth = "activated" => Pending = ActiveConsensusKey
    /\ Truth = "imported" => Pending # ActiveConsensusKey
<1>1. ASSUME NEW old \in BOOLEAN, NEW pending \in BOOLEAN, NEW hash
      PROVE  LET m == Detected(old, pending, hash) IN
               /\ m \in Modes
               /\ m \in {"clean", "imported", "activated"} => ConsensusPending = NoKey
               /\ m \in {"pending", "chainonly"} => ConsensusPending # NoKey
               /\ m = "partial" <=> old
               /\ m \in {"clean", "chainonly"} => ~ pending
               /\ m = "activated" => hash = ActiveConsensusKey
               /\ m = "imported" => hash # ActiveConsensusKey
  BY DEF Detected, Modes
<1>2. Exists("old") \in BOOLEAN /\ Exists("pending") \in BOOLEAN
  BY DEF Exists
<1>3. ASSUME NEW m \in Seen
      PROVE  /\ m \in Modes
             /\ m \in {"clean", "imported", "activated"} => ConsensusPending = NoKey
             /\ m \in {"pending", "chainonly"} => ConsensusPending # NoKey
  <2>1. PICK old \in {Exists("old"), FALSE}, pending \in {Exists("pending"), FALSE},
             hash \in {Alias("consensus", "pending"), NoKey} :
          m = Detected(old, pending, hash)
    BY DEF Seen
  <2>2. old \in BOOLEAN /\ pending \in BOOLEAN
    BY <1>2
  <2>3. \/ old /\ m = "partial"
        \/ m \in {"pending", "chainonly"} /\ ConsensusPending # NoKey
        \/ m \in {"clean", "activated", "imported"} /\ ConsensusPending = NoKey
    BY <2>1, <2>2 DEF Detected
  <2> QED
    BY <2>3 DEF Modes
<1> QED
  BY <1>1, <1>2, <1>3 DEF Truth, Pending

(* Where a run starts.                                                      *)
LEMMA RunDoes ==
    ASSUME NEW d \in Devices, NEW replace \in MayReplace, NEW dry \in MayDry,
           Run(d, replace, dry)
    PROVE  \E m \in Modes :
             /\ IF replace THEN HandleReplaceFlag(m) ELSE HandleResumedState(m)
             /\ m \in {"clean", "imported", "activated"} => ConsensusPending = NoKey
             /\ m \in {"pending", "chainonly"} => ConsensusPending # NoKey
             /\ (misled' = TRUE) \/ UNCHANGED misled
             /\ UNCHANGED <<wallet, chain, replaced>>
             /\ ~ misled' => /\ ~ misled
                             /\ m = "partial" <=> Exists("old")
                             /\ m \in {"clean", "chainonly"} => ~ Exists("pending")
                             /\ m = "activated" => Pending = ActiveConsensusKey
                             /\ m = "imported" => Pending # ActiveConsensusKey
<1>1. PICK m \in Seen :
        /\ IF replace THEN HandleReplaceFlag(m) ELSE HandleResumedState(m)
        /\ IF m = Truth THEN UNCHANGED misled ELSE misled' = TRUE
  BY DEF Run
<1>4. UNCHANGED <<wallet, chain, replaced>>
  BY DEF Run
<1>2. /\ m \in Modes
      /\ m \in {"clean", "imported", "activated"} => ConsensusPending = NoKey
      /\ m \in {"pending", "chainonly"} => ConsensusPending # NoKey
  BY <1>1, DetectedMeans
<1>3. ~ misled' => ~ misled /\ m = Truth
  BY <1>1
<1> QED
  BY <1>1, <1>2, <1>3, <1>4, DetectedMeans

(* Renames of a plan are renames.                                           *)
LEMMA PlansAre ==
    /\ Promotion \in Seq(Rename) /\ Len(Promotion) = 4
    /\ Restore \in Seq(Rename) /\ Len(Restore) = 2
    /\ \A i \in 2 .. 4 : Undo(i) \in Seq(Rename) /\ Len(Undo(i)) \in 1 .. 3
<1> USE RolesAre DEF R, Rename, Slots
<1>1. Promotion \in Seq(Rename) /\ Len(Promotion) = 4
  BY DEF Promotion
<1>2. /\ Restore \in Seq(Rename) /\ Len(Restore) = 2
      /\ Restore[1] \in Rename
  BY DEF Restore
<1>3. Undo(2) \in Seq(Rename) /\ Len(Undo(2)) = 1
  BY <1>2 DEF Undo
<1>4. Undo(3) \in Seq(Rename) /\ Len(Undo(3)) = 2
  BY <1>2 DEF Undo
<1>5. Undo(4) \in Seq(Rename) /\ Len(Undo(4)) = 3
  <2>1. PICK x \in Rename : x = R("consensus", "cur", "pending")
    OBVIOUS
  <2> HIDE DEF R, Rename
  <2>2. <<x>> \in Seq(Rename) /\ Len(<<x>>) = 1
    OBVIOUS
  <2>3. PICK u : u = <<x>>
    OBVIOUS
  <2>4. Undo(4) = u \o Restore
    BY <2>1, <2>3 DEF Undo
  <2>5. u \o Restore \in Seq(Rename) /\ Len(u \o Restore) = Len(u) + Len(Restore)
    BY <1>2, <2>2, <2>3, ConcatProperties
  <2>6. Len(u) = 1 /\ Len(Restore) = 2
    BY <1>2, <2>2, <2>3
  <2>7. Len(u \o Restore) = 3
    BY <2>5, <2>6
  <2> QED
    BY <2>4, <2>5, <2>7
<1> QED
  BY <1>1, <1>2, <1>3, <1>4, <1>5


(* A rename in a file that can be read.                                     *)
Renames == RenameInFile /\ job.file \notin broken

(* How a rename goes on: with the next file, the next rename, the undo of   *)
(* the ones made, or not at all.                                            *)
LEMMA RenameGoes ==
    ASSUME RotateInv, RenameInFile \/ RenameFails
    PROVE  /\ pc = "rename" /\ job.kind # "none"
           /\ rolledBack' \in BOOLEAN /\ torn' \in BOOLEAN /\ result' \in Results
           /\ \/ /\ pc' = "rename" /\ job.file < NumFiles /\ Renames
                 /\ \E h \in BOOLEAN : job' = [job EXCEPT !.file = @ + 1, !.hit = h]
              \/ /\ pc' = "rename" /\ job.n < Len(job.plan)
                 /\ job' = [job EXCEPT !.n = @ + 1, !.file = 1, !.hit = FALSE]
                 /\ job.kind = "promote" => Renames
              \/ pc' = "rename" /\ job.kind = "promote" /\ job.n > 1
                 /\ job' = Job("undo", Undo(job.n))
              \/ pc' = "start" /\ job' = NoJob
              \/ pc' = "idle" /\ job' = NoJob
<1> USE DEF RotateInv, TypeOK, Results
<1>1. /\ pc = "rename" /\ job.kind \in {"promote", "undo", "rollback"}
      /\ rolledBack \in BOOLEAN /\ torn \in BOOLEAN
  BY DEF JobInv, RenameInFile, RenameFails
<1> DEFINE Goes ==
     /\ rolledBack' \in BOOLEAN /\ torn' \in BOOLEAN /\ result' \in Results
     /\ \/ /\ pc' = "rename" /\ job.n < Len(job.plan)
           /\ job' = [job EXCEPT !.n = @ + 1, !.file = 1, !.hit = FALSE]
        \/ pc' = "start" /\ job' = NoJob
        \/ pc' = "idle" /\ job' = NoJob
<1>2. NextRename => Goes
  BY <1>1 DEF NextRename, Goto, EndWith
<1>3. FailedRename => \/ Goes /\ (job.kind = "promote" => pc' = "idle")
                      \/ /\ pc' = "rename" /\ job.kind = "promote" /\ job.n > 1
                         /\ job' = Job("undo", Undo(job.n))
                         /\ UNCHANGED <<rolledBack, torn, result>>
  <2>1. CASE job.kind = "promote" /\ job.n > 1
    BY <2>1 DEF FailedRename, Goto
  <2>2. CASE job.kind = "undo"
    BY <2>2, <1>2 DEF FailedRename
  <2>3. CASE job.kind # "undo" /\ ~ (job.kind = "promote" /\ job.n > 1)
    BY <1>1, <2>3 DEF FailedRename, EndWith
  <2> QED
    BY <2>1, <2>2, <2>3
<1>4. CASE Renames
  <2>1. CASE job.file < NumFiles
    <3>1. /\ Goto("rename") /\ UNCHANGED rolledBack
          /\ \E h \in BOOLEAN : job' = [job EXCEPT !.file = @ + 1, !.hit = h]
      BY <1>4, <2>1 DEF Renames, RenameInFile
    <3> QED
      BY <1>1, <1>4, <2>1, <3>1 DEF Goto
  <2>2. CASE ~ (job.file < NumFiles)
    <3>1. NextRename \/ FailedRename
      BY <1>4, <2>2 DEF Renames, RenameInFile
    <3> QED
      BY <1>1, <1>2, <1>3, <1>4, <3>1
  <2> QED
    BY <2>1, <2>2
<1>5. CASE RenameInFile /\ job.file \in broken
  <2>1. FailedRename
    BY <1>5 DEF RenameInFile
  <2> QED
    BY <1>1, <1>3, <2>1
<1>6. CASE RenameFails
  <2>1. FailedRename \/ (job' = NoJob /\ EndWith("error", wallet') /\ UNCHANGED rolledBack)
    BY <1>6 DEF RenameFails
  <2>2. EndWith("error", wallet') =>
          pc' = "idle" /\ torn' \in BOOLEAN /\ result' \in Results
    BY <1>1 DEF EndWith
  <2> QED
    BY <1>1, <1>3, <2>1, <2>2
<1> QED
  BY <1>4, <1>5, <1>6 DEF Renames


-----------------------------------------------------------------------------
(* Types.                                                                   *)

(* The invariant holds at the start.                                        *)
LEMMA RotateInitInv == Init => RotateInv
<1> SUFFICES ASSUME Init PROVE RotateInv
  OBVIOUS
<1> USE DEF Init
<1>1. NumFiles \in Nat \ {0} /\ MaxFaults \in Nat /\ First \in Devices /\ NoKey \notin Devices
  BY RotateAssumption
<1>2. wallet \in Wallets
  BY <1>1 DEF Wallets
<1>3. 1 \in Files
  BY <1>1 DEF Files
<1>4. /\ Alias("consensus", "cur") = First /\ ~ Exists("pending") /\ ~ Exists("old")
      /\ Alias("consensus", "pending") = NoKey
  BY <1>1, <1>3, RolesAre DEF Alias, Exists, Slots
<1>5. ConsensusPending = NoKey
  BY RolesAre DEF ConsensusPending
<1>6. job \in [kind : {"none", "promote", "undo", "rollback"},
               plan : Seq(Rename), n : Nat, file : Files, hit : BOOLEAN]
  BY <1>3 DEF NoJob
<1>7. TypeOK
  <2>1. active \in [Roles -> Devices] /\ pend \in [Roles -> Devices \cup {NoKey}]
    BY <1>1
  <2>2. left \in Seq(Roles) /\ faults \in 0 .. MaxFaults
    BY <1>1
  <2> QED
    BY <1>1, <1>2, <1>6, <2>1, <2>2 DEF TypeOK, Wallets, Steps, Modes, Results
<1> QED
  BY <1>4, <1>5, <1>7 DEF RotateInv, LeftInv, StageInv, ModeInv, PendingInv, FreshInv, JobInv,
     Before, Swapping, After, NoJob


(* The type invariant, by part.                                             *)
ChainType == active \in [Roles -> Devices] /\ pend \in [Roles -> Devices \cup {NoKey}]
FlowType == pc \in Steps /\ result \in Results
RunType == /\ attached \in Devices /\ mode \in Modes
           /\ opts \in [replace : BOOLEAN, dry : BOOLEAN]
           /\ found \in Devices \cup {NoKey} /\ current \in Devices \cup {NoKey}
FlagType == /\ baker \in BOOLEAN /\ unremoved \in BOOLEAN /\ replaced \in BOOLEAN
            /\ torn \in BOOLEAN /\ rolledBack \in BOOLEAN /\ misled \in BOOLEAN
            /\ broken \subseteq Files

(* The parts are the whole.                                                 *)
LEMMA TypeParts ==
    TypeOK <=> /\ wallet \in Wallets /\ ChainType /\ FlowType /\ RunType /\ FlagType
               /\ left \in Seq(Roles) /\ job \in Jobs /\ faults \in 0 .. MaxFaults
  BY DEF TypeOK, Wallets, Jobs, ChainType, FlowType, RunType, FlagType

(* The parts are the whole after a step.                                    *)
LEMMA TypePartsNext ==
    (/\ wallet' \in Wallets /\ ChainType' /\ FlowType' /\ RunType' /\ FlagType'
     /\ left' \in Seq(Roles) /\ job' \in Jobs /\ faults' \in 0 .. MaxFaults) => TypeOK'
  BY DEF TypeOK, Wallets, Jobs, ChainType, FlowType, RunType, FlagType

(* What the constants and a loop's roles are.                               *)
LEMMA Basics ==
    ASSUME RotateInv
    PROVE  /\ wallet \in Wallets /\ ChainType /\ FlowType /\ RunType /\ FlagType
           /\ left \in Seq(Roles) /\ job \in Jobs /\ faults \in 0 .. MaxFaults
           /\ 1 \in Files /\ "pending" \in Slots /\ "old" \in Slots /\ "cur" \in Slots
           /\ NumFiles \in Nat /\ MaxFaults \in Nat /\ NoKey \notin Devices
           /\ "consensus" \in Roles /\ "companion" \in Roles
           /\ pc \in {"clear", "import", "submit"} =>
                Head(left) \in Roles /\ (Len(left) > 1 => Tail(left) \in Seq(Roles))
<1>1. /\ 1 \in Files /\ NumFiles \in Nat /\ MaxFaults \in Nat /\ NoKey \notin Devices
  BY RotateAssumption DEF Files
<1>2. pc \in {"clear", "import", "submit"} =>
        Head(left) \in Roles /\ (Len(left) > 1 => Tail(left) \in Seq(Roles))
  BY RolesAre DEF RotateInv, LeftInv
<1> QED
  BY <1>1, <1>2, TypeParts, RolesAre DEF RotateInv, Slots

(* A rename of the plan under way.                                          *)
LEMMA RenameIs ==
    ASSUME RotateInv, pc = "rename"
    PROVE  /\ job.kind \in {"promote", "undo", "rollback"} /\ job.n \in 1 .. Len(job.plan)
           /\ job.plan[job.n] \in Rename /\ job.plan[job.n].role \in Roles
           /\ job.plan[job.n].from \in Slots /\ job.plan[job.n].to \in Slots
           /\ job.file \in Files /\ job.plan \in Seq(Rename) /\ job.n \in Nat
           /\ job.hit \in BOOLEAN
<1>1. job \in Jobs
  BY Basics
<1>2. /\ job.kind \in {"promote", "undo", "rollback"} /\ job.n \in 1 .. Len(job.plan)
      /\ job.plan \in Seq(Rename) /\ job.file \in Files /\ job.hit \in BOOLEAN
  BY <1>1 DEF RotateInv, JobInv, Jobs
<1>3. job.plan[job.n] \in Rename
  BY <1>2
<1> QED
  BY <1>2, <1>3 DEF Rename


(* The rename at hand, and the key it moves.                                *)
RenameNow == job.plan[job.n]
KeyNow == wallet[job.file][RenameNow.role][RenameNow.from]

(* What rename_alias_locally does to the wallet.                            *)
LEMMA RenameMoves ==
    ASSUME Renames
    PROVE  wallet' = IF KeyNow = NoKey THEN wallet
                     ELSE Moved(wallet, job.file, RenameNow.role, RenameNow.from, RenameNow.to,
                                KeyNow)
  BY DEF Renames, RenameInFile, Moved, KeyNow, RenameNow

(* What a write that is cut off does to it: only that file is lost.         *)
LEMMA CutOffDoes ==
    ASSUME RotateInv, CutOff
    PROVE  /\ wallet' \in Wallets /\ job.file \in broken'
           /\ \/ wallet'[1] = wallet[1]
              \/ \A r \in Roles, s \in Slots : wallet'[1][r][s] = NoKey
<1>1. wallet \in Wallets /\ 1 \in Files
  BY Basics
<1> DEFINE lost == [r \in Roles |-> [s \in Slots |-> NoKey]]
<1>2. lost \in [Roles -> [Slots -> Devices \cup {NoKey}]]
  OBVIOUS
<1>3. wallet' = [wallet EXCEPT ![job.file] = lost] /\ job.file \in broken'
  BY DEF CutOff
<1>4. \A r \in Roles, s \in Slots : lost[r][s] = NoKey
  OBVIOUS
<1> HIDE DEF lost
<1>5. wallet' \in Wallets
  BY <1>1, <1>2, <1>3 DEF Wallets
<1>6. wallet'[1] = IF job.file = 1 THEN lost ELSE wallet[1]
  BY <1>1, <1>3 DEF Wallets
<1> QED
  BY <1>3, <1>4, <1>5, <1>6


(* The wallet keeps its form.                                               *)
LEMMA WalletStep ==
    ASSUME RotateInv, [Next]_vars
    PROVE  wallet' \in Wallets
<1>a. /\ wallet \in Wallets /\ "pending" \in Slots /\ "old" \in Slots
      /\ NoKey \in Devices \cup {NoKey}
  BY Basics
<1>1. ASSUME NEW d \in Devices, NEW replace \in MayReplace, NEW dry \in MayDry,
             Run(d, replace, dry)
      PROVE  wallet' \in Wallets
  BY <1>1, <1>a DEF Run
<1>2. CASE Clear
  <2>1. PICK r \in Roles : r = Head(left)
    BY <1>2, Basics DEF Clear
  <2>2. wallet' = WithAlias(wallet, r, "pending", NoKey)
    BY <1>2, <2>1 DEF Clear, Forgotten, WithAlias
  <2> QED
    BY <1>a, <2>2, SetAlias
<1>3. CASE ResumeImported
  BY <1>3, <1>a DEF ResumeImported
<1>4. CASE Connect
  BY <1>4, <1>a DEF Connect
<1>5. CASE Discover
  BY <1>5, <1>a DEF Discover
<1>6. CASE ImportNewKeys
  <2>1. CASE SignerHolds(found)
    <3>1. PICK r \in Roles : r = Head(left)
      BY <1>6, Basics DEF ImportNewKeys
    <3>2. PICK k \in Devices \cup {NoKey} : k = found
      BY Basics DEF RunType
    <3>3. wallet' = WithAlias(wallet, r, "pending", k)
      BY <1>6, <2>1, <3>1, <3>2 DEF ImportNewKeys, WithAlias
    <3> QED
      BY <1>a, <3>3, SetAlias
  <2>2. CASE ~ SignerHolds(found)
    BY <1>6, <1>a, <2>2 DEF ImportNewKeys
  <2> QED
    BY <2>1, <2>2
<1>7. CASE CheckExistingPendingKeys
  BY <1>7, <1>a DEF CheckExistingPendingKeys
<1>8. CASE ImportPending
  BY <1>8, <1>a DEF ImportPending
<1>9. CASE SubmitKeyRotationTransactions
  BY <1>9, <1>a DEF SubmitKeyRotationTransactions
<1>10. CASE PollForPendingActivation
  BY <1>10, <1>a DEF PollForPendingActivation
<1>11. CASE Reconnect
  BY <1>11, <1>a DEF Reconnect
<1>12. CASE RunActivationMonitoring
  BY <1>12, <1>a DEF RunActivationMonitoring, OfferToWait
<1>13. CASE ResumeFromPending
  BY <1>13, <1>a DEF ResumeFromPending, OfferToWait
<1>14. CASE WaitForActivation
  BY <1>14, <1>a DEF WaitForActivation
<1>15. CASE StopBaker
  BY <1>15, <1>a DEF StopBaker
<1>16. CASE Swap
  BY <1>16, <1>a DEF Swap
<1>17. CASE CompleteRotation
  BY <1>17, <1>a DEF CompleteRotation
<1>18. CASE PromoteAliasesWithBackup
  BY <1>18, <1>a DEF PromoteAliasesWithBackup
<1>19. CASE RenameInFile
  <2>1. PICK r \in Roles, a \in Slots, b \in Slots, f \in Files :
          r = job.plan[job.n].role /\ a = job.plan[job.n].from /\ b = job.plan[job.n].to
          /\ f = job.file
    BY <1>19, RenameIs DEF RenameInFile
  <2>2. PICK k \in Devices \cup {NoKey} : k = wallet[f][r][a]
    BY <1>a DEF Wallets
  <2>3. Renames => wallet' = IF k = NoKey THEN wallet ELSE Moved(wallet, f, r, a, b, k)
    BY <1>19, <2>1, <2>2, RenameMoves DEF RenameNow, KeyNow
  <2>4. CASE UNCHANGED wallet
    BY <1>a, <2>4
  <2>5. CASE Renames /\ k # NoKey
    <3>1. wallet' = Moved(wallet, f, r, a, b, k)
      BY <2>3, <2>5
    <3> QED
      BY <1>a, <3>1, MoveAlias
  <2>6. UNCHANGED wallet \/ (Renames /\ k # NoKey)
    BY <1>19, <2>3 DEF Renames, RenameInFile
  <2> QED
    BY <2>4, <2>5, <2>6
<1>20. CASE StartBaker
  BY <1>20, <1>a DEF StartBaker
<1>21. CASE BakerIsRunning
  BY <1>21, <1>a DEF BakerIsRunning
<1>22. CASE VerifyBakerSigning
  BY <1>22, <1>a DEF VerifyBakerSigning
<1>23. CASE CleanupBackupAliases
  <2>1. CASE UNCHANGED wallet
    BY <1>a, <2>1
  <2>2. CASE left # <<>> /\ wallet' = Forgotten(Head(left), "old")
    <3>1. PICK r \in Roles : r = Head(left)
      BY <2>2, Basics
    <3>2. wallet' = WithAlias(wallet, r, "old", NoKey)
      BY <2>2, <3>1 DEF Forgotten, WithAlias
    <3> QED
      BY <1>a, <3>2, SetAlias
  <2> QED
    BY <1>23, <2>1, <2>2 DEF CleanupBackupAliases
<1>24. CASE OfferRollback
  BY <1>24, <1>a DEF OfferRollback
<1>25. CASE RenameFails
  BY <1>25, <1>a, CutOffDoes DEF RenameFails
<1>26. CASE Abort
  BY <1>26, <1>a DEF Abort
<1>27. CASE Disturb
  BY <1>27, <1>a DEF Disturb
<1>28. ASSUME NEW r \in Roles, ActivateKey(r) PROVE wallet' \in Wallets
  BY <1>28, <1>a DEF ActivateKey
<1>29. CASE UNCHANGED vars
  BY <1>29, <1>a DEF vars
<1> QED
  BY <1>1, <1>2, <1>3, <1>4, <1>5, <1>6, <1>7, <1>8, <1>9, <1>10,
     <1>11, <1>12, <1>13, <1>14, <1>15, <1>16, <1>17, <1>18, <1>19, <1>20,
     <1>21, <1>22, <1>23, <1>24, <1>25, <1>26, <1>27, <1>28, <1>29
     DEF Next, Step


(* A key is named on the chain for each role.                               *)
LEMMA ChainStep ==
    ASSUME RotateInv, [Next]_vars
    PROVE  ChainType'
<1> USE DEF chain, ChainType
<1>a. ChainType /\ wallet \in Wallets /\ "pending" \in Slots /\ 1 \in Files
  BY Basics
<1>1. ASSUME NEW d \in Devices, NEW replace \in MayReplace, NEW dry \in MayDry,
             Run(d, replace, dry)
      PROVE  ChainType'
  BY <1>1, <1>a DEF Run
<1>2. CASE Clear
  BY <1>2, <1>a DEF Clear
<1>3. CASE ResumeImported
  BY <1>3, <1>a DEF ResumeImported
<1>4. CASE Connect
  BY <1>4, <1>a DEF Connect
<1>5. CASE Discover
  BY <1>5, <1>a DEF Discover
<1>6. CASE ImportNewKeys
  BY <1>6, <1>a DEF ImportNewKeys
<1>7. CASE CheckExistingPendingKeys
  BY <1>7, <1>a DEF CheckExistingPendingKeys
<1>8. CASE ImportPending
  BY <1>8, <1>a DEF ImportPending
<1>9. CASE SubmitKeyRotationTransactions
  <2>1. PICK r \in Roles : r = Head(left)
    BY <1>9, Basics DEF SubmitKeyRotationTransactions
  <2>2. PICK k \in Devices \cup {NoKey} : k = Alias(r, "pending")
    BY <1>a DEF Wallets, Alias
  <2>3. pend' \in {pend, [pend EXCEPT ![r] = k]} /\ UNCHANGED active
    BY <1>9, <2>1, <2>2 DEF SubmitKeyRotationTransactions
  <2> QED
    BY <1>a, <2>3
<1>10. CASE PollForPendingActivation
  BY <1>10, <1>a DEF PollForPendingActivation
<1>11. CASE Reconnect
  BY <1>11, <1>a DEF Reconnect
<1>12. CASE RunActivationMonitoring
  BY <1>12, <1>a DEF RunActivationMonitoring, OfferToWait
<1>13. CASE ResumeFromPending
  BY <1>13, <1>a DEF ResumeFromPending, OfferToWait
<1>14. CASE WaitForActivation
  BY <1>14, <1>a DEF WaitForActivation
<1>15. CASE StopBaker
  BY <1>15, <1>a DEF StopBaker
<1>16. CASE Swap
  BY <1>16, <1>a DEF Swap
<1>17. CASE CompleteRotation
  BY <1>17, <1>a DEF CompleteRotation
<1>18. CASE PromoteAliasesWithBackup
  BY <1>18, <1>a DEF PromoteAliasesWithBackup
<1>19. CASE RenameInFile
  BY <1>19, <1>a DEF RenameInFile
<1>20. CASE StartBaker
  BY <1>20, <1>a DEF StartBaker
<1>21. CASE BakerIsRunning
  BY <1>21, <1>a DEF BakerIsRunning
<1>22. CASE VerifyBakerSigning
  BY <1>22, <1>a DEF VerifyBakerSigning
<1>23. CASE CleanupBackupAliases
  BY <1>23, <1>a DEF CleanupBackupAliases
<1>24. CASE OfferRollback
  BY <1>24, <1>a DEF OfferRollback
<1>25. CASE RenameFails
  BY <1>25, <1>a DEF RenameFails
<1>26. CASE Abort
  BY <1>26, <1>a DEF Abort
<1>27. CASE Disturb
  BY <1>27, <1>a DEF Disturb
<1>28. ASSUME NEW r \in Roles, ActivateKey(r) PROVE ChainType'
  BY <1>28, <1>a DEF ActivateKey
<1>29. CASE UNCHANGED vars
  BY <1>29, <1>a DEF vars
<1> QED
  BY <1>1, <1>2, <1>3, <1>4, <1>5, <1>6, <1>7, <1>8, <1>9, <1>10,
     <1>11, <1>12, <1>13, <1>14, <1>15, <1>16, <1>17, <1>18, <1>19, <1>20,
     <1>21, <1>22, <1>23, <1>24, <1>25, <1>26, <1>27, <1>28, <1>29
     DEF Next, Step


(* The command is at one of its places.                                     *)
LEMMA FlowStep ==
    ASSUME RotateInv, [Next]_vars
    PROVE  FlowType'
<1> USE DEF FlowType, Steps, Results, EndWith, End, Start, Goto
<1>a. FlowType
  BY Basics
<1>1. ASSUME NEW d \in Devices, NEW replace \in MayReplace, NEW dry \in MayDry,
             Run(d, replace, dry)
      PROVE  FlowType'
  <2>1. CASE replace
    BY <1>1, <1>a, <2>1, RunDoes DEF HandleReplaceFlag
  <2>2. CASE ~ replace
    BY <1>1, <1>a, <2>2, RunDoes DEF HandleResumedState, Modes
  <2> QED
    BY <2>1, <2>2
<1>2. CASE Clear
  BY <1>2, <1>a DEF Clear
<1>3. CASE ResumeImported
  BY <1>3, <1>a DEF ResumeImported
<1>4. CASE Connect
  BY <1>4, <1>a DEF Connect
<1>5. CASE Discover
  BY <1>5, <1>a DEF Discover
<1>6. CASE ImportNewKeys
  BY <1>6, <1>a DEF ImportNewKeys
<1>7. CASE CheckExistingPendingKeys
  BY <1>7, <1>a DEF CheckExistingPendingKeys
<1>8. CASE ImportPending
  BY <1>8, <1>a DEF ImportPending
<1>9. CASE SubmitKeyRotationTransactions
  BY <1>9, <1>a DEF SubmitKeyRotationTransactions
<1>10. CASE PollForPendingActivation
  BY <1>10, <1>a DEF PollForPendingActivation
<1>11. CASE Reconnect
  BY <1>11, <1>a DEF Reconnect
<1>12. CASE RunActivationMonitoring
  BY <1>12, <1>a DEF RunActivationMonitoring, OfferToWait
<1>13. CASE ResumeFromPending
  BY <1>13, <1>a DEF ResumeFromPending, OfferToWait
<1>14. CASE WaitForActivation
  BY <1>14, <1>a DEF WaitForActivation
<1>15. CASE StopBaker
  BY <1>15, <1>a DEF StopBaker
<1>16. CASE Swap
  BY <1>16, <1>a DEF Swap
<1>17. CASE CompleteRotation
  BY <1>17, <1>a DEF CompleteRotation
<1>18. CASE PromoteAliasesWithBackup
  BY <1>18, <1>a DEF PromoteAliasesWithBackup
<1>19. CASE RenameInFile
  BY <1>19, RenameGoes
<1>20. CASE StartBaker
  BY <1>20, <1>a DEF StartBaker
<1>21. CASE BakerIsRunning
  BY <1>21, <1>a DEF BakerIsRunning
<1>22. CASE VerifyBakerSigning
  BY <1>22, <1>a DEF VerifyBakerSigning
<1>23. CASE CleanupBackupAliases
  BY <1>23, <1>a DEF CleanupBackupAliases
<1>24. CASE OfferRollback
  BY <1>24, <1>a DEF OfferRollback
<1>25. CASE RenameFails
  BY <1>25, RenameGoes
<1>26. CASE Abort
  BY <1>26, <1>a DEF Abort
<1>27. CASE Disturb
  BY <1>27, <1>a DEF Disturb
<1>28. ASSUME NEW r \in Roles, ActivateKey(r) PROVE FlowType'
  BY <1>28, <1>a DEF ActivateKey
<1>29. CASE UNCHANGED vars
  BY <1>29, <1>a DEF vars
<1> QED
  BY <1>1, <1>2, <1>3, <1>4, <1>5, <1>6, <1>7, <1>8, <1>9, <1>10,
     <1>11, <1>12, <1>13, <1>14, <1>15, <1>16, <1>17, <1>18, <1>19, <1>20,
     <1>21, <1>22, <1>23, <1>24, <1>25, <1>26, <1>27, <1>28, <1>29
     DEF Next, Step


(* A loop goes over roles.                                                  *)
LEMMA LeftTypeStep ==
    ASSUME RotateInv, [Next]_vars
    PROVE  left' \in Seq(Roles)
<1>a. left \in Seq(Roles)
  BY Basics
<1>1. ASSUME NEW d \in Devices, NEW replace \in MayReplace, NEW dry \in MayDry,
             Run(d, replace, dry)
      PROVE  left' \in Seq(Roles)
  BY <1>1, <1>a, RolesAre DEF Run
<1>2. CASE Clear
  BY <1>2, <1>a, RolesAre, Basics DEF Clear
<1>3. CASE ResumeImported
  BY <1>3, <1>a DEF ResumeImported
<1>4. CASE Connect
  BY <1>4, <1>a DEF Connect
<1>5. CASE Discover
  BY <1>5, <1>a DEF Discover
<1>6. CASE ImportNewKeys
  BY <1>6, <1>a, RolesAre, Basics DEF ImportNewKeys
<1>7. CASE CheckExistingPendingKeys
  BY <1>7, <1>a DEF CheckExistingPendingKeys
<1>8. CASE ImportPending
  BY <1>8, <1>a DEF ImportPending
<1>9. CASE SubmitKeyRotationTransactions
  BY <1>9, <1>a, RolesAre, Basics DEF SubmitKeyRotationTransactions
<1>10. CASE PollForPendingActivation
  BY <1>10, <1>a DEF PollForPendingActivation
<1>11. CASE Reconnect
  BY <1>11, <1>a DEF Reconnect
<1>12. CASE RunActivationMonitoring
  BY <1>12, <1>a DEF RunActivationMonitoring, OfferToWait
<1>13. CASE ResumeFromPending
  BY <1>13, <1>a DEF ResumeFromPending, OfferToWait
<1>14. CASE WaitForActivation
  BY <1>14, <1>a DEF WaitForActivation
<1>15. CASE StopBaker
  BY <1>15, <1>a DEF StopBaker
<1>16. CASE Swap
  BY <1>16, <1>a DEF Swap
<1>17. CASE CompleteRotation
  BY <1>17, <1>a DEF CompleteRotation
<1>18. CASE PromoteAliasesWithBackup
  BY <1>18, <1>a DEF PromoteAliasesWithBackup
<1>19. CASE RenameInFile
  BY <1>19, <1>a DEF RenameInFile
<1>20. CASE StartBaker
  BY <1>20, <1>a DEF StartBaker
<1>21. CASE BakerIsRunning
  BY <1>21, <1>a DEF BakerIsRunning
<1>22. CASE VerifyBakerSigning
  <2>0. CASE UNCHANGED left
    BY <1>a, <2>0
  <2> SUFFICES ASSUME NEW seen, left' = BackedUp(seen)
               PROVE  left' \in Seq(Roles)
    BY <1>22, <2>0 DEF VerifyBakerSigning
  <2>1. PICK a \in Seq(Roles) :
          a = IF "consensus" \in seen THEN <<"consensus">> ELSE <<>>
    <3>1. <<"consensus">> \in Seq(Roles) /\ <<>> \in Seq(Roles)
      BY RolesAre
    <3> QED
      BY <3>1
  <2>2. PICK b \in Seq(Roles) :
          b = IF "companion" \in seen THEN <<"companion">> ELSE <<>>
    <3>1. <<"companion">> \in Seq(Roles) /\ <<>> \in Seq(Roles)
      BY RolesAre
    <3> QED
      BY <3>1
  <2>3. left' = a \o b
    BY <2>1, <2>2 DEF BackedUp
  <2> QED
    BY <2>3, ConcatProperties
<1>23. CASE CleanupBackupAliases
  BY <1>23, <1>a DEF CleanupBackupAliases
<1>24. CASE OfferRollback
  BY <1>24, <1>a DEF OfferRollback
<1>25. CASE RenameFails
  BY <1>25, <1>a DEF RenameFails
<1>26. CASE Abort
  BY <1>26, <1>a DEF Abort
<1>27. CASE Disturb
  BY <1>27, <1>a DEF Disturb
<1>28. ASSUME NEW r \in Roles, ActivateKey(r) PROVE left' \in Seq(Roles)
  BY <1>28, <1>a DEF ActivateKey
<1>29. CASE UNCHANGED vars
  BY <1>29, <1>a DEF vars
<1> QED
  BY <1>1, <1>2, <1>3, <1>4, <1>5, <1>6, <1>7, <1>8, <1>9, <1>10,
     <1>11, <1>12, <1>13, <1>14, <1>15, <1>16, <1>17, <1>18, <1>19, <1>20,
     <1>21, <1>22, <1>23, <1>24, <1>25, <1>26, <1>27, <1>28, <1>29
     DEF Next, Step


(* What goes wrong is counted.                                              *)
LEMMA FaultStep ==
    ASSUME RotateInv, [Next]_vars
    PROVE  faults' \in 0 .. MaxFaults
<1>a. /\ faults \in 0 .. MaxFaults
      /\ Right \/ Fault \/ UNCHANGED faults => faults' \in 0 .. MaxFaults
  BY Basics DEF Right, Fault
<1> USE DEF GuideDeviceSwap
<1>1. ASSUME NEW d \in Devices, NEW replace \in MayReplace, NEW dry \in MayDry,
             Run(d, replace, dry)
      PROVE  faults' \in 0 .. MaxFaults
  BY <1>1, <1>a DEF Run
<1>2. CASE Clear
  BY <1>2, <1>a DEF Clear
<1>3. CASE ResumeImported
  BY <1>3, <1>a DEF ResumeImported
<1>4. CASE Connect
  BY <1>4, <1>a DEF Connect
<1>5. CASE Discover
  BY <1>5, <1>a DEF Discover
<1>6. CASE ImportNewKeys
  BY <1>6, <1>a DEF ImportNewKeys
<1>7. CASE CheckExistingPendingKeys
  BY <1>7, <1>a DEF CheckExistingPendingKeys
<1>8. CASE ImportPending
  BY <1>8, <1>a DEF ImportPending
<1>9. CASE SubmitKeyRotationTransactions
  BY <1>9, <1>a DEF SubmitKeyRotationTransactions
<1>10. CASE PollForPendingActivation
  BY <1>10, <1>a DEF PollForPendingActivation
<1>11. CASE Reconnect
  BY <1>11, <1>a DEF Reconnect
<1>12. CASE RunActivationMonitoring
  BY <1>12, <1>a DEF RunActivationMonitoring, OfferToWait
<1>13. CASE ResumeFromPending
  BY <1>13, <1>a DEF ResumeFromPending, OfferToWait
<1>14. CASE WaitForActivation
  BY <1>14, <1>a DEF WaitForActivation
<1>15. CASE StopBaker
  BY <1>15, <1>a DEF StopBaker
<1>16. CASE Swap
  BY <1>16, <1>a DEF Swap
<1>17. CASE CompleteRotation
  BY <1>17, <1>a DEF CompleteRotation
<1>18. CASE PromoteAliasesWithBackup
  BY <1>18, <1>a DEF PromoteAliasesWithBackup
<1>19. CASE RenameInFile
  BY <1>19, <1>a DEF RenameInFile
<1>20. CASE StartBaker
  BY <1>20, <1>a DEF StartBaker
<1>21. CASE BakerIsRunning
  BY <1>21, <1>a DEF BakerIsRunning
<1>22. CASE VerifyBakerSigning
  BY <1>22, <1>a DEF VerifyBakerSigning
<1>23. CASE CleanupBackupAliases
  BY <1>23, <1>a DEF CleanupBackupAliases
<1>24. CASE OfferRollback
  BY <1>24, <1>a DEF OfferRollback
<1>25. CASE RenameFails
  BY <1>25, <1>a DEF RenameFails
<1>26. CASE Abort
  BY <1>26, <1>a DEF Abort
<1>27. CASE Disturb
  BY <1>27, <1>a DEF Disturb
<1>28. ASSUME NEW r \in Roles, ActivateKey(r) PROVE faults' \in 0 .. MaxFaults
  BY <1>28, <1>a DEF ActivateKey
<1>29. CASE UNCHANGED vars
  BY <1>29, <1>a DEF vars
<1> QED
  BY <1>1, <1>2, <1>3, <1>4, <1>5, <1>6, <1>7, <1>8, <1>9, <1>10,
     <1>11, <1>12, <1>13, <1>14, <1>15, <1>16, <1>17, <1>18, <1>19, <1>20,
     <1>21, <1>22, <1>23, <1>24, <1>25, <1>26, <1>27, <1>28, <1>29
     DEF Next, Step


(* What the run knows and the operator has connected.                       *)
LEMMA RunTypeStep ==
    ASSUME RotateInv, [Next]_vars
    PROVE  RunType'
<1> USE DEF RunType, local
<1>a. RunType
  BY Basics
<1>b. ActiveConsensusKey \in Devices
  BY Basics DEF ChainType, ActiveConsensusKey
<1>1. ASSUME NEW d \in Devices, NEW replace \in MayReplace, NEW dry \in MayDry,
             Run(d, replace, dry)
      PROVE  RunType'
  <2>1. opts' \in [replace : BOOLEAN, dry : BOOLEAN] /\ attached' \in Devices
    BY <1>1, RotateAssumption DEF Run
  <2>2. mode' \in Modes
    BY <1>1, RunDoes DEF HandleReplaceFlag, HandleResumedState, Modes
  <2> QED
    BY <1>1, <1>a, <2>1, <2>2 DEF Run
<1>2. CASE Clear
  BY <1>2, <1>a DEF Clear
<1>3. CASE ResumeImported
  BY <1>3, <1>a DEF ResumeImported
<1>4. CASE Connect
  BY <1>4, <1>a DEF Connect, GuideDeviceSwap
<1>5. CASE Discover
  BY <1>5, <1>a, <1>b DEF Discover
<1>6. CASE ImportNewKeys
  BY <1>6, <1>a DEF ImportNewKeys
<1>7. CASE CheckExistingPendingKeys
  BY <1>7, <1>a DEF CheckExistingPendingKeys, Modes
<1>8. CASE ImportPending
  BY <1>8, <1>a DEF ImportPending
<1>9. CASE SubmitKeyRotationTransactions
  BY <1>9, <1>a DEF SubmitKeyRotationTransactions
<1>10. CASE PollForPendingActivation
  BY <1>10, <1>a, <1>b DEF PollForPendingActivation
<1>11. CASE Reconnect
  BY <1>11, <1>a DEF Reconnect, GuideDeviceSwap
<1>12. CASE RunActivationMonitoring
  BY <1>12, <1>a DEF RunActivationMonitoring, OfferToWait
<1>13. CASE ResumeFromPending
  BY <1>13, <1>a DEF ResumeFromPending, OfferToWait
<1>14. CASE WaitForActivation
  BY <1>14, <1>a DEF WaitForActivation
<1>15. CASE StopBaker
  BY <1>15, <1>a DEF StopBaker
<1>16. CASE Swap
  BY <1>16, <1>a DEF Swap, GuideDeviceSwap
<1>17. CASE CompleteRotation
  BY <1>17, <1>a DEF CompleteRotation
<1>18. CASE PromoteAliasesWithBackup
  BY <1>18, <1>a DEF PromoteAliasesWithBackup
<1>19. CASE RenameInFile
  BY <1>19, <1>a DEF RenameInFile
<1>20. CASE StartBaker
  BY <1>20, <1>a DEF StartBaker
<1>21. CASE BakerIsRunning
  BY <1>21, <1>a DEF BakerIsRunning
<1>22. CASE VerifyBakerSigning
  BY <1>22, <1>a DEF VerifyBakerSigning
<1>23. CASE CleanupBackupAliases
  BY <1>23, <1>a DEF CleanupBackupAliases
<1>24. CASE OfferRollback
  BY <1>24, <1>a DEF OfferRollback
<1>25. CASE RenameFails
  BY <1>25, <1>a DEF RenameFails
<1>26. CASE Abort
  BY <1>26, <1>a DEF Abort
<1>27. CASE Disturb
  BY <1>27, <1>a DEF Disturb
<1>28. ASSUME NEW r \in Roles, ActivateKey(r) PROVE RunType'
  BY <1>28, <1>a DEF ActivateKey
<1>29. CASE UNCHANGED vars
  BY <1>29, <1>a DEF vars
<1> QED
  BY <1>1, <1>2, <1>3, <1>4, <1>5, <1>6, <1>7, <1>8, <1>9, <1>10,
     <1>11, <1>12, <1>13, <1>14, <1>15, <1>16, <1>17, <1>18, <1>19, <1>20,
     <1>21, <1>22, <1>23, <1>24, <1>25, <1>26, <1>27, <1>28, <1>29
     DEF Next, Step


(* The flags and the history are Booleans.                                  *)
LEMMA FlagStep ==
    ASSUME RotateInv, [Next]_vars
    PROVE  FlagType'
<1> USE DEF FlagType, EndWith, End, Start, Goto, history
<1>a. FlagType
  BY Basics
<1>1. ASSUME NEW d \in Devices, NEW replace \in MayReplace, NEW dry \in MayDry,
             Run(d, replace, dry)
      PROVE  FlagType'
  <2>1. /\ UNCHANGED <<baker, broken, replaced, rolledBack>> /\ unremoved' = FALSE
        /\ misled' = TRUE \/ UNCHANGED misled
    BY <1>1, RunDoes DEF Run
  <2>2. UNCHANGED torn
    BY <1>1, RunDoes DEF HandleReplaceFlag, HandleResumedState
  <2> QED
    BY <1>a, <2>1, <2>2
<1>2. CASE Clear
  BY <1>2, <1>a DEF Clear
<1>3. CASE ResumeImported
  BY <1>3, <1>a DEF ResumeImported
<1>4. CASE Connect
  BY <1>4, <1>a DEF Connect
<1>5. CASE Discover
  BY <1>5, <1>a DEF Discover
<1>6. CASE ImportNewKeys
  BY <1>6, <1>a DEF ImportNewKeys
<1>7. CASE CheckExistingPendingKeys
  BY <1>7, <1>a DEF CheckExistingPendingKeys
<1>8. CASE ImportPending
  BY <1>8, <1>a DEF ImportPending
<1>9. CASE SubmitKeyRotationTransactions
  BY <1>9, <1>a DEF SubmitKeyRotationTransactions
<1>10. CASE PollForPendingActivation
  BY <1>10, <1>a DEF PollForPendingActivation
<1>11. CASE Reconnect
  BY <1>11, <1>a DEF Reconnect
<1>12. CASE RunActivationMonitoring
  BY <1>12, <1>a DEF RunActivationMonitoring, OfferToWait
<1>13. CASE ResumeFromPending
  BY <1>13, <1>a DEF ResumeFromPending, OfferToWait
<1>14. CASE WaitForActivation
  BY <1>14, <1>a DEF WaitForActivation
<1>15. CASE StopBaker
  BY <1>15, <1>a DEF StopBaker
<1>16. CASE Swap
  BY <1>16, <1>a DEF Swap
<1>17. CASE CompleteRotation
  BY <1>17, <1>a DEF CompleteRotation
<1>18. CASE PromoteAliasesWithBackup
  BY <1>18, <1>a DEF PromoteAliasesWithBackup
<1>19. CASE RenameInFile
  BY <1>19, <1>a, RenameGoes DEF RenameInFile
<1>20. CASE StartBaker
  BY <1>20, <1>a DEF StartBaker
<1>21. CASE BakerIsRunning
  BY <1>21, <1>a DEF BakerIsRunning
<1>22. CASE VerifyBakerSigning
  BY <1>22, <1>a DEF VerifyBakerSigning
<1>23. CASE CleanupBackupAliases
  BY <1>23, <1>a DEF CleanupBackupAliases
<1>24. CASE OfferRollback
  BY <1>24, <1>a DEF OfferRollback
<1>25. CASE RenameFails
  <2>1. broken' \subseteq Files
    BY <1>25, <1>a, RenameIs DEF RenameFails, CutOff
  <2>2. UNCHANGED <<baker, unremoved, replaced, misled>>
    BY <1>25 DEF RenameFails
  <2> QED
    BY <1>25, <1>a, <2>1, <2>2, RenameGoes
<1>26. CASE Abort
  BY <1>26, <1>a DEF Abort
<1>27. CASE Disturb
  BY <1>27, <1>a DEF Disturb
<1>28. ASSUME NEW r \in Roles, ActivateKey(r) PROVE FlagType'
  BY <1>28, <1>a DEF ActivateKey
<1>29. CASE UNCHANGED vars
  BY <1>29, <1>a DEF vars
<1> QED
  BY <1>1, <1>2, <1>3, <1>4, <1>5, <1>6, <1>7, <1>8, <1>9, <1>10,
     <1>11, <1>12, <1>13, <1>14, <1>15, <1>16, <1>17, <1>18, <1>19, <1>20,
     <1>21, <1>22, <1>23, <1>24, <1>25, <1>26, <1>27, <1>28, <1>29
     DEF Next, Step


(* The renames under way.                                                   *)
LEMMA JobTypeStep ==
    ASSUME RotateInv, [Next]_vars
    PROVE  job' \in Jobs
<1>a. job \in Jobs
  BY Basics
<1>b. /\ NoJob \in Jobs
      /\ \A k \in {"none", "promote", "undo", "rollback"}, p \in Seq(Rename) : Job(k, p) \in Jobs
  <2>1. 1 \in Files
    BY Basics
  <2>2. <<>> \in Seq(Rename)
    OBVIOUS
  <2>3. NoJob \in Jobs
    BY <2>1, <2>2 DEF NoJob, Jobs
  <2>4. ASSUME NEW k \in {"none", "promote", "undo", "rollback"}, NEW p \in Seq(Rename)
        PROVE  Job(k, p) \in Jobs
    BY <2>3 DEF Job, Jobs
  <2> QED
    BY <2>3, <2>4
<1>c. ASSUME RenameInFile \/ RenameFails PROVE job' \in Jobs
  <2>1. /\ pc = "rename"
        /\ \/ /\ job.file < NumFiles
              /\ \E h \in BOOLEAN : job' = [job EXCEPT !.file = @ + 1, !.hit = h]
           \/ job' = [job EXCEPT !.n = @ + 1, !.file = 1, !.hit = FALSE]
           \/ /\ job.kind = "promote" /\ job.n > 1
              /\ job' = Job("undo", Undo(job.n))
           \/ job' = NoJob
    BY <1>c, RenameGoes
  <2>2. job.kind = "promote" /\ job.n > 1 => Undo(job.n) \in Seq(Rename)
    <3>1. job.kind = "promote" => job.plan = Promotion
      BY DEF RotateInv, JobInv
    <3>2. job.n \in 1 .. Len(job.plan)
      BY <2>1, RenameIs
    <3>3. job.kind = "promote" /\ job.n > 1 => job.n \in 2 .. 4
      <4> SUFFICES ASSUME job.kind = "promote", job.n > 1 PROVE job.n \in 2 .. 4
        OBVIOUS
      <4>1. Len(job.plan) = 4
        BY <3>1, PlansAre
      <4>2. job.n \in 1 .. 4
        BY <3>2, <4>1
      <4> QED
        BY <4>2
    <3> QED
      BY <3>3, PlansAre
  <2>a. /\ job.file \in Files /\ job.n + 1 \in Nat /\ 1 \in Files
        /\ job.file < NumFiles => job.file + 1 \in Files
    <3>1. job.file \in Files /\ job.n \in Nat /\ 1 \in Files /\ NumFiles \in Nat
      BY <2>1, Basics, RenameIs
    <3> QED
      BY <3>1 DEF Files
  <2>3. CASE job' = NoJob \/ (job.kind = "promote" /\ job.n > 1 /\ job' = Job("undo", Undo(job.n)))
    BY <1>b, <2>2, <2>3
  <2>4. CASE job' = [job EXCEPT !.n = @ + 1, !.file = 1, !.hit = FALSE]
    BY <1>a, <2>a, <2>4 DEF Jobs
  <2>5. ASSUME NEW h \in BOOLEAN, job.file < NumFiles,
               job' = [job EXCEPT !.file = @ + 1, !.hit = h]
        PROVE  job' \in Jobs
    BY <1>a, <2>a, <2>5 DEF Jobs
  <2> QED
    BY <2>1, <2>3, <2>4, <2>5
<1>1. ASSUME NEW d \in Devices, NEW replace \in MayReplace, NEW dry \in MayDry,
             Run(d, replace, dry)
      PROVE  job' \in Jobs
  BY <1>1, <1>a DEF Run
<1>2. CASE Clear
  BY <1>2, <1>a DEF Clear
<1>3. CASE ResumeImported
  BY <1>3, <1>a DEF ResumeImported
<1>4. CASE Connect
  BY <1>4, <1>a DEF Connect
<1>5. CASE Discover
  BY <1>5, <1>a DEF Discover
<1>6. CASE ImportNewKeys
  BY <1>6, <1>a DEF ImportNewKeys
<1>7. CASE CheckExistingPendingKeys
  BY <1>7, <1>a DEF CheckExistingPendingKeys
<1>8. CASE ImportPending
  BY <1>8, <1>a DEF ImportPending
<1>9. CASE SubmitKeyRotationTransactions
  BY <1>9, <1>a DEF SubmitKeyRotationTransactions
<1>10. CASE PollForPendingActivation
  BY <1>10, <1>a DEF PollForPendingActivation
<1>11. CASE Reconnect
  BY <1>11, <1>a DEF Reconnect
<1>12. CASE RunActivationMonitoring
  BY <1>12, <1>a DEF RunActivationMonitoring, OfferToWait
<1>13. CASE ResumeFromPending
  BY <1>13, <1>a DEF ResumeFromPending, OfferToWait
<1>14. CASE WaitForActivation
  BY <1>14, <1>a DEF WaitForActivation
<1>15. CASE StopBaker
  BY <1>15, <1>a DEF StopBaker
<1>16. CASE Swap
  BY <1>16, <1>a DEF Swap
<1>17. CASE CompleteRotation
  BY <1>17, <1>a DEF CompleteRotation
<1>18. CASE PromoteAliasesWithBackup
  BY <1>18, <1>a, <1>b, PlansAre DEF PromoteAliasesWithBackup
<1>19. CASE RenameInFile
  BY <1>19, <1>c
<1>20. CASE StartBaker
  BY <1>20, <1>a DEF StartBaker
<1>21. CASE BakerIsRunning
  BY <1>21, <1>a DEF BakerIsRunning
<1>22. CASE VerifyBakerSigning
  BY <1>22, <1>a DEF VerifyBakerSigning
<1>23. CASE CleanupBackupAliases
  BY <1>23, <1>a DEF CleanupBackupAliases
<1>24. CASE OfferRollback
  BY <1>24, <1>a, <1>b, PlansAre DEF OfferRollback
<1>25. CASE RenameFails
  BY <1>25, <1>c
<1>26. CASE Abort
  BY <1>26, <1>b DEF Abort
<1>27. CASE Disturb
  BY <1>27, <1>a DEF Disturb
<1>28. ASSUME NEW r \in Roles, ActivateKey(r) PROVE job' \in Jobs
  BY <1>28, <1>a DEF ActivateKey
<1>29. CASE UNCHANGED vars
  BY <1>29, <1>a DEF vars
<1> QED
  BY <1>1, <1>2, <1>3, <1>4, <1>5, <1>6, <1>7, <1>8, <1>9, <1>10,
     <1>11, <1>12, <1>13, <1>14, <1>15, <1>16, <1>17, <1>18, <1>19, <1>20,
     <1>21, <1>22, <1>23, <1>24, <1>25, <1>26, <1>27, <1>28, <1>29
     DEF Next, Step


(* Types are kept.                                                          *)
LEMMA RotateTypeStep ==
    ASSUME RotateInv, [Next]_vars PROVE TypeOK'
  BY WalletStep, ChainStep, FlowStep, RunTypeStep, FlagStep, LeftTypeStep, JobTypeStep,
     FaultStep, TypePartsNext


-----------------------------------------------------------------------------
(* What the steps do to the first file and to the chain.                    *)

(* A step that leaves the wallet leaves its aliases.                        *)
LEMMA WalletSame ==
    ASSUME UNCHANGED wallet
    PROVE  Cur' = Cur /\ Pending' = Pending /\ Old' = Old /\ (Exists("old")' <=> Exists("old"))
  BY DEF Cur, Pending, Old, Alias, Exists

(* A step that leaves the chain leaves the keys that are read from it.      *)
LEMMA ChainSame ==
    ASSUME UNCHANGED chain
    PROVE  ConsensusPending' = ConsensusPending /\ ActiveConsensusKey' = ActiveConsensusKey
  BY DEF chain, ConsensusPending, ActiveConsensusKey

(* The aliases, in short.                                                   *)
LEMMA AliasTypes ==
    ASSUME RotateInv
    PROVE  /\ Cur \in Devices \cup {NoKey} /\ Pending \in Devices \cup {NoKey}
           /\ Old \in Devices \cup {NoKey} /\ NoKey \notin Devices
           /\ ConsensusPending \in Devices \cup {NoKey} /\ ActiveConsensusKey \in Devices
           /\ Old # NoKey => Exists("old")
           /\ Pending # NoKey => Exists("pending")
  BY Basics DEF Wallets, ChainType, Cur, Pending, Old, Alias, ConsensusPending,
     ActiveConsensusKey, Exists

(* Dropping a pending alias.                                                *)
LEMMA ClearDoes ==
    ASSUME RotateInv, Clear
    PROVE  /\ Cur' = Cur /\ Old' = Old /\ (Exists("old")' <=> Exists("old"))
           /\ Pending' = IF Head(left) = "consensus" THEN NoKey ELSE Pending
<1>a. /\ wallet \in Wallets /\ "pending" \in Slots /\ NoKey \in Devices \cup {NoKey}
  BY Basics
<1>1. PICK r \in Roles : r = Head(left)
  BY Basics DEF Clear
<1>2. wallet' = WithAlias(wallet, r, "pending", NoKey)
  BY <1>1 DEF Clear, Forgotten, WithAlias
<1>3. \A f \in Files, q \in Roles, t \in Slots :
        wallet'[f][q][t] = IF q = r /\ t = "pending" THEN NoKey ELSE wallet[f][q][t]
  BY <1>a, <1>2, SetAlias
<1> QED
  BY <1>1, <1>3, Basics DEF Cur, Pending, Old, Alias, Exists

(* import_new_keys, one role.                                               *)
LEMMA ImportDoes ==
    ASSUME RotateInv, ImportNewKeys
    PROVE  /\ Cur' = Cur /\ Old' = Old /\ (Exists("old")' <=> Exists("old"))
           /\ Pending' = IF SignerHolds(found) /\ Head(left) = "consensus"
                         THEN found ELSE Pending
<1>a. /\ wallet \in Wallets /\ "pending" \in Slots /\ NoKey \in Devices \cup {NoKey}
  BY Basics
<1>1. CASE SignerHolds(found)
  <2>1. PICK r \in Roles : r = Head(left)
    BY Basics DEF ImportNewKeys
  <2>2. PICK k \in Devices \cup {NoKey} : k = found
    BY Basics DEF RunType
  <2>3. wallet' = WithAlias(wallet, r, "pending", k)
    BY <1>1, <2>1, <2>2 DEF ImportNewKeys, WithAlias
  <2>4. \A f \in Files, q \in Roles, t \in Slots :
          wallet'[f][q][t] = IF q = r /\ t = "pending" THEN k ELSE wallet[f][q][t]
    BY <1>a, <2>3, SetAlias
  <2> QED
    BY <1>1, <2>1, <2>2, <2>4, Basics DEF Cur, Pending, Old, Alias, Exists
<1>2. CASE ~ SignerHolds(found)
  BY <1>2, WalletSame DEF ImportNewKeys
<1> QED
  BY <1>1, <1>2

(* cleanup_backup_aliases touches backups only.                             *)
LEMMA CleanupDoes ==
    ASSUME RotateInv, CleanupBackupAliases
    PROVE  Cur' = Cur /\ Pending' = Pending
<1>1. CASE UNCHANGED wallet
  BY <1>1, WalletSame
<1>2. CASE left # <<>> /\ wallet' = Forgotten(Head(left), "old")
  <2>1. PICK r \in Roles : r = Head(left)
    BY <1>2, Basics
  <2>2. wallet' = WithAlias(wallet, r, "old", NoKey)
    BY <1>2, <2>1 DEF Forgotten, WithAlias
  <2>3. \A f \in Files, q \in Roles, t \in Slots :
          wallet'[f][q][t] = IF q = r /\ t = "old" THEN NoKey ELSE wallet[f][q][t]
    <3>1. wallet \in Wallets /\ "old" \in Slots /\ NoKey \in Devices \cup {NoKey}
      BY Basics
    <3>2. \A f \in Files, q \in Roles, t \in Slots :
            WithAlias(wallet, r, "old", NoKey)[f][q][t] =
              IF q = r /\ t = "old" THEN NoKey ELSE wallet[f][q][t]
      BY <3>1, SetAlias
    <3> QED
      BY <2>2, <3>2
  <2> QED
    BY <2>3, Basics DEF Cur, Pending, Alias
<1> QED
  BY <1>1, <1>2 DEF CleanupBackupAliases

(* The renames of a promotion, as the first file sees them.                 *)
LEMMA PromotionDoes ==
    ASSUME RotateInv, Renames, job.kind = "promote"
    PROVE  /\ job.n \in 1 .. 4 /\ Len(job.plan) = 4
           /\ job.file # 1 \/ job.n \in {2, 4} => Cur' = Cur /\ Pending' = Pending /\ Old' = Old
           /\ job.file = 1 /\ job.n = 1 =>
                /\ Pending' = Pending /\ Cur' = NoKey
                /\ Old' = IF Cur = NoKey THEN Old ELSE Cur
           /\ job.file = 1 /\ job.n = 3 =>
                /\ Old' = Old /\ Pending' = NoKey
                /\ Cur' = IF Pending = NoKey THEN Cur ELSE Pending
<1>a. /\ wallet \in Wallets /\ "pending" \in Slots /\ NoKey \in Devices \cup {NoKey}
  BY Basics
<1>1. /\ job.plan = Promotion /\ pc = "rename" /\ Len(job.plan) = 4 /\ job.n \in 1 .. Len(job.plan)
  BY RenameIs, PlansAre DEF RotateInv, JobInv, Renames, RenameInFile
<1>2. job.n \in 1 .. 4
  BY <1>1
<1>3. PICK r \in Roles, a \in Slots, b \in Slots, f \in Files :
        r = job.plan[job.n].role /\ a = job.plan[job.n].from /\ b = job.plan[job.n].to
        /\ f = job.file
  BY <1>1, RenameIs
<1>4. PICK k \in Devices \cup {NoKey} : k = wallet[f][r][a]
  BY Basics DEF Wallets
<1>5. wallet' = IF k = NoKey THEN wallet ELSE Moved(wallet, f, r, a, b, k)
  BY <1>3, <1>4, RenameMoves DEF RenameNow, KeyNow
<1>6. \A g \in Files, q \in Roles, t \in Slots :
        wallet'[g][q][t] = IF g = f /\ q = r /\ k # NoKey
                           THEN IF t = a THEN NoKey ELSE IF t = b THEN k ELSE wallet[g][q][t]
                           ELSE wallet[g][q][t]
  <2>1. CASE k = NoKey
    BY <1>5, <2>1
  <2>2. CASE k # NoKey
    <3>1. wallet' = Moved(wallet, f, r, a, b, k)
      BY <1>5, <2>2
    <3>2. \A g \in Files, q \in Roles, t \in Slots :
            Moved(wallet, f, r, a, b, k)[g][q][t] =
              IF g = f /\ q = r
              THEN IF t = a THEN NoKey ELSE IF t = b THEN k ELSE wallet[g][q][t]
              ELSE wallet[g][q][t]
      BY <1>a, MoveAlias
    <3> QED
      BY <2>2, <3>1, <3>2
  <2> QED
    BY <2>1, <2>2
<1>7. \A t \in Slots :
        wallet'[1]["consensus"][t] = IF 1 = f /\ "consensus" = r /\ k # NoKey
                           THEN IF t = a THEN NoKey ELSE IF t = b THEN k
                                ELSE wallet[1]["consensus"][t]
                           ELSE wallet[1]["consensus"][t]
  BY <1>6, Basics
<1>8. /\ job.n = 1 => r = "consensus" /\ a = "cur" /\ b = "old"
      /\ job.n = 3 => r = "consensus" /\ a = "pending" /\ b = "cur"
      /\ job.n \in {2, 4} => r = "companion"
  BY <1>1, <1>2, <1>3 DEF Promotion, R
<1>9. CASE f # 1 \/ job.n \in {2, 4}
  BY <1>1, <1>2, <1>3, <1>7, <1>8, <1>9, Basics DEF Cur, Pending, Old, Alias
<1>10. CASE f = 1 /\ job.n = 1
  BY <1>1, <1>2, <1>3, <1>4, <1>7, <1>8, <1>10, Basics DEF Cur, Pending, Old, Alias
<1>11. CASE f = 1 /\ job.n = 3
  BY <1>1, <1>2, <1>3, <1>4, <1>7, <1>8, <1>11, Basics DEF Cur, Pending, Old, Alias
<1> QED
  BY <1>1, <1>2, <1>3, <1>9, <1>10, <1>11


(* A loop starts with both roles.                                           *)
LEMMA LeftStep ==
    ASSUME RotateInv, [Next]_vars
    PROVE  LeftInv'
<1> USE DEF RotateInv, LeftInv, local, EndWith, End, Start, Goto
<1>1. ASSUME NEW d \in Devices, NEW replace \in MayReplace, NEW dry \in MayDry,
             Run(d, replace, dry)
      PROVE  LeftInv'
  BY <1>1, RunDoes DEF Run, HandleReplaceFlag, HandleResumedState
<1>2. CASE Clear
  BY <1>2, RolesAre DEF Clear
<1>3. CASE ResumeImported
  BY <1>3 DEF ResumeImported
<1>4. CASE Connect
  BY <1>4 DEF Connect
<1>5. CASE Discover
  BY <1>5 DEF Discover
<1>6. CASE ImportNewKeys
  <2>1. CASE SignerHolds(found) /\ left = Order
    BY <1>6, <2>1, RolesAre DEF ImportNewKeys
  <2>2. CASE SignerHolds(found) /\ left = <<"companion">>
    BY <1>6, <2>2, RolesAre DEF ImportNewKeys
  <2>3. CASE ~ SignerHolds(found)
    BY <1>6, <2>3 DEF ImportNewKeys
  <2> QED
    BY <1>6, <2>1, <2>2, <2>3 DEF ImportNewKeys
<1>7. CASE CheckExistingPendingKeys
  BY <1>7 DEF CheckExistingPendingKeys
<1>8. CASE ImportPending
  BY <1>8 DEF ImportPending
<1>9. CASE SubmitKeyRotationTransactions
  BY <1>9, RolesAre DEF SubmitKeyRotationTransactions
<1>10. CASE PollForPendingActivation
  BY <1>10 DEF PollForPendingActivation
<1>11. CASE Reconnect
  BY <1>11 DEF Reconnect
<1>12. CASE RunActivationMonitoring
  BY <1>12 DEF RunActivationMonitoring, OfferToWait
<1>13. CASE ResumeFromPending
  BY <1>13 DEF ResumeFromPending, OfferToWait
<1>14. CASE WaitForActivation
  BY <1>14 DEF WaitForActivation
<1>15. CASE StopBaker
  BY <1>15 DEF StopBaker
<1>16. CASE Swap
  BY <1>16 DEF Swap
<1>17. CASE CompleteRotation
  BY <1>17 DEF CompleteRotation
<1>18. CASE PromoteAliasesWithBackup
  BY <1>18 DEF PromoteAliasesWithBackup
<1>19. CASE RenameInFile
  BY <1>19, RenameGoes
<1>20. CASE StartBaker
  BY <1>20 DEF StartBaker
<1>21. CASE BakerIsRunning
  BY <1>21 DEF BakerIsRunning
<1>22. CASE VerifyBakerSigning
  BY <1>22 DEF VerifyBakerSigning
<1>23. CASE CleanupBackupAliases
  BY <1>23 DEF CleanupBackupAliases
<1>24. CASE OfferRollback
  BY <1>24 DEF OfferRollback
<1>25. CASE RenameFails
  BY <1>25, RenameGoes
<1>26. CASE Abort
  BY <1>26 DEF Abort
<1>27. CASE Disturb
  BY <1>27 DEF Disturb
<1>28. ASSUME NEW r \in Roles, ActivateKey(r) PROVE LeftInv'
  BY <1>28 DEF ActivateKey
<1>29. CASE UNCHANGED vars
  BY <1>29 DEF vars
<1> QED
  BY <1>1, <1>2, <1>3, <1>4, <1>5, <1>6, <1>7, <1>8, <1>9, <1>10,
     <1>11, <1>12, <1>13, <1>14, <1>15, <1>16, <1>17, <1>18, <1>19, <1>20,
     <1>21, <1>22, <1>23, <1>24, <1>25, <1>26, <1>27, <1>28, <1>29
     DEF Next, Step


(* The keys after a cycle has ended.                                        *)
LEMMA ActivateDoes ==
    ASSUME RotateInv, NEW r \in Roles, ActivateKey(r)
    PROVE  /\ Cur' = Cur /\ Pending' = Pending /\ Old' = Old /\ (Exists("old")' <=> Exists("old"))
           /\ \/ /\ ConsensusPending # NoKey /\ ConsensusPending' = NoKey
                 /\ ActiveConsensusKey' = ConsensusPending
              \/ /\ ConsensusPending' = ConsensusPending
                 /\ ActiveConsensusKey' = ActiveConsensusKey
           /\ UNCHANGED <<pc, local, left, job, replaced, misled>>
<1>1. UNCHANGED wallet /\ UNCHANGED <<pc, local, left, job, replaced, misled>>
  BY DEF ActivateKey, history
<1>2. /\ active \in [Roles -> Devices] /\ pend \in [Roles -> Devices \cup {NoKey}]
      /\ "consensus" \in Roles
  BY Basics DEF ChainType
<1>3. CASE r = "consensus"
  BY <1>1, <1>2, <1>3, WalletSame DEF ActivateKey, ConsensusPending, ActiveConsensusKey
<1>4. CASE r # "consensus"
  BY <1>1, <1>2, <1>4, WalletSame DEF ActivateKey, ConsensusPending, ActiveConsensusKey
<1> QED
  BY <1>1, <1>3, <1>4, WalletSame

(* What a transaction leaves on the chain.                                  *)
LEMMA SubmitDoes ==
    ASSUME RotateInv, SubmitKeyRotationTransactions
    PROVE  /\ ActiveConsensusKey' = ActiveConsensusKey
           /\ \/ ConsensusPending' = ConsensusPending
              \/ ConsensusPending' = Pending /\ Pending # NoKey
<1>1. /\ pend \in [Roles -> Devices \cup {NoKey}] /\ "consensus" \in Roles
      /\ Head(left) \in Roles
  BY Basics DEF ChainType, SubmitKeyRotationTransactions
<1>2. CASE UNCHANGED pend
  BY <1>2 DEF SubmitKeyRotationTransactions, ConsensusPending, ActiveConsensusKey
<1>3. CASE /\ pend' = [pend EXCEPT ![Head(left)] = Alias(Head(left), "pending")]
           /\ Alias(Head(left), "pending") # NoKey
  BY <1>1, <1>3 DEF SubmitKeyRotationTransactions, ConsensusPending, ActiveConsensusKey, Pending
<1> QED
  BY <1>2, <1>3 DEF SubmitKeyRotationTransactions


(* Backups and the chain at each place.                                     *)
LEMMA StageStep ==
    ASSUME RotateInv, [Next]_vars
    PROVE  StageInv'
<1> USE DEF RotateInv, local, EndWith, End, Start, Goto, StageInv, Before, Swapping, After,
           history
<1>1. ASSUME NEW d \in Devices, NEW replace \in MayReplace, NEW dry \in MayDry,
             Run(d, replace, dry)
      PROVE  StageInv'
  <2>1. UNCHANGED wallet /\ UNCHANGED chain
    BY <1>1 DEF Run
  <2>2. CASE replace
    BY <1>1, <2>1, <2>2, AliasTypes, WalletSame, ChainSame, RunDoes DEF Run, HandleReplaceFlag
  <2>3. CASE ~ replace
    <3>1. PICK m \in Modes :
            /\ HandleResumedState(m)
            /\ m \in {"clean", "imported", "activated"} => ConsensusPending = NoKey
            /\ m \in {"pending", "chainonly"} => ConsensusPending # NoKey
            /\ UNCHANGED replaced
            /\ ~ misled' => /\ ~ misled
                            /\ m = "partial" <=> Exists("old")
                            /\ m \in {"clean", "chainonly"} => ~ Exists("pending")
                            /\ m = "activated" => Pending = ActiveConsensusKey
                            /\ m = "imported" => Pending # ActiveConsensusKey
      BY <1>1, <2>3, RunDoes
    <3> QED
      BY <2>1, <3>1, AliasTypes, WalletSame, ChainSame DEF HandleResumedState, Modes
  <2> QED
    BY <2>2, <2>3
<1>2. CASE Clear
  BY <1>2, ClearDoes, ChainSame DEF Clear
<1>3. CASE ResumeImported
  BY <1>3, WalletSame, ChainSame DEF ResumeImported
<1>4. CASE Connect
  BY <1>4, WalletSame, ChainSame DEF Connect
<1>5. CASE Discover
  BY <1>5, WalletSame, ChainSame DEF Discover
<1>6. CASE ImportNewKeys
  BY <1>6, ImportDoes, ChainSame DEF ImportNewKeys
<1>7. CASE CheckExistingPendingKeys
  BY <1>7, WalletSame, ChainSame DEF CheckExistingPendingKeys
<1>8. CASE ImportPending
  BY <1>8, WalletSame, ChainSame DEF ImportPending
<1>9. CASE SubmitKeyRotationTransactions
  BY <1>9, SubmitDoes, WalletSame DEF SubmitKeyRotationTransactions
<1>10. CASE PollForPendingActivation
  BY <1>10, WalletSame, ChainSame DEF PollForPendingActivation
<1>11. CASE Reconnect
  BY <1>11, WalletSame, ChainSame DEF Reconnect
<1>12. CASE RunActivationMonitoring
  BY <1>12, WalletSame, ChainSame DEF RunActivationMonitoring, OfferToWait
<1>13. CASE ResumeFromPending
  BY <1>13, WalletSame, ChainSame DEF ResumeFromPending, OfferToWait
<1>14. CASE WaitForActivation
  BY <1>14, WalletSame, ChainSame DEF WaitForActivation
<1>15. CASE StopBaker
  BY <1>15, WalletSame, ChainSame DEF StopBaker
<1>16. CASE Swap
  BY <1>16, WalletSame, ChainSame DEF Swap
<1>17. CASE CompleteRotation
  BY <1>17, WalletSame, ChainSame DEF CompleteRotation
<1>18. CASE PromoteAliasesWithBackup
  BY <1>18, WalletSame, ChainSame DEF PromoteAliasesWithBackup
<1>19. CASE RenameInFile
  BY <1>19, RenameGoes, ChainSame DEF RenameInFile
<1>20. CASE StartBaker
  BY <1>20, WalletSame, ChainSame DEF StartBaker
<1>21. CASE BakerIsRunning
  BY <1>21, WalletSame, ChainSame DEF BakerIsRunning
<1>22. CASE VerifyBakerSigning
  BY <1>22, WalletSame, ChainSame DEF VerifyBakerSigning, SigningVerified, Cur
<1>23. CASE CleanupBackupAliases
  BY <1>23, CleanupDoes, ChainSame DEF CleanupBackupAliases
<1>24. CASE OfferRollback
  BY <1>24, WalletSame, ChainSame DEF OfferRollback
<1>25. CASE RenameFails
  BY <1>25, RenameGoes, ChainSame DEF RenameFails
<1>26. CASE Abort
  BY <1>26, WalletSame, ChainSame DEF Abort
<1>27. CASE Disturb
  BY <1>27, WalletSame, ChainSame DEF Disturb
<1>28. ASSUME NEW r \in Roles, ActivateKey(r) PROVE StageInv'
  BY <1>28, ActivateDoes
<1>29. CASE UNCHANGED vars
  BY <1>29, WalletSame, ChainSame DEF vars
<1> QED
  BY <1>1, <1>2, <1>3, <1>4, <1>5, <1>6, <1>7, <1>8, <1>9, <1>10,
     <1>11, <1>12, <1>13, <1>14, <1>15, <1>16, <1>17, <1>18, <1>19, <1>20,
     <1>21, <1>22, <1>23, <1>24, <1>25, <1>26, <1>27, <1>28, <1>29
     DEF Next, Step


(* The run at each place.                                                   *)
LEMMA ModeStep ==
    ASSUME RotateInv, [Next]_vars
    PROVE  ModeInv'
<1> USE DEF RotateInv, local, EndWith, End, Start, Goto, ModeInv
<1>1. ASSUME NEW d \in Devices, NEW replace \in MayReplace, NEW dry \in MayDry,
             Run(d, replace, dry)
      PROVE  ModeInv'
  <2>1. UNCHANGED chain
    BY <1>1 DEF Run
  <2>2. CASE replace
    BY <1>1, <2>1, <2>2, ChainSame, RunDoes DEF Run, HandleReplaceFlag
  <2>3. CASE ~ replace
    BY <1>1, <2>1, <2>3, ChainSame, RunDoes DEF Run, HandleResumedState, Modes
  <2> QED
    BY <2>2, <2>3
<1>2. CASE Clear
  BY <1>2, ChainSame DEF Clear
<1>3. CASE ResumeImported
  BY <1>3, ChainSame DEF ResumeImported
<1>4. CASE Connect
  BY <1>4, ChainSame DEF Connect
<1>5. CASE Discover
  <2>1. attached # NoKey
    BY Basics DEF RunType
  <2> QED
    BY <1>5, <2>1, ChainSame DEF Discover
<1>6. CASE ImportNewKeys
  BY <1>6, ChainSame DEF ImportNewKeys
<1>7. CASE CheckExistingPendingKeys
  BY <1>7, ChainSame DEF CheckExistingPendingKeys
<1>8. CASE ImportPending
  <2>1. attached # NoKey
    BY Basics DEF RunType
  <2> QED
    BY <1>8, <2>1, ChainSame DEF ImportPending
<1>9. CASE SubmitKeyRotationTransactions
  BY <1>9, SubmitDoes DEF SubmitKeyRotationTransactions
<1>10. CASE PollForPendingActivation
  BY <1>10, ChainSame DEF PollForPendingActivation
<1>11. CASE Reconnect
  BY <1>11, ChainSame DEF Reconnect
<1>12. CASE RunActivationMonitoring
  BY <1>12, WalletSame, ChainSame DEF RunActivationMonitoring, OfferToWait
<1>13. CASE ResumeFromPending
  BY <1>13, WalletSame, ChainSame DEF ResumeFromPending, OfferToWait
<1>14. CASE WaitForActivation
  BY <1>14, ChainSame DEF WaitForActivation
<1>15. CASE StopBaker
  BY <1>15, ChainSame DEF StopBaker
<1>16. CASE Swap
  BY <1>16, ChainSame DEF Swap
<1>17. CASE CompleteRotation
  BY <1>17, ChainSame DEF CompleteRotation
<1>18. CASE PromoteAliasesWithBackup
  BY <1>18, ChainSame DEF PromoteAliasesWithBackup
<1>19. CASE RenameInFile
  BY <1>19, RenameGoes, ChainSame DEF RenameInFile
<1>20. CASE StartBaker
  BY <1>20, ChainSame DEF StartBaker
<1>21. CASE BakerIsRunning
  BY <1>21, ChainSame DEF BakerIsRunning
<1>22. CASE VerifyBakerSigning
  BY <1>22, ChainSame DEF VerifyBakerSigning
<1>23. CASE CleanupBackupAliases
  BY <1>23, ChainSame DEF CleanupBackupAliases
<1>24. CASE OfferRollback
  BY <1>24, ChainSame DEF OfferRollback
<1>25. CASE RenameFails
  BY <1>25, RenameGoes, ChainSame DEF RenameFails
<1>26. CASE Abort
  BY <1>26, ChainSame DEF Abort
<1>27. CASE Disturb
  BY <1>27, ChainSame DEF Disturb
<1>28. ASSUME NEW r \in Roles, ActivateKey(r) PROVE ModeInv'
  BY <1>28, ActivateDoes
<1>29. CASE UNCHANGED vars
  BY <1>29, WalletSame, ChainSame DEF vars
<1> QED
  BY <1>1, <1>2, <1>3, <1>4, <1>5, <1>6, <1>7, <1>8, <1>9, <1>10,
     <1>11, <1>12, <1>13, <1>14, <1>15, <1>16, <1>17, <1>18, <1>19, <1>20,
     <1>21, <1>22, <1>23, <1>24, <1>25, <1>26, <1>27, <1>28, <1>29
     DEF Next, Step


(* The pending alias and the chain.                                         *)
LEMMA PendingStep ==
    ASSUME RotateInv, [Next]_vars
    PROVE  PendingInv'
<1> USE DEF RotateInv, local, EndWith, End, Start, Goto, PendingInv, history, Swapping
<1>1. ASSUME NEW d \in Devices, NEW replace \in MayReplace, NEW dry \in MayDry,
             Run(d, replace, dry)
      PROVE  PendingInv'
  <2>1. UNCHANGED wallet /\ UNCHANGED chain
    BY <1>1 DEF Run
  <2>2. CASE replace
    BY <1>1, <2>1, <2>2, AliasTypes, WalletSame, ChainSame, RunDoes DEF Run, HandleReplaceFlag
  <2>3. CASE ~ replace
    <3>1. PICK m \in Modes :
            /\ HandleResumedState(m)
            /\ m \in {"clean", "imported", "activated"} => ConsensusPending = NoKey
            /\ m \in {"pending", "chainonly"} => ConsensusPending # NoKey
            /\ UNCHANGED replaced
            /\ ~ misled' => /\ ~ misled
                            /\ m = "partial" <=> Exists("old")
                            /\ m \in {"clean", "chainonly"} => ~ Exists("pending")
                            /\ m = "activated" => Pending = ActiveConsensusKey
                            /\ m = "imported" => Pending # ActiveConsensusKey
      BY <1>1, <2>3, RunDoes
    <3> QED
      BY <2>1, <3>1, AliasTypes, WalletSame, ChainSame DEF HandleResumedState, Modes
  <2> QED
    BY <2>2, <2>3
<1>2. CASE Clear
  <2>1. CASE mode = "clean"
    BY <1>2, <2>1, ClearDoes, WalletSame, ChainSame DEF Clear
  <2>2. CASE mode # "clean"
    BY <1>2, <2>2, ClearDoes, ChainSame, AliasTypes DEF Clear, ModeInv
  <2> QED
    BY <2>1, <2>2
<1>3. CASE ResumeImported
  BY <1>3, WalletSame, ChainSame DEF ResumeImported
<1>4. CASE Connect
  BY <1>4, WalletSame, ChainSame DEF Connect
<1>5. CASE Discover
  BY <1>5, WalletSame, ChainSame DEF Discover, ModeInv
<1>6. CASE ImportNewKeys
  BY <1>6, ImportDoes, ChainSame DEF ImportNewKeys, FreshInv
<1>7. CASE CheckExistingPendingKeys
  BY <1>7, WalletSame, ChainSame DEF CheckExistingPendingKeys, ModeInv
<1>8. CASE ImportPending
  BY <1>8, WalletSame, ChainSame DEF ImportPending
<1>9. CASE SubmitKeyRotationTransactions
  BY <1>9, SubmitDoes, WalletSame DEF SubmitKeyRotationTransactions
<1>10. CASE PollForPendingActivation
  BY <1>10, WalletSame, ChainSame DEF PollForPendingActivation
<1>11. CASE Reconnect
  BY <1>11, WalletSame, ChainSame DEF Reconnect
<1>12. CASE RunActivationMonitoring
  BY <1>12, WalletSame, ChainSame DEF RunActivationMonitoring, OfferToWait
<1>13. CASE ResumeFromPending
  BY <1>13, WalletSame, ChainSame DEF ResumeFromPending, OfferToWait
<1>14. CASE WaitForActivation
  BY <1>14, WalletSame, ChainSame DEF WaitForActivation
<1>15. CASE StopBaker
  BY <1>15, WalletSame, ChainSame DEF StopBaker
<1>16. CASE Swap
  BY <1>16, WalletSame, ChainSame DEF Swap
<1>17. CASE CompleteRotation
  BY <1>17, WalletSame, ChainSame DEF CompleteRotation
<1>18. CASE PromoteAliasesWithBackup
  BY <1>18, WalletSame, ChainSame DEF PromoteAliasesWithBackup
<1>19. CASE RenameInFile
  BY <1>19, RenameGoes, ChainSame DEF RenameInFile, StageInv
<1>20. CASE StartBaker
  BY <1>20, WalletSame, ChainSame DEF StartBaker
<1>21. CASE BakerIsRunning
  BY <1>21, WalletSame, ChainSame DEF BakerIsRunning
<1>22. CASE VerifyBakerSigning
  BY <1>22, WalletSame, ChainSame DEF VerifyBakerSigning
<1>23. CASE CleanupBackupAliases
  BY <1>23, CleanupDoes, ChainSame DEF CleanupBackupAliases
<1>24. CASE OfferRollback
  BY <1>24, WalletSame, ChainSame DEF OfferRollback
<1>25. CASE RenameFails
  BY <1>25, RenameGoes, ChainSame DEF RenameFails, StageInv
<1>26. CASE Abort
  BY <1>26, WalletSame, ChainSame DEF Abort
<1>27. CASE Disturb
  BY <1>27, WalletSame, ChainSame DEF Disturb
<1>28. ASSUME NEW r \in Roles, ActivateKey(r) PROVE PendingInv'
  BY <1>28, ActivateDoes DEF StageInv, ModeInv
<1>29. CASE UNCHANGED vars
  BY <1>29, WalletSame, ChainSame DEF vars
<1> QED
  BY <1>1, <1>2, <1>3, <1>4, <1>5, <1>6, <1>7, <1>8, <1>9, <1>10,
     <1>11, <1>12, <1>13, <1>14, <1>15, <1>16, <1>17, <1>18, <1>19, <1>20,
     <1>21, <1>22, <1>23, <1>24, <1>25, <1>26, <1>27, <1>28, <1>29
     DEF Next, Step


(* A fresh rotation.                                                        *)
LEMMA FreshStep ==
    ASSUME RotateInv, [Next]_vars
    PROVE  FreshInv'
<1> USE DEF RotateInv, local, EndWith, End, Start, Goto, FreshInv, history
<1>1. ASSUME NEW d \in Devices, NEW replace \in MayReplace, NEW dry \in MayDry,
             Run(d, replace, dry)
      PROVE  FreshInv'
  <2>1. UNCHANGED wallet /\ UNCHANGED chain
    BY <1>1 DEF Run
  <2>2. CASE replace
    BY <1>1, <2>1, <2>2, AliasTypes, WalletSame, ChainSame, RunDoes DEF Run, HandleReplaceFlag
  <2>3. CASE ~ replace
    <3>1. PICK m \in Modes :
            /\ HandleResumedState(m)
            /\ m \in {"clean", "imported", "activated"} => ConsensusPending = NoKey
            /\ m \in {"pending", "chainonly"} => ConsensusPending # NoKey
            /\ UNCHANGED replaced
            /\ ~ misled' => /\ ~ misled
                            /\ m = "partial" <=> Exists("old")
                            /\ m \in {"clean", "chainonly"} => ~ Exists("pending")
                            /\ m = "activated" => Pending = ActiveConsensusKey
                            /\ m = "imported" => Pending # ActiveConsensusKey
      BY <1>1, <2>3, RunDoes
    <3> QED
      BY <2>1, <3>1, AliasTypes, WalletSame, ChainSame DEF HandleResumedState, Modes
  <2> QED
    BY <2>2, <2>3
<1>2. CASE Clear
  <2>1. CASE left = Order
    <3>1. Pending' = NoKey /\ left' = <<"companion">> /\ pc' = "clear" /\ UNCHANGED <<chain, mode>>
      BY <1>2, <2>1, RolesAre, ClearDoes DEF Clear
    <3>2. CASE UNCHANGED wallet
      <4>1. Pending = NoKey /\ ConsensusPending' = ConsensusPending
        BY <3>1, <3>2, WalletSame, ChainSame
      <4>2. /\ ~ replaced' => ~ replaced
            /\ UNCHANGED misled
        BY <1>2 DEF Clear
      <4>3. ~ replaced /\ ~ misled => ConsensusPending = NoKey
        BY <4>1 DEF PendingInv
      <4> QED
        BY <3>1, <4>1, <4>2, <4>3
    <3>3. CASE wallet' # wallet
      BY <1>2, <3>1, <3>3 DEF Clear
    <3> QED
      BY <3>2, <3>3
  <2>2. CASE left = <<"companion">>
    BY <1>2, <2>2, RolesAre, ClearDoes, ChainSame DEF Clear
  <2> QED
    BY <1>2, <2>1, <2>2 DEF Clear, LeftInv
<1>3. CASE ResumeImported
  BY <1>3 DEF ResumeImported, ModeInv
<1>4. CASE Connect
  BY <1>4, WalletSame, ChainSame DEF Connect
<1>5. CASE Discover
  BY <1>5, WalletSame, ChainSame DEF Discover
<1>6. CASE ImportNewKeys
  <2>1. CASE left = Order
    BY <1>6, <2>1, RolesAre, ImportDoes, ChainSame DEF ImportNewKeys
  <2>2. CASE left = <<"companion">>
    BY <1>6, <2>2, RolesAre, ImportDoes, ChainSame DEF ImportNewKeys
  <2> QED
    BY <1>6, <2>1, <2>2 DEF ImportNewKeys, LeftInv
<1>7. CASE CheckExistingPendingKeys
  BY <1>7, WalletSame, ChainSame DEF CheckExistingPendingKeys
<1>8. CASE ImportPending
  BY <1>8 DEF ImportPending, PendingInv
<1>9. CASE SubmitKeyRotationTransactions
  BY <1>9, SubmitDoes, WalletSame DEF SubmitKeyRotationTransactions
<1>10. CASE PollForPendingActivation
  BY <1>10, WalletSame, ChainSame DEF PollForPendingActivation
<1>11. CASE Reconnect
  BY <1>11, WalletSame, ChainSame DEF Reconnect
<1>12. CASE RunActivationMonitoring
  BY <1>12, WalletSame, ChainSame DEF RunActivationMonitoring, OfferToWait
<1>13. CASE ResumeFromPending
  BY <1>13, WalletSame, ChainSame DEF ResumeFromPending, OfferToWait
<1>14. CASE WaitForActivation
  BY <1>14, WalletSame, ChainSame DEF WaitForActivation
<1>15. CASE StopBaker
  BY <1>15, WalletSame, ChainSame DEF StopBaker
<1>16. CASE Swap
  BY <1>16, WalletSame, ChainSame DEF Swap
<1>17. CASE CompleteRotation
  BY <1>17, WalletSame, ChainSame DEF CompleteRotation
<1>18. CASE PromoteAliasesWithBackup
  BY <1>18, WalletSame, ChainSame DEF PromoteAliasesWithBackup
<1>19. CASE RenameInFile
  BY <1>19, RenameGoes, ChainSame DEF RenameInFile
<1>20. CASE StartBaker
  BY <1>20, WalletSame, ChainSame DEF StartBaker
<1>21. CASE BakerIsRunning
  BY <1>21, WalletSame, ChainSame DEF BakerIsRunning
<1>22. CASE VerifyBakerSigning
  BY <1>22, WalletSame, ChainSame DEF VerifyBakerSigning
<1>23. CASE CleanupBackupAliases
  BY <1>23, CleanupDoes, ChainSame DEF CleanupBackupAliases
<1>24. CASE OfferRollback
  BY <1>24, WalletSame, ChainSame DEF OfferRollback
<1>25. CASE RenameFails
  BY <1>25, RenameGoes, ChainSame DEF RenameFails
<1>26. CASE Abort
  BY <1>26, WalletSame, ChainSame DEF Abort
<1>27. CASE Disturb
  BY <1>27, WalletSame, ChainSame DEF Disturb
<1>28. ASSUME NEW r \in Roles, ActivateKey(r) PROVE FreshInv'
  BY <1>28, ActivateDoes
<1>29. CASE UNCHANGED vars
  BY <1>29, WalletSame, ChainSame DEF vars
<1> QED
  BY <1>1, <1>2, <1>3, <1>4, <1>5, <1>6, <1>7, <1>8, <1>9, <1>10,
     <1>11, <1>12, <1>13, <1>14, <1>15, <1>16, <1>17, <1>18, <1>19, <1>20,
     <1>21, <1>22, <1>23, <1>24, <1>25, <1>26, <1>27, <1>28, <1>29
     DEF Next, Step


(* How far a promotion is.                                                  *)
LEMMA JobStep ==
    ASSUME RotateInv, [Next]_vars
    PROVE  JobInv'
<1> USE DEF RotateInv, local, EndWith, End, Start, Goto, JobInv, history
<1>a. pc # "rename" => job.kind = "none"
  OBVIOUS
<1>c. ASSUME RenameInFile \/ RenameFails PROVE JobInv'
  <2>1. pc = "rename" /\ job.kind # "none" /\ job \in Jobs /\ job.n \in 1 .. Len(job.plan)
        /\ job.n \in Nat /\ Len(job.plan) \in Nat /\ UNCHANGED chain /\ UNCHANGED <<replaced, misled>>
    BY <1>c, RenameIs, Basics, LenProperties DEF RenameInFile, RenameFails
  <2>2. CASE job' = NoJob /\ pc' # "rename"
    BY <2>2 DEF NoJob
  <2>3. CASE pc' = "rename" /\ job.kind = "promote" /\ job.n > 1 /\ job' = Job("undo", Undo(job.n))
    <3>1. job.n \in 1 .. 4
      <4>1. job.plan = Promotion
        BY <2>3
      <4>2. Len(job.plan) = 4
        BY <4>1, PlansAre
      <4> QED
        BY <2>1, <4>2
    <3>2. job'.kind = "undo" /\ job'.plan = Undo(job.n) /\ job'.n = 1
      BY <2>3 DEF Job, NoJob
    <3>3. job.n \in 2 .. 4
      BY <3>1, <2>3
    <3>4. Len(Undo(job.n)) \in 1 .. 3
      BY <3>3, PlansAre
    <3> QED
      <4>1. job'.n \in 1 .. Len(job'.plan)
        <5>1. PICK m \in 1 .. 3 : m = Len(job'.plan)
          BY <3>2, <3>4
        <5>2. 1 \in 1 .. m
          OBVIOUS
        <5> QED
          BY <3>2, <5>1, <5>2
      <4> QED
        BY <2>3, <3>2, <4>1
  <2>4. CASE /\ pc' = "rename" /\ job.file < NumFiles
             /\ \E h \in BOOLEAN : job' = [job EXCEPT !.file = @ + 1, !.hit = h]
             /\ Renames
    <3>1. /\ job'.kind = job.kind /\ job'.plan = job.plan /\ job'.n = job.n
          /\ job'.file = job.file + 1 /\ job.file + 1 # 1 /\ job.file \in Nat
      BY <2>1, <2>4 DEF Jobs, Files
    <3>2. CASE job.kind # "promote"
      BY <2>1, <2>4, <3>1, <3>2
    <3>3. CASE job.kind = "promote"
      BY <2>1, <2>4, <3>1, <3>3, PromotionDoes, ChainSame
    <3> QED
      BY <3>2, <3>3
  <2>5. CASE /\ pc' = "rename" /\ job.n < Len(job.plan)
             /\ job' = [job EXCEPT !.n = @ + 1, !.file = 1, !.hit = FALSE]
             /\ job.kind = "promote" => Renames
    <3>1. /\ job'.kind = job.kind /\ job'.plan = job.plan /\ job'.n = job.n + 1
          /\ job'.file = 1
      BY <2>1, <2>5 DEF Jobs
    <3>2. CASE job.kind # "promote"
      BY <2>1, <2>5, <3>1, <3>2
    <3>3. CASE job.kind = "promote"
      BY <2>1, <2>5, <3>1, <3>3, PromotionDoes, ChainSame
    <3> QED
      BY <3>2, <3>3
  <2>6. pc' = "start" \/ pc' = "idle" => pc' # "rename"
    OBVIOUS
  <2> QED
    BY <1>c, <2>2, <2>3, <2>4, <2>5, <2>6, RenameGoes
<1>1. ASSUME NEW d \in Devices, NEW replace \in MayReplace, NEW dry \in MayDry,
             Run(d, replace, dry)
      PROVE  JobInv'
  <2>1. pc' # "rename" /\ UNCHANGED job /\ pc = "idle"
    BY <1>1, RunDoes DEF Run, HandleReplaceFlag, HandleResumedState, Modes
  <2> QED
    BY <1>a, <2>1
<1>2. CASE Clear
  BY <1>2, <1>a, ClearDoes, ChainSame DEF Clear
<1>3. CASE ResumeImported
  BY <1>3, <1>a, WalletSame, ChainSame DEF ResumeImported
<1>4. CASE Connect
  BY <1>4, <1>a, WalletSame, ChainSame DEF Connect
<1>5. CASE Discover
  BY <1>5, <1>a, WalletSame, ChainSame DEF Discover
<1>6. CASE ImportNewKeys
  BY <1>6, <1>a, ImportDoes, ChainSame DEF ImportNewKeys
<1>7. CASE CheckExistingPendingKeys
  BY <1>7, <1>a, WalletSame, ChainSame DEF CheckExistingPendingKeys
<1>8. CASE ImportPending
  BY <1>8, <1>a, WalletSame, ChainSame DEF ImportPending
<1>9. CASE SubmitKeyRotationTransactions
  BY <1>9, <1>a, SubmitDoes, WalletSame DEF SubmitKeyRotationTransactions
<1>10. CASE PollForPendingActivation
  BY <1>10, <1>a, WalletSame, ChainSame DEF PollForPendingActivation
<1>11. CASE Reconnect
  BY <1>11, <1>a, WalletSame, ChainSame DEF Reconnect
<1>12. CASE RunActivationMonitoring
  BY <1>12, <1>a, WalletSame, ChainSame DEF RunActivationMonitoring, OfferToWait
<1>13. CASE ResumeFromPending
  BY <1>13, <1>a, WalletSame, ChainSame DEF ResumeFromPending, OfferToWait
<1>14. CASE WaitForActivation
  BY <1>14, <1>a, WalletSame, ChainSame DEF WaitForActivation
<1>15. CASE StopBaker
  BY <1>15, <1>a, WalletSame, ChainSame DEF StopBaker
<1>16. CASE Swap
  BY <1>16, <1>a, WalletSame, ChainSame DEF Swap
<1>17. CASE CompleteRotation
  BY <1>17, <1>a, WalletSame, ChainSame DEF CompleteRotation
<1>18. CASE PromoteAliasesWithBackup
  <2>1. CASE job' = Job("promote", Promotion) /\ pc' = "rename"
    <3>1. /\ job'.kind = "promote" /\ job'.plan = Promotion /\ job'.n = 1 /\ job'.file = 1
          /\ Len(job'.plan) = 4 /\ 1 \in 1 .. 4
      BY <2>1, PlansAre DEF Job, NoJob
    <3>2. /\ ~ misled' => Old' = NoKey
          /\ ~ replaced' /\ ~ misled' => Pending' = ActiveConsensusKey'
      BY <1>18, WalletSame, ChainSame, AliasTypes
         DEF PromoteAliasesWithBackup, StageInv, PendingInv, Swapping
    <3>3. job'.n \in 1 .. Len(job'.plan) /\ job'.n # 2 /\ job'.n # 3
      BY <3>1
    <3> QED
      BY <2>1, <3>1, <3>2, <3>3
  <2>2. CASE UNCHANGED job /\ pc' = "idle"
    BY <1>18, <1>a, <2>2 DEF PromoteAliasesWithBackup
  <2> QED
    BY <1>18, <2>1, <2>2 DEF PromoteAliasesWithBackup
<1>19. CASE RenameInFile
  BY <1>19, <1>c
<1>20. CASE StartBaker
  BY <1>20, <1>a, WalletSame, ChainSame DEF StartBaker
<1>21. CASE BakerIsRunning
  BY <1>21, <1>a, WalletSame, ChainSame DEF BakerIsRunning
<1>22. CASE VerifyBakerSigning
  BY <1>22, <1>a, WalletSame, ChainSame DEF VerifyBakerSigning
<1>23. CASE CleanupBackupAliases
  BY <1>23, <1>a, CleanupDoes, ChainSame DEF CleanupBackupAliases
<1>24. CASE OfferRollback
  <2>1. CASE job' = Job("rollback", Restore) /\ pc' = "rename"
    <3>1. job'.kind = "rollback" /\ job'.n = 1 /\ Len(job'.plan) = 2 /\ 1 \in 1 .. 2
      BY <2>1, PlansAre DEF Job, NoJob
    <3> QED
      BY <2>1, <3>1
  <2>2. CASE UNCHANGED job /\ pc' = "idle"
    BY <1>24, <1>a, <2>2 DEF OfferRollback
  <2> QED
    BY <1>24, <2>1, <2>2 DEF OfferRollback
<1>25. CASE RenameFails
  BY <1>25, <1>c
<1>26. CASE Abort
  BY <1>26 DEF Abort, NoJob
<1>27. CASE Disturb
  BY <1>27, <1>a, WalletSame, ChainSame DEF Disturb
<1>28. ASSUME NEW r \in Roles, ActivateKey(r) PROVE JobInv'
  <2>1. pc = "rename" /\ ~ misled => ConsensusPending = NoKey
    BY DEF StageInv
  <2> QED
    BY <1>28, <1>a, <2>1, ActivateDoes
<1>29. CASE UNCHANGED vars
  BY <1>29, <1>a, WalletSame, ChainSame DEF vars
<1> QED
  BY <1>1, <1>2, <1>3, <1>4, <1>5, <1>6, <1>7, <1>8, <1>9, <1>10,
     <1>11, <1>12, <1>13, <1>14, <1>15, <1>16, <1>17, <1>18, <1>19, <1>20,
     <1>21, <1>22, <1>23, <1>24, <1>25, <1>26, <1>27, <1>28, <1>29
     DEF Next, Step


(* The invariant holds always.                                              *)
LEMMA AlwaysRotateInv == Spec => []RotateInv
<1>1. RotateInv /\ [Next]_vars => RotateInv'
  BY RotateTypeStep, LeftStep, StageStep, ModeStep, PendingStep, FreshStep, JobStep DEF RotateInv
<1> QED
  BY RotateInitInv, <1>1, PTL DEF Spec

-----------------------------------------------------------------------------
(* Theorems.                                                                *)

(* Every variable keeps its type.                                           *)
THEOREM RotateTypeCorrect == Spec => []TypeOK
<1>1. RotateInv => TypeOK
  BY DEF RotateInv
<1> QED
  BY AlwaysRotateInv, <1>1, PTL

(* A run that reports "Key Rotation Complete" leaves the consensus alias on *)
(* the key the chain has active: the gate verify_baker_signing puts before  *)
(* cleanup_backup_aliases is enough wherever the run was resumed, because   *)
(* nothing is pending from the swap on and the key cannot change meanwhile. *)
THEOREM CompleteMeansActive == Spec => CompleteIsActive
<1>1. RotateInv /\ [Next]_vars =>
        [~ misled /\ pc = "cleanup" /\ pc' = "idle" /\ result' = "complete" =>
          \A f \in IF torn \/ ~ Whole(wallet) THEN {1} ELSE Files :
            wallet'[f]["consensus"]["cur"] = ActiveConsensusKey]_vars
  <2> SUFFICES ASSUME RotateInv, Next, ~ misled, pc = "cleanup", pc' = "idle", result' = "complete",
                      NEW f \in IF torn \/ ~ Whole(wallet) THEN {1} ELSE Files
               PROVE  wallet'[f]["consensus"]["cur"] = ActiveConsensusKey
    OBVIOUS
  <2>1. \/ CleanupBackupAliases
        \/ Abort \/ Disturb \/ \E r \in Roles : ActivateKey(r)
    BY DEF Next, Step, Run, Clear, ResumeImported, Connect, Discover, ImportNewKeys,
       CheckExistingPendingKeys, ImportPending, SubmitKeyRotationTransactions,
       PollForPendingActivation, Reconnect, RunActivationMonitoring, ResumeFromPending,
       WaitForActivation, StopBaker, Swap, CompleteRotation, PromoteAliasesWithBackup,
       RenameInFile, StartBaker, BakerIsRunning, VerifyBakerSigning, OfferRollback, RenameFails
  <2>2. CleanupBackupAliases
    BY <2>1 DEF Abort, Disturb, ActivateKey, End, EndWith
  <2>3. UNCHANGED wallet
    BY <2>2 DEF CleanupBackupAliases, Goto
  <2>4. wallet[f] = wallet[1]
    BY DEF Whole
  <2>5. wallet[1]["consensus"]["cur"] = ActiveConsensusKey
    BY DEF RotateInv, StageInv, Cur, Alias
  <2> QED
    BY <2>3, <2>4, <2>5
<1> QED
  BY AlwaysRotateInv, <1>1, PTL DEF Spec, CompleteIsActive


(* That --replace dropped an alias or a run was misled is not forgotten.    *)
LEMMA ReplacedStays ==
    ASSUME RotateInv, [Next]_vars
    PROVE  (replaced => replaced') /\ (misled => misled')
<1> USE DEF history
<1>1. ASSUME NEW d \in Devices, NEW replace \in MayReplace, NEW dry \in MayDry,
             Run(d, replace, dry)
      PROVE  (replaced => replaced') /\ (misled => misled')
  BY <1>1, RunDoes DEF Run
<1>2. CASE Clear
  BY <1>2 DEF Clear
<1>3. CASE ResumeImported
  BY <1>3 DEF ResumeImported
<1>4. CASE Connect
  BY <1>4 DEF Connect
<1>5. CASE Discover
  BY <1>5 DEF Discover
<1>6. CASE ImportNewKeys
  BY <1>6 DEF ImportNewKeys
<1>7. CASE CheckExistingPendingKeys
  BY <1>7 DEF CheckExistingPendingKeys
<1>8. CASE ImportPending
  BY <1>8 DEF ImportPending
<1>9. CASE SubmitKeyRotationTransactions
  BY <1>9 DEF SubmitKeyRotationTransactions
<1>10. CASE PollForPendingActivation
  BY <1>10 DEF PollForPendingActivation
<1>11. CASE Reconnect
  BY <1>11 DEF Reconnect
<1>12. CASE RunActivationMonitoring
  BY <1>12 DEF RunActivationMonitoring, OfferToWait
<1>13. CASE ResumeFromPending
  BY <1>13 DEF ResumeFromPending, OfferToWait
<1>14. CASE WaitForActivation
  BY <1>14 DEF WaitForActivation
<1>15. CASE StopBaker
  BY <1>15 DEF StopBaker
<1>16. CASE Swap
  BY <1>16 DEF Swap
<1>17. CASE CompleteRotation
  BY <1>17 DEF CompleteRotation
<1>18. CASE PromoteAliasesWithBackup
  BY <1>18 DEF PromoteAliasesWithBackup
<1>19. CASE RenameInFile
  BY <1>19 DEF RenameInFile
<1>20. CASE StartBaker
  BY <1>20 DEF StartBaker
<1>21. CASE BakerIsRunning
  BY <1>21 DEF BakerIsRunning
<1>22. CASE VerifyBakerSigning
  BY <1>22 DEF VerifyBakerSigning
<1>23. CASE CleanupBackupAliases
  BY <1>23 DEF CleanupBackupAliases
<1>24. CASE OfferRollback
  BY <1>24 DEF OfferRollback
<1>25. CASE RenameFails
  BY <1>25 DEF RenameFails
<1>26. CASE Abort
  BY <1>26 DEF Abort
<1>27. CASE Disturb
  BY <1>27 DEF Disturb
<1>28. ASSUME NEW r \in Roles, ActivateKey(r) PROVE (replaced => replaced') /\ (misled => misled')
  BY <1>28 DEF ActivateKey
<1>29. CASE UNCHANGED vars
  BY <1>29 DEF vars
<1> QED
  BY <1>1, <1>2, <1>3, <1>4, <1>5, <1>6, <1>7, <1>8, <1>9, <1>10,
     <1>11, <1>12, <1>13, <1>14, <1>15, <1>16, <1>17, <1>18, <1>19, <1>20,
     <1>21, <1>22, <1>23, <1>24, <1>25, <1>26, <1>27, <1>28, <1>29
     DEF Next, Step


(* The alias of the active key is lost by no step but those of an undo, of  *)
(* a rollback, of --replace, of a misled run, or a write that is cut off.   *)
LEMMA ActiveKeyStep ==
    ASSUME RotateInv, ~ replaced', ~ misled', broken' = {}, job.kind \notin {"rollback", "undo"}, [Next]_vars
    PROVE  KeepsActiveKey
<1> USE DEF RotateInv
<1>a. UNCHANGED wallet => KeepsActiveKey
  BY DEF KeepsActiveKey, Alias
<1>b. ~ replaced /\ ~ misled /\ ActiveConsensusKey # NoKey
  BY ReplacedStays, AliasTypes
<1>c. /\ ActiveConsensusKey \in {Cur', Pending', Old'} => KeepsActiveKey
      /\ ActiveConsensusKey \notin {Cur, Pending, Old} => KeepsActiveKey
  BY DEF KeepsActiveKey, Alias, Cur, Pending, Old, Slots
<1>1. ASSUME NEW d \in Devices, NEW replace \in MayReplace, NEW dry \in MayDry,
             Run(d, replace, dry)
      PROVE  KeepsActiveKey
  BY <1>1, <1>a DEF Run
<1>2. CASE Clear
  <2>1. Cur' = Cur /\ Old' = Old /\ Pending' \in {Pending, NoKey}
    BY <1>2, ClearDoes
  <2>2. CASE mode = "clean"
    BY <1>2, <1>a, <2>2 DEF Clear
  <2>3. CASE mode # "clean"
    BY <1>2, <1>b, <1>c, <2>1, <2>3 DEF Clear, PendingInv
  <2> QED
    BY <2>2, <2>3
<1>3. CASE ResumeImported
  BY <1>3, <1>a DEF ResumeImported
<1>4. CASE Connect
  BY <1>4, <1>a DEF Connect
<1>5. CASE Discover
  BY <1>5, <1>a DEF Discover
<1>6. CASE ImportNewKeys
  <2>1. Cur' = Cur /\ Old' = Old
        /\ Pending' = IF SignerHolds(found) /\ Head(left) = "consensus" THEN found ELSE Pending
    BY <1>6, ImportDoes
  <2>2. CASE left = Order
    <3>1. Pending = NoKey
      BY <1>6, <1>b, <2>2 DEF ImportNewKeys, PendingInv, FreshInv
    <3> QED
      BY <1>b, <1>c, <2>1, <3>1
  <2>3. CASE left = <<"companion">>
    BY <1>c, <2>1, <2>3, RolesAre
  <2> QED
    BY <1>6, <2>2, <2>3 DEF ImportNewKeys, LeftInv
<1>7. CASE CheckExistingPendingKeys
  BY <1>7, <1>a DEF CheckExistingPendingKeys
<1>8. CASE ImportPending
  BY <1>8, <1>a DEF ImportPending
<1>9. CASE SubmitKeyRotationTransactions
  BY <1>9, <1>a DEF SubmitKeyRotationTransactions
<1>10. CASE PollForPendingActivation
  BY <1>10, <1>a DEF PollForPendingActivation
<1>11. CASE Reconnect
  BY <1>11, <1>a DEF Reconnect
<1>12. CASE RunActivationMonitoring
  BY <1>12, <1>a DEF RunActivationMonitoring, OfferToWait
<1>13. CASE ResumeFromPending
  BY <1>13, <1>a DEF ResumeFromPending, OfferToWait
<1>14. CASE WaitForActivation
  BY <1>14, <1>a DEF WaitForActivation
<1>15. CASE StopBaker
  BY <1>15, <1>a DEF StopBaker
<1>16. CASE Swap
  BY <1>16, <1>a DEF Swap
<1>17. CASE CompleteRotation
  BY <1>17, <1>a DEF CompleteRotation
<1>18. CASE PromoteAliasesWithBackup
  BY <1>18, <1>a DEF PromoteAliasesWithBackup
<1>19. CASE RenameInFile
  <2>1. job.kind = "promote"
    BY <1>19, RenameIs DEF RenameInFile
  <2>2. CASE Renames
    <3>2. job.n \in 1 .. 4 /\ job.file \in Files /\ pc = "rename"
      BY <1>19, <2>1, <2>2, PromotionDoes, RenameIs DEF RenameInFile
    <3>3. CASE job.file # 1 \/ job.n \in {2, 4}
      BY <1>c, <2>1, <2>2, <3>3, PromotionDoes
    <3>4. CASE job.file = 1 /\ job.n = 1
      BY <1>b, <1>c, <2>1, <2>2, <3>4, PromotionDoes DEF JobInv
    <3>5. CASE job.file = 1 /\ job.n = 3
      BY <1>b, <1>c, <2>1, <2>2, <3>5, PromotionDoes DEF JobInv
    <3> QED
      BY <3>2, <3>3, <3>4, <3>5
  <2>3. CASE ~ Renames
    BY <1>19, <1>a, <2>3 DEF Renames, RenameInFile
  <2> QED
    BY <2>2, <2>3
<1>20. CASE StartBaker
  BY <1>20, <1>a DEF StartBaker
<1>21. CASE BakerIsRunning
  BY <1>21, <1>a DEF BakerIsRunning
<1>22. CASE VerifyBakerSigning
  BY <1>22, <1>a DEF VerifyBakerSigning
<1>23. CASE CleanupBackupAliases
  BY <1>23, <1>b, <1>c, CleanupDoes DEF CleanupBackupAliases, StageInv
<1>24. CASE OfferRollback
  BY <1>24, <1>a DEF OfferRollback
<1>25. CASE RenameFails
  BY <1>25, <1>a, CutOffDoes DEF RenameFails
<1>26. CASE Abort
  BY <1>26, <1>a DEF Abort
<1>27. CASE Disturb
  BY <1>27, <1>a DEF Disturb
<1>28. ASSUME NEW r \in Roles, ActivateKey(r) PROVE KeepsActiveKey
  BY <1>28, <1>a DEF ActivateKey
<1>29. CASE UNCHANGED vars
  BY <1>29, <1>a DEF vars
<1> QED
  BY <1>1, <1>2, <1>3, <1>4, <1>5, <1>6, <1>7, <1>8, <1>9, <1>10,
     <1>11, <1>12, <1>13, <1>14, <1>15, <1>16, <1>17, <1>18, <1>19, <1>20,
     <1>21, <1>22, <1>23, <1>24, <1>25, <1>26, <1>27, <1>28, <1>29
     DEF Next, Step


(* promote_aliases_with_backup makes no key the current one before the      *)
(* chain does, and imports, renames, cleanups, failed calls and             *)
(* interruptions never lose the alias of the key the chain has active, from *)
(* whatever state the run was resumed, as long as --replace dropped no      *)
(* alias, no failed probe misled a run and no write of a file was cut off.  *)
THEOREM AliasFollows == Spec => AliasFollowsChain
<1>1. RotateInv /\ [Next]_vars =>
        [~ replaced' /\ ~ misled' /\ broken' = {} /\ job.kind \notin {"rollback", "undo"}
          => KeepsActiveKey]_vars
  BY ActiveKeyStep
<1>2. RotateInv /\ [Next]_vars =>
        [~ replaced /\ ~ misled /\ pc = "rename" /\ job.kind = "promote"
          /\ wallet'[1]["consensus"]["cur"] \notin {wallet[1]["consensus"]["cur"], NoKey}
          => wallet'[1]["consensus"]["cur"] = ActiveConsensusKey]_vars
  <2> SUFFICES ASSUME RotateInv, Next, ~ replaced, ~ misled, pc = "rename",
                      job.kind = "promote",
                      Cur' \notin {Cur, NoKey}
               PROVE  Cur' = ActiveConsensusKey
    BY DEF Cur, Alias
  <2>1. RenameInFile \/ CutOff \/ UNCHANGED wallet
    BY DEF Next, Step, Run, Clear, ResumeImported, Connect, Discover, ImportNewKeys,
       CheckExistingPendingKeys, ImportPending, SubmitKeyRotationTransactions,
       PollForPendingActivation, Reconnect, RunActivationMonitoring, ResumeFromPending,
       WaitForActivation, StopBaker, Swap, CompleteRotation, PromoteAliasesWithBackup,
       StartBaker, BakerIsRunning, VerifyBakerSigning, CleanupBackupAliases, OfferRollback,
       RenameFails, Abort, Disturb, ActivateKey
  <2>2. Renames
    <3>1. ~ UNCHANGED wallet
      BY WalletSame
    <3>2. ~ CutOff
      BY CutOffDoes, Basics DEF Cur, Alias
    <3> QED
      BY <2>1, <3>1, <3>2 DEF Renames, RenameInFile
  <2>3. job.n \in 1 .. 4 /\ job.file = 1 /\ job.n = 3 /\ Cur' = Pending
    BY <2>2, PromotionDoes
  <2> QED
    BY <2>3 DEF RotateInv, JobInv
<1> QED
  BY AlwaysRotateInv, <1>1, <1>2, PTL
     DEF Spec, AliasFollowsChain, PromotedKeyIsActive, ActiveKeyKept

=============================================================================
