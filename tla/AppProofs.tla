------------------------------ MODULE AppProofs ------------------------------
(***************************************************************************)
(* Proofs about the UI thread (App).  What the channel may hold is said    *)
(* with In, Once and After, so that a step of the channel (its head taken, *)
(* an event sent) is reasoned about once, in the lemmas on them.           *)
(***************************************************************************)
EXTENDS App, FiniteSetTheorems, TLAPS

(* An event of one of these kinds is in the channel q. *)
In(q, K) == \E i \in DOMAIN q : q[i].kind \in K

(* There is at most one such event. *)
Once(q, K) == \A i, j \in DOMAIN q : q[i].kind \in K /\ q[j].kind \in K => i = j

(* Every event of kinds K has one of kinds L behind it. *)
After(q, K, L) == \A i \in DOMAIN q : q[i].kind \in K =>
                      \E j \in DOMAIN q : j > i /\ q[j].kind \in L

(* A config that was found present is on its way to the gate. *)
PassesGate(q) == \E i \in DOMAIN q : q[i] = Ev("WatermarkConfigChecked", "present")

Started    == {"KeysDecrypted"}
Activation == {"ActivateScreensaver"}
NewPin     == {"FirstPinEntered", "PinMismatch"}
Generated  == {"KeyGenSuccess", "KeyGenFailed"}
Stored     == {"StorageSetupComplete", "StorageSetupFailed", "WatermarkConfigChecked"}
Storing    == {"StorageProgress"}
Checked    == {"PinVerified", "PinVerificationFailed", "InvalidPinEntered", "DeviceLocked"}
Upgrading  == {"PinVerifyProgress"}

(* Before the keys are decrypted there is no manager and no KeysDecrypted;  *)
(* afterwards the event and the manager it takes go together.               *)
SignerInv ==
    /\ state \in {"setup", "pin"} => ~ In(queue, Started) /\ ~ manager /\ ~ serving
    /\ In(queue, Started) => manager /\ ~ serving
    /\ Once(queue, Started)

(* The timer parks only when no tap is on its way to close a page, so a     *)
(* page that may not sleep stays up until a touch has reset the timer.      *)
TimerInv ==
    /\ timer = "parked" /\ ~ reset => ~ In(queue, Caused)
    /\ state = "active" /\ serving /\ ~ screensaver /\ timer = "parked" /\ ~ reset
         /\ ~ In(queue, Activation) => Modal(page)

(* The card is as the config gate wants it. *)
Ready == parts = "mounted" /\ config = "present" /\ ~ marker

(* One format at most runs, on partitions not yet mounted, and keys go to   *)
(* mounted partitions.                                                      *)
DiskInv ==
    /\ storing["format"] <= 1
    /\ storing["format"] > 0 => parts = "made"
    /\ keys \/ marker \/ generating > 0 \/ In(queue, {"KeyGenSuccess"})
         => parts = "mounted"

(* Whatever leads to key generation was let through the gate, and the gate  *)
(* stays satisfied.                                                         *)
GateInv ==
    state = "setup" /\ (\/ first # None \/ generating > 0
                        \/ page.kind = "pincreate" \/ In(queue, NewPin)
                        \/ PassesGate(queue))
        => Ready

(* What a progress page waits for during setup, and what is behind each     *)
(* event that brings one up.                                                *)
SetupWaits ==
    state = "setup" =>
        /\ page.kind = "busy" => generating > 0 \/ In(queue, Generated)
        /\ page.kind = "storing" => \/ storing["create"] > 0 \/ storing["format"] > 0
                                    \/ In(queue, Stored)
        /\ storing["format"] = 0 => After(queue, Storing, Stored)

(* The same while a PIN is entered and checked. *)
PinWaits ==
    state = "pin" =>
        /\ page.kind # "storing"
        /\ page.kind = "busy" => \/ \E p \in Checks : verifying[p] > 0
                                 \/ In(queue, Checked)
        /\ verifying["upgrading"] = 0 => After(queue, Upgrading, Checked)

(* The same until the menu is up; a progress page is never gone back to. *)
ActiveWaits ==
    /\ saved.kind \notin {"busy", "storing"}
    /\ state = "active" /\ page.kind \in {"busy", "storing"} => In(queue, Started)

-----------------------------------------------------------------------------
(* The channel.                                                             *)

(* What is left of the channel once its head is taken: the events behind it, *)
(* one place further on.                                                    *)
LEMMA TailEvents ==
    ASSUME NEW S, NEW q \in Seq(S), q # <<>>
    PROVE  /\ Head(q) \in S /\ Head(q) = q[1] /\ 1 \in DOMAIN q
           /\ Tail(q) \in Seq(S)
           /\ \A i \in DOMAIN Tail(q) : i + 1 \in DOMAIN q /\ Tail(q)[i] = q[i + 1]
           /\ \A i \in DOMAIN q : i # 1 => i - 1 \in DOMAIN Tail(q)
           /\ DOMAIN q \subseteq Nat \ {0} /\ DOMAIN Tail(q) \subseteq Nat \ {0}
  OBVIOUS

(* What is in the channel once an event was sent to its end. *)
LEMMA AppendEvents ==
    ASSUME NEW S, NEW q \in Seq(S), NEW e \in S
    PROVE  /\ Append(q, e) \in Seq(S)
           /\ DOMAIN Append(q, e) = DOMAIN q \cup {Len(q) + 1}
           /\ \A i \in DOMAIN q : Append(q, e)[i] = q[i] /\ i < Len(q) + 1
           /\ Append(q, e)[Len(q) + 1] = e
           /\ Len(q) + 1 \notin DOMAIN q
           /\ DOMAIN q \subseteq Nat \ {0} /\ Len(q) + 1 \in Nat \ {0}
  OBVIOUS

(* Taking the head removes nothing else. *)
LEMMA InTail ==
    ASSUME NEW S, NEW q \in Seq(S), q # <<>>, NEW K
    PROVE  In(q, K) <=> Head(q).kind \in K \/ In(Tail(q), K)
<1>1. In(Tail(q), K) => In(q, K)
  BY TailEvents DEF In
<1>2. Head(q).kind \in K => In(q, K)
  BY TailEvents DEF In
<1>3. ASSUME NEW i \in DOMAIN q, q[i].kind \in K, Head(q).kind \notin K
      PROVE  In(Tail(q), K)
  <2>1. i # 1
    BY <1>3, TailEvents
  <2>2. i - 1 \in DOMAIN Tail(q) /\ Tail(q)[i - 1] = q[(i - 1) + 1] /\ (i - 1) + 1 = i
    BY <2>1, TailEvents
  <2>3. Tail(q)[i - 1].kind \in K
    BY <2>2, <1>3
  <2> QED BY <2>2, <2>3 DEF In
<1> QED BY <1>1, <1>2, <1>3 DEF In

(* Sending an event adds that one. *)
LEMMA InAppend ==
    ASSUME NEW S, NEW q \in Seq(S), NEW e \in S, NEW K
    PROVE  In(Append(q, e), K) <=> In(q, K) \/ e.kind \in K
  BY AppendEvents DEF In

(* The same for an event the gate lets pass. *)
LEMMA GateTail ==
    ASSUME NEW S, NEW q \in Seq(S), q # <<>>
    PROVE  /\ PassesGate(Tail(q)) => PassesGate(q)
           /\ Head(q) = Ev("WatermarkConfigChecked", "present") => PassesGate(q)
  BY TailEvents DEF PassesGate

(* The same for an event the gate lets pass. *)
LEMMA GateAppend ==
    ASSUME NEW S, NEW q \in Seq(S), NEW e \in S
    PROVE  PassesGate(Append(q, e)) =>
               PassesGate(q) \/ e = Ev("WatermarkConfigChecked", "present")
  BY AppendEvents DEF PassesGate

(* An event that is alone stays alone, and is gone once it is taken. *)
LEMMA OnceTail ==
    ASSUME NEW S, NEW q \in Seq(S), q # <<>>, NEW K, Once(q, K)
    PROVE  /\ Once(Tail(q), K)
           /\ Head(q).kind \in K => ~ In(Tail(q), K)
<1>1. Once(Tail(q), K)
  <2> SUFFICES ASSUME NEW i \in DOMAIN Tail(q), NEW j \in DOMAIN Tail(q),
                      Tail(q)[i].kind \in K, Tail(q)[j].kind \in K
               PROVE  i = j
    BY DEF Once
  <2>1. i + 1 = j + 1
    BY TailEvents DEF Once
  <2> QED BY <2>1, TailEvents
<1>2. ASSUME Head(q).kind \in K, NEW i \in DOMAIN Tail(q), Tail(q)[i].kind \in K
      PROVE  FALSE
  <2>1. i + 1 = 1
    BY <1>2, TailEvents DEF Once
  <2> QED BY <2>1, TailEvents
<1> QED BY <1>1, <1>2 DEF In

(* A first event of its kinds is alone. *)
LEMMA OnceAppend ==
    ASSUME NEW S, NEW q \in Seq(S), NEW e \in S, NEW K, Once(q, K),
           e.kind \notin K \/ ~ In(q, K)
    PROVE  Once(Append(q, e), K)
  BY AppendEvents DEF Once, In

(* Taking the head leaves what stands behind the others in place, and what  *)
(* stood behind the head.                                                   *)
LEMMA AfterTail ==
    ASSUME NEW S, NEW q \in Seq(S), q # <<>>, NEW K, NEW L, After(q, K, L)
    PROVE  /\ After(Tail(q), K, L)
           /\ Head(q).kind \in K => In(Tail(q), L)
<1>1. ASSUME NEW i \in DOMAIN q, NEW j \in DOMAIN q, j > i, q[j].kind \in L
      PROVE  j - 1 \in DOMAIN Tail(q) /\ Tail(q)[j - 1].kind \in L
  <2>1. i \in Nat /\ i >= 1 /\ j \in Nat
    BY TailEvents
  <2>2. j # 1 /\ (j - 1) + 1 = j
    BY <2>1, <1>1
  <2>3. j - 1 \in DOMAIN Tail(q) /\ Tail(q)[j - 1] = q[(j - 1) + 1]
    BY <2>2, TailEvents
  <2> QED BY <2>2, <2>3, <1>1
<1>2. ASSUME NEW i \in DOMAIN Tail(q), Tail(q)[i].kind \in K
      PROVE  \E j \in DOMAIN Tail(q) : j > i /\ Tail(q)[j].kind \in L
  <2>1. i + 1 \in DOMAIN q /\ q[i + 1].kind \in K
    BY <1>2, TailEvents
  <2>2. PICK j \in DOMAIN q : j > i + 1 /\ q[j].kind \in L
    BY <2>1 DEF After
  <2>3. j - 1 \in DOMAIN Tail(q) /\ Tail(q)[j - 1].kind \in L
    BY <1>1, <2>1, <2>2
  <2>4. j - 1 > i
    BY <2>2, TailEvents
  <2> QED BY <2>3, <2>4
<1>3. ASSUME Head(q).kind \in K
      PROVE  In(Tail(q), L)
  <2>1. PICK j \in DOMAIN q : j > 1 /\ q[j].kind \in L
    BY <1>3, TailEvents DEF After
  <2> QED BY <1>1, <2>1, TailEvents DEF In
<1> QED BY <1>2, <1>3 DEF After

(* An event that is sent stands behind all that are there. *)
LEMMA AfterAppend ==
    ASSUME NEW S, NEW q \in Seq(S), NEW e \in S, NEW K, NEW L, e.kind \notin K,
           e.kind \in L \/ After(q, K, L)
    PROVE  After(Append(q, e), K, L)
<1> SUFFICES ASSUME NEW i \in DOMAIN Append(q, e), Append(q, e)[i].kind \in K
             PROVE  \E j \in DOMAIN Append(q, e) : j > i /\ Append(q, e)[j].kind \in L
  BY DEF After
<1>1. i \in DOMAIN q /\ q[i].kind \in K
  BY AppendEvents
<1>2. CASE e.kind \in L
  BY <1>1, <1>2, AppendEvents
<1>3. CASE After(q, K, L)
  BY <1>1, <1>3, AppendEvents DEF After
<1> QED BY <1>2, <1>3

(* An empty channel. *)
LEMMA EmptyChannel ==
    /\ <<>> \in Seq(Event) /\ ~ PassesGate(<<>>)
    /\ \A K, L : ~ In(<<>>, K) /\ Once(<<>>, K) /\ After(<<>>, K, L)
  BY DEF In, Once, After, PassesGate

-----------------------------------------------------------------------------
(* Types.                                                                   *)

(* The payload of each kind of event. *)
LEMMA EventArg ==
    ASSUME NEW e \in Event
    PROVE  /\ e = Ev(e.kind, e.arg)
           /\ e.kind = "FirstPinEntered" => e.arg \in Pins
           /\ e.kind = "PinEntered" => e.arg \in Pins \cup {NoPin}
           /\ e.kind = "WatermarkConfigChecked" => e.arg \in Presence
           /\ e.kind = "UnknownKeyRequested" => e.arg \in Pkhs
           /\ e.kind = "ShowImage" => e.arg \in Back
  BY DEF Event, Ev, Plain

(* Events are built as Event says. *)
LEMMA EventType ==
    /\ \A kind \in Plain : E(kind) \in Event
    /\ \A p \in Pins : Ev("FirstPinEntered", p) \in Event
    /\ \A p \in Pins \cup {NoPin} : Ev("PinEntered", p) \in Event
    /\ \A m \in Migration : Ev("PinVerified", m) \in Event
    /\ \A c \in Presence : Ev("WatermarkConfigChecked", c) \in Event
    /\ \A k \in Pkhs : Ev("UnknownKeyRequested", k) \in Event
    /\ \A b \in Back : Ev("ShowImage", b) \in Event
    /\ \A kind, arg : Ev(kind, arg).kind = kind /\ Ev(kind, arg).arg = arg
    /\ \A kind : E(kind).kind = kind
  BY DEF Event, Ev, E

(* Pages are built as Page says. *)
LEMMA PageType ==
    /\ \A kind \in {"greeting", "storing", "pincreate", "pinconfirm", "pinverify",
                    "busy", "menu", "info", "about", "screensaver"} :
          P(kind) \in Page
    /\ \A b \in Back : Pg("image", b) \in Page
    /\ Pg("dialog", "EnterPin") \in Page /\ Pg("dialog", "DialogDismissed") \in Page
    /\ Pg("confirm", "Shutdown") \in Page
    /\ Pg("confirm", "UpdateWatermarkToLevel") \in Page
    /\ Pg("notice", "AcknowledgeMigrationNotice") \in Page
    /\ Pg("notice", "UnknownKeyDismissed") \in Page
    /\ \A kind, arg : Pg(kind, arg).kind = kind /\ Pg(kind, arg).arg = arg
    /\ \A kind : P(kind).kind = kind
  BY DEF Page, Pg, P

(* What a touch on a page's buttons may send. *)
Pressed == {"StartSetup", "ShowImage", "ShowInfo", "ShowAbout", "RequestShutdown",
            "ShowMenu", "ShowGreeting", "EnterPin", "DialogDismissed",
            "AcknowledgeMigrationNotice", "UnknownKeyDismissed", "Shutdown",
            "UpdateWatermarkToLevel"}

(* The buttons of a page send events of these kinds. *)
LEMMA ButtonEvents ==
    ASSUME NEW p \in Page, NEW e \in Buttons(p)
    PROVE  e \in Event /\ e.kind \in Pressed
<1>1. CASE p.kind = "greeting"
  BY <1>1, EventType DEF Buttons, Pressed, Plain, Back
<1>2. CASE p.kind \in {"menu", "info", "about"}
  BY <1>2, EventType DEF Buttons, Pressed, Plain, Back
<1>3. CASE p.kind = "image"
  BY <1>3, EventType DEF Buttons, Pressed, Plain
<1>4. CASE p.kind \in {"dialog", "notice"}
  <2>1. p.arg \in {"EnterPin", "DialogDismissed", "AcknowledgeMigrationNotice",
                   "UnknownKeyDismissed"}
    BY <1>4 DEF Page
  <2>2. e = E(p.arg)
    BY <1>4 DEF Buttons
  <2> QED BY <2>1, <2>2, EventType DEF Pressed, Plain
<1>5. CASE p.kind = "confirm"
  <2>1. p.arg \in {"Shutdown", "UpdateWatermarkToLevel"}
    BY <1>5 DEF Page
  <2>2. e \in {E(p.arg), E("ShowMenu"), E("DialogDismissed")}
    BY <1>5 DEF Buttons
  <2> QED BY <2>1, <2>2, EventType DEF Pressed, Plain
<1>6. CASE p.kind \notin {"greeting", "menu", "info", "about", "image", "dialog",
                          "notice", "confirm"}
  BY <1>6 DEF Buttons
<1> QED BY <1>1, <1>2, <1>3, <1>4, <1>5, <1>6

(* What Enter sends: a new PIN has its length, and comes from its page. *)
LEMMA EnterEvents ==
    ASSUME page \in Page, typed \in Pins \cup {NoPin}, NEW e \in Enter
    PROVE  /\ e \in Event /\ e.kind \in {"FirstPinEntered", "PinEntered"}
           /\ e.kind = "FirstPinEntered" => page.kind = "pincreate"
<1>1. CASE page.kind = "pincreate" /\ typed # NoPin
  <2>1. e = Ev("FirstPinEntered", typed) /\ typed \in Pins
    BY <1>1 DEF Enter
  <2> QED BY <2>1, <1>1, EventType
<1>2. CASE page.kind \in {"pinconfirm", "pinverify"}
  <2>1. e = Ev("PinEntered", typed)
    BY <1>2 DEF Enter
  <2> QED BY <2>1, EventType
<1>3. CASE ~ (page.kind = "pincreate" /\ typed # NoPin)
           /\ page.kind \notin {"pinconfirm", "pinverify"}
  BY <1>3 DEF Enter
<1> QED BY <1>1, <1>2, <1>3

(* The parts of the type invariant, each kept by reasoning of its own kind. *)
ChannelType == queue \in Seq(Event)
PagesType == page \in Page /\ saved \in Page
FlagsType == /\ screensaver \in BOOLEAN /\ reset \in BOOLEAN /\ lockout \in BOOLEAN
             /\ overflow \in BOOLEAN /\ active \in BOOLEAN
             /\ manager \in BOOLEAN /\ serving \in BOOLEAN
             /\ keys \in BOOLEAN /\ marker \in BOOLEAN
CountsType == /\ failed \in Nat /\ generating \in Nat /\ touches \in Nat
              /\ storing \in [{"create", "format"} -> Nat]
              /\ verifying \in [Checks -> Nat]
NamesType == /\ state \in {"setup", "pin", "active"} \cup Ended
             /\ timer \in {"armed", "parked"}
             /\ typed \in Pins \cup {NoPin} /\ first \in Pins \cup {None}
             /\ parts \in {"none", "made", "mounted"} /\ config \in Presence
KnownType == known \in SUBSET Pkhs /\ IsFiniteSet(known) /\ Cardinality(known) <= Cap

(* The type invariant, with what the bound on recorded keys needs. *)
TypeInv == TypeOK /\ IsFiniteSet(known)

(* The parts make up the whole. *)
LEMMA TypeParts ==
    TypeInv <=> /\ ChannelType /\ PagesType /\ FlagsType
                /\ CountsType /\ NamesType /\ KnownType
  BY DEF TypeInv, TypeOK, ChannelType, PagesType, FlagsType, CountsType, NamesType, KnownType

(* Only events go through the channel. *)
LEMMA ChannelStep == TypeInv /\ [Next]_vars => ChannelType'
<1> SUFFICES ASSUME TypeInv, [Next]_vars PROVE ChannelType'
  OBVIOUS
<1>a. queue \in Seq(Event)
  BY DEF TypeInv, TypeOK
<1>b. queue # <<>> => Head(queue) \in Event /\ Tail(queue) \in Seq(Event)
  BY <1>a
<1>c. \A e \in Event : /\ Append(queue, e) \in Seq(Event)
                       /\ queue # <<>> => Append(Tail(queue), e) \in Seq(Event)
  BY <1>a, <1>b
<1> USE DEF ChannelType, pageVars, saverVars, pinVars, alertVars, signerVars,
            threads, card,
            Next1, Done, Emit, Send, Show, Progress, End, InSetup, InPin, InActive,
            OnlyThreads, NoThread, Room, Arg
<1>1. CASE HandleTouch
  <2>1. {E("DeactivateScreensaver")} \subseteq Event
    BY EventType DEF Plain
  <2>2. Buttons(page) \subseteq Event /\ Enter \subseteq Event
    BY ButtonEvents, EnterEvents DEF TypeInv, TypeOK
  <2> QED BY <1>1, <2>1, <2>2, <1>b, <1>c DEF HandleTouch
<1>2. CASE HandleShutdown
  BY <1>2, <1>a, <1>b DEF HandleShutdown
<1>3. CASE HandleFatalError
  BY <1>3, <1>a, <1>b DEF HandleFatalError
<1>4. CASE Drop
  BY <1>4, <1>a, <1>b DEF Drop
<1>5. CASE SetupNavigation
  BY <1>5, <1>a, <1>b DEF SetupNavigation
<1>6. CASE StartSetup
  <2>1. {E("StorageSetupComplete")} \subseteq Event
    BY EventType DEF Plain
  <2> QED BY <1>6, <2>1, <1>b, <1>c DEF StartSetup
<1>7. CASE StorageProgress
  BY <1>7, <1>a, <1>b DEF StorageProgress
<1>8. CASE StorageSetupComplete
  <2>1. \A c \in {config, "invalid"} : Ev("WatermarkConfigChecked", c) \in Event
    BY EventType DEF TypeInv, TypeOK, Presence
  <2> QED BY <1>8, <2>1, <1>b, <1>c DEF StorageSetupComplete
<1>9. CASE WatermarkConfigChecked
  BY <1>9, <1>a, <1>b DEF WatermarkConfigChecked
<1>10. CASE SetupFailed
  BY <1>10, <1>a, <1>b DEF SetupFailed
<1>11. CASE FirstPinEntered
  BY <1>11, <1>a, <1>b DEF FirstPinEntered
<1>12. CASE PinMismatch
  BY <1>12, <1>a, <1>b DEF PinMismatch
<1>13. CASE SetupPinConfirm
  <2>1. {E("PinMismatch")} \subseteq Event
    BY EventType DEF Plain
  <2> QED BY <1>13, <2>1, <1>b, <1>c DEF SetupPinConfirm
<1>14. CASE KeyGenSuccess
  <2>1. {E("KeysDecrypted")} \subseteq Event
    BY EventType DEF Plain
  <2> QED BY <1>14, <2>1, <1>b, <1>c DEF KeyGenSuccess, ToActive
<1>15. CASE PinEntered
  <2>1. {E("DeviceLocked")} \subseteq Event
    BY EventType DEF Plain
  <2> QED BY <1>15, <2>1, <1>b, <1>c DEF PinEntered
<1>16. CASE PinVerified
  <2>1. {E("KeysDecrypted")} \subseteq Event
    BY EventType DEF Plain
  <2> QED BY <1>16, <2>1, <1>b, <1>c DEF PinVerified, ToActive
<1>17. CASE PinVerifyProgress
  BY <1>17, <1>a, <1>b DEF PinVerifyProgress
<1>18. CASE AcknowledgeMigrationNotice
  <2>1. {E("KeysDecrypted")} \subseteq Event
    BY EventType DEF Plain
  <2> QED BY <1>18, <2>1, <1>b, <1>c DEF AcknowledgeMigrationNotice, ToActive
<1>19. CASE PinVerificationFailed
  <2>1. {E("InvalidPinEntered")} \subseteq Event
    BY EventType DEF Plain
  <2> QED BY <1>19, <2>1, <1>b, <1>c DEF PinVerificationFailed
<1>20. CASE InvalidPinEntered
  <2>1. {E("DeviceLocked")} \subseteq Event
    BY EventType DEF Plain
  <2> QED BY <1>20, <2>1, <1>b, <1>c DEF InvalidPinEntered
<1>21. CASE EnterPin
  BY <1>21, <1>a, <1>b DEF EnterPin
<1>22. CASE DeviceLocked
  BY <1>22, <1>a, <1>b DEF DeviceLocked
<1>23. CASE Navigation
  BY <1>23, <1>a, <1>b DEF Navigation
<1>24. CASE KeysDecrypted
  BY <1>24, <1>a, <1>b DEF KeysDecrypted
<1>25. CASE ActivateScreensaver
  BY <1>25, <1>a, <1>b DEF ActivateScreensaver
<1>26. CASE DeactivateScreensaver
  BY <1>26, <1>a, <1>b DEF DeactivateScreensaver, Wake
<1>27. CASE WatermarkAlert
  BY <1>27, <1>a, <1>b DEF WatermarkAlert, Wake
<1>28. CASE UnknownKeyRequested
  BY <1>28, <1>a, <1>b DEF UnknownKeyRequested, Wake
<1>29. CASE UnknownKeyDismissed
  BY <1>29, <1>a, <1>b DEF UnknownKeyDismissed
<1>30. CASE UpdateWatermarkToLevel
  <2>1. {E("WatermarkUpdateSuccess")} \subseteq Event
    BY EventType DEF Plain
  <2> QED BY <1>30, <2>1, <1>b, <1>c DEF UpdateWatermarkToLevel
<1>31. CASE ToMenu
  BY <1>31, <1>a, <1>b DEF ToMenu
<1>32. CASE RequestShutdown
  BY <1>32, <1>a, <1>b DEF RequestShutdown
<1>33. CASE StorageCreate
  <2>1. {E("StorageProgress"), E("StorageSetupFailed")} \subseteq Event
    BY EventType DEF Plain
  <2> QED BY <1>33, <2>1, <1>b, <1>c DEF StorageCreate
<1>34. CASE StorageFormat
  <2>1. {E("StorageSetupComplete"), E("StorageSetupFailed")} \subseteq Event
    BY EventType DEF Plain
  <2> QED BY <1>34, <2>1, <1>b, <1>c DEF StorageFormat
<1>35. CASE Keygen
  <2>1. {E("KeyGenFailed"), E("KeyGenSuccess")} \subseteq Event
    BY EventType DEF Plain
  <2> QED BY <1>35, <2>1, <1>b, <1>c DEF Keygen
<1>36. ASSUME NEW p \in Checks, VerifyPin(p) PROVE ChannelType'
  <2>1. /\ {E("PinVerifyProgress"), E("PinVerificationFailed")} \subseteq Event
        /\ \A m \in {"none", "promoted", "notice", "staged"} :
              Ev("PinVerified", m) \in Event
    BY EventType DEF Plain, Migration
  <2> QED BY <1>36, <2>1, <1>b, <1>c DEF VerifyPin
<1>37. CASE Touch
  <2>1. {E("Touch")} \subseteq Event
    BY EventType DEF Plain
  <2> QED BY <1>37, <2>1, <1>b, <1>c DEF Touch
<1>38. CASE TimerFire
  <2>1. {E("ActivateScreensaver")} \subseteq Event
    BY EventType DEF Plain
  <2> QED BY <1>38, <2>1, <1>b, <1>c DEF TimerFire
<1>39. CASE TimerReset
  BY <1>39, <1>a, <1>b DEF TimerReset
<1>40. CASE SignerRequest
  <2>1. /\ {E("WatermarkAlert"), E("FatalError")} \subseteq Event
        /\ \A k \in Pkhs : Ev("UnknownKeyRequested", k) \in Event
    BY EventType DEF Plain
  <2> QED BY <1>40, <2>1, <1>b, <1>c DEF SignerRequest
<1>41. CASE Interrupt
  <2>1. {E("Shutdown")} \subseteq Event
    BY EventType DEF Plain
  <2> QED BY <1>41, <2>1, <1>b, <1>c DEF Interrupt
<1>42. CASE PowerCycle
  BY <1>42, <1>a, <1>b DEF PowerCycle
<1>43. CASE UNCHANGED vars
  BY <1>43, <1>a, <1>b DEF vars
<1> QED BY <1>1, <1>2, <1>3, <1>4, <1>5, <1>6, <1>7, <1>8, <1>9, <1>10, <1>11,
          <1>12, <1>13, <1>14, <1>15, <1>16, <1>17, <1>18, <1>19, <1>20, <1>21,
          <1>22, <1>23, <1>24, <1>25, <1>26, <1>27, <1>28, <1>29, <1>30, <1>31,
          <1>32, <1>33, <1>34, <1>35, <1>36, <1>37, <1>38, <1>39, <1>40, <1>41,
          <1>42, <1>43
          DEF Next, HandleEvent, Worker

(* Only the pages there are come up. *)
LEMMA PagesStep == TypeInv /\ [Next]_vars => PagesType'
<1> SUFFICES ASSUME TypeInv, [Next]_vars PROVE PagesType'
  OBVIOUS
<1>a. PagesType
  BY TypeParts
<1>b. queue # <<>> => Head(queue) \in Event
  BY DEF TypeInv, TypeOK
<1> USE DEF PagesType, pageVars, saverVars, pinVars, alertVars, signerVars,
            threads, card,
            Next1, Done, Emit, Send, Show, Progress, End, InSetup, InPin, InActive,
            OnlyThreads, NoThread, Room, Arg
<1>1. CASE HandleTouch \/ HandleShutdown \/ HandleFatalError \/ Drop
        \/ StorageSetupComplete \/ SetupFailed
  BY <1>1, <1>a DEF HandleTouch, HandleShutdown, HandleFatalError, Drop,
         StorageSetupComplete, SetupFailed
<1>2. CASE SetupNavigation
  <2>1. CASE Next1("ShowImage")
    BY <1>2, <2>1, <1>a, <1>b, EventArg, PageType DEF SetupNavigation
  <2>2. CASE Next1("ShowGreeting")
    BY <1>2, <2>2, <1>a, PageType DEF SetupNavigation
  <2> QED BY <1>2, <2>1, <2>2 DEF SetupNavigation
<1>3. CASE StartSetup \/ StorageProgress \/ WatermarkConfigChecked
        \/ FirstPinEntered \/ PinMismatch \/ SetupPinConfirm
  BY <1>3, <1>a, PageType DEF StartSetup, StorageProgress,
         WatermarkConfigChecked, FirstPinEntered, PinMismatch, SetupPinConfirm
<1>4. CASE KeyGenSuccess \/ AcknowledgeMigrationNotice \/ PinVerificationFailed
        \/ DeviceLocked \/ StorageCreate \/ StorageFormat
  BY <1>4, <1>a DEF KeyGenSuccess, AcknowledgeMigrationNotice,
         PinVerificationFailed, DeviceLocked, StorageCreate, StorageFormat,
         ToActive
<1>5. CASE PinEntered \/ PinVerified \/ PinVerifyProgress \/ InvalidPinEntered
        \/ EnterPin \/ KeysDecrypted
  BY <1>5, <1>a, PageType DEF PinEntered, PinVerified, PinVerifyProgress,
         InvalidPinEntered, EnterPin, KeysDecrypted, ToActive
<1>6. CASE Navigation
  <2>1. Head(queue) \in Event /\ Head(queue).kind \in Navigations
    BY <1>6, <1>b DEF Navigation
  <2>2. Leads(Head(queue)) \in Page
    BY <2>1, EventArg, PageType DEF Leads, Navigations
  <2> QED BY <1>6, <1>a, <2>2 DEF Navigation
<1>7. CASE ActivateScreensaver \/ DeactivateScreensaver \/ WatermarkAlert
        \/ UnknownKeyRequested \/ UnknownKeyDismissed \/ UpdateWatermarkToLevel
  BY <1>7, <1>a, PageType DEF ActivateScreensaver, DeactivateScreensaver,
         WatermarkAlert, UnknownKeyRequested, UnknownKeyDismissed,
         UpdateWatermarkToLevel, Wake
<1>8. CASE ToMenu \/ RequestShutdown
  BY <1>8, <1>a, PageType DEF ToMenu, RequestShutdown
<1>9. CASE Keygen \/ Touch \/ TimerFire \/ TimerReset \/ SignerRequest
        \/ Interrupt
  BY <1>9, <1>a DEF Keygen, Touch, TimerFire, TimerReset, SignerRequest,
         Interrupt
<1>10. ASSUME NEW p \in Checks, VerifyPin(p) PROVE PagesType'
  BY <1>10, <1>a DEF VerifyPin
<1>11. CASE PowerCycle
  BY <1>11, PageType DEF PowerCycle, FirstPage
<1>12. CASE UNCHANGED vars
  BY <1>12, <1>a DEF vars
<1> QED BY <1>1, <1>2, <1>3, <1>4, <1>5, <1>6, <1>7, <1>8, <1>9, <1>10, <1>11,
          <1>12
          DEF Next, HandleEvent, Worker

(* The flags stay Boolean. *)
LEMMA FlagsStep == TypeInv /\ [Next]_vars => FlagsType'
<1> SUFFICES ASSUME TypeInv, [Next]_vars PROVE FlagsType'
  OBVIOUS
<1>a. FlagsType
  BY TypeParts
<1> USE DEF FlagsType, pageVars, saverVars, pinVars, alertVars, signerVars,
            threads, card,
            Next1, Done, Emit, Send, Show, Progress, End, InSetup, InPin, InActive,
            OnlyThreads, NoThread, Room, Arg
<1>1. CASE HandleTouch
  BY <1>1, <1>a DEF HandleTouch
<1>2. CASE HandleShutdown
  BY <1>2, <1>a DEF HandleShutdown
<1>3. CASE HandleFatalError
  BY <1>3, <1>a DEF HandleFatalError
<1>4. CASE Drop
  BY <1>4, <1>a DEF Drop
<1>5. CASE SetupNavigation
  BY <1>5, <1>a DEF SetupNavigation
<1>6. CASE StartSetup
  BY <1>6, <1>a DEF StartSetup
<1>7. CASE StorageProgress
  BY <1>7, <1>a DEF StorageProgress
<1>8. CASE StorageSetupComplete
  BY <1>8, <1>a DEF StorageSetupComplete
<1>9. CASE WatermarkConfigChecked
  BY <1>9, <1>a DEF WatermarkConfigChecked
<1>10. CASE SetupFailed
  BY <1>10, <1>a DEF SetupFailed
<1>11. CASE FirstPinEntered
  BY <1>11, <1>a DEF FirstPinEntered
<1>12. CASE PinMismatch
  BY <1>12, <1>a DEF PinMismatch
<1>13. CASE SetupPinConfirm
  BY <1>13, <1>a DEF SetupPinConfirm
<1>14. CASE KeyGenSuccess
  BY <1>14, <1>a, ZenonT(60) DEF KeyGenSuccess, ToActive
<1>15. CASE PinEntered
  BY <1>15, <1>a DEF PinEntered
<1>16. CASE PinVerified
  BY <1>16, <1>a, ZenonT(60) DEF PinVerified, ToActive
<1>17. CASE PinVerifyProgress
  BY <1>17, <1>a DEF PinVerifyProgress
<1>18. CASE AcknowledgeMigrationNotice
  BY <1>18, <1>a DEF AcknowledgeMigrationNotice, ToActive
<1>19. CASE PinVerificationFailed
  BY <1>19, <1>a DEF PinVerificationFailed
<1>20. CASE InvalidPinEntered
  BY <1>20, <1>a DEF InvalidPinEntered
<1>21. CASE EnterPin
  BY <1>21, <1>a DEF EnterPin
<1>22. CASE DeviceLocked
  BY <1>22, <1>a DEF DeviceLocked
<1>23. CASE Navigation
  BY <1>23, <1>a DEF Navigation
<1>24. CASE KeysDecrypted
  BY <1>24, <1>a DEF KeysDecrypted
<1>25. CASE ActivateScreensaver
  BY <1>25, <1>a DEF ActivateScreensaver
<1>26. CASE DeactivateScreensaver
  BY <1>26, <1>a DEF DeactivateScreensaver, Wake
<1>27. CASE WatermarkAlert
  BY <1>27, <1>a DEF WatermarkAlert, Wake
<1>28. CASE UnknownKeyRequested
  BY <1>28, <1>a DEF UnknownKeyRequested, Record, Wake
<1>29. CASE UnknownKeyDismissed
  BY <1>29, <1>a DEF UnknownKeyDismissed
<1>30. CASE UpdateWatermarkToLevel
  BY <1>30, <1>a DEF UpdateWatermarkToLevel
<1>31. CASE ToMenu
  BY <1>31, <1>a DEF ToMenu
<1>32. CASE RequestShutdown
  BY <1>32, <1>a DEF RequestShutdown
<1>33. CASE StorageCreate
  BY <1>33, <1>a DEF StorageCreate
<1>34. CASE StorageFormat
  BY <1>34, <1>a DEF StorageFormat
<1>35. CASE Keygen
  BY <1>35, <1>a DEF Keygen
<1>36. ASSUME NEW p \in Checks, VerifyPin(p) PROVE FlagsType'
  BY <1>36, <1>a DEF VerifyPin
<1>37. CASE Touch
  BY <1>37, <1>a DEF Touch
<1>38. CASE TimerFire
  BY <1>38, <1>a DEF TimerFire
<1>39. CASE TimerReset
  BY <1>39, <1>a DEF TimerReset
<1>40. CASE SignerRequest
  BY <1>40, <1>a DEF SignerRequest
<1>41. CASE Interrupt
  BY <1>41, <1>a DEF Interrupt
<1>42. CASE PowerCycle
  BY <1>42, <1>a DEF PowerCycle
<1>43. CASE UNCHANGED vars
  BY <1>43, <1>a DEF vars
<1> QED BY <1>1, <1>2, <1>3, <1>4, <1>5, <1>6, <1>7, <1>8, <1>9, <1>10, <1>11,
          <1>12, <1>13, <1>14, <1>15, <1>16, <1>17, <1>18, <1>19, <1>20, <1>21,
          <1>22, <1>23, <1>24, <1>25, <1>26, <1>27, <1>28, <1>29, <1>30, <1>31,
          <1>32, <1>33, <1>34, <1>35, <1>36, <1>37, <1>38, <1>39, <1>40, <1>41,
          <1>42, <1>43
          DEF Next, HandleEvent, Worker

(* Counters count. *)
LEMMA CountsStep == TypeInv /\ [Next]_vars => CountsType'
<1> SUFFICES ASSUME TypeInv, [Next]_vars PROVE CountsType'
  OBVIOUS
<1>a. CountsType
  BY TypeParts
<1> USE DEF CountsType, pageVars, saverVars, pinVars, alertVars, signerVars,
            threads, card,
            Next1, Done, Emit, Send, Show, Progress, End, InSetup, InPin, InActive,
            OnlyThreads, NoThread, Room, Arg
<1>1. CASE HandleTouch
  BY <1>1, <1>a DEF HandleTouch
<1>2. CASE HandleShutdown
  BY <1>2, <1>a DEF HandleShutdown
<1>3. CASE HandleFatalError
  BY <1>3, <1>a DEF HandleFatalError
<1>4. CASE Drop
  BY <1>4, <1>a DEF Drop
<1>5. CASE SetupNavigation
  BY <1>5, <1>a DEF SetupNavigation
<1>6. CASE StartSetup
  BY <1>6, <1>a DEF StartSetup
<1>7. CASE StorageProgress
  BY <1>7, <1>a DEF StorageProgress
<1>8. CASE StorageSetupComplete
  BY <1>8, <1>a DEF StorageSetupComplete
<1>9. CASE WatermarkConfigChecked
  BY <1>9, <1>a DEF WatermarkConfigChecked
<1>10. CASE SetupFailed
  BY <1>10, <1>a DEF SetupFailed
<1>11. CASE FirstPinEntered
  BY <1>11, <1>a DEF FirstPinEntered
<1>12. CASE PinMismatch
  BY <1>12, <1>a DEF PinMismatch
<1>13. CASE SetupPinConfirm
  BY <1>13, <1>a DEF SetupPinConfirm
<1>14. CASE KeyGenSuccess
  BY <1>14, <1>a DEF KeyGenSuccess, ToActive
<1>15. CASE PinEntered
  BY <1>15, <1>a DEF PinEntered
<1>16. CASE PinVerified
  BY <1>16, <1>a DEF PinVerified, ToActive
<1>17. CASE PinVerifyProgress
  BY <1>17, <1>a DEF PinVerifyProgress
<1>18. CASE AcknowledgeMigrationNotice
  BY <1>18, <1>a DEF AcknowledgeMigrationNotice, ToActive
<1>19. CASE PinVerificationFailed
  BY <1>19, <1>a DEF PinVerificationFailed
<1>20. CASE InvalidPinEntered
  BY <1>20, <1>a DEF InvalidPinEntered
<1>21. CASE EnterPin
  BY <1>21, <1>a DEF EnterPin
<1>22. CASE DeviceLocked
  BY <1>22, <1>a DEF DeviceLocked
<1>23. CASE Navigation
  BY <1>23, <1>a DEF Navigation
<1>24. CASE KeysDecrypted
  BY <1>24, <1>a DEF KeysDecrypted
<1>25. CASE ActivateScreensaver
  BY <1>25, <1>a DEF ActivateScreensaver
<1>26. CASE DeactivateScreensaver
  BY <1>26, <1>a DEF DeactivateScreensaver, Wake
<1>27. CASE WatermarkAlert
  BY <1>27, <1>a DEF WatermarkAlert, Wake
<1>28. CASE UnknownKeyRequested
  BY <1>28, <1>a DEF UnknownKeyRequested, Wake
<1>29. CASE UnknownKeyDismissed
  BY <1>29, <1>a DEF UnknownKeyDismissed
<1>30. CASE UpdateWatermarkToLevel
  BY <1>30, <1>a DEF UpdateWatermarkToLevel
<1>31. CASE ToMenu
  BY <1>31, <1>a DEF ToMenu
<1>32. CASE RequestShutdown
  BY <1>32, <1>a DEF RequestShutdown
<1>33. CASE StorageCreate
  BY <1>33, <1>a DEF StorageCreate
<1>34. CASE StorageFormat
  BY <1>34, <1>a DEF StorageFormat
<1>35. CASE Keygen
  BY <1>35, <1>a DEF Keygen
<1>36. ASSUME NEW p \in Checks, VerifyPin(p) PROVE CountsType'
  BY <1>36, <1>a DEF VerifyPin
<1>37. CASE Touch
  BY <1>37, <1>a DEF Touch
<1>38. CASE TimerFire
  BY <1>38, <1>a DEF TimerFire
<1>39. CASE TimerReset
  BY <1>39, <1>a DEF TimerReset
<1>40. CASE SignerRequest
  BY <1>40, <1>a DEF SignerRequest
<1>41. CASE Interrupt
  BY <1>41, <1>a DEF Interrupt
<1>42. CASE PowerCycle
  BY <1>42, <1>a DEF PowerCycle
<1>43. CASE UNCHANGED vars
  BY <1>43, <1>a DEF vars
<1> QED BY <1>1, <1>2, <1>3, <1>4, <1>5, <1>6, <1>7, <1>8, <1>9, <1>10, <1>11,
          <1>12, <1>13, <1>14, <1>15, <1>16, <1>17, <1>18, <1>19, <1>20, <1>21,
          <1>22, <1>23, <1>24, <1>25, <1>26, <1>27, <1>28, <1>29, <1>30, <1>31,
          <1>32, <1>33, <1>34, <1>35, <1>36, <1>37, <1>38, <1>39, <1>40, <1>41,
          <1>42, <1>43
          DEF Next, HandleEvent, Worker

(* The remaining variables keep to their sets. *)
LEMMA NamesStep == TypeInv /\ [Next]_vars => NamesType'
<1> SUFFICES ASSUME TypeInv, [Next]_vars PROVE NamesType'
  OBVIOUS
<1>a. NamesType
  BY TypeParts
<1>b. queue # <<>> => Head(queue) \in Event
  BY DEF TypeInv, TypeOK
<1> USE DEF NamesType, Ended, pageVars, saverVars, pinVars, alertVars,
            signerVars, threads, card,
            Next1, Done, Emit, Send, Show, Progress, End, InSetup, InPin, InActive,
            OnlyThreads, NoThread, Room, Arg
<1>1. CASE HandleTouch \/ HandleShutdown \/ HandleFatalError \/ Drop
        \/ SetupNavigation \/ StartSetup
  BY <1>1, <1>a DEF HandleTouch, HandleShutdown, HandleFatalError, Drop,
         SetupNavigation, StartSetup
<1>2. CASE StorageProgress \/ StorageSetupComplete \/ WatermarkConfigChecked
        \/ SetupFailed \/ PinMismatch \/ SetupPinConfirm
  BY <1>2, <1>a DEF StorageProgress, StorageSetupComplete,
         WatermarkConfigChecked, SetupFailed, PinMismatch, SetupPinConfirm
<1>3. CASE FirstPinEntered
  BY <1>3, <1>a, <1>b, EventArg DEF FirstPinEntered
<1>4. CASE KeyGenSuccess
  BY <1>4, <1>a DEF KeyGenSuccess, ToActive, Presence
<1>5. CASE PinEntered \/ PinVerified \/ PinVerifyProgress
        \/ AcknowledgeMigrationNotice \/ PinVerificationFailed
        \/ InvalidPinEntered
  BY <1>5, <1>a DEF PinEntered, PinVerified, PinVerifyProgress,
         AcknowledgeMigrationNotice, PinVerificationFailed, InvalidPinEntered,
         ToActive
<1>6. CASE EnterPin \/ DeviceLocked \/ Navigation \/ KeysDecrypted
        \/ ActivateScreensaver \/ DeactivateScreensaver
  BY <1>6, <1>a DEF EnterPin, DeviceLocked, Navigation, KeysDecrypted,
         ActivateScreensaver, DeactivateScreensaver, Wake
<1>7. CASE WatermarkAlert \/ UnknownKeyRequested \/ UnknownKeyDismissed
        \/ UpdateWatermarkToLevel \/ ToMenu \/ RequestShutdown
  BY <1>7, <1>a DEF WatermarkAlert, UnknownKeyRequested, UnknownKeyDismissed,
         UpdateWatermarkToLevel, ToMenu, RequestShutdown, Wake
<1>8. CASE StorageCreate \/ StorageFormat \/ Keygen \/ Touch \/ TimerFire
        \/ TimerReset
  BY <1>8, <1>a DEF StorageCreate, StorageFormat, Keygen, Touch, TimerFire,
         TimerReset
<1>9. ASSUME NEW p \in Checks, VerifyPin(p) PROVE NamesType'
  BY <1>9, <1>a DEF VerifyPin
<1>10. CASE SignerRequest \/ Interrupt
  BY <1>10, <1>a DEF SignerRequest, Interrupt
<1>11. CASE PowerCycle
  BY <1>11, <1>a DEF PowerCycle, BootState, Presence
<1>12. CASE UNCHANGED vars
  BY <1>12, <1>a DEF vars
<1> QED BY <1>1, <1>2, <1>3, <1>4, <1>5, <1>6, <1>7, <1>8, <1>9, <1>10, <1>11,
          <1>12
          DEF Next, HandleEvent, Worker

(* The recorded keys stay within UNKNOWN_KEY_CAP. *)
LEMMA KnownStep == TypeInv /\ [Next]_vars => KnownType'
<1> SUFFICES ASSUME TypeInv, [Next]_vars PROVE KnownType'
  OBVIOUS
<1>a. KnownType
  BY TypeParts
<1> USE DEF KnownType, pageVars, saverVars, pinVars, alertVars, signerVars,
            threads, card,
            Next1, Done, Emit, Send, Show, Progress, End, InSetup, InPin, InActive,
            OnlyThreads, NoThread, Room, Arg
<1>1. CASE HandleTouch \/ HandleShutdown \/ HandleFatalError \/ Drop
        \/ SetupNavigation \/ StartSetup
  BY <1>1, <1>a DEF HandleTouch, HandleShutdown, HandleFatalError, Drop,
         SetupNavigation, StartSetup
<1>2. CASE StorageProgress \/ StorageSetupComplete \/ WatermarkConfigChecked
        \/ SetupFailed \/ FirstPinEntered \/ PinMismatch
  BY <1>2, <1>a DEF StorageProgress, StorageSetupComplete,
         WatermarkConfigChecked, SetupFailed, FirstPinEntered, PinMismatch
<1>3. CASE SetupPinConfirm \/ KeyGenSuccess \/ PinEntered \/ PinVerified
        \/ PinVerifyProgress \/ AcknowledgeMigrationNotice
  BY <1>3, <1>a DEF SetupPinConfirm, KeyGenSuccess, PinEntered, PinVerified,
         PinVerifyProgress, AcknowledgeMigrationNotice, ToActive
<1>4. CASE PinVerificationFailed \/ InvalidPinEntered \/ EnterPin
        \/ DeviceLocked \/ Navigation \/ KeysDecrypted
  BY <1>4, <1>a DEF PinVerificationFailed, InvalidPinEntered, EnterPin,
         DeviceLocked, Navigation, KeysDecrypted
<1>5. CASE ActivateScreensaver \/ DeactivateScreensaver \/ WatermarkAlert
        \/ UnknownKeyDismissed \/ UpdateWatermarkToLevel \/ ToMenu
  BY <1>5, <1>a DEF ActivateScreensaver, DeactivateScreensaver, WatermarkAlert,
         UnknownKeyDismissed, UpdateWatermarkToLevel, ToMenu, Wake
<1>6. CASE UnknownKeyRequested
  <2>1. Arg \in Pkhs
    BY <1>6, EventArg DEF UnknownKeyRequested, TypeInv, TypeOK
  <2>2. IsFiniteSet(known \cup {Arg})
        /\ (Arg \notin known => Cardinality(known \cup {Arg}) = Cardinality(known) + 1)
    BY <1>a, FS_AddElement
  <2>3. Cardinality(known) \in Nat
    BY <1>a, FS_CardinalityType
  <2>4. \/ known' = known
        \/ /\ known' = known \cup {Arg}
           /\ Arg \notin known /\ Cardinality(known) < Cap
    BY <1>6 DEF UnknownKeyRequested, IsNews, Record
  <2> QED BY <1>a, <2>1, <2>2, <2>3, <2>4, CapAssumption
<1>7. CASE RequestShutdown \/ StorageCreate \/ StorageFormat \/ Keygen \/ Touch
        \/ TimerFire
  BY <1>7, <1>a DEF RequestShutdown, StorageCreate, StorageFormat, Keygen,
         Touch, TimerFire
<1>8. ASSUME NEW p \in Checks, VerifyPin(p) PROVE KnownType'
  BY <1>8, <1>a DEF VerifyPin
<1>9. CASE TimerReset \/ SignerRequest \/ Interrupt
  BY <1>9, <1>a DEF TimerReset, SignerRequest, Interrupt
<1>10. CASE PowerCycle
  BY <1>10, FS_EmptySet, CapAssumption DEF PowerCycle
<1>11. CASE UNCHANGED vars
  BY <1>11, <1>a DEF vars
<1> QED BY <1>1, <1>2, <1>3, <1>4, <1>5, <1>6, <1>7, <1>8, <1>9, <1>10, <1>11
          DEF Next, HandleEvent, Worker

(* Every step keeps the types. *)
LEMMA TypeStep == TypeInv /\ [Next]_vars => TypeInv'
<1> SUFFICES ASSUME TypeInv, [Next]_vars PROVE TypeInv'
  OBVIOUS
<1>1. (TypeInv)' <=> /\ ChannelType' /\ PagesType' /\ FlagsType'
                     /\ CountsType' /\ NamesType' /\ KnownType'
  BY DEF TypeInv, TypeOK, ChannelType, PagesType, FlagsType, CountsType,
         NamesType, KnownType
<1> QED BY <1>1, ChannelStep, PagesStep, FlagsStep, CountsStep, NamesStep, KnownStep

(* The initial states have their types. *)
LEMMA TypeInit == Init => TypeInv
<1> SUFFICES ASSUME Init PROVE TypeInv
  OBVIOUS
<1>1. ChannelType /\ PagesType
  BY EmptyChannel, PageType DEF Init, FirstPage, ChannelType, PagesType
<1>2. FlagsType
  BY DEF Init, FlagsType
<1>3. CountsType /\ NamesType
  BY DEF Init, CountsType, NamesType, BootState, Ended
<1>4. KnownType
  BY FS_EmptySet, CapAssumption DEF Init, KnownType
<1> QED BY <1>1, <1>2, <1>3, <1>4, TypeParts

-----------------------------------------------------------------------------
(* The steps.                                                               *)

(* Every step keeps SignerInv. *)
LEMMA SignerStep == TypeInv /\ SignerInv /\ [Next]_vars => SignerInv'
<1> SUFFICES ASSUME TypeInv /\ SignerInv, [Next]_vars PROVE SignerInv'
  OBVIOUS
<1>a. queue \in Seq(Event) /\ (queue # <<>> => Tail(queue) \in Seq(Event))
  BY DEF TypeInv, TypeOK
<1>b. queue # <<>> =>
        /\ In(queue, Started) <=> Head(queue).kind = "KeysDecrypted" \/ In(Tail(queue), Started)
        /\ Once(queue, Started) => Once(Tail(queue), Started)
        /\ Once(queue, Started) /\ Head(queue).kind = "KeysDecrypted"
             => ~ In(Tail(queue), Started)
  BY <1>a, InTail, OnceTail DEF Started
<1>c. ASSUME NEW q \in {queue, Tail(queue)}, q = queue \/ queue # <<>>, NEW e \in Event
      PROVE  /\ In(Append(q, e), Started) <=> In(q, Started) \/ e.kind = "KeysDecrypted"
             /\ Once(q, Started) /\ (e.kind = "KeysDecrypted" => ~ In(q, Started))
                  => Once(Append(q, e), Started)
  BY <1>a, <1>c, InAppend, OnceAppend DEF Started
<1> USE DEF SignerInv, Ended, Running, pageVars, saverVars, pinVars, alertVars,
            signerVars, threads, card,
            Next1, Done, Emit, Send, Show, Progress, End, InSetup, InPin, InActive,
            OnlyThreads, NoThread, Room, Arg
<1>e. ASSUME queue # <<>>, End("halted") \/ End("reboot") PROVE SignerInv'
  <2>1. state' \in Ended /\ queue' = Tail(queue) /\ UNCHANGED signerVars
    BY <1>e
  <2> QED BY <1>b, <1>e, <2>1
<1>1. CASE HandleTouch
  <2>1. E("DeactivateScreensaver") \in Event
        /\ E("DeactivateScreensaver").kind = "DeactivateScreensaver"
    BY EventType DEF Plain
  <2>2. /\ \A e \in Buttons(page) : e \in Event /\ e.kind \in Pressed
        /\ \A e \in Enter : e \in Event /\ e.kind \in {"FirstPinEntered", "PinEntered"}
    BY ButtonEvents, EnterEvents DEF TypeInv, TypeOK
  <2> QED BY <1>1, <2>1, <2>2, <1>b, <1>c DEF HandleTouch, Pressed
<1>2. CASE HandleShutdown
  BY <1>2, <1>b DEF HandleShutdown
<1>3. CASE HandleFatalError
  BY <1>3, <1>b DEF HandleFatalError
<1>4. CASE Drop
  BY <1>4, <1>b DEF Drop
<1>5. CASE SetupNavigation
  BY <1>5, <1>b DEF SetupNavigation
<1>6. CASE StartSetup
  <2>1. /\ E("StorageSetupComplete") \in Event
        /\ E("StorageSetupComplete").kind = "StorageSetupComplete"
    BY EventType DEF Plain
  <2> QED BY <1>6, <2>1, <1>b, <1>c DEF StartSetup
<1>7. CASE StorageProgress
  BY <1>7, <1>b DEF StorageProgress
<1>8. CASE StorageSetupComplete
  <2>1. \A c \in {config, "invalid"} :
            /\ Ev("WatermarkConfigChecked", c) \in Event
            /\ Ev("WatermarkConfigChecked", c).kind = "WatermarkConfigChecked"
    BY EventType DEF TypeInv, TypeOK, Presence
  <2>2. CASE End("halted")
    BY <1>8, <2>2, <1>e DEF StorageSetupComplete
  <2>3. CASE \E c \in {config, "invalid"} : /\ Emit(Ev("WatermarkConfigChecked", c))
                                           /\ UNCHANGED <<state, signerVars>>
    BY <1>8, <2>1, <2>3, <1>b, <1>c DEF StorageSetupComplete
  <2> QED BY <1>8, <2>2, <2>3 DEF StorageSetupComplete
<1>9. CASE WatermarkConfigChecked
  <2>1. CASE End("halted")
    BY <1>9, <2>1, <1>e DEF WatermarkConfigChecked
  <2>2. CASE Done /\ UNCHANGED <<state, signerVars>>
    BY <1>9, <2>2, <1>b DEF WatermarkConfigChecked
  <2> QED BY <1>9, <2>1, <2>2 DEF WatermarkConfigChecked
<1>10. CASE SetupFailed
  BY <1>10, <1>b DEF SetupFailed
<1>11. CASE FirstPinEntered
  BY <1>11, <1>b DEF FirstPinEntered
<1>12. CASE PinMismatch
  BY <1>12, <1>b DEF PinMismatch
<1>13. CASE SetupPinConfirm
  <2>1. /\ E("PinMismatch") \in Event /\ E("PinMismatch").kind = "PinMismatch"
    BY EventType DEF Plain
  <2> QED BY <1>13, <2>1, <1>b, <1>c DEF SetupPinConfirm
<1>14. CASE KeyGenSuccess
  <2>1. E("KeysDecrypted") \in Event /\ E("KeysDecrypted").kind = "KeysDecrypted"
    BY EventType DEF Plain
  <2>2. CASE ToActive
    BY <1>14, <2>1, <2>2, <1>b, <1>c DEF KeyGenSuccess, ToActive
  <2>3. CASE End("halted") \/ End("reboot")
    BY <1>14, <2>3, <1>e DEF KeyGenSuccess
  <2> QED BY <1>14, <2>2, <2>3 DEF KeyGenSuccess
<1>15. CASE PinEntered
  <2>1. /\ E("DeviceLocked") \in Event /\ E("DeviceLocked").kind = "DeviceLocked"
    BY EventType DEF Plain
  <2> QED BY <1>15, <2>1, <1>b, <1>c DEF PinEntered
<1>16. CASE PinVerified
  <2>1. E("KeysDecrypted") \in Event /\ E("KeysDecrypted").kind = "KeysDecrypted"
    BY EventType DEF Plain
  <2>2. CASE ToActive
    BY <1>16, <2>1, <2>2, <1>b, <1>c DEF PinVerified, ToActive
  <2>3. CASE End("halted") \/ End("reboot")
    BY <1>16, <2>3, <1>e DEF PinVerified
  <2>4. CASE Done /\ UNCHANGED <<state, signerVars>>
    BY <1>16, <2>4, <1>b DEF PinVerified
  <2> QED BY <1>16, <2>2, <2>3, <2>4 DEF PinVerified
<1>17. CASE PinVerifyProgress
  BY <1>17, <1>b DEF PinVerifyProgress
<1>18. CASE AcknowledgeMigrationNotice
  <2>1. E("KeysDecrypted") \in Event /\ E("KeysDecrypted").kind = "KeysDecrypted"
    BY EventType DEF Plain
  <2>2. CASE ToActive
    BY <1>18, <2>1, <2>2, <1>b, <1>c DEF AcknowledgeMigrationNotice, ToActive
  <2>3. CASE End("halted") \/ End("reboot")
    BY <1>18, <2>3, <1>e DEF AcknowledgeMigrationNotice
  <2> QED BY <1>18, <2>2, <2>3 DEF AcknowledgeMigrationNotice
<1>19. CASE PinVerificationFailed
  <2>1. /\ E("InvalidPinEntered") \in Event
        /\ E("InvalidPinEntered").kind = "InvalidPinEntered"
    BY EventType DEF Plain
  <2> QED BY <1>19, <2>1, <1>b, <1>c DEF PinVerificationFailed
<1>20. CASE InvalidPinEntered
  <2>1. /\ E("DeviceLocked") \in Event /\ E("DeviceLocked").kind = "DeviceLocked"
    BY EventType DEF Plain
  <2> QED BY <1>20, <2>1, <1>b, <1>c DEF InvalidPinEntered
<1>21. CASE EnterPin
  BY <1>21, <1>b DEF EnterPin
<1>22. CASE DeviceLocked
  BY <1>22, <1>b DEF DeviceLocked
<1>23. CASE Navigation
  BY <1>23, <1>b DEF Navigation
<1>24. CASE KeysDecrypted
  BY <1>24, <1>b DEF KeysDecrypted
<1>25. CASE ActivateScreensaver
  BY <1>25, <1>b DEF ActivateScreensaver
<1>26. CASE DeactivateScreensaver
  BY <1>26, <1>b DEF DeactivateScreensaver, Wake
<1>27. CASE WatermarkAlert
  BY <1>27, <1>b DEF WatermarkAlert, Wake
<1>28. CASE UnknownKeyRequested
  BY <1>28, <1>b DEF UnknownKeyRequested, Wake
<1>29. CASE UnknownKeyDismissed
  BY <1>29, <1>b DEF UnknownKeyDismissed
<1>30. CASE UpdateWatermarkToLevel
  <2>1. /\ E("WatermarkUpdateSuccess") \in Event
        /\ E("WatermarkUpdateSuccess").kind = "WatermarkUpdateSuccess"
    BY EventType DEF Plain
  <2> QED BY <1>30, <2>1, <1>b, <1>c DEF UpdateWatermarkToLevel
<1>31. CASE ToMenu
  BY <1>31, <1>b DEF ToMenu
<1>32. CASE RequestShutdown
  BY <1>32, <1>b DEF RequestShutdown
<1>33. CASE StorageCreate
  <2>1. /\ E("StorageProgress") \in Event
        /\ E("StorageProgress").kind = "StorageProgress"
        /\ E("StorageSetupFailed") \in Event
        /\ E("StorageSetupFailed").kind = "StorageSetupFailed"
    BY EventType DEF Plain
  <2> QED BY <1>33, <2>1, <1>b, <1>c DEF StorageCreate
<1>34. CASE StorageFormat
  <2>1. /\ E("StorageSetupComplete") \in Event
        /\ E("StorageSetupComplete").kind = "StorageSetupComplete"
        /\ E("StorageSetupFailed") \in Event
        /\ E("StorageSetupFailed").kind = "StorageSetupFailed"
    BY EventType DEF Plain
  <2> QED BY <1>34, <2>1, <1>b, <1>c DEF StorageFormat
<1>35. CASE Keygen
  <2>1. /\ E("KeyGenFailed") \in Event /\ E("KeyGenFailed").kind = "KeyGenFailed"
        /\ E("KeyGenSuccess") \in Event /\ E("KeyGenSuccess").kind = "KeyGenSuccess"
    BY EventType DEF Plain
  <2> QED BY <1>35, <2>1, <1>b, <1>c DEF Keygen
<1>36. ASSUME NEW p \in Checks, VerifyPin(p) PROVE SignerInv'
  <2>1. /\ \A k \in {"PinVerifyProgress", "PinVerificationFailed"} :
              E(k) \in Event /\ E(k).kind = k
        /\ \A m \in {"none", "promoted", "notice", "staged"} :
              Ev("PinVerified", m) \in Event
              /\ Ev("PinVerified", m).kind = "PinVerified"
    BY EventType DEF Plain, Migration
  <2> QED BY <1>36, <2>1, <1>b, <1>c DEF VerifyPin
<1>37. CASE Touch
  <2>1. /\ E("Touch") \in Event /\ E("Touch").kind = "Touch"
    BY EventType DEF Plain
  <2> QED BY <1>37, <2>1, <1>b, <1>c DEF Touch
<1>38. CASE TimerFire
  <2>1. /\ E("ActivateScreensaver") \in Event
        /\ E("ActivateScreensaver").kind = "ActivateScreensaver"
    BY EventType DEF Plain
  <2> QED BY <1>38, <2>1, <1>b, <1>c DEF TimerFire
<1>39. CASE TimerReset
  BY <1>39, <1>b DEF TimerReset
<1>40. CASE SignerRequest
  <2>1. /\ \A k \in {"WatermarkAlert", "FatalError"} : E(k) \in Event /\ E(k).kind = k
        /\ \A k \in Pkhs : /\ Ev("UnknownKeyRequested", k) \in Event
                           /\ Ev("UnknownKeyRequested", k).kind = "UnknownKeyRequested"
    BY EventType DEF Plain
  <2> QED BY <1>40, <2>1, <1>b, <1>c DEF SignerRequest
<1>41. CASE Interrupt
  <2>1. /\ E("Shutdown") \in Event /\ E("Shutdown").kind = "Shutdown"
    BY EventType DEF Plain
  <2> QED BY <1>41, <2>1, <1>b, <1>c DEF Interrupt
<1>42. CASE PowerCycle
  BY <1>42, EmptyChannel DEF PowerCycle, BootState
<1>43. CASE UNCHANGED vars
  BY <1>43, <1>b DEF vars
<1> QED BY <1>1, <1>2, <1>3, <1>4, <1>5, <1>6, <1>7, <1>8, <1>9, <1>10, <1>11,
          <1>12, <1>13, <1>14, <1>15, <1>16, <1>17, <1>18, <1>19, <1>20, <1>21,
          <1>22, <1>23, <1>24, <1>25, <1>26, <1>27, <1>28, <1>29, <1>30, <1>31,
          <1>32, <1>33, <1>34, <1>35, <1>36, <1>37, <1>38, <1>39, <1>40, <1>41,
          <1>42, <1>43
          DEF Next, HandleEvent, Worker

(* Every step keeps TimerInv. *)
LEMMA TimerStep == TypeInv /\ SignerInv /\ TimerInv /\ [Next]_vars => TimerInv'
<1> SUFFICES ASSUME TypeInv /\ SignerInv /\ TimerInv, [Next]_vars PROVE TimerInv'
  OBVIOUS
<1>a. queue \in Seq(Event) /\ (queue # <<>> => Tail(queue) \in Seq(Event))
  BY DEF TypeInv, TypeOK
<1>b. queue # <<>> =>
        /\ In(queue, Caused) <=> Head(queue).kind \in Caused \/ In(Tail(queue), Caused)
        /\ In(queue, Activation) <=>
              Head(queue).kind = "ActivateScreensaver" \/ In(Tail(queue), Activation)
  BY <1>a, InTail DEF Activation
<1>c. ASSUME NEW q \in {queue, Tail(queue)}, q = queue \/ queue # <<>>, NEW e \in Event
      PROVE  /\ In(Append(q, e), Caused) <=> In(q, Caused) \/ e.kind \in Caused
             /\ In(Append(q, e), Activation) <=>
                   In(q, Activation) \/ e.kind = "ActivateScreensaver"
  <2>1. q \in Seq(Event)
    BY <1>a, <1>c
  <2>2. In(Append(q, e), Caused) <=> In(q, Caused) \/ e.kind \in Caused
    BY <2>1, InAppend
  <2>3. In(Append(q, e), Activation) <=> In(q, Activation) \/ e.kind \in Activation
    BY <2>1, InAppend
  <2> QED BY <2>2, <2>3 DEF Activation
<1> USE DEF SignerInv, TimerInv, Ended, Running, Caused, pageVars, saverVars,
            pinVars, alertVars, signerVars, threads, card,
            Next1, Done, Emit, Send, Show, Progress, End, InSetup, InPin, InActive,
            OnlyThreads, NoThread, Room, Arg
<1>e. ASSUME queue # <<>>, End("halted") \/ End("reboot") PROVE TimerInv'
  <2>1. state' \in Ended /\ queue' = Tail(queue) /\ UNCHANGED saverVars
    BY <1>e
  <2> QED BY <1>b, <1>e, <2>1
<1>1. CASE HandleTouch
  <2>1. E("DeactivateScreensaver") \in Event
        /\ E("DeactivateScreensaver").kind = "DeactivateScreensaver"
    BY EventType DEF Plain
  <2>2. CASE reset'
    BY <2>2
  <2>3. CASE screensaver /\ Emit(E("DeactivateScreensaver"))
             /\ UNCHANGED <<state, page, saverVars, signerVars>>
    BY <1>1, <2>1, <2>3, <1>b, <1>c DEF HandleTouch
  <2> QED BY <1>1, <2>2, <2>3 DEF HandleTouch
<1>2. CASE HandleShutdown
  BY <1>2, <1>b DEF HandleShutdown
<1>3. CASE HandleFatalError
  BY <1>3, <1>b DEF HandleFatalError
<1>4. CASE Drop
  <2>1. state = "active" /\ Head(queue).kind = "ActivateScreensaver"
          => Modal(page) \/ screensaver
    BY <1>4 DEF Drop, Handles
  <2>2. Done /\ queue # <<>> /\ UNCHANGED <<state, page, saverVars, signerVars>>
    BY <1>4 DEF Drop
  <2> QED BY <2>1, <2>2, <1>b
<1>5. CASE SetupNavigation
  BY <1>5, <1>b, PageType DEF SetupNavigation, Modal
<1>6. CASE StartSetup
  <2>1. /\ E("StorageSetupComplete") \in Event
        /\ E("StorageSetupComplete").kind = "StorageSetupComplete"
    BY EventType DEF Plain
  <2> QED BY <1>6, <2>1, <1>b, <1>c DEF StartSetup
<1>7. CASE StorageProgress
  BY <1>7, <1>b, PageType DEF StorageProgress, Modal
<1>8. CASE StorageSetupComplete
  <2>1. \A c \in {config, "invalid"} :
            /\ Ev("WatermarkConfigChecked", c) \in Event
            /\ Ev("WatermarkConfigChecked", c).kind = "WatermarkConfigChecked"
    BY EventType DEF TypeInv, TypeOK, Presence
  <2>2. CASE End("halted")
    BY <1>8, <2>2, <1>e DEF StorageSetupComplete
  <2>3. CASE \E c \in {config, "invalid"} : /\ Emit(Ev("WatermarkConfigChecked", c))
                                           /\ UNCHANGED <<state, pageVars, saverVars, signerVars>>
    BY <1>8, <2>1, <2>3, <1>b, <1>c DEF StorageSetupComplete
  <2> QED BY <1>8, <2>2, <2>3 DEF StorageSetupComplete
<1>9. CASE WatermarkConfigChecked
  <2>1. CASE End("halted")
    BY <1>9, <2>1, <1>e DEF WatermarkConfigChecked
  <2>2. CASE Done /\ UNCHANGED <<state, saverVars, signerVars>>
    BY <1>9, <2>2, <1>b DEF WatermarkConfigChecked
  <2> QED BY <1>9, <2>1, <2>2 DEF WatermarkConfigChecked
<1>10. CASE SetupFailed
  BY <1>10, <1>b DEF SetupFailed
<1>11. CASE FirstPinEntered
  BY <1>11, <1>b, PageType DEF FirstPinEntered, Modal
<1>12. CASE PinMismatch
  BY <1>12, <1>b, PageType DEF PinMismatch, Modal
<1>13. CASE SetupPinConfirm
  <2>1. /\ E("PinMismatch") \in Event /\ E("PinMismatch").kind = "PinMismatch"
    BY EventType DEF Plain
  <2> QED BY <1>13, <2>1, <1>b, <1>c DEF SetupPinConfirm
<1>14. CASE KeyGenSuccess
  <2>1. E("KeysDecrypted") \in Event /\ E("KeysDecrypted").kind = "KeysDecrypted"
    BY EventType DEF Plain
  <2>2. CASE ToActive
    BY <1>14, <2>1, <2>2, <1>b, <1>c DEF KeyGenSuccess, ToActive
  <2>3. CASE End("halted") \/ End("reboot")
    BY <1>14, <2>3, <1>e DEF KeyGenSuccess
  <2> QED BY <1>14, <2>2, <2>3 DEF KeyGenSuccess
<1>15. CASE PinEntered
  <2>1. /\ E("DeviceLocked") \in Event /\ E("DeviceLocked").kind = "DeviceLocked"
    BY EventType DEF Plain
  <2> QED BY <1>15, <2>1, <1>b, <1>c DEF PinEntered
<1>16. CASE PinVerified
  <2>1. E("KeysDecrypted") \in Event /\ E("KeysDecrypted").kind = "KeysDecrypted"
    BY EventType DEF Plain
  <2>2. CASE ToActive
    BY <1>16, <2>1, <2>2, <1>b, <1>c DEF PinVerified, ToActive
  <2>3. CASE End("halted") \/ End("reboot")
    BY <1>16, <2>3, <1>e DEF PinVerified
  <2>4. CASE Done /\ UNCHANGED <<state, saverVars, signerVars>>
    BY <1>16, <2>4, <1>b DEF PinVerified
  <2> QED BY <1>16, <2>2, <2>3, <2>4 DEF PinVerified
<1>17. CASE PinVerifyProgress
  BY <1>17, <1>b, PageType DEF PinVerifyProgress, Modal
<1>18. CASE AcknowledgeMigrationNotice
  <2>1. E("KeysDecrypted") \in Event /\ E("KeysDecrypted").kind = "KeysDecrypted"
    BY EventType DEF Plain
  <2>2. CASE ToActive
    BY <1>18, <2>1, <2>2, <1>b, <1>c DEF AcknowledgeMigrationNotice, ToActive
  <2>3. CASE End("halted") \/ End("reboot")
    BY <1>18, <2>3, <1>e DEF AcknowledgeMigrationNotice
  <2> QED BY <1>18, <2>2, <2>3 DEF AcknowledgeMigrationNotice
<1>19. CASE PinVerificationFailed
  <2>1. /\ E("InvalidPinEntered") \in Event
        /\ E("InvalidPinEntered").kind = "InvalidPinEntered"
    BY EventType DEF Plain
  <2> QED BY <1>19, <2>1, <1>b, <1>c DEF PinVerificationFailed
<1>20. CASE InvalidPinEntered
  <2>1. /\ E("DeviceLocked") \in Event /\ E("DeviceLocked").kind = "DeviceLocked"
    BY EventType DEF Plain
  <2> QED BY <1>20, <2>1, <1>b, <1>c DEF InvalidPinEntered
<1>21. CASE EnterPin
  BY <1>21, <1>b, PageType DEF EnterPin, Modal
<1>22. CASE DeviceLocked
  BY <1>22, <1>b DEF DeviceLocked
<1>23. CASE Navigation
  <2>1. ~ Modal(page) /\ Done /\ UNCHANGED <<state, saverVars, signerVars>>
        /\ Head(queue).kind # "ActivateScreensaver" /\ queue # <<>>
    BY <1>23 DEF Navigation, Navigations
  <2> QED BY <2>1, <1>b
<1>24. CASE KeysDecrypted
  <2>1. CASE End("halted")
    BY <1>24, <2>1, <1>e DEF KeysDecrypted
  <2>2. CASE reset'
    BY <2>2
  <2> QED BY <1>24, <2>1, <2>2 DEF KeysDecrypted
<1>25. CASE ActivateScreensaver
  BY <1>25, <1>b, PageType DEF ActivateScreensaver, Modal
<1>26. CASE DeactivateScreensaver
  BY <1>26, <1>b, PageType DEF DeactivateScreensaver, Wake, Modal
<1>27. CASE WatermarkAlert
  BY <1>27, <1>b, PageType DEF WatermarkAlert, Wake, Modal
<1>28. CASE UnknownKeyRequested
  <2>1. Done /\ queue # <<>> /\ Head(queue).kind = "UnknownKeyRequested"
        /\ UNCHANGED <<state, signerVars>>
    BY <1>28 DEF UnknownKeyRequested
  <2>2. CASE UNCHANGED <<saverVars, pageVars>>
    BY <2>1, <2>2, <1>b
  <2>3. CASE Wake /\ Show(Pg("notice", "UnknownKeyDismissed"))
    BY <2>1, <2>3, <1>b, PageType DEF Wake, Modal
  <2> QED BY <1>28, <2>2, <2>3 DEF UnknownKeyRequested
<1>29. CASE UnknownKeyDismissed
  BY <1>29, <1>b, PageType DEF UnknownKeyDismissed, Modal
<1>30. CASE UpdateWatermarkToLevel
  <2>1. /\ E("WatermarkUpdateSuccess") \in Event
        /\ E("WatermarkUpdateSuccess").kind = "WatermarkUpdateSuccess"
    BY EventType DEF Plain
  <2> QED BY <1>30, <2>1, <1>b, <1>c, PageType DEF UpdateWatermarkToLevel, Modal
<1>31. CASE ToMenu
  <2>1. Head(queue).kind \in Caused /\ Done /\ UNCHANGED <<state, saverVars, signerVars>>
        /\ queue # <<>>
    BY <1>31 DEF ToMenu, Closings
  <2> QED BY <2>1, <1>b
<1>32. CASE RequestShutdown
  BY <1>32, <1>b, PageType DEF RequestShutdown, Modal
<1>33. CASE StorageCreate
  <2>1. /\ E("StorageProgress") \in Event
        /\ E("StorageProgress").kind = "StorageProgress"
        /\ E("StorageSetupFailed") \in Event
        /\ E("StorageSetupFailed").kind = "StorageSetupFailed"
    BY EventType DEF Plain
  <2> QED BY <1>33, <2>1, <1>b, <1>c DEF StorageCreate
<1>34. CASE StorageFormat
  <2>1. /\ E("StorageSetupComplete") \in Event
        /\ E("StorageSetupComplete").kind = "StorageSetupComplete"
        /\ E("StorageSetupFailed") \in Event
        /\ E("StorageSetupFailed").kind = "StorageSetupFailed"
    BY EventType DEF Plain
  <2> QED BY <1>34, <2>1, <1>b, <1>c DEF StorageFormat
<1>35. CASE Keygen
  <2>1. /\ E("KeyGenFailed") \in Event /\ E("KeyGenFailed").kind = "KeyGenFailed"
        /\ E("KeyGenSuccess") \in Event /\ E("KeyGenSuccess").kind = "KeyGenSuccess"
    BY EventType DEF Plain
  <2> QED BY <1>35, <2>1, <1>b, <1>c DEF Keygen
<1>36. ASSUME NEW p \in Checks, VerifyPin(p) PROVE TimerInv'
  <2>1. /\ \A k \in {"PinVerifyProgress", "PinVerificationFailed"} :
              E(k) \in Event /\ E(k).kind = k
        /\ \A m \in {"none", "promoted", "notice", "staged"} :
              Ev("PinVerified", m) \in Event
              /\ Ev("PinVerified", m).kind = "PinVerified"
    BY EventType DEF Plain, Migration
  <2> QED BY <1>36, <2>1, <1>b, <1>c, ZenonT(60) DEF VerifyPin
<1>37. CASE Touch
  <2>1. /\ E("Touch") \in Event /\ E("Touch").kind = "Touch"
    BY EventType DEF Plain
  <2> QED BY <1>37, <2>1, <1>b, <1>c DEF Touch
<1>38. CASE TimerFire
  <2>1. E("ActivateScreensaver") \in Event
        /\ E("ActivateScreensaver").kind = "ActivateScreensaver"
    BY EventType DEF Plain
  <2>2. ~ In(queue, Caused)
    BY <1>38 DEF TimerFire, In
  <2> QED BY <1>38, <2>1, <2>2, <1>b, <1>c DEF TimerFire
<1>39. CASE TimerReset
  BY <1>39, <1>b DEF TimerReset
<1>40. CASE SignerRequest
  <2>1. /\ \A k \in {"WatermarkAlert", "FatalError"} : E(k) \in Event /\ E(k).kind = k
        /\ \A k \in Pkhs : /\ Ev("UnknownKeyRequested", k) \in Event
                           /\ Ev("UnknownKeyRequested", k).kind = "UnknownKeyRequested"
    BY EventType DEF Plain
  <2> QED BY <1>40, <2>1, <1>b, <1>c DEF SignerRequest
<1>41. CASE Interrupt
  <2>1. /\ E("Shutdown") \in Event /\ E("Shutdown").kind = "Shutdown"
    BY EventType DEF Plain
  <2> QED BY <1>41, <2>1, <1>b, <1>c DEF Interrupt
<1>42. CASE PowerCycle
  BY <1>42 DEF PowerCycle
<1>43. CASE UNCHANGED vars
  BY <1>43, <1>b DEF vars
<1> QED BY <1>1, <1>2, <1>3, <1>4, <1>5, <1>6, <1>7, <1>8, <1>9, <1>10, <1>11,
          <1>12, <1>13, <1>14, <1>15, <1>16, <1>17, <1>18, <1>19, <1>20, <1>21,
          <1>22, <1>23, <1>24, <1>25, <1>26, <1>27, <1>28, <1>29, <1>30, <1>31,
          <1>32, <1>33, <1>34, <1>35, <1>36, <1>37, <1>38, <1>39, <1>40, <1>41,
          <1>42, <1>43
          DEF Next, HandleEvent, Worker

(* Every step keeps DiskInv. *)
LEMMA DiskStep == TypeInv /\ DiskInv /\ GateInv /\ [Next]_vars => DiskInv'
<1> SUFFICES ASSUME TypeInv /\ DiskInv /\ GateInv, [Next]_vars PROVE DiskInv'
  OBVIOUS
<1>a. queue \in Seq(Event) /\ (queue # <<>> => Tail(queue) \in Seq(Event))
  BY DEF TypeInv, TypeOK
<1>b. queue # <<>> => (In(queue, {"KeyGenSuccess"}) <=>
        Head(queue).kind = "KeyGenSuccess" \/ In(Tail(queue), {"KeyGenSuccess"}))
  BY <1>a, InTail
<1>c. ASSUME NEW q \in {queue, Tail(queue)}, q = queue \/ queue # <<>>, NEW e \in Event
      PROVE  In(Append(q, e), {"KeyGenSuccess"}) <=>
                 In(q, {"KeyGenSuccess"}) \/ e.kind = "KeyGenSuccess"
  <2>1. q \in Seq(Event)
    BY <1>a, <1>c
  <2>2. In(Append(q, e), {"KeyGenSuccess"}) <=>
            In(q, {"KeyGenSuccess"}) \/ e.kind \in {"KeyGenSuccess"}
    BY <2>1, InAppend
  <2> QED BY <2>2
<1>d. CountsType
  BY TypeParts
<1> USE DEF CountsType, DiskInv, Ended, Running, pageVars, saverVars, pinVars,
            alertVars, signerVars, threads, card,
            Next1, Done, Emit, Send, Show, Progress, End, InSetup, InPin, InActive,
            OnlyThreads, NoThread, Room, Arg
<1>e. ASSUME queue # <<>>, End("halted") \/ End("reboot"), UNCHANGED card PROVE DiskInv'
  <2>1. queue' = Tail(queue) /\ UNCHANGED threads
    BY <1>e
  <2> QED BY <1>b, <1>e, <2>1
<1>1. CASE HandleTouch
  <2>1. E("DeactivateScreensaver") \in Event
        /\ E("DeactivateScreensaver").kind = "DeactivateScreensaver"
    BY EventType DEF Plain
  <2>2. /\ \A e \in Buttons(page) : e \in Event /\ e.kind \in Pressed
        /\ \A e \in Enter : e \in Event /\ e.kind \in {"FirstPinEntered", "PinEntered"}
    BY ButtonEvents, EnterEvents DEF TypeInv, TypeOK
  <2> QED BY <1>1, <2>1, <2>2, <1>b, <1>c DEF HandleTouch, Pressed
<1>2. CASE HandleShutdown
  BY <1>2, <1>b DEF HandleShutdown
<1>3. CASE HandleFatalError
  BY <1>3, <1>b DEF HandleFatalError
<1>4. CASE Drop
  BY <1>4, <1>b DEF Drop
<1>5. CASE SetupNavigation
  BY <1>5, <1>b DEF SetupNavigation
<1>6. CASE StartSetup
  <2>1. /\ E("StorageSetupComplete") \in Event
        /\ E("StorageSetupComplete").kind = "StorageSetupComplete"
    BY EventType DEF Plain
  <2> QED BY <1>6, <2>1, <1>b, <1>c, <1>d DEF StartSetup
<1>7. CASE StorageProgress
  BY <1>7, <1>b DEF StorageProgress
<1>8. CASE StorageSetupComplete
  <2>1. \A c \in {config, "invalid"} :
            /\ Ev("WatermarkConfigChecked", c) \in Event
            /\ Ev("WatermarkConfigChecked", c).kind = "WatermarkConfigChecked"
    BY EventType DEF TypeInv, TypeOK, Presence
  <2>2. CASE End("halted")
    BY <1>8, <2>2, <1>e DEF StorageSetupComplete
  <2>3. CASE \E c \in {config, "invalid"} : /\ Emit(Ev("WatermarkConfigChecked", c))
                                           /\ UNCHANGED <<threads, card>>
    BY <1>8, <2>1, <2>3, <1>b, <1>c DEF StorageSetupComplete
  <2> QED BY <1>8, <2>2, <2>3 DEF StorageSetupComplete
<1>9. CASE WatermarkConfigChecked
  <2>1. CASE End("halted")
    BY <1>9, <2>1, <1>e DEF WatermarkConfigChecked
  <2>2. CASE Done /\ UNCHANGED <<threads, card>>
    BY <1>9, <2>2, <1>b DEF WatermarkConfigChecked
  <2> QED BY <1>9, <2>1, <2>2 DEF WatermarkConfigChecked
<1>10. CASE SetupFailed
  BY <1>10, <1>b DEF SetupFailed
<1>11. CASE FirstPinEntered
  BY <1>11, <1>b DEF FirstPinEntered
<1>12. CASE PinMismatch
  BY <1>12, <1>b DEF PinMismatch
<1>13. CASE SetupPinConfirm
  <2>1. E("PinMismatch") \in Event /\ E("PinMismatch").kind = "PinMismatch"
    BY EventType DEF Plain
  <2>2. first # None => parts = "mounted"
    BY <1>13 DEF SetupPinConfirm, GateInv, Ready
  <2> QED BY <1>13, <2>1, <2>2, <1>b, <1>c, <1>d DEF SetupPinConfirm
<1>14. CASE KeyGenSuccess
  <2>1. parts = "mounted" /\ parts' = "mounted" /\ UNCHANGED threads
    BY <1>14, <1>b DEF KeyGenSuccess, ToActive
  <2> QED BY <2>1
<1>15. CASE PinEntered
  <2>1. /\ E("DeviceLocked") \in Event /\ E("DeviceLocked").kind = "DeviceLocked"
    BY EventType DEF Plain
  <2> QED BY <1>15, <2>1, <1>b, <1>c DEF PinEntered
<1>16. CASE PinVerified
  <2>1. E("KeysDecrypted") \in Event /\ E("KeysDecrypted").kind = "KeysDecrypted"
    BY EventType DEF Plain
  <2>2. CASE ToActive
    BY <1>16, <2>1, <2>2, <1>b, <1>c DEF PinVerified, ToActive
  <2>3. CASE End("halted") \/ End("reboot")
    BY <1>16, <2>3, <1>e DEF PinVerified
  <2>4. CASE Done /\ UNCHANGED <<threads, card>>
    BY <1>16, <2>4, <1>b DEF PinVerified
  <2> QED BY <1>16, <2>2, <2>3, <2>4 DEF PinVerified
<1>17. CASE PinVerifyProgress
  BY <1>17, <1>b DEF PinVerifyProgress
<1>18. CASE AcknowledgeMigrationNotice
  <2>1. E("KeysDecrypted") \in Event /\ E("KeysDecrypted").kind = "KeysDecrypted"
    BY EventType DEF Plain
  <2>2. CASE ToActive
    BY <1>18, <2>1, <2>2, <1>b, <1>c DEF AcknowledgeMigrationNotice, ToActive
  <2>3. CASE End("halted") \/ End("reboot")
    BY <1>18, <2>3, <1>e DEF AcknowledgeMigrationNotice
  <2> QED BY <1>18, <2>2, <2>3 DEF AcknowledgeMigrationNotice
<1>19. CASE PinVerificationFailed
  <2>1. /\ E("InvalidPinEntered") \in Event
        /\ E("InvalidPinEntered").kind = "InvalidPinEntered"
    BY EventType DEF Plain
  <2> QED BY <1>19, <2>1, <1>b, <1>c DEF PinVerificationFailed
<1>20. CASE InvalidPinEntered
  <2>1. /\ E("DeviceLocked") \in Event /\ E("DeviceLocked").kind = "DeviceLocked"
    BY EventType DEF Plain
  <2> QED BY <1>20, <2>1, <1>b, <1>c DEF InvalidPinEntered
<1>21. CASE EnterPin
  BY <1>21, <1>b DEF EnterPin
<1>22. CASE DeviceLocked
  BY <1>22, <1>b DEF DeviceLocked
<1>23. CASE Navigation
  BY <1>23, <1>b DEF Navigation
<1>24. CASE KeysDecrypted
  BY <1>24, <1>b DEF KeysDecrypted
<1>25. CASE ActivateScreensaver
  BY <1>25, <1>b DEF ActivateScreensaver
<1>26. CASE DeactivateScreensaver
  BY <1>26, <1>b DEF DeactivateScreensaver, Wake
<1>27. CASE WatermarkAlert
  BY <1>27, <1>b DEF WatermarkAlert, Wake
<1>28. CASE UnknownKeyRequested
  BY <1>28, <1>b DEF UnknownKeyRequested, Wake
<1>29. CASE UnknownKeyDismissed
  BY <1>29, <1>b DEF UnknownKeyDismissed
<1>30. CASE UpdateWatermarkToLevel
  <2>1. /\ E("WatermarkUpdateSuccess") \in Event
        /\ E("WatermarkUpdateSuccess").kind = "WatermarkUpdateSuccess"
    BY EventType DEF Plain
  <2> QED BY <1>30, <2>1, <1>b, <1>c DEF UpdateWatermarkToLevel
<1>31. CASE ToMenu
  BY <1>31, <1>b DEF ToMenu
<1>32. CASE RequestShutdown
  BY <1>32, <1>b DEF RequestShutdown
<1>33. CASE StorageCreate
  <2>1. \A k \in {"StorageProgress", "StorageSetupFailed"} : E(k) \in Event /\ E(k).kind = k
    BY EventType DEF Plain
  <2>2. In(queue', {"KeyGenSuccess"}) => In(queue, {"KeyGenSuccess"})
    BY <1>33, <2>1, <1>c DEF StorageCreate
  <2>3. UNCHANGED <<keys, marker, generating>>
    BY <1>33 DEF StorageCreate
  <2>4. CASE parts = "none" /\ parts' = "made"
    <3>1. storing["format"] = 0 /\ storing'["format"] = 1
      BY <1>33, <2>4, <1>d DEF StorageCreate
    <3> QED BY <2>2, <2>3, <2>4, <3>1
  <2>5. CASE UNCHANGED parts
    <3>1. storing'["format"] = storing["format"]
      BY <1>33, <2>5, <1>d DEF StorageCreate
    <3> QED BY <2>2, <2>3, <2>5, <3>1
  <2> QED BY <1>33, <2>4, <2>5 DEF StorageCreate
<1>34. CASE StorageFormat
  <2>1. \A k \in {"StorageSetupComplete", "StorageSetupFailed"} :
            E(k) \in Event /\ E(k).kind = k
    BY EventType DEF Plain
  <2>2. In(queue', {"KeyGenSuccess"}) => In(queue, {"KeyGenSuccess"})
    BY <1>34, <2>1, <1>c DEF StorageFormat
  <2>3. parts = "made" /\ storing'["format"] = 0
    BY <1>34, <1>d DEF StorageFormat
  <2>4. ~ keys' /\ ~ marker' /\ generating' = generating
    BY <1>34 DEF StorageFormat
  <2> QED BY <2>2, <2>3, <2>4
<1>35. CASE Keygen
  <2>1. /\ E("KeyGenFailed") \in Event /\ E("KeyGenFailed").kind = "KeyGenFailed"
        /\ E("KeyGenSuccess") \in Event /\ E("KeyGenSuccess").kind = "KeyGenSuccess"
    BY EventType DEF Plain
  <2> QED BY <1>35, <2>1, <1>b, <1>c, <1>d DEF Keygen
<1>36. ASSUME NEW p \in Checks, VerifyPin(p) PROVE DiskInv'
  <2>1. /\ \A k \in {"PinVerifyProgress", "PinVerificationFailed"} :
              E(k) \in Event /\ E(k).kind = k
        /\ \A m \in {"none", "promoted", "notice", "staged"} :
              Ev("PinVerified", m) \in Event
              /\ Ev("PinVerified", m).kind = "PinVerified"
    BY EventType DEF Plain, Migration
  <2> QED BY <1>36, <2>1, <1>b, <1>c DEF VerifyPin
<1>37. CASE Touch
  <2>1. /\ E("Touch") \in Event /\ E("Touch").kind = "Touch"
    BY EventType DEF Plain
  <2> QED BY <1>37, <2>1, <1>b, <1>c DEF Touch
<1>38. CASE TimerFire
  <2>1. /\ E("ActivateScreensaver") \in Event
        /\ E("ActivateScreensaver").kind = "ActivateScreensaver"
    BY EventType DEF Plain
  <2> QED BY <1>38, <2>1, <1>b, <1>c DEF TimerFire
<1>39. CASE TimerReset
  BY <1>39, <1>b DEF TimerReset
<1>40. CASE SignerRequest
  <2>1. /\ \A k \in {"WatermarkAlert", "FatalError"} : E(k) \in Event /\ E(k).kind = k
        /\ \A k \in Pkhs : /\ Ev("UnknownKeyRequested", k) \in Event
                           /\ Ev("UnknownKeyRequested", k).kind = "UnknownKeyRequested"
    BY EventType DEF Plain
  <2> QED BY <1>40, <2>1, <1>b, <1>c DEF SignerRequest
<1>41. CASE Interrupt
  <2>1. /\ E("Shutdown") \in Event /\ E("Shutdown").kind = "Shutdown"
    BY EventType DEF Plain
  <2> QED BY <1>41, <2>1, <1>b, <1>c DEF Interrupt
<1>42. CASE PowerCycle
  BY <1>42, EmptyChannel DEF PowerCycle
<1>43. CASE UNCHANGED vars
  BY <1>43, <1>b DEF vars
<1> QED BY <1>1, <1>2, <1>3, <1>4, <1>5, <1>6, <1>7, <1>8, <1>9, <1>10, <1>11,
          <1>12, <1>13, <1>14, <1>15, <1>16, <1>17, <1>18, <1>19, <1>20, <1>21,
          <1>22, <1>23, <1>24, <1>25, <1>26, <1>27, <1>28, <1>29, <1>30, <1>31,
          <1>32, <1>33, <1>34, <1>35, <1>36, <1>37, <1>38, <1>39, <1>40, <1>41,
          <1>42, <1>43
          DEF Next, HandleEvent, Worker

(* Every step keeps GateInv. *)
LEMMA GateStep == TypeInv /\ DiskInv /\ GateInv /\ [Next]_vars => GateInv'
<1> SUFFICES ASSUME TypeInv /\ DiskInv /\ GateInv, [Next]_vars PROVE GateInv'
  OBVIOUS
<1>a. queue \in Seq(Event)
        /\ (queue # <<>> => Head(queue) \in Event /\ Tail(queue) \in Seq(Event))
  BY DEF TypeInv, TypeOK
<1>b. queue # <<>> =>
        /\ In(queue, NewPin) <=> Head(queue).kind \in NewPin \/ In(Tail(queue), NewPin)
        /\ PassesGate(Tail(queue)) => PassesGate(queue)
        /\ Head(queue) = Ev("WatermarkConfigChecked", "present") => PassesGate(queue)
  BY <1>a, InTail, GateTail
<1>c. ASSUME NEW q \in {queue, Tail(queue)}, q = queue \/ queue # <<>>, NEW e \in Event
      PROVE  /\ In(Append(q, e), NewPin) <=> In(q, NewPin) \/ e.kind \in NewPin
             /\ PassesGate(Append(q, e)) =>
                   \/ PassesGate(q)
                   \/ e.kind = "WatermarkConfigChecked" /\ e.arg = "present"
  <2>1. q \in Seq(Event)
    BY <1>a, <1>c
  <2>2. In(Append(q, e), NewPin) <=> In(q, NewPin) \/ e.kind \in NewPin
    BY <2>1, InAppend
  <2>3. PassesGate(Append(q, e)) =>
            PassesGate(q) \/ e = Ev("WatermarkConfigChecked", "present")
    BY <2>1, GateAppend
  <2> QED BY <2>2, <2>3, EventType
<1> USE DEF GateInv, Ready, NewPin, Ended, Running, pageVars, saverVars,
            pinVars, alertVars, signerVars, threads, card,
            Next1, Done, Emit, Send, Show, Progress, End, InSetup, InPin, InActive,
            OnlyThreads, NoThread, Room, Arg
<1>e. ASSUME queue # <<>>, End("halted") \/ End("reboot") PROVE GateInv'
  <2>1. state' # "setup"
    BY <1>e
  <2> QED BY <2>1
<1>1. CASE HandleTouch
  <2>1. E("DeactivateScreensaver") \in Event
        /\ E("DeactivateScreensaver").kind = "DeactivateScreensaver"
    BY EventType DEF Plain
  <2>2. /\ \A e \in Buttons(page) : e \in Event /\ e.kind \in Pressed
        /\ \A e \in Enter : e \in Event /\ e.kind \in {"FirstPinEntered", "PinEntered"}
               /\ (e.kind = "FirstPinEntered" => page.kind = "pincreate")
    BY ButtonEvents, EnterEvents DEF TypeInv, TypeOK
  <2> QED BY <1>1, <2>1, <2>2, <1>b, <1>c DEF HandleTouch, Pressed
<1>2. CASE HandleShutdown
  BY <1>2, <1>b DEF HandleShutdown
<1>3. CASE HandleFatalError
  BY <1>3, <1>b DEF HandleFatalError
<1>4. CASE Drop
  BY <1>4, <1>b DEF Drop
<1>5. CASE SetupNavigation
  BY <1>5, <1>b, PageType DEF SetupNavigation
<1>6. CASE StartSetup
  <2>1. E("StorageSetupComplete") \in Event
        /\ E("StorageSetupComplete").kind = "StorageSetupComplete"
    BY EventType DEF Plain
  <2>2. queue # <<>> /\ UNCHANGED <<state, first, generating, card>>
    BY <1>6 DEF StartSetup
  <2>3. CASE Progress("storing") /\ Done
    BY <2>2, <2>3, <1>b, PageType
  <2>4. CASE Emit(E("StorageSetupComplete")) /\ UNCHANGED pageVars
    BY <2>1, <2>2, <2>4, <1>b, <1>c
  <2> QED BY <1>6, <2>3, <2>4 DEF StartSetup
<1>7. CASE StorageProgress
  BY <1>7, <1>b, PageType DEF StorageProgress
<1>8. CASE StorageSetupComplete
  <2>1. \A c \in {config, "invalid"} :
            /\ Ev("WatermarkConfigChecked", c) \in Event
            /\ Ev("WatermarkConfigChecked", c).kind = "WatermarkConfigChecked"
            /\ Ev("WatermarkConfigChecked", c).arg = c
    BY EventType DEF TypeInv, TypeOK, Presence
  <2>2. CASE End("halted")
    BY <1>8, <2>2, <1>e DEF StorageSetupComplete
  <2>3. CASE /\ parts = "mounted" /\ ~ marker
             /\ \E c \in {config, "invalid"} : Emit(Ev("WatermarkConfigChecked", c))
             /\ UNCHANGED <<state, first, page, threads, card>>
    BY <1>8, <2>1, <2>3, <1>b, <1>c DEF StorageSetupComplete
  <2> QED BY <1>8, <2>2, <2>3 DEF StorageSetupComplete
<1>9. CASE WatermarkConfigChecked
  <2>1. CASE End("halted")
    BY <1>9, <2>1, <1>e DEF WatermarkConfigChecked
  <2>2. CASE Arg = "present" /\ UNCHANGED card
    <3>1. PassesGate(queue)
      BY <1>9, <2>2, <1>a, <1>b, EventArg DEF WatermarkConfigChecked
    <3> QED BY <1>9, <2>2, <3>1 DEF WatermarkConfigChecked
  <2> QED BY <1>9, <2>1, <2>2 DEF WatermarkConfigChecked
<1>10. CASE SetupFailed
  BY <1>10, <1>b DEF SetupFailed
<1>11. CASE FirstPinEntered
  BY <1>11, <1>b, PageType DEF FirstPinEntered
<1>12. CASE PinMismatch
  BY <1>12, <1>b, PageType DEF PinMismatch
<1>13. CASE SetupPinConfirm
  <2>1. /\ E("PinMismatch") \in Event /\ E("PinMismatch").kind = "PinMismatch"
    BY EventType DEF Plain
  <2> QED BY <1>13, <2>1, <1>b, <1>c DEF SetupPinConfirm
<1>14. CASE KeyGenSuccess
  <2>1. state' # "setup"
    BY <1>14 DEF KeyGenSuccess, ToActive
  <2> QED BY <2>1
<1>15. CASE PinEntered
  <2>1. state' # "setup"
    BY <1>15 DEF PinEntered
  <2> QED BY <2>1
<1>16. CASE PinVerified
  <2>1. state' # "setup"
    BY <1>16 DEF PinVerified, ToActive
  <2> QED BY <2>1
<1>17. CASE PinVerifyProgress
  <2>1. state' # "setup"
    BY <1>17 DEF PinVerifyProgress
  <2> QED BY <2>1
<1>18. CASE AcknowledgeMigrationNotice
  <2>1. state' # "setup"
    BY <1>18 DEF AcknowledgeMigrationNotice, ToActive
  <2> QED BY <2>1
<1>19. CASE PinVerificationFailed
  <2>1. state' # "setup"
    BY <1>19 DEF PinVerificationFailed
  <2> QED BY <2>1
<1>20. CASE InvalidPinEntered
  <2>1. state' # "setup"
    BY <1>20 DEF InvalidPinEntered
  <2> QED BY <2>1
<1>21. CASE EnterPin
  <2>1. state' # "setup"
    BY <1>21 DEF EnterPin
  <2> QED BY <2>1
<1>22. CASE DeviceLocked
  <2>1. state' # "setup"
    BY <1>22 DEF DeviceLocked
  <2> QED BY <2>1
<1>23. CASE Navigation
  <2>1. state' # "setup"
    BY <1>23 DEF Navigation
  <2> QED BY <2>1
<1>24. CASE KeysDecrypted
  <2>1. state' # "setup"
    BY <1>24 DEF KeysDecrypted
  <2> QED BY <2>1
<1>25. CASE ActivateScreensaver
  <2>1. state' # "setup"
    BY <1>25 DEF ActivateScreensaver
  <2> QED BY <2>1
<1>26. CASE DeactivateScreensaver
  <2>1. state' # "setup"
    BY <1>26 DEF DeactivateScreensaver
  <2> QED BY <2>1
<1>27. CASE WatermarkAlert
  <2>1. state' # "setup"
    BY <1>27 DEF WatermarkAlert
  <2> QED BY <2>1
<1>28. CASE UnknownKeyRequested
  <2>1. state' # "setup"
    BY <1>28 DEF UnknownKeyRequested
  <2> QED BY <2>1
<1>29. CASE UnknownKeyDismissed
  <2>1. state' # "setup"
    BY <1>29 DEF UnknownKeyDismissed
  <2> QED BY <2>1
<1>30. CASE UpdateWatermarkToLevel
  <2>1. state' # "setup"
    BY <1>30 DEF UpdateWatermarkToLevel
  <2> QED BY <2>1
<1>31. CASE ToMenu
  <2>1. state' # "setup"
    BY <1>31 DEF ToMenu
  <2> QED BY <2>1
<1>32. CASE RequestShutdown
  <2>1. state' # "setup"
    BY <1>32 DEF RequestShutdown
  <2> QED BY <2>1
<1>33. CASE StorageCreate
  <2>1. /\ E("StorageProgress") \in Event
        /\ E("StorageProgress").kind = "StorageProgress"
        /\ E("StorageSetupFailed") \in Event
        /\ E("StorageSetupFailed").kind = "StorageSetupFailed"
    BY EventType DEF Plain
  <2> QED BY <1>33, <2>1, <1>b, <1>c DEF StorageCreate
<1>34. CASE StorageFormat
  <2>1. /\ E("StorageSetupComplete") \in Event
        /\ E("StorageSetupComplete").kind = "StorageSetupComplete"
        /\ E("StorageSetupFailed") \in Event
        /\ E("StorageSetupFailed").kind = "StorageSetupFailed"
    BY EventType DEF Plain
  <2> QED BY <1>34, <2>1, <1>b, <1>c DEF StorageFormat
<1>35. CASE Keygen
  <2>1. /\ E("KeyGenFailed") \in Event /\ E("KeyGenFailed").kind = "KeyGenFailed"
        /\ E("KeyGenSuccess") \in Event /\ E("KeyGenSuccess").kind = "KeyGenSuccess"
    BY EventType DEF Plain
  <2> QED BY <1>35, <2>1, <1>b, <1>c DEF Keygen
<1>36. ASSUME NEW p \in Checks, VerifyPin(p) PROVE GateInv'
  <2>1. /\ \A k \in {"PinVerifyProgress", "PinVerificationFailed"} :
              E(k) \in Event /\ E(k).kind = k
        /\ \A m \in {"none", "promoted", "notice", "staged"} :
              Ev("PinVerified", m) \in Event
              /\ Ev("PinVerified", m).kind = "PinVerified"
    BY EventType DEF Plain, Migration
  <2> QED BY <1>36, <2>1, <1>b, <1>c DEF VerifyPin
<1>37. CASE Touch
  <2>1. /\ E("Touch") \in Event /\ E("Touch").kind = "Touch"
    BY EventType DEF Plain
  <2> QED BY <1>37, <2>1, <1>b, <1>c DEF Touch
<1>38. CASE TimerFire
  <2>1. /\ E("ActivateScreensaver") \in Event
        /\ E("ActivateScreensaver").kind = "ActivateScreensaver"
    BY EventType DEF Plain
  <2> QED BY <1>38, <2>1, <1>b, <1>c DEF TimerFire
<1>39. CASE TimerReset
  BY <1>39, <1>b DEF TimerReset
<1>40. CASE SignerRequest
  <2>1. /\ \A k \in {"WatermarkAlert", "FatalError"} : E(k) \in Event /\ E(k).kind = k
        /\ \A k \in Pkhs : /\ Ev("UnknownKeyRequested", k) \in Event
                           /\ Ev("UnknownKeyRequested", k).kind = "UnknownKeyRequested"
    BY EventType DEF Plain
  <2> QED BY <1>40, <2>1, <1>b, <1>c DEF SignerRequest
<1>41. CASE Interrupt
  <2>1. /\ E("Shutdown") \in Event /\ E("Shutdown").kind = "Shutdown"
    BY EventType DEF Plain
  <2> QED BY <1>41, <2>1, <1>b, <1>c DEF Interrupt
<1>42. CASE PowerCycle
  BY <1>42, EmptyChannel, PageType DEF PowerCycle, FirstPage
<1>43. CASE UNCHANGED vars
  BY <1>43, <1>b DEF vars
<1> QED BY <1>1, <1>2, <1>3, <1>4, <1>5, <1>6, <1>7, <1>8, <1>9, <1>10, <1>11,
          <1>12, <1>13, <1>14, <1>15, <1>16, <1>17, <1>18, <1>19, <1>20, <1>21,
          <1>22, <1>23, <1>24, <1>25, <1>26, <1>27, <1>28, <1>29, <1>30, <1>31,
          <1>32, <1>33, <1>34, <1>35, <1>36, <1>37, <1>38, <1>39, <1>40, <1>41,
          <1>42, <1>43
          DEF Next, HandleEvent, Worker

(* Every step keeps SetupWaits. *)
LEMMA SetupWaitsStep == TypeInv /\ SetupWaits /\ [Next]_vars => SetupWaits'
<1> SUFFICES ASSUME TypeInv /\ SetupWaits, [Next]_vars PROVE SetupWaits'
  OBVIOUS
<1>a. queue \in Seq(Event)
        /\ (queue # <<>> => Head(queue) \in Event /\ Tail(queue) \in Seq(Event))
  BY DEF TypeInv, TypeOK
<1>b. queue # <<>> =>
        /\ In(queue, Generated) <=> Head(queue).kind \in Generated \/ In(Tail(queue), Generated) 
        /\ In(queue, Stored) <=> Head(queue).kind \in Stored \/ In(Tail(queue), Stored)
        /\ After(queue, Storing, Stored) => After(Tail(queue), Storing, Stored)
        /\ After(queue, Storing, Stored) /\ Head(queue).kind \in Storing => In(Tail(queue), Stored)
  BY <1>a, InTail, AfterTail
<1>c. ASSUME NEW q \in {queue, Tail(queue)}, q = queue \/ queue # <<>>, NEW e \in Event
      PROVE  /\ In(Append(q, e), Generated) <=> In(q, Generated) \/ e.kind \in Generated
             /\ In(Append(q, e), Stored) <=> In(q, Stored) \/ e.kind \in Stored
             /\ e.kind \notin Storing /\ (e.kind \in Stored \/ After(q, Storing, Stored))
                  => After(Append(q, e), Storing, Stored)
  <2>1. q \in Seq(Event)
    BY <1>a, <1>c
  <2>2. In(Append(q, e), Generated) <=> In(q, Generated) \/ e.kind \in Generated
    BY <2>1, InAppend
  <2>3. In(Append(q, e), Stored) <=> In(q, Stored) \/ e.kind \in Stored
    BY <2>1, InAppend
  <2>4. e.kind \notin Storing /\ (e.kind \in Stored \/ After(q, Storing, Stored))
          => After(Append(q, e), Storing, Stored)
    BY <2>1, AfterAppend
  <2> QED BY <2>2, <2>3, <2>4
<1>d. CountsType
  BY TypeParts
<1> USE DEF CountsType, SetupWaits, Generated, Stored, Storing, Ended, Running,
            pageVars, saverVars, pinVars, alertVars, signerVars, threads, card,
            Next1, Done, Emit, Send, Show, Progress, End, InSetup, InPin, InActive,
            OnlyThreads, NoThread, Room, Arg
<1>e. ASSUME queue # <<>>, End("halted") \/ End("reboot") PROVE SetupWaits'
  <2>1. state' # "setup"
    BY <1>e
  <2> QED BY <2>1
<1>1. CASE HandleTouch
  <2>1. E("DeactivateScreensaver") \in Event
        /\ E("DeactivateScreensaver").kind = "DeactivateScreensaver"
    BY EventType DEF Plain
  <2>2. /\ \A e \in Buttons(page) : e \in Event /\ e.kind \in Pressed
        /\ \A e \in Enter : e \in Event /\ e.kind \in {"FirstPinEntered", "PinEntered"}
    BY ButtonEvents, EnterEvents DEF TypeInv, TypeOK
  <2> QED BY <1>1, <2>1, <2>2, <1>b, <1>c DEF HandleTouch, Pressed
<1>2. CASE HandleShutdown
  BY <1>2, <1>b DEF HandleShutdown
<1>3. CASE HandleFatalError
  BY <1>3, <1>b DEF HandleFatalError
<1>4. CASE Drop
  <2>1. state = "setup" => Head(queue).kind \notin Generated \cup Stored \cup Storing
    BY <1>4 DEF Drop, Handles
  <2>2. Done /\ queue # <<>> /\ UNCHANGED <<state, page, threads>>
    BY <1>4 DEF Drop
  <2> QED BY <2>1, <2>2, <1>b
<1>5. CASE SetupNavigation
  BY <1>5, <1>b, PageType DEF SetupNavigation
<1>6. CASE StartSetup
  <2>1. E("StorageSetupComplete") \in Event
        /\ E("StorageSetupComplete").kind = "StorageSetupComplete"
    BY EventType DEF Plain
  <2>2. queue # <<>> /\ Head(queue).kind = "StartSetup" /\ UNCHANGED <<state, generating>>
    BY <1>6 DEF StartSetup
  <2>3. CASE Progress("storing") /\ Done /\ storing' = [storing EXCEPT !["create"] = storing["create"] + 1]
    <3>1. storing'["create"] > 0 /\ storing'["format"] = storing["format"]
      BY <2>3, <1>d
    <3> QED BY <2>2, <2>3, <3>1, <1>b, PageType
  <2>4. CASE Emit(E("StorageSetupComplete")) /\ UNCHANGED <<pageVars, storing>>
    BY <2>1, <2>2, <2>4, <1>b, <1>c
  <2> QED BY <1>6, <2>3, <2>4 DEF StartSetup
<1>7. CASE StorageProgress
  <2>1. storing["format"] \in Nat
    BY <1>d
  <2>2. queue # <<>> /\ Head(queue).kind = "StorageProgress" /\ Progress("storing") /\ Done
        /\ UNCHANGED <<state, threads>> /\ state = "setup"
    BY <1>7 DEF StorageProgress
  <2> QED BY <2>1, <2>2, <1>b, PageType
<1>8. CASE StorageSetupComplete
  <2>1. \A c \in {config, "invalid"} :
            /\ Ev("WatermarkConfigChecked", c) \in Event
            /\ Ev("WatermarkConfigChecked", c).kind = "WatermarkConfigChecked"
    BY EventType DEF TypeInv, TypeOK, Presence
  <2>2. CASE End("halted")
    BY <1>8, <2>2, <1>e DEF StorageSetupComplete
  <2>3. CASE \E c \in {config, "invalid"} : /\ Emit(Ev("WatermarkConfigChecked", c))
                                           /\ UNCHANGED <<state, page, storing, generating>>
    BY <1>8, <2>1, <2>3, <1>b, <1>c DEF StorageSetupComplete
  <2> QED BY <1>8, <2>2, <2>3 DEF StorageSetupComplete
<1>9. CASE WatermarkConfigChecked
  <2>1. CASE End("halted")
    BY <1>9, <2>1, <1>e DEF WatermarkConfigChecked
  <2>2. CASE Show(P("pincreate")) /\ Done /\ UNCHANGED <<state, threads>>
    BY <1>9, <2>2, <1>b, PageType DEF WatermarkConfigChecked
  <2> QED BY <1>9, <2>1, <2>2 DEF WatermarkConfigChecked
<1>10. CASE SetupFailed
  <2>1. state' # "setup"
    BY <1>10 DEF SetupFailed
  <2> QED BY <2>1
<1>11. CASE FirstPinEntered
  BY <1>11, <1>b, PageType DEF FirstPinEntered
<1>12. CASE PinMismatch
  BY <1>12, <1>b, PageType DEF PinMismatch
<1>13. CASE SetupPinConfirm
  <2>1. E("PinMismatch") \in Event /\ E("PinMismatch").kind = "PinMismatch"
    BY EventType DEF Plain
  <2>2. queue # <<>> /\ Head(queue).kind = "PinEntered" /\ UNCHANGED <<state, storing>>
    BY <1>13 DEF SetupPinConfirm
  <2>3. CASE Done /\ UNCHANGED <<pageVars, generating>>
    BY <2>2, <2>3, <1>b
  <2>4. CASE generating' = generating + 1 /\ Progress("busy") /\ Done
    BY <2>2, <2>4, <1>b, <1>d, PageType
  <2>5. CASE Emit(E("PinMismatch")) /\ UNCHANGED <<pageVars, generating>>
    BY <2>1, <2>2, <2>5, <1>b, <1>c
  <2> QED BY <1>13, <2>3, <2>4, <2>5 DEF SetupPinConfirm
<1>14. CASE KeyGenSuccess
  <2>1. state' # "setup"
    BY <1>14 DEF KeyGenSuccess, ToActive
  <2> QED BY <2>1
<1>15. CASE PinEntered
  <2>1. state' # "setup"
    BY <1>15 DEF PinEntered
  <2> QED BY <2>1
<1>16. CASE PinVerified
  <2>1. state' # "setup"
    BY <1>16 DEF PinVerified, ToActive
  <2> QED BY <2>1
<1>17. CASE PinVerifyProgress
  <2>1. state' # "setup"
    BY <1>17 DEF PinVerifyProgress
  <2> QED BY <2>1
<1>18. CASE AcknowledgeMigrationNotice
  <2>1. state' # "setup"
    BY <1>18 DEF AcknowledgeMigrationNotice, ToActive
  <2> QED BY <2>1
<1>19. CASE PinVerificationFailed
  <2>1. state' # "setup"
    BY <1>19 DEF PinVerificationFailed
  <2> QED BY <2>1
<1>20. CASE InvalidPinEntered
  <2>1. state' # "setup"
    BY <1>20 DEF InvalidPinEntered
  <2> QED BY <2>1
<1>21. CASE EnterPin
  <2>1. state' # "setup"
    BY <1>21 DEF EnterPin
  <2> QED BY <2>1
<1>22. CASE DeviceLocked
  <2>1. state' # "setup"
    BY <1>22 DEF DeviceLocked
  <2> QED BY <2>1
<1>23. CASE Navigation
  <2>1. state' # "setup"
    BY <1>23 DEF Navigation
  <2> QED BY <2>1
<1>24. CASE KeysDecrypted
  <2>1. state' # "setup"
    BY <1>24 DEF KeysDecrypted
  <2> QED BY <2>1
<1>25. CASE ActivateScreensaver
  <2>1. state' # "setup"
    BY <1>25 DEF ActivateScreensaver
  <2> QED BY <2>1
<1>26. CASE DeactivateScreensaver
  <2>1. state' # "setup"
    BY <1>26 DEF DeactivateScreensaver
  <2> QED BY <2>1
<1>27. CASE WatermarkAlert
  <2>1. state' # "setup"
    BY <1>27 DEF WatermarkAlert
  <2> QED BY <2>1
<1>28. CASE UnknownKeyRequested
  <2>1. state' # "setup"
    BY <1>28 DEF UnknownKeyRequested
  <2> QED BY <2>1
<1>29. CASE UnknownKeyDismissed
  <2>1. state' # "setup"
    BY <1>29 DEF UnknownKeyDismissed
  <2> QED BY <2>1
<1>30. CASE UpdateWatermarkToLevel
  <2>1. state' # "setup"
    BY <1>30 DEF UpdateWatermarkToLevel
  <2> QED BY <2>1
<1>31. CASE ToMenu
  <2>1. state' # "setup"
    BY <1>31 DEF ToMenu
  <2> QED BY <2>1
<1>32. CASE RequestShutdown
  <2>1. state' # "setup"
    BY <1>32 DEF RequestShutdown
  <2> QED BY <2>1
<1>33. CASE StorageCreate
  <2>1. \A k \in {"StorageProgress", "StorageSetupFailed"} : E(k) \in Event /\ E(k).kind = k
    BY EventType DEF Plain
  <2>2. UNCHANGED <<state, page, generating>>
    BY <1>33 DEF StorageCreate
  <2>3. CASE Send(E("StorageProgress")) /\ parts = "none"
    <3>1. storing'["format"] > 0
      BY <1>33, <2>1, <2>3, <1>d DEF StorageCreate
    <3> QED BY <2>1, <2>2, <2>3, <3>1, <1>c
  <2>4. CASE Send(E("StorageSetupFailed"))
    BY <2>1, <2>2, <2>4, <1>c
  <2> QED BY <1>33, <2>3, <2>4 DEF StorageCreate
<1>34. CASE StorageFormat
  <2>1. /\ E("StorageSetupComplete") \in Event
        /\ E("StorageSetupComplete").kind = "StorageSetupComplete"
        /\ E("StorageSetupFailed") \in Event
        /\ E("StorageSetupFailed").kind = "StorageSetupFailed"
    BY EventType DEF Plain
  <2>2. UNCHANGED <<state, page, generating>>
    BY <1>34 DEF StorageFormat
  <2>3. CASE Send(E("StorageSetupComplete"))
    BY <2>1, <2>2, <2>3, <1>c
  <2>4. CASE Send(E("StorageSetupFailed"))
    BY <2>1, <2>2, <2>4, <1>c
  <2> QED BY <1>34, <2>3, <2>4 DEF StorageFormat
<1>35. CASE Keygen
  <2>1. /\ E("KeyGenFailed") \in Event /\ E("KeyGenFailed").kind = "KeyGenFailed"
        /\ E("KeyGenSuccess") \in Event /\ E("KeyGenSuccess").kind = "KeyGenSuccess"
    BY EventType DEF Plain
  <2>2. UNCHANGED <<state, page, storing>>
    BY <1>35 DEF Keygen
  <2>3. CASE Send(E("KeyGenSuccess"))
    BY <2>1, <2>2, <2>3, <1>c
  <2>4. CASE Send(E("KeyGenFailed"))
    BY <2>1, <2>2, <2>4, <1>c
  <2> QED BY <1>35, <2>3, <2>4 DEF Keygen
<1>36. ASSUME NEW p \in Checks, VerifyPin(p) PROVE SetupWaits'
  <2>1. /\ \A k \in {"PinVerifyProgress", "PinVerificationFailed"} :
              E(k) \in Event /\ E(k).kind = k
        /\ \A m \in {"none", "promoted", "notice", "staged"} :
              Ev("PinVerified", m) \in Event
              /\ Ev("PinVerified", m).kind = "PinVerified"
    BY EventType DEF Plain, Migration
  <2> QED BY <1>36, <2>1, <1>b, <1>c DEF VerifyPin
<1>37. CASE Touch
  <2>1. /\ E("Touch") \in Event /\ E("Touch").kind = "Touch"
    BY EventType DEF Plain
  <2> QED BY <1>37, <2>1, <1>b, <1>c DEF Touch
<1>38. CASE TimerFire
  <2>1. /\ E("ActivateScreensaver") \in Event
        /\ E("ActivateScreensaver").kind = "ActivateScreensaver"
    BY EventType DEF Plain
  <2> QED BY <1>38, <2>1, <1>b, <1>c DEF TimerFire
<1>39. CASE TimerReset
  BY <1>39, <1>b DEF TimerReset
<1>40. CASE SignerRequest
  <2>1. /\ \A k \in {"WatermarkAlert", "FatalError"} : E(k) \in Event /\ E(k).kind = k
        /\ \A k \in Pkhs : /\ Ev("UnknownKeyRequested", k) \in Event
                           /\ Ev("UnknownKeyRequested", k).kind = "UnknownKeyRequested"
    BY EventType DEF Plain
  <2> QED BY <1>40, <2>1, <1>b, <1>c DEF SignerRequest
<1>41. CASE Interrupt
  <2>1. /\ E("Shutdown") \in Event /\ E("Shutdown").kind = "Shutdown"
    BY EventType DEF Plain
  <2> QED BY <1>41, <2>1, <1>b, <1>c DEF Interrupt
<1>42. CASE PowerCycle
  BY <1>42, EmptyChannel, PageType DEF PowerCycle, FirstPage
<1>43. CASE UNCHANGED vars
  BY <1>43, <1>b DEF vars
<1> QED BY <1>1, <1>2, <1>3, <1>4, <1>5, <1>6, <1>7, <1>8, <1>9, <1>10, <1>11,
          <1>12, <1>13, <1>14, <1>15, <1>16, <1>17, <1>18, <1>19, <1>20, <1>21,
          <1>22, <1>23, <1>24, <1>25, <1>26, <1>27, <1>28, <1>29, <1>30, <1>31,
          <1>32, <1>33, <1>34, <1>35, <1>36, <1>37, <1>38, <1>39, <1>40, <1>41,
          <1>42, <1>43
          DEF Next, HandleEvent, Worker

(* Every step keeps PinWaits. *)
LEMMA PinWaitsStep == TypeInv /\ PinWaits /\ [Next]_vars => PinWaits'
<1> SUFFICES ASSUME TypeInv /\ PinWaits, [Next]_vars PROVE PinWaits'
  OBVIOUS
<1>a. queue \in Seq(Event)
        /\ (queue # <<>> => Head(queue) \in Event /\ Tail(queue) \in Seq(Event))
  BY DEF TypeInv, TypeOK
<1>b. queue # <<>> =>
        /\ In(queue, Checked) <=> Head(queue).kind \in Checked \/ In(Tail(queue), Checked)
        /\ After(queue, Upgrading, Checked) => After(Tail(queue), Upgrading, Checked)
        /\ After(queue, Upgrading, Checked) /\ Head(queue).kind \in Upgrading => In(Tail(queue), Checked)
  BY <1>a, InTail, AfterTail
<1>c. ASSUME NEW q \in {queue, Tail(queue)}, q = queue \/ queue # <<>>, NEW e \in Event
      PROVE  /\ In(Append(q, e), Checked) <=> In(q, Checked) \/ e.kind \in Checked
             /\ e.kind \notin Upgrading /\ (e.kind \in Checked \/ After(q, Upgrading, Checked))
                  => After(Append(q, e), Upgrading, Checked)
  <2>1. q \in Seq(Event)
    BY <1>a, <1>c
  <2>2. In(Append(q, e), Checked) <=> In(q, Checked) \/ e.kind \in Checked
    BY <2>1, InAppend
  <2>3. e.kind \notin Upgrading /\ (e.kind \in Checked \/ After(q, Upgrading, Checked))
          => After(Append(q, e), Upgrading, Checked)
    BY <2>1, AfterAppend
  <2> QED BY <2>2, <2>3
<1>d. CountsType
  BY TypeParts
<1> USE DEF CountsType, PinWaits, Checked, Upgrading, Ended, Running, pageVars,
            saverVars, pinVars, alertVars, signerVars, threads, card,
            Next1, Done, Emit, Send, Show, Progress, End, InSetup, InPin, InActive,
            OnlyThreads, NoThread, Room, Arg
<1>e. ASSUME queue # <<>>, End("halted") \/ End("reboot") PROVE PinWaits'
  <2>1. state' # "pin"
    BY <1>e
  <2> QED BY <2>1
<1>1. CASE HandleTouch
  <2>1. E("DeactivateScreensaver") \in Event
        /\ E("DeactivateScreensaver").kind = "DeactivateScreensaver"
    BY EventType DEF Plain
  <2>2. /\ \A e \in Buttons(page) : e \in Event /\ e.kind \in Pressed
        /\ \A e \in Enter : e \in Event /\ e.kind \in {"FirstPinEntered", "PinEntered"}
    BY ButtonEvents, EnterEvents DEF TypeInv, TypeOK
  <2> QED BY <1>1, <2>1, <2>2, <1>b, <1>c DEF HandleTouch, Pressed
<1>2. CASE HandleShutdown
  BY <1>2, <1>b DEF HandleShutdown
<1>3. CASE HandleFatalError
  BY <1>3, <1>b DEF HandleFatalError
<1>4. CASE Drop
  <2>1. state = "pin" => Head(queue).kind \notin Checked \cup Upgrading
    BY <1>4 DEF Drop, Handles
  <2>2. Done /\ queue # <<>> /\ UNCHANGED <<state, page, threads>>
    BY <1>4 DEF Drop
  <2> QED BY <2>1, <2>2, <1>b
<1>5. CASE SetupNavigation
  <2>1. state' # "pin"
    BY <1>5 DEF SetupNavigation
  <2> QED BY <2>1
<1>6. CASE StartSetup
  <2>1. state' # "pin"
    BY <1>6 DEF StartSetup
  <2> QED BY <2>1
<1>7. CASE StorageProgress
  <2>1. state' # "pin"
    BY <1>7 DEF StorageProgress
  <2> QED BY <2>1
<1>8. CASE StorageSetupComplete
  <2>1. state' # "pin"
    BY <1>8 DEF StorageSetupComplete
  <2> QED BY <2>1
<1>9. CASE WatermarkConfigChecked
  <2>1. state' # "pin"
    BY <1>9 DEF WatermarkConfigChecked
  <2> QED BY <2>1
<1>10. CASE SetupFailed
  <2>1. state' # "pin"
    BY <1>10 DEF SetupFailed
  <2> QED BY <2>1
<1>11. CASE FirstPinEntered
  <2>1. state' # "pin"
    BY <1>11 DEF FirstPinEntered
  <2> QED BY <2>1
<1>12. CASE PinMismatch
  <2>1. state' # "pin"
    BY <1>12 DEF PinMismatch
  <2> QED BY <2>1
<1>13. CASE SetupPinConfirm
  <2>1. state' # "pin"
    BY <1>13 DEF SetupPinConfirm
  <2> QED BY <2>1
<1>14. CASE KeyGenSuccess
  <2>1. state' # "pin"
    BY <1>14 DEF KeyGenSuccess, ToActive
  <2> QED BY <2>1
<1>15. CASE PinEntered
  <2>1. E("DeviceLocked") \in Event /\ E("DeviceLocked").kind = "DeviceLocked"
    BY EventType DEF Plain
  <2>2. CASE Emit(E("DeviceLocked")) /\ UNCHANGED <<pageVars, verifying>>
    BY <1>15, <2>1, <2>2, <1>b, <1>c DEF PinEntered
  <2>3. CASE Progress("busy") /\ Done /\ verifying' = [verifying EXCEPT ![Arg] = verifying[Arg] + 1]
    <3>1. Arg \in Checks
      BY <1>15, <1>a, EventArg DEF PinEntered, Checks
    <3>2. verifying'[Arg] > 0 /\ (verifying'["upgrading"] = 0 => verifying["upgrading"] = 0)
      BY <2>3, <3>1, <1>d DEF Checks
    <3> QED BY <1>15, <2>3, <3>1, <3>2, <1>b, PageType DEF PinEntered
  <2> QED BY <1>15, <2>2, <2>3 DEF PinEntered
<1>16. CASE PinVerified
  <2>1. CASE state' # "pin"
    BY <2>1
  <2>2. CASE Show(Pg("notice", "AcknowledgeMigrationNotice")) /\ Done
             /\ UNCHANGED <<state, threads>>
    BY <1>16, <2>2, <1>b, PageType DEF PinVerified
  <2> QED BY <1>16, <2>1, <2>2 DEF PinVerified, ToActive
<1>17. CASE PinVerifyProgress
  <2>1. "upgrading" \in Checks /\ verifying["upgrading"] \in Nat
    BY <1>d DEF Checks
  <2> QED BY <1>17, <2>1, <1>b, PageType DEF PinVerifyProgress
<1>18. CASE AcknowledgeMigrationNotice
  <2>1. state' # "pin"
    BY <1>18 DEF AcknowledgeMigrationNotice, ToActive
  <2> QED BY <2>1
<1>19. CASE PinVerificationFailed
  <2>1. /\ E("InvalidPinEntered") \in Event
        /\ E("InvalidPinEntered").kind = "InvalidPinEntered"
    BY EventType DEF Plain
  <2> QED BY <1>19, <2>1, <1>b, <1>c DEF PinVerificationFailed
<1>20. CASE InvalidPinEntered
  <2>1. E("DeviceLocked") \in Event /\ E("DeviceLocked").kind = "DeviceLocked"
    BY EventType DEF Plain
  <2>2. CASE Emit(E("DeviceLocked")) /\ UNCHANGED pageVars
    BY <1>20, <2>1, <2>2, <1>b, <1>c DEF InvalidPinEntered
  <2>3. CASE Show(Pg("dialog", "EnterPin")) /\ Done
    BY <1>20, <2>3, <1>b, PageType DEF InvalidPinEntered
  <2> QED BY <1>20, <2>2, <2>3 DEF InvalidPinEntered
<1>21. CASE EnterPin
  BY <1>21, <1>b, PageType DEF EnterPin
<1>22. CASE DeviceLocked
  <2>1. state' # "pin"
    BY <1>22 DEF DeviceLocked
  <2> QED BY <2>1
<1>23. CASE Navigation
  <2>1. state' # "pin"
    BY <1>23 DEF Navigation
  <2> QED BY <2>1
<1>24. CASE KeysDecrypted
  <2>1. state' # "pin"
    BY <1>24 DEF KeysDecrypted
  <2> QED BY <2>1
<1>25. CASE ActivateScreensaver
  <2>1. state' # "pin"
    BY <1>25 DEF ActivateScreensaver
  <2> QED BY <2>1
<1>26. CASE DeactivateScreensaver
  <2>1. state' # "pin"
    BY <1>26 DEF DeactivateScreensaver
  <2> QED BY <2>1
<1>27. CASE WatermarkAlert
  <2>1. state' # "pin"
    BY <1>27 DEF WatermarkAlert
  <2> QED BY <2>1
<1>28. CASE UnknownKeyRequested
  <2>1. state' # "pin"
    BY <1>28 DEF UnknownKeyRequested
  <2> QED BY <2>1
<1>29. CASE UnknownKeyDismissed
  <2>1. state' # "pin"
    BY <1>29 DEF UnknownKeyDismissed
  <2> QED BY <2>1
<1>30. CASE UpdateWatermarkToLevel
  <2>1. state' # "pin"
    BY <1>30 DEF UpdateWatermarkToLevel
  <2> QED BY <2>1
<1>31. CASE ToMenu
  <2>1. state' # "pin"
    BY <1>31 DEF ToMenu
  <2> QED BY <2>1
<1>32. CASE RequestShutdown
  <2>1. state' # "pin"
    BY <1>32 DEF RequestShutdown
  <2> QED BY <2>1
<1>33. CASE StorageCreate
  <2>1. /\ E("StorageProgress") \in Event
        /\ E("StorageProgress").kind = "StorageProgress"
        /\ E("StorageSetupFailed") \in Event
        /\ E("StorageSetupFailed").kind = "StorageSetupFailed"
    BY EventType DEF Plain
  <2> QED BY <1>33, <2>1, <1>b, <1>c DEF StorageCreate
<1>34. CASE StorageFormat
  <2>1. /\ E("StorageSetupComplete") \in Event
        /\ E("StorageSetupComplete").kind = "StorageSetupComplete"
        /\ E("StorageSetupFailed") \in Event
        /\ E("StorageSetupFailed").kind = "StorageSetupFailed"
    BY EventType DEF Plain
  <2> QED BY <1>34, <2>1, <1>b, <1>c DEF StorageFormat
<1>35. CASE Keygen
  <2>1. /\ E("KeyGenFailed") \in Event /\ E("KeyGenFailed").kind = "KeyGenFailed"
        /\ E("KeyGenSuccess") \in Event /\ E("KeyGenSuccess").kind = "KeyGenSuccess"
    BY EventType DEF Plain
  <2> QED BY <1>35, <2>1, <1>b, <1>c DEF Keygen
<1>36. ASSUME NEW p \in Checks, VerifyPin(p) PROVE PinWaits'
  <2>1. /\ \A k \in {"PinVerifyProgress", "PinVerificationFailed"} :
              E(k) \in Event /\ E(k).kind = k
        /\ \A m \in {"none", "promoted", "notice", "staged"} :
              Ev("PinVerified", m) \in Event
              /\ Ev("PinVerified", m).kind = "PinVerified"
    BY EventType DEF Plain, Migration
  <2>2. UNCHANGED <<state, page>>
    BY <1>36 DEF VerifyPin
  <2>3. CASE verifying' = [verifying EXCEPT ![p] = @ - 1, !["upgrading"] = @ + 1]
    <3>1. "upgrading" \in Checks /\ verifying["upgrading"] \in Nat /\ verifying[p] \in Nat
          /\ verifying[p] > 0
      BY <1>36, <1>d DEF VerifyPin, Checks
    <3>2. verifying'["upgrading"] > 0
      <4>1. CASE p = "upgrading"
        BY <2>3, <3>1, <4>1, <1>d
      <4>2. CASE p # "upgrading"
        BY <2>3, <3>1, <4>2, <1>d
      <4> QED BY <4>1, <4>2
    <3> QED BY <2>2, <3>1, <3>2
  <2>4. CASE \E e \in Event : Send(e) /\ e.kind \in {"PinVerified", "PinVerificationFailed"}
    BY <2>2, <2>4, <1>c
  <2>5. CASE Send(E("PinVerificationFailed"))
    BY <2>1, <2>4, <2>5
  <2>6. CASE \E m \in {"none", "promoted", "notice", "staged"} : Send(Ev("PinVerified", m))
    BY <2>1, <2>4, <2>6
  <2> QED BY <1>36, <2>3, <2>5, <2>6 DEF VerifyPin
<1>37. CASE Touch
  <2>1. /\ E("Touch") \in Event /\ E("Touch").kind = "Touch"
    BY EventType DEF Plain
  <2> QED BY <1>37, <2>1, <1>b, <1>c DEF Touch
<1>38. CASE TimerFire
  <2>1. /\ E("ActivateScreensaver") \in Event
        /\ E("ActivateScreensaver").kind = "ActivateScreensaver"
    BY EventType DEF Plain
  <2> QED BY <1>38, <2>1, <1>b, <1>c DEF TimerFire
<1>39. CASE TimerReset
  BY <1>39, <1>b DEF TimerReset
<1>40. CASE SignerRequest
  <2>1. /\ \A k \in {"WatermarkAlert", "FatalError"} : E(k) \in Event /\ E(k).kind = k
        /\ \A k \in Pkhs : /\ Ev("UnknownKeyRequested", k) \in Event
                           /\ Ev("UnknownKeyRequested", k).kind = "UnknownKeyRequested"
    BY EventType DEF Plain
  <2> QED BY <1>40, <2>1, <1>b, <1>c DEF SignerRequest
<1>41. CASE Interrupt
  <2>1. /\ E("Shutdown") \in Event /\ E("Shutdown").kind = "Shutdown"
    BY EventType DEF Plain
  <2> QED BY <1>41, <2>1, <1>b, <1>c DEF Interrupt
<1>42. CASE PowerCycle
  BY <1>42, EmptyChannel, PageType DEF PowerCycle, FirstPage
<1>43. CASE UNCHANGED vars
  BY <1>43, <1>b DEF vars
<1> QED BY <1>1, <1>2, <1>3, <1>4, <1>5, <1>6, <1>7, <1>8, <1>9, <1>10, <1>11,
          <1>12, <1>13, <1>14, <1>15, <1>16, <1>17, <1>18, <1>19, <1>20, <1>21,
          <1>22, <1>23, <1>24, <1>25, <1>26, <1>27, <1>28, <1>29, <1>30, <1>31,
          <1>32, <1>33, <1>34, <1>35, <1>36, <1>37, <1>38, <1>39, <1>40, <1>41,
          <1>42, <1>43
          DEF Next, HandleEvent, Worker

(* Every step keeps ActiveWaits. *)
LEMMA ActiveWaitsStep == TypeInv /\ ActiveWaits /\ [Next]_vars => ActiveWaits'
<1> SUFFICES ASSUME TypeInv /\ ActiveWaits, [Next]_vars PROVE ActiveWaits'
  OBVIOUS
<1>a. queue \in Seq(Event)
        /\ (queue # <<>> => Head(queue) \in Event /\ Tail(queue) \in Seq(Event))
  BY DEF TypeInv, TypeOK
<1>b. queue # <<>> =>
        /\ In(queue, Started) <=> Head(queue).kind \in Started \/ In(Tail(queue), Started)
  BY <1>a, InTail
<1>c. ASSUME NEW q \in {queue, Tail(queue)}, q = queue \/ queue # <<>>, NEW e \in Event
      PROVE  /\ In(Append(q, e), Started) <=> In(q, Started) \/ e.kind \in Started
  <2>1. q \in Seq(Event)
    BY <1>a, <1>c
  <2>2. In(Append(q, e), Started) <=> In(q, Started) \/ e.kind \in Started
    BY <2>1, InAppend
  <2> QED BY <2>2
<1> USE DEF ActiveWaits, Started, Ended, Running, pageVars, saverVars, pinVars,
            alertVars, signerVars, threads, card,
            Next1, Done, Emit, Send, Show, Progress, End, InSetup, InPin, InActive,
            OnlyThreads, NoThread, Room, Arg
<1>e. ASSUME queue # <<>>, End("halted") \/ End("reboot") PROVE ActiveWaits'
  <2>1. state' # "active" /\ saved' = saved
    BY <1>e
  <2> QED BY <2>1
<1>1. CASE HandleTouch
  <2>1. E("DeactivateScreensaver") \in Event
        /\ E("DeactivateScreensaver").kind = "DeactivateScreensaver"
    BY EventType DEF Plain
  <2>2. /\ \A e \in Buttons(page) : e \in Event /\ e.kind \in Pressed
        /\ \A e \in Enter : e \in Event /\ e.kind \in {"FirstPinEntered", "PinEntered"}
    BY ButtonEvents, EnterEvents DEF TypeInv, TypeOK
  <2> QED BY <1>1, <2>1, <2>2, <1>b, <1>c DEF HandleTouch, Pressed
<1>2. CASE HandleShutdown
  BY <1>2, <1>b DEF HandleShutdown
<1>3. CASE HandleFatalError
  BY <1>3, <1>b DEF HandleFatalError
<1>4. CASE Drop
  <2>1. state = "active" => Head(queue).kind # "KeysDecrypted"
    BY <1>4 DEF Drop, Handles, Guarded, Navigations
  <2>2. Done /\ queue # <<>> /\ UNCHANGED <<state, page, saved>>
    BY <1>4 DEF Drop
  <2> QED BY <2>1, <2>2, <1>b
<1>5. CASE SetupNavigation
  BY <1>5, <1>b, PageType DEF SetupNavigation
<1>6. CASE StartSetup
  <2>1. state' # "active" /\ saved'.kind \notin {"busy", "storing"}
    BY <1>6, PageType DEF StartSetup
  <2> QED BY <2>1
<1>7. CASE StorageProgress
  BY <1>7, <1>b, PageType DEF StorageProgress
<1>8. CASE StorageSetupComplete
  <2>1. \A c \in {config, "invalid"} :
            /\ Ev("WatermarkConfigChecked", c) \in Event
            /\ Ev("WatermarkConfigChecked", c).kind = "WatermarkConfigChecked"
    BY EventType DEF TypeInv, TypeOK, Presence
  <2>2. CASE End("halted")
    BY <1>8, <2>2, <1>e DEF StorageSetupComplete
  <2>3. CASE \E c \in {config, "invalid"} : /\ Emit(Ev("WatermarkConfigChecked", c))
                                           /\ UNCHANGED <<state, page, saved>>
    BY <1>8, <2>1, <2>3, <1>b, <1>c DEF StorageSetupComplete
  <2> QED BY <1>8, <2>2, <2>3 DEF StorageSetupComplete
<1>9. CASE WatermarkConfigChecked
  <2>1. state' # "active" /\ saved'.kind \notin {"busy", "storing"}
    BY <1>9, PageType DEF WatermarkConfigChecked
  <2> QED BY <2>1
<1>10. CASE SetupFailed
  BY <1>10, <1>b DEF SetupFailed
<1>11. CASE FirstPinEntered
  BY <1>11, <1>b, PageType DEF FirstPinEntered
<1>12. CASE PinMismatch
  BY <1>12, <1>b, PageType DEF PinMismatch
<1>13. CASE SetupPinConfirm
  <2>1. state' # "active" /\ saved'.kind \notin {"busy", "storing"}
    BY <1>13, PageType DEF SetupPinConfirm
  <2> QED BY <2>1
<1>14. CASE KeyGenSuccess
  <2>1. E("KeysDecrypted") \in Event /\ E("KeysDecrypted").kind = "KeysDecrypted"
    BY EventType DEF Plain
  <2>2. CASE ToActive
    BY <1>14, <2>1, <2>2, <1>b, <1>c DEF KeyGenSuccess, ToActive
  <2>3. CASE End("halted") \/ End("reboot")
    BY <1>14, <2>3, <1>e DEF KeyGenSuccess
  <2> QED BY <1>14, <2>2, <2>3 DEF KeyGenSuccess
<1>15. CASE PinEntered
  <2>1. state' # "active" /\ saved'.kind \notin {"busy", "storing"}
    BY <1>15, PageType DEF PinEntered
  <2> QED BY <2>1
<1>16. CASE PinVerified
  <2>1. E("KeysDecrypted") \in Event /\ E("KeysDecrypted").kind = "KeysDecrypted"
    BY EventType DEF Plain
  <2>2. CASE ToActive
    BY <1>16, <2>1, <2>2, <1>b, <1>c DEF PinVerified, ToActive
  <2>3. CASE End("halted") \/ End("reboot")
    BY <1>16, <2>3, <1>e DEF PinVerified
  <2>4. CASE state' # "active" /\ Show(Pg("notice", "AcknowledgeMigrationNotice"))
    BY <2>4, PageType
  <2> QED BY <1>16, <2>2, <2>3, <2>4 DEF PinVerified
<1>17. CASE PinVerifyProgress
  BY <1>17, <1>b, PageType DEF PinVerifyProgress
<1>18. CASE AcknowledgeMigrationNotice
  <2>1. E("KeysDecrypted") \in Event /\ E("KeysDecrypted").kind = "KeysDecrypted"
    BY EventType DEF Plain
  <2>2. CASE ToActive
    BY <1>18, <2>1, <2>2, <1>b, <1>c DEF AcknowledgeMigrationNotice, ToActive
  <2>3. CASE End("halted") \/ End("reboot")
    BY <1>18, <2>3, <1>e DEF AcknowledgeMigrationNotice
  <2> QED BY <1>18, <2>2, <2>3 DEF AcknowledgeMigrationNotice
<1>19. CASE PinVerificationFailed
  <2>1. /\ E("InvalidPinEntered") \in Event
        /\ E("InvalidPinEntered").kind = "InvalidPinEntered"
    BY EventType DEF Plain
  <2> QED BY <1>19, <2>1, <1>b, <1>c DEF PinVerificationFailed
<1>20. CASE InvalidPinEntered
  <2>1. state' # "active" /\ saved'.kind \notin {"busy", "storing"}
    BY <1>20, PageType DEF InvalidPinEntered
  <2> QED BY <2>1
<1>21. CASE EnterPin
  BY <1>21, <1>b, PageType DEF EnterPin
<1>22. CASE DeviceLocked
  BY <1>22, <1>b DEF DeviceLocked
<1>23. CASE Navigation
  <2>1. Head(queue).kind \in Navigations /\ Show(Leads(Head(queue)))
    BY <1>23 DEF Navigation
  <2>2. Leads(Head(queue)).kind \in {"info", "about", "greeting", "image"}
    BY <2>1, PageType DEF Leads, Navigations
  <2> QED BY <2>1, <2>2
<1>24. CASE KeysDecrypted
  BY <1>24, <1>b, PageType DEF KeysDecrypted
<1>25. CASE ActivateScreensaver
  BY <1>25, <1>b, PageType DEF ActivateScreensaver
<1>26. CASE DeactivateScreensaver
  BY <1>26, <1>b, PageType DEF DeactivateScreensaver, Wake
<1>27. CASE WatermarkAlert
  BY <1>27, <1>b, PageType DEF WatermarkAlert, Wake
<1>28. CASE UnknownKeyRequested
  BY <1>28, <1>b, PageType DEF UnknownKeyRequested, Wake
<1>29. CASE UnknownKeyDismissed
  BY <1>29, <1>b, PageType DEF UnknownKeyDismissed
<1>30. CASE UpdateWatermarkToLevel
  <2>1. E("WatermarkUpdateSuccess") \in Event
        /\ E("WatermarkUpdateSuccess").kind = "WatermarkUpdateSuccess"
    BY EventType DEF Plain
  <2>2. CASE Emit(E("WatermarkUpdateSuccess")) /\ UNCHANGED pageVars
    BY <1>30, <2>1, <2>2, <1>b, <1>c DEF UpdateWatermarkToLevel
  <2>3. CASE page' = Pg("dialog", "DialogDismissed") /\ UNCHANGED saved
    BY <2>3, PageType
  <2> QED BY <1>30, <2>2, <2>3 DEF UpdateWatermarkToLevel
<1>31. CASE ToMenu
  BY <1>31, <1>b, PageType DEF ToMenu
<1>32. CASE RequestShutdown
  BY <1>32, <1>b, PageType DEF RequestShutdown
<1>33. CASE StorageCreate
  <2>1. /\ E("StorageProgress") \in Event
        /\ E("StorageProgress").kind = "StorageProgress"
        /\ E("StorageSetupFailed") \in Event
        /\ E("StorageSetupFailed").kind = "StorageSetupFailed"
    BY EventType DEF Plain
  <2> QED BY <1>33, <2>1, <1>b, <1>c DEF StorageCreate
<1>34. CASE StorageFormat
  <2>1. /\ E("StorageSetupComplete") \in Event
        /\ E("StorageSetupComplete").kind = "StorageSetupComplete"
        /\ E("StorageSetupFailed") \in Event
        /\ E("StorageSetupFailed").kind = "StorageSetupFailed"
    BY EventType DEF Plain
  <2> QED BY <1>34, <2>1, <1>b, <1>c DEF StorageFormat
<1>35. CASE Keygen
  <2>1. /\ E("KeyGenFailed") \in Event /\ E("KeyGenFailed").kind = "KeyGenFailed"
        /\ E("KeyGenSuccess") \in Event /\ E("KeyGenSuccess").kind = "KeyGenSuccess"
    BY EventType DEF Plain
  <2> QED BY <1>35, <2>1, <1>b, <1>c DEF Keygen
<1>36. ASSUME NEW p \in Checks, VerifyPin(p) PROVE ActiveWaits'
  <2>1. /\ \A k \in {"PinVerifyProgress", "PinVerificationFailed"} :
              E(k) \in Event /\ E(k).kind = k
        /\ \A m \in {"none", "promoted", "notice", "staged"} :
              Ev("PinVerified", m) \in Event
              /\ Ev("PinVerified", m).kind = "PinVerified"
    BY EventType DEF Plain, Migration
  <2> QED BY <1>36, <2>1, <1>b, <1>c DEF VerifyPin
<1>37. CASE Touch
  <2>1. /\ E("Touch") \in Event /\ E("Touch").kind = "Touch"
    BY EventType DEF Plain
  <2> QED BY <1>37, <2>1, <1>b, <1>c DEF Touch
<1>38. CASE TimerFire
  <2>1. /\ E("ActivateScreensaver") \in Event
        /\ E("ActivateScreensaver").kind = "ActivateScreensaver"
    BY EventType DEF Plain
  <2> QED BY <1>38, <2>1, <1>b, <1>c DEF TimerFire
<1>39. CASE TimerReset
  BY <1>39, <1>b DEF TimerReset
<1>40. CASE SignerRequest
  <2>1. /\ \A k \in {"WatermarkAlert", "FatalError"} : E(k) \in Event /\ E(k).kind = k
        /\ \A k \in Pkhs : /\ Ev("UnknownKeyRequested", k) \in Event
                           /\ Ev("UnknownKeyRequested", k).kind = "UnknownKeyRequested"
    BY EventType DEF Plain
  <2> QED BY <1>40, <2>1, <1>b, <1>c DEF SignerRequest
<1>41. CASE Interrupt
  <2>1. /\ E("Shutdown") \in Event /\ E("Shutdown").kind = "Shutdown"
    BY EventType DEF Plain
  <2> QED BY <1>41, <2>1, <1>b, <1>c DEF Interrupt
<1>42. CASE PowerCycle
  BY <1>42, PageType DEF PowerCycle, FirstPage, BootState
<1>43. CASE UNCHANGED vars
  BY <1>43, <1>b DEF vars
<1> QED BY <1>1, <1>2, <1>3, <1>4, <1>5, <1>6, <1>7, <1>8, <1>9, <1>10, <1>11,
          <1>12, <1>13, <1>14, <1>15, <1>16, <1>17, <1>18, <1>19, <1>20, <1>21,
          <1>22, <1>23, <1>24, <1>25, <1>26, <1>27, <1>28, <1>29, <1>30, <1>31,
          <1>32, <1>33, <1>34, <1>35, <1>36, <1>37, <1>38, <1>39, <1>40, <1>41,
          <1>42, <1>43
          DEF Next, HandleEvent, Worker

-----------------------------------------------------------------------------
(* The results.                                                             *)

(* The inductive invariant of the UI thread. *)
IInv == /\ TypeInv /\ SignerInv /\ TimerInv /\ DiskInv /\ GateInv
        /\ SetupWaits /\ PinWaits /\ ActiveWaits

(* A device that boots satisfies it. *)
LEMMA IInvInit == Init => IInv
<1> SUFFICES ASSUME Init PROVE IInv
  OBVIOUS
<1>1. state \in {"setup", "pin", "halted"} /\ (marker => parts = "mounted")
  BY DEF Init, BootState
<1>2. page.kind \in {"greeting", "pinverify"} /\ saved = page
  BY PageType DEF Init, FirstPage
<1>3. SignerInv /\ TimerInv
  BY <1>1, EmptyChannel DEF Init, SignerInv, TimerInv
<1>4. DiskInv
  BY <1>1, EmptyChannel DEF Init, DiskInv
<1>5. GateInv
  BY <1>2, EmptyChannel DEF Init, GateInv
<1>6. SetupWaits /\ PinWaits /\ ActiveWaits
  BY <1>1, <1>2, EmptyChannel DEF Init, SetupWaits, PinWaits, ActiveWaits
<1> QED BY <1>3, <1>4, <1>5, <1>6, TypeInit DEF IInv

(* It holds for ever. *)
LEMMA AlwaysIInv == Spec => []IInv
<1>1. IInv /\ [Next]_vars => IInv'
  BY TypeStep, SignerStep, TimerStep, DiskStep, GateStep, SetupWaitsStep,
     PinWaitsStep, ActiveWaitsStep DEF IInv
<1> QED BY IInvInit, <1>1, PTL DEF Spec

(* The device's UI thread stays within its types: what is in the channel,   *)
(* what is up on the panel, and never more recorded keys than the alert     *)
(* holds (App, UNKNOWN_KEY_CAP).                                            *)
THEOREM TypeCorrect == Spec => []TypeOK
<1>1. IInv => TypeOK
  BY DEF IInv, TypeInv
<1> QED BY AlwaysIInv, <1>1, PTL

(* The signer is started once, with the keys that were decrypted, however   *)
(* many PIN checks and key generations are in flight (pending_key_manager,  *)
(* start_signer).                                                           *)
THEOREM StartsOnce == Spec => []SignerStartsOnce
<1>1. IInv => SignerStartsOnce
  <2> SUFFICES ASSUME IInv, NEW i \in Queued("KeysDecrypted")
               PROVE  /\ manager /\ ~ serving
                      /\ Cardinality(Queued("KeysDecrypted")) = 1
    BY DEF SignerStartsOnce
  <2>1. In(queue, Started) /\ Once(queue, Started)
    BY DEF IInv, SignerInv, Queued, In, Started
  <2>2. Queued("KeysDecrypted") = {i}
    BY <2>1 DEF Queued, Once, Started
  <2> QED BY <2>1, <2>2, FS_Singleton DEF IInv, SignerInv
<1> QED BY AlwaysIInv, <1>1, PTL

(* The inactivity timer is never left waiting for a reset that nobody will  *)
(* send (screensaver_timer, wake_without_rebuild_effects).                  *)
THEOREM NeverStuck == Spec => []TimerNeverStuck
<1>1. IInv => TimerNeverStuck
  BY DEF IInv, TimerInv, TimerNeverStuck, Queued, In, Activation
<1> QED BY AlwaysIInv, <1>1, PTL

(* First-boot setup takes a PIN and generates keys behind the config gate,  *)
(* and formats nothing under them, in any order of taps, worker results and *)
(* power losses (handle_setup, verify_partitions, setup_storage).           *)
THEOREM SetupSafe == Spec => []SetupIsSafe
<1>1. IInv => SetupIsSafe
  <2> SUFFICES ASSUME IInv PROVE SetupIsSafe
    OBVIOUS
  <2>1. KeygenIsSafe
    BY DEF IInv, GateInv, Ready, KeygenIsSafe
  <2>2. storing["format"] \in Nat
    BY TypeParts DEF IInv, CountsType
  <2>3. SetupProtectsKeys
    BY <2>2 DEF IInv, DiskInv, SetupProtectsKeys
  <2> QED BY <2>1, <2>3 DEF SetupIsSafe
<1> QED BY AlwaysIInv, <1>1, PTL

(* No progress page is left up with nothing on its way to replace it: no    *)
(* answer of a worker is lost, whatever is handled before it                *)
(* (handle_setup, handle_pin_entry).                                        *)
THEOREM HangsNever == Spec => []NeverHangs
<1>1. IInv => NeverHangs
  <2> SUFFICES ASSUME IInv, Running, page.kind \in {"busy", "storing"}
               PROVE  \/ \E kind \in Answers : Queued(kind) # {}
                      \/ generating > 0
                      \/ \E s \in DOMAIN storing : storing[s] > 0
                      \/ \E p \in Checks : verifying[p] > 0
    BY DEF NeverHangs
  <2>1. state \in {"setup", "pin", "active"}
    BY DEF IInv, TypeInv, TypeOK, Running
  <2>2. ASSUME NEW K, K \subseteq Answers, In(queue, K)
        PROVE  \E kind \in Answers : Queued(kind) # {}
    BY <2>2 DEF In, Queued
  <2>3. DOMAIN storing = {"create", "format"}
    BY DEF IInv, TypeInv, TypeOK
  <2>4. CASE state = "setup"
    BY <2>2, <2>3, <2>4 DEF IInv, SetupWaits, Generated, Stored, Answers
  <2>5. CASE state = "pin"
    BY <2>2, <2>5 DEF IInv, PinWaits, Checked, Answers
  <2>6. CASE state = "active"
    BY <2>2, <2>6 DEF IInv, ActiveWaits, Started, Answers
  <2> QED BY <2>1, <2>4, <2>5, <2>6
<1> QED BY AlwaysIInv, <1>1, PTL
=============================================================================
