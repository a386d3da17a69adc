--------------------------------- MODULE App ---------------------------------
(***************************************************************************)
(* The UI thread of the device (rpi-signer/src/app.rs, main.rs, pages/):   *)
(* one FIFO channel of events, a state (first-boot setup, PIN entry,       *)
(* active), the page on the panel, and the threads that send to the        *)
(* channel: touch, screensaver timer, storage setup, key generation, PIN   *)
(* verification and the signer.                                            *)
(*                                                                         *)
(* Handling an event, its effects included, is one step: only the UI       *)
(* thread reads the channel and changes the page.  A touch is interpreted  *)
(* by the page that is up when it is handled, and what the page sends goes *)
(* to the end of the channel, behind whatever arrived in the meantime.     *)
(***************************************************************************)
EXTENDS Integers, Sequences, FiniteSets

CONSTANTS Pins,         \* PINs of legal length an operator may type
          RightPin,     \* the PIN the keys are encrypted under
          NoPin,        \* an empty entry, too short for a new PIN
          None,         \* no payload
          Pkhs,         \* keys that requests may name and the device lacks
          Cap,          \* UNKNOWN_KEY_CAP
          MaxFailed,    \* MAX_FAILED_ATTEMPTS
          MaxQueue,     \* bound on the event channel
          MaxTouches,   \* bound on touches between two boots
          SetupQueue, SetupTouches  \* ... of a card that is being set up

ASSUME PinAssumption == RightPin \in Pins /\ NoPin \notin Pins /\ None \notin Pins
                        /\ NoPin # None
ASSUME CapAssumption == Cap \in Nat \ {0} /\ MaxFailed \in Nat \ {0}
ASSUME BoundsAssumption == {MaxQueue, MaxTouches, SetupQueue, SetupTouches} \subseteq Nat

VARIABLES state,        \* App.state, and how the process ended
          page, saved,  \* the page shown; App.current_page_spec
          queue,        \* the event channel
          screensaver,  \* AppState::Active.screensaver_active: the panel sleeps
          timer, reset, \* the screensaver thread, and a reset waiting for it
          typed,        \* the digits entered on the PIN page
          first,        \* AppState::Setup.first_pin
          failed,       \* AppState::PinEntry.failed_attempts
          lockout,      \* AppState::PinEntry.lockout_until is Some
          known, overflow, active,  \* App.unknown_keys
          manager,      \* App.pending_key_manager is Some
          serving,      \* the signer thread has its keys
          storing, generating, verifying,  \* the worker threads
          parts, keys, marker, config,     \* the card
          touches       \* touches so far (bound)

pageVars   == <<page, saved, typed>>
saverVars  == <<screensaver, timer, reset>>
pinVars    == <<first, failed, lockout>>
alertVars  == <<known, overflow, active>>
signerVars == <<manager, serving>>
threads    == <<storing, generating, verifying>>
card       == <<parts, keys, marker, config>>
vars == <<state, pageVars, queue, saverVars, pinVars, alertVars, signerVars,
          threads, card, touches>>

Ev(kind, arg) == [kind |-> kind, arg |-> arg]
E(kind) == Ev(kind, None)

Pg(kind, arg) == [kind |-> kind, arg |-> arg]
P(kind) == Pg(kind, None)

Back == {"About", "Greeting"}
Presence == {"present", "missing", "invalid"}
Migration == {"none", "staged", "promoted", "notice"}
Checks == Pins \cup {NoPin, "upgrading"}
PinPages == {"pincreate", "pinconfirm", "pinverify"}
Ended == {"locked", "halted", "reboot", "shutdown"}

(* is_modal of each page: PIN pages, dialogs, confirmations, notices and    *)
(* the progress of a PIN check or of key generation.                        *)
Modal(p) == p.kind \in {"pincreate", "pinconfirm", "pinverify", "busy",
                        "dialog", "confirm", "notice"}

Plain == {"StartSetup", "StorageSetupComplete", "StorageSetupFailed",
          "StorageProgress", "PinMismatch", "KeyGenSuccess", "KeyGenFailed",
          "EnterPin", "InvalidPinEntered", "PinVerificationFailed",
          "PinVerifyProgress", "AcknowledgeMigrationNotice", "DeviceLocked",
          "KeysDecrypted", "Touch", "ActivateScreensaver",
          "DeactivateScreensaver", "Shutdown", "WatermarkUpdateSuccess",
          "WatermarkAlert", "UnknownKeyDismissed", "UpdateWatermarkToLevel",
          "DialogDismissed", "ShowMenu", "ShowInfo", "ShowAbout",
          "ShowGreeting", "RequestShutdown", "FatalError"}

Event == [kind : Plain, arg : {None}]
         \cup [kind : {"FirstPinEntered"}, arg : Pins]
         \cup [kind : {"PinEntered"}, arg : Pins \cup {NoPin}]
         \cup [kind : {"PinVerified"}, arg : Migration]
         \cup [kind : {"WatermarkConfigChecked"}, arg : Presence]
         \cup [kind : {"UnknownKeyRequested"}, arg : Pkhs]
         \cup [kind : {"ShowImage"}, arg : Back]

Page == [kind : {"greeting", "storing", "pincreate", "pinconfirm", "pinverify",
                 "busy", "menu", "info", "about", "screensaver"}, arg : {None}]
        \cup [kind : {"image"}, arg : Back]
        \cup [kind : {"dialog"}, arg : {"EnterPin", "DialogDismissed"}]
        \cup [kind : {"confirm"}, arg : {"Shutdown", "UpdateWatermarkToLevel"}]
        \cup [kind : {"notice"}, arg : {"AcknowledgeMigrationNotice",
                                        "UnknownKeyDismissed"}]

TypeOK ==
    /\ state \in {"setup", "pin", "active"} \cup Ended
    /\ page \in Page /\ saved \in Page
    /\ queue \in Seq(Event)
    /\ screensaver \in BOOLEAN /\ reset \in BOOLEAN
    /\ timer \in {"armed", "parked"}
    /\ typed \in Pins \cup {NoPin} /\ first \in Pins \cup {None}
    /\ failed \in Nat /\ lockout \in BOOLEAN
    /\ known \in SUBSET Pkhs /\ Cardinality(known) <= Cap
    /\ overflow \in BOOLEAN /\ active \in BOOLEAN
    /\ manager \in BOOLEAN /\ serving \in BOOLEAN
    /\ storing \in [{"create", "format"} -> Nat]
    /\ generating \in Nat
    /\ verifying \in [Checks -> Nat]
    /\ parts \in {"none", "made", "mounted"}
    /\ keys \in BOOLEAN /\ marker \in BOOLEAN /\ config \in Presence
    /\ touches \in Nat

(* Power-on: is_first_boot and verify_partitions_early choose the state.    *)
(* Partitions that were formatted are mounted by the init script.           *)
BootState(k, m, p) == IF m /\ p # "none" THEN "pin"
                      ELSE IF k THEN "halted" ELSE "setup"

FirstPage(st) == IF st = "pin" THEN P("pinverify") ELSE P("greeting")

(* A card as flashed, or one whose setup was completed. *)
Init ==
    /\ config \in Presence /\ marker \in BOOLEAN
    /\ parts = IF marker THEN "mounted" ELSE "none"
    /\ keys = marker
    /\ state = BootState(keys, marker, parts)
    /\ page = FirstPage(state) /\ saved = page
    /\ queue = <<>> /\ screensaver = FALSE /\ timer = "armed" /\ reset = FALSE
    /\ typed = NoPin /\ first = None /\ failed = 0 /\ lockout = FALSE
    /\ known = {} /\ overflow = FALSE /\ active = FALSE
    /\ manager = FALSE /\ serving = FALSE
    /\ storing = [s \in {"create", "format"} |-> 0] /\ generating = 0
    /\ verifying = [p \in Checks |-> 0]
    /\ touches = 0

Running == state \notin Ended

-----------------------------------------------------------------------------
(* Handling one event.                                                      *)

Next1(kind) == Running /\ queue # <<>> /\ Head(queue).kind = kind
Arg == Head(queue).arg

Done == queue' = Tail(queue)
Emit(e) == queue' = Append(Tail(queue), e)

Show(p) == page' = p /\ saved' = p /\ typed' = NoPin
Progress(kind) == page' = P(kind) /\ typed' = NoPin /\ UNCHANGED saved

End(how) == state' = how /\ Done /\ UNCHANGED <<pageVars, saverVars, pinVars,
               alertVars, signerVars, threads, touches>>

(* The events a touch on a page's buttons sends.  PIN pages are below. *)
Buttons(p) ==
    CASE p.kind = "greeting" -> {E("StartSetup"), Ev("ShowImage", "Greeting")}
      [] p.kind = "menu"     -> {E("ShowInfo"), E("ShowAbout"), E("RequestShutdown")}
      [] p.kind = "info"     -> {E("ShowMenu")}
      [] p.kind = "about"    -> {E("ShowMenu"), Ev("ShowImage", "About")}
      [] p.kind = "image"    -> {IF p.arg = "About" THEN E("ShowAbout")
                                                    ELSE E("ShowGreeting")}
      [] p.kind \in {"dialog", "notice"} -> {E(p.arg)}
      [] p.kind = "confirm"  -> {E(p.arg), IF p.arg = "Shutdown"
                                           THEN E("ShowMenu")
                                           ELSE E("DialogDismissed")}
      [] OTHER -> {}

(* Enter on a PIN page: a new PIN must have its length, any other entry is  *)
(* sent as it is; the digits are cleared.                                   *)
Enter ==
    CASE page.kind = "pincreate" /\ typed # NoPin -> {Ev("FirstPinEntered", typed)}
      [] page.kind \in {"pinconfirm", "pinverify"} -> {Ev("PinEntered", typed)}
      [] OTHER -> {}

(* A touch wakes a sleeping panel and is otherwise given to the page, which  *)
(* may send an event; it also restarts the inactivity clock.  The touches   *)
(* that edit a PIN are one touch here.                                      *)
HandleTouch ==
    /\ Next1("Touch")
    /\ \/ /\ screensaver
          /\ Emit(E("DeactivateScreensaver"))
          /\ UNCHANGED <<reset, typed>>
       \/ /\ ~ screensaver
          /\ reset' = TRUE
          /\ \/ \E e \in Buttons(page) : Emit(e) /\ UNCHANGED typed
             \/ \E e \in Enter : Emit(e) /\ typed' = NoPin
             \/ /\ page.kind \in PinPages /\ Done
                /\ typed' \in Pins \cup {NoPin}
             \/ /\ page.kind \notin PinPages \cup {"info", "about"}
                /\ Done /\ UNCHANGED typed
    /\ UNCHANGED <<state, page, saved, screensaver, timer, pinVars, alertVars,
                   signerVars, threads, card, touches>>

HandleShutdown == Next1("Shutdown") /\ End("shutdown") /\ UNCHANGED card

HandleFatalError == Next1("FatalError") /\ End("halted") /\ UNCHANGED card

-----------------------------------------------------------------------------
(* First boot: handle_setup.                                                *)

InSetup(kind) == Next1(kind) /\ state = "setup"

SetupNavigation ==
    /\ state = "setup"
    /\ \/ Next1("ShowGreeting") /\ Show(P("greeting"))
       \/ Next1("ShowImage") /\ Show(Pg("image", Arg))
    /\ Done
    /\ UNCHANGED <<state, saverVars, pinVars, alertVars, signerVars, threads,
                   card, touches>>

StartSetup ==
    /\ InSetup("StartSetup")
    /\ IF parts = "none"
       THEN /\ Progress("storing") /\ Done
            /\ storing' = [storing EXCEPT !["create"] = @ + 1]
       ELSE /\ Emit(E("StorageSetupComplete"))
            /\ UNCHANGED <<pageVars, storing>>
    /\ UNCHANGED <<state, saverVars, pinVars, alertVars, signerVars,
                   generating, verifying, card, touches>>

StorageProgress ==
    /\ InSetup("StorageProgress")
    /\ Progress("storing") /\ Done
    /\ UNCHANGED <<state, saverVars, pinVars, alertVars, signerVars, threads,
                   card, touches>>

(* VerifyStorage refuses unmounted partitions, keys and a marker; then the  *)
(* staged config is checked and left in place.                              *)
StorageSetupComplete ==
    /\ InSetup("StorageSetupComplete")
    /\ \/ /\ parts = "mounted" /\ ~ keys /\ ~ marker
          /\ \E p \in {config, "invalid"} : Emit(Ev("WatermarkConfigChecked", p))
          /\ UNCHANGED <<state, pageVars, saverVars, pinVars, alertVars,
                         signerVars, threads, touches>>
       \/ End("halted")
    /\ UNCHANGED card

(* Mutant: the gate lets a card without a config through. *)
WatermarkConfigCheckedWarns ==
    /\ InSetup("WatermarkConfigChecked")
    /\ Show(P("pincreate")) /\ Done
    /\ UNCHANGED <<state, saverVars, pinVars, alertVars, signerVars, threads,
                   card, touches>>

WatermarkConfigChecked ==
    /\ InSetup("WatermarkConfigChecked")
    /\ \/ /\ Arg = "present"
          /\ Show(P("pincreate")) /\ Done
          /\ UNCHANGED <<state, saverVars, pinVars, alertVars, signerVars,
                         threads, touches>>
       \/ Arg # "present" /\ End("halted")
    /\ UNCHANGED card

SetupFailed ==
    /\ InSetup("StorageSetupFailed") \/ InSetup("KeyGenFailed")
    /\ End("halted")
    /\ UNCHANGED card

FirstPinEntered ==
    /\ InSetup("FirstPinEntered")
    /\ first' = Arg
    /\ Show(P("pinconfirm")) /\ Done
    /\ UNCHANGED <<state, saverVars, failed, lockout, alertVars, signerVars,
                   threads, card, touches>>

PinMismatch ==
    /\ InSetup("PinMismatch")
    /\ first' = None
    /\ Show(P("pincreate")) /\ Done
    /\ UNCHANGED <<state, saverVars, failed, lockout, alertVars, signerVars,
                   threads, card, touches>>

SetupPinConfirm ==
    /\ InSetup("PinEntered")
    /\ \/ first = None /\ Done /\ UNCHANGED <<pageVars, first, generating>>
       \/ /\ first # None /\ Arg = first
          /\ first' = None
          /\ generating' = generating + 1
          /\ Progress("busy") /\ Done
       \/ /\ first # None /\ Arg # first
          /\ Emit(E("PinMismatch")) /\ UNCHANGED <<pageVars, first, generating>>
    /\ UNCHANGED <<state, saverVars, failed, lockout, alertVars, signerVars,
                   storing, verifying, card, touches>>

(* Entering Active: the keys are parsed into the pending manager and        *)
(* KeysDecrypted is sent to the channel's end.                              *)
ToActive ==
    /\ state' = "active"
    /\ manager' = TRUE
    /\ Emit(E("KeysDecrypted"))
    /\ first' = None /\ failed' = 0 /\ lockout' = FALSE
    /\ UNCHANGED <<pageVars, saverVars, alertVars, serving, threads, touches>>

(* finalize_first_boot.  The config is consumed (a delete that fails is     *)
(* logged), the marker is written (a failure is logged); an invalid config, *)
(* a failed remount, privilege drop or watermark load ends the boot.        *)
KeyGenSuccess ==
    /\ InSetup("KeyGenSuccess")
    /\ \/ /\ config # "invalid"
          /\ config' \in {config, "missing"} /\ marker' \in BOOLEAN
          /\ ToActive \/ End("halted")
       \/ End("halted") /\ UNCHANGED <<config, marker>>
    /\ UNCHANGED <<parts, keys>>

-----------------------------------------------------------------------------
(* PIN entry: handle_pin_entry.                                             *)

InPin(kind) == Next1(kind) /\ state = "pin"

(* The five minutes of a lockout outlast the events that are in the         *)
(* channel, among them the DeviceLocked that ends the process.              *)
PinEntered ==
    /\ InPin("PinEntered")
    /\ \/ lockout /\ Emit(E("DeviceLocked")) /\ UNCHANGED <<pageVars, verifying>>
       \/ /\ ~ lockout
          /\ Progress("busy") /\ Done
          /\ verifying' = [verifying EXCEPT ![Arg] = @ + 1]
    /\ UNCHANGED <<state, saverVars, pinVars, alertVars, signerVars, storing,
                   generating, card, touches>>

PinVerified ==
    /\ InPin("PinVerified")
    /\ \/ Arg \in {"none", "promoted"} /\ ToActive
       \/ Arg = "staged" /\ End("reboot")
       \/ /\ Arg = "notice"
          /\ Show(Pg("notice", "AcknowledgeMigrationNotice")) /\ Done
          /\ UNCHANGED <<state, saverVars, pinVars, alertVars, signerVars,
                         threads, touches>>
       \/ Arg # "notice" /\ End("halted")
    /\ UNCHANGED card

PinVerifyProgress ==
    /\ InPin("PinVerifyProgress")
    /\ Progress("busy") /\ Done
    /\ UNCHANGED <<state, saverVars, pinVars, alertVars, signerVars, threads,
                   card, touches>>

(* Mutant: the state stays PinEntry. *)
AcknowledgeStaysInPin ==
    /\ InPin("AcknowledgeMigrationNotice")
    /\ manager' = TRUE
    /\ Emit(E("KeysDecrypted"))
    /\ UNCHANGED <<state, pageVars, saverVars, pinVars, alertVars, serving,
                   threads, card, touches>>

AcknowledgeMigrationNotice ==
    /\ InPin("AcknowledgeMigrationNotice")
    /\ ToActive \/ End("halted")
    /\ UNCHANGED card

PinVerificationFailed ==
    /\ InPin("PinVerificationFailed")
    /\ Emit(E("InvalidPinEntered"))
    /\ UNCHANGED <<state, pageVars, saverVars, pinVars, alertVars, signerVars,
                   threads, card, touches>>

(* Mutant: the last failure locks without telling. *)
InvalidPinEnteredSilent ==
    /\ InPin("InvalidPinEntered")
    /\ failed' = failed + 1
    /\ \/ failed' >= MaxFailed /\ lockout' = TRUE /\ Done /\ UNCHANGED pageVars
       \/ /\ failed' < MaxFailed
          /\ Show(Pg("dialog", "EnterPin")) /\ Done /\ UNCHANGED lockout
    /\ UNCHANGED <<state, saverVars, first, alertVars, signerVars, threads,
                   card, touches>>

InvalidPinEntered ==
    /\ InPin("InvalidPinEntered")
    /\ failed' = failed + 1
    /\ \/ /\ failed' >= MaxFailed
          /\ lockout' = TRUE
          /\ Emit(E("DeviceLocked")) /\ UNCHANGED pageVars
       \/ /\ failed' < MaxFailed
          /\ Show(Pg("dialog", "EnterPin")) /\ Done /\ UNCHANGED lockout
    /\ UNCHANGED <<state, saverVars, first, alertVars, signerVars, threads,
                   card, touches>>

EnterPin ==
    /\ InPin("EnterPin")
    /\ Show(P("pinverify")) /\ Done
    /\ UNCHANGED <<state, saverVars, pinVars, alertVars, signerVars, threads,
                   card, touches>>

DeviceLocked == InPin("DeviceLocked") /\ End("locked") /\ UNCHANGED card

-----------------------------------------------------------------------------
(* Signing: handle_active.                                                  *)

InActive(kind) == Next1(kind) /\ state = "active"

(* navigation_page: where the menu and the back buttons lead. *)
Leads(e) == CASE e.kind = "ShowInfo"     -> P("info")
              [] e.kind = "ShowAbout"    -> P("about")
              [] e.kind = "ShowGreeting" -> P("greeting")
              [] e.kind = "ShowImage"    -> Pg("image", e.arg)

Navigations == {"ShowInfo", "ShowAbout", "ShowGreeting", "ShowImage"}

Navigation ==
    /\ \E kind \in Navigations : InActive(kind)
    /\ ~ Modal(page)
    /\ Show(Leads(Head(queue))) /\ Done
    /\ UNCHANGED <<state, saverVars, pinVars, alertVars, signerVars, threads,
                   card, touches>>

(* start_signer: the manager is taken, never parsed again. *)
KeysDecrypted ==
    /\ InActive("KeysDecrypted")
    /\ \/ /\ manager
          /\ manager' = FALSE /\ serving' = TRUE
          /\ Show(P("menu")) /\ reset' = TRUE /\ Done
          /\ UNCHANGED <<state, screensaver, timer, pinVars, alertVars, threads,
                         touches>>
       \/ ~ manager /\ End("halted")
    /\ UNCHANGED card

ActivateScreensaver ==
    /\ InActive("ActivateScreensaver")
    /\ ~ Modal(page) /\ ~ screensaver
    /\ screensaver' = TRUE
    /\ Progress("screensaver") /\ Done
    /\ UNCHANGED <<state, timer, reset, pinVars, alertVars, signerVars, threads,
                   card, touches>>

(* Mutant: waking does not restart the inactivity clock. *)
WakeOnly == screensaver' = FALSE /\ UNCHANGED <<timer, reset>>

(* wake_without_rebuild_effects: the timer thread stays parked until told. *)
Wake ==
    /\ screensaver' = FALSE
    /\ reset' = (reset \/ screensaver)
    /\ UNCHANGED timer

DeactivateScreensaver ==
    /\ InActive("DeactivateScreensaver")
    /\ screensaver
    /\ Wake
    /\ Show(saved) /\ Done
    /\ UNCHANGED <<state, pinVars, alertVars, signerVars, threads, card, touches>>

(* LargeWatermarkGap and WatermarkMissing. *)
WatermarkAlert ==
    /\ InActive("WatermarkAlert")
    /\ ~ Modal(page)
    /\ Wake
    /\ Show(Pg("confirm", "UpdateWatermarkToLevel")) /\ Done
    /\ UNCHANGED <<state, pinVars, alertVars, signerVars, threads, card, touches>>

(* UnknownKeyAlert::record, for a key that changes it. *)
Record(k) ==
    /\ IF Cardinality(known) < Cap
       THEN known' = known \cup {k} /\ UNCHANGED overflow
       ELSE overflow' = TRUE /\ UNCHANGED known
    /\ active' = TRUE

IsNews(k) == k \notin known /\ (Cardinality(known) < Cap \/ ~ overflow)

UnknownKeyRequested ==
    /\ InActive("UnknownKeyRequested")
    /\ ~ Modal(page)
    /\ \/ /\ IsNews(Arg)
          /\ Record(Arg)
          /\ Wake
          /\ Show(Pg("notice", "UnknownKeyDismissed"))
       \/ ~ IsNews(Arg) /\ UNCHANGED <<alertVars, saverVars, pageVars>>
    /\ Done
    /\ UNCHANGED <<state, pinVars, signerVars, threads, card, touches>>

UnknownKeyDismissed ==
    /\ InActive("UnknownKeyDismissed")
    /\ active' = FALSE
    /\ Show(P("menu")) /\ Done
    /\ UNCHANGED <<state, saverVars, pinVars, known, overflow, signerVars,
                   threads, card, touches>>

(* apply_watermark_update; what it does to the marks is in Signer. *)
UpdateWatermarkToLevel ==
    /\ InActive("UpdateWatermarkToLevel")
    /\ \/ Emit(E("WatermarkUpdateSuccess")) /\ UNCHANGED pageVars
       \/ /\ page' = Pg("dialog", "DialogDismissed") /\ typed' = NoPin
          /\ Done /\ UNCHANGED saved
    /\ UNCHANGED <<state, saverVars, pinVars, alertVars, signerVars, threads,
                   card, touches>>

Closings == {"WatermarkUpdateSuccess", "DialogDismissed", "ShowMenu"}

ToMenu ==
    /\ \E kind \in Closings : InActive(kind)
    /\ Show(P("menu")) /\ Done
    /\ UNCHANGED <<state, saverVars, pinVars, alertVars, signerVars, threads,
                   card, touches>>

RequestShutdown ==
    /\ InActive("RequestShutdown")
    /\ Show(Pg("confirm", "Shutdown")) /\ Done
    /\ UNCHANGED <<state, saverVars, pinVars, alertVars, signerVars, threads,
                   card, touches>>

(* What the handler of each state has an arm for. *)
Handles(st) ==
    CASE st = "setup" -> {"ShowGreeting", "ShowImage", "StartSetup",
                          "StorageProgress", "StorageSetupComplete",
                          "StorageSetupFailed", "WatermarkConfigChecked",
                          "FirstPinEntered", "PinMismatch", "PinEntered",
                          "KeyGenSuccess", "KeyGenFailed"}
      [] st = "pin" -> {"PinEntered", "PinVerified", "PinVerifyProgress",
                        "AcknowledgeMigrationNotice", "PinVerificationFailed",
                        "InvalidPinEntered", "EnterPin", "DeviceLocked"}
      [] st = "active" -> Navigations \cup Closings \cup
                          {"KeysDecrypted", "ActivateScreensaver",
                           "DeactivateScreensaver", "WatermarkAlert",
                           "UnknownKeyRequested", "UnknownKeyDismissed",
                           "UpdateWatermarkToLevel", "RequestShutdown"}

Guarded == Navigations \cup {"ActivateScreensaver", "WatermarkAlert",
                             "UnknownKeyRequested"}

(* An event without an arm, or whose arm's guard fails, is dropped. *)
Drop ==
    /\ Running /\ queue # <<>>
    /\ LET kind == Head(queue).kind IN
          /\ kind \notin {"Touch", "Shutdown", "FatalError"}
          /\ \/ kind \notin Handles(state)
             \/ state = "active" /\ Modal(page) /\ kind \in Guarded
             \/ kind = "ActivateScreensaver" /\ screensaver
             \/ kind = "DeactivateScreensaver" /\ ~ screensaver
    /\ Done
    /\ UNCHANGED <<state, pageVars, saverVars, pinVars, alertVars, signerVars,
                   threads, card, touches>>

HandleEvent ==
    \/ HandleTouch \/ HandleShutdown \/ HandleFatalError \/ Drop
    \/ SetupNavigation \/ StartSetup \/ StorageProgress \/ StorageSetupComplete
    \/ WatermarkConfigChecked \/ SetupFailed \/ FirstPinEntered \/ PinMismatch
    \/ SetupPinConfirm \/ KeyGenSuccess
    \/ PinEntered \/ PinVerified \/ PinVerifyProgress
    \/ AcknowledgeMigrationNotice \/ PinVerificationFailed
    \/ InvalidPinEntered \/ EnterPin \/ DeviceLocked
    \/ Navigation \/ KeysDecrypted \/ ActivateScreensaver
    \/ DeactivateScreensaver \/ WatermarkAlert \/ UnknownKeyRequested
    \/ UnknownKeyDismissed \/ UpdateWatermarkToLevel \/ ToMenu \/ RequestShutdown

-----------------------------------------------------------------------------
(* The other threads.                                                       *)

Send(e) == queue' = Append(queue, e)
OnlyThreads == UNCHANGED <<state, pageVars, saverVars, pinVars, alertVars,
                           signerVars, touches>>

(* setup_storage up to the new partitions: the kernel accepts them once.    *)
StorageCreate ==
    /\ Running /\ storing["create"] > 0
    /\ \/ /\ parts = "none"
          /\ parts' = "made"
          /\ storing' = [storing EXCEPT !["create"] = @ - 1, !["format"] = @ + 1]
          /\ Send(E("StorageProgress"))
       \/ /\ storing' = [storing EXCEPT !["create"] = @ - 1]
          /\ Send(E("StorageSetupFailed"))
          /\ UNCHANGED parts
    /\ OnlyThreads /\ UNCHANGED <<generating, verifying, keys, marker, config>>

(* ... and from there to the mounted file systems, which start empty.       *)
StorageFormat ==
    /\ Running /\ storing["format"] > 0
    /\ storing' = [storing EXCEPT !["format"] = @ - 1]
    /\ \/ parts' = "mounted" /\ Send(E("StorageSetupComplete"))
       \/ Send(E("StorageSetupFailed")) /\ UNCHANGED parts
    /\ keys' = FALSE /\ marker' = FALSE
    /\ OnlyThreads /\ UNCHANGED <<generating, verifying, config>>

(* generate_and_encrypt_keys may fail before or after the keys are on disk. *)
Keygen ==
    /\ Running /\ generating > 0
    /\ generating' = generating - 1
    /\ \/ keys' = TRUE /\ Send(E("KeyGenSuccess"))
       \/ keys' \in {keys, TRUE} /\ Send(E("KeyGenFailed"))
    /\ OnlyThreads /\ UNCHANGED <<storing, verifying, parts, marker, config>>

(* decrypt_secret_keys: the right PIN may start an upgrade of the key file, *)
(* whose outcome comes later; any check may fail.                           *)
VerifyPin(p) ==
    /\ Running /\ verifying[p] > 0
    /\ \/ /\ p = RightPin
          /\ verifying' = [verifying EXCEPT ![p] = @ - 1, !["upgrading"] = @ + 1]
          /\ Send(E("PinVerifyProgress"))
       \/ /\ verifying' = [verifying EXCEPT ![p] = @ - 1]
          /\ \/ /\ p = RightPin
                /\ \E m \in {"none", "promoted", "notice"} : Send(Ev("PinVerified", m))
             \/ /\ p = "upgrading"
                /\ \E m \in {"staged", "notice"} : Send(Ev("PinVerified", m))
             \/ Send(E("PinVerificationFailed"))
    /\ OnlyThreads /\ UNCHANGED <<storing, generating, card>>

Worker == StorageCreate \/ StorageFormat \/ Keygen \/ \E p \in Checks : VerifyPin(p)

(* What arrives behind an event that ends the process is never handled.     *)
Room == /\ Running /\ Len(queue) < (IF marker THEN MaxQueue ELSE SetupQueue)
        /\ \A i \in DOMAIN queue : queue[i].kind \notin {"Shutdown", "FatalError"}
NoThread == UNCHANGED <<state, pageVars, pinVars, alertVars, signerVars, threads, card>>

Touch ==
    /\ Room /\ touches < (IF marker THEN MaxTouches ELSE SetupTouches)
    /\ touches' = touches + 1
    /\ Send(E("Touch"))
    /\ NoThread /\ UNCHANGED saverVars

(* What a touch causes is handled within the minute its reset starts.       *)
Caused == {"ShowMenu", "ShowInfo", "ShowAbout", "ShowGreeting", "ShowImage",
           "RequestShutdown", "UnknownKeyDismissed", "DialogDismissed",
           "UpdateWatermarkToLevel", "WatermarkUpdateSuccess"}

(* screensaver_timer: a minute without a reset, then it waits for one.      *)
TimerFire ==
    /\ Room /\ timer = "armed" /\ ~ reset
    /\ \A i \in DOMAIN queue : queue[i].kind \notin Caused
    /\ Send(E("ActivateScreensaver"))
    /\ timer' = "parked"
    /\ NoThread /\ UNCHANGED <<screensaver, reset, touches>>

TimerReset ==
    /\ Running /\ reset
    /\ reset' = FALSE /\ timer' = "armed"
    /\ NoThread /\ UNCHANGED <<queue, screensaver, touches>>

(* The signer's callbacks, report_signer_failure and the signal handler.    *)
SignerRequest ==
    /\ Room /\ serving
    /\ \/ Send(E("WatermarkAlert"))
       \/ \E k \in Pkhs : Send(Ev("UnknownKeyRequested", k))
       \/ Send(E("FatalError"))
    /\ NoThread /\ UNCHANGED <<saverVars, touches>>

Interrupt == Room /\ Send(E("Shutdown")) /\ NoThread /\ UNCHANGED <<saverVars, touches>>

(* Power is lost or cycled; the host may stage a config before it is back.  *)
PowerCycle ==
    /\ config' \in {config, "present"}
    /\ UNCHANGED <<parts, keys, marker>>
    /\ state' = BootState(keys, marker, parts)
    /\ page' = FirstPage(state') /\ saved' = page'
    /\ queue' = <<>> /\ screensaver' = FALSE /\ timer' = "armed" /\ reset' = FALSE
    /\ typed' = NoPin /\ first' = None /\ failed' = 0 /\ lockout' = FALSE
    /\ known' = {} /\ overflow' = FALSE /\ active' = FALSE
    /\ manager' = FALSE /\ serving' = FALSE
    /\ storing' = [s \in {"create", "format"} |-> 0] /\ generating' = 0
    /\ verifying' = [p \in Checks |-> 0]
    /\ touches' = 0

Next == HandleEvent \/ Worker \/ Touch \/ TimerFire \/ TimerReset
          \/ SignerRequest \/ Interrupt \/ PowerCycle

Spec == Init /\ [][Next]_vars

-----------------------------------------------------------------------------
Queued(kind) == {i \in DOMAIN queue : queue[i].kind = kind}

(* A PIN is taken for new keys, and keys are generated, on a card whose     *)
(* partitions are mounted, that was never set up, and for which a floor is  *)
(* staged: no order of taps, worker results and power losses gets past      *)
(* verify_partitions and the config gate.                                   *)
KeygenIsSafe ==
    state = "setup" /\ (first # None \/ generating > 0) =>
        parts = "mounted" /\ config = "present" /\ ~ marker

(* While keys are generated and once they are on the card, no thread is     *)
(* left that would format the partition they go to, whatever was tapped     *)
(* twice: the kernel takes the new partition table only once.               *)
SetupProtectsKeys ==
    keys \/ generating > 0 => parts = "mounted" /\ storing["format"] = 0

(* First-boot setup is safe: what it generates keys on, and that no disk    *)
(* preparation is left running under them.                                  *)
SetupIsSafe == KeygenIsSafe /\ SetupProtectsKeys

(* InitWatermark and StartSigner pair up: while KeysDecrypted is on its     *)
(* way, it is the only one, the key manager it will take is there, and the  *)
(* signer has not been started, even with several PIN checks in flight.     *)
SignerStartsOnce ==
    Queued("KeysDecrypted") # {} =>
        manager /\ ~ serving /\ Cardinality(Queued("KeysDecrypted")) = 1

(* The screensaver thread is never left parked: once the signer serves and  *)
(* a page is up that may sleep, it is armed, about to be, or its event is   *)
(* still in the channel.                                                    *)
TimerNeverStuck ==
    state = "active" /\ serving /\ ~ screensaver /\ ~ Modal(page) /\ timer = "parked"
        => reset \/ Queued("ActivateScreensaver") # {}

(* What a worker sends when it is done, and what is made of it. *)
Answers == {"StorageSetupComplete", "StorageSetupFailed", "WatermarkConfigChecked",
            "KeyGenSuccess", "KeyGenFailed", "PinVerified",
            "PinVerificationFailed", "InvalidPinEntered", "DeviceLocked",
            "KeysDecrypted"}

(* A progress page, on which no touch does anything, is up only while what  *)
(* will replace it is on its way: a worker that has yet to answer, or an    *)
(* answer in the channel.  No answer is dropped, and no lockout stays       *)
(* unannounced, on a device that then waits for ever.                       *)
NeverHangs ==
    Running /\ page.kind \in {"busy", "storing"} =>
        \/ \E kind \in Answers : Queued(kind) # {}
        \/ generating > 0
        \/ \E s \in DOMAIN storing : storing[s] > 0
        \/ \E p \in Checks : verifying[p] > 0
=============================================================================
