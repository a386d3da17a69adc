-------------------------------- MODULE Panel --------------------------------
(***************************************************************************)
(* The e-paper panel under the UI thread: the refresh policy and the SPI   *)
(* driver (libs/epd-2in13-v4), and the render side of the event loop       *)
(* (rpi-signer/src/main.rs, app.rs).                                       *)
(*                                                                         *)
(* A refresh takes the panel a while.  A push that would have to wait for  *)
(* it is either waited for or put off and retried by the loop, and a push  *)
(* that touches none of the pixels in motion is allowed to supersede it.   *)
(* A frame is the set of its black pixels; which page leads where and what *)
(* raises an alert are in App.                                             *)
(***************************************************************************)
EXTENDS Naturals, Sequences

CONSTANTS Pixels,     \* the pixels of the panel
          Pages,      \* pages the operator can open, with "menu" and "alert"
          Frames,     \* what a page, or "saver", draws for a state of the data
          Data,       \* states of the live data
          FullEvery,  \* PARTIALS_BETWEEN_FULLS
          MaxInputs   \* bound on touches, signatures, alerts and timer events

ASSUME FrameAssumption ==
    Frames \in [(Pages \cup {"saver"}) \X Data -> SUBSET Pixels]
ASSUME PageAssumption ==
    /\ {"menu", "alert"} \subseteq Pages
    /\ Pages \cap {"saver", "wake", "rebuild", "drop", "sleep", "clear", "end"} = {}
ASSUME PanelBounds == FullEvery \in Nat /\ MaxInputs \in Nat

VARIABLES queue,            \* the event channel
          todo,             \* effects of the last event still to apply
          place,            \* the loop: "wait", "drain", "flush" or "ended"
          page, saved,      \* the page drawn; App.current_page_spec
          saver,            \* AppState::Active.screensaver_active
          pending,          \* App.pending_render
          data,             \* what the live pages draw
          last, dirty, lastMode,   \* Epd2in13v4
          partials, pushed,        \* Display
          ram, ink, driven,  \* the panel: its RAM, the pixels as they look,
                             \* and those a running refresh moves
          busy, asleep,
          behind,  \* ghost: a page was opened behind the screensaver, and no
                   \* full refresh outside it has reached the panel since
          inputs

loopVars   == <<queue, todo, place, saver>>
pageVars   == <<page, saved, data>>
driverVars == <<last, dirty, lastMode, partials, pushed>>
panelVars  == <<ram, ink, driven, busy, asleep, behind>>
panelAll   == <<loopVars, pageVars, pending, driverVars, panelVars, inputs>>

Renders == {"None", "InPlace", "Transition"}
Event == {"Touch", "Invalidate", "Alert", "Activate", "Deactivate", "Shutdown"}
         \cup Pages
Effect == {"wake", "rebuild", "drop", "sleep", "clear", "end"} \cup Pages
Diff(f, g) == (f \ g) \cup (g \ f)
Drawn(p) == Frames[p, data]

PanelTypeOK ==
    /\ queue \in Seq(Event) /\ todo \in Seq(Effect)
    /\ place \in {"wait", "drain", "flush", "ended"}
    /\ page \in Pages \cup {"saver"} /\ saved \in Pages
    /\ saver \in BOOLEAN /\ pending \in Renders /\ data \in Data
    /\ last \subseteq Pixels /\ dirty \subseteq Pixels
    /\ lastMode \in {"none", "full", "partial"}
    /\ partials \in Nat /\ pushed \in BOOLEAN
    /\ ram \subseteq Pixels /\ ink \subseteq Pixels /\ driven \subseteq Pixels
    /\ busy \in BOOLEAN /\ asleep \in BOOLEAN /\ behind \in BOOLEAN
    /\ inputs \in Nat

(* Epd2in13v4::new and Display::new: the driver takes the panel for white,  *)
(* whatever it was left showing.                                            *)
PanelInit ==
    /\ queue = <<"menu">> /\ todo = <<>> /\ place = "wait"
    /\ page = "menu" /\ saved = "menu" /\ saver = FALSE /\ pending = "None"
    /\ data \in Data
    /\ last = {} /\ dirty = {} /\ lastMode = "none"
    /\ partials = 0 /\ pushed = FALSE
    /\ ram = {} /\ ink = Pixels /\ driven = {} /\ busy = FALSE /\ asleep = FALSE
    /\ behind = FALSE /\ inputs = 0

-----------------------------------------------------------------------------
(* The refresh policy and the driver.                                       *)

(* refresh_policy::decide *)
Decide(f, opportunity) ==
    CASE opportunity = "Forced" \/ ~ pushed -> "full"
      [] opportunity = "Transition" /\ partials >= FullEvery -> "full"
      [] f = last -> "skip"
      [] OTHER -> "partial"

(* Mutant: the dirty pixels alone decide. *)
IgnoresLastMode(mode, line, f) ==
    line /\ (mode = "full" \/ dirty \cap Diff(last, f) # {})

(* Mutant: a partial refresh always supersedes a partial one. *)
IgnoresOverlap(mode, line, f) == line /\ (mode = "full" \/ lastMode # "partial")

(* has_overlap and needs_idle_wait *)
MustWait(mode, line, f) ==
    line /\ \/ mode = "full"
            \/ lastMode # "partial"
            \/ dirty \cap Diff(last, f) # {}

(* What the busy line may read; in deep sleep the code cannot tell. *)
Line == IF asleep THEN BOOLEAN ELSE {busy}

(* The commands of display_with_policy.  The reset pulse of a partial       *)
(* refresh ends a running one and wakes a sleeping panel; a full refresh    *)
(* sends no pulse, and a sleeping panel does not hear it.                   *)
Refresh(f, mode) ==
    IF asleep /\ mode = "full" THEN UNCHANGED panelVars
    ELSE /\ ram' = f /\ busy' = TRUE /\ asleep' = FALSE
         /\ driven' = CASE mode = "full" -> Pixels
                        [] busy -> driven \cup Diff(ram, f)
                        [] OTHER -> Diff(ink, f)
         /\ behind' = (behind /\ (saver \/ mode = "partial"))
         /\ UNCHANGED ink

(* display_with_policy once nothing has to be waited for *)
Display(f, mode, line) ==
    /\ Refresh(f, mode)
    /\ dirty' = (IF line THEN dirty ELSE {}) \cup Diff(last, f)
    /\ last' = f /\ lastMode' = mode
    /\ pushed' = TRUE
    /\ partials' = IF mode = "full" THEN 0 ELSE partials + 1

(* Display::push under WaitPolicy::Block: the thread waits until it can. *)
PushBlocking(f, opportunity) ==
    LET mode == Decide(f, opportunity) IN
    IF mode = "skip" THEN UNCHANGED <<driverVars, panelVars>>
    ELSE \E line \in Line : ~ MustWait(mode, line, f) /\ Display(f, mode, line)

(* ... and under WaitPolicy::Bail; put says what is pending when the panel  *)
(* was busy, else what is pending when it was not.                          *)
PushOrBail(f, opportunity, put, else) ==
    LET mode == Decide(f, opportunity) IN
    IF mode = "skip" THEN UNCHANGED <<driverVars, panelVars>> /\ pending' = else
    ELSE \E line \in Line :
            \/ /\ MustWait(mode, line, f)
               /\ pending' = put /\ UNCHANGED <<driverVars, panelVars>>
            \/ /\ ~ MustWait(mode, line, f)
               /\ Display(f, mode, line) /\ pending' = else

(* The panel finishes a refresh: it shows its RAM. *)
RefreshDone ==
    /\ busy
    /\ ink' = ram /\ busy' = FALSE /\ driven' = {}
    /\ UNCHANGED <<ram, asleep, behind, loopVars, pageVars, pending, driverVars,
                   inputs>>

-----------------------------------------------------------------------------
(* Effects of an event, one a step.                                         *)

Apply(effect) == place # "ended" /\ todo # <<>> /\ Head(todo) = effect
                 /\ todo' = Tail(todo)
KeepLoop == UNCHANGED <<queue, place, saver, inputs>>

(* Mutant: a busy panel drops the transition. *)
TryTransitionForgets(f) == PushOrBail(f, "Transition", pending, pending)

(* try_render_page_transition *)
TryTransition(f) == PushOrBail(f, "Transition", "Transition", pending)

ShowPage(p) ==
    /\ Apply(p)
    /\ page' = p /\ saved' = p
    /\ TryTransition(Drawn(p))
    /\ KeepLoop /\ UNCHANGED data

RebuildSavedPage ==
    /\ Apply("rebuild")
    /\ page' = saved
    /\ TryTransition(Drawn(saved))
    /\ KeepLoop /\ UNCHANGED <<saved, data>>

(* Mutant: a deferred render outlives the screensaver's frame. *)
DropKeepsPending ==
    /\ Apply("drop")
    /\ page' = "saver"
    /\ PushBlocking(Drawn("saver"), "Transition")
    /\ KeepLoop /\ UNCHANGED <<saved, data, pending>>

(* apply_drop_current_page *)
DropCurrentPage ==
    /\ Apply("drop")
    /\ pending' = "None"
    /\ page' = "saver"
    /\ PushBlocking(Drawn("saver"), "Transition")
    /\ KeepLoop /\ UNCHANGED <<saved, data>>

(* Epd2in13v4::sleep waits for the panel; touches still arrive. *)
SleepDisplay ==
    /\ Apply("sleep")
    /\ ~ busy
    /\ asleep' = TRUE
    /\ KeepLoop /\ UNCHANGED <<pageVars, pending, driverVars, ram, ink, driven, busy,
                               behind>>

(* Epd2in13v4::wake: the hardware reset ends whatever the panel was doing.  *)
WakeDisplay ==
    /\ Apply("wake")
    /\ asleep' = FALSE /\ busy' = FALSE /\ driven' = {}
    /\ lastMode' = "none"
    /\ KeepLoop /\ UNCHANGED <<pageVars, pending, last, dirty, partials, pushed,
                               ram, ink, behind>>

ClearDisplay ==
    /\ Apply("clear")
    /\ PushBlocking({}, "Forced")
    /\ KeepLoop /\ UNCHANGED <<pageVars, pending>>

EndLoop ==
    /\ Apply("end")
    /\ place' = "ended"
    /\ UNCHANGED <<queue, saver, inputs, pageVars, pending, driverVars, panelVars>>

ApplyEffect ==
    \/ \E p \in Pages : ShowPage(p)
    \/ RebuildSavedPage \/ DropCurrentPage \/ SleepDisplay \/ WakeDisplay
    \/ ClearDisplay \/ EndLoop

-----------------------------------------------------------------------------
(* The event loop.                                                          *)

Modal(p) == p = "alert"

(* The loop takes an event, and goes on until the channel is empty. *)
Handle(event) ==
    /\ place \in {"wait", "drain"} /\ todo = <<>>
    /\ queue # <<>> /\ Head(queue) = event
    /\ place' = "drain"
Took == queue' = Tail(queue)
KeepPanel == UNCHANGED <<pageVars, driverVars, panelVars, inputs>>

HandleTouch ==
    /\ Handle("Touch")
    /\ IF saver THEN queue' = Append(Tail(queue), "Deactivate")
       ELSE \/ \E p \in Pages \ {page, "alert"} : queue' = Append(Tail(queue), p)
            \/ Took
    /\ KeepPanel /\ UNCHANGED <<todo, saver, pending>>

HandleInvalidate ==
    /\ Handle("Invalidate")
    /\ pending' = IF pending = "Transition" THEN "Transition" ELSE "InPlace"
    /\ Took /\ KeepPanel /\ UNCHANGED <<todo, saver>>

(* handle_active: a page opens unless a dialog is up; dismissing one and    *)
(* leaving for the menu are not guarded.                                    *)
HandleOpen ==
    \E p \in Pages :
        /\ Handle(p)
        /\ todo' = IF Modal(page) /\ p # "menu" THEN <<>> ELSE <<p>>
        /\ behind' = (behind \/ (saver /\ todo' # <<>>))
        /\ Took /\ UNCHANGED <<saver, pending, pageVars, driverVars, ram, ink, driven,
                               busy, asleep, inputs>>

WakeEffects == IF saver THEN <<"wake", "rebuild">> ELSE <<>>

HandleAlert ==
    /\ Handle("Alert")
    /\ \/ Modal(page) /\ UNCHANGED <<todo, saver>>
       \/ ~ Modal(page) /\ saver' = FALSE /\ todo' = WakeEffects \o <<"alert">>
    /\ Took /\ KeepPanel /\ UNCHANGED pending

HandleActivate ==
    /\ Handle("Activate")
    /\ \/ (Modal(page) \/ saver) /\ UNCHANGED <<todo, saver>>
       \/ ~ (Modal(page) \/ saver) /\ saver' = TRUE /\ todo' = <<"drop", "sleep">>
    /\ Took /\ KeepPanel /\ UNCHANGED pending

HandleDeactivate ==
    /\ Handle("Deactivate")
    /\ saver' = FALSE /\ todo' = WakeEffects
    /\ Took /\ KeepPanel /\ UNCHANGED pending

HandleShutdown ==
    /\ Handle("Shutdown")
    /\ todo' = (IF saver THEN <<"wake">> ELSE <<>>) \o <<"clear", "sleep", "end">>
    /\ Took /\ KeepPanel /\ UNCHANGED <<saver, pending>>

HandleEvent ==
    \/ HandleTouch \/ HandleInvalidate \/ HandleOpen \/ HandleAlert
    \/ HandleActivate \/ HandleDeactivate \/ HandleShutdown

(* Mutant: an in-place frame the panel was too busy for is forgotten. *)
FlushForgets(kind) ==
    PushOrBail(Drawn(page), kind, IF kind = "InPlace" THEN "None" ELSE kind, "None")

(* What take() returned is pushed; a busy panel puts it back. *)
FlushRender(kind) == PushOrBail(Drawn(page), kind, kind, "None")

(* The end of a turn of the loop: should_flush_repaint, with what the batch *)
(* left behind.                                                             *)
Flush ==
    /\ place = "flush" \/ (place = "drain" /\ queue = <<>>)
    /\ todo = <<>>
    /\ place' = "wait"
    /\ \/ /\ pending = "None" \/ (pending = "InPlace" /\ saver)
          /\ pending' = "None" /\ UNCHANGED <<driverVars, panelVars>>
       \/ /\ pending # "None" /\ ~ (pending = "InPlace" /\ saver)
          /\ FlushRender(pending)
    /\ UNCHANGED <<queue, todo, saver, pageVars, inputs>>

(* The retry poll. *)
Timeout ==
    /\ place = "wait" /\ queue = <<>> /\ todo = <<>> /\ pending # "None"
    /\ place' = "flush"
    /\ UNCHANGED <<queue, todo, saver, pageVars, pending, driverVars, panelVars,
                   inputs>>

(* The threads that send: touch, screensaver timer, signer and signals. *)
Send(e) ==
    /\ place # "ended" /\ inputs < MaxInputs
    /\ inputs' = inputs + 1 /\ queue' = Append(queue, e)
    /\ UNCHANGED <<todo, place, saver, pending, page, saved, driverVars, panelVars>>

Signed == Send("Invalidate") /\ data' \in Data \ {data}
Outside == \E e \in {"Touch", "Alert", "Activate", "Shutdown"} :
               Send(e) /\ UNCHANGED data

PanelNext == ApplyEffect \/ HandleEvent \/ Flush \/ Timeout \/ RefreshDone
                \/ Signed \/ Outside

PanelSpec == PanelInit /\ [][PanelNext]_panelAll
                /\ WF_panelAll(ApplyEffect \/ HandleEvent \/ Flush \/ Timeout)
                /\ WF_panelAll(RefreshDone)

-----------------------------------------------------------------------------
(* No push turns a pixel round while the panel is still moving it.  The     *)
(* driver only knows its own dirty mask and the mode of its last push; this *)
(* is about the pixels in motion (needs_idle_wait, has_overlap).  A page    *)
(* opened behind the screensaver is drawn on a panel that sleeps, whose     *)
(* state the mask does not follow: that case is left out.                   *)
NoPixelReversed ==
    [][busy /\ busy' /\ ~ behind => Diff(ram, ram') \cap driven = {}]_panelAll

(* A panel that sleeps behind the screensaver's logo is left alone until    *)
(* something opens a page or wakes it (apply_drop_current_page): no render  *)
(* that was put off earlier lands on it, nor a full refresh that falls due. *)
SleepsUndisturbed ==
    [][asleep /\ page = "saver" /\ todo = <<>> =>
         UNCHANGED <<driverVars, ram, asleep>>]_panelAll

(* While the display is in use, the page that is up reaches the panel: no   *)
(* order of page changes, repaints, alerts and refreshes loses the last     *)
(* frame (PendingRender, the retry poll).  A page opened behind the         *)
(* screensaver may be lost to a sleeping panel, until the next full refresh.*)
PanelCatchesUp ==
    []<>(queue # <<>> \/ saver \/ place = "ended" \/ behind \/ ink = Drawn(page))
=============================================================================
