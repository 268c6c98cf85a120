----------------------------- MODULE ToastStack -----------------------------
(***************************************************************************)
(* The toast stack (toast/toast-internal.ts): HellToastStack, which keeps  *)
(* the toasts and their timers, and HellToastStackRenderer, which expands  *)
(* the stack and pauses the timers while it is hovered or holds focus.     *)
(*                                                                         *)
(* Toasts are their ids.  create appends, update and dismiss replace a     *)
(* toast in place and the exit timer filters it out, so the list is always *)
(* in the order of the ids and a set of phases stands for it.              *)
(*                                                                         *)
(* Time passes in ticks.  A timer may fire at any moment once it is due,   *)
(* never before; pause and resume read the clock, so a timer keeps what    *)
(* remains of it and how long it has run.                                  *)
(***************************************************************************)
EXTENDS Integers, FiniteSets

CONSTANTS
  MaxToasts,       \* bound on the toasts created
  Duration,        \* auto-dismiss durations; 0 keeps the toast
  Control,         \* what a toast may show to focus: action, close, a template's
  ExitTicks,       \* EXIT_MS
  CollapseTicks,   \* the delay of onLeave
  MaxUpdates       \* bound on update calls

ASSUME ToastAssumption ==
  /\ MaxToasts \in Nat /\ Duration \subseteq Nat /\ MaxUpdates \in Nat
  /\ ExitTicks \in Nat \ {0} /\ CollapseTicks \in Nat \ {0}

Toast == 1 .. MaxToasts
Off == -1                  \* no such timer
Keep == -1                 \* a patch that leaves the duration alone

\* What can hold the focus: a toast's controls, the region around the stack, its
\* viewport while that scrolls, and the Dismiss-all button.
Element ==
  [toast : Toast, part : Control]
    \cup [toast : {0}, part : {"region", "viewport", "dismissAll"}]
Own(c) == [toast |-> 0, part |-> c]
None == Own("none")        \* nothing in the region has the focus

VARIABLES
  phase,      \* per toast: unborn, live, removing (exit animation), gone
  duration,   \* per toast
  controls,   \* per toast: the controls its action, dismissible, template give it
  timer,      \* per toast: state off, running or paused, remaining, elapsed
  exitTimer,  \* per toast: ticks to its removal, or Off
  paused,     \* timersPaused
  disposed,   \* the service has been destroyed
  expanded,   \* the renderer's host state
  collapse,   \* collapseHandle: ticks to go, or Off
  dirty,      \* a signal the renderer reads has changed since it rendered
  snapshot,   \* exitSnapshot: the front distance of removing toasts, or Off
  drawn,      \* the elements of the last render that can hold the focus
  hovered,    \* environment: the pointer is over the region
  focused,    \* environment: the element that has the focus, or None
  updates,    \* number of patches, bounded by MaxUpdates
  shown,      \* history: unpaused ticks since the countdown was started
  place       \* history: how many toasts are drawn in front of a toast

stack == <<phase, duration, controls, timer, exitTimer, paused, disposed, updates>>
renderer == <<expanded, collapse, dirty, snapshot, drawn>>
environment == <<hovered, focused>>
history == <<shown, place>>
vars == <<stack, renderer, environment, history>>

NoTimer == [state |-> "off", remaining |-> 0, elapsed |-> 0]
Running(n) == [state |-> "running", remaining |-> n, elapsed |-> 0]
Paused(n) == [state |-> "paused", remaining |-> n, elapsed |-> 0]

Listed == {t \in Toast : phase[t] \in {"live", "removing"}}
Live == {t \in Toast : phase[t] = "live"}

\* What remains of a timer when the clock is read: Math.max(0, ...).
Rest(tm) ==
  IF tm.state = "running" /\ tm.elapsed < tm.remaining
    THEN tm.remaining - tm.elapsed
    ELSE IF tm.state = "running" THEN 0 ELSE tm.remaining

TypeOK ==
  /\ phase \in [Toast -> {"unborn", "live", "removing", "gone"}]
  /\ duration \in [Toast -> Duration \cup {0}]
  /\ controls \in [Toast -> SUBSET Control]
  /\ timer \in [Toast -> [state : {"off", "running", "paused"},
                          remaining : Nat, elapsed : Nat]]
  /\ shown \in [Toast -> Nat]
  /\ \A t \in Toast :
       /\ timer[t].elapsed <= timer[t].remaining
       /\ timer[t].remaining <= duration[t]
       /\ shown[t] <= duration[t]
  /\ exitTimer \in [Toast -> Off .. ExitTicks]
  /\ collapse \in Off .. CollapseTicks
  /\ snapshot \in [Toast -> Nat \cup {Off}]
  /\ place \in [Toast -> Nat]
  /\ {paused, disposed, expanded, dirty, hovered} \subseteq BOOLEAN
  /\ drawn \subseteq Element
  /\ focused \in Element \cup {None}
  /\ updates \in 0 .. MaxUpdates

Init ==
  /\ phase = [t \in Toast |-> "unborn"]
  /\ duration = [t \in Toast |-> 0]
  /\ controls = [t \in Toast |-> {}]
  /\ timer = [t \in Toast |-> NoTimer]
  /\ exitTimer = [t \in Toast |-> Off]
  /\ paused = FALSE
  /\ disposed = FALSE
  /\ updates = 0
  /\ expanded = FALSE
  /\ collapse = Off
  /\ dirty = TRUE
  /\ snapshot = [t \in Toast |-> Off]
  /\ drawn = {}
  /\ hovered = FALSE
  /\ focused = None
  /\ shown = [t \in Toast |-> 0]
  /\ place = [t \in Toast |-> 0]

-----------------------------------------------------------------------------
(* The stack. *)

\* scheduleAutoDismiss: what the timer of a toast becomes.
Scheduled(d) ==
  IF d <= 0 THEN NoTimer ELSE IF paused THEN Paused(d) ELSE Running(d)

\* create: ids grow, the toast is appended and its countdown starts.
Create(t, d, cs) ==
  /\ phase[t] = "unborn" /\ \A u \in Toast : u < t => phase[u] # "unborn"
  /\ phase' = [phase EXCEPT ![t] = "live"]
  /\ duration' = [duration EXCEPT ![t] = d]
  /\ controls' = [controls EXCEPT ![t] = cs]
  /\ timer' = [timer EXCEPT ![t] = Scheduled(d)]
  /\ dirty' = TRUE
  /\ place' = [u \in Toast |-> IF u \in Listed /\ snapshot[u] = Off
                              THEN place[u] + 1 ELSE place[u]]
  /\ UNCHANGED <<exitTimer, paused, disposed, updates, expanded, collapse,
                 snapshot, drawn, environment, shown>>

\* update: a patch of the duration starts the countdown anew; one of the action,
\* dismissible or template changes the toast's controls.
Update(t, d, cs) ==
  /\ phase[t] = "live" /\ updates < MaxUpdates
  /\ updates' = updates + 1
  /\ controls' = [controls EXCEPT ![t] = cs]
  /\ IF d = Keep
       THEN UNCHANGED <<duration, timer, shown>>
       ELSE /\ duration' = [duration EXCEPT ![t] = d]
            /\ timer' = [timer EXCEPT ![t] = Scheduled(d)]
            /\ shown' = [shown EXCEPT ![t] = 0]
  /\ dirty' = TRUE
  /\ UNCHANGED <<phase, exitTimer, paused, disposed, expanded, collapse,
                 snapshot, drawn, environment, place>>

\* dismiss, of each live toast of a set in the order of the list.
DismissAll(going) ==
  /\ phase' = [t \in Toast |-> IF t \in going THEN "removing" ELSE phase[t]]
  /\ timer' = [t \in Toast |-> IF t \in going THEN NoTimer ELSE timer[t]]
  /\ exitTimer' = [t \in Toast |-> IF t \in going THEN ExitTicks ELSE exitTimer[t]]

\* A consumer or the close button dismisses one toast, or all of them.
Dismiss(going) ==
  /\ going # {} /\ going \subseteq Live
  /\ DismissAll(going)
  /\ dirty' = TRUE
  /\ UNCHANGED <<duration, controls, paused, disposed, updates, expanded,
                 collapse, snapshot, drawn, environment, history>>

\* The auto-dismiss timer fires.
Expire(t) ==
  /\ timer[t].state = "running" /\ timer[t].elapsed >= timer[t].remaining
  /\ DismissAll({t})
  /\ dirty' = TRUE
  /\ UNCHANGED <<duration, controls, paused, disposed, updates, expanded,
                 collapse, snapshot, drawn, environment, history>>

\* The exit timer fires and the toast leaves the list.
Remove(t) ==
  /\ exitTimer[t] = 0
  /\ phase' = [phase EXCEPT ![t] = "gone"]
  /\ exitTimer' = [exitTimer EXCEPT ![t] = Off]
  /\ dirty' = TRUE
  /\ UNCHANGED <<duration, controls, timer, paused, disposed, updates, expanded,
                 collapse, snapshot, drawn, environment, history>>

\* Fault: pause forgets how long the timers have run.
Pause_WholeRemaining ==
  /\ paused' = TRUE
  /\ timer' = [t \in Toast |-> IF timer[t].state = "running"
                                 THEN Paused(timer[t].remaining) ELSE timer[t]]

\* pause: every running timer keeps what remains of it.
Pause ==
  /\ paused' = TRUE
  /\ timer' = [t \in Toast |-> IF timer[t].state = "running"
                                 THEN Paused(Rest(timer[t])) ELSE timer[t]]

\* Fault: a timer that ran out before the pause stays paused.
Resume_SkipsExpired ==
  /\ paused' = FALSE
  /\ timer' = [t \in Toast |->
                 IF timer[t].state = "paused" /\ timer[t].remaining > 0
                   THEN Running(timer[t].remaining) ELSE timer[t]]
  /\ UNCHANGED <<phase, exitTimer>>

\* resume: the timers run on, and those that had run out dismiss at once.
Resume ==
  LET over == {t \in Toast : timer[t].state = "paused" /\ timer[t].remaining = 0}
  IN  /\ paused' = FALSE
      /\ phase' = [t \in Toast |-> IF t \in over THEN "removing" ELSE phase[t]]
      /\ exitTimer' = [t \in Toast |-> IF t \in over THEN ExitTicks ELSE exitTimer[t]]
      /\ timer' = [t \in Toast |->
                     IF t \in over THEN NoTimer
                     ELSE IF timer[t].state = "paused" THEN Running(timer[t].remaining)
                     ELSE timer[t]]

\* The service is destroyed: no timer survives, the list stays.
Destroy ==
  /\ ~disposed
  /\ disposed' = TRUE
  /\ timer' = [t \in Toast |-> NoTimer]
  /\ exitTimer' = [t \in Toast |-> Off]
  /\ UNCHANGED <<phase, duration, controls, paused, updates, renderer, environment,
                 history>>

-----------------------------------------------------------------------------
(* The renderer. *)

\* hellToastFrontDistance of a live toast.
FrontDistance(t) == Cardinality({u \in Live : u > t})

\* hellToastSnapshotExits: list.length - 1 - i for a toast that starts to exit.
SnapshotExits ==
  [t \in Toast |->
     IF phase[t] # "removing" THEN Off
     ELSE IF snapshot[t] # Off THEN snapshot[t]
     ELSE Cardinality({u \in Listed : u > t})]

\* onEnter: the pointer comes, or the focus, from outside or from another element.
OnEnter ==
  /\ collapse' = Off
  /\ expanded' = TRUE
  /\ IF paused THEN UNCHANGED <<paused, timer>> ELSE Pause

\* The region is there while the last render drew a toast.
Enter ==
  /\ ~hovered /\ Own("region") \in drawn
  /\ hovered' = TRUE
  /\ OnEnter
  /\ UNCHANGED <<phase, duration, controls, exitTimer, disposed, updates, dirty,
                 snapshot, drawn, focused, history>>

FocusIn(e) ==
  /\ focused # e /\ e \in drawn
  /\ focused' = e
  /\ OnEnter
  /\ UNCHANGED <<phase, duration, controls, exitTimer, disposed, updates, dirty,
                 snapshot, drawn, hovered, history>>

\* onLeave, from mouseleave or from a focusout that leaves the region.
Leave ==
  /\ hovered
  /\ hovered' = FALSE
  /\ collapse' = CollapseTicks
  /\ UNCHANGED <<stack, expanded, dirty, snapshot, drawn, focused, history>>

\* Fault: a focusout is taken for a move within the stack.
FocusOut_Inside ==
  /\ focused # None
  /\ focused' = None
  /\ UNCHANGED <<stack, renderer, hovered, history>>

\* onFocusOut, unless the focus moves to another element of the host (FocusIn).
FocusOut ==
  /\ focused # None
  /\ focused' = None
  /\ collapse' = CollapseTicks
  /\ UNCHANGED <<stack, expanded, dirty, snapshot, drawn, hovered, history>>

\* Fault: the delayed collapse does not look at the pointer again.
CollapseFires_Blind ==
  /\ collapse = 0
  /\ collapse' = Off
  /\ IF focused # None
       THEN UNCHANGED <<stack, expanded>>
       ELSE /\ expanded' = FALSE
            /\ IF paused THEN Resume ELSE UNCHANGED <<paused, timer, phase, exitTimer>>
            /\ UNCHANGED <<duration, controls, disposed, updates>>
  /\ dirty' = (dirty \/ phase' # phase)
  /\ UNCHANGED <<snapshot, drawn, environment, history>>

\* The collapse timer of onLeave fires: nothing happens if the stack is held
\* again, else collapseStack.
CollapseFires ==
  /\ collapse = 0
  /\ collapse' = Off
  /\ IF hovered \/ focused # None
       THEN UNCHANGED <<stack, expanded>>
       ELSE /\ expanded' = FALSE
            /\ IF paused THEN Resume ELSE UNCHANGED <<paused, timer, phase, exitTimer>>
            /\ UNCHANGED <<duration, controls, disposed, updates>>
  /\ dirty' = (dirty \/ phase' # phase)
  /\ UNCHANGED <<snapshot, drawn, environment, history>>

\* The renderer's reaction to an empty list.
EmptyResumes ==
  IF paused THEN Resume ELSE UNCHANGED <<paused, timer, phase, exitTimer>>

\* The elements the template renders that can hold the focus.  Whether the
\* viewport scrolls depends on heights the model leaves open.
Elements(scrollable) ==
  {e \in Element :
     \/ e.toast \in Listed /\ e.part \in controls[e.toast]
     \/ e = Own("region") /\ Listed # {}
     \/ e = Own("viewport") /\ Listed # {} /\ scrollable
     \/ e = Own("dismissAll") /\ Cardinality(Live) > 1}

\* The ResizeObserver or the viewport's size: a toast has a new height, on which
\* isScrollable depends.
Resize ==
  /\ Listed # {} /\ ~dirty
  /\ dirty' = TRUE
  /\ UNCHANGED <<stack, expanded, collapse, snapshot, drawn, environment, history>>

\* A change detection: the effect runs and the template follows the list.  With
\* an empty list the region is removed, and with it the hover.  The focus goes
\* with the element that has it: some browsers fire focusout then, some do not.
Render(scrollable) ==
  /\ dirty
  /\ dirty' = FALSE
  /\ snapshot' = SnapshotExits
  /\ drawn' = Elements(scrollable)
  /\ place' = [t \in Toast |-> IF t \in Live THEN FrontDistance(t) ELSE place[t]]
  /\ UNCHANGED <<duration, controls, disposed, updates, shown>>
  /\ focused' = IF focused \in drawn' THEN focused ELSE None
  /\ LET quiet == IF Listed = {} THEN Off ELSE collapse
     IN  collapse' \in {quiet} \cup (IF focused' # focused THEN {CollapseTicks} ELSE {})
  /\ IF Listed = {}
       THEN expanded' = FALSE /\ hovered' = FALSE /\ EmptyResumes
       ELSE UNCHANGED <<expanded, hovered, paused, timer, phase, exitTimer>>

-----------------------------------------------------------------------------
\* Time passes for every timer that is not yet due.
Down(n) == IF n > 0 THEN n - 1 ELSE n

Tick ==
  /\ timer' = [t \in Toast |->
                 IF timer[t].state = "running" /\ timer[t].elapsed < timer[t].remaining
                   THEN [timer[t] EXCEPT !.elapsed = @ + 1] ELSE timer[t]]
  /\ shown' = [t \in Toast |->
                 IF phase[t] = "live" /\ ~paused /\ shown[t] < duration[t]
                   THEN shown[t] + 1 ELSE shown[t]]
  /\ exitTimer' = [t \in Toast |-> Down(exitTimer[t])]
  /\ collapse' = Down(collapse)
  /\ UNCHANGED <<phase, duration, controls, paused, disposed, updates, expanded,
                 dirty, snapshot, drawn, environment, place>>

Next ==
  \/ \E t \in Toast, d \in Duration, cs \in SUBSET Control : Create(t, d, cs)
  \/ \E t \in Toast, d \in Duration \cup {Keep}, cs \in SUBSET Control : Update(t, d, cs)
  \/ \E t \in Toast : Dismiss({t}) \/ Expire(t) \/ Remove(t)
  \/ \E e \in Element : FocusIn(e)
  \/ Dismiss(Live)
  \/ Enter \/ Leave \/ FocusOut \/ CollapseFires \/ Resize \/ Tick
  \/ \E scrollable \in BOOLEAN : Render(scrollable)
  \/ Destroy

\* Timers fire and change detection runs; nobody must create, hold or dismiss.
Fairness ==
  /\ \A t \in Toast : WF_vars(Expire(t)) /\ WF_vars(Remove(t))
  /\ WF_vars(CollapseFires) /\ WF_vars(\E s \in BOOLEAN : Render(s))
  /\ WF_vars(Tick)

SafetySpec == Init /\ [][Next]_vars
Spec == SafetySpec /\ Fairness

-----------------------------------------------------------------------------
Held == hovered \/ focused # None

\* Each countdown belongs to a live toast with a duration and each exit timer
\* to a toast in its exit animation: no timer outlives its toast, and no toast
\* is left without the timer that ends it.
TimersMatchToasts ==
  ~disposed =>
    \A t \in Toast :
      /\ timer[t].state # "off" <=> phase[t] = "live" /\ duration[t] > 0
      /\ exitTimer[t] # Off <=> phase[t] = "removing"

\* What remains of a countdown is the duration less the unpaused time since it
\* started, however often the stack was paused, resumed or patched.
CountdownIsExact ==
  \A t \in Toast :
    timer[t].state # "off" => Rest(timer[t]) = duration[t] - shown[t]

\* "Auto-dismiss is paused the whole time the stack is hovered or holds focus".
HeldStackIsPaused == Held => paused /\ expanded

\* Nobody holds the stack, and no event is on its way that would resume it.
Stranded == paused /\ ~Held /\ collapse = Off

\* A stack is left paused for good in one way only: a render takes away the very
\* element that holds the focus, as its toast leaves, a patch drops the control,
\* the last but one toast takes Dismiss all with it or the viewport stops
\* scrolling.  No order of pointer and focus events, late timers, patches and
\* dismissals gets there otherwise.
StrandedByLostFocusOnly ==
  [][~Stranded /\ Stranded' => focused \in drawn \ drawn']_vars

\* A toast with a duration goes, unless somebody holds the stack again and
\* again or it stays stranded.
ToastsExpire ==
  (<>[]~paused /\ []~disposed) =>
    \A t \in Toast : phase[t] = "live" /\ duration[t] > 0 ~>
                       phase[t] = "gone" \/ duration[t] = 0

\* "So exit animations do not jump": a toast exits from where it was drawn.
ExitsKeepPlace ==
  \A t \in Toast : snapshot[t] # Off => snapshot[t] = place[t]
=============================================================================
