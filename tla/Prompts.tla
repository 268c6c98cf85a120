------------------------------ MODULE Prompts ------------------------------
(***************************************************************************)
(* The prompts of confirm/confirm.ts.  Every caller of injectHellPrompt    *)
(* shares two root services: HellPromptModalQueue, which presents one      *)
(* modal dialog at a time and makes the others wait, and                   *)
(* HellAnchoredPromptManager, which lets a new anchored prompt displace    *)
(* the one on screen.  A request is a promise; it may be answered by a     *)
(* button, by Escape or a click outside, by being displaced, or by the     *)
(* destruction of the component that asked.                                *)
(*                                                                         *)
(* A request is a number, in the order of the asking.  The code of one     *)
(* turn is synchronous: `pumping' says that pump() is on the stack, and    *)
(* `pending' holds the destroy callbacks that Angular has still to call    *)
(* for the caller it is tearing down; nothing else runs until both are     *)
(* done.  The dialog reference and the overlay of ng-primitives are        *)
(* external: `view' is what they show of a request.                        *)
(***************************************************************************)
EXTENDS Naturals, Sequences

CONSTANTS Callers,      \* components that hold a HellPrompt
          MaxRequests,  \* bound on the number of requests
          Actions,      \* values of the buttons
          Delayed,      \* the button value that may carry a countdown
          Dismissed,    \* the value of a dismissal
          Unset,        \* no value yet
          NoCaller      \* owner of a request that was not made

ASSUME PromptsAssumption ==
  /\ MaxRequests \in Nat
  /\ Delayed \in Actions
  /\ Dismissed # Unset
  /\ NoCaller \notin Callers
  /\ Unset \notin Actions

Requests == 1..MaxRequests
Answers == Actions \cup {Dismissed}

VARIABLES
  asked,      \* number of requests made
  owner,      \* the caller of each request: callerDestroyRef
  anchored,   \* the requests made with an anchor
  gated,      \* requests whose Delayed button still counts down
  destroyed,  \* callers whose DestroyRef is destroyed
  pending,    \* destroy callbacks still to be called in this turn
  watched,    \* requests with a destroy callback: unregisterCallerDestroy
  pumping,    \* pump() is on the stack
  queue,      \* modal requests, the presented one first
  openRef,    \* the request whose dialog is presented, or 0
  hiding,     \* requests whose hideImmediate() promise is pending
  current,    \* the anchored request on screen, or 0
  view,       \* what ng-primitives shows of each request
  closed,     \* closeValue once closeStarted; `value' of an anchored prompt
  answer,     \* what the promise resolved with: settled once it is set
  restore,    \* requests with restoreFocusOnSettle
  refocused,  \* requests whose opener was given the focus back
  picked      \* history: the answer the user's own actions call for

vars == <<asked, owner, anchored, gated, destroyed, pending, watched, pumping,
          queue, openRef, hiding, current, view, closed, answer, restore,
          refocused, picked>>

Init ==
  /\ asked = 0
  /\ owner = [r \in Requests |-> NoCaller]
  /\ anchored = {} /\ gated = {}
  /\ destroyed = {} /\ pending = {} /\ watched = {}
  /\ pumping = FALSE
  /\ queue = <<>> /\ openRef = 0 /\ hiding = {} /\ current = 0
  /\ view = [r \in Requests |-> "none"]
  /\ closed = [r \in Requests |-> Unset]
  /\ answer = [r \in Requests |-> Unset]
  /\ restore = {} /\ refocused = {}
  /\ picked = [r \in Requests |-> Dismissed]

Quiet == pending = {} /\ ~pumping

Settled(r) == answer[r] # Unset

(* The sequence without the element r, if it is there: splice(indexOf(r), 1). *)
Without(q, r) ==
  IF \E k \in DOMAIN q : q[k] = r
  THEN LET k == CHOOSE k \in DOMAIN q : q[k] = r
       IN  [i \in 1..(Len(q) - 1) |-> IF i < k THEN q[i] ELSE q[i + 1]]
  ELSE q

-----------------------------------------------------------------------------
(* The modal queue *)

(* settleEntry, for an entry that is not settled. *)
SettleEntry(r, value) ==
  /\ answer' = [answer EXCEPT ![r] = value]
  /\ watched' = watched \ {r}
  /\ queue' = Without(queue, r)
  /\ refocused' = refocused \cup ({r} \cap restore')

EntryUnchanged == UNCHANGED <<answer, watched, queue, refocused>>

(* Fault: the dialog on screen is forgotten whichever one ended. *)
FinishPresentedEntry_AnyRef(r, value) ==
  /\ openRef' = 0
  /\ IF Settled(r) THEN EntryUnchanged ELSE SettleEntry(r, value)
  /\ pumping' = TRUE

(* finishPresentedEntry: forget the dialog, settle, serve the next.  Both *)
(* the dialog's afterClosed and the promise of hideImmediate come here.   *)
FinishPresentedEntry(r, value) ==
  /\ openRef' = IF openRef = r THEN 0 ELSE openRef
  /\ IF Settled(r) THEN EntryUnchanged ELSE SettleEntry(r, value)
  /\ pumping' = TRUE

Ask(c) ==
  /\ asked < MaxRequests
  /\ asked' = asked + 1
  /\ owner' = [owner EXCEPT ![asked + 1] = c]

(* A caller that is already destroyed gets the dismissal at once. *)
AskTooLate(c) ==
  /\ Quiet
  /\ c \in destroyed
  /\ Ask(c)
  /\ answer' = [answer EXCEPT ![asked + 1] = Dismissed]
  /\ UNCHANGED <<anchored, gated, destroyed, pending, watched, pumping, queue,
                 openRef, hiding, current, view, closed, restore, refocused,
                 picked>>

(* HellPromptModalQueue.request *)
AskModal(c, delays) ==
  /\ Quiet
  /\ c \notin destroyed
  /\ Ask(c)
  /\ gated' = IF delays THEN gated \cup {asked + 1} ELSE gated
  /\ watched' = watched \cup {asked + 1}
  /\ restore' = restore \cup {asked + 1}
  /\ queue' = Append(queue, asked + 1)
  /\ pumping' = TRUE
  /\ UNCHANGED <<anchored, destroyed, pending, openRef, hiding, current, view,
                 closed, answer, refocused, picked>>

(* One turn of pump()'s loop. *)
PumpReturns ==
  /\ pumping
  /\ openRef # 0 \/ queue = <<>>
  /\ pumping' = FALSE
  /\ UNCHANGED <<asked, owner, anchored, gated, destroyed, pending, watched,
                 queue, openRef, hiding, current, view, closed, answer, restore,
                 refocused, picked>>

(* The head of the queue is dismissed if its caller is destroyed (line    *)
(* 320), else presented: dialogManager.open and the two subscriptions.    *)
PumpServes ==
  /\ pumping
  /\ openRef = 0
  /\ queue # <<>>
  /\ UNCHANGED restore
  /\ IF owner[Head(queue)] \in destroyed
     THEN /\ SettleEntry(Head(queue), Dismissed)
          /\ UNCHANGED <<openRef, view, pumping>>
     ELSE /\ openRef' = Head(queue)
          /\ view' = [view EXCEPT ![Head(queue)] = "open"]
          /\ pumping' = FALSE
          /\ EntryUnchanged
  /\ UNCHANGED <<asked, owner, anchored, gated, destroyed, pending, hiding,
                 current, closed, picked>>

(* A button, Escape or the backdrop closes the dialog: the first value is  *)
(* kept, and the promise waits for the exit animation.                     *)
CloseModal(r, value) ==
  /\ Quiet
  /\ view[r] = "open"
  /\ r \notin anchored \cup hiding
  /\ r \in gated => value # Delayed
  /\ view' = [view EXCEPT ![r] = "closing"]
  /\ closed' = [closed EXCEPT ![r] = value]
  /\ picked' = [picked EXCEPT ![r] = value]
  /\ UNCHANGED <<asked, owner, anchored, gated, destroyed, pending, watched,
                 pumping, queue, openRef, hiding, current, answer, restore,
                 refocused>>

(* afterClosed, at the end of the exit animation. *)
ModalExits(r) ==
  /\ Quiet
  /\ view[r] = "closing"
  /\ r \notin anchored
  /\ view' = [view EXCEPT ![r] = "gone"]
  /\ UNCHANGED restore
  /\ FinishPresentedEntry(r, closed[r])
  /\ UNCHANGED <<asked, owner, anchored, gated, destroyed, pending, hiding,
                 current, closed, picked>>

(* hideImmediate detaches the dialog, which emits afterClosed ... *)
HideDetaches(r) ==
  /\ Quiet
  /\ r \in hiding
  /\ view[r] = "open"
  /\ view' = [view EXCEPT ![r] = "gone"]
  /\ UNCHANGED restore
  /\ FinishPresentedEntry(r, Dismissed)
  /\ UNCHANGED <<asked, owner, anchored, gated, destroyed, pending, hiding,
                 current, closed, picked>>

(* Fault: only the fulfilment of hideImmediate is handled. *)
HideSettles_FulfilledOnly(r) ==
  /\ Quiet
  /\ r \in hiding
  /\ view[r] = "gone"
  /\ hiding' = hiding \ {r}
  /\ view' = [view EXCEPT ![r] = "gone"]
  /\ UNCHANGED restore
  /\ FinishPresentedEntry(r, Dismissed)
  /\ UNCHANGED <<asked, owner, anchored, gated, destroyed, pending, current,
                 closed, picked>>

(* ... and its promise is fulfilled, or rejected without an afterClosed. *)
HideSettles(r) ==
  /\ Quiet
  /\ r \in hiding
  /\ hiding' = hiding \ {r}
  /\ view' = [view EXCEPT ![r] = "gone"]
  /\ UNCHANGED restore
  /\ FinishPresentedEntry(r, Dismissed)
  /\ UNCHANGED <<asked, owner, anchored, gated, destroyed, pending, current,
                 closed, picked>>

-----------------------------------------------------------------------------
(* Anchored prompts *)

(* settle of openAnchoredPrompt, for a prompt that is not settled. *)
Value(r) == IF closed[r] = Unset THEN Dismissed ELSE closed[r]

(* openAnchoredPrompt: the manager takes the new handle, then dismisses the *)
(* one it held.                                                             *)
AskAnchored(c, delays) ==
  /\ Quiet
  /\ c \notin destroyed
  /\ Ask(c)
  /\ anchored' = anchored \cup {asked + 1}
  /\ gated' = IF delays THEN gated \cup {asked + 1} ELSE gated
  /\ current' = asked + 1
  /\ watched' = (watched \ {current}) \cup {asked + 1}
  /\ view' = [r \in Requests |->
                IF r = current THEN "gone"
                ELSE IF r = asked + 1 THEN "opening" ELSE view[r]]
  /\ answer' = IF current = 0 THEN answer
               ELSE [answer EXCEPT ![current] = Value(current)]
  /\ UNCHANGED <<destroyed, pending, pumping, queue, openRef, hiding, closed,
                 restore, refocused, picked>>

(* overlay.show() mounts the panel in a later turn. *)
Mount(r) ==
  /\ Quiet
  /\ view[r] = "opening"
  /\ view' = [view EXCEPT ![r] = "open"]
  /\ UNCHANGED <<asked, owner, anchored, gated, destroyed, pending, watched,
                 pumping, queue, openRef, hiding, current, closed, answer,
                 restore, refocused, picked>>

(* A button: the value is kept, and kept anew by a second click while the *)
(* panel is leaving; overlay.hide() only starts once.                     *)
ChooseAnchored(r, value) ==
  /\ Quiet
  /\ view[r] \in {"open", "closing"}
  /\ r \in anchored
  /\ r \in gated => value # Delayed
  /\ view' = [view EXCEPT ![r] = "closing"]
  /\ closed' = [closed EXCEPT ![r] = value]
  /\ picked' = [picked EXCEPT ![r] = value]
  /\ UNCHANGED <<asked, owner, anchored, gated, destroyed, pending, watched,
                 pumping, queue, openRef, hiding, current, answer, restore,
                 refocused>>

(* Escape or a click outside hides the panel and leaves the value alone. *)
DismissAnchored(r) ==
  /\ Quiet
  /\ view[r] = "open"
  /\ r \in anchored
  /\ view' = [view EXCEPT ![r] = "closing"]
  /\ UNCHANGED <<asked, owner, anchored, gated, destroyed, pending, watched,
                 pumping, queue, openRef, hiding, current, closed, answer,
                 restore, refocused, picked>>

(* settle, guarded by `settled'; it releases the manager's handle. *)
SettleAnchored(r) ==
  /\ view' = [view EXCEPT ![r] = "gone"]
  /\ watched' = watched \ {r}
  /\ IF Settled(r)
     THEN UNCHANGED <<answer, current>>
     ELSE /\ answer' = [answer EXCEPT ![r] = Value(r)]
          /\ current' = IF current = r THEN 0 ELSE current

(* onClose, once the panel has left. *)
AnchoredExits(r) ==
  /\ Quiet
  /\ view[r] = "closing"
  /\ r \in anchored
  /\ SettleAnchored(r)
  /\ UNCHANGED <<asked, owner, anchored, gated, destroyed, pending, pumping,
                 queue, openRef, hiding, closed, restore, refocused, picked>>

-----------------------------------------------------------------------------
(* Both presenters *)

(* The interval of a gated button reaches zero: it enables the button only. *)
CountdownEnds(r) ==
  /\ Quiet
  /\ r \in gated
  /\ view[r] \in {"open", "closing"}
  /\ gated' = gated \ {r}
  /\ UNCHANGED <<asked, owner, anchored, destroyed, pending, watched, pumping,
                 queue, openRef, hiding, current, view, closed, answer, restore,
                 refocused, picked>>

(* Angular destroys a caller and then calls its destroy callbacks. *)
Destroy(c) ==
  /\ Quiet
  /\ c \notin destroyed
  /\ destroyed' = destroyed \cup {c}
  /\ pending' = {r \in watched : owner[r] = c}
  /\ UNCHANGED <<asked, owner, anchored, gated, watched, pumping, queue,
                 openRef, hiding, current, view, closed, answer, restore,
                 refocused, picked>>

OnScreen(r) == openRef # 0 /\ Head(queue) = r

(* dismissDestroyedCaller, for a request that is not on screen ... *)
DestroyWaiting(r) ==
  /\ ~pumping
  /\ r \in pending \ anchored
  /\ ~OnScreen(r)
  /\ pending' = pending \ {r}
  /\ IF Settled(r)
     THEN UNCHANGED <<restore, pumping>> /\ EntryUnchanged
     ELSE /\ restore' = restore \ {r}
          /\ SettleEntry(r, Dismissed)
          /\ pumping' = TRUE
  /\ UNCHANGED <<asked, owner, anchored, gated, destroyed, openRef, hiding,
                 current, view, closed, picked>>

(* Fault: a dialog that is closing is hidden too. *)
DestroyPresented_WhileClosing(r) ==
  /\ ~pumping
  /\ r \in pending \ anchored
  /\ OnScreen(r)
  /\ pending' = pending \ {r}
  /\ watched' = watched \ {r}
  /\ restore' = restore \ {r}
  /\ hiding' = hiding \cup {r}
  /\ UNCHANGED <<asked, owner, anchored, gated, destroyed, pumping, queue,
                 openRef, current, view, closed, answer, refocused, picked>>

(* Fault: the focus is still to be restored. *)
DestroyPresented_Restores(r) ==
  /\ ~pumping
  /\ r \in pending \ anchored
  /\ OnScreen(r)
  /\ pending' = pending \ {r}
  /\ watched' = watched \ {r}
  /\ restore' = restore
  /\ hiding' = IF closed[r] # Unset THEN hiding ELSE hiding \cup {r}
  /\ UNCHANGED <<asked, owner, anchored, gated, destroyed, pumping, queue,
                 openRef, current, view, closed, answer, refocused, picked>>

(* ... and for the presented one, which is hidden unless it is closing. *)
DestroyPresented(r) ==
  /\ ~pumping
  /\ r \in pending \ anchored
  /\ OnScreen(r)
  /\ pending' = pending \ {r}
  /\ watched' = watched \ {r}
  /\ restore' = restore \ {r}
  /\ hiding' = IF closed[r] # Unset THEN hiding ELSE hiding \cup {r}
  /\ UNCHANGED <<asked, owner, anchored, gated, destroyed, pumping, queue,
                 openRef, current, view, closed, answer, refocused, picked>>

(* The destroy callback of an anchored prompt. *)
DestroyAnchored(r) ==
  /\ ~pumping
  /\ r \in pending \cap anchored
  /\ pending' = pending \ {r}
  /\ SettleAnchored(r)
  /\ UNCHANGED <<asked, owner, anchored, gated, destroyed, pumping, queue,
                 openRef, hiding, closed, restore, refocused, picked>>

CallerStep(c) ==
  \/ AskTooLate(c)
  \/ \E delays \in BOOLEAN : AskModal(c, delays) \/ AskAnchored(c, delays)
  \/ Destroy(c)

UserStep(r) ==
  \/ \E value \in Answers : CloseModal(r, value)
  \/ \E value \in Actions : ChooseAnchored(r, value)
  \/ DismissAnchored(r)

Callback(r) == DestroyWaiting(r) \/ DestroyPresented(r) \/ DestroyAnchored(r)

Next ==
  \/ \E c \in Callers : CallerStep(c)
  \/ \E r \in Requests :
       \/ UserStep(r) \/ Callback(r)
       \/ ModalExits(r) \/ HideDetaches(r) \/ HideSettles(r)
       \/ Mount(r) \/ AnchoredExits(r) \/ CountdownEnds(r)
  \/ PumpReturns \/ PumpServes

Spec == Init /\ [][Next]_vars

(* Synchronous code runs to its end; exit animations end and the promise of *)
(* hideImmediate settles.  Nothing makes a user answer.                     *)
Fairness ==
  /\ WF_vars(PumpReturns) /\ WF_vars(PumpServes)
  /\ \A r \in Requests :
       /\ WF_vars(Callback(r))
       /\ WF_vars(ModalExits(r))
       /\ WF_vars(AnchoredExits(r))
       /\ WF_vars(HideSettles(r))

FairSpec == Spec /\ Fairness

-----------------------------------------------------------------------------
(* Properties *)

TypeOK ==
  /\ asked \in 0..MaxRequests
  /\ owner \in [Requests -> Callers \cup {NoCaller}]
  /\ anchored \subseteq Requests /\ gated \subseteq Requests
  /\ destroyed \subseteq Callers
  /\ pending \subseteq Requests /\ watched \subseteq Requests
  /\ pumping \in BOOLEAN
  /\ queue \in Seq(Requests)
  /\ openRef \in 0..MaxRequests
  /\ hiding \subseteq Requests
  /\ current \in 0..MaxRequests
  /\ view \in [Requests -> {"none", "opening", "open", "closing", "gone"}]
  /\ closed \in [Requests -> Answers \cup {Unset}]
  /\ answer \in [Requests -> Answers \cup {Unset}]
  /\ restore \subseteq Requests /\ refocused \subseteq Requests
  /\ picked \in [Requests -> Answers]

(* Whenever a turn of the event loop has ended, the queue is empty or its  *)
(* first request is the presented one and still unanswered, and no other   *)
(* modal prompt is on screen: nobody waits behind a prompt that is gone,   *)
(* although a dialog may report its end twice (lines 348 and 376).         *)
QueueIsServed ==
  Quiet =>
    /\ queue = <<>> <=> openRef = 0
    /\ openRef # 0 => Head(queue) = openRef /\ ~Settled(openRef)
    /\ \A r \in Requests \ anchored :
         view[r] \in {"open", "closing"} => r = openRef

(* A promise resolves with what the user last had a say in - the first     *)
(* button of a modal prompt, the last of an anchored one - and with the    *)
(* dismissal when there was none, whatever destroys or displaces the       *)
(* prompt between the click and the end of its exit animation.             *)
AnswerIsThePick ==
  \A r \in 1..asked : Settled(r) => answer[r] = picked[r]

(* Exactly the unanswered anchored prompt, if there is one, is held by the *)
(* manager; so a new prompt can always displace the old one.               *)
OneAnchoredPrompt ==
  \A r \in anchored : ~Settled(r) <=> r = current

(* No destroy callback outlives its promise, and between turns every       *)
(* unanswered request of a living caller still has one.                    *)
CallbacksMatchPromises ==
  /\ \A r \in watched : ~Settled(r)
  /\ Quiet => \A r \in 1..asked :
       ~Settled(r) => (r \in watched <=> owner[r] \notin destroyed)

(* A prompt that ends because its caller was destroyed does not move the   *)
(* focus back to the opener: the page may have moved on.                   *)
NoFocusForDestroyed ==
  [][\A r \in Requests :
       r \in refocused' \ refocused => owner[r] \notin destroyed]_vars

(* A prompt that the user closed, or whose caller was destroyed, is        *)
(* answered in the end, and so are the destroyed requests behind it.       *)
EndedPromptsAnswered ==
  \A r \in Requests :
    (view[r] = "closing" \/ owner[r] \in destroyed) ~> Settled(r)
=============================================================================
