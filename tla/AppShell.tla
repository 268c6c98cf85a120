------------------------------ MODULE AppShell ------------------------------
(***************************************************************************)
(* The mobile panels of the app shell and who has the focus:               *)
(* packages/angular/app-shell/app-shell.ts.                                *)
(*                                                                         *)
(* On a narrow screen the sidenav and the secondary panel are overlays.    *)
(* Opening one traps the focus, closing it brings the focus back, and      *)
(* since neither panel nor target need be ready at once, both are tried    *)
(* again by timers and frames.  Meanwhile the user presses, clicks and     *)
(* tabs, the host rejects what was requested, and panels come and go.      *)
(*                                                                         *)
(* A click is one turn: the shell's capture listener on the document, the  *)
(* handler of the control, the shell's listener on its host element.  The  *)
(* capture listener queues a microtask; the browser runs it as soon as     *)
(* that listener returns if the user clicked, and after all listeners if a *)
(* script called click().                                                  *)
(*                                                                         *)
(*   controlled  the panels whose state the host binds                     *)
(*   mobile      the overlay layout                                        *)
(*   present     the element registered for the sidenav; the secondary     *)
(*               panel stays                                               *)
(*   hidden      the host hides the remote button                          *)
(*   dirty       a signal the effect reads has changed                     *)
(*   moves       actions of the user and of the host so far (bounded)      *)
(*   shell       the shell's private state and the document's focus:       *)
(*     shown       the panels that are open                                *)
(*     trap        the panel that traps the focus, with its element        *)
(*     home        _mobilePanelRestoreTarget                               *)
(*     retry       the target of the restore tasks of the current          *)
(*                 _mobileFocusRestoreGeneration; others do nothing        *)
(*     open, close pendingRestoreAction and pendingCloseAction             *)
(*     action      currentActionTarget; handled: whether the shell did     *)
(*                 what it asked (handledActionTarget)                     *)
(*     checks      the timers of scheduleMobilePanelFocusCheck run         *)
(*     focus       where the focus is                                      *)
(*     acted       the user acted since the restoration was scheduled      *)
(*     owed        a control outside asked an open panel to close: the     *)
(*                 panel closes or gets the focus back, unless the user    *)
(*                 acts or the host calls again                            *)
(***************************************************************************)

EXTENDS Naturals

CONSTANTS None,
  MaxMoves    \* bound on what the user and the host do

VARIABLES controlled, mobile, present, hidden, dirty, moves, shell

shellVars == <<controlled, mobile, present, hidden, dirty, moves, shell>>

Panel == {"sidenav", "secondary"}

\* The sidenav's toggle and the host's button in the top bar, a link in the
\* sidenav, the toggle on the secondary panel's rail, a button outside the shell.
Control == {"burger", "button", "link", "rail", "remote"}
Inner(p) == IF p = "sidenav" THEN {"link"} ELSE {"rail"}
InShell == {"burger", "button", "link", "rail", "content"}
InsideOrToggle(e) == e \in {"burger", "link", "rail"}

Element(p) == IF p = "sidenav" THEN present ELSE "first"
Connected(e) == e \in {"link", "sidenav"} => present # None

\* The open panel of the overlay layout; the sidenav comes first.
Wanted(s) ==
  IF ~mobile THEN None
  ELSE IF "sidenav" \in s.shown THEN "sidenav"
  ELSE IF "secondary" \in s.shown THEN "secondary" ELSE None

\* isMobileFocusRestoreCandidate: neither hidden, inert nor out of the tab order.
Focusable(s, e) ==
  /\ e \in Control /\ Connected(e)
  /\ e = "link" => ~mobile \/ "sidenav" \in s.shown
  /\ e = "remote" => ~hidden

ShellInit ==
  /\ controlled \in {{}, {"sidenav"}}
  /\ mobile = TRUE
  /\ present = "first"
  /\ hidden = FALSE
  /\ dirty = FALSE
  /\ moves = 0
  /\ shell = [shown |-> {}, trap |-> None, home |-> None, retry |-> None,
              open |-> None, close |-> None, action |-> None, handled |-> FALSE,
              checks |-> FALSE, focus |-> "body", acted |-> FALSE, owed |-> FALSE]

-----------------------------------------------------------------------------
(* Focus *)

HasFocus(s) == s.trap # None /\ s.focus \in Inner(s.trap.panel) \union {s.trap.panel}

MoveFocus(s, e) ==
  LET t == [s EXCEPT !.focus = e] IN [t EXCEPT !.owed = @ /\ ~HasFocus(t)]

\* ensureMobilePanelFocus: the first control that is rendered by now, or the
\* panel itself; nothing when its element has left the document.
Ensured(s) ==
  IF s.trap = None \/ s.trap.element # Element(s.trap.panel)
     \/ (HasFocus(s) /\ s.focus \notin {s.trap.panel, s.home})
    THEN {s}
    ELSE {MoveFocus(s, e) : e \in (Inner(s.trap.panel) \ {s.home}) \union {s.trap.panel}}

\* restoreMobileFocusTarget.
RestoreTo(s, e) ==
  IF e = None \/ s.home # e THEN s
  ELSE IF ~Connected(e) THEN [s EXCEPT !.home = None]
  ELSE IF ~Focusable(s, e) THEN s
  ELSE MoveFocus(s, e)

ScheduleRestore(s) ==
  IF s.home = None THEN s ELSE [s EXCEPT !.retry = s.home, !.acted = FALSE]

CancelRestore(s) == [s EXCEPT !.home = None, !.retry = None]

\* redirectMobileFocusRestore.
Redirect(s, e) ==
  IF s.trap = None /\ s.home = None THEN s
  ELSE LET t == [s EXCEPT !.home = e, !.retry = None] IN
       IF s.trap = None THEN ScheduleRestore(RestoreTo(t, e)) ELSE t

-----------------------------------------------------------------------------
(* Opening and closing *)

MarkHandled(s) == [s EXCEPT !.handled = (s.action # None)]

\* setSidenavCollapsed and setSecondaryHidden: a controlled panel only emits.
Set(s, p, open) ==
  [s EXCEPT !.open = IF ~open /\ @ # None /\ @.panel = p THEN None ELSE @,
            !.shown = IF p \in controlled \/ ~mobile THEN @
                      ELSE IF open THEN @ \union {p} ELSE @ \ {p}]

\* stagePendingRestoreAction: the control that asked, or whatever has the focus.
StageOpen(s, p) ==
  [s EXCEPT !.open = [panel |-> p,
                      element |-> IF s.action # None /\ Connected(s.action)
                                    THEN s.action ELSE s.focus]]

\* stagePendingCloseAction: a control outside the panel.
StageClose(s, p) ==
  IF s.action = None \/ ~Connected(s.action) \/ s.action \in Inner(p)
    THEN [s EXCEPT !.close = None, !.owed = FALSE]
    ELSE [s EXCEPT !.close = [panel |-> p, element |-> s.action],
                   !.owed = s.trap # None /\ s.trap.panel = p /\ ~HasFocus(s)]

\* openMobilePanel: the other one closes.
OpenPanel(s, p) ==
  [s EXCEPT !.shown = (@ \ (Panel \ controlled)) \union ({p} \ controlled)]

\* toggleSidenav and toggleSecondary.
Toggle(s, p) ==
  LET m == MarkHandled(s) IN
  IF ~mobile THEN m
  ELSE IF p \in s.shown THEN Set(StageClose(m, p), p, FALSE)
  ELSE OpenPanel(StageOpen(m, p), p)

\* closeMobilePanelsFromCurrentAction.
ClosePanels(s, stage) ==
  LET m == [MarkHandled(s) EXCEPT !.open = None]
      p == Wanted(s)
  IN IF p = None THEN m
     ELSE [(IF stage THEN StageClose(m, p) ELSE m)
             EXCEPT !.shown = @ \intersect controlled]

\* completeMobilePanelAction.
Complete(s, e) ==
  LET p == Wanted(s)
      c == ClosePanels(StageClose(s, p), FALSE)
  IN CASE s.handled -> IF p = None THEN Redirect(s, e) ELSE s
       [] ~s.handled /\ p = None -> s
       [] ~s.handled /\ p # None ->
            IF p \notin controlled /\ Wanted(c) = None THEN Redirect(c, e) ELSE c

\* Fault: a new intent leaves the pending restoration alone.
Capture_KeepsRestore(s, e) ==
  [s EXCEPT !.action = e, !.handled = FALSE, !.open = None, !.close = None,
            !.acted = TRUE, !.owed = FALSE]

\* captureDocumentActionTarget: what every press, key and click does first.
Capture(s, e) ==
  LET t == [s EXCEPT !.action = e, !.handled = FALSE, !.open = None, !.close = None,
                     !.acted = TRUE, !.owed = FALSE]
  IN IF s.trap = None /\ s.home # None THEN CancelRestore(t) ELSE t

-----------------------------------------------------------------------------
(* The effect *)

\* teardownMobileFocusTrap.
Teardown(s, restore, preserve) ==
  LET home == IF s.trap # None /\ s.close # None /\ s.close.panel = s.trap.panel
                   /\ Connected(s.close.element)
                THEN s.close.element ELSE s.home
      t == [s EXCEPT !.trap = None, !.owed = FALSE]
      r == IF s.trap = None THEN t ELSE [t EXCEPT !.close = None, !.home = home]
  IN IF restore THEN ScheduleRestore(RestoreTo(r, r.home))
     ELSE [t EXCEPT !.retry = None, !.home = IF preserve THEN @ ELSE None]

\* enableMobileFocusTrap, with the focus the trap takes first.
Enabled(s, p, preserve) ==
  LET opener == IF s.open # None /\ s.open.panel = p /\ Connected(s.open.element)
                  THEN s.open.element ELSE s.focus
      t == [s EXCEPT !.retry = None, !.checks = TRUE,
                     !.trap = [panel |-> p, element |-> Element(p)]]
  IN Ensured(IF preserve THEN t ELSE [t EXCEPT !.home = opener, !.open = None])

Become(t) ==
  /\ shell' = t
  /\ dirty' = (dirty \/ t.shown # shell.shown)
  /\ UNCHANGED <<controlled, mobile, present, hidden>>

Settle(t) == Become(t) /\ UNCHANGED moves

Move == moves < MaxMoves /\ moves' = moves + 1
Turn(t) == Become(t) /\ Move

RunEffect ==
  LET p == Wanted(shell)
      s == IF shell.open # None /\ shell.open.panel # p
             THEN [shell EXCEPT !.open = None] ELSE shell
      replaces == s.trap # None /\ s.trap.panel = p
  IN /\ dirty
     /\ IF p # None /\ Element(p) = None
          THEN shell' = Set(IF s.trap # None THEN Teardown(s, TRUE, FALSE) ELSE s, p, FALSE)
        ELSE IF s.trap = (IF p = None THEN None ELSE [panel |-> p, element |-> Element(p)])
          THEN shell' = s
        ELSE IF p = None
          THEN shell' = Teardown(s, TRUE, FALSE)
          ELSE shell' \in Enabled(IF s.trap # None THEN Teardown(s, FALSE, replaces) ELSE s,
                                  p, replaces)
     /\ dirty' = (shell'.shown # shell.shown)
     /\ UNCHANGED <<controlled, mobile, present, hidden, moves>>

-----------------------------------------------------------------------------
(* Timers *)

\* A check after the transition, or by a timer or frame; the last timer.
Check == shell.trap # None /\ \E t \in Ensured(shell) : Settle(t)
LastCheck == shell.checks /\ \E t \in Ensured(shell) : Settle([t EXCEPT !.checks = FALSE])

Retry == shell.retry # None /\ Settle(RestoreTo(shell, shell.retry))

LastRetry ==
  /\ shell.retry # None
  /\ LET t == RestoreTo(shell, shell.retry) IN
     Settle([t EXCEPT !.retry = None, !.home = IF @ = shell.retry THEN None ELSE @])

ActionExpires ==
  /\ shell.action # None
  /\ Settle([shell EXCEPT !.action = None, !.handled = FALSE])

OpenExpires == shell.open # None /\ Settle([shell EXCEPT !.open = None])

\* Fault: a request that came to nothing is only forgotten.
CloseExpires_Forgets ==
  /\ shell.close # None
  /\ Settle([shell EXCEPT !.close = None])

\* A request to close that came to nothing: the panel takes the focus back.
CloseExpires ==
  /\ shell.close # None
  /\ LET p == shell.close.panel
         s == [shell EXCEPT !.close = None]
     IN IF s.trap # None /\ s.trap.panel = p /\ s.trap.element = Element(p)
          THEN \E t \in Ensured(s) : Settle(t)
          ELSE Settle(s)

-----------------------------------------------------------------------------
(* The user *)

\* dismissMobilePanels: a press on the background closes, a press on a control
\* waits for its click.  The browser then moves the focus, or does not.
PointerDown(e) ==
  /\ e \in Control \union {"content"}
  /\ e \in Control => Focusable(shell, e)
  /\ LET c == Capture(shell, IF e \in Control THEN e ELSE None)
         d == IF e = "content" /\ mobile /\ c.shown # {} THEN ClosePanels(c, FALSE) ELSE c
     IN \/ Turn(d)
        \/ Turn(MoveFocus(d, IF e \in Control THEN e ELSE "body"))

\* What the control's own handler asks of the shell.
Handle(s, e, h) ==
  CASE e = "burger" -> Toggle(s, "sidenav")
    [] e = "rail" -> Toggle(s, "secondary")
    [] e \in {"button", "remote"} /\ h = "toggle" -> Toggle(s, "sidenav")
    [] e \in {"button", "remote", "link"} /\ h = "close" -> ClosePanels(s, TRUE)
    [] OTHER -> s

\* captureDocumentAction, the control's handler, and completeMobilePanelDismissal
\* unless the handler stops the click.  Only a control in the shell that is no
\* toggle and in no panel is completed.
Clicked(s, e, h, scripted, stopped) ==
  LET c == Capture(s, e)
      Bubble(t) == IF stopped THEN t ELSE Complete(t, e)
  IN IF e \notin InShell \/ InsideOrToggle(e) THEN Handle(c, e, h)
     ELSE IF scripted THEN Complete(Handle(c, e, h), e)
     ELSE Bubble(Handle(Complete(c, e), e, h))

Click(e, h, scripted, stopped) ==
  /\ Focusable(shell, e)
  /\ Turn(Clicked(shell, e, h, scripted, stopped))

\* A key goes to the control that has the focus; Escape reaches the shell from
\* inside it.
Escape ==
  LET e == shell.focus
      c == Capture(shell, IF e \in Control THEN e ELSE None)
  IN Turn(IF mobile /\ e \in InShell \union Panel THEN ClosePanels(c, FALSE) ELSE c)

\* Tab: a trap that has the focus keeps it.
Tab(e) ==
  /\ Focusable(shell, e)
  /\ HasFocus(shell) => e \in Inner(shell.trap.panel)
  /\ LET f == shell.focus IN
     Turn(MoveFocus(Capture(shell, IF f \in Control THEN f ELSE None), e))

-----------------------------------------------------------------------------
(* The host and the browser *)

\* The host accepts a request, or changes what it binds on its own.
HostSets(p) ==
  /\ p \in controlled
  /\ Turn([shell EXCEPT !.shown = IF p \in @ THEN @ \ {p} ELSE @ \union {p}])

\* A public action called outside any event.
HostCalls(h) ==
  Turn(CASE h = "sidenav" -> Toggle(shell, "sidenav")
           [] h = "secondary" -> Toggle(shell, "secondary")
           [] h = "close" -> ClosePanels(shell, TRUE))

HostHides ==
  /\ hidden' = ~hidden
  /\ Move /\ UNCHANGED <<controlled, mobile, present, dirty, shell>>

\* The sidenav is removed, or replaced at once or later by another element.
Register(e) ==
  /\ <<present, e>> \in {<<"first", None>>, <<"first", "second">>, <<None, "second">>}
  /\ present' = e
  /\ dirty' = TRUE
  /\ Move /\ UNCHANGED <<controlled, mobile, hidden, shell>>

\* The media query matches or no longer does.
Breakpoint ==
  /\ mobile' = ~mobile
  /\ shell' = IF ~mobile THEN shell
              ELSE [shell EXCEPT !.shown = @ \intersect controlled, !.open = None,
                                 !.close = None, !.action = None, !.handled = FALSE]
  /\ dirty' = TRUE
  /\ Move /\ UNCHANGED <<controlled, present, hidden>>

\* What has the focus is removed, hidden or made inert.
FocusFixup ==
  /\ shell.focus # "body"
  /\ IF shell.focus \in Panel THEN ~Connected(shell.focus) \/ shell.focus \notin shell.shown
                              ELSE ~Focusable(shell, shell.focus)
  /\ Settle(MoveFocus(shell, "body"))

-----------------------------------------------------------------------------
Timers == Check \/ LastCheck \/ Retry \/ LastRetry \/ ActionExpires \/ OpenExpires \/ CloseExpires

ShellNext ==
  \/ RunEffect \/ Timers \/ Escape \/ FocusFixup \/ HostHides \/ Breakpoint
  \/ \E e \in Control \union {"content"} : PointerDown(e)
  \/ \E e \in Control, h \in {"none", "toggle", "close"}, scripted, stopped \in BOOLEAN :
       Click(e, h, scripted, stopped)
  \/ \E e \in Control : Tab(e)
  \/ \E p \in Panel : HostSets(p)
  \/ \E h \in {"sidenav", "secondary", "close"} : HostCalls(h)
  \/ \E e \in {None, "second"} : Register(e)

\* Change detection runs and timers fire; nothing obliges a user or a host.
ShellFairness == WF_shellVars(RunEffect) /\ WF_shellVars(LastCheck)
                 /\ WF_shellVars(LastRetry) /\ WF_shellVars(CloseExpires)

ShellSpec == ShellInit /\ [][ShellNext]_shellVars /\ ShellFairness

-----------------------------------------------------------------------------
(* A restoration that is tried again later never takes the focus from a      *)
(* panel that opened meanwhile, nor from a user who pressed, clicked or used *)
(* a key since (the generation in scheduleMobileFocusRestore).               *)
NeverStealsFocus ==
  [][(Retry \/ LastRetry) /\ shell'.focus # shell.focus
        => shell.trap = None /\ ~shell.acted]_shellVars

(* "retains focus ownership": a control outside that asks a panel to close   *)
(* ends with the panel closed, or, rejected, with the focus back in it.      *)
RejectedCloseReturnsFocus == shell.owed ~> ~shell.owed

(* "lets an in-shell consumer-authored public action close an open panel"    *)
(* (app-shell.spec.ts): a button of the host in the shell that calls         *)
(* toggleSidenav() closes the sidenav that is open.                          *)
ConsumerToggleCloses ==
  [][\A scripted, stopped \in BOOLEAN :
       (mobile /\ ~dirty /\ controlled = {} /\ "sidenav" \in shell.shown
          /\ Click("button", "toggle", scripted, stopped))
         => "sidenav" \notin shell'.shown]_shellVars
=============================================================================
