----------------------------- MODULE SideBySide -----------------------------
(***************************************************************************)
(* Six components that share neither state nor calls, checked in one run: *)
(* the transcript of the audio player, the print sessions of the PDF       *)
(* viewer, the restoration of the main policy, the editors of the filter   *)
(* builder, the echoes of the dialpad and the panels of the app shell.     *)
(*                                                                         *)
(* A behaviour is a behaviour of one of them, chosen in the initial state; *)
(* the others keep their initial states.  Composing them freely would only *)
(* multiply their states: none of them reads what another one writes.      *)
(***************************************************************************)
EXTENDS AudioTranscript

CONSTANTS
  MaxPrints,                                               \* PdfPrint
  Restorer, MaxEdits, MaxPolicyFaults,                     \* MainPolicy
  Field, MaxSessions, MaxChanges,                          \* FilterEditor
  Digit, Limit, MaxLength, MaxFlight,                      \* DialpadEcho
  MaxMoves                                                 \* AppShell

\* The create editor's popover is no field's.
ASSUME FieldAssumption == "create" \notin Field

\* A caret is told from None.  Edits on their way are bounded by what the dialpad
\* remembers: one it has forgotten it rightly takes for a host's own number.
ASSUME EchoAssumption ==
  /\ MaxLength \in Nat /\ Limit \in Nat /\ MaxFlight \in Nat /\ MaxFlight <= Limit
  /\ None \notin [start : Nat, end : Nat]

VARIABLES
  part,   \* the component this behaviour is of
  called, printing, frames, printCleanup, printTimer, disposed,
  live, seen, step, todo, fresh, gap, told, lost, edits, faults,
  value, offered, editor, sessions, panel, showing, hides, focusTimer, focus,
  outs, left, owed, changes,
  bound, field, caret, pending, flight, strays,
  controlled, mobile, present, hidden, shellDirty, moves, shell

Prints == INSTANCE PdfPrint WITH pc <- printing, timer <- printTimer
Policy == INSTANCE MainPolicy WITH Nobody <- None
Filter == INSTANCE FilterEditor WITH timer <- focusTimer
Dial   == INSTANCE DialpadEcho WITH NoCaret <- None
Shell  == INSTANCE AppShell WITH dirty <- shellDirty

printVars == <<called, printing, frames, printCleanup, printTimer, disposed>>
policyVars == <<live, seen, step, todo, fresh, gap, told, lost, edits, faults>>
editorVars == <<value, offered, editor, sessions, panel, showing, hides, focusTimer,
                focus, outs, left, owed, changes>>
echoVars == <<bound, field, caret, pending, flight, strays>>
panelVars == <<controlled, mobile, present, hidden, shellDirty, moves, shell>>

Parts == {"transcript", "prints", "policy", "filter", "dialpad", "shell"}

PartsInit ==
  /\ part \in Parts
  /\ Init /\ Prints!Init /\ Policy!Init /\ Filter!FilterInit /\ Dial!DialInit /\ Shell!ShellInit
  /\ part # "transcript" => ~allowed /\ ~rt.supported
  /\ part # "filter" => value = {}
  /\ part # "shell" => controlled = {}

Transcribe ==
  /\ part = "transcript" /\ Next
  /\ UNCHANGED <<part, printVars, policyVars, editorVars, echoVars, panelVars>>

PrintAPdf ==
  /\ part = "prints" /\ Prints!Next
  /\ UNCHANGED <<part, vars, policyVars, editorVars, echoVars, panelVars>>

RestorePolicy ==
  /\ part = "policy" /\ Policy!Next
  /\ UNCHANGED <<part, vars, printVars, editorVars, echoVars, panelVars>>

EditFilters ==
  /\ part = "filter" /\ Filter!FilterNext
  /\ UNCHANGED <<part, vars, printVars, policyVars, echoVars, panelVars>>

Dialing ==
  /\ part = "dialpad" /\ Dial!DialNext
  /\ UNCHANGED <<part, vars, printVars, policyVars, editorVars, panelVars>>

UsePanels ==
  /\ part = "shell" /\ Shell!ShellNext
  /\ UNCHANGED <<part, vars, printVars, policyVars, editorVars, echoVars>>

PartsNext ==
  Transcribe \/ PrintAPdf \/ RestorePolicy \/ EditFilters \/ Dialing \/ UsePanels

partsVars == <<part, vars, printVars, policyVars, editorVars, echoVars, panelVars>>

\* The fairness of each component.  The restoring command could start in the
\* initial state of any behaviour, so its fairness is bound to its own.
PartsSpec ==
  /\ PartsInit /\ [][PartsNext]_partsVars
  /\ Filter!FilterFairness /\ Shell!ShellFairness
  /\ \A r \in Restorer : WF_partsVars(part = "policy" /\ Policy!Command(r) /\ UNCHANGED <<part, vars, printVars, editorVars, echoVars, panelVars>>)

-----------------------------------------------------------------------------
\* A print session loses its owner only to an overlapping print.
OrphansComeFromOverlap == Prints!OrphansComeFromOverlap

\* A ref the restoration left unprotected is about to be protected again, or
\* was reported.
GapIsTold == Policy!GapIsTold

\* Running the restoring command again completes whatever was left undone.
RerunHeals == Policy!RerunHeals

\* No promise, timer or exit of an earlier editor ends a live create session.
OnlyItsUserEndsIt == Filter!OnlyItsUserEndsIt

\* A user whose editor closed under the focus gets the focus back.
FocusComesBack == Filter!FocusComesBack

\* An echoed edit is recognised however late the host binds it.
OwnEchoKeepsCaret == Dial!OwnEchoKeepsCaret

\* A late restoration takes the focus from no panel and no user.
NeverStealsFocus == Shell!NeverStealsFocus

\* A panel that was asked to close closes or gets the focus back.
RejectedCloseReturnsFocus == Shell!RejectedCloseReturnsFocus
=============================================================================
