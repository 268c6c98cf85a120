----------------------------- MODULE PdfRuntime -----------------------------
(***************************************************************************)
(* The document lifecycle of HellPdfRuntime                                *)
(* (features/pdf-viewer/pdf-viewer.runtime.ts) as driven by the            *)
(* HellPdfViewer component (features/pdf-viewer/pdf-viewer.ts).            *)
(*                                                                         *)
(* bootstrap and loadDocument are async functions with no lock around      *)
(* them: every await is a point where another call of loadDocument, or     *)
(* the component's destruction, may run.  Each action below is the code    *)
(* between two awaits.  The adapter (pdf.js) is the environment: its       *)
(* promises settle in any order, either way.                               *)
(*                                                                         *)
(* A load is named by its place in the order of the calls, so the newest   *)
(* request is the largest one.  No load is written 0, the code's null.     *)
(***************************************************************************)
EXTENDS Naturals

CONSTANT MaxLoads   \* bound: how many times the component asks for a document

ASSUME MaxLoadsAssumption == MaxLoads \in Nat \ {0}

Load == 1 .. MaxLoads
NoLoad == 0
MaybeLoad == Load \cup {NoLoad}

VARIABLES
  viewer,      \* the component's bootstrap: its afterNextRender and the answer
  destroyed,   \* the component's DestroyRef fired
  session,     \* this.session is set
  shown,       \* the document last given to session.setDocument
  doc,         \* this.doc
  loadTask,    \* this.loadTask
  loadToken,   \* this.loadToken
  requested,   \* how many loads were asked for
  token,       \* the local `token` of each call of loadDocument
  pc,          \* where each call of loadDocument stands, or how it ended
  awaits,      \* the load whose task's destroy() a call waits for, if any
  aborted,     \* loads whose task was given to destroy()
  open,        \* documents handed over by the adapter and not destroyed yet
  totalPages   \* the component's totalPages signal: whose pages it counts

vars == <<viewer, destroyed, session, shown, doc, loadTask, loadToken,
          requested, token, pc, awaits, aborted, open, totalPages>>

Waiting  == {"cancelling", "creating", "fetching"}
Finished == {"loaded", "ignored", "failed"}

\* Type invariant.  Each request and each cleanup (at most two: a failed
\* bootstrap and the component's destruction) takes a token of its own.
TypeOK ==
  /\ viewer \in {"fresh", "bootstrapping", "ready", "failed"}
  /\ destroyed \in BOOLEAN
  /\ session \in BOOLEAN
  /\ shown \in MaybeLoad
  /\ doc \in MaybeLoad
  /\ loadTask \in MaybeLoad
  /\ requested \in 0 .. MaxLoads
  /\ loadToken \in requested .. requested + 2
  /\ token \in [Load -> Nat]
  /\ pc \in [Load -> {"idle"} \cup Waiting \cup Finished]
  /\ awaits \in [Load -> MaybeLoad]
  /\ aborted \in SUBSET Load
  /\ open \in SUBSET Load
  /\ totalPages \in MaybeLoad

Init ==
  /\ viewer = "fresh"
  /\ destroyed = FALSE
  /\ session = FALSE
  /\ shown = NoLoad
  /\ doc = NoLoad
  /\ loadTask = NoLoad
  /\ loadToken = 0
  /\ requested = 0
  /\ token = [l \in Load |-> 0]
  /\ pc = [l \in Load |-> "idle"]
  /\ awaits = [l \in Load |-> NoLoad]
  /\ aborted = {}
  /\ open = {}
  /\ totalPages = NoLoad

-----------------------------------------------------------------------------
(* Private helpers of the runtime.  Each constrains the variables it names. *)

\* The synchronous part of cancelActiveLoadTask: take the task, destroy it.
TakeLoadTask ==
  /\ loadTask' = NoLoad
  /\ aborted' = aborted \cup ({loadTask} \ {NoLoad})

\* clearActiveDocument: detach the viewer, then destroy the document.  With
\* no session there is no viewer to detach.
ClearActiveDocument ==
  /\ shown' = NoLoad
  /\ doc' = NoLoad
  /\ open' = open \ {doc}

\* Fault: the comparison looks the wrong way.
IsStale_WrongWay(l) == token[l] > loadToken

\* The token comparison a load makes after its last await.
IsStale(l) == token[l] # loadToken

Goto(l, place) == pc' = [pc EXCEPT ![l] = place]

\* A call that found no task to destroy is resumed from the microtask queue:
\* in the order of the calls, and before the browser turns to anything else
\* (a settled promise of the adapter, a user event, a frame).
InMicrotask(l) == pc[l] = "cancelling" /\ awaits[l] = NoLoad

Idle == \A l \in Load : ~InMicrotask(l)

MayResume(l) ==
  /\ pc[l] = "cancelling"
  /\ \A m \in Load : InMicrotask(m) => InMicrotask(l) /\ l <= m

-----------------------------------------------------------------------------
(* The component. *)

\* afterNextRender: bootstrapRuntime calls runtime.bootstrap, which awaits the
\* adapter's createViewer.
Bootstrap ==
  /\ Idle
  /\ viewer = "fresh"
  /\ ~destroyed
  /\ viewer' = "bootstrapping"
  /\ UNCHANGED <<destroyed, session, shown, doc, loadTask, loadToken,
                 requested, token, pc, awaits, aborted, open, totalPages>>

\* createViewer answered.  Nothing asks whether cleanup ran meanwhile.
ViewerCreated ==
  /\ Idle
  /\ viewer = "bootstrapping"
  /\ viewer' = "ready"
  /\ session' = TRUE
  /\ UNCHANGED <<destroyed, shown, doc, loadTask, loadToken, requested, token,
                 pc, awaits, aborted, open, totalPages>>

\* The body of runtime.cleanup.
Cleanup ==
  /\ loadToken' = loadToken + 1
  /\ TakeLoadTask
  /\ ClearActiveDocument
  /\ session' = FALSE

\* createViewer rejected: bootstrapRuntime cleans the runtime up.
BootstrapFailed ==
  /\ Idle
  /\ viewer = "bootstrapping"
  /\ viewer' = "failed"
  /\ Cleanup
  /\ UNCHANGED <<destroyed, requested, token, pc, awaits, totalPages>>

\* DestroyRef: the component is gone, its effects with it.
Destroy ==
  /\ Idle
  /\ ~destroyed
  /\ destroyed' = TRUE
  /\ Cleanup
  /\ UNCHANGED <<viewer, requested, token, pc, awaits, totalPages>>

-----------------------------------------------------------------------------
(* loadDocument, one action per stretch of code between two awaits. *)

\* Fault: the page count of the document before stays on show.
LoadSource_KeepsCount(l) ==
  /\ viewer = "ready"
  /\ ~destroyed
  /\ session
  /\ l = requested + 1
  /\ requested' = l
  /\ loadToken' = loadToken + 1
  /\ token' = [token EXCEPT ![l] = loadToken + 1]
  /\ TakeLoadTask
  /\ awaits' = [awaits EXCEPT ![l] = loadTask]
  /\ Goto(l, "cancelling")
  /\ UNCHANGED <<viewer, destroyed, session, shown, doc, open, totalPages>>

\* The src effect calls loadSource, which calls loadDocument: everything up to
\* the await of cancelActiveLoadTask.  Nobody waits for the previous load.
LoadSource(l) ==
  /\ viewer = "ready"
  /\ ~destroyed
  /\ session
  /\ l = requested + 1
  /\ requested' = l
  /\ totalPages' = NoLoad
  /\ loadToken' = loadToken + 1
  /\ token' = [token EXCEPT ![l] = loadToken + 1]
  /\ TakeLoadTask
  /\ awaits' = [awaits EXCEPT ![l] = loadTask]
  /\ Goto(l, "cancelling")
  /\ UNCHANGED <<viewer, destroyed, session, shown, doc, open>>

\* Fault: the load waits for the end of the one it superseded.
CancelSettles_WaitsItsTurn(l) ==
  /\ MayResume(l)
  /\ \A m \in 1 .. l - 1 : pc[m] # "fetching"
  /\ ClearActiveDocument
  /\ Goto(l, IF session THEN "creating" ELSE "failed")
  /\ UNCHANGED <<viewer, destroyed, session, loadTask, loadToken, requested,
                 token, awaits, aborted, totalPages>>

\* The awaited destroy() settled; the code goes on whatever the token says.
\* It clears the active document and asks the adapter for a task with the
\* session of this moment; the adapter rejects a null session.
CancelSettles(l) ==
  /\ MayResume(l)
  /\ ClearActiveDocument
  /\ Goto(l, IF session THEN "creating" ELSE "failed")
  /\ UNCHANGED <<viewer, destroyed, session, loadTask, loadToken, requested,
                 token, awaits, aborted, totalPages>>

\* adapter.loadDocument answered: this.loadTask is set, stale or not.
TaskCreated(l) ==
  /\ Idle
  /\ pc[l] = "creating"
  /\ loadTask' = l
  /\ Goto(l, "fetching")
  /\ UNCHANGED <<viewer, destroyed, session, shown, doc, loadToken, requested,
                 token, awaits, aborted, open, totalPages>>

\* adapter.loadDocument rejected.  The await stands outside the try, so the
\* rejection leaves loadDocument without a token check.
TaskRefused(l) ==
  /\ Idle
  /\ pc[l] = "creating"
  /\ Goto(l, "failed")
  /\ UNCHANGED <<viewer, destroyed, session, shown, doc, loadTask, loadToken,
                 requested, token, awaits, aborted, open, totalPages>>

\* Fault: the stale document is dropped without being destroyed.
StaleDocumentArrives_Leaks(l) ==
  /\ Idle
  /\ pc[l] = "fetching"
  /\ IsStale(l)
  /\ Goto(l, "ignored")
  /\ open' = open \cup {l}
  /\ UNCHANGED <<viewer, destroyed, session, shown, doc, loadTask, loadToken,
                 requested, token, awaits, aborted, totalPages>>

\* Fault: onLoaded is called before the token check.
StaleDocumentArrives_Announces(l) ==
  /\ Idle
  /\ pc[l] = "fetching"
  /\ IsStale(l)
  /\ Goto(l, "ignored")
  /\ totalPages' = l
  /\ UNCHANGED <<viewer, destroyed, session, shown, doc, loadTask, loadToken,
                 requested, token, awaits, aborted, open>>

\* The document of a load nobody wants any more arrived: destroyed at once.
StaleDocumentArrives(l) ==
  /\ Idle
  /\ pc[l] = "fetching"
  /\ IsStale(l)
  /\ Goto(l, "ignored")
  /\ UNCHANGED <<viewer, destroyed, session, shown, doc, loadTask, loadToken,
                 requested, token, awaits, aborted, open, totalPages>>

\* The document of the current load arrived: it is published.
DocumentArrives(l) ==
  /\ Idle
  /\ pc[l] = "fetching"
  /\ ~IsStale(l)
  /\ Goto(l, "loaded")
  /\ loadTask' = NoLoad
  /\ doc' = l
  /\ shown' = l
  /\ open' = open \cup {l}
  /\ totalPages' = l
  /\ UNCHANGED <<viewer, destroyed, session, loadToken, requested, token,
                 awaits, aborted>>

\* loadTask.promise rejected.  this.loadTask is reset before the token check.
LoadRejects(l) ==
  /\ Idle
  /\ pc[l] = "fetching"
  /\ loadTask' = NoLoad
  /\ Goto(l, IF IsStale(l) THEN "ignored" ELSE "failed")
  /\ UNCHANGED <<viewer, destroyed, session, shown, doc, loadToken, requested,
                 token, awaits, aborted, open, totalPages>>

-----------------------------------------------------------------------------
\* The steps of one load that follow its call.
LoadStep(l) ==
  \/ CancelSettles(l)
  \/ TaskCreated(l)
  \/ TaskRefused(l)
  \/ StaleDocumentArrives(l)
  \/ DocumentArrives(l)
  \/ LoadRejects(l)

Next ==
  \/ Bootstrap
  \/ ViewerCreated
  \/ BootstrapFailed
  \/ Destroy
  \/ \E l \in Load : LoadSource(l) \/ LoadStep(l)

Spec == Init /\ [][Next]_vars

\* Promises of the adapter settle, except that a task given to destroy() may
\* stay pending for ever.  Nobody is obliged to change src or to destroy.
AdapterAnswers ==
  \A l \in Load : WF_vars(LoadStep(l) /\ (pc[l] = "fetching" => l \notin aborted))

FairSpec == Spec /\ AdapterAnswers

-----------------------------------------------------------------------------
(* Safety. *)

\* The documents the adapter handed over and nobody destroyed are exactly the
\* active one, and the pdf.js viewer is attached to it: no load, however late
\* it answers, leaves a document open behind (destroyDocument on the stale
\* path, clearActiveDocument on the others) or the viewer on a destroyed one.
OpenDocumentIsActive ==
  /\ open = {doc} \ {NoLoad}
  /\ shown = doc

\* When the component shows a page count while a document is active, the
\* count is that document's.
CountMatchesDocument ==
  doc # NoLoad /\ totalPages # NoLoad => totalPages = doc

\* loadDocument's "must be bootstrapped" error is unreachable from the
\* component, and a load that is still the newest when it could publish has a
\* live session and finds no document in its way: this.session.setDocument(doc)
\* has no null check and this.doc = doc destroys nothing.
CurrentLoadCanPublish ==
  /\ viewer = "ready" /\ ~destroyed => session
  /\ \A l \in Load :
       pc[l] \in {"creating", "fetching"} /\ ~IsStale(l) => session /\ doc = NoLoad

\* After the component is gone no load publishes: no document is active.
DestroyedShowsNothing == destroyed => doc = NoLoad /\ open = {}

\* Documents are published in the order they were asked for: a slow early
\* load never replaces the document of a later one.
PublishesInOrder ==
  [][doc' \notin {doc, NoLoad} =>
       \A m \in Load : pc[m] = "loaded" => m < doc']_vars

(* Liveness. *)

\* The newest load ends, unless a newer one or a cleanup supersedes it.
NewestLoadSettles ==
  \A l \in Load : pc[l] \in Waiting ~> pc[l] \in Finished \/ IsStale(l)

-----------------------------------------------------------------------------
(* What the port promises of stale loads and the code does not keep. *)

\* "Replace the active document; stale loads are ignored by the runtime": the
\* published document is only taken away by a newer load or by cleanup.
NewestDocumentSurvives ==
  [][doc # NoLoad /\ doc' = NoLoad =>
       loadToken' # loadToken \/ token[doc] # loadToken]_vars
=============================================================================
