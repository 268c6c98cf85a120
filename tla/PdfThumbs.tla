------------------------------ MODULE PdfThumbs ------------------------------
(***************************************************************************)
(* The thumbnail rail of the PDF viewer on top of the document lifecycle:  *)
(* renderThumbs and renderThumbBatch of HellPdfRuntime, the component's    *)
(* effect that hands over the mounted canvases, and the rail that mounts   *)
(* and unmounts them.  A batch reads this.session, this.doc and            *)
(* this.loadToken again after every await, so the loads of PdfRuntime run  *)
(* between any two of its canvases.                                        *)
(*                                                                         *)
(* A canvas is one DOM element: mounted once, never mounted again.         *)
(***************************************************************************)
EXTENDS PdfRuntime

CONSTANTS
  Canvas,      \* the canvas elements the rail may ever mount
  MaxBatches   \* bound: how many batches are handed over

Batch == 1 .. MaxBatches
NoCanvas == "no canvas"

ASSUME CanvasAssumption == NoCanvas \notin Canvas /\ MaxBatches \in Nat

VARIABLES
  overviewOpen,  \* the component's overviewOpen signal, `shouldContinue`
  rail,          \* per canvas: not yet mounted, mounted, gone
  railChanged,   \* a signal the canvases effect reads changed since it ran
  asked,         \* the canvases its microtask is going to hand over, if any
  generation,    \* thumbBatchGeneration: the newest batch
  stage,         \* per batch: where its promise stands
  window,        \* per batch: the canvases it still has to visit
  batchToken,    \* per batch: loadToken when it started to run
  drawing,       \* per batch: the canvas its renderThumbnail works on
  source,        \* per batch: the document that render reads
  marker,        \* renderedThumbs: per canvas the token, 0 when absent
  picture        \* per canvas: the document whose page it shows, or how
                 \* renderThumbnail ended without showing one

\* renderThumbnail threw; it found no 2D context and returned.
Failed == MaxLoads + 1
NoContext == MaxLoads + 2

effectVars == <<railChanged, asked>>
thumbVars == <<overviewOpen, rail, effectVars, generation, stage, window, batchToken,
               drawing, source, marker, picture>>

ThumbInit ==
  /\ Init
  /\ overviewOpen = FALSE
  /\ rail = [c \in Canvas |-> "new"]
  /\ railChanged = FALSE
  /\ asked = {}
  /\ generation = 0
  /\ stage = [b \in Batch |-> "idle"]
  /\ window = [b \in Batch |-> {}]
  /\ batchToken = [b \in Batch |-> 0]
  /\ drawing = [b \in Batch |-> NoCanvas]
  /\ source = [b \in Batch |-> NoLoad]
  /\ marker = [c \in Canvas |-> 0]
  /\ picture = [c \in Canvas |-> NoLoad]

-----------------------------------------------------------------------------
(* The rail. *)

Mounted == {c \in Canvas : rail[c] = "mounted"}

\* No microtask waits: neither a load's nor the canvases effect's.
Settled == Idle /\ asked = {}

Unmount(cs) ==
  /\ rail' = [c \in Canvas |-> IF c \in cs THEN "gone" ELSE rail[c]]
  /\ railChanged' = (railChanged \/ cs # {})

\* toggleOverview.  Closing discards the canvases of the rail.
ToggleOverview ==
  /\ Settled
  /\ ~destroyed
  /\ overviewOpen' = ~overviewOpen
  /\ rail' = [c \in Canvas |-> IF c \in Mounted THEN "gone" ELSE rail[c]]
  /\ railChanged' = TRUE
  /\ UNCHANGED <<vars, asked, generation, stage, window, batchToken, drawing,
                 source, marker, picture>>

\* Scrolling, or a new page count, mounts and unmounts canvases.
RenderRail(c) ==
  /\ Settled
  /\ overviewOpen
  /\ ~destroyed
  /\ \/ rail[c] = "new" /\ totalPages # NoLoad /\ rail' = [rail EXCEPT ![c] = "mounted"]
     \/ rail[c] = "mounted" /\ rail' = [rail EXCEPT ![c] = "gone"]
  /\ railChanged' = TRUE
  /\ UNCHANGED <<vars, overviewOpen, asked, generation, stage, window,
                 batchToken, drawing, source, marker, picture>>

\* The src effect runs before the template of the same change detection: a rail
\* whose page count was reset is empty when the load has barely begun.
ChangeSource(l) ==
  /\ LoadSource(l)
  /\ Unmount(IF totalPages' = NoLoad THEN Mounted ELSE {})
  /\ UNCHANGED <<overviewOpen, asked, generation, stage, window, batchToken,
                 drawing, source, marker, picture>>

\* The component leaves the page, its canvases with it.
LeavePage ==
  /\ asked = {}
  /\ Destroy
  /\ Unmount(Mounted)
  /\ UNCHANGED <<overviewOpen, asked, generation, stage, window, batchToken,
                 drawing, source, marker, picture>>

-----------------------------------------------------------------------------
(* renderThumbs and renderThumbBatch. *)

\* The canvases effect: with the overview open and a document, what the rail
\* mounts is handed over in a microtask.  hasDocument is no signal: an effect
\* that finds no document does not run again when one comes.
AskThumbs ==
  /\ railChanged /\ asked = {}
  /\ generation < MaxBatches
  /\ railChanged' = FALSE
  /\ asked' = IF overviewOpen /\ doc # NoLoad /\ ~destroyed THEN Mounted ELSE {}
  /\ UNCHANGED <<vars, overviewOpen, rail, generation, stage, window,
                 batchToken, drawing, source, marker, picture>>

\* The microtask, whatever a load did to the document and the rail before it:
\* every batch is a snapshot of what the rail mounted.
RenderThumbs(b) ==
  /\ asked # {}
  /\ b = generation + 1
  /\ generation' = b
  /\ stage' = [stage EXCEPT ![b] = "queued"]
  /\ window' = [window EXCEPT ![b] = asked]
  /\ asked' = {}
  /\ UNCHANGED <<vars, overviewOpen, rail, railChanged, batchToken, drawing,
                 source, marker, picture>>

\* Fault: a batch starts without waiting for the queue.
QueueReached_Unserialized(b) == TRUE

\* thumbRenderQueue: a batch runs when the one queued before it is over.
QueueReached(b) == \A a \in Batch : a < b => stage[a] = "done"

\* The entry of renderThumbBatch, up to the loop.
StartBatch(b) ==
  /\ Settled
  /\ stage[b] = "queued"
  /\ QueueReached(b)
  /\ IF doc = NoLoad \/ ~session \/ ~overviewOpen
       THEN /\ stage' = [stage EXCEPT ![b] = "done"]
            /\ UNCHANGED batchToken
       ELSE /\ stage' = [stage EXCEPT ![b] = "running"]
            /\ batchToken' = [batchToken EXCEPT ![b] = loadToken]
  /\ UNCHANGED <<vars, overviewOpen, rail, effectVars, generation, window, drawing, source,
                 marker, picture>>

\* Fault: a batch that finds nothing to do never gives the queue back.
StopBatch_OnlyAtEnd(b) ==
  /\ Settled
  /\ stage[b] = "running"
  /\ drawing[b] = NoCanvas
  /\ window[b] = {}
  /\ stage' = [stage EXCEPT ![b] = "done"]
  /\ UNCHANGED <<vars, overviewOpen, rail, effectVars, generation, window, batchToken,
                 drawing, source, marker, picture>>

Superseded(b) == b # generation

\* Fault: a batch ends at a canvas another batch has painted.
StopBatch_AtPainted(b) ==
  /\ Settled
  /\ stage[b] = "running"
  /\ drawing[b] = NoCanvas
  /\ \/ window[b] = {} \/ Superseded(b) \/ ~overviewOpen
     \/ \E c \in window[b] : marker[c] = batchToken[b]
  /\ stage' = [stage EXCEPT ![b] = "done"]
  /\ UNCHANGED <<vars, overviewOpen, rail, effectVars, generation, window, batchToken,
                 drawing, source, marker, picture>>

\* Between two canvases the batch may find that it has to stop.
StopBatch(b) ==
  /\ Settled
  /\ stage[b] = "running"
  /\ drawing[b] = NoCanvas
  /\ window[b] = {} \/ Superseded(b) \/ ~overviewOpen
  /\ stage' = [stage EXCEPT ![b] = "done"]
  /\ UNCHANGED <<vars, overviewOpen, rail, effectVars, generation, window, batchToken,
                 drawing, source, marker, picture>>

NeedsPaint(b, c) == rail[c] = "mounted" /\ marker[c] # batchToken[b]

\* One turn of the loop for a canvas that needs no painting: off the rail, or
\* painted for this load already.
SkipCanvas(b, c) ==
  /\ Settled
  /\ stage[b] = "running"
  /\ drawing[b] = NoCanvas
  /\ ~Superseded(b)
  /\ overviewOpen
  /\ c \in window[b]
  /\ ~NeedsPaint(b, c)
  /\ window' = [window EXCEPT ![b] = @ \ {c}]
  /\ UNCHANGED <<vars, overviewOpen, rail, effectVars, generation, stage, batchToken,
                 drawing, source, marker, picture>>

\* One turn of the loop up to the await of renderThumbnail.
DrawCanvas(b, c) ==
  /\ Settled
  /\ stage[b] = "running"
  /\ drawing[b] = NoCanvas
  /\ ~Superseded(b)
  /\ overviewOpen
  /\ c \in window[b]
  /\ NeedsPaint(b, c)
  /\ window' = [window EXCEPT ![b] = @ \ {c}]
  /\ marker' = [marker EXCEPT ![c] = batchToken[b]]
  /\ drawing' = [drawing EXCEPT ![b] = c]
  /\ source' = [source EXCEPT ![b] = IF session THEN doc ELSE NoLoad]
  /\ UNCHANGED <<vars, overviewOpen, rail, effectVars, generation, stage, batchToken,
                 picture>>

\* The render lands, or there is no 2D context to render into.  Without a
\* session or a document renderThumbnail can only throw.
DrawLands(b) ==
  /\ Settled
  /\ drawing[b] # NoCanvas
  /\ source[b] # NoLoad
  /\ \E shows \in {source[b], NoContext} :
       picture' = [picture EXCEPT ![drawing[b]] = shows]
  /\ drawing' = [drawing EXCEPT ![b] = NoCanvas]
  /\ UNCHANGED <<vars, overviewOpen, rail, effectVars, generation, stage, window,
                 batchToken, source, marker>>

\* The render throws: the canvas no longer counts as painted.
DrawFails(b) ==
  /\ Settled
  /\ drawing[b] # NoCanvas
  /\ picture' = [picture EXCEPT ![drawing[b]] = Failed]
  /\ marker' = [marker EXCEPT ![drawing[b]] = 0]
  /\ drawing' = [drawing EXCEPT ![b] = NoCanvas]
  /\ UNCHANGED <<vars, overviewOpen, rail, effectVars, generation, stage, window,
                 batchToken, source>>

-----------------------------------------------------------------------------

BatchStep(b) ==
  \/ StartBatch(b)
  \/ StopBatch(b)
  \/ \E c \in Canvas : SkipCanvas(b, c) \/ DrawCanvas(b, c)
  \/ DrawLands(b)
  \/ DrawFails(b)

\* A load goes on; an answer of the adapter waits for the microtasks.
LoadGoesOn(l) ==
  /\ LoadStep(l)
  /\ asked = {} \/ pc[l] = "cancelling"
  /\ UNCHANGED thumbVars

ViewerStep ==
  /\ asked = {}
  /\ Bootstrap \/ ViewerCreated \/ BootstrapFailed
  /\ UNCHANGED thumbVars

ThumbNext ==
  \/ ViewerStep
  \/ LeavePage
  \/ \E l \in Load : ChangeSource(l) \/ LoadGoesOn(l)
  \/ ToggleOverview
  \/ \E c \in Canvas : RenderRail(c)
  \/ AskThumbs
  \/ \E b \in Batch : RenderThumbs(b) \/ BatchStep(b)

AllThumbVars == <<vars, thumbVars>>

ThumbSpec == ThumbInit /\ [][ThumbNext]_AllThumbVars

\* Microtasks run and renders settle.
FairThumbSpec ==
  /\ ThumbSpec
  /\ \A b \in Batch : WF_AllThumbVars(RenderThumbs(b)) /\ WF_AllThumbVars(BatchStep(b))
  /\ \A l \in Load :
       WF_AllThumbVars(LoadGoesOn(l) /\ (pc[l] = "fetching" => l \notin aborted))

-----------------------------------------------------------------------------
(* Safety. *)

\* "Serializing removes the overlap outright": no canvas is ever the target of
\* two renders, which pdf.js would refuse; nor do two batches rasterize at once.
OneRenderAtATime ==
  \A a, b \in Batch :
    drawing[a] # NoCanvas /\ drawing[b] # NoCanvas => a = b

\* A canvas that counts as painted, and is not being painted, shows something,
\* unless there was nothing to paint into: a failed render never leaves a blank
\* row that later batches skip.
MarkedIsPainted ==
  \A c \in Canvas :
    marker[c] # 0 /\ (\A b \in Batch : drawing[b] # c) => picture[c] \notin {NoLoad, Failed}

\* A row of the rail shows a page of the document whose pages the rail counts,
\* though a batch reads this.doc and this.loadToken afresh after every render and
\* loads begin, publish and clear between any two: no thumbnail of the document
\* before stays on the rail, and none of the next is drawn into an old row.
RowsShowDocument ==
  \A c \in Mounted : picture[c] \in {NoLoad, Failed, NoContext, totalPages}

\* No row is forgotten.  Once the effect has run and the queue is empty, every
\* canvas on the rail has had its turn, and one whose render failed is no longer
\* marked, so that the next batch tries it again; although batches stop as soon as
\* a newer one is asked for, skip what left the rail or is painted, and give up
\* when the document is away: "the pages actually on screen" do not "sit blank".
NoRowForgotten ==
  Settled /\ ~railChanged /\ (\A b \in Batch : stage[b] \in {"idle", "done"})
      /\ doc # NoLoad
    => \A c \in Mounted : picture[c] # NoLoad /\ (picture[c] = Failed => marker[c] = 0)

(* Liveness. *)

\* The queue drains: every batch handed over comes to an end, whatever its
\* renders do and however many batches are queued behind it.
QueueDrains == \A b \in Batch : stage[b] = "queued" ~> stage[b] = "done"

=============================================================================
