-------------------------- MODULE PdfRuntimeProofs --------------------------
(***************************************************************************)
(* Safety of PdfRuntime for every number of loads.  The strengthening that *)
(* makes the checked invariants inductive says how tokens are given out:   *)
(* one per request and one per cleanup, in order, so that at most one load *)
(* is current, and none after the component's destruction.                 *)
(*                                                                         *)
(* Then the thumbnail queue of PdfThumbs, for every number of batches and  *)
(* canvases: a batch runs only when the ones before it are over.           *)
(***************************************************************************)
EXTENDS PdfThumbs, TLAPS

\* Every token belongs to a request or to one of the two cleanups.
TokensCounted ==
  loadToken = requested + (IF destroyed THEN 1 ELSE 0)
                        + (IF viewer = "failed" THEN 1 ELSE 0)

\* The calls made so far are those up to `requested`.
CallsInOrder ==
  \A l \in Load : /\ pc[l] = "idle" <=> requested < l
                  /\ l <= requested => token[l] <= loadToken

\* Later calls hold later tokens.
TokensIncrease ==
  \A l, m \in Load : l < m /\ m <= requested => token[l] < token[m]

\* A current load in flight has its session and its component.
CurrentLoadIsAlive ==
  \A l \in Load : pc[l] \in Waiting /\ ~IsStale(l) => session /\ ~destroyed

IInv ==
  /\ TypeOK
  /\ TokensCounted
  /\ CallsInOrder
  /\ TokensIncrease
  /\ CurrentLoadIsAlive
  /\ OpenDocumentIsActive
  /\ CurrentLoadCanPublish
  /\ DestroyedShowsNothing

-----------------------------------------------------------------------------

\* The initial state: nothing asked for, nothing shown.
LEMMA InitEstablishesIInv == Init => IInv
  <1> SUFFICES ASSUME Init PROVE IInv
    OBVIOUS
  <1> USE DEF Init, Load, MaybeLoad, NoLoad
  <1>1. requested \in 0 .. MaxLoads /\ loadToken \in requested .. requested + 2
    BY MaxLoadsAssumption
  <1>2. TypeOK
    BY <1>1 DEF TypeOK
  <1>3. TokensCounted /\ OpenDocumentIsActive /\ DestroyedShowsNothing
    BY DEF TokensCounted, OpenDocumentIsActive, DestroyedShowsNothing
  <1>4. \A l \in Load : pc[l] = "idle" /\ requested < l
    BY MaxLoadsAssumption
  <1>5. CallsInOrder /\ TokensIncrease
    BY <1>4 DEF CallsInOrder, TokensIncrease
  <1>6. CurrentLoadIsAlive /\ CurrentLoadCanPublish
    BY <1>4 DEF CurrentLoadIsAlive, CurrentLoadCanPublish, Waiting
  <1> QED
    BY <1>2, <1>3, <1>5, <1>6 DEF IInv

\* Two calls that hold the same token are the same call.
LEMMA OneCurrentLoad ==
  ASSUME IInv,
         NEW l \in Load, pc[l] # "idle", ~IsStale(l),
         NEW m \in Load, pc[m] # "idle", ~IsStale(m)
  PROVE  l = m
  <1>1. l <= requested /\ m <= requested
    BY DEF IInv, CallsInOrder, TypeOK, Load
  <1>2. token[l] = token[m] /\ token[l] \in Nat
    BY DEF IsStale, IInv, TypeOK
  <1>3. ~ (l < m) /\ ~ (m < l)
    BY <1>1, <1>2 DEF IInv, TokensIncrease
  <1> QED
    BY <1>3 DEF Load

\* cleanup leaves no current load, no document and no session.
LEMMA CleanupPreservesIInv ==
  ASSUME IInv, Cleanup, UNCHANGED <<requested, token, pc, awaits, totalPages>>,
         \/ ~destroyed /\ destroyed' /\ destroyed' \in BOOLEAN
                       /\ UNCHANGED viewer
         \/ viewer = "bootstrapping" /\ viewer' = "failed" /\ UNCHANGED destroyed
  PROVE  IInv'
  <1> USE DEF IInv, Cleanup, TakeLoadTask, ClearActiveDocument, Load, MaybeLoad,
              NoLoad
  <1>1. TokensCounted'
    BY DEF TokensCounted, TypeOK
  <1>2. TypeOK'
    <2>1. loadToken' \in requested' .. requested' + 2
      BY <1>1 DEF TypeOK, TokensCounted
    <2>2. aborted' \in SUBSET Load /\ loadTask' \in MaybeLoad
      BY DEF TypeOK
    <2> QED
      BY <2>1, <2>2 DEF TypeOK
  <1>3. CallsInOrder' /\ TokensIncrease'
    BY DEF CallsInOrder, TokensIncrease, TypeOK
  <1>4. \A l \in Load : pc[l] \in Waiting => IsStale(l)'
    BY DEF IsStale, CallsInOrder, TypeOK, Waiting
  <1>5. CurrentLoadIsAlive'
    BY <1>4 DEF CurrentLoadIsAlive
  <1>6. viewer' # "ready" \/ destroyed'
    BY DEF TypeOK, CurrentLoadCanPublish
  <1> QED
    BY <1>1, <1>2, <1>3, <1>4, <1>5, <1>6
    DEF OpenDocumentIsActive, CurrentLoadCanPublish, DestroyedShowsNothing,
        Waiting

\* Asking for a document gives the newest call the newest token.
LEMMA LoadSourcePreservesIInv ==
  ASSUME IInv, NEW l \in Load, LoadSource(l)
  PROVE  IInv'
  <1> USE DEF IInv, LoadSource, TakeLoadTask, Goto, Load, MaybeLoad, NoLoad
  <1>1. TypeOK'
    <2>1. loadToken' \in requested' .. requested' + 2 /\ requested' \in 0 .. MaxLoads
      BY DEF TypeOK
    <2>2. token' \in [Load -> Nat] /\ awaits' \in [Load -> MaybeLoad]
      BY DEF TypeOK
    <2>3. pc' \in [Load -> {"idle"} \cup Waiting \cup Finished]
      BY DEF TypeOK, Waiting
    <2>4. aborted' \in SUBSET Load /\ loadTask' \in MaybeLoad
      BY DEF TypeOK
    <2> QED
      BY <2>1, <2>2, <2>3, <2>4 DEF TypeOK
  <1>2. TokensCounted'
    BY DEF TokensCounted, TypeOK
  <1>3. CallsInOrder'
    BY DEF CallsInOrder, TypeOK
  <1>4. TokensIncrease'
    BY DEF TokensIncrease, CallsInOrder, TypeOK
  <1>5. \A m \in Load : m # l /\ pc[m] # "idle" => IsStale(m)'
    BY DEF IsStale, CallsInOrder, TypeOK
  <1>6. CurrentLoadIsAlive'
    BY <1>5 DEF CurrentLoadIsAlive, TypeOK, Waiting
  <1>7. CurrentLoadCanPublish'
    BY <1>5 DEF CurrentLoadCanPublish, TypeOK
  <1> QED
    BY <1>1, <1>2, <1>3, <1>4, <1>6, <1>7
    DEF OpenDocumentIsActive, DestroyedShowsNothing

\* Every step of a load in flight keeps the calls and their tokens.
LEMMA LoadStepPreservesIInv ==
  ASSUME IInv, NEW l \in Load, LoadStep(l)
  PROVE  IInv'
  <1> USE DEF IInv, Goto, Load, MaybeLoad, NoLoad
  <1>1. /\ UNCHANGED <<viewer, destroyed, session, loadToken, requested, token>>
        /\ pc[l] # "idle"
        /\ \E place \in {"creating", "fetching"} \cup Finished :
             pc' = [pc EXCEPT ![l] = place]
    BY DEF LoadStep, CancelSettles, MayResume, TaskCreated, TaskRefused,
           StaleDocumentArrives, DocumentArrives, LoadRejects, Finished
  <1>2. TypeOK'
    <2>1. pc' \in [Load -> {"idle"} \cup Waiting \cup Finished]
      BY <1>1 DEF TypeOK, Waiting
    <2>2. /\ shown' \in MaybeLoad /\ doc' \in MaybeLoad
          /\ loadTask' \in MaybeLoad /\ totalPages' \in MaybeLoad
          /\ aborted' \in SUBSET Load /\ open' \in SUBSET Load
          /\ awaits' \in [Load -> MaybeLoad]
      BY DEF TypeOK, LoadStep, CancelSettles, TaskCreated, TaskRefused,
             StaleDocumentArrives, DocumentArrives, LoadRejects,
             ClearActiveDocument
    <2> QED
      BY <1>1, <2>1, <2>2 DEF TypeOK
  <1>3. TokensCounted' /\ CallsInOrder' /\ TokensIncrease'
    BY <1>1 DEF TokensCounted, CallsInOrder, TokensIncrease, TypeOK, Finished
  <1>4. \A m \in Load : IsStale(m)' = IsStale(m)
    BY <1>1 DEF IsStale
  <1>5. CurrentLoadIsAlive'
    <2>1. \A m \in Load : pc'[m] \in Waiting => pc[m] \in Waiting
      BY DEF LoadStep, CancelSettles, MayResume, TaskCreated, TaskRefused,
             StaleDocumentArrives, DocumentArrives, LoadRejects, Waiting,
             Finished, TypeOK
    <2> QED
      BY <1>1, <1>4, <2>1 DEF CurrentLoadIsAlive
  <1>6. OpenDocumentIsActive' /\ CurrentLoadCanPublish' /\ DestroyedShowsNothing'
    <2>1. CASE CancelSettles(l)
      BY <1>1, <1>4, <2>1
      DEF CancelSettles, MayResume, ClearActiveDocument, OpenDocumentIsActive,
          CurrentLoadCanPublish, DestroyedShowsNothing, TypeOK
    <2>2. CASE TaskCreated(l)
      BY <1>1, <1>4, <2>2
      DEF TaskCreated, OpenDocumentIsActive, CurrentLoadCanPublish,
          DestroyedShowsNothing, TypeOK
    <2>3. CASE TaskRefused(l) \/ StaleDocumentArrives(l) \/ LoadRejects(l)
      BY <1>1, <1>4, <2>3
      DEF TaskRefused, StaleDocumentArrives, LoadRejects, OpenDocumentIsActive,
          CurrentLoadCanPublish, DestroyedShowsNothing, TypeOK
    <2>4. CASE DocumentArrives(l)
      <3>1. doc = NoLoad /\ ~destroyed
        BY <2>4 DEF DocumentArrives, CurrentLoadCanPublish, CurrentLoadIsAlive,
                    Waiting
      <3>2. OpenDocumentIsActive' /\ DestroyedShowsNothing'
        BY <2>4, <3>1 DEF DocumentArrives, OpenDocumentIsActive,
                          DestroyedShowsNothing
      <3>3. \A m \in Load : m # l /\ pc[m] # "idle" => IsStale(m)
        BY <2>4, OneCurrentLoad DEF DocumentArrives
      <3>4. CurrentLoadCanPublish'
        BY <1>1, <1>4, <2>4, <3>3 DEF DocumentArrives, CurrentLoadCanPublish, TypeOK
      <3> QED
        BY <3>2, <3>4
    <2> QED
      BY <2>1, <2>2, <2>3, <2>4 DEF LoadStep
  <1> QED
    BY <1>2, <1>3, <1>5, <1>6

LEMMA StepPreservesIInv == IInv /\ [Next]_vars => IInv'
  <1> SUFFICES ASSUME IInv, [Next]_vars PROVE IInv'
    OBVIOUS
  <1>1. CASE Bootstrap
    BY <1>1 DEF Bootstrap, IInv, TypeOK, TokensCounted, CallsInOrder,
       TokensIncrease, CurrentLoadIsAlive, OpenDocumentIsActive, IsStale,
       CurrentLoadCanPublish, DestroyedShowsNothing
  <1>2. CASE ViewerCreated
    BY <1>2 DEF ViewerCreated, IInv, TypeOK, TokensCounted, CallsInOrder,
       TokensIncrease, CurrentLoadIsAlive, OpenDocumentIsActive, IsStale,
       CurrentLoadCanPublish, DestroyedShowsNothing
  <1>3. CASE BootstrapFailed
    BY <1>3, CleanupPreservesIInv DEF BootstrapFailed
  <1>4. CASE Destroy
    BY <1>4, CleanupPreservesIInv DEF Destroy
  <1>5. CASE \E l \in Load : LoadSource(l)
    BY <1>5, LoadSourcePreservesIInv
  <1>6. CASE \E l \in Load : LoadStep(l)
    BY <1>6, LoadStepPreservesIInv
  <1>7. CASE UNCHANGED vars
    BY <1>7 DEF vars, IInv, TypeOK, TokensCounted, CallsInOrder,
       TokensIncrease, CurrentLoadIsAlive, OpenDocumentIsActive, IsStale,
       CurrentLoadCanPublish, DestroyedShowsNothing
  <1> QED
    BY <1>1, <1>2, <1>3, <1>4, <1>5, <1>6, <1>7 DEF Next

\* The strengthening holds for every number of loads.
THEOREM IInvHolds == Spec => []IInv
  BY InitEstablishesIInv, StepPreservesIInv, PTL DEF Spec

-----------------------------------------------------------------------------

\* The runtime's fields keep their types, and a token is spent exactly on each
\* request and each cleanup.
THEOREM TypeCorrect == Spec => []TypeOK
  <1>1. IInv => TypeOK
    BY DEF IInv
  <1> QED
    BY <1>1, IInvHolds, PTL

\* No number of overlapping loads leaks a document or leaves the viewer on a
\* destroyed one.
THEOREM NoDocumentLeaks == Spec => []OpenDocumentIsActive
  <1>1. IInv => OpenDocumentIsActive
    BY DEF IInv
  <1> QED
    BY <1>1, IInvHolds, PTL

\* setDocument never meets a missing session, nor a document it would replace.
THEOREM PublishIsSafe == Spec => []CurrentLoadCanPublish
  <1>1. IInv => CurrentLoadCanPublish
    BY DEF IInv
  <1> QED
    BY <1>1, IInvHolds, PTL

\* Nothing is published after the component's destruction.
THEOREM NothingAfterDestroy == Spec => []DestroyedShowsNothing
  <1>1. IInv => DestroyedShowsNothing
    BY DEF IInv
  <1> QED
    BY <1>1, IInvHolds, PTL

\* A slow early load never replaces the document of a later one.
THEOREM LoadsPublishInOrder == Spec => PublishesInOrder
  <1> DEFINE InOrder == doc' \notin {doc, NoLoad} =>
                          \A m \in Load : pc[m] = "loaded" => m < doc'
  <1>1. IInv /\ [Next]_vars => [InOrder]_vars
    <2> SUFFICES ASSUME IInv, Next, doc' \notin {doc, NoLoad},
                        NEW m \in Load, pc[m] = "loaded"
                 PROVE  m < doc'
      OBVIOUS
    <2>1. PICK l \in Load : DocumentArrives(l)
      BY DEF Next, Bootstrap, ViewerCreated, BootstrapFailed, Destroy, Cleanup,
             ClearActiveDocument, LoadSource, LoadStep, CancelSettles,
             TaskCreated, TaskRefused, StaleDocumentArrives, LoadRejects
    <2>2. doc' = l /\ pc[l] = "fetching" /\ token[l] = loadToken
      BY <2>1 DEF DocumentArrives, IsStale
    <2>3. m <= requested /\ l <= requested
      BY <2>2 DEF IInv, CallsInOrder, TypeOK, Load
    <2>4. token[m] <= loadToken /\ token[m] \in Nat /\ loadToken \in Nat
      BY <2>3 DEF IInv, CallsInOrder, TypeOK
    <2>5. ~ (l < m)
      BY <2>2, <2>3, <2>4 DEF IInv, TokensIncrease
    <2> QED
      BY <2>2, <2>5 DEF Load
  <1> QED
    BY <1>1, IInvHolds, PTL DEF Spec, PublishesInOrder

\* The request resets the count, the cancellation the document, and publication
\* writes both.
LEMMA CountStep == CountMatchesDocument /\ [Next]_vars => CountMatchesDocument'
  BY DEF Next, vars, Bootstrap, ViewerCreated, BootstrapFailed, Destroy,
         Cleanup, ClearActiveDocument, LoadSource, LoadStep, CancelSettles,
         TaskCreated, TaskRefused, StaleDocumentArrives, DocumentArrives,
         LoadRejects, CountMatchesDocument

\* The page count on show is never that of another document than the active one.
THEOREM CountBelongsToDocument == Spec => []CountMatchesDocument
  <1>1. Init => CountMatchesDocument
    BY DEF Init, CountMatchesDocument
  <1> QED
    BY <1>1, CountStep, PTL DEF Spec

-----------------------------------------------------------------------------
(* The thumbnails *)

Stage == {"idle", "queued", "running", "done"}

ThumbTypeOK ==
  /\ overviewOpen \in BOOLEAN /\ railChanged \in BOOLEAN
  /\ rail \in [Canvas -> {"new", "mounted", "gone"}]
  /\ asked \in SUBSET Canvas
  /\ generation \in 0 .. MaxBatches
  /\ stage \in [Batch -> Stage]
  /\ window \in [Batch -> SUBSET Canvas]
  /\ drawing \in [Batch -> Canvas \union {NoCanvas}]
  /\ source \in [Batch -> MaybeLoad]
  /\ marker \in [Canvas -> Nat]
  /\ batchToken \in [Batch -> Nat]
  /\ picture \in [Canvas -> MaybeLoad \cup {Failed, NoContext}]

\* Batches not handed over yet have not started.
LaterBatchesAreIdle == \A b \in Batch : generation < b => stage[b] = "idle"

\* A batch that runs has let all before it end.
EarlierBatchesAreDone ==
  \A a, b \in Batch : stage[b] = "running" /\ a < b => stage[a] = "done"

\* Only a running batch has a render under way, and it runs with a token.
DrawingRuns ==
  \A b \in Batch : /\ drawing[b] # NoCanvas => stage[b] = "running"
                   /\ stage[b] = "running" => batchToken[b] # 0

ThumbInv ==
  /\ ThumbTypeOK
  /\ LaterBatchesAreIdle
  /\ EarlierBatchesAreDone
  /\ DrawingRuns
  /\ MarkedIsPainted

\* What a batch may rely on in the loads beneath: a document on show was asked
\* for and has a session, and a load that will still publish has reset the count.
ActiveHasSession == doc # NoLoad => session /\ requested > 0

CurrentLoadCountsNothing ==
  \A l \in Load : pc[l] \in Waiting /\ ~IsStale(l) => totalPages = NoLoad

LoadsInv == IInv /\ CountMatchesDocument /\ ActiveHasSession /\ CurrentLoadCountsNothing

\* Rows stand on an open overview with a page count, and a canvas that was never
\* on the rail is in nobody's hands.
RowsAreCounted == Mounted # {} => totalPages # NoLoad /\ overviewOpen /\ ~destroyed

NewIsUntouched ==
  \A c \in Canvas : rail[c] = "new" =>
    /\ picture[c] = NoLoad /\ c \notin asked
    /\ \A b \in Batch : drawing[b] # c /\ c \notin window[b]

\* What is being drawn into a row is a page of the document it counts.
DrawsTheCounted ==
  \A b \in Batch : drawing[b] \in Mounted => source[b] \in {NoLoad, totalPages}

RowsInv == RowsAreCounted /\ NewIsUntouched /\ DrawsTheCounted /\ RowsShowDocument

\* The newest batch still has the canvas to visit, or is drawing it.
InHand(c) ==
  \E b \in Batch : /\ b = generation
                   /\ \/ stage[b] \in {"queued", "running"} /\ c \in window[b]
                      \/ stage[b] = "running" /\ drawing[b] = c

\* With a document on show every row had its turn, is in hand, or an effect or
\* its microtask is still to hand it over.
RowsHaveTurns ==
  doc # NoLoad =>
    \A c \in Mounted :
      \/ railChanged
      \/ c \in asked
      \/ asked = {} /\ (picture[c] # NoLoad \/ InHand(c))

RailInv == ThumbInv /\ RowsInv /\ RowsHaveTurns

\* The values of the canvases' outcome are four kinds.
LEMMA Outcomes == /\ Failed \notin MaybeLoad /\ NoContext \notin MaybeLoad
                  /\ Failed # NoContext /\ NoLoad \in MaybeLoad
  BY MaxLoadsAssumption DEF Failed, NoContext, MaybeLoad, Load, NoLoad

-----------------------------------------------------------------------------
(* The loads beneath. *)

LEMMA LoadsInvStarts == Init => LoadsInv
  <1> SUFFICES ASSUME Init PROVE LoadsInv
    OBVIOUS
  <1>1. CountMatchesDocument /\ ActiveHasSession /\ CurrentLoadCountsNothing
    BY DEF Init, CountMatchesDocument, ActiveHasSession, CurrentLoadCountsNothing, Waiting
  <1> QED
    BY <1>1, InitEstablishesIInv DEF LoadsInv

LEMMA LoadsInvStep == LoadsInv /\ [Next]_vars => LoadsInv'
  <1> SUFFICES ASSUME LoadsInv, [Next]_vars PROVE LoadsInv'
    OBVIOUS
  <1>1. IInv'
    BY StepPreservesIInv DEF LoadsInv
  <1>2. CountMatchesDocument'
    BY CountStep DEF LoadsInv
  <1>3. ActiveHasSession'
    <2>1. ASSUME NEW l \in Load, DocumentArrives(l) PROVE ActiveHasSession'
      BY <2>1 DEF DocumentArrives, ActiveHasSession, LoadsInv, IInv, CurrentLoadCanPublish,
                  CallsInOrder, TypeOK, Load
    <2>2. ASSUME NEW l \in Load, LoadSource(l) PROVE ActiveHasSession'
      BY <2>2 DEF LoadSource, ActiveHasSession, LoadsInv, Load
    <2>3. CASE UNCHANGED <<doc, session, requested>>
      BY <2>3 DEF ActiveHasSession, LoadsInv
    <2>4. CASE doc' = NoLoad
      BY <2>4 DEF ActiveHasSession
    <2> QED
      BY <2>1, <2>2, <2>3, <2>4
         DEF Next, vars, Bootstrap, ViewerCreated, BootstrapFailed, Destroy, Cleanup,
             ClearActiveDocument, LoadStep, CancelSettles, TaskCreated, TaskRefused,
             StaleDocumentArrives, LoadRejects, ActiveHasSession, LoadsInv
  <1>4. CurrentLoadCountsNothing'
    <2> SUFFICES ASSUME NEW m \in Load, pc'[m] \in Waiting, ~IsStale(m)'
                 PROVE  totalPages' = NoLoad
      BY DEF CurrentLoadCountsNothing
    <2>1. ASSUME NEW l \in Load, LoadSource(l) PROVE totalPages' = NoLoad
      BY <2>1 DEF LoadSource
    <2>2. ASSUME NEW l \in Load, DocumentArrives(l) PROVE totalPages' = NoLoad
      <3>1. m # l /\ pc[m] = pc'[m] /\ UNCHANGED <<token, loadToken>>
        BY <2>2 DEF DocumentArrives, Goto, Waiting, LoadsInv, IInv, TypeOK
      <3>2. m = l
        BY <3>1, <2>2, OneCurrentLoad DEF DocumentArrives, IsStale, Waiting, LoadsInv
      <3> QED
        BY <3>1, <3>2
    <2>3. CASE Cleanup /\ UNCHANGED <<pc, token>>
      <3>1. token[m] <= loadToken /\ token[m] \in Nat /\ loadToken \in Nat
        <4>1. pc[m] # "idle" /\ m <= requested
          BY <2>3, MaxLoadsAssumption DEF LoadsInv, IInv, CallsInOrder, TypeOK, Waiting, Load
        <4> QED
          BY <4>1, MaxLoadsAssumption DEF LoadsInv, IInv, CallsInOrder, TypeOK
      <3> QED
        BY <2>3, <3>1 DEF Cleanup, IsStale
    <2>4. ASSUME NEW l \in Load, UNCHANGED <<token, loadToken, totalPages>>,
                 pc'[m] \in Waiting => pc[m] \in Waiting
          PROVE  totalPages' = NoLoad
      BY <2>4 DEF LoadsInv, CurrentLoadCountsNothing, IsStale
    <2>5. ASSUME NEW l \in Load,
                 CancelSettles(l) \/ TaskCreated(l) \/ TaskRefused(l)
                   \/ StaleDocumentArrives(l) \/ LoadRejects(l)
          PROVE  totalPages' = NoLoad
      BY <2>4, <2>5 DEF CancelSettles, MayResume, TaskCreated, TaskRefused, StaleDocumentArrives,
                  LoadRejects, Goto, Waiting, LoadsInv, IInv, TypeOK
    <2>6. CASE UNCHANGED <<token, loadToken, totalPages, pc>>
      BY <2>4, <2>6
    <2> QED
      BY <2>1, <2>2, <2>3, <2>5, <2>6
         DEF Next, vars, Bootstrap, ViewerCreated, BootstrapFailed, Destroy, LoadStep
  <1> QED
    BY <1>1, <1>2, <1>3, <1>4 DEF LoadsInv

\* Every step of the thumbnails is a step of the loads or none.
LEMMA ThumbsLeaveLoads == [ThumbNext]_AllThumbVars => [Next]_vars
  BY DEF ThumbNext, AllThumbVars, ViewerStep, LeavePage, ChangeSource, LoadGoesOn,
         ToggleOverview, RenderRail, AskThumbs, RenderThumbs, BatchStep,
         StartBatch, StopBatch, SkipCanvas, DrawCanvas, DrawLands, DrawFails, Next

\* The loads go on beneath the thumbnails: their invariant holds here too.
LEMMA LoadsBeneath == ThumbSpec => []LoadsInv
  <1>1. ThumbInit => LoadsInv
    BY LoadsInvStarts DEF ThumbInit
  <1>2. LoadsInv /\ [ThumbNext]_AllThumbVars => LoadsInv'
    BY ThumbsLeaveLoads, LoadsInvStep
  <1> QED
    BY <1>1, <1>2, PTL DEF ThumbSpec

-----------------------------------------------------------------------------
(* The queue. *)

LEMMA ThumbsStart == ThumbInit => RailInv
  <1> SUFFICES ASSUME ThumbInit PROVE RailInv
    OBVIOUS
  <1>1. ThumbTypeOK
    <2>1. 0 \in 0 .. MaxBatches /\ {} \in SUBSET Canvas
      BY CanvasAssumption
    <2>2. NoLoad \in MaybeLoad
      BY DEF MaybeLoad
    <2> QED
      BY <2>1, <2>2 DEF ThumbInit, ThumbTypeOK, Stage
  <1>2. LaterBatchesAreIdle /\ EarlierBatchesAreDone
    BY DEF ThumbInit, LaterBatchesAreIdle, EarlierBatchesAreDone
  <1>3. DrawingRuns /\ MarkedIsPainted
    BY DEF ThumbInit, DrawingRuns, MarkedIsPainted
  <1>4. Mounted = {}
    BY DEF ThumbInit, Mounted
  <1>5. NewIsUntouched
    BY CanvasAssumption DEF ThumbInit, NewIsUntouched
  <1>6. DrawsTheCounted /\ RowsShowDocument /\ RowsHaveTurns /\ RowsAreCounted
    BY <1>4 DEF DrawsTheCounted, RowsShowDocument, RowsHaveTurns, RowsAreCounted
  <1> QED
    BY <1>1, <1>2, <1>3, <1>5, <1>6 DEF RailInv, RowsInv, ThumbInv

\* A step that leaves the queue alone keeps its invariant.
LEMMA QueueUntouched ==
  ASSUME ThumbInv,
         UNCHANGED <<generation, stage, window, drawing, source, marker, batchToken, picture>>,
         overviewOpen' \in BOOLEAN, railChanged' \in BOOLEAN,
         rail' \in [Canvas -> {"new", "mounted", "gone"}], asked' \in SUBSET Canvas
  PROVE  ThumbInv'
  BY DEF ThumbInv, ThumbTypeOK, LaterBatchesAreIdle, EarlierBatchesAreDone, DrawingRuns,
         MarkedIsPainted

LEMMA HandOver ==
  ASSUME ThumbInv, NEW b \in Batch, RenderThumbs(b)
  PROVE  ThumbInv'
  <1> USE DEF ThumbInv, RenderThumbs, Batch
  <1>1. ThumbTypeOK'
    BY DEF ThumbTypeOK, Stage
  <1>2. stage[b] = "idle"
    BY DEF LaterBatchesAreIdle, ThumbTypeOK
  <1>3. LaterBatchesAreIdle'
    BY DEF LaterBatchesAreIdle, ThumbTypeOK
  <1>4. EarlierBatchesAreDone'
    BY <1>2 DEF EarlierBatchesAreDone, ThumbTypeOK
  <1>5. DrawingRuns' /\ MarkedIsPainted'
    BY <1>2 DEF DrawingRuns, MarkedIsPainted, ThumbTypeOK
  <1> QED
    BY <1>1, <1>3, <1>4, <1>5

LEMMA BatchMoves ==
  ASSUME ThumbInv, LoadsInv, NEW b \in Batch, StartBatch(b) \/ StopBatch(b)
  PROVE  ThumbInv'
  <1> USE DEF ThumbInv, StartBatch, StopBatch, effectVars
  <1>0. loadToken \in Nat /\ (doc # NoLoad => loadToken # 0)
    BY MaxLoadsAssumption DEF LoadsInv, IInv, TypeOK, ActiveHasSession
  <1>1. ThumbTypeOK'
    BY <1>0 DEF ThumbTypeOK, Stage
  <1>2. LaterBatchesAreIdle'
    BY DEF LaterBatchesAreIdle, ThumbTypeOK
  <1>3. EarlierBatchesAreDone'
    BY DEF EarlierBatchesAreDone, ThumbTypeOK, QueueReached
  <1>4. DrawingRuns' /\ MarkedIsPainted'
    BY <1>0 DEF DrawingRuns, MarkedIsPainted, ThumbTypeOK
  <1> QED
    BY <1>1, <1>2, <1>3, <1>4

LEMMA RenderMoves ==
  ASSUME ThumbInv, LoadsInv, NEW b \in Batch,
         (\E c \in Canvas : SkipCanvas(b, c) \/ DrawCanvas(b, c)) \/ DrawLands(b) \/ DrawFails(b)
  PROVE  ThumbInv'
  <1> USE CanvasAssumption, Outcomes DEF ThumbInv, effectVars
  <1>1. ASSUME NEW c \in Canvas, SkipCanvas(b, c) PROVE ThumbInv'
    <2>1. ThumbTypeOK'
      BY <1>1 DEF SkipCanvas, ThumbTypeOK
    <2> QED
      BY <1>1, <2>1 DEF SkipCanvas, LaterBatchesAreIdle, EarlierBatchesAreDone, DrawingRuns,
                        MarkedIsPainted
  <1>2. ASSUME NEW c \in Canvas, DrawCanvas(b, c) PROVE ThumbInv'
    <2>1. ThumbTypeOK'
      BY <1>2 DEF DrawCanvas, ThumbTypeOK, LoadsInv, IInv, TypeOK, MaybeLoad
    <2>2. LaterBatchesAreIdle' /\ EarlierBatchesAreDone' /\ DrawingRuns'
      BY <1>2 DEF DrawCanvas, LaterBatchesAreIdle, EarlierBatchesAreDone, DrawingRuns, ThumbTypeOK
    <2>3. MarkedIsPainted'
      BY <1>2 DEF DrawCanvas, MarkedIsPainted, ThumbTypeOK
    <2> QED
      BY <2>1, <2>2, <2>3
  <1>3. CASE DrawLands(b)
    <2>1. ThumbTypeOK'
      BY <1>3 DEF DrawLands, ThumbTypeOK
    <2>2. LaterBatchesAreIdle' /\ EarlierBatchesAreDone' /\ DrawingRuns'
      BY <1>3 DEF DrawLands, LaterBatchesAreIdle, EarlierBatchesAreDone, DrawingRuns, ThumbTypeOK
    <2>3. MarkedIsPainted'
      BY <1>3 DEF DrawLands, MarkedIsPainted, ThumbTypeOK
    <2> QED
      BY <2>1, <2>2, <2>3
  <1>4. CASE DrawFails(b)
    <2>1. ThumbTypeOK'
      BY <1>4 DEF DrawFails, ThumbTypeOK
    <2>2. LaterBatchesAreIdle' /\ EarlierBatchesAreDone' /\ DrawingRuns'
      BY <1>4 DEF DrawFails, LaterBatchesAreIdle, EarlierBatchesAreDone, DrawingRuns, ThumbTypeOK
    <2>3. MarkedIsPainted'
      BY <1>4 DEF DrawFails, MarkedIsPainted, ThumbTypeOK
    <2> QED
      BY <2>1, <2>2, <2>3
  <1> QED
    BY <1>1, <1>2, <1>3, <1>4

LEMMA ThumbStep == LoadsInv /\ ThumbInv /\ [ThumbNext]_AllThumbVars => ThumbInv'
  <1> SUFFICES ASSUME LoadsInv, ThumbInv, [ThumbNext]_AllThumbVars PROVE ThumbInv'
    OBVIOUS
  <1> USE DEF thumbVars, effectVars
  <1>0. ThumbTypeOK
    BY DEF ThumbInv
  <1>1. CASE ViewerStep \/ \E l \in Load : LoadGoesOn(l)
    BY <1>0, <1>1, QueueUntouched DEF ViewerStep, LoadGoesOn, ThumbTypeOK
  <1>2. CASE ToggleOverview
    BY <1>0, <1>2, QueueUntouched DEF ToggleOverview, ThumbTypeOK
  <1>3. ASSUME NEW c \in Canvas, RenderRail(c) PROVE ThumbInv'
    BY <1>0, <1>3, QueueUntouched DEF RenderRail, ThumbTypeOK
  <1>4. CASE LeavePage \/ \E l \in Load : ChangeSource(l)
    BY <1>0, <1>4, QueueUntouched DEF LeavePage, ChangeSource, Unmount, ThumbTypeOK
  <1>5. CASE AskThumbs
    BY <1>0, <1>5, QueueUntouched DEF AskThumbs, ThumbTypeOK, Mounted
  <1>6. CASE \E b \in Batch : RenderThumbs(b) \/ BatchStep(b)
    BY <1>6, HandOver, BatchMoves, RenderMoves DEF BatchStep
  <1>7. CASE UNCHANGED AllThumbVars
    BY <1>0, <1>7, QueueUntouched DEF AllThumbVars, ThumbTypeOK
  <1> QED
    BY <1>1, <1>2, <1>3, <1>4, <1>5, <1>6, <1>7 DEF ThumbNext

-----------------------------------------------------------------------------
(* The rows. *)

\* A document is published on an empty rail, so that a load going on beneath the
\* rows leaves what they count.
LEMMA PublishesOnEmptyRail ==
  ASSUME LoadsInv, RowsAreCounted, [Next]_vars, UNCHANGED <<requested, destroyed>>
  PROVE  Mounted = {} \/ (UNCHANGED totalPages /\ doc' \in {doc, NoLoad})
  <1>1. ASSUME NEW l \in Load, DocumentArrives(l) PROVE Mounted = {}
    BY <1>1 DEF DocumentArrives, LoadsInv, CurrentLoadCountsNothing, Waiting, RowsAreCounted
  <1>2. ASSUME NEW l \in Load, LoadSource(l) PROVE FALSE
    BY <1>2 DEF LoadSource, LoadsInv, IInv, TypeOK
  <1> QED
    BY <1>1, <1>2
       DEF Next, vars, Bootstrap, ViewerCreated, BootstrapFailed, Destroy, LoadStep, Cleanup,
           ClearActiveDocument, CancelSettles, TaskCreated, TaskRefused, StaleDocumentArrives,
           LoadRejects

\* A step of the loads that no row notices.
LEMMA LoadsPass ==
  ASSUME RailInv, LoadsInv, [Next]_vars, UNCHANGED <<requested, destroyed, thumbVars>>
  PROVE  RowsInv' /\ RowsHaveTurns'
  <1> USE DEF thumbVars, effectVars
  <1>1. Mounted = {} \/ (UNCHANGED totalPages /\ doc' \in {doc, NoLoad})
    BY PublishesOnEmptyRail DEF RailInv, RowsInv
  <1>2. Mounted' = Mounted
    BY DEF Mounted
  <1>3. RowsInv'
    BY <1>1, <1>2 DEF RailInv, RowsInv, RowsAreCounted, NewIsUntouched, DrawsTheCounted,
                      RowsShowDocument
  <1>4. RowsHaveTurns'
    BY <1>1, <1>2 DEF RailInv, RowsHaveTurns, InHand
  <1> QED
    BY <1>3, <1>4

\* The rail loses all its rows.
LEMMA RowsGo ==
  ASSUME RailInv, UNCHANGED <<asked, window, drawing, source, picture>>,
         rail' = [c \in Canvas |-> IF c \in Mounted THEN "gone" ELSE rail[c]]
  PROVE  RowsInv' /\ RowsHaveTurns'
  <1>1. Mounted' = {}
    BY DEF Mounted
  <1>2. \A c \in Canvas : rail'[c] = "new" => rail[c] = "new"
    OBVIOUS
  <1>3. NewIsUntouched'
    BY <1>2 DEF RailInv, RowsInv, NewIsUntouched
  <1> QED
    BY <1>1, <1>3 DEF RowsInv, RowsHaveTurns, RowsAreCounted, DrawsTheCounted, RowsShowDocument

\* A row comes to the rail untouched, or one leaves it.
LEMMA RailMoves ==
  ASSUME RailInv, NEW c \in Canvas, RenderRail(c)
  PROVE  RowsInv' /\ RowsHaveTurns'
  <1> USE DEF RenderRail, vars
  <1>1. CASE rail[c] = "new"
    <2>1. Mounted' = Mounted \cup {c}
      BY <1>1 DEF Mounted, RailInv, ThumbInv, ThumbTypeOK
    <2>2. picture[c] = NoLoad /\ (\A b \in Batch : drawing[b] # c)
      BY <1>1 DEF RailInv, RowsInv, NewIsUntouched
    <2>3. RowsAreCounted' /\ NewIsUntouched'
      BY <1>1, <2>1 DEF RailInv, RowsInv, RowsAreCounted, NewIsUntouched, ThumbInv, ThumbTypeOK
    <2>4. DrawsTheCounted' /\ RowsShowDocument'
      BY <2>1, <2>2 DEF RailInv, RowsInv, DrawsTheCounted, RowsShowDocument
    <2> QED
      BY <2>3, <2>4 DEF RowsInv, RowsHaveTurns
  <1>2. CASE rail[c] = "mounted"
    <2>1. Mounted' \subseteq Mounted /\ rail' = [rail EXCEPT ![c] = "gone"]
      BY <1>2 DEF Mounted, RailInv, ThumbInv, ThumbTypeOK
    <2> QED
      BY <2>1 DEF RailInv, RowsInv, RowsAreCounted, NewIsUntouched, DrawsTheCounted,
                  RowsShowDocument, RowsHaveTurns, ThumbInv, ThumbTypeOK
  <1> QED
    BY <1>1, <1>2

\* The effect asks for every row, and the microtask hands all of them to the
\* newest batch.
LEMMA AskMoves ==
  ASSUME RailInv, AskThumbs
  PROVE  RowsInv' /\ RowsHaveTurns'
  <1> USE DEF AskThumbs, vars
  <1>1. Mounted' = Mounted
    BY DEF Mounted
  <1>2. NewIsUntouched'
    BY DEF RailInv, RowsInv, NewIsUntouched, Mounted
  <1>3. RowsAreCounted' /\ DrawsTheCounted' /\ RowsShowDocument'
    BY <1>1 DEF RailInv, RowsInv, RowsAreCounted, DrawsTheCounted, RowsShowDocument
  <1>4. RowsHaveTurns'
    BY <1>1 DEF RailInv, RowsInv, RowsAreCounted, RowsHaveTurns
  <1> QED
    BY <1>2, <1>3, <1>4 DEF RowsInv

LEMMA HandOverRows ==
  ASSUME RailInv, NEW b \in Batch, RenderThumbs(b)
  PROVE  RowsInv' /\ RowsHaveTurns'
  <1> USE DEF RenderThumbs, vars
  <1>1. Mounted' = Mounted
    BY DEF Mounted
  <1>2. NewIsUntouched'
    BY DEF RailInv, RowsInv, NewIsUntouched, ThumbInv, ThumbTypeOK
  <1>3. RowsAreCounted' /\ DrawsTheCounted' /\ RowsShowDocument'
    BY <1>1 DEF RailInv, RowsInv, RowsAreCounted, DrawsTheCounted, RowsShowDocument
  <1>4. ASSUME NEW c \in asked PROVE InHand(c)'
    <2>1. b = generation' /\ stage'[b] = "queued" /\ c \in window'[b]
      BY <1>4 DEF RailInv, ThumbInv, ThumbTypeOK
    <2> QED
      BY <2>1 DEF InHand
  <1>5. RowsHaveTurns'
    BY <1>1, <1>4 DEF RailInv, RowsHaveTurns
  <1> QED
    BY <1>2, <1>3, <1>5 DEF RowsInv

\* What a batch in its loop does to a row.
LEMMA BatchRows ==
  ASSUME RailInv, LoadsInv, NEW b \in Batch, BatchStep(b)
  PROVE  RowsInv'
  <1> USE CanvasAssumption, Outcomes DEF RailInv, RowsInv, vars, effectVars
  <1>1. Mounted' = Mounted /\ UNCHANGED <<rail, asked, totalPages, overviewOpen, destroyed>>
    BY DEF BatchStep, StartBatch, StopBatch, SkipCanvas, DrawCanvas, DrawLands, DrawFails, Mounted
  <1>2. RowsAreCounted'
    BY <1>1 DEF RowsAreCounted
  <1>3. CASE StartBatch(b) \/ StopBatch(b)
    BY <1>1, <1>2, <1>3 DEF StartBatch, StopBatch, NewIsUntouched, DrawsTheCounted, RowsShowDocument
  <1>4. ASSUME NEW c \in Canvas, SkipCanvas(b, c) PROVE RowsInv'
    BY <1>1, <1>2, <1>4 DEF SkipCanvas, NewIsUntouched, DrawsTheCounted, RowsShowDocument,
                            ThumbInv, ThumbTypeOK
  <1>5. ASSUME NEW c \in Canvas, DrawCanvas(b, c) PROVE RowsInv'
    <2>1. c \in Mounted
      BY <1>5 DEF DrawCanvas, NeedsPaint, Mounted
    <2>2. source'[b] \in {NoLoad, totalPages}
      BY <1>5, <2>1 DEF DrawCanvas, LoadsInv, CountMatchesDocument, RowsAreCounted, ThumbInv,
                        ThumbTypeOK
    <2>3. DrawsTheCounted'
      BY <1>1, <1>5, <2>2 DEF DrawCanvas, DrawsTheCounted, ThumbInv, ThumbTypeOK
    <2>4. NewIsUntouched'
      BY <1>1, <1>5, <2>1 DEF DrawCanvas, NewIsUntouched, ThumbInv, ThumbTypeOK, Mounted
    <2>5. RowsShowDocument'
      BY <1>1, <1>5 DEF DrawCanvas, RowsShowDocument
    <2> QED
      BY <1>2, <2>3, <2>4, <2>5
  <1>6. CASE DrawLands(b) \/ DrawFails(b)
    <2>1. PICK shows \in {source[b], NoContext, Failed} :
            /\ shows = source[b] => source[b] # NoLoad
            /\ picture' = [picture EXCEPT ![drawing[b]] = shows]
            /\ drawing' = [drawing EXCEPT ![b] = NoCanvas]
            /\ UNCHANGED <<source, window>>
      BY <1>6 DEF DrawLands, DrawFails, ThumbInv, ThumbTypeOK
    <2>2. rail[drawing[b]] # "new"
      BY <1>6 DEF DrawLands, DrawFails, NewIsUntouched, ThumbInv, ThumbTypeOK
    <2>3. NewIsUntouched'
      BY <1>1, <2>1, <2>2 DEF NewIsUntouched, ThumbInv, ThumbTypeOK
    <2>4. DrawsTheCounted'
      BY <1>1, <2>1 DEF DrawsTheCounted, ThumbInv, ThumbTypeOK, Mounted
    <2>5. RowsShowDocument'
      BY <1>1, <2>1 DEF RowsShowDocument, DrawsTheCounted, ThumbInv, ThumbTypeOK, Mounted
    <2> QED
      BY <1>2, <2>3, <2>4, <2>5
  <1> QED
    BY <1>3, <1>4, <1>5, <1>6 DEF BatchStep

\* A batch that waits, runs or stops keeps every row that has a turn.
LEMMA BatchTurns ==
  ASSUME RailInv, LoadsInv, NEW b \in Batch, BatchStep(b)
  PROVE  RowsHaveTurns'
  <1> USE CanvasAssumption, Outcomes DEF vars, effectVars
  <1>1. Mounted' = Mounted /\ UNCHANGED <<railChanged, asked, doc, generation>>
    BY DEF BatchStep, StartBatch, StopBatch, SkipCanvas, DrawCanvas, DrawLands, DrawFails, Mounted
  <1> SUFFICES ASSUME doc # NoLoad, NEW c \in Mounted, ~railChanged, asked = {},
                      picture[c] # NoLoad \/ InHand(c)
               PROVE  picture'[c] # NoLoad \/ InHand(c)'
    BY <1>1 DEF RowsHaveTurns, RailInv, BatchStep, StartBatch, StopBatch, SkipCanvas, DrawCanvas,
                DrawLands, DrawFails, Settled
  <1> DEFINE Here(a) == \/ stage[a] \in {"queued", "running"} /\ c \in window[a]
                        \/ stage[a] = "running" /\ drawing[a] = c
  <1>2. c \in Canvas /\ session /\ overviewOpen
    BY DEF Mounted, LoadsInv, ActiveHasSession, RailInv, RowsInv, RowsAreCounted
  <1>3. CASE picture[c] # NoLoad
    <2>1. picture'[c] # NoLoad
      BY <1>2, <1>3 DEF BatchStep, StartBatch, StopBatch, SkipCanvas, DrawCanvas, DrawLands,
                        DrawFails, RailInv, ThumbInv, ThumbTypeOK
    <2> QED
      BY <2>1
  <1>4. CASE picture[c] = NoLoad
    <2>1. generation \in Batch /\ Here(generation)
      BY <1>4 DEF InHand
    <2>2. CASE b # generation
      <3>1. /\ stage \in [Batch -> Stage]
            /\ window \in [Batch -> SUBSET Canvas]
            /\ drawing \in [Batch -> Canvas \cup {NoCanvas}]
        BY DEF RailInv, ThumbInv, ThumbTypeOK
      <3>2. /\ stage'[generation] = stage[generation]
            /\ window'[generation] = window[generation]
            /\ drawing'[generation] = drawing[generation]
        <4>1. CASE StartBatch(b) \/ StopBatch(b)
          BY <2>1, <2>2, <3>1, <4>1 DEF StartBatch, StopBatch
        <4>2. ASSUME NEW d \in Canvas, SkipCanvas(b, d) \/ DrawCanvas(b, d)
              PROVE  /\ stage'[generation] = stage[generation]
                     /\ window'[generation] = window[generation]
                     /\ drawing'[generation] = drawing[generation]
          BY <2>1, <2>2, <3>1, <4>2 DEF SkipCanvas, DrawCanvas
        <4>3. CASE DrawLands(b) \/ DrawFails(b)
          BY <2>1, <2>2, <3>1, <4>3 DEF DrawLands, DrawFails
        <4> QED
          BY <4>1, <4>2, <4>3 DEF BatchStep
      <3>3. Here(generation)' /\ generation' = generation
        BY <1>1, <2>1, <3>2
      <3> QED
        BY <2>1, <3>3 DEF InHand
    <2>3. CASE b = generation
      <3> SUFFICES Here(b)' \/ picture'[c] # NoLoad
        BY <1>1, <2>3 DEF InHand
      <3> HIDE DEF InHand
      <3> USE <1>2, <2>1, <2>3 DEF RailInv, ThumbInv, ThumbTypeOK
      <3>1. CASE StartBatch(b)
        BY <3>1 DEF StartBatch
      <3>2. CASE StopBatch(b)
        BY <3>2 DEF StopBatch, Superseded
      <3>3. ASSUME NEW d \in Canvas, SkipCanvas(b, d) PROVE Here(b)' \/ picture'[c] # NoLoad
        <4>1. CASE d # c
          BY <3>3, <4>1 DEF SkipCanvas
        <4>2. CASE d = c
          <5>1. marker[c] = batchToken[b] /\ batchToken[b] # 0
            BY <3>3, <4>2 DEF SkipCanvas, NeedsPaint, Mounted, DrawingRuns
          <5>2. ASSUME NEW a \in Batch PROVE drawing[a] # c
            <6>1. c # NoCanvas /\ stage[b] = "running" /\ drawing[b] = NoCanvas
              BY <3>3 DEF SkipCanvas
            <6>2. stage[a] = "running" => a = b
              BY <6>1, CanvasAssumption DEF EarlierBatchesAreDone, Batch
            <6> QED
              BY <6>1, <6>2 DEF DrawingRuns
          <5>3. picture[c] # NoLoad
            BY <5>1, <5>2 DEF MarkedIsPainted
          <5> QED
            BY <1>4, <5>3
        <4> QED
          BY <4>1, <4>2
      <3>4. ASSUME NEW d \in Canvas, DrawCanvas(b, d) PROVE Here(b)' \/ picture'[c] # NoLoad
        BY <3>4 DEF DrawCanvas
      <3>5. CASE DrawLands(b) \/ DrawFails(b)
        BY <3>5 DEF DrawLands, DrawFails
      <3> QED
        BY <3>1, <3>2, <3>3, <3>4, <3>5 DEF BatchStep
    <2> QED
      BY <2>2, <2>3
  <1> QED
    BY <1>3, <1>4

LEMMA RailStep == LoadsInv /\ RailInv /\ [ThumbNext]_AllThumbVars => RailInv'
  <1> SUFFICES ASSUME LoadsInv, RailInv, [ThumbNext]_AllThumbVars PROVE RailInv'
    OBVIOUS
  <1>1. ThumbInv' /\ [Next]_vars
    BY ThumbStep, ThumbsLeaveLoads DEF RailInv
  <1>2. CASE ViewerStep \/ (\E l \in Load : LoadGoesOn(l)) \/ UNCHANGED AllThumbVars
    <2>1. UNCHANGED <<requested, destroyed, thumbVars>>
      BY <1>2 DEF ViewerStep, LoadGoesOn, LoadStep, Bootstrap, ViewerCreated, BootstrapFailed,
                  CancelSettles, TaskCreated, TaskRefused, StaleDocumentArrives, DocumentArrives,
                  LoadRejects, AllThumbVars, vars
    <2> QED
      BY <1>1, <2>1, LoadsPass DEF RailInv
  <1>3. CASE LeavePage \/ ToggleOverview \/ \E l \in Load : ChangeSource(l)
    <2>1. /\ rail' = [c \in Canvas |-> IF c \in Mounted THEN "gone" ELSE rail[c]]
          /\ UNCHANGED <<asked, window, drawing, source, picture>>
      BY <1>3 DEF LeavePage, ToggleOverview, ChangeSource, LoadSource, Unmount
    <2> QED
      BY <1>1, <2>1, RowsGo DEF RailInv
  <1>4. ASSUME NEW c \in Canvas, RenderRail(c) PROVE RailInv'
    BY <1>1, <1>4, RailMoves DEF RailInv
  <1>5. CASE AskThumbs
    BY <1>1, <1>5, AskMoves DEF RailInv
  <1>6. ASSUME NEW b \in Batch, RenderThumbs(b) PROVE RailInv'
    BY <1>1, <1>6, HandOverRows DEF RailInv
  <1>7. ASSUME NEW b \in Batch, BatchStep(b) PROVE RailInv'
    BY <1>1, <1>7, BatchRows, BatchTurns DEF RailInv
  <1> QED
    BY <1>2, <1>3, <1>4, <1>5, <1>6, <1>7 DEF ThumbNext

\* The invariant of the queue and the rows, on top of the loads'.
THEOREM RailInvHolds == ThumbSpec => []RailInv
  <1> QED
    BY LoadsBeneath, ThumbsStart, RailStep, PTL DEF ThumbSpec

\* However many batches are handed over, and whatever loads, the rail and
\* failing renders do meanwhile, two renders are never under way at once.
THEOREM RendersAreSerial == ThumbSpec => []OneRenderAtATime
  <1>1. RailInv => OneRenderAtATime
    BY DEF RailInv, ThumbInv, ThumbTypeOK, DrawingRuns, EarlierBatchesAreDone, OneRenderAtATime,
           Batch
  <1> QED
    BY <1>1, RailInvHolds, PTL

\* A canvas that counts as painted was painted.
THEOREM MarkersAreTrue == ThumbSpec => []MarkedIsPainted
  <1>1. RailInv => MarkedIsPainted
    BY DEF RailInv, ThumbInv
  <1> QED
    BY <1>1, RailInvHolds, PTL

\* For every number of loads, batches and canvases, a row shows nothing of a
\* document but the one whose pages the rail counts.
THEOREM RowsAreOfDocument == ThumbSpec => []RowsShowDocument
  <1>1. RailInv => RowsShowDocument
    BY DEF RailInv, RowsInv
  <1> QED
    BY <1>1, RailInvHolds, PTL

\* Superseded, skipped and failed batches leave no row on the rail untried.
THEOREM RowsAreTried == ThumbSpec => []NoRowForgotten
  <1>1. ASSUME RailInv, \A b \in Batch : stage[b] \in {"idle", "done"},
               NEW c \in Mounted, picture[c] = Failed
        PROVE  marker[c] = 0
    <2>1. c \in Canvas /\ \A b \in Batch : drawing[b] = NoCanvas
      BY <1>1 DEF RailInv, ThumbInv, DrawingRuns, Mounted
    <2>2. c # NoCanvas
      BY <2>1, CanvasAssumption
    <2> QED
      BY <1>1, <2>1, <2>2 DEF RailInv, ThumbInv, MarkedIsPainted
  <1>2. RailInv => NoRowForgotten
    BY <1>1 DEF RailInv, RowsHaveTurns, InHand, NoRowForgotten, Settled
  <1> QED
    BY <1>2, RailInvHolds, PTL
=============================================================================
