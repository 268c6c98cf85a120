-------------------------- MODULE SideBySideProofs --------------------------
(***************************************************************************)
(* The safety properties of the six components checked side by side, for   *)
(* every value of their constants.  Each has an invariant of its own:      *)
(*                                                                         *)
(*   IInv         transcript: its four invariants together; every step     *)
(*                marks the effect, keeps a scrub timer, or leaves the     *)
(*                runtime as its operators return it                       *)
(*   PrintsStand  prints: a call's place is all the argument needs         *)
(*   Proved!IInv  policy: that of MainPolicyProofs, for the same operators *)
(*   EchoInv      dialpad: the latest edits remembered are, in order,      *)
(*                those the host may still echo                            *)
(*   EditorInv    filter: what an earlier editor left behind bears an      *)
(*                older number; a live create session's popover is up      *)
(*   ShellInv     shell: a pending restoration has no trap to disturb and  *)
(*                no act of the user to undo                               *)
(***************************************************************************)
EXTENDS SideBySide, SequenceTheorems, WellFoundedInduction, TLAPS

-----------------------------------------------------------------------------
(* The transcript of the audio player *)

IInv ==
  /\ TypeOK
  /\ OneListener
  /\ StopsWithPlayback
  /\ HeardUnlessFailed

\* What startRecognition returns: a current recognizer, or a refusal.
Started(s, t) ==
  \/ t.recognition # None /\ t.supported = s.supported
  \/ t.recognition = None /\ t.supported = FALSE

-----------------------------------------------------------------------------
\* stopRecognition leaves no recognizer current and no stream captured.
LEMMA StopOwned ==
  ASSUME NEW s \in Runtime, Owned(s)
  PROVE  /\ StopRecognition(s) \in Runtime
         /\ Owned(StopRecognition(s))
         /\ StopRecognition(s).recognition = None
         /\ StopRecognition(s).supported = s.supported
BY AudioAssumption DEF Runtime, Owned, StopRecognition, StopCapture

\* startRecognition, called with none current, makes one current or refuses.
LEMMA StartOwned ==
  ASSUME NEW s \in Runtime, Owned(s), s.recognition = None,
         NEW t \in StartRecognition(s)
  PROVE  /\ t \in Runtime
         /\ Owned(t)
         /\ Started(s, t)
<1>1. CASE t = Refuses(s)
  <2>1. /\ StopRecognition(s) \in Runtime
        /\ Owned(StopRecognition(s))
        /\ StopRecognition(s).recognition = None
    BY StopOwned
  <2>2. t = [StopRecognition(s) EXCEPT !.supported = FALSE]
    BY <1>1 DEF Refuses
  <2>3. QED BY <2>1, <2>2 DEF Runtime, Owned, Started
<1>2. ASSUME NEW r \in Free(s), t = Starts(s, r)
      PROVE  t \in Runtime /\ Owned(t) /\ Started(s, t)
  <2>1. r \in Recognizers /\ r # None
    BY AudioAssumption DEF Free
  <2>2. t = [s EXCEPT !.recognition = r, !.captured = r,
                      !.transcribing = TRUE,
                      !.capturing = s.capturing \cup {r},
                      !.listening = s.listening \cup {r}]
    BY <1>2 DEF Starts
  <2>3. QED BY <2>1, <2>2 DEF Runtime, Owned, Started
<1>3. QED BY <1>1, <1>2 DEF StartRecognition

\* A recognizer that has ended and was not current leaves the runtime owned.
LEMMA SilencedOwned ==
  ASSUME rt \in Runtime, Owned(rt), NEW r \in Recognizers
  PROVE  /\ rt.recognition # r =>
              /\ Silenced(r) \in Runtime
              /\ Owned(Silenced(r))
              /\ Silenced(r).recognition = rt.recognition
              /\ Silenced(r).supported = rt.supported
         /\ rt.recognition = r =>
              LET s == StopCapture([Silenced(r) EXCEPT !.recognition = None])
              IN  /\ s \in Runtime
                  /\ Owned(s)
                  /\ s.recognition = None
                  /\ s.supported = rt.supported
<1>1. r # None
  BY AudioAssumption
<1>2. CASE rt.recognition # r
  BY <1>1, <1>2 DEF Silenced, Runtime, Owned
<1>3. CASE rt.recognition = r
  BY <1>1, <1>3 DEF Silenced, StopCapture, Runtime, Owned
<1>4. QED BY <1>2, <1>3

-----------------------------------------------------------------------------
\* At first nothing is played and nothing listens.
LEMMA InitInv == Init => IInv
<1> SUFFICES ASSUME Init
             PROVE  IInv
  OBVIOUS
<1>1. timer \in 0 .. SeekDelay /\ quiet \in 0 .. SeekDelay
  BY AudioAssumption DEF Init
<1>2. rt \in Runtime /\ Owned(rt) /\ rt.recognition = None
  <2>1. PICK b \in BOOLEAN :
          rt = [recognition |-> None, captured |-> None, capturing |-> {},
                listening |-> {}, stopping |-> {}, transcribing |-> FALSE,
                supported |-> b]
    BY DEF Init
  <2>2. QED BY <2>1 DEF Runtime, Owned
<1>3. TypeOK
  BY <1>1, <1>2 DEF Init, TypeOK
<1>4. QED
  BY <1>2, <1>3 DEF Init, IInv, OneListener, isRecognizing,
      StopsWithPlayback, HeardUnlessFailed

\* Every turn of player, recognizers and timer keeps the four.
LEMMA NextInv == IInv /\ [Next]_vars => IInv'
<1> SUFFICES ASSUME IInv, [Next]_vars
             PROVE  IInv'
  OBVIOUS
<1>0. rt \in Runtime /\ Owned(rt)
  BY DEF IInv, TypeOK, OneListener
<1>00. /\ timer \in 0 .. SeekDelay /\ quiet \in 0 .. SeekDelay
       /\ 0 \in 0 .. SeekDelay /\ SeekDelay \in 0 .. SeekDelay
       /\ SeekDelay # 0 /\ Elapsed \in 0 .. SeekDelay
  BY AudioAssumption DEF IInv, TypeOK, Elapsed
<1>1. CASE SetAllowed
  BY <1>1 DEF IInv, TypeOK, OneListener, Owned, isRecognizing, MayRestart,
      StopsWithPlayback, HeardUnlessFailed, SetAllowed, Marks
<1>2. CASE ToggleCaptions
  BY <1>2 DEF IInv, TypeOK, OneListener, Owned, isRecognizing, MayRestart,
      StopsWithPlayback, HeardUnlessFailed, WantLive, ToggleCaptions, Marks,
      ReadsCaptions
<1>3. CASE OnPlay
  BY <1>3 DEF IInv, TypeOK, OneListener, Owned, isRecognizing, MayRestart,
      StopsWithPlayback, HeardUnlessFailed, WantLive, OnPlay, Marks,
      ReadsPlaying
<1>4. CASE OnPause
  BY <1>4 DEF IInv, TypeOK, OneListener, Owned, isRecognizing, MayRestart,
      StopsWithPlayback, HeardUnlessFailed, WantLive, OnPause, Marks,
      ReadsPlaying
<1>5. CASE OnEnded
  BY <1>5 DEF IInv, TypeOK, OneListener, Owned, isRecognizing, MayRestart,
      StopsWithPlayback, HeardUnlessFailed, WantLive, OnEnded, Marks,
      ReadsPlaying
<1>6. CASE OnSeeking
  <2>1. CASE shouldRestartRecognition
    <3>1. rt' \in Runtime /\ Owned(rt') /\ Started(rt, rt')
      BY <1>0, <1>6, <2>1, StopOwned, StartOwned
         DEF OnSeeking, resetTranscriptSession, Started
    <3>2. QED
      BY <3>1, <1>6, <2>1 DEF IInv, TypeOK, OneListener, isRecognizing,
          MayRestart, StopsWithPlayback, HeardUnlessFailed, WantLive,
          OnSeeking, Started, shouldRestartRecognition, Runtime,
          MarksSupported, Marks
  <2>2. CASE ~shouldRestartRecognition
    BY <1>6, <2>2 DEF IInv, TypeOK, OneListener, Owned, isRecognizing,
        MayRestart, StopsWithPlayback, HeardUnlessFailed, WantLive,
        OnSeeking, MarksSupported, Marks
  <2>3. QED BY <2>1, <2>2
<1>7. CASE OnSeek
  <2>1. CASE shouldRestartRecognition
    <3>1. rt' \in Runtime /\ Owned(rt') /\ rt'.recognition = None
      BY <1>0, <1>7, <2>1, StopOwned DEF OnSeek
    <3>2. QED
      BY <3>1, <1>00, <1>7, <2>1 DEF IInv, TypeOK, OneListener, isRecognizing,
          StopsWithPlayback, HeardUnlessFailed, OnSeek
  <2>2. CASE ~shouldRestartRecognition
    BY <1>00, <1>7, <2>2 DEF IInv, TypeOK, OneListener, Owned, isRecognizing,
        MayRestart, StopsWithPlayback, HeardUnlessFailed, WantLive, OnSeek
  <2>3. QED BY <2>1, <2>2
<1>8. CASE RunEffect
  <2>1. CASE WantLive /\ ~isRecognizing
    <3>1. rt' \in Runtime /\ Owned(rt') /\ Started(rt, rt')
      BY <1>0, <1>8, <2>1, StartOwned DEF RunEffect, isRecognizing
    <3>2. QED
      BY <3>1, <1>8, <2>1 DEF IInv, TypeOK, OneListener, isRecognizing,
          MayRestart, StopsWithPlayback, HeardUnlessFailed, WantLive,
          RunEffect, Started, Runtime, player
  <2>2. CASE ~WantLive /\ isRecognizing
    <3>1. /\ rt' \in Runtime /\ Owned(rt') /\ rt'.recognition = None
          /\ rt'.supported = rt.supported
      BY <1>0, <1>8, <2>2, StopOwned DEF RunEffect
    <3>2. QED
      BY <3>1, <1>8, <2>2 DEF IInv, TypeOK, OneListener, isRecognizing,
          StopsWithPlayback, HeardUnlessFailed, WantLive, RunEffect, player
  <2>3. CASE WantLive = isRecognizing
    BY <1>8, <2>3 DEF IInv, TypeOK, OneListener, Owned, isRecognizing,
        MayRestart, StopsWithPlayback, HeardUnlessFailed, WantLive,
        RunEffect, player
  <2>4. QED BY <1>8, <2>1, <2>2, <2>3 DEF RunEffect
<1>9. CASE Tick
  <2>1. timer' \in 0 .. SeekDelay /\ quiet' \in 0 .. SeekDelay
    BY <1>00, <1>9 DEF Tick
  <2>2. timer' = 0 => timer = 0
    BY <1>00, <1>9 DEF Tick
  <2>3. QED
    BY <1>9, <2>1, <2>2 DEF IInv, TypeOK, OneListener, Owned, isRecognizing,
        MayRestart, StopsWithPlayback, HeardUnlessFailed, WantLive, Tick,
        player
<1>10. CASE SeekTimerFires
  <2>1. CASE MayRestart(rt) /\ ~isRecognizing
    <3>1. rt' \in Runtime /\ Owned(rt') /\ Started(rt, rt')
      BY <1>0, <1>10, <2>1, StartOwned DEF SeekTimerFires, isRecognizing
    <3>2. QED
      BY <3>1, <1>00, <1>10, <2>1 DEF IInv, TypeOK, OneListener, isRecognizing,
          MayRestart, StopsWithPlayback, HeardUnlessFailed, WantLive,
          SeekTimerFires, Started, Runtime, MarksSupported, Marks,
          player
  <2>2. CASE ~(MayRestart(rt) /\ ~isRecognizing)
    BY <1>00, <1>10, <2>2 DEF IInv, TypeOK, OneListener, Owned, isRecognizing,
        MayRestart, StopsWithPlayback, HeardUnlessFailed, WantLive,
        SeekTimerFires, MarksSupported, Marks, player
  <2>3. QED BY <2>1, <2>2
<1>11. ASSUME NEW r \in Recognizers, OnError(r)
       PROVE  IInv'
  <2>1. /\ rt' \in Runtime /\ Owned(rt') /\ rt'.recognition = None
        /\ rt'.supported = rt.supported
    BY <1>0, <1>11, StopOwned DEF OnError
  <2>2. QED
    BY <1>11, <2>1 DEF IInv, TypeOK, OneListener, isRecognizing,
        StopsWithPlayback, HeardUnlessFailed, WantLive, OnError, player
<1>12. ASSUME NEW r \in Recognizers, OnEnd(r)
       PROVE  IInv'
  <2>1. CASE rt.recognition # r
    <3>1. /\ rt' \in Runtime /\ Owned(rt')
          /\ rt'.recognition = rt.recognition /\ rt'.supported = rt.supported
      BY <1>0, <1>12, <2>1, SilencedOwned DEF OnEnd
    <3>2. QED
      BY <1>12, <2>1, <3>1 DEF IInv, TypeOK, OneListener, isRecognizing,
          MayRestart, StopsWithPlayback, HeardUnlessFailed, WantLive, OnEnd,
          MarksSupported, Marks, player
  <2>2. CASE rt.recognition = r
    <3> DEFINE s == StopCapture([Silenced(r) EXCEPT !.recognition = None])
    <3>1. /\ s \in Runtime /\ Owned(s) /\ s.recognition = None
          /\ s.supported = rt.supported
      BY <1>0, <2>2, SilencedOwned
    <3>2. CASE MayRestart(s)
      <4>1. rt' \in StartRecognition(s) /\ failed' = FALSE
        BY <1>12, <2>2, <3>2 DEF OnEnd
      <4>2. rt' \in Runtime /\ Owned(rt') /\ Started(s, rt')
        BY <3>1, <4>1, StartOwned
      <4>3. captions /\ playing /\ rt.supported
        BY <3>1, <3>2 DEF MayRestart
      <4> HIDE DEF s
      <4>4. QED
        <5>1. ~destroyed
          BY <2>2, AudioAssumption DEF IInv, OneListener, isRecognizing
        <5>2. /\ UNCHANGED <<player, timer, destroyed, quiet>>
              /\ dirty' \in BOOLEAN
          BY <1>12 DEF OnEnd, MarksSupported, Marks
        <5>3. rt'.recognition = None => ~rt'.supported
          BY <4>2 DEF Started
        <5>4. rt'.recognition # None => rt'.supported
          BY <3>1, <4>2, <4>3 DEF Started
        <5>5. QED
          BY <4>1, <4>2, <4>3, <5>1, <5>2, <5>3, <5>4 DEF IInv, TypeOK,
              OneListener, isRecognizing, MayRestart, StopsWithPlayback,
              HeardUnlessFailed, WantLive, player
    <3>3. CASE ~MayRestart(s)
      <4>1. rt' = s /\ failed' = failed
        BY <1>12, <2>2, <3>3 DEF OnEnd
      <4>2. ~(captions /\ playing /\ rt.supported)
        BY <3>1, <3>3 DEF MayRestart
      <4> HIDE DEF s
      <4>3. QED
        BY <1>12, <2>2, <3>1, <4>1, <4>2 DEF IInv, TypeOK, OneListener,
            isRecognizing, StopsWithPlayback, HeardUnlessFailed, WantLive,
            OnEnd, MarksSupported, Marks, player
    <3>4. QED BY <3>2, <3>3
  <2>3. QED BY <2>1, <2>2
<1>13. CASE Destroy
  <2>1. rt' \in Runtime /\ Owned(rt') /\ rt'.recognition = None
    BY <1>0, <1>13, StopOwned DEF Destroy
  <2>2. QED
    BY <1>00, <1>13, <2>1 DEF IInv, TypeOK, OneListener, isRecognizing,
        StopsWithPlayback, HeardUnlessFailed, Destroy, player
<1>14. CASE UNCHANGED vars
  BY <1>14 DEF IInv, TypeOK, OneListener, Owned, isRecognizing, MayRestart,
      StopsWithPlayback, HeardUnlessFailed, WantLive, vars, player
<1>15. QED
  BY <1>1, <1>2, <1>3, <1>4, <1>5, <1>6, <1>7, <1>8, <1>9, <1>10, <1>11,
     <1>12, <1>13, <1>14 DEF Next

\* The four hold in every behaviour of the transcript.
LEMMA Inductive == Spec => []IInv
BY InitInv, NextInv, PTL DEF Spec

-----------------------------------------------------------------------------
\* The player, its runtime and the timer keep their types.
THEOREM TypeCorrect == Spec => []TypeOK
<1>1. IInv => TypeOK
  BY DEF IInv
<1>2. QED BY <1>1, Inductive, PTL

\* Late ends and errors, restarts and destruction never leave a recognizer
\* listening or a stream captured that the runtime does not hold
\* (startRecognition, stopRecognition, onend, onerror, destroy).
THEOREM NothingListensUnowned == Spec => []OneListener
<1>1. IInv => OneListener
  BY DEF IInv
<1>2. QED BY <1>1, Inductive, PTL

\* With the feature allowed and the effect run, recognition is on only while
\* the audio plays with the strip open.
THEOREM RecognitionStops == Spec => []StopsWithPlayback
<1>1. IInv => StopsWithPlayback
  BY DEF IInv
<1>2. QED BY <1>1, Inductive, PTL

\* With the effect run and no scrub pending, a player that should be heard
\* is heard, unless an error event stopped its recognizer.
THEOREM RecognitionRecovers == Spec => []HeardUnlessFailed
<1>1. IInv => HeardUnlessFailed
  BY DEF IInv
<1>2. QED BY <1>1, Inductive, PTL

\* The transcript's turns beside the other components, as in its own behaviours.
THEOREM TranscriptBeside ==
  PartsSpec => []OneListener /\ []StopsWithPlayback /\ []HeardUnlessFailed
<1>1. PartsInit => Init
  BY Zenon DEF PartsInit
<1>2. [PartsNext]_partsVars => [Next]_vars
  BY DEF PartsNext, Transcribe, PrintAPdf, RestorePolicy, EditFilters, Dialing, UsePanels,
      partsVars
<1>3. IInv => OneListener /\ StopsWithPlayback /\ HeardUnlessFailed
  BY DEF IInv
<1>4. QED BY <1>1, <1>2, <1>3, InitInv, NextInv, PTL DEF PartsSpec

-----------------------------------------------------------------------------
(* The prints of the PDF viewer *)

\* Every call of print stands somewhere.
PrintsStand ==
  printing \in [Prints!PrintCall -> {"idle", "creating", "printing", "printed", "failed"}]

\* Calls of print are where the model has places for them.
LEMMA PrintsStandAlways == PartsSpec => []PrintsStand
<1>0. PartsInit => Prints!Init
  BY Zenon DEF PartsInit
<1>1. PartsInit => PrintsStand
  BY <1>0 DEF Prints!Init, PrintsStand
<1>2. PrintsStand /\ [PartsNext]_partsVars => PrintsStand'
  <2> SUFFICES ASSUME PrintsStand, [PartsNext]_partsVars PROVE PrintsStand'
    OBVIOUS
  <2>1. CASE UNCHANGED printVars
    BY <2>1 DEF PrintsStand, printVars
  <2>2. CASE Prints!Next
    BY <2>2 DEF PrintsStand, Prints!Next, Prints!PrintStep, Prints!Dispose,
        Prints!CallPrint,
        Prints!SessionCreated, Prints!SessionRefused, Prints!Printed,
        Prints!PrintRejected, Prints!TimerFires, Prints!Goto
  <2>3. QED
    BY <2>1, <2>2 DEF PartsNext, Transcribe, PrintAPdf, RestorePolicy, EditFilters, Dialing,
        UsePanels, partsVars
<1>3. QED BY <1>1, <1>2, PTL DEF PartsSpec

\* A session loses its owner only to an overlapping print: the session that
\* takes this.printCleanup is another one, and of a call still creating it.
LEMMA OverlapOrphans ==
  ASSUME PrintsStand, Prints!Next,
         NEW p \in Prints!Orphans' \ Prints!Orphans
  PROVE  \E q \in Prints!PrintCall \ {p} : printing[q] = "creating" /\ printing'[q] = "printing"
<1>1. CASE Prints!Dispose
  BY <1>1 DEF Prints!Dispose, Prints!ClearPrintSession, Prints!Orphans
<1>2. ASSUME NEW q \in Prints!PrintCall, Prints!CallPrint(q) \/ Prints!SessionRefused(q)
             \/ Prints!Printed(q) \/ Prints!PrintRejected(q) \/ Prints!TimerFires(q)
      PROVE  FALSE
  BY <1>2 DEF Prints!CallPrint, Prints!SessionRefused, Prints!Printed, Prints!PrintRejected,
      Prints!TimerFires, Prints!ClearPrintSession, Prints!Orphans
<1>3. ASSUME NEW q \in Prints!PrintCall, Prints!SessionCreated(q)
      PROVE  q # p /\ printing[q] = "creating" /\ printing'[q] = "printing"
  BY <1>3 DEF Prints!SessionCreated, Prints!Goto, Prints!Orphans, PrintsStand
<1>4. QED BY <1>1, <1>2, <1>3 DEF Prints!Next, Prints!PrintStep

\* Prints made one after the other never leave an iframe nobody removes: only
\* a call that was creating its session meanwhile takes the owner of another's
\* (print and cleanup of pdf-viewer.runtime.ts), however many prints there are.
THEOREM OrphansNeedOverlap == PartsSpec => OrphansComeFromOverlap
<1>1. PrintsStand /\ [PartsNext]_partsVars
        => [\A p \in Prints!Orphans' \ Prints!Orphans :
              \E q \in Prints!PrintCall \ {p} :
                printing[q] = "creating" /\ printing'[q] = "printing"]_printVars
  <2> SUFFICES ASSUME PrintsStand, [PartsNext]_partsVars, printVars' # printVars
               PROVE  \A p \in Prints!Orphans' \ Prints!Orphans :
                        \E q \in Prints!PrintCall \ {p} :
                          printing[q] = "creating" /\ printing'[q] = "printing"
    BY DEF printVars
  <2>1. Prints!Next
    BY DEF PartsNext, Transcribe, PrintAPdf, RestorePolicy, EditFilters, Dialing,
        UsePanels, partsVars
  <2>2. QED BY <2>1, OverlapOrphans
<1>2. QED BY <1>1, PrintsStandAlways, PTL DEF PartsSpec, OrphansComeFromOverlap,
    Prints!OrphansComeFromOverlap, Prints!vars, printVars

-----------------------------------------------------------------------------
(* The restoration of the main policy *)

Proved == INSTANCE MainPolicyProofs WITH Nobody <- None

\* The theorems of MainPolicyProofs are about the same operators.
LEMMA SamePolicy ==
  /\ Policy!Order = Proved!Order /\ Policy!Item = Proved!Item /\ Policy!Rule = Proved!Rule
  /\ Policy!Unread = Proved!Unread /\ Policy!Apply = Proved!Apply /\ Policy!Idle = Proved!Idle
  /\ \A i : Policy!State(i) = Proved!State(i)
  /\ \A m, i : Policy!Req(m, i) = Proved!Req(m, i)
BY DEF Policy!Order, Proved!Order, Policy!Item, Proved!Item, Policy!Rule, Proved!Rule,
    Policy!Unread,
    Proved!Unread, Policy!Apply, Proved!Apply, Policy!Idle, Proved!Idle, Policy!State,
    Proved!State,
    Policy!Req, Proved!Req

\* So are what it plans and what the API answers.
LEMMA SamePlan ==
  /\ \A s : Policy!RestorePlan(s) = Proved!RestorePlan(s)
  /\ \A q, s : Policy!Accepts(q, s) = Proved!Accepts(q, s)
  /\ \A q, s : Policy!Outcomes(q, s) = Proved!Outcomes(q, s)
<1>1. ASSUME NEW i, NEW s PROVE Policy!Repair(i, s) = Proved!Repair(i, s)
  BY SamePolicy DEF Policy!Repair, Proved!Repair
<1>2. \A s : Policy!RestorePlan(s) = Proved!RestorePlan(s)
  BY <1>1 DEF Policy!RestorePlan, Proved!RestorePlan
<1>3. \A q, s : Policy!Accepts(q, s) = Proved!Accepts(q, s)
  BY DEF Policy!Accepts, Proved!Accepts
<1>4. \A q, s : Policy!Outcomes(q, s) = Proved!Outcomes(q, s)
  BY SamePolicy DEF Policy!Outcomes, Proved!Outcomes
<1>5. QED BY <1>2, <1>3, <1>4

\* So is every step of it.
LEMMA SameStep ==
  ASSUME Policy!Next PROVE Proved!Next
<1>1. ASSUME NEW r \in Restorer, Policy!Read(r) PROVE Proved!Read(r)
  BY <1>1, SamePolicy, SamePlan DEF Policy!Read, Proved!Read
<1>2. ASSUME NEW r \in Restorer, Policy!Send(r) PROVE Proved!Send(r)
  BY <1>2, SamePolicy, SamePlan DEF Policy!Send, Proved!Send, Policy!Becomes, Proved!Becomes
<1>3. ASSUME NEW r \in Restorer, Policy!Refused(r) PROVE Proved!Refused(r)
  BY <1>3, SamePolicy, SamePlan DEF Policy!Refused, Proved!Refused, Policy!Orphaned,
      Proved!Orphaned, Policy!Stop, Proved!Stop
<1>4. ASSUME NEW r \in Restorer, Policy!AnswerLost(r) PROVE Proved!AnswerLost(r)
  BY <1>4, SamePolicy, SamePlan DEF Policy!AnswerLost, Proved!AnswerLost, Policy!Becomes,
      Proved!Becomes, Policy!Stop, Proved!Stop
<1>5. ASSUME NEW r \in Restorer, Policy!Verify(r) PROVE Proved!Verify(r)
  BY <1>5, SamePolicy, SamePlan DEF Policy!Verify, Proved!Verify, Policy!Stop, Proved!Stop
<1>6. ASSUME NEW i \in Policy!Item, NEW s \in Policy!State(i), Policy!Edit(i, s) PROVE Proved!Edit(i, s)
  BY <1>6, SamePolicy, SamePlan DEF Policy!Edit, Proved!Edit, Policy!Becomes, Proved!Becomes
<1>7. QED BY <1>1, <1>2, <1>3, <1>4, <1>5, <1>6, SamePolicy DEF Policy!Next, Proved!Next

\* A ref that the restoration left unprotected is about to be protected again or
\* was reported, in the run's composition as in MainPolicy alone: the theorem
\* NoSilentGap, carried over by the operators being the same.
THEOREM PolicyGapIsTold == PartsSpec => []GapIsTold
<1>1. PartsInit => Proved!Init
  <2>1. PartsInit => Policy!Init
    BY Zenon DEF PartsInit
  <2>2. QED BY <2>1, SamePolicy DEF Policy!Init, Proved!Init
<1>2. [PartsNext]_partsVars => [Proved!Next]_Proved!vars
  BY SameStep DEF PartsNext, Transcribe, PrintAPdf, RestorePolicy, EditFilters, Dialing,
        UsePanels, partsVars, policyVars, Proved!vars
<1>3. Proved!GapIsTold => GapIsTold
  BY SamePolicy DEF GapIsTold, Policy!GapIsTold, Proved!GapIsTold
<1>4. Proved!Spec => []Proved!GapIsTold
  BY Proved!NoSilentGap
<1>5. QED BY <1>1, <1>2, <1>3, <1>4, PTL DEF PartsSpec, Proved!Spec

-----------------------------------------------------------------------------
(* The echoes of the dialpad *)

Edits == [value : Seq(Digit), caret : Nat]

EchoTypes ==
  /\ bound \in Seq(Digit)
  /\ field \in Seq(Digit)
  /\ caret \in {None} \union [start : Nat, end : Nat]
  /\ pending \in Seq(Edits)
  /\ flight \in Seq(Seq(Digit))
  /\ Len(flight) <= MaxFlight
  /\ strays \in 0 .. Len(flight)

\* How many published numbers the host's own writes have not overtaken.
Own == Len(flight) - strays

\* The latest edits remembered are, in order, those the host may still echo.
EchoesRemembered ==
  /\ Own <= Len(pending)
  /\ \A j \in 1 .. Own : pending[Len(pending) - Own + j].value = flight[strays + j]

EchoInv == EchoTypes /\ EchoesRemembered

-----------------------------------------------------------------------------

\* A nonempty set of numbers has a least one.
LEMMA LeastOf ==
  ASSUME NEW T \in SUBSET Nat, T # {}
  PROVE  \E i \in T : \A j \in T : i <= j
<1>1. PICK i \in T : \A j \in T : <<j, i>> \notin OpToRel(<, Nat)
  BY NatLessThanWellFounded, WFMin
<1>2. \A j \in T : ~(j < i)
  BY <1>1 DEF OpToRel
<1>3. QED BY <1>2

\* editOf finds the oldest remembered edit that has the number.
LEMMA EditFound ==
  ASSUME pending \in Seq(Edits), NEW v
  PROVE  /\ Dial!EditOf(v) \in 0 .. Len(pending)
         /\ Dial!EditOf(v) # 0 => pending[Dial!EditOf(v)].value = v
         /\ \A j \in 1 .. Len(pending) :
              pending[j].value = v => Dial!EditOf(v) # 0 /\ Dial!EditOf(v) <= j
<1> DEFINE hits == {i \in DOMAIN pending : pending[i].value = v}
<1>1. DOMAIN pending = 1 .. Len(pending) /\ Len(pending) \in Nat
  OBVIOUS
<1>2. CASE hits = {}
  BY <1>1, <1>2 DEF Dial!EditOf
<1>3. CASE hits # {}
  <2>0. hits \in SUBSET Nat
    BY <1>1
  <2>1. \E i \in hits : \A j \in hits : i <= j
    <3> HIDE DEF hits
    <3>1. QED BY <2>0, <1>3, LeastOf
  <2>2. Dial!EditOf(v) = CHOOSE i \in hits : \A j \in hits : i <= j
    BY <1>3 DEF Dial!EditOf
  <2>3. Dial!EditOf(v) \in hits /\ \A j \in hits : Dial!EditOf(v) <= j
    BY <2>1, <2>2
  <2>4. QED BY <1>1, <2>3
<1>4. QED BY <1>2, <1>3

-----------------------------------------------------------------------------

\* Counting n - s places from the end of m stays within, as does counting from s.
LEMMA Counted ==
  ASSUME NEW m \in Nat, NEW n \in Nat, NEW s \in 0 .. n, n - s <= m, NEW j \in 1 .. n - s
  PROVE  j \in 1 .. n - s /\ m - (n - s) + j \in 1 .. m /\ s + j \in 1 .. n
OBVIOUS

\* commit puts the edit last and forgets at most one that is no longer owed.
LEMMA CommitKeeps ==
  ASSUME EchoInv, NEW v \in Seq(Digit), NEW c \in Nat,
         Dial!CommitEdit(v, c)
  PROVE  /\ caret' \in [start : Nat, end : Nat]
         /\ pending' \in Seq(Edits)
         /\ flight' \in Seq(Seq(Digit))
         /\ Len(flight') <= MaxFlight
         /\ strays' \in 0 .. Len(flight')
         /\ EchoesRemembered'
<1> DEFINE e == [value |-> v, caret |-> c]
           all == Append(pending, e)
<1>1. /\ Len(flight) < MaxFlight
      /\ caret' = [start |-> c, end |-> c]
      /\ pending' = IF Len(all) > Limit THEN Tail(all) ELSE all
      /\ flight' = Append(flight, v)
      /\ strays' = strays
  BY DEF Dial!CommitEdit, Dial!At
<1>0. e \in Edits /\ e.value = v
  BY DEF Edits
<1>2. /\ pending \in Seq(Edits) /\ flight \in Seq(Seq(Digit))
      /\ Len(pending) \in Nat /\ Len(flight) \in Nat
      /\ strays \in 0 .. Len(flight)
      /\ Own <= Len(pending)
      /\ \A j \in 1 .. Own : pending[Len(pending) - Own + j].value = flight[strays + j]
  BY DEF EchoInv, EchoTypes, EchoesRemembered
<1>3. /\ all \in Seq(Edits) /\ Len(all) = Len(pending) + 1
      /\ all[Len(all)] = e /\ \A i \in 1 .. Len(pending) : all[i] = pending[i]
  <2> HIDE DEF e
  <2>1. QED BY <1>0, <1>2, AppendProperties
<1> HIDE DEF e, all
<1>4. /\ flight' \in Seq(Seq(Digit)) /\ Len(flight') = Len(flight) + 1
      /\ flight'[Len(flight')] = v /\ \A i \in 1 .. Len(flight) : flight'[i] = flight[i]
  BY <1>1, <1>2, AppendProperties
<1>5. \A j \in 1 .. Own + 1 : all[Len(pending) - Own + j].value = flight'[strays + j]
  <2> SUFFICES ASSUME NEW j \in 1 .. Own + 1
               PROVE  all[Len(pending) - Own + j].value = flight'[strays + j]
    OBVIOUS
  <2>1. CASE j = Own + 1
    <3>1. Len(pending) - Own + j = Len(all) /\ strays + j = Len(flight')
      BY <1>2, <1>3, <1>4, <2>1 DEF Own
    <3>2. QED BY <1>0, <1>3, <1>4, <3>1
  <2>2. CASE j # Own + 1
    <3>0. Len(pending) \in Nat /\ Len(flight) \in Nat /\ strays \in 0 .. Len(flight)
          /\ Len(flight) - strays <= Len(pending)
      BY <1>2 DEF Own
    <3>00. j \in 1 .. Len(flight) - strays
      BY <2>2, <3>0 DEF Own
    <3>1. /\ j \in 1 .. Own
          /\ Len(pending) - Own + j \in 1 .. Len(pending)
          /\ strays + j \in 1 .. Len(flight)
      BY <3>0, <3>00, Counted DEF Own
    <3>2. QED BY <1>2, <1>3, <1>4, <3>1
  <2>3. QED BY <2>1, <2>2
<1>6. Own' = Own + 1 /\ Own \in Nat
  BY <1>1, <1>2, <1>4 DEF Own
<1>7. EchoesRemembered' /\ pending' \in Seq(Edits)
  <2>1. CASE Len(all) > Limit
    <3>1. all # <<>>
      BY <1>2, <1>3
    <3>2. pending' = Tail(all)
      BY <1>1, <2>1
    <3>3. /\ pending' \in Seq(Edits) /\ Len(pending') = Len(all) - 1
          /\ \A i \in 1 .. Len(pending') : pending'[i] = all[i + 1]
      <4>1. QED BY <1>3, <3>1, <3>2, HeadTailProperties
    <3>4. Own + 1 <= Len(pending')
      BY <1>1, <1>2, <1>3, <2>1, <3>3, EchoAssumption DEF Own
    <3>5. ASSUME NEW j \in 1 .. Own + 1
          PROVE  pending'[Len(pending') - (Own + 1) + j].value = flight'[strays + j]
      <4>1. /\ Len(pending') - (Own + 1) + j \in 1 .. Len(pending')
            /\ Len(pending') - (Own + 1) + j + 1 = Len(pending) - Own + j
        BY <1>2, <1>3, <1>6, <3>3, <3>4
      <4>2. QED BY <1>5, <3>3, <4>1
    <3>6. QED BY <1>1, <1>6, <3>3, <3>4, <3>5 DEF EchoesRemembered
  <2>2. CASE ~(Len(all) > Limit)
    <3>1. pending' = all
      BY <1>1, <2>2
    <3>2. Len(pending') = Len(pending) + 1 /\ Len(pending) \in Nat
      BY <1>2, <1>3, <3>1
    <3>3. Len(pending') - Own' = Len(pending) - Own
      BY <1>6, <3>2
    <3>4. Own' <= Len(pending')
      BY <1>2, <1>6, <3>2
    <3>5. strays' = strays
      BY <1>1
    <3>6. \A j \in 1 .. Own' : pending'[Len(pending') - Own' + j].value = flight'[strays' + j]
      BY <1>5, <1>6, <3>1, <3>3, <3>5
    <3>7. pending' \in Seq(Edits)
      BY <1>3, <3>1
    <3>8. QED BY <3>4, <3>6, <3>7 DEF EchoesRemembered
  <2>3. QED BY <2>1, <2>2
<1>8. QED BY <1>1, <1>2, <1>4, <1>7, EchoAssumption

-----------------------------------------------------------------------------

\* The selection lies in the number on display.
LEMMA Selected ==
  ASSUME EchoTypes
  PROVE  Dial!Selection \in [start : 0 .. Len(bound), end : 0 .. Len(bound)]
<1>1. Len(bound) \in Nat
  BY DEF EchoTypes
<1>2. CASE caret = None
  BY <1>1, <1>2 DEF Dial!Selection, Dial!At
<1>3. CASE caret # None
  <2>1. caret \in [start : Nat, end : Nat]
    BY <1>3 DEF EchoTypes
  <2>2. caret.start \in Nat /\ caret.end \in Nat
    BY <2>1
  <2>3. /\ Dial!Least(caret.start, Len(bound)) \in 0 .. Len(bound)
        /\ Dial!Least(caret.end, Len(bound)) \in 0 .. Len(bound)
    BY <1>1, <2>2 DEF Dial!Least
  <2>4. QED BY <1>3, <2>3 DEF Dial!Selection, Dial!At
<1>4. QED BY <1>2, <1>3

\* What a press, a deletion, a paste or an erasure commits is a number.
LEMMA EditsCommit ==
  ASSUME EchoTypes,
         \/ \E d \in Digit : Dial!Press(d)
         \/ Dial!Backspace \/ Dial!Erase
         \/ \E v \in Dial!Number : Dial!Paste(v)
  PROVE  /\ \E v \in Seq(Digit), c \in Nat : Dial!CommitEdit(v, c)
         /\ field' \in Seq(Digit)
<1> DEFINE s == Dial!Selection
           n == Len(bound)
<1>1. bound \in Seq(Digit) /\ n \in Nat /\ field \in Seq(Digit)
  BY DEF EchoTypes
<1>2. s \in [start : 0 .. n, end : 0 .. n]
  BY Selected
<1>3. \A i \in 0 .. n : SubSeq(bound, 1, i) \in Seq(Digit) /\ SubSeq(bound, i + 1, n) \in Seq(Digit)
  <2> SUFFICES ASSUME NEW i \in 0 .. n
               PROVE  SubSeq(bound, 1, i) \in Seq(Digit) /\ SubSeq(bound, i + 1, n) \in Seq(Digit)
    OBVIOUS
  <2>1. \A j \in 1 .. n : bound[j] \in Digit
    BY <1>1
  <2>2. SubSeq(bound, 1, i) \in Seq(Digit)
    BY <1>1, <2>1, SubSeqProperties
  <2>3. SubSeq(bound, i + 1, n) \in Seq(Digit)
    BY <1>1, <2>1, SubSeqProperties
  <2>4. QED BY <2>2, <2>3
<1> HIDE DEF s, n
<1>4. ASSUME NEW d \in Digit, Dial!Press(d)
      PROVE  /\ \E v \in Seq(Digit), c \in Nat : Dial!CommitEdit(v, c)
             /\ field' \in Seq(Digit)
  <2>1. /\ Dial!CommitEdit(SubSeq(bound, 1, s.start) \o <<d>> \o SubSeq(bound, s.end + 1, n), s.start + 1)
        /\ field' = field
    BY <1>4 DEF Dial!Press, s, n
  <2>2. SubSeq(bound, 1, s.start) \in Seq(Digit) /\ SubSeq(bound, s.end + 1, n) \in Seq(Digit)
    BY <1>2, <1>3
  <2>3. <<d>> \in Seq(Digit)
    OBVIOUS
  <2>4. SubSeq(bound, 1, s.start) \o <<d>> \o SubSeq(bound, s.end + 1, n) \in Seq(Digit)
    BY <2>2, <2>3, ConcatProperties
  <2>5. s.start + 1 \in Nat
    BY <1>1, <1>2
  <2>6. QED BY <1>1, <2>1, <2>4, <2>5
<1>5. CASE Dial!Backspace
  <2> DEFINE from == IF s.start = s.end THEN s.start - 1 ELSE s.start
  <2>1. /\ Dial!CommitEdit(SubSeq(bound, 1, from) \o SubSeq(bound, s.end + 1, n), from)
        /\ s # [start |-> 0, end |-> 0]
        /\ field' = field
    BY <1>5 DEF Dial!Backspace, Dial!At, s, n
  <2>2. from \in 0 .. n
    BY <1>1, <1>2, <2>1
  <2> HIDE DEF from
  <2>3. SubSeq(bound, 1, from) \in Seq(Digit) /\ SubSeq(bound, s.end + 1, n) \in Seq(Digit)
    BY <1>2, <1>3, <2>2
  <2>4. SubSeq(bound, 1, from) \o SubSeq(bound, s.end + 1, n) \in Seq(Digit)
    BY <2>3, ConcatProperties
  <2>5. from \in Nat
    BY <1>1, <2>2
  <2>6. QED BY <1>1, <2>1, <2>4, <2>5
<1>6. CASE Dial!Erase
  <2>1. Dial!CommitEdit(<<>>, 0) /\ field' = field
    BY <1>6 DEF Dial!Erase
  <2>2. <<>> \in Seq(Digit) /\ 0 \in Nat
    OBVIOUS
  <2>3. QED BY <1>1, <2>1, <2>2
<1>7. ASSUME NEW v \in Dial!Number, Dial!Paste(v)
      PROVE  /\ \E w \in Seq(Digit), c \in Nat : Dial!CommitEdit(w, c)
             /\ field' \in Seq(Digit)
  <2>1. v \in Seq(Digit)
    BY EchoAssumption DEF Dial!Number
  <2>2. Len(v) \in Nat
    BY <2>1
  <2>3. QED BY <1>7, <2>1, <2>2 DEF Dial!Paste
<1>8. QED BY <1>4, <1>5, <1>6, <1>7

-----------------------------------------------------------------------------

\* The host binds a number that n of the numbers on their way do not follow:
\* those that follow it are still remembered, in order, by the edits kept.
LEMMA BindTypes ==
  ASSUME EchoTypes, NEW v \in Seq(Digit), Dial!Bind(v)
  PROVE  /\ bound' \in Seq(Digit) /\ field' \in Seq(Digit)
         /\ caret' \in {None} \union [start : Nat, end : Nat]
         /\ pending' \in Seq(Edits)
<1>1. CASE v = bound
  BY <1>1 DEF EchoTypes, Dial!Bind
<1>2. CASE v # bound
  <2> DEFINE i == Dial!EditOf(v)
  <2>1. /\ bound' = v /\ field' = v
        /\ IF i = 0 THEN caret' = None /\ pending' = <<>>
           ELSE /\ caret' = [start |-> pending[i].caret, end |-> pending[i].caret]
                /\ pending' = SubSeq(pending, i + 1, Len(pending))
    BY <1>2 DEF Dial!Bind, Dial!At
  <2>2. i \in 0 .. Len(pending) /\ pending \in Seq(Edits) /\ Len(pending) \in Nat
    BY EditFound DEF EchoTypes
  <2> HIDE DEF i
  <2>3. CASE i = 0
    BY <2>1, <2>3
  <2>4. CASE i # 0
    <3>1. pending[i] \in Edits
      BY <2>2, <2>4
    <3>2. pending[i].caret \in Nat
      BY <3>1 DEF Edits
    <3>3. \A j \in i + 1 .. Len(pending) : pending[j] \in Edits
      BY <2>2
    <3>4. pending' \in Seq(Edits)
      <4>1. pending' = SubSeq(pending, i + 1, Len(pending))
        BY <2>1, <2>4
      <4>2. i + 1 \in Int /\ Len(pending) \in Int
        BY <2>2
      <4>3. QED BY <3>3, <4>1, <4>2, SubSeqProperties
    <3>5. caret' \in [start : Nat, end : Nat]
      BY <2>1, <2>4, <3>2
    <3>6. QED BY <2>1, <3>4, <3>5
  <2>5. QED BY <2>3, <2>4
<1>3. QED BY <1>1, <1>2

\* A number bound that is the value of a remembered edit, m edits from the
\* newest, keeps those m edits.
LEMMA BindKeepsLater ==
  ASSUME EchoTypes, NEW v \in Seq(Digit), Dial!Bind(v),
         NEW m \in Nat, m < Len(pending), pending[Len(pending) - m].value = v
  PROVE  /\ m <= Len(pending')
         /\ \A j \in 1 .. m : pending'[Len(pending') - m + j] = pending[Len(pending) - m + j]
         /\ caret # None => caret' # None
<1> DEFINE i == Dial!EditOf(v)
<1>1. pending \in Seq(Edits) /\ Len(pending) \in Nat
  BY DEF EchoTypes
<1>2. i # 0 /\ i \in 1 .. Len(pending) /\ i <= Len(pending) - m
  <2>1. Len(pending) - m \in 1 .. Len(pending)
    BY <1>1
  <2>2. QED BY <1>1, <2>1, EditFound
<1>3. CASE v = bound
  BY <1>1, <1>3 DEF Dial!Bind
<1>4. CASE v # bound
  <2>1. /\ caret' = [start |-> pending[i].caret, end |-> pending[i].caret]
        /\ pending' = SubSeq(pending, i + 1, Len(pending))
    BY <1>2, <1>4 DEF Dial!Bind, Dial!At
  <2> HIDE DEF i
  <2>2. pending[i].caret \in Nat
    <3>1. pending[i] \in Edits
      BY <1>1, <1>2
    <3>2. QED BY <3>1 DEF Edits
  <2>3. caret' # None
    BY <2>1, <2>2, EchoAssumption
  <2>4. \A j \in i + 1 .. Len(pending) : pending[j] \in Edits
    BY <1>1, <1>2
  <2>5. Len(pending) \in Int /\ i + 1 \in Int
    BY <1>1, <1>2
  <2>6. /\ Len(pending') = (IF i + 1 <= Len(pending) THEN Len(pending) - (i + 1) + 1 ELSE 0)
        /\ \A j \in 1 .. Len(pending) - (i + 1) + 1 : pending'[j] = pending[i + 1 + j - 1]
    BY <2>1, <2>4, <2>5, SubSeqProperties
  <2>7. Len(pending') = Len(pending) - i
    BY <1>1, <1>2, <2>6
  <2>8. \A j \in 1 .. m : /\ Len(pending') - m + j \in 1 .. Len(pending) - (i + 1) + 1
                          /\ i + 1 + (Len(pending') - m + j) - 1 = Len(pending) - m + j
    BY <1>1, <1>2, <2>7
  <2>9. m <= Len(pending')
    BY <1>1, <1>2, <2>7
  <2>10. ASSUME NEW j \in 1 .. m
         PROVE  pending'[Len(pending') - m + j] = pending[Len(pending) - m + j]
    BY <2>6, <2>8
  <2>11. QED BY <2>3, <2>9, <2>10
<1>5. QED BY <1>3, <1>4

\* A host's echo, whatever it skips: the numbers still on their way are
\* remembered, and none of the dialpad's own edits costs it the caret.
LEMMA EchoKeeps ==
  ASSUME EchoInv, NEW k \in 1 .. MaxFlight, Dial!HostEchoes(k)
  PROVE  /\ EchoInv'
         /\ caret # None /\ caret' = None => strays > 0
<1> DEFINE v == flight[k]
           m == Len(flight) - k
<1>1. /\ Len(flight) \in Nat /\ strays \in 0 .. Len(flight) /\ Len(flight) <= MaxFlight
      /\ flight \in Seq(Seq(Digit)) /\ pending \in Seq(Edits) /\ Len(pending) \in Nat
      /\ EchoTypes
  BY DEF EchoInv, EchoTypes
<1>2. /\ k \in 1 .. Len(flight) /\ Dial!Bind(v)
      /\ flight' = SubSeq(flight, k + 1, Len(flight))
      /\ strays' = IF k <= strays THEN m ELSE 0
  BY DEF Dial!HostEchoes
<1>3. v \in Seq(Digit) /\ m \in Nat /\ m < Len(flight)
  BY <1>1, <1>2
<1> HIDE DEF v
<1>4. /\ flight' \in Seq(Seq(Digit)) /\ Len(flight') = m
      /\ \A j \in 1 .. m : flight'[j] = flight[k + j]
  <2>1. \A j \in k + 1 .. Len(flight) : flight[j] \in Seq(Digit)
    BY <1>1, <1>2
  <2>2. k + 1 \in Int /\ Len(flight) \in Int
    BY <1>1, <1>2
  <2>3. /\ flight' \in Seq(Seq(Digit))
        /\ Len(flight') = (IF k + 1 <= Len(flight) THEN Len(flight) - (k + 1) + 1 ELSE 0)
        /\ \A j \in 1 .. Len(flight) - (k + 1) + 1 : flight'[j] = flight[k + 1 + j - 1]
    BY <1>2, <2>1, <2>2, SubSeqProperties
  <2>4. Len(flight') = m
    BY <1>1, <1>2, <2>3
  <2>5. ASSUME NEW j \in 1 .. m PROVE flight'[j] = flight[k + j]
    <3>1. j \in 1 .. Len(flight) - (k + 1) + 1 /\ k + 1 + j - 1 = k + j
      BY <1>1, <1>2, <1>3
    <3>2. QED BY <2>3, <3>1
  <2>6. QED BY <2>3, <2>4, <2>5
<1> HIDE DEF m
<1>5. /\ bound' \in Seq(Digit) /\ field' \in Seq(Digit)
      /\ caret' \in {None} \union [start : Nat, end : Nat]
      /\ pending' \in Seq(Edits)
  BY <1>1, <1>2, <1>3, BindTypes
<1>6. /\ strays' \in 0 .. Len(flight') /\ Len(flight') <= MaxFlight
  BY <1>1, <1>2, <1>3, <1>4, EchoAssumption
<1>7. EchoTypes'
  BY <1>4, <1>5, <1>6 DEF EchoTypes
<1>8. CASE k <= strays
  <2>1. Own' = 0 /\ strays > 0
    BY <1>1, <1>2, <1>3, <1>4, <1>8 DEF Own
  <2>2. EchoesRemembered'
    BY <1>5, <2>1 DEF EchoesRemembered
  <2>3. QED BY <1>7, <2>1, <2>2 DEF EchoInv
<1>9. CASE ~(k <= strays)
  <2>1. /\ Own <= Len(pending)
        /\ \A j \in 1 .. Own : pending[Len(pending) - Own + j].value = flight[strays + j]
    BY DEF EchoInv, EchoesRemembered
  <2>2. /\ k - strays \in 1 .. Own /\ strays + (k - strays) = k
        /\ m < Len(pending)
        /\ Len(pending) - Own + (k - strays) = Len(pending) - m
    BY <1>1, <1>2, <1>9, <2>1 DEF Own, m
  <2>3. pending[Len(pending) - m].value = v
    BY <2>1, <2>2 DEF v
  <2>4. /\ m <= Len(pending')
        /\ \A j \in 1 .. m : pending'[Len(pending') - m + j] = pending[Len(pending) - m + j]
        /\ caret # None => caret' # None
    BY <1>1, <1>2, <1>3, <2>2, <2>3, BindKeepsLater
  <2>5. Own' = m /\ strays' = 0
    BY <1>2, <1>3, <1>4, <1>9 DEF Own
  <2>6. ASSUME NEW j \in 1 .. m
        PROVE  pending'[Len(pending') - m + j].value = flight'[j]
    <3>1. /\ k - strays + j \in 1 .. Own
          /\ Len(pending) - Own + (k - strays + j) = Len(pending) - m + j
          /\ strays + (k - strays + j) = k + j
      BY <1>1, <1>2, <1>3, <1>9 DEF Own, m
    <3>2. pending[Len(pending) - m + j].value = flight[k + j]
      BY <2>1, <3>1
    <3>3. QED BY <1>4, <2>4, <3>2
  <2>7. \A j \in 1 .. m : 0 + j = j
    BY <1>3
  <2>8. EchoesRemembered'
    BY <2>4, <2>5, <2>6, <2>7 DEF EchoesRemembered
  <2>9. QED BY <1>7, <2>4, <2>8 DEF EchoInv
<1>10. QED BY <1>8, <1>9

\* A step of the dialpad keeps what it remembers, and only a host's own write
\* or a number such a write has overtaken costs it the caret.
LEMMA EchoStep ==
  ASSUME EchoInv, [Dial!DialNext]_echoVars
  PROVE  /\ EchoInv'
         /\ caret # None /\ caret' = None => strays > 0 \/ flight' = flight
<1>1. CASE \/ \E d \in Digit : Dial!Press(d)
           \/ Dial!Backspace \/ Dial!Erase
           \/ \E v \in Dial!Number : Dial!Paste(v)
  <2>1. PICK v \in Seq(Digit), c \in Nat : Dial!CommitEdit(v, c)
    BY <1>1, EditsCommit DEF EchoInv
  <2>2. field' \in Seq(Digit)
    BY <1>1, EditsCommit DEF EchoInv
  <2>3. bound' = bound
    BY <2>1 DEF Dial!CommitEdit
  <2>4. /\ caret' \in [start : Nat, end : Nat]
        /\ pending' \in Seq(Edits)
        /\ flight' \in Seq(Seq(Digit))
        /\ Len(flight') <= MaxFlight
        /\ strays' \in 0 .. Len(flight')
        /\ EchoesRemembered'
    BY <2>1, CommitKeeps
  <2>5. EchoTypes'
    BY <2>2, <2>3, <2>4 DEF EchoInv, EchoTypes
  <2>6. caret' # None
    BY <2>4, EchoAssumption
  <2>7. QED BY <2>4, <2>5, <2>6 DEF EchoInv
<1>2. ASSUME NEW v \in Dial!Number, Dial!HostWrites(v)
      PROVE  EchoInv' /\ flight' = flight
  <2>1. v \in Seq(Digit)
    BY EchoAssumption DEF Dial!Number
  <2>2. EchoTypes /\ Dial!Bind(v) /\ strays' = Len(flight) /\ flight' = flight
    BY <1>2 DEF Dial!HostWrites, EchoInv
  <2>3. /\ bound' \in Seq(Digit) /\ field' \in Seq(Digit)
        /\ caret' \in {None} \union [start : Nat, end : Nat]
        /\ pending' \in Seq(Edits)
    BY <2>1, <2>2, BindTypes
  <2>4. Len(flight) \in Nat /\ flight \in Seq(Seq(Digit)) /\ Len(flight) <= MaxFlight
    BY <2>2 DEF EchoTypes
  <2>5. EchoTypes'
    BY <2>2, <2>3, <2>4 DEF EchoTypes
  <2>6. Own' = 0
    BY <2>2, <2>4 DEF Own
  <2>7. EchoesRemembered'
    BY <2>3, <2>6 DEF EchoesRemembered
  <2>8. QED BY <2>2, <2>5, <2>7 DEF EchoInv
<1>3. ASSUME NEW b \in 0 .. MaxLength, NEW e \in 0 .. MaxLength, Dial!Place(b, e)
      PROVE  EchoInv' /\ flight' = flight
  <2>1. caret' = [start |-> b, end |-> e] /\ UNCHANGED <<bound, field, pending, flight, strays>>
    BY <1>3 DEF Dial!Place, Dial!At
  <2>2. caret' \in [start : Nat, end : Nat]
    BY <2>1, EchoAssumption
  <2>3. QED BY <2>1, <2>2 DEF EchoInv, EchoTypes, EchoesRemembered, Own
<1>4. ASSUME NEW k \in 1 .. MaxFlight, Dial!HostEchoes(k)
      PROVE  EchoInv' /\ (caret # None /\ caret' = None => strays > 0)
  BY <1>4, EchoKeeps
<1>5. CASE UNCHANGED echoVars
  BY <1>5 DEF EchoInv, EchoTypes, EchoesRemembered, Own, echoVars
<1>6. QED BY <1>1, <1>2, <1>3, <1>4, <1>5 DEF Dial!DialNext

\* The dialpad remembers what may still be echoed in every behaviour.
LEMMA EchoInvHolds == PartsSpec => []EchoInv
<1>1. PartsInit => EchoInv
  <2>1. PartsInit => Dial!DialInit
    BY Zenon DEF PartsInit
  <2>2. QED BY <2>1, EchoAssumption DEF Dial!DialInit, EchoInv, EchoTypes,
      EchoesRemembered, Own
<1>2. EchoInv /\ [PartsNext]_partsVars => EchoInv'
  <2>1. [PartsNext]_partsVars => [Dial!DialNext]_echoVars
    BY DEF PartsNext, Transcribe, PrintAPdf, RestorePolicy, EditFilters, Dialing,
        UsePanels, partsVars
  <2>2. QED BY <2>1, EchoStep
<1>3. QED BY <1>1, <1>2, PTL DEF PartsSpec

\* However late the host binds an edit, and however many it skips, the dialpad
\* finds it among those it remembers and puts the caret where the edit left it
\* (commit and the effect that binds value, dialpad.ts), for numbers and queues of any
\* length.
THEOREM EchoesAreRecognised == PartsSpec => OwnEchoKeepsCaret
<1>1. EchoInv /\ [PartsNext]_partsVars
        => [caret # None /\ caret' = None => strays > 0 \/ flight' = flight]_Dial!dialVars
  <2>1. [PartsNext]_partsVars => [Dial!DialNext]_echoVars
    BY DEF PartsNext, Transcribe, PrintAPdf, RestorePolicy, EditFilters, Dialing,
        UsePanels, partsVars
  <2>2. QED BY <2>1, EchoStep DEF echoVars, Dial!dialVars
<1>2. QED BY <1>1, EchoInvHolds, PTL DEF PartsSpec, OwnEchoKeepsCaret,
    Dial!OwnEchoKeepsCaret

-----------------------------------------------------------------------------
(* The editors of the filter builder *)

EditorSession == [mode : {"create", "edit"}, field : Field, session : Nat]

\* The live session is the latest one; what earlier ones left behind, a
\* hide() that has not settled or a focus-out timer, bears an older number.
EditorTypes ==
  /\ sessions \in Nat
  /\ editor \in {None} \union EditorSession
  /\ panel \in [Filter!Surface -> {"closed", "opening", "open", "exiting"}]
  /\ left \in {"not", "moved", "asked"}
  /\ focusTimer \in {None} \union [at : {"picker", "clear", "token", "editor", "outside"},
                                   of : Filter!Surface \union {None}]
  /\ \A h \in hides : /\ h.session \in Nat
                      /\ h.to \in [at : {"picker", "token"}, of : Filter!Surface \union {None}]
                      /\ IF editor = None THEN h.session <= sessions ELSE h.session < sessions
  /\ \A o \in outs : o.session \in Nat /\ o.session <= sessions
  /\ editor # None => editor.session = sessions

\* What keeps a live create session until its user leaves it: no exit runs, the
\* focus timer leads into the editor, and a focus-out timer was armed by a user.
EditorKept ==
  Filter!CreateLive =>
    /\ left # "asked" => panel["create"] # "exiting"
    /\ left # "asked" /\ ~(panel["create"] = "opening" /\ showing = sessions)
         => focusTimer = None \/ focusTimer.at = "editor"
    /\ panel["create"] = "opening" => focus # Filter!Editor("create")
    /\ left = "not" => \/ focus = Filter!Editor("create")
                       \/ \A o \in outs : o.session # editor.session

EditorInv == EditorTypes /\ EditorKept

\* Every step of the builder, its promises, timers and exits included, keeps the
\* numbering of the sessions and a live create session's popover.
LEMMA EditorStep ==
  ASSUME EditorInv, [Filter!FilterNext]_editorVars
  PROVE  EditorInv'
<1> USE FieldAssumption DEF EditorInv, EditorSession, Filter!CreateLive, Filter!Editor, Filter!Token,
      Filter!Picker, Filter!Outside, Filter!Clear, Filter!Spot, Filter!engine, Filter!user
<1>1. CASE Filter!ShowSettles
  <2>1. EditorTypes'
    BY <1>1 DEF EditorTypes, Filter!ShowSettles, Filter!Surface
  <2>2. EditorKept'
    BY <1>1 DEF EditorTypes, EditorKept, Filter!ShowSettles
  <2>3. QED BY <2>1, <2>2
<1>2. CASE Filter!FocusTimer
  <2>1. EditorTypes'
    BY <1>2 DEF EditorTypes, Filter!FocusTimer, Filter!FocusMoves, Filter!UserActs,
        Filter!Shown, Filter!SurfaceOf
  <2>2. EditorKept'
    BY <1>2 DEF EditorTypes, EditorKept, Filter!FocusTimer, Filter!FocusMoves,
        Filter!UserActs, Filter!Shown, Filter!SurfaceOf
  <2>3. QED BY <2>1, <2>2
<1>3. ASSUME NEW h \in hides, Filter!HideSettles(h)
      PROVE  EditorInv'
  <2>1. EditorTypes'
    BY <1>3 DEF EditorTypes, Filter!HideSettles
  <2>2. EditorKept'
    BY <1>3 DEF EditorTypes, EditorKept, Filter!HideSettles
  <2>3. QED BY <2>1, <2>2
<1>4. ASSUME NEW s \in Filter!Surface, Filter!Exit(s)
      PROVE  EditorInv'
  <2>1. EditorTypes'
    BY <1>4 DEF EditorTypes, Filter!Exit, Filter!ContentGone, Filter!SurfaceOf,
        Filter!Surface
  <2>2. EditorKept'
    BY <1>4 DEF EditorTypes, EditorKept, Filter!Exit, Filter!ContentGone,
        Filter!SurfaceOf, Filter!Surface
  <2>3. QED BY <2>1, <2>2
<1>5. CASE Filter!Commit
  <2>1. EditorTypes'
    BY <1>5 DEF EditorTypes, Filter!Commit, Filter!EndEditor, Filter!Hide,
        Filter!SurfaceOf, Filter!Surface
  <2>2. EditorKept'
    BY <1>5 DEF EditorTypes, EditorKept, Filter!Commit, Filter!EndEditor, Filter!Hide,
        Filter!SurfaceOf, Filter!Surface
  <2>3. QED BY <2>1, <2>2
<1>6. CASE Filter!Cancel
  <2>1. EditorTypes'
    BY <1>6 DEF EditorTypes, Filter!Cancel, Filter!EndEditor, Filter!Hide,
        Filter!SurfaceOf, Filter!Surface
  <2>2. EditorKept'
    BY <1>6 DEF EditorTypes, EditorKept, Filter!Cancel, Filter!EndEditor, Filter!Hide,
        Filter!SurfaceOf, Filter!Surface
  <2>3. QED BY <2>1, <2>2
<1>7. CASE Filter!ClearAll
  <2>1. EditorTypes'
    BY <1>7 DEF EditorTypes, Filter!ClearAll, Filter!Removed
  <2>2. EditorKept'
    BY <1>7 DEF EditorTypes, EditorKept, Filter!ClearAll, Filter!Removed, Filter!Surface
  <2>3. QED BY <2>1, <2>2
<1>8. CASE Filter!TokenKey
  <2>1. EditorTypes'
    BY <1>8 DEF EditorTypes, Filter!TokenKey, Filter!UserActs
  <2>2. EditorKept'
    BY <1>8 DEF EditorTypes, EditorKept, Filter!TokenKey, Filter!UserActs
  <2>3. QED BY <2>1, <2>2
<1>9. ASSUME NEW o \in outs, Filter!FocusOutTimer(o)
      PROVE  EditorInv'
  <2>1. EditorTypes'
    <3>1. CASE editor # None /\ editor.session = o.session /\ focus # Filter!Editor("create")
      <4>1. /\ editor' = None /\ hides' = hides /\ sessions' = sessions
            /\ left' = left /\ focusTimer' = focusTimer /\ outs' = outs \ {o}
        BY <1>9, <3>1 DEF Filter!FocusOutTimer, Filter!EndEditor
      <4>2. panel' \in [Filter!Surface -> {"closed", "opening", "open", "exiting"}]
        BY ZenonT(30), <1>9, <3>1 DEF EditorTypes, Filter!FocusOutTimer, Filter!EndEditor,
            Filter!Hide, Filter!SurfaceOf, Filter!Surface
      <4>3. QED BY <4>1, <4>2 DEF EditorTypes
    <3>2. CASE ~(editor # None /\ editor.session = o.session /\ focus # Filter!Editor("create"))
      BY ZenonT(30), <1>9, <3>2 DEF EditorTypes, Filter!FocusOutTimer
    <3>3. QED BY <3>1, <3>2
  <2>2. EditorKept'
    BY <1>9 DEF EditorTypes, EditorKept, Filter!FocusOutTimer, Filter!EndEditor,
        Filter!Hide, Filter!SurfaceOf, Filter!Surface
  <2>3. QED BY <2>1, <2>2
<1>10. ASSUME NEW f \in Field, Filter!BeginCreate(f)
      PROVE  EditorInv'
  <2>1. EditorTypes'
    <3>1. /\ panel' \in [Filter!Surface -> {"closed", "opening", "open", "exiting"}]
          /\ focusTimer' \in {focusTimer, Filter!Editor("create")}
          /\ left' \in {"not", "asked"}
      BY <1>10 DEF EditorTypes, Filter!BeginCreate, Filter!Show, Filter!Surface
    <3>2. /\ hides' = hides /\ outs' = outs /\ sessions' = sessions + 1
          /\ editor' = [mode |-> "create", field |-> f, session |-> sessions + 1]
      BY <1>10 DEF Filter!BeginCreate
    <3>3. QED BY <3>1, <3>2 DEF EditorTypes, Filter!Surface
  <2>2. EditorKept'
    <3>1. /\ editor'.session = sessions + 1 /\ outs' = outs /\ focus = Filter!Picker
          /\ focus' = focus
      BY <1>10 DEF Filter!BeginCreate
    <3>2. \A o \in outs' : o.session # editor'.session
      BY <3>1 DEF EditorTypes
    <3>3. CASE panel["create"] = "opening"
      BY <1>10, <3>1, <3>2, <3>3 DEF EditorTypes, EditorKept, Filter!BeginCreate, Filter!Show,
          Filter!Surface
    <3>4. CASE panel["create"] # "opening"
      BY <1>10, <3>1, <3>2, <3>4 DEF EditorTypes, EditorKept, Filter!BeginCreate, Filter!Show,
          Filter!Surface
    <3>5. QED BY <3>3, <3>4
  <2>3. QED BY <2>1, <2>2
<1>11. ASSUME NEW f \in Field, Filter!PressToken(f)
      PROVE  EditorInv'
  <2>1. EditorTypes'
    BY <1>11 DEF EditorTypes, Filter!PressToken, Filter!BeginEdit, Filter!UserActs,
        Filter!Surface
  <2>2. EditorKept'
    BY <1>11 DEF EditorTypes, EditorKept, Filter!PressToken, Filter!BeginEdit,
        Filter!UserActs, Filter!Surface
  <2>3. QED BY <2>1, <2>2
<1>12. ASSUME NEW f \in Field, Filter!ClickToken(f)
      PROVE  EditorInv'
  <2>1. EditorTypes'
    <3>1. /\ panel' \in [Filter!Surface -> {"closed", "opening", "open", "exiting"}]
          /\ focusTimer' \in {focusTimer, Filter!Editor(f)}
      BY <1>12 DEF EditorTypes, Filter!ClickToken, Filter!Hide, Filter!Show, Filter!Surface
    <3>2. hides' = hides /\ outs' = outs /\ left' \in {"not", "asked", left}
      BY <1>12 DEF Filter!ClickToken, Filter!UserActs
    <3>3. \/ sessions' = sessions /\ editor' = editor
          \/ sessions' = sessions + 1 /\ editor' = [mode |-> "edit", field |-> f, session |-> sessions + 1]
      BY <1>12 DEF Filter!ClickToken, Filter!BeginEdit
    <3>4. QED BY <3>1, <3>2, <3>3 DEF EditorTypes, Filter!Surface
  <2>2. EditorKept'
    BY <1>12 DEF EditorTypes, EditorKept, Filter!ClickToken, Filter!BeginEdit,
        Filter!UserActs, Filter!Hide, Filter!Show, Filter!Surface
  <2>3. QED BY <2>1, <2>2
<1>13. ASSUME NEW f \in Field, Filter!SetValue(f)
      PROVE  EditorInv'
  <2>1. EditorTypes'
    BY <1>13 DEF EditorTypes, Filter!SetValue, Filter!Removed, Filter!Surface
  <2>2. EditorKept'
    BY <1>13 DEF EditorTypes, EditorKept, Filter!SetValue, Filter!Removed, Filter!Surface
  <2>3. QED BY <2>1, <2>2
<1>14. ASSUME NEW f \in Field, Filter!SetOffered(f)
      PROVE  EditorInv'
  <2>1. EditorTypes'
    BY <1>14 DEF EditorTypes, Filter!SetOffered
  <2>2. EditorKept'
    BY <1>14 DEF EditorTypes, EditorKept, Filter!SetOffered
  <2>3. QED BY <2>1, <2>2
<1>15. ASSUME NEW to, NEW byTab \in BOOLEAN, Filter!MoveFocus(to, byTab)
      PROVE  EditorInv'
  <2>1. EditorTypes'
    BY <1>15 DEF EditorTypes, Filter!MoveFocus, Filter!FocusMoves, Filter!UserActs,
        Filter!Shown, Filter!SurfaceOf
  <2>2. EditorKept'
    BY <1>15 DEF EditorTypes, EditorKept, Filter!MoveFocus, Filter!FocusMoves,
        Filter!UserActs, Filter!Shown, Filter!SurfaceOf
  <2>3. QED BY <2>1, <2>2
<1>16. ASSUME NEW s \in Filter!Surface, Filter!Dismiss(s)
      PROVE  EditorInv'
  <2>1. EditorTypes'
    BY <1>16 DEF EditorTypes, Filter!Dismiss, Filter!Hide, Filter!UserActs, Filter!Surface
  <2>2. EditorKept'
    BY <1>16 DEF EditorTypes, EditorKept, Filter!Dismiss, Filter!Hide, Filter!UserActs,
        Filter!Surface
  <2>3. QED BY <2>1, <2>2
<1>17. CASE UNCHANGED editorVars
  BY <1>17 DEF EditorTypes, EditorKept, editorVars
<1>18. QED BY <1>1, <1>2, <1>3, <1>4, <1>5, <1>6, <1>7, <1>8, <1>9, <1>10, <1>11, <1>12,
    <1>13, <1>14, <1>15, <1>16, <1>17 DEF Filter!FilterNext, Filter!Settling

\* An exit or a focus-out timer that ends a live create session finds that its
\* user has left it.
LEMMA OnlyItsUser ==
  ASSUME EditorInv, Filter!CreateLive, editor' # editor,
         Filter!Exit("create") \/ \E o \in outs : Filter!FocusOutTimer(o)
  PROVE  left # "not"
<1>1. CASE Filter!Exit("create")
  BY <1>1 DEF EditorInv, EditorKept, EditorTypes, Filter!Exit
<1>2. ASSUME NEW o \in outs, Filter!FocusOutTimer(o)
      PROVE  left # "not"
  BY <1>2 DEF EditorInv, EditorKept, EditorTypes, Filter!FocusOutTimer
<1>3. QED BY <1>1, <1>2

\* Session numbers and popovers belong together in every behaviour.
LEMMA EditorInvHolds == PartsSpec => []EditorInv
<1>1. PartsInit => EditorInv
  <2>1. PartsInit => Filter!FilterInit
    BY Zenon DEF PartsInit
  <2>2. QED BY <2>1 DEF Filter!FilterInit, EditorInv, EditorTypes, EditorKept,
      Filter!CreateLive,
         Filter!Picker, Filter!Spot, Filter!Editor
<1>2. EditorInv /\ [PartsNext]_partsVars => EditorInv'
  <2>1. [PartsNext]_partsVars => [Filter!FilterNext]_editorVars
    BY DEF PartsNext, Transcribe, PrintAPdf, RestorePolicy, EditFilters, Dialing,
        UsePanels, partsVars
  <2>2. QED BY <2>1, EditorStep
<1>3. QED BY <1>1, <1>2, PTL DEF PartsSpec

\* No promise, timer or exit of an earlier editor ends a live create session:
\* sessions are told apart by their number, and a popover only ends while it is
\* up (onEditorFocusOut, isLatestSession and onCreateOpenChange of
\* filter-builder.renderer.ts), for any fields, sessions and changes of the host.
THEOREM SessionsEndByTheirUser == PartsSpec => OnlyItsUserEndsIt
<1>1. EditorInv
        => [(Filter!CreateLive /\ editor' # editor
               /\ (Filter!Exit("create") \/ \E o \in outs : Filter!FocusOutTimer(o)))
              => left # "not"]_Filter!filterVars
  BY OnlyItsUser
<1>2. QED BY <1>1, EditorInvHolds, PTL DEF OnlyItsUserEndsIt, Filter!OnlyItsUserEndsIt

-----------------------------------------------------------------------------
(* The panels of the app shell *)

Spots == Shell!Control \union Shell!Panel \union {"content", "body"}
Asked == [panel : Shell!Panel, element : Spots]
Trap == [panel : Shell!Panel, element : {"first", "second", None}]

ShellRecord ==
  [shown : SUBSET Shell!Panel, trap : {None} \union Trap, home : {None} \union Spots,
   retry : {None} \union Spots, open : {None} \union Asked, close : {None} \union Asked,
   action : {None} \union Spots, handled : BOOLEAN, checks : BOOLEAN, focus : Spots,
   acted : BOOLEAN, owed : BOOLEAN]

\* A pending restoration is of a shell without a trap, and an act of the user
\* since it was scheduled has left it nothing to restore.
Yields(s) == s.retry # None => s.trap = None /\ (s.acted => s.home = None)

Good(s) == s \in ShellRecord /\ Yields(s)

ShellInv == present \in {"first", "second", None} /\ Good(shell)

-----------------------------------------------------------------------------
(* What the shell's operators keep *)

\* Moving the focus touches neither trap nor restoration.
LEMMA MoveFocusGood ==
  ASSUME NEW s, Good(s), NEW e \in Spots
  PROVE  Good(Shell!MoveFocus(s, e))
BY DEF Good, Yields, ShellRecord, Shell!MoveFocus

\* ensureMobilePanelFocus moves the focus into the panel, if at all.
LEMMA EnsuredGood ==
  ASSUME NEW s, Good(s), NEW t \in Shell!Ensured(s)
  PROVE  Good(t)
<1>1. CASE t = s
  BY <1>1
<1>2. CASE t # s
  <2>1. PICK e \in (Shell!Inner(s.trap.panel) \ {s.home}) \union {s.trap.panel} : t = Shell!MoveFocus(s, e)
    BY <1>2 DEF Shell!Ensured
  <2>2. s.trap \in Trap
    BY <1>2 DEF Shell!Ensured, Good, ShellRecord
  <2>3. e \in Spots
    BY <2>1, <2>2 DEF Trap, Spots, Shell!Inner, Shell!Panel, Shell!Control
  <2>4. QED BY <2>1, <2>3, MoveFocusGood
<1>3. QED BY <1>1, <1>2

\* restoreMobileFocusTarget moves the focus or forgets the element, and keeps the rest.
LEMMA RestoreGood ==
  ASSUME NEW s, Good(s), NEW e \in {None} \union Spots
  PROVE  /\ Good(Shell!RestoreTo(s, e))
         /\ Shell!RestoreTo(s, e).trap = s.trap
         /\ Shell!RestoreTo(s, e).retry = s.retry
         /\ Shell!RestoreTo(s, e).home \in {s.home, None}
         /\ Shell!RestoreTo(s, e).acted = s.acted
<1>1. CASE Shell!RestoreTo(s, e) = s
  BY <1>1 DEF Good, Yields, ShellRecord
<1>2. CASE Shell!RestoreTo(s, e) = [s EXCEPT !.home = None]
  BY <1>2 DEF Good, Yields, ShellRecord
<1>3. CASE e # None /\ Shell!RestoreTo(s, e) = Shell!MoveFocus(s, e)
  <2>1. Good(Shell!MoveFocus(s, e))
    BY <1>3, MoveFocusGood
  <2>2. QED BY <1>3, <2>1 DEF Good, Yields, ShellRecord, Shell!MoveFocus
<1>4. QED BY <1>1, <1>2, <1>3 DEF Shell!RestoreTo

\* A restoration is only scheduled by a shell without a trap.
LEMMA ScheduleGood ==
  ASSUME NEW s, Good(s), s.trap = None
  PROVE  Good(Shell!ScheduleRestore(s))
BY DEF Good, Yields, ShellRecord, Shell!ScheduleRestore

\* A cancelled restoration has nothing left to do.
LEMMA CancelGood ==
  ASSUME NEW s, Good(s)
  PROVE  Good(Shell!CancelRestore(s))
BY DEF Good, Yields, ShellRecord, Shell!CancelRestore

\* A redirected restoration starts again with another element.
LEMMA RedirectGood ==
  ASSUME NEW s, Good(s), NEW e \in Spots
  PROVE  Good(Shell!Redirect(s, e))
<1> DEFINE t == [s EXCEPT !.home = e, !.retry = None]
<1>1. Good(t) /\ t.trap = s.trap
  BY DEF Good, Yields, ShellRecord
<1> HIDE DEF t
<1>2. CASE s.trap = None
  <2>1. Good(Shell!RestoreTo(t, e)) /\ Shell!RestoreTo(t, e).trap = None
    BY <1>1, <1>2, RestoreGood
  <2>2. Good(Shell!ScheduleRestore(Shell!RestoreTo(t, e)))
    BY <2>1, ScheduleGood
  <2>3. QED BY <1>2, <2>2 DEF Shell!Redirect, t
<1>3. CASE s.trap # None
  BY <1>1, <1>3 DEF Shell!Redirect, t
<1>4. QED BY <1>2, <1>3

\* Bookkeeping of a click: the action was handled.
LEMMA MarkGood ==
  ASSUME NEW s, Good(s)
  PROVE  Good(Shell!MarkHandled(s))
BY DEF Good, Yields, ShellRecord, Shell!MarkHandled

\* Showing or hiding a panel concerns no restoration.
LEMMA SetGood ==
  ASSUME NEW s, Good(s), NEW p \in Shell!Panel, NEW open \in BOOLEAN
  PROVE  Good(Shell!Set(s, p, open))
BY ZenonT(30) DEF Good, Yields, ShellRecord, Shell!Set

\* Staged requests name a panel and an element that asked.
LEMMA StageOpenGood ==
  ASSUME NEW s, Good(s), NEW p \in Shell!Panel
  PROVE  Good(Shell!StageOpen(s, p))
BY DEF Good, Yields, ShellRecord, Asked, Shell!StageOpen

\* Staging a close, likewise.
LEMMA StageCloseGood ==
  ASSUME NEW s, Good(s), NEW p \in Shell!Panel
  PROVE  Good(Shell!StageClose(s, p))
BY DEF Good, Yields, ShellRecord, Asked, Shell!StageClose

\* Opening a panel, likewise.
LEMMA OpenPanelGood ==
  ASSUME NEW s, Good(s), NEW p \in Shell!Panel
  PROVE  Good(Shell!OpenPanel(s, p))
BY DEF Good, Yields, ShellRecord, Shell!OpenPanel

\* A toggle of the shell is made of these.
LEMMA ToggleGood ==
  ASSUME NEW s, Good(s), NEW p \in Shell!Panel
  PROVE  Good(Shell!Toggle(s, p))
BY MarkGood, SetGood, StageOpenGood, StageCloseGood, OpenPanelGood DEF Shell!Toggle

\* The panel that wants the trap is a panel.
LEMMA WantedPanel ==
  ASSUME NEW s
  PROVE  Shell!Wanted(s) \in {None} \union Shell!Panel
BY DEF Shell!Wanted, Shell!Panel

\* Closing the panels the shell controls.
LEMMA ClosePanelsGood ==
  ASSUME NEW s, Good(s), NEW stage \in BOOLEAN
  PROVE  Good(Shell!ClosePanels(s, stage))
<1> DEFINE m == [Shell!MarkHandled(s) EXCEPT !.open = None]
           p == Shell!Wanted(s)
           c == IF stage THEN Shell!StageClose(m, p) ELSE m
<1>1. Good(m)
  <2>1. Good(Shell!MarkHandled(s))
    BY MarkGood
  <2>2. QED BY <2>1 DEF Good, Yields, ShellRecord
<1> HIDE DEF m
<1>2. CASE p = None
  BY <1>1, <1>2 DEF Shell!ClosePanels, m
<1>3. CASE p # None
  <2>1. Good(c)
    BY <1>1, <1>3, WantedPanel, StageCloseGood
  <2>2. Shell!ClosePanels(s, stage) = [c EXCEPT !.shown = @ \intersect controlled]
    BY <1>3 DEF Shell!ClosePanels, m
  <2> HIDE DEF c
  <2>3. QED BY <2>1, <2>2 DEF Good, Yields, ShellRecord
<1>4. QED BY <1>2, <1>3

\* The end of an action, which may redirect the restoration.
LEMMA CompleteGood ==
  ASSUME NEW s, Good(s), NEW e \in Spots
  PROVE  Good(Shell!Complete(s, e))
<1> DEFINE p == Shell!Wanted(s)
           c == Shell!ClosePanels(Shell!StageClose(s, p), FALSE)
<1>1. CASE s.handled
  <2>1. Shell!Complete(s, e) \in {Shell!Redirect(s, e), s}
    BY <1>1 DEF Shell!Complete
  <2>2. QED BY <2>1, RedirectGood
<1>2. CASE ~s.handled /\ p = None
  BY <1>2 DEF Shell!Complete
<1>3. CASE ~s.handled /\ p # None
  <2>1. p \in Shell!Panel
    BY <1>3, WantedPanel
  <2>2. Good(c)
    BY <2>1, StageCloseGood, ClosePanelsGood
  <2>3. Shell!Complete(s, e) \in {Shell!Redirect(c, e), c}
    BY <1>3 DEF Shell!Complete
  <2> HIDE DEF c
  <2>4. QED BY <2>2, <2>3, RedirectGood
<1>4. s.handled \in BOOLEAN
  BY DEF Good, ShellRecord
<1>5. QED BY <1>1, <1>2, <1>3, <1>4

\* A press, key or click leaves a scheduled restoration nothing to restore:
\* it cancels it, unless there was nothing left.
LEMMA CaptureGood ==
  ASSUME NEW s, Good(s), NEW e \in {None} \union Spots
  PROVE  Good(Shell!Capture(s, e))
<1> DEFINE t == [s EXCEPT !.action = e, !.handled = FALSE, !.open = None, !.close = None,
                          !.acted = TRUE, !.owed = FALSE]
<1>1. /\ t \in ShellRecord /\ t.trap = s.trap /\ t.home = s.home /\ t.retry = s.retry
      /\ s.trap # None => s.retry = None
  BY DEF Good, Yields, ShellRecord
<1>2. Shell!Capture(s, e) = IF s.trap = None /\ s.home # None THEN Shell!CancelRestore(t) ELSE t
  BY DEF Shell!Capture
<1> HIDE DEF t
<1>3. CASE s.trap = None /\ s.home # None
  BY ZenonT(30), <1>1, <1>2, <1>3 DEF Good, Yields, ShellRecord, Shell!CancelRestore
<1>4. CASE ~(s.trap = None /\ s.home # None)
  BY <1>1, <1>2, <1>4 DEF Good, Yields
<1>5. QED BY <1>3, <1>4

\* What a control's own handler does.
LEMMA HandleGood ==
  ASSUME NEW s, Good(s), NEW e, NEW h
  PROVE  Good(Shell!Handle(s, e, h))
<1>1. /\ Good(Shell!Toggle(s, "sidenav")) /\ Good(Shell!Toggle(s, "secondary"))
      /\ Good(Shell!ClosePanels(s, TRUE))
  BY ToggleGood, ClosePanelsGood DEF Shell!Panel
<1>2. QED BY <1>1 DEF Shell!Handle

\* One click through capture listener, handler, microtask and host listener.
LEMMA ClickedGood ==
  ASSUME NEW s, Good(s), NEW e \in Shell!Control, NEW h, NEW scripted \in BOOLEAN, NEW stopped \in BOOLEAN
  PROVE  Good(Shell!Clicked(s, e, h, scripted, stopped))
<1> DEFINE c == Shell!Capture(s, e)
<1>1. e \in Spots
  BY DEF Spots
<1>2. Good(c)
  BY <1>1, CaptureGood
<1> HIDE DEF c
<1>3. /\ Good(Shell!Handle(c, e, h)) /\ Good(Shell!Complete(c, e))
  BY <1>1, <1>2, HandleGood, CompleteGood
<1>4. /\ Good(Shell!Complete(Shell!Handle(c, e, h), e))
      /\ Good(Shell!Handle(Shell!Complete(c, e), e, h))
  BY <1>1, <1>3, HandleGood, CompleteGood
<1>5. Good(Shell!Complete(Shell!Handle(Shell!Complete(c, e), e, h), e))
  BY <1>1, <1>4, CompleteGood
<1>6. Shell!Clicked(s, e, h, scripted, stopped) \in
        {Shell!Handle(c, e, h), Shell!Complete(Shell!Handle(c, e, h), e),
         Shell!Handle(Shell!Complete(c, e), e, h),
         Shell!Complete(Shell!Handle(Shell!Complete(c, e), e, h), e)}
  BY DEF Shell!Clicked, c
<1>7. QED BY <1>3, <1>4, <1>5, <1>6

\* A trap that is taken down schedules a restoration of its own; one that is
\* put up has dropped whatever was scheduled.
LEMMA TeardownGood ==
  ASSUME NEW s, Good(s), NEW restore \in BOOLEAN, NEW preserve \in BOOLEAN
  PROVE  Good(Shell!Teardown(s, restore, preserve))
<1> DEFINE home == IF s.trap # None /\ s.close # None /\ s.close.panel = s.trap.panel
                        /\ Shell!Connected(s.close.element)
                     THEN s.close.element ELSE s.home
           t == [s EXCEPT !.trap = None, !.owed = FALSE]
           r == IF s.trap = None THEN t ELSE [t EXCEPT !.close = None, !.home = home]
<1>1. home \in {None} \union Spots
  <2>1. s.close # None => s.close.element \in Spots
    BY DEF Good, ShellRecord, Asked
  <2>2. s.home \in {None} \union Spots
    BY DEF Good, ShellRecord
  <2>3. QED BY <2>1, <2>2
<1> HIDE DEF home
<1>2. Good(t) /\ t.trap = None
  BY DEF Good, Yields, ShellRecord
<1>3. Good(r) /\ r.trap = None /\ r.home \in {None} \union Spots
  <2>1. CASE s.trap = None
    BY <1>2, <2>1 DEF Good, ShellRecord
  <2>2. CASE s.trap # None
    <3>1. s.retry = None
      BY <2>2 DEF Good, Yields
    <3>2. t.retry = None
      BY <3>1 DEF Good, ShellRecord
    <3> HIDE DEF t
    <3>3. r = [t EXCEPT !.close = None, !.home = home]
      BY <2>2
    <3> HIDE DEF r
    <3>4. QED BY <1>1, <1>2, <3>2, <3>3 DEF Good, Yields, ShellRecord
  <2>3. QED BY <2>1, <2>2
<1>4. Shell!Teardown(s, restore, preserve) =
        IF restore THEN Shell!ScheduleRestore(Shell!RestoreTo(r, r.home))
        ELSE [t EXCEPT !.retry = None, !.home = IF preserve THEN @ ELSE None]
  BY DEF Shell!Teardown, home
<1> HIDE DEF t, r
<1>5. Good(Shell!ScheduleRestore(Shell!RestoreTo(r, r.home)))
  <2>1. Good(Shell!RestoreTo(r, r.home)) /\ Shell!RestoreTo(r, r.home).trap = None
    BY <1>3, RestoreGood
  <2>2. QED BY <2>1, ScheduleGood
<1>6. Good([t EXCEPT !.retry = None, !.home = IF preserve THEN @ ELSE None])
  <2>1. t \in ShellRecord
    BY <1>2 DEF Good
  <2>2. CASE preserve
    BY <2>1, <2>2 DEF Good, Yields, ShellRecord
  <2>3. CASE ~preserve
    BY <2>1, <2>3 DEF Good, Yields, ShellRecord
  <2>4. QED BY <2>2, <2>3
<1>7. QED BY <1>4, <1>5, <1>6

\* A trap that is put up drops the scheduled restoration.
LEMMA EnabledGood ==
  ASSUME NEW s, Good(s), NEW p \in Shell!Panel, NEW preserve \in BOOLEAN,
         present \in {"first", "second", None},
         NEW u \in Shell!Enabled(s, p, preserve)
  PROVE  Good(u)
<1> DEFINE opener == IF s.open # None /\ s.open.panel = p /\ Shell!Connected(s.open.element)
                       THEN s.open.element ELSE s.focus
           w == [panel |-> p, element |-> Shell!Element(p)]
           t == [s EXCEPT !.retry = None, !.checks = TRUE, !.trap = w]
           v == IF preserve THEN t ELSE [t EXCEPT !.home = opener, !.open = None]
<1>1. opener \in Spots
  <2>1. s.open # None => s.open.element \in Spots
    BY DEF Good, ShellRecord, Asked
  <2>2. s.focus \in Spots
    BY DEF Good, ShellRecord
  <2>3. QED BY <2>1, <2>2
<1> HIDE DEF opener
<1>2. w \in Trap
  BY DEF Trap, Shell!Element
<1> HIDE DEF w
<1>3. Good(t) /\ t.retry = None
  <2>1. s \in ShellRecord
    BY DEF Good
  <2>2. t \in ShellRecord
    BY <1>2, <2>1 DEF ShellRecord
  <2>3. t.retry = None
    BY <2>1 DEF ShellRecord
  <2>4. QED BY <2>2, <2>3 DEF Good, Yields
<1> HIDE DEF t
<1>4. Good(v)
  BY ZenonT(30), <1>1, <1>3 DEF Good, Yields, ShellRecord
<1>5. u \in Shell!Ensured(v)
  BY DEF Shell!Enabled, opener, t, w
<1> HIDE DEF v
<1>6. QED BY <1>4, <1>5, EnsuredGood

-----------------------------------------------------------------------------
(* The steps of the shell *)

\* A step that leaves the shell good and registers no odd element.
LEMMA Becomes ==
  ASSUME ShellInv, NEW t, Good(t), Shell!Become(t)
  PROVE  ShellInv'
BY DEF ShellInv, Good, Yields, Shell!Become

\* The effect takes the trap down, puts it up, or leaves it.
LEMMA EffectGood ==
  ASSUME ShellInv, Shell!RunEffect
  PROVE  ShellInv'
<1> DEFINE p == Shell!Wanted(shell)
           s == IF shell.open # None /\ shell.open.panel # p
                  THEN [shell EXCEPT !.open = None] ELSE shell
           replaces == s.trap # None /\ s.trap.panel = p
           d == IF s.trap # None THEN Shell!Teardown(s, TRUE, FALSE) ELSE s
           u == IF s.trap # None THEN Shell!Teardown(s, FALSE, replaces) ELSE s
<1>1. Good(s)
  <2>1. Good(shell)
    BY DEF ShellInv
  <2>2. Good([shell EXCEPT !.open = None])
    BY <2>1 DEF Good, Yields, ShellRecord
  <2>3. QED BY <2>1, <2>2
<1>2. p \in {None} \union Shell!Panel
  BY WantedPanel
<1>3. /\ present' = present
      /\ \/ p # None /\ shell' = Shell!Set(d, p, FALSE)
         \/ shell' = s
         \/ shell' = Shell!Teardown(s, TRUE, FALSE)
         \/ p # None /\ shell' \in Shell!Enabled(u, p, replaces)
  BY DEF Shell!RunEffect
<1> HIDE DEF p, s
<1>4. Good(d) /\ Good(u) /\ Good(Shell!Teardown(s, TRUE, FALSE))
  <2>1. /\ Good(Shell!Teardown(s, TRUE, FALSE))
        /\ Good(Shell!Teardown(s, FALSE, replaces))
    BY <1>1, TeardownGood
  <2>2. QED BY <1>1, <2>1
<1> HIDE DEF d, u
<1>5. CASE p # None /\ shell' = Shell!Set(d, p, FALSE)
  <2>1. Good(Shell!Set(d, p, FALSE))
    BY <1>2, <1>4, <1>5, SetGood
  <2>2. QED BY <1>3, <1>5, <2>1 DEF ShellInv, Good, Yields
<1>6. CASE p # None /\ shell' \in Shell!Enabled(u, p, replaces)
  <2>1. ASSUME NEW v \in Shell!Enabled(u, p, replaces) PROVE Good(v)
    <3>1. replaces \in BOOLEAN
      OBVIOUS
    <3> HIDE DEF replaces
    <3>2. QED BY <1>2, <1>4, <1>6, <3>1, EnabledGood DEF ShellInv
  <2>2. QED BY <1>3, <1>6, <2>1 DEF ShellInv, Good, Yields
<1>7. QED BY <1>1, <1>3, <1>4, <1>5, <1>6 DEF ShellInv, Good, Yields

\* The checks, retries and expiries of one shell.
LEMMA TimersGood ==
  ASSUME ShellInv, Shell!Timers
  PROVE  ShellInv'
<1>0. Good(shell)
  BY DEF ShellInv
<1>1. CASE Shell!Check
  BY <1>0, <1>1, EnsuredGood, Becomes DEF Shell!Check, Shell!Settle
<1>2. CASE Shell!LastCheck
  <2>1. PICK t \in Shell!Ensured(shell) : Shell!Become([t EXCEPT !.checks = FALSE])
    BY <1>2 DEF Shell!LastCheck, Shell!Settle
  <2>2. Good(t)
    BY <1>0, EnsuredGood
  <2>3. Good([t EXCEPT !.checks = FALSE])
    BY <2>2 DEF Good, Yields, ShellRecord
  <2>4. QED BY <2>1, <2>3, Becomes
<1>3. ASSUME shell.retry # None
      PROVE  Good(Shell!RestoreTo(shell, shell.retry))
  <2>1. shell.retry \in {None} \union Spots
    BY <1>0 DEF Good, ShellRecord
  <2>2. QED BY <1>0, <2>1, RestoreGood
<1>4. CASE Shell!Retry
  BY <1>3, <1>4, Becomes DEF Shell!Retry, Shell!Settle
<1>5. CASE Shell!LastRetry
  <2> DEFINE t == Shell!RestoreTo(shell, shell.retry)
             u == [t EXCEPT !.retry = None, !.home = IF @ = shell.retry THEN None ELSE @]
  <2>1. Shell!Become(u) /\ Good(t)
    BY <1>3, <1>5 DEF Shell!LastRetry, Shell!Settle
  <2> HIDE DEF t
  <2>2. Good(u)
    <3>1. CASE t.home = shell.retry
      BY <2>1, <3>1 DEF Good, Yields, ShellRecord
    <3>2. CASE t.home # shell.retry
      BY <2>1, <3>2 DEF Good, Yields, ShellRecord
    <3>3. QED BY <3>1, <3>2
  <2> HIDE DEF u
  <2>3. QED BY <2>1, <2>2, Becomes
<1>6. CASE Shell!ActionExpires
  <2>1. Good([shell EXCEPT !.action = None, !.handled = FALSE])
    BY <1>0 DEF Good, Yields, ShellRecord
  <2>2. QED BY <1>6, <2>1, Becomes DEF Shell!ActionExpires, Shell!Settle
<1>7. CASE Shell!OpenExpires
  <2>1. Good([shell EXCEPT !.open = None])
    BY <1>0 DEF Good, Yields, ShellRecord
  <2>2. QED BY <1>7, <2>1, Becomes DEF Shell!OpenExpires, Shell!Settle
<1>8. CASE Shell!CloseExpires
  <2> DEFINE s == [shell EXCEPT !.close = None]
  <2>1. Good(s)
    BY <1>0 DEF Good, Yields, ShellRecord
  <2>2. \/ \E t \in Shell!Ensured(s) : Shell!Become(t)
        \/ Shell!Become(s)
    BY <1>8 DEF Shell!CloseExpires, Shell!Settle
  <2> HIDE DEF s
  <2>3. QED BY <2>1, <2>2, EnsuredGood, Becomes
<1>9. QED BY <1>1, <1>2, <1>4, <1>5, <1>6, <1>7, <1>8 DEF Shell!Timers

\* Keys, presses, clicks and tabs of the user.
LEMMA UserGood ==
  ASSUME ShellInv,
         \/ Shell!Escape
         \/ \E e \in Shell!Control \union {"content"} : Shell!PointerDown(e)
         \/ \E e \in Shell!Control, h \in {"none", "toggle", "close"}, scripted, stopped \in BOOLEAN :
              Shell!Click(e, h, scripted, stopped)
         \/ \E e \in Shell!Control : Shell!Tab(e)
  PROVE  ShellInv'
<1>0. Good(shell)
  BY DEF ShellInv
<1>1. ASSUME NEW e PROVE Good(Shell!Capture(shell, IF e \in Shell!Control THEN e ELSE None))
  <2>1. (IF e \in Shell!Control THEN e ELSE None) \in {None} \union Spots
    BY DEF Spots
  <2>2. QED BY <1>0, <2>1, CaptureGood
<1>2. CASE Shell!Escape
  <2> DEFINE c == Shell!Capture(shell, IF shell.focus \in Shell!Control THEN shell.focus ELSE None)
  <2>1. Good(c) /\ Good(Shell!ClosePanels(c, FALSE))
    BY <1>1, ClosePanelsGood
  <2>2. Shell!Become(Shell!ClosePanels(c, FALSE)) \/ Shell!Become(c)
    BY <1>2 DEF Shell!Escape, Shell!Turn
  <2>3. QED BY <2>1, <2>2, Becomes
<1>3. ASSUME NEW e \in Shell!Control \union {"content"}, Shell!PointerDown(e)
      PROVE  ShellInv'
  <2> DEFINE c == Shell!Capture(shell, IF e \in Shell!Control THEN e ELSE None)
             d == IF e = "content" /\ mobile /\ c.shown # {} THEN Shell!ClosePanels(c, FALSE) ELSE c
             to == IF e \in Shell!Control THEN e ELSE "body"
  <2>1. Good(d)
    BY <1>1, ClosePanelsGood
  <2>2. Shell!Become(d) \/ Shell!Become(Shell!MoveFocus(d, to))
    BY <1>3 DEF Shell!PointerDown, Shell!Turn
  <2>3. to \in Spots
    BY DEF Spots
  <2> HIDE DEF d, to
  <2>4. Good(Shell!MoveFocus(d, to))
    BY <2>1, <2>3, MoveFocusGood
  <2>5. QED BY <2>1, <2>2, <2>4, Becomes
<1>4. ASSUME NEW e \in Shell!Control, NEW h, NEW scripted \in BOOLEAN, NEW stopped \in BOOLEAN,
             Shell!Click(e, h, scripted, stopped)
      PROVE  ShellInv'
  BY <1>0, <1>4, ClickedGood, Becomes DEF Shell!Click, Shell!Turn
<1>5. ASSUME NEW e \in Shell!Control, Shell!Tab(e)
      PROVE  ShellInv'
  <2> DEFINE c == Shell!Capture(shell, IF shell.focus \in Shell!Control THEN shell.focus ELSE None)
  <2>1. Good(c) /\ e \in Spots
    BY <1>1 DEF Spots
  <2>2. Shell!Become(Shell!MoveFocus(c, e))
    BY <1>5 DEF Shell!Tab, Shell!Turn
  <2> HIDE DEF c
  <2>3. QED BY <2>1, <2>2, MoveFocusGood, Becomes
<1>6. QED BY <1>2, <1>3, <1>4, <1>5

\* What the host sets, calls, hides and registers, and the focus fixup.
LEMMA HostGood ==
  ASSUME ShellInv,
         \/ Shell!FocusFixup \/ Shell!HostHides \/ Shell!Breakpoint
         \/ \E p \in Shell!Panel : Shell!HostSets(p)
         \/ \E h \in {"sidenav", "secondary", "close"} : Shell!HostCalls(h)
         \/ \E e \in {None, "second"} : Shell!Register(e)
  PROVE  ShellInv'
<1>0. Good(shell)
  BY DEF ShellInv
<1>1. CASE Shell!FocusFixup
  <2>1. Shell!Become(Shell!MoveFocus(shell, "body"))
    BY <1>1 DEF Shell!FocusFixup, Shell!Settle
  <2>2. Good(Shell!MoveFocus(shell, "body"))
    BY <1>0, MoveFocusGood DEF Spots
  <2>3. QED BY <2>1, <2>2, Becomes
<1>2. CASE Shell!HostHides
  BY <1>2 DEF Shell!HostHides, ShellInv, Good, Yields
<1>3. CASE Shell!Breakpoint
  <2>1. shell' = shell \/ shell' = [shell EXCEPT !.shown = @ \intersect controlled, !.open = None,
                                       !.close = None, !.action = None, !.handled = FALSE]
    BY <1>3 DEF Shell!Breakpoint
  <2>2. Good([shell EXCEPT !.shown = @ \intersect controlled, !.open = None,
                           !.close = None, !.action = None, !.handled = FALSE])
    BY <1>0 DEF Good, Yields, ShellRecord
  <2>3. present' = present
    BY <1>3 DEF Shell!Breakpoint
  <2>4. QED BY <1>0, <2>1, <2>2, <2>3 DEF ShellInv, Good, Yields
<1>4. ASSUME NEW p \in Shell!Panel, Shell!HostSets(p) PROVE ShellInv'
  <2> DEFINE t == [shell EXCEPT !.shown = IF p \in @ THEN @ \ {p} ELSE @ \union {p}]
  <2>1. Good(t)
    BY <1>0 DEF Good, Yields, ShellRecord
  <2>2. Shell!Become(t)
    BY <1>4 DEF Shell!HostSets, Shell!Turn
  <2> HIDE DEF t
  <2>3. QED BY <2>1, <2>2, Becomes
<1>5. ASSUME NEW h \in {"sidenav", "secondary", "close"}, Shell!HostCalls(h) PROVE ShellInv'
  <2>1. /\ Good(Shell!Toggle(shell, "sidenav")) /\ Good(Shell!Toggle(shell, "secondary"))
        /\ Good(Shell!ClosePanels(shell, TRUE))
    BY <1>0, ToggleGood, ClosePanelsGood DEF Shell!Panel
  <2>2. \/ Shell!Become(Shell!Toggle(shell, "sidenav"))
        \/ Shell!Become(Shell!Toggle(shell, "secondary"))
        \/ Shell!Become(Shell!ClosePanels(shell, TRUE))
    BY <1>5 DEF Shell!HostCalls, Shell!Turn
  <2>3. QED BY <2>1, <2>2, Becomes
<1>6. ASSUME NEW e \in {None, "second"}, Shell!Register(e) PROVE ShellInv'
  BY <1>6 DEF Shell!Register, ShellInv, Good, Yields
<1>7. QED BY <1>1, <1>2, <1>3, <1>4, <1>5, <1>6

\* A pending restoration has yielded in every behaviour.
LEMMA ShellInvHolds == PartsSpec => []ShellInv
<1>1. PartsInit => ShellInv
  <2>1. PartsInit => Shell!ShellInit
    BY Zenon DEF PartsInit
  <2> SUFFICES ASSUME Shell!ShellInit PROVE ShellInv
    BY <2>1
  <2>2. shell \in ShellRecord
    BY DEF Shell!ShellInit, ShellRecord, Spots
  <2>3. shell.retry = None /\ present = "first"
    BY DEF Shell!ShellInit
  <2>4. QED BY <2>2, <2>3 DEF ShellInv, Good, Yields
<1>2. ShellInv /\ [PartsNext]_partsVars => ShellInv'
  <2>1. [PartsNext]_partsVars => Shell!ShellNext \/ UNCHANGED panelVars
    BY DEF PartsNext, Transcribe, PrintAPdf, RestorePolicy, EditFilters, Dialing,
        UsePanels, partsVars
  <2>2. ShellInv /\ UNCHANGED panelVars => ShellInv'
    BY DEF ShellInv, Good, Yields, panelVars
  <2>3. ShellInv /\ Shell!ShellNext => ShellInv'
    BY EffectGood, TimersGood, UserGood, HostGood DEF Shell!ShellNext
  <2>4. QED BY <2>1, <2>2, <2>3
<1>3. QED BY <1>1, <1>2, PTL DEF PartsSpec

\* A retry that moves the focus meets no trap and no act of the user.
LEMMA RetryYields ==
  ASSUME ShellInv, Shell!Retry \/ Shell!LastRetry, shell'.focus # shell.focus
  PROVE  shell.trap = None /\ ~shell.acted
<1> DEFINE t == Shell!RestoreTo(shell, shell.retry)
           u == [t EXCEPT !.retry = None, !.home = IF @ = shell.retry THEN None ELSE @]
<1>1. shell.retry # None /\ (shell' = t \/ shell' = u)
  BY DEF Shell!Retry, Shell!LastRetry, Shell!Settle, Shell!Become
<1>2. shell \in ShellRecord /\ Yields(shell)
  BY DEF ShellInv, Good
<1>3. ASSUME shell.home # shell.retry PROVE shell'.focus = shell.focus
  <2>1. t = shell
    BY <1>3 DEF Shell!RestoreTo
  <2> HIDE DEF t
  <2>2. u.focus = shell.focus
    BY <1>2, <2>1 DEF ShellRecord
  <2> HIDE DEF u
  <2>3. QED BY <1>1, <2>1, <2>2
<1>4. QED BY <1>1, <1>2, <1>3 DEF Yields

\* A late restoration takes the focus from no panel that has opened since and
\* from no user who has acted since: both drop or empty what was scheduled
\* (scheduleMobileFocusRestore, enableMobileFocusTrap and
\* captureDocumentActionTarget of app-shell.ts), whatever user and host do.
THEOREM RestorationsYield == PartsSpec => NeverStealsFocus
<1>1. ShellInv => [(Shell!Retry \/ Shell!LastRetry) /\ shell'.focus # shell.focus
                     => shell.trap = None /\ ~shell.acted]_Shell!shellVars
  BY RetryYields
<1>2. QED BY <1>1, ShellInvHolds, PTL DEF NeverStealsFocus, Shell!NeverStealsFocus
=============================================================================
