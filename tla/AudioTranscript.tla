-------------------------- MODULE AudioTranscript --------------------------
(***************************************************************************)
(* The speech transcript of the audio player: the player's events, the     *)
(* effect and the scrub timer that start and stop recognition              *)
(* (audio-player/audio-player.ts), the media flags they read               *)
(* (audio-player/audio-player.runtime.ts) and the runtime that owns the    *)
(* browser's recognizer and the stream captured for it                     *)
(* (features/audio-transcript/audio-transcript.ts).                        *)
(*                                                                         *)
(* The browser's part is external: a recognizer that was started may end   *)
(* or fail at any moment, and one that was stopped still reports its end,  *)
(* after whatever else happens first.  The microtask of                    *)
(* resetTranscriptSession runs before any other event and rereads what the *)
(* handler has just read, so it is part of the handler's step.  The texts  *)
(* (transcript, interim, error, copied) are left out: no step reads them.  *)
(***************************************************************************)
EXTENDS Integers, FiniteSets

CONSTANTS
  Recognizers,   \* bound on the recognizers not yet ended
  None,          \* no recognizer
  SeekDelay      \* the 200 ms of handleSeekResult, in ticks

ASSUME AudioAssumption ==
  /\ None \notin Recognizers
  /\ SeekDelay \in Nat \ {0}

VARIABLES
  allowed,    \* input allowSpeechTranscript
  captions,   \* the transcript strip is open
  playing,
  ended,      \* playbackEnded
  rt,         \* HellAudioSpeechTranscriptRuntime
  timer,      \* seekRestartTimer: ticks to go, 0 when there is none
  dirty,      \* a signal the recognition effect reads has changed
  destroyed,
  quiet,      \* history: ticks since the last step of the seek slider
  failed      \* history: an error event stopped the last recognizer

player == <<allowed, captions, playing, ended>>
vars == <<player, rt, timer, dirty, destroyed, quiet, failed>>

Runtime ==
  [recognition : Recognizers \cup {None},   \* the current recognizer
   captured : Recognizers \cup {None},      \* whose stream capturedStream is
   capturing : SUBSET Recognizers,          \* streams whose tracks run
   listening : SUBSET Recognizers,          \* started, never told to stop
   stopping : SUBSET Recognizers,           \* told to stop, end to come
   transcribing : BOOLEAN,
   supported : BOOLEAN]                     \* speechSupported

TypeOK ==
  /\ allowed \in BOOLEAN /\ captions \in BOOLEAN
  /\ playing \in BOOLEAN /\ ended \in BOOLEAN
  /\ rt \in Runtime
  /\ timer \in 0 .. SeekDelay
  /\ dirty \in BOOLEAN /\ destroyed \in BOOLEAN
  /\ quiet \in 0 .. SeekDelay
  /\ failed \in BOOLEAN

(***************************************************************************)
(* The runtime.                                                            *)
(***************************************************************************)
isRecognizing == rt.recognition # None

\* stopCapturedStream
StopCapture(s) ==
  [s EXCEPT !.capturing = @ \ {s.captured}, !.captured = None]

\* stopRecognition
StopRecognition(s) ==
  [StopCapture(s) EXCEPT
     !.listening = @ \ {s.recognition},
     !.stopping = @ \cup ({s.recognition} \ {None}),
     !.recognition = None,
     !.transcribing = FALSE]

Free(s) == Recognizers \ (s.listening \cup s.stopping)

\* startRecognition with recognizer r, and with none: there is no speech
\* recognition, no stream or no audio track, or start throws.
Starts(s, r) ==
  [s EXCEPT !.recognition = r, !.captured = r, !.transcribing = TRUE,
            !.capturing = @ \cup {r}, !.listening = @ \cup {r}]

Refuses(s) == [StopRecognition(s) EXCEPT !.supported = FALSE]

StartRecognition(s) == {Refuses(s)} \cup {Starts(s, r) : r \in Free(s)}

\* A start takes a recognizer that is free: the bound on recognizers.
CanStart(s) == Free(s) # {}

(***************************************************************************)
(* What the player reads before it starts or restarts.                     *)
(***************************************************************************)
WantLive == allowed /\ captions /\ playing /\ rt.supported

MayRestart(s) == captions /\ playing /\ s.supported

shouldRestartRecognition == MayRestart(rt) /\ isRecognizing

\* The effect reads its four signals from the left and stops at the first
\* that is FALSE: only a change of one it has read marks it.
ReadsCaptions == allowed
ReadsPlaying == allowed /\ captions
ReadsSupported == allowed /\ captions /\ playing

Marks(changed) == dirty' = (dirty \/ changed)

MarksSupported == Marks(ReadsSupported /\ rt'.supported # rt.supported)

Init ==
  /\ allowed \in BOOLEAN /\ captions = FALSE
  /\ playing = FALSE /\ ended = FALSE
  /\ rt \in {[recognition |-> None, captured |-> None, capturing |-> {},
              listening |-> {}, stopping |-> {}, transcribing |-> FALSE,
              supported |-> s] : s \in BOOLEAN}
  /\ timer = 0 /\ dirty = TRUE /\ destroyed = FALSE
  /\ quiet = SeekDelay /\ failed = FALSE

(***************************************************************************)
(* Inputs and media events.  Each is a task of its own.                    *)
(***************************************************************************)
SetAllowed ==
  /\ ~destroyed
  /\ allowed' = ~allowed /\ Marks(TRUE)
  /\ UNCHANGED <<captions, playing, ended, rt, timer, destroyed, quiet, failed>>

\* The toggle, and the dismissal of the strip.
ToggleCaptions ==
  /\ ~destroyed
  /\ captions' = ~captions /\ Marks(ReadsCaptions)
  /\ UNCHANGED <<allowed, playing, ended, rt, timer, destroyed, quiet, failed>>

\* resetTranscriptSession() of a replay clears texts only.
OnPlay ==
  /\ ~destroyed
  /\ playing' = TRUE /\ ended' = FALSE /\ Marks(ReadsPlaying /\ ~playing)
  /\ UNCHANGED <<allowed, captions, rt, timer, destroyed, quiet, failed>>

OnPause ==
  /\ ~destroyed
  /\ playing' = FALSE /\ Marks(ReadsPlaying /\ playing)
  /\ UNCHANGED <<allowed, captions, ended, rt, timer, destroyed, quiet, failed>>

OnEnded ==
  /\ ~destroyed
  /\ playing' = FALSE /\ ended' = TRUE /\ Marks(ReadsPlaying /\ playing)
  /\ UNCHANGED <<allowed, captions, rt, timer, destroyed, quiet, failed>>

\* resetTranscriptSession(true), its microtask included.
resetTranscriptSession(s) == StartRecognition(StopRecognition(s))

\* A native seek that moved the position; the player's own seeks come here
\* with the position they have set, which changes nothing.
OnSeeking ==
  /\ ~destroyed
  /\ ended' = FALSE
  /\ IF shouldRestartRecognition
       THEN /\ CanStart(StopRecognition(rt))
            /\ rt' \in resetTranscriptSession(rt)
            /\ failed' = FALSE
       ELSE UNCHANGED <<rt, failed>>
  /\ MarksSupported
  /\ UNCHANGED <<allowed, captions, playing, timer, destroyed, quiet>>

OnSeek_NoTimer ==
  /\ ~destroyed
  /\ ended' = FALSE /\ quiet' = 0
  /\ IF shouldRestartRecognition
       THEN /\ rt' = StopRecognition(rt)
            /\ failed' = FALSE
       ELSE UNCHANGED <<rt, failed>>
  /\ UNCHANGED <<allowed, captions, playing, timer, dirty, destroyed>>

\* A step of the seek slider that moved the position.
OnSeek ==
  /\ ~destroyed
  /\ ended' = FALSE /\ quiet' = 0
  /\ IF shouldRestartRecognition
       THEN /\ rt' = StopRecognition(rt)
            /\ timer' = SeekDelay
            /\ failed' = FALSE
       ELSE UNCHANGED <<rt, timer, failed>>
  /\ UNCHANGED <<allowed, captions, playing, dirty, destroyed>>

(***************************************************************************)
(* The effect and the scrub timer.                                         *)
(***************************************************************************)
RunEffect_OnlyStarts ==
  /\ ~destroyed /\ dirty
  /\ \/ /\ WantLive /\ ~isRecognizing /\ CanStart(rt)
        /\ rt' \in StartRecognition(rt)
        /\ failed' = FALSE
     \/ /\ ~(WantLive /\ ~isRecognizing)
        /\ UNCHANGED <<rt, failed>>
  /\ dirty' = (rt'.supported # rt.supported)
  /\ UNCHANGED <<player, timer, destroyed, quiet>>

RunEffect ==
  /\ ~destroyed /\ dirty
  /\ \/ /\ WantLive /\ ~isRecognizing /\ CanStart(rt)
        /\ rt' \in StartRecognition(rt)
        /\ failed' = FALSE
     \/ /\ ~WantLive /\ isRecognizing
        /\ rt' = StopRecognition(rt)
        /\ UNCHANGED failed
     \/ /\ WantLive = isRecognizing
        /\ UNCHANGED <<rt, failed>>
  /\ dirty' = (rt'.supported # rt.supported)
  /\ UNCHANGED <<player, timer, destroyed, quiet>>

Elapsed == IF quiet = SeekDelay THEN quiet ELSE quiet + 1

\* Time passes; the timer that is due fires first.
Tick ==
  /\ timer # 1
  /\ timer > 0 \/ quiet < SeekDelay
  /\ timer' = IF timer = 0 THEN 0 ELSE timer - 1
  /\ quiet' = Elapsed
  /\ UNCHANGED <<player, rt, dirty, destroyed, failed>>

SeekTimerFires_Beside ==
  /\ ~destroyed /\ timer = 1
  /\ timer' = 0 /\ quiet' = Elapsed
  /\ IF MayRestart(rt)
       THEN /\ CanStart(rt)
            /\ rt' \in StartRecognition(rt)
            /\ failed' = FALSE
       ELSE UNCHANGED <<rt, failed>>
  /\ MarksSupported
  /\ UNCHANGED <<player, destroyed>>

SeekTimerFires ==
  /\ ~destroyed /\ timer = 1
  /\ timer' = 0 /\ quiet' = Elapsed
  /\ IF MayRestart(rt) /\ ~isRecognizing
       THEN /\ CanStart(rt)
            /\ rt' \in StartRecognition(rt)
            /\ failed' = FALSE
       ELSE UNCHANGED <<rt, failed>>
  /\ MarksSupported
  /\ UNCHANGED <<player, destroyed>>

(***************************************************************************)
(* Events of recognizer r, current or not.                                 *)
(***************************************************************************)
Report(r) == r \in rt.listening \cup rt.stopping

\* onerror stops whichever recognizer is current; the end of r follows.
OnError(r) ==
  /\ Report(r)
  /\ rt' = StopRecognition(rt)
  /\ failed' = (failed \/ isRecognizing)
  /\ UNCHANGED <<player, timer, dirty, destroyed, quiet>>

\* r is gone, and the status is cleared whoever is current.
Silenced(r) ==
  [rt EXCEPT !.listening = @ \ {r}, !.stopping = @ \ {r},
             !.transcribing = FALSE]

OnEnd(r) ==
  /\ Report(r)
  /\ IF rt.recognition # r
       THEN rt' = Silenced(r) /\ UNCHANGED failed
       ELSE LET s == StopCapture([Silenced(r) EXCEPT !.recognition = None])
            IN  IF MayRestart(s)
                  THEN rt' \in StartRecognition(s) /\ failed' = FALSE
                  ELSE rt' = s /\ UNCHANGED failed
  /\ MarksSupported
  /\ UNCHANGED <<player, timer, destroyed, quiet>>

Destroy ==
  /\ ~destroyed /\ destroyed' = TRUE
  /\ rt' = StopRecognition(rt) /\ timer' = 0 /\ dirty' = FALSE
  /\ UNCHANGED <<player, quiet, failed>>

Next ==
  \/ SetAllowed \/ ToggleCaptions
  \/ OnPlay \/ OnPause \/ OnEnded \/ OnSeeking \/ OnSeek
  \/ RunEffect \/ Tick \/ SeekTimerFires
  \/ \E r \in Recognizers : OnError(r) \/ OnEnd(r)
  \/ Destroy

(***************************************************************************)
(* Properties.                                                             *)
(***************************************************************************)
\* The current recognizer, the one that listens, the captured stream and
\* the status belong together.
Owned(s) ==
  /\ s.listening = {s.recognition} \ {None}
  /\ s.capturing = s.listening
  /\ s.captured = s.recognition
  /\ s.transcribing => s.recognition # None

\* No recognizer but the current one listens, it is the one whose stream is
\* captured, and the player shows itself live only while there is one:
\* whatever ends or fails late, no stream stays captured.  After destroy
\* nothing listens and nothing is left that could start.
OneListener ==
  /\ Owned(rt)
  /\ destroyed => ~isRecognizing /\ timer = 0

\* "auto-stops on pause": with the feature allowed, once the effect has run
\* a recognizer is current only while the strip is open, the audio plays and
\* speech is supported, though the scrub timer and a recognizer's own end
\* start one without the effect.
StopsWithPlayback ==
  (allowed /\ ~dirty /\ isRecognizing) => MayRestart(rt)

\* "auto-starts on play": once the effect has run and no scrub is pending,
\* a player that should be heard is, unless an error event stopped the
\* recognizer: stops by a seek, ends and refusals are all made up for.
HeardUnlessFailed ==
  (~destroyed /\ ~dirty /\ timer = 0 /\ WantLive /\ ~isRecognizing) => failed

\* "only restart the optional transcript recognizer once the user finishes
\* scrubbing" (the comment of onSeek): when the scrub timer starts a
\* recognizer, the slider has not moved for the whole delay.
RestartsAfterScrub ==
  [][(timer = 1 /\ timer' = 0 /\ ~destroyed' /\ ~isRecognizing
        /\ rt'.recognition # None) => quiet' = SeekDelay]_vars

Spec == Init /\ [][Next]_vars
=============================================================================
