-------------------------- MODULE ToastStackProofs --------------------------
(***************************************************************************)
(* Proofs about ToastStack, for any number of toasts, durations and ticks: *)
(* timers and toasts match, countdowns are exact across pauses, and a held *)
(* stack is paused.                                                        *)
(*                                                                         *)
(* Destruction clears timers but not toasts, so the inductive invariant    *)
(* says of a timer, whatever happened before, that its toast still wants   *)
(* it (TimersHaveToasts); the converse holds only before destruction.      *)
(***************************************************************************)
EXTENDS ToastStack, FiniteSetTheorems, TLAPS

\* A paused stack runs no countdown, a running one holds none back.
PauseIsTotal ==
  \A t \in Toast :
    /\ timer[t].state = "running" => ~paused
    /\ timer[t].state = "paused" => paused

\* The fan-out and the pause go together, although they are set in two places
\* and each is undone from two.
ExpandedMeansPaused == expanded = paused

TimersHaveToasts ==
  \A t \in Toast :
    /\ timer[t].state # "off" => phase[t] = "live" /\ duration[t] > 0
    /\ exitTimer[t] # Off => phase[t] = "removing"

UnbornIsUnset == \A t \in Toast : phase[t] = "unborn" => duration[t] = 0

IInv ==
  /\ TypeOK
  /\ TimersHaveToasts
  /\ UnbornIsUnset
  /\ TimersMatchToasts
  /\ PauseIsTotal
  /\ CountdownIsExact
  /\ HeldStackIsPaused
  /\ ExpandedMeansPaused

\* What the countdowns must satisfy, in the fields of the stack alone.
StackInv ==
  /\ TimersHaveToasts
  /\ UnbornIsUnset
  /\ TimersMatchToasts
  /\ PauseIsTotal
  /\ CountdownIsExact

USE DEF Off

LEMMA InitInv == Init => IInv
<1> SUFFICES ASSUME Init PROVE IInv OBVIOUS
<1>1. TypeOK
  <2>1. /\ NoTimer \in [state : {"off", "running", "paused"}, remaining : Nat, elapsed : Nat]
        /\ NoTimer.elapsed = 0 /\ NoTimer.remaining = 0
    BY DEF NoTimer
  <2>2. exitTimer \in [Toast -> Off .. ExitTicks] /\ collapse \in Off .. CollapseTicks
    BY ToastAssumption DEF Init
  <2>3. \A t \in Toast : /\ timer[t].elapsed <= timer[t].remaining
                         /\ timer[t].remaining <= duration[t] /\ shown[t] <= duration[t]
    BY <2>1 DEF Init
  <2>4. timer \in [Toast -> [state : {"off", "running", "paused"}, remaining : Nat, elapsed : Nat]]
    BY <2>1 DEF Init
  <2>5. /\ phase \in [Toast -> {"unborn", "live", "removing", "gone"}]
        /\ duration \in [Toast -> Duration \cup {0}]
        /\ shown \in [Toast -> Nat] /\ place \in [Toast -> Nat]
        /\ snapshot \in [Toast -> Nat \cup {Off}]
    BY DEF Init
  <2>6. /\ {paused, disposed, expanded, dirty, hovered} \subseteq BOOLEAN
        /\ drawn \subseteq Element /\ focused \in Element \cup {None}
        /\ controls \in [Toast -> SUBSET Control]
    BY DEF Init
  <2>7. updates \in 0 .. MaxUpdates
    BY ToastAssumption DEF Init
  <2>8. QED BY <2>2, <2>3, <2>4, <2>5, <2>6, <2>7 DEF TypeOK
<1>2. StackInv
  BY DEF Init, StackInv, TimersHaveToasts, UnbornIsUnset, TimersMatchToasts, PauseIsTotal,
         CountdownIsExact, NoTimer
<1>3. HeldStackIsPaused /\ ExpandedMeansPaused
  BY DEF Init, HeldStackIsPaused, ExpandedMeansPaused, Held
<1>4. QED BY <1>1, <1>2, <1>3 DEF IInv, StackInv

\* The lists the renderer counts are finite.
LEMMA CountsAreNat ==
  ASSUME NEW S, S \subseteq Toast
  PROVE  Cardinality(S) \in Nat
<1>1. IsFiniteSet(Toast)
  BY FS_Interval, ToastAssumption DEF Toast
<1>2. QED BY <1>1, FS_Subset, FS_CardinalityType

\* The numbers and states of one toast.
LEMMA Facts ==
  ASSUME IInv, NEW t \in Toast
  PROVE  /\ duration[t] \in Nat /\ shown[t] \in Nat
         /\ timer[t].state \in {"off", "running", "paused"}
         /\ timer[t].remaining \in Nat /\ timer[t].elapsed \in Nat
         /\ timer[t].elapsed <= timer[t].remaining /\ timer[t].remaining <= duration[t]
         /\ Rest(timer[t]) \in Nat /\ Rest(timer[t]) <= timer[t].remaining
<1>1. duration[t] \in Nat
  <2>1. duration[t] \in Duration \cup {0}
    BY DEF IInv, TypeOK
  <2>2. \A d \in Duration : d \in Nat
    BY ToastAssumption
  <2>3. QED BY <2>1, <2>2
<1>2. /\ timer[t].state \in {"off", "running", "paused"}
      /\ timer[t].remaining \in Nat /\ timer[t].elapsed \in Nat /\ shown[t] \in Nat
  BY DEF IInv, TypeOK
<1>3. timer[t].elapsed <= timer[t].remaining /\ timer[t].remaining <= duration[t]
  BY DEF IInv, TypeOK
<1>4. QED BY <1>1, <1>2, <1>3 DEF Rest

-----------------------------------------------------------------------------
(* The stack's operations. *)

LEMMA CreateInv ==
  ASSUME IInv, NEW t \in Toast, NEW d \in Duration, NEW cs \in SUBSET Control,
         Create(t, d, cs)
  PROVE  IInv'
<1>1. d \in Nat
  BY ToastAssumption
<1>2. /\ phase[t] = "unborn" /\ duration[t] = 0 /\ shown[t] = 0
  BY DEF Create, IInv, UnbornIsUnset, TypeOK
<1>3. TypeOK'
  BY <1>1, <1>2 DEF Create, IInv, TypeOK, Scheduled, NoTimer, Running, Paused, Listed, environment
<1>4. StackInv'
  BY <1>1, <1>2 DEF Create, IInv, TypeOK, Scheduled, NoTimer, Running, Paused, Rest,
     StackInv, TimersHaveToasts, UnbornIsUnset, TimersMatchToasts, PauseIsTotal, CountdownIsExact
<1>5. HeldStackIsPaused' /\ ExpandedMeansPaused'
  BY DEF Create, IInv, HeldStackIsPaused, ExpandedMeansPaused, Held, environment
<1>6. QED BY <1>3, <1>4, <1>5 DEF IInv, StackInv

LEMMA UpdateInv ==
  ASSUME IInv, NEW t \in Toast, NEW d \in Duration \cup {Keep}, NEW cs \in SUBSET Control,
         Update(t, d, cs)
  PROVE  IInv'
<1>1. d # Keep => d \in Nat /\ d \in Duration
  BY ToastAssumption
<1>2. /\ controls' \in [Toast -> SUBSET Control] /\ updates' \in 0 .. MaxUpdates
  BY ToastAssumption DEF Update, IInv, TypeOK
<1>3. CASE d = Keep
  <2>1. UNCHANGED <<duration, timer, shown>>
    BY <1>3 DEF Update
  <2>2. TypeOK'
    BY <1>2, <2>1 DEF Update, IInv, TypeOK, environment
  <2>3. StackInv'
    BY <2>1 DEF Update, IInv, StackInv, TimersHaveToasts, UnbornIsUnset, TimersMatchToasts,
                PauseIsTotal, CountdownIsExact
  <2>4. QED BY <2>2, <2>3 DEF Update, IInv, StackInv, HeldStackIsPaused, ExpandedMeansPaused,
                              Held, environment
<1>4. CASE d # Keep
  <2>1. /\ duration' = [duration EXCEPT ![t] = d] /\ timer' = [timer EXCEPT ![t] = Scheduled(d)]
        /\ shown' = [shown EXCEPT ![t] = 0]
    BY <1>4 DEF Update
  <2>2. TypeOK'
    BY <1>1, <1>2, <1>4, <2>1
       DEF Update, IInv, TypeOK, Scheduled, NoTimer, Running, Paused, environment
  <2>3. StackInv'
    BY <1>1, <1>4, <2>1 DEF Update, IInv, TypeOK, Scheduled, NoTimer, Running, Paused, Rest,
       StackInv, TimersHaveToasts, UnbornIsUnset, TimersMatchToasts, PauseIsTotal, CountdownIsExact
  <2>4. QED BY <2>2, <2>3 DEF Update, IInv, StackInv, HeldStackIsPaused, ExpandedMeansPaused,
                              Held, environment
<1>5. QED BY <1>3, <1>4

\* Dismissing live toasts, by hand or by their timers.
LEMMA DismissKeeps ==
  ASSUME IInv, NEW going \in SUBSET Live, DismissAll(going), dirty' = TRUE,
         UNCHANGED <<duration, controls, paused, disposed, updates, expanded, collapse,
                     snapshot, drawn, environment, history>>
  PROVE  IInv'
<1>1. TypeOK'
  <2>1. NoTimer \in [state : {"off", "running", "paused"}, remaining : Nat, elapsed : Nat]
    BY DEF NoTimer
  <2>2. exitTimer' \in [Toast -> Off .. ExitTicks] /\ phase' \in [Toast -> {"unborn", "live", "removing", "gone"}]
    BY ToastAssumption DEF DismissAll, IInv, TypeOK
  <2>3. /\ timer' \in [Toast -> [state : {"off", "running", "paused"}, remaining : Nat, elapsed : Nat]]
        /\ \A t \in Toast : timer'[t].elapsed <= timer'[t].remaining /\ timer'[t].remaining <= duration[t]
    <3>1. \A t \in Toast : duration[t] >= 0
      BY Facts
    <3>2. QED BY <2>1, <3>1 DEF DismissAll, IInv, TypeOK, NoTimer
  <2>4. QED BY <2>2, <2>3 DEF IInv, TypeOK, environment, history
<1>2. StackInv'
  BY ToastAssumption DEF DismissAll, IInv, TypeOK, NoTimer, Rest, Live, environment, history,
     StackInv, TimersHaveToasts, UnbornIsUnset, TimersMatchToasts, PauseIsTotal, CountdownIsExact
<1>3. HeldStackIsPaused' /\ ExpandedMeansPaused'
  BY DEF IInv, HeldStackIsPaused, ExpandedMeansPaused, Held, environment
<1>4. QED BY <1>1, <1>2, <1>3 DEF IInv, StackInv

LEMMA ExpireInv == ASSUME IInv, NEW t \in Toast, Expire(t) PROVE IInv'
<1>1. {t} \in SUBSET Live
  BY DEF Expire, IInv, TimersHaveToasts, Live
<1>2. QED BY <1>1, DismissKeeps DEF Expire

LEMMA RemoveInv == ASSUME IInv, NEW t \in Toast, Remove(t) PROVE IInv'
<1>1. phase[t] = "removing" /\ timer[t].state = "off"
  BY DEF Remove, IInv, TimersHaveToasts
<1>2. TypeOK'
  BY ToastAssumption DEF Remove, IInv, TypeOK, environment, history
<1>3. StackInv'
  BY <1>1 DEF Remove, IInv, TypeOK, Rest, environment, history,
     StackInv, TimersHaveToasts, UnbornIsUnset, TimersMatchToasts, PauseIsTotal, CountdownIsExact
<1>4. HeldStackIsPaused' /\ ExpandedMeansPaused'
  BY DEF Remove, IInv, HeldStackIsPaused, ExpandedMeansPaused, Held, environment
<1>5. QED BY <1>2, <1>3, <1>4 DEF IInv, StackInv

LEMMA DestroyInv == ASSUME IInv, Destroy PROVE IInv'
<1>1. TypeOK'
  <2>1. NoTimer \in [state : {"off", "running", "paused"}, remaining : Nat, elapsed : Nat]
    BY DEF NoTimer
  <2>2. exitTimer' \in [Toast -> Off .. ExitTicks]
    BY ToastAssumption DEF Destroy
  <2>3. /\ timer' \in [Toast -> [state : {"off", "running", "paused"}, remaining : Nat, elapsed : Nat]]
        /\ \A t \in Toast : timer'[t].elapsed <= timer'[t].remaining /\ timer'[t].remaining <= duration[t]
    <3>1. \A t \in Toast : duration[t] >= 0
      BY Facts
    <3>2. QED BY <2>1, <3>1 DEF Destroy, NoTimer
  <2>4. QED BY <2>2, <2>3 DEF Destroy, IInv, TypeOK, environment, history, renderer
<1>2. StackInv'
  BY DEF Destroy, IInv, TypeOK, NoTimer, history,
     StackInv, TimersHaveToasts, UnbornIsUnset, TimersMatchToasts, PauseIsTotal, CountdownIsExact
<1>3. HeldStackIsPaused' /\ ExpandedMeansPaused'
  BY DEF Destroy, IInv, HeldStackIsPaused, ExpandedMeansPaused, Held, environment, renderer
<1>4. QED BY <1>1, <1>2, <1>3 DEF IInv, StackInv

LEMMA TickInv == ASSUME IInv, Tick PROVE IInv'
<1>1. TypeOK'
  <2>1. /\ timer' \in [Toast -> [state : {"off", "running", "paused"},
                                remaining : Nat, elapsed : Nat]]
        /\ shown' \in [Toast -> Nat]
    BY DEF Tick, IInv, TypeOK
  <2>2. ASSUME NEW t \in Toast
        PROVE  /\ timer'[t].elapsed <= timer'[t].remaining
               /\ timer'[t].remaining <= duration'[t]
               /\ shown'[t] <= duration'[t]
    <3>1. /\ timer'[t].remaining = timer[t].remaining
          /\ timer'[t].elapsed = IF timer[t].state = "running" /\ timer[t].elapsed < timer[t].remaining
                                   THEN timer[t].elapsed + 1 ELSE timer[t].elapsed
          /\ duration'[t] = duration[t]
      BY DEF Tick, IInv, TypeOK
    <3>2. shown'[t] = IF phase[t] = "live" /\ ~paused /\ shown[t] < duration[t]
                        THEN shown[t] + 1 ELSE shown[t]
      BY DEF Tick
    <3>3. shown[t] <= duration[t]
      BY DEF IInv, TypeOK
    <3>4. QED BY <3>1, <3>2, <3>3, Facts
  <2>3. /\ exitTimer' \in [Toast -> Off .. ExitTicks]
        /\ collapse' \in Off .. CollapseTicks
    BY ToastAssumption DEF Tick, IInv, TypeOK, Down
  <2>4. QED BY <2>1, <2>2, <2>3 DEF Tick, IInv, TypeOK, environment
<1>2. StackInv'
  <2>1. /\ \A t \in Toast : timer'[t].state = timer[t].state
        /\ \A t \in Toast : exitTimer'[t] # Off <=> exitTimer[t] # Off
        /\ UNCHANGED <<phase, duration, paused, disposed>>
    BY ToastAssumption DEF Tick, IInv, TypeOK, Down
  <2>2. TimersHaveToasts' /\ UnbornIsUnset' /\ TimersMatchToasts' /\ PauseIsTotal'
    BY <2>1 DEF IInv, TimersHaveToasts, UnbornIsUnset, TimersMatchToasts, PauseIsTotal
  <2>3. CountdownIsExact'
    <3> SUFFICES ASSUME NEW t \in Toast, timer'[t].state # "off"
                 PROVE  Rest(timer'[t]) = duration'[t] - shown'[t]
      BY DEF CountdownIsExact
    <3>1. /\ phase[t] = "live" /\ timer[t].state \in {"running", "paused"}
          /\ Rest(timer[t]) = duration[t] - shown[t]
          /\ timer[t].remaining \in Nat /\ timer[t].elapsed \in Nat
          /\ timer[t].elapsed <= timer[t].remaining
          /\ duration[t] \in Nat /\ shown[t] \in Nat
      BY <2>1, Facts DEF IInv, TimersHaveToasts, CountdownIsExact
    <3>2. CASE timer[t].state = "paused"
      BY <3>1, <3>2 DEF Tick, IInv, PauseIsTotal, Rest
    <3>3. CASE timer[t].state = "running" /\ timer[t].elapsed < timer[t].remaining
      <4>1. timer'[t] = [timer[t] EXCEPT !.elapsed = @ + 1]
        BY <3>3 DEF Tick
      <4>2. /\ timer'[t].state = "running" /\ timer'[t].remaining = timer[t].remaining
            /\ timer'[t].elapsed = timer[t].elapsed + 1
        BY <3>3, <4>1 DEF IInv, TypeOK
      <4>3. shown'[t] = shown[t] + 1 /\ duration' = duration
        BY <3>1, <3>3 DEF Tick, IInv, PauseIsTotal, Rest
      <4>4. QED BY <3>1, <3>3, <4>2, <4>3 DEF Rest
    <3>4. CASE timer[t].state = "running" /\ timer[t].elapsed = timer[t].remaining
      BY <3>1, <3>4 DEF Tick, IInv, Rest
    <3>5. QED BY <3>1, <3>2, <3>3, <3>4
  <2>4. QED BY <2>2, <2>3 DEF StackInv
<1>3. HeldStackIsPaused' /\ ExpandedMeansPaused'
  BY DEF Tick, IInv, HeldStackIsPaused, ExpandedMeansPaused, Held, environment
<1>4. QED BY <1>1, <1>2, <1>3 DEF IInv, StackInv

-----------------------------------------------------------------------------
(* The renderer's operations. *)

\* What pausing and resuming keep of the stack.
LEMMA PauseKeeps ==
  ASSUME IInv, Pause, UNCHANGED <<phase, duration, exitTimer, disposed, shown>>
  PROVE  /\ StackInv'
         /\ timer' \in [Toast -> [state : {"off", "running", "paused"},
                                  remaining : Nat, elapsed : Nat]]
         /\ \A t \in Toast : /\ timer'[t].elapsed <= timer'[t].remaining
                             /\ timer'[t].remaining <= duration[t]
<1>1. \A t \in Toast :
        /\ Rest(timer[t]) \in Nat /\ Rest(timer[t]) <= timer[t].remaining
        /\ timer[t].remaining <= duration[t] /\ duration[t] \in Nat
  BY Facts
<1>2. \A t \in Toast :
        /\ timer[t].state = "running" => timer'[t] = Paused(Rest(timer[t]))
        /\ timer[t].state # "running" => timer'[t] = timer[t]
  BY DEF Pause
<1>3. \A t \in Toast :
        /\ timer'[t].state # "running"
        /\ timer'[t].state = "off" <=> timer[t].state = "off"
        /\ Rest(timer'[t]) = Rest(timer[t])
        /\ timer'[t].elapsed <= timer'[t].remaining
        /\ timer'[t].remaining <= duration[t]
  <2> TAKE t \in Toast
  <2>1. CASE timer[t].state = "running"
    <3>1. /\ timer'[t].state = "paused" /\ timer'[t].remaining = Rest(timer[t])
          /\ timer'[t].elapsed = 0
      <4>1. timer'[t] = Paused(Rest(timer[t]))
        BY <2>1, <1>2
      <4>2. QED BY <4>1 DEF Paused
    <3>2. QED BY <2>1, <3>1, Facts DEF Rest
  <2>2. CASE timer[t].state # "running"
    BY <2>2, <1>2, Facts
  <2>3. QED BY <2>1, <2>2
<1>4. StackInv'
  BY <1>3 DEF Pause, IInv, StackInv, TimersHaveToasts, UnbornIsUnset, TimersMatchToasts,
              PauseIsTotal, CountdownIsExact
<1>5. timer' \in [Toast -> [state : {"off", "running", "paused"},
                            remaining : Nat, elapsed : Nat]]
  BY <1>1 DEF Pause, Paused, IInv, TypeOK
<1>6. QED BY <1>3, <1>4, <1>5

LEMMA ResumeKeeps ==
  ASSUME IInv, Resume, UNCHANGED <<duration, disposed, shown>>
  PROVE  /\ StackInv'
         /\ timer' \in [Toast -> [state : {"off", "running", "paused"},
                                  remaining : Nat, elapsed : Nat]]
         /\ \A t \in Toast : /\ timer'[t].elapsed <= timer'[t].remaining
                             /\ timer'[t].remaining <= duration[t]
         /\ phase' \in [Toast -> {"unborn", "live", "removing", "gone"}]
         /\ exitTimer' \in [Toast -> Off .. ExitTicks]
<1> DEFINE over == {t \in Toast : timer[t].state = "paused" /\ timer[t].remaining = 0}
<1>1. \A t \in Toast :
        /\ t \in over => timer'[t] = NoTimer /\ phase'[t] = "removing" /\ exitTimer'[t] = ExitTicks
        /\ t \notin over => phase'[t] = phase[t] /\ exitTimer'[t] = exitTimer[t]
        /\ t \notin over /\ timer[t].state = "paused" => timer'[t] = Running(timer[t].remaining)
        /\ t \notin over /\ timer[t].state # "paused" => timer'[t] = timer[t]
  <2>1. /\ phase' = [t \in Toast |-> IF t \in over THEN "removing" ELSE phase[t]]
        /\ exitTimer' = [t \in Toast |-> IF t \in over THEN ExitTicks ELSE exitTimer[t]]
        /\ timer' = [t \in Toast |->
                       IF t \in over THEN NoTimer
                       ELSE IF timer[t].state = "paused" THEN Running(timer[t].remaining)
                       ELSE timer[t]]
    BY DEF Resume
  <2> SUFFICES ASSUME NEW t \in Toast
               PROVE  /\ t \in over => timer'[t] = NoTimer /\ phase'[t] = "removing"
                                         /\ exitTimer'[t] = ExitTicks
                      /\ t \notin over => phase'[t] = phase[t] /\ exitTimer'[t] = exitTimer[t]
                      /\ t \notin over /\ timer[t].state = "paused" =>
                           timer'[t] = Running(timer[t].remaining)
                      /\ t \notin over /\ timer[t].state # "paused" => timer'[t] = timer[t]
    OBVIOUS
  <2>2. CASE t \in over
    <3> HIDE DEF over
    <3>1. timer'[t] = NoTimer
      BY <2>1, <2>2
    <3>2. phase'[t] = "removing"
      BY <2>1, <2>2
    <3>3. exitTimer'[t] = ExitTicks
      BY <2>1, <2>2
    <3>4. QED BY <2>2, <3>1, <3>2, <3>3
  <2>3. CASE t \notin over /\ timer[t].state = "paused"
    <3> HIDE DEF over
    <3>1. QED BY <2>1, <2>3
  <2>4. CASE t \notin over /\ timer[t].state # "paused"
    <3> HIDE DEF over
    <3>1. QED BY <2>1, <2>4
  <2>5. QED BY <2>2, <2>3, <2>4
<1>2. \A t \in Toast : /\ timer[t].remaining \in Nat /\ timer[t].remaining <= duration[t]
                       /\ duration[t] \in Nat
                       /\ t \in over => phase[t] = "live"
  BY Facts DEF IInv, TimersHaveToasts
<1>3. \A t \in Toast :
        /\ timer'[t].state # "paused"
        /\ timer'[t].state = "off" <=> timer[t].state = "off" \/ t \in over
        /\ t \notin over => Rest(timer'[t]) = Rest(timer[t])
        /\ timer'[t].elapsed <= timer'[t].remaining
        /\ timer'[t].remaining <= duration[t]
  <2> TAKE t \in Toast
  <2>1. CASE t \in over
    <3>1. timer'[t].state = "off" /\ timer'[t].elapsed = 0 /\ timer'[t].remaining = 0
      BY <2>1, <1>1 DEF NoTimer
    <3>2. QED BY <2>1, <3>1, <1>2
  <2>2. CASE t \notin over /\ timer[t].state = "paused"
    <3>1. /\ timer'[t].state = "running" /\ timer'[t].remaining = timer[t].remaining
          /\ timer'[t].elapsed = 0 /\ timer[t].remaining # 0
      <4>1. timer'[t] = Running(timer[t].remaining)
        BY <2>2, <1>1
      <4>2. QED BY <2>2, <4>1 DEF Running
    <3>2. QED BY <2>2, <3>1, Facts DEF Rest
  <2>3. CASE t \notin over /\ timer[t].state # "paused"
    BY <2>3, <1>1, Facts
  <2>4. QED BY <2>1, <2>2, <2>3
<1>4. StackInv'
  <2> HIDE DEF over
  <2> QED BY <1>1, <1>2, <1>3, ToastAssumption
          DEF Resume, IInv, StackInv, TimersHaveToasts, UnbornIsUnset, TimersMatchToasts,
              PauseIsTotal, CountdownIsExact
<1>5. timer' \in [Toast -> [state : {"off", "running", "paused"},
                            remaining : Nat, elapsed : Nat]]
  BY <1>2 DEF Resume, Running, NoTimer, IInv, TypeOK
<1>7. /\ phase' \in [Toast -> {"unborn", "live", "removing", "gone"}]
      /\ exitTimer' \in [Toast -> Off .. ExitTicks]
  BY ToastAssumption DEF Resume, IInv, TypeOK
<1>8. QED BY <1>3, <1>4, <1>5, <1>7

\* Entering, by pointer or by focus.
LEMMA EnterKeeps ==
  ASSUME IInv, OnEnter, UNCHANGED <<phase, duration, controls, exitTimer, disposed, updates,
                                    dirty, snapshot, drawn, history>>,
         hovered' \in BOOLEAN, focused' \in Element \cup {None}
  PROVE  IInv'
<1>1. /\ StackInv' /\ paused' /\ expanded'
      /\ timer' \in [Toast -> [state : {"off", "running", "paused"},
                               remaining : Nat, elapsed : Nat]]
      /\ \A t \in Toast : /\ timer'[t].elapsed <= timer'[t].remaining
                          /\ timer'[t].remaining <= duration[t]
  <2>1. CASE paused
    <3>1. UNCHANGED <<paused, timer>> /\ expanded' = TRUE
      BY <2>1 DEF OnEnter
    <3>2. StackInv'
      BY <3>1 DEF IInv, StackInv, TimersHaveToasts, UnbornIsUnset, TimersMatchToasts,
                  PauseIsTotal, CountdownIsExact, history
    <3>3. QED BY <2>1, <3>1, <3>2 DEF IInv, TypeOK
  <2>2. CASE ~paused
    <3>1. Pause /\ expanded' = TRUE
      BY <2>2 DEF OnEnter
    <3>2. QED BY <3>1, PauseKeeps DEF Pause, history
  <2>3. QED BY <2>1, <2>2
<1>2. paused' = TRUE /\ expanded' = TRUE
  BY DEF OnEnter, Pause, IInv, TypeOK
<1>3. collapse' \in Off .. CollapseTicks
  BY ToastAssumption DEF OnEnter
<1>4. TypeOK'
  BY <1>1, <1>2, <1>3 DEF IInv, TypeOK, history
<1>5. HeldStackIsPaused' /\ ExpandedMeansPaused'
  BY <1>2 DEF HeldStackIsPaused, ExpandedMeansPaused
<1>6. QED BY <1>1, <1>4, <1>5 DEF IInv, StackInv

LEMMA EnterInv == ASSUME IInv, Enter PROVE IInv'
<1>1. hovered' \in BOOLEAN /\ focused' \in Element \cup {None}
  BY DEF Enter, IInv, TypeOK
<1>2. QED BY <1>1, EnterKeeps DEF Enter

LEMMA FocusInInv == ASSUME IInv, NEW e \in Element, FocusIn(e) PROVE IInv'
<1>1. hovered' \in BOOLEAN /\ focused' \in Element \cup {None}
  BY DEF FocusIn, IInv, TypeOK
<1>2. QED BY <1>1, EnterKeeps DEF FocusIn

LEMMA LeaveInv == ASSUME IInv, Leave \/ FocusOut PROVE IInv'
<1>1. /\ UNCHANGED <<stack, expanded, dirty, snapshot, drawn, history>>
      /\ collapse' = CollapseTicks
      /\ hovered' \in BOOLEAN /\ focused' \in Element \cup {None}
      /\ Held' => Held
  BY DEF Leave, FocusOut, IInv, TypeOK, Held
<1>2. collapse' \in Off .. CollapseTicks
  BY <1>1, ToastAssumption
<1>3. TypeOK'
  BY <1>1, <1>2 DEF IInv, TypeOK, stack, history
<1>4. StackInv'
  BY <1>1 DEF IInv, StackInv, TimersHaveToasts, UnbornIsUnset, TimersMatchToasts,
              PauseIsTotal, CountdownIsExact, stack, history
<1>5. HeldStackIsPaused' /\ ExpandedMeansPaused'
  BY <1>1 DEF IInv, HeldStackIsPaused, ExpandedMeansPaused, stack
<1>6. QED BY <1>3, <1>4, <1>5 DEF IInv, StackInv

\* A stack that nobody holds any more: it resumes if it was paused.
LEMMA LetGoKeeps ==
  ASSUME IInv, IF paused THEN Resume ELSE UNCHANGED <<paused, timer, phase, exitTimer>>,
         UNCHANGED <<duration, controls, disposed, updates, shown>>,
         expanded' = FALSE, hovered' = FALSE, focused' = None,
         collapse' \in {Off, CollapseTicks}, dirty' \in BOOLEAN, drawn' \subseteq Element,
         snapshot' \in [Toast -> Nat \cup {Off}], place' \in [Toast -> Nat]
  PROVE  IInv'
<1>1. /\ StackInv' /\ paused' = FALSE
      /\ timer' \in [Toast -> [state : {"off", "running", "paused"},
                               remaining : Nat, elapsed : Nat]]
      /\ \A t \in Toast : /\ timer'[t].elapsed <= timer'[t].remaining
                          /\ timer'[t].remaining <= duration[t]
      /\ phase' \in [Toast -> {"unborn", "live", "removing", "gone"}]
      /\ exitTimer' \in [Toast -> Off .. ExitTicks]
  <2>1. CASE paused
    <3>1. Resume
      BY <2>1
    <3>2. QED BY <3>1, ResumeKeeps DEF Resume
  <2>2. CASE ~paused
    <3>1. UNCHANGED <<paused, timer, phase, exitTimer>>
      BY <2>2
    <3>2. StackInv'
      BY <3>1 DEF IInv, StackInv, TimersHaveToasts, UnbornIsUnset, TimersMatchToasts,
                  PauseIsTotal, CountdownIsExact
    <3>3. QED BY <2>2, <3>1, <3>2 DEF IInv, TypeOK
  <2>3. QED BY <2>1, <2>2
<1>2. collapse' \in Off .. CollapseTicks
  BY ToastAssumption
<1>3. TypeOK'
  BY <1>1, <1>2 DEF IInv, TypeOK
<1>4. HeldStackIsPaused' /\ ExpandedMeansPaused'
  BY <1>1 DEF HeldStackIsPaused, ExpandedMeansPaused, Held
<1>5. QED BY <1>1, <1>3, <1>4 DEF IInv, StackInv

LEMMA CollapseInv == ASSUME IInv, CollapseFires PROVE IInv'
<1>1. CASE hovered \/ focused # None
  <2>1. UNCHANGED <<stack, expanded, snapshot, drawn, environment, history>> /\ collapse' = Off
    BY <1>1 DEF CollapseFires
  <2>2. dirty' \in BOOLEAN
    BY DEF CollapseFires, IInv, TypeOK
  <2>3. collapse' \in Off .. CollapseTicks
    BY <2>1, ToastAssumption
  <2>4. TypeOK'
    BY <2>1, <2>2, <2>3 DEF IInv, TypeOK, stack, environment, history
  <2>5. StackInv'
    BY <2>1 DEF IInv, StackInv, TimersHaveToasts, UnbornIsUnset, TimersMatchToasts,
                PauseIsTotal, CountdownIsExact, stack, history
  <2>6. HeldStackIsPaused' /\ ExpandedMeansPaused'
    BY <2>1 DEF IInv, HeldStackIsPaused, ExpandedMeansPaused, Held, stack, environment
  <2>7. QED BY <2>4, <2>5, <2>6 DEF IInv, StackInv
<1>2. CASE ~(hovered \/ focused # None)
  <2>1. /\ expanded' = FALSE /\ collapse' = Off
        /\ IF paused THEN Resume ELSE UNCHANGED <<paused, timer, phase, exitTimer>>
        /\ UNCHANGED <<duration, controls, disposed, updates, snapshot, drawn, environment, history>>
    BY <1>2 DEF CollapseFires
  <2>2. /\ hovered' = FALSE /\ focused' = None /\ dirty' \in BOOLEAN
        /\ drawn' \subseteq Element /\ snapshot' \in [Toast -> Nat \cup {Off}]
        /\ place' \in [Toast -> Nat] /\ shown' = shown
    BY <1>2, <2>1 DEF CollapseFires, IInv, TypeOK, environment, history
  <2>3. QED BY <2>1, <2>2, LetGoKeeps
<1>3. QED BY <1>1, <1>2

LEMMA RenderInv == ASSUME IInv, NEW scrollable \in BOOLEAN, Render(scrollable) PROVE IInv'
<1>1. snapshot' \in [Toast -> Nat \cup {Off}]
  <2>1. \A t \in Toast : Cardinality({u \in Listed : u > t}) \in Nat
    BY CountsAreNat DEF Listed
  <2>2. QED BY <2>1 DEF Render, SnapshotExits, IInv, TypeOK
<1>2. place' \in [Toast -> Nat]
  <2>1. \A t \in Toast : FrontDistance(t) \in Nat
    BY CountsAreNat DEF Live, FrontDistance
  <2>2. QED BY <2>1 DEF Render, IInv, TypeOK
<1>3. /\ drawn' \subseteq Element /\ dirty' = FALSE
      /\ UNCHANGED <<duration, controls, disposed, updates, shown>>
      /\ focused' \in {focused, None}
  BY DEF Render, Elements
<1>4. CASE Listed = {}
  <2>1. /\ collapse' \in {Off, CollapseTicks} /\ expanded' = FALSE /\ hovered' = FALSE
        /\ IF paused THEN Resume ELSE UNCHANGED <<paused, timer, phase, exitTimer>>
    BY <1>4 DEF Render, EmptyResumes
  <2>2. drawn' = {}
    <3>1. Cardinality(Live) = 0
      <4>1. Live = {}
        BY <1>4 DEF Listed, Live
      <4>2. QED BY <4>1, FS_EmptySet
    <3>2. QED BY <1>4, <3>1 DEF Render, Elements
  <2>3. focused' = None
    BY <2>2 DEF Render
  <2>4. dirty' \in BOOLEAN
    BY <1>3
  <2>5. QED BY <1>1, <1>2, <1>3, <2>1, <2>3, <2>4, LetGoKeeps
<1>5. CASE Listed # {}
  <2>1. UNCHANGED <<expanded, hovered, paused, timer, phase, exitTimer>>
    BY <1>5 DEF Render
  <2>2. collapse' \in Off .. CollapseTicks
    <3>1. collapse' \in {collapse, CollapseTicks}
      BY <1>5 DEF Render
    <3>2. collapse \in Off .. CollapseTicks
      BY DEF IInv, TypeOK
    <3>3. QED BY <3>1, <3>2, ToastAssumption
  <2>3. TypeOK'
    <3>1. focused' \in Element \cup {None}
      BY <1>3 DEF IInv, TypeOK
    <3>2. QED BY <1>1, <1>2, <1>3, <2>1, <2>2, <3>1 DEF IInv, TypeOK
  <2>4. StackInv'
    BY <1>3, <2>1 DEF IInv, StackInv, TimersHaveToasts, UnbornIsUnset, TimersMatchToasts,
                      PauseIsTotal, CountdownIsExact
  <2>5. HeldStackIsPaused' /\ ExpandedMeansPaused'
    BY <1>3, <2>1 DEF IInv, HeldStackIsPaused, ExpandedMeansPaused, Held
  <2>6. QED BY <2>3, <2>4, <2>5 DEF IInv, StackInv
<1>6. QED BY <1>4, <1>5

LEMMA ResizeInv == ASSUME IInv, Resize PROVE IInv'
<1>1. UNCHANGED <<stack, expanded, collapse, snapshot, drawn, environment, history>>
      /\ dirty' = TRUE
  BY DEF Resize
<1>2. TypeOK'
  BY <1>1 DEF IInv, TypeOK, stack, environment, history
<1>3. StackInv'
  BY <1>1 DEF IInv, StackInv, TimersHaveToasts, UnbornIsUnset, TimersMatchToasts,
              PauseIsTotal, CountdownIsExact, stack, history
<1>4. HeldStackIsPaused' /\ ExpandedMeansPaused'
  BY <1>1 DEF IInv, HeldStackIsPaused, ExpandedMeansPaused, Held, stack, environment
<1>5. QED BY <1>2, <1>3, <1>4 DEF IInv, StackInv

-----------------------------------------------------------------------------
LEMMA NextInv == IInv /\ [Next]_vars => IInv'
<1> SUFFICES ASSUME IInv, [Next]_vars PROVE IInv' OBVIOUS
<1>0. ASSUME NEW t \in Toast, NEW d \in Duration, NEW cs \in SUBSET Control, Create(t, d, cs)
      PROVE  IInv'
  BY <1>0, CreateInv
<1>1. ASSUME NEW t \in Toast, NEW d \in Duration \cup {Keep}, NEW cs \in SUBSET Control,
             Update(t, d, cs)
      PROVE  IInv'
  BY <1>1, UpdateInv
<1>2. ASSUME NEW t \in Toast, Dismiss({t}) PROVE IInv'
  BY <1>2, DismissKeeps DEF Dismiss
<1>3. ASSUME Dismiss(Live) PROVE IInv'
  BY <1>3, DismissKeeps DEF Dismiss
<1>4. ASSUME NEW t \in Toast, Expire(t) \/ Remove(t) PROVE IInv'
  BY <1>4, ExpireInv, RemoveInv
<1>5. ASSUME (\E e \in Element : FocusIn(e)) \/ Enter \/ Leave \/ FocusOut PROVE IInv'
  BY <1>5, FocusInInv, EnterInv, LeaveInv
<1>6. ASSUME \/ CollapseFires \/ Resize \/ Tick \/ Destroy
             \/ \E scrollable \in BOOLEAN : Render(scrollable)
      PROVE  IInv'
  BY <1>6, CollapseInv, ResizeInv, RenderInv, TickInv, DestroyInv
<1>7. ASSUME UNCHANGED vars PROVE IInv'
  <2> USE <1>7 DEF vars, stack, renderer, environment, history
  <2>1. TypeOK'
    BY DEF IInv, TypeOK
  <2>2. StackInv'
    BY DEF IInv, StackInv, TimersHaveToasts, UnbornIsUnset, TimersMatchToasts,
           PauseIsTotal, CountdownIsExact
  <2>3. HeldStackIsPaused' /\ ExpandedMeansPaused'
    BY DEF IInv, HeldStackIsPaused, ExpandedMeansPaused, Held
  <2>4. QED BY <2>1, <2>2, <2>3 DEF IInv, StackInv
<1>8. QED BY <1>0, <1>1, <1>2, <1>3, <1>4, <1>5, <1>6, <1>7 DEF Next

\* The inductive invariant holds in every reachable state.
THEOREM IInvHolds == Spec => []IInv
<1>1. Init => IInv
  BY InitInv
<1>2. IInv /\ [Next]_vars => IInv'
  BY NextInv
<1>3. QED BY <1>1, <1>2, PTL DEF Spec, SafetySpec

\* The stack and the renderer keep their types for any number of toasts.
THEOREM TypeCorrect == Spec => []TypeOK
<1>1. IInv => TypeOK
  BY DEF IInv
<1>2. QED BY <1>1, IInvHolds, PTL

\* No timer outlives its toast and no toast lacks the timer that ends it.
THEOREM TimersAreMatched == Spec => []TimersMatchToasts
<1>1. IInv => TimersMatchToasts
  BY DEF IInv
<1>2. QED BY <1>1, IInvHolds, PTL

\* However a stack is paused, resumed and patched, a countdown leaves a toast
\* exactly its duration of unpaused time, and pausing stops every countdown.
THEOREM CountdownsAreExact == Spec => [](CountdownIsExact /\ PauseIsTotal)
<1>1. IInv => CountdownIsExact /\ PauseIsTotal
  BY DEF IInv
<1>2. QED BY <1>1, IInvHolds, PTL

\* A hovered or focused stack is paused and fanned out, whatever timer of an
\* earlier leave is still pending.
THEOREM HeldIsPaused == Spec => [](HeldStackIsPaused /\ ExpandedMeansPaused)
<1>1. IInv => HeldStackIsPaused /\ ExpandedMeansPaused
  BY DEF IInv
<1>2. QED BY <1>1, IInvHolds, PTL

\* The element that had the focus is no longer drawn.
FocusedGone == focused \in drawn \ drawn'

\* What holds the focus was drawn by the last render.
FocusIsDrawn == focused \in drawn \cup {None}

\* Nothing that can be drawn is called "none".
LEMMA NoneIsNowhere == None \notin Element
<1>1. None.toast = 0 /\ None.part = "none"
  BY DEF None, Own
<1>2. \A e \in Element : e.toast \in Toast \/ e.part \in {"region", "viewport", "dismissAll"}
  BY DEF Element
<1>3. QED BY <1>1, <1>2, ToastAssumption DEF Toast

\* The focus comes only to an element of the last render, and leaves with it.
LEMMA FocusInv == FocusIsDrawn /\ [Next]_vars => FocusIsDrawn'
<1> SUFFICES ASSUME FocusIsDrawn, [Next]_vars PROVE FocusIsDrawn' OBVIOUS
<1>1. ASSUME NEW scrollable \in BOOLEAN, Render(scrollable) PROVE FocusIsDrawn'
  BY <1>1 DEF Render, FocusIsDrawn
<1>2. ASSUME NEW e \in Element, FocusIn(e) PROVE FocusIsDrawn'
  BY <1>2 DEF FocusIn, FocusIsDrawn
<1>3. CASE FocusOut
  BY <1>3 DEF FocusOut, FocusIsDrawn
<1>4. CASE UNCHANGED <<drawn, focused>>
  BY <1>4 DEF FocusIsDrawn
<1>5. QED
  BY <1>1, <1>2, <1>3, <1>4
     DEF Next, Create, Update, Dismiss, Expire, Remove, Destroy, Enter, Leave, CollapseFires,
         Resize, Tick, vars, renderer, environment

\* A collapse timer that has run out runs out once: either somebody holds the
\* stack again or collapsing resumes it.
LEMMA CollapseResumes ==
  ASSUME TypeOK, CollapseFires
  PROVE  ~Stranded'
BY DEF CollapseFires, Stranded, Held, Resume, environment

\* An emptied stack is resumed, whether or not the focus went with it; another
\* can only lose the focus by a render.
LEMMA RenderStrands ==
  ASSUME FocusIsDrawn, NEW scrollable \in BOOLEAN, ~Stranded, Render(scrollable), Stranded'
  PROVE  FocusedGone
<1>1. CASE Listed = {}
  BY <1>1 DEF Render, EmptyResumes, Resume, Stranded
<1>2. CASE Listed # {} /\ focused' = focused
  BY <1>2 DEF Render, Stranded, Held
<1>3. CASE Listed # {} /\ focused' # focused
  BY <1>3 DEF Render, FocusedGone, FocusIsDrawn
<1>4. QED BY <1>1, <1>2, <1>3

\* Whatever order pointer, focus, timers, patches, dismissals and renders come
\* in, a stack is left paused with nobody on it only by a render that takes away
\* the element with the focus: a control, the viewport or Dismiss all.
THEOREM StrandingNeedsLostFocus == Spec => StrandedByLostFocusOnly
<1>1. ASSUME TypeOK, FocusIsDrawn, [Next]_vars, ~Stranded, Stranded' PROVE FocusedGone
  <2>1. CASE Tick
    BY <1>1, <2>1 DEF Tick, Down, Stranded, Held, TypeOK, Off, environment
  <2>2. ASSUME NEW e \in Element, FocusIn(e) PROVE FALSE
    BY <1>1, <2>2, NoneIsNowhere DEF FocusIn, Stranded, Held
  <2>3. CASE Enter
    BY <1>1, <2>3 DEF Enter, Stranded, Held
  <2>4. CASE Leave \/ FocusOut
    BY <1>1, <2>4, ToastAssumption DEF Leave, FocusOut, Stranded, Off
  <2>5. CASE CollapseFires
    BY <1>1, <2>5, CollapseResumes
  <2>6. ASSUME NEW scrollable \in BOOLEAN, Render(scrollable) PROVE FocusedGone
    BY <1>1, <2>6, RenderStrands
  <2>7. CASE UNCHANGED <<paused, hovered, focused, collapse>>
    BY <1>1, <2>7 DEF Stranded, Held
  <2>8. QED
    BY <1>1, <2>1, <2>2, <2>5, <2>6, <2>7, <2>3, <2>4
       DEF Next, Create, Update, Dismiss, Expire, Remove, Destroy, Resize,
           vars, stack, renderer, environment
<1>2. TypeOK /\ FocusIsDrawn /\ [Next]_vars
        => [~Stranded /\ Stranded' => FocusedGone]_vars
  BY <1>1
<1>3. Spec => []FocusIsDrawn
  <2>1. Init => FocusIsDrawn
    BY DEF Init, FocusIsDrawn
  <2>2. QED BY <2>1, FocusInv, PTL DEF Spec, SafetySpec
<1>4. QED BY <1>2, <1>3, TypeCorrect, PTL
          DEF Spec, SafetySpec, StrandedByLostFocusOnly, FocusedGone
=============================================================================
