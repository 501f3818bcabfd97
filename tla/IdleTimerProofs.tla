--------------------------- MODULE IdleTimerProofs ---------------------------
(***************************************************************************)
(* What TLC checks on two attempts holds for every number of attempts, of  *)
(* lines and every budget.  The inductive invariant adds to TypeOK where   *)
(* the attempts stand: those after the current one are untouched, those    *)
(* before it are stopped, so only the current attempt's watcher can be     *)
(* inside handleTimeout.                                                   *)
(***************************************************************************)
EXTENDS IdleTimer, TLAPS

(* Attempts not yet made have no timer, no watcher and no flag set. *)
FutureUntouched ==
    \A a \in Attempts : a > current =>
        /\ timer[a] = "none" /\ watch[a] = "none"
        /\ a \notin stopped \union timedOut \union responded

(* Attempts before the current one are stopped. *)
PastStopped == \A a \in Attempts : a < current => a \in stopped

(* it.mu is held by a timeout only in an attempt that is not stopped. *)
HolderNotStopped == \A a \in Attempts : MuHeld(a) => a \notin stopped

(* From the charge on, the reason of the verdict agrees with the budget. *)
ReasonAgrees ==
    \A a \in Attempts : a = current /\ (a \in timedOut \/ MuHeld(a)) =>
        (reason[a] = "total" <=> remainingBudget = 0)

TimedOutCancelled == timedOut \subseteq ctxDone

IInv ==
    /\ TypeOK
    /\ FutureUntouched
    /\ PastStopped
    /\ HolderNotStopped
    /\ ReasonAgrees
    /\ TimedOutCancelled

-----------------------------------------------------------------------------
(* Consume never leaves the budget's range. *)
LEMMA ConsumedRange ==
    ASSUME NEW b \in 0..InitialBudget
    PROVE  Consumed(b) \in 0..InitialBudget
  BY IdleAssumption DEF Consumed

LEMMA AttemptsRange ==
    ASSUME NEW a \in Attempts
    PROVE  a \in 0..MaxAttempts /\ a \in Nat /\ a # 0
  BY IdleAssumption DEF Attempts

LEMMA InitIInv == Init => IInv
  <1> SUFFICES ASSUME Init PROVE IInv
    OBVIOUS
  <1>1. TypeOK
    <2>1. remainingBudget \in 0..InitialBudget /\ current \in 0..MaxAttempts
      BY IdleAssumption DEF Init
    <2> QED
      BY <2>1 DEF Init, TypeOK, TimerState, WatchState
  <1>2. FutureUntouched /\ HolderNotStopped /\ ReasonAgrees /\ TimedOutCancelled
    BY DEF Init, FutureUntouched, HolderNotStopped, ReasonAgrees, TimedOutCancelled, MuHeld
  <1>3. PastStopped
    BY AttemptsRange DEF Init, PastStopped
  <1> QED
    BY <1>1, <1>2, <1>3 DEF IInv

(* Type correctness is inductive by itself. *)
LEMMA TypeStep == TypeOK /\ [Next]_vars => TypeOK'
  <1> SUFFICES ASSUME TypeOK, [Next]_vars
               PROVE  TypeOK'
    OBVIOUS
  <1> USE AttemptsRange DEF TypeOK, TimerState, WatchState, request, watcher
  <1>1. CASE ClientGone
    <2>1. current # 0 => current \in Attempts
      BY IdleAssumption DEF Attempts
    <2> QED
      BY <1>1, <2>1 DEF ClientGone
  <1>2. ASSUME NEW a \in Attempts, NewIdleTimer(a)
       PROVE  TypeOK'
    BY <1>2, AttemptsRange DEF NewIdleTimer
  <1>3. ASSUME NEW a \in Attempts, Respond(a)
       PROVE  TypeOK'
    BY <1>3 DEF Respond
  <1>4. ASSUME NEW a \in Attempts, Reset(a)
       PROVE  TypeOK'
    BY <1>4, IdleAssumption DEF Reset
  <1>5. ASSUME NEW a \in Attempts, SetFirstTokenReceived(a)
       PROVE  TypeOK'
    BY <1>5 DEF SetFirstTokenReceived
  <1>6. ASSUME NEW a \in Attempts, Stop(a)
       PROVE  TypeOK'
    BY <1>6 DEF Stop
  <1>7. ASSUME NEW a \in Attempts, Cancel(a)
       PROVE  TypeOK'
    BY <1>7 DEF Cancel
  <1>8. ASSUME NEW a \in Attempts, Fire(a)
       PROVE  TypeOK'
    BY <1>8 DEF Fire
  <1>9. ASSUME NEW a \in Attempts, WatchDone(a)
       PROVE  TypeOK'
    BY <1>9 DEF WatchDone
  <1>10. ASSUME NEW a \in Attempts, WatchReceive(a)
        PROVE  TypeOK'
    BY <1>10 DEF WatchReceive
  <1>11. ASSUME NEW a \in Attempts, WatchCapture(a)
        PROVE  TypeOK'
    BY <1>11 DEF WatchCapture
  <1>12. ASSUME NEW a \in Attempts, IgnoreTimeout(a)
        PROVE  TypeOK'
    BY <1>12 DEF IgnoreTimeout
  <1>13. ASSUME NEW a \in Attempts, ChargeTimeout(a)
        PROVE  TypeOK'
    BY <1>13, ConsumedRange DEF ChargeTimeout
  <1>14. ASSUME NEW a \in Attempts, CancelTimeout(a)
        PROVE  TypeOK'
    BY <1>14 DEF CancelTimeout
  <1>15. CASE UNCHANGED vars
    BY <1>15 DEF vars, request, watcher
  <1> QED
    BY <1>1, <1>2, <1>3, <1>4, <1>5, <1>6, <1>7, <1>8, <1>9,
       <1>10, <1>11, <1>12, <1>13, <1>14, <1>15 DEF Next, Serve, Watch

(* Every variable has its type in every reachable state. *)
THEOREM TypeCorrect == Spec => []TypeOK
  <1>1. Init => TypeOK
    BY InitIInv DEF IInv
  <1> QED
    BY <1>1, TypeStep, PTL DEF Spec

(* Only the current attempt's watcher passes the checks of handleTimeout:  *)
(* the attempts before it are stopped, those after it have no watcher.     *)
LEMMA ChargedIsCurrent ==
    ASSUME IInv, NEW a \in Attempts, watch[a] = "captured", a \notin stopped
    PROVE  a = current
  <1>1. ~(a > current)
    BY DEF IInv, FutureUntouched
  <1>2. ~(a < current)
    BY DEF IInv, PastStopped
  <1> QED
    BY <1>1, <1>2, IdleAssumption DEF IInv, TypeOK, Attempts

(* The strengthening is inductive. *)
LEMMA StepIInv == IInv /\ [Next]_vars => IInv'
  <1> SUFFICES ASSUME IInv, [Next]_vars
               PROVE  IInv'
    OBVIOUS
  <1> USE AttemptsRange DEF IInv, TypeOK, FutureUntouched, PastStopped, HolderNotStopped,
          ReasonAgrees, TimedOutCancelled, MuHeld, request, watcher
  <1> DEFINE Rest == /\ FutureUntouched' /\ PastStopped' /\ HolderNotStopped'
                     /\ ReasonAgrees' /\ TimedOutCancelled'
  <1>0. TypeOK'
    BY TypeStep
  <1>1. ASSUME ClientGone
       PROVE  Rest
    BY <1>1 DEF ClientGone
  <1>2. ASSUME NEW a \in Attempts, NewIdleTimer(a)
       PROVE  Rest
    <2>1. FutureUntouched'
      BY <1>2 DEF NewIdleTimer
    <2>2. PastStopped'
      <3>1. a = current + 1 /\ current' = a /\ stopped' = stopped
            /\ (current # 0 => current \in stopped)
        BY <1>2 DEF NewIdleTimer
      <3>2. \A b \in Attempts : b < current + 1 => b < current \/ b = current
        BY IdleAssumption DEF Attempts
      <3> QED
        BY <3>1, <3>2, IdleAssumption DEF PastStopped, Attempts
    <2>3. HolderNotStopped'
      BY <1>2 DEF NewIdleTimer
    <2>4. ReasonAgrees'
      <3>1. a \notin timedOut' /\ ~MuHeld(a)'
        BY <1>2 DEF NewIdleTimer, FutureUntouched, MuHeld
      <3> QED
        BY <1>2, <3>1 DEF NewIdleTimer, ReasonAgrees
    <2>5. TimedOutCancelled'
      BY <1>2 DEF NewIdleTimer
    <2> QED
      BY <2>1, <2>2, <2>3, <2>4, <2>5
  <1>3. ASSUME NEW a \in Attempts, Respond(a)
       PROVE  Rest
    BY <1>3 DEF Respond
  <1>4. ASSUME NEW a \in Attempts, Reset(a)
       PROVE  Rest
    BY <1>4 DEF Reset
  <1>5. ASSUME NEW a \in Attempts, SetFirstTokenReceived(a)
       PROVE  Rest
    BY <1>5 DEF SetFirstTokenReceived
  <1>6. ASSUME NEW a \in Attempts, Stop(a)
       PROVE  Rest
    BY <1>6 DEF Stop
  <1>7. ASSUME NEW a \in Attempts, Cancel(a)
       PROVE  Rest
    BY <1>7 DEF Cancel
  <1>8. ASSUME NEW a \in Attempts, Fire(a)
       PROVE  Rest
    BY <1>8 DEF Fire
  <1>9. ASSUME NEW a \in Attempts, WatchDone(a)
       PROVE  Rest
    BY <1>9 DEF WatchDone
  <1>10. ASSUME NEW a \in Attempts, WatchReceive(a)
        PROVE  Rest
    BY <1>10 DEF WatchReceive
  <1>11. ASSUME NEW a \in Attempts, WatchCapture(a)
        PROVE  Rest
    BY <1>11 DEF WatchCapture
  <1>12. ASSUME NEW a \in Attempts, IgnoreTimeout(a)
        PROVE  Rest
    BY <1>12 DEF IgnoreTimeout
  <1>13. ASSUME NEW a \in Attempts, ChargeTimeout(a)
        PROVE  Rest
    <2>1. FutureUntouched'
      BY <1>13 DEF ChargeTimeout
    <2>2. PastStopped'
      BY <1>13 DEF ChargeTimeout
    <2>3. HolderNotStopped'
      BY <1>13 DEF ChargeTimeout
    <2>4. ReasonAgrees'
      BY <1>13, ChargedIsCurrent DEF ChargeTimeout
    <2>5. TimedOutCancelled'
      BY <1>13 DEF ChargeTimeout
    <2> QED
      BY <2>1, <2>2, <2>3, <2>4, <2>5
  <1>14. ASSUME NEW a \in Attempts, CancelTimeout(a)
        PROVE  Rest
    BY <1>14 DEF CancelTimeout
  <1>15. ASSUME UNCHANGED vars
        PROVE  Rest
    BY <1>15 DEF vars, request, watcher, FutureUntouched, PastStopped, HolderNotStopped,
                ReasonAgrees, TimedOutCancelled, MuHeld
  <1>16. Rest
    BY <1>1, <1>2, <1>3, <1>4, <1>5, <1>6, <1>7, <1>8,
       <1>9, <1>10, <1>11, <1>12, <1>13, <1>14, <1>15 DEF Next, Serve, Watch
  <1> QED
    BY <1>0, <1>16

(* The strengthened invariant of every reachable state. *)
THEOREM Invariance == Spec => []IInv
  <1> QED
    BY InitIInv, StepIInv, PTL DEF Spec

(* Whenever the timer of the current attempt says that it timed out, its   *)
(* context is cancelled, and the reason is "total" exactly when the shared *)
(* budget is used up: what handleTimeout wrote stays true until a line     *)
(* resets budget and mark together.                                        *)
THEOREM VerdictAgrees == Spec => []VerdictMatchesBudget
  <1>1. IInv => VerdictMatchesBudget
    BY DEF IInv, TypeOK, ReasonAgrees, TimedOutCancelled, VerdictMatchesBudget
  <1> QED
    BY <1>1, Invariance, PTL

(* Only a charge lowers the budget: a Reset raises it to its initial value *)
(* and no other step touches it.                                           *)
LEMMA OnlyChargeLowers ==
    ASSUME TypeOK, Next, remainingBudget' < remainingBudget
    PROVE  \E a \in Attempts : ChargeTimeout(a)
  <1> SUFFICES ASSUME NEW a \in Attempts, Serve(a) \/ Fire(a) \/ Watch(a) \/ ClientGone
               PROVE  ChargeTimeout(a) \/ ~(remainingBudget' < remainingBudget)
    <2>1. 1 \in Attempts
      BY IdleAssumption DEF Attempts
    <2> QED
      BY <2>1 DEF Next
  <1>1. CASE Reset(a)
    BY <1>1, IdleAssumption DEF Reset, TypeOK
  <1>2. CASE remainingBudget' = remainingBudget
    BY <1>2, IdleAssumption DEF TypeOK
  <1>3. CASE ChargeTimeout(a)
    BY <1>3
  <1> QED
    BY <1>1, <1>2, <1>3 DEF Serve, Watch, NewIdleTimer, Respond, SetFirstTokenReceived, Stop,
        Cancel, ClientGone, Fire, WatchDone, WatchReceive, WatchCapture, IgnoreTimeout, CancelTimeout

(* An attempt's watcher takes from the request's budget only while that    *)
(* attempt is the current one and is not stopped: a watch goroutine that   *)
(* outlives its attempt never charges the next one.                        *)
THEOREM ChargesAreLive == Spec => OnlyLiveAttemptIsCharged
  <1> DEFINE Live ==
        remainingBudget' < remainingBudget =>
          /\ current' = current /\ current \notin stopped
          /\ watch[current] = "captured"
          /\ \A b \in Attempts \ {current} : watch'[b] = watch[b]
  <1>1. IInv /\ [Next]_vars => [Live]_vars
    <2> SUFFICES ASSUME IInv, Next, remainingBudget' < remainingBudget
                 PROVE  Live
      OBVIOUS
    <2>1. PICK a \in Attempts : ChargeTimeout(a)
      BY OnlyChargeLowers DEF IInv
    <2>2. a = current
      BY <2>1, ChargedIsCurrent DEF ChargeTimeout
    <2> QED
      BY <2>1, <2>2 DEF ChargeTimeout, request, IInv, TypeOK
  <1> QED
    BY <1>1, Invariance, PTL DEF Spec, OnlyLiveAttemptIsCharged

(* An expiry is of a generation that the timer has had. *)
ExpiryOfGeneration == OneExpiryPerArming /\ \A a \in Attempts : firedIn[a] <= generation[a]

LEMMA ExpiryStep == TypeOK /\ ExpiryOfGeneration /\ [Next]_vars => ExpiryOfGeneration'
  <1> SUFFICES ASSUME TypeOK, ExpiryOfGeneration, [Next]_vars
               PROVE  ExpiryOfGeneration'
    OBVIOUS
  <1> USE DEF TypeOK, ExpiryOfGeneration, OneExpiryPerArming
  <1>1. ASSUME NEW a \in Attempts, NewIdleTimer(a)
       PROVE  ExpiryOfGeneration'
    BY <1>1 DEF NewIdleTimer
  <1>2. ASSUME NEW a \in Attempts, Reset(a)
       PROVE  ExpiryOfGeneration'
    BY <1>2 DEF Reset, watcher
  <1>3. ASSUME NEW a \in Attempts, Stop(a) \/ Fire(a)
       PROVE  ExpiryOfGeneration'
    BY <1>3 DEF Stop, Fire, watcher
  <1>4. ASSUME NEW a \in Attempts, WatchDone(a) \/ WatchReceive(a)
       PROVE  ExpiryOfGeneration'
    BY <1>4 DEF WatchDone, WatchReceive
  <1>5. ASSUME NEW a \in Attempts, \/ WatchCapture(a) \/ IgnoreTimeout(a)
                                   \/ ChargeTimeout(a) \/ CancelTimeout(a)
       PROVE  ExpiryOfGeneration'
    <2>1. /\ UNCHANGED <<timer, generation, firedIn>>
          /\ \A b \in Attempts \ {a} : watch'[b] = watch[b]
          /\ watch[a] \in {"received", "captured", "cancelling"}
      BY <1>5 DEF WatchCapture, IgnoreTimeout, ChargeTimeout, CancelTimeout
    <2> QED
      BY <2>1
  <1>6. CASE UNCHANGED <<timer, generation, watcher>>
    BY <1>6 DEF watcher
  <1>7. ASSUME NEW a \in Attempts, \/ Respond(a) \/ SetFirstTokenReceived(a) \/ Cancel(a)
                                   \/ ClientGone \/ UNCHANGED vars
       PROVE  UNCHANGED <<timer, generation, watcher>>
    BY <1>7 DEF Respond, SetFirstTokenReceived, Cancel, ClientGone, vars
  <1>8. 1 \in Attempts
    BY IdleAssumption DEF Attempts
  <1> QED
    BY <1>1, <1>2, <1>3, <1>4, <1>5, <1>6, <1>7, <1>8 DEF Next, Serve, Watch

(* One arming of the timer delivers one expiry: silence is charged once    *)
(* (watch and Reset).                                                      *)
THEOREM SilenceIsChargedOnce == Spec => []OneExpiryPerArming
  <1>1. Init => ExpiryOfGeneration
    BY DEF Init, ExpiryOfGeneration, OneExpiryPerArming
  <1>2. ExpiryOfGeneration => OneExpiryPerArming
    BY DEF ExpiryOfGeneration
  <1> QED
    BY <1>1, <1>2, ExpiryStep, TypeCorrect, PTL DEF Spec

-----------------------------------------------------------------------------
(* The refinement.  Most steps are invisible to the guard.                 *)
LEMMA HiddenSteps ==
    ASSUME IInv, NEW a \in Attempts,
           \/ ClientGone \/ UNCHANGED vars \/ Respond(a) \/ SetFirstTokenReceived(a)
           \/ Cancel(a) \/ Fire(a) \/ WatchDone(a) \/ WatchReceive(a)
           \/ WatchCapture(a) \/ IgnoreTimeout(a) \/ CancelTimeout(a)
    PROVE  UNCHANGED <<remainingBudget, current, AttemptPhase, AttemptVerdict>>
  <1>1. UNCHANGED <<remainingBudget, current, stopped, reason>>
    BY DEF vars, request, ClientGone, Respond, SetFirstTokenReceived, Cancel, Fire,
           WatchDone, WatchReceive, WatchCapture, IgnoreTimeout, CancelTimeout
  <1>2. \A b \in Attempts :
          (b \in timedOut \/ MuHeld(b)) <=> (b \in timedOut \/ MuHeld(b))'
    BY DEF vars, watcher, ClientGone, Respond, SetFirstTokenReceived, Cancel, Fire,
           WatchDone, WatchReceive, WatchCapture, IgnoreTimeout, CancelTimeout,
           MuHeld, IInv, TypeOK
  <1> QED
    BY <1>1, <1>2 DEF AttemptPhase, AttemptVerdict

LEMMA NewIdleTimerOpens ==
    ASSUME IInv, NEW a \in Attempts, NewIdleTimer(a)
    PROVE  Guard!Open(a)
  <1>1. a = current + 1 /\ current' = a /\ current \in Nat /\ UNCHANGED remainingBudget
    BY IdleAssumption DEF NewIdleTimer, IInv, TypeOK
  <1>2. current # 0 => AttemptPhase[current] = "stopped"
    BY <1>1, IdleAssumption DEF NewIdleTimer, AttemptPhase, IInv, TypeOK, Attempts
  <1>3. AttemptPhase' = [AttemptPhase EXCEPT ![a] = "open"]
    <2>1. a \notin stopped /\ UNCHANGED stopped
      BY <1>1 DEF IInv, FutureUntouched, NewIdleTimer
    <2>2. \A b \in Attempts : b # a => (b > current' <=> b > current)
      BY <1>1 DEF Attempts
    <2>3. ~(a > current')
      BY <1>1
    <2> QED
      BY <2>1, <2>2, <2>3 DEF AttemptPhase
  <1>4. UNCHANGED AttemptVerdict
    <2>1. a \notin timedOut /\ ~MuHeld(a) /\ ~MuHeld(a)' /\ UNCHANGED timedOut
      BY <1>1 DEF IInv, TypeOK, FutureUntouched, NewIdleTimer, MuHeld
    <2>2. \A b \in Attempts : b # a => reason'[b] = reason[b] /\ watch'[b] = watch[b]
      BY DEF NewIdleTimer, IInv, TypeOK
    <2> QED
      BY <2>1, <2>2 DEF AttemptVerdict, MuHeld
  <1> QED
    BY <1>1, <1>2, <1>3, <1>4 DEF Guard!Open

(* The attempt in which the serving goroutine, or a charge, acts is open. *)
LEMMA CurrentIsOpen ==
    ASSUME IInv, NEW a \in Attempts, a = current, a \notin stopped
    PROVE  AttemptPhase[a] = "open"
  <1> QED
    BY IdleAssumption DEF AttemptPhase, IInv, TypeOK

LEMMA ResetProgresses ==
    ASSUME IInv, NEW a \in Attempts, Reset(a)
    PROVE  Guard!Progress(a)
  <1>1. AttemptPhase[a] = "open"
    BY CurrentIsOpen DEF Reset
  <1>2. UNCHANGED <<current, AttemptPhase>> /\ remainingBudget' = InitialBudget
    BY DEF Reset, AttemptPhase, request
  <1>3. AttemptVerdict' = [AttemptVerdict EXCEPT ![a] = "none"]
    BY DEF Reset, AttemptVerdict, watcher, MuHeld
  <1> QED
    BY <1>1, <1>2, <1>3 DEF Guard!Progress

LEMMA StopCloses ==
    ASSUME IInv, NEW a \in Attempts, Stop(a)
    PROVE  Guard!Close(a)
  <1>1. AttemptPhase[a] = "open"
    BY CurrentIsOpen DEF Stop
  <1>2. UNCHANGED <<current, remainingBudget, AttemptVerdict>>
    BY DEF Stop, AttemptVerdict, request, watcher, MuHeld
  <1>3. AttemptPhase' = [AttemptPhase EXCEPT ![a] = "stopped"]
    <2>1. ~(a > current) /\ UNCHANGED current /\ stopped' = stopped \union {a}
      BY <1>2, IdleAssumption DEF Stop, IInv, TypeOK
    <2> QED
      BY <2>1 DEF AttemptPhase
  <1> QED
    BY <1>1, <1>2, <1>3 DEF Guard!Close

(* A charge after the first token is only logged, unless an earlier expiry *)
(* of the same attempt has already given its verdict.                      *)
LEMMA ChargeLogsOrAborts ==
    ASSUME IInv, NEW a \in Attempts, ChargeTimeout(a)
    PROVE  Guard!LogIdle(a) \/ Guard!Abort(a)
  <1>1. AttemptPhase[a] = "open"
    BY CurrentIsOpen, ChargedIsCurrent DEF ChargeTimeout
  <1>2. UNCHANGED <<current, AttemptPhase>>
    BY DEF ChargeTimeout, AttemptPhase, request
  <1>3. remainingBudget' = Guard!Charged
    BY DEF ChargeTimeout, Consumed, Guard!Charged
  <1>4. ~MuHeld(a) /\ UNCHANGED timedOut
    BY DEF ChargeTimeout, MuHeld
  <1>5. \A b \in Attempts \ {a} : reason'[b] = reason[b] /\ watch'[b] = watch[b]
    BY DEF ChargeTimeout, IInv, TypeOK
  <1>6. CASE a \in firstTokenReceived /\ a \notin timedOut
    <2>1. AttemptVerdict[a] = "none"
      BY <1>4, <1>6 DEF AttemptVerdict
    <2>2. ~MuHeld(a)'
      BY <1>6 DEF ChargeTimeout, MuHeld, IInv, TypeOK
    <2>3. UNCHANGED AttemptVerdict
      BY <1>4, <1>5, <1>6, <2>2 DEF AttemptVerdict, MuHeld
    <2> QED
      BY <1>1, <1>2, <1>3, <2>1, <2>3 DEF Guard!LogIdle
  <1>7. CASE a \notin firstTokenReceived \/ a \in timedOut
    <2>1. a \in timedOut' \/ MuHeld(a)'
      BY <1>4, <1>7 DEF ChargeTimeout, MuHeld, IInv, TypeOK
    <2>2. reason'[a] = IF Guard!Charged = 0 THEN "total" ELSE "per_idle"
      BY <1>3 DEF ChargeTimeout, IInv, TypeOK
    <2>3. AttemptVerdict' = [AttemptVerdict EXCEPT ![a] =
                                IF Guard!Charged = 0 THEN "total" ELSE "per_idle"]
      BY <1>4, <1>5, <2>1, <2>2 DEF AttemptVerdict, MuHeld
    <2> QED
      BY <1>1, <1>2, <1>3, <2>3 DEF Guard!Abort
  <1> QED
    BY <1>6, <1>7

(* The timer implements the guard that the retry code relies on.           *)
THEOREM Refinement == Spec => ImplementsGuard
  <1>1. Init => Guard!GInit
    <2> SUFFICES ASSUME Init PROVE Guard!GInit
      OBVIOUS
    <2>1. AttemptPhase = [a \in Attempts |-> "new"]
      BY AttemptsRange DEF Init, AttemptPhase, Attempts
    <2>2. AttemptVerdict = [a \in Attempts |-> "none"]
      BY DEF Init, AttemptVerdict, MuHeld
    <2> QED
      BY <2>1, <2>2 DEF Init, Guard!GInit, Guard!Attempts, Attempts
  <1>2. IInv /\ [Next]_vars => [Guard!GNext]_(Guard!gvars)
    <2> SUFFICES ASSUME IInv, [Next]_vars
                 PROVE  Guard!GNext \/ UNCHANGED Guard!gvars
      OBVIOUS
    <2>1. Guard!Attempts = Attempts
      BY DEF Guard!Attempts, Attempts
    <2>2. CASE ClientGone \/ UNCHANGED vars
      <3>1. 1 \in Attempts
        BY IdleAssumption DEF Attempts
      <3> QED
        BY <2>2, <3>1, HiddenSteps DEF Guard!gvars
    <2>3. ASSUME NEW a \in Attempts, Serve(a) \/ Fire(a) \/ Watch(a)
         PROVE  Guard!GNext \/ UNCHANGED Guard!gvars
      <3>1. CASE NewIdleTimer(a)
        BY <2>1, <3>1, NewIdleTimerOpens DEF Guard!GNext
      <3>2. CASE Reset(a)
        BY <2>1, <3>2, ResetProgresses DEF Guard!GNext
      <3>3. CASE Stop(a)
        BY <2>1, <3>3, StopCloses DEF Guard!GNext
      <3>4. CASE ChargeTimeout(a)
        BY <2>1, <3>4, ChargeLogsOrAborts DEF Guard!GNext
      <3>5. CASE UNCHANGED <<remainingBudget, current, AttemptPhase, AttemptVerdict>>
        BY <3>5 DEF Guard!gvars
      <3> QED
        BY <2>3, <3>1, <3>2, <3>3, <3>4, <3>5, HiddenSteps DEF Serve, Watch
    <2> QED
      BY <2>2, <2>3 DEF Next
  <1> QED
    BY <1>1, <1>2, Invariance, PTL DEF Spec, ImplementsGuard, Guard!GSpec
=============================================================================
