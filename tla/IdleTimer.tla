------------------------------ MODULE IdleTimer ------------------------------
(***************************************************************************)
(* The idle timer of one LLM request, internal/timeout/idle.go.            *)
(*                                                                         *)
(* A request makes several attempts (retries, model switches, tool         *)
(* rounds).  They share one IdleTracker, the idle budget of the request;   *)
(* each has an IdleTimer of its own, whose watch goroutine waits for the   *)
(* runtime timer and may cancel the attempt's context.  The goroutine that *)
(* serves the request calls Reset for each line it receives,               *)
(* SetFirstTokenReceived once, and Stop and cancel when the attempt ends.  *)
(*                                                                         *)
(* An action is what one goroutine does under it.mu.  handleTimeout holds  *)
(* it.mu but reads the first-token flag under a second mutex, so it is two *)
(* steps, and no step that needs it.mu is enabled between them.  Time is   *)
(* abstract: an armed timer may fire at any moment.  Since Go 1.23 (go.mod *)
(* asks for 1.24) Stop and Reset leave no old value in timer.C.            *)
(***************************************************************************)
EXTENDS Naturals

CONSTANTS
    MaxAttempts,    \* bound: attempts of the request
    MaxResets,      \* bound: lines received in one attempt
    PerIdle,        \* it.perIdle, in units of time
    InitialBudget   \* tracker.initialBudget, in the same units

ASSUME IdleAssumption ==
    /\ MaxAttempts \in Nat \ {0}
    /\ MaxResets \in Nat
    /\ PerIdle \in Nat
    /\ InitialBudget \in Nat

Attempts == 1..MaxAttempts

VARIABLES
    remainingBudget,     \* tracker.remainingBudget
    current,             \* the attempt the request is in, 0 before the first
    parentDone,          \* the request's own context ended: the client left
    ctxDone,             \* attempts whose context is done
    responded,           \* attempts whose HTTP call returned a response
    timer,               \* timer[a]: the runtime timer of attempt a
    generation,          \* generation[a]: it.generation
    reason,              \* reason[a]: it.reason
    stopped,             \* attempts with it.stopped
    firstTokenReceived,  \* attempts with it.firstTokenReceived
    timedOut,            \* attempts with it.timedOut
    watch,               \* watch[a]: where the watch goroutine stands
    capturedGen,         \* capturedGen[a]: the generation watch captured
    firedIn              \* history: the generation when watch took the expiry

request == <<current, parentDone, responded>>
watcher == <<watch, capturedGen, firedIn>>
vars == <<remainingBudget, request, ctxDone, timer, generation, reason, stopped,
          firstTokenReceived, timedOut, watcher>>

(* "none": NewIdleTimer made no timer; "fired": timer.C is ready; "off":   *)
(* stopped, or its value taken.                                            *)
TimerState == {"none", "armed", "fired", "off"}

(* "received": took a value from timer.C; "captured": about to call        *)
(* handleTimeout; "cancelling": inside handleTimeout, past the flag.       *)
WatchState == {"none", "select", "received", "captured", "cancelling", "exit"}

(* Mutant: Consume without its clamp. *)
ConsumedUnclamped(budget) == budget - PerIdle

(* The budget after Consume(perIdle), clamped at zero. *)
Consumed(budget) == IF budget > PerIdle THEN budget - PerIdle ELSE 0

Init ==
    /\ remainingBudget = InitialBudget
    /\ current = 0
    /\ parentDone = FALSE
    /\ timer = [a \in Attempts |-> "none"]
    /\ generation = [a \in Attempts |-> 0]
    /\ reason = [a \in Attempts |-> "per_idle"]
    /\ watch = [a \in Attempts |-> "none"]
    /\ capturedGen = [a \in Attempts |-> 0]
    /\ firedIn = [a \in Attempts |-> 0]
    /\ ctxDone = {} /\ responded = {} /\ stopped = {}
    /\ firstTokenReceived = {} /\ timedOut = {}

(* it.mu of attempt a is held by handleTimeout. *)
MuHeld(a) == watch[a] = "cancelling"

-----------------------------------------------------------------------------
(* The goroutine that serves the request.                                  *)

(* NewIdleTimer: an exhausted budget cancels the context at once, without  *)
(* a timer, a watch goroutine, or the timedOut mark.  The next attempt     *)
(* starts after the deferred Stop and cancel of the last one.              *)
NewIdleTimer(a) ==
    /\ a = current + 1
    /\ current # 0 => current \in stopped \cap ctxDone
    /\ current' = a
    /\ IF remainingBudget = 0
       THEN /\ reason' = [reason EXCEPT ![a] = "total"]
            /\ ctxDone' = ctxDone \union {a}
            /\ UNCHANGED <<timer, watch>>
       ELSE /\ timer' = [timer EXCEPT ![a] = "armed"]
            /\ watch' = [watch EXCEPT ![a] = "select"]
            /\ ctxDone' = IF parentDone THEN ctxDone \union {a} ELSE ctxDone
            /\ UNCHANGED reason
    /\ UNCHANGED <<remainingBudget, parentDone, responded, generation, stopped,
                   firstTokenReceived, timedOut, capturedGen, firedIn>>

(* The upstream answers: httpClient.Do returns a response.  It returns     *)
(* none on a context that is done; what it has buffered by then can still  *)
(* be read.                                                                *)
Respond(a) ==
    /\ a = current
    /\ a \notin stopped \union ctxDone \union responded
    /\ responded' = responded \union {a}
    /\ UNCHANGED <<remainingBudget, current, parentDone, ctxDone, timer, generation,
                   reason, stopped, firstTokenReceived, timedOut, watcher>>

(* Mutant: Reset leaves it.timedOut as it is. *)
ResetKeepsVerdict(a) ==
    /\ a = current
    /\ ~MuHeld(a)
    /\ a \notin stopped /\ a \in responded
    /\ generation[a] < MaxResets
    /\ generation' = [generation EXCEPT ![a] = @ + 1]
    /\ remainingBudget' = InitialBudget
    /\ timer' = [timer EXCEPT ![a] = IF @ = "none" THEN @ ELSE "armed"]
    /\ UNCHANGED <<request, ctxDone, reason, stopped, firstTokenReceived, timedOut, watcher>>

(* Mutant: Reset stops the timer and does not start it again. *)
ResetWithoutRearm(a) ==
    /\ a = current
    /\ ~MuHeld(a)
    /\ a \notin stopped /\ a \in responded
    /\ generation[a] < MaxResets
    /\ generation' = [generation EXCEPT ![a] = @ + 1]
    /\ remainingBudget' = InitialBudget
    /\ timer' = [timer EXCEPT ![a] = IF @ = "none" THEN @ ELSE "off"]
    /\ timedOut' = timedOut \ {a}
    /\ UNCHANGED <<request, ctxDone, reason, stopped, firstTokenReceived, watcher>>

(* Reset, on the response headers and on each line.                        *)
Reset(a) ==
    /\ a = current
    /\ ~MuHeld(a)
    /\ a \notin stopped /\ a \in responded
    /\ generation[a] < MaxResets
    /\ generation' = [generation EXCEPT ![a] = @ + 1]
    /\ remainingBudget' = InitialBudget
    /\ timer' = [timer EXCEPT ![a] = IF @ = "none" THEN @ ELSE "armed"]
    /\ timedOut' = timedOut \ {a}
    /\ UNCHANGED <<request, ctxDone, reason, stopped, firstTokenReceived, watcher>>

(* SetFirstTokenReceived takes only firstTokenMu. *)
SetFirstTokenReceived(a) ==
    /\ a = current
    /\ a \notin stopped
    /\ generation[a] > 0
    /\ firstTokenReceived' = firstTokenReceived \union {a}
    /\ UNCHANGED <<remainingBudget, request, ctxDone, timer, generation, reason,
                   stopped, timedOut, watcher>>

Stop(a) ==
    /\ a = current
    /\ ~MuHeld(a)
    /\ a \notin stopped
    /\ stopped' = stopped \union {a}
    /\ timer' = [timer EXCEPT ![a] = IF @ = "none" THEN @ ELSE "off"]
    /\ UNCHANGED <<remainingBudget, request, ctxDone, generation, reason,
                   firstTokenReceived, timedOut, watcher>>

(* Mutant: the deferred function stops the timer and forgets cancel(). *)
CancelForgotten(a) ==
    /\ a = current
    /\ a \in stopped \ ctxDone
    /\ UNCHANGED vars

(* cancel(), the second half of the deferred function of the attempt. *)
Cancel(a) ==
    /\ a = current
    /\ a \in stopped \ ctxDone
    /\ ctxDone' = ctxDone \union {a}
    /\ UNCHANGED <<remainingBudget, request, timer, generation, reason, stopped,
                   firstTokenReceived, timedOut, watcher>>

(* The client disconnects: the request's context ends, and with it the     *)
(* context of the attempt in progress.                                     *)
ClientGone ==
    /\ ~parentDone
    /\ parentDone' = TRUE
    /\ ctxDone' = ctxDone \union ({current} \ {0})
    /\ UNCHANGED <<remainingBudget, current, responded, timer, generation, reason,
                   stopped, firstTokenReceived, timedOut, watcher>>

-----------------------------------------------------------------------------
(* The runtime timer and the watch goroutine.                              *)

Fire(a) ==
    /\ timer[a] = "armed"
    /\ timer' = [timer EXCEPT ![a] = "fired"]
    /\ UNCHANGED <<remainingBudget, request, ctxDone, generation, reason, stopped,
                   firstTokenReceived, timedOut, watcher>>

WatchDone(a) ==
    /\ watch[a] = "select"
    /\ a \in ctxDone
    /\ timer' = [timer EXCEPT ![a] = "off"]
    /\ watch' = [watch EXCEPT ![a] = "exit"]
    /\ UNCHANGED <<remainingBudget, request, ctxDone, generation, reason, stopped,
                   firstTokenReceived, timedOut, capturedGen, firedIn>>

(* Mutant: a periodic ticker in place of the one-shot timer. *)
WatchReceiveTick(a) ==
    /\ watch[a] = "select"
    /\ timer[a] = "fired"
    /\ timer' = [timer EXCEPT ![a] = "armed"]
    /\ watch' = [watch EXCEPT ![a] = "received"]
    /\ firedIn' = [firedIn EXCEPT ![a] = generation[a]]
    /\ UNCHANGED <<remainingBudget, request, ctxDone, generation, reason, stopped,
                   firstTokenReceived, timedOut, capturedGen>>

WatchReceive(a) ==
    /\ watch[a] = "select"
    /\ timer[a] = "fired"
    /\ timer' = [timer EXCEPT ![a] = "off"]
    /\ watch' = [watch EXCEPT ![a] = "received"]
    /\ firedIn' = [firedIn EXCEPT ![a] = generation[a]]
    /\ UNCHANGED <<remainingBudget, request, ctxDone, generation, reason, stopped,
                   firstTokenReceived, timedOut, capturedGen>>

WatchCapture(a) ==
    /\ watch[a] = "received"
    /\ capturedGen' = [capturedGen EXCEPT ![a] = generation[a]]
    /\ watch' = [watch EXCEPT ![a] = IF a \in stopped THEN "exit" ELSE "captured"]
    /\ UNCHANGED <<remainingBudget, request, ctxDone, timer, generation, reason,
                   stopped, firstTokenReceived, timedOut, firedIn>>

(* handleTimeout returns to the select when the timer was stopped, or      *)
(* reset since the capture.                                                *)
IgnoreTimeout(a) ==
    /\ watch[a] = "captured"
    /\ a \in stopped \/ generation[a] # capturedGen[a]
    /\ watch' = [watch EXCEPT ![a] = "select"]
    /\ UNCHANGED <<remainingBudget, request, ctxDone, timer, generation, reason,
                   stopped, firstTokenReceived, timedOut, capturedGen, firedIn>>

(* Mutant: the reason is taken from the budget before it is charged. *)
ChargeAfterReason(a) ==
    /\ watch[a] = "captured"
    /\ a \notin stopped
    /\ generation[a] = capturedGen[a]
    /\ remainingBudget' = Consumed(remainingBudget)
    /\ reason' = [reason EXCEPT ![a] = IF remainingBudget = 0 THEN "total" ELSE "per_idle"]
    /\ watch' = [watch EXCEPT ![a] =
                    IF a \in firstTokenReceived THEN "select" ELSE "cancelling"]
    /\ UNCHANGED <<request, ctxDone, timer, generation, stopped, firstTokenReceived,
                   timedOut, capturedGen, firedIn>>

(* Mutant: handleTimeout does not look at it.stopped again under the lock. *)
ChargeWhenStopped(a) ==
    /\ watch[a] = "captured"
    /\ generation[a] = capturedGen[a]
    /\ remainingBudget' = Consumed(remainingBudget)
    /\ reason' = [reason EXCEPT ![a] = IF remainingBudget' = 0 THEN "total" ELSE "per_idle"]
    /\ watch' = [watch EXCEPT ![a] =
                    IF a \in firstTokenReceived THEN "select" ELSE "cancelling"]
    /\ UNCHANGED <<request, ctxDone, timer, generation, stopped, firstTokenReceived,
                   timedOut, capturedGen, firedIn>>

(* Otherwise it charges the budget, sets the reason and reads the          *)
(* first-token flag; after the first token it only logs.                   *)
ChargeTimeout(a) ==
    /\ watch[a] = "captured"
    /\ a \notin stopped
    /\ generation[a] = capturedGen[a]
    /\ remainingBudget' = Consumed(remainingBudget)
    /\ reason' = [reason EXCEPT ![a] = IF remainingBudget' = 0 THEN "total" ELSE "per_idle"]
    /\ watch' = [watch EXCEPT ![a] =
                    IF a \in firstTokenReceived THEN "select" ELSE "cancelling"]
    /\ UNCHANGED <<request, ctxDone, timer, generation, stopped, firstTokenReceived,
                   timedOut, capturedGen, firedIn>>

(* Before the first token it cancels the attempt, and releases it.mu. *)
CancelTimeout(a) ==
    /\ watch[a] = "cancelling"
    /\ timedOut' = timedOut \union {a}
    /\ ctxDone' = ctxDone \union {a}
    /\ watch' = [watch EXCEPT ![a] = "select"]
    /\ UNCHANGED <<remainingBudget, request, timer, generation, reason, stopped,
                   firstTokenReceived, capturedGen, firedIn>>

-----------------------------------------------------------------------------
Serve(a) ==
    \/ NewIdleTimer(a) \/ Respond(a) \/ Reset(a) \/ SetFirstTokenReceived(a)
    \/ Stop(a) \/ Cancel(a)

Watch(a) ==
    \/ WatchDone(a) \/ WatchReceive(a) \/ WatchCapture(a)
    \/ IgnoreTimeout(a) \/ ChargeTimeout(a) \/ CancelTimeout(a)

Next ==
    \/ ClientGone
    \/ \E a \in Attempts : Serve(a) \/ Fire(a) \/ Watch(a)

Spec == Init /\ [][Next]_vars

(***************************************************************************)
(* The Go scheduler runs a goroutine that can run, the runtime fires an    *)
(* armed timer, and cancel() follows Stop() in the same deferred function. *)
(* Nothing makes the upstream send a line or the client go away.           *)
(***************************************************************************)
Fairness ==
    \A a \in Attempts :
        /\ WF_vars(Watch(a))
        /\ WF_vars(Fire(a))
        /\ WF_vars(Cancel(a))

FairSpec == Spec /\ Fairness
-----------------------------------------------------------------------------
(* Properties.                                                             *)

(* Every variable keeps the type its Go declaration gives it, and the      *)
(* clamp of Consume keeps the budget between zero and its initial value.   *)
TypeOK ==
    /\ remainingBudget \in 0..InitialBudget
    /\ current \in 0..MaxAttempts
    /\ parentDone \in BOOLEAN
    /\ timer \in [Attempts -> TimerState]
    /\ generation \in [Attempts -> Nat]
    /\ reason \in [Attempts -> {"per_idle", "total"}]
    /\ watch \in [Attempts -> WatchState]
    /\ capturedGen \in [Attempts -> Nat]
    /\ firedIn \in [Attempts -> Nat]
    /\ {ctxDone, responded, stopped, firstTokenReceived, timedOut} \subseteq SUBSET Attempts

(* How the attempts look through IsTimedOut and Reason. *)
AttemptPhase ==
    [a \in Attempts |-> IF a > current THEN "new"
                       ELSE IF a \in stopped THEN "stopped" ELSE "open"]

AttemptVerdict ==
    [a \in Attempts |-> IF a \in timedOut \/ MuHeld(a) THEN reason[a] ELSE "none"]

Guard == INSTANCE IdleGuard WITH
    budget <- remainingBudget, attempt <- current,
    phase <- AttemptPhase, verdict <- AttemptVerdict

(* Behind its locks, generations and goroutine the timer is the guard that *)
(* the retry code relies on: a charge and its verdict are one step for     *)
(* anyone who asks through IsTimedOut and Reason, they come only while the *)
(* attempt is open, and a verdict goes away only when a line arrives.      *)
ImplementsGuard == Guard!GSpec

(* What the LLM client reports when a call fails: it asks IsTimedOut, then *)
(* Reason.  Whenever the timer says that the attempt timed out, its        *)
(* context is cancelled and the reason is "total" exactly when the shared  *)
(* budget is used up, whatever Resets and expiries came before.            *)
VerdictMatchesBudget ==
    \A a \in timedOut : a = current =>
        /\ a \in ctxDone
        /\ reason[a] = "total" <=> remainingBudget = 0

(* The request has one budget: an attempt's watcher charges it only while  *)
(* that attempt is the current one and is not stopped.  A watcher that     *)
(* outlives its attempt never takes from the next attempt's budget.        *)
OnlyLiveAttemptIsCharged ==
    [][remainingBudget' < remainingBudget =>
          /\ current' = current /\ current \notin stopped
          /\ watch[current] = "captured"
          /\ \A b \in Attempts \ {current} : watch'[b] = watch[b]]_vars

(* One arming of the timer delivers one expiry: while the watcher handles  *)
(* an expiry, the timer can be running again only because a line arrived   *)
(* in between and Reset re-armed it.  Silence is charged once.             *)
OneExpiryPerArming ==
    \A a \in Attempts :
        /\ watch[a] \in {"received", "captured", "cancelling"}
        /\ timer[a] \in {"armed", "fired"}
        => generation[a] > firedIn[a]

(* No goroutine is leaked: once an attempt is stopped, its watch goroutine *)
(* ends, or it never had one.                                              *)
WatcherEnds ==
    \A a \in Attempts : a \in stopped ~> watch[a] \in {"none", "exit"}

(* A silent upstream does not hold the request for ever: an attempt that   *)
(* has a timer is cancelled, or stopped, or has received its first token.  *)
QuietAttemptEnds ==
    \A a \in Attempts :
        a = current ~> a \in ctxDone \union stopped \union firstTokenReceived

(* idle.go's generation counter is there "to detect stale timeout events": *)
(* an expiry that was taken from timer.C before a Reset is not handled     *)
(* after it.  The generation is captured after the receive, not with it.   *)
StaleExpiryIgnored ==
    [][\A a \in Attempts :
          ~parentDone /\ watch[a] = "captured" /\ watch'[a] = "cancelling"
          => firedIn[a] = generation[a]]_vars
=============================================================================
