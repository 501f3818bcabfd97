----------------------------- MODULE StreamRetry -----------------------------
(***************************************************************************)
(* A chat completion from the choice of models to the last byte:           *)
(* ChatCompletionStream and ChatCompletion of internal/logic/chat.go, with *)
(* the call of the LLM client that either makes for each attempt           *)
(* (internal/client/llm.go).                                               *)
(*                                                                         *)
(* Automatic mode walks an ordered list of models; any other request has   *)
(* one.  A model is tried up to 1 + MaxRetryCount times.  A reply is       *)
(* passed through line by line (kind "raw"), goes through a window that    *)
(* looks for server tools ("window"), in which case a tool round makes a   *)
(* further call within the same attempt, or is answered as a whole         *)
(* ("plain", not streamed).  Once a token has gone to the client the       *)
(* attempt is committed and no other may follow.                           *)
(*                                                                         *)
(* All calls share one idle budget.  Their timers are the guard of module  *)
(* IdleGuard, which IdleTimer implements; a call here moves that guard.    *)
(***************************************************************************)
EXTENDS Integers, Sequences, RetryPolicy

CONSTANTS
    NumModels,       \* length of the ordered list in automatic mode
    MaxRetryCount,   \* routing or llmTimeout maxRetryCount
    RetryInterval,   \* retryIntervalMs, in the units of the idle budget
    PerIdle,         \* idleTimeoutMs
    InitialBudget,   \* totalIdleTimeoutMs
    MaxToolDepth,    \* MaxToolCallDepth
    MaxTraceEvents,  \* maxDegradationTraceEvents
    MaxLines,        \* bound: lines that one call receives
    Statuses         \* bound: response codes of the upstream other than 200

ASSUME StreamAssumption ==
    /\ {NumModels, MaxTraceEvents} \subseteq Nat \ {0}
    /\ {MaxRetryCount, RetryInterval, PerIdle, InitialBudget, MaxToolDepth, MaxLines} \subseteq Nat
    /\ Statuses \subseteq Nat \ {200}

(* Tool rounds happen in committed attempts only, and the last is one. *)
MaxCalls == NumModels * (MaxRetryCount + 1) + MaxToolDepth

VARIABLES
    mode,       \* the request: [auto, kind, clientOK]
    pc,         \* where the goroutine of the request stands
    modelIndex, \* the model being tried
    tries,      \* attempts made of that model
    committed,  \* l.streamCommitted
    depth,      \* remainingDepth
    stream,     \* of the current call: [lines, armed, firstToken, substance, tool]
    ctxDone,    \* the context of the current call is done
    lastErr,
    errorOf,    \* history: the attempt that lastErr is of
    trace,      \* l.degradationTrace
    reply,      \* what the client has: see Replies
    told,       \* how many errors the client is sent
    gone,       \* the client disconnected: l.ctx is cancelled
    tokensFrom, \* history: attempts whose tokens the client has
    late,       \* history: attempts started after the client had gone
    starved,    \* history: a call found the budget empty or lost its verdict
    budget, call, phase, verdict   \* the guard

guard == <<budget, call, phase, verdict>>
request == <<mode, modelIndex, tries, depth>>
history == <<tokensFrom, late, starved>>
failure == <<lastErr, errorOf>>
vars == <<guard, request, history, failure, pc, committed, stream, ctxDone, trace, reply, told, gone>>

Guard == INSTANCE IdleGuard WITH MaxAttempts <- MaxCalls, attempt <- call

Kinds == {"raw", "window", "plain"}

(* What has reached the client: nothing, part of an answer, a finished     *)
(* answer, the error of an attempt; "empty": the SSE error event that an   *)
(* answer without substance is reported with; "silent": nothing more will  *)
(* come, and the connection is closed.                                     *)
Replies == {"none", "partial", "complete", "empty", "error", "silent"}

PCs == {"model", "attempt", "do", "headers", "reading", "line", "failing", "finished",
        "tool", "failed", "sleep", "switch", "report", "done"}

(* armed: the idle timer runs, or has fired and was not yet looked at.     *)
FreshStream == [lines |-> 0, armed |-> budget > 0,
                firstToken |-> FALSE, substance |-> FALSE, tool |-> FALSE]

Plain == mode.kind = "plain"
LastModel == IF mode.auto THEN NumModels ELSE 1

(* The attempt in progress, as the trace numbers it. *)
Attempt == <<modelIndex, tries>>

(* appendDegradationEvent: in automatic mode, up to the limit, whose last  *)
(* place is kept for one truncation mark.                                  *)
Event(name, attempt) == [event |-> name, attempt |-> attempt]
Truncated == Event("trace_truncated", <<0, 0>>)
Append1(t, e) ==
    IF ~mode.auto \/ Len(t) >= MaxTraceEvents THEN t
    ELSE Append(t, IF Len(t) = MaxTraceEvents - 1 THEN Truncated ELSE e)
Append2(t, e, f) == Append1(Append1(t, e), f)

Init ==
    /\ Guard!GInit
    /\ mode \in [auto : BOOLEAN, kind : Kinds, clientOK : BOOLEAN]
    /\ pc = "model"
    /\ modelIndex = 1 /\ tries = 0
    /\ committed = FALSE
    /\ depth = MaxToolDepth
    /\ stream = FreshStream
    /\ ctxDone = FALSE
    /\ lastErr = NoError /\ errorOf = <<0, 0>>
    /\ trace = Append1(<<>>, Event("degradation_started", <<1, 0>>))
    /\ reply = "none" /\ told = 0
    /\ gone = FALSE
    /\ tokensFrom = {} /\ late = 0 /\ starved = FALSE

-----------------------------------------------------------------------------
(* The loops of ChatCompletionStream.                                      *)

(* NewLLMClient fails without an endpoint or headers, which is so for      *)
(* every model or for none.  Automatic mode then moves on, silently when   *)
(* it streams, and otherwise as after a failed attempt.                    *)
NewLLMClient ==
    /\ pc = "model"
    /\ tries' = 0
    /\ IF mode.clientOK
       THEN pc' = "attempt" /\ UNCHANGED <<modelIndex, failure>>
       ELSE /\ lastErr' = OtherError /\ errorOf' = <<modelIndex, 0>>
            /\ IF Plain \/ modelIndex = LastModel
               THEN pc' = (IF Plain /\ mode.auto THEN "switch" ELSE "report") /\ UNCHANGED modelIndex
               ELSE modelIndex' = modelIndex + 1 /\ UNCHANGED pc
    /\ UNCHANGED <<guard, history, mode, depth, committed, stream, ctxDone, trace, reply, told, gone>>

(* NewIdleTimer: on an empty budget the context is cancelled at once. *)
OpenCall ==
    /\ Guard!Open(call + 1)
    /\ stream' = FreshStream
    /\ ctxDone' = (gone \/ budget = 0)
    /\ starved' = (starved \/ budget = 0)
    /\ pc' = "do"

StartAttempt ==
    /\ pc = "attempt"
    /\ OpenCall
    /\ tries' = tries + 1
    /\ committed' = FALSE
    /\ depth' = MaxToolDepth
    /\ trace' = Append1(trace, Event("attempt_started", <<modelIndex, tries'>>))
    /\ late' = IF gone THEN late + 1 ELSE late
    /\ UNCHANGED <<mode, modelIndex, failure, reply, told, gone, tokensFrom>>

(* Mutant: the committed path returns without its trace event. *)
StopSilently ==
    /\ pc = "failed"
    /\ committed
    /\ pc' = "report"
    /\ UNCHANGED <<guard, request, history, committed, stream, ctxDone, failure, trace, reply, told, gone>>

(* A failed attempt of a committed reply is the end of the request.        *)
StopCommitted ==
    /\ pc = "failed"
    /\ committed
    /\ trace' = Append1(trace, Event("degradation_stopped", Attempt))
    /\ pc' = "report"
    /\ UNCHANGED <<guard, request, history, committed, stream, ctxDone, failure, reply, told, gone>>

(* Otherwise the same model may be tried again, if the budget is worth the *)
(* wait.                                                                   *)
(* Mutant: attempts are counted from one against a bound meant for zero. *)
WantsOneMore == Retryable(lastErr, gone) /\ tries <= MaxRetryCount + 1

WantsRetry == Retryable(lastErr, gone) /\ tries <= MaxRetryCount
AttemptFailed == Event("attempt_failed", Attempt)

(* Mutant: the retry is decided before streamCommitted is looked at. *)
RetryAnyway ==
    /\ pc = "failed"
    /\ WantsRetry /\ budget >= RetryInterval
    /\ trace' = Append2(trace, AttemptFailed, Event("retry_scheduled", Attempt))
    /\ pc' = "sleep"
    /\ UNCHANGED <<guard, request, history, committed, stream, ctxDone, failure, reply, told, gone>>

ScheduleRetry ==
    /\ pc = "failed"
    /\ ~committed
    /\ WantsRetry /\ budget >= RetryInterval
    /\ trace' = Append2(trace, AttemptFailed, Event("retry_scheduled", Attempt))
    /\ pc' = "sleep"
    /\ UNCHANGED <<guard, request, history, committed, stream, ctxDone, failure, reply, told, gone>>

GiveUpModel ==
    /\ pc = "failed"
    /\ ~committed
    /\ ~(WantsRetry /\ budget >= RetryInterval)
    /\ trace' = IF WantsRetry
                THEN Append2(trace, AttemptFailed,
                             Event("retry_skipped_insufficient_budget", Attempt))
                ELSE Append1(trace, AttemptFailed)
    /\ pc' = IF mode.auto THEN "switch" ELSE "report"
    /\ UNCHANGED <<guard, request, history, committed, stream, ctxDone, failure, reply, told, gone>>

(* time.Sleep does not watch the request's context. *)
WakeUp ==
    /\ pc = "sleep"
    /\ pc' = "attempt"
    /\ UNCHANGED <<guard, request, history, committed, stream, ctxDone, failure, trace, reply, told, gone>>

SwitchModel ==
    /\ pc = "switch"
    /\ Switchable(lastErr, gone)
    /\ IF modelIndex < LastModel
       THEN /\ modelIndex' = modelIndex + 1
            /\ trace' = Append1(trace, Event("model_switch", <<modelIndex', 0>>))
            /\ pc' = "model"
       ELSE pc' = "report" /\ UNCHANGED <<modelIndex, trace>>
    /\ UNCHANGED <<guard, history, mode, tries, depth, committed, stream, ctxDone, failure, reply, told, gone>>

StopDegradation ==
    /\ pc = "switch"
    /\ ~Switchable(lastErr, gone)
    /\ trace' = Append1(trace, Event("degradation_stopped", <<modelIndex, 0>>))
    /\ pc' = "report"
    /\ UNCHANGED <<guard, request, history, committed, stream, ctxDone, failure, reply, told, gone>>

(* handleStreamError: nothing is sent on a cancelled context.              *)
HandleStreamError ==
    /\ pc = "report" /\ ~Plain /\ (mode.clientOK \/ mode.auto)
    /\ IF lastErr = Canceled \/ gone
       THEN reply' = "silent" /\ UNCHANGED told
       ELSE reply' = "error" /\ told' = told + 1
    /\ pc' = "done"
    /\ UNCHANGED <<guard, request, history, committed, stream, ctxDone, failure, trace, gone>>

(* An error that is returned is sent by the handler, although a stream     *)
(* without a client, and a single model's context error outside a stream,  *)
(* have been sent before they are returned.                                *)
ReturnError ==
    /\ pc = "report" /\ (Plain \/ ~(mode.clientOK \/ mode.auto))
    /\ reply' = "error"
    /\ told' = IF ~Plain \/ (lastErr.tooLong /\ ~mode.auto) THEN told + 2 ELSE told + 1
    /\ pc' = "done"
    /\ UNCHANGED <<guard, request, history, committed, stream, ctxDone, failure, trace, gone>>

-----------------------------------------------------------------------------
(* One call: ChatLLMWithMessagesStreamRaw and its callbacks, or            *)
(* ChatLLMWithMessagesRaw, which reads in pieces what is no stream.        *)

(* Mutant: the cancelled context is looked at before the timer. *)
ErrorOfContext(otherwise) ==
    IF ctxDone THEN Canceled
    ELSE IF verdict[call] # "none" THEN IdleTimeoutError ELSE otherwise

(* How the client names the end of a call whose context may be done. *)
ErrorOf(otherwise) ==
    IF verdict[call] # "none" THEN IdleTimeoutError
    ELSE IF ctxDone THEN Canceled ELSE otherwise

(* The error of the attempt in progress. *)
LastErr(e) == lastErr' = e /\ errorOf' = Attempt

Fails(e) ==
    /\ LastErr(e)
    /\ pc' = "failing"

DoFails ==
    /\ pc = "do"
    /\ Fails(ErrorOf(ModelServiceUnavailable))
    /\ UNCHANGED <<guard, request, history, committed, stream, ctxDone, trace, reply, told, gone>>

DoReturns ==
    /\ pc = "do"
    /\ ~ctxDone
    /\ pc' = "headers"
    /\ UNCHANGED <<guard, request, history, committed, stream, ctxDone, failure, trace, reply, told, gone>>

(* idleTimer.Reset; l: the lines received so far.  A verdict that nobody   *)
(* read yet is lost, and the context stays cancelled.                      *)
ResetTimer(l) ==
    /\ Guard!Progress(call)
    /\ stream' = [stream EXCEPT !.lines = l, !.armed = TRUE]
    /\ starved' = (starved \/ verdict[call] # "none")
    /\ UNCHANGED <<tokensFrom, late>>

(* The headers reset the timer, whatever the status is. *)
Headers ==
    /\ pc = "headers"
    /\ ResetTimer(0)
    /\ \/ pc' = "reading" /\ UNCHANGED failure
       \/ \E status \in Statuses, body \in Bodies : Fails(UpstreamError(status, body))
    /\ UNCHANGED <<request, committed, ctxDone, trace, reply, told, gone>>

(* A line that was received before the context ended may still be read. *)
ReadLine ==
    /\ pc = "reading"
    /\ stream.lines < MaxLines
    /\ ResetTimer(stream.lines + 1)
    /\ pc' = "line"
    /\ UNCHANGED <<request, committed, ctxDone, failure, trace, reply, told, gone>>

(* A write fails only if the client is gone; the callback's error ends the *)
(* call.  from: the attempt whose tokens the line carries.                 *)
Written(from) ==
    /\ \/ /\ pc' = "reading" /\ reply' = "partial"
          /\ tokensFrom' = tokensFrom \union from
          /\ UNCHANGED failure
       \/ gone /\ Fails(OtherError) /\ UNCHANGED <<reply, tokensFrom>>
    /\ UNCHANGED <<told, late, starved>>

(* A piece of a reply that is no stream is kept until all have come.       *)
Piece ==
    /\ pc = "line" /\ Plain
    /\ pc' = "reading"
    /\ UNCHANGED <<guard, request, history, committed, stream, ctxDone, failure, trace, reply, told, gone>>

(* Raw mode: every line is sent and commits the reply.  has: it carries    *)
(* data other than [DONE].                                                 *)
RawLine(has) ==
    /\ pc = "line" /\ mode.kind = "raw"
    /\ stream' = [stream EXCEPT !.firstToken = TRUE, !.substance = @ \/ has]
    /\ committed' = TRUE
    /\ Written({Attempt})
    /\ UNCHANGED <<guard, request, ctxDone, trace, gone>>

(* Windowed mode, a line without content (role, usage, comment): sent as   *)
(* it is, and nothing is marked.                                           *)
MetaLine ==
    /\ pc = "line" /\ mode.kind = "window"
    /\ Written({})
    /\ UNCHANGED <<guard, request, committed, stream, ctxDone, trace, gone>>

(* [DONE] only joins the window. *)
DoneLine ==
    /\ pc = "line" /\ mode.kind = "window"
    /\ pc' = "reading"
    /\ UNCHANGED <<guard, request, history, committed, stream, ctxDone, failure, trace, reply, told, gone>>

(* A token: it commits the reply before anything is sent, and may complete *)
(* the name of a tool.  blank: it is only line ends.                       *)
Token(blank, tool) ==
    /\ pc = "line" /\ mode.kind = "window"
    /\ tool => depth > 0
    /\ stream' = [stream EXCEPT !.firstToken = TRUE,
                                !.substance = @ \/ ~blank,
                                !.tool = @ \/ tool]
    /\ committed' = TRUE
    /\ Written({Attempt})
    /\ UNCHANGED <<guard, request, ctxDone, trace, gone>>

ReadFails ==
    /\ pc = "reading"
    /\ Fails(ErrorOf(IF Plain THEN OtherError ELSE NetworkError))
    /\ UNCHANGED <<guard, request, history, committed, stream, ctxDone, trace, reply, told, gone>>

(* The reply ends.  Raw mode fails the attempt when nothing of substance   *)
(* came; outside a stream the reply may be no JSON.                        *)
StreamEnds ==
    /\ pc = "reading"
    /\ \/ mode.kind = "raw" /\ ~stream.substance /\ Fails(InvalidResponseContent)
       \/ Plain /\ Fails(OtherError)
       \/ /\ mode.kind = "raw" => stream.substance
          /\ pc' = "finished" /\ UNCHANGED failure
    /\ UNCHANGED <<guard, request, history, committed, stream, ctxDone, trace, reply, told, gone>>

(* The deferred Stop and cancel of the call, on each way out. *)
CloseCall ==
    /\ Guard!Close(call)
    /\ ctxDone' = TRUE

(* Mutant: the timer is stopped on the good way out only. *)
EndFailedOpen ==
    /\ pc = "failing"
    /\ pc' = "failed"
    /\ UNCHANGED <<guard, request, history, committed, stream, ctxDone, failure, trace, reply, told, gone>>

EndFailed ==
    /\ pc = "failing"
    /\ CloseCall
    /\ pc' = "failed"
    /\ UNCHANGED <<request, history, committed, stream, failure, trace, reply, told, gone>>

(* completeStreamResponse: an answer without substance is reported to the  *)
(* client, and the attempt succeeds all the same.                          *)
EndSucceeded ==
    /\ pc = "finished"
    /\ ~stream.tool
    /\ CloseCall
    /\ \/ /\ IF stream.substance \/ Plain
             THEN reply' = "complete" /\ UNCHANGED told
             ELSE reply' = "empty" /\ told' = told + 1
          /\ trace' = Append1(trace, Event("model_succeeded", Attempt))
          /\ pc' = "done"
          /\ UNCHANGED failure
       \/ /\ gone /\ mode.kind = "window" /\ stream.substance
          /\ LastErr(OtherError)
          /\ pc' = "failed"
          /\ UNCHANGED <<reply, told, trace>>
    /\ UNCHANGED <<request, history, committed, stream, gone>>

(* handleToolExecution: progress goes to the client, and the result of the *)
(* tool to the same model in a further call, also when the tool failed.    *)
EndWithTool ==
    /\ pc = "finished"
    /\ stream.tool
    /\ CloseCall
    /\ \/ pc' = "tool" /\ UNCHANGED failure
       \/ gone /\ LastErr(OtherError) /\ pc' = "failed"
    /\ UNCHANGED <<request, history, committed, stream, trace, reply, told, gone>>

ToolRound ==
    /\ pc = "tool"
    /\ OpenCall
    /\ depth' = depth - 1
    /\ UNCHANGED <<mode, modelIndex, tries, tokensFrom, late, committed, failure, trace, reply, told, gone>>

-----------------------------------------------------------------------------
(* The idle timer of the call, and the client.                             *)

(* Mutant: an expiry is only ever logged. *)
IdleLogged ==
    /\ pc \in {"do", "headers", "reading", "line", "failing", "finished"}
    /\ stream.armed
    /\ stream' = [stream EXCEPT !.armed = FALSE]
    /\ Guard!LogIdle(call)
    /\ UNCHANGED <<request, history, pc, committed, ctxDone, failure, trace, reply, told, gone>>

(* Before the first token an expiry cancels the call, after it it is only  *)
(* logged.                                                                 *)
IdleExpires ==
    /\ pc \in {"do", "headers", "reading", "line", "failing", "finished"}
    /\ stream.armed
    /\ stream' = [stream EXCEPT !.armed = FALSE]
    /\ IF stream.firstToken
       THEN Guard!LogIdle(call) /\ UNCHANGED ctxDone
       ELSE Guard!Abort(call) /\ ctxDone' = TRUE
    /\ UNCHANGED <<request, history, pc, committed, failure, trace, reply, told, gone>>

ClientLeaves ==
    /\ pc # "done" /\ ~gone
    /\ gone' = TRUE
    /\ ctxDone' = TRUE
    /\ UNCHANGED <<guard, request, history, pc, committed, stream, failure, trace, reply, told>>

-----------------------------------------------------------------------------
Loops ==
    \/ NewLLMClient \/ StartAttempt \/ StopCommitted \/ ScheduleRetry \/ GiveUpModel
    \/ WakeUp \/ SwitchModel \/ StopDegradation \/ HandleStreamError \/ ReturnError

Callback ==
    \/ \E has \in BOOLEAN : RawLine(has)
    \/ MetaLine \/ DoneLine \/ Piece
    \/ \E blank, tool \in BOOLEAN : Token(blank, tool)

EndCall == EndFailed \/ EndSucceeded \/ EndWithTool \/ ToolRound

Upstream == DoFails \/ DoReturns \/ Headers \/ ReadLine \/ ReadFails \/ StreamEnds

Next == Loops \/ Callback \/ EndCall \/ Upstream \/ IdleExpires \/ ClientLeaves

Spec == Init /\ [][Next]_vars

(***************************************************************************)
(* The goroutine of the request runs on, and a cancelled context wakes it  *)
(* from the network; the idle timer of a silent call expires.  Nothing     *)
(* obliges the upstream to answer or the client to leave.                  *)
(***************************************************************************)
Fairness ==
    /\ WF_vars(Loops \/ Callback \/ EndCall \/ Headers)
    /\ WF_vars(ctxDone /\ (DoFails \/ ReadFails))
    /\ WF_vars(IdleExpires)

FairSpec == Spec /\ Fairness
-----------------------------------------------------------------------------
(* Properties.                                                             *)

InCall == pc \in {"do", "headers", "reading", "line", "failing", "finished"}

(* What the trace tells.                                                   *)
IsStart(e) == e.event = "attempt_started"
IsOutcome(e) ==
    \/ e.event \in {"attempt_failed", "model_succeeded"}
    \/ e.event = "degradation_stopped" /\ e.attempt[2] > 0

IsWhole(t) == \A i \in DOMAIN t : t[i].event # "trace_truncated"

(* The variables keep the types of their declarations, the timer of a call *)
(* is open exactly while the call runs, and the trace keeps its limit.     *)
TypeOK ==
    /\ pc \in PCs
    /\ modelIndex \in 1..LastModel
    /\ depth \in 0..MaxToolDepth
    /\ {committed, ctxDone, gone, starved} \subseteq BOOLEAN
    /\ stream.lines \in 0..MaxLines
    /\ reply \in Replies
    /\ budget \in 0..InitialBudget
    /\ call \in 0..MaxCalls
    /\ InCall <=> (call > 0 /\ phase[call] = "open")
    /\ Len(trace) <= MaxTraceEvents

(* The comment in ChatCompletionStream: a model is only switched, or tried *)
(* again, before the first token.  Tokens that the client has all come     *)
(* from one attempt, and no attempt is started after it.                   *)
TokensFromOneAttempt == tokensFrom \subseteq {Attempt}

(* README: maxRetryCount 1 means 2 attempts in total.  No model gets more, *)
(* and automatic mode never comes back to a model that it left: attempts   *)
(* are started in order, and none twice.                                   *)
GoesAhead(p, q) == p[1] < q[1] \/ (p[1] = q[1] /\ p[2] < q[2])

AttemptsInOrder ==
    /\ tries <= MaxRetryCount + 1
    /\ \A i, j \in DOMAIN trace :
          i < j /\ IsStart(trace[i]) /\ IsStart(trace[j])
          => GoesAhead(trace[i].attempt, trace[j].attempt)

(* What a trace t tells while the attempts in open are in progress: every  *)
(* attempt that was started has one outcome, later in the trace, but for   *)
(* the open ones, which were started and have none yet; and there is no    *)
(* outcome of an attempt that was not started.                             *)
Tells(t, open) ==
    /\ \A j \in DOMAIN t : IsOutcome(t[j]) =>
          \E i \in DOMAIN t : i < j /\ IsStart(t[i]) /\ t[i].attempt = t[j].attempt
    /\ \A i, j \in DOMAIN t :
          IsOutcome(t[i]) /\ IsOutcome(t[j]) /\ t[i].attempt = t[j].attempt => i = j
    /\ \A i \in DOMAIN t : IsStart(t[i]) =>
          \/ \E j \in DOMAIN t : IsOutcome(t[j]) /\ t[j].attempt = t[i].attempt
          \/ t[i].attempt \in open
    /\ \A a \in open :
          /\ \E i \in DOMAIN t : IsStart(t[i]) /\ t[i].attempt = a
          /\ \A j \in DOMAIN t : IsOutcome(t[j]) => t[j].attempt # a

InProgress == IF InCall \/ pc \in {"tool", "failed"} THEN {Attempt} ELSE {}

(* The degradation trace, as long as it is not truncated, tells what       *)
(* happened, of every attempt and of the one that is in progress.          *)
TraceTellsOutcomes == mode.auto /\ IsWhole(trace) => Tells(trace, InProgress)

(* Requests without automatic mode whose error is sent twice: the client   *)
(* that cannot be made, in a stream, and the context that is too long,     *)
(* outside a stream.                                                       *)
SentTwice == ~mode.auto /\ IF Plain THEN lastErr.tooLong ELSE ~mode.clientOK

(* How a request ends: with an answer, with the event of an empty answer,  *)
(* with an error, or in silence, and with nothing else.                    *)
(* - An answer comes alone; one that was streamed has tokens, which are    *)
(*   those of the last attempt.                                            *)
(* - An error is that of the last attempt, never one that an earlier       *)
(*   attempt left behind, and is told once, or twice as above.  Behind a   *)
(*   part of an answer it is the error of the attempt that sent the part.  *)
(* - Silence only follows a failed last attempt, when the client left, or  *)
(*   when a call of a stream was cancelled without a verdict: it was       *)
(*   opened on an empty budget, or the verdict was wiped by a late line.   *)
EndExplained ==
    pc = "done" =>
    /\ reply \in {"complete", "empty", "error", "silent"}
    /\ reply = "complete" =>
          /\ told = 0
          /\ ~Plain => stream.substance /\ tokensFrom = {Attempt}
    /\ reply = "empty" => told = 1 /\ ~Plain /\ ~stream.substance
    /\ reply = "error" =>
          /\ told = IF SentTwice THEN 2 ELSE 1
          /\ SentTwice => tokensFrom = {}
    /\ reply = "silent" => told = 0 /\ ~Plain /\ (gone \/ starved)
    /\ reply \in {"error", "silent"} =>
          /\ errorOf = Attempt /\ lastErr # NoError
          /\ tokensFrom \subseteq {errorOf}

(* Work for a client that left stops soon: at most one further attempt is  *)
(* started, the one that was asleep or between two models.                 *)
OneLateAttempt == late <= 1

(* README: timeouts are retried, maxRetryCount times.  A first model that  *)
(* is given up on a timeout has had all its attempts, if the budget of the *)
(* request has room for the timeouts before them and for the last wait.    *)
BudgetForRetries == InitialBudget >= MaxRetryCount * PerIdle + RetryInterval

TimeoutsAreRetried ==
    /\ BudgetForRetries
    /\ pc \in {"switch", "report"} /\ modelIndex = 1
    /\ lastErr = IdleTimeoutError /\ ~committed /\ ~gone
    => tries = MaxRetryCount + 1

(* The request is not held for ever by a silent upstream: it ends, or it   *)
(* waits for the rest of a stream that has begun, which the code wants.    *)
RequestEnds == <>[](pc = "done" \/ (pc = "reading" /\ stream.firstToken))

(* README: the fallback model is used when all candidates fail.  The last  *)
(* model of the list, once it is its turn, is really called: its call does *)
(* not start on a cancelled context.                                       *)
FallbackIsCalled ==
    mode.auto /\ pc = "do" /\ modelIndex = NumModels /\ ~gone
    => stream.armed \/ verdict[call] # "none"
=============================================================================
