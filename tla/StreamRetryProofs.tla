-------------------------- MODULE StreamRetryProofs --------------------------
(***************************************************************************)
(* Theorems about StreamRetry, for any number of models, retries, tool     *)
(* rounds and lines, any budget and any statuses.                          *)
(*                                                                         *)
(* The invariant IInv has a part for each question: the types, the guard,  *)
(* the room for calls, what commits an attempt, what a client that left    *)
(* still costs, and what may be told at the end.  TInv adds what the trace *)
(* tells, BInv what the attempts have taken from the budget.               *)
(***************************************************************************)
EXTENDS StreamRetry, TLAPS

EventNames ==
    {"degradation_started", "attempt_started", "attempt_failed", "retry_scheduled",
     "retry_skipped_insufficient_budget", "model_switch", "model_succeeded",
     "degradation_stopped", "trace_truncated"}
EventType == [event : EventNames, attempt : Int \X Int]

StreamType ==
    [lines : 0..MaxLines, armed : BOOLEAN, firstToken : BOOLEAN, substance : BOOLEAN, tool : BOOLEAN]

Control ==
    /\ mode \in [auto : BOOLEAN, kind : Kinds, clientOK : BOOLEAN]
    /\ pc \in PCs
    /\ modelIndex \in 1..LastModel
    /\ tries \in 0..(MaxRetryCount + 1)
    /\ depth \in 0..MaxToolDepth
    /\ committed \in BOOLEAN /\ ctxDone \in BOOLEAN /\ gone \in BOOLEAN /\ starved \in BOOLEAN
    /\ reply \in Replies
    /\ told \in Nat
    /\ late \in Nat

Streamed == stream \in StreamType

Traced == trace \in Seq(EventType) /\ Len(trace) <= MaxTraceEvents

(* The guard: a call is open exactly while the request is in it. *)
Guarded ==
    /\ budget \in 0..InitialBudget
    /\ call \in 0..MaxCalls
    /\ phase \in [1..MaxCalls -> {"new", "open", "stopped"}]
    /\ verdict \in [1..MaxCalls -> {"none", "per_idle", "total"}]
    /\ InCall <=> (call > 0 /\ phase[call] = "open")

(* The attempts that the models before the m-th may have had. *)
Before(m) == (m - 1) * (MaxRetryCount + 1)

(* How many calls were made, and why there is always room for the next.    *)
Counted ==
    /\ call <= Before(modelIndex) + (IF pc = "model" THEN 0 ELSE tries) + (MaxToolDepth - depth)
    /\ pc \in {"attempt", "sleep"} => tries <= MaxRetryCount
    /\ stream.tool \/ pc = "tool" => depth > 0

(* Once something of an answer has gone out, or a tool has been used, the  *)
(* attempt is committed; a committed attempt is the last.                  *)
Committed ==
    /\ tokensFrom # {} \/ stream.tool \/ pc = "tool" \/ depth < MaxToolDepth => committed
    /\ committed => pc \notin {"model", "attempt", "sleep", "switch"}
    /\ tokensFrom \subseteq {Attempt}

(* After the attempt that was started too late there is none. *)
LateOnce ==
    /\ late <= 1
    /\ late > 0 => gone /\ pc \notin {"model", "attempt", "sleep"}

(* Why a context may be done, whose error a failed request carries, where  *)
(* substance comes from, and what has been told before the end.            *)
Explained ==
    /\ InCall /\ ctxDone /\ verdict[call] = "none" => gone \/ starved
    /\ lastErr = Canceled => gone \/ starved
    /\ pc \in {"failing", "failed", "switch", "report"} => errorOf = Attempt /\ lastErr # NoError
    /\ stream.substance /\ pc \in {"do", "headers", "reading", "line", "finished"} => tokensFrom # {}
    /\ pc # "done" => told = 0 /\ reply \in {"none", "partial"}
    /\ Plain => tokensFrom = {}
    /\ ~mode.clientOK => tokensFrom = {} /\ pc \in {"model", "switch", "report", "done"}
    /\ EndExplained

IInv == Control /\ Streamed /\ Traced /\ Guarded /\ Counted /\ Committed /\ LateOnce /\ Explained

-----------------------------------------------------------------------------
(* The room for calls. *)

LEMMA BeforeNext ==
    ASSUME NEW m \in Nat
    PROVE  /\ Before(m) \in Int
           /\ Before(m + 1) = Before(m) + MaxRetryCount + 1
<1>1. MaxRetryCount \in Nat
  BY StreamAssumption
<1>2. (m + 1 - 1) * (MaxRetryCount + 1) = (m - 1) * (MaxRetryCount + 1) + (MaxRetryCount + 1)
  BY <1>1
<1> QED
  BY <1>1, <1>2 DEF Before

LEMMA Room ==
    ASSUME NEW m \in 1..NumModels
    PROVE  /\ MaxCalls \in Nat
           /\ Before(m) \in Nat
           /\ Before(m) + MaxRetryCount + 1 + MaxToolDepth <= MaxCalls
<1>1. MaxRetryCount \in Nat /\ NumModels \in Nat /\ MaxToolDepth \in Nat
  BY StreamAssumption
<1>2. (m - 1) * (MaxRetryCount + 1) \in Nat /\ m * (MaxRetryCount + 1) <= NumModels * (MaxRetryCount + 1)
  BY <1>1
<1>3. m * (MaxRetryCount + 1) = (m - 1) * (MaxRetryCount + 1) + (MaxRetryCount + 1)
  BY <1>1
<1> QED
  BY <1>1, <1>2, <1>3 DEF Before, MaxCalls

LEMMA ModelInRange == ASSUME Control PROVE modelIndex \in 1..NumModels
  BY StreamAssumption DEF Control, LastModel

LEMMA FreshTyped == FreshStream \in StreamType
<1>1. 0 \in 0..MaxLines /\ (budget > 0) \in BOOLEAN
  BY StreamAssumption
<1> QED
  BY <1>1 DEF FreshStream, StreamType

(* The trace. *)

LEMMA EventTyped ==
    ASSUME NEW name \in EventNames, NEW m \in Int, NEW t \in Int
    PROVE  Event(name, <<m, t>>) \in EventType
  BY DEF Event, EventType

LEMMA Append1Typed ==
    ASSUME NEW t \in Seq(EventType), Len(t) <= MaxTraceEvents, NEW e \in EventType
    PROVE  Append1(t, e) \in Seq(EventType) /\ Len(Append1(t, e)) <= MaxTraceEvents
<1>1. MaxTraceEvents \in Nat
  BY StreamAssumption
<1>2. Truncated \in EventType
  BY EventTyped DEF Truncated, EventNames
<1>3. \A d \in EventType : Append(t, d) \in Seq(EventType) /\ Len(Append(t, d)) = Len(t) + 1
  OBVIOUS
<1> QED
  BY <1>1, <1>2, <1>3 DEF Append1

LEMMA Append2Typed ==
    ASSUME NEW t \in Seq(EventType), Len(t) <= MaxTraceEvents, NEW d \in EventType, NEW e \in EventType
    PROVE  Append2(t, d, e) \in Seq(EventType) /\ Len(Append2(t, d, e)) <= MaxTraceEvents
  BY Append1Typed DEF Append2

(* The errors. *)

LEMMA ErrorsApart ==
    /\ Canceled \notin {NoError, OtherError, IdleTimeoutError, ModelServiceUnavailable,
                        NetworkError, InvalidResponseContent}
    /\ NoError \notin {Canceled, OtherError, IdleTimeoutError, ModelServiceUnavailable,
                       NetworkError, InvalidResponseContent}
    /\ \A status \in Statuses, body \in Bodies : UpstreamError(status, body) \notin {Canceled, NoError}
<1>1. Canceled.kind = "canceled"
  BY DEF Canceled, PlainError
<1>2. /\ NoError.kind = "none" /\ OtherError.kind = "other" /\ IdleTimeoutError.kind = "idle"
      /\ ModelServiceUnavailable.kind = "api" /\ NetworkError.kind = "api"
      /\ InvalidResponseContent.kind = "api"
  BY DEF NoError, OtherError, IdleTimeoutError, ModelServiceUnavailable, NetworkError,
         InvalidResponseContent, PlainError, ApiError
<1>3. ASSUME NEW status \in Statuses, NEW body \in Bodies
      PROVE  UpstreamError(status, body).kind = "api"
  BY DEF UpstreamError, HTTPStatusError, ApiError
<1> QED
  BY <1>1, <1>2, <1>3

LEMMA CanceledExplained ==
    ASSUME IInv, InCall, NEW e, e # Canceled, ErrorOf(e) = Canceled
    PROVE  gone \/ starved
  BY ErrorsApart DEF IInv, Explained, ErrorOf

LEMMA ErrorOfIsError == ASSUME NEW e, e # NoError PROVE ErrorOf(e) # NoError
  BY ErrorsApart DEF ErrorOf

(* A client that left is worth neither a retry nor another model. *)

LEMMA NothingForNobody ==
    ASSUME NEW e, gone PROVE ~Retryable(e, gone) /\ ~Switchable(e, gone)
  BY DEF Retryable, Switchable

-----------------------------------------------------------------------------
LEMMA InitIInv == Init => IInv
<1> SUFFICES ASSUME Init PROVE IInv
  OBVIOUS
<1> USE StreamAssumption DEF Init
<1>1. Control
  <2>1. LastModel \in Nat \ {0}
    BY DEF LastModel
  <2>2. /\ modelIndex \in 1..LastModel
        /\ tries \in 0..(MaxRetryCount + 1) /\ depth \in 0..MaxToolDepth
    BY <2>1
  <2> QED
    BY <2>2 DEF Control, PCs, Replies
<1>2. Streamed
  BY FreshTyped DEF Streamed
<1>3. Traced
  <2>1. <<>> \in Seq(EventType) /\ Len(<<>>) <= MaxTraceEvents
    OBVIOUS
  <2>2. Event("degradation_started", <<1, 0>>) \in EventType
    BY EventTyped DEF EventNames
  <2> QED
    BY <2>1, <2>2, Append1Typed DEF Traced
<1>4. MaxCalls \in Nat /\ Before(1) = 0
  BY ModelInRange, <1>1, Room DEF Before
<1>5. Guarded
  <2>1. /\ budget = InitialBudget /\ call = 0
        /\ phase = [a \in 1..MaxCalls |-> "new"] /\ verdict = [a \in 1..MaxCalls |-> "none"]
    BY DEF Guard!GInit, Guard!Attempts
  <2>2. ~InCall
    BY DEF InCall
  <2> QED
    BY <1>4, <2>1, <2>2 DEF Guarded
<1>6. Counted
  BY <1>4 DEF Counted, FreshStream, Guard!GInit
<1>7. Committed /\ LateOnce
  BY DEF Committed, LateOnce, FreshStream
<1>8. Explained
  BY ErrorsApart DEF Explained, EndExplained, SentTwice, Attempt, InCall
<1> QED
  BY <1>1, <1>2, <1>3, <1>5, <1>6, <1>7, <1>8 DEF IInv

LEMMA NextIInv == IInv /\ [Next]_vars => IInv'
<1> SUFFICES ASSUME IInv, [Next]_vars PROVE IInv'
  OBVIOUS
<1> USE StreamAssumption DEF guard, request, history, failure
<1>m. modelIndex \in 1..NumModels
  BY ModelInRange DEF IInv
<1>t. /\ modelIndex \in Int /\ tries \in Int
      /\ \A n \in EventNames : Event(n, Attempt) \in EventType
  BY <1>m, EventTyped DEF IInv, Control, Attempt
<1>r. /\ MaxCalls \in Nat /\ Before(modelIndex) \in Nat
      /\ Before(modelIndex) + MaxRetryCount + 1 + MaxToolDepth <= MaxCalls
      /\ Before(modelIndex + 1) = Before(modelIndex) + MaxRetryCount + 1
  BY <1>m, Room, BeforeNext
<1>n. /\ MaxRetryCount \in Nat /\ MaxToolDepth \in Nat
      /\ call \in Nat /\ tries \in Nat /\ depth \in Nat
  BY DEF IInv, Control, Guarded
<1>b. /\ (gone \/ budget = 0) \in BOOLEAN /\ (starved \/ budget = 0) \in BOOLEAN
      /\ Guard!Charged \in 0..InitialBudget
  BY DEF IInv, Guarded, Guard!Charged
<1>1. CASE NewLLMClient
  <2>1. Control'
    BY <1>1 DEF IInv, Control, PCs, Replies, LastModel, NewLLMClient
  <2>2. Streamed' /\ Traced' /\ Guarded'
    BY <1>1 DEF IInv, Streamed, Traced, Guarded, InCall, NewLLMClient
  <2>3. Counted'
    <3>1. call <= Before(modelIndex) + (MaxToolDepth - depth)
      BY <1>1, <1>n, <1>r DEF NewLLMClient, IInv, Counted
    <3>2. /\ UNCHANGED <<call, depth, stream>> /\ tries' = 0 /\ pc' # "tool" /\ pc' # "sleep"
          /\ modelIndex' = modelIndex \/ modelIndex' = modelIndex + 1
      BY <1>1 DEF NewLLMClient
    <3>3. call' <= Before(modelIndex') + (IF pc' = "model" THEN 0 ELSE tries') + (MaxToolDepth - depth')
      BY <3>1, <3>2, <1>n, <1>r, <1>m DEF Before
    <3> QED
      BY <3>2, <3>3, <1>n DEF IInv, Counted
  <2>4. Committed' /\ LateOnce'
    BY <1>1 DEF IInv, Control, Counted, Committed, Attempt, LateOnce, NewLLMClient
  <2>5. Explained'
    <3>1. /\ UNCHANGED <<guard, history, mode, committed, stream, ctxDone, reply, told, gone>>
          /\ pc = "model" /\ pc' \in {"model", "attempt", "switch", "report"}
          /\ lastErr' = lastErr \/ lastErr' = OtherError
      BY <1>1 DEF NewLLMClient
    <3>2. ASSUME pc' \in {"switch", "report"} PROVE errorOf' = Attempt' /\ lastErr' # NoError
      <4>1. /\ lastErr' = OtherError /\ errorOf' = <<modelIndex, 0>>
            /\ tries' = 0 /\ UNCHANGED modelIndex /\ ~mode.clientOK
        BY <1>1, <3>2 DEF NewLLMClient
      <4> QED
        BY <4>1, ErrorsApart DEF Attempt
    <3>3. mode'.clientOK \/ pc' # "attempt"
      BY <1>1 DEF NewLLMClient
    <3> QED
      BY <3>1, <3>2, <3>3, ErrorsApart DEF IInv, Explained, EndExplained, InCall, Plain
  <2> QED
    BY <2>1, <2>2, <2>3, <2>4, <2>5 DEF IInv
<1>2. CASE StartAttempt
  <2>0. tries <= MaxRetryCount /\ depth = MaxToolDepth /\ call <= Before(modelIndex) + tries
    <3>1. pc = "attempt" /\ tries <= MaxRetryCount
      BY <1>2 DEF StartAttempt, IInv, Counted
    <3>2. depth = MaxToolDepth
      BY <3>1, <1>n DEF IInv, Committed, Control
    <3> QED
      BY <3>1, <3>2, <1>n, <1>r DEF IInv, Counted
  <2>1. Control'
    <3>1. /\ tries' \in 0..(MaxRetryCount + 1) /\ depth' \in 0..MaxToolDepth /\ late' \in Nat
      BY <1>2, <1>n, <2>0 DEF StartAttempt, IInv, Control
    <3>2. /\ ctxDone' \in BOOLEAN /\ starved' \in BOOLEAN /\ committed' \in BOOLEAN /\ pc' \in PCs
      BY <1>2, <1>b DEF StartAttempt, OpenCall, PCs
    <3>3. UNCHANGED <<mode, modelIndex, gone, reply, told>>
      BY <1>2 DEF StartAttempt
    <3> QED
      BY <3>1, <3>2, <3>3 DEF IInv, Control, LastModel
  <2>2. Streamed'
    BY <1>2, FreshTyped DEF IInv, Streamed, StartAttempt, OpenCall, Guard!Open
  <2>3. Traced'
    BY <1>2, <1>t, Append1Typed, <1>m, EventTyped DEF IInv, Traced, EventNames, Control,
       StartAttempt, OpenCall, Guard!Open
  <2>4. Guarded'
    <3>1. call + 1 \in 1..MaxCalls
      BY <1>n, <1>r, <2>0
    <3> QED
      BY <1>2, <3>1 DEF StartAttempt, OpenCall, Guard!Open, IInv, Guarded, InCall
  <2>5. Counted'
    BY <1>2, <1>n, <1>r, <2>0 DEF Counted, FreshStream, StartAttempt, OpenCall,
       Guard!Open, Before
  <2>6. Committed' /\ LateOnce'
    BY <1>2 DEF IInv, Control, Counted, Committed, Attempt, FreshStream, LateOnce,
       StartAttempt, OpenCall, Guard!Open
  <2>7. Explained'
    BY <1>2, ErrorsApart DEF IInv, Control, Guarded, Explained, EndExplained, SentTwice,
       Attempt, InCall, Plain, FreshStream, StartAttempt, OpenCall, Guard!Open
  <2> QED
    BY <2>1, <2>2, <2>3, <2>4, <2>5, <2>6, <2>7 DEF IInv
<1>3. CASE StopCommitted
  <2>1. Control'
    BY <1>3 DEF IInv, Control, PCs, Replies, LastModel, StopCommitted
  <2>2. Streamed' /\ Guarded'
    BY <1>3 DEF IInv, Streamed, Guarded, InCall, StopCommitted
  <2>3. Traced'
    BY <1>3, <1>t, Append1Typed DEF IInv, Traced, EventNames, StopCommitted
  <2>4. Counted' /\ Committed' /\ LateOnce'
    BY <1>3, <1>m, <1>r DEF IInv, Control, Guarded, Counted, Committed, Attempt,
       LateOnce, StopCommitted
  <2>5. Explained'
    BY <1>3, ErrorsApart DEF IInv, Control, Guarded, Explained, EndExplained,
       SentTwice, Attempt, InCall, Plain, StopCommitted
  <2> QED
    BY <2>1, <2>2, <2>3, <2>4, <2>5 DEF IInv
<1>4. CASE ScheduleRetry
  <2>1. Control'
    BY <1>4 DEF IInv, Control, PCs, Replies, LastModel, ScheduleRetry
  <2>2. Streamed' /\ Guarded'
    BY <1>4 DEF IInv, Streamed, Guarded, InCall, ScheduleRetry
  <2>3. Traced'
    BY <1>4, <1>t, Append1Typed, Append2Typed DEF IInv, Traced, EventNames,
       AttemptFailed, ScheduleRetry
  <2>4. Counted' /\ Committed' /\ LateOnce'
    BY <1>4, NothingForNobody DEF IInv, Control, Guarded, Counted, WantsRetry,
       Committed, Attempt, LateOnce, ScheduleRetry
  <2>5. Explained'
    BY <1>4, ErrorsApart DEF IInv, Control, Guarded, Explained, EndExplained,
       SentTwice, Attempt, InCall, Plain, ScheduleRetry
  <2> QED
    BY <2>1, <2>2, <2>3, <2>4, <2>5 DEF IInv
<1>5. CASE GiveUpModel
  <2>1. Control'
    BY <1>5 DEF IInv, Control, PCs, Replies, LastModel, GiveUpModel
  <2>2. Streamed' /\ Guarded'
    BY <1>5 DEF IInv, Streamed, Guarded, InCall, GiveUpModel
  <2>3. Traced'
    BY <1>5, <1>t, Append1Typed, Append2Typed DEF IInv, Traced, EventNames,
       AttemptFailed, GiveUpModel
  <2>4. Counted' /\ Committed' /\ LateOnce'
    BY <1>5, <1>m, <1>r DEF IInv, Control, Guarded, Counted, Committed, Attempt,
       LateOnce, GiveUpModel
  <2>5. Explained'
    BY <1>5, ErrorsApart DEF IInv, Control, Guarded, Explained, EndExplained,
       SentTwice, Attempt, InCall, Plain, GiveUpModel
  <2> QED
    BY <2>1, <2>2, <2>3, <2>4, <2>5 DEF IInv
<1>6. CASE WakeUp
  <2>1. Control'
    BY <1>6 DEF IInv, Control, PCs, Replies, LastModel, WakeUp
  <2>2. Streamed' /\ Traced' /\ Guarded'
    BY <1>6 DEF IInv, Streamed, Traced, Guarded, InCall, WakeUp
  <2>3. Counted' /\ Committed' /\ LateOnce'
    BY <1>6, <1>m, <1>r DEF IInv, Control, Guarded, Counted, Committed, Attempt,
       LateOnce, WakeUp
  <2>4. Explained'
    BY <1>6, ErrorsApart DEF IInv, Control, Guarded, Explained, EndExplained,
       SentTwice, Attempt, InCall, Plain, WakeUp
  <2> QED
    BY <2>1, <2>2, <2>3, <2>4 DEF IInv
<1>7. CASE SwitchModel
  <2>1. Control'
    BY <1>7 DEF IInv, Control, PCs, Replies, LastModel, SwitchModel
  <2>2. Streamed' /\ Guarded'
    BY <1>7 DEF IInv, Streamed, Guarded, InCall, SwitchModel
  <2>3. Traced'
    <3>1. CASE UNCHANGED trace
      BY <3>1 DEF IInv, Traced
    <3>2. CASE trace' = Append1(trace, Event("model_switch", <<modelIndex + 1, 0>>))
      <4>1. Event("model_switch", <<modelIndex + 1, 0>>) \in EventType
        BY <1>m, EventTyped DEF EventNames
      <4> QED
        BY <3>2, <4>1, Append1Typed DEF IInv, Traced
    <3> QED
      BY <1>7, <3>1, <3>2 DEF SwitchModel
  <2>4. Counted'
    <3>1. /\ call <= Before(modelIndex) + MaxRetryCount + 1 + (MaxToolDepth - depth)
          /\ call <= Before(modelIndex) + tries + (MaxToolDepth - depth)
      BY <1>7, <1>n, <1>r DEF SwitchModel, IInv, Control, Counted
    <3>2. /\ UNCHANGED <<call, depth, stream, tries>>
          /\ \/ pc' = "model" /\ modelIndex' = modelIndex + 1
             \/ pc' = "report" /\ modelIndex' = modelIndex
      BY <1>7 DEF SwitchModel
    <3>3. call' <= Before(modelIndex') + (IF pc' = "model" THEN 0 ELSE tries') + (MaxToolDepth - depth')
      BY <3>1, <3>2, <1>n, <1>r, <1>m DEF Before
    <3> QED
      BY <3>2, <3>3 DEF IInv, Counted
  <2>5. Committed' /\ LateOnce'
    BY <1>7, NothingForNobody DEF IInv, Control, Counted, Committed, Attempt, LateOnce,
       SwitchModel
  <2>6. Explained'
    BY <1>7, ErrorsApart DEF IInv, Control, Guarded, Explained, EndExplained,
       SentTwice, Attempt, InCall, Plain, SwitchModel
  <2> QED
    BY <2>1, <2>2, <2>3, <2>4, <2>5, <2>6 DEF IInv
<1>8. CASE StopDegradation
  <2>1. Control'
    BY <1>8 DEF IInv, Control, PCs, Replies, LastModel, StopDegradation
  <2>2. Streamed' /\ Guarded'
    BY <1>8 DEF IInv, Streamed, Guarded, InCall, StopDegradation
  <2>3. Traced'
    BY <1>8, <1>t, Append1Typed, <1>m, EventTyped DEF IInv, Traced, EventNames, Control,
       StopDegradation
  <2>4. Counted' /\ Committed' /\ LateOnce'
    BY <1>8, <1>m, <1>r DEF IInv, Control, Guarded, Counted, Committed, Attempt,
       LateOnce, StopDegradation
  <2>5. Explained'
    BY <1>8, ErrorsApart DEF IInv, Control, Guarded, Explained, EndExplained,
       SentTwice, Attempt, InCall, Plain, StopDegradation
  <2> QED
    BY <2>1, <2>2, <2>3, <2>4, <2>5 DEF IInv
<1>9. CASE HandleStreamError
  <2>1. Control'
    BY <1>9 DEF IInv, Control, PCs, Replies, LastModel, HandleStreamError
  <2>2. Streamed' /\ Traced' /\ Guarded'
    BY <1>9 DEF IInv, Streamed, Traced, Guarded, InCall, HandleStreamError
  <2>3. Counted' /\ Committed' /\ LateOnce'
    BY <1>9, <1>m, <1>r DEF IInv, Control, Guarded, Counted, Committed, Attempt,
       LateOnce, HandleStreamError
  <2>4. Explained'
    BY <1>9, ErrorsApart DEF IInv, Control, Guarded, Committed, Explained, EndExplained,
       SentTwice, Attempt, InCall, Plain, HandleStreamError
  <2> QED
    BY <2>1, <2>2, <2>3, <2>4 DEF IInv
<1>10. CASE ReturnError
  <2>1. Control'
    BY <1>10 DEF IInv, Control, PCs, Replies, LastModel, ReturnError
  <2>2. Streamed' /\ Traced' /\ Guarded'
    BY <1>10 DEF IInv, Streamed, Traced, Guarded, InCall, ReturnError
  <2>3. Counted' /\ Committed' /\ LateOnce'
    BY <1>10, <1>m, <1>r DEF IInv, Control, Guarded, Counted, Committed, Attempt,
       LateOnce, ReturnError
  <2>4. Explained'
    BY <1>10, ErrorsApart DEF IInv, Control, Guarded, Explained, EndExplained,
       SentTwice, Attempt, InCall, Plain, ReturnError
  <2> QED
    BY <2>1, <2>2, <2>3, <2>4 DEF IInv
<1>11. ASSUME NEW has \in BOOLEAN, RawLine(has) PROVE IInv'
  <2>1. Control'
    BY <1>11 DEF IInv, Control, PCs, Replies, LastModel, RawLine, Written, Fails
  <2>2. Traced' /\ Guarded'
    BY <1>11 DEF IInv, Traced, Guarded, InCall, RawLine, Written, Fails
  <2>3. Streamed'
    <3>1. \A a \in BOOLEAN : [stream EXCEPT !.firstToken = TRUE, !.substance = a] \in StreamType
      BY DEF IInv, Streamed, StreamType
    <3>2. (stream.substance \/ has) \in BOOLEAN
      BY DEF IInv, Streamed, StreamType
    <3> QED
      BY <1>11, <3>1, <3>2 DEF RawLine, Streamed
  <2>4. Counted'
    BY <1>11, <1>m, <1>r DEF IInv, Control, Guarded, Counted, Streamed, StreamType,
       RawLine, Written, Fails
  <2>5. Committed' /\ LateOnce'
    BY <1>11 DEF IInv, Control, Counted, Committed, Attempt, Streamed, StreamType,
       LateOnce, RawLine, Written, Fails
  <2>6. Explained'
    BY <1>11, ErrorsApart DEF IInv, Control, Guarded, Explained, EndExplained,
       SentTwice, Attempt, InCall, Plain, Committed, RawLine, Written, Fails, LastErr
  <2> QED
    BY <2>1, <2>2, <2>3, <2>4, <2>5, <2>6 DEF IInv
<1>12. CASE MetaLine
  <2>1. Control'
    BY <1>12 DEF IInv, Control, PCs, Replies, LastModel, MetaLine, Written, Fails
  <2>2. Streamed' /\ Traced' /\ Guarded'
    BY <1>12 DEF IInv, Streamed, Traced, Guarded, InCall, MetaLine, Written, Fails
  <2>3. Counted' /\ Committed' /\ LateOnce'
    BY <1>12, <1>m, <1>r DEF IInv, Control, Guarded, Counted, Committed, Attempt,
       LateOnce, MetaLine, Written, Fails
  <2>4. Explained'
    BY <1>12, ErrorsApart DEF IInv, Control, Guarded, Explained, EndExplained,
       SentTwice, Attempt, InCall, Plain, MetaLine, Written, Fails, LastErr
  <2> QED
    BY <2>1, <2>2, <2>3, <2>4 DEF IInv
<1>13. CASE DoneLine
  <2>1. Control'
    BY <1>13 DEF IInv, Control, PCs, Replies, LastModel, DoneLine
  <2>2. Streamed' /\ Traced' /\ Guarded'
    BY <1>13 DEF IInv, Streamed, Traced, Guarded, InCall, DoneLine
  <2>3. Counted' /\ Committed' /\ LateOnce'
    BY <1>13, <1>m, <1>r DEF IInv, Control, Guarded, Counted, Committed, Attempt,
       LateOnce, DoneLine
  <2>4. Explained'
    BY <1>13, ErrorsApart DEF IInv, Control, Guarded, Explained, EndExplained,
       SentTwice, Attempt, InCall, Plain, DoneLine
  <2> QED
    BY <2>1, <2>2, <2>3, <2>4 DEF IInv
<1>14. CASE Piece
  <2>1. Control'
    BY <1>14 DEF IInv, Control, PCs, Replies, LastModel, Piece
  <2>2. Streamed' /\ Traced' /\ Guarded'
    BY <1>14 DEF IInv, Streamed, Traced, Guarded, InCall, Piece
  <2>3. Counted' /\ Committed' /\ LateOnce'
    BY <1>14, <1>m, <1>r DEF IInv, Control, Guarded, Counted, Committed, Attempt,
       LateOnce, Piece
  <2>4. Explained'
    BY <1>14, ErrorsApart DEF IInv, Control, Guarded, Explained, EndExplained,
       SentTwice, Attempt, InCall, Plain, Piece
  <2> QED
    BY <2>1, <2>2, <2>3, <2>4 DEF IInv
<1>15. ASSUME NEW blank \in BOOLEAN, NEW tool \in BOOLEAN, Token(blank, tool) PROVE IInv'
  <2>1. Control'
    BY <1>15 DEF IInv, Control, PCs, Replies, LastModel, Token, Written, Fails
  <2>2. Traced' /\ Guarded'
    BY <1>15 DEF IInv, Traced, Guarded, InCall, Token, Written, Fails
  <2>3. Streamed'
    <3>1. \A a, b \in BOOLEAN :
             [stream EXCEPT !.firstToken = TRUE, !.substance = a, !.tool = b] \in StreamType
      BY DEF IInv, Streamed, StreamType
    <3>2. (stream.substance \/ ~blank) \in BOOLEAN /\ (stream.tool \/ tool) \in BOOLEAN
      BY DEF IInv, Streamed, StreamType
    <3> QED
      BY <1>15, <3>1, <3>2 DEF Token, Streamed
  <2>4. Counted'
    BY <1>15, <1>m, <1>r DEF IInv, Control, Guarded, Counted, Streamed, StreamType,
       Token, Written, Fails
  <2>5. Committed' /\ LateOnce'
    BY <1>15 DEF IInv, Control, Counted, Committed, Attempt, Streamed, StreamType,
       LateOnce, Token, Written, Fails
  <2>6. Explained'
    BY <1>15, ErrorsApart DEF IInv, Control, Guarded, Explained, EndExplained,
       SentTwice, Attempt, InCall, Plain, Committed, Token, Written, Fails, LastErr
  <2> QED
    BY <2>1, <2>2, <2>3, <2>4, <2>5, <2>6 DEF IInv
<1>16. CASE EndFailed
  <2>1. Control'
    BY <1>16 DEF IInv, Control, PCs, Replies, LastModel, EndFailed, CloseCall,
       Guard!Close
  <2>2. Streamed' /\ Traced'
    BY <1>16 DEF IInv, Streamed, Traced, EndFailed, CloseCall, Guard!Close
  <2>3. Guarded'
    BY <1>16 DEF IInv, Guarded, InCall, EndFailed, CloseCall, Guard!Close
  <2>4. Counted'
    BY <1>16, <1>m, <1>r DEF IInv, Control, Guarded, Counted, EndFailed, CloseCall,
       Guard!Close
  <2>5. Committed' /\ LateOnce'
    BY <1>16 DEF IInv, Control, Counted, Committed, Attempt, LateOnce, EndFailed,
       CloseCall, Guard!Close
  <2>6. Explained'
    BY <1>16, ErrorsApart DEF IInv, Control, Guarded, Explained, EndExplained,
       SentTwice, Attempt, InCall, Plain, EndFailed, CloseCall, Guard!Close
  <2> QED
    BY <2>1, <2>2, <2>3, <2>4, <2>5, <2>6 DEF IInv
<1>17. CASE EndSucceeded
  <2>1. Control'
    BY <1>17 DEF IInv, Control, PCs, Replies, LastModel, EndSucceeded, CloseCall,
       Guard!Close
  <2>2. Streamed'
    BY <1>17 DEF IInv, Streamed, EndSucceeded, CloseCall, Guard!Close
  <2>3. Traced'
    BY <1>17, <1>t, Append1Typed DEF IInv, Traced, EventNames, EndSucceeded, CloseCall,
       Guard!Close
  <2>4. Guarded'
    BY <1>17 DEF IInv, Guarded, InCall, EndSucceeded, CloseCall, Guard!Close
  <2>5. Counted'
    BY <1>17, <1>m, <1>r DEF IInv, Control, Guarded, Counted, EndSucceeded, CloseCall,
       Guard!Close
  <2>6. Committed' /\ LateOnce'
    BY <1>17 DEF IInv, Control, Counted, Committed, Attempt, LateOnce, EndSucceeded,
       CloseCall, Guard!Close
  <2>7. Explained'
    BY <1>17, ErrorsApart DEF IInv, Control, Guarded, Committed, Explained, EndExplained,
       SentTwice, Attempt, InCall, Plain, EndSucceeded, LastErr, CloseCall, Guard!Close
  <2> QED
    BY <2>1, <2>2, <2>3, <2>4, <2>5, <2>6, <2>7 DEF IInv
<1>18. CASE EndWithTool
  <2>1. Control'
    BY <1>18 DEF IInv, Control, PCs, Replies, LastModel, EndWithTool, CloseCall,
       Guard!Close
  <2>2. Streamed' /\ Traced'
    BY <1>18 DEF IInv, Streamed, Traced, EndWithTool, CloseCall, Guard!Close
  <2>3. Guarded'
    BY <1>18 DEF IInv, Guarded, InCall, EndWithTool, CloseCall, Guard!Close
  <2>4. Counted'
    BY <1>18, <1>m, <1>r DEF IInv, Control, Guarded, Counted, EndWithTool, CloseCall,
       Guard!Close
  <2>5. Committed' /\ LateOnce'
    BY <1>18 DEF IInv, Control, Counted, Committed, Attempt, LateOnce, EndWithTool,
       CloseCall, Guard!Close
  <2>6. Explained'
    BY <1>18, ErrorsApart DEF IInv, Control, Guarded, Explained, EndExplained,
       SentTwice, Attempt, InCall, Plain, EndWithTool, LastErr, CloseCall, Guard!Close
  <2> QED
    BY <2>1, <2>2, <2>3, <2>4, <2>5, <2>6 DEF IInv
<1>19. CASE ToolRound
  <2>0. depth > 0 /\ call <= Before(modelIndex) + tries + (MaxToolDepth - depth) /\ tries <= MaxRetryCount + 1
      BY <1>19, <1>n, <1>r DEF ToolRound, IInv, Control, Counted
  <2>1. Control'
    BY <1>19, <1>b DEF IInv, Control, PCs, Replies, LastModel, Counted, ToolRound,
       OpenCall, Guard!Open
  <2>2. Traced'
    BY <1>19 DEF IInv, Traced, ToolRound, OpenCall, Guard!Open
  <2>3. Streamed'
    BY <1>19, FreshTyped DEF IInv, Streamed, ToolRound, OpenCall, Guard!Open
  <2>4. Guarded'
    <3>1. call + 1 \in 1..MaxCalls
      BY <1>n, <1>r, <2>0
    <3> QED
      BY <1>19, <3>1 DEF ToolRound, OpenCall, Guard!Open, IInv, Guarded, InCall
  <2>5. Counted'
    BY <1>19, <1>n, <1>r, <2>0 DEF Counted, FreshStream, ToolRound, OpenCall, Guard!Open, Before
  <2>6. Committed' /\ LateOnce'
    BY <1>19 DEF IInv, Control, Counted, Committed, Attempt, FreshStream, LateOnce,
       ToolRound, OpenCall, Guard!Open
  <2>7. Explained'
    BY <1>19, ErrorsApart DEF IInv, Control, Guarded, Explained, EndExplained, SentTwice,
       Attempt, InCall, Plain, FreshStream, ToolRound, OpenCall, Guard!Open
  <2> QED
    BY <2>1, <2>2, <2>3, <2>4, <2>5, <2>6, <2>7 DEF IInv
<1>20. CASE DoFails
  <2>1. Control'
    BY <1>20 DEF IInv, Control, PCs, Replies, LastModel, DoFails, Fails
  <2>2. Streamed' /\ Traced' /\ Guarded'
    BY <1>20 DEF IInv, Streamed, Traced, Guarded, InCall, DoFails, Fails
  <2>3. Counted' /\ Committed' /\ LateOnce'
    BY <1>20, <1>m, <1>r DEF IInv, Control, Guarded, Counted, Committed, Attempt,
       LateOnce, DoFails, Fails
  <2>4. Explained'
    BY <1>20, ErrorsApart, CanceledExplained, ErrorOfIsError DEF IInv, Control, Guarded, Explained,
       EndExplained, SentTwice, Attempt, InCall, Plain, DoFails, Fails, LastErr
  <2> QED
    BY <2>1, <2>2, <2>3, <2>4 DEF IInv
<1>21. CASE DoReturns
  <2>1. Control'
    BY <1>21 DEF IInv, Control, PCs, Replies, LastModel, DoReturns
  <2>2. Streamed' /\ Traced' /\ Guarded'
    BY <1>21 DEF IInv, Streamed, Traced, Guarded, InCall, DoReturns
  <2>3. Counted' /\ Committed' /\ LateOnce'
    BY <1>21, <1>m, <1>r DEF IInv, Control, Guarded, Counted, Committed, Attempt,
       LateOnce, DoReturns
  <2>4. Explained'
    BY <1>21, ErrorsApart DEF IInv, Control, Guarded, Explained, EndExplained,
       SentTwice, Attempt, InCall, Plain, DoReturns
  <2> QED
    BY <2>1, <2>2, <2>3, <2>4 DEF IInv
<1>22. CASE Headers
  <2>1. Control'
    BY <1>22 DEF IInv, Control, PCs, Replies, LastModel, Headers, ResetTimer,
       Guard!Progress, Fails
  <2>2. Traced'
    BY <1>22 DEF IInv, Traced, Headers, ResetTimer, Guard!Progress, Fails
  <2>3. Streamed'
    <3>1. \A l \in 0..MaxLines : [stream EXCEPT !.lines = l, !.armed = TRUE] \in StreamType
      BY DEF IInv, Streamed, StreamType
    <3>2. 0 \in 0..MaxLines
      BY <1>22 DEF Headers, IInv, Streamed, StreamType
    <3> QED
      BY <1>22, <3>1, <3>2 DEF Headers, ResetTimer, Streamed
  <2>4. Guarded'
    BY <1>22 DEF IInv, Guarded, InCall, Headers, ResetTimer, Guard!Progress, Fails
  <2>5. Counted'
    BY <1>22, <1>m, <1>r DEF IInv, Control, Guarded, Counted, Streamed, StreamType,
       Headers, ResetTimer, Guard!Progress, Fails
  <2>6. Committed' /\ LateOnce'
    BY <1>22 DEF IInv, Control, Counted, Committed, Attempt, Streamed, StreamType,
       LateOnce, Headers, ResetTimer, Guard!Progress, Fails
  <2>7. Explained'
    <3>1. \/ pc' = "reading" /\ UNCHANGED failure
          \/ lastErr' \notin {Canceled, NoError} /\ errorOf' = Attempt'
      BY <1>22, ErrorsApart DEF Headers, Fails, LastErr, Attempt
    <3>2. /\ UNCHANGED <<request, tokensFrom, late, gone, told, reply, ctxDone, call>>
          /\ pc = "headers" /\ pc' \in {"reading", "failing"}
          /\ stream'.substance = stream.substance
          /\ starved' = (starved \/ verdict[call] # "none")
      BY <1>22 DEF Headers, ResetTimer, Guard!Progress, Fails, IInv, Streamed, StreamType
    <3>3. ctxDone => gone \/ starved'
      BY <3>2 DEF IInv, Explained, InCall
    <3>4. lastErr' = Canceled => gone \/ starved'
      BY <3>1, <3>2 DEF IInv, Explained
    <3>5. pc' = "reading" \/ (lastErr' # NoError /\ errorOf' = Attempt')
      BY <3>1
    <3>6. mode.clientOK
      BY <3>2 DEF IInv, Explained
    <3> QED
      BY <3>2, <3>3, <3>4, <3>5, <3>6 DEF IInv, Explained, EndExplained, InCall, Plain
  <2> QED
    BY <2>1, <2>2, <2>3, <2>4, <2>5, <2>6, <2>7 DEF IInv
<1>23. CASE ReadLine
  <2>1. Control'
    BY <1>23 DEF IInv, Control, PCs, Replies, LastModel, ReadLine, ResetTimer,
       Guard!Progress
  <2>2. Traced'
    BY <1>23 DEF IInv, Traced, ReadLine, ResetTimer, Guard!Progress
  <2>3. Streamed'
    <3>1. \A l \in 0..MaxLines : [stream EXCEPT !.lines = l, !.armed = TRUE] \in StreamType
      BY DEF IInv, Streamed, StreamType
    <3>2. stream.lines + 1 \in 0..MaxLines
      BY <1>23 DEF ReadLine, IInv, Streamed, StreamType
    <3> QED
      BY <1>23, <3>1, <3>2 DEF ReadLine, ResetTimer, Streamed
  <2>4. Guarded'
    BY <1>23 DEF IInv, Guarded, InCall, ReadLine, ResetTimer, Guard!Progress
  <2>5. Counted'
    BY <1>23, <1>m, <1>r DEF IInv, Control, Guarded, Counted, Streamed, StreamType,
       ReadLine, ResetTimer, Guard!Progress
  <2>6. Committed' /\ LateOnce'
    BY <1>23 DEF IInv, Control, Counted, Committed, Attempt, Streamed, StreamType,
       LateOnce, ReadLine, ResetTimer, Guard!Progress
  <2>7. Explained'
    BY <1>23, ErrorsApart DEF IInv, Control, Guarded, Explained, EndExplained,
       SentTwice, Attempt, InCall, Plain, ReadLine, ResetTimer, Guard!Progress
  <2> QED
    BY <2>1, <2>2, <2>3, <2>4, <2>5, <2>6, <2>7 DEF IInv
<1>24. CASE ReadFails
  <2>1. Control'
    BY <1>24 DEF IInv, Control, PCs, Replies, LastModel, ReadFails, Fails
  <2>2. Streamed' /\ Traced' /\ Guarded'
    BY <1>24 DEF IInv, Streamed, Traced, Guarded, InCall, ReadFails, Fails
  <2>3. Counted' /\ Committed' /\ LateOnce'
    BY <1>24, <1>m, <1>r DEF IInv, Control, Guarded, Counted, Committed, Attempt,
       LateOnce, ReadFails, Fails
  <2>4. Explained'
    BY <1>24, ErrorsApart, CanceledExplained, ErrorOfIsError DEF IInv, Control, Guarded, Explained,
       EndExplained, SentTwice, Attempt, InCall, Plain, ReadFails, Fails, LastErr
  <2> QED
    BY <2>1, <2>2, <2>3, <2>4 DEF IInv
<1>25. CASE StreamEnds
  <2>1. Control'
    BY <1>25 DEF IInv, Control, PCs, Replies, LastModel, StreamEnds, Fails
  <2>2. Streamed' /\ Traced' /\ Guarded'
    BY <1>25 DEF IInv, Streamed, Traced, Guarded, InCall, StreamEnds, Fails
  <2>3. Counted' /\ Committed' /\ LateOnce'
    BY <1>25, <1>m, <1>r DEF IInv, Control, Guarded, Counted, Committed, Attempt,
       LateOnce, StreamEnds, Fails
  <2>4. Explained'
    BY <1>25, ErrorsApart DEF IInv, Control, Guarded, Explained, EndExplained,
       SentTwice, Attempt, InCall, Plain, StreamEnds, Fails, LastErr
  <2> QED
    BY <2>1, <2>2, <2>3, <2>4 DEF IInv
<1>26. CASE IdleExpires
  <2>1. Control'
    BY <1>26 DEF IInv, Control, PCs, Replies, LastModel, IdleExpires, Guard!LogIdle,
       Guard!Abort
  <2>2. Traced'
    BY <1>26 DEF IInv, Traced, IdleExpires, Guard!LogIdle, Guard!Abort
  <2>3. Streamed'
    BY <1>26 DEF IInv, Streamed, StreamType, IdleExpires, Guard!LogIdle, Guard!Abort
  <2>4. Guarded'
    <3>1. call \in 1..MaxCalls
      BY <1>26 DEF IdleExpires, IInv, Guarded, InCall
    <3>2. UNCHANGED <<call, phase, pc>> /\ budget' \in 0..InitialBudget
      BY <1>26, <1>b DEF IdleExpires, Guard!LogIdle, Guard!Abort
    <3>3. verdict' \in [1..MaxCalls -> {"none", "per_idle", "total"}]
      BY <1>26, <3>1 DEF IdleExpires, Guard!LogIdle, Guard!Abort, IInv, Guarded
    <3> QED
      BY <3>1, <3>2, <3>3 DEF IInv, Guarded, InCall
  <2>5. Counted'
    BY <1>26, <1>m, <1>r DEF IInv, Control, Guarded, Counted, Streamed, StreamType,
       IdleExpires, Guard!LogIdle, Guard!Abort
  <2>6. Committed' /\ LateOnce'
    BY <1>26 DEF IInv, Control, Counted, Committed, Attempt, Streamed, StreamType,
       LateOnce, IdleExpires, Guard!LogIdle, Guard!Abort
  <2>7. Explained'
    <3>1. call \in 1..MaxCalls
      BY <1>26 DEF IdleExpires, IInv, Guarded, InCall
    <3>0. stream'.substance = stream.substance
      BY <1>26 DEF IdleExpires, Guard!LogIdle, Guard!Abort, IInv, Streamed, StreamType
    <3>2. verdict'[call'] = "none" => verdict' = verdict /\ ctxDone' = ctxDone
      BY <1>26, <3>1 DEF IdleExpires, Guard!LogIdle, Guard!Abort, IInv, Guarded
    <3>3. UNCHANGED <<request, history, failure, pc, reply, told, gone, call>> /\ pc # "done"
      BY <1>26 DEF IdleExpires, Guard!LogIdle, Guard!Abort
    <3> QED
      BY <3>0, <3>2, <3>3 DEF IInv, Explained, EndExplained, SentTwice, Attempt, InCall, Plain
  <2> QED
    BY <2>1, <2>2, <2>3, <2>4, <2>5, <2>6, <2>7 DEF IInv
<1>27. CASE ClientLeaves
  <2>1. Control'
    BY <1>27 DEF IInv, Control, PCs, Replies, LastModel, ClientLeaves
  <2>2. Streamed' /\ Traced' /\ Guarded'
    BY <1>27 DEF IInv, Streamed, Traced, Guarded, InCall, ClientLeaves
  <2>3. Counted' /\ Committed' /\ LateOnce'
    BY <1>27, <1>m, <1>r DEF IInv, Control, Guarded, Counted, Committed, Attempt,
       LateOnce, ClientLeaves
  <2>4. Explained'
    BY <1>27, ErrorsApart DEF IInv, Control, Guarded, Explained, EndExplained,
       SentTwice, Attempt, InCall, Plain, ClientLeaves
  <2> QED
    BY <2>1, <2>2, <2>3, <2>4 DEF IInv
<1>28. CASE UNCHANGED vars
  <2>1. Control' /\ Streamed' /\ Traced' /\ Guarded' /\ Counted' /\ Committed' /\ LateOnce'
    BY <1>28 DEF vars, IInv, Control, Streamed, Traced, Guarded, Counted, Committed, LateOnce,
       InCall, LastModel, Attempt
  <2>2. Explained'
    BY <1>28 DEF vars, IInv, Explained, EndExplained, SentTwice, Attempt, InCall, Plain
  <2> QED
    BY <2>1, <2>2 DEF IInv
<1> QED
  BY <1>1, <1>2, <1>3, <1>4, <1>5, <1>6, <1>7, <1>8, <1>9, <1>10, <1>11, <1>12, <1>13,
     <1>14, <1>15, <1>16, <1>17, <1>18, <1>19, <1>20, <1>21, <1>22, <1>23, <1>24, <1>25,
     <1>26, <1>27, <1>28 DEF Next, Loops, Callback, EndCall, Upstream

(* The inductive invariant. *)
THEOREM Invariance == Spec => []IInv
<1>1. IInv /\ [Next]_vars => IInv'
  BY NextIInv
<1> QED
  BY InitIInv, <1>1, PTL DEF Spec

(* Whatever the upstream does, no request makes more calls than its models, *)
(* retries and tool rounds allow, a timer is open exactly during a call,    *)
(* and the budget and the trace keep their limits.                          *)
THEOREM TypeCorrect == Spec => []TypeOK
<1>1. IInv => TypeOK
  <2>1. IInv => /\ stream.lines \in 0..MaxLines
               /\ {committed, ctxDone, gone, starved} \subseteq BOOLEAN
    BY DEF IInv, Control, Streamed, StreamType
  <2> QED
    BY <2>1 DEF IInv, Control, Traced, Guarded, TypeOK
<1> QED
  BY Invariance, <1>1, PTL

(* The client never gets tokens of two attempts: streamCommitted is set    *)
(* before the first token is written, and rules out retry and switch.      *)
THEOREM OneAttempt == Spec => []TokensFromOneAttempt
<1>1. IInv => TokensFromOneAttempt
  BY DEF IInv, Committed, TokensFromOneAttempt
<1> QED
  BY Invariance, <1>1, PTL

(* A client that leaves while the request sleeps or is between two models  *)
(* costs one more attempt at most, however many models and retries remain. *)
THEOREM OneIsLate == Spec => []OneLateAttempt
<1>1. IInv => OneLateAttempt
  BY DEF IInv, LateOnce, OneLateAttempt
<1> QED
  BY Invariance, <1>1, PTL

(* However many attempts a request makes, it ends as EndExplained says: in  *)
(* an answer of its last attempt, in the event of an empty one, or in the   *)
(* error of its last attempt, told once but for SentTwice; in silence only  *)
(* for the causes named.                                                    *)
THEOREM EndIsExplained == Spec => []EndExplained
<1>1. IInv => EndExplained
  BY DEF IInv, Explained
<1> QED
  BY Invariance, <1>1, PTL

-----------------------------------------------------------------------------
(***************************************************************************)
(* What the trace tells.  TInv is inductive in the states of IInv: the     *)
(* attempts that were started are in order and none is ahead of the one    *)
(* that was made last (Ordered); a full trace is a truncated one, and one  *)
(* that is not truncated tells every attempt's outcome (Told).             *)
(***************************************************************************)
InOrder(t) ==
    \A i, j \in DOMAIN t :
        i < j /\ IsStart(t[i]) /\ IsStart(t[j]) => GoesAhead(t[i].attempt, t[j].attempt)

UpTo(t, top) ==
    \A i \in DOMAIN t : IsStart(t[i]) => t[i].attempt = top \/ GoesAhead(t[i].attempt, top)

(* The attempt made last; in front of the loop of a model it has none.     *)
LastMade == <<modelIndex, IF pc = "model" THEN 0 ELSE tries>>

Ordered == InOrder(trace) /\ UpTo(trace, LastMade)

FullIsTruncated(t) == Len(t) = MaxTraceEvents => ~IsWhole(t)

Told ==
    /\ mode.auto => FullIsTruncated(trace)
    /\ InProgress # {} => tries > 0
    /\ TraceTellsOutcomes

TInv == Ordered /\ Told

(* To be ahead of an attempt is transitive. *)
LEMMA AheadTransitive ==
    ASSUME NEW p \in Int \X Int, NEW q \in Int \X Int, NEW r \in Int \X Int,
           p = q \/ GoesAhead(p, q), GoesAhead(q, r)
    PROVE  GoesAhead(p, r)
  BY DEF GoesAhead

(* Every event of the trace names an attempt. *)
LEMMA AttemptsTyped ==
    ASSUME NEW t \in Seq(EventType)
    PROVE  \A i \in DOMAIN t : t[i].attempt \in Int \X Int
<1>1. \A i \in DOMAIN t : t[i] \in EventType
  OBVIOUS
<1> QED
  BY <1>1 DEF EventType

(* A bound of the attempts in the trace may be moved ahead. *)
LEMMA UpToMore ==
    ASSUME NEW t \in Seq(EventType), NEW p \in Int \X Int, NEW q \in Int \X Int,
           UpTo(t, p), p = q \/ GoesAhead(p, q)
    PROVE  UpTo(t, q)
<1>1. CASE p = q
  BY <1>1
<1>2. CASE GoesAhead(p, q)
  BY <1>2, AttemptsTyped, AheadTransitive DEF UpTo
<1> QED
  BY <1>1, <1>2

(* One more event. *)
LEMMA Appended ==
    ASSUME NEW t \in Seq(EventType), NEW e \in EventType
    PROVE  /\ Append(t, e) \in Seq(EventType)
           /\ Len(Append(t, e)) = Len(t) + 1 /\ Len(t) \in Nat
           /\ DOMAIN t = 1..Len(t)
           /\ DOMAIN Append(t, e) = 1..(Len(t) + 1)
           /\ \A i \in 1..Len(t) : Append(t, e)[i] = t[i]
           /\ Append(t, e)[Len(t) + 1] = e
  OBVIOUS

(* An event that starts nothing leaves the order alone. *)
LEMMA OrderOfNoStart ==
    ASSUME NEW t \in Seq(EventType), NEW e \in EventType, ~IsStart(e),
           NEW top, InOrder(t), UpTo(t, top)
    PROVE  InOrder(Append(t, e)) /\ UpTo(Append(t, e), top)
<1> DEFINE u == Append(t, e)
<1>1. \A i \in DOMAIN u : IsStart(u[i]) => i \in DOMAIN t /\ u[i] = t[i]
  BY Appended
<1> QED
  BY <1>1 DEF InOrder, UpTo

(* A start that is ahead of all before it keeps the order. *)
LEMMA OrderOfStart ==
    ASSUME NEW t \in Seq(EventType), NEW e \in EventType, NEW top,
           InOrder(t), UpTo(t, top), top \in Int \X Int, GoesAhead(top, e.attempt)
    PROVE  InOrder(Append(t, e)) /\ UpTo(Append(t, e), e.attempt)
<1> DEFINE u == Append(t, e)
           n == Len(t) + 1
<1>1. /\ DOMAIN t = 1..Len(t) /\ Len(t) \in Nat /\ DOMAIN u = 1..n /\ u[n] = e
      /\ \A i \in 1..Len(t) : u[i] = t[i]
  BY Appended
<1>2. e.attempt \in Int \X Int /\ UpTo(t, e.attempt)
  BY UpToMore DEF EventType
<1>3. \A i \in 1..Len(t) : IsStart(t[i]) => GoesAhead(t[i].attempt, e.attempt)
  BY <1>1, <1>2, AttemptsTyped, AheadTransitive DEF UpTo
<1>4. \A i, j \in 1..n : i < j => i \in 1..Len(t) /\ (j \in 1..Len(t) \/ j = n)
  BY <1>1
<1>5. \A i \in 1..n : i \in 1..Len(t) \/ i = n
  BY <1>1
<1>6. InOrder(u)
  BY <1>1, <1>3, <1>4 DEF InOrder
<1>7. UpTo(u, e.attempt)
  BY <1>1, <1>2, <1>5 DEF UpTo
<1> QED
  BY <1>6, <1>7

(* An event that is neither a start nor an outcome. *)
LEMMA OtherEventTells ==
    ASSUME NEW t \in Seq(EventType), NEW e \in EventType, ~IsStart(e), ~IsOutcome(e),
           NEW open, Tells(t, open)
    PROVE  Tells(Append(t, e), open)
<1> DEFINE u == Append(t, e)
<1>1. \A i \in DOMAIN u : IsStart(u[i]) \/ IsOutcome(u[i]) => i \in DOMAIN t
  BY Appended
<1>2. \A i \in DOMAIN t : i \in DOMAIN u /\ u[i] = t[i]
  BY Appended
<1> QED
  BY <1>1, <1>2 DEF Tells

(* A start of an attempt that was not made before opens it. *)
LEMMA StartTells ==
    ASSUME NEW t \in Seq(EventType), NEW e \in EventType, IsStart(e), ~IsOutcome(e),
           Tells(t, {}),
           \A i \in DOMAIN t : IsStart(t[i]) => t[i].attempt # e.attempt
    PROVE  Tells(Append(t, e), {e.attempt})
<1> DEFINE u == Append(t, e)
           n == Len(t) + 1
<1>1. \A i \in DOMAIN u : IsOutcome(u[i]) => i \in DOMAIN t
  BY Appended
<1>2. \A i \in DOMAIN t : i \in DOMAIN u /\ u[i] = t[i]
  BY Appended
<1>3. n \in DOMAIN u /\ u[n] = e /\ \A i \in DOMAIN u : i \in DOMAIN t \/ i = n
  BY Appended
<1>4. \A j \in DOMAIN t : IsOutcome(t[j]) => t[j].attempt # e.attempt
  BY DEF Tells
<1> QED
  BY <1>1, <1>2, <1>3, <1>4 DEF Tells

(* The outcome of the open attempt closes it. *)
LEMMA OutcomeTells ==
    ASSUME NEW t \in Seq(EventType), NEW e \in EventType, ~IsStart(e), IsOutcome(e),
           Tells(t, {e.attempt})
    PROVE  Tells(Append(t, e), {})
<1> DEFINE u == Append(t, e)
           n == Len(t) + 1
<1>1. \A i \in DOMAIN u : IsStart(u[i]) => i \in DOMAIN t
  BY Appended
<1>2. \A i \in DOMAIN t : i \in DOMAIN u /\ u[i] = t[i] /\ i < n
  BY Appended
<1>3. n \in DOMAIN u /\ u[n] = e /\ \A i \in DOMAIN u : i \in DOMAIN t \/ i = n
  BY Appended
<1>4. /\ \E i \in DOMAIN t : IsStart(t[i]) /\ t[i].attempt = e.attempt
      /\ \A j \in DOMAIN t : IsOutcome(t[j]) => t[j].attempt # e.attempt
  BY DEF Tells
<1>5. \A j \in DOMAIN u : IsOutcome(u[j]) =>
         \E i \in DOMAIN u : i < j /\ IsStart(u[i]) /\ u[i].attempt = u[j].attempt
  BY <1>2, <1>3, <1>4 DEF Tells
<1>6. \A i, j \in DOMAIN u :
         IsOutcome(u[i]) /\ IsOutcome(u[j]) /\ u[i].attempt = u[j].attempt => i = j
  BY <1>2, <1>3, <1>4 DEF Tells
<1>7. \A i \in DOMAIN u : IsStart(u[i]) =>
         \E j \in DOMAIN u : IsOutcome(u[j]) /\ u[j].attempt = u[i].attempt
  BY <1>1, <1>2, <1>3, <1>4 DEF Tells
<1> QED
  BY <1>5, <1>6, <1>7 DEF Tells

(* appendDegradationEvent adds the event, or marks the trace as truncated, *)
(* or leaves it.                                                           *)
LEMMA TruncatedTyped ==
    /\ Truncated \in EventType /\ Truncated.event = "trace_truncated"
    /\ ~IsStart(Truncated) /\ ~IsOutcome(Truncated)
<1>1. Truncated \in EventType
  BY EventTyped DEF Truncated, EventNames
<1> QED
  BY <1>1 DEF Truncated, Event, IsStart, IsOutcome

LEMMA Append1Is ==
    ASSUME NEW t, NEW e
    PROVE  Append1(t, e) \in {t, Append(t, e), Append(t, Truncated)}
  BY DEF Append1

(* The last place is kept for the mark: a trace that is whole after an     *)
(* event was whole before it, and has the event.                           *)
LEMMA Append1Whole ==
    ASSUME mode.auto, NEW t \in Seq(EventType), Len(t) <= MaxTraceEvents, FullIsTruncated(t),
           NEW e \in EventType, e.event # "trace_truncated"
    PROVE  /\ FullIsTruncated(Append1(t, e))
           /\ IsWhole(Append1(t, e)) => IsWhole(t) /\ Append1(t, e) = Append(t, e)
<1>1. MaxTraceEvents \in Nat /\ Len(t) \in Nat
  BY StreamAssumption
<1>2. CASE Len(t) = MaxTraceEvents
  <2>1. Append1(t, e) = t
    BY <1>1, <1>2 DEF Append1
  <2> QED
    BY <1>2, <2>1 DEF FullIsTruncated
<1>3. CASE Len(t) = MaxTraceEvents - 1
  <2>1. Append1(t, e) = Append(t, Truncated)
    BY <1>1, <1>3 DEF Append1
  <2>2. ~IsWhole(Append(t, Truncated))
    BY TruncatedTyped, Appended DEF IsWhole
  <2> QED
    BY <2>1, <2>2 DEF FullIsTruncated
<1>4. CASE Len(t) < MaxTraceEvents - 1
  <2>1. Append1(t, e) = Append(t, e)
    BY <1>1, <1>4 DEF Append1
  <2>2. Len(Append(t, e)) # MaxTraceEvents
    BY <1>1, <1>4, Appended
  <2>3. IsWhole(Append(t, e)) => IsWhole(t)
    BY Appended DEF IsWhole
  <2> QED
    BY <2>1, <2>2, <2>3 DEF FullIsTruncated
<1> QED
  BY <1>1, <1>2, <1>3, <1>4

(* Neither the event nor the mark is a start. *)
LEMMA Append1Ordered ==
    ASSUME NEW t \in Seq(EventType), NEW e \in EventType, ~IsStart(e), NEW top,
           InOrder(t), UpTo(t, top)
    PROVE  InOrder(Append1(t, e)) /\ UpTo(Append1(t, e), top)
  BY Append1Is, TruncatedTyped, OrderOfNoStart

(* Steps that write nothing into the trace and neither begin nor end an    *)
(* attempt.                                                                *)
LEMMA Quiet ==
    ASSUME TInv, UNCHANGED <<mode, trace, modelIndex, tries>>,
           InProgress' = InProgress, pc = "model" <=> pc' = "model"
    PROVE  TInv'
<1>1. LastMade' = LastMade
  BY DEF LastMade
<1>2. Ordered'
  BY <1>1 DEF TInv, Ordered
<1>3. Told'
  BY DEF TInv, Told, TraceTellsOutcomes
<1> QED
  BY <1>2, <1>3 DEF TInv

LEMMA InitTInv == Init => TInv
<1> SUFFICES ASSUME Init PROVE TInv
  OBVIOUS
<1> DEFINE e == Event("degradation_started", <<1, 0>>)
<1>1. /\ e \in EventType /\ ~IsStart(e) /\ ~IsOutcome(e) /\ e.event # "trace_truncated"
      /\ <<>> \in Seq(EventType) /\ Len(<<>>) = 0
  BY EventTyped DEF EventNames, Event, IsStart, IsOutcome
<1>2. trace = Append1(<<>>, e) /\ InProgress = {}
  BY DEF Init, InProgress, InCall
<1>3. InOrder(<<>>) /\ UpTo(<<>>, LastMade) /\ Tells(<<>>, {})
  BY DEF InOrder, UpTo, Tells
<1>4. Ordered
  BY <1>1, <1>2, <1>3, Append1Ordered DEF Ordered
<1>5. ASSUME mode.auto PROVE FullIsTruncated(trace) /\ TraceTellsOutcomes
  <2>1. 0 <= MaxTraceEvents /\ FullIsTruncated(<<>>)
    BY <1>1, StreamAssumption DEF FullIsTruncated
  <2> QED
    BY <1>1, <1>2, <1>3, <1>5, <2>1, Append1Whole, OtherEventTells DEF TraceTellsOutcomes
<1> QED
  BY <1>2, <1>4, <1>5 DEF TInv, Told, TraceTellsOutcomes

(* Which events are starts and outcomes. *)
LEMMA EventKinds ==
    ASSUME NEW m \in Int, NEW k \in Int, NEW n \in EventNames, n # "trace_truncated"
    PROVE  /\ Event(n, <<m, k>>) \in EventType
           /\ Event(n, <<m, k>>).event # "trace_truncated"
           /\ Event(n, <<m, k>>).attempt = <<m, k>>
           /\ IsStart(Event(n, <<m, k>>)) <=> n = "attempt_started"
           /\ IsOutcome(Event(n, <<m, k>>)) <=>
                 \/ n \in {"attempt_failed", "model_succeeded"}
                 \/ n = "degradation_stopped" /\ k > 0
<1>1. Event(n, <<m, k>>).event = n /\ Event(n, <<m, k>>).attempt = <<m, k>>
  BY DEF Event
<1>2. <<m, k>>[2] = k
  OBVIOUS
<1> QED
  BY <1>1, <1>2, EventTyped DEF IsStart, IsOutcome

(* The attempt in progress gets its outcome. *)
LEMMA OutcomeStep ==
    ASSUME IInv, TInv, InProgress = {Attempt}, UNCHANGED <<mode, modelIndex, tries>>,
           pc # "model", pc' # "model", InProgress' = {},
           NEW e \in EventType, IsOutcome(e), ~IsStart(e), e.attempt = Attempt,
           e.event # "trace_truncated", trace' = Append1(trace, e)
    PROVE  TInv'
<1>1. trace \in Seq(EventType) /\ Len(trace) <= MaxTraceEvents
  BY DEF IInv, Traced
<1>2. LastMade' = LastMade
  BY DEF LastMade
<1>3. Ordered'
  BY <1>1, <1>2, Append1Ordered DEF TInv, Ordered
<1>4. mode.auto => FullIsTruncated(trace')
  BY <1>1, Append1Whole DEF TInv, Told
<1>5. mode.auto /\ IsWhole(trace') => Tells(trace', {})
  BY <1>1, Append1Whole, OutcomeTells DEF TInv, Told, TraceTellsOutcomes
<1> QED
  BY <1>3, <1>4, <1>5 DEF TInv, Told, TraceTellsOutcomes

(* An event that is neither, while no attempt is in progress.              *)
LEMMA OtherStep ==
    ASSUME IInv, TInv, UNCHANGED mode, InProgress = {}, InProgress' = {},
           UpTo(trace, LastMade'),
           NEW e \in EventType, ~IsOutcome(e), ~IsStart(e),
           e.event # "trace_truncated", trace' = Append1(trace, e)
    PROVE  TInv'
<1>1. trace \in Seq(EventType) /\ Len(trace) <= MaxTraceEvents
  BY DEF IInv, Traced
<1>2. Ordered'
  BY <1>1, Append1Ordered DEF TInv, Ordered
<1>3. mode.auto => FullIsTruncated(trace')
  BY <1>1, Append1Whole DEF TInv, Told
<1>4. mode.auto /\ IsWhole(trace') => Tells(trace', {})
  BY <1>1, Append1Whole, OtherEventTells DEF TInv, Told, TraceTellsOutcomes
<1> QED
  BY <1>2, <1>3, <1>4 DEF TInv, Told, TraceTellsOutcomes

LEMMA NextTInv == IInv /\ TInv /\ [Next]_vars => TInv'
<1> SUFFICES ASSUME IInv, TInv, [Next]_vars PROVE TInv'
  OBVIOUS
<1> USE DEF guard, request, history, failure
<1>t. /\ modelIndex \in Int /\ tries \in Nat /\ trace \in Seq(EventType)
      /\ Len(trace) <= MaxTraceEvents
  <2>1. modelIndex \in 1..NumModels
    BY ModelInRange DEF IInv
  <2> QED
    BY <2>1 DEF IInv, Control, Traced
<1>e. {"attempt_started", "attempt_failed", "retry_scheduled", "model_switch", "model_succeeded",
       "retry_skipped_insufficient_budget", "degradation_stopped"} \subseteq EventNames
  BY DEF EventNames
<1>a. Attempt \in Int \X Int /\ LastMade \in Int \X Int
  BY <1>t DEF Attempt, LastMade
<1>1. CASE NewLLMClient
  <2>1. /\ InProgress = {} /\ InProgress' = {} /\ UNCHANGED <<mode, trace>> /\ pc = "model"
        /\ tries' = 0 /\ (modelIndex' = modelIndex \/ modelIndex' = modelIndex + 1)
    BY <1>1 DEF NewLLMClient, InProgress, InCall
  <2>2. LastMade' = LastMade \/ GoesAhead(LastMade, LastMade')
    BY <1>t, <2>1 DEF LastMade, GoesAhead
  <2>3. LastMade' \in Int \X Int
    BY <1>t, <2>1 DEF LastMade
  <2>4. Ordered'
    BY <1>t, <1>a, <2>1, <2>2, <2>3, UpToMore DEF TInv, Ordered
  <2> QED
    BY <2>1, <2>4 DEF TInv, Told, TraceTellsOutcomes
<1>2. CASE StartAttempt
  <2> DEFINE a == <<modelIndex, tries + 1>>
             e == Event("attempt_started", a)
  <2>1. /\ InProgress = {} /\ pc = "attempt" /\ UNCHANGED <<mode, modelIndex>> /\ pc' = "do"
        /\ tries' = tries + 1 /\ trace' = Append1(trace, e)
    BY <1>2 DEF StartAttempt, OpenCall, InProgress, InCall
  <2>2. /\ InProgress' = {a} /\ LastMade' = a /\ GoesAhead(LastMade, a)
    BY <1>t, <2>1 DEF InProgress, InCall, Attempt, LastMade, GoesAhead
  <2>3. /\ e \in EventType /\ IsStart(e) /\ ~IsOutcome(e) /\ e.attempt = a
        /\ e.event # "trace_truncated"
    BY <1>t, <1>e, EventKinds
  <2>4. UpTo(trace, a)
    BY <1>t, <1>a, <2>2, UpToMore DEF TInv, Ordered
  <2>5. Ordered'
    <3>1. CASE trace' = trace
      BY <2>2, <2>4, <3>1 DEF TInv, Ordered
    <3>2. CASE trace' = Append(trace, e)
      BY <1>t, <1>a, <2>2, <2>3, <3>2, OrderOfStart DEF TInv, Ordered
    <3>3. CASE trace' = Append(trace, Truncated)
      BY <1>t, <2>2, <2>4, <3>3, OrderOfNoStart, TruncatedTyped DEF TInv, Ordered
    <3> QED
      BY <2>1, <3>1, <3>2, <3>3, Append1Is
  <2>6. mode.auto => FullIsTruncated(trace')
    BY <1>t, <2>1, <2>3, Append1Whole DEF TInv, Told
  <2>7. mode.auto /\ IsWhole(trace') => Tells(trace', {a})
    <3>1. \A i \in DOMAIN trace : IsStart(trace[i]) => trace[i].attempt # a
      <4>1. ~GoesAhead(a, a) /\ a # LastMade
        BY <1>t, <2>1 DEF GoesAhead, LastMade
      <4>2. \A p \in Int \X Int : GoesAhead(p, LastMade) => p # a
        BY <1>t, <2>1 DEF GoesAhead, LastMade
      <4> QED
        BY <1>t, <4>1, <4>2, AttemptsTyped DEF TInv, Ordered, UpTo
    <3> QED
      BY <1>t, <2>1, <2>3, <3>1, Append1Whole, StartTells DEF TInv, Told, TraceTellsOutcomes
  <2>8. tries' > 0
    BY <1>t, <2>1
  <2> QED
    BY <2>1, <2>2, <2>5, <2>6, <2>7, <2>8 DEF TInv, Told, TraceTellsOutcomes
<1>3. CASE StopCommitted
  <2> DEFINE e == Event("degradation_stopped", Attempt)
  <2>1. /\ InProgress = {Attempt} /\ UNCHANGED <<mode, modelIndex, tries>> /\ pc = "failed"
        /\ pc' = "report" /\ InProgress' = {} /\ trace' = Append1(trace, e)
    BY <1>3 DEF StopCommitted, InProgress, InCall
  <2>2. /\ e \in EventType /\ ~IsStart(e) /\ IsOutcome(e) /\ e.attempt = Attempt
        /\ e.event # "trace_truncated"
    <3>1. tries > 0
      BY <2>1 DEF TInv, Told
    <3> QED
      BY <1>t, <1>e, <3>1, EventKinds DEF Attempt
  <2> QED
    BY <2>1, <2>2, OutcomeStep
<1>4. CASE ScheduleRetry \/ GiveUpModel
  <2>1. /\ InProgress = {Attempt} /\ UNCHANGED <<mode, modelIndex, tries>> /\ pc = "failed"
        /\ pc' \in {"sleep", "switch", "report"} /\ InProgress' = {}
    BY <1>4 DEF ScheduleRetry, GiveUpModel, InProgress, InCall
  <2>2. \/ trace' = Append1(trace, AttemptFailed)
        \/ \E n \in {"retry_scheduled", "retry_skipped_insufficient_budget"} :
              trace' = Append1(Append1(trace, AttemptFailed), Event(n, Attempt))
    BY <1>4 DEF ScheduleRetry, GiveUpModel, Append2
  <2>3. /\ AttemptFailed \in EventType /\ ~IsStart(AttemptFailed) /\ IsOutcome(AttemptFailed)
        /\ AttemptFailed.attempt = Attempt /\ AttemptFailed.event # "trace_truncated"
    BY <1>t, <1>e, EventKinds DEF Attempt, AttemptFailed
  <2> DEFINE u == Append1(trace, AttemptFailed)
  <2>4. CASE trace' = u
    BY <2>1, <2>3, <2>4, OutcomeStep
  <2>5. ASSUME NEW n \in {"retry_scheduled", "retry_skipped_insufficient_budget"},
               trace' = Append1(u, Event(n, Attempt))
        PROVE  TInv'
    <3> DEFINE e == Event(n, Attempt)
    <3>1. /\ e \in EventType /\ ~IsStart(e) /\ ~IsOutcome(e) /\ e.event # "trace_truncated"
      BY <1>t, <1>e, EventKinds DEF Attempt
    <3>2. u \in Seq(EventType) /\ Len(u) <= MaxTraceEvents
      BY <1>t, <2>3, Append1Typed
    <3>3. LastMade' = LastMade
      BY <2>1 DEF LastMade
    <3>4. Ordered'
      <4>1. InOrder(u) /\ UpTo(u, LastMade)
        BY <1>t, <2>3, Append1Ordered DEF TInv, Ordered
      <4> QED
        BY <2>5, <3>1, <3>2, <3>3, <4>1, Append1Ordered DEF Ordered
    <3>5. ASSUME mode.auto
          PROVE  FullIsTruncated(trace') /\ (IsWhole(trace') => Tells(trace', {}))
      <4>1. FullIsTruncated(u) /\ (IsWhole(u) => Tells(u, {}))
        BY <1>t, <2>1, <2>3, <3>5, Append1Whole, OutcomeTells DEF TInv, Told, TraceTellsOutcomes
      <4> QED
        BY <2>5, <3>1, <3>2, <3>5, <4>1, Append1Whole, OtherEventTells
    <3> QED
      BY <2>1, <3>4, <3>5 DEF TInv, Told, TraceTellsOutcomes
  <2> QED
    BY <2>2, <2>4, <2>5
<1>5. CASE SwitchModel
  <2>1. CASE UNCHANGED <<trace, modelIndex>>
    <3>1. /\ UNCHANGED <<mode, tries>> /\ pc = "switch" /\ pc' \in {"model", "report"}
          /\ pc' = "model" => modelIndex' # modelIndex
      BY <1>5, <1>t DEF SwitchModel
    <3> QED
      BY <2>1, <3>1, Quiet DEF InProgress, InCall
  <2>2. CASE /\ modelIndex' = modelIndex + 1 /\ pc' = "model"
             /\ trace' = Append1(trace, Event("model_switch", <<modelIndex', 0>>))
    <3>1. InProgress = {} /\ InProgress' = {} /\ UNCHANGED mode /\ pc = "switch"
      BY <1>5, <2>2 DEF SwitchModel, InProgress, InCall
    <3>2. LastMade' \in Int \X Int /\ GoesAhead(LastMade, LastMade')
      BY <1>t, <2>2, <3>1 DEF LastMade, GoesAhead
    <3>3. UpTo(trace, LastMade')
      BY <1>t, <1>a, <3>2, UpToMore DEF TInv, Ordered
    <3> DEFINE e == Event("model_switch", <<modelIndex', 0>>)
    <3>4. /\ e \in EventType /\ ~IsStart(e) /\ ~IsOutcome(e) /\ e.event # "trace_truncated"
      BY <1>t, <1>e, <2>2, EventKinds
    <3> QED
      BY <2>2, <3>1, <3>3, <3>4, OtherStep
  <2> QED
    BY <1>5, <2>1, <2>2 DEF SwitchModel
<1>6. CASE StopDegradation
  <2> DEFINE e == Event("degradation_stopped", <<modelIndex, 0>>)
  <2>1. /\ InProgress = {} /\ InProgress' = {} /\ UNCHANGED <<mode, modelIndex, tries>>
        /\ pc = "switch" /\ pc' = "report" /\ trace' = Append1(trace, e)
    BY <1>6 DEF StopDegradation, InProgress, InCall
  <2>2. /\ e \in EventType /\ ~IsStart(e) /\ ~IsOutcome(e) /\ e.event # "trace_truncated"
    BY <1>t, <1>e, EventKinds
  <2>3. UpTo(trace, LastMade')
    BY <2>1 DEF TInv, Ordered, LastMade
  <2> QED
    BY <2>1, <2>2, <2>3, OtherStep
<1>7. CASE EndSucceeded
  <2>1. CASE UNCHANGED trace /\ pc' = "failed"
    BY <1>7, <2>1, Quiet DEF EndSucceeded, InProgress, InCall, Attempt
  <2>2. CASE trace' = Append1(trace, Event("model_succeeded", Attempt)) /\ pc' = "done"
    <3>1. /\ InProgress = {Attempt} /\ UNCHANGED <<mode, modelIndex, tries>> /\ pc = "finished"
          /\ InProgress' = {}
      BY <1>7, <2>2 DEF EndSucceeded, InProgress, InCall
    <3> DEFINE e == Event("model_succeeded", Attempt)
    <3>2. /\ e \in EventType /\ ~IsStart(e) /\ IsOutcome(e) /\ e.attempt = Attempt
          /\ e.event # "trace_truncated"
      BY <1>t, <1>e, EventKinds DEF Attempt
    <3> QED
      BY <2>2, <3>1, <3>2, OutcomeStep
  <2> QED
    BY <1>7, <2>1, <2>2 DEF EndSucceeded
<1>8. CASE WakeUp \/ HandleStreamError \/ ReturnError
  BY <1>8, Quiet DEF WakeUp, HandleStreamError, ReturnError, InProgress, InCall
<1>9. CASE Callback
  <2> DEFINE InLine == /\ UNCHANGED <<mode, trace, modelIndex, tries>>
                       /\ pc = "line" /\ pc' \in {"reading", "failing"}
  <2>1. InLine
    <3>1. \A from : Written(from) => pc' \in {"reading", "failing"}
      BY DEF Written, Fails
    <3>2. ASSUME NEW has \in BOOLEAN, RawLine(has) PROVE InLine
      BY <3>1, <3>2 DEF RawLine
    <3>3. ASSUME NEW blank \in BOOLEAN, NEW tool \in BOOLEAN, Token(blank, tool) PROVE InLine
      BY <3>1, <3>3 DEF Token
    <3>4. MetaLine \/ DoneLine \/ Piece => InLine
      BY <3>1 DEF MetaLine, DoneLine, Piece
    <3> QED
      BY <1>9, <3>2, <3>3, <3>4 DEF Callback
  <2> QED
    BY <2>1, Quiet DEF InProgress, InCall, Attempt
<1>10. CASE Upstream
  <2>1. /\ UNCHANGED <<mode, trace, modelIndex, tries>>
        /\ pc \in {"do", "headers", "reading"}
        /\ pc' \in {"headers", "reading", "line", "failing", "finished"}
    BY <1>10 DEF Upstream, DoFails, DoReturns, Headers, ReadLine, ReadFails, StreamEnds,
       ResetTimer, Fails
  <2> QED
    BY <2>1, Quiet DEF InProgress, InCall, Attempt
<1>11. CASE EndFailed \/ EndWithTool \/ ToolRound
  <2>1. /\ UNCHANGED <<mode, trace, modelIndex, tries>>
        /\ pc \in {"failing", "finished", "tool"} /\ pc' \in {"failed", "tool", "do"}
    BY <1>11 DEF EndFailed, EndWithTool, ToolRound, CloseCall, OpenCall
  <2> QED
    BY <2>1, Quiet DEF InProgress, InCall, Attempt
<1>12. CASE IdleExpires \/ ClientLeaves \/ UNCHANGED vars
  <2>1. UNCHANGED <<mode, trace, modelIndex, tries, pc>>
    BY <1>12 DEF IdleExpires, ClientLeaves, vars
  <2> QED
    BY <2>1, Quiet DEF InProgress, InCall, Attempt
<1> QED
  BY <1>1, <1>2, <1>3, <1>4, <1>5, <1>6, <1>7, <1>8, <1>9, <1>10, <1>11, <1>12
     DEF Next, Loops, EndCall

(* What the trace says of the attempts so far is invariant. *)
THEOREM TraceInvariance == Spec => []TInv
<1>1. IInv /\ TInv /\ [Next]_vars => TInv'
  BY NextTInv
<1> QED
  BY Invariance, InitTInv, <1>1, PTL DEF Spec

(* Automatic mode never goes back and no model gets more than 1 +          *)
(* maxRetryCount attempts: the trace has them in order, also where it is   *)
(* truncated.                                                              *)
THEOREM AttemptsAreInOrder == Spec => []AttemptsInOrder
<1>1. IInv /\ TInv => AttemptsInOrder
  BY DEF IInv, Control, TInv, Ordered, InOrder, AttemptsInOrder
<1> QED
  BY Invariance, TraceInvariance, <1>1, PTL

(* No path through the loops forgets an attempt's outcome or tells it      *)
(* twice, whatever the limit of the trace is.                              *)
THEOREM TraceIsTrue == Spec => []TraceTellsOutcomes
<1>1. TInv => TraceTellsOutcomes
  BY DEF TInv, Told
<1> QED
  BY TraceInvariance, <1>1, PTL

-----------------------------------------------------------------------------
(***************************************************************************)
(* The budget of the first model.  An attempt that is not committed is     *)
(* charged for one idle period at most, and a line restores the budget, so *)
(* what is missing is at most one period for each attempt; the current one *)
(* is not yet charged while its timer is armed.                            *)
(***************************************************************************)
Spent(k) == k * PerIdle

Charges == IF InCall /\ stream.armed THEN tries - 1 ELSE tries

HasBudget ==
    modelIndex = 1 =>
    /\ pc = "model" => tries = 0
    /\ ~committed => InitialBudget - budget <= Spent(Charges)

BInv == HasBudget /\ TimeoutsAreRetried

(* One more attempt may cost one more idle period. *)
LEMMA SpentGrows ==
    ASSUME NEW k \in Nat
    PROVE  /\ Spent(k) \in Nat
           /\ Spent(k + 1) = Spent(k) + PerIdle
           /\ k > 0 => Spent(k - 1) \in Nat /\ Spent(k - 1) + PerIdle = Spent(k)
           /\ k <= MaxRetryCount => Spent(k) <= MaxRetryCount * PerIdle
<1>1. PerIdle \in Nat /\ MaxRetryCount \in Nat
  BY StreamAssumption
<1>2. k * PerIdle \in Nat /\ (k + 1) * PerIdle = k * PerIdle + PerIdle
  BY <1>1
<1>3. k > 0 => (k - 1) * PerIdle \in Nat /\ (k - 1) * PerIdle + PerIdle = k * PerIdle
  BY <1>1
<1>4. k <= MaxRetryCount => k * PerIdle <= MaxRetryCount * PerIdle
  BY <1>1
<1> QED
  BY <1>1, <1>2, <1>3, <1>4 DEF Spent

(* Nothing is spent. *)
LEMMA NothingSpent ==
    ASSUME BInv, UNCHANGED <<modelIndex, tries, budget, Charges>>, pc' # "model",
           committed' \/ ~committed
    PROVE  HasBudget'
  BY DEF BInv, HasBudget

LEMMA InitBInv == Init => BInv
<1> SUFFICES ASSUME Init PROVE BInv
  OBVIOUS
<1>1. budget = InitialBudget /\ Charges = 0 /\ tries = 0 /\ pc = "model"
  BY DEF Init, Guard!GInit, Charges, InCall
<1>2. Spent(0) \in Nat /\ InitialBudget \in Nat
  BY SpentGrows, StreamAssumption
<1> QED
  BY <1>1, <1>2 DEF BInv, HasBudget, TimeoutsAreRetried

(* An idle timeout is retried as long as the client is there. *)
LEMMA IdleIsRetryable == ~gone => Retryable(IdleTimeoutError, gone)
  BY DEF Retryable, IdleTimeoutError, PlainError

LEMMA OtherIsNotIdle == OtherError # IdleTimeoutError
<1>1. OtherError.kind = "other" /\ IdleTimeoutError.kind = "idle"
  BY DEF OtherError, IdleTimeoutError, PlainError
<1> QED
  BY <1>1

(* Every step keeps what is missing from the budget within what the        *)
(* attempts were charged.                                                  *)
LEMMA NextHasBudget == IInv /\ TInv /\ BInv /\ [Next]_vars => HasBudget'
<1> SUFFICES ASSUME IInv, TInv, BInv, [Next]_vars PROVE HasBudget'
  OBVIOUS
<1> USE DEF guard, request, history, failure
<1>t. /\ tries \in Nat /\ budget \in Nat /\ budget <= InitialBudget
      /\ InitialBudget \in Nat /\ PerIdle \in Nat
      /\ InCall => tries > 0
  BY StreamAssumption DEF IInv, Control, Guarded, TInv, Told, InProgress
<1>s. /\ Spent(tries) \in Nat /\ Spent(tries + 1) = Spent(tries) + PerIdle
      /\ tries > 0 => Spent(tries - 1) \in Nat /\ Spent(tries - 1) + PerIdle = Spent(tries)
  BY <1>t, SpentGrows
<1>m. modelIndex \in Nat \ {0}
  BY ModelInRange DEF IInv
<1>c. Spent(Charges) \in Nat /\ Spent(Charges) <= Spent(tries)
  BY <1>t, <1>s DEF Charges
<1>1. CASE NewLLMClient
  <2>1. /\ UNCHANGED <<budget, committed>> /\ tries' = 0 /\ ~InCall' /\ ~InCall /\ pc = "model"
        /\ modelIndex' = modelIndex \/ modelIndex' = modelIndex + 1
    BY <1>1 DEF NewLLMClient, InCall
  <2>2. modelIndex' = 1 => modelIndex = 1
    BY <1>m, <2>1
  <2> QED
    BY <2>1, <2>2 DEF BInv, HasBudget, Charges
<1>2. CASE StartAttempt
  <2>1. /\ UNCHANGED <<budget, modelIndex>> /\ tries' = tries + 1 /\ pc = "attempt" /\ pc' = "do"
    BY <1>2 DEF StartAttempt, OpenCall, Guard!Open
  <2>2. ~committed /\ Charges = tries
    BY <2>1 DEF IInv, Committed, Charges, InCall
  <2>3. Charges' \in {tries, tries + 1}
    BY <1>t, <2>1 DEF Charges
  <2>4. Spent(Charges) <= Spent(Charges')
    BY <1>t, <1>s, <2>2, <2>3
  <2> QED
    BY <1>t, <1>s, <2>1, <2>2, <2>3, <2>4 DEF BInv, HasBudget
<1>3. CASE SwitchModel
  <2>1. /\ UNCHANGED <<budget, committed, tries>> /\ pc = "switch" /\ pc' \in {"model", "report"}
        /\ modelIndex' = modelIndex + 1 \/ (modelIndex' = modelIndex /\ pc' = "report")
    BY <1>3 DEF SwitchModel
  <2>2. modelIndex' = 1 => modelIndex = 1 /\ pc' = "report"
    BY <1>m, <2>1
  <2>3. Charges' = Charges
    BY <2>1 DEF Charges, InCall
  <2> QED
    BY <2>1, <2>2, <2>3 DEF BInv, HasBudget
<1>4. CASE StopCommitted \/ ScheduleRetry \/ GiveUpModel \/ WakeUp \/ StopDegradation
           \/ HandleStreamError \/ ReturnError
  <2>1. /\ UNCHANGED <<modelIndex, tries, budget, committed>> /\ pc' # "model" /\ ~InCall /\ ~InCall'
    BY <1>4 DEF StopCommitted, ScheduleRetry, GiveUpModel, WakeUp, StopDegradation,
       HandleStreamError, ReturnError, InCall
  <2>2. Charges' = Charges
    BY <2>1 DEF Charges
  <2> QED
    BY <2>1, <2>2, NothingSpent
<1>5. CASE Callback
  <2> DEFINE InLine == /\ UNCHANGED <<modelIndex, tries, budget, stream.armed>>
                       /\ committed' \/ ~committed
                       /\ pc = "line" /\ pc' \in {"reading", "failing"}
  <2>1. InLine
    <3>0. /\ \A from : Written(from) => pc' \in {"reading", "failing"}
          /\ stream \in StreamType
      BY DEF Written, Fails, IInv, Streamed
    <3>1. ASSUME NEW has \in BOOLEAN, RawLine(has) PROVE InLine
      BY <3>0, <3>1 DEF RawLine, StreamType
    <3>2. ASSUME NEW blank \in BOOLEAN, NEW tool \in BOOLEAN, Token(blank, tool) PROVE InLine
      BY <3>0, <3>2 DEF Token, StreamType
    <3>3. MetaLine \/ DoneLine \/ Piece => InLine
      BY <3>0 DEF MetaLine, DoneLine, Piece
    <3> QED
      BY <1>5, <3>1, <3>2, <3>3 DEF Callback
  <2>2. Charges' = Charges
    BY <2>1 DEF Charges, InCall
  <2> QED
    BY <2>1, <2>2, NothingSpent
<1>6. CASE DoFails \/ DoReturns \/ ReadFails \/ StreamEnds \/ ClientLeaves \/ UNCHANGED vars
  <2>1. /\ UNCHANGED <<modelIndex, tries, budget, committed, stream>>
        /\ InCall' = InCall /\ (pc' = "model" => pc = "model")
    BY <1>6 DEF DoFails, DoReturns, ReadFails, StreamEnds, Fails, ClientLeaves, vars, InCall
  <2>2. Charges' = Charges
    BY <2>1 DEF Charges
  <2> QED
    BY <2>1, <2>2 DEF BInv, HasBudget
<1>7. CASE Headers \/ ReadLine
  <2>1. /\ budget' = InitialBudget /\ UNCHANGED <<modelIndex, tries>> /\ pc' # "model" /\ InCall
    BY <1>7 DEF Headers, ReadLine, ResetTimer, Guard!Progress, Fails, InCall
  <2>2. Charges' = tries \/ Charges' = tries - 1
    BY <2>1 DEF Charges
  <2>3. Spent(Charges') \in Nat
    BY <1>t, <1>s, <2>1, <2>2
  <2> QED
    BY <1>t, <2>1, <2>3 DEF HasBudget
<1>8. CASE EndFailed \/ EndSucceeded \/ EndWithTool
  <2>1. /\ UNCHANGED <<budget, modelIndex, tries, committed>> /\ InCall /\ ~InCall' /\ pc' # "model"
    BY <1>8 DEF EndFailed, EndSucceeded, EndWithTool, CloseCall, Guard!Close, InCall
  <2>2. Charges' = tries
    BY <2>1 DEF Charges
  <2> QED
    BY <1>t, <1>s, <1>c, <2>1, <2>2 DEF BInv, HasBudget
<1>9. CASE ToolRound
  <2>1. committed' /\ pc' # "model"
    BY <1>9 DEF ToolRound, OpenCall, IInv, Committed
  <2> QED
    BY <2>1 DEF HasBudget
<1>10. CASE IdleExpires
  <2>1. /\ UNCHANGED <<modelIndex, tries, committed, pc>> /\ InCall /\ stream.armed
        /\ ~stream'.armed /\ budget' = Guard!Charged
    BY <1>10 DEF IdleExpires, Guard!LogIdle, Guard!Abort, InCall, IInv, Streamed, StreamType
  <2>2. Charges = tries - 1 /\ Charges' = tries
    BY <2>1 DEF Charges, InCall
  <2>3. budget' \in Nat /\ budget - budget' <= PerIdle
    BY <1>t, <2>1 DEF Guard!Charged
  <2> QED
    BY <1>t, <1>s, <2>1, <2>2, <2>3 DEF BInv, HasBudget, InCall
<1> QED
  BY <1>1, <1>2, <1>3, <1>4, <1>5, <1>6, <1>7, <1>8, <1>9, <1>10
     DEF Next, Loops, EndCall, Upstream

(* A model is given up after an idle timeout only when its retries are     *)
(* used up: the budget cannot be.                                          *)
LEMMA NextRetried == IInv /\ BInv /\ [Next]_vars => TimeoutsAreRetried'
<1> SUFFICES ASSUME IInv, BInv, [Next]_vars, BudgetForRetries,
                    pc' \in {"switch", "report"}, modelIndex' = 1,
                    lastErr' = IdleTimeoutError, ~committed', ~gone'
             PROVE  tries' = MaxRetryCount + 1
  BY DEF TimeoutsAreRetried, BudgetForRetries
<1> USE DEF guard, request, history, failure
<1>1. CASE GiveUpModel
  <2>1. /\ pc = "failed" /\ ~committed /\ ~(WantsRetry /\ budget >= RetryInterval)
        /\ UNCHANGED <<modelIndex, lastErr, gone, tries>>
    BY <1>1 DEF GiveUpModel
  <2>2. tries > MaxRetryCount \/ budget < RetryInterval
    <3>1. Retryable(lastErr, gone)
      BY <2>1, IdleIsRetryable
    <3>2. ~(tries <= MaxRetryCount) \/ ~(budget >= RetryInterval)
      BY <2>1, <3>1 DEF WantsRetry
    <3> QED
      BY <3>2, StreamAssumption DEF IInv, Control, Guarded
  <2>3. InitialBudget - budget <= Spent(tries)
    BY <2>1 DEF BInv, HasBudget, Charges, InCall
  <2>4. /\ tries \in Nat /\ tries <= MaxRetryCount + 1 /\ budget \in Nat
        /\ {MaxRetryCount, InitialBudget, RetryInterval, PerIdle} \subseteq Nat
    BY StreamAssumption DEF IInv, Control, Guarded
  <2>5. /\ MaxRetryCount * PerIdle \in Nat /\ Spent(tries) \in Nat
        /\ tries <= MaxRetryCount => Spent(tries) <= MaxRetryCount * PerIdle
    BY <2>4, SpentGrows
  <2>6. ~(tries <= MaxRetryCount)
    BY <2>2, <2>3, <2>4, <2>5 DEF BudgetForRetries
  <2> QED
    BY <2>1, <2>4, <2>6
<1>2. CASE SwitchModel \/ StopDegradation
  <2>1. pc = "switch" /\ UNCHANGED <<lastErr, committed, gone, tries>>
    BY <1>2 DEF SwitchModel, StopDegradation
  <2>2. modelIndex = 1
    <3>1. modelIndex \in Nat \ {0} /\ (modelIndex' = modelIndex \/ modelIndex' = modelIndex + 1)
      BY <1>2, ModelInRange DEF SwitchModel, StopDegradation, IInv
    <3> QED
      BY <3>1
  <2> QED
    BY <2>1, <2>2 DEF BInv, TimeoutsAreRetried
<1>3. CASE ClientLeaves \/ UNCHANGED vars
  BY <1>3 DEF ClientLeaves, vars, BInv, TimeoutsAreRetried
<1>4. ~NewLLMClient
  <2>1. NewLLMClient => pc' = "attempt" \/ lastErr' = OtherError
    BY DEF NewLLMClient
  <2> QED
    BY <2>1, OtherIsNotIdle
<1>5. ~StopCommitted
  BY DEF StopCommitted
<1>6. ~(StartAttempt \/ ScheduleRetry \/ WakeUp \/ HandleStreamError \/ ReturnError)
  BY DEF StartAttempt, OpenCall, ScheduleRetry, WakeUp, HandleStreamError, ReturnError
<1>7. ~Callback
  <2>1. \A from : Written(from) => pc' \in {"reading", "failing"}
    BY DEF Written, Fails
  <2>2. \A has \in BOOLEAN : ~RawLine(has)
    BY <2>1 DEF RawLine
  <2>3. \A blank, tool \in BOOLEAN : ~Token(blank, tool)
    BY <2>1 DEF Token
  <2>4. ~(MetaLine \/ DoneLine \/ Piece)
    BY <2>1 DEF MetaLine, DoneLine, Piece
  <2> QED
    BY <2>2, <2>3, <2>4 DEF Callback
<1>8. ~EndCall
  BY DEF EndCall, EndFailed, EndSucceeded, EndWithTool, ToolRound, OpenCall
<1>9. ~Upstream
  BY DEF Upstream, DoFails, DoReturns, Headers, ReadLine, ReadFails, StreamEnds, Fails
<1>10. ~IdleExpires
  BY DEF IdleExpires
<1> QED
  BY <1>1, <1>2, <1>3, <1>4, <1>5, <1>6, <1>7, <1>8, <1>9, <1>10 DEF Next, Loops

(* What the window has cost so far, and that a retry was paid for, is      *)
(* invariant.                                                              *)
THEOREM BudgetInvariance == Spec => []BInv
<1>1. IInv /\ TInv /\ BInv /\ [Next]_vars => BInv'
  BY NextHasBudget, NextRetried DEF BInv
<1> QED
  BY Invariance, TraceInvariance, InitBInv, <1>1, PTL DEF Spec

(* With room in the budget for an idle period of every attempt but the     *)
(* last, and for the wait, a silent model gets all its attempts, whatever  *)
(* lines arrive in between and whenever the timers fire.                   *)
THEOREM TimeoutsRetried == Spec => []TimeoutsAreRetried
<1>1. BInv => TimeoutsAreRetried
  BY DEF BInv
<1> QED
  BY BudgetInvariance, <1>1, PTL
=============================================================================
