--------------------------- MODULE LogServiceProofs ---------------------------
(***************************************************************************)
(* Theorems about LogService, for any logs and errors, any capacity of the *)
(* channel, any sample and any number of windows.                          *)
(*                                                                         *)
(* The argument: a log is in one place at a time.  It is with its request, *)
(* in the channel, in the hand of the writer, or recorded (Placed), and it *)
(* leaves each of them for ever.  The sampler's counters are those of the  *)
(* window that it saw last (Sampled).                                      *)
(***************************************************************************)
EXTENDS LogService, TLAPS

Queued == {logChan[i] : i \in 1..Len(logChan)}

Types ==
    /\ request \in [Logs -> RequestState]
    /\ error \in [Logs -> Errors \union {NoError}]
    /\ logChan \in Seq(Logs) /\ Len(logChan) <= Capacity
    /\ logChanClosed \in BOOLEAN /\ stopChanClosed \in BOOLEAN
    /\ writer \in {"select", "drain", "exit"}
    /\ inHand = {} \/ \E l \in Logs : inHand = {l}
    /\ metrics \in [Logs -> Nat]
    /\ saved \subseteq reporting /\ reporting \subseteq Logs
    /\ early \subseteq Logs
    /\ main \in MainState
    /\ stopChanClosed <=> main # "running"
    /\ logChanClosed <=> main \in {"waiting", "stopped", "exited"}

SamplerTypes ==
    /\ clock \in Windows
    /\ windowID \in Windows \union {-1}
    /\ counts \in [Errors -> 0..ErrorLogSampleN]
    /\ offered \in [Errors -> [Windows -> Nat]]
    /\ allowed \in [Errors -> [Windows -> Nat]]

(* The log of a request that has not returned is nowhere else; one that is *)
(* in the channel or in the writer's hand is not recorded, and there once; *)
(* any other has been recorded.                                            *)
Placed ==
    /\ \A i, j \in 1..Len(logChan) : logChan[i] = logChan[j] => i = j
    /\ Queued \cap inHand = {}
    /\ \A l \in Queued \union inHand : request[l] = "returned"
    /\ \A l \in Logs :
          metrics[l] = IF request[l] = "returned" /\ l \notin Queued \union inHand THEN 1 ELSE 0

(* The writer does not end before it has emptied the channel. *)
Drained ==
    /\ \A l \in early : request[l] = "returned"
    /\ writer # "select" => stopChanClosed
    /\ writer = "exit" => inHand = {} /\ early \cap Queued = {}

(* The counters are those of the last window in which a log was offered.   *)
Sampled ==
    /\ windowID <= clock
    /\ \A e \in Errors, w \in Windows :
          /\ w > windowID => offered[e][w] = 0
          /\ w = windowID => counts[e] = allowed[e][w]
          /\ allowed[e][w] = IF offered[e][w] < ErrorLogSampleN
                             THEN offered[e][w] ELSE ErrorLogSampleN

IInv == Types /\ SamplerTypes /\ Placed /\ Drained /\ Sampled

-----------------------------------------------------------------------------
(* The channel.                                                            *)

LEMMA QueuedAppend ==
    ASSUME logChan \in Seq(Logs), NEW l \in Logs, logChan' = Append(logChan, l)
    PROVE  /\ Len(logChan') = Len(logChan) + 1
           /\ \A i \in 1..Len(logChan') : logChan'[i] = IF i <= Len(logChan) THEN logChan[i] ELSE l
           /\ Queued' = Queued \union {l}
<1>1. /\ Len(logChan') = Len(logChan) + 1
      /\ \A i \in 1..Len(logChan') : logChan'[i] = IF i <= Len(logChan) THEN logChan[i] ELSE l
      /\ Len(logChan) \in Nat
  OBVIOUS
<1>2. Queued' \subseteq Queued \union {l}
  BY <1>1 DEF Queued
<1>3. Queued \subseteq Queued'
  BY <1>1 DEF Queued
<1>4. l \in Queued'
  <2>1. logChan'[Len(logChan) + 1] = l /\ Len(logChan) + 1 \in 1..Len(logChan')
    BY <1>1
  <2> QED
    BY <2>1 DEF Queued
<1> QED
  BY <1>1, <1>2, <1>3, <1>4

LEMMA QueuedTail ==
    ASSUME logChan \in Seq(Logs), logChan # <<>>, logChan' = Tail(logChan)
    PROVE  /\ Len(logChan') = Len(logChan) - 1 /\ Len(logChan) \in Nat \ {0}
           /\ \A i \in 1..Len(logChan') : logChan'[i] = logChan[i + 1]
           /\ Head(logChan) = logChan[1] /\ Head(logChan) \in Queued
           /\ Queued = Queued' \union {Head(logChan)}
<1>1. /\ Len(logChan') = Len(logChan) - 1 /\ Len(logChan) \in Nat \ {0}
      /\ \A i \in 1..Len(logChan') : logChan'[i] = logChan[i + 1]
      /\ Head(logChan) = logChan[1]
  OBVIOUS
<1>2. Head(logChan) \in Queued
  BY <1>1 DEF Queued
<1>3. Queued' \subseteq Queued
  BY <1>1 DEF Queued
<1>4. ASSUME NEW i \in 1..Len(logChan) PROVE logChan[i] \in Queued' \union {Head(logChan)}
  <2>1. CASE i = 1
    BY <1>1, <2>1
  <2>2. CASE i # 1
    <3>1. i - 1 \in 1..Len(logChan') /\ logChan'[i - 1] = logChan[i]
      BY <1>1, <2>2
    <3> QED
      BY <3>1 DEF Queued
  <2> QED
    BY <2>1, <2>2
<1> QED
  BY <1>1, <1>2, <1>3, <1>4 DEF Queued

LEMMA InitIInv == Init => IInv
<1> SUFFICES ASSUME Init PROVE IInv
  OBVIOUS
<1> USE LogAssumption DEF Init
<1>1. Len(logChan) = 0 /\ Queued = {}
  BY DEF Queued
<1>2. Types
  <2>1. logChan \in Seq(Logs) /\ Len(logChan) <= Capacity
    BY <1>1
  <2>2. request \in [Logs -> RequestState] /\ main \in MainState
    BY DEF RequestState, MainState
  <2> QED
    BY <2>1, <2>2 DEF Types
<1>3. SamplerTypes
  BY DEF SamplerTypes, Windows, NoCounts
<1>4. Placed /\ Drained
  BY <1>1 DEF Placed, Drained
<1>5. Sampled
  BY DEF Sampled, Windows
<1> QED
  BY <1>2, <1>3, <1>4, <1>5 DEF IInv

-----------------------------------------------------------------------------
(* The sampler.                                                            *)

LEMMA AllowSamples ==
    ASSUME SamplerTypes, Sampled, NEW e \in Errors, Allow(e), clock' = clock
    PROVE  SamplerTypes' /\ Sampled'
<1> DEFINE old == CountsNow[e]
           plus == IF Allowed(e) THEN 1 ELSE 0
<1>1. CountsNow \in [Errors -> 0..ErrorLogSampleN] /\ ErrorLogSampleN \in Nat \ {0}
  BY LogAssumption DEF CountsNow, NoCounts, SamplerTypes
<1>2. clock \in Windows
  BY DEF SamplerTypes
<1>3. /\ counts' \in [Errors -> 0..ErrorLogSampleN]
      /\ counts'[e] = old + plus
      /\ \A f \in Errors : f # e => counts'[f] = CountsNow[f]
  BY <1>1 DEF Allow, Allowed
<1>4. /\ offered' \in [Errors -> [Windows -> Nat]]
      /\ \A f \in Errors, w \in Windows :
            offered'[f][w] = IF f = e /\ w = clock THEN offered[f][w] + 1 ELSE offered[f][w]
  BY <1>2 DEF Allow, SamplerTypes
<1>5. /\ allowed' \in [Errors -> [Windows -> Nat]]
      /\ \A f \in Errors, w \in Windows :
            allowed'[f][w] = IF f = e /\ w = clock THEN allowed[f][w] + plus ELSE allowed[f][w]
  BY <1>2 DEF Allow, SamplerTypes
<1>6. windowID' = clock
  BY DEF Allow
<1>7. SamplerTypes'
  BY <1>3, <1>4, <1>5, <1>6 DEF SamplerTypes
<1>8. \A f \in Errors : CountsNow[f] = allowed[f][clock]
  <2>1. CASE windowID = clock
    BY <2>1 DEF CountsNow, Sampled, SamplerTypes
  <2>2. CASE windowID # clock
    BY <1>1, <2>2 DEF CountsNow, NoCounts, Sampled, SamplerTypes, Windows
  <2> QED
    BY <2>1, <2>2
<1>9. \A f \in Errors, w \in Windows :
          allowed'[f][w] = IF offered'[f][w] < ErrorLogSampleN THEN offered'[f][w] ELSE ErrorLogSampleN
  <2> SUFFICES ASSUME NEW f \in Errors, NEW w \in Windows
               PROVE  allowed'[f][w] = IF offered'[f][w] < ErrorLogSampleN
                                       THEN offered'[f][w] ELSE ErrorLogSampleN
    OBVIOUS
  <2>1. offered[f][w] \in Nat /\ allowed[f][w] \in Nat
    BY DEF SamplerTypes
  <2>2. allowed[f][w] = IF offered[f][w] < ErrorLogSampleN THEN offered[f][w] ELSE ErrorLogSampleN
    BY DEF Sampled
  <2>3. CASE f = e /\ w = clock
    <3>1. offered'[f][w] = offered[f][w] + 1 /\ allowed'[f][w] = allowed[f][w] + plus
      BY <1>4, <1>5, <2>3
    <3>2. plus = IF allowed[f][w] < ErrorLogSampleN THEN 1 ELSE 0
      BY <1>8, <2>3 DEF Allowed
    <3> HIDE DEF plus
    <3> QED
      BY <1>1, <2>1, <2>2, <3>1, <3>2
  <2>4. CASE ~(f = e /\ w = clock)
    BY <1>4, <1>5, <2>2, <2>4
  <2> QED
    BY <2>3, <2>4
<1>10. \A f \in Errors, w \in Windows : w > clock => offered'[f][w] = 0
  BY <1>4 DEF Sampled, SamplerTypes, Windows
<1>11. \A f \in Errors : counts'[f] = allowed'[f][clock]
  BY <1>2, <1>3, <1>5, <1>8
<1> QED
  BY <1>6, <1>7, <1>9, <1>10, <1>11 DEF Sampled, SamplerTypes, Windows

LEMMA NextSampled == ASSUME IInv, [Next]_vars PROVE SamplerTypes' /\ Sampled'
<1>1. CASE UNCHANGED <<sampler, clock>>
  BY <1>1 DEF IInv, SamplerTypes, Sampled, sampler
<1>2. ASSUME NEW l \in Logs, LogDirectToStorage(l), clock' = clock PROVE SamplerTypes' /\ Sampled'
  <2>1. CASE IsSampled(l)
    <3>1. error[l] \in Errors /\ Allow(error[l])
      BY <1>2, <2>1 DEF LogDirectToStorage, IsSampled, IInv, Types
    <3> QED
      BY <1>2, <3>1, AllowSamples DEF IInv
  <2>2. CASE ~IsSampled(l)
    BY <1>1, <1>2, <2>2 DEF LogDirectToStorage
  <2> QED
    BY <2>1, <2>2
<1>3. CASE Tick
  BY <1>3, LogAssumption DEF Tick, IInv, SamplerTypes, Sampled, Windows, sinks, sampler
<1>4. ASSUME NEW l \in Logs, Request(l) PROVE SamplerTypes' /\ Sampled'
  BY <1>1, <1>2, <1>4 DEF Request, LogAsync, LogOverflow, LogPanics, LogInline, sinks
<1>5. CASE Take \/ SeeStop \/ DrainEnds \/ CloseStopChan \/ Stop \/ UNCHANGED vars
  BY <1>1, <1>5 DEF Take, SeeStop, DrainEnds, CloseStopChan, Stop, CloseLogChan, WriterDone, Exit,
     vars, sinks
<1>6. CASE Handle
  BY <1>2, <1>6 DEF Handle, IInv, Types
<1> QED
  BY <1>3, <1>4, <1>5, <1>6 DEF Next, LogWriter

-----------------------------------------------------------------------------
(* The logs.                                                               *)

LEMMA NextTypes == ASSUME IInv, [Next]_vars PROVE Types'
<1> USE DEF IInv, Types, RequestState, MainState
<1>1. ASSUME NEW l \in Logs, LogDirectToStorage(l)
      PROVE  metrics' \in [Logs -> Nat] /\ saved' \subseteq reporting' /\ reporting' \subseteq Logs
  <2>1. metrics' = [metrics EXCEPT ![l] = @ + 1] /\ reporting' = reporting \union {l}
        /\ saved' \subseteq saved \union {l}
    BY <1>1 DEF LogDirectToStorage, sampler
  <2> QED
    BY <2>1
<1>2. ASSUME NEW l \in Logs, NEW e \in Errors \union {NoError}, LogAsync(l, e) PROVE Types'
  <2>1. logChan' \in Seq(Logs) /\ Len(logChan') = Len(logChan) + 1
    BY <1>2 DEF LogAsync
  <2>2. Len(logChan) \in Nat /\ Capacity \in Nat
    BY LogAssumption
  <2>3. Len(logChan') <= Capacity
    BY <1>2, <2>1, <2>2 DEF LogAsync
  <2>4. early' \subseteq Logs
    BY <1>2 DEF LogAsync
  <2>5. request' \in [Logs -> RequestState] /\ error' \in [Logs -> Errors \union {NoError}]
    BY <1>2 DEF LogAsync, Ends
  <2> QED
    BY <1>2, <2>1, <2>3, <2>4, <2>5 DEF LogAsync, Ends, worker, sinks
<1>3. ASSUME NEW l \in Logs, NEW e \in Errors \union {NoError}, LogOverflow(l, e) \/ LogPanics(l, e)
      PROVE  Types'
  <2>1. request' \in [Logs -> RequestState] /\ error' \in [Logs -> Errors \union {NoError}]
    BY <1>3 DEF LogOverflow, LogPanics, Ends
  <2>2. UNCHANGED <<channel, worker, sinks, main>>
    BY <1>3 DEF LogOverflow, LogPanics
  <2> QED
    BY <2>1, <2>2 DEF channel, worker, sinks
<1>4. ASSUME NEW l \in Logs, LogInline(l) PROVE Types'
  <2>1. request' \in [Logs -> RequestState]
    BY <1>4 DEF LogInline
  <2> QED
    BY <1>1, <1>4, <2>1 DEF LogInline, channel, worker
<1>5. CASE Take
  <2>1. logChan' \in Seq(Logs) /\ Len(logChan') <= Len(logChan) /\ Head(logChan) \in Logs
    BY <1>5 DEF Take
  <2>2. Len(logChan') <= Capacity
    <3>1. Len(logChan) \in Nat /\ Len(logChan') \in Nat /\ Capacity \in Nat
      BY <2>1, LogAssumption
    <3> QED
      BY <2>1, <3>1
  <2> QED
    BY <1>5, <2>1, <2>2 DEF Take, sinks
<1>6. CASE Handle
  BY <1>1, <1>6 DEF Handle, channel
<1>7. CASE SeeStop \/ DrainEnds
  BY <1>7 DEF SeeStop, DrainEnds, channel, sinks
<1>8. CASE CloseStopChan
  BY <1>8 DEF CloseStopChan, worker, sinks
<1>9. CASE CloseLogChan
  BY <1>9 DEF CloseLogChan, worker, sinks
<1>10. CASE WriterDone \/ Exit
  BY <1>10 DEF WriterDone, Exit, channel, worker, sinks
<1>11. CASE Tick \/ UNCHANGED vars
  <2>1. UNCHANGED <<request, error, channel, worker, sinks, main>>
    BY <1>11 DEF Tick, vars
  <2> QED
    BY <2>1 DEF channel, worker, sinks
<1> QED
  BY <1>2, <1>3, <1>4, <1>5, <1>6, <1>7, <1>8, <1>9, <1>10, <1>11 DEF Next, Request, LogWriter, Stop

LEMMA NextPlaced == ASSUME IInv, [Next]_vars PROVE Placed'
<1> USE DEF IInv
<1> DEFINE There == Queued \union inHand
           Once == \A i, j \in 1..Len(logChan) : logChan[i] = logChan[j] => i = j
<1>0. There \subseteq Logs
  BY DEF Queued, Types
<1>1. ASSUME UNCHANGED logChan PROVE Queued' = Queued /\ Once'
  BY <1>1 DEF Queued, Placed
<1>2. ASSUME NEW l \in Logs, NEW e \in Errors \union {NoError}, LogAsync(l, e) PROVE Placed'
  <2>1. /\ request[l] = "serving" /\ request' = [request EXCEPT ![l] = "returned"]
        /\ logChan' = Append(logChan, l) /\ UNCHANGED <<inHand, metrics>>
    BY <1>2 DEF LogAsync, Ends, worker, sinks
  <2>2. l \notin There
    BY <2>1 DEF Placed
  <2>3. /\ Queued' = Queued \union {l} /\ Len(logChan') = Len(logChan) + 1
        /\ \A i \in 1..Len(logChan') : logChan'[i] = IF i <= Len(logChan) THEN logChan[i] ELSE l
    BY <2>1, QueuedAppend DEF Types
  <2>4. Once'
    <3>1. Len(logChan) \in Nat /\ \A i \in 1..Len(logChan) : logChan[i] # l
      BY <2>2 DEF Queued, Types
    <3> QED
      BY <2>3, <3>1 DEF Placed
  <2>5. \A m \in Logs : request'[m] = IF m = l THEN "returned" ELSE request[m]
    BY <2>1 DEF Types
  <2> QED
    BY <2>1, <2>2, <2>3, <2>4, <2>5 DEF Placed
<1>3. ASSUME NEW l \in Logs, NEW e \in Errors \union {NoError}, LogOverflow(l, e) \/ LogPanics(l, e)
      PROVE  Placed'
  <2>1. /\ request[l] = "serving" /\ UNCHANGED <<logChan, inHand, metrics>>
        /\ \A m \in Logs : m # l => request'[m] = request[m]
        /\ request'[l] # "returned"
    BY <1>3 DEF LogOverflow, LogPanics, Ends, channel, worker, sinks, Types
  <2>2. l \notin There
    BY <2>1 DEF Placed
  <2>3. \A m \in There : request'[m] = "returned"
    BY <1>0, <2>1, <2>2 DEF Placed
  <2>4. \A m \in Logs : metrics'[m] = IF request'[m] = "returned" /\ m \notin There THEN 1 ELSE 0
    BY <2>1, <2>2 DEF Placed
  <2> QED
    BY <1>1, <2>1, <2>3, <2>4 DEF Placed
<1>4. ASSUME NEW l \in Logs, LogInline(l) PROVE Placed'
  <2>1. /\ request[l] = "overflow" /\ UNCHANGED <<logChan, inHand>>
        /\ \A m \in Logs : request'[m] = IF m = l THEN "returned" ELSE request[m]
        /\ \A m \in Logs : metrics'[m] = IF m = l THEN metrics[m] + 1 ELSE metrics[m]
    BY <1>4 DEF LogInline, LogDirectToStorage, channel, worker, Types
  <2>2. l \notin There
    BY <2>1 DEF Placed
  <2>3. \A m \in There : request'[m] = "returned"
    BY <1>0, <2>1, <2>2 DEF Placed
  <2>4. \A m \in Logs : metrics'[m] = IF request'[m] = "returned" /\ m \notin There THEN 1 ELSE 0
    BY <2>1, <2>2 DEF Placed
  <2> QED
    BY <1>1, <2>1, <2>3, <2>4 DEF Placed
<1>5. CASE Take
  <2>1. /\ inHand = {} /\ inHand' = {Head(logChan)} /\ UNCHANGED <<request, metrics>>
        /\ logChan # <<>> /\ logChan' = Tail(logChan)
    BY <1>5 DEF Take, sinks
  <2>2. /\ Len(logChan') = Len(logChan) - 1 /\ Len(logChan) \in Nat \ {0}
        /\ \A i \in 1..Len(logChan') : logChan'[i] = logChan[i + 1]
        /\ Head(logChan) = logChan[1]
        /\ Queued = Queued' \union {Head(logChan)}
    BY <2>1, QueuedTail DEF Types
  <2>3. Once' /\ Head(logChan) \notin Queued'
    BY <2>2 DEF Placed, Queued
  <2> QED
    BY <2>1, <2>2, <2>3 DEF Placed
<1>6. CASE Handle
  <2>1. PICK l \in Logs : inHand = {l} /\ LogDirectToStorage(l)
    BY <1>6 DEF Handle, Types
  <2>2. /\ inHand' = {} /\ UNCHANGED <<request, logChan>>
        /\ \A m \in Logs : metrics'[m] = IF m = l THEN metrics[m] + 1 ELSE metrics[m]
    BY <1>6, <2>1 DEF Handle, LogDirectToStorage, channel, Types
  <2> QED
    BY <1>1, <2>1, <2>2 DEF Placed
<1>7. CASE Exit
  <2>1. /\ UNCHANGED <<logChan, inHand, metrics>>
        /\ \A l \in Logs : request'[l] = "returned" <=> request[l] = "returned"
    BY <1>7 DEF Exit, channel, worker, sinks, Types
  <2> QED
    BY <1>1, <2>1 DEF Placed, Queued, Types
<1>8. CASE SeeStop \/ DrainEnds \/ CloseStopChan \/ CloseLogChan \/ WriterDone \/ Tick \/ UNCHANGED vars
  <2>1. UNCHANGED <<request, logChan, inHand, metrics>>
    BY <1>8 DEF SeeStop, DrainEnds, CloseStopChan, CloseLogChan, WriterDone, Tick, vars,
       channel, worker, sinks
  <2> QED
    BY <1>1, <2>1 DEF Placed
<1> QED
  BY <1>2, <1>3, <1>4, <1>5, <1>6, <1>7, <1>8 DEF Next, Request, LogWriter, Stop

LEMMA NextDrained == ASSUME IInv, [Next]_vars PROVE Drained'
<1> USE DEF IInv, Drained
<1>1. ASSUME NEW l \in Logs, NEW e \in Errors \union {NoError}, LogAsync(l, e) PROVE Drained'
  <2>1. request[l] = "serving" /\ Queued' = Queued \union {l} /\ UNCHANGED <<stopChanClosed, worker>>
    BY <1>1, QueuedAppend DEF LogAsync, Ends, Types
  <2>2. early' = IF stopChanClosed THEN early ELSE early \union {l}
    BY <1>1 DEF LogAsync
  <2>3. \A m \in Logs : request'[m] = IF m = l THEN "returned" ELSE request[m]
    BY <1>1 DEF LogAsync, Types
  <2> QED
    BY <2>1, <2>2, <2>3 DEF worker, Types
<1>2. ASSUME UNCHANGED <<logChan, early>>,
             \A l \in Logs : request[l] = "returned" => request'[l] = "returned"
      PROVE  Queued' = Queued /\ \A l \in early' : request'[l] = "returned"
  BY <1>2 DEF Queued, Types
<1>3. ASSUME NEW l \in Logs, NEW e \in Errors \union {NoError}, LogOverflow(l, e) \/ LogPanics(l, e)
      PROVE  Drained'
  BY <1>2, <1>3 DEF LogOverflow, LogPanics, Ends, channel, worker, Types
<1>4. ASSUME NEW l \in Logs, LogInline(l) PROVE Drained'
  BY <1>2, <1>4 DEF LogInline, channel, worker, Types
<1>5. CASE Take
  BY <1>5 DEF Take
<1>6. CASE Handle
  BY <1>2, <1>6 DEF Handle, channel
<1>7. CASE SeeStop
  BY <1>2, <1>7 DEF SeeStop, channel
<1>8. CASE DrainEnds
  <2>1. Queued = {}
    BY <1>8 DEF DrainEnds, Queued
  <2> QED
    BY <1>2, <1>8, <2>1 DEF DrainEnds, channel
<1>9. CASE CloseStopChan \/ CloseLogChan
  BY <1>2, <1>9 DEF CloseStopChan, CloseLogChan, worker
<1>10. CASE WriterDone \/ Exit \/ Tick \/ UNCHANGED vars
  BY <1>2, <1>10 DEF WriterDone, Exit, Tick, vars, channel, worker, Types
<1> QED
  BY <1>1, <1>3, <1>4, <1>5, <1>6, <1>7, <1>8, <1>9, <1>10 DEF Next, Request, LogWriter, Stop

-----------------------------------------------------------------------------
(* The invariant is one of the specification. *)
THEOREM Invariance == Spec => []IInv
<1>1. IInv /\ [Next]_vars => IInv'
  BY NextTypes, NextSampled, NextPlaced, NextDrained DEF IInv
<1> QED
  BY InitIInv, <1>1, PTL DEF Spec

(* The variables keep their types and the channel its capacity, whatever   *)
(* comes together (LogAsync, Stop).                                        *)
THEOREM TypeCorrect == Spec => []TypeOK
<1>1. IInv => TypeOK
  BY DEF IInv, Types, SamplerTypes, TypeOK
<1> QED
  BY Invariance, <1>1, PTL

(* The metrics of a request are counted once, by the writer or by the      *)
(* request itself (LogAsync, logWriter).                                   *)
THEOREM CountedOnce == Spec => []RecordedOnce
<1>1. ASSUME IInv, NEW l \in Logs PROVE metrics[l] <= 1
  <2>1. metrics[l] = 0 \/ metrics[l] = 1
    BY <1>1 DEF IInv, Placed
  <2> QED
    BY <2>1
<1>2. IInv => RecordedOnce
  BY <1>1 DEF RecordedOnce
<1> QED
  BY Invariance, <1>2, PTL

(* The sampler lets through its share and no fewer (ErrorLogSampler).      *)
THEOREM SampleIsExact == Spec => []SampledExactly
<1>1. IInv => SampledExactly
  BY DEF IInv, Sampled, SampledExactly
<1> QED
  BY Invariance, <1>1, PTL

(* When the writer has ended, what was in the channel before Stop has been *)
(* recorded (logWriter, Stop).                                             *)
THEOREM StopDrains == Spec => []DrainComplete
<1>1. IInv => DrainComplete
  BY DEF IInv, Types, Placed, Drained, DrainComplete
<1> QED
  BY Invariance, <1>1, PTL
=============================================================================
