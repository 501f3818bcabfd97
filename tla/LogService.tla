------------------------------ MODULE LogService ------------------------------
(***************************************************************************)
(* The log of each chat request, from the deferred logCompletion to the    *)
(* metrics and the storage, and how the process shuts down:                *)
(* internal/service/log_record.go and error_log_sampler.go, Stop of        *)
(* internal/bootstrap/service_context.go, main.go.                         *)
(*                                                                         *)
(* A request hands its log to a bounded channel, or handles it itself when *)
(* the channel is full.  One writer goroutine empties the channel.  Both   *)
(* call logDirectToStorage, one at a time (ls.mu), which is one action.    *)
(* The main goroutine stops the service before it stops the server, so     *)
(* requests come and end during all of the shutdown but its last step.     *)
(*                                                                         *)
(* The sampler's clock is the wall clock, taken not to step back.          *)
(***************************************************************************)
EXTENDS Integers, Sequences

CONSTANTS
    Logs,            \* bound: the requests, each with one log
    Capacity,        \* cap(logChan)
    Errors,          \* pairs of a user and a first error type
    ErrorLogSampleN, \* error logs the sampler allows of a pair in a window
    MaxWindow,       \* bound: sampling windows the clock goes through
    NoError          \* stands for the error of a log without errors

ASSUME LogAssumption ==
    /\ Capacity \in Nat \ {0}
    /\ ErrorLogSampleN \in Nat \ {0}
    /\ MaxWindow \in Nat
    /\ NoError \notin Errors

VARIABLES
    policy,           \* errorLogMode, or "off" for the storage type "none"
    request,          \* request[l]: where the goroutine of the request stands
    error,            \* error[l]: the first error of the log
    logChan,
    logChanClosed,
    stopChanClosed,
    writer,           \* the logWriter goroutine: "select", "drain", "exit"
    inHand,           \* the log that it took from logChan, as a set
    metrics,          \* metrics[l]: times that RecordChatLog counted the log
    saved,            \* the logs in the storage
    reporting,        \* the logs that a ReportMetrics goroutine was started for
    clock,            \* the sampling window that time is in
    windowID, counts, \* the sampler
    offered,          \* history: offered[e][w], the logs put to the sampler
    allowed,          \* history: allowed[e][w], those it let through
    early,            \* history: logs that went into logChan before Stop
    main              \* the main goroutine

channel == <<logChan, logChanClosed, stopChanClosed, early>>
worker == <<writer, inHand>>
sampler == <<windowID, counts, offered, allowed>>
sinks == <<metrics, saved, reporting, sampler>>
vars == <<policy, request, error, channel, worker, sinks, clock, main>>

Windows == 0..MaxWindow
NoCounts == [e \in Errors |-> 0]

(* "serving": the model is being called; "overflow": logChan was full;     *)
(* "panicked": the deferred logCompletion sent on the closed channel;      *)
(* "killed": the process ended first.                                      *)
RequestState == {"serving", "overflow", "returned", "panicked", "killed"}

(* "waiting": both channels are closed and Stop waits for the writer.      *)
MainState == {"running", "stopping", "waiting", "stopped", "exited"}

Init ==
    /\ policy \in {"off", "all", "sampled", "none"}
    /\ request = [l \in Logs |-> "serving"]
    /\ error = [l \in Logs |-> NoError]
    /\ logChan = <<>> /\ logChanClosed = FALSE /\ stopChanClosed = FALSE
    /\ writer = "select" /\ inHand = {}
    /\ metrics = [l \in Logs |-> 0]
    /\ saved = {} /\ reporting = {}
    /\ clock = 0
    /\ windowID = -1 /\ counts = NoCounts
    /\ offered = [e \in Errors |-> [w \in Windows |-> 0]]
    /\ allowed = [e \in Errors |-> [w \in Windows |-> 0]]
    /\ early = {}
    /\ main = "running"

-----------------------------------------------------------------------------
(* logDirectToStorage, under ls.mu.                                        *)

(* Mutant: a new window changes the number and keeps the counters. *)
CountsKept == counts

(* ErrorLogSampler.Allow: a new window drops all counters. *)
CountsNow == IF windowID = clock THEN counts ELSE NoCounts

Allowed(e) == CountsNow[e] < ErrorLogSampleN

Allow(e) ==
    /\ windowID' = clock
    /\ counts' = IF Allowed(e) THEN [CountsNow EXCEPT ![e] = @ + 1] ELSE CountsNow
    /\ offered' = [offered EXCEPT ![e][clock] = @ + 1]
    /\ allowed' = [allowed EXCEPT ![e][clock] = @ + (IF Allowed(e) THEN 1 ELSE 0)]

IsSampled(l) == policy = "sampled" /\ error[l] # NoError

(* shouldSaveErrorLog, asked for logs with errors only. *)
ShouldSave(l) ==
    /\ policy # "off"
    /\ \/ error[l] = NoError
       \/ policy = "all"
       \/ policy = "sampled" /\ Allowed(error[l])

(* Whatever becomes of the file, the metrics are recorded and reported;    *)
(* a write that fails is only logged.                                      *)
LogDirectToStorage(l) ==
    /\ metrics' = [metrics EXCEPT ![l] = @ + 1]
    /\ IF ShouldSave(l) THEN saved' \in {saved, saved \union {l}} ELSE UNCHANGED saved
    /\ IF IsSampled(l) THEN Allow(error[l]) ELSE UNCHANGED sampler
    /\ reporting' = reporting \union {l}

-----------------------------------------------------------------------------
(* A request ends: logCompletion, with LogAsync.                           *)

(* The request ends with the error e, or none. *)
Ends(l, e) ==
    /\ main # "exited"
    /\ request[l] = "serving"
    /\ error' = [error EXCEPT ![l] = e]

(* Mutant: LogAsync goes on to the storage after a successful send. *)
LogAsyncFallsThrough(l, e) ==
    /\ Ends(l, e)
    /\ ~logChanClosed /\ Len(logChan) < Capacity
    /\ logChan' = Append(logChan, l)
    /\ early' = IF stopChanClosed THEN early ELSE early \union {l}
    /\ request' = [request EXCEPT ![l] = "overflow"]
    /\ UNCHANGED <<policy, logChanClosed, stopChanClosed, worker, sinks, clock, main>>

LogAsync(l, e) ==
    /\ Ends(l, e)
    /\ ~logChanClosed /\ Len(logChan) < Capacity
    /\ logChan' = Append(logChan, l)
    /\ early' = IF stopChanClosed THEN early ELSE early \union {l}
    /\ request' = [request EXCEPT ![l] = "returned"]
    /\ UNCHANGED <<policy, logChanClosed, stopChanClosed, worker, sinks, clock, main>>

(* The channel is full: the request's goroutine does the work itself. *)
LogOverflow(l, e) ==
    /\ Ends(l, e)
    /\ ~logChanClosed /\ Len(logChan) = Capacity
    /\ request' = [request EXCEPT ![l] = "overflow"]
    /\ UNCHANGED <<policy, channel, worker, sinks, clock, main>>

(* A send on a closed channel panics, in a select too.  It happens in a    *)
(* deferred call, and gin's Recovery ends the request.                     *)
LogPanics(l, e) ==
    /\ Ends(l, e)
    /\ logChanClosed
    /\ request' = [request EXCEPT ![l] = "panicked"]
    /\ UNCHANGED <<policy, channel, worker, sinks, clock, main>>

LogInline(l) ==
    /\ main # "exited"
    /\ request[l] = "overflow"
    /\ LogDirectToStorage(l)
    /\ request' = [request EXCEPT ![l] = "returned"]
    /\ UNCHANGED <<policy, error, channel, worker, clock, main>>

-----------------------------------------------------------------------------
(* logWriter.  A nil from the closed channel sends it back to its select.  *)

Take ==
    /\ main # "exited"
    /\ writer # "exit"
    /\ inHand = {} /\ logChan # <<>>
    /\ inHand' = {Head(logChan)}
    /\ logChan' = Tail(logChan)
    /\ UNCHANGED <<policy, request, error, logChanClosed, stopChanClosed, early, writer,
                   sinks, clock, main>>

(* Mutant: while it drains, the writer drops what it takes. *)
HandleUnlessStopping ==
    /\ main # "exited"
    /\ \E l \in inHand :
          IF writer = "drain" THEN UNCHANGED sinks ELSE LogDirectToStorage(l)
    /\ inHand' = {}
    /\ UNCHANGED <<policy, request, error, channel, writer, clock, main>>

(* Mutant: logs with errors are not handled at all. *)
HandleGoodOnly ==
    /\ main # "exited"
    /\ \E l \in inHand :
          IF error[l] # NoError THEN UNCHANGED sinks ELSE LogDirectToStorage(l)
    /\ inHand' = {}
    /\ UNCHANGED <<policy, request, error, channel, writer, clock, main>>

Handle ==
    /\ main # "exited"
    /\ \E l \in inHand : LogDirectToStorage(l)
    /\ inHand' = {}
    /\ UNCHANGED <<policy, request, error, channel, writer, clock, main>>

SeeStop ==
    /\ main # "exited"
    /\ writer = "select" /\ inHand = {}
    /\ stopChanClosed
    /\ writer' = "drain"
    /\ UNCHANGED <<policy, request, error, channel, inHand, sinks, clock, main>>

DrainEnds ==
    /\ main # "exited"
    /\ writer = "drain" /\ inHand = {}
    /\ logChan = <<>>
    /\ writer' = "exit"
    /\ UNCHANGED <<policy, request, error, channel, inHand, sinks, clock, main>>

-----------------------------------------------------------------------------
(* The main goroutine, once a signal came: Stop of the logger service,     *)
(* then the server.                                                        *)

(* Mutant: Stop only closes the channel of the logs. *)
StopWithoutStopChan ==
    /\ main = "running"
    /\ main' = "stopping"
    /\ UNCHANGED <<policy, request, error, channel, worker, sinks, clock>>

CloseStopChan ==
    /\ main = "running"
    /\ stopChanClosed' = TRUE
    /\ main' = "stopping"
    /\ UNCHANGED <<policy, request, error, logChan, logChanClosed, early, worker, sinks, clock>>

CloseLogChan ==
    /\ main = "stopping"
    /\ logChanClosed' = TRUE
    /\ main' = "waiting"
    /\ UNCHANGED <<policy, request, error, logChan, stopChanClosed, early, worker, sinks, clock>>

WriterDone ==
    /\ main = "waiting"
    /\ writer = "exit"
    /\ main' = "stopped"
    /\ UNCHANGED <<policy, request, error, channel, worker, sinks, clock>>

(* server.Shutdown waits for the requests, at most until its deadline.     *)
Exit ==
    /\ main = "stopped"
    /\ main' = "exited"
    /\ request' = [l \in Logs |-> IF request[l] \in {"serving", "overflow"}
                                  THEN "killed" ELSE request[l]]
    /\ UNCHANGED <<policy, error, channel, worker, sinks, clock>>

Tick ==
    /\ main # "exited"
    /\ clock < MaxWindow
    /\ clock' = clock + 1
    /\ UNCHANGED <<policy, request, error, channel, worker, sinks, main>>

-----------------------------------------------------------------------------
Request(l) ==
    \/ \E e \in Errors \union {NoError} : LogAsync(l, e) \/ LogOverflow(l, e) \/ LogPanics(l, e)
    \/ LogInline(l)

LogWriter == Take \/ Handle \/ SeeStop \/ DrainEnds

Stop == CloseLogChan \/ WriterDone \/ Exit

Next == (\E l \in Logs : Request(l)) \/ LogWriter \/ CloseStopChan \/ Stop \/ Tick

Spec == Init /\ [][Next]_vars

(***************************************************************************)
(* A goroutine that can run does; a write to the storage returns.  Nothing *)
(* makes a request end, or a signal arrive.                                *)
(***************************************************************************)
FairSpec == Spec /\ WF_vars(LogWriter) /\ WF_vars(Stop)
-----------------------------------------------------------------------------
(* Properties.                                                             *)

(* The variables keep their types, the channel its capacity, and the       *)
(* states of main say which channels are closed.                           *)
TypeOK ==
    /\ request \in [Logs -> RequestState]
    /\ error \in [Logs -> Errors \union {NoError}]
    /\ logChan \in Seq(Logs) /\ Len(logChan) <= Capacity
    /\ writer \in {"select", "drain", "exit"}
    /\ inHand \subseteq Logs
    /\ metrics \in [Logs -> Nat]
    /\ saved \subseteq reporting
    /\ reporting \subseteq Logs
    /\ clock \in Windows
    /\ windowID \in Windows \union {-1}
    /\ counts \in [Errors -> 0..ErrorLogSampleN]
    /\ main \in MainState
    /\ stopChanClosed <=> main # "running"
    /\ logChanClosed <=> main \in {"waiting", "stopped", "exited"}

(* The metrics of a request are counted at most once, whether its log went *)
(* through the channel or was handled on the way out, also in a shutdown.  *)
RecordedOnce == \A l \in Logs : metrics[l] <= 1

(* README: sampled keeps errorLogSampleN error logs per user per error     *)
(* type per window.  It lets through that many and no fewer, although the  *)
(* logs come to it from several goroutines and out of order.               *)
SampledExactly ==
    \A e \in Errors, w \in Windows :
        allowed[e][w] = IF offered[e][w] < ErrorLogSampleN
                        THEN offered[e][w] ELSE ErrorLogSampleN

(* Stop arranges the remaining logs: when the writer has ended, no log     *)
(* that was in the channel before Stop began is without its record.        *)
DrainComplete == writer = "exit" => \A l \in early : metrics[l] = 1

(* A log in the channel is recorded in the end, whatever comes first.      *)
EarlyIsRecorded == \A l \in Logs : l \in early ~> metrics[l] = 1

(* The shutdown is not held for ever by the writer.                        *)
StopReturns == main = "stopping" ~> main = "exited"

(* "Create HTTP server with graceful shutdown support" (main.go): a        *)
(* request that is in progress when the signal comes ends as usual.        *)
RequestsEndGracefully == \A l \in Logs : request[l] # "panicked"
=============================================================================
