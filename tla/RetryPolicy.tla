----------------------------- MODULE RetryPolicy -----------------------------
(***************************************************************************)
(* Which failed model calls are retried on the same model, and which move  *)
(* on to the next one: isSameModelRetryableError and                       *)
(* isDegradationSwitchableError of internal/logic/chat.go, over the errors *)
(* of internal/types/errors.go.                                            *)
(*                                                                         *)
(* An error is a record.  kind is "idle" (IdleTimeoutError), "canceled"    *)
(* (context.Canceled), "api" (APIError, with a code and a status) or       *)
(* "other"; tooLong says that its text names the context length.           *)
(***************************************************************************)
EXTENDS Naturals

PlainError(kind) == [kind |-> kind, code |-> "none", status |-> 0, tooLong |-> FALSE]
ApiError(code, status) ==
    [kind |-> "api", code |-> code, status |-> status, tooLong |-> FALSE]

NoError == PlainError("none")
IdleTimeoutError == PlainError("idle")
Canceled == PlainError("canceled")
OtherError == PlainError("other")

ModelServiceUnavailable == ApiError("model_services_unavailable", 503)
NetworkError == ApiError("network_interrupt", 500)
InvalidResponseContent == ApiError("invalid_response_content", 500)

(* NewHTTPStatusError: the code that a refusing upstream is given.         *)
CodeOfStatus(status) ==
    CASE status = 404 -> "model_unavailable"
      [] status = 401 -> "model_services_unauthorized"
      [] status = 429 -> "too_many_requests"
      [] status = 413 -> "context_length_exceeded"
      [] status = 504 -> "server_busy"
      [] OTHER -> "model_services_unavailable"

HTTPStatusError(status) == ApiError(CodeOfStatus(status), status)

(* handleAPIError: what a response other than 200 is turned into.  A body  *)
(* in the gateway's quota format keeps its own code; any other body is     *)
(* quoted only under the code that has no message of its own.              *)
Bodies == {"plain", "quota", "too_long"}

UpstreamError(status, body) ==
    IF body = "quota" THEN ApiError("quota", status)
    ELSE [HTTPStatusError(status) EXCEPT
            !.tooLong = body = "too_long" /\ CodeOfStatus(status) = "model_services_unavailable"]

(* Codes of errors that no other model would cure. *)
CallerCodes ==
    {"context_length_exceeded", "model_services_unauthorized", "empty_message_content"}

(* Mutant: an idle timeout is not worth a second attempt. *)
RetryableButIdle(e, gone) ==
    /\ ~gone /\ ~e.tooLong
    /\ \/ e.kind = "other"
       \/ /\ e.kind = "api"
          /\ e.code \notin CallerCodes \union {"model_unavailable"}
          /\ e.code \in {"server_busy", "network_interrupt"} \/ e.status = 408 \/ e.status >= 500

(* isSameModelRetryableError; gone: the request's context is cancelled.    *)
Retryable(e, gone) ==
    /\ ~gone /\ ~e.tooLong
    /\ \/ e.kind \in {"idle", "other"}
       \/ /\ e.kind = "api"
          /\ e.code \notin CallerCodes \union {"model_unavailable"}
          /\ e.code \in {"server_busy", "network_interrupt"} \/ e.status = 408 \/ e.status >= 500

(* Mutant: switching does not ask whether the client is still there. *)
SwitchableForNobody(e, gone) ==
    /\ ~e.tooLong
    /\ \/ e.kind \in {"idle", "other"}
       \/ /\ e.kind = "api"
          /\ e.code \notin CallerCodes
          /\ e.status \notin {401, 403}
          /\ \/ e.status \in {400, 408, 429} \/ e.status >= 500
             \/ e.code \in {"model_services_unavailable", "model_unavailable",
                            "too_many_requests", "server_busy", "network_interrupt",
                            "invalid_response_content"}

(* isDegradationSwitchableError *)
Switchable(e, gone) ==
    /\ ~gone /\ ~e.tooLong
    /\ \/ e.kind \in {"idle", "other"}
       \/ /\ e.kind = "api"
          /\ e.code \notin CallerCodes
          /\ e.status \notin {401, 403}
          /\ \/ e.status \in {400, 408, 429} \/ e.status >= 500
             \/ e.code \in {"model_services_unavailable", "model_unavailable",
                            "too_many_requests", "server_busy", "network_interrupt",
                            "invalid_response_content"}
=============================================================================
