----------------------------- MODULE NodeCalls -----------------------------
(***************************************************************************)
(* What happens inside one step of a workflow: an agent runs its tools and *)
(* then calls its model (backend/app/engine/agents/base.py,                *)
(* backend/app/engine/tools/executor.py), a connector makes one HTTP       *)
(* request (backend/app/services/connector_runtime_service.py); both make  *)
(* their requests with the minimal client of                               *)
(* backend/app/engine/tools/safe_http.py.                                  *)
(*                                                                         *)
(* Abstracted: prompts, outputs, prices, headers and URLs.  What a remote  *)
(* side answers, and whether it answers in time, is a free choice.  A      *)
(* database or file tool is one step, as it holds nothing between steps.   *)
(***************************************************************************)
EXTENDS Naturals

CONSTANTS
    MaxRetries,     \* MAX_RETRIES (3 in the code)
    MaxTools,       \* bound on the tools of an agent
    MaxChunks       \* MAX_RESPONSE_BYTES, counted in chunks

VARIABLE
    call    \* the call in progress

(* at: where it stands; tools: tools still to run; tries: model calls      *)
(* made; conn: a socket is open; size: chunks read; result: what the HTTP  *)
(* request, or in the end the whole call, came to.                         *)
Idle == [at |-> "idle", tools |-> 0, tries |-> 0, conn |-> FALSE, size |-> 0,
         result |-> "none"]

CallType ==
    [at : {"idle", "tools", "model", "sleep", "check", "connect", "read", "close",
           "done"},
     tools : 0..MaxTools, tries : 0..MaxRetries, conn : BOOLEAN,
     size : 0..MaxChunks, result : {"none", "ok", "error"}]

CallAt(at) == call.at = at
CallDone(result) == call' = [call EXCEPT !.at = "done", !.result = result]

AgentBegins == \E n \in 0..MaxTools : call' = [Idle EXCEPT !.at = "tools", !.tools = n]
ConnectorBegins == call' = [Idle EXCEPT !.at = "check"]

----------------------------------------------------------------------------
(* Tools.  One that is missing, refused, unknown, local, or fails, only    *)
(* adds a line to the prompt; an API tool makes a request of its own.      *)
ToolReturns ==
    /\ CallAt("tools") /\ call.tools > 0
    /\ call' = [call EXCEPT !.tools = @ - 1]

ToolRequests ==
    /\ CallAt("tools") /\ call.tools > 0
    /\ call' = [call EXCEPT !.at = "connect"]

----------------------------------------------------------------------------
(* The connector: its action and its credential exist, and its input is    *)
(* valid, or the call is over.                                             *)
ConnectorRefused == CallAt("check") /\ CallDone("error")
ConnectorRequests == CallAt("check") /\ call' = [call EXCEPT !.at = "connect"]

----------------------------------------------------------------------------
(* safe_http_request and pinned_http_request.  HttpResult hands the result *)
(* to whoever made the request: a tool's is only text in a prompt, a       *)
(* connector's decides the step (a status of 400 or more is an error).     *)
HttpResult(result) ==
    call' = IF call.tools > 0
            THEN [call EXCEPT !.at = "tools", !.tools = @ - 1, !.conn = FALSE,
                              !.size = 0, !.result = "none"]
            ELSE [call EXCEPT !.at = "done", !.conn = FALSE, !.size = 0,
                              !.result = result]

(* The address is refused, or the connection is, or it times out.          *)
HttpConnectFails == CallAt("connect") /\ HttpResult("error")

HttpConnects ==
    /\ CallAt("connect")
    /\ call' = [call EXCEPT !.at = "read", !.conn = TRUE]

(* One chunk more; the one that passes the limit is an error.  Every read  *)
(* has its own timeout, the request has none.                              *)
HttpReads ==
    /\ CallAt("read")
    /\ call' = IF call.size = MaxChunks
               THEN [call EXCEPT !.at = "close", !.result = "error"]
               ELSE [call EXCEPT !.size = @ + 1]

HttpEnds ==
    /\ CallAt("read")
    /\ \E result \in {"ok", "error"} :
          call' = [call EXCEPT !.at = "close", !.result = result]

(* finally: writer.close().                                                *)
HttpCloses == CallAt("close") /\ HttpResult(call.result)

----------------------------------------------------------------------------
(* _call_llm_with_retry: only a rate limit is tried again, after a pause;  *)
(* a timeout and every other error end the call.                           *)
ModelBegins ==
    /\ CallAt("tools") /\ call.tools = 0
    /\ call' = [call EXCEPT !.at = "model"]

ModelAnswers ==
    /\ CallAt("model")
    /\ call' = [call EXCEPT !.at = "done", !.tries = @ + 1, !.result = "ok"]

ModelFails ==
    /\ CallAt("model")
    /\ call' = [call EXCEPT !.at = "done", !.tries = @ + 1, !.result = "error"]

\* Mutant: one attempt too many.
ModelRateLimitedOnceMore ==
    /\ CallAt("model")
    /\ call' = IF call.tries < MaxRetries
               THEN [call EXCEPT !.at = "sleep", !.tries = @ + 1]
               ELSE [call EXCEPT !.at = "done", !.tries = @ + 1, !.result = "error"]

ModelRateLimited ==
    /\ CallAt("model")
    /\ call' = IF call.tries + 1 < MaxRetries
               THEN [call EXCEPT !.at = "sleep", !.tries = @ + 1]
               ELSE [call EXCEPT !.at = "done", !.tries = @ + 1, !.result = "error"]

ModelRetries == CallAt("sleep") /\ call' = [call EXCEPT !.at = "model"]

CallStep ==
    \/ ToolReturns \/ ToolRequests
    \/ ConnectorRefused \/ ConnectorRequests
    \/ HttpConnectFails \/ HttpConnects \/ HttpReads \/ HttpEnds \/ HttpCloses
    \/ ModelBegins \/ ModelAnswers \/ ModelFails \/ ModelRateLimited \/ ModelRetries

============================================================================
