----------------------------- MODULE ModelCall ------------------------------
(* One call to a model: which backend answers it, what of the answer is      *)
(* read, and what it is charged. lab/agent/providers.py and call_tool of     *)
(* lab/agent/schemas.py. A payload is what the model put into the tool, as   *)
(* it reaches the validation; Nothing is the empty object.                   *)
EXTENDS Naturals, Sequences, FiniteSets

CONSTANTS
    Prices,   \* what one answer may cost
    Nothing   \* the payload {}

PricesAssumption == Prices \subseteq Nat /\ \E p \in Prices : \A q \in Prices : q <= p

Backends == {"anthropic", "claude_code", "openai"}
AutoOrder == <<"anthropic", "claude_code", "openai">>
NoBackend == "none"

(* "auto" is the first backend that can run; a named one must run itself.    *)
Resolve(asked, usable) ==
    IF asked # "auto"
    THEN IF asked \in usable THEN asked ELSE NoBackend
    ELSE LET ok == {i \in 1..Len(AutoOrder) : AutoOrder[i] \in usable}
         IN IF ok = {} THEN NoBackend
            ELSE AutoOrder[CHOOSE i \in ok : \A j \in ok : i <= j]

Billing(b) == IF b = "claude_code" THEN "subscription" ELSE "api"

(* What a service sends: an error, a refusal at a limit, or a message: a     *)
(* tool block, JSON in its text, prose, or a tool block whose arguments do   *)
(* not parse.                                                                *)
Bodies == {"error", "limit", "tool", "json", "prose", "malformed"}

(* The backend raises and there is no response. claude_code reports what a   *)
(* failed turn cost, and raises all the same.                                *)
Raises(body) == body \in {"error", "limit"}

(* Only claude_code cannot force a tool and reads JSON out of the text; only *)
(* the OpenAI form delivers arguments as a string, which may not parse.      *)
HasTool(b, body) ==
    \/ body = "tool" /\ b # "claude_code"
    \/ body = "malformed" /\ b = "openai"
    \/ body = "json" /\ b = "claude_code"

PayloadRead(body, payload) == IF body = "malformed" THEN Nothing ELSE payload

(* _read_response and call_tool: what the loops get. A call that raised      *)
(* costs nothing and says "api", whatever the backend.                       *)
ToolCall(b, body, payload, price) ==
    IF Raises(body)
    THEN [ok |-> FALSE, limit |-> body = "limit", input |-> Nothing, cost |-> 0, billing |-> "api"]
    ELSE [ok |-> HasTool(b, body), limit |-> FALSE,
          input |-> IF HasTool(b, body) THEN PayloadRead(body, payload) ELSE Nothing,
          cost |-> price, billing |-> Billing(b)]

(* Everything one call can return, for the payloads a model may send.        *)
Calls(b, payloads) ==
    {ToolCall(b, body, p, c) : body \in Bodies, p \in payloads, c \in Prices}
=============================================================================
