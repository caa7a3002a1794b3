---- MODULE AgentSetup ----
(* Building the language-model policy: the options it refuses, the wire it   *)
(* speaks, and the ladder that decides which endpoint gets which key.        *)
(*                                                                           *)
(* An endpoint is named: "anthropic", "google", "openai", "tinker",          *)
(* "openrouter", "live" and "genai" (Google's websocket and Interactions     *)
(* endpoints), or one the operator gave: "gateway" (http) or "socket" (ws).  *)
(* A key is named for the environment variable that holds it.                *)
EXTENDS Integers

CONSTANT Options \* option records: prefix and variant of the model id, env, base, keyEnv, wire, ...

(* "none" stands for the endpoint of a provider that could not be resolved. *)
ASSUME SetupAssumption == \A o \in Options : o.base # "none"

VARIABLES
  opt,      \* the options given
  spc,      \* "build", "built", "refused"
  clientMade    \* the client built: [wire, endpoint, key, horizon, tokens]

setupVars == <<opt, spc, clientMade>>

WireFormats == {"chat", "responses", "messages", "gemini-live", "interactions"}
OwnEndpoint == {"gemini-live", "interactions"}
NoClient == [wire |-> "none", endpoint |-> "none", key |-> "none", horizon |-> 0, tokens |-> 0]
OpenRouterKey == "OPENROUTER_API_KEY"

-----------------------------------------------------------------------------
(* resolve_provider: the prefixes with an endpoint of their own.            *)

Direct == [anthropic |-> [endpoint |-> "anthropic", key |-> "ANTHROPIC_API_KEY", wire |-> "chat"],
           openai |-> [endpoint |-> "openai", key |-> "OPENAI_API_KEY", wire |-> "chat"],
           google |-> [endpoint |-> "google", key |-> "GEMINI_API_KEY", wire |-> "chat"],
           thinkingmachines |-> [endpoint |-> "tinker", key |-> "TINKER_API_KEY", wire |-> "messages"]]

(* _direct_claim: prefix, a body without an OpenRouter variant, and the key. *)
Claims == /\ opt.prefix \in DOMAIN Direct /\ ~opt.variant
          /\ Direct[opt.prefix].key \in opt.env
Claim == Direct[opt.prefix]

-----------------------------------------------------------------------------
(* The wire: explicit, else the one the claiming provider serves.           *)

Alias(name) == IF name = "anthropic" THEN "messages" ELSE name

Wire == IF opt.wire # "unset" THEN Alias(opt.wire)
        ELSE IF opt.base = "" /\ Claims THEN Claim.wire ELSE "chat"

(* A mutant: the Live wire keeps the default of the ladder.                 *)
KeyNamedForChat ==
  IF opt.keyEnv # "" THEN opt.keyEnv ELSE IF Wire = "messages" THEN "ANTHROPIC_API_KEY" ELSE ""

KeyNamed ==
  IF opt.keyEnv # "" THEN opt.keyEnv
  ELSE IF Wire = "messages" THEN "ANTHROPIC_API_KEY"
  ELSE IF Wire \in OwnEndpoint THEN "GEMINI_API_KEY" ELSE ""

LadderKey == IF KeyNamed = "" THEN OpenRouterKey ELSE KeyNamed
IfHeld(key) == IF key \in opt.env THEN key ELSE "none"

Unresolved == [endpoint |-> "none", key |-> "none", wire |-> "none"]

Provider ==
  IF opt.base # "" THEN IF opt.base = "google" /\ IfHeld(LadderKey) = "none" THEN Unresolved
                        ELSE [endpoint |-> opt.base, key |-> IfHeld(LadderKey), wire |-> "chat"]
  ELSE IF Claims THEN [endpoint |-> Claim.endpoint, key |-> Claim.key, wire |-> Claim.wire]
  ELSE IF OpenRouterKey \in opt.env
       THEN [endpoint |-> "openrouter", key |-> OpenRouterKey, wire |-> "chat"]
       ELSE Unresolved

-----------------------------------------------------------------------------
(* What the wire and the provider allow of the other options.               *)

EffortFits ==
  /\ opt.effort \in {"unset", "none", "minimal", "low", "medium", "high", "xhigh", "max",
                     "fraction"}
  /\ Wire = "gemini-live" => opt.effort = "unset"
  /\ Wire = "interactions" => opt.effort \in {"unset", "minimal", "low", "medium", "high"}

TierFits ==
  opt.tier # "none" =>
    /\ Wire \in {"responses", "interactions"}
    /\ opt.tier \in IF Wire = "interactions" THEN {"standard", "flex", "priority"}
                    ELSE {"auto", "default", "flex", "priority", "fast", "ultrafast"}

(* The files and texts the operator attaches can be read and are not empty. *)
AttachmentsRead == opt.learnings \in {"none", "read"} /\ opt.notes \in {"none", "read"}

(* Counts, speeds and times are in range, images and depth name a mode.     *)
InOwnRange == opt.inRange

(* speed and the output cap exist on the Messages wire only.                *)
MessagesOnly == opt.speed \in {"none", "fast"} /\ (Wire # "messages" => opt.speed = "none" /\ opt.tokens = 0)

HorizonFits ==
  /\ opt.horizon \in {"unset", "none", "1", "2"}
  /\ Wire \in OwnEndpoint => opt.horizon \in {"unset", "none"}

Horizon == IF opt.horizon = "unset" THEN IF Wire \in OwnEndpoint THEN 0 ELSE 2
           ELSE IF opt.horizon = "none" THEN 0 ELSE IF opt.horizon = "1" THEN 1 ELSE 2

BaseFits == /\ Wire = "gemini-live" => opt.base \in {"", "socket"}
            /\ Wire = "interactions" => opt.base # "socket"

(* A provider that serves one wire refuses an explicit other.               *)
ClaimServes == opt.base = "" /\ Claims /\ Claim.wire # "chat" /\ opt.wire # "unset" => Wire = Claim.wire

(* A mutant: any resolved provider is taken to serve the Messages API.      *)
EveryoneServesMessages == TRUE

MessagesServed == Wire = "messages" /\ opt.base = "" => Provider.wire = "messages" \/ Provider.endpoint = "anthropic"

GoogleServed == Wire \in OwnEndpoint /\ opt.base = "" => Provider.endpoint = "google"

Endpoint == IF opt.base = "" /\ Wire = "gemini-live" THEN "live"
            ELSE IF opt.base = "" /\ Wire = "interactions" THEN "genai" ELSE Provider.endpoint

Tokens == IF Wire # "messages" THEN 0 ELSE IF opt.tokens = 0 THEN 8192 ELSE opt.tokens

-----------------------------------------------------------------------------
SetupInit == opt \in Options /\ spc = "build" /\ clientMade = NoClient

TakesWire ==
  /\ EffortFits /\ TierFits /\ MessagesOnly /\ HorizonFits /\ BaseFits
  /\ AttachmentsRead /\ InOwnRange /\ Alias(opt.wire) \in WireFormats \cup {"unset"}
  /\ opt.prefix # "" /\ Provider # Unresolved
  /\ ClaimServes /\ MessagesServed /\ GoogleServed

Refuse == /\ spc = "build" /\ ~TakesWire /\ spc' = "refused"
          /\ UNCHANGED <<opt, clientMade>>

Build == /\ spc = "build" /\ TakesWire /\ spc' = "built"
         /\ clientMade' = [wire |-> Wire, endpoint |-> Endpoint, key |-> Provider.key,
                       horizon |-> Horizon, tokens |-> Tokens]
         /\ UNCHANGED opt

SetupNext == Refuse \/ Build
SetupSpec == SetupInit /\ [][SetupNext]_setupVars

-----------------------------------------------------------------------------
SetupTypeOK ==
  /\ spc \in {"build", "built", "refused"}
  /\ spc = "built" => clientMade.wire \in WireFormats /\ clientMade.endpoint # "none" /\ clientMade.horizon \in 0..2

(* A secret goes to the service it was issued for: a service's own endpoint *)
(* gets that service's key, and an endpoint the operator gave gets the key  *)
(* the operator named, or the default of the wire it speaks, never the      *)
(* OpenRouter key of another service on a wire OpenRouter does not speak.   *)
KeyGoesHome ==
  spc = "built" =>
    IF opt.base # ""
    THEN clientMade.key \in {"none", opt.keyEnv} \/
         (opt.keyEnv = "" /\ clientMade.key = CASE clientMade.wire = "messages" -> "ANTHROPIC_API_KEY"
                                            [] clientMade.wire \in OwnEndpoint -> "GEMINI_API_KEY"
                                            [] OTHER -> OpenRouterKey)
    ELSE clientMade.key = CASE clientMade.endpoint = "openrouter" -> OpenRouterKey
                        [] clientMade.endpoint \in {"google", "live", "genai"} -> "GEMINI_API_KEY"
                        [] clientMade.endpoint = "tinker" -> "TINKER_API_KEY"
                        [] clientMade.endpoint = "openai" -> "OPENAI_API_KEY"
                        [] OTHER -> "ANTHROPIC_API_KEY"

(* A policy that was built talks to an endpoint that serves its wire: the   *)
(* Messages API is not spoken to OpenRouter or to another service, Tinker   *)
(* is spoken to in nothing else, and Google's two own wires go nowhere else.*)
WireIsServed ==
  spc = "built" /\ opt.base = "" =>
    /\ clientMade.wire = "messages" => clientMade.endpoint \in {"anthropic", "tinker"}
    /\ clientMade.endpoint = "tinker" => clientMade.wire = "messages"
    /\ (clientMade.wire = "gemini-live") = (clientMade.endpoint = "live")
    /\ (clientMade.wire = "interactions") = (clientMade.endpoint = "genai")

(* A key of one provider is never sent to the endpoint of another, and the  *)
(* client speaks a wire its endpoint serves, whatever the options, prefixes *)
(* and environment resolve to.                                              *)
KeysStayHome == KeyGoesHome /\ WireIsServed
====
