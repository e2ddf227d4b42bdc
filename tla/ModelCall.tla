----------------------------- MODULE ModelCall -----------------------------
(***************************************************************************)
(* One proxied model call in detail: the OpenAI and the Anthropic endpoint *)
(* (internal/gateway), routing by model name, the four native providers    *)
(* (internal/provider), the sniffing of token usage out of a stream, and   *)
(* the price table (internal/pricing).  GovernedRun models what the run    *)
(* does around a call; here a call ends in one ledger entry or in none.    *)
(*                                                                         *)
(* A model name is a sequence of segments, so that "is a prefix of" is     *)
(* IsPrefix; a text is a sequence of fragments, so that "contains" and     *)
(* "joined" have a meaning.  Temperature, ids and headers are left out.    *)
(***************************************************************************)
EXTENDS Integers, Sequences, FiniteSets, SequencesExt, Selections

CONSTANTS
    Configs,          \* configurations: [keys, default], keys among AllKeys
    DefaultRates,     \* the built-in list prices: model prefix -> [in, out]
    PricingFiles,     \* override files an operator may have written
    LowerCase,        \* segment -> the segment in lower case
    Models,           \* the model names clients ask for (<<>> is "")
    Snapshots,        \* model name -> the names a response may carry
    Words,            \* what the texts of the clients are made of
    Roles,            \* the roles of their messages, besides "system"
    Bodies,           \* decoded request bodies: [system, messages, max]
    MaxOutput,        \* bound: output tokens of a call
    PromptSizes,      \* input tokens of a call
    MaxCalls          \* bound: calls in a behaviour

Endpoints  == {"openai", "anthropic"}
Providers  == {"anthropic", "openai", "ollama", "bedrock"}
Streamers  == {"anthropic", "openai"}
NoModel    == <<>>
NoUsage    == [prompt |-> 0, completion |-> 0]
Causes     == {"none", "run", "client", "timeout", "upstream"}

AllKeys == {"anthropic", "openai", "aws", "region"}

\* A text is a sequence of fragments, the separator splitSystem inserts among them;
\* a message has its text decoded, and a body has it as the client sent it.
Separator == "blank line"
Text      == Seq(Words \cup {Separator})
AllRoles  == Roles \cup {"system"}
Message   == [role : AllRoles, text : Text]
Content   == [form : {"string"}, text : Text] \cup [form : {"blocks"}, text : Seq(Text)]
               \cup [form : {"none"}, text : {<<>>}]

ASSUME CallAssumption ==
    /\ Bodies \subseteq [system : Content, max : Int,
                         messages : Seq([role : AllRoles, content : Content])]
    /\ Configs \subseteq [keys : SUBSET AllKeys, default : Providers]
    /\ MaxOutput \in Nat /\ MaxCalls \in Nat
    /\ PromptSizes \subseteq Nat \ {0}
    /\ \A f \in {DefaultRates} \cup PricingFiles :
          /\ IsFiniteSet(DOMAIN f) /\ DOMAIN f \subseteq Seq(DOMAIN LowerCase)
          /\ \A m \in DOMAIN f : f[m].in \in Int /\ f[m].out \in Int
    /\ \A m \in DOMAIN DefaultRates : DefaultRates[m].in >= 0 /\ DefaultRates[m].out >= 0

VARIABLES
    config,    \* the configuration the daemon started with
    prices,    \* pricing.Table: lower-case prefix -> [in, out]
    halted,    \* the run of the calls is halted, its Context done
    call,      \* the call being served
    ledger,    \* the entries RecordCall wrote, each with what really happened
    answered,  \* history: calls answered with status 200
    calls      \* calls so far

vars == <<config, prices, halted, call, ledger, answered, calls>>

----------------------------------------------------------------------------
(* Prices.                                                                 *)

Lower(name) == [i \in DOMAIN name |-> LowerCase[name[i]]]

\* LoadOverrides: the daemon does not start on a file with a negative rate.
ValidOverrides(file) == \A m \in DOMAIN file : file[m].in >= 0 /\ file[m].out >= 0

\* NewTable.  Two override keys that differ only in case would race for the
\* entry, in map order: the choice is then arbitrary.
NewTable(file) ==
    LET keys == {Lower(m) : m \in DOMAIN DefaultRates \cup DOMAIN file}
        From(f, k) == f[CHOOSE m \in DOMAIN f : Lower(m) = k]
    IN [k \in keys |-> IF \E m \in DOMAIN file : Lower(m) = k
                       THEN From(file, k) ELSE From(DefaultRates, k)]

\* Mutant of BestPrefix: any later match wins.
BestPrefixLast(m, order) ==
    FoldLeft(LAMBDA best, p : IF IsPrefix(p, m) THEN p ELSE best, <<>>, order)

\* Table.Rate's loop over a Go map, whose order is arbitrary.
BestPrefix(m, order) ==
    FoldLeft(LAMBDA best, p : IF IsPrefix(p, m) /\ Len(p) > Len(best) THEN p ELSE best,
             <<>>, order)

\* Table.Cost, for one order of the loop.
Cost(model, usage, order) ==
    LET best == BestPrefix(Lower(model), order) IN
    IF best = <<>> THEN [usd |-> 0, priced |-> FALSE]
    ELSE [usd |-> usage.prompt * prices[best].in + usage.completion * prices[best].out,
          priced |-> TRUE]

----------------------------------------------------------------------------
(* Routing.                                                                *)

\* BuildRegistry: Anthropic and Ollama always, the others with credentials.
Registered(cfg) == {"anthropic", "ollama"} \cup (cfg.keys \cap {"openai"})
                       \cup (IF "aws" \in cfg.keys THEN {"bedrock"} ELSE {})

\* NewRegistry: the daemon does not start without its default provider.
Usable(cfg) == cfg.default \in Registered(cfg)

RouteModel(model) ==
    LET family == IF model = NoModel THEN "" ELSE Lower(model)[1] IN
    CASE family = "claude" -> "anthropic"
      [] family \in {"gpt", "o1", "o3"} -> "openai"
      [] OTHER -> config.default

HasKey(p) == CASE p = "bedrock" -> "region" \in config.keys
               [] p = "ollama" -> TRUE
               [] OTHER -> p \in config.keys

----------------------------------------------------------------------------
(* Translating the request.                                                *)

\* Texts written one after the other.
Join(texts) == FoldLeft(LAMBDA all, text : all \o text, <<>>, texts)

\* decodeContent: a string, an array of blocks, or something else.
DecodeContent(c) ==
    CASE c.form = "string" -> c.text
      [] c.form = "blocks" -> Join(c.text)
      [] OTHER -> <<>>

\* The handlers' provider.Request.  Only the Anthropic endpoint knows a
\* separate system prompt.
ProviderRequest(endpoint, model, body) ==
    [model |-> model, max |-> body.max,
     system |-> IF endpoint = "anthropic" THEN DecodeContent(body.system) ELSE <<>>,
     messages |-> [i \in DOMAIN body.messages |->
                     [role |-> body.messages[i].role,
                      text |-> DecodeContent(body.messages[i].content)]]]

\* The system messages of a conversation, and its turns.
SystemMessages(msgs) == Where(msgs, {m \in Message : m.role = "system"})
Turns(msgs)          == Where(msgs, {m \in Message : m.role # "system"})

\* Mutant of SplitSystem: a second system text replaces the first.
SplitSystemLast(req) ==
    [system |-> FoldLeft(LAMBDA s, m : m.text, req.system, SystemMessages(req.messages)),
     messages |-> Turns(req.messages)]

\* splitSystem (Anthropic): system messages are lifted out and joined.
Lift(system, msgs) ==
    FoldLeft(LAMBDA s, m : IF s = <<>> THEN m.text ELSE s \o <<Separator>> \o m.text, system, msgs)

SplitSystem(req) ==
    [system |-> Lift(req.system, SystemMessages(req.messages)), messages |-> Turns(req.messages)]

DefaultMaxTokens == 1024
AnthropicMaxTokens(n) == IF n > 0 THEN n ELSE DefaultMaxTokens

AnthropicRequest(req) ==
    [max |-> AnthropicMaxTokens(req.max), usage |-> TRUE, prompt |-> SplitSystem(req)]

\* Bedrock: the system messages are lifted out too, one block each.
BedrockRequest(req) ==
    LET lifted == SystemMessages(req.messages)
    IN [max |-> IF req.max <= 0 THEN DefaultMaxTokens ELSE req.max, usage |-> TRUE,
        prompt |-> [system |-> (IF req.system = <<>> THEN <<>> ELSE <<req.system>>)
                                 \o [i \in DOMAIN lifted |-> lifted[i].text],
                    messages |-> Turns(req.messages)]]

\* OpenAI: a leading system message; a cap of 0 is left out.  The answer to Chat
\* carries the usage anyway; a stream would not.
OpenAIRequest(req) ==
    [max |-> req.max, usage |-> FALSE,
     prompt |-> [system |-> <<>>,
                 messages |-> (IF req.system = <<>> THEN <<>>
                               ELSE <<[role |-> "system", text |-> req.system]>>) \o req.messages]]

\* Ollama: as OpenAI, the cap as an option.
OllamaRequest(req) ==
    LET msgs == (IF req.system = <<>> THEN <<>>
                 ELSE <<[role |-> "system", text |-> req.system]>>) \o req.messages
    IN [max |-> IF req.max > 0 THEN req.max ELSE 0, usage |-> TRUE,
        prompt |-> [system |-> <<>>, messages |-> msgs]]

\* ChatStream: the same prompt; OpenAI must be asked for a chunk with the usage.
OpenAIStreamRequest(req) == [OpenAIRequest(req) EXCEPT !.usage = TRUE]
AnthropicStreamRequest(req) == AnthropicRequest(req)

Wire(p, req, stream) ==
    CASE p = "anthropic" -> IF stream THEN AnthropicStreamRequest(req) ELSE AnthropicRequest(req)
      [] p = "openai" -> IF stream THEN OpenAIStreamRequest(req) ELSE OpenAIRequest(req)
      [] p = "bedrock" -> BedrockRequest(req)
      [] p = "ollama" -> OllamaRequest(req)

----------------------------------------------------------------------------
(* Translating the answer.                                                 *)

OpenAIFinishReason(r) ==
    CASE r \in {"end_turn", "stop_sequence", "stop", ""} -> "stop"
      [] r \in {"max_tokens", "length"} -> "length"
      [] r \in {"tool_use", "tool_calls"} -> "tool_calls"
      [] OTHER -> r

FinishFor(endpoint, r) ==
    IF endpoint = "openai" THEN OpenAIFinishReason(r)
    ELSE IF r = "" THEN "end_turn" ELSE r                       \* defaultStr

\* What the providers' Chat can make of an answer: the model that served it and
\* the stop reason, or an error (a body that cannot be read, a status other than
\* 200, a body that does not decode).
Reply(model, stop) == [model |-> model, stop |-> stop]
ChatError          == [model |-> NoModel, stop |-> "error"]

AnthropicReplies(model) ==
    {ChatError} \cup {Reply(m, r) : m \in Snapshots[model], r \in {"end_turn", "max_tokens", "stop_sequence"}}

\* Without a choice there is no finish reason.
OpenAIReplies(model) ==
    {ChatError} \cup {Reply(m, r) : m \in Snapshots[model], r \in {"stop", "length", ""}}

\* An error in a body with status 200 is one too.
OllamaReplies(model) ==
    {ChatError} \cup {Reply(m, r) : m \in Snapshots[model], r \in {"stop", "length", ""}}

\* The response names no model: the requested one is taken.
BedrockReplies(model) ==
    {ChatError} \cup {Reply(model, r) : r \in {"end_turn", "max_tokens", "stop_sequence"}}

Replies(p, model) ==
    CASE p = "anthropic" -> AnthropicReplies(model)
      [] p = "openai" -> OpenAIReplies(model)
      [] p = "ollama" -> OllamaReplies(model)
      [] p = "bedrock" -> BedrockReplies(model)

----------------------------------------------------------------------------
(* State.  truth is what the provider read and generated; seen is what the *)
(* gateway sniffed of it; phase is the provider's place in its event       *)
(* protocol.                                                               *)

NoCall == [pc |-> "idle", endpoint |-> "none", model |-> NoModel, body |-> <<>>,
           stream |-> FALSE, provider |-> "none", wire |-> <<>>, phase |-> "none",
           truth |-> NoUsage, seen |-> NoUsage, served |-> NoModel, stop |-> "none",
           cut |-> "none", code |-> "none"]

PCs == {"idle", "route", "post", "inflight", "streaming", "failed", "meter"}
Usages == [prompt : Nat, completion : Nat]

TypeOK ==
    /\ halted \in BOOLEAN /\ calls \in Nat /\ answered \in Nat
    /\ call.pc \in PCs /\ call.provider \in Providers \cup {"none"}
    /\ call.stream \in BOOLEAN /\ call.cut \in Causes
    /\ call.truth \in Usages /\ call.seen \in Usages
    /\ \A i \in DOMAIN ledger : ledger[i].usage \in Usages /\ ledger[i].truth \in Usages

Init ==
    /\ config \in {c \in Configs : Usable(c)}
    /\ prices \in {NewTable(f) : f \in {g \in PricingFiles : ValidOverrides(g)}}
    /\ halted = FALSE /\ call = NoCall /\ ledger = <<>>
    /\ answered = 0 /\ calls = 0

Answer(code) == call' = [NoCall EXCEPT !.code = code]
At(pc)       == call.pc = pc

----------------------------------------------------------------------------
(* The handler.                                                            *)

\* handleChatCompletions, handleMessages up to resolveRun; a body without a
\* model or without messages is refused.
Receive(endpoint, model, body, stream) ==
    /\ At("idle") /\ calls < MaxCalls
    /\ calls' = calls + 1
    /\ IF model = NoModel \/ body.messages = <<>> THEN Answer("400")
       ELSE call' = [NoCall EXCEPT !.pc = "route", !.endpoint = endpoint, !.model = model,
                                   !.body = body, !.stream = stream]
    /\ UNCHANGED <<config, prices, halted, ledger, answered>>

\* The governor's guards (GovernedRun), then the registry, then the Streamer.
Route ==
    /\ At("route")
    /\ LET p == RouteModel(call.model) IN
       IF halted THEN Answer("402")
       ELSE IF p \notin Registered(config) THEN Answer("400")
       ELSE IF call.stream /\ p \notin Streamers THEN Answer("501")
       ELSE call' = [call EXCEPT !.pc = "post", !.provider = p]
    /\ UNCHANGED <<config, prices, halted, ledger, answered, calls>>

\* Chat and ChatStream up to http.Client.Do.
Post ==
    /\ At("post")
    /\ IF ~HasKey(call.provider) THEN call' = [call EXCEPT !.pc = "failed", !.cut = "upstream"]
       ELSE \E n \in PromptSizes :
              call' = [call EXCEPT !.pc = "inflight", !.truth.prompt = n,
                         !.wire = Wire(call.provider,
                                       ProviderRequest(call.endpoint, call.model, call.body),
                                       call.stream)]
    /\ UNCHANGED <<config, prices, halted, ledger, answered, calls>>

\* The provider generates a token (external).
Generate ==
    /\ \/ At("inflight")
       \/ At("streaming") /\ call.phase \in {"open", "content"}
    /\ call.truth.completion < MaxOutput
    /\ call' = [call EXCEPT !.truth.completion = @ + 1]
    /\ UNCHANGED <<config, prices, halted, ledger, answered, calls>>

\* Chat returns.
ChatReturns ==
    /\ At("inflight") /\ ~call.stream
    /\ \E reply \in Replies(call.provider, call.model) :
         call' = IF reply = ChatError
                 THEN [call EXCEPT !.pc = "failed", !.cut = "upstream"]
                 ELSE [call EXCEPT !.pc = "meter", !.seen = call.truth,
                                   !.stop = reply.stop, !.served = reply.model]
    /\ UNCHANGED <<config, prices, halted, ledger, answered, calls>>

\* ChatStream got a 200: the client's response is committed, long before the call
\* is metered.
StreamOpens ==
    /\ At("inflight") /\ call.stream
    /\ call' = [call EXCEPT !.pc = "streaming", !.phase = "open"]
    /\ answered' = answered + 1
    /\ UNCHANGED <<config, prices, halted, ledger, calls>>

\* The next event of a provider's stream, by its protocol (external): Anthropic
\* opens with message_start (the input and the first output tokens), sends
\* content, then the cumulative message_delta, which repeats the input tokens
\* on the cache paths only; OpenAI sends content and one usage chunk.
Events(c) ==
    LET Ev(kind, next, p, o, m) == [kind |-> kind, next |-> next, prompt |-> p, out |-> o, model |-> m]
        content == Ev("content", "content", 0, 0, NoModel)
    IN IF c.provider = "anthropic"
       THEN CASE c.phase = "open" -> {Ev("message_start", "content", c.truth.prompt, o, m) :
                                        o \in 0..c.truth.completion, m \in Snapshots[c.model]}
              [] c.phase = "content" -> {content} \cup {Ev("message_delta", "final", p,
                                           c.truth.completion, NoModel) : p \in {0, c.truth.prompt}}
              [] OTHER -> {}
       ELSE CASE c.phase \in {"open", "content"} ->
                   {[content EXCEPT !.model = m] : m \in Snapshots[c.model]}
                     \cup {Ev(IF c.wire.usage THEN "usage" ELSE "content", "final",
                              c.truth.prompt, c.truth.completion, m) : m \in Snapshots[c.model]}
              [] OTHER -> {}

\* Mutant of AnthropicSniff: a zero in message_delta overwrites the input tokens.
AnthropicSniffUnguarded(seen, ev) ==
    CASE ev.kind \in {"message_start", "message_delta"} -> [prompt |-> ev.prompt, completion |-> ev.out]
      [] OTHER -> seen

\* antStream.sniff on one complete data line; other lines, and a line that the
\* connection cut in two, do not parse and change nothing.
AnthropicSniff(seen, ev) ==
    CASE ev.kind = "message_start" -> [prompt |-> ev.prompt, completion |-> ev.out]
      [] ev.kind = "message_delta" ->
           [prompt |-> IF ev.prompt > 0 THEN ev.prompt ELSE seen.prompt,
            completion |-> IF ev.out > 0 THEN ev.out ELSE seen.completion]
      [] OTHER -> seen

\* oaiStream.sniff
OpenAISniff(seen, ev) ==
    IF ev.kind = "usage" THEN [prompt |-> ev.prompt, completion |-> ev.out] ELSE seen

Sniff(p, seen, ev) == IF p = "anthropic" THEN AnthropicSniff(seen, ev) ELSE OpenAISniff(seen, ev)

\* Recv: sniffed first, then forwarded verbatim; a write that fails ends the
\* loop with the event counted.
Recv(lost) ==
    /\ At("streaming")
    /\ \E ev \in Events(call) :
         call' = [call EXCEPT !.phase = ev.next, !.seen = Sniff(call.provider, @, ev),
                              !.served = IF ev.model = NoModel THEN @ ELSE ev.model,
                              !.pc = IF lost THEN "meter" ELSE "streaming",
                              !.cut = IF lost THEN "client" ELSE @]
    /\ UNCHANGED <<config, prices, halted, ledger, answered, calls>>

\* io.EOF after the last event.
StreamEnds ==
    /\ At("streaming") /\ call.phase = "final"
    /\ call' = [call EXCEPT !.pc = "meter"]
    /\ UNCHANGED <<config, prices, halted, ledger, answered, calls>>

\* The call's context ends (the run's or the client's), http.Client's Timeout
\* strikes, or the provider fails: before the response a provider error (a
\* non-200 status and a body that does not decode too), after it a truncation.
Cut(cause) ==
    /\ cause = "run" => halted
    /\ \/ At("inflight") /\ call' = [call EXCEPT !.pc = "failed", !.cut = cause]
       \/ At("streaming") /\ call' = [call EXCEPT !.pc = "meter", !.cut = cause]
    /\ UNCHANGED <<config, prices, halted, ledger, answered, calls>>

\* Mutant of Timeout: a Client without one.
TimeoutNever == FALSE /\ UNCHANGED vars

\* &http.Client{Timeout: 120 * time.Second}, which covers the body too.
Timeout == Cut("timeout")

\* The error path: a halted run is reported as such.
Fail ==
    /\ At("failed")
    /\ Answer(IF halted THEN "402" ELSE "502")
    /\ UNCHANGED <<config, prices, halted, ledger, answered, calls>>

\* Price, RecordCall, then the answer, if the call is not a stream.  Only a stream
\* falls back to the requested model.
Meter ==
    /\ At("meter")
    /\ LET model == IF call.stream /\ call.served = NoModel THEN call.model ELSE call.served IN
       \E order \in SetToSeqs(DOMAIN prices) :
         LET cost == Cost(model, call.seen, order) IN
         ledger' = Append(ledger,
             [provider |-> call.provider, model |-> model, usage |-> call.seen,
              usd |-> cost.usd, priced |-> cost.priced,
              truth |-> call.truth, clean |-> call.cut = "none", stream |-> call.stream,
              endpoint |-> call.endpoint, stop |-> call.stop,
              told |-> IF call.stream THEN "none" ELSE FinishFor(call.endpoint, call.stop)])
    /\ answered' = IF call.stream THEN answered ELSE answered + 1
    /\ Answer("200")
    /\ UNCHANGED <<config, prices, halted, calls>>

\* The kill switch, or a budget: the Context of the run is done.
Halt ==
    /\ ~halted /\ halted' = TRUE
    /\ UNCHANGED <<config, prices, call, ledger, answered, calls>>

HandlerStep == Route \/ Post \/ Fail \/ Meter

Next ==
    \/ \E e \in Endpoints, m \in Models, b \in Bodies, s \in BOOLEAN : Receive(e, m, b, s)
    \/ HandlerStep \/ Generate \/ ChatReturns \/ StreamOpens \/ StreamEnds \/ Halt \/ Timeout
    \/ \E lost \in BOOLEAN : Recv(lost)
    \/ \E cause \in {"run", "client", "upstream"} : Cut(cause)

Spec == Init /\ [][Next]_vars

\* Weak fairness for the handler's own code and for the Client's timer; nothing
\* is assumed of the provider, the client or the run.
FairSpec == Spec /\ WF_vars(HandlerStep) /\ WF_vars(Timeout)

----------------------------------------------------------------------------
(* Properties.                                                             *)

\* The fragments of a text, without the separators splitSystem inserts.
Fragments(text) == Where(text, Words \ {Separator})

Texts(msgs) == Join([i \in DOMAIN msgs |-> Fragments(msgs[i].text)])

\* Whichever endpoint the client used and whichever provider the model routes
\* to, the provider is given every system text once and in order, every turn of
\* the conversation with its role and in order, and the client's output cap
\* (the handlers, splitSystem and the providers' Chat).
PromptPreserved ==
    At("inflight") =>
        LET b == call.body
            asked == ProviderRequest(call.endpoint, call.model, b)
            p == call.wire.prompt
            lifted == Fragments(IF call.provider = "bedrock" THEN Join(p.system) ELSE p.system)
        IN /\ lifted \o Texts(SystemMessages(p.messages))
                = Fragments(asked.system) \o Texts(SystemMessages(asked.messages))
           /\ Turns(p.messages) = Turns(asked.messages)
           /\ b.max > 0 => call.wire.max = b.max

\* A call enters the ledger exactly when its client was sent a 200, complete or
\* truncated.  One that ran to its end is metered with exactly the tokens the
\* provider counted, though Anthropic spreads them over several events; however
\* a stream is cut, none is metered for more than the provider read and
\* generated (governedCall's and streamCall's error paths, sniff).
MeteredAsServed ==
    /\ At("idle") => Len(ledger) = answered
    /\ \A i \in DOMAIN ledger :
          LET e == ledger[i] IN
          /\ e.clean => e.usage = e.truth
          /\ e.usage.prompt <= e.truth.prompt
          /\ e.usage.completion <= e.truth.completion

\* The price of an entry does not depend on the order Go walks the rate map:
\* it is that of the longest listed prefix of the model, nothing if there is
\* none, and never negative (Table.Rate, LoadOverrides).
LongestPrefixPrice ==
    \A i \in DOMAIN ledger :
        LET e == ledger[i]
            m == Lower(e.model)
            matches == {p \in DOMAIN prices : p # <<>> /\ IsPrefix(p, m)}
        IN /\ e.priced <=> matches # {}
           /\ e.usd >= 0
           /\ IF matches = {} THEN e.usd = 0
              ELSE \E p \in matches :
                     /\ \A q \in matches : Len(q) <= Len(p)
                     /\ e.usd = e.usage.prompt * prices[p].in + e.usage.completion * prices[p].out

\* Every call ends, even one whose run has no time budget and whose provider
\* hangs: the HTTP client's own timeout cuts it.
CallsEnd == call.pc # "idle" ~> call.pc = "idle"
=============================================================================
