-------------------------- MODULE ModelCallProofs --------------------------
(***************************************************************************)
(* Proofs about ModelCall, for every configuration, price table, model     *)
(* name, request and provider behaviour its constants allow.               *)
(***************************************************************************)
EXTENDS ModelCall, SharedLemmas, TLAPS

----------------------------------------------------------------------------
(* The form of the state.                                                  *)

\* No more tokens than there were.
Within(a, b) == a.prompt <= b.prompt /\ a.completion <= b.completion

\* What a handler can rely on at each of its steps.  A stream that has ended has
\* told all it used; until then Anthropic has told the input tokens first.
CallInv ==
    /\ DOMAIN call = DOMAIN NoCall
    /\ call.truth \in Usages /\ call.seen \in Usages /\ Within(call.seen, call.truth)
    /\ call.pc \in {"idle", "route", "post", "inflight"} => call.seen = NoUsage
    /\ call.pc \in {"route", "post", "inflight", "streaming"} => call.cut = "none"
    /\ call.pc \in {"post", "inflight", "streaming"} => call.provider \in Providers
    /\ call.pc \in {"inflight", "streaming"} /\ call.stream => call.wire.usage = TRUE
    /\ call.pc = "streaming" => call.stream = TRUE
    /\ call.pc = "streaming" => call.phase \in {"open", "content", "final"}
    /\ call.pc = "streaming" /\ call.provider = "anthropic" /\ call.phase = "content"
         => call.seen.prompt = call.truth.prompt
    /\ call.pc = "streaming" /\ call.phase = "final" => call.seen = call.truth
    /\ call.pc = "meter" /\ call.cut = "none" => call.seen = call.truth

\* What is known of every ledger entry.
EntryOK(e) ==
    /\ e.usage \in Usages /\ e.truth \in Usages
    /\ e.clean => e.usage = e.truth
    /\ Within(e.usage, e.truth)

\* The calls answered with 200, but for a stream that has yet to be metered.
Settled ==
    answered - (IF call.stream /\ call.pc \in {"streaming", "meter"} THEN 1 ELSE 0)

LedgerInv ==
    /\ IsLog(ledger) /\ Len(ledger) = Settled
    /\ \A i \in DOMAIN ledger : EntryOK(ledger[i])

\* The rest of TypeOK.
FormOK ==
    /\ halted \in BOOLEAN /\ calls \in Nat /\ answered \in Nat
    /\ call.pc \in PCs /\ call.provider \in Providers \cup {"none"}
    /\ call.stream \in BOOLEAN /\ call.cut \in Causes

IInv == FormOK /\ CallInv /\ LedgerInv

----------------------------------------------------------------------------
(* The steps, one by one.                                                  *)

\* A call that is answered leaves nothing behind.
LEMMA AnswerClears ==
    ASSUME NEW code, Answer(code)
    PROVE  CallInv' /\ call'.pc = "idle" /\ call'.provider = "none"
           /\ call'.stream = FALSE /\ call'.cut = "none"
BY DEF Answer, CallInv, NoCall, NoUsage, Usages, Within

\* Every provider's request for a stream asks for the usage.
LEMMA WireAsksUsage ==
    ASSUME NEW p \in Providers, NEW req, NEW stream
    PROVE  stream => Wire(p, req, stream).usage = TRUE
BY DEF Wire, Providers, AnthropicStreamRequest, AnthropicRequest, OpenAIStreamRequest, OpenAIRequest,
       BedrockRequest, OllamaRequest

\* What the handler does before the call is under way.
LEMMA BeforeCall ==
    ASSUME IInv, Route \/ Post \/ Fail
           \/ \E e \in Endpoints, m \in Models, b \in Bodies, s \in BOOLEAN : Receive(e, m, b, s)
    PROVE  CallInv' /\ FormOK' /\ UNCHANGED <<ledger, answered>>
<1> USE DEF IInv
<1>1. CASE \E e \in Endpoints, m \in Models, b \in Bodies, s \in BOOLEAN : Receive(e, m, b, s)
  <2>1. PICK e \in Endpoints, m \in Models, b \in Bodies, s \in BOOLEAN : Receive(e, m, b, s)
    BY <1>1
  <2>2. UNCHANGED <<ledger, answered, halted>> /\ calls' \in Nat
    <3>1. calls' = calls + 1 /\ UNCHANGED <<ledger, answered, halted>>
      BY <2>1 DEF Receive
    <3>2. calls \in Nat
      BY DEF FormOK
    <3>3. QED
      BY <3>1, <3>2
  <2>3. CASE Answer("400")
    BY <2>2, <2>3, AnswerClears DEF FormOK, PCs, Causes
  <2>4. CASE call' = [NoCall EXCEPT !.pc = "route", !.endpoint = e, !.model = m, !.body = b, !.stream = s]
    <3>1. CallInv'
      BY <2>4 DEF CallInv, NoCall, NoUsage, Usages, Within
    <3>2. call'.pc = "route" /\ call'.provider = "none" /\ call'.stream = s /\ call'.cut = "none"
      BY <2>4 DEF NoCall
    <3>3. QED
      BY <2>2, <3>1, <3>2 DEF FormOK, PCs, Causes
  <2>5. QED
    BY <2>1, <2>3, <2>4 DEF Receive
<1>2. CASE Route
  <2>1. UNCHANGED <<ledger, answered, halted, calls>> /\ call.pc = "route"
    BY <1>2 DEF Route, At
  <2>2. CASE \E code \in {"402", "400", "501"} : Answer(code)
    BY <2>1, <2>2, AnswerClears DEF FormOK, PCs, Causes
  <2>3. CASE \E p \in Registered(config) : call' = [call EXCEPT !.pc = "post", !.provider = p]
    <3>1. PICK p \in Registered(config) : call' = [call EXCEPT !.pc = "post", !.provider = p]
      BY <2>3
    <3>2. p \in Providers
      BY DEF Registered, Providers
    <3>3. CallInv'
      BY <2>1, <3>1, <3>2 DEF CallInv, NoCall
    <3>4. call'.pc = "post" /\ call'.provider = p /\ call'.stream = call.stream /\ call'.cut = call.cut
      BY <3>1 DEF CallInv, NoCall
    <3>5. QED
      BY <2>1, <3>2, <3>3, <3>4 DEF FormOK, PCs
  <2>4. QED
    BY <1>2, <2>2, <2>3 DEF Route
<1>3. CASE Post
  <2>1. UNCHANGED <<ledger, answered, halted, calls>> /\ call.pc = "post"
    BY <1>3 DEF Post, At
  <2>2. CASE call' = [call EXCEPT !.pc = "failed", !.cut = "upstream"]
    <3>1. CallInv'
      BY <2>1, <2>2 DEF CallInv, NoCall
    <3>2. call'.pc = "failed" /\ call'.provider = call.provider /\ call'.stream = call.stream
          /\ call'.cut = "upstream"
      BY <2>2 DEF CallInv, NoCall
    <3>3. QED
      BY <2>1, <3>1, <3>2 DEF FormOK, PCs, Causes
  <2>3. ASSUME NEW n \in PromptSizes, NEW w, call.stream => w.usage = TRUE,
               call' = [call EXCEPT !.pc = "inflight", !.truth.prompt = n, !.wire = w]
        PROVE  CallInv' /\ FormOK'
    <3>1. n \in Nat /\ call.truth \in Usages
      BY CallAssumption DEF CallInv
    <3>2. /\ DOMAIN call' = DOMAIN NoCall /\ call'.pc = "inflight" /\ call'.wire = w
          /\ call'.truth = [call.truth EXCEPT !.prompt = n] /\ call'.seen = call.seen
          /\ call'.provider = call.provider /\ call'.stream = call.stream /\ call'.cut = call.cut
      BY <2>3 DEF CallInv, NoCall
    <3>3. call'.truth \in Usages /\ call'.truth.prompt = n /\ call'.truth.completion = call.truth.completion
      BY <3>1, <3>2 DEF Usages
    <3>4. call.seen = NoUsage /\ call.provider \in Providers /\ call.cut = "none"
      BY <2>1 DEF CallInv
    <3>5. call'.seen \in Usages /\ Within(call'.seen, call'.truth)
      BY <3>1, <3>2, <3>3, <3>4 DEF Usages, Within, NoUsage
    <3>6. CallInv'
      BY <2>3, <3>2, <3>3, <3>4, <3>5 DEF CallInv
    <3>7. QED
      BY <2>1, <3>2, <3>6 DEF FormOK, PCs
  <2>4. call.provider \in Providers
    BY <2>1 DEF CallInv
  <2>5. CASE \E n \in PromptSizes :
               call' = [call EXCEPT !.pc = "inflight", !.truth.prompt = n,
                          !.wire = Wire(call.provider,
                                        ProviderRequest(call.endpoint, call.model, call.body),
                                        call.stream)]
    <3> DEFINE w == Wire(call.provider, ProviderRequest(call.endpoint, call.model, call.body), call.stream)
    <3>1. call.stream => w.usage = TRUE
      BY <2>4, WireAsksUsage
    <3> HIDE DEF w
    <3>2. PICK n \in PromptSizes : call' = [call EXCEPT !.pc = "inflight", !.truth.prompt = n, !.wire = w]
      BY <2>5 DEF w
    <3>3. QED
      BY <2>1, <2>3, <3>1, <3>2
  <2>6. QED
    BY <1>3, <2>1, <2>2, <2>5 DEF Post
<1>4. CASE Fail
  <2>1. UNCHANGED <<ledger, answered, halted, calls>>
    BY <1>4 DEF Fail
  <2>2. PICK code : Answer(code)
    BY <1>4 DEF Fail
  <2>3. QED
    BY <2>1, <2>2, AnswerClears DEF FormOK, PCs, Causes
<1>5. QED
  BY <1>1, <1>2, <1>3, <1>4

\* What one event tells is of the call it belongs to: the last one tells all.
LEMMA SniffTells ==
    ASSUME CallInv, call.pc = "streaming", NEW ev \in Events(call),
           NEW seen, seen = Sniff(call.provider, call.seen, ev)
    PROVE  /\ seen \in Usages /\ Within(seen, call.truth)
           /\ ev.next \in {"content", "final"}
           /\ ev.next = "final" => seen = call.truth
           /\ call.provider = "anthropic" => seen.prompt = call.truth.prompt
<1> DEFINE Ev(kind, next, p, o, m) == [kind |-> kind, next |-> next, prompt |-> p, out |-> o, model |-> m]
<1>0. /\ call.truth \in Usages /\ call.seen \in Usages /\ Within(call.seen, call.truth)
      /\ call.stream = TRUE /\ call.wire.usage = TRUE /\ call.provider \in Providers
      /\ call.phase \in {"open", "content", "final"}
  BY DEF CallInv
<1>1. /\ call.truth.prompt \in Nat /\ call.truth.completion \in Nat
      /\ call.truth = [prompt |-> call.truth.prompt, completion |-> call.truth.completion]
      /\ call.seen.prompt \in Nat /\ call.seen.completion \in Nat
      /\ call.seen.prompt <= call.truth.prompt /\ call.seen.completion <= call.truth.completion
  BY <1>0 DEF Usages, Within
<1>2. CASE call.provider = "anthropic" /\ call.phase = "open"
  <2>1. PICK o \in 0..call.truth.completion, m \in Snapshots[call.model] :
          ev = Ev("message_start", "content", call.truth.prompt, o, m)
    BY <1>2 DEF Events
  <2>2. seen = [prompt |-> call.truth.prompt, completion |-> o]
    BY <1>2, <2>1 DEF Sniff, AnthropicSniff
  <2>3. QED
    BY <1>1, <2>1, <2>2 DEF Usages, Within
<1>3. CASE call.provider = "anthropic" /\ call.phase = "content"
  <2>0. call.seen.prompt = call.truth.prompt
    BY <1>3 DEF CallInv
  <2>1. CASE ev = Ev("content", "content", 0, 0, NoModel)
    <3>1. seen = call.seen /\ ev.next = "content"
      BY <1>3, <2>1 DEF Sniff, AnthropicSniff
    <3>2. QED
      BY <1>0, <2>0, <3>1
  <2>2. ASSUME NEW p \in {0, call.truth.prompt},
               ev = Ev("message_delta", "final", p, call.truth.completion, NoModel)
        PROVE  seen = call.truth /\ ev.next = "final"
    <3>1. seen = [prompt |-> IF p > 0 THEN p ELSE call.seen.prompt,
                  completion |-> IF call.truth.completion > 0 THEN call.truth.completion
                                 ELSE call.seen.completion]
      BY <1>3, <2>2 DEF Sniff, AnthropicSniff
    <3>2. (IF p > 0 THEN p ELSE call.seen.prompt) = call.truth.prompt
      BY <1>1, <2>0, <2>2
    <3>3. (IF call.truth.completion > 0 THEN call.truth.completion ELSE call.seen.completion)
            = call.truth.completion
      BY <1>1
    <3>4. QED
      BY <1>1, <2>2, <3>1, <3>2, <3>3
  <2>3. \/ ev = Ev("content", "content", 0, 0, NoModel)
        \/ \E p \in {0, call.truth.prompt} :
              ev = Ev("message_delta", "final", p, call.truth.completion, NoModel)
    BY <1>3 DEF Events
  <2>4. CASE seen = call.truth /\ ev.next = "final"
    BY <1>0, <1>1, <2>4 DEF Within
  <2>5. QED
    BY <2>1, <2>2, <2>3, <2>4
<1>4. CASE call.provider # "anthropic" /\ call.phase \in {"open", "content"}
  <2>1. \/ \E m : ev = [Ev("content", "content", 0, 0, NoModel) EXCEPT !.model = m]
        \/ \E m : ev = Ev("usage", "final", call.truth.prompt, call.truth.completion, m)
    BY <1>0, <1>4 DEF Events
  <2>2. \/ seen = call.seen /\ ev.next = "content"
        \/ seen = call.truth /\ ev.next = "final"
    BY <1>1, <1>4, <2>1 DEF Sniff, OpenAISniff
  <2>3. CASE seen = call.truth /\ ev.next = "final"
    BY <1>0, <1>1, <1>4, <2>3 DEF Within
  <2>4. QED
    BY <1>0, <1>4, <2>2, <2>3
<1>5. CASE call.phase = "final"
  BY <1>5 DEF Events
<1>6. QED
  BY <1>0, <1>2, <1>3, <1>4, <1>5

\* What the provider, the client and the timer do to a call that is under way.
LEMMA DuringCall ==
    ASSUME IInv, Generate \/ ChatReturns \/ StreamOpens \/ StreamEnds \/ Timeout
                 \/ (\E lost \in BOOLEAN : Recv(lost))
                 \/ (\E cause \in {"run", "client", "upstream"} : Cut(cause))
    PROVE  CallInv' /\ FormOK' /\ UNCHANGED ledger
<1>0. FormOK /\ CallInv /\ DOMAIN call = DOMAIN NoCall
  BY DEF IInv, CallInv
<1>1. CASE Generate
  <2>1. UNCHANGED <<ledger, answered, halted, calls>>
        /\ call' = [call EXCEPT !.truth.completion = @ + 1]
        /\ (call.pc = "inflight" \/ (call.pc = "streaming" /\ call.phase \in {"open", "content"}))
    BY <1>1 DEF Generate, At
  <2>2. /\ DOMAIN call' = DOMAIN NoCall /\ call'.pc = call.pc /\ call'.seen = call.seen
        /\ call'.cut = call.cut /\ call'.provider = call.provider /\ call'.wire = call.wire
        /\ call'.phase = call.phase /\ call'.stream = call.stream
        /\ call'.truth = [call.truth EXCEPT !.completion = @ + 1]
    BY <1>0, <2>1 DEF NoCall
  <2>3. call.truth \in Usages /\ call.seen \in Usages /\ Within(call.seen, call.truth)
    BY <1>0 DEF CallInv
  <2>4. call'.truth \in Usages /\ call'.truth.prompt = call.truth.prompt
        /\ call'.truth.completion = call.truth.completion + 1
    BY <2>2, <2>3 DEF Usages
  <2>5. Within(call'.seen, call'.truth)
    BY <2>2, <2>3, <2>4 DEF Usages, Within
  <2>6. CallInv'
    BY <1>0, <2>1, <2>2, <2>3, <2>4, <2>5 DEF CallInv
  <2>7. QED
    BY <1>0, <2>1, <2>2, <2>6 DEF FormOK
<1>2. CASE ChatReturns
  <2>1. UNCHANGED <<ledger, answered, halted, calls>>
    BY <1>2 DEF ChatReturns
  <2>2. CASE call' = [call EXCEPT !.pc = "failed", !.cut = "upstream"]
    <3>1. CallInv'
      BY <1>0, <2>2 DEF CallInv, NoCall
    <3>2. call'.pc = "failed" /\ call'.cut = "upstream" /\ call'.provider = call.provider
          /\ call'.stream = call.stream
      BY <1>0, <2>2 DEF NoCall
    <3>3. QED
      BY <1>0, <2>1, <3>1, <3>2 DEF FormOK, PCs, Causes
  <2>3. ASSUME NEW stop, NEW served,
               call' = [call EXCEPT !.pc = "meter", !.seen = call.truth, !.stop = stop, !.served = served]
        PROVE  CallInv' /\ FormOK'
    <3>1. /\ DOMAIN call' = DOMAIN NoCall /\ call'.pc = "meter" /\ call'.cut = call.cut
          /\ call'.provider = call.provider /\ call'.stream = call.stream
          /\ call'.seen = call.truth /\ call'.truth = call.truth
      BY <1>0, <2>3 DEF NoCall
    <3>2. Within(call.truth, call.truth)
      BY <1>0 DEF CallInv, Usages, Within
    <3>3. CallInv'
      BY <1>0, <3>1, <3>2 DEF CallInv
    <3>4. QED
      BY <1>0, <2>1, <3>1, <3>3 DEF FormOK, PCs
  <2>4. QED
    BY <1>2, <2>1, <2>2, <2>3 DEF ChatReturns
<1>3. CASE StreamOpens
  <2>1. UNCHANGED <<ledger, halted, calls>> /\ call.pc = "inflight" /\ call.stream = TRUE
        /\ call' = [call EXCEPT !.pc = "streaming", !.phase = "open"]
    BY <1>0, <1>3 DEF StreamOpens, At, FormOK
  <2>5. answered' \in Nat
    BY <1>0, <1>3 DEF StreamOpens, FormOK
  <2>2. CallInv'
    BY <1>0, <2>1 DEF CallInv, NoCall
  <2>3. call'.pc = "streaming" /\ call'.provider = call.provider /\ call'.stream = call.stream
        /\ call'.cut = call.cut
    BY <1>0, <2>1 DEF NoCall
  <2>4. QED
    BY <1>0, <2>1, <2>2, <2>3, <2>5 DEF FormOK, PCs
<1>4. CASE StreamEnds
  <2>1. UNCHANGED <<ledger, answered, halted, calls>> /\ call.pc = "streaming" /\ call.phase = "final"
        /\ call' = [call EXCEPT !.pc = "meter"]
    BY <1>4 DEF StreamEnds, At
  <2>2. CallInv'
    BY <1>0, <2>1 DEF CallInv, NoCall
  <2>3. call'.pc = "meter" /\ call'.provider = call.provider /\ call'.stream = call.stream
        /\ call'.cut = call.cut
    BY <1>0, <2>1 DEF NoCall
  <2>4. QED
    BY <1>0, <2>1, <2>2, <2>3 DEF FormOK, PCs
<1>5. ASSUME NEW cause \in {"run", "client", "upstream", "timeout"}, Cut(cause)
      PROVE  CallInv' /\ FormOK' /\ UNCHANGED ledger
  <2>1. UNCHANGED <<ledger, answered, halted, calls>>
    BY <1>5 DEF Cut
  <2>2. ASSUME NEW pc \in {"failed", "meter"}, call' = [call EXCEPT !.pc = pc, !.cut = cause]
        PROVE  CallInv' /\ FormOK'
    <3>1. CallInv'
      BY <1>0, <2>2 DEF CallInv, NoCall
    <3>2. call'.pc = pc /\ call'.cut = cause /\ call'.provider = call.provider
          /\ call'.stream = call.stream
      BY <1>0, <2>2 DEF NoCall
    <3>3. QED
      BY <1>0, <2>1, <3>1, <3>2 DEF FormOK, PCs, Causes
  <2>3. QED
    BY <1>5, <2>1, <2>2 DEF Cut
<1>6. ASSUME NEW lost \in BOOLEAN, Recv(lost)
      PROVE  CallInv' /\ FormOK' /\ UNCHANGED ledger
  <2>1. UNCHANGED <<ledger, answered, halted, calls>> /\ call.pc = "streaming"
    BY <1>6 DEF Recv, At
  <2>2. PICK ev \in Events(call) :
          call' = [call EXCEPT !.phase = ev.next, !.seen = Sniff(call.provider, @, ev),
                               !.served = IF ev.model = NoModel THEN @ ELSE ev.model,
                               !.pc = IF lost THEN "meter" ELSE "streaming",
                               !.cut = IF lost THEN "client" ELSE @]
    BY <1>6 DEF Recv
  <2>3. PICK seen : seen = Sniff(call.provider, call.seen, ev)
    OBVIOUS
  <2>4. /\ DOMAIN call' = DOMAIN NoCall /\ call'.phase = ev.next /\ call'.seen = seen
        /\ call'.truth = call.truth /\ call'.provider = call.provider /\ call'.wire = call.wire
        /\ call'.stream = call.stream
        /\ call'.pc = IF lost THEN "meter" ELSE "streaming"
        /\ call'.cut = IF lost THEN "client" ELSE call.cut
    BY <1>0, <2>2, <2>3 DEF NoCall
  <2>5. /\ seen \in Usages /\ Within(seen, call.truth)
        /\ ev.next \in {"content", "final"}
        /\ ev.next = "final" => seen = call.truth
        /\ call.provider = "anthropic" => seen.prompt = call.truth.prompt
    BY <1>0, <2>1, <2>3, SniffTells
  <2>6. call.truth \in Usages /\ call.cut = "none" /\ call.provider \in Providers /\ call.wire.usage = TRUE
        /\ call.stream = TRUE
    BY <1>0, <2>1 DEF CallInv
  <2>7. CallInv'
    BY <2>4, <2>5, <2>6 DEF CallInv
  <2>8. QED
    BY <1>0, <2>1, <2>4, <2>7 DEF FormOK, PCs, Causes
<1>7. QED
  BY <1>1, <1>2, <1>3, <1>4, <1>5, <1>6 DEF Timeout

\* An entry is written with the call's own tokens, and the call is answered.
LEMMA MeterWrites ==
    ASSUME IInv, Meter
    PROVE  CallInv' /\ FormOK' /\ LedgerInv'
<1>0. FormOK /\ CallInv /\ LedgerInv /\ call.pc = "meter"
  BY DEF IInv, Meter, At
<1>1. UNCHANGED <<halted, calls>> /\ answered' = (IF call.stream THEN answered ELSE answered + 1)
      /\ answered \in Nat /\ Answer("200")
  BY <1>0 DEF Meter, FormOK
<1>2. CallInv' /\ FormOK'
  <2>1. CallInv' /\ call'.pc = "idle" /\ call'.provider = "none" /\ call'.stream = FALSE
        /\ call'.cut = "none"
    BY <1>1, AnswerClears
  <2>2. halted \in BOOLEAN /\ calls \in Nat /\ answered' \in Nat
    BY <1>0, <1>1 DEF FormOK
  <2>3. QED
    BY <1>1, <2>1, <2>2 DEF FormOK, PCs, Causes
<1>3. PICK e : /\ ledger' = Append(ledger, e) /\ e.usage = call.seen /\ e.truth = call.truth
               /\ e.clean = (call.cut = "none")
  <2> DEFINE model == IF call.stream /\ call.served = NoModel THEN call.model ELSE call.served
             E(order) == [provider |-> call.provider, model |-> model, usage |-> call.seen,
                usd |-> Cost(model, call.seen, order).usd,
                priced |-> Cost(model, call.seen, order).priced,
                truth |-> call.truth, clean |-> call.cut = "none", stream |-> call.stream,
                endpoint |-> call.endpoint, stop |-> call.stop,
                told |-> IF call.stream THEN "none" ELSE FinishFor(call.endpoint, call.stop)]
  <2>1. PICK order \in SetToSeqs(DOMAIN prices) : ledger' = Append(ledger, E(order))
    BY DEF Meter
  <2>2. E(order).usage = call.seen /\ E(order).truth = call.truth
        /\ E(order).clean = (call.cut = "none")
    OBVIOUS
  <2> HIDE DEF E
  <2>3. QED
    BY <2>1, <2>2
<1>4. EntryOK(e)
  BY <1>0, <1>3 DEF EntryOK, CallInv
<1>5. /\ IsLog(ledger') /\ Len(ledger') = Len(ledger) + 1
      /\ \A i \in DOMAIN ledger' : (i \in DOMAIN ledger /\ ledger'[i] = ledger[i]) \/ ledger'[i] = e
  BY <1>0, <1>3, AppendToLog DEF LedgerInv
<1>8. Settled' = Settled + 1
  <2>1. Settled = IF call.stream THEN answered - 1 ELSE answered
    BY <1>0, <1>1 DEF Settled
  <2>2. Settled' = answered'
    <3>1. call'.pc = "idle"
      BY <1>1, AnswerClears
    <3>2. QED
      BY <1>1, <3>1 DEF Settled
  <2>3. QED
    BY <1>1, <2>1, <2>2
<1>6. LedgerInv'
  BY <1>0, <1>4, <1>5, <1>8 DEF LedgerInv, EntryOK
<1>7. QED
  BY <1>2, <1>6

\* Until it is metered, a call leaves the settled ones alone: a stream that opens
\* is answered, and is yet to be entered.
LEMMA SettledKept ==
    ASSUME IInv, Next, ~Meter
    PROVE  Settled' = Settled
<1>0. FormOK /\ CallInv /\ DOMAIN call = DOMAIN NoCall
  BY DEF IInv, CallInv
<1>1. ASSUME NEW code, Answer(code), UNCHANGED answered, call.pc \in {"idle", "route", "failed"}
      PROVE  Settled' = Settled
  <2>1. call'.pc = "idle"
    BY <1>1, AnswerClears
  <2>2. QED
    BY <1>0, <1>1, <2>1 DEF Settled, FormOK
<1>2. CASE \E e \in Endpoints, m \in Models, b \in Bodies, s \in BOOLEAN : Receive(e, m, b, s)
  <2>1. PICK e \in Endpoints, m \in Models, b \in Bodies, s \in BOOLEAN : Receive(e, m, b, s)
    BY <1>2
  <2>2. CASE call' = [NoCall EXCEPT !.pc = "route", !.endpoint = e, !.model = m, !.body = b, !.stream = s]
    <3>1. call'.pc = "route" /\ call.pc = "idle" /\ answered' = answered
      BY <2>1, <2>2 DEF NoCall, Receive, At
    <3>2. QED
      BY <1>0, <3>1 DEF Settled, FormOK
  <2>3. QED
    BY <1>1, <2>1, <2>2 DEF Receive, At
<1>3. CASE Route
  <2>1. call.pc = "route" /\ answered' = answered
    BY <1>3 DEF Route, At
  <2>2. CASE \E p : call' = [call EXCEPT !.pc = "post", !.provider = p]
    <3>1. call'.pc = "post"
      BY <1>0, <2>2 DEF NoCall
    <3>2. QED
      BY <1>0, <2>1, <3>1 DEF Settled, FormOK
  <2>3. QED
    BY <1>1, <1>3, <2>1, <2>2 DEF Route
<1>4. CASE Post
  <2>1. call.pc = "post" /\ answered' = answered
    BY <1>4 DEF Post, At
  <2>2. call'.pc \in {"failed", "inflight"}
    BY <1>0, <1>4 DEF Post, NoCall
  <2>3. QED
    BY <1>0, <2>1, <2>2 DEF Settled, FormOK
<1>5. CASE Fail
  <2>1. call.pc = "failed" /\ answered' = answered
    BY <1>5 DEF Fail, At
  <2>2. QED
    BY <1>1, <1>5, <2>1 DEF Fail
<1>6. CASE Generate
  <2>1. call'.pc = call.pc /\ call'.stream = call.stream /\ answered' = answered
    BY <1>0, <1>6 DEF Generate, NoCall
  <2>2. QED
    BY <2>1 DEF Settled
<1>7. CASE ChatReturns
  <2>1. call.pc = "inflight" /\ ~call.stream /\ answered' = answered
    BY <1>7 DEF ChatReturns, At
  <2>2. call'.stream = call.stream
    BY <1>0, <1>7 DEF ChatReturns, NoCall
  <2>3. QED
    BY <2>1, <2>2 DEF Settled
<1>8. CASE StreamOpens
  <2>1. call.pc = "inflight" /\ call.stream /\ answered' = answered + 1 /\ answered \in Nat
    BY <1>0, <1>8 DEF StreamOpens, At, FormOK
  <2>2. call'.pc = "streaming" /\ call'.stream = call.stream
    BY <1>0, <1>8 DEF StreamOpens, NoCall
  <2>3. QED
    BY <2>1, <2>2 DEF Settled
<1>9. CASE StreamEnds
  <2>1. call.pc = "streaming" /\ answered' = answered
    BY <1>9 DEF StreamEnds, At
  <2>2. call'.pc = "meter" /\ call'.stream = call.stream
    BY <1>0, <1>9 DEF StreamEnds, NoCall
  <2>3. QED
    BY <2>1, <2>2 DEF Settled
<1>10. ASSUME NEW cause, Cut(cause) PROVE Settled' = Settled
  <2>1. answered' = answered
    BY <1>10 DEF Cut
  <2>2. call'.stream = call.stream /\ (\/ call.pc = "inflight" /\ call'.pc = "failed"
                                       \/ call.pc = "streaming" /\ call'.pc = "meter")
    BY <1>0, <1>10 DEF Cut, NoCall, At
  <2>3. QED
    BY <2>1, <2>2 DEF Settled
<1>11. ASSUME NEW lost, Recv(lost) PROVE Settled' = Settled
  <2>1. answered' = answered /\ call.pc = "streaming"
    BY <1>11 DEF Recv, At
  <2>2. call'.stream = call.stream /\ call'.pc \in {"streaming", "meter"}
    BY <1>0, <1>11 DEF Recv, NoCall
  <2>3. QED
    BY <2>1, <2>2 DEF Settled
<1>12. CASE Halt
  BY <1>12 DEF Halt, Settled
<1>13. QED
  BY <1>2, <1>3, <1>4, <1>5, <1>6, <1>7, <1>8, <1>9, <1>10, <1>11, <1>12, Zenon DEF Next, HandlerStep, Timeout

\* The inductive invariant.
LEMMA Inductive == Spec => []IInv
<1>1. Init => IInv
  <2> SUFFICES ASSUME Init PROVE IInv
    OBVIOUS
  <2>1. CallInv /\ FormOK
    <3>1. call = NoCall /\ halted = FALSE /\ calls = 0 /\ answered = 0
      BY DEF Init
    <3>2. CallInv
      BY <3>1 DEF CallInv, NoCall, NoUsage, Usages, Within
    <3>3. call.pc = "idle" /\ call.provider = "none" /\ call.stream = FALSE /\ call.cut = "none"
      BY <3>1 DEF NoCall
    <3>4. QED
      BY <3>1, <3>2, <3>3 DEF FormOK, PCs, Causes
  <2>2. LedgerInv
    <3>0. answered = 0
      BY DEF Init
    <3>8. ledger = <<>>
      BY DEF Init
    <3>6. call = NoCall
      BY DEF Init
    <3>7. call.stream = FALSE
      BY <3>6 DEF NoCall
    <3>9. Settled = 0
      <4>1. answered \in Nat
        BY <3>0
      <4>2. Settled = answered - 0
        BY <3>7, Zenon DEF Settled
      <4>3. QED
        BY <3>0, <4>1, <4>2
    <3>1. ledger = <<>> /\ Settled = 0
      BY <3>8, <3>9
    <3>2. \A S : <<>> \in Seq(S)
      OBVIOUS
    <3>3. Len(<<>>) = 0 /\ DOMAIN <<>> = {}
      OBVIOUS
    <3>4. IsLog(<<>>)
      BY <3>2 DEF IsLog
    <3>5. QED
      BY <3>1, <3>3, <3>4 DEF LedgerInv
  <2>3. QED
    BY <2>1, <2>2 DEF IInv
<1>2. IInv /\ [Next]_vars => IInv'
  <2> SUFFICES ASSUME IInv, [Next]_vars PROVE IInv'
    OBVIOUS
  <2>0. LedgerInv /\ CallInv /\ FormOK
    BY DEF IInv
  <2>1. CASE UNCHANGED ledger /\ Settled' = Settled /\ CallInv' /\ FormOK'
    BY <2>0, <2>1 DEF IInv, LedgerInv, IsLog, EntryOK
  <2>2. CASE Meter
    BY <2>2, MeterWrites DEF IInv
  <2>3. CASE Halt
    <3>1. UNCHANGED <<ledger, answered, call, calls>> /\ halted' = TRUE
      BY <2>3 DEF Halt
    <3>2. QED
      BY <2>0, <2>1, <3>1 DEF CallInv, FormOK, Within, Settled
  <2>4. CASE UNCHANGED vars
    <3>1. UNCHANGED <<ledger, answered, call, calls, halted>>
      BY <2>4 DEF vars
    <3>2. QED
      BY <2>0, <2>1, <3>1 DEF CallInv, FormOK, Within, Settled
  <2>5. CASE Route \/ Post \/ Fail
             \/ \E e \in Endpoints, m \in Models, b \in Bodies, s \in BOOLEAN : Receive(e, m, b, s)
    <3>1. CASE Meter
      BY <2>2, <3>1
    <3>2. CASE ~Meter
      <4>1. Next
        BY <2>5, Zenon DEF Next, HandlerStep
      <4>2. QED
        BY <2>1, <2>5, <3>2, <4>1, BeforeCall, SettledKept
    <3>3. QED
      BY <3>1, <3>2
  <2>6. CASE Generate \/ ChatReturns \/ StreamOpens \/ StreamEnds \/ Timeout
             \/ (\E lost \in BOOLEAN : Recv(lost))
             \/ (\E cause \in {"run", "client", "upstream"} : Cut(cause))
    <3>1. CASE Meter
      BY <2>2, <3>1
    <3>2. CASE ~Meter
      <4>1. Next
        BY <2>6, Zenon DEF Next, HandlerStep
      <4>2. QED
        BY <2>1, <2>6, <3>2, <4>1, DuringCall, SettledKept
    <3>3. QED
      BY <3>1, <3>2
  <2>7. QED
    BY <2>2, <2>3, <2>4, <2>5, <2>6 DEF Next, HandlerStep
<1>3. QED
  BY <1>1, <1>2, PTL DEF Spec

\* TypeOK holds in every behaviour: tokens are natural numbers, however the
\* provider's events arrive, and the call is at one of the handlers' steps.
THEOREM TypeCorrect == Spec => []TypeOK
<1>1. IInv => TypeOK
  BY DEF IInv, FormOK, CallInv, LedgerInv, EntryOK, TypeOK
<1>2. QED
  BY <1>1, Inductive, PTL

\* For every provider, every length of a stream and every way it can be cut, a
\* call is entered in the ledger exactly when it is answered with 200, one that
\* ran to its end with exactly the provider's tokens and none with more.
THEOREM MeteredAsServedHolds == Spec => []MeteredAsServed
<1>1. IInv => MeteredAsServed
  <2> SUFFICES ASSUME IInv PROVE MeteredAsServed
    OBVIOUS
  <2>1. call.pc = "idle" => Settled = answered
    BY DEF IInv, FormOK, Settled
  <2>2. QED
    BY <2>1 DEF IInv, LedgerInv, EntryOK, Within, MeteredAsServed, At
<1>2. QED
  BY <1>1, Inductive, PTL

----------------------------------------------------------------------------
(* Table.Rate's loop over the price table, whatever order Go walks it in.  *)

\* The body of the loop.
Better(m, best, p) == IF IsPrefix(p, m) /\ Len(p) > Len(best) THEN p ELSE best

\* g[k] is the best of the first k entries of s.
IsSearch(g, m, n, s) ==
    /\ g[0] = <<>> /\ g[n] = BestPrefix(m, s)
    /\ \A k \in 1..n : g[k] = Better(m, g[k - 1], s[k])

\* What FoldLeft computes is what the loop computes, one entry after the other.
LEMMA BestPrefixIsLoop ==
    ASSUME NEW m, NEW n \in Nat, NEW s, DOMAIN s = 1..n
    PROVE  \E g : IsSearch(g, m, n, s)
<1> DEFINE A == {<<>>} \cup {s[k] : k \in 1..n}
           f == [p \in (1..n) \X A |-> Better(m, p[2], s[p[1]])]
           Step(h) == [T \in SUBSET (1..n) |->
                         IF T = {} THEN <<>> ELSE Better(m, h[T \ {Max(T)}], s[Max(T)])]
           iter == CHOOSE h : h = Step(h)
<1>1. BestPrefix(m, s) = iter[1..n]
  BY DEF BestPrefix, FoldLeft, MapThenFoldSet, Better
<1>2. <<>> \in A /\ \A k \in 1..n : s[k] \in A
  OBVIOUS
<1>3. f \in [(1..n) \X A -> A] /\ \A k \in 1..n, b \in A : f[<<k, b>>] = Better(m, b, s[k])
  <2> HIDE DEF A
  <2> QED BY <1>2 DEF Better
<1> HIDE DEF A, f
<1>4. PICK h : IsFold(h, n, A, <<>>, f)
  BY <1>2, <1>3, FoldExists
<1>5. /\ h \in [SUBSET (1..n) -> A] /\ h[{}] = <<>>
      /\ \A T \in SUBSET (1..n) : T # {} => h[T] = f[<<Max(T), h[T \ {Max(T)}]>>]
  BY <1>4 DEF IsFold
<1>6. \A T \in SUBSET (1..n) : T # {} => Max(T) \in 1..n /\ T \ {Max(T)} \in SUBSET (1..n)
  BY MaxOfPositions
<1>7. \A T \in SUBSET (1..n) : T # {} => h[T] = Better(m, h[T \ {Max(T)}], s[Max(T)])
  BY <1>3, <1>5, <1>6
<1>8. h = Step(h)
  <2>1. h = [T \in SUBSET (1..n) |-> h[T]]
    BY <1>5
  <2>2. QED
    BY <1>5, <1>7, <2>1
<1>9. iter = Step(iter)
  <2> HIDE DEF Step
  <2> QED BY <1>8
<1> HIDE DEF iter
<1>10. iter[{}] = <<>> /\ \A T \in SUBSET (1..n) : T # {} => iter[T] = Better(m, iter[T \ {Max(T)}], s[Max(T)])
  BY <1>9
<1>11. PICK g : IsLoop(g, n, A, <<>>, f, iter[1..n])
  <2>1. \A T \in SUBSET (1..n) : (T # {} /\ iter[T \ {Max(T)}] \in A) =>
            iter[T] = f[<<Max(T), iter[T \ {Max(T)}]>>]
    BY <1>3, <1>6, <1>10
  <2>2. iter[{}] = <<>> /\ <<>> \in A /\ f \in [(1..n) \X A -> A]
    BY <1>2, <1>3, <1>10
  <2>3. QED
    BY <2>1, <2>2, LoopOfFold
<1>12. \A k \in 1..n : k - 1 \in 0..n
  OBVIOUS
<1>13. IsSearch(g, m, n, s)
  BY <1>1, <1>3, <1>11, <1>12 DEF IsLoop, IsSearch
<1>14. QED
  BY <1>13

\* The loop ends with a longest entry that is a prefix of m, with <<>> if none is.
LEMMA LoopFindsLongest ==
    ASSUME NEW m, NEW n \in Nat, NEW s, DOMAIN s = 1..n, \A k \in 1..n : Len(s[k]) \in Nat,
           NEW b, b = BestPrefix(m, s)
    PROVE  /\ b = <<>> \/ \E k \in 1..n : b = s[k] /\ IsPrefix(s[k], m)
           /\ \A k \in 1..n : IsPrefix(s[k], m) => Len(s[k]) <= Len(b)
<1>0. PICK g : IsSearch(g, m, n, s)
  BY BestPrefixIsLoop
<1>1. /\ g[0] = <<>> /\ g[n] = BestPrefix(m, s)
      /\ \A k \in 1..n : g[k] = Better(m, g[k - 1], s[k])
  BY <1>0 DEF IsSearch
<1> DEFINE Found(k) == /\ Len(g[k]) \in Nat
                       /\ g[k] = <<>> \/ \E j \in 1..k : g[k] = s[j] /\ IsPrefix(s[j], m)
                       /\ \A j \in 1..k : IsPrefix(s[j], m) => Len(s[j]) <= Len(g[k])
<1>2. Found(0)
  <2>1. Len(<<>>) = 0 /\ 1..0 = {}
    OBVIOUS
  <2>2. QED
    BY <1>1, <2>1
<1>3. ASSUME NEW k \in 1..n, Found(k - 1) PROVE Found(k)
  <2>1. g[k] = IF IsPrefix(s[k], m) /\ Len(s[k]) > Len(g[k - 1]) THEN s[k] ELSE g[k - 1]
    BY <1>1 DEF Better
  <2>2. Len(s[k]) \in Nat /\ Len(g[k - 1]) \in Nat
    BY <1>3
  <2>3. \A j \in 1..k : j \in 1..(k - 1) \/ j = k
    OBVIOUS
  <2>4. 1..(k - 1) \subseteq 1..k /\ k \in 1..k /\ 1..k \subseteq 1..n
    OBVIOUS
  <2>5. CASE IsPrefix(s[k], m) /\ Len(s[k]) > Len(g[k - 1])
    <3>1. g[k] = s[k]
      BY <2>1, <2>5
    <3>2. \A j \in 1..k : IsPrefix(s[j], m) => Len(s[j]) <= Len(g[k])
      BY <1>3, <2>2, <2>3, <2>4, <2>5, <3>1
    <3>3. QED
      BY <2>2, <2>4, <2>5, <3>1, <3>2
  <2>6. CASE ~(IsPrefix(s[k], m) /\ Len(s[k]) > Len(g[k - 1]))
    <3>1. g[k] = g[k - 1]
      BY <2>1, <2>6
    <3>2. IsPrefix(s[k], m) => Len(s[k]) <= Len(g[k - 1])
      BY <2>2, <2>6
    <3>3. \A j \in 1..k : IsPrefix(s[j], m) => Len(s[j]) <= Len(g[k])
      BY <1>3, <2>3, <3>1, <3>2
    <3>4. g[k] = <<>> \/ \E j \in 1..k : g[k] = s[j] /\ IsPrefix(s[j], m)
      BY <1>3, <2>4, <3>1
    <3>5. QED
      BY <2>2, <3>1, <3>3, <3>4
  <2>7. QED
    BY <2>5, <2>6
<1>4. Found(n)
  <2> DEFINE G == {k \in 0..n : Found(k)}
  <2> HIDE DEF Found
  <2>1. 0 \in G /\ \A k \in 1..n : k - 1 \in G => k \in G
    BY <1>2, <1>3
  <2> HIDE DEF G
  <2>2. \A k \in 0..n : k \in G
    BY <2>1, CountUp
  <2>3. QED
    BY <2>2 DEF G
<1>5. b = g[n]
  BY <1>1
<1>6. QED
  BY <1>4, <1>5

\* The price table of a daemon that started.
PricesOK ==
    /\ IsFiniteSet(DOMAIN prices)
    /\ \A p \in DOMAIN prices : /\ Len(p) \in Nat /\ (Len(p) = 0 => p = <<>>)
                                /\ prices[p].in \in Nat /\ prices[p].out \in Nat

\* NewTable's keys are lower-case names, its rates those of the file or the list.
LEMMA TableOK ==
    ASSUME NEW f \in PricingFiles, ValidOverrides(f), prices = NewTable(f)
    PROVE  PricesOK
<1> DEFINE D == DOMAIN DefaultRates \cup DOMAIN f
           keys == {Lower(m) : m \in D}
           R == {LowerCase[x] : x \in DOMAIN LowerCase}
<1>1. IsFiniteSet(D) /\ D \subseteq Seq(DOMAIN LowerCase)
  BY CallAssumption, FS_Union
<1>2. ASSUME NEW g, NEW m \in DOMAIN g, g \in {DefaultRates, f}
      PROVE  g[m].in \in Nat /\ g[m].out \in Nat
  <2>1. g[m].in \in Int /\ g[m].out \in Int
    BY <1>2, CallAssumption
  <2>2. g[m].in >= 0 /\ g[m].out >= 0
    BY <1>2, CallAssumption DEF ValidOverrides
  <2>3. QED
    BY <2>1, <2>2
<1>3. ASSUME NEW m \in D PROVE Len(Lower(m)) \in Nat /\ (Len(Lower(m)) = 0 => Lower(m) = <<>>)
  <2>1. m \in Seq(DOMAIN LowerCase)
    BY <1>1
  <2>2. DOMAIN m = 1..Len(m) /\ Len(m) \in Nat /\ \A i \in 1..Len(m) : m[i] \in DOMAIN LowerCase
    BY <2>1
  <2>3. Lower(m) = [i \in 1..Len(m) |-> LowerCase[m[i]]]
    BY <2>2 DEF Lower
  <2>4. \A i \in 1..Len(m) : LowerCase[m[i]] \in R
    BY <2>2
  <2> HIDE DEF R
  <2>5. [i \in 1..Len(m) |-> LowerCase[m[i]]] \in Seq(R)
    BY <2>2, <2>4
  <2>6. QED
    BY <2>3, <2>5
<1>4. IsFiniteSet(keys)
  <2> DEFINE h == [m \in D |-> Lower(m)]
  <2>1. h \in Surjection(D, keys)
    BY DEF Surjection
  <2> HIDE DEF h, keys, D
  <2>2. QED
    BY <1>1, <2>1, FS_Surjection
<1>5. DOMAIN prices = keys
  BY DEF NewTable
<1>6. ASSUME NEW p \in keys PROVE prices[p].in \in Nat /\ prices[p].out \in Nat
  <2>1. \E g \in {DefaultRates, f} : \E m \in DOMAIN g : prices[p] = g[m]
    <3> DEFINE From(g) == g[CHOOSE m \in DOMAIN g : Lower(m) = p]
    <3>1. prices[p] = IF \E m \in DOMAIN f : Lower(m) = p THEN From(f) ELSE From(DefaultRates)
      BY DEF NewTable
    <3>2. CASE \E m \in DOMAIN f : Lower(m) = p
      <4>1. (CHOOSE m \in DOMAIN f : Lower(m) = p) \in DOMAIN f
        BY <3>2
      <4>2. QED
        BY <3>1, <3>2, <4>1
    <3>3. CASE ~\E m \in DOMAIN f : Lower(m) = p
      <4>1. \E m \in DOMAIN DefaultRates : Lower(m) = p
        BY <3>3
      <4>2. (CHOOSE m \in DOMAIN DefaultRates : Lower(m) = p) \in DOMAIN DefaultRates
        BY <4>1
      <4>3. QED
        BY <3>1, <3>3, <4>2
    <3>4. QED
      BY <3>2, <3>3
  <2>2. QED
    BY <1>2, <2>1
<1>7. \A p \in keys : \E m \in D : p = Lower(m)
  OBVIOUS
<1> HIDE DEF keys, D
<1>8. QED
  BY <1>3, <1>4, <1>5, <1>6, <1>7 DEF PricesOK

\* The listed prefixes of a model.
Matches(m) == {p \in DOMAIN prices : p # <<>> /\ IsPrefix(p, m)}

\* e is priced by the longest of them.
EntryPriced(e) ==
    LET matches == Matches(Lower(e.model)) IN
    /\ e.priced <=> matches # {}
    /\ e.usd >= 0
    /\ IF matches = {} THEN e.usd = 0
       ELSE \E p \in matches :
              /\ \A q \in matches : Len(q) <= Len(p)
              /\ e.usd = e.usage.prompt * prices[p].in + e.usage.completion * prices[p].out

\* Cost finds that price in whatever order it walks the table.
LEMMA CostIsLongest ==
    ASSUME PricesOK, NEW order \in SetToSeqs(DOMAIN prices), NEW e, e.usage \in Usages,
           e.usd = Cost(e.model, e.usage, order).usd,
           e.priced = Cost(e.model, e.usage, order).priced
    PROVE  EntryPriced(e)
<1> DEFINE D == DOMAIN prices
           n == Cardinality(D)
           m == Lower(e.model)
           b == BestPrefix(m, order)
<1>1. n \in Nat /\ IsFiniteSet(D)
  BY FS_CardinalityType DEF PricesOK
<1>2. DOMAIN order = 1..n /\ \A k \in 1..n : order[k] \in D
  BY DEF SetToSeqs
<1>3. \A p \in D : \E k \in 1..n : order[k] = p
  <2>1. order \in Injection(1..n, D)
    BY DEF SetToSeqs, Injection, IsInjective
  <2>2. IsFiniteSet(1..n) /\ Cardinality(1..n) = n
    BY <1>1, FS_Interval
  <2>3. order \in Surjection(1..n, D)
    BY <1>1, <2>1, <2>2, FS_Injection
  <2>4. QED
    BY <2>3 DEF Surjection
<1>4. \A p \in D : /\ Len(p) \in Nat /\ (Len(p) = 0 => p = <<>>)
                   /\ prices[p].in \in Nat /\ prices[p].out \in Nat
  BY DEF PricesOK
<1>5. /\ b = <<>> \/ \E k \in 1..n : b = order[k] /\ IsPrefix(order[k], m)
      /\ \A k \in 1..n : IsPrefix(order[k], m) => Len(order[k]) <= Len(b)
  <2>1. \A k \in 1..n : Len(order[k]) \in Nat
    BY <1>2, <1>4
  <2> HIDE DEF n, m
  <2>2. QED
    BY <1>1, <1>2, <2>1, LoopFindsLongest
<1>6. \A p \in Matches(m) : p \in D /\ p # <<>> /\ Len(p) <= Len(b) /\ Len(p) \in Nat /\ Len(p) # 0
  <2> HIDE DEF n, m, b
  <2> QED BY <1>3, <1>4, <1>5 DEF Matches
<1>7. e.usage.prompt \in Nat /\ e.usage.completion \in Nat
  BY DEF Usages
<1>8. CASE b = <<>>
  <2>1. e.usd = 0 /\ e.priced = FALSE
    BY <1>8 DEF Cost
  <2>2. Matches(m) = {}
    <3>1. Len(b) = 0
      BY <1>8
    <3> HIDE DEF b, m
    <3>2. QED
      BY <1>6, <3>1
  <2>3. QED
    BY <2>1, <2>2 DEF EntryPriced
<1>9. CASE b # <<>>
  <2>1. e.usd = e.usage.prompt * prices[b].in + e.usage.completion * prices[b].out /\ e.priced = TRUE
    BY <1>9 DEF Cost
  <2> HIDE DEF n, m, b
  <2>2. b \in D /\ IsPrefix(b, m)
    BY <1>2, <1>5, <1>9
  <2>3. b \in Matches(m)
    BY <1>9, <2>2 DEF Matches
  <2>4. prices[b].in \in Nat /\ prices[b].out \in Nat
    BY <1>4, <2>2
  <2>5. \A x, y \in Nat : x * y \in Nat
    OBVIOUS
  <2>6. e.usage.prompt * prices[b].in \in Nat /\ e.usage.completion * prices[b].out \in Nat
    BY <1>7, <2>4, <2>5
  <2>7. e.usd >= 0
    BY <2>1, <2>6
  <2>8. \A q \in Matches(m) : Len(q) <= Len(b)
    BY <1>6
  <2>9. QED
    BY <2>1, <2>3, <2>7, <2>8 DEF EntryPriced, m
<1>10. QED
  BY <1>8, <1>9

PricedInv == PricesOK /\ \A i \in DOMAIN ledger : EntryPriced(ledger[i])

\* Every ledger entry of every behaviour, under every price table a daemon can
\* start with, has the price of the longest listed prefix of its model, whatever
\* the order in which Table.Rate meets the prefixes, and none has a negative one.
THEOREM LongestPrefixPriceHolds == Spec => []LongestPrefixPrice
<1>1. Init => PricedInv
  <2> SUFFICES ASSUME Init PROVE PricedInv
    OBVIOUS
  <2>1. PICK f \in PricingFiles : ValidOverrides(f) /\ prices = NewTable(f)
    BY DEF Init
  <2>2. PricesOK
    BY <2>1, TableOK
  <2>3. ledger = <<>> /\ DOMAIN <<>> = {}
    BY DEF Init
  <2>4. QED
    BY <2>2, <2>3 DEF PricedInv
<1>2. IInv /\ PricedInv /\ [Next]_vars => PricedInv'
  <2> SUFFICES ASSUME IInv, PricedInv, [Next]_vars PROVE PricedInv'
    OBVIOUS
  <2>1. UNCHANGED prices
    BY DEF Next, HandlerStep, Receive, Route, Post, Fail, Meter, Generate, ChatReturns, StreamOpens,
           StreamEnds, Halt, Timeout, Recv, Cut, vars
  <2>2. PricesOK /\ PricesOK'
    BY <2>1 DEF PricedInv, PricesOK
  <2>3. \A e : EntryPriced(e) => EntryPriced(e)'
    BY <2>1 DEF EntryPriced, Matches
  <2>4. CASE Meter
    <3> DEFINE model == IF call.stream /\ call.served = NoModel THEN call.model ELSE call.served
               E(order) == [provider |-> call.provider, model |-> model, usage |-> call.seen,
                  usd |-> Cost(model, call.seen, order).usd,
                  priced |-> Cost(model, call.seen, order).priced,
                  truth |-> call.truth, clean |-> call.cut = "none", stream |-> call.stream,
                  endpoint |-> call.endpoint, stop |-> call.stop,
                  told |-> IF call.stream THEN "none" ELSE FinishFor(call.endpoint, call.stop)]
    <3>1. PICK order \in SetToSeqs(DOMAIN prices) : ledger' = Append(ledger, E(order))
      BY <2>4 DEF Meter
    <3>2. /\ E(order).usage = call.seen
          /\ E(order).usd = Cost(E(order).model, E(order).usage, order).usd
          /\ E(order).priced = Cost(E(order).model, E(order).usage, order).priced
      OBVIOUS
    <3>3. PICK e : e = E(order)
      OBVIOUS
    <3>4. call.seen \in Usages
      BY DEF IInv, CallInv
    <3>5. EntryPriced(e)
      <4> HIDE DEF E
      <4> QED BY <2>2, <3>2, <3>3, <3>4, CostIsLongest
    <3>6. \A i \in DOMAIN ledger' : (i \in DOMAIN ledger /\ ledger'[i] = ledger[i]) \/ ledger'[i] = e
      <4>1. IsLog(ledger) /\ ledger' = Append(ledger, e)
        BY <3>1, <3>3 DEF IInv, LedgerInv
      <4>2. QED
        BY <4>1, AppendToLog
    <3> HIDE DEF E
    <3>7. QED
      BY <2>2, <2>3, <3>5, <3>6 DEF PricedInv
  <2>5. CASE UNCHANGED ledger
    BY <2>2, <2>3, <2>5 DEF PricedInv
  <2>6. QED
    BY <2>4, <2>5 DEF Next, HandlerStep, Receive, Route, Post, Fail, Generate, ChatReturns, StreamOpens,
           StreamEnds, Halt, Timeout, Recv, Cut, vars
<1>3. PricedInv => LongestPrefixPrice
  BY DEF PricedInv, EntryPriced, Matches, LongestPrefixPrice
<1>4. QED
  BY <1>1, <1>2, <1>3, Inductive, PTL DEF Spec

----------------------------------------------------------------------------
(* The loops that put a prompt together.                                   *)

\* Two texts, one after the other, are a text.
LEMMA TextConcat ==
    ASSUME NEW a \in Text, NEW b \in Text
    PROVE  a \o b \in Text
BY ConcatProperties DEF Text

\* Joining texts is associative.
LEMMA TextAssociative ==
    ASSUME NEW a \in Text, NEW b \in Text, NEW c \in Text
    PROVE  (a \o b) \o c = a \o (b \o c)
BY ConcatAssociative DEF Text

\* One round of decodeContent's loop, and of splitSystem's.
Glue(s, e)    == s \o e
LiftOne(s, m) == IF s = <<>> THEN m.text ELSE s \o <<Separator>> \o m.text

Glued(n, texts) == [p \in (1..n) \X Text |-> Glue(p[2], texts[p[1]])]
Lifted(n, msgs) == [p \in (1..n) \X Text |-> LiftOne(p[2], msgs[p[1]])]

\* splitSystem's round makes a text of a text and a message.
LEMMA LiftOneType ==
    ASSUME NEW s \in Text, NEW m \in Message
    PROVE  LiftOne(s, m) \in Text
<1>1. <<Separator>> \in Text
  BY DEF Text
<1>2. m.text \in Text
  BY DEF Message
<1>3. s \o <<Separator>> \in Text
  BY <1>1, TextConcat
<1>4. (s \o <<Separator>>) \o m.text \in Text
  BY <1>2, <1>3, TextConcat
<1>5. QED
  BY <1>2, <1>4 DEF LiftOne

\* What FoldLeft computes for decodeContent is what the loop over the blocks computes.
LEMMA JoinIsLoop ==
    ASSUME NEW n \in Nat, NEW texts, DOMAIN texts = 1..n, \A k \in 1..n : texts[k] \in Text
    PROVE  \E g : IsLoop(g, n, Text, <<>>, Glued(n, texts), Join(texts))
<1> DEFINE f == Glued(n, texts)
           Step(h) == [T \in SUBSET (1..n) |->
                         IF T = {} THEN <<>> ELSE Glue(h[T \ {Max(T)}], texts[Max(T)])]
           iter == CHOOSE h : h = Step(h)
<1>1. Join(texts) = iter[1..n]
  BY DEF Join, FoldLeft, MapThenFoldSet, Glue
<1>2. <<>> \in Text
  BY DEF Text
<1>3. \A s \in Text, e \in Text : Glue(s, e) \in Text
  BY TextConcat DEF Glue
<1>4. f \in [(1..n) \X Text -> Text] /\ \A k \in 1..n, s \in Text : f[<<k, s>>] = Glue(s, texts[k])
  BY <1>3 DEF Glued
<1> HIDE DEF f
<1>5. PICK h : IsFold(h, n, Text, <<>>, f)
  BY <1>2, <1>4, FoldExists
<1>6. /\ h \in [SUBSET (1..n) -> Text] /\ h[{}] = <<>>
      /\ \A T \in SUBSET (1..n) : T # {} => h[T] = f[<<Max(T), h[T \ {Max(T)}]>>]
  BY <1>5 DEF IsFold
<1>7. \A T \in SUBSET (1..n) : T # {} => Max(T) \in 1..n /\ T \ {Max(T)} \in SUBSET (1..n)
  BY MaxOfPositions
<1>8. \A T \in SUBSET (1..n) : T # {} => h[T] = Glue(h[T \ {Max(T)}], texts[Max(T)])
  BY <1>4, <1>6, <1>7
<1>9. h = Step(h)
  <2>1. h = [T \in SUBSET (1..n) |-> h[T]]
    BY <1>6
  <2>2. QED
    BY <1>6, <1>8, <2>1
<1>10. iter = Step(iter)
  <2> HIDE DEF Step
  <2> QED BY <1>9
<1> HIDE DEF iter
<1>11. iter[{}] = <<>> /\ \A T \in SUBSET (1..n) : T # {} => iter[T] = Glue(iter[T \ {Max(T)}], texts[Max(T)])
  BY <1>10
<1>12. \A T \in SUBSET (1..n) : (T # {} /\ iter[T \ {Max(T)}] \in Text) =>
          iter[T] = f[<<Max(T), iter[T \ {Max(T)}]>>]
  BY <1>4, <1>7, <1>11
<1>13. \E g : IsLoop(g, n, Text, <<>>, f, iter[1..n])
  BY <1>2, <1>4, <1>11, <1>12, LoopOfFold
<1>14. QED
  BY <1>1, <1>13 DEF f

\* Nothing joined is nothing; a text more is joined at the end.
LEMMA JoinAppend ==
    ASSUME NEW texts \in Seq(Text), NEW e \in Text
    PROVE  /\ Join(<<>>) = <<>>
           /\ Join(texts) \in Text
           /\ Join(Append(texts, e)) = Glue(Join(texts), e)
<1> DEFINE n == Len(texts)
           z == <<>>
           more == Append(texts, e)
<1>1. n \in Nat /\ DOMAIN texts = 1..n /\ \A k \in 1..n : texts[k] \in Text
  OBVIOUS
<1>2. /\ n + 1 \in Nat /\ DOMAIN more = 1..(n + 1) /\ \A k \in 1..(n + 1) : more[k] \in Text
      /\ \A k \in 1..n : more[k] = texts[k]
      /\ more[n + 1] = e
  OBVIOUS
<1>3. DOMAIN z = 1..0 /\ 0 \in Nat /\ \A k \in 1..0 : z[k] \in Text
  OBVIOUS
<1> HIDE DEF n, more, z
<1>4. PICK g : IsLoop(g, n, Text, <<>>, Glued(n, texts), Join(texts))
  BY <1>1, JoinIsLoop
<1>5. PICK h : IsLoop(h, n + 1, Text, <<>>, Glued(n + 1, more), Join(more))
  BY <1>2, JoinIsLoop
<1>6. \A k \in 1..n, s \in Text : Glued(n, texts)[<<k, s>>] = Glued(n + 1, more)[<<k, s>>]
  <2>1. \A k \in 1..n : k \in 1..(n + 1)
    BY <1>1
  <2>2. QED
    BY <1>2, <2>1 DEF Glued
<1>7. Join(texts) \in Text /\ Join(more) = Glued(n + 1, more)[<<n + 1, Join(texts)>>]
  <2> DEFINE b == <<>>
  <2>1. IsLoop(g, n, Text, b, Glued(n, texts), Join(texts))
    BY <1>4
  <2>2. IsLoop(h, n + 1, Text, b, Glued(n + 1, more), Join(more))
    BY <1>5
  <2> HIDE DEF b
  <2>3. QED
    BY <1>1, <1>6, <2>1, <2>2, LoopAppend
<1>8. Join(more) = Glue(Join(texts), e)
  <2>1. n + 1 \in 1..(n + 1)
    BY <1>1
  <2>2. \A s \in Text : Glued(n + 1, more)[<<n + 1, s>>] = Glue(s, e)
    BY <1>2, <2>1 DEF Glued
  <2>3. QED
    BY <1>7, <2>2
<1>9. Join(z) = <<>>
  <2>1. PICK i : IsLoop(i, 0, Text, <<>>, Glued(0, z), Join(z))
    BY <1>3, JoinIsLoop
  <2>2. QED
    BY <2>1 DEF IsLoop
<1>10. QED
  BY <1>7, <1>8, <1>9 DEF more, z

\* The same for splitSystem's loop over the system messages.
LEMMA LiftIsLoop ==
    ASSUME NEW system \in Text, NEW n \in Nat, NEW msgs, DOMAIN msgs = 1..n, \A k \in 1..n : msgs[k] \in Message
    PROVE  \E g : IsLoop(g, n, Text, system, Lifted(n, msgs), Lift(system, msgs))
<1> DEFINE f == Lifted(n, msgs)
           Step(h) == [T \in SUBSET (1..n) |->
                         IF T = {} THEN system ELSE LiftOne(h[T \ {Max(T)}], msgs[Max(T)])]
           iter == CHOOSE h : h = Step(h)
<1>1. Lift(system, msgs) = iter[1..n]
  BY DEF Lift, FoldLeft, MapThenFoldSet, LiftOne
<1>2. system \in Text
  BY DEF Text
<1>3. \A s \in Text, e \in Message : LiftOne(s, e) \in Text
  BY LiftOneType
<1>4. f \in [(1..n) \X Text -> Text] /\ \A k \in 1..n, s \in Text : f[<<k, s>>] = LiftOne(s, msgs[k])
  BY <1>3 DEF Lifted
<1> HIDE DEF f
<1>5. PICK h : IsFold(h, n, Text, system, f)
  BY <1>2, <1>4, FoldExists
<1>6. /\ h \in [SUBSET (1..n) -> Text] /\ h[{}] = system
      /\ \A T \in SUBSET (1..n) : T # {} => h[T] = f[<<Max(T), h[T \ {Max(T)}]>>]
  BY <1>5 DEF IsFold
<1>7. \A T \in SUBSET (1..n) : T # {} => Max(T) \in 1..n /\ T \ {Max(T)} \in SUBSET (1..n)
  BY MaxOfPositions
<1>8. \A T \in SUBSET (1..n) : T # {} => h[T] = LiftOne(h[T \ {Max(T)}], msgs[Max(T)])
  BY <1>4, <1>6, <1>7
<1>9. h = Step(h)
  <2>1. h = [T \in SUBSET (1..n) |-> h[T]]
    BY <1>6
  <2>2. QED
    BY <1>6, <1>8, <2>1
<1>10. iter = Step(iter)
  <2> HIDE DEF Step
  <2> QED BY <1>9
<1> HIDE DEF iter
<1>11. iter[{}] = system /\ \A T \in SUBSET (1..n) : T # {} => iter[T] = LiftOne(iter[T \ {Max(T)}], msgs[Max(T)])
  BY <1>10
<1>12. \A T \in SUBSET (1..n) : (T # {} /\ iter[T \ {Max(T)}] \in Text) =>
          iter[T] = f[<<Max(T), iter[T \ {Max(T)}]>>]
  BY <1>4, <1>7, <1>11
<1>13. \E g : IsLoop(g, n, Text, system, f, iter[1..n])
  BY <1>2, <1>4, <1>11, <1>12, LoopOfFold
<1>14. QED
  BY <1>1, <1>13 DEF f

\* Without a system message the system text stays; one more is lifted to its end.
LEMMA LiftAppend ==
    ASSUME NEW system \in Text, NEW msgs \in Seq(Message), NEW e \in Message
    PROVE  /\ Lift(system, <<>>) = system
           /\ Lift(system, msgs) \in Text
           /\ Lift(system, Append(msgs, e)) = LiftOne(Lift(system, msgs), e)
<1> DEFINE n == Len(msgs)
           z == <<>>
           more == Append(msgs, e)
<1>1. n \in Nat /\ DOMAIN msgs = 1..n /\ \A k \in 1..n : msgs[k] \in Message
  OBVIOUS
<1>2. /\ n + 1 \in Nat /\ DOMAIN more = 1..(n + 1) /\ \A k \in 1..(n + 1) : more[k] \in Message
      /\ \A k \in 1..n : more[k] = msgs[k]
      /\ more[n + 1] = e
  OBVIOUS
<1>3. DOMAIN z = 1..0 /\ 0 \in Nat /\ \A k \in 1..0 : z[k] \in Message
  OBVIOUS
<1> HIDE DEF n, more, z
<1>4. PICK g : IsLoop(g, n, Text, system, Lifted(n, msgs), Lift(system, msgs))
  BY <1>1, LiftIsLoop
<1>5. PICK h : IsLoop(h, n + 1, Text, system, Lifted(n + 1, more), Lift(system, more))
  BY <1>2, LiftIsLoop
<1>6. \A k \in 1..n, s \in Text : Lifted(n, msgs)[<<k, s>>] = Lifted(n + 1, more)[<<k, s>>]
  <2>1. \A k \in 1..n : k \in 1..(n + 1)
    BY <1>1
  <2>2. QED
    BY <1>2, <2>1 DEF Lifted
<1>7. Lift(system, msgs) \in Text /\ Lift(system, more) = Lifted(n + 1, more)[<<n + 1, Lift(system, msgs)>>]
  BY <1>1, <1>4, <1>5, <1>6, LoopAppend
<1>8. Lift(system, more) = LiftOne(Lift(system, msgs), e)
  <2>1. n + 1 \in 1..(n + 1)
    BY <1>1
  <2>2. \A s \in Text : Lifted(n + 1, more)[<<n + 1, s>>] = LiftOne(s, e)
    BY <1>2, <2>1 DEF Lifted
  <2>3. QED
    BY <1>7, <2>2
<1>9. Lift(system, z) = system
  <2>1. PICK i : IsLoop(i, 0, Text, system, Lifted(0, z), Lift(system, z))
    BY <1>3, LiftIsLoop
  <2>2. QED
    BY <2>1 DEF IsLoop
<1>10. QED
  BY <1>7, <1>8, <1>9 DEF more, z

----------------------------------------------------------------------------
(* The fragments of what the loops put together.                           *)

\* Fragments are those of each part; a separator has none.
LEMMA FragmentsConcat ==
    ASSUME NEW a \in Text, NEW b \in Text
    PROVE  /\ Fragments(a) \in Text
           /\ Fragments(a \o b) = Fragments(a) \o Fragments(b)
           /\ Fragments(<<>>) = <<>>
           /\ Fragments(<<Separator>>) = <<>>
<1> DEFINE R == Words \cup {Separator}
           S == Words \ {Separator}
           z == <<>>
<1>1. a \in Seq(R) /\ b \in Seq(R) /\ Separator \in R /\ Separator \notin S
  BY DEF Text
<1>2. z \in Seq(R) /\ Append(z, Separator) = <<Separator>>
  OBVIOUS
<1>3. \A t : Fragments(t) = Where(t, S)
  BY DEF Fragments
<1> HIDE DEF R, S
<1>4. Where(a, S) \in Seq(R)
  BY <1>1, WhereType
<1>5. Where(a \o b, S) = Where(a, S) \o Where(b, S)
  BY <1>1, WhereConcat
<1>6. Where(z, S) = <<>>
  BY WhereEmpty
<1> HIDE DEF z
<1>7. Where(Append(z, Separator), S) = Where(z, S)
  <2>1. Where(Append(z, Separator), S) =
            IF Separator \in S THEN Append(Where(z, S), Separator) ELSE Where(z, S)
    BY <1>1, <1>2, WhereAppend
  <2>2. QED
    BY <1>1, <2>1
<1>8. Fragments(a) \in Text
  BY <1>3, <1>4 DEF R, Text
<1>9. QED
  BY <1>2, <1>3, <1>5, <1>6, <1>7, <1>8 DEF z

\* A round of splitSystem's loop adds the fragments of its message.
LEMMA FragmentsLiftOne ==
    ASSUME NEW s \in Text, NEW m \in Message
    PROVE  Fragments(LiftOne(s, m)) = Fragments(s) \o Fragments(m.text)
<1>1. m.text \in Text
  BY DEF Message
<1>2. <<Separator>> \in Text /\ <<>> \in Text
  BY DEF Text
<1>3. Fragments(s) \in Text /\ Fragments(m.text) \in Text
  BY <1>1, FragmentsConcat
<1>4. \A a \in Text : a \o <<>> = a /\ <<>> \o a = a
  BY ConcatEmptySeq DEF Text
<1>5. CASE s = <<>>
  <2>1. Fragments(s) = <<>>
    BY <1>2, <1>5, FragmentsConcat
  <2>2. LiftOne(s, m) = m.text
    BY <1>5 DEF LiftOne
  <2>3. <<>> \o Fragments(m.text) = Fragments(m.text)
    BY <1>3, <1>4
  <2>4. QED
    BY <2>1, <2>2, <2>3, Zenon
<1>6. CASE s # <<>>
  <2>1. LiftOne(s, m) = (s \o <<Separator>>) \o m.text
    BY <1>6 DEF LiftOne
  <2>2. s \o <<Separator>> \in Text
    BY <1>2, TextConcat
  <2>3. Fragments(LiftOne(s, m)) = Fragments(s \o <<Separator>>) \o Fragments(m.text)
    BY <1>1, <2>1, <2>2, FragmentsConcat
  <2>4. Fragments(s \o <<Separator>>) = Fragments(s) \o Fragments(<<Separator>>)
    BY <1>2, FragmentsConcat
  <2>5. Fragments(<<Separator>>) = <<>>
    BY FragmentsConcat
  <2>6. Fragments(s) \o <<>> = Fragments(s)
    BY <1>3, <1>4
  <2>7. QED
    BY <2>3, <2>4, <2>5, <2>6
<1>7. QED
  BY <1>5, <1>6

\* The texts of a conversation that grows.
LEMMA TextsAppend ==
    ASSUME NEW msgs \in Seq(Message), NEW m \in Message
    PROVE  /\ Texts(<<>>) = <<>>
           /\ Texts(msgs) \in Text
           /\ Texts(Append(msgs, m)) = Texts(msgs) \o Fragments(m.text)
<1> DEFINE F(s) == [i \in DOMAIN s |-> Fragments(s[i].text)]
           e == Fragments(m.text)
<1>0. \A x \in Message : Fragments(x.text) \in Text
  <2>1. \A x \in Message : x.text \in Text
    BY DEF Message
  <2>2. QED
    BY <2>1, FragmentsConcat
<1>1. F(msgs) \in Seq(Text) /\ e \in Text
  BY <1>0
<1>2. F(Append(msgs, m)) = Append(F(msgs), e)
  OBVIOUS
<1>3. F(<<>>) = <<>>
  OBVIOUS
<1>4. \A s : Texts(s) = Join(F(s))
  BY DEF Texts
<1> HIDE DEF F, e
<1>5. /\ Join(<<>>) = <<>> /\ Join(F(msgs)) \in Text
      /\ Join(Append(F(msgs), e)) = Glue(Join(F(msgs)), e)
  BY <1>1, JoinAppend
<1>6. Texts(<<>>) = <<>>
  BY <1>3, <1>4, <1>5
<1>7. QED
  BY <1>2, <1>4, <1>5, <1>6 DEF Glue, e


\* The texts of a conversation are a text.
LEMMA TextsType ==
    ASSUME NEW msgs \in Seq(Message)
    PROVE  Texts(msgs) \in Text /\ Texts(<<>>) = <<>>
<1>1. <<>> \in Text
  BY DEF Text
<1>2. PICK m : m = [role |-> "system", text |-> <<>>]
  OBVIOUS
<1>3. m \in Message
  BY <1>1, <1>2 DEF Message, AllRoles
<1>4. QED
  BY <1>3, TextsAppend

\* The texts of two conversations, one after the other.
LEMMA TextsConcat ==
    ASSUME NEW a \in Seq(Message), NEW b \in Seq(Message)
    PROVE  Texts(a \o b) = Texts(a) \o Texts(b)
<1> DEFINE G == {u \in Seq(Message) : Texts(a \o u) = Texts(a) \o Texts(u)}
<1>1. <<>> \in G
  <2>1. <<>> \in Seq(Message) /\ a \o <<>> = a
    BY ConcatEmptySeq
  <2>2. Texts(a) \o <<>> = Texts(a)
    BY TextsType, ConcatEmptySeq DEF Text
  <2>3. Texts(<<>>) = <<>>
    BY TextsType
  <2>4. QED
    BY <2>1, <2>2, <2>3
<1>2. ASSUME NEW u \in Seq(Message), NEW j \in 1..Len(b), u \in G
      PROVE  Append(u, b[j]) \in G
  <2>1. PICK m \in Message : m = b[j]
    OBVIOUS
  <2>2. Append(u, m) \in Seq(Message) /\ a \o u \in Seq(Message)
    BY ConcatProperties
  <2>3. a \o Append(u, m) = Append(a \o u, m)
    BY ConcatAppend
  <2>4. Texts(Append(a \o u, m)) = Texts(a \o u) \o Fragments(m.text)
    BY <2>2, TextsAppend
  <2>5. Texts(Append(u, m)) = Texts(u) \o Fragments(m.text)
    BY TextsAppend
  <2>6. Texts(a \o u) = Texts(a) \o Texts(u)
    BY <1>2
  <2>7. m.text \in Text
    BY DEF Message
  <2>8. Texts(a) \in Text /\ Texts(u) \in Text /\ Fragments(m.text) \in Text
    BY <2>7, TextsType, FragmentsConcat
  <2>9. (Texts(a) \o Texts(u)) \o Fragments(m.text) = Texts(a) \o (Texts(u) \o Fragments(m.text))
    BY <2>8, TextAssociative
  <2>10. Texts(a \o Append(u, m)) = Texts(a) \o Texts(Append(u, m))
    BY <2>3, <2>4, <2>5, <2>6, <2>9, Zenon
  <2>11. QED
    BY <2>1, <2>2, <2>10
<1>3. b \in G
  <2> HIDE DEF G
  <2> QED BY <1>1, <1>2, BuildUp
<1>4. QED
  BY <1>3

\* splitSystem keeps every fragment of the system text and of the messages it
\* lifts, in their order.
LEMMA LiftKeeps ==
    ASSUME NEW system \in Text, NEW msgs \in Seq(Message)
    PROVE  Fragments(Lift(system, msgs)) = Fragments(system) \o Texts(msgs)
<1> DEFINE G == {u \in Seq(Message) : Fragments(Lift(system, u)) = Fragments(system) \o Texts(u)}
<1>0. Fragments(system) \in Text
  BY FragmentsConcat
<1>1. <<>> \in G
  <2>1. PICK m : m = [role |-> "system", text |-> system]
    OBVIOUS
  <2>2. <<>> \in Seq(Message) /\ m \in Message
    BY <2>1 DEF Message, AllRoles
  <2>3. Lift(system, <<>>) = system /\ Texts(<<>>) = <<>>
    BY <2>2, LiftAppend, TextsType
  <2>4. Fragments(system) \o <<>> = Fragments(system)
    BY <1>0, ConcatEmptySeq DEF Text
  <2>5. QED
    BY <2>2, <2>3, <2>4
<1>2. ASSUME NEW u \in Seq(Message), NEW j \in 1..Len(msgs), u \in G
      PROVE  Append(u, msgs[j]) \in G
  <2>1. PICK m \in Message : m = msgs[j]
    OBVIOUS
  <2>2. Append(u, m) \in Seq(Message)
    OBVIOUS
  <2>3. Lift(system, u) \in Text /\ Lift(system, Append(u, m)) = LiftOne(Lift(system, u), m)
    BY LiftAppend
  <2>4. Fragments(LiftOne(Lift(system, u), m)) = Fragments(Lift(system, u)) \o Fragments(m.text)
    BY <2>3, FragmentsLiftOne
  <2>5. Texts(Append(u, m)) = Texts(u) \o Fragments(m.text)
    BY TextsAppend
  <2>6. Fragments(Lift(system, u)) = Fragments(system) \o Texts(u)
    BY <1>2
  <2>7. m.text \in Text
    BY DEF Message
  <2>8. Texts(u) \in Text /\ Fragments(m.text) \in Text
    BY <2>7, TextsType, FragmentsConcat
  <2>9. (Fragments(system) \o Texts(u)) \o Fragments(m.text)
            = Fragments(system) \o (Texts(u) \o Fragments(m.text))
    BY <1>0, <2>8, TextAssociative
  <2>10. Fragments(Lift(system, Append(u, m))) = Fragments(system) \o Texts(Append(u, m))
    BY <2>3, <2>4, <2>5, <2>6, <2>9, Zenon
  <2>11. QED
    BY <2>1, <2>2, <2>10
<1>3. msgs \in G
  <2> HIDE DEF G
  <2> QED BY <1>1, <1>2, BuildUp
<1>4. QED
  BY <1>3

\* The blocks of Bedrock's system prompt, one for each message.
BlocksOf(msgs) == [i \in DOMAIN msgs |-> msgs[i].text]

\* They keep every fragment too, after those of the blocks before them.
LEMMA BlocksKeep ==
    ASSUME NEW first \in Seq(Text), NEW msgs \in Seq(Message)
    PROVE  Fragments(Join(first \o BlocksOf(msgs))) = Fragments(Join(first)) \o Texts(msgs)
<1> DEFINE G == {u \in Seq(Message) :
                   Fragments(Join(first \o BlocksOf(u))) = Fragments(Join(first)) \o Texts(u)}
<1>0. \A s \in Seq(Text) : Join(s) \in Text /\ Fragments(Join(s)) \in Text
  <2>1. <<>> \in Text
    BY DEF Text
  <2>2. \A s \in Seq(Text) : Join(s) \in Text
    BY <2>1, JoinAppend
  <2>3. QED
    BY <2>2, FragmentsConcat
<1>1. <<>> \in G
  <2>1. <<>> \in Seq(Message) /\ BlocksOf(<<>>) = <<>>
    BY DEF BlocksOf
  <2>2. first \o <<>> = first
    BY ConcatEmptySeq
  <2>3. Fragments(Join(first)) \o <<>> = Fragments(Join(first))
    BY <1>0, ConcatEmptySeq DEF Text
  <2>4. Texts(<<>>) = <<>>
    BY <2>1, TextsType
  <2>5. QED
    BY <2>1, <2>2, <2>3, <2>4
<1>2. ASSUME NEW u \in Seq(Message), NEW j \in 1..Len(msgs), u \in G
      PROVE  Append(u, msgs[j]) \in G
  <2>1. PICK m \in Message : m = msgs[j]
    OBVIOUS
  <2>2. \A x \in Message : x.text \in Text
    BY DEF Message
  <2>3. /\ Append(u, m) \in Seq(Message) /\ BlocksOf(u) \in Seq(Text)
        /\ BlocksOf(Append(u, m)) = Append(BlocksOf(u), m.text)
    <3>1. Append(u, m) \in Seq(Message)
      OBVIOUS
    <3>2. BlocksOf(u) \in Seq(Text)
      BY <2>2 DEF BlocksOf
    <3>3. BlocksOf(Append(u, m)) = Append(BlocksOf(u), m.text)
      BY DEF BlocksOf
    <3>4. QED
      BY <3>1, <3>2, <3>3
  <2> DEFINE old == first \o BlocksOf(u)
             t == m.text
  <2>4. old \in Seq(Text) /\ t \in Text
    BY <2>2, <2>3, ConcatProperties
  <2>5. first \o BlocksOf(Append(u, m)) = Append(old, t)
    BY <2>2, <2>3, ConcatAppend
  <2>6. Fragments(Join(old)) = Fragments(Join(first)) \o Texts(u)
    BY <1>2
  <2>7. Texts(Append(u, m)) = Texts(u) \o Fragments(t)
    BY TextsAppend
  <2> HIDE DEF old, t
  <2>8. Join(Append(old, t)) = Join(old) \o t
    BY <2>4, JoinAppend DEF Glue
  <2>9. Fragments(Join(old) \o t) = Fragments(Join(old)) \o Fragments(t)
    BY <1>0, <2>4, FragmentsConcat
  <2>10. Texts(u) \in Text /\ Fragments(t) \in Text /\ Fragments(Join(first)) \in Text
    BY <1>0, <2>4, TextsType, FragmentsConcat
  <2>11. (Fragments(Join(first)) \o Texts(u)) \o Fragments(t)
            = Fragments(Join(first)) \o (Texts(u) \o Fragments(t))
    BY <2>10, TextAssociative
  <2>12. Fragments(Join(first \o BlocksOf(Append(u, m)))) = Fragments(Join(first)) \o Texts(Append(u, m))
    BY <2>5, <2>6, <2>7, <2>8, <2>9, <2>11, Zenon
  <2>13. QED
    BY <2>1, <2>3, <2>12
<1>3. msgs \in G
  <2> HIDE DEF G
  <2> QED BY <1>1, <1>2, BuildUp
<1>4. QED
  BY <1>3

----------------------------------------------------------------------------
(* What each provider makes of a request.                                  *)

\* The system messages and the turns of a conversation, and of its turns.
LEMMA TurnsOnly ==
    ASSUME NEW msgs \in Seq(Message)
    PROVE  /\ SystemMessages(msgs) \in Seq(Message) /\ Turns(msgs) \in Seq(Message)
           /\ SystemMessages(Turns(msgs)) = <<>>
           /\ Turns(Turns(msgs)) = Turns(msgs)
<1> DEFINE S == {m \in Message : m.role = "system"}
           T == {m \in Message : m.role # "system"}
<1>1. T \cap S = {}
  OBVIOUS
<1>2. \A s : SystemMessages(s) = Where(s, S) /\ Turns(s) = Where(s, T)
  BY DEF SystemMessages, Turns
<1> HIDE DEF S, T
<1>3. Where(msgs, S) \in Seq(Message) /\ Where(msgs, T) \in Seq(Message)
  BY WhereType
<1>4. Where(Where(msgs, T), T) = Where(msgs, T) /\ Where(Where(msgs, T), S) = <<>>
  BY <1>1, WhereAgain
<1>5. QED
  BY <1>2, <1>3, <1>4

\* The message OpenAI and Ollama are sent first.
Leading(system) == IF system = <<>> THEN <<>> ELSE <<[role |-> "system", text |-> system]>>

\* It is a system message with the system text, and no turn.
LEMMA LeadingKeeps ==
    ASSUME NEW system \in Text, NEW msgs \in Seq(Message)
    PROVE  /\ Texts(SystemMessages(Leading(system) \o msgs))
                = Fragments(system) \o Texts(SystemMessages(msgs))
           /\ Turns(Leading(system) \o msgs) = Turns(msgs)
<1> DEFINE S == {m \in Message : m.role = "system"}
           T == {m \in Message : m.role # "system"}
           x == [role |-> "system", text |-> system]
           z == <<>>
           lead == Leading(system)
<1>1. \A s : SystemMessages(s) = Where(s, S) /\ Turns(s) = Where(s, T)
  BY DEF SystemMessages, Turns
<1>2. x \in Message /\ x \in S /\ x \notin T /\ x.text = system
  BY DEF Message, AllRoles
<1>3. z \in Seq(Message) /\ Append(z, x) = <<x>>
  OBVIOUS
<1>4. Where(z, S) = z /\ Where(z, T) = z /\ Texts(z) = z /\ Fragments(z) = z
  BY <1>3, WhereEmpty, TextsType, FragmentsConcat
<1>5. lead = IF system = z THEN z ELSE Append(z, x)
  BY <1>3 DEF Leading
<1> HIDE DEF S, T, x, z, lead
<1>6. lead \in Seq(Message) /\ Where(lead, S) = lead /\ Where(lead, T) = z
  <2>1. /\ Where(Append(z, x), S) = IF x \in S THEN Append(Where(z, S), x) ELSE Where(z, S)
        /\ Where(Append(z, x), T) = IF x \in T THEN Append(Where(z, T), x) ELSE Where(z, T)
    BY <1>2, <1>3, WhereAppend
  <2>2. Append(z, x) \in Seq(Message)
    BY <1>2, <1>3
  <2>3. QED
    BY <1>2, <1>3, <1>4, <1>5, <2>1, <2>2
<1>7. \A a \in Text : z \o a = a
  BY ConcatEmptySeq DEF Text, z
<1>8. Texts(lead) = Fragments(system)
  <2>1. CASE system = z
    BY <1>4, <1>5, <2>1
  <2>2. CASE system # z
    <3>1. Texts(Append(z, x)) = Texts(z) \o Fragments(x.text)
      BY <1>2, <1>3, TextsAppend
    <3>2. Fragments(system) \in Text
      BY FragmentsConcat
    <3>3. QED
      BY <1>2, <1>4, <1>5, <1>7, <2>2, <3>1, <3>2
  <2>3. QED
    BY <2>1, <2>2
<1>9. Where(msgs, S) \in Seq(Message) /\ Where(msgs, T) \in Seq(Message)
  BY WhereType
<1>10. /\ Where(lead \o msgs, S) = Where(lead, S) \o Where(msgs, S)
       /\ Where(lead \o msgs, T) = Where(lead, T) \o Where(msgs, T)
  <2>1. lead \in Seq(Message)
    BY <1>6
  <2>2. Where(lead \o msgs, S) = Where(lead, S) \o Where(msgs, S)
    BY <2>1, WhereConcat
  <2>3. Where(lead \o msgs, T) = Where(lead, T) \o Where(msgs, T)
    BY <2>1, WhereConcat
  <2>4. QED
    BY <2>2, <2>3
<1>11. Texts(lead \o Where(msgs, S)) = Texts(lead) \o Texts(Where(msgs, S))
  BY <1>6, <1>9, TextsConcat
<1>12. z \o Where(msgs, T) = Where(msgs, T)
  BY <1>9, ConcatEmptySeq DEF z
<1>13. Texts(Where(lead \o msgs, S)) = Fragments(system) \o Texts(Where(msgs, S))
  BY <1>6, <1>8, <1>10, <1>11
<1>14. Where(lead \o msgs, T) = Where(msgs, T)
  BY <1>6, <1>10, <1>12
<1>15. QED
  BY <1>1, <1>13, <1>14 DEF lead

\* A wire request says what the request says (PromptPreserved, of any request).
Says(provider, wire, req) ==
    LET p == wire.prompt
        lifted == Fragments(IF provider = "bedrock" THEN Join(p.system) ELSE p.system)
    IN /\ lifted \o Texts(SystemMessages(p.messages))
            = Fragments(req.system) \o Texts(SystemMessages(req.messages))
       /\ Turns(p.messages) = Turns(req.messages)
       /\ req.max > 0 => wire.max = req.max

\* Anthropic's request does.
LEMMA AnthropicSays ==
    ASSUME NEW req, req.system \in Text, req.messages \in Seq(Message), req.max \in Int
    PROVE  Says("anthropic", AnthropicRequest(req), req)
<1> DEFINE sys == SystemMessages(req.messages)
           turns == Turns(req.messages)
           w == AnthropicRequest(req)
<1>1. w.prompt.system = Lift(req.system, sys) /\ w.prompt.messages = turns
      /\ (req.max > 0 => w.max = req.max)
  BY DEF AnthropicRequest, SplitSystem, AnthropicMaxTokens
<1>2. sys \in Seq(Message) /\ SystemMessages(turns) = <<>> /\ Turns(turns) = turns
  BY TurnsOnly
<1> HIDE DEF sys, w
<1>3. Fragments(Lift(req.system, sys)) = Fragments(req.system) \o Texts(sys)
  BY <1>2, LiftKeeps
<1>4. Texts(<<>>) = <<>>
  BY <1>2, TextsType
<1>5. (Fragments(req.system) \o Texts(sys)) \o <<>> = Fragments(req.system) \o Texts(sys)
  <2>1. Fragments(req.system) \o Texts(sys) \in Text
    BY <1>2, FragmentsConcat, TextsType, TextConcat
  <2>2. QED
    BY <2>1, ConcatEmptySeq DEF Text
<1>6. QED
  BY <1>1, <1>2, <1>3, <1>4, <1>5 DEF Says, sys, w

\* Bedrock's does.
LEMMA BedrockSays ==
    ASSUME NEW req, req.system \in Text, req.messages \in Seq(Message), req.max \in Int
    PROVE  Says("bedrock", BedrockRequest(req), req)
<1> DEFINE sys == SystemMessages(req.messages)
           turns == Turns(req.messages)
           w == BedrockRequest(req)
           first == IF req.system = <<>> THEN <<>> ELSE <<req.system>>
<1>1. w.prompt.system = first \o BlocksOf(sys) /\ w.prompt.messages = turns
      /\ (req.max > 0 => w.max = req.max)
  <2>1. w.prompt = [system |-> first \o BlocksOf(sys), messages |-> turns]
    BY DEF BedrockRequest, BlocksOf
  <2>2. req.max > 0 => w.max = req.max
    BY DEF BedrockRequest
  <2> HIDE DEF w, first, sys, turns
  <2>3. QED
    BY <2>1, <2>2
<1>2. sys \in Seq(Message) /\ SystemMessages(turns) = <<>> /\ Turns(turns) = turns
  BY TurnsOnly
<1>3. first \in Seq(Text) /\ Join(first) = req.system
  <2> DEFINE z == <<>>
             s == req.system
  <2>1. z \in Seq(Text) /\ z \in Text /\ <<s>> = Append(z, s) /\ s \in Text /\ <<s>> \in Seq(Text)
    BY DEF Text
  <2>2. first = IF s = z THEN z ELSE Append(z, s)
    OBVIOUS
  <2>3. Join(z) = z
    BY <2>1, JoinAppend
  <2>4. z \o s = s
    BY <2>1, ConcatEmptySeq DEF Text
  <2> HIDE DEF z, s, first
  <2>5. Join(Append(z, s)) = Join(z) \o s
    BY <2>1, JoinAppend DEF Glue
  <2>6. first \in Seq(Text) /\ Join(first) = s
    BY <2>1, <2>2, <2>3, <2>4, <2>5
  <2>7. QED
    BY <2>6 DEF s
<1> HIDE DEF sys, w, first
<1>4. Fragments(Join(first \o BlocksOf(sys))) = Fragments(req.system) \o Texts(sys)
  BY <1>2, <1>3, BlocksKeep
<1>5. Texts(<<>>) = <<>>
  BY <1>2, TextsType
<1>6. (Fragments(req.system) \o Texts(sys)) \o <<>> = Fragments(req.system) \o Texts(sys)
  <2>1. Fragments(req.system) \o Texts(sys) \in Text
    BY <1>2, FragmentsConcat, TextsType, TextConcat
  <2>2. QED
    BY <2>1, ConcatEmptySeq DEF Text
<1>7. QED
  BY <1>1, <1>2, <1>4, <1>5, <1>6 DEF Says, sys, w

\* OpenAI's and Ollama's do.
LEMMA LeadingSays ==
    ASSUME NEW req, req.system \in Text, req.messages \in Seq(Message), req.max \in Int,
           NEW p, p # "bedrock", NEW w,
           w.prompt.system = <<>>, w.prompt.messages = Leading(req.system) \o req.messages,
           req.max > 0 => w.max = req.max
    PROVE  Says(p, w, req)
<1> DEFINE both == Fragments(req.system) \o Texts(SystemMessages(req.messages))
<1>1. Texts(SystemMessages(w.prompt.messages)) = both /\ Turns(w.prompt.messages) = Turns(req.messages)
  BY LeadingKeeps
<1>2. both \in Text
  BY TurnsOnly, FragmentsConcat, TextsType, TextConcat
<1>3. Fragments(<<>>) = <<>>
  BY FragmentsConcat
<1>4. <<>> \o both = both
  BY <1>2, ConcatEmptySeq DEF Text
<1>5. Fragments(IF p = "bedrock" THEN Join(w.prompt.system) ELSE w.prompt.system) = <<>>
  BY <1>3
<1> HIDE DEF both
<1>6. Fragments(IF p = "bedrock" THEN Join(w.prompt.system) ELSE w.prompt.system)
          \o Texts(SystemMessages(w.prompt.messages)) = both
  BY <1>1, <1>4, <1>5
<1>7. QED
  BY <1>1, <1>6 DEF Says, both

\* Every wire request says what the request says, streamed or not.
LEMMA WireSays ==
    ASSUME NEW req, req.system \in Text, req.messages \in Seq(Message), req.max \in Int,
           NEW p \in Providers, NEW stream \in BOOLEAN
    PROVE  Says(p, Wire(p, req, stream), req)
<1>1. CASE p = "anthropic"
  <2>1. Wire(p, req, stream) = AnthropicRequest(req)
    BY <1>1 DEF Wire, AnthropicStreamRequest
  <2>2. QED
    BY <1>1, <2>1, AnthropicSays
<1>2. CASE p = "bedrock"
  <2>1. Wire(p, req, stream) = BedrockRequest(req)
    BY <1>2 DEF Wire
  <2>2. QED
    BY <1>2, <2>1, BedrockSays
<1>3. CASE p = "openai"
  <2> DEFINE w == Wire(p, req, stream)
             all == Leading(req.system) \o req.messages
  <2>1. w = OpenAIStreamRequest(req) \/ w = OpenAIRequest(req)
    BY <1>3 DEF Wire
  <2>2. /\ OpenAIRequest(req).prompt = OpenAIStreamRequest(req).prompt
        /\ OpenAIRequest(req).max = OpenAIStreamRequest(req).max
    BY DEF OpenAIRequest, OpenAIStreamRequest
  <2>3. /\ OpenAIRequest(req).prompt = [system |-> <<>>, messages |-> all]
        /\ OpenAIRequest(req).max = req.max
    BY DEF OpenAIRequest, Leading
  <2>4. w.prompt.system = <<>> /\ w.prompt.messages = all /\ w.max = req.max
    <3>1. w.prompt = OpenAIRequest(req).prompt /\ w.max = OpenAIRequest(req).max
      BY <2>1, <2>2, Zenon
    <3> HIDE DEF w, all
    <3>2. w.prompt = [system |-> <<>>, messages |-> all] /\ w.max = req.max
      BY <2>3, <3>1
    <3>3. QED
      BY <3>2
  <2> HIDE DEF w
  <2>5. Says(p, w, req)
    BY <1>3, <2>4, LeadingSays
  <2>6. QED
    BY <2>5 DEF w
<1>4. CASE p = "ollama"
  <2> DEFINE w == Wire(p, req, stream)
             all == Leading(req.system) \o req.messages
  <2>1. w = OllamaRequest(req)
    BY <1>4 DEF Wire
  <2>2. /\ OllamaRequest(req).prompt = [system |-> <<>>, messages |-> all]
        /\ req.max > 0 => OllamaRequest(req).max = req.max
    BY DEF OllamaRequest, Leading
  <2>3. w.prompt.system = <<>> /\ w.prompt.messages = all
        /\ (req.max > 0 => w.max = req.max)
    <3> HIDE DEF w, all
    <3> QED BY <2>1, <2>2
  <2> HIDE DEF w
  <2>4. Says(p, w, req)
    BY <1>4, <2>3, LeadingSays
  <2>5. QED
    BY <2>4 DEF w
<1>5. QED
  BY <1>1, <1>2, <1>3, <1>4 DEF Providers

\* Whatever form a content has, decodeContent makes a text of it.
LEMMA DecodeType ==
    ASSUME NEW c \in Content
    PROVE  DecodeContent(c) \in Text
<1>1. <<>> \in Text
  BY DEF Text
<1>2. CASE c.form = "string"
  BY <1>2 DEF Content, DecodeContent
<1>3. CASE c.form = "blocks"
  <2>1. c.text \in Seq(Text)
    BY <1>3 DEF Content
  <2>2. Join(c.text) \in Text
    BY <1>1, <2>1, JoinAppend
  <2>3. QED
    BY <1>3, <2>2 DEF DecodeContent
<1>4. CASE c.form \notin {"string", "blocks"}
  BY <1>1, <1>4 DEF DecodeContent
<1>5. QED
  BY <1>2, <1>3, <1>4

\* The request the handlers build from a body.
LEMMA RequestType ==
    ASSUME NEW body \in Bodies, NEW endpoint, NEW model
    PROVE  LET req == ProviderRequest(endpoint, model, body)
           IN req.system \in Text /\ req.messages \in Seq(Message) /\ req.max \in Int /\ req.max = body.max
<1> DEFINE req == ProviderRequest(endpoint, model, body)
           M == [role : AllRoles, content : Content]
<1>1. body.system \in Content /\ body.max \in Int /\ body.messages \in Seq(M)
  BY CallAssumption
<1>2. req.max = body.max
  BY DEF ProviderRequest
<1>3. req.system \in Text
  <2>1. <<>> \in Text
    BY DEF Text
  <2>2. req.system = IF endpoint = "anthropic" THEN DecodeContent(body.system) ELSE <<>>
    BY DEF ProviderRequest
  <2>3. DecodeContent(body.system) \in Text
    BY <1>1, DecodeType
  <2>4. QED
    BY <2>1, <2>2, <2>3
<1>4. req.messages \in Seq(Message)
  <2> DEFINE b == body.messages
             D(m) == [role |-> m.role, text |-> DecodeContent(m.content)]
  <2>1. req.messages = [i \in DOMAIN b |-> D(b[i])]
    BY DEF ProviderRequest
  <2>2. \A m \in M : D(m) \in Message
    BY DecodeType DEF Message
  <2>3. b \in Seq(M)
    BY <1>1
  <2> HIDE DEF b, D, M
  <2>4. [i \in DOMAIN b |-> D(b[i])] \in Seq(Message)
    BY <2>2, <2>3
  <2>5. QED
    BY <2>1, <2>4
<1>5. QED
  BY <1>1, <1>2, <1>3, <1>4

\* The handler's body is one a client sent, and what is on the wire was made of it.
PromptInv ==
    /\ call.pc \in {"route", "post", "inflight"} => call.body \in Bodies
    /\ call.pc = "inflight" =>
         call.wire = Wire(call.provider, ProviderRequest(call.endpoint, call.model, call.body), call.stream)

\* PromptPreserved, for every body of Bodies: any number of system messages and of
\* turns, in any order, with contents of any length and any form, through either
\* endpoint to any of the four providers.  The invariant remembers where the
\* request on the wire came from; the rest is about the loops that built it.
THEOREM PromptPreservedHolds == Spec => []PromptPreserved
<1>1. Init => PromptInv
  BY DEF Init, NoCall, PromptInv
<1>2. IInv /\ PromptInv /\ [Next]_vars => PromptInv'
  <2> SUFFICES ASSUME IInv, PromptInv, [Next]_vars PROVE PromptInv'
    OBVIOUS
  <2>0. DOMAIN call = DOMAIN NoCall
    BY DEF IInv, CallInv
  <2>1. CASE call'.pc \notin {"route", "post", "inflight"}
    BY <2>1 DEF PromptInv
  <2>2. CASE UNCHANGED call
    BY <2>2 DEF PromptInv
  <2>3. ASSUME NEW code, Answer(code) PROVE call'.pc = "idle"
    BY <2>3 DEF Answer, NoCall
  <2>4. ASSUME NEW e \in Endpoints, NEW m \in Models, NEW b \in Bodies, NEW s \in BOOLEAN, Receive(e, m, b, s)
        PROVE  PromptInv'
    <3>1. Answer("400") \/ call' = [NoCall EXCEPT !.pc = "route", !.endpoint = e, !.model = m,
                                                  !.body = b, !.stream = s]
      BY <2>4 DEF Receive
    <3>2. call'.pc = "idle" \/ (call'.pc = "route" /\ call'.body = b)
      BY <2>3, <3>1 DEF NoCall
    <3>3. QED
      BY <3>2 DEF PromptInv
  <2>5. CASE Route
    <3>1. At("route") /\ ((\E c \in {"402", "400", "501"} : Answer(c))
              \/ call' = [call EXCEPT !.pc = "post", !.provider = RouteModel(call.model)])
      BY <2>5 DEF Route
    <3>2. call'.pc = "idle" \/ (call'.pc = "post" /\ call'.body = call.body)
      BY <2>0, <2>3, <3>1 DEF NoCall
    <3>3. QED
      BY <3>1, <3>2 DEF PromptInv, At
  <2>6. CASE Post
    <3> DEFINE w == Wire(call.provider, ProviderRequest(call.endpoint, call.model, call.body), call.stream)
    <3>1. At("post") /\ (call' = [call EXCEPT !.pc = "failed", !.cut = "upstream"]
              \/ \E n \in PromptSizes : call' = [call EXCEPT !.pc = "inflight", !.truth.prompt = n, !.wire = w])
      BY <2>6 DEF Post
    <3> HIDE DEF w
    <3>2. \/ call'.pc = "failed"
          \/ /\ call'.pc = "inflight" /\ call'.wire = w /\ call'.provider = call.provider
             /\ call'.endpoint = call.endpoint /\ call'.model = call.model
             /\ call'.body = call.body /\ call'.stream = call.stream
      BY <2>0, <3>1 DEF NoCall
    <3>3. QED
      BY <3>1, <3>2 DEF PromptInv, At, w
  <2>7. CASE Generate
    <3>1. call' = [call EXCEPT !.truth.completion = @ + 1]
      BY <2>7 DEF Generate
    <3>2. /\ call'.pc = call.pc /\ call'.wire = call.wire /\ call'.provider = call.provider
          /\ call'.endpoint = call.endpoint /\ call'.model = call.model
          /\ call'.body = call.body /\ call'.stream = call.stream
      BY <2>0, <3>1 DEF NoCall
    <3>3. QED
      BY <3>2 DEF PromptInv
  <2>8. CASE Fail \/ Meter
    <3>1. \E c : Answer(c)
      BY <2>8 DEF Fail, Meter
    <3>2. QED
      BY <2>1, <2>3, <3>1
  <2>9. CASE ChatReturns
    <3>1. \E r : call' = IF r = ChatError THEN [call EXCEPT !.pc = "failed", !.cut = "upstream"]
                 ELSE [call EXCEPT !.pc = "meter", !.seen = call.truth, !.stop = r.stop, !.served = r.model]
      BY <2>9 DEF ChatReturns
    <3>2. call'.pc \in {"failed", "meter"}
      BY <2>0, <3>1 DEF NoCall
    <3>3. QED
      BY <2>1, <3>2
  <2>10. CASE StreamOpens \/ StreamEnds
    <3>1. call'.pc \in {"streaming", "meter"}
      BY <2>0, <2>10 DEF StreamOpens, StreamEnds, NoCall
    <3>2. QED
      BY <2>1, <3>1
  <2>11. ASSUME NEW lost \in BOOLEAN, Recv(lost) PROVE PromptInv'
    <3>1. PICK ev : call' = [call EXCEPT !.phase = ev.next, !.seen = Sniff(call.provider, @, ev),
                              !.served = IF ev.model = NoModel THEN @ ELSE ev.model,
                              !.pc = IF lost THEN "meter" ELSE "streaming",
                              !.cut = IF lost THEN "client" ELSE @]
      BY <2>11 DEF Recv
    <3>2. call'.pc = IF lost THEN "meter" ELSE "streaming"
      BY <2>0, <3>1 DEF NoCall
    <3>3. QED
      BY <2>1, <3>2
  <2>12. ASSUME NEW cause, Cut(cause) PROVE PromptInv'
    <3>1. call'.pc \in {"failed", "meter"}
      BY <2>0, <2>12 DEF Cut, NoCall
    <3>2. QED
      BY <2>1, <3>1
  <2>13. CASE Halt \/ UNCHANGED vars
    BY <2>2, <2>13 DEF Halt, vars
  <2>14. QED
    BY <2>4, <2>5, <2>6, <2>7, <2>8, <2>9, <2>10, <2>11, <2>12, <2>13 DEF Next, HandlerStep, Timeout
<1>3. IInv /\ PromptInv => PromptPreserved
  <2> SUFFICES ASSUME IInv, PromptInv, At("inflight") PROVE PromptPreserved
    BY DEF PromptPreserved
  <2> DEFINE asked == ProviderRequest(call.endpoint, call.model, call.body)
  <2>1. call.pc = "inflight" /\ call.body \in Bodies /\ call.wire = Wire(call.provider, asked, call.stream)
    BY DEF PromptInv, At
  <2>2. call.provider \in Providers /\ call.stream \in BOOLEAN
    BY <2>1 DEF IInv, CallInv, FormOK
  <2>3. /\ asked.system \in Text /\ asked.messages \in Seq(Message) /\ asked.max \in Int
        /\ asked.max = call.body.max
    BY <2>1, RequestType
  <2> HIDE DEF asked
  <2>4. Says(call.provider, call.wire, asked)
    BY <2>1, <2>2, <2>3, WireSays
  <2>5. QED
    BY <2>3, <2>4 DEF Says, PromptPreserved, asked
<1>4. QED
  BY <1>1, <1>2, <1>3, Inductive, PTL DEF Spec
=============================================================================
