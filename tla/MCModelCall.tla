---------------------------- MODULE MCModelCall ----------------------------
(* Values for the constants of ModelCall.                                  *)
EXTENDS ModelCall, TLC

Segments == {"claude", "opus", "gpt", "GPT", "mini", "llama", "dated"}
LowerSegments == [s \in Segments |-> IF s = "GPT" THEN "gpt" ELSE s]

Claude == <<"claude", "opus">>
Gpt    == <<"GPT", "mini">>
Llama  == <<"llama">>

\* All providers; Bedrock without a region and Anthropic without a key; a
\* default provider that is not there.
SomeConfigs == { [keys |-> AllKeys, default |-> "bedrock"],
                 [keys |-> {"aws"}, default |-> "bedrock"],
                 [keys |-> {"openai"}, default |-> "ollama"],
                 [keys |-> {"anthropic"}, default |-> "openai"] }

SomeModels == {Claude, Gpt, Llama, NoModel}

\* A response names the model, a dated snapshot's longer name, or nothing.
SomeSnapshots == [m \in SomeModels |-> {m \o <<"dated">>, NoModel}]

\* "gpt" and "gpt-mini" both match the second model.
ListPrices == (<<"claude">> :> [in |-> 1, out |-> 5]) @@ (<<"gpt">> :> [in |-> 2, out |-> 3])

Files == { <<>>,
           (<<"GPT", "mini">> :> [in |-> 1, out |-> 1]),
           (<<"claude", "opus">> :> [in |-> 0, out |-> -1]) }

String(t)  == [form |-> "string", text |-> t]
Msg(r, t)  == [role |-> r, content |-> String(t)]
Nothing    == [form |-> "none", text |-> <<>>]

SomeWords == {"s", "t", "u", "v", "w", "x", "a"}

SomeBodies == {
    [system |-> Nothing, max |-> 0, messages |-> <<>>],
    [system |-> Nothing, max |-> 0, messages |-> <<Msg("user", <<"u">>)>>],
    [system |-> String(<<"s">>), max |-> 5,
     messages |-> <<Msg("system", <<"t">>), Msg("user", <<"u">>), Msg("assistant", <<"a">>),
                    [role |-> "user", content |-> [form |-> "blocks", text |-> <<<<"v">>, <<"w">>>>]],
                    Msg("system", <<"x">>)>>] }
=============================================================================
