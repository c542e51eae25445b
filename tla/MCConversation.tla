--------------------------- MODULE MCConversation ---------------------------
(* Conversation on a small instance: turns of text and images, replies with   *)
(* text and calls in any order, two calls of one function, an empty reply,    *)
(* a call with broken arguments and one with a long number; settings that     *)
(* ask for a little or for much, override, or are no good.                    *)
EXTENDS Conversation, TLC

TextOf(t)  == [type |-> "text", text |-> t]
Said(kind, id, name, args) == [type |-> kind, id |-> id, name |-> name, args |-> args]
Asked(name, args) == [type |-> "functionCall", name |-> name, args |-> args]
Picture(data, url) == [type |-> "image", media |-> "png", data |-> data, url |-> url]

MCUserTurns == {
  [role |-> "user", parts |-> <<TextOf(<<"hi">>)>>],
  [role |-> "user", parts |-> <<TextOf(<<"look">>), Picture(<<"pixels">>, ""), TextOf(<<"here">>)>>],
  [role |-> "user", parts |-> <<Picture(<<>>, "link")>>],
  [role |-> "user", parts |-> <<>>]}

MCChatTurns == {
  [role |-> "user", text |-> <<"hi">>, content |-> <<>>],
  [role |-> "user", text |-> <<>>, content |-> <<Picture(<<"base64", "pixels">>, "link"), TextOf(<<"here">>)>>],
  [role |-> "user", text |-> <<>>, content |-> <<Picture(<<"noise">>, "")>>],
  [role |-> "user", text |-> <<"hi">>, content |-> <<TextOf(<<"hi">>)>>]}

MCReplies ==
  ("oai" :> {
     [content |-> <<TextOf(<<"one">>), [type |-> "audio", text |-> <<"noise">>], TextOf(<<"two">>)>>,
      calls |-> <<>>, refusal |-> FALSE],
     [content |-> <<TextOf(<<"both">>)>>,
      calls |-> <<Said("function", "a", "f", "x"), Said("function", "b", "f", "")>>, refusal |-> FALSE],
     [content |-> <<>>, calls |-> <<Said("function", "a", "f", "broken")>>, refusal |-> FALSE],
     [content |-> <<>>, calls |-> <<>>, refusal |-> FALSE],
     [content |-> <<>>, calls |-> <<>>, refusal |-> TRUE]}) @@
  ("gemini" :> {
     [parts |-> <<Asked("f", "x"), TextOf(<<"then">>), Asked("f", "")>>],
     [parts |-> <<TextOf(<<>>), Asked("g", "x"), [type |-> "thought"]>>],
     [parts |-> <<>>]}) @@
  ("anthropic" :> {
     [parts |-> <<[type |-> "thinking"], TextOf(<<"one">>), Said("tool_use", "a", "f", "long"),
                  TextOf(<<"two">>), Said("tool_use", "b", "g", "")>>],
     [parts |-> <<TextOf(<<>>)>>]})

MCOutputs == {
  [content |-> <<"out">>, isError |-> FALSE], [content |-> <<"out">>, isError |-> TRUE],
  [content |-> <<>>, isError |-> TRUE]}

NoOptions == [o \in {} |-> ""]

MCPlainest ==
  [model |-> "m", system |-> "", maxTokens |-> 0, temperature |-> "nil", topP |-> "nil", stop |-> <<>>,
   tools |-> <<>>, choice |-> [mode |-> "nil", name |-> ""], thinking |-> [mode |-> "nil", effort |-> ""],
   format |-> [given |-> FALSE, schema |-> "", name |-> ""], options |-> NoOptions]

Wordy == [MCPlainest EXCEPT !.system = "be brief", !.maxTokens = 5, !.temperature = "0", !.topP = "1",
                            !.stop = <<"stop", "end">>]

Required(as) == [as |-> as, names |-> <<"city", "day">>]

Bare  == [name |-> "f", given |-> FALSE, parameters |-> NoOptions]
Short == [name |-> "g", given |-> TRUE, parameters |-> [type |-> "object", properties |-> "props"]]
Rich(as) == [name |-> "h", given |-> TRUE,
             parameters |-> ("required" :> Required(as)) @@ ("properties" :> "props") @@ ("$defs" :> "defs")]

ToolLists == {<<>>, <<Bare, Rich("strings")>>, <<Rich("values"), Short>>}

ToolChoices == {[mode |-> m, name |-> "h"] : m \in {"nil", "auto", "none", "required", "tool"}}

Thoughts == {[mode |-> "nil", effort |-> ""], [mode |-> "off", effort |-> ""]}
              \cup {[mode |-> "on", effort |-> e] : e \in {"", "low", "medium", "high", "max"}}

Formats == {[given |-> FALSE, schema |-> "", name |-> ""], [given |-> TRUE, schema |-> "shape", name |-> ""]}

MCDotted ==
  (<<"output_config", "effort">> :> "output_config.effort") @@
  (<<"thinking", "budget_tokens">> :> "thinking.budget_tokens") @@
  (<<"tool_choice", "disable_parallel_tool_use">> :> "tool_choice.disable_parallel_tool_use")

\* Two paths that lead beside what skyl sets.
Beside == ("thinking.budget_tokens" :> "4096") @@ ("tool_choice.disable_parallel_tool_use" :> "true")

Overrides == {NoOptions, [temperature |-> "2"], "output_config" :> [effort |-> "low"],
              ("generationConfig" :> [seed |-> "7"]) @@ ("thinking" :> [type |-> "disabled"]),
              "output_config.effort" :> "low", Beside,
              ("output_config" :> [effort |-> "low", format |-> "other"]) @@ ("output_config.effort" :> "max")}

Misfits == {[MCPlainest EXCEPT !.model = ""], [MCPlainest EXCEPT !.maxTokens = -1],
            [MCPlainest EXCEPT !.tools = <<[Bare EXCEPT !.name = ""]>>],
            [MCPlainest EXCEPT !.choice.mode = "tool"], [MCPlainest EXCEPT !.choice.mode = "any"],
            [MCPlainest EXCEPT !.format.given = TRUE]}

MCWishes ==
  {MCPlainest, Wordy} \cup Misfits
    \cup {[base EXCEPT !.tools = t, !.choice = c] :
            base \in {MCPlainest, Wordy}, t \in ToolLists, c \in ToolChoices}
    \cup {[Wordy EXCEPT !.choice = c, !.options = Beside] : c \in ToolChoices}
    \cup {[base EXCEPT !.thinking = th, !.format = f, !.options = o] :
            base \in {MCPlainest, Wordy}, th \in Thoughts, f \in Formats, o \in Overrides}
=============================================================================
