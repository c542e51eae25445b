---------------------------- MODULE Conversation ----------------------------
(***************************************************************************)
(* A conversation held through skyl, as a caller of the library or of the  *)
(* gateway: he writes turns, asks a provider, appends what it replies, and *)
(* answers the calls in it with tool results, one message each or all in   *)
(* one. Every request carries the whole conversation anew, with settings   *)
(* of its own, and each may go to another provider. What a request or a    *)
(* reply becomes on its way is in Mapping and Settings.                    *)
(*                                                                         *)
(* The conversation is the caller's: the code keeps nothing between two    *)
(* requests. Retries and timeouts of a request are Client's matter.        *)
(***************************************************************************)
EXTENDS Mapping, Settings

CONSTANTS
  UserTurns,   \* the turns a caller of the library writes, as skyl messages
  ChatTurns,   \* the turns a caller of the gateway writes, as JSON messages
  Replies,     \* what each provider may reply
  Outputs,     \* what a tool may return: content and isError
  Plainest,    \* settings that ask for nothing but a model
  Wishes,      \* the settings a request may have
  MaxMessages, \* bound: turns of the conversation
  MaxWished    \* bound: turns of a conversation whose requests wish for more

ASSUME ConversationAssumption ==
  /\ MaxMessages \in Nat
  /\ DOMAIN Replies = Providers
  /\ \A p \in Providers : \A reply \in Replies[p] : IsReply(p, reply)
  /\ Outputs \subseteq [content : Strings, isError : BOOLEAN]
  /\ MaxWished \in Nat
  /\ Plainest \in Wishes
  /\ \A s \in Wishes : IsSettings(s)

VARIABLES
  via,      \* library or gateway
  history,  \* the conversation, in the form the caller has it
  origins,  \* history: where each turn is from, see below
  request,  \* the last request: whom it was for, its settings, the messages on
            \* the wire that each turn became, <<>> if it was not sent, and the
            \* rest of the payload
  outcome   \* ready, bad_request, unsupported, unencodable, waiting,
            \* refused, unreadable, failed

vars == <<via, history, origins, request, outcome>>

(***************************************************************************)
(* A turn was written by the caller, is a provider's reply, or answers     *)
(* calls: the k-th call of turn t is <<t, k>>.                             *)
(***************************************************************************)
ByCaller     == [by |-> "caller"]
ByProvider(p, reply) == [by |-> p, reply |-> reply]
ByTool(calls)        == [by |-> "tool", answers |-> calls]

NoRequest == [to |-> "nobody", settings |-> Plainest, messages |-> <<>>, payload |-> <<>>]

Init ==
  /\ via \in {"library", "gateway"}
  /\ history = <<>>
  /\ origins = <<>>
  /\ request = NoRequest
  /\ outcome = "ready"

-----------------------------------------------------------------------------

\* A turn as skyl sees it, and a skyl message as the caller gets it.
Skyl(turn) == IF via = "gateway" THEN ToSkylMessage(turn) ELSE turn

Rendered(message) == IF via = "gateway" THEN FromSkylMessage(message) ELSE message

Extend(turn, origin) ==
  /\ Len(history) < MaxMessages
  /\ history' = Append(history, turn)
  /\ origins' = Append(origins, origin)
  /\ request' = NoRequest
  /\ outcome' = "ready"
  /\ UNCHANGED via

WriteTurn ==
  /\ outcome # "waiting"
  /\ \E turn \in IF via = "gateway" THEN ChatTurns ELSE UserTurns : Extend(turn, ByCaller)

CallsIn(t) == OfType(Skyl(history[t]).parts, "tool_call")

\* The last reply, if nothing but tool results follow it.
LastReply == {t \in DOMAIN origins :
  /\ origins[t].by \in Providers
  /\ \A n \in t+1..Len(origins) : origins[n].by = "tool"}

Answered == UNION {ToSet(origins[n].answers) : n \in {n \in DOMAIN origins : origins[n].by = "tool"}}

Result(t, k, output) ==
  [type |-> "tool_result", callId |-> CallsIn(t)[k].id,
   content |-> output.content, isError |-> output.isError]

\* ToolResultMessage and ToolErrorMessage, one message per call.
AnswerCall ==
  /\ outcome # "waiting"
  /\ \E t \in LastReply : \E k \in DOMAIN CallsIn(t), output \in Outputs :
       /\ <<t, k>> \notin Answered
       /\ Extend(Rendered([role |-> "tool", parts |-> <<Result(t, k, output)>>]),
                 ByTool(<<<<t, k>>>>))

\* All results in one message.
AnswerCalls ==
  /\ outcome # "waiting"
  /\ \E t \in LastReply :
       /\ t = Len(history) /\ Len(CallsIn(t)) > 1
       /\ \E outputs \in [DOMAIN CallsIn(t) -> Outputs] :
            Extend(Rendered([role  |-> "tool",
                             parts |-> [k \in DOMAIN CallsIn(t) |-> Result(t, k, outputs[k])]]),
                   ByTool([k \in DOMAIN CallsIn(t) |-> <<t, k>>]))

-----------------------------------------------------------------------------

\* The settings as skyl sees them.
SkylSettings(s) == IF via = "gateway" THEN ToSkylSettings(s) ELSE s

\* decodeChat, Request.Validate in the Client, and the adapter's conversion,
\* in this order.
Verdict(p, s) ==
  LET messages == [i \in DOMAIN history |-> Skyl(history[i])]
      converts == /\ \A i \in DOMAIN history : Convertible(history[i])
                  /\ ConvertibleSettings(s)
  IN  CASE via = "gateway" /\ ~ converts -> "bad_request"
        [] OTHER ->
           CASE ~ (Valid(messages) /\ ValidSettings(SkylSettings(s)))   -> "bad_request"
             [] \E i \in DOMAIN messages : Unsupported(p, messages[i])   -> "unsupported"
             [] \E i \in DOMAIN messages : ~ Encodable(p, messages[i])   -> "unencodable"
             [] OTHER                                                    -> "waiting"

\* Bounded: see MaxWished.
WishesNow == IF Len(history) <= MaxWished THEN Wishes ELSE {Plainest}

Ask(p, s) ==
  /\ outcome # "waiting"
  /\ outcome' = Verdict(p, s)
  /\ request' =
       IF outcome' = "waiting"
         THEN [to |-> p, settings |-> s,
               messages |-> [i \in DOMAIN history |-> ConvertMessage(p, Skyl(history[i]))],
               payload |-> Payload(p, SkylSettings(s))]
         ELSE [NoRequest EXCEPT !.to = p, !.settings = s]
  /\ UNCHANGED <<via, history, origins>>

\* The caller is told of an error.
Fail(kind) ==
  /\ outcome' = kind
  /\ UNCHANGED <<via, history, origins, request>>

\* writeJSON has sent its 200 when it finds that it cannot encode the response.
Unreadable(parts) ==
  /\ via = "gateway"
  /\ \E i \in DOMAIN parts : parts[i].type = "tool_call" /\ parts[i].args = "broken"

Reply ==
  /\ outcome = "waiting"
  /\ \E reply \in Replies[request.to] :
       LET parts == PartsFrom(request.to, reply)
       IN  \/ /\ Refused(request.to, reply)
              /\ Fail("refused")
           \/ /\ ~ Refused(request.to, reply)
              /\ Unreadable(parts)
              /\ Fail("unreadable")
           \/ /\ ~ Refused(request.to, reply)
              /\ ~ Unreadable(parts)
              /\ Extend(Rendered([role |-> "assistant", parts |-> parts]),
                        ByProvider(request.to, reply))

ProviderFails ==
  /\ outcome = "waiting"
  /\ Fail("failed")

Next ==
  \/ WriteTurn \/ AnswerCall \/ AnswerCalls
  \/ \E p \in Providers, s \in WishesNow : Ask(p, s)
  \/ Reply \/ ProviderFails

Spec == Init /\ [][Next]_vars

-----------------------------------------------------------------------------
(* Properties. What a provider said is read off its reply, and what it is  *)
(* sent off the wire, in either case in the words of that provider.        *)

\* Text and calls of a provider's own message. A call is its id, where the
\* provider has ids, its name and its arguments.
SaidText(p, reply) == IF p = "oai" THEN Text(reply.content) ELSE Text(reply.parts)

SaidCalls(p, reply) ==
  CASE p = "oai"       -> reply.calls
    [] p = "gemini"    -> OfType(reply.parts, "functionCall")
    [] p = "anthropic" -> OfType(reply.parts, "tool_use")

SentText(p, message) == IF p = "oai" THEN Text(message.content) ELSE Text(message.parts)

SentCalls(p, message) ==
  CASE p = "oai"       -> message.calls
    [] p = "gemini"    -> OfType(message.parts, "functionCall")
    [] p = "anthropic" -> OfType(message.parts, "tool_use")

Same(p, q, call, said) ==
  /\ call.name = said.name
  /\ call.args = Arguments(said.args) \/ (p = "anthropic" /\ said.args = "long")
  /\ "gemini" \in {p, q} \/ call.id = said.id

\* In which order texts and calls come.
Order(p, parts) ==
  LET call == IF p = "gemini" THEN "functionCall" ELSE "tool_use"
      seen == Among(parts, {x \in ToSet(parts) : x.type = call \/ (x.type = "text" /\ x.text # <<>>)})
  IN  [i \in DOMAIN seen |-> seen[i].type]

\* A provider is sent back what it said, and another one is told the same: all
\* text, and every call with its arguments, in order; except for long numbers on
\* their way to Anthropic. The way goes through the adapter's response, the
\* gateway's JSON, the caller, and back.
TurnsCarried ==
  request.messages # <<>> =>
    \A i \in {i \in DOMAIN history : origins[i].by \in Providers} :
      LET p       == request.to
          q       == origins[i].by
          said    == origins[i].reply
          message == request.messages[i][1]
      IN  /\ Len(request.messages[i]) = 1
          /\ SentText(p, message) = SaidText(q, said)
          /\ Len(SentCalls(p, message)) = Len(SaidCalls(q, said))
          /\ \A k \in DOMAIN SaidCalls(q, said) :
               Same(p, q, SentCalls(p, message)[k], SaidCalls(q, said)[k])
          /\ p = q /\ p # "oai" => Order(p, message.parts) = Order(p, said.parts)

\* What a wire message, or a part of one, answers, and with which output.
SentResults(p, messages) ==
  CASE p = "oai"       -> messages
    [] p = "gemini"    -> OfType(messages[1].parts, "functionResponse")
    [] p = "anthropic" -> OfType(messages[1].parts, "tool_result")

Key(p, call) == IF p = "gemini" THEN call.name ELSE call.id

ResultKey(p, result) == IF p = "gemini" THEN result.name ELSE result.callId

\* The k-th result of turn n is found under the key of the call it answers, in
\* the same request, to provider p.
Reaches(p, n, k) ==
  LET result == SentResults(p, request.messages[n])[k]
      at     == origins[n].answers[k]
      call   == SentCalls(p, request.messages[at[1]][1])[at[2]]
      given  == OfType(Skyl(history[n]).parts, "tool_result")[k]
  IN  /\ ResultKey(p, result) = Key(p, call)
      /\ CASE p = "oai"       -> result.content \in {given.content, <<"error">> \o given.content}
           [] p = "gemini"    -> result.content = given.content
           [] p = "anthropic" -> result.content = given.content /\ result.isError = given.isError
      /\ p = "oai" /\ given.isError /\ given.content # <<>> => result.content # given.content

Results == {n \in DOMAIN history : origins[n].by = "tool"}

\* Every result reaches the call it answers, all of them and each with what the
\* tool returned, in the provider's own way of telling calls apart; whichever
\* provider is asked, except for a call another one made and Gemini is told of.
ResultsReachTheirCalls ==
  request.messages # <<>> =>
    \A n \in Results :
      /\ Len(SentResults(request.to, request.messages[n])) = Len(origins[n].answers)
      /\ \A k \in DOMAIN origins[n].answers :
           (request.to = "gemini" => origins[origins[n].answers[k][1]].by = "gemini")
             => Reaches(request.to, n, k)

\* A reply that says something: text or calls, and its calls whole.
Substantial(p, reply) ==
  /\ SaidText(p, reply) # <<>> \/ SaidCalls(p, reply) # <<>>
  /\ \A k \in DOMAIN SaidCalls(p, reply) :
       LET call == SaidCalls(p, reply)[k]
       IN  call.name # "" /\ call.args # "broken" /\ (p # "gemini" => call.id # "")

\* A turn that every provider has a form for.
Plain(turn) ==
  /\ turn.role = "user"
  /\ via = "gateway" => Convertible(turn)
  /\ Skyl(turn).parts # <<>>
  /\ \A i \in DOMAIN Skyl(turn).parts :
       LET part == Skyl(turn).parts[i]
       IN  part.type = "text" \/ (part.type = "image" /\ part.data # <<>> /\ part.media # "" /\ part.url = "")

\* Settings that name a model, tools and a schema, and limits that make sense.
Sound(s) ==
  /\ s.model # "" /\ s.maxTokens >= 0
  /\ \A i \in DOMAIN s.tools : s.tools[i].name # ""
  /\ s.choice.mode \in {"nil", "auto", "none", "required"} \/ (s.choice.mode = "tool" /\ s.choice.name # "")
  /\ s.format.given => s.format.schema # ""

\* A caller who appends what he is given and answers the calls in it may go on
\* with any provider, with whatever the tools returned: his request is refused
\* only for its settings, for a turn of his own, or for a reply that was empty
\* or not whole.
AppendedTurnsAccepted ==
  outcome \in {"bad_request", "unsupported", "unencodable"} =>
    \/ history = <<>>
    \/ ~ Sound(request.settings)
    \/ \E i \in DOMAIN history :
         \/ origins[i].by = "caller" /\ ~ Plain(history[i])
         \/ origins[i].by \in Providers /\ ~ Substantial(origins[i].by, origins[i].reply)

-----------------------------------------------------------------------------
(* What a provider hears in the payload it is sent, by its own rules, in   *)
(* the words of skyl's settings.                                           *)

\* A tool takes an object, with or without being told.
Meaning(name, schema) ==
  [name |-> name, properties |-> Get(schema, "properties", "{}"), required |-> Get(schema, "required", <<>>),
   rest |-> [k \in DOMAIN schema \ {"type", "properties", "required"} |-> schema[k]]]

Tools(tools, schema(_)) == [i \in DOMAIN tools |-> Meaning(tools[i].name, schema(tools[i]))]

\* The system prompt is a message.
HeardByOai(w) ==
  LET choice == Get(w, "tool_choice", [mode |-> "nil", name |-> ""])
      effort == Get(w, "reasoning_effort", "")
  IN
  [system |-> Get(w, "messages", ""), limit |-> Get(w, MaxTokensField, 0),
   temperature |-> Get(w, "temperature", "nil"), topP |-> Get(w, "top_p", "nil"),
   stop |-> Get(w, "stop", <<>>),
   tools |-> Tools(Get(w, "tools", <<>>), LAMBDA t : t.parameters),
   choice |-> IF choice.mode = "function" THEN <<"tool", choice.name>> ELSE <<choice.mode, "">>,
   thinking |-> IF effort # "" THEN <<"on", effort>> ELSE <<"nil", "">>,
   format |-> Get(w, "response_format", [schema |-> ""]).schema]

\* A function named is a tool, any other one is just required.
ModeOf(choice) ==
  CASE choice.mode = "ANY"  -> IF choice.only # "" THEN "tool" ELSE "required"
    [] choice.mode = "AUTO" -> "auto"
    [] choice.mode = "NONE" -> "none"
    [] OTHER                -> "nil"

\* A budget is as deep as the least effort whose tokens it does not exceed; it
\* is 0 where the model is not to reason, -1 where the model decides, and -2
\* here if there is none.
DepthOf(budget) ==
  CASE budget = -2                      -> "nil"
    [] budget = 0                       -> "off"
    [] budget = -1                      -> ""
    [] 0 < budget /\ budget <= 1024     -> "low"
    [] 1024 < budget /\ budget <= 8192  -> "medium"
    [] 8192 < budget /\ budget <= 16384 -> "high"
    [] OTHER                            -> "max"

HeardByGemini(w) ==
  LET gen    == Get(w, "generationConfig", <<>>)
      choice == Get(w, "toolConfig", [mode |-> "nil", only |-> ""])
      depth  == DepthOf(Get(gen, "thinkingConfig", -2))
  IN
  [system |-> Get(w, "systemInstruction", ""), limit |-> Get(gen, "maxOutputTokens", 0),
   temperature |-> Get(gen, "temperature", "nil"), topP |-> Get(gen, "topP", "nil"),
   stop |-> Get(gen, "stopSequences", <<>>),
   tools |-> Tools(Get(w, "tools", <<>>), LAMBDA t : Get(t, "parameters", <<>>)),
   choice |-> <<ModeOf(choice), choice.only>>,
   thinking |-> <<IF depth \in {"nil", "off"} THEN depth ELSE "on",
                  IF depth \in {"nil", "off"} THEN "" ELSE depth>>,
   format |-> IF Get(gen, "responseMimeType", "") = "application/json"
              THEN Get(gen, "responseSchema", "") ELSE ""]

HeardByAnthropic(w) ==
  LET choice == Get(w, "tool_choice", <<>>)
      mode   == Get(choice, "type", "nil")
      kind   == Get(Get(w, "thinking", <<>>), "type", "nil")
      output == Get(w, "output_config", <<>>)
  IN
  [system |-> Get(w, "system", ""), limit |-> Get(w, "max_tokens", 0),
   temperature |-> Get(w, "temperature", "nil"), topP |-> Get(w, "top_p", "nil"),
   stop |-> Get(w, "stop_sequences", <<>>),
   tools |-> Tools(Get(w, "tools", <<>>), LAMBDA t : t.input_schema),
   choice |-> IF mode = "any" THEN <<"required", "">> ELSE <<mode, Get(choice, "name", "")>>,
   thinking |-> <<CASE kind = "adaptive" -> "on"
                    [] kind = "disabled" -> "off"
                    [] OTHER             -> "nil", Get(output, "effort", "")>>,
   format |-> Get(output, "format", "")]

Heard(p, w) ==
  CASE p = "oai" -> HeardByOai(w) [] p = "gemini" -> HeardByGemini(w) [] p = "anthropic" -> HeardByAnthropic(w)

\* What the caller says of his tools.
ToldTools(s) == Tools(s.tools, LAMBDA t : IF t.given THEN Encoded(t.parameters) ELSE <<>>)

\* What the caller wants heard. An OpenAI-compatible host has no word for
\* reasoning but its depth, Gemini has a budget for four depths, and Anthropic
\* must be told a limit.
Wanted(p, s) ==
  LET effort == IF p = "gemini" /\ s.thinking.effort \notin {"low", "medium", "high", "max"}
                THEN "" ELSE s.thinking.effort
  IN
  [system |-> s.system,
   limit |-> IF s.maxTokens = 0 /\ p = "anthropic" THEN DefaultMaxTokens ELSE s.maxTokens,
   temperature |-> s.temperature, topP |-> s.topP, stop |-> s.stop,
   tools |-> ToldTools(s),
   choice |-> <<s.choice.mode, IF s.choice.mode = "tool" THEN s.choice.name ELSE "">>,
   thinking |-> IF s.thinking.mode = "on" /\ (p = "oai" => s.thinking.effort # "")
                  THEN <<"on", effort>>
                ELSE <<IF p = "oai" THEN "nil" ELSE s.thinking.mode, "">>,
   format |-> IF s.format.given THEN s.format.schema ELSE ""]

\* Where in a payload a provider is told of a setting: a field, or one within a
\* field, as the path there.
PlacesOf(p) ==
  CASE p = "oai" ->
         [system |-> {<<"messages">>}, limit |-> {<<MaxTokensField>>}, temperature |-> {<<"temperature">>},
          topP |-> {<<"top_p">>}, stop |-> {<<"stop">>}, tools |-> {<<"tools">>},
          choice |-> {<<"tool_choice">>}, thinking |-> {<<"reasoning_effort">>},
          format |-> {<<"response_format">>}]
    [] p = "gemini" ->
         [system |-> {<<"systemInstruction">>}, tools |-> {<<"tools">>}, choice |-> {<<"toolConfig">>}]
    [] p = "anthropic" ->
         [system |-> {<<"system">>}, limit |-> {<<"max_tokens">>}, temperature |-> {<<"temperature">>},
          topP |-> {<<"top_p">>}, stop |-> {<<"stop_sequences">>}, tools |-> {<<"tools">>},
          choice |-> {<<"tool_choice", "type">>, <<"tool_choice", "name">>},
          thinking |-> {<<"thinking", "type">>, <<"output_config", "effort">>},
          format |-> {<<"output_config", "format">>}]

Places(p, setting) == Get(PlacesOf(p), setting, {<<"generationConfig">>})

\* Where a provider's payload has the options of a request.
Written(p, options) ==
  IF p = "anthropic" THEN {<<k>> : k \in DOMAIN Whole(options)} \cup Nested(options)
                     ELSE {<<k>> : k \in DOMAIN options}

\* Of two paths, one leads to where the other does, or further.
Meet(a, b) == \A i \in DOMAIN a \cap DOMAIN b : a[i] = b[i]

Untouched(p, setting, options) ==
  \A place \in Places(p, setting), path \in Written(p, options) : ~ Meet(path, place)

\* One request means the same to every provider: each hears every setting that
\* the caller made, tool schemas with all their keywords included, and none he
\* did not make, wherever its payload has a place for it. The only settings not
\* heard are those that ProviderOptions write over: with OpenAI-compatible hosts
\* and Gemini all that is told in a field they name, with Anthropic also just
\* what is told at the end of a path, and not what lies beside it.
SettingsCarried ==
  request.messages # <<>> =>
    LET p == request.to
        s == request.settings
    IN  \A setting \in DOMAIN Wanted(p, s) :
          Untouched(p, setting, s.options) => Heard(p, request.payload)[setting] = Wanted(p, s)[setting]

Has(object, field, value) == field \in DOMAIN object /\ object[field] = value

\* ProviderOptions are applied last: every one of them is in the payload, under
\* its key or, with Anthropic, at the end of its path, whatever skyl chose for
\* that place. Where one option is a field and others lead into it, the paths
\* win and the rest of the field is there as well.
OptionsCarried ==
  request.messages # <<>> =>
    LET options == request.settings.options
        w       == request.payload
    IN  /\ request.to # "anthropic" => \A k \in DOMAIN options : Has(w, k, options[k])
        /\ request.to = "anthropic" =>
             /\ \A path \in Nested(options) : Has(Get(w, path[1], <<>>), path[2], options[Dotted[path]])
             /\ \A k \in DOMAIN Whole(options) \ Led(options) : Has(w, k, options[k])
             /\ \A k \in DOMAIN Whole(options) \cap Led(options) : \A n \in DOMAIN options[k] :
                  <<k, n>> \notin Nested(options) => Has(Get(w, k, <<>>), n, options[k][n])
=============================================================================
