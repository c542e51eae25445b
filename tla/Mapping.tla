------------------------------- MODULE Mapping -------------------------------
(***************************************************************************)
(* What the code makes of a turn of a conversation on its way: the checks  *)
(* of skyl and of the gateway (request.go, gateway/api.go), the message    *)
(* each adapter sends for it, and the parts each adapter takes from a      *)
(* reply (internal/oai, provider/gemini, provider/anthropic).              *)
(*                                                                         *)
(* A text is a sequence of pieces, the empty one <<>>, so that texts can   *)
(* be joined. Image data is a sequence too, and its base64 form starts     *)
(* with "base64". The arguments of a call are JSON of the caller's or the  *)
(* model's making: "" when there are none, "{}", "broken" when they are    *)
(* not JSON, "long" when they hold an integer that no float64 is equal to, *)
(* or anything else. The parts of a turn, as skyl has them and as the      *)
(* gateway's JSON has them, are                                            *)
(*   [type |-> "text", text]                                               *)
(*   [type |-> "image", media, data, url]                                  *)
(*   [type |-> "tool_call", id, name, args]                                *)
(*   [type |-> "tool_result", callId, content, isError]                    *)
(* where only the gateway's may have another type, and only its data is    *)
(* base64.                                                                 *)
(***************************************************************************)
EXTENDS Naturals, Sequences, SequencesExt, Subsequences

Providers == {"oai", "gemini", "anthropic"}

Roles == {"user", "assistant", "tool"}

Strings == Seq(STRING)

OfType(parts, t) == Among(parts, {p \in ToSet(parts) : p.type = t})

\* The text parts of a turn, joined.
Text(parts) == FlattenSeq([i \in DOMAIN parts |-> IF parts[i].type = "text" THEN parts[i].text ELSE <<>>])

-----------------------------------------------------------------------------
(* Request.Validate, as far as it looks at the turns.                      *)

\* Mutant: a tool that returned nothing is taken for a tool that did not run.
ValidPartWithContent(p) ==
  CASE p.type = "image"       -> (p.data # <<>> \/ p.url # "") /\ (p.data # <<>> => p.media # "")
    [] p.type = "tool_call"   -> p.id # "" /\ p.name # ""
    [] p.type = "tool_result" -> p.callId # "" /\ p.content # <<>>
    [] OTHER                  -> TRUE

ValidPart(p) ==
  CASE p.type = "image"       -> (p.data # <<>> \/ p.url # "") /\ (p.data # <<>> => p.media # "")
    [] p.type = "tool_call"   -> p.id # "" /\ p.name # ""
    [] p.type = "tool_result" -> p.callId # ""
    [] OTHER                  -> TRUE

ValidMessage(m) ==
  /\ m.role \in Roles
  /\ m.parts # <<>>
  /\ \A i \in DOMAIN m.parts : ValidPart(m.parts[i])

Valid(messages) ==
  /\ messages # <<>>
  /\ \A i \in DOMAIN messages : ValidMessage(messages[i])

-----------------------------------------------------------------------------
(* The gateway's JSON. A turn has a role, and a text or content.           *)

Base64(data) == IF data = <<>> THEN <<>> ELSE <<"base64">> \o data

IsBase64(s) == s = <<>> \/ Head(s) = "base64"

ConvertiblePart(p) ==
  CASE p.type = "text"        -> TRUE
    [] p.type = "image"       -> IF p.data = <<>> THEN p.url # ""
                                                  ELSE p.media # "" /\ IsBase64(p.data)
    [] p.type = "tool_call"   -> p.id # "" /\ p.name # ""
    [] p.type = "tool_result" -> p.callId # ""
    [] OTHER                  -> FALSE

\* Image data wins over a URL.
ToSkylPart(p) ==
  IF p.type # "image" \/ p.data = <<>> THEN p ELSE [p EXCEPT !.data = Tail(@), !.url = ""]

Convertible(m) ==
  /\ m.role \in Roles
  /\ m.text = <<>> \/ m.content = <<>>
  /\ m.text = <<>> => \A i \in DOMAIN m.content : ConvertiblePart(m.content[i])

ToSkylMessage(m) ==
  [role  |-> m.role,
   parts |-> IF m.text # <<>> THEN <<[type |-> "text", text |-> m.text]>>
             ELSE [i \in DOMAIN m.content |-> ToSkylPart(m.content[i])]]

FromSkylPart(p) == IF p.type = "image" THEN [p EXCEPT !.data = Base64(@)] ELSE p

\* Mutant: a turn that says something says only that.
FromSkylMessageProse(m) ==
  [role |-> m.role, text |-> Text(m.parts),
   content |-> IF Text(m.parts) # <<>> THEN <<>>
               ELSE [i \in DOMAIN m.parts |-> FromSkylPart(m.parts[i])]]

FromSkylMessage(m) ==
  [role |-> m.role, text |-> <<>>, content |-> [i \in DOMAIN m.parts |-> FromSkylPart(m.parts[i])]]

-----------------------------------------------------------------------------
(* What an adapter sends for a turn.                                       *)

\* The parts oai has a form for, by the role of the turn.
OaiForms(role) ==
  CASE role = "tool"      -> {"tool_result"}
    [] role = "user"      -> {"text", "image"}
    [] role = "assistant" -> {"text", "tool_call"}

\* Whether the adapter has no form for a part of the turn.
Unsupported(to, m) ==
  \E i \in DOMAIN m.parts :
    LET p == m.parts[i] IN
    \/ to = "oai" /\ p.type \notin OaiForms(m.role)
    \/ to = "gemini" /\ p.type = "image" /\ p.url # "" /\ p.data = <<>>
    \/ to = "anthropic" /\ p.type = "tool_call" /\ p.args = "broken"

\* encoding/json takes arguments as they are, if they are JSON. The oai
\* adapter sends them as a string, which may hold anything.
Encodable(to, m) ==
  to = "gemini" =>
    \A i \in DOMAIN m.parts : m.parts[i].type = "tool_call" => m.parts[i].args # "broken"

Arguments(args) == IF args = "" THEN "{}" ELSE args

\* A tool message becomes one message per result.
OaiResult(r) ==
  [role |-> "tool", callId |-> r.callId,
   content |-> IF r.isError /\ r.content # <<>> THEN <<"error">> \o r.content ELSE r.content]

OaiBlock(p) ==
  IF p.type = "text" THEN p
  ELSE [type |-> "image_url",
        url  |-> IF p.url = "" THEN <<"data", p.media>> \o Base64(p.data) ELSE <<p.url>>]

OaiCall(c) == [id |-> c.id, name |-> c.name, args |-> Arguments(c.args)]

\* Blocks if there is an image among them, or else the joined text; and the calls apart.
OaiTurn(m) ==
  LET calls  == OfType(m.parts, "tool_call")
      images == OfType(m.parts, "image")
      blocks == Among(m.parts, {p \in ToSet(m.parts) : p.type # "tool_call"})
  IN  [role    |-> m.role,
       content |-> IF images # <<>> THEN [i \in DOMAIN blocks |-> OaiBlock(blocks[i])]
                   ELSE <<[type |-> "text", text |-> Text(m.parts)]>>,
       calls   |-> [i \in DOMAIN calls |-> OaiCall(calls[i])]]

OaiMessages(m) ==
  IF m.role = "tool" THEN [i \in DOMAIN m.parts |-> OaiResult(m.parts[i])] ELSE <<OaiTurn(m)>>

\* Gemini has no ids: a call and its result have the function's name in common.
GeminiPart(p) ==
  CASE p.type = "text"        -> p
    [] p.type = "image"       -> [type |-> "inlineData", media |-> p.media, data |-> Base64(p.data)]
    [] p.type = "tool_call"   -> [type |-> "functionCall", name |-> p.name, args |-> Arguments(p.args)]
    [] p.type = "tool_result" -> [type |-> "functionResponse", name |-> p.callId, content |-> p.content]

GeminiContent(m) ==
  [role  |-> IF m.role = "assistant" THEN "model" ELSE "user",
   parts |-> [i \in DOMAIN m.parts |-> GeminiPart(m.parts[i])]]

\* The arguments decoded into an any, and encoded again.
Reencoded(args) == IF args = "long" THEN "rounded" ELSE args

AnthropicBlock(p) ==
  CASE p.type = "text"        -> p
    [] p.type = "image"       -> IF p.url # "" /\ p.data = <<>>
                                   THEN [type |-> "image", url |-> p.url]
                                   ELSE [type |-> "image", media |-> p.media, data |-> Base64(p.data)]
    [] p.type = "tool_call"   -> [type |-> "tool_use", id |-> p.id, name |-> p.name,
                                  args |-> Reencoded(Arguments(p.args))]
    [] p.type = "tool_result" -> [type |-> "tool_result", callId |-> p.callId,
                                  content |-> p.content, isError |-> p.isError]

AnthropicMessage(m) ==
  [role  |-> IF m.role = "assistant" THEN "assistant" ELSE "user",
   parts |-> [i \in DOMAIN m.parts |-> AnthropicBlock(m.parts[i])]]

\* The messages on the wire for one turn.
ConvertMessage(to, m) ==
  CASE to = "oai"       -> OaiMessages(m)
    [] to = "gemini"    -> <<GeminiContent(m)>>
    [] to = "anthropic" -> <<AnthropicMessage(m)>>

-----------------------------------------------------------------------------
(* What an adapter takes from a reply. The reply is                        *)
(*   oai:       content, blocks of type "text" or another (a plain string  *)
(*              is one block), calls, and whether it is a refusal          *)
(*   gemini:    parts, of type "text", "functionCall" or another           *)
(*   anthropic: parts, of type "text", "tool_use" or another               *)

\* The calls, and the texts that are not empty.
Saying(parts, call) ==
  Among(parts, {p \in ToSet(parts) : p.type = call \/ (p.type = "text" /\ p.text # <<>>)})

\* A sequence whose texts are texts.
IsProse(parts) ==
  /\ parts \in Seq(ToSet(parts))
  /\ \A p \in ToSet(parts) : p.type = "text" => p.text \in Strings

IsReply(provider, reply) ==
  IF provider = "oai" THEN IsProse(reply.content) /\ reply.calls \in Seq(ToSet(reply.calls))
                      ELSE IsProse(reply.parts)

TextParts(text) == IF text = <<>> THEN <<>> ELSE <<[type |-> "text", text |-> text]>>

ToolCall(id, c) == [type |-> "tool_call", id |-> id, name |-> c.name, args |-> Arguments(c.args)]

PartsFromOai(reply) ==
  TextParts(Text(reply.content)) \o [i \in DOMAIN reply.calls |-> ToolCall(reply.calls[i].id, reply.calls[i])]

\* Mutant: calls are told apart by their place, as in a provider with ids.
PartsFromGeminiNumbered(reply) ==
  LET said == Saying(reply.parts, "functionCall")
  IN  [i \in DOMAIN said |-> IF said[i].type = "text" THEN said[i]
                             ELSE ToolCall(IF i = 1 THEN "call_1" ELSE "call_2", said[i])]

PartsFromGemini(reply) ==
  LET said == Saying(reply.parts, "functionCall")
  IN  [i \in DOMAIN said |-> IF said[i].type = "text" THEN said[i]
                             ELSE ToolCall(said[i].name, said[i])]

PartsFromAnthropic(reply) ==
  LET said == Saying(reply.parts, "tool_use")
  IN  [i \in DOMAIN said |-> IF said[i].type = "text" THEN said[i]
                             ELSE ToolCall(said[i].id, said[i])]

PartsFrom(provider, reply) ==
  CASE provider = "oai"       -> PartsFromOai(reply)
    [] provider = "gemini"    -> PartsFromGemini(reply)
    [] provider = "anthropic" -> PartsFromAnthropic(reply)

\* The oai adapter makes an error of a refusal that says nothing.
Refused(provider, reply) ==
  provider = "oai" /\ reply.refusal /\ PartsFromOai(reply) = <<>>
=============================================================================
