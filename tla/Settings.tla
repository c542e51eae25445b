------------------------------ MODULE Settings ------------------------------
(***************************************************************************)
(* What the code makes of the settings of a request, which is everything   *)
(* but its turns (see Mapping): the checks of skyl and of the gateway, and *)
(* the payload each adapter sends. skyl.Request's fields are               *)
(*   model, system             "" when unset                               *)
(*   maxTokens                 0 when unset                                *)
(*   temperature, topP         "nil" when unset                            *)
(*   stop                      a sequence of texts                         *)
(*   tools                     a sequence of [name, given, parameters]:    *)
(*                             whether Parameters is there, and its schema *)
(*   choice                    [mode, name], mode "nil" when unset         *)
(*   thinking                  [mode, effort]: nil, off, or on             *)
(*   format                    [given, schema, name]                       *)
(*   options                   ProviderOptions, from key to value          *)
(* A tool's schema is a function of some of type, properties, required and *)
(* other keywords; required is [as, names], strings in a schema written in *)
(* Go and values in one decoded from JSON. The schema of a format is a     *)
(* token, "" for an empty one.                                             *)
(***************************************************************************)
EXTENDS Integers, Sequences, SequencesExt

CONSTANTS
  MaxTokensField,  \* oai.Config's: what the host calls the limit
  Dotted           \* every option key with a dot, outer.inner, under <<outer, inner>>

\* Any name will do that no other field has.
ASSUME SettingsAssumption ==
  MaxTokensField \notin {"model", "messages", "temperature", "top_p", "stop", "tools", "tool_choice",
                         "reasoning_effort", "response_format"}

\* To Anthropic a key with a dot is a path, to the others a name. The paths lead
\* into objects, and from there no further: into none of the fields below.
ASSUME DottedAssumption ==
  /\ \A path \in DOMAIN Dotted :
       /\ path = <<path[1], path[2]>>
       /\ path[1] \notin {"model", "max_tokens", "messages", "system", "temperature", "top_p",
                         "stop_sequences", "tools"}
  /\ IsInjective(Dotted)

\* The options whose keys are paths, as paths, and the options of the other keys.
Nested(options) == {path \in DOMAIN Dotted : Dotted[path] \in DOMAIN options}

Whole(options) ==
  [k \in {k \in DOMAIN options : \A path \in DOMAIN Dotted : Dotted[path] # k} |-> options[k]]

\* ProviderOptions that leave the turns alone; and what a path leads into, if an
\* option brings it, is an object.
IsOptions(options) ==
  /\ DOMAIN options \cap {"messages", "contents"} = {}
  /\ \A path \in Nested(options) : path[1] \in DOMAIN options =>
       options[path[1]] = [n \in DOMAIN options[path[1]] |-> options[path[1]][n]]

\* What Go's types say of a skyl.Request.
IsSettings(s) ==
  /\ DOMAIN s = {"model", "system", "maxTokens", "temperature", "topP", "stop", "tools",
                 "choice", "thinking", "format", "options"}
  /\ s.maxTokens \in Int
  /\ \A i \in DOMAIN s.tools :
       /\ DOMAIN s.tools[i] = {"name", "given", "parameters"}
       /\ s.tools[i].given \in BOOLEAN
       /\ "required" \in DOMAIN s.tools[i].parameters =>
            /\ DOMAIN s.tools[i].parameters["required"] = {"as", "names"}
            /\ s.tools[i].parameters["required"].as \in {"strings", "values"}
  /\ s.thinking.mode \in {"nil", "off", "on"}
  /\ s.format.given \in BOOLEAN
  /\ IsOptions(s.options)

Modes == {"auto", "none", "required", "tool"}

-----------------------------------------------------------------------------
(* The checks.                                                             *)

\* Request.Validate, as far as it looks at the settings.
ValidSettings(s) ==
  /\ s.model # ""
  /\ s.maxTokens >= 0
  /\ \A i \in DOMAIN s.tools : s.tools[i].name # ""
  /\ s.choice.mode \in Modes \cup {"nil"}
  /\ s.choice.mode = "tool" => s.choice.name # ""
  /\ s.format.given => s.format.schema # ""

\* toSkylRequest names two wrong fields itself.
ConvertibleSettings(s) ==
  /\ s.choice.mode \in Modes \cup {"nil"}
  /\ s.format.given => s.format.schema # ""

\* A schema that came as JSON has its lists decoded.
Decoded(schema) ==
  [k \in DOMAIN schema |-> IF k = "required" THEN [schema[k] EXCEPT !.as = "values"] ELSE schema[k]]

DecodedTool(t) == [t EXCEPT !.parameters = Decoded(t.parameters)]

\* toSkylRequest: every other field is taken as it is.
ToSkylSettings(s) == [s EXCEPT !.tools = [i \in DOMAIN s.tools |-> DecodedTool(s.tools[i])]]

-----------------------------------------------------------------------------
(* The payloads, without the turns.                                        *)

\* A JSON object of one field, or of none.
Field(given, name, value) == [f \in IF given THEN {name} ELSE {} |-> value]

\* The fields of two objects; those of the first win, whole.
f ++ g == [k \in DOMAIN f \cup DOMAIN g |-> IF k \in DOMAIN f THEN f[k] ELSE g[k]]

Get(object, field, default) == IF field \in DOMAIN object THEN object[field] ELSE default

\* A schema in JSON, where a list of names is a list of names.
Encoded(schema) ==
  [k \in DOMAIN schema |-> IF k = "required" THEN schema[k].names ELSE schema[k]]

NoArguments == [type |-> "object", properties |-> "{}"]

OaiTool(t) ==
  [name |-> t.name, parameters |-> IF t.given THEN Encoded(t.parameters) ELSE NoArguments]

\* The system prompt is the first message.
OaiPayload(s) ==
  Field(TRUE, "model", s.model)
    ++ Field(s.system # "", "messages", s.system)
    ++ Field(s.maxTokens > 0, MaxTokensField, s.maxTokens)
    ++ Field(s.temperature # "nil", "temperature", s.temperature)
    ++ Field(s.topP # "nil", "top_p", s.topP)
    ++ Field(s.stop # <<>>, "stop", s.stop)
    ++ Field(s.tools # <<>>, "tools", [i \in DOMAIN s.tools |-> OaiTool(s.tools[i])])
    ++ Field(s.choice.mode # "nil", "tool_choice",
             [mode |-> IF s.choice.mode = "tool" THEN "function" ELSE s.choice.mode,
              name |-> IF s.choice.mode = "tool" THEN s.choice.name ELSE ""])
    ++ Field(s.thinking.mode = "on" /\ s.thinking.effort # "", "reasoning_effort", s.thinking.effort)
    ++ Field(s.format.given, "response_format",
             [name   |-> IF s.format.name = "" THEN "response" ELSE s.format.name,
              strict |-> TRUE, schema |-> s.format.schema])

\* Gemini's budget for an effort, -1 where the model is to decide.
ThinkingBudget(effort) ==
  CASE effort = "low"    -> 1024
    [] effort = "medium" -> 8192
    [] effort = "high"   -> 16384
    [] effort = "max"    -> 24576
    [] OTHER             -> -1

\* thinkingConfig holds a budget and nothing else.
GenerationConfig(s) ==
  Field(s.maxTokens > 0, "maxOutputTokens", s.maxTokens)
    ++ Field(s.temperature # "nil", "temperature", s.temperature)
    ++ Field(s.topP # "nil", "topP", s.topP)
    ++ Field(s.stop # <<>>, "stopSequences", s.stop)
    ++ Field(s.thinking.mode # "nil", "thinkingConfig",
             IF s.thinking.mode = "on" THEN ThinkingBudget(s.thinking.effort) ELSE 0)
    ++ Field(s.format.given, "responseMimeType", "application/json")
    ++ Field(s.format.given, "responseSchema", s.format.schema)

GeminiTool(t) ==
  Field(TRUE, "name", t.name) ++ Field(t.given, "parameters", Encoded(t.parameters))

GeminiChoice(choice) ==
  CASE choice.mode = "auto"     -> [mode |-> "AUTO", only |-> ""]
    [] choice.mode = "none"     -> [mode |-> "NONE", only |-> ""]
    [] choice.mode = "required" -> [mode |-> "ANY", only |-> ""]
    [] choice.mode = "tool"     -> [mode |-> "ANY", only |-> choice.name]

\* The model is in the URL.
GeminiPayload(s) ==
  Field(s.system # "", "systemInstruction", s.system)
    ++ Field(DOMAIN GenerationConfig(s) # {}, "generationConfig", GenerationConfig(s))
    ++ Field(s.tools # <<>>, "tools", [i \in DOMAIN s.tools |-> GeminiTool(s.tools[i])])
    ++ Field(s.choice.mode # "nil", "toolConfig", GeminiChoice(s.choice))

DefaultMaxTokens == 4096

\* Mutant: a list that came out of JSON is no list of names.
RequiredNamesOfStrings(required) == IF required.as = "strings" THEN required.names ELSE <<>>

RequiredNames(required) == IF required.as \in {"strings", "values"} THEN required.names ELSE <<>>

\* The schema keywords the SDK's struct has no field for.
ExtraSchemaFields(schema) ==
  [k \in DOMAIN schema \ {"properties", "required", "type"} |-> schema[k]]

\* The SDK says object by itself, and leaves out an empty list.
AnthropicSchema(t) ==
  IF ~ t.given THEN NoArguments
  ELSE LET required == IF "required" \in DOMAIN t.parameters
                       THEN RequiredNames(t.parameters.required) ELSE <<>>
       IN  Field(TRUE, "type", "object")
             ++ Field(TRUE, "properties", IF "properties" \in DOMAIN t.parameters
                                          THEN t.parameters.properties ELSE "{}")
             ++ Field(required # <<>>, "required", required)
             ++ ExtraSchemaFields(t.parameters)

AnthropicTool(t) == [name |-> t.name, input_schema |-> AnthropicSchema(t)]

AnthropicChoice(choice) ==
  [type |-> IF choice.mode = "required" THEN "any" ELSE choice.mode,
   name |-> IF choice.mode = "tool" THEN choice.name ELSE ""]

OutputConfig(s) ==
  Field(s.thinking.mode = "on" /\ s.thinking.effort # "", "effort", s.thinking.effort)
    ++ Field(s.format.given, "format", s.format.schema)

AnthropicPayload(s) ==
  Field(TRUE, "model", s.model)
    ++ Field(TRUE, "max_tokens", IF s.maxTokens <= 0 THEN DefaultMaxTokens ELSE s.maxTokens)
    ++ Field(s.system # "", "system", s.system)
    ++ Field(s.temperature # "nil", "temperature", s.temperature)
    ++ Field(s.topP # "nil", "top_p", s.topP)
    ++ Field(s.stop # <<>>, "stop_sequences", s.stop)
    ++ Field(s.tools # <<>>, "tools", [i \in DOMAIN s.tools |-> AnthropicTool(s.tools[i])])
    ++ Field(s.choice.mode # "nil", "tool_choice", AnthropicChoice(s.choice))
    ++ Field(s.thinking.mode # "nil", "thinking",
             [type |-> IF s.thinking.mode = "on" THEN "adaptive" ELSE "disabled"])
    ++ Field(DOMAIN OutputConfig(s) # {}, "output_config", OutputConfig(s))

\* The caller's fields win, whole.
Merge(payload, extra) == extra ++ payload

\* The fields that paths lead into, and what they write in one of them.
Led(options) == {path[1] : path \in Nested(options)}

Inside(options, f) ==
  [n \in {path[2] : path \in {q \in Nested(options) : q[1] = f}} |-> options[Dotted[<<f, n>>]]]

\* Mutant: the options are applied in another order than that of their keys, and
\* a whole field is written over what a path wrote in it.
WriteIntoUnsorted(payload, options) ==
  Whole(options)
    ++ [f \in Led(options) |-> Inside(options, f) ++ Get(payload, f, <<>>)]
    ++ payload

\* The encoded body is written into, one option after the other in the order of
\* their keys: a field before the paths into it, which leave the rest of it alone
\* and make an object where there is none.
WriteInto(payload, options) ==
  LET whole == Merge(payload, Whole(options))
  IN  [f \in Led(options) |-> Inside(options, f) ++ Get(whole, f, <<>>)] ++ whole

Payload(to, s) ==
  CASE to = "oai"       -> Merge(OaiPayload(s), s.options)
    [] to = "gemini"    -> Merge(GeminiPayload(s), s.options)
    [] to = "anthropic" -> WriteInto(AnthropicPayload(s), s.options)
=============================================================================
