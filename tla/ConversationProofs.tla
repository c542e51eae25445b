------------------------- MODULE ConversationProofs -------------------------
(***************************************************************************)
(* The gateway's JSON form of a turn against skyl's own, for every turn:   *)
(* what the gateway renders it reads back, and what it reads Validate      *)
(* accepts. The settings of a request against the payload made of them,    *)
(* for all settings: every provider hears what the caller wants. And the   *)
(* turns of a conversation against the messages sent for them, for all     *)
(* conversations: no text, call or result is lost, and none refused.       *)
(***************************************************************************)
EXTENDS Conversation, SequenceLemmas, TLAPS

TextPart   == [type : {"text"}, text : Strings]
ImagePart  == [type : {"image"}, media : STRING, data : Strings, url : STRING]
CallPart   == [type : {"tool_call"}, id : STRING, name : STRING, args : STRING]
ResultPart == [type : {"tool_result"}, callId : STRING, content : Strings, isError : BOOLEAN]

Part == TextPart \cup ImagePart \cup CallPart \cup ResultPart

Message == [role : STRING, parts : Seq(Part)]

ChatMessage == [role : STRING, text : Strings, content : Seq(Part)]

\* An image has its data or a URL, as message.go asks for, not both.
OneSource(m) ==
  \A i \in DOMAIN m.parts : m.parts[i].type = "image" => m.parts[i].data = <<>> \/ m.parts[i].url = ""

\* The base64 of an image decodes to something.
SomeData(m) ==
  \A i \in DOMAIN m.content : m.content[i].type = "image" => m.content[i].data # <<"base64">>

-----------------------------------------------------------------------------

\* Base64 stands for data, and for what it was made of.
LEMMA Base64Decodes ==
  ASSUME NEW data \in Strings, data # <<>>
  PROVE  /\ Base64(data) # <<>>
         /\ IsBase64(Base64(data))
         /\ Tail(Base64(data)) = data
BY DEF Base64, IsBase64, Strings

\* A text whose tail is empty is its head.
LEMMA OnlyHead ==
  ASSUME NEW s \in Strings, s # <<>>, Tail(s) = <<>>
  PROVE  s = <<Head(s)>>
<1>1. Len(s) \in Nat /\ Len(Tail(s)) = Len(s) - 1
  BY DEF Strings
<1>2. Len(s) = 1
  BY <1>1
<1> QED BY <1>2 DEF Strings

\* RoundTrip, for one part.
LEMMA PartRoundTrip ==
  ASSUME NEW p \in Part, ValidPart(p),
         p.type = "image" => p.data = <<>> \/ p.url = ""
  PROVE  /\ ConvertiblePart(FromSkylPart(p))
         /\ ToSkylPart(FromSkylPart(p)) = p
<1>1. CASE p \in TextPart
  BY <1>1 DEF TextPart, FromSkylPart, ToSkylPart, ConvertiblePart
<1>2. CASE p \in ImagePart
  <2> DEFINE q == [p EXCEPT !.data = Base64(@)]
  <2>1. /\ FromSkylPart(p) = q
        /\ q.type = "image" /\ q.media = p.media /\ q.url = p.url /\ q.data = Base64(p.data)
    BY <1>2 DEF ImagePart, FromSkylPart
  <2>2. CASE p.data = <<>>
    <3>1. Base64(p.data) = p.data
      BY <2>2 DEF Base64
    <3>2. q = p
      BY <1>2, <3>1 DEF ImagePart
    <3> QED BY <2>1, <2>2, <3>2 DEF ToSkylPart, ConvertiblePart, ValidPart
  <2>3. CASE p.data # <<>>
    <3>1. p.url = "" /\ p.media # "" /\ p.data \in Strings
      BY <1>2, <2>3 DEF ImagePart, ValidPart
    <3>2. q.data # <<>> /\ IsBase64(q.data) /\ Tail(q.data) = p.data
      BY <2>1, <2>3, <3>1, Base64Decodes
    <3>3. [q EXCEPT !.data = Tail(@), !.url = ""] = p
      BY <1>2, <3>1, <3>2 DEF ImagePart
    <3> QED BY <2>1, <3>1, <3>2, <3>3 DEF ToSkylPart, ConvertiblePart
  <2> QED BY <2>2, <2>3
<1>3. CASE p \in CallPart
  BY <1>3 DEF CallPart, FromSkylPart, ToSkylPart, ConvertiblePart, ValidPart
<1>4. CASE p \in ResultPart
  BY <1>4 DEF ResultPart, FromSkylPart, ToSkylPart, ConvertiblePart, ValidPart
<1> QED BY <1>1, <1>2, <1>3, <1>4 DEF Part

\* gateway/api.go, fromSkylMessage: a turn of a conversation is rendered so that
\* the caller can send it straight back. Whatever the turn, the gateway then
\* converts it, to the very message that it was.
THEOREM RoundTrip ==
  ASSUME NEW m \in Message, ValidMessage(m), OneSource(m)
  PROVE  /\ Convertible(FromSkylMessage(m))
         /\ ToSkylMessage(FromSkylMessage(m)) = m
<1> DEFINE c == FromSkylMessage(m)
<1>1. /\ c.role = m.role /\ c.text = <<>>
      /\ c.content = [i \in DOMAIN m.parts |-> FromSkylPart(m.parts[i])]
  BY DEF FromSkylMessage
<1>2. m.role \in Roles /\ m.parts \in Seq(Part) /\ DOMAIN c.content = DOMAIN m.parts
  BY <1>1 DEF Message, ValidMessage
<1>3. \A i \in DOMAIN m.parts :
        ConvertiblePart(c.content[i]) /\ ToSkylPart(c.content[i]) = m.parts[i]
  <2>1. SUFFICES ASSUME NEW i \in DOMAIN m.parts
                 PROVE  ConvertiblePart(c.content[i]) /\ ToSkylPart(c.content[i]) = m.parts[i]
    OBVIOUS
  <2>2. m.parts[i] \in Part
    BY <1>2
  <2>3. ValidPart(m.parts[i]) /\ (m.parts[i].type = "image" => m.parts[i].data = <<>> \/ m.parts[i].url = "")
    BY DEF ValidMessage, OneSource
  <2> QED BY <1>1, <2>2, <2>3, PartRoundTrip
<1>4. Convertible(c)
  BY <1>1, <1>2, <1>3 DEF Convertible
<1>5. [i \in DOMAIN c.content |-> ToSkylPart(c.content[i])] = m.parts
  BY <1>2, <1>3
<1>6. ToSkylMessage(c) = [role |-> m.role, parts |-> m.parts]
  BY <1>1, <1>5 DEF ToSkylMessage
<1>7. m = [role |-> m.role, parts |-> m.parts]
  BY DEF Message
<1> QED BY <1>4, <1>6, <1>7

\* Validate has nothing against a text.
LEMMA TextValid ==
  ASSUME NEW p \in TextPart
  PROVE  ValidPart(p)
BY DEF TextPart, ValidPart

\* MirrorsValidate, for one part.
LEMMA PartMirrors ==
  ASSUME NEW p \in Part, ConvertiblePart(p), p.type = "image" => p.data # <<"base64">>
  PROVE  ValidPart(ToSkylPart(p))
<1>1. CASE p \in TextPart
  BY <1>1 DEF TextPart, ToSkylPart, ValidPart
<1>2. CASE p \in ImagePart
  <2>1. CASE p.data = <<>>
    BY <1>2, <2>1 DEF ImagePart, ToSkylPart, ConvertiblePart, ValidPart
  <2>2. CASE p.data # <<>>
    <3> DEFINE q == [p EXCEPT !.data = Tail(@), !.url = ""]
    <3>1. ToSkylPart(p) = q /\ q.type = "image" /\ q.media = p.media /\ q.data = Tail(p.data)
      BY <1>2, <2>2 DEF ImagePart, ToSkylPart
    <3>2. p.media # "" /\ Head(p.data) = "base64" /\ p.data \in Strings
      BY <1>2, <2>2 DEF ImagePart, ConvertiblePart, IsBase64
    <3>3. Tail(p.data) # <<>>
      <4>1. SUFFICES ASSUME Tail(p.data) = <<>> PROVE FALSE
        OBVIOUS
      <4>2. p.data = <<"base64">>
        BY <2>2, <3>2, <4>1, OnlyHead
      <4> QED BY <1>2, <4>2 DEF ImagePart
    <3> QED BY <3>1, <3>2, <3>3 DEF ValidPart
  <2> QED BY <2>1, <2>2
<1>3. CASE p \in CallPart
  BY <1>3 DEF CallPart, ToSkylPart, ConvertiblePart, ValidPart
<1>4. CASE p \in ResultPart
  BY <1>4 DEF ResultPart, ToSkylPart, ConvertiblePart, ValidPart
<1> QED BY <1>1, <1>2, <1>3, <1>4 DEF Part

\* gateway/api.go, toSkylPart: the gateway's checks mirror Request.Validate's. A
\* turn that it converts passes Validate, unless it is empty, or has an image
\* whose base64 stands for no data at all.
THEOREM MirrorsValidate ==
  ASSUME NEW c \in ChatMessage, Convertible(c), SomeData(c),
         c.text # <<>> \/ c.content # <<>>
  PROVE  ValidMessage(ToSkylMessage(c))
<1>1. CASE c.text # <<>>
  <2>1. ToSkylMessage(c) = [role |-> c.role, parts |-> <<[type |-> "text", text |-> c.text]>>]
    BY <1>1 DEF ToSkylMessage
  <2>2. ValidPart([type |-> "text", text |-> c.text])
    <3>1. [type |-> "text", text |-> c.text] \in TextPart
      BY DEF ChatMessage, TextPart
    <3> QED BY <3>1, TextValid
  <2> QED BY <2>1, <2>2 DEF ValidMessage, Convertible
<1>2. CASE c.text = <<>>
  <2> DEFINE parts == [i \in DOMAIN c.content |-> ToSkylPart(c.content[i])]
  <2>1. ToSkylMessage(c) = [role |-> c.role, parts |-> parts]
    BY <1>2 DEF ToSkylMessage
  <2>2. c.content \in Seq(Part) /\ c.content # <<>>
    BY <1>2 DEF ChatMessage
  <2>3. parts # <<>>
    BY <2>2
  <2>4. \A i \in DOMAIN parts : ValidPart(parts[i])
    <3>1. SUFFICES ASSUME NEW i \in DOMAIN c.content PROVE ValidPart(ToSkylPart(c.content[i]))
      OBVIOUS
    <3>2. c.content[i] \in Part /\ ConvertiblePart(c.content[i])
      BY <1>2, <2>2 DEF Convertible
    <3>3. c.content[i].type = "image" => c.content[i].data # <<"base64">>
      BY DEF SomeData
    <3> QED BY <3>2, <3>3, PartMirrors
  <2> QED BY <2>1, <2>3, <2>4 DEF ValidMessage, Convertible
<1> QED BY <1>1, <1>2

-----------------------------------------------------------------------------
(* JSON objects put together from fields.                                  *)

\* A payload tells what the adapter put there, wherever no option replaces it.
LEMMA GetMerge ==
  \A payload, extra, k, d : k \notin DOMAIN extra => Get(Merge(payload, extra), k, d) = Get(payload, k, d)
<1> SUFFICES ASSUME NEW payload, NEW extra, NEW k, NEW d, k \notin DOMAIN extra
             PROVE  Get(extra ++ payload, k, d) = Get(payload, k, d)
  BY DEF Merge
<1>1. k \in DOMAIN (extra ++ payload) <=> k \in DOMAIN payload
  BY Zenon DEF ++
<1>2. k \in DOMAIN payload => (extra ++ payload)[k] = payload[k]
  BY Zenon DEF ++
<1> QED
  BY <1>1, <1>2 DEF Get

\* Of two objects the first is asked first.
LEMMA GetOver ==
  \A f, g, k, d : Get(f ++ g, k, d) = Get(f, k, Get(g, k, d))
<1> SUFFICES ASSUME NEW f, NEW g, NEW k, NEW d
             PROVE  Get(f ++ g, k, d) = Get(f, k, Get(g, k, d))
  OBVIOUS
<1>1. k \in DOMAIN (f ++ g) <=> k \in DOMAIN f \/ k \in DOMAIN g
  <2>1. DOMAIN (f ++ g) = DOMAIN f \cup DOMAIN g
    BY Zenon DEF ++
  <2> QED
    BY <2>1
<1>2. CASE k \in DOMAIN f
  <2>1. (f ++ g)[k] = f[k]
    BY Zenon, <1>2 DEF ++
  <2> QED
    BY <1>1, <1>2, <2>1 DEF Get
<1>3. CASE k \notin DOMAIN f
  <2>1. ASSUME k \in DOMAIN g PROVE (f ++ g)[k] = g[k]
    <3>1. f ++ g = [x \in DOMAIN f \cup DOMAIN g |-> IF x \in DOMAIN f THEN f[x] ELSE g[x]]
      BY Zenon DEF ++
    <3> QED
      BY <1>3, <2>1, <3>1
  <2> QED
    BY <1>1, <1>3, <2>1 DEF Get
<1> QED
  BY <1>2, <1>3

\* A field that no option names and no path leads into says what the adapter put
\* there.
LEMMA GetWritten ==
  ASSUME NEW payload, NEW options, NEW f, f \notin DOMAIN Whole(options), f \notin Led(options)
  PROVE  \A d : Get(WriteInto(payload, options), f, d) = Get(payload, f, d)
<1> DEFINE whole == Merge(payload, Whole(options))
           led == [g \in Led(options) |-> Inside(options, g) ++ Get(whole, g, <<>>)]
<1>1. WriteInto(payload, options) = led ++ whole
  BY Zenon DEF WriteInto
<1>2. \A d : Get(led, f, d) = d
  BY DEF Get
<1>3. \A d : Get(whole, f, d) = Get(payload, f, d)
  BY GetMerge
<1> HIDE DEF whole, led
<1>4. \A d : Get(led ++ whole, f, d) = Get(led, f, Get(whole, f, d))
  BY GetOver
<1> QED
  BY <1>1, <1>2, <1>3, <1>4

\* What no path leads to within a field says what the adapter put there, if no
\* option replaces the field.
LEMMA GetWrittenBeside ==
  ASSUME NEW payload, NEW options, NEW f, NEW n,
         f \notin DOMAIN Whole(options), <<f, n>> \notin Nested(options)
  PROVE  \A d : Get(Get(WriteInto(payload, options), f, <<>>), n, d) = Get(Get(payload, f, <<>>), n, d)
<1> DEFINE whole == Merge(payload, Whole(options))
           led == [g \in Led(options) |-> Inside(options, g) ++ Get(whole, g, <<>>)]
           inside == Inside(options, f)
           rest == Get(whole, f, <<>>)
<1>1. WriteInto(payload, options) = led ++ whole
  BY Zenon DEF WriteInto
<1>2. rest = Get(payload, f, <<>>)
  BY GetMerge
<1>3. CASE f \in Led(options)
  <2>1. Get(led, f, Get(whole, f, <<>>)) = inside ++ rest
    BY <1>3 DEF Get
  <2>2. n \notin DOMAIN inside
    <3>1. DOMAIN inside = {path[2] : path \in {q \in Nested(options) : q[1] = f}}
      BY DEF Inside
    <3>2. \A path \in Nested(options) : path = <<path[1], path[2]>>
      BY DottedAssumption DEF Nested
    <3> QED
      BY <3>1, <3>2
  <2>3. \A d : Get(inside, n, d) = d
    BY <2>2 DEF Get
  <2> HIDE DEF whole, led, inside, rest
  <2>4. Get(led ++ whole, f, <<>>) = Get(led, f, Get(whole, f, <<>>))
    BY GetOver
  <2>5. \A d : Get(inside ++ rest, n, d) = Get(inside, n, Get(rest, n, d))
    BY GetOver
  <2> QED
    BY <1>1, <1>2, <2>1, <2>3, <2>4, <2>5
<1>4. CASE f \notin Led(options)
  <2>1. Get(WriteInto(payload, options), f, <<>>) = Get(payload, f, <<>>)
    BY <1>4, GetWritten
  <2> QED
    BY <2>1
<1> QED
  BY <1>3, <1>4

\* What is at the place of a setting that no option touches. With an OpenAI-
\* compatible host and with Gemini a place is a field.
LEMMA UntouchedField ==
  ASSUME NEW p, p # "anthropic", NEW setting, NEW options, Untouched(p, setting, options),
         NEW f, <<f>> \in Places(p, setting)
  PROVE  f \notin DOMAIN options
<1> SUFFICES ASSUME f \in DOMAIN options
             PROVE  FALSE
  OBVIOUS
<1>1. <<f>> \in Written(p, options)
  BY DEF Written
<1>2. Meet(<<f>>, <<f>>)
  BY DEF Meet
<1> QED
  BY <1>1, <1>2 DEF Untouched

\* With Anthropic a place is a field, or one within a field.
LEMMA UntouchedPlace ==
  ASSUME NEW setting, NEW options, Untouched("anthropic", setting, options), NEW f
  PROVE  /\ <<f>> \in Places("anthropic", setting) => f \notin DOMAIN Whole(options) /\ f \notin Led(options)
         /\ \A n : <<f, n>> \in Places("anthropic", setting) =>
              f \notin DOMAIN Whole(options) /\ <<f, n>> \notin Nested(options)
<1>1. /\ \A k \in DOMAIN Whole(options) : <<k>> \in Written("anthropic", options)
      /\ \A path \in Nested(options) : path \in Written("anthropic", options)
  BY DEF Written
<1>2. \A place \in Places("anthropic", setting), path \in Written("anthropic", options) : ~ Meet(path, place)
  BY DEF Untouched
<1>3. /\ Meet(<<f>>, <<f>>)
      /\ \A n : Meet(<<f>>, <<f, n>>) /\ Meet(<<f, n>>, <<f>>) /\ Meet(<<f, n>>, <<f, n>>)
  BY DEF Meet
<1>4. \A path \in Nested(options) : path = <<path[1], path[2]>>
  BY DottedAssumption DEF Nested
<1>5. ASSUME f \in Led(options)
      PROVE  \E n : <<f, n>> \in Nested(options)
  <2>1. PICK path \in Nested(options) : path[1] = f
    BY <1>5 DEF Led
  <2> QED
    BY <1>4, <2>1
<1> QED
  BY <1>1, <1>2, <1>3, <1>5

\* The i-th of m objects has no field but name[i], and the names differ.
Fields(object, name, m) ==
  /\ \A i \in 1..m : DOMAIN object[i] \subseteq {name[i]}
  /\ \A i, j \in 1..m : name[i] = name[j] => i = j

\* What one of such objects has, the others do not.
LEMMA OthersSilent ==
  ASSUME NEW object, NEW name, NEW m, Fields(object, name, m), NEW j \in 1..m
  PROVE  \A i \in 1..m \ {j} : \A d : Get(object[i], name[j], d) = d
  BY DEF Fields, Get

\* What an object of four, seven or ten fields says in one of them.
LEMMA AmongFour ==
  ASSUME NEW o, NEW name, Fields(o, name, 4), NEW j \in 1..4, NEW d
  PROVE  Get(o[1] ++ o[2] ++ o[3] ++ o[4], name[j], d) = Get(o[j], name[j], d)
<1>1. \A i \in 1..4 \ {j} : \A e : Get(o[i], name[j], e) = e
  BY OthersSilent
<1>2. Get(o[1] ++ o[2] ++ o[3] ++ o[4], name[j], d)
        = Get(o[1], name[j], Get(o[2], name[j], Get(o[3], name[j], Get(o[4], name[j], d))))
  BY GetOver
<1> QED
  BY <1>1, <1>2

\* Of seven objects put together.
LEMMA AmongSeven ==
  ASSUME NEW o, NEW name, Fields(o, name, 7), NEW j \in 1..7, NEW d
  PROVE  Get(o[1] ++ o[2] ++ o[3] ++ o[4] ++ o[5] ++ o[6] ++ o[7], name[j], d) = Get(o[j], name[j], d)
<1>1. \A i \in 1..7 \ {j} : \A e : Get(o[i], name[j], e) = e
  BY OthersSilent
<1>2. Get(o[1] ++ o[2] ++ o[3] ++ o[4] ++ o[5] ++ o[6] ++ o[7], name[j], d)
        = Get(o[1], name[j], Get(o[2], name[j], Get(o[3], name[j], Get(o[4], name[j],
            Get(o[5], name[j], Get(o[6], name[j], Get(o[7], name[j], d)))))))
  BY GetOver
<1> QED
  BY <1>1, <1>2

\* Of ten objects put together.
LEMMA AmongTen ==
  ASSUME NEW o, NEW name, Fields(o, name, 10), NEW j \in 1..10, NEW d
  PROVE  Get(o[1] ++ o[2] ++ o[3] ++ o[4] ++ o[5] ++ o[6] ++ o[7] ++ o[8] ++ o[9] ++ o[10], name[j], d)
           = Get(o[j], name[j], d)
<1>1. \A i \in 1..10 \ {j} : \A e : Get(o[i], name[j], e) = e
  BY OthersSilent
<1>2. Get(o[1] ++ o[2] ++ o[3] ++ o[4] ++ o[5] ++ o[6] ++ o[7] ++ o[8] ++ o[9] ++ o[10], name[j], d)
        = Get(o[1], name[j], Get(o[2], name[j], Get(o[3], name[j], Get(o[4], name[j], Get(o[5], name[j],
            Get(o[6], name[j], Get(o[7], name[j], Get(o[8], name[j], Get(o[9], name[j],
              Get(o[10], name[j], d))))))))))
  BY GetOver
<1> QED
  BY <1>1, <1>2

-----------------------------------------------------------------------------
(* Tools.                                                                  *)

\* A schema that went through JSON is the same one in JSON.
LEMMA DecodedMeansTheSame ==
  ASSUME NEW schema, "required" \in DOMAIN schema => DOMAIN schema["required"] = {"as", "names"}
  PROVE  Encoded(Decoded(schema)) = Encoded(schema)
  BY DEF Encoded, Decoded

\* A tool as skyl has it.
IsTool(t) ==
  /\ DOMAIN t = {"name", "given", "parameters"}
  /\ t.given \in BOOLEAN
  /\ "required" \in DOMAIN t.parameters =>
       /\ DOMAIN t.parameters["required"] = {"as", "names"}
       /\ t.parameters["required"].as \in {"strings", "values"}

SchemaOf(t) == IF t.given THEN Encoded(t.parameters) ELSE <<>>

\* A tool without a schema takes an object without properties.
LEMMA NothingMeansAnObject ==
  \A name : Meaning(name, NoArguments) = Meaning(name, <<>>)
<1>1. [k \in DOMAIN NoArguments \ {"type", "properties", "required"} |-> NoArguments[k]]
        = [k \in DOMAIN <<>> \ {"type", "properties", "required"} |-> <<>>[k]]
  <2>1. DOMAIN NoArguments = {"type", "properties"} /\ DOMAIN <<>> = {}
    BY DEF NoArguments
  <2> QED
    BY <2>1
<1>2. /\ Get(NoArguments, "properties", "{}") = Get(<<>>, "properties", "{}")
      /\ Get(NoArguments, "required", <<>>) = Get(<<>>, "required", <<>>)
  BY DEF NoArguments, Get
<1> QED
  BY <1>1, <1>2 DEF Meaning

\* A tool as oai encodes it means what its schema means.
LEMMA OaiToolMeaning ==
  ASSUME NEW t
  PROVE  /\ OaiTool(t).name = t.name
         /\ Meaning(t.name, OaiTool(t).parameters) = Meaning(t.name, SchemaOf(t))
  BY NothingMeansAnObject DEF OaiTool, SchemaOf

\* A tool as gemini encodes it has its schema or none.
LEMMA GeminiToolMeaning ==
  ASSUME NEW t
  PROVE  /\ GeminiTool(t).name = t.name
         /\ Get(GeminiTool(t), "parameters", <<>>) = SchemaOf(t)
<1> DEFINE a == Field(TRUE, "name", t.name)
           b == Field(t.given, "parameters", Encoded(t.parameters))
<1>1. DOMAIN a = {"name"} /\ a["name"] = t.name
  BY DEF Field
<1>2. Get(b, "parameters", <<>>) = SchemaOf(t)
  BY DEF Field, Get, SchemaOf
<1>3. GeminiTool(t) = a ++ b
  BY DEF GeminiTool
<1> HIDE DEF a, b
<1>4. (a ++ b)["name"] = a["name"]
  BY Zenon, <1>1 DEF ++
<1>5. Get(a ++ b, "parameters", <<>>) = Get(a, "parameters", Get(b, "parameters", <<>>))
  BY GetOver
<1>6. Get(a, "parameters", Get(b, "parameters", <<>>)) = Get(b, "parameters", <<>>)
  BY <1>1 DEF Get
<1> QED
  BY <1>1, <1>2, <1>3, <1>4, <1>5, <1>6

\* Put into the fields of the SDK's struct and the rest, a schema means the same.
LEMMA AnthropicToolMeaning ==
  ASSUME NEW t, IsTool(t)
  PROVE  /\ AnthropicTool(t).name = t.name
         /\ Meaning(t.name, AnthropicTool(t).input_schema) = Meaning(t.name, SchemaOf(t))
<1>1. AnthropicTool(t).name = t.name /\ AnthropicTool(t).input_schema = AnthropicSchema(t)
  BY DEF AnthropicTool
<1>2. CASE ~ t.given
  BY <1>1, <1>2, NothingMeansAnObject DEF AnthropicSchema, SchemaOf
<1>3. CASE t.given
  <2> DEFINE schema == t.parameters
             required == IF "required" \in DOMAIN schema THEN RequiredNames(schema.required) ELSE <<>>
             properties == IF "properties" \in DOMAIN schema THEN schema.properties ELSE "{}"
             e1 == Field(TRUE, "type", "object")
             e2 == Field(TRUE, "properties", properties)
             e3 == Field(required # <<>>, "required", required)
             e4 == ExtraSchemaFields(schema)
             sent == e1 ++ e2 ++ e3 ++ e4
             told == Encoded(schema)
  <2>1. AnthropicSchema(t) = sent /\ SchemaOf(t) = told
    BY <1>3 DEF AnthropicSchema, SchemaOf
  <2>2. required = Get(told, "required", <<>>)
    BY DEF RequiredNames, Encoded, Get, IsTool
  <2>3. properties = Get(told, "properties", "{}")
    BY DEF Encoded, Get
  <2>4. /\ DOMAIN e1 = {"type"} /\ DOMAIN e2 = {"properties"} /\ e2["properties"] = properties
        /\ DOMAIN e3 \subseteq {"required"}
        /\ Get(e3, "required", <<>>) = required
        /\ DOMAIN e4 = DOMAIN schema \ {"properties", "required", "type"}
        /\ \A k \in DOMAIN e4 : e4[k] = schema[k]
    <3> HIDE DEF required, properties
    <3> QED
      BY DEF Field, ExtraSchemaFields, Get
  <2>5. /\ DOMAIN told = DOMAIN schema
        /\ \A k \in DOMAIN schema : k # "required" => told[k] = schema[k]
    BY DEF Encoded
  <2> HIDE DEF e1, e2, e3, e4, required, properties, told, schema
  <2>6. Get(sent, "properties", "{}") = properties /\ Get(sent, "required", <<>>) = required
    <3>1. \A k, d : Get(sent, k, d) = Get(e1, k, Get(e2, k, Get(e3, k, Get(e4, k, d))))
      BY GetOver DEF sent
    <3>2. /\ \A d : Get(e1, "properties", d) = d /\ Get(e1, "required", d) = d
          /\ \A d : Get(e2, "properties", d) = properties /\ Get(e2, "required", d) = d
          /\ Get(e4, "required", <<>>) = <<>>
      BY <2>4 DEF Get
    <3>3. Get(e3, "required", <<>>) = required
      BY <2>4
    <3>4. Get(sent, "properties", "{}") = properties
      <4> DEFINE d == Get(e3, "properties", Get(e4, "properties", "{}"))
      <4>1. Get(sent, "properties", "{}") = Get(e1, "properties", Get(e2, "properties", d))
        BY Zenon, <3>1
      <4> HIDE DEF d
      <4>2. Get(e2, "properties", d) = properties /\ Get(e1, "properties", properties) = properties
        BY <3>2
      <4> QED
        BY <4>1, <4>2
    <3>5. Get(sent, "required", <<>>) = required
      <4>1. Get(sent, "required", <<>>)
              = Get(e1, "required", Get(e2, "required", Get(e3, "required", Get(e4, "required", <<>>))))
        BY Zenon, <3>1
      <4>2. Get(sent, "required", <<>>) = Get(e1, "required", Get(e2, "required", required))
        BY <3>2, <3>3, <4>1
      <4>3. Get(e2, "required", required) = required /\ Get(e1, "required", required) = required
        BY <3>2
      <4> QED
        BY <4>2, <4>3
    <3> QED
      BY <3>4, <3>5
  <2>7. [k \in DOMAIN sent \ {"type", "properties", "required"} |-> sent[k]]
          = [k \in DOMAIN told \ {"type", "properties", "required"} |-> told[k]]
    <3> DEFINE f == e1 ++ e2
               g == f ++ e3
    <3>1. DOMAIN f = {"type", "properties"} /\ DOMAIN g \subseteq {"type", "properties", "required"}
      <4>1. DOMAIN f = DOMAIN e1 \cup DOMAIN e2 /\ DOMAIN g = DOMAIN f \cup DOMAIN e3
        BY Zenon DEF ++
      <4> HIDE DEF f, g
      <4> QED
        BY <2>4, <4>1
    <3>2. /\ DOMAIN sent = DOMAIN g \cup DOMAIN e4
          /\ \A k \in DOMAIN e4 \ DOMAIN g : sent[k] = e4[k]
      <4>1. sent = g ++ e4
        BY DEF sent
      <4> HIDE DEF sent, g
      <4>2. /\ DOMAIN (g ++ e4) = DOMAIN g \cup DOMAIN e4
            /\ \A k : k \in DOMAIN e4 /\ k \notin DOMAIN g => (g ++ e4)[k] = e4[k]
        BY Zenon DEF ++
      <4> QED
        BY <4>1, <4>2
    <3> HIDE DEF f, g
    <3>3. DOMAIN sent \ {"type", "properties", "required"} = DOMAIN told \ {"type", "properties", "required"}
      BY <2>4, <2>5, <3>1, <3>2
    <3>4. ASSUME NEW k \in DOMAIN told \ {"type", "properties", "required"}
          PROVE  sent[k] = told[k]
      <4>1. k \in DOMAIN e4 \ DOMAIN g /\ k \in DOMAIN schema /\ k # "required"
        BY <2>4, <2>5, <3>1
      <4> QED
        BY <2>4, <2>5, <3>2, <4>1
    <3> QED
      BY <3>3, <3>4
  <2> HIDE DEF sent
  <2>8. Meaning(t.name, sent) = Meaning(t.name, told)
    BY <2>2, <2>3, <2>6, <2>7 DEF Meaning
  <2> QED
    BY <1>1, <2>1, <2>8
<1> QED
  BY <1>2, <1>3

-----------------------------------------------------------------------------
(* The payload of each adapter, and what its provider hears in it.         *)

\* The tools a caller has mean the same as he sends them and as oai encodes them.
LEMMA OaiTools ==
  ASSUME NEW s, NEW list, list = [i \in DOMAIN s.tools |-> OaiTool(s.tools[i])]
  PROVE  Tools(list, LAMBDA t : t.parameters)
           = Tools(s.tools, LAMBDA t : IF t.given THEN Encoded(t.parameters) ELSE <<>>)
<1>1. DOMAIN list = DOMAIN s.tools
  OBVIOUS
<1>2. \A i \in DOMAIN s.tools :
        Meaning(list[i].name, list[i].parameters)
          = Meaning(s.tools[i].name, IF s.tools[i].given THEN Encoded(s.tools[i].parameters) ELSE <<>>)
  BY OaiToolMeaning DEF SchemaOf
<1> QED
  BY <1>1, <1>2 DEF Tools


\* What each setting is sent as, where no option replaces it.
LEMMA OaiTells ==
  ASSUME NEW s, NEW w, w = Merge(OaiPayload(s), s.options),
         NEW tools, tools = [i \in DOMAIN s.tools |-> OaiTool(s.tools[i])]
  PROVE  /\ "messages" \notin DOMAIN s.options => Get(w, "messages", "") = s.system
         /\ MaxTokensField \notin DOMAIN s.options =>
              Get(w, MaxTokensField, 0) = IF s.maxTokens > 0 THEN s.maxTokens ELSE 0
         /\ "temperature" \notin DOMAIN s.options => Get(w, "temperature", "nil") = s.temperature
         /\ "top_p" \notin DOMAIN s.options => Get(w, "top_p", "nil") = s.topP
         /\ "stop" \notin DOMAIN s.options => Get(w, "stop", <<>>) = s.stop
         /\ "tools" \notin DOMAIN s.options =>
              Get(w, "tools", <<>>) = IF s.tools # <<>> THEN tools ELSE <<>>
         /\ "tool_choice" \notin DOMAIN s.options =>
              Get(w, "tool_choice", [mode |-> "nil", name |-> ""])
                = [mode |-> IF s.choice.mode = "tool" THEN "function" ELSE s.choice.mode,
                   name |-> IF s.choice.mode = "tool" THEN s.choice.name ELSE ""]
         /\ "reasoning_effort" \notin DOMAIN s.options =>
              Get(w, "reasoning_effort", "") = IF s.thinking.mode = "on" THEN s.thinking.effort ELSE ""
         /\ "response_format" \notin DOMAIN s.options =>
              Get(w, "response_format", [schema |-> ""]).schema
                = IF s.format.given THEN s.format.schema ELSE ""
<1> DEFINE choice == [mode |-> IF s.choice.mode = "tool" THEN "function" ELSE s.choice.mode,
                      name |-> IF s.choice.mode = "tool" THEN s.choice.name ELSE ""]
           format == [name   |-> IF s.format.name = "" THEN "response" ELSE s.format.name,
                      strict |-> TRUE, schema |-> s.format.schema]
           o1 == Field(TRUE, "model", s.model)
           o2 == Field(s.system # "", "messages", s.system)
           o3 == Field(s.maxTokens > 0, MaxTokensField, s.maxTokens)
           o4 == Field(s.temperature # "nil", "temperature", s.temperature)
           o5 == Field(s.topP # "nil", "top_p", s.topP)
           o6 == Field(s.stop # <<>>, "stop", s.stop)
           o7 == Field(s.tools # <<>>, "tools", tools)
           o8 == Field(s.choice.mode # "nil", "tool_choice", choice)
           o9 == Field(s.thinking.mode = "on" /\ s.thinking.effort # "", "reasoning_effort",
                       s.thinking.effort)
           o10 == Field(s.format.given, "response_format", format)
           o == <<o1, o2, o3, o4, o5, o6, o7, o8, o9, o10>>
           name == <<"model", "messages", MaxTokensField, "temperature", "top_p", "stop", "tools",
                     "tool_choice", "reasoning_effort", "response_format">>
<1>1. w = Merge(o[1] ++ o[2] ++ o[3] ++ o[4] ++ o[5] ++ o[6] ++ o[7] ++ o[8] ++ o[9] ++ o[10], s.options)
  BY DEF OaiPayload
<1>2. /\ Get(o2, "messages", "") = s.system
      /\ Get(o3, MaxTokensField, 0) = IF s.maxTokens > 0 THEN s.maxTokens ELSE 0
      /\ Get(o4, "temperature", "nil") = s.temperature
      /\ Get(o5, "top_p", "nil") = s.topP
      /\ Get(o6, "stop", <<>>) = s.stop
  BY DEF Get, Field
<1>3. /\ Get(o7, "tools", <<>>) = IF s.tools # <<>> THEN tools ELSE <<>>
      /\ Get(o9, "reasoning_effort", "") = IF s.thinking.mode = "on" THEN s.thinking.effort ELSE ""
  BY DEF Get, Field
<1>4. Get(o8, "tool_choice", [mode |-> "nil", name |-> ""]) = choice
  BY DEF Get, Field
<1>5. Get(o10, "response_format", [schema |-> ""]).schema = IF s.format.given THEN s.format.schema ELSE ""
  BY DEF Get, Field
<1> HIDE DEF choice, format
<1>6. /\ DOMAIN o1 \subseteq {"model"}            /\ DOMAIN o2 \subseteq {"messages"}
      /\ DOMAIN o3 \subseteq {MaxTokensField}     /\ DOMAIN o4 \subseteq {"temperature"}
      /\ DOMAIN o5 \subseteq {"top_p"}            /\ DOMAIN o6 \subseteq {"stop"}
      /\ DOMAIN o7 \subseteq {"tools"}            /\ DOMAIN o8 \subseteq {"tool_choice"}
      /\ DOMAIN o9 \subseteq {"reasoning_effort"} /\ DOMAIN o10 \subseteq {"response_format"}
  BY DEF Field
<1> HIDE DEF o1, o2, o3, o4, o5, o6, o7, o8, o9, o10
<1>7. Fields(o, name, 10)
  BY <1>6, SettingsAssumption DEF Fields
<1> HIDE DEF o, name
<1>8. \A j \in 1..10 : name[j] \notin DOMAIN s.options => \A d : Get(w, name[j], d) = Get(o[j], name[j], d)
  BY <1>1, <1>7, AmongTen, GetMerge
<1>9. /\ "messages" \notin DOMAIN s.options => \A d : Get(w, "messages", d) = Get(o2, "messages", d)
      /\ MaxTokensField \notin DOMAIN s.options => \A d : Get(w, MaxTokensField, d) = Get(o3, MaxTokensField, d)
      /\ "temperature" \notin DOMAIN s.options => \A d : Get(w, "temperature", d) = Get(o4, "temperature", d)
      /\ "top_p" \notin DOMAIN s.options => \A d : Get(w, "top_p", d) = Get(o5, "top_p", d)
      /\ "stop" \notin DOMAIN s.options => \A d : Get(w, "stop", d) = Get(o6, "stop", d)
      /\ "tools" \notin DOMAIN s.options => \A d : Get(w, "tools", d) = Get(o7, "tools", d)
      /\ "tool_choice" \notin DOMAIN s.options => \A d : Get(w, "tool_choice", d) = Get(o8, "tool_choice", d)
      /\ "reasoning_effort" \notin DOMAIN s.options =>
           \A d : Get(w, "reasoning_effort", d) = Get(o9, "reasoning_effort", d)
      /\ "response_format" \notin DOMAIN s.options =>
           \A d : Get(w, "response_format", d) = Get(o10, "response_format", d)
  BY <1>8 DEF o, name
<1> USE DEF choice
<1> QED
  BY <1>2, <1>3, <1>4, <1>5, <1>9

\* An OpenAI-compatible host hears every setting.
LEMMA OaiHears ==
  ASSUME NEW s, IsSettings(s), ValidSettings(s), NEW w, w = Merge(OaiPayload(s), s.options),
         NEW setting \in DOMAIN Wanted("oai", s), Untouched("oai", setting, s.options)
  PROVE  Heard("oai", w)[setting] = Wanted("oai", s)[setting]
<1> DEFINE tools == [i \in DOMAIN s.tools |-> OaiTool(s.tools[i])]
           h == HeardByOai(w)
           m == Wanted("oai", s)
<1>1. /\ setting = "system" => "messages" \notin DOMAIN s.options
      /\ setting = "limit" => MaxTokensField \notin DOMAIN s.options
      /\ setting = "temperature" => "temperature" \notin DOMAIN s.options
      /\ setting = "topP" => "top_p" \notin DOMAIN s.options
      /\ setting = "stop" => "stop" \notin DOMAIN s.options
      /\ setting = "tools" => "tools" \notin DOMAIN s.options
      /\ setting = "choice" => "tool_choice" \notin DOMAIN s.options
      /\ setting = "thinking" => "reasoning_effort" \notin DOMAIN s.options
      /\ setting = "format" => "response_format" \notin DOMAIN s.options
  <2>1. /\ setting = "system" => <<"messages">> \in Places("oai", setting)
        /\ setting = "limit" => <<MaxTokensField>> \in Places("oai", setting)
        /\ setting = "temperature" => <<"temperature">> \in Places("oai", setting)
        /\ setting = "topP" => <<"top_p">> \in Places("oai", setting)
        /\ setting = "stop" => <<"stop">> \in Places("oai", setting)
        /\ setting = "tools" => <<"tools">> \in Places("oai", setting)
        /\ setting = "choice" => <<"tool_choice">> \in Places("oai", setting)
        /\ setting = "thinking" => <<"reasoning_effort">> \in Places("oai", setting)
        /\ setting = "format" => <<"response_format">> \in Places("oai", setting)
    BY DEF Places, PlacesOf, Get
  <2>2. \A f : <<f>> \in Places("oai", setting) => f \notin DOMAIN s.options
    BY UntouchedField
  <2> QED
    BY <2>1, <2>2
<1>2. setting \in {"system", "limit", "temperature", "topP", "stop", "tools", "choice", "thinking", "format"}
  BY DEF Wanted
<1>3. Heard("oai", w) = h
  BY DEF Heard
<1>4. /\ m["system"] = s.system
      /\ m["limit"] = s.maxTokens
      /\ m["temperature"] = s.temperature
      /\ m["topP"] = s.topP
      /\ m["stop"] = s.stop
      /\ m["choice"] = <<s.choice.mode, IF s.choice.mode = "tool" THEN s.choice.name ELSE "">>
      /\ m["thinking"] = IF s.thinking.mode = "on" /\ s.thinking.effort # ""
                         THEN <<"on", s.thinking.effort>> ELSE <<"nil", "">>
      /\ m["format"] = IF s.format.given THEN s.format.schema ELSE ""
  BY DEF Wanted
<1>5. /\ h["system"] = Get(w, "messages", "")
      /\ h["limit"] = Get(w, MaxTokensField, 0)
      /\ h["temperature"] = Get(w, "temperature", "nil")
      /\ h["topP"] = Get(w, "top_p", "nil")
      /\ h["stop"] = Get(w, "stop", <<>>)
      /\ h["choice"] = LET choice == Get(w, "tool_choice", [mode |-> "nil", name |-> ""])
                       IN  IF choice.mode = "function" THEN <<"tool", choice.name>>
                                                       ELSE <<choice.mode, "">>
      /\ h["thinking"] = LET effort == Get(w, "reasoning_effort", "")
                         IN  IF effort # "" THEN <<"on", effort>> ELSE <<"nil", "">>
      /\ h["format"] = Get(w, "response_format", [schema |-> ""]).schema
  BY DEF HeardByOai
<1>6. CASE setting = "tools"
  <2>1. Get(w, "tools", <<>>) = IF s.tools # <<>> THEN tools ELSE <<>>
    BY <1>1, <1>6, OaiTells
  <2>2. Get(w, "tools", <<>>) = tools
    <3>1. s.tools = <<>> => tools = <<>>
      BY SMT DEF tools
    <3> QED
      BY <2>1, <3>1
  <2>3. h["tools"] = Tools(Get(w, "tools", <<>>), LAMBDA t : t.parameters)
    BY DEF HeardByOai, Tools
  <2>4. m["tools"] = Tools(s.tools, LAMBDA t : IF t.given THEN Encoded(t.parameters) ELSE <<>>)
    BY DEF Wanted, ToldTools, Tools
  <2> QED
    BY <1>3, <1>6, <2>2, <2>3, <2>4, OaiTools
<1> HIDE DEF h, m
<1>7. CASE setting \in {"system", "temperature", "topP", "stop"}
  <2>1. /\ setting = "system" => Get(w, "messages", "") = s.system
        /\ setting = "temperature" => Get(w, "temperature", "nil") = s.temperature
        /\ setting = "topP" => Get(w, "top_p", "nil") = s.topP
        /\ setting = "stop" => Get(w, "stop", <<>>) = s.stop
    BY <1>1, OaiTells
  <2> QED
    BY <1>3, <1>4, <1>5, <1>7, <2>1 DEF m
<1>8. CASE setting = "limit"
  <2>1. Get(w, MaxTokensField, 0) = IF s.maxTokens > 0 THEN s.maxTokens ELSE 0
    BY <1>1, <1>8, OaiTells
  <2>2. s.maxTokens \in Int
    BY Zenon DEF IsSettings
  <2>3. s.maxTokens >= 0
    BY Zenon DEF ValidSettings
  <2>4. Get(w, MaxTokensField, 0) = s.maxTokens
    BY <2>1, <2>2, <2>3
  <2> QED
    BY <1>3, <1>4, <1>5, <1>8, <2>4 DEF m
<1>9. CASE setting = "choice"
  <2> DEFINE sent == Get(w, "tool_choice", [mode |-> "nil", name |-> ""])
  <2>1. sent = [mode |-> IF s.choice.mode = "tool" THEN "function" ELSE s.choice.mode,
                name |-> IF s.choice.mode = "tool" THEN s.choice.name ELSE ""]
    BY <1>1, <1>9, OaiTells
  <2>2. s.choice.mode # "function"
    BY DEF ValidSettings, Modes
  <2>3. h["choice"] = IF sent.mode = "function" THEN <<"tool", sent.name>> ELSE <<sent.mode, "">>
    BY <1>5
  <2> HIDE DEF sent
  <2>4. h["choice"] = <<s.choice.mode, IF s.choice.mode = "tool" THEN s.choice.name ELSE "">>
    BY <2>1, <2>2, <2>3
  <2> QED
    BY <1>3, <1>4, <1>9, <2>4 DEF m
<1>10. CASE setting = "thinking"
  <2>1. Get(w, "reasoning_effort", "") = IF s.thinking.mode = "on" THEN s.thinking.effort ELSE ""
    BY <1>1, <1>10, OaiTells
  <2> QED
    BY <1>3, <1>4, <1>5, <1>10, <2>1 DEF m
<1>11. CASE setting = "format"
  <2>1. Get(w, "response_format", [schema |-> ""]).schema = IF s.format.given THEN s.format.schema ELSE ""
    BY <1>1, <1>11, OaiTells
  <2> QED
    BY <1>3, <1>4, <1>5, <1>11, <2>1 DEF m
<1> QED
  BY <1>2, <1>6, <1>7, <1>8, <1>9, <1>10, <1>11

\* The tools mean the same as anthropic encodes them.
LEMMA AnthropicTools ==
  ASSUME NEW s, IsSettings(s), NEW list, list = [i \in DOMAIN s.tools |-> AnthropicTool(s.tools[i])]
  PROVE  Tools(list, LAMBDA t : t.input_schema)
           = Tools(s.tools, LAMBDA t : IF t.given THEN Encoded(t.parameters) ELSE <<>>)
<1>1. DOMAIN list = DOMAIN s.tools
  OBVIOUS
<1>2. \A i \in DOMAIN s.tools : IsTool(s.tools[i])
  BY Zenon DEF IsSettings, IsTool
<1>3. \A i \in DOMAIN s.tools :
        Meaning(list[i].name, list[i].input_schema)
          = Meaning(s.tools[i].name, IF s.tools[i].given THEN Encoded(s.tools[i].parameters) ELSE <<>>)
  BY <1>2, AnthropicToolMeaning DEF SchemaOf
<1> QED
  BY <1>1, <1>3 DEF Tools

\* One object has the effort and the format.
LEMMA OutputConfigTells ==
  ASSUME NEW s
  PROVE  /\ Get(OutputConfig(s), "effort", "") = IF s.thinking.mode = "on" THEN s.thinking.effort ELSE ""
         /\ Get(OutputConfig(s), "format", "") = IF s.format.given THEN s.format.schema ELSE ""
<1> DEFINE effort == Field(s.thinking.mode = "on" /\ s.thinking.effort # "", "effort", s.thinking.effort)
           format == Field(s.format.given, "format", s.format.schema)
<1>1. /\ Get(effort, "effort", "") = IF s.thinking.mode = "on" THEN s.thinking.effort ELSE ""
      /\ Get(format, "format", "") = IF s.format.given THEN s.format.schema ELSE ""
  BY DEF Field, Get
<1>2. Get(format, "effort", "") = "" /\ \A d : Get(effort, "format", d) = d
  BY DEF Field, Get
<1>3. OutputConfig(s) = effort ++ format
  BY DEF OutputConfig
<1> HIDE DEF effort, format
<1>4. \A k, d : Get(OutputConfig(s), k, d) = Get(effort, k, Get(format, k, d))
  BY <1>3, GetOver
<1>5. /\ Get(OutputConfig(s), "effort", "") = Get(effort, "effort", "")
      /\ Get(OutputConfig(s), "format", "") = Get(format, "format", "")
  <2>1. Get(OutputConfig(s), "effort", "") = Get(effort, "effort", Get(format, "effort", ""))
    BY <1>4
  <2>2. Get(OutputConfig(s), "format", "") = Get(effort, "format", Get(format, "format", ""))
    BY <1>4
  <2> QED
    BY <1>2, <2>1, <2>2
<1> QED
  BY <1>1, <1>5

\* No option writes a field, or at a place within one.
Free(options, f) == f \notin DOMAIN Whole(options) /\ f \notin Led(options)

FreeAt(options, f, n) == f \notin DOMAIN Whole(options) /\ <<f, n>> \notin Nested(options)

\* What each setting is sent as, where no option writes.
LEMMA AnthropicTells ==
  ASSUME NEW s, NEW w, w = WriteInto(AnthropicPayload(s), s.options),
         NEW tools, tools = [i \in DOMAIN s.tools |-> AnthropicTool(s.tools[i])]
  PROVE  /\ Free(s.options, "max_tokens") =>
              Get(w, "max_tokens", 0) = IF s.maxTokens <= 0 THEN DefaultMaxTokens ELSE s.maxTokens
         /\ Free(s.options, "system") => Get(w, "system", "") = s.system
         /\ Free(s.options, "temperature") => Get(w, "temperature", "nil") = s.temperature
         /\ Free(s.options, "top_p") => Get(w, "top_p", "nil") = s.topP
         /\ Free(s.options, "stop_sequences") => Get(w, "stop_sequences", <<>>) = s.stop
         /\ Free(s.options, "tools") => Get(w, "tools", <<>>) = IF s.tools # <<>> THEN tools ELSE <<>>
         /\ FreeAt(s.options, "tool_choice", "type") =>
              Get(Get(w, "tool_choice", <<>>), "type", "nil")
                = IF s.choice.mode # "nil" THEN AnthropicChoice(s.choice).type ELSE "nil"
         /\ FreeAt(s.options, "tool_choice", "name") =>
              Get(Get(w, "tool_choice", <<>>), "name", "")
                = IF s.choice.mode # "nil" THEN AnthropicChoice(s.choice).name ELSE ""
         /\ FreeAt(s.options, "thinking", "type") =>
              Get(Get(w, "thinking", <<>>), "type", "nil")
                = IF s.thinking.mode = "nil" THEN "nil"
                  ELSE IF s.thinking.mode = "on" THEN "adaptive" ELSE "disabled"
         /\ FreeAt(s.options, "output_config", "effort") =>
              Get(Get(w, "output_config", <<>>), "effort", "")
                = IF s.thinking.mode = "on" THEN s.thinking.effort ELSE ""
         /\ FreeAt(s.options, "output_config", "format") =>
              Get(Get(w, "output_config", <<>>), "format", "")
                = IF s.format.given THEN s.format.schema ELSE ""
<1> DEFINE limit == IF s.maxTokens <= 0 THEN DefaultMaxTokens ELSE s.maxTokens
           thought == IF s.thinking.mode = "on" THEN "adaptive" ELSE "disabled"
           chosen == AnthropicChoice(s.choice)
           output == OutputConfig(s)
           payload == AnthropicPayload(s)
           o1 == Field(TRUE, "model", s.model)
           o2 == Field(TRUE, "max_tokens", limit)
           o3 == Field(s.system # "", "system", s.system)
           o4 == Field(s.temperature # "nil", "temperature", s.temperature)
           o5 == Field(s.topP # "nil", "top_p", s.topP)
           o6 == Field(s.stop # <<>>, "stop_sequences", s.stop)
           o7 == Field(s.tools # <<>>, "tools", tools)
           o8 == Field(s.choice.mode # "nil", "tool_choice", chosen)
           o9 == Field(s.thinking.mode # "nil", "thinking", [type |-> thought])
           o10 == Field(DOMAIN output # {}, "output_config", output)
           o == <<o1, o2, o3, o4, o5, o6, o7, o8, o9, o10>>
           name == <<"model", "max_tokens", "system", "temperature", "top_p", "stop_sequences", "tools",
                     "tool_choice", "thinking", "output_config">>
<1>1. payload = o[1] ++ o[2] ++ o[3] ++ o[4] ++ o[5] ++ o[6] ++ o[7] ++ o[8] ++ o[9] ++ o[10]
  BY DEF AnthropicPayload
<1> HIDE DEF output, payload
<1>2. /\ Get(o3, "system", "") = s.system
      /\ Get(o4, "temperature", "nil") = s.temperature
      /\ Get(o5, "top_p", "nil") = s.topP
      /\ Get(o6, "stop_sequences", <<>>) = s.stop
  BY DEF Get, Field
<1>3. /\ Get(o7, "tools", <<>>) = IF s.tools # <<>> THEN tools ELSE <<>>
      /\ Get(Get(o8, "tool_choice", <<>>), "type", "nil") = IF s.choice.mode # "nil" THEN chosen.type ELSE "nil"
      /\ Get(Get(o8, "tool_choice", <<>>), "name", "") = IF s.choice.mode # "nil" THEN chosen.name ELSE ""
      /\ Get(Get(o9, "thinking", <<>>), "type", "nil") = IF s.thinking.mode = "nil" THEN "nil" ELSE thought
  <2>1. Get(o7, "tools", <<>>) = IF s.tools # <<>> THEN tools ELSE <<>>
    BY DEF Get, Field
  <2>2. DOMAIN chosen = {"type", "name"}
    BY DEF AnthropicChoice
  <2>3. Get(o8, "tool_choice", <<>>) = IF s.choice.mode # "nil" THEN chosen ELSE <<>>
    BY DEF Get, Field
  <2>4. Get(o9, "thinking", <<>>) = IF s.thinking.mode # "nil" THEN [type |-> thought] ELSE <<>>
    BY DEF Get, Field
  <2>5. \A k, d : Get(<<>>, k, d) = d
    BY DEF Get
  <2> HIDE DEF chosen, thought, o7, o8, o9
  <2>6. Get([type |-> thought], "type", "nil") = thought
    BY DEF Get
  <2>7. Get(chosen, "type", "nil") = chosen.type /\ Get(chosen, "name", "") = chosen.name
    BY <2>2 DEF Get
  <2> QED
    BY <2>1, <2>3, <2>4, <2>5, <2>6, <2>7
<1> HIDE DEF limit, thought, chosen
<1>4. Get(o2, "max_tokens", 0) = limit
  BY DEF Get, Field
<1>5. /\ Get(Get(o10, "output_config", <<>>), "effort", "") = Get(output, "effort", "")
      /\ Get(Get(o10, "output_config", <<>>), "format", "") = Get(output, "format", "")
  <2>1. Get(o10, "output_config", <<>>) = IF DOMAIN output # {} THEN output ELSE <<>>
    BY DEF Get, Field
  <2>2. DOMAIN output = {} => \A k : Get(output, k, "") = "" /\ Get(<<>>, k, "") = ""
    BY DEF Get
  <2> QED
    BY <2>1, <2>2
<1>6. /\ DOMAIN o1 \subseteq {"model"}            /\ DOMAIN o2 \subseteq {"max_tokens"}
      /\ DOMAIN o3 \subseteq {"system"}           /\ DOMAIN o4 \subseteq {"temperature"}
      /\ DOMAIN o5 \subseteq {"top_p"}            /\ DOMAIN o6 \subseteq {"stop_sequences"}
      /\ DOMAIN o7 \subseteq {"tools"}            /\ DOMAIN o8 \subseteq {"tool_choice"}
      /\ DOMAIN o9 \subseteq {"thinking"}         /\ DOMAIN o10 \subseteq {"output_config"}
  BY DEF Field
<1> HIDE DEF o1, o2, o3, o4, o5, o6, o7, o8, o9, o10
<1>7. Fields(o, name, 10)
  BY <1>6 DEF Fields
<1> HIDE DEF o, name
<1>8. \A j \in 1..10 : \A d : Get(payload, name[j], d) = Get(o[j], name[j], d)
  BY <1>1, <1>7, AmongTen
<1>9. w = WriteInto(payload, s.options)
  BY DEF payload
<1>10. \A j \in 1..10 : Free(s.options, name[j]) => \A d : Get(w, name[j], d) = Get(o[j], name[j], d)
  BY <1>8, <1>9, GetWritten DEF Free
<1>11. \A j \in 1..10 : \A n : FreeAt(s.options, name[j], n) =>
         \A d : Get(Get(w, name[j], <<>>), n, d) = Get(Get(o[j], name[j], <<>>), n, d)
  BY <1>8, <1>9, GetWrittenBeside DEF FreeAt
<1>12. /\ Free(s.options, "max_tokens") => \A d : Get(w, "max_tokens", d) = Get(o2, "max_tokens", d)
       /\ Free(s.options, "system") => \A d : Get(w, "system", d) = Get(o3, "system", d)
       /\ Free(s.options, "temperature") => \A d : Get(w, "temperature", d) = Get(o4, "temperature", d)
       /\ Free(s.options, "top_p") => \A d : Get(w, "top_p", d) = Get(o5, "top_p", d)
       /\ Free(s.options, "stop_sequences") =>
            \A d : Get(w, "stop_sequences", d) = Get(o6, "stop_sequences", d)
       /\ Free(s.options, "tools") => \A d : Get(w, "tools", d) = Get(o7, "tools", d)
  BY <1>10 DEF o, name
<1>13. /\ \A n : FreeAt(s.options, "tool_choice", n) =>
            \A d : Get(Get(w, "tool_choice", <<>>), n, d) = Get(Get(o8, "tool_choice", <<>>), n, d)
       /\ \A n : FreeAt(s.options, "thinking", n) =>
            \A d : Get(Get(w, "thinking", <<>>), n, d) = Get(Get(o9, "thinking", <<>>), n, d)
       /\ \A n : FreeAt(s.options, "output_config", n) =>
            \A d : Get(Get(w, "output_config", <<>>), n, d) = Get(Get(o10, "output_config", <<>>), n, d)
  BY <1>11 DEF o, name
<1>14. /\ Free(s.options, "max_tokens") => Get(w, "max_tokens", 0) = limit
       /\ Free(s.options, "system") => Get(w, "system", "") = s.system
       /\ Free(s.options, "temperature") => Get(w, "temperature", "nil") = s.temperature
       /\ Free(s.options, "top_p") => Get(w, "top_p", "nil") = s.topP
       /\ Free(s.options, "stop_sequences") => Get(w, "stop_sequences", <<>>) = s.stop
       /\ Free(s.options, "tools") => Get(w, "tools", <<>>) = IF s.tools # <<>> THEN tools ELSE <<>>
  BY <1>2, <1>3, <1>4, <1>12
<1>15. /\ FreeAt(s.options, "tool_choice", "type") =>
            Get(Get(w, "tool_choice", <<>>), "type", "nil") = IF s.choice.mode # "nil" THEN chosen.type ELSE "nil"
       /\ FreeAt(s.options, "tool_choice", "name") =>
            Get(Get(w, "tool_choice", <<>>), "name", "") = IF s.choice.mode # "nil" THEN chosen.name ELSE ""
       /\ FreeAt(s.options, "thinking", "type") =>
            Get(Get(w, "thinking", <<>>), "type", "nil") = IF s.thinking.mode = "nil" THEN "nil" ELSE thought
  <2>1. FreeAt(s.options, "tool_choice", "type") =>
          Get(Get(w, "tool_choice", <<>>), "type", "nil") = Get(Get(o8, "tool_choice", <<>>), "type", "nil")
    BY <1>13, Zenon
  <2>2. FreeAt(s.options, "tool_choice", "name") =>
          Get(Get(w, "tool_choice", <<>>), "name", "") = Get(Get(o8, "tool_choice", <<>>), "name", "")
    BY <1>13, Zenon
  <2>3. FreeAt(s.options, "thinking", "type") =>
          Get(Get(w, "thinking", <<>>), "type", "nil") = Get(Get(o9, "thinking", <<>>), "type", "nil")
    BY <1>13, Zenon
  <2>4. FreeAt(s.options, "tool_choice", "type") =>
          Get(Get(w, "tool_choice", <<>>), "type", "nil") = IF s.choice.mode # "nil" THEN chosen.type ELSE "nil"
    BY <1>3, <2>1
  <2>5. FreeAt(s.options, "tool_choice", "name") =>
          Get(Get(w, "tool_choice", <<>>), "name", "") = IF s.choice.mode # "nil" THEN chosen.name ELSE ""
    BY <1>3, <2>2
  <2>6. FreeAt(s.options, "thinking", "type") =>
          Get(Get(w, "thinking", <<>>), "type", "nil") = IF s.thinking.mode = "nil" THEN "nil" ELSE thought
    BY <1>3, <2>3
  <2> QED
    BY <2>4, <2>5, <2>6, Zenon
<1>16. /\ FreeAt(s.options, "output_config", "effort") =>
            Get(Get(w, "output_config", <<>>), "effort", "")
              = IF s.thinking.mode = "on" THEN s.thinking.effort ELSE ""
       /\ FreeAt(s.options, "output_config", "format") =>
            Get(Get(w, "output_config", <<>>), "format", "") = IF s.format.given THEN s.format.schema ELSE ""
  <2>1. FreeAt(s.options, "output_config", "effort") =>
          Get(Get(w, "output_config", <<>>), "effort", "") = Get(Get(o10, "output_config", <<>>), "effort", "")
    BY <1>13, Zenon
  <2>2. FreeAt(s.options, "output_config", "format") =>
          Get(Get(w, "output_config", <<>>), "format", "") = Get(Get(o10, "output_config", <<>>), "format", "")
    BY <1>13, Zenon
  <2>3. /\ Get(output, "effort", "") = IF s.thinking.mode = "on" THEN s.thinking.effort ELSE ""
        /\ Get(output, "format", "") = IF s.format.given THEN s.format.schema ELSE ""
    BY OutputConfigTells DEF output
  <2> QED
    BY <1>5, <2>1, <2>2, <2>3
<1> QED
  BY <1>14, <1>15, <1>16 DEF limit, thought, chosen

\* Anthropic hears every setting.
LEMMA AnthropicHears ==
  ASSUME NEW s, IsSettings(s), ValidSettings(s), NEW w, w = WriteInto(AnthropicPayload(s), s.options),
         NEW setting \in DOMAIN Wanted("anthropic", s), Untouched("anthropic", setting, s.options)
  PROVE  Heard("anthropic", w)[setting] = Wanted("anthropic", s)[setting]
<1> DEFINE tools == [i \in DOMAIN s.tools |-> AnthropicTool(s.tools[i])]
           h == HeardByAnthropic(w)
           m == Wanted("anthropic", s)
           mode == Get(Get(w, "tool_choice", <<>>), "type", "nil")
           kind == Get(Get(w, "thinking", <<>>), "type", "nil")
<1>1. /\ setting = "system" => Free(s.options, "system")
      /\ setting = "limit" => Free(s.options, "max_tokens")
      /\ setting = "temperature" => Free(s.options, "temperature")
      /\ setting = "topP" => Free(s.options, "top_p")
      /\ setting = "stop" => Free(s.options, "stop_sequences")
      /\ setting = "tools" => Free(s.options, "tools")
      /\ setting = "choice" => FreeAt(s.options, "tool_choice", "type") /\ FreeAt(s.options, "tool_choice", "name")
      /\ setting = "thinking" =>
           FreeAt(s.options, "thinking", "type") /\ FreeAt(s.options, "output_config", "effort")
      /\ setting = "format" => FreeAt(s.options, "output_config", "format")
  <2> DEFINE place == Places("anthropic", setting)
  <2>1. /\ setting = "system" => <<"system">> \in place
        /\ setting = "limit" => <<"max_tokens">> \in place
        /\ setting = "temperature" => <<"temperature">> \in place
        /\ setting = "topP" => <<"top_p">> \in place
        /\ setting = "stop" => <<"stop_sequences">> \in place
        /\ setting = "tools" => <<"tools">> \in place
        /\ setting = "choice" => <<"tool_choice", "type">> \in place /\ <<"tool_choice", "name">> \in place
        /\ setting = "thinking" => <<"thinking", "type">> \in place /\ <<"output_config", "effort">> \in place
        /\ setting = "format" => <<"output_config", "format">> \in place
    BY DEF Places, PlacesOf, Get
  <2>2. /\ \A f : <<f>> \in place => Free(s.options, f)
        /\ \A f, n : <<f, n>> \in place => FreeAt(s.options, f, n)
    BY UntouchedPlace DEF Free, FreeAt
  <2> HIDE DEF place
  <2> QED
    BY <2>1, <2>2
<1>2. setting \in {"system", "limit", "temperature", "topP", "stop", "tools", "choice", "thinking", "format"}
  BY DEF Wanted
<1>3. Heard("anthropic", w) = h
  BY DEF Heard
<1>4. /\ m["system"] = s.system
      /\ m["limit"] = IF s.maxTokens = 0 THEN DefaultMaxTokens ELSE s.maxTokens
      /\ m["temperature"] = s.temperature
      /\ m["topP"] = s.topP
      /\ m["stop"] = s.stop
      /\ m["choice"] = <<s.choice.mode, IF s.choice.mode = "tool" THEN s.choice.name ELSE "">>
      /\ m["thinking"] = IF s.thinking.mode = "on" THEN <<"on", s.thinking.effort>> ELSE <<s.thinking.mode, "">>
      /\ m["format"] = IF s.format.given THEN s.format.schema ELSE ""
  BY DEF Wanted
<1>5. /\ h["system"] = Get(w, "system", "")
      /\ h["limit"] = Get(w, "max_tokens", 0)
      /\ h["temperature"] = Get(w, "temperature", "nil")
      /\ h["topP"] = Get(w, "top_p", "nil")
      /\ h["stop"] = Get(w, "stop_sequences", <<>>)
      /\ h["choice"] = IF mode = "any" THEN <<"required", "">>
                       ELSE <<mode, Get(Get(w, "tool_choice", <<>>), "name", "")>>
      /\ h["thinking"] = <<CASE kind = "adaptive" -> "on"
                             [] kind = "disabled" -> "off"
                             [] OTHER -> "nil", Get(Get(w, "output_config", <<>>), "effort", "")>>
      /\ h["format"] = Get(Get(w, "output_config", <<>>), "format", "")
  BY DEF HeardByAnthropic
<1>6. CASE setting = "tools"
  <2>1. Get(w, "tools", <<>>) = IF s.tools # <<>> THEN tools ELSE <<>>
    BY <1>1, <1>6, AnthropicTells
  <2>2. Get(w, "tools", <<>>) = tools
    <3>1. s.tools = <<>> => tools = <<>>
      BY SMT DEF tools
    <3> QED
      BY <2>1, <3>1
  <2>3. h["tools"] = Tools(Get(w, "tools", <<>>), LAMBDA t : t.input_schema)
    BY DEF HeardByAnthropic, Tools
  <2>4. m["tools"] = Tools(s.tools, LAMBDA t : IF t.given THEN Encoded(t.parameters) ELSE <<>>)
    BY DEF Wanted, ToldTools, Tools
  <2> QED
    BY <1>3, <1>6, <2>2, <2>3, <2>4, AnthropicTools
<1> HIDE DEF h, m
<1>7. CASE setting \in {"system", "temperature", "topP", "stop"}
  <2>1. /\ setting = "system" => Get(w, "system", "") = s.system
        /\ setting = "temperature" => Get(w, "temperature", "nil") = s.temperature
        /\ setting = "topP" => Get(w, "top_p", "nil") = s.topP
        /\ setting = "stop" => Get(w, "stop_sequences", <<>>) = s.stop
    BY <1>1, AnthropicTells
  <2> QED
    BY <1>3, <1>4, <1>5, <1>7, <2>1 DEF m
<1>8. CASE setting = "limit"
  <2>1. Get(w, "max_tokens", 0) = IF s.maxTokens <= 0 THEN DefaultMaxTokens ELSE s.maxTokens
    BY <1>1, <1>8, AnthropicTells
  <2>2. s.maxTokens \in Int
    BY Zenon DEF IsSettings
  <2>3. s.maxTokens >= 0
    BY Zenon DEF ValidSettings
  <2>4. s.maxTokens <= 0 <=> s.maxTokens = 0
    BY <2>2, <2>3
  <2> QED
    BY <1>3, <1>4, <1>5, <1>8, <2>1, <2>4 DEF m
<1>9. CASE setting = "choice"
  <2> DEFINE named == Get(Get(w, "tool_choice", <<>>), "name", "")
  <2>1. /\ mode = IF s.choice.mode # "nil" THEN AnthropicChoice(s.choice).type ELSE "nil"
        /\ named = IF s.choice.mode # "nil" THEN AnthropicChoice(s.choice).name ELSE ""
    BY <1>1, <1>9, AnthropicTells
  <2>2. s.choice.mode # "any"
    BY DEF ValidSettings, Modes
  <2>3. h["choice"] = IF mode = "any" THEN <<"required", "">> ELSE <<mode, named>>
    BY <1>5
  <2> HIDE DEF named, mode
  <2>4. h["choice"] = <<s.choice.mode, IF s.choice.mode = "tool" THEN s.choice.name ELSE "">>
    BY <2>1, <2>2, <2>3 DEF AnthropicChoice
  <2> QED
    BY <1>3, <1>4, <1>9, <2>4 DEF m
<1>10. CASE setting = "thinking"
  <2>1. /\ kind = IF s.thinking.mode = "nil" THEN "nil"
                  ELSE IF s.thinking.mode = "on" THEN "adaptive" ELSE "disabled"
        /\ Get(Get(w, "output_config", <<>>), "effort", "")
             = IF s.thinking.mode = "on" THEN s.thinking.effort ELSE ""
    BY <1>1, <1>10, AnthropicTells
  <2>2. s.thinking.mode \in {"nil", "off", "on"}
    BY Zenon DEF IsSettings
  <2> HIDE DEF kind
  <2>3. h["thinking"] = IF s.thinking.mode = "on" THEN <<"on", s.thinking.effort>> ELSE <<s.thinking.mode, "">>
    BY <1>5, <2>1, <2>2
  <2> QED
    BY <1>3, <1>4, <1>10, <2>3 DEF m
<1>11. CASE setting = "format"
  <2>1. Get(Get(w, "output_config", <<>>), "format", "") = IF s.format.given THEN s.format.schema ELSE ""
    BY <1>1, <1>11, AnthropicTells
  <2> QED
    BY <1>3, <1>4, <1>5, <1>11, <2>1 DEF m
<1> QED
  BY <1>2, <1>6, <1>7, <1>8, <1>9, <1>10, <1>11

\* The tools mean the same as gemini encodes them.
LEMMA GeminiTools ==
  ASSUME NEW s, NEW list, list = [i \in DOMAIN s.tools |-> GeminiTool(s.tools[i])]
  PROVE  Tools(list, LAMBDA t : Get(t, "parameters", <<>>))
           = Tools(s.tools, LAMBDA t : IF t.given THEN Encoded(t.parameters) ELSE <<>>)
<1>1. DOMAIN list = DOMAIN s.tools
  OBVIOUS
<1>2. \A i \in DOMAIN s.tools :
        /\ list[i].name = s.tools[i].name
        /\ Get(list[i], "parameters", <<>>)
             = IF s.tools[i].given THEN Encoded(s.tools[i].parameters) ELSE <<>>
  BY GeminiToolMeaning DEF SchemaOf
<1> QED
  BY <1>1, <1>2 DEF Tools

\* A budget is as deep as the effort it was made of.
LEMMA BudgetDepth ==
  ASSUME NEW effort
  PROVE  DepthOf(ThinkingBudget(effort)) = IF effort \in {"low", "medium", "high", "max"} THEN effort ELSE ""
<1> DEFINE budget == ThinkingBudget(effort)
<1>1. /\ effort = "low" => budget = 1024
      /\ effort = "medium" => budget = 8192
      /\ effort = "high" => budget = 16384
      /\ effort = "max" => budget = 24576
      /\ effort \notin {"low", "medium", "high", "max"} => budget = -1
  BY DEF ThinkingBudget
<1> HIDE DEF budget
<1>2. /\ effort = "low" => DepthOf(budget) = "low"
      /\ effort = "medium" => DepthOf(budget) = "medium"
      /\ effort = "high" => DepthOf(budget) = "high"
      /\ effort = "max" => DepthOf(budget) = "max"
      /\ effort \notin {"low", "medium", "high", "max"} => DepthOf(budget) = ""
  BY <1>1 DEF DepthOf
<1>3. DepthOf(budget) = IF effort \in {"low", "medium", "high", "max"} THEN effort ELSE ""
  BY <1>2
<1> QED
  BY <1>3 DEF budget

\* What each setting in generationConfig is sent as.
LEMMA GenerationConfigTells ==
  ASSUME NEW s, NEW config, config = GenerationConfig(s)
  PROVE  /\ Get(config, "maxOutputTokens", 0) = IF s.maxTokens > 0 THEN s.maxTokens ELSE 0
         /\ Get(config, "temperature", "nil") = s.temperature
         /\ Get(config, "topP", "nil") = s.topP
         /\ Get(config, "stopSequences", <<>>) = s.stop
         /\ Get(config, "thinkingConfig", -2)
              = IF s.thinking.mode = "nil" THEN -2
                ELSE IF s.thinking.mode = "on" THEN ThinkingBudget(s.thinking.effort) ELSE 0
         /\ Get(config, "responseMimeType", "") = IF s.format.given THEN "application/json" ELSE ""
         /\ Get(config, "responseSchema", "") = IF s.format.given THEN s.format.schema ELSE ""
<1> DEFINE budget == IF s.thinking.mode = "on" THEN ThinkingBudget(s.thinking.effort) ELSE 0
           o1 == Field(s.maxTokens > 0, "maxOutputTokens", s.maxTokens)
           o2 == Field(s.temperature # "nil", "temperature", s.temperature)
           o3 == Field(s.topP # "nil", "topP", s.topP)
           o4 == Field(s.stop # <<>>, "stopSequences", s.stop)
           o5 == Field(s.thinking.mode # "nil", "thinkingConfig", budget)
           o6 == Field(s.format.given, "responseMimeType", "application/json")
           o7 == Field(s.format.given, "responseSchema", s.format.schema)
           o == <<o1, o2, o3, o4, o5, o6, o7>>
           name == <<"maxOutputTokens", "temperature", "topP", "stopSequences", "thinkingConfig",
                     "responseMimeType", "responseSchema">>
<1>1. config = o[1] ++ o[2] ++ o[3] ++ o[4] ++ o[5] ++ o[6] ++ o[7]
  BY DEF GenerationConfig
<1> HIDE DEF budget
<1>2. /\ Get(o1, "maxOutputTokens", 0) = IF s.maxTokens > 0 THEN s.maxTokens ELSE 0
      /\ Get(o2, "temperature", "nil") = s.temperature
      /\ Get(o3, "topP", "nil") = s.topP
      /\ Get(o4, "stopSequences", <<>>) = s.stop
  BY DEF Get, Field
<1>3. /\ Get(o5, "thinkingConfig", -2) = IF s.thinking.mode = "nil" THEN -2 ELSE budget
      /\ Get(o6, "responseMimeType", "") = IF s.format.given THEN "application/json" ELSE ""
      /\ Get(o7, "responseSchema", "") = IF s.format.given THEN s.format.schema ELSE ""
  BY DEF Get, Field
<1>4. /\ DOMAIN o1 \subseteq {"maxOutputTokens"}  /\ DOMAIN o2 \subseteq {"temperature"}
      /\ DOMAIN o3 \subseteq {"topP"}             /\ DOMAIN o4 \subseteq {"stopSequences"}
      /\ DOMAIN o5 \subseteq {"thinkingConfig"}   /\ DOMAIN o6 \subseteq {"responseMimeType"}
      /\ DOMAIN o7 \subseteq {"responseSchema"}
  BY DEF Field
<1> HIDE DEF o1, o2, o3, o4, o5, o6, o7
<1>5. Fields(o, name, 7)
  BY <1>4 DEF Fields
<1> HIDE DEF o, name
<1>6. \A j \in 1..7 : \A d : Get(config, name[j], d) = Get(o[j], name[j], d)
  BY <1>1, <1>5, AmongSeven
<1>7. \A d : /\ Get(config, "maxOutputTokens", d) = Get(o1, "maxOutputTokens", d)
             /\ Get(config, "temperature", d) = Get(o2, "temperature", d)
             /\ Get(config, "topP", d) = Get(o3, "topP", d)
             /\ Get(config, "stopSequences", d) = Get(o4, "stopSequences", d)
             /\ Get(config, "thinkingConfig", d) = Get(o5, "thinkingConfig", d)
             /\ Get(config, "responseMimeType", d) = Get(o6, "responseMimeType", d)
             /\ Get(config, "responseSchema", d) = Get(o7, "responseSchema", d)
  BY <1>6 DEF o, name
<1> QED
  BY <1>2, <1>3, <1>7 DEF budget

\* What the others are sent as, where no option replaces them.
LEMMA GeminiTells ==
  ASSUME NEW s, NEW w, w = Merge(GeminiPayload(s), s.options),
         NEW tools, tools = [i \in DOMAIN s.tools |-> GeminiTool(s.tools[i])]
  PROVE  /\ "systemInstruction" \notin DOMAIN s.options => Get(w, "systemInstruction", "") = s.system
         /\ "generationConfig" \notin DOMAIN s.options =>
              Get(w, "generationConfig", <<>>)
                = IF DOMAIN GenerationConfig(s) # {} THEN GenerationConfig(s) ELSE <<>>
         /\ "tools" \notin DOMAIN s.options =>
              Get(w, "tools", <<>>) = IF s.tools # <<>> THEN tools ELSE <<>>
         /\ "toolConfig" \notin DOMAIN s.options =>
              Get(w, "toolConfig", [mode |-> "nil", only |-> ""])
                = IF s.choice.mode # "nil" THEN GeminiChoice(s.choice) ELSE [mode |-> "nil", only |-> ""]
<1> DEFINE config == GenerationConfig(s)
           o1 == Field(s.system # "", "systemInstruction", s.system)
           o2 == Field(DOMAIN config # {}, "generationConfig", config)
           o3 == Field(s.tools # <<>>, "tools", tools)
           o4 == Field(s.choice.mode # "nil", "toolConfig", GeminiChoice(s.choice))
           o == <<o1, o2, o3, o4>>
           name == <<"systemInstruction", "generationConfig", "tools", "toolConfig">>
<1>1. w = Merge(o[1] ++ o[2] ++ o[3] ++ o[4], s.options)
  BY DEF GeminiPayload
<1> HIDE DEF config
<1>2. /\ Get(o1, "systemInstruction", "") = s.system
      /\ Get(o3, "tools", <<>>) = IF s.tools # <<>> THEN tools ELSE <<>>
      /\ Get(o4, "toolConfig", [mode |-> "nil", only |-> ""])
           = IF s.choice.mode # "nil" THEN GeminiChoice(s.choice) ELSE [mode |-> "nil", only |-> ""]
  BY DEF Get, Field
<1>3. Get(o2, "generationConfig", <<>>) = IF DOMAIN config # {} THEN config ELSE <<>>
  BY DEF Get, Field
<1>4. /\ DOMAIN o1 \subseteq {"systemInstruction"}  /\ DOMAIN o2 \subseteq {"generationConfig"}
      /\ DOMAIN o3 \subseteq {"tools"}              /\ DOMAIN o4 \subseteq {"toolConfig"}
  BY DEF Field
<1> HIDE DEF o1, o2, o3, o4
<1>5. Fields(o, name, 4)
  BY <1>4 DEF Fields
<1> HIDE DEF o, name
<1>6. \A j \in 1..4 : name[j] \notin DOMAIN s.options => \A d : Get(w, name[j], d) = Get(o[j], name[j], d)
  BY <1>1, <1>5, AmongFour, GetMerge
<1>7. /\ "systemInstruction" \notin DOMAIN s.options =>
           \A d : Get(w, "systemInstruction", d) = Get(o1, "systemInstruction", d)
      /\ "generationConfig" \notin DOMAIN s.options =>
           \A d : Get(w, "generationConfig", d) = Get(o2, "generationConfig", d)
      /\ "tools" \notin DOMAIN s.options => \A d : Get(w, "tools", d) = Get(o3, "tools", d)
      /\ "toolConfig" \notin DOMAIN s.options => \A d : Get(w, "toolConfig", d) = Get(o4, "toolConfig", d)
  BY <1>6 DEF o, name
<1> QED
  BY <1>2, <1>3, <1>7 DEF config

\* Gemini hears every setting.
LEMMA GeminiHears ==
  ASSUME NEW s, IsSettings(s), ValidSettings(s), NEW w, w = Merge(GeminiPayload(s), s.options),
         NEW setting \in DOMAIN Wanted("gemini", s), Untouched("gemini", setting, s.options)
  PROVE  Heard("gemini", w)[setting] = Wanted("gemini", s)[setting]
<1> DEFINE tools == [i \in DOMAIN s.tools |-> GeminiTool(s.tools[i])]
           config == GenerationConfig(s)
           sent == Get(w, "generationConfig", <<>>)
           budget == Get(sent, "thinkingConfig", -2)
           choice == Get(w, "toolConfig", [mode |-> "nil", only |-> ""])
           h == HeardByGemini(w)
           m == Wanted("gemini", s)
<1>1. /\ setting = "system" => "systemInstruction" \notin DOMAIN s.options
      /\ setting = "tools" => "tools" \notin DOMAIN s.options
      /\ setting = "choice" => "toolConfig" \notin DOMAIN s.options
      /\ setting \notin {"system", "tools", "choice"} => "generationConfig" \notin DOMAIN s.options
  <2>1. /\ setting = "system" => <<"systemInstruction">> \in Places("gemini", setting)
        /\ setting = "tools" => <<"tools">> \in Places("gemini", setting)
        /\ setting = "choice" => <<"toolConfig">> \in Places("gemini", setting)
        /\ setting \notin {"system", "tools", "choice"} => <<"generationConfig">> \in Places("gemini", setting)
    BY DEF Places, PlacesOf, Get
  <2>2. \A f : <<f>> \in Places("gemini", setting) => f \notin DOMAIN s.options
    BY UntouchedField
  <2> QED
    BY <2>1, <2>2
<1>2. setting \in {"system", "limit", "temperature", "topP", "stop", "tools", "choice", "thinking", "format"}
  BY DEF Wanted
<1>3. Heard("gemini", w) = h
  BY DEF Heard
<1>4. /\ m["system"] = s.system
      /\ m["limit"] = s.maxTokens
      /\ m["temperature"] = s.temperature
      /\ m["topP"] = s.topP
      /\ m["stop"] = s.stop
      /\ m["choice"] = <<s.choice.mode, IF s.choice.mode = "tool" THEN s.choice.name ELSE "">>
      /\ m["thinking"] = IF s.thinking.mode = "on"
                         THEN <<"on", IF s.thinking.effort \in {"low", "medium", "high", "max"}
                                      THEN s.thinking.effort ELSE "">>
                         ELSE <<s.thinking.mode, "">>
      /\ m["format"] = IF s.format.given THEN s.format.schema ELSE ""
  BY DEF Wanted
<1>5. /\ h["system"] = Get(w, "systemInstruction", "")
      /\ h["limit"] = Get(sent, "maxOutputTokens", 0)
      /\ h["temperature"] = Get(sent, "temperature", "nil")
      /\ h["topP"] = Get(sent, "topP", "nil")
      /\ h["stop"] = Get(sent, "stopSequences", <<>>)
      /\ h["choice"] = <<ModeOf(choice), choice.only>>
      /\ h["thinking"] = <<IF DepthOf(budget) \in {"nil", "off"} THEN DepthOf(budget) ELSE "on",
                           IF DepthOf(budget) \in {"nil", "off"} THEN "" ELSE DepthOf(budget)>>
      /\ h["format"] = IF Get(sent, "responseMimeType", "") = "application/json"
                       THEN Get(sent, "responseSchema", "") ELSE ""
  BY DEF HeardByGemini
<1>6. CASE setting = "tools"
  <2>1. Get(w, "tools", <<>>) = IF s.tools # <<>> THEN tools ELSE <<>>
    BY <1>1, <1>6, GeminiTells
  <2>2. Get(w, "tools", <<>>) = tools
    <3>1. s.tools = <<>> => tools = <<>>
      BY SMT DEF tools
    <3> QED
      BY <2>1, <3>1
  <2>3. h["tools"] = Tools(Get(w, "tools", <<>>), LAMBDA t : Get(t, "parameters", <<>>))
    BY DEF HeardByGemini, Tools
  <2>4. m["tools"] = Tools(s.tools, LAMBDA t : IF t.given THEN Encoded(t.parameters) ELSE <<>>)
    BY DEF Wanted, ToldTools, Tools
  <2> QED
    BY <1>3, <1>6, <2>2, <2>3, <2>4, GeminiTools
<1> HIDE DEF h, m, sent, budget, choice, config
<1>7. CASE setting = "system"
  <2>1. Get(w, "systemInstruction", "") = s.system
    BY <1>1, <1>7, GeminiTells
  <2> QED
    BY <1>3, <1>4, <1>5, <1>7, <2>1 DEF m
<1>8. setting \notin {"system", "tools", "choice"} => \A k, d : Get(sent, k, d) = Get(config, k, d)
  <2>1. "generationConfig" \notin DOMAIN s.options => sent = IF DOMAIN config # {} THEN config ELSE <<>>
    BY GeminiTells DEF sent, config
  <2>2. DOMAIN config = {} => \A k, d : Get(config, k, d) = d /\ Get(<<>>, k, d) = d
    BY DEF Get
  <2> QED
    BY <1>1, <1>2, <2>1, <2>2
<1>9. CASE setting \in {"temperature", "topP", "stop"}
  <2>1. /\ Get(config, "temperature", "nil") = s.temperature
        /\ Get(config, "topP", "nil") = s.topP
        /\ Get(config, "stopSequences", <<>>) = s.stop
    BY GenerationConfigTells DEF config
  <2>2. m["temperature"] = s.temperature /\ m["topP"] = s.topP /\ m["stop"] = s.stop
    BY Zenon, <1>4
  <2>3. /\ h["temperature"] = Get(sent, "temperature", "nil") /\ h["topP"] = Get(sent, "topP", "nil")
        /\ h["stop"] = Get(sent, "stopSequences", <<>>)
    BY Zenon, <1>5
  <2>4. \A k, d : Get(sent, k, d) = Get(config, k, d)
    BY <1>8, <1>9
  <2>5. h["temperature"] = m["temperature"] /\ h["topP"] = m["topP"] /\ h["stop"] = m["stop"]
    BY <2>1, <2>2, <2>3, <2>4
  <2>6. h[setting] = m[setting]
    BY <1>9, <2>5
  <2> QED
    BY <1>3, <2>6 DEF m
<1>10. CASE setting = "limit"
  <2>1. Get(config, "maxOutputTokens", 0) = IF s.maxTokens > 0 THEN s.maxTokens ELSE 0
    BY GenerationConfigTells DEF config
  <2>2. s.maxTokens \in Int
    BY Zenon DEF IsSettings
  <2>3. s.maxTokens >= 0
    BY Zenon DEF ValidSettings
  <2>4. Get(config, "maxOutputTokens", 0) = s.maxTokens
    BY <2>1, <2>2, <2>3
  <2> QED
    BY <1>3, <1>4, <1>5, <1>8, <1>10, <2>4 DEF m
<1>11. CASE setting = "choice"
  <2>1. choice = IF s.choice.mode # "nil" THEN GeminiChoice(s.choice) ELSE [mode |-> "nil", only |-> ""]
    BY <1>1, <1>11, GeminiTells DEF choice
  <2>2. s.choice.mode \in {"nil", "auto", "none", "required", "tool"}
    BY DEF ValidSettings, Modes
  <2>3. s.choice.mode = "tool" => s.choice.name # ""
    BY DEF ValidSettings
  <2>4. h["choice"] = <<s.choice.mode, IF s.choice.mode = "tool" THEN s.choice.name ELSE "">>
    BY <1>5, <2>1, <2>2, <2>3 DEF GeminiChoice, ModeOf
  <2> QED
    BY <1>3, <1>4, <1>11, <2>4 DEF m
<1>12. CASE setting = "thinking"
  <2>1. Get(config, "thinkingConfig", -2)
          = IF s.thinking.mode = "nil" THEN -2
            ELSE IF s.thinking.mode = "on" THEN ThinkingBudget(s.thinking.effort) ELSE 0
    BY GenerationConfigTells DEF config
  <2>2. budget = Get(config, "thinkingConfig", -2)
    BY <1>8, <1>12 DEF budget
  <2>3. s.thinking.mode \in {"nil", "off", "on"}
    BY Zenon DEF IsSettings
  <2>4. CASE s.thinking.mode # "on"
    <3>1. DepthOf(-2) = "nil" /\ DepthOf(0) = "off"
      BY DEF DepthOf
    <3>2. h["thinking"] = <<s.thinking.mode, "">>
      BY <1>5, <2>1, <2>2, <2>3, <2>4, <3>1
    <3> QED
      BY <1>3, <1>4, <1>12, <2>4, <3>2 DEF m
  <2>5. CASE s.thinking.mode = "on"
    <3>1. budget = ThinkingBudget(s.thinking.effort)
      BY <2>1, <2>2, <2>5
    <3> QED
      BY <1>3, <1>4, <1>5, <1>12, <2>5, <3>1, BudgetDepth DEF m
  <2> QED
    BY <2>4, <2>5
<1>13. CASE setting = "format"
  <2>1. /\ Get(config, "responseMimeType", "") = IF s.format.given THEN "application/json" ELSE ""
        /\ Get(config, "responseSchema", "") = IF s.format.given THEN s.format.schema ELSE ""
    BY GenerationConfigTells DEF config
  <2>2. h["format"] = IF s.format.given THEN s.format.schema ELSE ""
    BY <1>5, <1>8, <1>13, <2>1
  <2> QED
    BY <1>3, <1>4, <1>13, <2>2 DEF m
<1> QED
  BY <1>2, <1>6, <1>7, <1>9, <1>10, <1>11, <1>12, <1>13

-----------------------------------------------------------------------------
(* Every request of a conversation.                                        *)

\* The gateway's settings are a library's: what a JSON decoder makes of a tool's
\* schema is a schema, and means the same.
LEMMA GatewayDecodesSettings ==
  ASSUME NEW s, IsSettings(s), NEW t, t = ToSkylSettings(s)
  PROVE  /\ IsSettings(t)
         /\ t.options = s.options
         /\ \A p : Wanted(p, t) = Wanted(p, s)
<1> DEFINE decoded == [i \in DOMAIN s.tools |-> DecodedTool(s.tools[i])]
<1>1. \A i \in DOMAIN s.tools : IsTool(s.tools[i])
  BY Zenon DEF IsSettings, IsTool
<1>2. \A i \in DOMAIN s.tools :
        /\ IsTool(decoded[i])
        /\ decoded[i].name = s.tools[i].name
        /\ decoded[i].given = s.tools[i].given
        /\ Encoded(decoded[i].parameters) = Encoded(s.tools[i].parameters)
  <2> SUFFICES ASSUME NEW tool, IsTool(tool), NEW d, d = DecodedTool(tool)
               PROVE  /\ IsTool(d) /\ d.name = tool.name /\ d.given = tool.given
                      /\ Encoded(d.parameters) = Encoded(tool.parameters)
    BY <1>1
  <2>1. /\ DOMAIN d = {"name", "given", "parameters"} /\ d.name = tool.name /\ d.given = tool.given
        /\ d.parameters = Decoded(tool.parameters)
    BY DEF IsTool, DecodedTool
  <2>2. "required" \in DOMAIN d.parameters =>
          /\ "required" \in DOMAIN tool.parameters
          /\ DOMAIN d.parameters["required"] = {"as", "names"}
          /\ d.parameters["required"].as = "values"
    BY <2>1 DEF Decoded, IsTool
  <2>3. Encoded(d.parameters) = Encoded(tool.parameters)
    BY <2>1, DecodedMeansTheSame DEF IsTool
  <2> QED
    BY <2>1, <2>2, <2>3 DEF IsTool
<1>3. DOMAIN s = {"model", "system", "maxTokens", "temperature", "topP", "stop", "tools",
                  "choice", "thinking", "format", "options"}
  BY Zenon DEF IsSettings
<1>4. /\ DOMAIN t = DOMAIN s
      /\ t.tools = decoded
      /\ \A f \in DOMAIN s \ {"tools"} : t[f] = s[f]
  <2>1. t = [s EXCEPT !.tools = decoded]
    BY DEF ToSkylSettings
  <2> HIDE DEF decoded
  <2> QED
    BY <1>3, <2>1
<1> HIDE DEF decoded
<1>5. /\ t.model = s.model /\ t.system = s.system /\ t.maxTokens = s.maxTokens
      /\ t.temperature = s.temperature /\ t.topP = s.topP /\ t.stop = s.stop /\ t.choice = s.choice
      /\ t.thinking = s.thinking /\ t.format = s.format /\ t.options = s.options
  BY <1>3, <1>4
<1>6. DOMAIN decoded = DOMAIN s.tools
  BY DEF decoded
<1>7. IsSettings(t)
  <2>1. \A i \in DOMAIN t.tools : IsTool(t.tools[i])
    BY <1>2, <1>4, <1>6
  <2>2. /\ DOMAIN t = DOMAIN s /\ s.maxTokens \in Int /\ s.thinking.mode \in {"nil", "off", "on"}
        /\ s.format.given \in BOOLEAN /\ IsOptions(s.options)
    BY Zenon, <1>4 DEF IsSettings
  <2> QED
    BY Zenon, <1>3, <1>5, <2>1, <2>2 DEF IsSettings, IsTool
<1>8. \A p : Wanted(p, t) = Wanted(p, s)
  <2>1. ToldTools(t) = ToldTools(s)
    <3>1. \A i \in DOMAIN s.tools :
            Meaning(decoded[i].name, IF decoded[i].given THEN Encoded(decoded[i].parameters) ELSE <<>>)
              = Meaning(s.tools[i].name, IF s.tools[i].given THEN Encoded(s.tools[i].parameters) ELSE <<>>)
      BY <1>2
    <3> QED
      BY <1>4, <1>6, <3>1 DEF ToldTools, Tools
  <2> DEFINE W(p, system, maxTokens, temperature, topP, stop, tools, choice, thinking, format) ==
        [system |-> system,
         limit |-> IF maxTokens = 0 /\ p = "anthropic" THEN DefaultMaxTokens ELSE maxTokens,
         temperature |-> temperature, topP |-> topP, stop |-> stop, tools |-> tools,
         choice |-> <<choice.mode, IF choice.mode = "tool" THEN choice.name ELSE "">>,
         thinking |-> IF thinking.mode = "on" /\ (p = "oai" => thinking.effort # "")
                        THEN <<"on", IF p = "gemini" /\ thinking.effort \notin {"low", "medium", "high", "max"}
                                     THEN "" ELSE thinking.effort>>
                      ELSE <<IF p = "oai" THEN "nil" ELSE thinking.mode, "">>,
         format |-> IF format.given THEN format.schema ELSE ""]
  <2>2. \A p, r : Wanted(p, r) = W(p, r.system, r.maxTokens, r.temperature, r.topP, r.stop, ToldTools(r),
                                  r.choice, r.thinking, r.format)
    BY Zenon DEF Wanted
  <2> HIDE DEF W
  <2> QED
    BY Zenon, <1>5, <2>1, <2>2
<1> QED
  BY <1>5, <1>7, <1>8

\* What was sent was made of the caller's settings, which skyl found good.
SentAsAsked ==
  request.messages # <<>> =>
    /\ request.to \in Providers
    /\ request.settings \in Wishes
    /\ ValidSettings(SkylSettings(request.settings))
    /\ request.payload = Payload(request.to, SkylSettings(request.settings))

\* It holds of every state.
LEMMA SentAsAskedInvariant ==
  Spec => []SentAsAsked
<1>1. Init => SentAsAsked
  BY DEF Init, NoRequest, SentAsAsked
<1>2. SentAsAsked /\ [Next]_vars => SentAsAsked'
  <2> SUFFICES ASSUME SentAsAsked, [Next]_vars
               PROVE  SentAsAsked'
    OBVIOUS
  <2>1. ASSUME NEW turn, NEW origin, Extend(turn, origin)
        PROVE  SentAsAsked'
    BY <2>1 DEF Extend, NoRequest, SentAsAsked
  <2>2. ASSUME NEW kind, Fail(kind)
        PROVE  SentAsAsked'
    BY <2>2 DEF Fail, SentAsAsked, SkylSettings
  <2>3. CASE WriteTurn
    BY <2>1, <2>3 DEF WriteTurn
  <2>4. CASE AnswerCall
    BY <2>1, <2>4 DEF AnswerCall
  <2>5. CASE AnswerCalls
    BY <2>1, <2>5 DEF AnswerCalls
  <2>6. ASSUME NEW p \in Providers, NEW s \in WishesNow, Ask(p, s)
        PROVE  SentAsAsked'
    <3>1. s \in Wishes
      BY ConversationAssumption DEF WishesNow
    <3>2. via' = via
      BY <2>6 DEF Ask
    <3>3. CASE Verdict(p, s) = "waiting"
      <4>1. ValidSettings(SkylSettings(s))
        BY <3>3 DEF Verdict
      <4>2. /\ request'.to = p /\ request'.settings = s
            /\ request'.payload = Payload(p, SkylSettings(s))
        BY <2>6, <3>3 DEF Ask
      <4>3. SkylSettings(s)' = SkylSettings(s)
        BY <3>2 DEF SkylSettings
      <4> QED
        BY <3>1, <3>2, <4>1, <4>2 DEF SentAsAsked, SkylSettings
    <3>4. CASE Verdict(p, s) # "waiting"
      <4>1. request'.messages = <<>>
        BY <2>6, <3>4 DEF Ask, NoRequest
      <4> QED
        BY <4>1 DEF SentAsAsked
    <3> QED
      BY <3>3, <3>4
  <2>7. CASE Reply
    BY <2>1, <2>2, <2>7 DEF Reply
  <2>8. CASE ProviderFails
    BY <2>2, <2>8 DEF ProviderFails
  <2>9. CASE UNCHANGED vars
    BY <2>9 DEF vars, SentAsAsked, SkylSettings
  <2> QED
    BY <2>3, <2>4, <2>5, <2>6, <2>7, <2>8, <2>9 DEF Next
<1> QED
  BY <1>1, <1>2, PTL DEF Spec

\* One request means the same to every provider, whatever its settings, options and
\* tools: see SettingsCarried.
THEOREM EverySettingCarried ==
  Spec => []SettingsCarried
<1>1. SentAsAsked => SettingsCarried
  <2> SUFFICES ASSUME SentAsAsked, request.messages # <<>>,
                      NEW setting \in DOMAIN Wanted(request.to, request.settings),
                      Untouched(request.to, setting, request.settings.options)
               PROVE  Heard(request.to, request.payload)[setting]
                        = Wanted(request.to, request.settings)[setting]
    BY DEF SettingsCarried
  <2> DEFINE p == request.to
             s == request.settings
             t == SkylSettings(s)
             w == request.payload
  <2>1. p \in Providers /\ s \in Wishes /\ ValidSettings(t) /\ w = Payload(p, t)
    BY DEF SentAsAsked
  <2>2. IsSettings(s)
    BY <2>1, ConversationAssumption
  <2>3. IsSettings(t) /\ t.options = s.options /\ Wanted(p, t) = Wanted(p, s)
    BY <2>2, GatewayDecodesSettings DEF SkylSettings
  <2>4. setting \in DOMAIN Wanted(p, t) /\ Untouched(p, setting, t.options)
    BY <2>3
  <2> HIDE DEF p, s, t, w
  <2>5. CASE p = "oai"
    <3>1. w = Merge(OaiPayload(t), t.options)
      BY <2>1, <2>5 DEF Payload
    <3>2. Heard("oai", w)[setting] = Wanted("oai", t)[setting]
      BY <2>1, <2>3, <2>4, <2>5, <3>1, OaiHears
    <3> QED
      BY <2>3, <2>5, <3>2 DEF p, s, w
  <2>6. CASE p = "gemini"
    <3>1. w = Merge(GeminiPayload(t), t.options)
      BY <2>1, <2>6 DEF Payload
    <3>2. Heard("gemini", w)[setting] = Wanted("gemini", t)[setting]
      BY <2>1, <2>3, <2>4, <2>6, <3>1, GeminiHears
    <3> QED
      BY <2>3, <2>6, <3>2 DEF p, s, w
  <2>7. CASE p = "anthropic"
    <3>1. w = WriteInto(AnthropicPayload(t), t.options)
      BY <2>1, <2>7 DEF Payload
    <3>2. Heard("anthropic", w)[setting] = Wanted("anthropic", t)[setting]
      BY <2>1, <2>3, <2>4, <2>7, <3>1, AnthropicHears
    <3> QED
      BY <2>3, <2>7, <3>2 DEF p, s, w
  <2> QED
    BY <2>1, <2>5, <2>6, <2>7 DEF Providers
<1> QED
  BY <1>1, SentAsAskedInvariant, PTL

\* Options laid over a payload are in it.
LEMMA MergeCarries ==
  ASSUME NEW payload, NEW extra, NEW k \in DOMAIN extra
  PROVE  Has(Merge(payload, extra), k, extra[k])
  BY Zenon DEF Merge, ++, Has

\* Options written into a payload are in it: at the end of their paths, and under
\* their keys, but for what a path writes over.
LEMMA WriteCarries ==
  ASSUME NEW payload, NEW options, NEW w, w = WriteInto(payload, options)
  PROVE  /\ \A path \in Nested(options) : Has(Get(w, path[1], <<>>), path[2], options[Dotted[path]])
         /\ \A k \in DOMAIN Whole(options) \ Led(options) : Has(w, k, options[k])
         /\ \A k \in DOMAIN Whole(options) \cap Led(options) : \A n \in DOMAIN options[k] :
              <<k, n>> \notin Nested(options) => Has(Get(w, k, <<>>), n, options[k][n])
<1> DEFINE whole == Merge(payload, Whole(options))
           led == [g \in Led(options) |-> Inside(options, g) ++ Get(whole, g, <<>>)]
<1>1. w = led ++ whole
  BY Zenon DEF WriteInto
<1>2. \A k \in DOMAIN Whole(options) : Has(whole, k, options[k])
  <2>1. \A k \in DOMAIN Whole(options) : Whole(options)[k] = options[k]
    BY DEF Whole
  <2> QED
    BY <2>1, MergeCarries
<1>3. DOMAIN led = Led(options)
  OBVIOUS
<1>4. \A f \in Led(options) : led[f] = Inside(options, f) ++ Get(whole, f, <<>>)
  OBVIOUS
<1> HIDE DEF whole, led
<1>5. DOMAIN w = Led(options) \cup DOMAIN whole
  BY Zenon, <1>1, <1>3 DEF ++
<1>6. /\ \A f \in Led(options) : w[f] = led[f]
      /\ \A f \in DOMAIN whole \ Led(options) : w[f] = whole[f]
  <2>1. w = [f \in DOMAIN led \cup DOMAIN whole |-> IF f \in DOMAIN led THEN led[f] ELSE whole[f]]
    BY Zenon, <1>1 DEF ++
  <2> QED
    BY <1>3, <2>1
<1>7. \A f \in Led(options) : Get(w, f, <<>>) = Inside(options, f) ++ Get(whole, f, <<>>)
  BY <1>4, <1>5, <1>6 DEF Get
<1>8. ASSUME NEW path \in Nested(options)
      PROVE  Has(Get(w, path[1], <<>>), path[2], options[Dotted[path]])
  <2> DEFINE f == path[1]
             n == path[2]
             rest == Get(whole, f, <<>>)
  <2>1. path = <<f, n>>
    BY DottedAssumption DEF Nested
  <2>2. f \in Led(options)
    BY DEF Led
  <2>3. n \in DOMAIN Inside(options, f) /\ Inside(options, f)[n] = options[Dotted[path]]
    BY <2>1 DEF Inside
  <2>4. Get(w, f, <<>>) = Inside(options, f) ++ rest
    BY <1>7, <2>2
  <2> HIDE DEF f, n, rest
  <2>5. /\ n \in DOMAIN (Inside(options, f) ++ rest)
        /\ (Inside(options, f) ++ rest)[n] = Inside(options, f)[n]
    BY Zenon, <2>3 DEF ++
  <2> QED
    BY <2>3, <2>4, <2>5 DEF Has, f, n
<1>9. ASSUME NEW k \in DOMAIN Whole(options), k \notin Led(options)
      PROVE  Has(w, k, options[k])
  BY <1>2, <1>5, <1>6, <1>9 DEF Has
<1>10. ASSUME NEW k \in DOMAIN Whole(options), k \in Led(options), NEW n \in DOMAIN options[k],
              <<k, n>> \notin Nested(options)
       PROVE  Has(Get(w, k, <<>>), n, options[k][n])
  <2> DEFINE inside == Inside(options, k)
             rest == Get(whole, k, <<>>)
  <2>1. rest = options[k]
    BY <1>2 DEF Has, Get
  <2>2. n \notin DOMAIN inside
    <3>1. DOMAIN inside = {path[2] : path \in {q \in Nested(options) : q[1] = k}}
      BY DEF Inside
    <3>2. \A path \in Nested(options) : path = <<path[1], path[2]>>
      BY DottedAssumption DEF Nested
    <3> QED
      BY <1>10, <3>1, <3>2
  <2>3. Get(w, k, <<>>) = inside ++ rest
    BY <1>7, <1>10
  <2> HIDE DEF inside, rest
  <2>4. n \in DOMAIN (inside ++ rest) /\ (inside ++ rest)[n] = rest[n]
    BY Zenon, <2>1, <2>2 DEF ++
  <2> QED
    BY <2>1, <2>3, <2>4 DEF Has
<1> QED
  BY <1>8, <1>9, <1>10

\* Whatever options a request has, its payload has them all: see OptionsCarried.
THEOREM EveryOptionCarried ==
  Spec => []OptionsCarried
<1>1. SentAsAsked => OptionsCarried
  <2> SUFFICES ASSUME SentAsAsked, request.messages # <<>>
               PROVE  OptionsCarried
    BY DEF OptionsCarried
  <2> DEFINE p == request.to
             s == request.settings
             t == SkylSettings(s)
             w == request.payload
             options == s.options
  <2>1. p \in Providers /\ s \in Wishes /\ w = Payload(p, t)
    BY DEF SentAsAsked
  <2>2. IsSettings(s)
    BY <2>1, ConversationAssumption
  <2>3. t.options = options
    BY <2>2, GatewayDecodesSettings DEF SkylSettings
  <2> HIDE DEF p, s, t, w, options
  <2>4. ASSUME p # "anthropic", NEW k \in DOMAIN options
        PROVE  Has(w, k, options[k])
    <3>1. \E payload : w = Merge(payload, options)
      BY <2>1, <2>3, <2>4 DEF Payload, Providers
    <3> QED
      BY <3>1, MergeCarries
  <2>5. CASE p = "anthropic"
    <3>1. w = WriteInto(AnthropicPayload(t), options)
      BY <2>1, <2>3, <2>5 DEF Payload
    <3>2. /\ \A path \in Nested(options) : Has(Get(w, path[1], <<>>), path[2], options[Dotted[path]])
          /\ \A k \in DOMAIN Whole(options) \ Led(options) : Has(w, k, options[k])
          /\ \A k \in DOMAIN Whole(options) \cap Led(options) : \A n \in DOMAIN options[k] :
               <<k, n>> \notin Nested(options) => Has(Get(w, k, <<>>), n, options[k][n])
      BY <3>1, WriteCarries
    <3> QED
      BY <2>5, <3>2 DEF OptionsCarried, p, s, w, options
  <2>6. CASE p # "anthropic"
    BY <2>4, <2>6 DEF OptionsCarried, p, s, w, options
  <2> QED
    BY <2>5, <2>6
<1> QED
  BY <1>1, SentAsAskedInvariant, PTL

-----------------------------------------------------------------------------
(* The parts of a turn, by type.                                           *)

\* The members of a sequence make it a sequence of them.
LEMMA MembersOf ==
  ASSUME NEW S, NEW s \in Seq(S)
  PROVE  /\ s \in Seq(ToSet(s)) /\ ToSet(s) \subseteq S
         /\ Len(s) \in Nat /\ DOMAIN s = 1 .. Len(s)
         /\ \A i \in DOMAIN s : s[i] \in ToSet(s)
<1>1. Len(s) \in Nat /\ DOMAIN s = 1 .. Len(s) /\ \A i \in DOMAIN s : s[i] \in S
  BY LenProperties, ElementOfSeq
<1>2. \A i \in DOMAIN s : s[i] \in ToSet(s)
  BY DEF ToSet
<1>3. s \in [1 .. Len(s) -> ToSet(s)]
  BY <1>1, <1>2
<1>4. s \in Seq(ToSet(s))
  BY <1>1, <1>3, FunctionIsSeq
<1> QED
  BY <1>1, <1>2, <1>4 DEF ToSet

\* The parts of a type, whichever set the parts are from.
LEMMA OfTypeIs ==
  ASSUME NEW S, NEW s \in Seq(S), NEW t
  PROVE  OfType(s, t) = Among(s, {x \in S : x.type = t})
<1>1. \A i \in DOMAIN s : s[i] \in S /\ s[i] \in ToSet(s)
  BY MembersOf
<1>2. \A i \in DOMAIN s : s[i] \in {x \in ToSet(s) : x.type = t} <=> s[i] \in {x \in S : x.type = t}
  BY <1>1
<1> QED
  BY <1>2, AmongSame DEF OfType

\* The parts of a type, mapped, are those that have the type that it is mapped to.
LEMMA OfTypeMapped ==
  ASSUME NEW S, NEW g, g = [e \in S |-> g[e]], NEW s \in Seq(S), NEW t, NEW u,
         \A e \in S : g[e].type = u <=> e.type = t
  PROVE  /\ OfType(Mapped(s, g), u) = Mapped(OfType(s, t), g)
         /\ OfType(s, t) \in Seq(S)
<1> DEFINE R == {g[e] : e \in S}
           T == {x \in R : x.type = u}
           U == {x \in S : x.type = t}
<1>0. g \in [S -> R]
  OBVIOUS
<1>1. Mapped(s, g) \in Seq(R)
  <2> HIDE DEF R
  <2> QED
    BY <1>0, MappedTyped
<1>2. OfType(Mapped(s, g), u) = Among(Mapped(s, g), T) /\ OfType(s, t) = Among(s, U)
  BY <1>1, OfTypeIs
<1>3. U = MappedInto(S, g, T)
  BY DEF MappedInto
<1> HIDE DEF T, U
<1>4. Among(Mapped(s, g), T) = Mapped(Among(s, MappedInto(S, g, T)), g)
  BY AmongMapped
<1>5. Among(s, U) \in Seq(S)
  BY AmongTyped
<1> QED
  BY <1>2, <1>3, <1>4, <1>5

\* All parts of one type are all parts.
LEMMA OfTypeWhole ==
  ASSUME NEW S, NEW s \in Seq(S), NEW t, \A i \in DOMAIN s : s[i].type = t
  PROVE  OfType(s, t) = s
<1> DEFINE T == {x \in ToSet(s) : x.type = t}
<1>1. s \in Seq(ToSet(s)) /\ \A x \in ToSet(s) : x.type = t
  BY MembersOf DEF ToSet
<1>2. ToSet(s) = T
  BY <1>1
<1> HIDE DEF T
<1> QED
  BY <1>1, <1>2, AmongWhole DEF OfType, T

\* Where no part is of a type, there is none.
LEMMA OfTypeNone ==
  ASSUME NEW S, NEW s \in Seq(S), NEW t, \A i \in DOMAIN s : s[i].type # t
  PROVE  OfType(s, t) = <<>>
<1> DEFINE T == {x \in S : x.type = t}
<1>1. ~ \E i \in DOMAIN s : s[i] \in T
  OBVIOUS
<1>2. OfType(s, t) = Among(s, T)
  BY OfTypeIs
<1> HIDE DEF T
<1> QED
  BY <1>1, <1>2, AmongSome

\* Parts of the same types in the same order have the same text, if their texts are.
LEMMA TextSame ==
  ASSUME NEW s, NEW r, DOMAIN s = DOMAIN r,
         \A i \in DOMAIN s : /\ s[i].type = "text" <=> r[i].type = "text"
                             /\ s[i].type = "text" => s[i].text = r[i].text
  PROVE  Text(s) = Text(r)
<1>1. [i \in DOMAIN s |-> IF s[i].type = "text" THEN s[i].text ELSE <<>>]
        = [i \in DOMAIN r |-> IF r[i].type = "text" THEN r[i].text ELSE <<>>]
  OBVIOUS
<1> QED
  BY <1>1 DEF Text

\* The text of parts is what they are mapped to, put together.
LEMMA TextIs ==
  ASSUME NEW S, \A e \in S : e.type = "text" => e.text \in Strings
  PROVE  LET g == [e \in S |-> IF e.type = "text" THEN e.text ELSE <<>>]
         IN  /\ g \in [S -> Seq(STRING)]
             /\ \A s \in Seq(S) : Text(s) = FlatMap(s, g)
<1> DEFINE g == [e \in S |-> IF e.type = "text" THEN e.text ELSE <<>>]
<1>1. g \in [S -> Seq(STRING)]
  <2>1. <<>> \in Seq(STRING)
    BY EmptySeq
  <2> QED
    BY <2>1 DEF Strings
<1>2. ASSUME NEW s \in Seq(S) PROVE Text(s) = FlatMap(s, g)
  <2>1. \A i \in DOMAIN s : s[i] \in S
    BY ElementOfSeq
  <2>2. [i \in DOMAIN s |-> IF s[i].type = "text" THEN s[i].text ELSE <<>>] = Mapped(s, g)
    BY <2>1 DEF Mapped
  <2> QED
    BY <2>2 DEF Text, FlatMap
<1> QED
  BY <1>1, <1>2

\* The text of two sequences of parts.
LEMMA TextConcat ==
  ASSUME NEW S, \A e \in S : e.type = "text" => e.text \in Strings, NEW s \in Seq(S), NEW r \in Seq(S)
  PROVE  Text(s \o r) = Text(s) \o Text(r) /\ Text(s) \in Strings
<1> DEFINE g == [e \in S |-> IF e.type = "text" THEN e.text ELSE <<>>]
<1>1. g \in [S -> Seq(STRING)] /\ \A t \in Seq(S) : Text(t) = FlatMap(t, g)
  BY TextIs
<1> HIDE DEF g
<1>2. s \o r \in Seq(S)
  BY ConcatProperties
<1>3. FlatMap(s \o r, g) = FlatMap(s, g) \o FlatMap(r, g)
  BY <1>1, FlatMapConcat
<1>4. FlatMap(s, g) \in Seq(STRING)
  BY <1>1, FlatMapTyped
<1> QED
  BY <1>1, <1>2, <1>3, <1>4 DEF Strings

\* The text of prose is text, and texts that are empty may be left out.
LEMMA TextAmong ==
  ASSUME NEW s, IsProse(s), NEW K,
         \A e \in ToSet(s) : e \notin K /\ e.type = "text" => e.text = <<>>
  PROVE  Text(Among(s, K)) = Text(s) /\ Text(s) \in Strings
<1> DEFINE S == ToSet(s)
           g == [e \in S |-> IF e.type = "text" THEN e.text ELSE <<>>]
<1>1. s \in Seq(S) /\ Among(s, K) \in Seq(S)
  BY AmongTyped DEF IsProse
<1>2. g \in [S -> Seq(STRING)] /\ \A r \in Seq(S) : Text(r) = FlatMap(r, g)
  <2>1. \A e \in S : e.type = "text" => e.text \in Strings
    BY DEF IsProse
  <2> HIDE DEF S
  <2> QED
    BY <2>1, TextIs
<1>3. {e \in S : g[e] # <<>>} \subseteq K
  OBVIOUS
<1> HIDE DEF S, g
<1>5. FlatMap(Among(s, K), g) = FlatMap(s, g)
  BY <1>1, <1>2, <1>3, FlatMapAmong
<1>6. FlatMap(s, g) \in Seq(STRING)
  BY <1>1, <1>2, FlatMapTyped
<1> QED
  BY <1>1, <1>2, <1>5, <1>6 DEF Strings

\* The text of one part.
LEMMA TextOfOne ==
  ASSUME NEW text \in Strings
  PROVE  Text(<<[type |-> "text", text |-> text]>>) = text
<1> DEFINE r == <<[type |-> "text", text |-> text]>>
<1>1. [i \in DOMAIN r |-> IF r[i].type = "text" THEN r[i].text ELSE <<>>] = <<text>>
  OBVIOUS
<1> QED
  BY <1>1, FlattenOne DEF Text, Strings

-----------------------------------------------------------------------------
(* What a reply becomes.                                                   *)

\* A part that says something: a text or a call.
IsSaid(part) ==
  /\ part.type \in {"text", "tool_call"}
  /\ part.type = "text" => part.text \in Strings

\* The id skyl gives a call: a function's name where the provider has no ids.
IdOf(p, call) == IF p = "gemini" THEN call.name ELSE call.id

SkylCall(p, call) == ToolCall(IdOf(p, call), call)

\* Parts taken one by one from those of the reply that say something.
LEMMA PartsOneByOne ==
  ASSUME NEW p \in {"gemini", "anthropic"}, NEW parts, IsProse(parts), NEW call, call # "text",
         NEW taken, taken = [i \in DOMAIN Saying(parts, call) |->
                               IF Saying(parts, call)[i].type = "text" THEN Saying(parts, call)[i]
                               ELSE SkylCall(p, Saying(parts, call)[i])]
  PROVE  /\ taken \in Seq(ToSet(taken))
         /\ \A i \in DOMAIN taken : IsSaid(taken[i])
         /\ Text(taken) = Text(parts)
         /\ OfType(parts, call) \in Seq(ToSet(parts))
         /\ OfType(taken, "tool_call")
              = [k \in DOMAIN OfType(parts, call) |-> SkylCall(p, OfType(parts, call)[k])]
<1> DEFINE S == ToSet(parts)
           K == {x \in S : x.type = call \/ (x.type = "text" /\ x.text # <<>>)}
           W == Among(parts, K)
           g == [x \in K |-> IF x.type = "text" THEN x ELSE SkylCall(p, x)]
           R == {g[x] : x \in K}
           C == OfType(parts, call)
<1>1. parts \in Seq(S) /\ \A x \in S : x.type = "text" => x.text \in Strings
  BY DEF IsProse
<1>2. Saying(parts, call) = W
  BY DEF Saying
<1>3. W \in Seq(S) /\ W \in Seq(K)
  BY <1>1, AmongTyped
<1>4. DOMAIN W = 1 .. Len(W) /\ \A i \in DOMAIN W : W[i] \in K
  BY <1>3, LenProperties, ElementOfSeq
<1>5. taken = Mapped(W, g)
  BY <1>2, <1>4 DEF Mapped
<1>6. g \in [K -> R]
  OBVIOUS
<1>7. \A x \in K : IsSaid(g[x]) /\ (g[x].type = "text" <=> x.type = "text")
                   /\ (x.type = "text" => g[x].text = x.text)
                   /\ (g[x].type = "tool_call" <=> x.type = call)
                   /\ (x.type = call => g[x] = SkylCall(p, x))
  BY <1>1 DEF IsSaid, SkylCall, ToolCall
<1>8. C = Among(parts, {x \in S : x.type = call})
  BY DEF OfType
<1>9. C \in Seq(S) /\ \A k \in DOMAIN C : C[k] \in K /\ C[k].type = call
  <2>1. C \in Seq(S) /\ C \in Seq({x \in S : x.type = call})
    BY <1>1, <1>8, AmongTyped
  <2>2. \A k \in DOMAIN C : C[k] \in {x \in S : x.type = call}
    BY <2>1, ElementOfSeq
  <2> QED
    BY <2>1, <2>2
<1>10. OfType(W, call) = C
  <2> DEFINE U == {x \in S : x.type = call}
  <2>1. OfType(W, call) = Among(W, U)
    BY <1>3, OfTypeIs
  <2>2. K \cap U = U
    OBVIOUS
  <2>3. Among(W, U) = Among(parts, K \cap U)
    BY <1>1, AmongAmong
  <2> QED
    BY <1>8, <2>1, <2>2, <2>3
<1>11. Text(W) = Text(parts)
  <2>1. \A e \in S : e \notin K /\ e.type = "text" => e.text = <<>>
    OBVIOUS
  <2> QED
    BY <2>1, TextAmong
<1> HIDE DEF S, K, W, g, R, C
<1>12. /\ taken \in Seq(R) /\ DOMAIN taken = DOMAIN W
       /\ \A i \in DOMAIN W : taken[i] = g[W[i]]
  <2>1. Mapped(W, g) \in Seq(R)
    BY <1>3, <1>6, MappedTyped
  <2> QED
    BY <1>5, <2>1 DEF Mapped
<1>13. taken \in Seq(ToSet(taken))
  BY <1>12, MembersOf
<1>14. Text(taken) = Text(W)
  BY <1>4, <1>7, <1>12, TextSame
<1>15. OfType(taken, "tool_call") = Mapped(C, g)
  <2>1. g = [x \in K |-> g[x]]
    BY <1>6
  <2>2. \A x \in K : g[x].type = "tool_call" <=> x.type = call
    BY <1>7
  <2>3. OfType(Mapped(W, g), "tool_call") = Mapped(OfType(W, call), g)
    BY <1>3, <2>1, <2>2, OfTypeMapped
  <2> QED
    BY <1>5, <1>10, <2>3
<1>16. Mapped(C, g) = [k \in DOMAIN C |-> SkylCall(p, C[k])]
  BY <1>7, <1>9 DEF Mapped
<1> QED
  BY <1>4, <1>7, <1>9, <1>11, <1>12, <1>13, <1>14, <1>15, <1>16 DEF S, C

\* What skyl has of any provider's reply says what the reply says: its text, and its
\* calls in their order.
LEMMA PartsSay ==
  ASSUME NEW p \in Providers, NEW reply, IsReply(p, reply)
  PROVE  LET parts == PartsFrom(p, reply)
             calls == SaidCalls(p, reply)
         IN  /\ parts \in Seq(ToSet(parts))
             /\ \A i \in DOMAIN parts : IsSaid(parts[i])
             /\ Text(parts) = SaidText(p, reply)
             /\ calls \in Seq(ToSet(calls))
             /\ OfType(parts, "tool_call") = [k \in DOMAIN calls |-> SkylCall(p, calls[k])]
<1> DEFINE parts == PartsFrom(p, reply)
           calls == SaidCalls(p, reply)
<1>1. CASE p = "gemini"
  <2>1. /\ IsProse(reply.parts) /\ SaidText(p, reply) = Text(reply.parts)
        /\ calls = OfType(reply.parts, "functionCall")
    BY <1>1 DEF IsReply, SaidText, SaidCalls
  <2>2. parts = [i \in DOMAIN Saying(reply.parts, "functionCall") |->
                   IF Saying(reply.parts, "functionCall")[i].type = "text"
                   THEN Saying(reply.parts, "functionCall")[i]
                   ELSE SkylCall(p, Saying(reply.parts, "functionCall")[i])]
    BY <1>1 DEF PartsFrom, PartsFromGemini, SkylCall, IdOf
  <2> HIDE DEF parts
  <2>3. calls \in Seq(ToSet(reply.parts))
    BY <1>1, <2>1, <2>2, PartsOneByOne
  <2>4. calls \in Seq(ToSet(calls))
    BY <2>3, MembersOf
  <2> QED
    BY <1>1, <2>1, <2>2, <2>4, PartsOneByOne DEF parts
<1>2. CASE p = "anthropic"
  <2>1. /\ IsProse(reply.parts) /\ SaidText(p, reply) = Text(reply.parts)
        /\ calls = OfType(reply.parts, "tool_use")
    BY <1>2 DEF IsReply, SaidText, SaidCalls
  <2>2. parts = [i \in DOMAIN Saying(reply.parts, "tool_use") |->
                   IF Saying(reply.parts, "tool_use")[i].type = "text"
                   THEN Saying(reply.parts, "tool_use")[i]
                   ELSE SkylCall(p, Saying(reply.parts, "tool_use")[i])]
    BY <1>2 DEF PartsFrom, PartsFromAnthropic, SkylCall, IdOf
  <2> HIDE DEF parts
  <2>3. calls \in Seq(ToSet(reply.parts))
    BY <1>2, <2>1, <2>2, PartsOneByOne
  <2>4. calls \in Seq(ToSet(calls))
    BY <2>3, MembersOf
  <2> QED
    BY <1>2, <2>1, <2>2, <2>4, PartsOneByOne DEF parts
<1>3. CASE p = "oai"
  <2> DEFINE text == Text(reply.content)
             T == TextParts(text)
             Q == [i \in DOMAIN calls |-> SkylCall(p, calls[i])]
             R == {[type |-> "text", text |-> text]} \cup {SkylCall(p, calls[i]) : i \in DOMAIN calls}
  <2>1. /\ IsProse(reply.content) /\ SaidText(p, reply) = text
        /\ calls = reply.calls /\ calls \in Seq(ToSet(calls))
    BY <1>3 DEF IsReply, SaidText, SaidCalls
  <2>2. parts = T \o Q
    BY <1>3, <2>1 DEF PartsFrom, PartsFromOai, SkylCall, IdOf
  <2>3. text \in Strings
    BY <2>1, TextAmong
  <2>4. \A x \in R : IsSaid(x)
    BY <2>3 DEF IsSaid, SkylCall, ToolCall
  <2>5. T \in Seq(R) /\ Text(T) = text /\ OfType(T, "tool_call") = <<>>
    <3>1. CASE text = <<>>
      <4>1. T = <<>>
        BY <3>1 DEF TextParts
      <4>2. Text(<<>>) = <<>>
        <5>1. [i \in DOMAIN <<>> |-> IF <<>>[i].type = "text" THEN <<>>[i].text ELSE <<>>] = <<>>
          OBVIOUS
        <5> QED
          BY <5>1, FlattenEmpty DEF Text
      <4>3. OfType(<<>>, "tool_call") = <<>>
        BY AmongEmpty DEF OfType
      <4> QED
        BY <3>1, <4>1, <4>2, <4>3, EmptySeq
    <3>2. CASE text # <<>>
      <4>1. T = <<[type |-> "text", text |-> text]>>
        BY <3>2 DEF TextParts
      <4>2. T \in Seq(R)
        <5>1. [type |-> "text", text |-> text] \in R
          OBVIOUS
        <5> HIDE DEF R
        <5> QED
          BY <4>1, <5>1
      <4>3. \A i \in DOMAIN T : T[i].type # "tool_call"
        BY <4>1
      <4>4. Text(T) = text
        BY <2>3, <4>1, TextOfOne
      <4> HIDE DEF T
      <4>5. OfType(T, "tool_call") = <<>>
        BY <4>2, <4>3, OfTypeNone
      <4> QED
        BY <4>2, <4>4, <4>5
    <3> QED
      BY <3>1, <3>2
  <2>6. Q \in Seq(R) /\ Text(Q) = <<>> /\ OfType(Q, "tool_call") = Q
    <3>1. Len(calls) \in Nat /\ DOMAIN calls = 1 .. Len(calls)
      BY <2>1, LenProperties
    <3>2. Q \in [1 .. Len(calls) -> R]
      BY <3>1
    <3>3. \A i \in DOMAIN Q : Q[i].type = "tool_call"
      BY DEF SkylCall, ToolCall
    <3>4. [i \in DOMAIN Q |-> IF Q[i].type = "text" THEN Q[i].text ELSE <<>>] = [i \in 1 .. Len(calls) |-> <<>>]
      BY <3>1, <3>3
    <3>5. Text(Q) = <<>>
      BY <3>1, <3>4, FlattenNothing DEF Text
    <3> HIDE DEF Q, R
    <3>6. Q \in Seq(R)
      BY <3>1, <3>2, FunctionIsSeq
    <3> QED
      BY <3>3, <3>5, <3>6, OfTypeWhole
  <2> HIDE DEF T, Q, R, text, parts, calls
  <2>7. parts \in Seq(R)
    BY <2>2, <2>5, <2>6, ConcatProperties
  <2>8. parts \in Seq(ToSet(parts)) /\ \A i \in DOMAIN parts : IsSaid(parts[i])
    BY <2>4, <2>7, MembersOf, ElementOfSeq
  <2>9. Text(parts) = text
    <3>1. \A x \in R : x.type = "text" => x.text \in Strings
      BY <2>4 DEF IsSaid
    <3>2. Text(T \o Q) = Text(T) \o Text(Q)
      BY <2>5, <2>6, <3>1, TextConcat
    <3> QED
      BY <2>2, <2>3, <2>5, <2>6, <3>2, ConcatEmptySeq DEF Strings
  <2>10. OfType(parts, "tool_call") = Q
    <3> DEFINE U == {x \in R : x.type = "tool_call"}
    <3>1. /\ OfType(parts, "tool_call") = Among(parts, U) /\ OfType(T, "tool_call") = Among(T, U)
          /\ OfType(Q, "tool_call") = Among(Q, U)
      BY <2>5, <2>6, <2>7, OfTypeIs
    <3> HIDE DEF U
    <3>2. Among(T \o Q, U) = Among(T, U) \o Among(Q, U)
      BY <2>5, <2>6, AmongConcat
    <3> QED
      BY <2>2, <2>5, <2>6, <3>1, <3>2, ConcatEmptySeq
  <2> QED
    BY <2>1, <2>8, <2>9, <2>10 DEF Q, parts, calls, text
<1> QED
  BY <1>1, <1>2, <1>3 DEF Providers

-----------------------------------------------------------------------------
(* What a provider is sent of parts that say something.                    *)

\* A call in the words of a provider.
SentCall(p, call) ==
  CASE p = "oai"       -> OaiCall(call)
    [] p = "gemini"    -> GeminiPart(call)
    [] p = "anthropic" -> AnthropicBlock(call)

\* The wire forms of text and calls.
LEMMA WireForms ==
  ASSUME NEW part, IsSaid(part)
  PROVE  /\ part.type = "text" => GeminiPart(part) = part /\ AnthropicBlock(part) = part
         /\ part.type = "tool_call" =>
              /\ GeminiPart(part) = [type |-> "functionCall", name |-> part.name, args |-> Arguments(part.args)]
              /\ AnthropicBlock(part) = [type |-> "tool_use", id |-> part.id, name |-> part.name,
                                         args |-> Reencoded(Arguments(part.args))]
  BY DEF GeminiPart, AnthropicBlock

\* Parts converted one by one keep text and calls.
LEMMA ConvertedOneByOne ==
  ASSUME NEW p \in {"gemini", "anthropic"}, NEW parts, parts \in Seq(ToSet(parts)),
         \A i \in DOMAIN parts : IsSaid(parts[i]),
         NEW sent, sent = [i \in DOMAIN parts |-> IF p = "gemini" THEN GeminiPart(parts[i])
                                                                  ELSE AnthropicBlock(parts[i])],
         NEW call, call = IF p = "gemini" THEN "functionCall" ELSE "tool_use"
  PROVE  /\ Text(sent) = Text(parts)
         /\ OfType(sent, call) = [k \in DOMAIN OfType(parts, "tool_call") |->
                                    SentCall(p, OfType(parts, "tool_call")[k])]
<1> DEFINE S == ToSet(parts)
           g == [x \in S |-> IF p = "gemini" THEN GeminiPart(x) ELSE AnthropicBlock(x)]
           C == OfType(parts, "tool_call")
<1>1. \A x \in S : IsSaid(x)
  BY DEF ToSet
<1>2. \A x \in S : /\ g[x].type = "text" <=> x.type = "text"
                   /\ x.type = "text" => g[x].text = x.text
                   /\ g[x].type = call <=> x.type = "tool_call"
                   /\ x.type = "tool_call" => g[x] = SentCall(p, x)
  <2> SUFFICES ASSUME NEW x \in S
               PROVE  /\ g[x].type = "text" <=> x.type = "text"
                      /\ x.type = "text" => g[x].text = x.text
                      /\ g[x].type = call <=> x.type = "tool_call"
                      /\ x.type = "tool_call" => g[x] = SentCall(p, x)
    OBVIOUS
  <2>1. IsSaid(x) /\ x.type \in {"text", "tool_call"}
    BY <1>1 DEF IsSaid
  <2>2. CASE x.type = "text"
    BY <2>1, <2>2, WireForms
  <2>3. CASE x.type = "tool_call"
    <3>1. g[x] = SentCall(p, x)
      BY <2>3 DEF SentCall
    <3>2. g[x].type = call
      BY <2>1, <2>3, WireForms
    <3> QED
      BY <2>3, <3>1, <3>2
  <2> QED
    BY <2>1, <2>2, <2>3
<1>3. parts \in Seq(S) /\ \A i \in DOMAIN parts : parts[i] \in S
  BY MembersOf
<1>4. sent = Mapped(parts, g)
  BY <1>3 DEF Mapped
<1>5. C \in Seq({x \in S : x.type = "tool_call"})
  BY <1>3, AmongTyped DEF OfType
<1>6. \A k \in DOMAIN C : C[k] \in S /\ C[k].type = "tool_call"
  <2>1. \A k \in DOMAIN C : C[k] \in {x \in S : x.type = "tool_call"}
    BY <1>5, ElementOfSeq
  <2> QED
    BY <2>1
<1>7. g = [x \in S |-> g[x]]
  OBVIOUS
<1> HIDE DEF S, g, C
<1>8. Text(sent) = Text(parts)
  <2>1. DOMAIN sent = DOMAIN parts /\ \A i \in DOMAIN parts : sent[i] = g[parts[i]]
    BY <1>4 DEF Mapped
  <2> QED
    BY <1>2, <1>3, <2>1, TextSame
<1>9. OfType(sent, call) = Mapped(C, g)
  <2>1. \A x \in S : g[x].type = call <=> x.type = "tool_call"
    BY <1>2
  <2>2. OfType(Mapped(parts, g), call) = Mapped(OfType(parts, "tool_call"), g)
    BY <1>3, <1>7, <2>1, OfTypeMapped
  <2> QED
    BY <1>4, <2>2 DEF C
<1>10. Mapped(C, g) = [k \in DOMAIN C |-> SentCall(p, C[k])]
  BY <1>2, <1>6 DEF Mapped
<1> QED
  BY <1>8, <1>9, <1>10 DEF C

\* A provider is sent the text and the calls of a turn that says something, in one
\* message.
LEMMA MessageSays ==
  ASSUME NEW p \in Providers, NEW parts, parts \in Seq(ToSet(parts)), \A i \in DOMAIN parts : IsSaid(parts[i]),
         NEW ms, ms = ConvertMessage(p, [role |-> "assistant", parts |-> parts])
  PROVE  LET calls == OfType(parts, "tool_call")
         IN  /\ Len(ms) = 1
             /\ SentText(p, ms[1]) = Text(parts)
             /\ SentCalls(p, ms[1]) = [k \in DOMAIN calls |-> SentCall(p, calls[k])]
<1> DEFINE m == [role |-> "assistant", parts |-> parts]
           calls == OfType(parts, "tool_call")
<1>1. CASE p = "oai"
  <2>1. ms = <<OaiTurn(m)>>
    BY <1>1 DEF ConvertMessage, OaiMessages
  <2>2. OfType(parts, "image") = <<>>
    <3>1. \A i \in DOMAIN parts : parts[i].type # "image"
      BY DEF IsSaid
    <3> QED
      BY <3>1, OfTypeNone
  <2>3. /\ OaiTurn(m).content = <<[type |-> "text", text |-> Text(parts)]>>
        /\ OaiTurn(m).calls = [k \in DOMAIN calls |-> OaiCall(calls[k])]
    BY <2>2 DEF OaiTurn
  <2>4. Text(parts) \in Strings
    <3>1. \A x \in ToSet(parts) : x.type = "text" => x.text \in Strings
      BY DEF IsSaid, ToSet
    <3> QED
      BY <3>1, TextAmong DEF IsProse
  <2>5. Text(<<[type |-> "text", text |-> Text(parts)]>>) = Text(parts)
    BY <2>4, TextOfOne
  <2> QED
    BY <1>1, <2>1, <2>3, <2>5 DEF SentText, SentCalls, SentCall
<1>2. CASE p = "gemini"
  <2> DEFINE sent == [i \in DOMAIN parts |-> GeminiPart(parts[i])]
  <2>1. ms = <<GeminiContent(m)>> /\ GeminiContent(m).parts = sent
    BY <1>2 DEF ConvertMessage, GeminiContent
  <2>2. sent = [i \in DOMAIN parts |-> IF p = "gemini" THEN GeminiPart(parts[i]) ELSE AnthropicBlock(parts[i])]
    BY <1>2
  <2> HIDE DEF sent
  <2>3. /\ Text(sent) = Text(parts)
        /\ OfType(sent, "functionCall") = [k \in DOMAIN calls |-> SentCall(p, calls[k])]
    BY <1>2, <2>2, ConvertedOneByOne
  <2> QED
    BY <1>2, <2>1, <2>3 DEF SentText, SentCalls
<1>3. CASE p = "anthropic"
  <2> DEFINE sent == [i \in DOMAIN parts |-> AnthropicBlock(parts[i])]
  <2>1. ms = <<AnthropicMessage(m)>> /\ AnthropicMessage(m).parts = sent
    BY <1>3 DEF ConvertMessage, AnthropicMessage
  <2>2. sent = [i \in DOMAIN parts |-> IF p = "gemini" THEN GeminiPart(parts[i]) ELSE AnthropicBlock(parts[i])]
    BY <1>3
  <2> HIDE DEF sent
  <2>3. /\ Text(sent) = Text(parts)
        /\ OfType(sent, "tool_use") = [k \in DOMAIN calls |-> SentCall(p, calls[k])]
    BY <1>3, <2>2, ConvertedOneByOne
  <2> QED
    BY <1>3, <2>1, <2>3 DEF SentText, SentCalls
<1> QED
  BY <1>1, <1>2, <1>3 DEF Providers

\* A call comes back to its provider as it was said, and to another one the same.
LEMMA CallComesBack ==
  ASSUME NEW p \in Providers, NEW q \in Providers, NEW said
  PROVE  /\ Same(p, q, SentCall(p, SkylCall(q, said)), said)
         /\ Key(p, SentCall(p, SkylCall(q, said)))
              = IF p = "gemini" THEN said.name ELSE IdOf(q, said)
<1> DEFINE call == SkylCall(q, said)
<1>1. /\ call.type = "tool_call" /\ call.id = IdOf(q, said) /\ call.name = said.name
      /\ call.args = Arguments(said.args)
  BY DEF SkylCall, ToolCall
<1>2. IsSaid(call)
  BY <1>1 DEF IsSaid
<1>3. Arguments(call.args) = Arguments(said.args)
  BY <1>1 DEF Arguments
<1>4. said.args # "long" => Reencoded(Arguments(said.args)) = Arguments(said.args)
  BY DEF Arguments, Reencoded
<1> HIDE DEF call
<1>5. CASE p = "oai"
  BY <1>1, <1>3, <1>5 DEF Same, Key, SentCall, OaiCall, IdOf, call
<1>6. CASE p = "gemini"
  <2>1. SentCall(p, call) = [type |-> "functionCall", name |-> call.name, args |-> Arguments(call.args)]
    BY <1>1, <1>2, <1>6, WireForms DEF SentCall
  <2> QED
    BY <1>1, <1>3, <1>6, <2>1 DEF Same, Key, call
<1>7. CASE p = "anthropic"
  <2>1. SentCall(p, call) = [type |-> "tool_use", id |-> call.id, name |-> call.name,
                             args |-> Reencoded(Arguments(call.args))]
    BY <1>1, <1>2, <1>7, WireForms DEF SentCall
  <2> QED
    BY <1>1, <1>3, <1>4, <1>7, <2>1 DEF Same, Key, IdOf, call
<1> QED
  BY <1>5, <1>6, <1>7 DEF Providers

\* A provider is sent its own text and calls in the order in which it said them.
LEMMA OrderKept ==
  ASSUME NEW p \in {"gemini", "anthropic"}, NEW reply, IsReply(p, reply),
         NEW ms, ms = ConvertMessage(p, [role |-> "assistant", parts |-> PartsFrom(p, reply)])
  PROVE  Order(p, ms[1].parts) = Order(p, reply.parts)
<1> DEFINE call == IF p = "gemini" THEN "functionCall" ELSE "tool_use"
           K(s) == {x \in ToSet(s) : x.type = call \/ (x.type = "text" /\ x.text # <<>>)}
           W == Among(reply.parts, K(reply.parts))
           parts == PartsFrom(p, reply)
           sent == ms[1].parts
<1>1. reply.parts \in Seq(ToSet(reply.parts))
  BY DEF IsReply, IsProse
<1>2. Order(p, reply.parts) = [i \in DOMAIN W |-> W[i].type]
  BY DEF Order
<1>3. Order(p, sent) = [i \in DOMAIN Among(sent, K(sent)) |-> Among(sent, K(sent))[i].type]
  BY DEF Order
<1>4. /\ Len(W) \in Nat /\ DOMAIN W = 1 .. Len(W)
      /\ \A i \in DOMAIN W : W[i].type = call \/ (W[i].type = "text" /\ W[i].text # <<>>)
  <2>1. W \in Seq(K(reply.parts))
    BY <1>1, AmongTyped
  <2>2. Len(W) \in Nat /\ DOMAIN W = 1 .. Len(W) /\ \A i \in DOMAIN W : W[i] \in K(reply.parts)
    BY <2>1, LenProperties, ElementOfSeq
  <2> QED
    BY <2>2
<1>5. parts = [i \in DOMAIN W |-> IF W[i].type = "text" THEN W[i] ELSE SkylCall(p, W[i])]
  <2>1. CASE p = "gemini"
    BY <2>1 DEF PartsFrom, PartsFromGemini, Saying, SkylCall, IdOf
  <2>2. CASE p = "anthropic"
    BY <2>2 DEF PartsFrom, PartsFromAnthropic, Saying, SkylCall, IdOf
  <2> QED
    BY <2>1, <2>2
<1>6. sent = [i \in DOMAIN parts |-> IF p = "gemini" THEN GeminiPart(parts[i]) ELSE AnthropicBlock(parts[i])]
  <2>1. CASE p = "gemini"
    BY <2>1 DEF ConvertMessage, GeminiContent
  <2>2. CASE p = "anthropic"
    BY <2>2 DEF ConvertMessage, AnthropicMessage
  <2> QED
    BY <2>1, <2>2
<1> HIDE DEF W, parts, sent
<1>7. \A i \in DOMAIN W : parts[i].type \in {"text", "tool_call"} /\ (parts[i].type = "text" => parts[i] = W[i])
                         /\ (parts[i].type = "text" <=> W[i].type = "text")
  BY <1>5 DEF SkylCall, ToolCall
<1>8. /\ DOMAIN sent = DOMAIN W
      /\ \A i \in DOMAIN W : sent[i].type = W[i].type /\ (sent[i].type = "text" => sent[i].text # <<>>)
  <2>1. DOMAIN sent = DOMAIN W
    BY <1>5, <1>6
  <2>2. ASSUME NEW i \in DOMAIN W
        PROVE  sent[i].type = W[i].type /\ (sent[i].type = "text" => sent[i].text # <<>>)
    <3>1. sent[i] = IF p = "gemini" THEN GeminiPart(parts[i]) ELSE AnthropicBlock(parts[i])
      BY <1>6, <2>1
    <3>2. CASE W[i].type = "text"
      BY <1>4, <1>7, <3>1, <3>2 DEF GeminiPart, AnthropicBlock
    <3>3. CASE W[i].type # "text"
      <4>1. parts[i].type = "tool_call" /\ W[i].type = call
        BY <1>4, <1>7, <3>3
      <4>2. CASE p = "gemini"
        <5>1. sent[i] = GeminiPart(parts[i])
          BY <3>1, <4>2
        <5>2. sent[i].type = "functionCall"
          BY <4>1, <5>1 DEF GeminiPart
        <5> QED
          BY <4>1, <4>2, <5>2
      <4>3. CASE p = "anthropic"
        <5>1. sent[i] = AnthropicBlock(parts[i])
          BY <3>1, <4>3
        <5>2. sent[i].type = "tool_use"
          BY <4>1, <5>1 DEF AnthropicBlock
        <5> QED
          BY <4>1, <4>3, <5>2
      <4> QED
        BY <4>2, <4>3
    <3> QED
      BY <3>2, <3>3
  <2> QED
    BY <2>1, <2>2
<1>9. Among(sent, K(sent)) = sent
  <2>1. \A i \in DOMAIN sent : sent[i] \in K(sent)
    BY <1>4, <1>8 DEF ToSet
  <2>2. sent \in [1 .. Len(W) -> K(sent)]
    BY <1>4, <1>6, <1>8, <2>1
  <2> HIDE DEF K
  <2>3. sent \in Seq(K(sent))
    BY <1>4, <2>2, FunctionIsSeq
  <2> QED
    BY <2>3, AmongWhole
<1>10. [i \in DOMAIN sent |-> sent[i].type] = [i \in DOMAIN W |-> W[i].type]
  BY <1>8
<1>11. Order(p, sent) = [i \in DOMAIN sent |-> sent[i].type]
  BY <1>3, <1>9
<1>12. Order(p, sent) = Order(p, reply.parts)
  BY Zenon, <1>2, <1>10, <1>11
<1> QED
  BY Zenon, <1>12 DEF sent

-----------------------------------------------------------------------------
(* What a provider is sent of results.                                     *)

\* A provider is sent every result of a tool message, in order, under the key it was given,
\* with what the tool returned; and Anthropic whether it is an error.
LEMMA ResultsSay ==
  ASSUME NEW p \in Providers, NEW parts, parts \in Seq(ToSet(parts)),
         \A i \in DOMAIN parts : parts[i].type = "tool_result",
         NEW ms, ms = ConvertMessage(p, [role |-> "tool", parts |-> parts])
  PROVE  /\ Len(SentResults(p, ms)) = Len(parts)
         /\ \A k \in DOMAIN parts :
              LET r == SentResults(p, ms)[k]
              IN  /\ ResultKey(p, r) = parts[k].callId
                  /\ p = "oai" => r.content = OaiResult(parts[k]).content
                  /\ p # "oai" => r.content = parts[k].content
                  /\ p = "anthropic" => r.isError = parts[k].isError
<1>1. Len(parts) \in Nat /\ DOMAIN parts = 1 .. Len(parts)
  BY LenProperties
<1>2. CASE p = "oai"
  <2>1. ms = [i \in DOMAIN parts |-> OaiResult(parts[i])] /\ SentResults(p, ms) = ms
    BY <1>2 DEF ConvertMessage, OaiMessages, SentResults
  <2>2. Len(ms) = Len(parts)
    BY <1>1, <2>1
  <2>3. \A r : OaiResult(r).callId = r.callId
    <3> SUFFICES ASSUME NEW r PROVE OaiResult(r).callId = r.callId
      OBVIOUS
    <3> DEFINE told == IF r.isError /\ r.content # <<>> THEN <<"error">> \o r.content ELSE r.content
    <3>1. OaiResult(r) = [role |-> "tool", callId |-> r.callId, content |-> told]
      BY Zenon DEF OaiResult
    <3> HIDE DEF told
    <3> QED
      BY <3>1
  <2>4. \A k \in DOMAIN parts : ms[k] = OaiResult(parts[k])
    BY <2>1
  <2>5. \A k \in DOMAIN parts : ResultKey(p, ms[k]) = parts[k].callId
    BY <1>2, <2>3, <2>4 DEF ResultKey
  <2> QED
    BY <1>2, <2>1, <2>2, <2>4, <2>5
<1>3. CASE p = "gemini"
  <2> DEFINE sent == [i \in DOMAIN parts |-> GeminiPart(parts[i])]
             R == {GeminiPart(parts[i]) : i \in DOMAIN parts}
  <2>1. SentResults(p, ms) = OfType(sent, "functionResponse")
    BY <1>3 DEF ConvertMessage, GeminiContent, SentResults
  <2>2. \A i \in DOMAIN parts :
          sent[i] = [type |-> "functionResponse", name |-> parts[i].callId, content |-> parts[i].content]
    BY DEF GeminiPart
  <2>3. sent \in [1 .. Len(parts) -> R]
    BY <1>1
  <2>4. DOMAIN sent = DOMAIN parts /\ \A i \in DOMAIN sent : sent[i].type = "functionResponse"
    BY <2>2
  <2> HIDE DEF sent, R
  <2>5. sent \in Seq(R) /\ Len(sent) = Len(parts)
    BY <1>1, <2>3, FunctionIsSeq
  <2>6. OfType(sent, "functionResponse") = sent
    BY <2>4, <2>5, OfTypeWhole
  <2>7. \A k \in DOMAIN parts : ResultKey(p, sent[k]) = parts[k].callId
    <3>1. \A r : ResultKey(p, r) = r.name
      BY Zenon, <1>3 DEF ResultKey
    <3>2. ASSUME NEW k \in DOMAIN parts PROVE sent[k].name = parts[k].callId
      <4>1. sent[k] = [type |-> "functionResponse", name |-> parts[k].callId, content |-> parts[k].content]
        BY Zenon, <2>2
      <4> QED
        BY <4>1
    <3> QED
      BY <3>1, <3>2
  <2>8. SentResults(p, ms) = sent
    BY Zenon, <2>1, <2>6
  <2>9. ASSUME NEW k \in DOMAIN parts PROVE sent[k].content = parts[k].content
    <3>1. sent[k] = [type |-> "functionResponse", name |-> parts[k].callId, content |-> parts[k].content]
      BY Zenon, <2>2
    <3> QED
      BY <3>1
  <2> QED
    BY <1>3, <2>5, <2>7, <2>8, <2>9
<1>4. CASE p = "anthropic"
  <2> DEFINE sent == [i \in DOMAIN parts |-> AnthropicBlock(parts[i])]
             R == {AnthropicBlock(parts[i]) : i \in DOMAIN parts}
  <2>1. SentResults(p, ms) = OfType(sent, "tool_result")
    BY <1>4 DEF ConvertMessage, AnthropicMessage, SentResults
  <2>2. \A i \in DOMAIN parts :
          sent[i] = [type |-> "tool_result", callId |-> parts[i].callId,
                     content |-> parts[i].content, isError |-> parts[i].isError]
    BY DEF AnthropicBlock
  <2>3. sent \in [1 .. Len(parts) -> R]
    BY <1>1
  <2>4. DOMAIN sent = DOMAIN parts /\ \A i \in DOMAIN sent : sent[i].type = "tool_result"
    BY <2>2
  <2> HIDE DEF sent, R
  <2>5. sent \in Seq(R) /\ Len(sent) = Len(parts)
    BY <1>1, <2>3, FunctionIsSeq
  <2>6. OfType(sent, "tool_result") = sent
    BY <2>4, <2>5, OfTypeWhole
  <2>7. \A k \in DOMAIN parts : ResultKey(p, sent[k]) = parts[k].callId
    <3>1. \A r : ResultKey(p, r) = r.callId
      BY Zenon, <1>4 DEF ResultKey
    <3>2. ASSUME NEW k \in DOMAIN parts PROVE sent[k].callId = parts[k].callId
      <4>1. sent[k] = [type |-> "tool_result", callId |-> parts[k].callId,
                       content |-> parts[k].content, isError |-> parts[k].isError]
        BY Zenon, <2>2
      <4> QED
        BY <4>1
    <3> QED
      BY <3>1, <3>2
  <2>8. SentResults(p, ms) = sent
    BY Zenon, <2>1, <2>6
  <2>9. ASSUME NEW k \in DOMAIN parts
        PROVE  sent[k].content = parts[k].content /\ sent[k].isError = parts[k].isError
    <3>1. sent[k] = [type |-> "tool_result", callId |-> parts[k].callId,
                     content |-> parts[k].content, isError |-> parts[k].isError]
      BY Zenon, <2>2
    <3> QED
      BY <3>1
  <2> QED
    BY <1>4, <2>5, <2>7, <2>8, <2>9
<1> QED
  BY <1>2, <1>3, <1>4 DEF Providers

-----------------------------------------------------------------------------
(* Where every turn of the conversation comes from.                        *)

\* A reply, as the caller got it.
FromReply(turn, origin) ==
  \E p \in Providers : \E reply \in Replies[p] :
    /\ origin = ByProvider(p, reply)
    /\ turn = Rendered([role |-> "assistant", parts |-> PartsFrom(p, reply)])

\* A result of a call that a reply has.
Answers(part, at) ==
  /\ at[1] \in DOMAIN history /\ origins[at[1]].by \in Providers
  /\ at[2] \in DOMAIN CallsIn(at[1])
  /\ \E output \in Outputs : part = Result(at[1], at[2], output)

\* Results, one for each call the turn is said to answer.
FromTools(turn, origin) ==
  LET parts == Skyl(turn).parts
  IN  /\ origin = ByTool(origin.answers)
      /\ Skyl(turn) = [role |-> "tool", parts |-> parts]
      /\ turn = Rendered(Skyl(turn))
      /\ parts \in Seq(ToSet(parts)) /\ parts # <<>>
      /\ DOMAIN origin.answers = DOMAIN parts /\ Len(origin.answers) = Len(parts)
      /\ \A k \in DOMAIN parts : Answers(parts[k], origin.answers[k])

TracedTo(turn, origin) ==
  \/ origin = ByCaller
  \/ FromReply(turn, origin)
  \/ FromTools(turn, origin)

TurnsTraced ==
  /\ via \in {"library", "gateway"}
  /\ history \in Seq(ToSet(history)) /\ origins \in Seq(ToSet(origins))
  /\ Len(history) = Len(origins)
  /\ \A i \in DOMAIN history : TracedTo(history[i], origins[i])

\* A request has the messages of this very conversation, and was refused for what is
\* in it.
RequestTraced ==
  /\ outcome \in {"bad_request", "unsupported", "unencodable"} =>
       /\ request.to \in Providers /\ request.settings \in Wishes
       /\ outcome = Verdict(request.to, request.settings)
  /\ request.messages # <<>> =>
       /\ request.to \in Providers
       /\ request.messages = [i \in DOMAIN history |-> ConvertMessage(request.to, Skyl(history[i]))]
  /\ outcome = "waiting" => request.to \in Providers

\* What skyl makes of a caller's turn does not depend on anything but his way in, so a
\* turn that is traced stays so while the conversation grows.
LEMMA TracedStays ==
  ASSUME TurnsTraced, via' = via, NEW turn, NEW origin, TracedTo(turn, origin),
         DOMAIN history \subseteq DOMAIN history',
         \A i \in DOMAIN history : history'[i] = history[i] /\ origins'[i] = origins[i]
  PROVE  TracedTo(turn, origin)'
<1>1. Skyl(turn)' = Skyl(turn) /\ \A m : Rendered(m)' = Rendered(m)
  BY DEF Skyl, Rendered
<1>2. ASSUME NEW part, NEW at, Answers(part, at)
      PROVE  Answers(part, at)'
  <2>1. at[1] \in DOMAIN history /\ history'[at[1]] = history[at[1]] /\ origins'[at[1]] = origins[at[1]]
    BY <1>2 DEF Answers
  <2>2. CallsIn(at[1])' = CallsIn(at[1])
    BY <2>1 DEF CallsIn, Skyl
  <2>3. \A output : Result(at[1], at[2], output)' = Result(at[1], at[2], output)
    BY <2>2 DEF Result
  <2> QED
    BY <1>2, <2>1, <2>2, <2>3 DEF Answers
<1>3. CASE origin = ByCaller
  BY <1>3 DEF TracedTo
<1>4. CASE FromReply(turn, origin)
  BY <1>1, <1>4 DEF TracedTo, FromReply
<1>5. CASE FromTools(turn, origin)
  BY <1>1, <1>2, <1>5 DEF TracedTo, FromTools
<1> QED
  BY <1>3, <1>4, <1>5 DEF TracedTo

\* Text, calls and results that a caller of the gateway is given are, when he sends
\* them back, what they were.
LEMMA BackFromCaller ==
  ASSUME NEW role, NEW parts, parts \in Seq(ToSet(parts)), \A i \in DOMAIN parts : parts[i].type # "image"
  PROVE  Skyl(Rendered([role |-> role, parts |-> parts])) = [role |-> role, parts |-> parts]
<1> DEFINE m == [role |-> role, parts |-> parts]
<1>1. CASE via = "gateway"
  <2>1. \A i \in DOMAIN parts : ToSkylPart(FromSkylPart(parts[i])) = parts[i]
    BY DEF ToSkylPart, FromSkylPart
  <2>2. parts = [i \in DOMAIN parts |-> parts[i]]
    BY MembersOf
  <2>3. FromSkylMessage(m)
          = [role |-> role, text |-> <<>>, content |-> [i \in DOMAIN parts |-> FromSkylPart(parts[i])]]
    BY DEF FromSkylMessage
  <2>4. ToSkylMessage(FromSkylMessage(m))
          = [role |-> role, parts |-> [i \in DOMAIN parts |-> ToSkylPart(FromSkylPart(parts[i]))]]
    BY <2>3 DEF ToSkylMessage
  <2>5. [i \in DOMAIN parts |-> ToSkylPart(FromSkylPart(parts[i]))] = parts
    BY <2>1, <2>2
  <2> QED
    BY <1>1, <2>4, <2>5 DEF Skyl, Rendered
<1>2. CASE via # "gateway"
  BY <1>2 DEF Skyl, Rendered
<1> QED
  BY <1>1, <1>2

\* The conversation grows by a turn that is traced.
LEMMA ExtendTraced ==
  ASSUME TurnsTraced, NEW turn, NEW origin, TracedTo(turn, origin), Extend(turn, origin)
  PROVE  TurnsTraced' /\ RequestTraced'
<1>1. /\ via' = via /\ history' = Append(history, turn) /\ origins' = Append(origins, origin)
      /\ request' = NoRequest /\ outcome' = "ready"
  BY DEF Extend
<1> DEFINE H == ToSet(history) \cup {turn}
           O == ToSet(origins) \cup {origin}
<1>2. history \in Seq(H) /\ origins \in Seq(O) /\ Len(history) \in Nat /\ Len(history) = Len(origins)
  <2>1. \A i \in DOMAIN history : history[i] \in H
    BY DEF ToSet
  <2>2. \A i \in DOMAIN origins : origins[i] \in O
    BY DEF ToSet
  <2>3. /\ history \in [1 .. Len(history) -> ToSet(history)] /\ Len(history) \in Nat
        /\ origins \in [1 .. Len(origins) -> ToSet(origins)] /\ Len(origins) = Len(history)
    BY LenProperties DEF TurnsTraced
  <2>4. history \in [1 .. Len(history) -> H] /\ origins \in [1 .. Len(origins) -> O]
    BY <2>3
  <2> QED
    BY <2>3, <2>4, FunctionIsSeq
<1>3. turn \in H /\ origin \in O
  OBVIOUS
<1> HIDE DEF H, O
<1>4. /\ history' \in Seq(H) /\ Len(history') = Len(history) + 1
      /\ DOMAIN history' = 1 .. Len(history) + 1 /\ DOMAIN history = 1 .. Len(history)
      /\ history'[Len(history) + 1] = turn
      /\ \A i \in DOMAIN history : history'[i] = history[i]
  BY <1>1, <1>2, <1>3, AppendProperties
<1>5. /\ origins' \in Seq(O) /\ Len(origins') = Len(history) + 1
      /\ origins'[Len(history) + 1] = origin
      /\ \A i \in DOMAIN history : origins'[i] = origins[i]
  BY <1>1, <1>2, <1>3, <1>4, AppendProperties
<1>6. DOMAIN history \subseteq DOMAIN history'
  BY <1>2, <1>4
<1>7. ASSUME NEW i \in DOMAIN history' PROVE TracedTo(history[i], origins[i])'
  <2>1. CASE i \in DOMAIN history
    <3>1. TracedTo(history[i], origins[i])
      BY <2>1 DEF TurnsTraced
    <3> DEFINE h == history[i]
               o == origins[i]
    <3>2. history'[i] = h /\ origins'[i] = o
      BY <1>4, <1>5, <2>1
    <3> QED
      BY <1>1, <1>4, <1>5, <1>6, <2>1, <3>1, <3>2, TracedStays
  <2>2. CASE i \notin DOMAIN history
    <3>1. i = Len(history) + 1
      BY <1>2, <1>4, <2>2
    <3> QED
      BY <1>1, <1>4, <1>5, <1>6, <3>1, TracedStays
  <2> QED
    BY <2>1, <2>2
<1>8. TurnsTraced'
  <2>1. history' \in Seq(ToSet(history')) /\ origins' \in Seq(ToSet(origins'))
    BY <1>4, <1>5, MembersOf
  <2>2. via' \in {"library", "gateway"}
    BY <1>1 DEF TurnsTraced
  <2> QED
    BY <1>4, <1>5, <1>7, <2>1, <2>2 DEF TurnsTraced
<1>9. RequestTraced'
  BY <1>1 DEF RequestTraced, NoRequest
<1> QED
  BY <1>8, <1>9

\* What depends on the conversation only stays while it does.
LEMMA NothingAppended ==
  ASSUME TurnsTraced, UNCHANGED <<via, history, origins>>
  PROVE  /\ TurnsTraced'
         /\ \A turn : Skyl(turn)' = Skyl(turn)
         /\ \A p, s : Verdict(p, s)' = Verdict(p, s)
<1>1. \A turn : Skyl(turn)' = Skyl(turn)
  BY DEF Skyl
<1>2. \A p, s : Verdict(p, s)' = Verdict(p, s)
  BY DEF Verdict, Skyl, SkylSettings
<1>3. ASSUME NEW i \in DOMAIN history PROVE TracedTo(history[i], origins[i])'
  <2>1. TracedTo(history[i], origins[i])
    BY DEF TurnsTraced
  <2> QED
    BY <2>1 DEF TracedTo, FromReply, FromTools, Answers, Result, CallsIn, Skyl, Rendered
<1>4. TurnsTraced'
  BY <1>3 DEF TurnsTraced
<1> QED
  BY <1>1, <1>2, <1>4

\* Results that answer calls make a turn that does.
LEMMA ResultsTraced ==
  ASSUME NEW parts, parts \in Seq(ToSet(parts)), parts # <<>>,
         \A k \in DOMAIN parts : parts[k].type = "tool_result",
         NEW answers, DOMAIN answers = DOMAIN parts, Len(answers) = Len(parts),
         \A k \in DOMAIN parts : Answers(parts[k], answers[k])
  PROVE  TracedTo(Rendered([role |-> "tool", parts |-> parts]), ByTool(answers))
<1> DEFINE m == [role |-> "tool", parts |-> parts]
<1>1. Skyl(Rendered(m)) = m
  BY BackFromCaller
<1>2. Skyl(Rendered(m)).parts = parts /\ Rendered(m) = Rendered(Skyl(Rendered(m)))
  BY <1>1
<1>3. ByTool(answers).answers = answers /\ ByTool(answers) = ByTool(ByTool(answers).answers)
  BY DEF ByTool
<1> QED
  BY <1>1, <1>2, <1>3 DEF TracedTo, FromTools

\* What there is to know of a turn that a provider replied.
LEMMA ReplyTurn ==
  ASSUME TurnsTraced, NEW i \in DOMAIN history, origins[i].by \in Providers
  PROVE  LET q    == origins[i].by
             said == origins[i].reply
         IN  /\ IsReply(q, said)
             /\ history[i] = Rendered([role |-> "assistant", parts |-> PartsFrom(q, said)])
             /\ Skyl(history[i]) = [role |-> "assistant", parts |-> PartsFrom(q, said)]
             /\ CallsIn(i) = [k \in DOMAIN SaidCalls(q, said) |-> SkylCall(q, SaidCalls(q, said)[k])]
<1>1. TracedTo(history[i], origins[i])
  BY DEF TurnsTraced
<1>2. origins[i] # ByCaller /\ ~ FromTools(history[i], origins[i])
  BY DEF ByCaller, FromTools, ByTool, Providers
<1>3. PICK q \in Providers : \E reply \in Replies[q] :
         /\ origins[i] = ByProvider(q, reply)
         /\ history[i] = Rendered([role |-> "assistant", parts |-> PartsFrom(q, reply)])
  BY <1>1, <1>2 DEF TracedTo, FromReply
<1>4. PICK said \in Replies[q] :
         /\ origins[i] = ByProvider(q, said)
         /\ history[i] = Rendered([role |-> "assistant", parts |-> PartsFrom(q, said)])
  BY <1>3
<1>5. origins[i].by = q /\ origins[i].reply = said
  BY <1>4 DEF ByProvider
<1>6. IsReply(q, said)
  BY <1>3, <1>4, ConversationAssumption
<1> DEFINE parts == PartsFrom(q, said)
<1>7. /\ parts \in Seq(ToSet(parts)) /\ \A k \in DOMAIN parts : IsSaid(parts[k])
      /\ OfType(parts, "tool_call") = [k \in DOMAIN SaidCalls(q, said) |-> SkylCall(q, SaidCalls(q, said)[k])]
  BY <1>6, PartsSay
<1> HIDE DEF parts
<1>8. \A k \in DOMAIN parts : parts[k].type # "image"
  BY <1>7 DEF IsSaid
<1>9. Skyl(history[i]) = [role |-> "assistant", parts |-> parts]
  BY <1>4, <1>7, <1>8, BackFromCaller DEF parts
<1>10. CallsIn(i) = OfType(parts, "tool_call")
  BY <1>9 DEF CallsIn
<1> QED
  BY <1>4, <1>5, <1>6, <1>7, <1>9, <1>10 DEF parts

\* The calls of a reply are a sequence.
LEMMA CallsAre ==
  ASSUME TurnsTraced, NEW t \in DOMAIN history, origins[t].by \in Providers
  PROVE  Len(CallsIn(t)) \in Nat /\ DOMAIN CallsIn(t) = 1 .. Len(CallsIn(t))
<1> DEFINE q    == origins[t].by
           said == origins[t].reply
<1>1. IsReply(q, said) /\ CallsIn(t) = [k \in DOMAIN SaidCalls(q, said) |-> SkylCall(q, SaidCalls(q, said)[k])]
  BY ReplyTurn
<1>2. SaidCalls(q, said) \in Seq(ToSet(SaidCalls(q, said)))
  BY <1>1, PartsSay
<1>3. Len(SaidCalls(q, said)) \in Nat /\ DOMAIN SaidCalls(q, said) = 1 .. Len(SaidCalls(q, said))
  BY <1>2, LenProperties
<1> QED
  BY <1>1, <1>3

\* Every step but Ask and a failure appends a turn, and every turn is traced.
LEMMA TurnsTracedInvariant ==
  Spec => [](TurnsTraced /\ RequestTraced)
<1>1. Init => TurnsTraced /\ RequestTraced
  <2> SUFFICES ASSUME Init PROVE TurnsTraced /\ RequestTraced
    OBVIOUS
  <2>1. history = <<>> /\ origins = <<>>
    BY DEF Init
  <2>2. history \in Seq(ToSet(history)) /\ origins \in Seq(ToSet(origins)) /\ DOMAIN history = {}
    BY <2>1, EmptySeq
  <2> QED
    BY <2>1, <2>2 DEF Init, NoRequest, TurnsTraced, RequestTraced
<1>2. TurnsTraced /\ RequestTraced /\ [Next]_vars => (TurnsTraced /\ RequestTraced)'
  <2> SUFFICES ASSUME TurnsTraced, RequestTraced, [Next]_vars
               PROVE  TurnsTraced' /\ RequestTraced'
    OBVIOUS
  <2>1. ASSUME NEW kind, Fail(kind), outcome = "waiting",
               kind \notin {"bad_request", "unsupported", "unencodable", "waiting"}
        PROVE  TurnsTraced' /\ RequestTraced'
    <3>1. UNCHANGED <<via, history, origins>> /\ request' = request /\ outcome' = kind
      BY <2>1 DEF Fail
    <3> QED
      BY <2>1, <3>1, NothingAppended DEF RequestTraced
  <2>2. CASE WriteTurn
    <3>1. PICK turn : Extend(turn, ByCaller)
      BY <2>2 DEF WriteTurn
    <3>2. TracedTo(turn, ByCaller)
      BY DEF TracedTo
    <3> QED
      BY <3>1, <3>2, ExtendTraced
  <2>3. CASE AnswerCall
    <3>1. PICK t \in LastReply : \E k \in DOMAIN CallsIn(t), output \in Outputs :
                 Extend(Rendered([role |-> "tool", parts |-> <<Result(t, k, output)>>]), ByTool(<<<<t, k>>>>))
      BY <2>3 DEF AnswerCall
    <3>2. PICK k \in DOMAIN CallsIn(t), output \in Outputs :
                 Extend(Rendered([role |-> "tool", parts |-> <<Result(t, k, output)>>]), ByTool(<<<<t, k>>>>))
      BY <3>1
    <3>3. t \in DOMAIN history /\ origins[t].by \in Providers
      BY DEF LastReply, TurnsTraced
    <3> DEFINE parts == <<Result(t, k, output)>>
               answers == <<<<t, k>>>>
    <3>4. \A j \in DOMAIN parts : Answers(parts[j], answers[j])
      <4>1. Answers(Result(t, k, output), <<t, k>>)
        BY <3>3 DEF Answers
      <4> QED
        BY <4>1
    <3>5. /\ parts \in Seq(ToSet(parts)) /\ parts # <<>> /\ \A j \in DOMAIN parts : parts[j].type = "tool_result"
          /\ DOMAIN answers = DOMAIN parts /\ Len(answers) = Len(parts)
      <4>1. parts \in Seq({Result(t, k, output)})
        OBVIOUS
      <4>2. parts \in Seq(ToSet(parts))
        BY <4>1, MembersOf
      <4>3. Result(t, k, output).type = "tool_result"
        BY DEF Result
      <4> QED
        BY <4>2, <4>3
    <3> HIDE DEF parts, answers
    <3>6. TracedTo(Rendered([role |-> "tool", parts |-> parts]), ByTool(answers))
      BY <3>4, <3>5, ResultsTraced
    <3> QED
      BY <3>2, <3>6, ExtendTraced DEF parts, answers
  <2>4. CASE AnswerCalls
    <3>1. PICK t \in LastReply :
            /\ Len(CallsIn(t)) > 1
            /\ \E outputs \in [DOMAIN CallsIn(t) -> Outputs] :
                 Extend(Rendered([role  |-> "tool",
                                  parts |-> [k \in DOMAIN CallsIn(t) |-> Result(t, k, outputs[k])]]),
                        ByTool([k \in DOMAIN CallsIn(t) |-> <<t, k>>]))
      BY <2>4 DEF AnswerCalls
    <3>2. PICK outputs \in [DOMAIN CallsIn(t) -> Outputs] :
                 Extend(Rendered([role  |-> "tool",
                                  parts |-> [k \in DOMAIN CallsIn(t) |-> Result(t, k, outputs[k])]]),
                        ByTool([k \in DOMAIN CallsIn(t) |-> <<t, k>>]))
      BY <3>1
    <3>3. t \in DOMAIN history /\ origins[t].by \in Providers
      BY DEF LastReply, TurnsTraced
    <3> DEFINE calls == CallsIn(t)
               parts == [k \in DOMAIN calls |-> Result(t, k, outputs[k])]
               answers == [k \in DOMAIN calls |-> <<t, k>>]
    <3>4. Len(calls) \in Nat /\ Len(calls) > 1 /\ DOMAIN calls = 1 .. Len(calls)
      BY <3>1, <3>3, CallsAre
    <3>5. \A j \in DOMAIN parts : Answers(parts[j], answers[j])
      BY <3>3 DEF Answers
    <3>6. /\ parts \in Seq(ToSet(parts)) /\ parts # <<>> /\ \A j \in DOMAIN parts : parts[j].type = "tool_result"
          /\ DOMAIN answers = DOMAIN parts /\ Len(answers) = Len(parts)
      <4> DEFINE R == {Result(t, k, outputs[k]) : k \in DOMAIN calls}
      <4>1. parts \in [1 .. Len(calls) -> R]
        BY <3>4
      <4>2. parts \in Seq(R)
        BY <3>4, <4>1, FunctionIsSeq
      <4>3. parts \in Seq(ToSet(parts))
        BY <4>2, MembersOf
      <4>4. \A j \in DOMAIN parts : parts[j].type = "tool_result"
        BY DEF Result
      <4>5. 1 \in DOMAIN parts
        BY <3>4
      <4>6. DOMAIN answers = DOMAIN parts /\ Len(answers) = Len(parts)
        BY <3>4
      <4> QED
        BY <4>3, <4>4, <4>5, <4>6
    <3> HIDE DEF parts, answers
    <3>7. TracedTo(Rendered([role |-> "tool", parts |-> parts]), ByTool(answers))
      BY <3>5, <3>6, ResultsTraced
    <3> QED
      BY <3>2, <3>7, ExtendTraced DEF parts, answers, calls
  <2>5. ASSUME NEW p \in Providers, NEW s \in WishesNow, Ask(p, s)
        PROVE  TurnsTraced' /\ RequestTraced'
    <3>1. s \in Wishes
      BY ConversationAssumption DEF WishesNow
    <3>2. UNCHANGED <<via, history, origins>> /\ outcome' = Verdict(p, s)
      BY <2>5 DEF Ask
    <3>3. /\ TurnsTraced' /\ \A turn : Skyl(turn)' = Skyl(turn)
          /\ \A q, w : Verdict(q, w)' = Verdict(q, w)
      BY <3>2, NothingAppended
    <3>4. request'.to = p /\ request'.settings = s
      BY <2>5 DEF Ask, NoRequest
    <3>5. request'.messages # <<>> =>
            request'.messages = [i \in DOMAIN history |-> ConvertMessage(p, Skyl(history[i]))]
      BY <2>5 DEF Ask, NoRequest
    <3>6. [i \in DOMAIN history |-> ConvertMessage(p, Skyl(history[i]))]'
            = [i \in DOMAIN history |-> ConvertMessage(p, Skyl(history[i]))]
      BY <3>2, <3>3
    <3> QED
      BY <3>1, <3>2, <3>3, <3>4, <3>5, <3>6 DEF RequestTraced
  <2>6. CASE Reply
    <3>1. request.to \in Providers /\ outcome = "waiting"
      BY <2>6 DEF Reply, RequestTraced
    <3> DEFINE p == request.to
    <3>2. CASE Fail("refused") \/ Fail("unreadable")
      BY <2>1, <3>1, <3>2
    <3>3. CASE \E reply \in Replies[p] :
                 Extend(Rendered([role |-> "assistant", parts |-> PartsFrom(p, reply)]), ByProvider(p, reply))
      <4>1. PICK reply \in Replies[p] :
                 Extend(Rendered([role |-> "assistant", parts |-> PartsFrom(p, reply)]), ByProvider(p, reply))
        BY <3>3
      <4>2. TracedTo(Rendered([role |-> "assistant", parts |-> PartsFrom(p, reply)]), ByProvider(p, reply))
        BY <3>1 DEF TracedTo, FromReply
      <4> QED
        BY <4>1, <4>2, ExtendTraced
    <3> QED
      BY <2>6, <3>2, <3>3 DEF Reply
  <2>7. CASE ProviderFails
    BY <2>1, <2>7 DEF ProviderFails
  <2>8. CASE UNCHANGED vars
    <3>1. UNCHANGED <<via, history, origins>> /\ request' = request /\ outcome' = outcome
      BY <2>8 DEF vars
    <3>2. /\ TurnsTraced' /\ \A turn : Skyl(turn)' = Skyl(turn)
          /\ \A q, w : Verdict(q, w)' = Verdict(q, w)
      BY <3>1, NothingAppended
    <3>3. [i \in DOMAIN history |-> ConvertMessage(request.to, Skyl(history[i]))]'
            = [i \in DOMAIN history |-> ConvertMessage(request.to, Skyl(history[i]))]
      BY <3>1, <3>2
    <3> QED
      BY <3>1, <3>2, <3>3 DEF RequestTraced
  <2> QED
    BY <2>2, <2>3, <2>4, <2>5, <2>6, <2>7, <2>8 DEF Next
<1> QED
  BY <1>1, <1>2, PTL DEF Spec

-----------------------------------------------------------------------------
(* What every request carries.                                             *)

\* TurnsCarried, whatever was said and however long the conversation: the way from
\* a provider through the caller to any provider loses no text and no call.
THEOREM EveryTurnCarried ==
  Spec => []TurnsCarried
<1>1. TurnsTraced /\ RequestTraced => TurnsCarried
  <2> SUFFICES ASSUME TurnsTraced, RequestTraced, request.messages # <<>>,
                      NEW i \in DOMAIN history, origins[i].by \in Providers
               PROVE  LET p       == request.to
                          q       == origins[i].by
                          said    == origins[i].reply
                          message == request.messages[i][1]
                      IN  /\ Len(request.messages[i]) = 1
                          /\ SentText(p, message) = SaidText(q, said)
                          /\ Len(SentCalls(p, message)) = Len(SaidCalls(q, said))
                          /\ \A k \in DOMAIN SaidCalls(q, said) :
                               Same(p, q, SentCalls(p, message)[k], SaidCalls(q, said)[k])
                          /\ p = q /\ p # "oai" => Order(p, message.parts) = Order(p, said.parts)
    BY DEF TurnsCarried
  <2> DEFINE p     == request.to
             q     == origins[i].by
             said  == origins[i].reply
             parts == PartsFrom(q, said)
             ms    == request.messages[i]
             calls == SaidCalls(q, said)
  <2>1. p \in Providers /\ ms = ConvertMessage(p, Skyl(history[i]))
    BY DEF RequestTraced
  <2>2. q \in Providers /\ IsReply(q, said) /\ Skyl(history[i]) = [role |-> "assistant", parts |-> parts]
    BY ReplyTurn
  <2>3. ms = ConvertMessage(p, [role |-> "assistant", parts |-> parts])
    BY <2>1, <2>2
  <2>4. /\ parts \in Seq(ToSet(parts)) /\ \A k \in DOMAIN parts : IsSaid(parts[k])
        /\ Text(parts) = SaidText(q, said)
        /\ calls \in Seq(ToSet(calls))
        /\ OfType(parts, "tool_call") = [k \in DOMAIN calls |-> SkylCall(q, calls[k])]
    BY <2>2, PartsSay
  <2> HIDE DEF parts, ms, calls, p, q, said
  <2>5. /\ Len(ms) = 1
        /\ SentText(p, ms[1]) = Text(parts)
        /\ SentCalls(p, ms[1]) = [k \in DOMAIN OfType(parts, "tool_call") |->
                                    SentCall(p, OfType(parts, "tool_call")[k])]
    BY <2>1, <2>3, <2>4, MessageSays
  <2>6. SentCalls(p, ms[1]) = [k \in DOMAIN calls |-> SentCall(p, SkylCall(q, calls[k]))]
    BY <2>4, <2>5
  <2>7. Len(SentCalls(p, ms[1])) = Len(calls)
    <3>1. DOMAIN calls = 1 .. Len(calls) /\ Len(calls) \in Nat
      BY <2>4, LenProperties
    <3> QED
      BY <2>6, <3>1
  <2>8. \A k \in DOMAIN calls : Same(p, q, SentCalls(p, ms[1])[k], calls[k])
    <3>1. \A k \in DOMAIN calls : Same(p, q, SentCall(p, SkylCall(q, calls[k])), calls[k])
      BY <2>1, <2>2, CallComesBack
    <3> QED
      BY <2>6, <3>1
  <2>9. ASSUME p = q, p # "oai" PROVE Order(p, ms[1].parts) = Order(p, said.parts)
    <3>1. p \in {"gemini", "anthropic"} /\ IsReply(p, said)
      BY <2>1, <2>2, <2>9 DEF Providers
    <3>2. ms = ConvertMessage(p, [role |-> "assistant", parts |-> PartsFrom(p, said)])
      BY <2>3, <2>9 DEF parts
    <3> QED
      BY <3>1, <3>2, OrderKept
  <2> QED
    BY <2>4, <2>5, <2>7, <2>8, <2>9 DEF p, q, said, ms, calls
<1> QED
  BY <1>1, TurnsTracedInvariant, PTL

\* What there is to know of a turn that answers calls.
LEMMA ToolTurn ==
  ASSUME TurnsTraced, NEW n \in DOMAIN history, origins[n].by = "tool"
  PROVE  LET parts   == Skyl(history[n]).parts
             answers == origins[n].answers
         IN  /\ history[n] = Rendered([role |-> "tool", parts |-> parts])
             /\ Skyl(history[n]) = [role |-> "tool", parts |-> parts]
             /\ parts \in Seq(ToSet(parts)) /\ parts # <<>>
             /\ DOMAIN answers = DOMAIN parts /\ Len(answers) = Len(parts)
             /\ \A k \in DOMAIN parts :
                  /\ Answers(parts[k], answers[k])
                  /\ parts[k].type = "tool_result"
                  /\ parts[k].callId = CallsIn(answers[k][1])[answers[k][2]].id
                  /\ parts[k].content \in Strings
<1>1. TracedTo(history[n], origins[n])
  BY DEF TurnsTraced
<1>2. origins[n] # ByCaller /\ ~ FromReply(history[n], origins[n])
  <2>1. FromReply(history[n], origins[n]) => \E p \in Providers : \E reply : origins[n] = ByProvider(p, reply)
    BY DEF FromReply
  <2>2. \A p \in Providers : \A reply : ByProvider(p, reply).by = p /\ p # "tool"
    BY DEF ByProvider, Providers
  <2> QED
    BY <2>1, <2>2 DEF ByCaller
<1>3. FromTools(history[n], origins[n])
  BY <1>1, <1>2 DEF TracedTo
<1>4. \A part, at : Answers(part, at) => /\ part.type = "tool_result" /\ part.callId = CallsIn(at[1])[at[2]].id
                                        /\ part.content \in Strings
  <2> SUFFICES ASSUME NEW part, NEW at, Answers(part, at)
               PROVE  /\ part.type = "tool_result" /\ part.callId = CallsIn(at[1])[at[2]].id
                      /\ part.content \in Strings
    OBVIOUS
  <2>1. PICK output \in Outputs : part = Result(at[1], at[2], output)
    BY DEF Answers
  <2>2. output.content \in Strings
    BY ConversationAssumption
  <2> QED
    BY <2>1, <2>2 DEF Result
<1> QED
  BY <1>3, <1>4 DEF FromTools

\* The oai adapter tells a result that is an error from one that is not, by a word
\* put before what the tool returned.
LEMMA ErrorTold ==
  ASSUME NEW r, r.content \in Strings
  PROVE  /\ OaiResult(r).content \in {r.content, <<"error">> \o r.content}
         /\ r.isError /\ r.content # <<>> => OaiResult(r).content # r.content
<1> DEFINE told == <<"error">> \o r.content
<1>1. told # r.content
  <2> DEFINE T == STRING \cup {"error"}
  <2>1. r.content \in Seq(T) /\ Len(r.content) \in Nat
    <3>1. r.content \in [1 .. Len(r.content) -> STRING] /\ Len(r.content) \in Nat
      BY LenProperties DEF Strings
    <3>2. r.content \in [1 .. Len(r.content) -> T]
      BY <3>1
    <3> QED
      BY <3>1, <3>2, FunctionIsSeq
  <2>2. <<"error">> \in Seq(T) /\ Len(<<"error">>) = 1
    <3>1. "error" \in T
      OBVIOUS
    <3> HIDE DEF T
    <3> QED
      BY <3>1
  <2> HIDE DEF T
  <2>3. Len(told) = 1 + Len(r.content)
    BY <2>1, <2>2, ConcatProperties
  <2> QED
    BY <2>1, <2>3
<1> HIDE DEF told
<1>2. OaiResult(r) = [role |-> "tool", callId |-> r.callId,
                      content |-> IF r.isError /\ r.content # <<>> THEN told ELSE r.content]
  BY Zenon DEF OaiResult, told
<1>3. OaiResult(r).content = IF r.isError /\ r.content # <<>> THEN told ELSE r.content
  BY <1>2
<1>4. OaiResult(r).content \in {r.content, told} /\ (r.isError /\ r.content # <<>> => OaiResult(r).content = told)
  BY Zenon, <1>3
<1> QED
  BY Zenon, <1>1, <1>4 DEF told

\* ResultsReachTheirCalls, whoever made the calls and however the results were sent
\* back: together in one turn, or one by one.
THEOREM EveryResultReachesItsCall ==
  Spec => []ResultsReachTheirCalls
<1>1. TurnsTraced /\ RequestTraced => ResultsReachTheirCalls
  <2> SUFFICES ASSUME TurnsTraced, RequestTraced, request.messages # <<>>,
                      NEW n \in DOMAIN history, origins[n].by = "tool"
               PROVE  /\ Len(SentResults(request.to, request.messages[n])) = Len(origins[n].answers)
                      /\ \A k \in DOMAIN origins[n].answers :
                           (request.to = "gemini" => origins[origins[n].answers[k][1]].by = "gemini")
                             => Reaches(request.to, n, k)
    BY DEF ResultsReachTheirCalls, Results
  <2> DEFINE p       == request.to
             ms      == request.messages[n]
             parts   == Skyl(history[n]).parts
             answers == origins[n].answers
  <2>1. p \in Providers /\ request.messages = [i \in DOMAIN history |-> ConvertMessage(p, Skyl(history[i]))]
    BY DEF RequestTraced
  <2>2. /\ Skyl(history[n]) = [role |-> "tool", parts |-> parts]
        /\ parts \in Seq(ToSet(parts))
        /\ DOMAIN answers = DOMAIN parts /\ Len(answers) = Len(parts)
        /\ \A k \in DOMAIN parts :
             /\ Answers(parts[k], answers[k])
             /\ parts[k].type = "tool_result"
             /\ parts[k].callId = CallsIn(answers[k][1])[answers[k][2]].id
             /\ parts[k].content \in Strings
    BY ToolTurn
  <2>3. ms = ConvertMessage(p, [role |-> "tool", parts |-> parts])
    BY <2>1, <2>2
  <2> HIDE DEF parts, answers, ms, p
  <2>4. /\ Len(SentResults(p, ms)) = Len(parts)
        /\ \A k \in DOMAIN parts :
             LET r == SentResults(p, ms)[k]
             IN  /\ ResultKey(p, r) = parts[k].callId
                 /\ p = "oai" => r.content = OaiResult(parts[k]).content
                 /\ p # "oai" => r.content = parts[k].content
                 /\ p = "anthropic" => r.isError = parts[k].isError
    BY <2>1, <2>2, <2>3, ResultsSay
  <2>5. OfType(parts, "tool_result") = parts
    BY <2>2, OfTypeWhole
  <2>6. ASSUME NEW k \in DOMAIN answers, p = "gemini" => origins[answers[k][1]].by = "gemini"
        PROVE  Reaches(p, n, k)
    <3> DEFINE t      == answers[k][1]
               j      == answers[k][2]
               result == SentResults(p, ms)[k]
               call   == SentCalls(p, request.messages[t][1])[j]
               given  == parts[k]
               q      == origins[t].by
               said   == origins[t].reply
    <3>0. /\ t = origins[n].answers[k][1] /\ j = origins[n].answers[k][2]
          /\ result = SentResults(p, request.messages[n])[k]
          /\ call = SentCalls(p, request.messages[t][1])[j]
          /\ given = OfType(Skyl(history[n]).parts, "tool_result")[k]
      BY Zenon, <2>5 DEF answers, ms, parts
    <3>1. t \in DOMAIN history /\ q \in Providers /\ j \in DOMAIN CallsIn(t) /\ given.callId = CallsIn(t)[j].id
      BY <2>2 DEF Answers
    <3>2. /\ IsReply(q, said)
          /\ Skyl(history[t]) = [role |-> "assistant", parts |-> PartsFrom(q, said)]
          /\ CallsIn(t) = [i \in DOMAIN SaidCalls(q, said) |-> SkylCall(q, SaidCalls(q, said)[i])]
      BY <3>1, ReplyTurn
    <3>3. request.messages[t] = ConvertMessage(p, [role |-> "assistant", parts |-> PartsFrom(q, said)])
      BY <2>1, <3>1, <3>2
    <3>4. /\ PartsFrom(q, said) \in Seq(ToSet(PartsFrom(q, said)))
          /\ \A i \in DOMAIN PartsFrom(q, said) : IsSaid(PartsFrom(q, said)[i])
      BY <3>1, <3>2, PartsSay
    <3>5. CallsIn(t) = OfType(PartsFrom(q, said), "tool_call")
      BY <3>2 DEF CallsIn
    <3> HIDE DEF q, said, t, j
    <3>6. SentCalls(p, request.messages[t][1])
            = [i \in DOMAIN OfType(PartsFrom(q, said), "tool_call") |->
                 SentCall(p, OfType(PartsFrom(q, said), "tool_call")[i])]
      BY <2>1, <3>3, <3>4, MessageSays
    <3>7. call = SentCall(p, SkylCall(q, SaidCalls(q, said)[j]))
      BY <3>1, <3>2, <3>5, <3>6
    <3>8. given.callId = IdOf(q, SaidCalls(q, said)[j])
      BY <3>1, <3>2 DEF SkylCall, ToolCall
    <3>9. Key(p, call) = IF p = "gemini" THEN SaidCalls(q, said)[j].name ELSE given.callId
      BY <2>1, <3>1, <3>7, <3>8, CallComesBack
    <3>10. p = "gemini" => given.callId = SaidCalls(q, said)[j].name
      BY <2>6, <3>8 DEF IdOf, q, t
    <3>11. ResultKey(p, result) = Key(p, call)
      BY <2>2, <2>4, <2>6, <3>9, <3>10
    <3>12. CASE p = "oai"
      <4>1. result.content = OaiResult(given).content
        BY <2>2, <2>4, <2>6, <3>12
      <4>2. given.content \in Strings
        BY <2>2, <2>6
      <4>3. /\ result.content \in {given.content, <<"error">> \o given.content}
            /\ given.isError /\ given.content # <<>> => result.content # given.content
        BY Zenon, <4>1, <4>2, ErrorTold
      <4> QED
        BY Zenon, <3>0, <3>11, <3>12, <4>3 DEF Reaches
    <3>13. CASE p = "gemini"
      <4>1. result.content = given.content
        BY <2>2, <2>4, <2>6, <3>13
      <4> QED
        BY Zenon, <3>0, <3>11, <3>13, <4>1 DEF Reaches
    <3>14. CASE p = "anthropic"
      <4>1. result.content = given.content /\ result.isError = given.isError
        BY <2>2, <2>4, <2>6, <3>14
      <4> QED
        BY Zenon, <3>0, <3>11, <3>14, <4>1 DEF Reaches
    <3> QED
      BY <2>1, <3>12, <3>13, <3>14 DEF Providers
  <2> QED
    BY <2>2, <2>4, <2>6 DEF p, ms, answers
<1> QED
  BY <1>1, TurnsTracedInvariant, PTL

-----------------------------------------------------------------------------
(* What every provider accepts.                                            *)

\* A turn that is no reason to refuse a request, to provider p.
Accepted(p, turn) ==
  /\ via = "gateway" => Convertible(turn)
  /\ ValidMessage(Skyl(turn))
  /\ ~ Unsupported(p, Skyl(turn))
  /\ Encodable(p, Skyl(turn))

\* No provider minds text and images that the caller has written plainly.
LEMMA PlainAccepted ==
  ASSUME TurnsTraced, NEW p \in Providers, NEW turn, Plain(turn)
  PROVE  Accepted(p, turn)
<1> DEFINE m == Skyl(turn)
<1>1. m.role = "user"
  BY DEF Plain, Skyl, ToSkylMessage
<1>2. /\ m.parts # <<>> /\ (via = "gateway" => Convertible(turn))
      /\ \A i \in DOMAIN m.parts :
           \/ m.parts[i].type = "text"
           \/ /\ m.parts[i].type = "image" /\ m.parts[i].data # <<>>
              /\ m.parts[i].media # "" /\ m.parts[i].url = ""
  BY DEF Plain
<1> HIDE DEF m
<1>3. ValidMessage(m)
  BY <1>1, <1>2 DEF ValidMessage, ValidPart, Roles
<1>4. ~ Unsupported(p, m)
  <2>1. OaiForms("user") = {"text", "image"}
    BY DEF OaiForms
  <2> QED
    BY <1>1, <1>2, <2>1 DEF Unsupported
<1>5. Encodable(p, m)
  BY <1>2 DEF Encodable
<1> QED
  BY <1>2, <1>3, <1>4, <1>5 DEF Accepted, m

\* Text and calls, or results, as skyl has them, come from the caller as they were, and
\* the gateway takes them.
LEMMA RenderedConverts ==
  ASSUME via = "gateway", NEW role \in Roles, NEW parts,
         \A i \in DOMAIN parts : parts[i].type \in {"text", "tool_call", "tool_result"} /\ ValidPart(parts[i])
  PROVE  Convertible(Rendered([role |-> role, parts |-> parts]))
<1> DEFINE turn == FromSkylMessage([role |-> role, parts |-> parts])
<1>1. turn = [role |-> role, text |-> <<>>, content |-> [i \in DOMAIN parts |-> FromSkylPart(parts[i])]]
  BY DEF FromSkylMessage
<1>2. \A i \in DOMAIN parts : FromSkylPart(parts[i]) = parts[i]
  BY DEF FromSkylPart
<1>3. ASSUME NEW part, part.type \in {"text", "tool_call", "tool_result"}, ValidPart(part)
      PROVE  ConvertiblePart(part)
  BY <1>3 DEF ValidPart, ConvertiblePart
<1> HIDE DEF turn
<1>4. turn.role \in Roles /\ turn.text = <<>> /\ \A i \in DOMAIN turn.content : ConvertiblePart(turn.content[i])
  BY <1>1, <1>2, <1>3
<1>5. Convertible(turn)
  BY <1>4 DEF Convertible
<1> QED
  BY <1>5 DEF Rendered, turn

\* No provider minds a reply that says something and is whole.
LEMMA ReplyAccepted ==
  ASSUME TurnsTraced, NEW p \in Providers, NEW i \in DOMAIN history, origins[i].by \in Providers,
         Substantial(origins[i].by, origins[i].reply)
  PROVE  Accepted(p, history[i])
<1> DEFINE q     == origins[i].by
           said  == origins[i].reply
           calls == SaidCalls(q, said)
           parts == PartsFrom(q, said)
           m     == [role |-> "assistant", parts |-> parts]
<1>1. IsReply(q, said) /\ history[i] = Rendered(m) /\ Skyl(history[i]) = m
  BY ReplyTurn
<1>2. /\ parts \in Seq(ToSet(parts))
      /\ \A k \in DOMAIN parts : IsSaid(parts[k])
      /\ Text(parts) = SaidText(q, said)
      /\ OfType(parts, "tool_call") = [k \in DOMAIN calls |-> SkylCall(q, calls[k])]
  BY <1>1, PartsSay
<1>3. /\ Text(parts) # <<>> \/ calls # <<>>
      /\ \A k \in DOMAIN calls : /\ calls[k].name # "" /\ calls[k].args # "broken"
                                 /\ q # "gemini" => calls[k].id # ""
  BY <1>2 DEF Substantial
<1>4. calls \in Seq(ToSet(calls))
  BY <1>1, PartsSay
<1> HIDE DEF q, said, calls, parts
<1>5. parts # <<>>
  <2> SUFFICES ASSUME parts = <<>> PROVE FALSE
    OBVIOUS
  <2>1. Text(parts) = <<>>
    <3>1. [k \in DOMAIN parts |-> IF parts[k].type = "text" THEN parts[k].text ELSE <<>>] = <<>>
      OBVIOUS
    <3> QED
      BY <3>1, FlattenEmpty DEF Text
  <2>2. OfType(parts, "tool_call") = <<>>
    BY AmongEmpty DEF OfType
  <2>3. calls = <<>>
    <3>1. DOMAIN calls = {}
      BY <1>2, <2>2
    <3> QED
      BY <1>4, <3>1, LenProperties, EmptySeq
  <2> QED
    BY <1>3, <2>1, <2>3
<1>6. ASSUME NEW k \in DOMAIN parts, parts[k].type = "tool_call"
      PROVE  parts[k].id # "" /\ parts[k].name # "" /\ parts[k].args # "broken"
  <2> DEFINE T == {x \in ToSet(parts) : x.type = "tool_call"}
  <2>1. parts[k] \in T /\ OfType(parts, "tool_call") = Among(parts, T)
    BY <1>6 DEF OfType, ToSet
  <2> HIDE DEF T
  <2>2. PICK j \in DOMAIN calls : parts[k] = SkylCall(q, calls[j])
    <3>1. \E j \in DOMAIN Among(parts, T) : Among(parts, T)[j] = parts[k]
      BY <1>2, <2>1, AmongHas
    <3> QED
      BY <1>2, <2>1, <3>1
  <2>3. /\ parts[k].id = IdOf(q, calls[j]) /\ parts[k].name = calls[j].name
        /\ parts[k].args = Arguments(calls[j].args)
    BY <2>2 DEF SkylCall, ToolCall
  <2> QED
    BY <1>3, <2>3 DEF IdOf, Arguments
<1>7. \A k \in DOMAIN parts : parts[k].type \in {"text", "tool_call"} /\ ValidPart(parts[k])
  BY <1>2, <1>6 DEF IsSaid, ValidPart
<1>8. m.role = "assistant" /\ m.parts = parts
  OBVIOUS
<1>9. via = "gateway" => Convertible(Rendered(m))
  BY <1>7, RenderedConverts DEF Roles
<1> HIDE DEF m
<1>10. ValidMessage(m)
  BY <1>5, <1>7, <1>8 DEF ValidMessage, Roles
<1>11. ~ Unsupported(p, m)
  <2>1. OaiForms("assistant") = {"text", "tool_call"}
    BY DEF OaiForms
  <2> QED
    BY <1>6, <1>7, <1>8, <2>1 DEF Unsupported
<1>12. Encodable(p, m)
  BY <1>6, <1>8 DEF Encodable
<1> QED
  BY <1>1, <1>9, <1>10, <1>11, <1>12 DEF Accepted

\* No provider minds the results of calls that were whole, with whatever a tool returned.
LEMMA ResultsAccepted ==
  ASSUME TurnsTraced, NEW p \in Providers, NEW n \in DOMAIN history, origins[n].by = "tool",
         \A i \in DOMAIN history :
           origins[i].by \in Providers => Substantial(origins[i].by, origins[i].reply)
  PROVE  Accepted(p, history[n])
<1> DEFINE parts   == Skyl(history[n]).parts
           answers == origins[n].answers
           m       == [role |-> "tool", parts |-> parts]
<1>1. /\ history[n] = Rendered(m) /\ Skyl(history[n]) = m
      /\ parts # <<>>
      /\ \A k \in DOMAIN parts :
           /\ Answers(parts[k], answers[k])
           /\ parts[k].type = "tool_result"
           /\ parts[k].callId = CallsIn(answers[k][1])[answers[k][2]].id
  BY ToolTurn
<1> HIDE DEF parts, answers
<1>2. ASSUME NEW k \in DOMAIN parts PROVE parts[k].callId # ""
  <2> DEFINE t    == answers[k][1]
             j    == answers[k][2]
             q    == origins[t].by
             said == origins[t].reply
  <2>1. t \in DOMAIN history /\ q \in Providers /\ j \in DOMAIN CallsIn(t) /\ parts[k].callId = CallsIn(t)[j].id
    BY <1>1 DEF Answers
  <2>2. CallsIn(t) = [i \in DOMAIN SaidCalls(q, said) |-> SkylCall(q, SaidCalls(q, said)[i])]
    BY <2>1, ReplyTurn
  <2>3. Substantial(q, said)
    BY <2>1
  <2> HIDE DEF t, j, q, said
  <2>4. j \in DOMAIN SaidCalls(q, said) /\ parts[k].callId = IdOf(q, SaidCalls(q, said)[j])
    BY <2>1, <2>2 DEF SkylCall, ToolCall
  <2>5. SaidCalls(q, said)[j].name # "" /\ (q # "gemini" => SaidCalls(q, said)[j].id # "")
    BY <2>3, <2>4 DEF Substantial
  <2> QED
    BY <2>4, <2>5 DEF IdOf
<1>3. \A k \in DOMAIN parts : parts[k].type = "tool_result" /\ ValidPart(parts[k])
  BY <1>1, <1>2 DEF ValidPart
<1>4. m.role = "tool" /\ m.parts = parts
  OBVIOUS
<1>5. via = "gateway" => Convertible(Rendered(m))
  BY <1>3, RenderedConverts DEF Roles
<1> HIDE DEF m
<1>6. ValidMessage(m)
  BY <1>1, <1>3, <1>4 DEF ValidMessage, Roles
<1>7. ~ Unsupported(p, m)
  <2>1. OaiForms("tool") = {"tool_result"}
    BY DEF OaiForms
  <2> QED
    BY <1>3, <1>4, <2>1 DEF Unsupported
<1>8. Encodable(p, m)
  BY <1>3, <1>4 DEF Encodable
<1> QED
  BY <1>1, <1>5, <1>6, <1>7, <1>8 DEF Accepted

\* Settings that make sense are refused by neither skyl nor the gateway.
LEMMA SoundAccepted ==
  ASSUME NEW s, IsSettings(s), Sound(s)
  PROVE  ConvertibleSettings(s) /\ ValidSettings(SkylSettings(s))
<1>1. /\ s.model # "" /\ s.maxTokens >= 0 /\ (\A i \in DOMAIN s.tools : s.tools[i].name # "")
      /\ s.choice.mode \in Modes \cup {"nil"} /\ (s.choice.mode = "tool" => s.choice.name # "")
      /\ s.format.given => s.format.schema # ""
  BY DEF Sound, Modes
<1>2. ConvertibleSettings(s) /\ ValidSettings(s)
  BY Zenon, <1>1 DEF ConvertibleSettings, ValidSettings
<1>3. ValidSettings(ToSkylSettings(s))
  <2> DEFINE tools == [i \in DOMAIN s.tools |-> DecodedTool(s.tools[i])]
             t     == [s EXCEPT !.tools = tools]
  <2>1. DOMAIN s = {"model", "system", "maxTokens", "temperature", "topP", "stop", "tools",
                    "choice", "thinking", "format", "options"}
    BY Zenon DEF IsSettings
  <2>2. \A i \in DOMAIN s.tools : DOMAIN s.tools[i] = {"name", "given", "parameters"}
    BY Zenon DEF IsSettings
  <2>3. \A i \in DOMAIN tools : tools[i].name # ""
    BY <1>1, <2>2 DEF DecodedTool
  <2> HIDE DEF tools
  <2>4. /\ t.model = s.model /\ t.maxTokens = s.maxTokens /\ t.choice = s.choice
        /\ t.format = s.format /\ t.tools = tools
    BY <2>1
  <2> HIDE DEF t
  <2>5. ValidSettings(t)
    BY Zenon, <1>1, <2>3, <2>4 DEF ValidSettings
  <2> QED
    BY Zenon, <2>5 DEF ToSkylSettings, t, tools
<1> QED
  BY <1>2, <1>3 DEF SkylSettings

\* AppendedTurnsAccepted, for every provider, way in, reply and output of a tool.
THEOREM EveryAppendedTurnAccepted ==
  Spec => []AppendedTurnsAccepted
<1>1. TurnsTraced /\ RequestTraced => AppendedTurnsAccepted
  <2> SUFFICES ASSUME TurnsTraced, RequestTraced,
                      outcome \in {"bad_request", "unsupported", "unencodable"},
                      history # <<>>, Sound(request.settings),
                      \A i \in DOMAIN history :
                        /\ origins[i].by = "caller" => Plain(history[i])
                        /\ origins[i].by \in Providers => Substantial(origins[i].by, origins[i].reply)
               PROVE  FALSE
    BY DEF AppendedTurnsAccepted
  <2> DEFINE p        == request.to
             s        == request.settings
             messages == [i \in DOMAIN history |-> Skyl(history[i])]
  <2>1. p \in Providers /\ s \in Wishes /\ outcome = Verdict(p, s)
    BY DEF RequestTraced
  <2>2. ASSUME NEW i \in DOMAIN history PROVE Accepted(p, history[i])
    <3>1. TracedTo(history[i], origins[i])
      BY DEF TurnsTraced
    <3>2. CASE origins[i] = ByCaller
      <4>1. origins[i].by = "caller"
        BY <3>2 DEF ByCaller
      <4> QED
        BY <2>1, <4>1, PlainAccepted
    <3>3. CASE FromReply(history[i], origins[i])
      <4>1. origins[i].by \in Providers
        BY <3>3 DEF FromReply, ByProvider
      <4> QED
        BY <2>1, <4>1, ReplyAccepted
    <3>4. CASE FromTools(history[i], origins[i])
      <4>1. origins[i].by = "tool"
        BY <3>4 DEF FromTools, ByTool
      <4> QED
        BY <2>1, <4>1, ResultsAccepted
    <3> QED
      BY <3>1, <3>2, <3>3, <3>4 DEF TracedTo
  <2>3. ConvertibleSettings(s) /\ ValidSettings(SkylSettings(s))
    BY <2>1, ConversationAssumption, SoundAccepted
  <2>4. /\ messages # <<>>
        /\ DOMAIN messages = DOMAIN history
        /\ \A i \in DOMAIN messages : /\ ValidMessage(messages[i])
                                      /\ ~ Unsupported(p, messages[i])
                                      /\ Encodable(p, messages[i])
    <3>1. 1 \in DOMAIN history
      <4>1. history \in Seq(ToSet(history))
        BY DEF TurnsTraced
      <4> QED
        BY <4>1, LenProperties, EmptySeq
    <3> QED
      BY <2>2, <3>1 DEF Accepted
  <2>5. via = "gateway" => \A i \in DOMAIN history : Convertible(history[i])
    BY <2>2 DEF Accepted
  <2>6. Verdict(p, s) = "waiting"
    <3> HIDE DEF messages, p, s
    <3>1. Valid(messages)
      BY <2>4 DEF Valid
    <3> QED
      BY Zenon, <2>3, <2>4, <2>5, <3>1 DEF Verdict, messages
  <2> QED
    BY <2>1, <2>6
<1> QED
  BY <1>1, TurnsTracedInvariant, PTL
=============================================================================
