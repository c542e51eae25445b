----------------------- MODULE AnthropicStreamProofs -----------------------
(***************************************************************************)
(* The Anthropic decoder, for any events in any number and order: what the *)
(* consumer has been given is what the provider sent, a truncated answer   *)
(* is never passed off as a whole one, and the decoder is a Stream as      *)
(* StreamContract has it.                                                  *)
(***************************************************************************)
EXTENDS AnthropicStream, SequenceLemmas

-----------------------------------------------------------------------------
(* What a transcript amounts to, and what one event adds to it.            *)

\* The content blocks of a transcript.
Block(s, start) ==
  [type |-> s[start].type, id |-> s[start].id, name |-> s[start].name, body |-> Pieces(s, start)]

ContentOf(s) == [b \in DOMAIN BlockStarts(s) |-> Block(s, BlockStarts(s)[b])]

VoiceOf(e) == [type |-> e.type, body |-> e.piece]
Voices == {VoiceOf(e) : e \in {x \in Events : Says(x)}}

LEMMA VoicesTyped == \A v \in Voices : v.type \in {"text", "thinking"}
<1> SUFFICES ASSUME NEW e \in Events, Says(e) PROVE VoiceOf(e).type \in {"text", "thinking"}
  BY DEF Voices
<1>1. e.type \in {"text", "thinking"}
  BY AnthropicAssumption DEF Says
<1> QED
  BY <1>1 DEF VoiceOf

LEMMA SpokenGrows ==
  ASSUME NEW s \in Seq(Events), NEW e \in Events
  PROVE  /\ Spoken(s) \in Seq(Voices)
         /\ Spoken(Append(s, e)) = IF Says(e) THEN Append(Spoken(s), VoiceOf(e)) ELSE Spoken(s)
<1> DEFINE r == Append(s, e)
           F(x) == IF Says(x) THEN <<VoiceOf(x)>> ELSE <<>>
           f == [i \in 1 .. Len(s) |-> F(s[i])]
           g == [i \in 1 .. Len(s) + 1 |-> F(r[i])]
<1>1. /\ Len(s) \in Nat /\ DOMAIN s = 1 .. Len(s) /\ DOMAIN r = 1 .. Len(s) + 1
      /\ r[Len(s) + 1] = e /\ \A i \in 1 .. Len(s) : r[i] = s[i] /\ s[i] \in Events
  BY LenProperties, AppendProperties, ElementOfSeq
<1>2. \A x \in Events : F(x) \in Seq(Voices)
  <2>1. ASSUME NEW x \in Events, Says(x) PROVE <<VoiceOf(x)>> \in Seq(Voices)
    <3>1. VoiceOf(x) \in Voices
      BY <2>1 DEF Voices
    <3> QED
      BY <3>1
  <2> QED
    BY <2>1
<1>3. Spoken(s) = FlattenSeq(f) /\ Spoken(r) = FlattenSeq(g)
  BY <1>1 DEF Spoken, Says, VoiceOf
<1> HIDE DEF F, r
<1>4. /\ f \in [1 .. Len(s) -> Seq(Voices)] /\ g \in [1 .. Len(s) + 1 -> Seq(Voices)]
      /\ \A i \in 1 .. Len(s) : g[i] = f[i]
      /\ g[Len(s) + 1] = F(e)
  BY <1>1, <1>2
<1> HIDE DEF f, g
<1>5. FlattenSeq(g) = FlattenSeq(f) \o F(e) /\ FlattenSeq(f) \in Seq(Voices)
  BY <1>1, <1>4, FlattenGrows
<1>6. FlattenSeq(f) \o F(e) = IF Says(e) THEN Append(FlattenSeq(f), VoiceOf(e)) ELSE FlattenSeq(f)
  <2>1. Says(e) => VoiceOf(e) \in Voices
    BY DEF Voices
  <2> QED
    BY <1>5, <2>1, ConcatEmptySeq, AppendIsConcat DEF F
<1> QED
  BY <1>3, <1>5, <1>6 DEF r

LEMMA SpokenTyped == \A s \in Seq(Events) : Spoken(s) \in Seq(Voices)
<1> DEFINE F(x) == IF Says(x) THEN <<VoiceOf(x)>> ELSE <<>>
<1> SUFFICES ASSUME NEW s \in Seq(Events) PROVE Spoken(s) \in Seq(Voices)
  OBVIOUS
<1>1. \A x \in Events : F(x) \in Seq(Voices)
  <2>1. ASSUME NEW x \in Events, Says(x) PROVE <<VoiceOf(x)>> \in Seq(Voices)
    <3>1. VoiceOf(x) \in Voices
      BY <2>1 DEF Voices
    <3> QED
      BY <3>1
  <2> QED
    BY <2>1
<1>2. Len(s) \in Nat /\ DOMAIN s = 1 .. Len(s) /\ \A i \in 1 .. Len(s) : s[i] \in Events
  BY LenProperties, ElementOfSeq
<1> DEFINE f == [i \in 1 .. Len(s) |-> F(s[i])]
<1>3. Spoken(s) = FlattenSeq(f)
  BY <1>2 DEF Spoken, Says, VoiceOf
<1> HIDE DEF F
<1>4. f \in [1 .. Len(s) -> Seq(Voices)]
  BY <1>1, <1>2
<1> HIDE DEF f
<1> QED
  BY <1>2, <1>3, <1>4, FunctionIsSeq, FlattenTyped

LEMMA EmptyRecords == Spoken(<<>>) = <<>> /\ BlockStarts(<<>>) = <<>>
<1>1. [i \in DOMAIN <<>> |-> IF <<>>[i].kind = "block" THEN <<i>> ELSE <<>>] = <<>>
  OBVIOUS
<1>2. [i \in DOMAIN <<>> |->
        IF <<>>[i].kind = "delta" /\ <<>>[i].type # "tool" /\ <<>>[i].piece # ""
          THEN <<[type |-> <<>>[i].type, body |-> <<>>[i].piece]>> ELSE <<>>] = <<>>
  OBVIOUS
<1> QED
  BY <1>1, <1>2, FlattenEmpty DEF Spoken, BlockStarts

LEMMA StartsGrow ==
  ASSUME NEW s \in Seq(Events), NEW e \in Events
  PROVE  /\ BlockStarts(s) \in Seq(Nat)
         /\ BlockStarts(Append(s, e)) =
              IF e.kind = "block" THEN Append(BlockStarts(s), Len(s) + 1) ELSE BlockStarts(s)
<1> DEFINE r == Append(s, e)
           F(x, i) == IF x.kind = "block" THEN <<i>> ELSE <<>>
           f == [i \in 1 .. Len(s) |-> F(s[i], i)]
           g == [i \in 1 .. Len(s) + 1 |-> F(r[i], i)]
<1>1. /\ Len(s) \in Nat /\ DOMAIN s = 1 .. Len(s) /\ DOMAIN r = 1 .. Len(s) + 1
      /\ r[Len(s) + 1] = e /\ \A i \in 1 .. Len(s) : r[i] = s[i]
  BY LenProperties, AppendProperties
<1>2. \A x, i : i \in Nat => F(x, i) \in Seq(Nat)
  <2>1. ASSUME NEW i \in Nat PROVE <<i>> \in Seq(Nat)
    OBVIOUS
  <2> QED
    BY <2>1
<1>3. BlockStarts(s) = FlattenSeq(f) /\ BlockStarts(r) = FlattenSeq(g)
  BY <1>1 DEF BlockStarts
<1> HIDE DEF F, r
<1>4. /\ f \in [1 .. Len(s) -> Seq(Nat)] /\ g \in [1 .. Len(s) + 1 -> Seq(Nat)]
      /\ \A i \in 1 .. Len(s) : g[i] = f[i]
      /\ g[Len(s) + 1] = F(e, Len(s) + 1)
  BY <1>1, <1>2
<1> HIDE DEF f, g
<1>5. FlattenSeq(g) = FlattenSeq(f) \o F(e, Len(s) + 1) /\ FlattenSeq(f) \in Seq(Nat)
  BY <1>1, <1>4, FlattenGrows
<1>6. FlattenSeq(f) \o F(e, Len(s) + 1)
        = IF e.kind = "block" THEN Append(FlattenSeq(f), Len(s) + 1) ELSE FlattenSeq(f)
  BY <1>1, <1>5, ConcatEmptySeq, AppendIsConcat DEF F
<1> QED
  BY <1>3, <1>5, <1>6 DEF r

\* Each start is a block's, and the last one is the last block's.
StartsOf(s) ==
  LET st == BlockStarts(s)
  IN  /\ st \in Seq(1 .. Len(s))
      /\ \A b \in 1 .. Len(st) : s[st[b]].kind = "block"
      /\ \A b \in 1 .. Len(st) : b # Len(st) => st[b] < st[Len(st)]
      /\ \A k \in 1 .. Len(s) : s[k].kind = "block" => st # <<>> /\ k <= st[Len(st)]

LEMMA StartsFacts == \A s \in Seq(Events) : StartsOf(s)
<1> DEFINE Good == {s \in Seq(Events) : StartsOf(s)}
<1>1. <<>> \in Good
  <2>1. BlockStarts(<<>>) = <<>>
    BY EmptyRecords
  <2>2. <<>> \in Seq(1 .. Len(<<>>)) /\ Len(<<>>) = 0 /\ <<>> \in Seq(Events)
    OBVIOUS
  <2>3. StartsOf(<<>>)
    <3>1. \A i : i \notin 1 .. Len(<<>>)
      BY <2>2
    <3> QED
      BY <2>1, <2>2, <3>1, Zenon DEF StartsOf
  <2> QED
    BY <2>2, <2>3
<1>2. ASSUME NEW s \in Seq(Events), StartsOf(s), NEW e \in Events PROVE StartsOf(Append(s, e))
  <2> DEFINE r == Append(s, e)
             st == BlockStarts(s)
             n == Len(s)
             m == Len(st)
  <2>1. /\ n \in Nat /\ Len(r) = n + 1 /\ r[n + 1] = e /\ \A i \in 1 .. n : r[i] = s[i]
    BY LenProperties, AppendProperties
  <2>2. /\ st \in Seq(1 .. n) /\ m \in Nat /\ \A b \in 1 .. m : st[b] \in 1 .. n
        /\ \A b \in 1 .. m : s[st[b]].kind = "block"
        /\ \A b \in 1 .. m : b # m => st[b] < st[m]
        /\ \A k \in 1 .. n : s[k].kind = "block" => st # <<>> /\ k <= st[m]
    BY <1>2, LenProperties, ElementOfSeq DEF StartsOf
  <2>3. BlockStarts(r) = IF e.kind = "block" THEN Append(st, n + 1) ELSE st
    BY StartsGrow
  <2>4. st \in Seq(1 .. n + 1) /\ n + 1 \in 1 .. n + 1
    BY <2>1, <2>2, SeqMonotonic
  <2> HIDE DEF r, st, n
  <2>5. CASE e.kind = "block"
    <3> DEFINE tt == Append(st, n + 1)
    <3>1. /\ tt \in Seq(1 .. n + 1) /\ Len(tt) = m + 1 /\ tt # <<>>
          /\ tt[m + 1] = n + 1 /\ \A b \in 1 .. m : tt[b] = st[b]
      BY <2>4, AppendProperties, EmptySeq
    <3> HIDE DEF tt
    <3>2. BlockStarts(r) = tt
      BY <2>3, <2>5 DEF tt
    <3> HIDE DEF m
    <3>3. ASSUME NEW b \in 1 .. m + 1
          PROVE  r[tt[b]].kind = "block" /\ (b # m + 1 => tt[b] < tt[m + 1])
      <4>1. CASE b \in 1 .. m
        <5>1. st[b] \in 1 .. n /\ s[st[b]].kind = "block" /\ tt[b] = st[b]
          BY <2>2, <3>1, <4>1
        <5> QED
          BY <2>1, <3>1, <5>1
      <4>2. CASE b = m + 1
        BY <2>1, <2>5, <3>1, <4>2
      <4> QED
        BY <2>2, <4>1, <4>2
    <3> QED
      BY <2>1, <3>1, <3>2, <3>3 DEF StartsOf, r
  <2>6. CASE e.kind # "block"
    <3>1. BlockStarts(r) = st
      BY <2>3, <2>6
    <3> QED
      BY <2>1, <2>2, <2>4, <2>6, <3>1 DEF StartsOf, r
  <2> QED
    BY <2>5, <2>6
<1>3. Good = Seq(Events)
  <2>1. Good \subseteq Seq(Events) /\ \A s \in Good, e \in Events : Append(s, e) \in Good
    BY <1>2, AppendProperties
  <2> HIDE DEF Good
  <2> QED
    BY <1>1, <2>1, SeqSetInduction
<1> QED
  BY <1>3

LEMMA PiecesGrow ==
  ASSUME NEW s \in Seq(Events), NEW e \in Events, NEW start \in 1 .. Len(s)
  PROVE  /\ \E S : Pieces(s, start) \in Seq(S)
         /\ Pieces(Append(s, e), start) =
              IF /\ e.kind = "delta" /\ e.piece # ""
                 /\ \A k \in start + 1 .. Len(s) : s[k].kind # "block"
                THEN Append(Pieces(s, start), e.piece) ELSE Pieces(s, start)
<1> DEFINE r == Append(s, e)
           n == Len(s)
           T == {x.piece : x \in Events}
           own(t, i) == /\ start < i /\ t[i].kind = "delta" /\ t[i].piece # ""
                        /\ \A k \in start + 1 .. i : t[k].kind # "block"
           f == [i \in 1 .. n |-> IF own(s, i) THEN <<s[i].piece>> ELSE <<>>]
           g == [i \in 1 .. n + 1 |-> IF own(r, i) THEN <<r[i].piece>> ELSE <<>>]
<1>1. /\ n \in Nat /\ DOMAIN s = 1 .. n /\ DOMAIN r = 1 .. n + 1
      /\ r[n + 1] = e /\ \A i \in 1 .. n : r[i] = s[i]
      /\ \A i \in 1 .. n : s[i] \in Events
      /\ \A i \in 1 .. n + 1 : r[i] \in Events
  BY LenProperties, AppendProperties, ElementOfSeq
<1>2. \A x \in Events : <<x.piece>> \in Seq(T) /\ x.piece \in T
  <2>1. ASSUME NEW x \in Events PROVE x.piece \in T
    OBVIOUS
  <2> HIDE DEF T
  <2> QED
    BY <2>1
<1>3. Pieces(s, start) = FlattenSeq(f) /\ Pieces(r, start) = FlattenSeq(g)
  BY <1>1 DEF Pieces
<1>4. \A i \in 1 .. n : own(r, i) <=> own(s, i)
  <2>1. \A i \in 1 .. n : \A k \in start + 1 .. i : k \in 1 .. n /\ r[k] = s[k]
    BY <1>1
  <2> QED
    BY <1>1, <2>1
<1>5. own(r, n + 1) <=> /\ e.kind = "delta" /\ e.piece # ""
                        /\ \A k \in start + 1 .. n : s[k].kind # "block"
  <2>1. start < n + 1
    BY <1>1
  <2>2. \A k \in start + 1 .. n : k \in start + 1 .. n + 1 /\ r[k] = s[k]
    BY <1>1
  <2>3. \A k \in start + 1 .. n + 1 : k \in start + 1 .. n \/ k = n + 1
    BY <1>1
  <2>4. e.kind = "delta" => e.kind # "block"
    OBVIOUS
  <2> HIDE DEF r, n
  <2> QED
    BY <1>1, <2>1, <2>2, <2>3, <2>4
<1> HIDE DEF own, T, r
<1>6. /\ f \in [1 .. n -> Seq(T)] /\ g \in [1 .. n + 1 -> Seq(T)]
      /\ \A i \in 1 .. n : g[i] = f[i]
      /\ g[n + 1] = IF own(r, n + 1) THEN <<e.piece>> ELSE <<>>
  <2>1. \A i \in 1 .. n : (IF own(s, i) THEN <<s[i].piece>> ELSE <<>>) \in Seq(T)
    BY <1>1, <1>2
  <2>2. \A i \in 1 .. n + 1 : (IF own(r, i) THEN <<r[i].piece>> ELSE <<>>) \in Seq(T)
    BY <1>1, <1>2
  <2> QED
    BY <1>1, <1>4, <2>1, <2>2
<1> HIDE DEF f, g, n
<1>7. FlattenSeq(g) = FlattenSeq(f) \o g[n + 1] /\ FlattenSeq(f) \in Seq(T)
  BY <1>1, <1>6, FlattenGrows
<1>8. FlattenSeq(g) = IF own(r, n + 1) THEN Append(FlattenSeq(f), e.piece) ELSE FlattenSeq(f)
  BY <1>2, <1>6, <1>7, ConcatEmptySeq, AppendIsConcat
<1> QED
  BY <1>3, <1>5, <1>7, <1>8 DEF r, n

\* A block that starts has no pieces yet.
LEMMA PiecesStart ==
  ASSUME NEW r \in Seq(Events)
  PROVE  Pieces(r, Len(r)) = <<>>
<1>1. Len(r) \in Nat /\ DOMAIN r = 1 .. Len(r)
  BY LenProperties
<1>2. \A i \in DOMAIN r : ~ (Len(r) < i)
  BY <1>1
<1> DEFINE f == [i \in DOMAIN r |->
      IF /\ Len(r) < i /\ r[i].kind = "delta" /\ r[i].piece # ""
         /\ \A k \in Len(r) + 1 .. i : r[k].kind # "block"
        THEN <<r[i].piece>> ELSE <<>>]
<1>3. f = [i \in 1 .. Len(r) |-> <<>>]
  BY <1>1, <1>2
<1> HIDE DEF f
<1>4. FlattenSeq(f) = <<>>
  BY <1>1, <1>3, FlattenNothing
<1> QED
  BY <1>4 DEF Pieces, f

\* The content as the accumulator keeps it: a block more, or a piece more in the
\* last one, and nothing else.
LEMMA ContentGrows ==
  ASSUME NEW s \in Seq(Events), NEW e \in Events
  PROVE  LET c == ContentOf(s)
             r == Append(s, e)
         IN  /\ c \in Seq({Block(s, i) : i \in 1 .. Len(s)}) /\ Len(c) = Len(BlockStarts(s))
             /\ e.kind = "block" => ContentOf(r) = Append(c,
                  [type |-> e.type, id |-> e.id, name |-> e.name, body |-> <<>>])
             /\ e.kind = "delta" /\ c # <<>> =>
                  ContentOf(r) = [c EXCEPT ![Len(c)].body =
                                    IF e.piece = "" THEN @ ELSE Append(@, e.piece)]
             /\ e.kind = "delta" /\ c = <<>> => ContentOf(r) = c
             /\ e.kind \notin {"block", "delta"} => ContentOf(r) = c
<1> DEFINE r == Append(s, e)
           st == BlockStarts(s)
           n == Len(s)
           m == Len(st)
           c == ContentOf(s)
<1>1. /\ n \in Nat /\ r[n + 1] = e /\ Len(r) = n + 1 /\ r \in Seq(Events)
      /\ \A i \in 1 .. n : r[i] = s[i]
  BY LenProperties, AppendProperties
<1>2. /\ m \in Nat /\ DOMAIN st = 1 .. m /\ \A b \in 1 .. m : st[b] \in 1 .. n
      /\ \A b \in 1 .. m : s[st[b]].kind = "block"
      /\ \A b \in 1 .. m : b # m => st[b] < st[m]
      /\ \A k \in 1 .. n : s[k].kind = "block" => st # <<>> /\ k <= st[m]
      /\ st = <<>> <=> m = 0
  <2>1. StartsOf(s)
    BY StartsFacts
  <2> QED
    BY <2>1, LenProperties, ElementOfSeq, EmptySeq DEF StartsOf
<1>3. /\ c \in [1 .. m -> {Block(s, i) : i \in 1 .. n}]
      /\ \A b \in 1 .. m : c[b] = Block(s, st[b])
  BY <1>2 DEF ContentOf
<1>4. c \in Seq({Block(s, i) : i \in 1 .. n}) /\ Len(c) = m /\ (c = <<>> <=> m = 0)
  BY <1>2, <1>3, FunctionIsSeq, EmptySeq
<1>5. ASSUME NEW b \in 1 .. m
      PROVE  Pieces(r, st[b]) =
               IF e.kind = "delta" /\ e.piece # "" /\ b = m
                 THEN Append(Pieces(s, st[b]), e.piece) ELSE Pieces(s, st[b])
  <2> HIDE DEF r, st, m, n
  <2>1. (\A k \in st[b] + 1 .. n : s[k].kind # "block") <=> b = m
    <3>1. CASE b = m
      <4>1. \A k \in st[m] + 1 .. n : k \in 1 .. n /\ ~ (k <= st[m])
        BY <1>1, <1>2, <1>5, <3>1
      <4> QED
        BY <1>2, <3>1, <4>1
    <3>2. CASE b # m
      <4>1. st[b] < st[m] /\ st[m] \in 1 .. n /\ s[st[m]].kind = "block" /\ st[b] \in 1 .. n
        BY <1>2, <1>5, <3>2
      <4>2. st[m] \in st[b] + 1 .. n
        BY <1>1, <4>1
      <4> QED
        BY <3>2, <4>1, <4>2
    <3> QED
      BY <3>1, <3>2
  <2>2. st[b] \in 1 .. Len(s)
    BY <1>2 DEF n
  <2> QED
    BY <2>1, <2>2, PiecesGrow DEF r, n
<1>6. BlockStarts(r) = IF e.kind = "block" THEN Append(st, n + 1) ELSE st
  BY StartsGrow
<1>7. ASSUME e.kind # "block"
      PROVE  /\ DOMAIN ContentOf(r) = 1 .. m
             /\ ContentOf(r) = [b \in 1 .. m |-> Block(r, st[b])]
  BY <1>2, <1>6, <1>7 DEF ContentOf
<1>8. ASSUME NEW b \in 1 .. m
      PROVE  Block(r, st[b]) =
               IF e.kind = "delta" /\ e.piece # "" /\ b = m
                 THEN [Block(s, st[b]) EXCEPT !.body = Append(@, e.piece)] ELSE Block(s, st[b])
  <2>1. r[st[b]] = s[st[b]]
    BY <1>1, <1>2
  <2> HIDE DEF r, st, m
  <2> QED
    BY <1>5, <2>1 DEF Block
<1> HIDE DEF r, st, n, m, c
<1>9. ASSUME e.kind = "block"
      PROVE  ContentOf(r) = Append(c, [type |-> e.type, id |-> e.id, name |-> e.name, body |-> <<>>])
  <2> DEFINE new == [type |-> e.type, id |-> e.id, name |-> e.name, body |-> <<>>]
             tt == Append(st, n + 1)
             d == ContentOf(r)
  <2>1. Block(r, n + 1) = new
    BY <1>1, PiecesStart DEF Block
  <2>2. /\ DOMAIN tt = 1 .. m + 1 /\ tt[m + 1] = n + 1
        /\ \A b \in 1 .. m : tt[b] = st[b]
    <3>1. \E S : st \in Seq(S)
      BY StartsGrow DEF st
    <3> QED
      BY <3>1, AppendSeq DEF m
  <2>3. d = [b \in 1 .. m + 1 |-> Block(r, tt[b])]
    BY <1>6, <1>9, <2>2 DEF ContentOf
  <2>4. \A b \in 1 .. m : d[b] = c[b]
    BY <1>2, <1>3, <1>8, <1>9, <2>2, <2>3
  <2>5. d[m + 1] = new
    BY <1>2, <2>1, <2>2, <2>3
  <2> DEFINE S == {Block(s, i) : i \in 1 .. n} \cup {new}
  <2> HIDE DEF new, tt
  <2>6. /\ c \in Seq(S) /\ new \in S /\ Append(c, new) \in Seq(S) /\ Len(Append(c, new)) = m + 1
        /\ \A b \in 1 .. m : Append(c, new)[b] = c[b]
        /\ Append(c, new)[m + 1] = new
    <3>1. c \in Seq(S) /\ new \in S
      BY <1>4, SeqMonotonic
    <3> HIDE DEF S
    <3> QED
      BY <1>4, <3>1, AppendProperties
  <2>7. \A b \in 1 .. m + 1 : d[b] = Append(c, new)[b]
    <3>1. \A b \in 1 .. m + 1 : b \in 1 .. m \/ b = m + 1
      BY <1>2
    <3> HIDE DEF d
    <3> QED
      BY <2>4, <2>5, <2>6, <3>1
  <2>8. DOMAIN d = 1 .. m + 1
    BY <2>3
  <2> HIDE DEF d, S
  <2>9. \A b \in 1 .. m + 1 : d[b] \in S
    <3>1. \A b \in 1 .. m + 1 : Append(c, new)[b] \in S
      BY <2>6, ElementOfSeq
    <3> QED
      BY <2>7, <3>1
  <2>10. d \in [1 .. m + 1 -> S]
    BY <2>3, <2>8, <2>9 DEF d
  <2>11. d \in Seq(S) /\ Len(d) = m + 1
    BY <1>2, <2>10, FunctionIsSeq
  <2>12. d = Append(c, new)
    BY <2>6, <2>7, <2>11, SeqEqual
  <2> QED
    BY <2>12 DEF d, new
<1>10. ASSUME e.kind = "delta", c # <<>>
       PROVE  ContentOf(r) = [c EXCEPT ![Len(c)].body = IF e.piece = "" THEN @ ELSE Append(@, e.piece)]
  <2> DEFINE d == [c EXCEPT ![Len(c)].body = IF e.piece = "" THEN @ ELSE Append(@, e.piece)]
  <2>1. /\ c = [b \in 1 .. m |-> Block(s, st[b])] /\ Len(c) = m
    BY <1>3, <1>4
  <2>2. /\ d = [b \in 1 .. m |-> IF b = m
                  THEN [c[b] EXCEPT !.body = IF e.piece = "" THEN @ ELSE Append(@, e.piece)]
                  ELSE c[b]]
    BY <2>1
  <2>3. ContentOf(r) = [b \in 1 .. m |-> Block(r, st[b])]
    BY <1>7, <1>10
  <2>4. ASSUME NEW b \in 1 .. m
        PROVE  Block(r, st[b]) = IF b = m
                  THEN [c[b] EXCEPT !.body = IF e.piece = "" THEN @ ELSE Append(@, e.piece)]
                  ELSE c[b]
    <3>1. c[b] = Block(s, st[b])
      BY <2>1
    <3>2. [Block(s, st[b]) EXCEPT !.body = @] = Block(s, st[b])
      BY DEF Block
    <3> QED
      BY <1>8, <1>10, <3>1, <3>2
  <2> QED
    BY <2>2, <2>3, <2>4
<1>11. ASSUME \/ e.kind = "delta" /\ c = <<>>
              \/ e.kind \notin {"block", "delta"}
       PROVE  ContentOf(r) = c
  <2>1. ContentOf(r) = [b \in 1 .. m |-> Block(r, st[b])]
    BY <1>7, <1>11
  <2>2. \A b \in 1 .. m : Block(r, st[b]) = c[b]
    BY <1>2, <1>3, <1>4, <1>8, <1>11
  <2>3. c = [b \in 1 .. m |-> c[b]]
    BY <1>3
  <2> QED
    BY <2>1, <2>2, <2>3
<1> QED
  BY <1>4, <1>9, <1>10, <1>11 DEF r, c, m, st, n

\* The calls are those of the accumulated content, each of them a call.
LEMMA CallsAgree ==
  ASSUME NEW s \in Seq(Events)
  PROVE  /\ CallsFromMessage(ContentOf(s)) = Calls(s)
         /\ \E T : Calls(s) \in Seq(T) /\ \A e \in T : e.type = "tool"
<1> DEFINE st == BlockStarts(s)
           c == ContentOf(s)
           m == Len(st)
           T == {CallAt(s, i) : i \in 1 .. Len(s)}
           F == [b \in 1 .. m |-> IF s[st[b]].type = "tool" THEN <<CallAt(s, st[b])>> ELSE <<>>]
<1>1. m \in Nat /\ DOMAIN st = 1 .. m /\ \A b \in 1 .. m : st[b] \in 1 .. Len(s)
  <2>1. StartsOf(s)
    BY StartsFacts
  <2> QED
    BY <2>1, LenProperties, ElementOfSeq DEF StartsOf
<1>2. DOMAIN c = 1 .. m /\ \A b \in 1 .. m : c[b] = Block(s, st[b])
  BY <1>1 DEF ContentOf
<1>3. Calls(s) = FlattenSeq(F)
  BY <1>1 DEF Calls
<1> HIDE DEF c
<1>4. \A b \in 1 .. m : c[b].type = s[st[b]].type /\ ToolEvent(c[b]) = CallAt(s, st[b])
  <2>1. \A i : Block(s, i).type = s[i].type /\ ToolEvent(Block(s, i)) = CallAt(s, i)
    BY DEF Block, ToolEvent, CallAt
  <2> HIDE DEF st, m
  <2> QED
    BY <1>2, <2>1
<1>5. CallsFromMessage(c) = FlattenSeq(F)
  <2>1. [i \in DOMAIN c |-> IF c[i].type = "tool" THEN <<ToolEvent(c[i])>> ELSE <<>>] = F
    BY <1>2, <1>4
  <2> HIDE DEF F
  <2> QED
    BY <2>1 DEF CallsFromMessage
<1>6. F \in [1 .. m -> Seq(T)]
  <2>1. ASSUME NEW b \in 1 .. m PROVE <<CallAt(s, st[b])>> \in Seq(T)
    <3>1. CallAt(s, st[b]) \in T
      BY <1>1
    <3> HIDE DEF T
    <3> QED
      BY <3>1
  <2> HIDE DEF T, st, m
  <2> QED
    BY <2>1
<1>7. FlattenSeq(F) \in Seq(T)
  <2> HIDE DEF F, T, m
  <2>1. F \in Seq(Seq(T))
    BY <1>1, <1>6, FunctionIsSeq
  <2> QED
    BY <2>1, FlattenTyped
<1>8. \A e \in T : e.type = "tool"
  <2>1. \A i : CallAt(s, i).type = "tool"
    BY DEF CallAt
  <2> QED
    BY <2>1
<1> HIDE DEF T, F
<1> QED
  BY <1>3, <1>5, <1>7, <1>8 DEF c

-----------------------------------------------------------------------------
(* The totals.                                                             *)

Usages == [input : Nat, output : Nat, cacheRead : Nat, cacheWrite : Nat]
Stops  == {e \in Events : e.kind = "stop"}

LEMMA TotalsGrow ==
  ASSUME NEW s \in Seq(Events), NEW e \in Events
  PROVE  LET r == Append(s, e)
         IN  /\ Prompt(s) \in Usages
             /\ e.kind = "start" /\ s = <<>> =>
                  Prompt(r) = e.usage /\ LastStop(r) = [stop |-> "", output |-> e.usage.output]
             /\ (e.kind = "start" => s # <<>>) =>
                  /\ Prompt(r) = Prompt(s)
                  /\ LastStop(r) = IF e.kind = "stop" THEN e ELSE LastStop(s)
<1> DEFINE r == Append(s, e)
<1>1. /\ Len(s) \in Nat /\ r # <<>> /\ (s = <<>> => r[1] = e) /\ (s # <<>> => r[1] = s[1])
      /\ (s # <<>> => s[1] \in Events)
  <2>1. s # <<>> => Len(s) >= 1
    BY LenProperties, EmptySeq
  <2> QED
    BY <2>1, LenProperties, AppendProperties, ElementOfSeq, EmptySeq
<1>2. Among(r, Stops) = IF e \in Stops THEN Append(Among(s, Stops), e) ELSE Among(s, Stops)
  BY AmongAppend
<1>3. Among(s, Stops) \in Seq(Events) /\ (s = <<>> => Among(s, Stops) = <<>>)
  BY AmongTyped, AmongEmpty
<1>4. e \in Stops <=> e.kind = "stop"
  BY DEF Stops
<1> HIDE DEF r
<1>5. Prompt(s) \in Usages
  <2>1. NoUsage \in Usages
    BY DEF NoUsage, Usages
  <2>2. s # <<>> /\ s[1].kind = "start" => s[1].usage \in Usages
    BY <1>1, AnthropicAssumption DEF Usages
  <2> QED
    BY <2>1, <2>2 DEF Prompt
<1>6. ASSUME e.kind = "start", s = <<>>
      PROVE  Prompt(r) = e.usage /\ LastStop(r) = [stop |-> "", output |-> e.usage.output]
  <2>1. Prompt(r) = e.usage
    BY <1>1, <1>6 DEF Prompt
  <2>2. Among(r, Stops) = <<>>
    BY <1>2, <1>3, <1>4, <1>6
  <2> QED
    BY <2>1, <2>2 DEF LastStop, Stops
<1>7. ASSUME e.kind = "start" => s # <<>>
      PROVE  /\ Prompt(r) = Prompt(s)
             /\ LastStop(r) = IF e.kind = "stop" THEN e ELSE LastStop(s)
  <2>1. Prompt(r) = Prompt(s)
    BY <1>1, <1>7 DEF Prompt
  <2>2. CASE e.kind = "stop"
    <3>1. Among(r, Stops) # <<>> /\ Last(Among(r, Stops)) = e
      BY <1>2, <1>3, <1>4, <2>2, FrontAppend
    <3> QED
      BY <2>1, <2>2, <3>1 DEF LastStop, Stops
  <2>3. CASE e.kind # "stop"
    <3>1. Among(r, Stops) = Among(s, Stops)
      BY <1>2, <1>4, <2>3
    <3> QED
      BY <2>1, <2>3, <3>1 DEF LastStop, Stops
  <2> QED
    BY <2>1, <2>2, <2>3
<1> QED
  BY <1>5, <1>6, <1>7 DEF r

\* What the accumulator makes of a transcript.
MessageOf(s) ==
  [content |-> ContentOf(s), stop |-> LastStop(s).stop,
   usage |-> [Prompt(s) EXCEPT !.output = LastStop(s).output]]

\* What finish queues for it.
QueueOf(s) == Append(Calls(s), DoneOf(s))

\* An event accumulated, or refused: the message stays that of the transcript.
LEMMA MessageGrows ==
  ASSUME sent \in Seq(Events), acc = MessageOf(sent), NEW e \in Events,
         e.kind = "start" => sent = <<>>, sent' = Append(sent, e),
         IF Accumulates(e) THEN acc' = Accumulate(e) ELSE UNCHANGED acc
  PROVE  acc' = MessageOf(sent')
<1> DEFINE c == ContentOf(sent)
<1>1. acc = [content |-> c, stop |-> LastStop(sent).stop,
             usage |-> [Prompt(sent) EXCEPT !.output = LastStop(sent).output]]
  BY DEF MessageOf
<1>2. /\ e.kind = "block" => ContentOf(sent') = Append(c,
           [type |-> e.type, id |-> e.id, name |-> e.name, body |-> <<>>])
      /\ e.kind = "delta" /\ c # <<>> =>
           ContentOf(sent') = [c EXCEPT ![Len(c)].body =
                             IF e.piece = "" THEN @ ELSE Append(@, e.piece)]
      /\ e.kind = "delta" /\ c = <<>> => ContentOf(sent') = c
      /\ e.kind \notin {"block", "delta"} => ContentOf(sent') = c
  BY ContentGrows
<1>3. /\ Prompt(sent) \in Usages
      /\ e.kind = "start" =>
           Prompt(sent') = e.usage /\ LastStop(sent') = [stop |-> "", output |-> e.usage.output]
      /\ e.kind # "start" =>
           /\ Prompt(sent') = Prompt(sent)
           /\ LastStop(sent') = IF e.kind = "stop" THEN e ELSE LastStop(sent)
  BY TotalsGrow
<1>4. acc.content = c
  BY <1>1
<1>5. sent = <<>> => c = <<>>
  <2>1. Len(BlockStarts(<<>>)) = 0
    BY EmptyRecords, EmptySeq
  <2>2. c \in Seq({Block(sent, i) : i \in 1 .. Len(sent)}) /\ Len(c) = Len(BlockStarts(sent))
    BY ContentGrows
  <2> QED
    BY <2>1, <2>2, EmptySeq
<1> HIDE DEF c
<1>6. CASE e.kind = "start"
  <2>1. acc' = [content |-> <<>>, stop |-> "", usage |-> e.usage]
    BY <1>6 DEF Accumulates, Accumulate
  <2>2. ContentOf(sent') = <<>>
    BY <1>2, <1>5, <1>6
  <2>3. [e.usage EXCEPT !.output = e.usage.output] = e.usage
    BY <1>6, AnthropicAssumption
  <2>4. LastStop(sent').stop = "" /\ LastStop(sent').output = e.usage.output /\ Prompt(sent') = e.usage
    <3>1. LastStop(sent') = [stop |-> "", output |-> e.usage.output] /\ Prompt(sent') = e.usage
      BY <1>3, <1>6, Zenon
    <3>2. ASSUME NEW m, NEW o, m = [stop |-> "", output |-> o] PROVE m.stop = "" /\ m.output = o
      <4> HIDE DEF c
      <4> QED
        BY <3>2, Zenon
    <3> QED
      BY <3>1, <3>2, Zenon
  <2> QED
    BY <2>1, <2>2, <2>3, <2>4, Zenon DEF MessageOf
<1>7. CASE e.kind = "block"
  <2>1. acc' = [acc EXCEPT !.content =
            Append(@, [type |-> e.type, id |-> e.id, name |-> e.name, body |-> <<>>])]
    BY <1>7 DEF Accumulates, Accumulate
  <2>2. acc' = [acc EXCEPT !.content = ContentOf(sent')]
    BY <1>2, <1>4, <1>7, <2>1
  <2> QED
    BY <1>1, <1>3, <1>7, <2>2 DEF MessageOf
<1>8. CASE e.kind = "delta"
  <2>1. CASE c # <<>>
    <3>1. acc' = [acc EXCEPT !.content[Len(acc.content)].body =
            IF e.piece = "" THEN @ ELSE Append(@, e.piece)]
      BY <1>4, <1>8, <2>1 DEF Accumulates, Accumulate
    <3>2. acc' = [acc EXCEPT !.content =
                    [c EXCEPT ![Len(c)].body = IF e.piece = "" THEN @ ELSE Append(@, e.piece)]]
      BY <1>1, <1>4, <3>1
    <3>3. acc' = [acc EXCEPT !.content = ContentOf(sent')]
      BY <1>2, <1>8, <2>1, <3>2
    <3> QED
      BY <1>1, <1>3, <1>8, <3>3 DEF MessageOf
  <2>2. CASE c = <<>>
    <3>1. UNCHANGED acc
      BY <1>4, <1>8, <2>2 DEF Accumulates
    <3> QED
      BY <1>1, <1>2, <1>3, <1>8, <2>2, <3>1 DEF MessageOf
  <2> QED
    BY <2>1, <2>2
<1>9. CASE e.kind = "stop"
  <2>1. acc' = [content |-> c, stop |-> e.stop,
                usage |-> [acc.usage EXCEPT !.output = e.output]]
    BY <1>4, <1>9 DEF Accumulates, Accumulate
  <2>2. [acc.usage EXCEPT !.output = e.output] = [Prompt(sent) EXCEPT !.output = e.output]
    <3>1. \A u \in Usages : \A o : [[u EXCEPT !.output = o] EXCEPT !.output = e.output]
                              = [u EXCEPT !.output = e.output]
      BY DEF Usages
    <3>2. acc.usage = [Prompt(sent) EXCEPT !.output = LastStop(sent).output]
      BY <1>1
    <3> QED
      BY <1>3, <3>1, <3>2, Zenon
  <2>3. LastStop(sent') = e /\ Prompt(sent') = Prompt(sent) /\ ContentOf(sent') = c
    BY <1>2, <1>3, <1>9
  <2> QED
    BY <2>1, <2>2, <2>3, Zenon DEF MessageOf
<1>10. CASE e.kind = "other"
  <2>1. acc' = acc
    BY <1>10 DEF Accumulates, Accumulate
  <2> QED
    BY <1>1, <1>2, <1>3, <1>10, <2>1 DEF MessageOf
<1> QED
  BY <1>6, <1>7, <1>8, <1>9, <1>10, AnthropicAssumption

\* What finish queues is what the transcript calls for: the calls, then the
\* terminal event, which is the last and the only one of its kind.
Queue(q) ==
  \A i \in 1 .. Len(q) : q[i].type = IF i = Len(q) THEN "done" ELSE "tool"

LEMMA FlushedIs ==
  ASSUME sent \in Seq(Events), acc = MessageOf(sent)
  PROVE  /\ Flushed = QueueOf(sent) /\ Queue(QueueOf(sent)) /\ QueueOf(sent) # <<>>
         /\ Told(sent) = Spoken(sent) \o QueueOf(sent)
         /\ Len(QueueOf(sent)) = Len(Calls(sent)) + 1 /\ Len(Calls(sent)) \in Nat
         /\ \E S : QueueOf(sent) \in Seq(S)
<1> DEFINE d == DoneOf(sent)
           q == Calls(sent)
<1>1. acc.content = ContentOf(sent) /\ acc.stop = LastStop(sent).stop
      /\ acc.usage = [Prompt(sent) EXCEPT !.output = LastStop(sent).output]
  BY DEF MessageOf
<1>2. CallsFromMessage(acc.content) = q
  BY <1>1, CallsAgree
<1>3. [type |-> "done", usage |-> UsageFrom(acc.usage), stop |-> MapStopReason(acc.stop)] = d
  <2>1. Prompt(sent) \in Usages
    <3>1. CASE Events = {}
      <4>1. sent = <<>>
        BY <3>1
      <4> QED
        BY <4>1 DEF Prompt, NoUsage, Usages
    <3>2. CASE Events # {}
      BY <3>2, TotalsGrow
    <3> QED
      BY <3>1, <3>2
  <2>2. UsageFrom(acc.usage)
          = [Prompt(sent) EXCEPT !.input = @ + Prompt(sent).cacheRead + Prompt(sent).cacheWrite,
                                 !.output = LastStop(sent).output]
    BY <1>1, <2>1 DEF UsageFrom, Usages
  <2> QED
    BY <1>1, <2>2 DEF DoneOf
<1>4. PICK T : q \in Seq(T) /\ \A e \in T : e.type = "tool"
  BY CallsAgree
<1>5. d.type = "done"
  BY DEF DoneOf
<1> HIDE DEF d, q
<1>6. /\ Append(q, d) # <<>> /\ Len(q) \in Nat /\ Len(Append(q, d)) = Len(q) + 1
      /\ \A i \in 1 .. Len(q) : Append(q, d)[i] = q[i] /\ q[i] \in T
      /\ Append(q, d)[Len(q) + 1] = d
      /\ \E S : Append(q, d) \in Seq(S)
  <2>1. q \in Seq(T \cup {d}) /\ d \in T \cup {d}
    BY <1>4, SeqMonotonic
  <2>2. \A i \in 1 .. Len(q) : q[i] \in T
    BY <1>4, ElementOfSeq
  <2>3. /\ \E S : Append(q, d) \in Seq(S)
        /\ Len(q) \in Nat /\ Len(Append(q, d)) = Len(q) + 1 /\ Append(q, d) # <<>>
        /\ \A i \in 1 .. Len(q) : Append(q, d)[i] = q[i]
        /\ Append(q, d)[Len(q) + 1] = d
    BY <2>1, AppendProperties, LenProperties, EmptySeq
  <2> QED
    BY <2>2, <2>3, Zenon
<1>7. Queue(Append(q, d))
  BY <1>4, <1>5, <1>6 DEF Queue
<1>8. Flushed = Append(q, d)
  BY <1>2, <1>3 DEF Flushed
<1> QED
  BY <1>6, <1>7, <1>8 DEF Told, QueueOf, q, d

-----------------------------------------------------------------------------
(* The invariant.                                                          *)

\* Until the end everything spoken is in the log, but for what an accumulator
\* refused; from then on the log and the queue are all there is to tell.
Delivery ==
  /\ sent \in Seq(Events) /\ acc = MessageOf(sent)
  /\ \E S : log \in Seq(S) /\ queued \in Seq(S)
  /\ Queue(queued)
  /\ ~ flushed =>
       /\ queued = <<>> /\ ~ done /\ log \in Seq(Voices)
       /\ IF err = "accumulate" THEN \E said \in Seq(Voices) : Spoken(sent) = log \o said
                                ELSE Spoken(sent) = log
  /\ flushed =>
       /\ log \o queued = Told(sent)
       /\ Len(queued) <= Len(Calls(sent)) + 1

\* The message has its stop reason.
Stopped == acc.stop # ""

Progress ==
  /\ pc = "reading" => ~ done /\ err = "nil" /\ queued = <<>>
  /\ HasDone <=> flushed /\ queued = <<>>
  /\ flushed => Stopped /\ wire # "open" /\ err = "nil"
  /\ done => flushed /\ queued = <<>>

Inv == Delivery /\ Progress

LEMMA InitHolds == Init => Inv /\ Contract!ContractInit
<1> SUFFICES ASSUME Init PROVE Inv /\ Contract!ContractInit
  OBVIOUS
<1>1. sent = <<>> /\ log = <<>> /\ queued = <<>> /\ ~ flushed /\ ~ done /\ err = "nil" /\ pc = "idle"
  BY DEF Init
<1>2. acc = [content |-> <<>>, stop |-> "", usage |-> NoUsage]
  BY DEF Init
<1>3. Spoken(sent) = <<>> /\ BlockStarts(sent) = <<>>
  BY <1>1, EmptyRecords
<1>4. acc = MessageOf(sent)
  <2>1. ContentOf(sent) = <<>>
    BY <1>3 DEF ContentOf
  <2>2. Prompt(sent) = NoUsage
    BY <1>1 DEF Prompt
  <2>3. LastStop(sent) = [stop |-> "", output |-> NoUsage.output]
    BY <1>1, <2>2, AmongEmpty DEF LastStop
  <2>4. LastStop(sent).stop = "" /\ [NoUsage EXCEPT !.output = LastStop(sent).output] = NoUsage
    <3>1. LastStop(sent).stop = "" /\ LastStop(sent).output = NoUsage.output
      <4>1. ASSUME NEW m, NEW o, m = [stop |-> "", output |-> o] PROVE m.stop = "" /\ m.output = o
        BY <4>1, Zenon
      <4> QED
        BY <2>3, <4>1, Zenon
    <3>2. [NoUsage EXCEPT !.output = NoUsage.output] = NoUsage
      BY DEF NoUsage
    <3> QED
      BY <3>1, <3>2
  <2> QED
    BY <1>2, <2>1, <2>2, <2>4 DEF MessageOf
<1>5. log \in Seq(Voices) /\ queued \in Seq(Voices) /\ sent \in Seq(Events)
  BY <1>1
<1>6. Delivery
  BY <1>1, <1>3, <1>4, <1>5 DEF Delivery, Queue
<1>7. Progress
  BY <1>1 DEF Progress, HasDone
<1>8. Contract!ContractInit
  <2>1. [i \in DOMAIN log |-> log[i].type] = <<>>
    BY <1>1
  <2> QED
    BY <2>1 DEF Init, Contract!ContractInit
<1> QED
  BY <1>6, <1>7, <1>8 DEF Inv

\* What the consumer sees of the log.
LEMMA HasDoneMaps == Delivery => (Contract!HasDone <=> HasDone)
<1> SUFFICES ASSUME Delivery PROVE Contract!HasDone <=> HasDone
  OBVIOUS
<1>1. PICK S : log \in Seq(S)
  BY DEF Delivery
<1> QED
  BY <1>1, TypesFacts DEF Contract!HasDone, HasDone, Last

\* An event returned is the last of the log.
LEMMA ReturnFacts ==
  ASSUME Delivery, ~ HasDone, NEW e, Return(e), err = "nil", ~ done, UNCHANGED <<done, closed>>
  PROVE  /\ HasDone' <=> e.type = "done"
         /\ Contract!Deliver(e.type)
<1>1. log' = Append(log, e) /\ pc' = "idle" /\ err' = err
  BY DEF Return
<1>2. PICK S : log \in Seq(S)
  BY DEF Delivery
<1>3. log \in Seq(S \cup {e}) /\ e \in S \cup {e} /\ Last(log') = e /\ log' # <<>>
  BY <1>1, <1>2, SeqMonotonic, FrontAppend
<1>4. [i \in DOMAIN log' |-> log'[i].type] = Append([i \in DOMAIN log |-> log[i].type], e.type)
  BY <1>1, <1>3, TypesFacts
<1>5. HasDone' <=> e.type = "done"
  BY <1>3 DEF HasDone
<1>6. Contract!Deliver(e.type)
  BY <1>1, <1>4, HasDoneMaps DEF Contract!Deliver
<1> QED
  BY <1>5, <1>6

\* The head of what waits is handed out: the rest waits, and the terminal event
\* is the last of it.
LEMMA HandedOut ==
  ASSUME Inv, ~ HasDone, ~ done, err = "nil", NEW q, q # <<>>, Queue(q),
         NEW S, log \in Seq(S), q \in Seq(S),
         log \o q = Told(sent), Len(q) <= Len(Calls(sent)) + 1, Stopped,
         Return(Head(q)), queued' = Tail(q), flushed' = TRUE, wire' # "open",
         UNCHANGED <<acc, done, closed, sent>>
  PROVE  Inv' /\ Contract!ContractNext
<1>0. PICK e : e = Head(q)
  OBVIOUS
<1>1. /\ log' = Append(log, e) /\ pc' = "idle" /\ err' = "nil" /\ Return(e)
  BY <1>0 DEF Return
<1>2. /\ e \in S /\ queued' \in Seq(S) /\ log' \in Seq(S) /\ log' \o queued' = log \o q
  <2>1. /\ Head(q) \in S /\ Tail(q) \in Seq(S) /\ Append(log, Head(q)) \in Seq(S)
        /\ Append(log, Head(q)) \o Tail(q) = log \o q
    BY MoveHead
  <2> QED
    BY <1>0, <1>1, <2>1
<1>3. /\ Len(q) \in Nat \ {0} /\ Len(queued') = Len(q) - 1
      /\ \A i \in 1 .. Len(q) - 1 : queued'[i] = q[i + 1]
      /\ e = q[1] /\ (queued' = <<>> <=> Len(queued') = 0)
  <2>1. Len(q) \in Nat \ {0} /\ Len(Tail(q)) = Len(q) - 1 /\ Head(q) = q[1]
        /\ \A i \in 1 .. Len(Tail(q)) : Tail(q)[i] = q[i + 1]
    <3>1. Len(q) \in Nat \ {0} /\ Head(q) = q[1]
      BY LenProperties, EmptySeq
    <3>2. /\ Tail(q) \in Seq(S) /\ Len(Tail(q)) = Len(q) - 1
          /\ \A i \in 1 .. Len(Tail(q)) : Tail(q)[i] = q[i + 1]
      BY HeadTailProperties
    <3> QED
      BY <3>1, <3>2
  <2> QED
    BY <1>0, <1>2, <2>1, EmptySeq
<1>4. Queue(queued')
  <2>1. ASSUME NEW i \in 1 .. Len(queued')
        PROVE  queued'[i].type = IF i = Len(queued') THEN "done" ELSE "tool"
    <3>1. i + 1 \in 1 .. Len(q) /\ queued'[i] = q[i + 1] /\ (i = Len(queued') <=> i + 1 = Len(q))
      BY <1>3
    <3> QED
      BY <3>1 DEF Queue
  <2> QED
    BY <2>1 DEF Queue
<1>5. e.type \in {"tool", "done"} /\ (e.type = "done" <=> queued' = <<>>)
  <2>1. 1 \in 1 .. Len(q) /\ (queued' = <<>> <=> 1 = Len(q))
    BY <1>3
  <2>2. q[1].type = IF 1 = Len(q) THEN "done" ELSE "tool"
    BY <2>1 DEF Queue
  <2> QED
    BY <1>3, <2>1, <2>2
<1>6. HasDone' <=> e.type = "done"
  BY <1>1, ReturnFacts DEF Inv
<1>7. Contract!Deliver(e.type)
  BY <1>1, ReturnFacts DEF Inv
<1>8. Len(queued') <= Len(Calls(sent)) + 1
  <2>1. Len(Calls(sent)) \in Nat
    BY FlushedIs DEF Inv, Delivery
  <2> QED
    BY <1>3, <2>1
<1>9. Delivery'
  BY <1>2, <1>4, <1>8 DEF Inv, Delivery
<1>10. Progress'
  <2>1. Stopped'
    BY DEF Stopped
  <2> QED
    BY <1>1, <1>5, <1>6, <2>1 DEF Inv, Progress
<1>11. Contract!ContractNext
  BY <1>5, <1>7 DEF Contract!ContractNext
<1> QED
  BY <1>9, <1>10, <1>11 DEF Inv

\* One event read: passed on, kept, or refused.
LEMMA ReadHolds ==
  ASSUME Inv, NEW e \in Events, ReadEvent(e)
  PROVE  Inv' /\ [Contract!ContractNext]_Contract!contractVars
<1>1. /\ pc = "reading" /\ wire = "open" /\ sent' = Append(sent, e)
      /\ e.kind = "start" => sent = <<>>
      /\ UNCHANGED <<queued, flushed, done, closed, wire>>
  BY DEF ReadEvent
<1>2. /\ ~ done /\ err = "nil" /\ queued = <<>> /\ ~ flushed /\ ~ HasDone
      /\ sent \in Seq(Events) /\ sent' \in Seq(Events)
      /\ log \in Seq(Voices) /\ Spoken(sent) = log /\ acc = MessageOf(sent)
  BY <1>1, AppendProperties DEF Inv, Progress, Delivery
<1>3. Spoken(sent') = IF Says(e) THEN Append(log, VoiceOf(e)) ELSE log
  BY <1>1, <1>2, SpokenGrows
<1>4. Says(e) => VoiceOf(e) \in Voices
  BY DEF Voices
<1>5. CASE ~ Accumulates(e) /\ ReturnFalse("accumulate") /\ UNCHANGED acc
  <2>1. pc' = "idle" /\ err' = "accumulate" /\ log' = log
    BY <1>5 DEF ReturnFalse
  <2>2. acc' = MessageOf(sent')
    BY <1>1, <1>2, <1>5, MessageGrows
  <2>3. \E said \in Seq(Voices) : Spoken(sent') = log \o said
    <3>1. CASE Says(e)
      <4>1. <<VoiceOf(e)>> \in Seq(Voices) /\ Append(log, VoiceOf(e)) = log \o <<VoiceOf(e)>>
        BY <1>2, <1>4, <3>1, AppendIsConcat
      <4> QED
        BY <1>3, <3>1, <4>1
    <3>2. CASE ~ Says(e)
      <4>1. <<>> \in Seq(Voices) /\ log \o <<>> = log
        BY <1>2, ConcatEmptySeq
      <4> QED
        BY <1>3, <3>2, <4>1
    <3> QED
      BY <3>1, <3>2
  <2>4. HasDone' = HasDone
    BY <2>1 DEF HasDone
  <2>5. Delivery'
    BY <1>1, <1>2, <2>1, <2>2, <2>3 DEF Inv, Delivery, Queue
  <2>6. Progress'
    BY <1>1, <1>2, <2>1, <2>4 DEF Progress
  <2>7. Contract!EndFailed
    BY <1>1, <1>2, <2>1 DEF Contract!EndFailed
  <2> QED
    BY <2>5, <2>6, <2>7 DEF Inv, Contract!ContractNext
<1>6. CASE Accumulates(e) /\ Says(e) /\ acc' = Accumulate(e) /\ Return(VoiceOf(e))
  <2>1. log' = Append(log, VoiceOf(e)) /\ pc' = "idle" /\ err' = err
    BY <1>6 DEF Return
  <2>2. acc' = MessageOf(sent')
    BY <1>1, <1>2, <1>6, MessageGrows
  <2>3. log' \in Seq(Voices) /\ Spoken(sent') = log'
    BY <1>2, <1>3, <1>4, <1>6, <2>1, AppendProperties
  <2>4. VoiceOf(e).type \in {"text", "thinking"}
    BY <1>4, <1>6, VoicesTyped
  <2>5. ~ HasDone' /\ Contract!Deliver(VoiceOf(e).type)
    BY <1>1, <1>2, <1>6, <2>4, ReturnFacts DEF Inv
  <2>6. Delivery'
    BY <1>1, <1>2, <2>1, <2>2, <2>3 DEF Inv, Delivery, Queue
  <2>7. Progress'
    BY <1>1, <1>2, <2>1, <2>5 DEF Progress
  <2> QED
    BY <2>4, <2>5, <2>6, <2>7 DEF Inv, Contract!ContractNext
<1>7. CASE Accumulates(e) /\ ~ Says(e) /\ acc' = Accumulate(e) /\ UNCHANGED <<pc, err, log>>
  <2>1. acc' = MessageOf(sent')
    BY <1>1, <1>2, <1>7, MessageGrows
  <2>2. HasDone' = HasDone
    BY <1>7 DEF HasDone
  <2>3. Delivery'
    BY <1>1, <1>2, <1>3, <1>7, <2>1 DEF Inv, Delivery, Queue
  <2>4. Progress'
    BY <1>1, <1>2, <1>7, <2>2 DEF Progress
  <2> QED
    BY <1>1, <1>7, <2>3, <2>4 DEF Inv, Contract!contractVars
<1> QED
  BY <1>5, <1>6, <1>7 DEF ReadEvent, VoiceOf

\* A step that reads nothing, returns no event and does not touch the message.
LEMMA QuietStep ==
  ASSUME Inv, UNCHANGED <<acc, queued, flushed, done, log, sent>>,
         pc' = "reading" => ~ done /\ err' = "nil" /\ queued = <<>>,
         wire' = wire \/ wire' # "open",
         err' = err \/ (~ flushed /\ err = "nil" /\ err' # "accumulate")
  PROVE  Inv'
<1>1. HasDone' = HasDone
  BY DEF HasDone
<1>2. Delivery'
  BY DEF Inv, Delivery
<1>3. Progress'
  BY <1>1 DEF Inv, Progress, Stopped
<1> QED
  BY <1>2, <1>3 DEF Inv

\* The end of the SDK's stream: truncated, the first of what finish queues, or
\* the end.
LEMMA EndHolds ==
  ASSUME Inv, ReadEnd
  PROVE  Inv' /\ Contract!ContractNext
<1>1. /\ pc = "reading" /\ wire' = "eof" /\ UNCHANGED <<acc, closed, sent>>
      /\ ~ done /\ err = "nil" /\ queued = <<>>
  BY DEF ReadEnd, Inv, Progress
<1>2. CASE acc.stop = "" /\ ~ flushed
  <2>1. /\ ReturnFalse("truncated") /\ UNCHANGED <<queued, flushed, done>>
    BY <1>2 DEF ReadEnd
  <2>2. pc' = "idle" /\ err' = "truncated" /\ log' = log
    BY <2>1 DEF ReturnFalse
  <2>3. Inv'
    BY <1>1, <1>2, <2>1, <2>2, QuietStep
  <2>4. Contract!EndFailed
    BY <1>1, <2>1, <2>2 DEF Contract!EndFailed
  <2> QED
    BY <2>3, <2>4 DEF Contract!ContractNext
<1>3. CASE Stopped /\ ~ flushed
  <2>1. Finish
    BY <1>3 DEF ReadEnd, Stopped
  <2>2. /\ Flushed = QueueOf(sent) /\ Queue(Flushed) /\ Flushed # <<>>
        /\ Told(sent) = Spoken(sent) \o Flushed /\ Len(Flushed) = Len(Calls(sent)) + 1
        /\ Len(Calls(sent)) \in Nat /\ \E S : Flushed \in Seq(S)
    BY FlushedIs DEF Inv, Delivery
  <2>3. flushed' = TRUE /\ queued' = Tail(Flushed) /\ Return(Head(Flushed)) /\ UNCHANGED done
    BY <1>3, <2>1, <2>2 DEF Finish
  <2>4. log \in Seq(Voices) /\ Spoken(sent) = log /\ ~ HasDone
    BY <1>1, <1>3 DEF Inv, Delivery, Progress
  <2>5. PICK q : q = Flushed
    OBVIOUS
  <2>6. PICK S : q \in Seq(S)
    BY <2>2, <2>5
  <2>7. log \in Seq(S \cup Voices) /\ q \in Seq(S \cup Voices)
    BY <2>4, <2>6, SeqMonotonic
  <2>8. /\ Queue(q) /\ q # <<>> /\ log \o q = Told(sent) /\ Len(q) <= Len(Calls(sent)) + 1
        /\ queued' = Tail(q) /\ Return(Head(q))
    BY <2>2, <2>3, <2>4, <2>5
  <2> QED
    BY <1>1, <1>3, <2>3, <2>4, <2>7, <2>8, HandedOut
<1>4. CASE flushed
  <2>1. Finish
    BY <1>4 DEF ReadEnd
  <2>2. done' = TRUE /\ ReturnFalse("nil") /\ UNCHANGED queued /\ flushed' = TRUE
    BY <1>1, <1>4, <2>1 DEF Finish
  <2>3. pc' = "idle" /\ err' = "nil" /\ log' = log
    BY <2>2 DEF ReturnFalse
  <2>4. HasDone' = HasDone /\ HasDone
    BY <1>1, <1>4, <2>3 DEF HasDone, Inv, Progress
  <2>5. Delivery'
    BY <1>1, <1>4, <2>2, <2>3 DEF Inv, Delivery
  <2>6. Progress'
    <3>1. Stopped'
      BY <1>1, <1>4 DEF Inv, Progress, Stopped
    <3> QED
      BY <1>1, <1>4, <2>2, <2>3, <2>4, <3>1 DEF Inv, Progress
  <2>7. Contract!EndCleanly
    BY <1>1, <2>2, <2>3, <2>4, HasDoneMaps DEF Contract!EndCleanly, Inv
  <2> QED
    BY <2>5, <2>6, <2>7 DEF Inv, Contract!ContractNext
<1> QED
  BY <1>2, <1>3, <1>4 DEF Stopped

\* Every step keeps the invariant and is one of the contract, or one the consumer
\* does not see.
LEMMA StepHolds ==
  ASSUME Inv, [Next]_vars
  PROVE  Inv' /\ [Contract!ContractNext]_Contract!contractVars
<1>1. CASE HandOutQueued
  <2>1. /\ pc = "idle" /\ ~ done /\ err = "nil" /\ queued # <<>>
        /\ queued' = Tail(queued) /\ Return(Head(queued))
        /\ UNCHANGED <<acc, flushed, done, closed, sent, wire>>
    BY <1>1 DEF HandOutQueued
  <2>2. /\ flushed /\ ~ HasDone /\ wire # "open" /\ Stopped
        /\ log \o queued = Told(sent) /\ Len(queued) <= Len(Calls(sent)) + 1
        /\ Queue(queued) /\ \E S : log \in Seq(S) /\ queued \in Seq(S)
    BY <2>1 DEF Inv, Progress, Delivery
  <2>3. PICK S : log \in Seq(S) /\ queued \in Seq(S)
    BY <2>2
  <2>4. Inv' /\ Contract!ContractNext
    BY <2>1, <2>2, <2>3, HandedOut
  <2> QED
    BY <2>4
<1>2. CASE CallNext
  <2>1. Inv'
    BY <1>2, QuietStep DEF CallNext
  <2> QED
    BY <1>2, <2>1 DEF CallNext, Contract!contractVars
<1>3. ASSUME NEW e \in Events, ReadEvent(e)
      PROVE  Inv' /\ [Contract!ContractNext]_Contract!contractVars
  BY <1>3, ReadHolds
<1>4. CASE ReadFails
  <2>1. /\ pc = "reading" /\ wire = "open" /\ wire' = "failed" /\ pc' = "idle" /\ err' = "provider"
        /\ UNCHANGED <<acc, queued, flushed, done, closed, log, sent>>
    BY <1>4 DEF ReadFails, ReturnFalse
  <2>2. ~ done /\ err = "nil" /\ ~ flushed
    BY <2>1 DEF Inv, Progress
  <2>3. Inv'
    BY <2>1, <2>2, QuietStep
  <2>4. Contract!EndFailed
    BY <2>1, <2>2 DEF Contract!EndFailed
  <2> QED
    BY <2>3, <2>4 DEF Contract!ContractNext
<1>5. CASE ReadEnd
  BY <1>5, EndHolds
<1>6. CASE Close
  <2>1. closed' = TRUE /\ UNCHANGED <<pc, acc, queued, flushed, done, err, log, sent, wire>>
    BY <1>6 DEF Close
  <2>2. Inv'
    BY <2>1, QuietStep DEF Inv, Progress
  <2>3. Contract!Release
    BY <2>1 DEF Contract!Release
  <2> QED
    BY <2>2, <2>3 DEF Contract!ContractNext
<1>7. CASE UNCHANGED vars
  <2>1. UNCHANGED <<pc, acc, queued, flushed, done, closed, err, log, sent, wire>>
    BY <1>7 DEF vars
  <2>2. Inv'
    BY <2>1, QuietStep DEF Inv, Progress
  <2> QED
    BY <2>1, <2>2 DEF Contract!contractVars
<1> QED
  BY <1>1, <1>2, <1>3, <1>4, <1>5, <1>6, <1>7 DEF Next

LEMMA Invariance == Spec => []Inv
<1>1. Inv /\ [Next]_vars => Inv'
  BY StepHolds
<1> QED
  BY <1>1, InitHolds, PTL DEF Spec

-----------------------------------------------------------------------------
(* The results.                                                            *)

\* No terminal event, no tool call and no clean end of a message without a stop
\* reason, whatever the provider sends and wherever it breaks off (the check of
\* acc.StopReason in Next).
THEOREM NeverTruncated == Spec => []NoTruncatedAnswer
<1>1. Inv => NoTruncatedAnswer
  <2> SUFFICES ASSUME Inv, (\E i \in DOMAIN log : log[i].type \in {"tool", "done"}) \/ done
               PROVE  \E i \in DOMAIN sent : sent[i].kind = "stop" /\ sent[i].stop # ""
    BY DEF NoTruncatedAnswer
  <2>1. flushed
    <3>1. ~ flushed => \A i \in DOMAIN log : log[i].type \in {"text", "thinking"}
      BY VoicesTyped, LenProperties, ElementOfSeq DEF Inv, Delivery
    <3> QED
      BY <3>1 DEF Inv, Delivery
  <2>2. LastStop(sent).stop # "" /\ sent \in Seq(Events)
    BY <2>1 DEF Inv, Delivery, Progress, Stopped, MessageOf
  <2> DEFINE stops == Among(sent, Stops)
  <2>3. stops # <<>> /\ Last(stops).stop # ""
    BY <2>2 DEF LastStop, Stops
  <2>4. PICK i \in DOMAIN sent : sent[i] \in Stops /\ sent[i] = Last(stops)
    BY <2>2, <2>3, AmongLast
  <2> QED
    BY <2>3, <2>4 DEF Stops
<1> QED
  BY <1>1, Invariance, PTL

\* Text and thinking as they come, every call whole and once, then the terminal
\* event with the totals (stream.queued and the accumulated message).
THEOREM Faithful == Spec => []LogFaithful
<1>1. Inv => LogFaithful
  <2> SUFFICES ASSUME Inv PROVE LogFaithful
    OBVIOUS
  <2>1. PICK S : QueueOf(sent) \in Seq(S)
    BY FlushedIs DEF Inv, Delivery
  <2>2. /\ Told(sent) = Spoken(sent) \o QueueOf(sent)
        /\ Len(QueueOf(sent)) = Len(Calls(sent)) + 1 /\ Len(Calls(sent)) \in Nat
    BY FlushedIs DEF Inv, Delivery
  <2>3. Spoken(sent) \in Seq(Voices) /\ Len(Spoken(sent)) \in Nat
    BY SpokenTyped, LenProperties DEF Inv, Delivery
  <2>4. PICK T : Spoken(sent) \in Seq(T) /\ QueueOf(sent) \in Seq(T) /\ Voices \subseteq T
    <3>1. Spoken(sent) \in Seq(S \cup Voices) /\ QueueOf(sent) \in Seq(S \cup Voices)
      BY <2>1, <2>3, SeqMonotonic
    <3> QED
      BY <3>1
  <2>5. CASE flushed
    <3>1. log \o queued = Told(sent) /\ Len(queued) <= Len(Calls(sent)) + 1
          /\ \E R : log \in Seq(R) /\ queued \in Seq(R)
      BY <2>5 DEF Inv, Delivery
    <3>2. PICK R : log \in Seq(R) /\ queued \in Seq(R)
      BY <3>1
    <3>3. /\ IsPrefix(log, Told(sent)) /\ Len(Told(sent)) = Len(log) + Len(queued)
          /\ Len(log) \in Nat /\ Len(queued) \in Nat
      BY <3>1, <3>2, PrefixOfConcat, LenProperties
    <3>4. Len(Told(sent)) = Len(Spoken(sent)) + Len(QueueOf(sent))
      BY <2>2, <2>4, PrefixOfConcat
    <3>5. Len(log) >= Len(Spoken(sent))
      BY <2>2, <2>3, <3>1, <3>3, <3>4
    <3>6. HasDone \/ done => log = Told(sent)
      BY <3>1, <3>2, ConcatEmptySeq DEF Inv, Progress
    <3> QED
      BY <3>3, <3>5, <3>6 DEF LogFaithful
  <2>6. CASE ~ flushed
    <3>1. /\ ~ HasDone /\ ~ done /\ log \in Seq(Voices)
          /\ IF err = "accumulate" THEN \E said \in Seq(Voices) : Spoken(sent) = log \o said
                                   ELSE Spoken(sent) = log
      BY <2>6 DEF Inv, Delivery, Progress
    <3>2. PICK said \in Seq(Voices) : Spoken(sent) = log \o said
      <4>1. <<>> \in Seq(Voices) /\ log \o <<>> = log
        BY <3>1, ConcatEmptySeq
      <4> QED
        BY <3>1, <4>1
    <3>3. log \in Seq(T) /\ said \in Seq(T)
      BY <2>4, <3>1, SeqMonotonic
    <3>4. Told(sent) = log \o (said \o QueueOf(sent)) /\ said \o QueueOf(sent) \in Seq(T)
      <4>1. QueueOf(sent) \in Seq(T)
        BY <2>4
      <4>2. (log \o said) \o QueueOf(sent) = log \o (said \o QueueOf(sent))
        BY <3>3, <4>1, ConcatAssociative
      <4>3. said \o QueueOf(sent) \in Seq(T)
        BY <3>3, <4>1, ConcatProperties
      <4> QED
        BY <2>2, <3>2, <4>2, <4>3
    <3>5. IsPrefix(log, Told(sent))
      BY <3>3, <3>4, PrefixOfConcat
    <3> QED
      BY <2>3, <3>1, <3>5 DEF LogFaithful
  <2> QED
    BY <2>5, <2>6
<1> QED
  BY <1>1, Invariance, PTL

\* The decoder keeps the contract of a Stream (Next, Err, Close).
THEOREM Refinement == Spec => KeepsContract
<1>1. Inv /\ [Next]_vars => [Contract!ContractNext]_Contract!contractVars
  BY StepHolds
<1> QED
  BY <1>1, InitHolds, Invariance, PTL DEF Spec, KeepsContract, Contract!ContractSpec
=============================================================================
