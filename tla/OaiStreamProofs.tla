-------------------------- MODULE OaiStreamProofs --------------------------
(***************************************************************************)
(* The OpenAI-compatible decoder, for any records in any number and order: *)
(* it never passes a truncated answer off as a whole one, it is a Stream   *)
(* as StreamContract has it, and what its consumer has been given is what  *)
(* the provider sent.                                                      *)
(*                                                                         *)
(* The first two look only at the flags. For the third, the buffer of      *)
(* pending calls holds what the fragments read so far amount to, and what  *)
(* was delivered with what is left of the order is all of it.              *)
(***************************************************************************)
EXTENDS OaiStream, SequenceLemmas

Types == {"text", "tool", "done"}

\* The log is a sequence of events.
LogTyped ==
  /\ \E S : log \in Seq(S)
  /\ \A i \in DOMAIN log : log[i].type \in Types

\* How far the response is: a call or the terminal event needs the signal, the
\* end needs the terminal event.
Progress ==
  /\ pc = "reading" => ~ done /\ err = "nil"
  /\ sawTerminal => Signalled
  /\ flushed => sawTerminal
  /\ done => flushed
  /\ \A i \in DOMAIN log : log[i].type # "text" => sawTerminal

\* The terminal event is the last of the log from finish on, which leaves no
\* call behind and happens when no record can follow.
Terminal ==
  /\ flushed <=> HasDone
  /\ flushed => order = <<>>
  /\ flushed => wire # "open" \/ (sent # <<>> /\ sent[Len(sent)].kind = "DONE")

Inv == sent \in Seq(Frames) /\ LogTyped /\ Progress /\ Terminal

-----------------------------------------------------------------------------
(* One event more.                                                         *)

\* What Next returning an event means for the history of events.
LEMMA ReturnFacts ==
  ASSUME LogTyped, NEW e, e.type \in Types, Return(e)
  PROVE  /\ LogTyped'
         /\ HasDone' <=> e.type = "done"
         /\ \A i \in DOMAIN log' : log'[i] = e \/ (i \in DOMAIN log /\ log'[i] = log[i])
         /\ [i \in DOMAIN log' |-> log'[i].type] = Append([i \in DOMAIN log |-> log[i].type], e.type)
<1>1. log' = Append(log, e)
  BY DEF Return
<1>2. /\ \E S : log' \in Seq(S)
      /\ Len(log) \in Nat /\ Len(log') = Len(log) + 1
      /\ DOMAIN log = 1 .. Len(log) /\ DOMAIN log' = 1 .. Len(log) + 1
      /\ log' # <<>>
      /\ \A i \in 1 .. Len(log) : log'[i] = log[i]
      /\ log'[Len(log) + 1] = e
  BY <1>1, AppendSeq DEF LogTyped
<1>3. \A i \in DOMAIN log' : log'[i] = e \/ (i \in DOMAIN log /\ log'[i] = log[i])
  BY <1>2
<1>4. LogTyped'
  BY <1>2, <1>3 DEF LogTyped
<1>5. HasDone' <=> e.type = "done"
  BY <1>2 DEF HasDone, Last
<1>6. [i \in DOMAIN log' |-> log'[i].type] = Append([i \in DOMAIN log |-> log[i].type], e.type)
  <2> DEFINE types == [i \in DOMAIN log |-> log[i].type]
             typesOf == [i \in DOMAIN log' |-> log'[i].type]
  <2>1. types \in Seq(Types) /\ Len(types) = Len(log)
    BY <1>2 DEF LogTyped
  <2>2. typesOf \in Seq(Types) /\ Len(typesOf) = Len(log) + 1
    BY <1>2, <1>4 DEF LogTyped
  <2>3. /\ Append(types, e.type) \in Seq(Types)
        /\ Len(Append(types, e.type)) = Len(log) + 1
    BY <2>1
  <2>4. ASSUME NEW i \in 1 .. Len(log) + 1 PROVE typesOf[i] = Append(types, e.type)[i]
    <3>1. CASE i \in 1 .. Len(log)
      BY <1>2, <2>1, <3>1
    <3>2. CASE i = Len(log) + 1
      BY <1>2, <2>1, <3>2
    <3> QED
      BY <1>2, <2>4, <3>1, <3>2
  <2> QED
    BY <2>1, <2>2, <2>3, <2>4, SeqEqual
<1> QED
  BY <1>3, <1>4, <1>5, <1>6
-----------------------------------------------------------------------------
(* What a step finds and leaves.                                           *)

\* Contract's log ends with a done event when this one does.
LEMMA HasDoneMaps == LogTyped => (Contract!HasDone <=> HasDone)
<1> SUFFICES ASSUME LogTyped PROVE Contract!HasDone <=> HasDone
  OBVIOUS
<1> DEFINE types == [i \in DOMAIN log |-> log[i].type]
<1>1. Len(log) \in Nat /\ DOMAIN log = 1 .. Len(log) /\ (log = <<>> <=> Len(log) = 0)
  BY LenProperties, EmptySeq DEF LogTyped
<1>2. types \in Seq(Types) /\ Len(types) = Len(log) /\ (types = <<>> <=> Len(log) = 0)
  BY <1>1, EmptySeq DEF LogTyped
<1>3. log # <<>> => types[Len(types)] = log[Len(log)].type
  BY <1>1, <1>2
<1> QED
  BY <1>1, <1>2, <1>3 DEF Contract!HasDone, HasDone, Last

\* A record read is the last one sent; the signals before it stand, and nothing
\* has been flushed yet.
LEMMA ReadsFacts ==
  ASSUME Inv, NEW f \in Frames, Reads(f)
  PROVE  /\ pc = "reading" /\ ~ flushed /\ ~ done /\ err = "nil"
         /\ UNCHANGED <<closed, wire>>
         /\ sent' \in Seq(Frames) /\ sent' # <<>> /\ sent'[Len(sent')] = f
         /\ Signalled => Signalled'
         /\ f.kind = "DONE" \/ (f.kind = "chunk" /\ f.choice /\ f.finish # "") => Signalled'
<1>1. /\ pc = "reading" /\ wire = "open" /\ UNCHANGED <<closed, wire>>
      /\ sent # <<>> => sent[Len(sent)].kind # "DONE"
      /\ sent' = Append(sent, f)
  BY DEF Reads
<1>2. /\ sent' \in Seq(Frames) /\ sent' # <<>> /\ Len(sent') = Len(sent) + 1
      /\ \A i \in 1 .. Len(sent) : sent'[i] = sent[i]
      /\ sent'[Len(sent) + 1] = f /\ Len(sent) \in Nat
  BY <1>1, AppendProperties, LenProperties DEF Inv
<1>3. DOMAIN sent = 1 .. Len(sent) /\ DOMAIN sent' = 1 .. Len(sent) + 1
  BY <1>2, LenProperties DEF Inv
<1>4. Signalled => Signalled'
  <2>1. \A i \in DOMAIN sent : i \in DOMAIN sent' /\ sent'[i] = sent[i]
    BY <1>2, <1>3
  <2> QED
    BY <2>1, Zenon DEF Signalled
<1>5. f.kind = "DONE" \/ (f.kind = "chunk" /\ f.choice /\ f.finish # "") => Signalled'
  <2>1. Len(sent) + 1 \in DOMAIN sent'
    BY <1>2, <1>3
  <2> QED
    BY <1>2, <2>1 DEF Signalled, Finished, WithChoice, Chunks
<1>6. ~ flushed /\ ~ done /\ err = "nil"
  BY <1>1 DEF Inv, Terminal, Progress
<1> QED
  BY <1>1, <1>2, <1>4, <1>5, <1>6

\* finish returns a call, the terminal event, or the end.
LEMMA FinishOutcomes ==
  ASSUME Inv, Finish
  PROVE  \/ /\ \E c : Return(ToolEvent(c))
            /\ ~ flushed /\ UNCHANGED <<flushed, done>>
         \/ /\ Return(DoneEvent(usage, stopReason))
            /\ ~ flushed /\ flushed' /\ order' = <<>> /\ UNCHANGED done
         \/ /\ ReturnFalse("nil")
            /\ flushed /\ done' /\ order' = <<>> /\ UNCHANGED flushed
<1>1. CASE Named # {}
  <2>1. DOMAIN <<>> = {}
    OBVIOUS
  <2>2. order # <<>>
    BY <1>1, <2>1, Zenon DEF Named
  <2>3. ~ flushed
    BY <2>2 DEF Inv, Terminal
  <2> QED
    BY <1>1, <2>3, Zenon DEF Finish
<1>2. CASE Named = {}
  BY <1>2, Zenon DEF Finish
<1> QED
  BY <1>1, <1>2

\* finish, wherever Next reaches it: the response is over and no record follows.
LEMMA FinishHolds ==
  ASSUME Inv, pc = "reading", Finish,
         sawTerminal', Signalled', sent' \in Seq(Frames),
         wire' # "open" \/ (sent' # <<>> /\ sent'[Len(sent')].kind = "DONE"),
         UNCHANGED closed
  PROVE  Inv' /\ Contract!ContractNext
<1>1. ~ done /\ err = "nil" /\ LogTyped /\ (flushed <=> HasDone)
  BY DEF Inv, Progress, Terminal
<1>2. Contract!HasDone <=> flushed
  BY <1>1, HasDoneMaps
<1>3. ASSUME NEW c, Return(ToolEvent(c)), ~ flushed, UNCHANGED <<flushed, done>>
      PROVE  Inv' /\ Contract!ContractNext
  <2>1. ToolEvent(c).type = "tool"
    BY DEF ToolEvent
  <2>2. ToolEvent(c).type \in Types
    BY <2>1 DEF Types
  <2>3. /\ LogTyped' /\ ~ HasDone'
        /\ [i \in DOMAIN log' |-> log'[i].type] = Append([i \in DOMAIN log |-> log[i].type], "tool")
    BY <1>1, <1>3, <2>1, <2>2, ReturnFacts
  <2>4. pc' = "idle" /\ UNCHANGED err
    BY <1>3 DEF Return
  <2>5. Contract!Deliver("tool")
    BY <1>1, <1>2, <1>3, <2>3, <2>4 DEF Contract!Deliver
  <2> QED
    BY <1>1, <1>3, <2>3, <2>4, <2>5 DEF Inv, Progress, Terminal, Contract!ContractNext
<1>4. ASSUME Return(DoneEvent(usage, stopReason)), ~ flushed, flushed', order' = <<>>, UNCHANGED done
      PROVE  Inv' /\ Contract!ContractNext
  <2>1. DoneEvent(usage, stopReason).type = "done"
    BY DEF DoneEvent
  <2>2. DoneEvent(usage, stopReason).type \in Types
    BY <2>1 DEF Types
  <2>3. /\ LogTyped' /\ HasDone'
        /\ [i \in DOMAIN log' |-> log'[i].type] = Append([i \in DOMAIN log |-> log[i].type], "done")
    BY <1>1, <1>4, <2>1, <2>2, ReturnFacts
  <2>4. pc' = "idle" /\ UNCHANGED err
    BY <1>4 DEF Return
  <2>5. Contract!Deliver("done")
    BY <1>1, <1>2, <1>4, <2>3, <2>4 DEF Contract!Deliver
  <2> QED
    BY <1>1, <1>4, <2>3, <2>4, <2>5 DEF Inv, Progress, Terminal, Contract!ContractNext
<1>5. ASSUME ReturnFalse("nil"), flushed, done', order' = <<>>, UNCHANGED flushed
      PROVE  Inv' /\ Contract!ContractNext
  <2>1. pc' = "idle" /\ err' = "nil" /\ UNCHANGED log
    BY <1>5 DEF ReturnFalse
  <2>2. Contract!EndCleanly
    BY <1>1, <1>2, <1>5, <2>1 DEF Contract!EndCleanly
  <2> QED
    BY <1>1, <1>5, <2>1, <2>2
    DEF Inv, LogTyped, HasDone, Progress, Terminal, Contract!ContractNext
<1> QED
  BY FinishOutcomes, <1>3, <1>4, <1>5
\* Every step of the decoder keeps the invariant and is one of its contract, or
\* one the consumer does not see.
LEMMA StepHolds ==
  ASSUME Inv, [Next]_vars
  PROVE  Inv' /\ [Contract!ContractNext]_Contract!contractVars
<1> USE DEF Inv
<1>1. CASE CallNext
  BY <1>1 DEF CallNext, LogTyped, HasDone, Progress, Terminal, Signalled,
              Contract!contractVars
<1>2. CASE Close
  BY <1>2 DEF Close, LogTyped, HasDone, Progress, Terminal, Signalled,
              Contract!ContractNext, Contract!Release
<1>3. CASE ReadFails
  <2>1. Inv'
    BY <1>3 DEF ReadFails, ReturnFalse, LogTyped, HasDone, Progress, Terminal, Signalled
  <2>2. Contract!EndFailed
    BY <1>3 DEF ReadFails, ReturnFalse, Progress, Contract!EndFailed
  <2> QED
    BY <2>1, <2>2 DEF Contract!ContractNext
<1>4. CASE ReadEOF
  <2>1. CASE ~ sawTerminal /\ ~ flushed
    <3>1. Inv'
      BY <1>4, <2>1 DEF ReadEOF, ReturnFalse, LogTyped, HasDone, Progress, Terminal, Signalled
    <3>2. Contract!EndFailed
      BY <1>4, <2>1 DEF ReadEOF, ReturnFalse, Progress, Contract!EndFailed
    <3> QED
      BY <3>1, <3>2 DEF Contract!ContractNext
  <2>2. CASE sawTerminal \/ flushed
    <3>1. /\ pc = "reading" /\ wire' = "eof" /\ Finish
          /\ UNCHANGED <<sawTerminal, closed, sent>>
      BY <1>4, <2>2 DEF ReadEOF
    <3>2. sawTerminal' /\ Signalled'
      BY <2>2, <3>1 DEF Progress, Signalled
    <3> QED
      BY <3>1, <3>2, FinishHolds
  <2> QED
    BY <2>1, <2>2
<1>5. ASSUME NEW f \in Frames, ReadSentinel(f)
      PROVE  Inv' /\ Contract!ContractNext
  <2>1. Reads(f) /\ f.kind = "DONE" /\ sawTerminal' /\ Finish
    BY <1>5 DEF ReadSentinel
  <2>2. /\ pc = "reading" /\ UNCHANGED closed /\ sent' \in Seq(Frames) /\ Signalled'
        /\ sent' # <<>> /\ sent'[Len(sent')].kind = "DONE"
    BY <2>1, ReadsFacts
  <2> QED
    BY <2>1, <2>2, FinishHolds
<1>6. ASSUME NEW f \in Frames, ReadSkipped(f) \/ ReadBareChunk(f)
      PROVE  Inv' /\ UNCHANGED Contract!contractVars
  <2>1. Reads(f) /\ UNCHANGED <<pc, order, flushed, done, sawTerminal, err, log>>
    BY <1>6 DEF ReadSkipped, ReadBareChunk
  <2>2. /\ ~ flushed /\ UNCHANGED closed /\ sent' \in Seq(Frames)
        /\ Signalled => Signalled'
    BY <2>1, ReadsFacts
  <2> QED
    BY <2>1, <2>2 DEF LogTyped, HasDone, Progress, Terminal, Contract!contractVars
<1>7. ASSUME NEW f \in Frames, ReadErrorChunk(f)
      PROVE  Inv' /\ Contract!ContractNext
  <2>1. /\ Reads(f) /\ UNCHANGED <<order, flushed, done, sawTerminal, log>>
        /\ pc' = "idle" /\ err' = "provider"
    BY <1>7 DEF ReadErrorChunk, ReturnFalse
  <2>2. /\ ~ flushed /\ ~ done /\ err = "nil" /\ UNCHANGED closed /\ sent' \in Seq(Frames)
        /\ Signalled => Signalled'
    BY <2>1, ReadsFacts
  <2>3. Contract!EndFailed
    BY <2>1, <2>2 DEF Contract!EndFailed
  <2> QED
    BY <2>1, <2>2, <2>3 DEF LogTyped, HasDone, Progress, Terminal, Contract!ContractNext
<1>8. ASSUME NEW f \in Frames, ReadChoice(f)
      PROVE  Inv' /\ [Contract!ContractNext]_Contract!contractVars
  <2>1. /\ Reads(f) /\ f.kind = "chunk" /\ f.choice
        /\ UNCHANGED <<flushed, done>>
        /\ sawTerminal' => sawTerminal \/ f.finish # ""
        /\ sawTerminal => sawTerminal'
    BY <1>8 DEF ReadChoice
  <2>2. /\ ~ flushed /\ ~ done /\ err = "nil" /\ UNCHANGED closed /\ sent' \in Seq(Frames)
        /\ sawTerminal' => Signalled'
    BY <2>1, ReadsFacts DEF Progress
  <2>3. CASE f.text # ""
    <3> DEFINE e == [type |-> "text", text |-> f.text]
    <3>1. e.type \in Types /\ e.type = "text" /\ Return(e)
      BY <1>8, <2>3 DEF ReadChoice, Types
    <3> HIDE DEF e
    <3>2. /\ LogTyped' /\ ~ HasDone'
          /\ \A i \in DOMAIN log' : log'[i] = e \/ (i \in DOMAIN log /\ log'[i] = log[i])
          /\ [i \in DOMAIN log' |-> log'[i].type] = Append([i \in DOMAIN log |-> log[i].type], "text")
      BY <3>1, ReturnFacts
    <3>3. pc' = "idle" /\ UNCHANGED err
      BY <3>1 DEF Return
    <3>4. ~ Contract!HasDone
      BY <2>2, HasDoneMaps DEF Terminal
    <3>5. Contract!Deliver("text")
      BY <2>1, <2>2, <3>2, <3>3, <3>4 DEF Contract!Deliver
    <3> QED
      BY <2>1, <2>2, <3>1, <3>2, <3>3, <3>5 DEF Progress, Terminal, Contract!ContractNext
  <2>4. CASE f.text = ""
    <3>1. UNCHANGED <<pc, err, log>>
      BY <1>8, <2>4 DEF ReadChoice
    <3> QED
      BY <2>1, <2>2, <3>1 DEF LogTyped, HasDone, Progress, Terminal, Contract!contractVars
  <2> QED
    BY <2>3, <2>4
<1>9. CASE UNCHANGED vars
  BY <1>9 DEF vars, LogTyped, HasDone, Progress, Terminal, Signalled, Contract!contractVars
<1> QED
  BY <1>1, <1>2, <1>3, <1>4, <1>5, <1>6, <1>7, <1>8, <1>9 DEF Next, ReadRecord

-----------------------------------------------------------------------------
(* Theorems.                                                               *)

LEMMA InitHolds == Init => Inv /\ Contract!ContractInit
<1> SUFFICES ASSUME Init PROVE Inv /\ Contract!ContractInit
  OBVIOUS
<1>1. DOMAIN <<>> = {} /\ <<>> \in Seq({}) /\ <<>> \in Seq(Frames)
  OBVIOUS
<1>2. Inv
  BY <1>1 DEF Init, Inv, LogTyped, HasDone, Progress, Terminal
<1>3. [i \in DOMAIN <<>> |-> <<>>[i].type] = <<>>
  BY <1>1
<1>4. Contract!ContractInit
  BY <1>3 DEF Init, Contract!ContractInit
<1> QED
  BY <1>2, <1>4

\* The inductive invariant.
THEOREM Invariance == Spec => []Inv
  BY InitHolds, StepHolds, PTL DEF Spec

\* No terminal event, no tool call and no clean end of a response that the
\* provider has not declared over, whatever it sends and wherever it breaks off
\* (sawTerminal in Next).
THEOREM NeverTruncated == Spec => []NoTruncatedAnswer
<1>1. Inv => NoTruncatedAnswer
  BY DEF Inv, Progress, NoTruncatedAnswer
<1> QED
  BY <1>1, Invariance, PTL

\* The decoder implements the contract of a Stream, on which ObservedStream,
\* CollectStream and the gateway's handler are built.
THEOREM Refinement == Spec => KeepsContract
<1>1. Init => Contract!ContractInit
  BY InitHolds
<1>2. Inv /\ [Next]_vars => [Contract!ContractNext]_Contract!contractVars
  BY StepHolds
<1> QED
  BY <1>1, <1>2, Invariance, PTL DEF Spec, KeepsContract, Contract!ContractSpec

-----------------------------------------------------------------------------
(* Assembly: what a fragment more does to each of the parts that the       *)
(* properties read off all the fragments at once.                          *)

WithId(i)   == {tc \in Fragment : tc.idx = i /\ tc.id # ""}
WithName(i) == {tc \in Fragment : tc.idx = i /\ tc.name # ""}

\* The call of index i before it is told.
PartsOf(frags, i) == [id |-> IdOf(frags, i), name |-> NameOf(frags, i), args |-> ArgsOf(frags, i)]

\* A fragment gives its id to the call of its index, if it has one.
LEMMA IdTold ==
  ASSUME NEW frags \in Seq(Fragment), NEW tc \in Fragment, NEW i
  PROVE  IdOf(Append(frags, tc), i) = IF tc.idx = i /\ tc.id # "" THEN tc.id ELSE IdOf(frags, i)
<1> DEFINE given == Among(frags, WithId(i))
<1>1. /\ given \in Seq(Fragment)
      /\ Among(Append(frags, tc), WithId(i)) = IF tc \in WithId(i) THEN Append(given, tc) ELSE given
  <2>1. \A T : Among(frags, T) \in Seq(Fragment)
    BY AmongTyped
  <2>2. \A T : Among(Append(frags, tc), T) = IF tc \in T THEN Append(Among(frags, T), tc) ELSE Among(frags, T)
    BY AmongAppend
  <2> QED
    BY <2>1, <2>2, Zenon
<1>2. \A g : IdOf(g, i) = IF Among(g, WithId(i)) = <<>> THEN "" ELSE Last(Among(g, WithId(i))).id
  BY DEF IdOf, WithId
<1>4. tc \in WithId(i) <=> tc.idx = i /\ tc.id # ""
  BY DEF WithId
<1>5. Append(given, tc) # <<>> /\ Last(Append(given, tc)) = tc
  BY <1>1, LastAppended
<1> HIDE DEF given
<1> QED
  BY <1>1, <1>2, <1>4, <1>5 DEF given

\* And its name.
LEMMA NameTold ==
  ASSUME NEW frags \in Seq(Fragment), NEW tc \in Fragment, NEW i
  PROVE  NameOf(Append(frags, tc), i) = IF tc.idx = i /\ tc.name # "" THEN tc.name ELSE NameOf(frags, i)
<1> DEFINE given == Among(frags, WithName(i))
<1>1. /\ given \in Seq(Fragment)
      /\ Among(Append(frags, tc), WithName(i)) = IF tc \in WithName(i) THEN Append(given, tc) ELSE given
  <2>1. \A T : Among(frags, T) \in Seq(Fragment)
    BY AmongTyped
  <2>2. \A T : Among(Append(frags, tc), T) = IF tc \in T THEN Append(Among(frags, T), tc) ELSE Among(frags, T)
    BY AmongAppend
  <2> QED
    BY <2>1, <2>2, Zenon
<1>2. \A g : NameOf(g, i) = IF Among(g, WithName(i)) = <<>> THEN "" ELSE Last(Among(g, WithName(i))).name
  BY DEF NameOf, WithName
<1>4. tc \in WithName(i) <=> tc.idx = i /\ tc.name # ""
  BY DEF WithName
<1>5. Append(given, tc) # <<>> /\ Last(Append(given, tc)) = tc
  BY <1>1, LastAppended
<1> HIDE DEF given
<1> QED
  BY <1>1, <1>2, <1>4, <1>5 DEF given

\* And its arguments.
LEMMA ArgsTold ==
  ASSUME NEW frags \in Seq(Fragment), NEW tc \in Fragment, NEW i
  PROVE  /\ ArgsOf(Append(frags, tc), i) = IF tc.idx = i THEN ArgsOf(frags, i) \o tc.args ELSE ArgsOf(frags, i)
         /\ ArgsOf(frags, i) \in Seq(STRING)
<1> DEFINE n == Len(frags)
           now == Append(frags, tc)
           f == [j \in DOMAIN frags |-> IF frags[j].idx = i THEN frags[j].args ELSE <<>>]
           g == [j \in DOMAIN now |-> IF now[j].idx = i THEN now[j].args ELSE <<>>]
<1>1. /\ n \in Nat /\ DOMAIN frags = 1 .. n /\ DOMAIN now = 1 .. n + 1
      /\ \A j \in 1 .. n : now[j] = frags[j] /\ frags[j] \in Fragment
      /\ now[n + 1] = tc
  BY LenProperties, AppendProperties
<1>2. \A j \in 1 .. n + 1 : now[j] \in Fragment
  <2>1. \A j \in 1 .. n + 1 : j \in 1 .. n \/ j = n + 1
    BY <1>1
  <2> QED
    BY <1>1, <2>1
<1>3. tc.args \in Seq(STRING) /\ <<>> \in Seq(STRING)
  BY EmptySeq DEF Fragment
<1>4. f \in [1 .. n -> Seq(STRING)]
  BY <1>1, <1>3 DEF Fragment
<1>5. g \in [1 .. n + 1 -> Seq(STRING)] /\ \A j \in 1 .. n : g[j] = f[j]
  <2>1. g \in [1 .. n + 1 -> Seq(STRING)]
    BY <1>1, <1>2, <1>3 DEF Fragment
  <2>2. ASSUME NEW j \in 1 .. n PROVE g[j] = f[j]
    <3>1. j \in 1 .. n + 1
      BY <1>1
    <3> QED
      BY <1>1, <3>1
  <2> QED
    BY <2>1, <2>2
<1>6. g[n + 1] = IF tc.idx = i THEN tc.args ELSE <<>>
  BY <1>1
<1>7. ArgsOf(frags, i) = FlattenSeq(f) /\ ArgsOf(now, i) = FlattenSeq(g)
  BY DEF ArgsOf
<1> HIDE DEF f, g, now, n
<1>8. FlattenSeq(g) = FlattenSeq(f) \o g[n + 1] /\ FlattenSeq(f) \in Seq(STRING)
  BY <1>1, <1>4, <1>5, FlattenGrows
<1> QED
  BY <1>6, <1>7, <1>8, ConcatEmptySeq DEF now

\* An index no fragment had before is the last of the order.
LEMMA BegunTold ==
  ASSUME NEW frags \in Seq(Fragment), NEW tc \in Fragment
  PROVE  /\ Begun(Append(frags, tc)) =
              IF \A k \in 1 .. Len(frags) : frags[k].idx # tc.idx
                THEN Append(Begun(frags), tc.idx) ELSE Begun(frags)
         /\ Begun(frags) \in Seq(Int)
<1> DEFINE n == Len(frags)
           now == Append(frags, tc)
           f == [j \in DOMAIN frags |->
                   IF \A k \in 1 .. j - 1 : frags[k].idx # frags[j].idx THEN <<frags[j].idx>> ELSE <<>>]
           g == [j \in DOMAIN now |->
                   IF \A k \in 1 .. j - 1 : now[k].idx # now[j].idx THEN <<now[j].idx>> ELSE <<>>]
<1>1. /\ n \in Nat /\ DOMAIN frags = 1 .. n /\ DOMAIN now = 1 .. n + 1
      /\ \A j \in 1 .. n : now[j] = frags[j] /\ frags[j] \in Fragment
      /\ now[n + 1] = tc
  BY LenProperties, AppendProperties
<1>2. \A j \in 1 .. n + 1 : now[j] \in Fragment
  <2>1. \A j \in 1 .. n + 1 : j \in 1 .. n \/ j = n + 1
    BY <1>1
  <2> QED
    BY <1>1, <2>1
<1>3. /\ \A i \in Int : <<i>> \in Seq(Int)
      /\ <<>> \in Seq(Int)
  BY EmptySeq
<1>4. f \in [1 .. n -> Seq(Int)]
  BY <1>1, <1>3 DEF Fragment
<1>5. g \in [1 .. n + 1 -> Seq(Int)]
  BY <1>1, <1>2, <1>3 DEF Fragment
<1>6. ASSUME NEW j \in 1 .. n PROVE g[j] = f[j]
  <2>1. j \in 1 .. n + 1 /\ \A k \in 1 .. j - 1 : k \in 1 .. n
    BY <1>1
  <2> QED
    BY <1>1, <2>1
<1>7. g[n + 1] = IF \A k \in 1 .. n : frags[k].idx # tc.idx THEN <<tc.idx>> ELSE <<>>
  <2>1. n + 1 \in DOMAIN now /\ (n + 1) - 1 = n
    BY <1>1
  <2> QED
    BY <1>1, <2>1
<1>8. Begun(frags) = FlattenSeq(f) /\ Begun(now) = FlattenSeq(g)
  BY DEF Begun
<1> HIDE DEF f, g
<1>9. FlattenSeq(g) = FlattenSeq(f) \o g[n + 1] /\ FlattenSeq(f) \in Seq(Int)
  BY <1>1, <1>4, <1>5, <1>6, FlattenGrows
<1>10. tc.idx \in Int
  BY DEF Fragment
<1>11. FlattenSeq(f) \o <<tc.idx>> = Append(FlattenSeq(f), tc.idx)
  BY <1>9, <1>10, AppendIsConcat
<1>12. FlattenSeq(f) \o <<>> = FlattenSeq(f)
  BY <1>9, ConcatEmptySeq
<1> HIDE DEF now, n
<1> QED
  BY <1>7, <1>8, <1>9, <1>11, <1>12 DEF now, n

\* The order is one of indices.
LEMMA BegunTyped ==
  ASSUME NEW frags \in Seq(Fragment)
  PROVE  Begun(frags) \in Seq(Int)
<1> DEFINE n == Len(frags)
           f == [j \in DOMAIN frags |->
                   IF \A k \in 1 .. j - 1 : frags[k].idx # frags[j].idx THEN <<frags[j].idx>> ELSE <<>>]
<1>1. n \in Nat /\ DOMAIN frags = 1 .. n /\ \A j \in 1 .. n : frags[j] \in Fragment
  BY LenProperties
<1>2. /\ \A i \in Int : <<i>> \in Seq(Int)
      /\ <<>> \in Seq(Int)
  BY EmptySeq
<1>3. f \in [1 .. n -> Seq(Int)]
  BY <1>1, <1>2 DEF Fragment
<1> HIDE DEF f
<1>4. f \in Seq(Seq(Int))
  BY <1>1, <1>3, FunctionIsSeq
<1> QED
  BY <1>4, FlattenTyped DEF Begun, f

\* No fragments, no calls.
LEMMA NoneBegun == Begun(<<>>) = <<>>
<1>1. [j \in DOMAIN <<>> |->
         IF \A k \in 1 .. j - 1 : <<>>[k].idx # <<>>[j].idx THEN <<(<<>>[j].idx)>> ELSE <<>>] = <<>>
  OBVIOUS
<1> QED
  BY <1>1, FlattenEmpty DEF Begun

\* An index is in the order when some fragment had it.
LEMMA BegunAre ==
  ASSUME NEW frags \in Seq(Fragment)
  PROVE  \A i : i \in Range(Begun(frags)) <=> \E k \in 1 .. Len(frags) : frags[k].idx = i
<1> DEFINE Good == {s \in Seq(Fragment) :
                      \A i : i \in Range(Begun(s)) <=> \E k \in 1 .. Len(s) : s[k].idx = i}
<1>1. <<>> \in Good
  <2>1. Begun(<<>>) = <<>>
    BY NoneBegun
  <2>2. Range(<<>>) = {} /\ Len(<<>>) = 0 /\ <<>> \in Seq(Fragment)
    BY EmptySeq DEF Range
  <2> QED
    BY <2>1, <2>2
<1>2. ASSUME NEW s \in Good, NEW tc \in Fragment PROVE Append(s, tc) \in Good
  <2> DEFINE u == Append(s, tc)
             n == Len(s)
  <2>1. /\ u \in Seq(Fragment) /\ n \in Nat /\ Len(u) = n + 1 /\ u[n + 1] = tc
        /\ \A k \in 1 .. n : u[k] = s[k]
    BY AppendProperties, LenProperties
  <2>2. \A i : (\E k \in 1 .. Len(u) : u[k].idx = i) <=> (tc.idx = i \/ \E k \in 1 .. n : s[k].idx = i)
    <3>1. \A k \in 1 .. n + 1 : k \in 1 .. n \/ k = n + 1
      BY <2>1
    <3>2. n + 1 \in 1 .. n + 1 /\ \A k \in 1 .. n : k \in 1 .. n + 1
      BY <2>1
    <3> QED
      BY <2>1, <3>1, <3>2, Zenon
  <2>3. \A i : i \in Range(Begun(s)) <=> \E k \in 1 .. n : s[k].idx = i
    BY Zenon
  <2>4. /\ Begun(s) \in Seq(Int)
        /\ Begun(u) = IF \A k \in 1 .. n : s[k].idx # tc.idx
                      THEN Append(Begun(s), tc.idx) ELSE Begun(s)
    BY BegunTold
  <2>5. Range(Append(Begun(s), tc.idx)) = Range(Begun(s)) \cup {tc.idx}
    <3>1. tc.idx \in Int
      BY DEF Fragment
    <3> QED
      BY <2>4, <3>1, RangeAppend
  <2> HIDE DEF u, n
  <2>6. \A i : i \in Range(Begun(u)) <=> (tc.idx = i \/ \E k \in 1 .. n : s[k].idx = i)
    BY <2>3, <2>4, <2>5
  <2>7. \A i : i \in Range(Begun(u)) <=> \E k \in 1 .. Len(u) : u[k].idx = i
    BY <2>2, <2>6, Zenon
  <2> QED
    BY <2>1, <2>7 DEF u
<1>3. Good = Seq(Fragment)
  BY <1>1, <1>2, SeqSetInduction
<1> QED
  BY <1>3

\* A buffer that holds what these fragments amount to.
Assembled(buf, frags) ==
  /\ buf.order = Begun(frags)
  /\ DOMAIN buf.calls = Range(buf.order)
  /\ \A i \in DOMAIN buf.calls : buf.calls[i] = PartsOf(frags, i)

\* A call whose index no fragment had is empty.
LEMMA PartsNone ==
  ASSUME NEW frags \in Seq(Fragment), NEW i, \A k \in 1 .. Len(frags) : frags[k].idx # i
  PROVE  PartsOf(frags, i) = EmptyCall
<1>1. Len(frags) \in Nat /\ DOMAIN frags = 1 .. Len(frags)
  BY LenProperties
<1>2. Among(frags, WithId(i)) = <<>>
  <2>1. \A k \in DOMAIN frags : frags[k] \notin WithId(i)
    BY <1>1 DEF WithId
  <2> QED
    BY <2>1, AmongSome
<1>3. Among(frags, WithName(i)) = <<>>
  <2>1. \A k \in DOMAIN frags : frags[k] \notin WithName(i)
    BY <1>1 DEF WithName
  <2> QED
    BY <2>1, AmongSome
<1>4. ArgsOf(frags, i) = <<>>
  <2> DEFINE f == [j \in DOMAIN frags |-> IF frags[j].idx = i THEN frags[j].args ELSE <<>>]
  <2>1. f = [j \in 1 .. Len(frags) |-> <<>>]
    BY <1>1
  <2> HIDE DEF f
  <2>2. FlattenSeq(f) = <<>>
    BY <1>1, <2>1, FlattenNothing
  <2> QED
    BY <2>2 DEF ArgsOf, f
<1>5. IdOf(frags, i) = ""
  BY <1>2, Zenon DEF IdOf, WithId
<1>6. NameOf(frags, i) = ""
  BY <1>3, Zenon DEF NameOf, WithName
<1> QED
  BY <1>4, <1>5, <1>6, Zenon DEF PartsOf, EmptyCall

\* accumulate folds a fragment into the call of its index, and no other.
LEMMA OneAccumulated ==
  ASSUME NEW buf, NEW frags \in Seq(Fragment), Assembled(buf, frags), NEW tc \in Fragment
  PROVE  Assembled(Accumulate(buf, tc), Append(frags, tc))
<1> DEFINE old == IF tc.idx \in DOMAIN buf.calls THEN buf.calls[tc.idx] ELSE EmptyCall
           new == [id   |-> IF tc.id # "" THEN tc.id ELSE old.id,
                   name |-> IF tc.name # "" THEN tc.name ELSE old.name,
                   args |-> old.args \o tc.args]
           now == Append(frags, tc)
           acc == Accumulate(buf, tc)
<1>1. /\ acc.calls = [i \in DOMAIN buf.calls \cup {tc.idx} |->
                        IF i = tc.idx THEN new ELSE buf.calls[i]]
      /\ acc.order = IF tc.idx \in DOMAIN buf.calls THEN buf.order ELSE Append(buf.order, tc.idx)
  BY DEF Accumulate
<1>2. old = PartsOf(frags, tc.idx)
  <2>1. CASE tc.idx \in DOMAIN buf.calls
    BY <2>1 DEF Assembled
  <2>2. CASE tc.idx \notin DOMAIN buf.calls
    <3>1. \A k \in 1 .. Len(frags) : frags[k].idx # tc.idx
      BY <2>2, BegunAre DEF Assembled
    <3> QED
      BY <2>2, <3>1, PartsNone
  <2> QED
    BY <2>1, <2>2
<1> HIDE DEF old
<1>3. new = PartsOf(now, tc.idx)
  <2>1. /\ old.id = IdOf(frags, tc.idx) /\ old.name = NameOf(frags, tc.idx)
        /\ old.args = ArgsOf(frags, tc.idx)
    BY <1>2 DEF PartsOf
  <2>2. IdOf(now, tc.idx) = IF tc.id # "" THEN tc.id ELSE IdOf(frags, tc.idx)
    BY IdTold
  <2>3. NameOf(now, tc.idx) = IF tc.name # "" THEN tc.name ELSE NameOf(frags, tc.idx)
    BY NameTold
  <2>4. ArgsOf(now, tc.idx) = ArgsOf(frags, tc.idx) \o tc.args
    BY ArgsTold
  <2> HIDE DEF now
  <2> QED
    BY <2>1, <2>2, <2>3, <2>4, Zenon DEF PartsOf
<1>4. ASSUME NEW i, i # tc.idx PROVE PartsOf(now, i) = PartsOf(frags, i)
  <2>1. IdOf(now, i) = IdOf(frags, i)
    BY <1>4, IdTold
  <2>2. NameOf(now, i) = NameOf(frags, i)
    BY <1>4, NameTold
  <2>3. ArgsOf(now, i) = ArgsOf(frags, i)
    BY <1>4, ArgsTold
  <2> HIDE DEF now
  <2> QED
    BY <2>1, <2>2, <2>3, Zenon DEF PartsOf
<1> HIDE DEF new
<1>5. acc.order = Begun(now)
  <2>1. tc.idx \in DOMAIN buf.calls <=> \E k \in 1 .. Len(frags) : frags[k].idx = tc.idx
    BY BegunAre DEF Assembled
  <2>2. Begun(now) = IF \A k \in 1 .. Len(frags) : frags[k].idx # tc.idx
                     THEN Append(Begun(frags), tc.idx) ELSE Begun(frags)
    BY BegunTold
  <2>3. buf.order = Begun(frags)
    BY DEF Assembled
  <2> HIDE DEF now, acc
  <2>4. CASE tc.idx \in DOMAIN buf.calls
    BY <1>1, <2>1, <2>2, <2>3, <2>4, Zenon
  <2>5. CASE tc.idx \notin DOMAIN buf.calls
    BY <1>1, <2>1, <2>2, <2>3, <2>5, Zenon
  <2> QED
    BY <2>4, <2>5
<1>6. DOMAIN acc.calls = Range(acc.order)
  <2>1. buf.order \in Seq(Int) /\ tc.idx \in Int
    BY BegunTold DEF Assembled, Fragment
  <2>2. Range(Append(buf.order, tc.idx)) = Range(buf.order) \cup {tc.idx}
    BY <2>1, RangeAppend
  <2>3. DOMAIN buf.calls = Range(buf.order)
    BY DEF Assembled
  <2>4. DOMAIN acc.calls = DOMAIN buf.calls \cup {tc.idx}
    BY <1>1
  <2> HIDE DEF acc
  <2> QED
    BY <1>1, <2>2, <2>3, <2>4
<1>7. ASSUME NEW i \in DOMAIN acc.calls PROVE acc.calls[i] = PartsOf(now, i)
  <2>1. i \in DOMAIN buf.calls \cup {tc.idx}
    BY <1>1
  <2>2. acc.calls[i] = IF i = tc.idx THEN new ELSE buf.calls[i]
    BY <1>1, <2>1
  <2>3. i # tc.idx => buf.calls[i] = PartsOf(frags, i)
    BY <2>1 DEF Assembled
  <2> HIDE DEF acc, now
  <2> QED
    BY <1>3, <1>4, <2>2, <2>3, Zenon
<1> HIDE DEF acc, now
<1>8. Assembled(acc, now)
  BY <1>5, <1>6, <1>7 DEF Assembled
<1> QED
  BY <1>8 DEF acc, now

\* The value of the buffer after each fragment, as Accumulated has it.
IsFold(after, buf, tools, n) ==
  after = [k \in 0 .. n |-> IF k = 0 THEN buf ELSE Accumulate(after[k - 1], tools[k])]

\* There is one, for any number of fragments.
LEMMA FoldExists ==
  ASSUME NEW buf, NEW tools, NEW n \in Nat
  PROVE  \E after : IsFold(after, buf, tools, n)
<1> DEFINE T == {k \in Nat : \E after : IsFold(after, buf, tools, k)}
<1>1. 0 \in T
  <2> DEFINE f == [k \in 0 .. 0 |-> buf]
  <2>1. f = [k \in 0 .. 0 |-> IF k = 0 THEN buf ELSE Accumulate(f[k - 1], tools[k])]
    OBVIOUS
  <2> QED
    BY <2>1 DEF IsFold
<1>2. ASSUME NEW k \in Nat, k \in T PROVE k + 1 \in T
  <2>1. PICK f : IsFold(f, buf, tools, k)
    BY <1>2
  <2> DEFINE g == [j \in 0 .. k + 1 |-> IF j <= k THEN f[j] ELSE Accumulate(f[k], tools[j])]
             step == [j \in 0 .. k + 1 |-> IF j = 0 THEN buf ELSE Accumulate(g[j - 1], tools[j])]
  <2>2. ASSUME NEW j \in 0 .. k + 1 PROVE g[j] = step[j]
    <3>1. CASE j = 0
      <4>1. j \in 0 .. k /\ f[j] = buf
        BY <2>1, <3>1 DEF IsFold
      <4> QED
        BY <3>1, <4>1
    <3>2. CASE j \in 1 .. k
      <4>1. j \in 0 .. k /\ j # 0 /\ j - 1 \in 0 .. k + 1 /\ j - 1 <= k /\ j <= k
        BY <3>2
      <4>2. f[j] = Accumulate(f[j - 1], tools[j])
        <5>1. f = [i \in 0 .. k |-> IF i = 0 THEN buf ELSE Accumulate(f[i - 1], tools[i])]
          BY <2>1, Zenon DEF IsFold
        <5> QED
          BY <4>1, <5>1
      <4> QED
        BY <4>1, <4>2
    <3>3. CASE j = k + 1
      <4>1. j # 0 /\ ~ (j <= k) /\ j - 1 = k /\ k \in 0 .. k + 1 /\ k <= k
        BY <3>3
      <4> QED
        BY <4>1
    <3> QED
      BY <3>1, <3>2, <3>3
  <2>3. g = step
    BY <2>2
  <2> HIDE DEF g
  <2>4. IsFold(g, buf, tools, k + 1)
    BY <2>3 DEF IsFold
  <2> QED
    BY <2>4
<1>3. T = Nat
  BY <1>1, <1>2, NatSetInduction
<1> QED
  BY <1>3

\* A chunk's fragments are folded in one after the other.
LEMMA AllAccumulated ==
  ASSUME NEW buf, NEW frags \in Seq(Fragment), Assembled(buf, frags), NEW tools \in Seq(Fragment)
  PROVE  Assembled(Accumulated(buf, tools), frags \o tools)
<1> DEFINE n == Len(tools)
           after == CHOOSE f : IsFold(f, buf, tools, n)
           upTo(k) == frags \o SubSeq(tools, 1, k)
           T == {k \in Nat : k > n \/ Assembled(after[k], upTo(k))}
<1>1. n \in Nat /\ DOMAIN tools = 1 .. n /\ \A k \in 1 .. n : tools[k] \in Fragment
  BY LenProperties
<1>2. Accumulated(buf, tools) = after[n]
  BY DEF Accumulated, IsFold
<1>3. IsFold(after, buf, tools, n)
  BY <1>1, FoldExists
<1> HIDE DEF after
<1>4. after[0] = buf /\ \A k \in 1 .. n : after[k] = Accumulate(after[k - 1], tools[k])
  <2>1. after = [k \in 0 .. n |-> IF k = 0 THEN buf ELSE Accumulate(after[k - 1], tools[k])]
    BY <1>3, Zenon DEF IsFold
  <2>2. 0 \in 0 .. n /\ \A k \in 1 .. n : k \in 0 .. n /\ k # 0
    BY <1>1
  <2> QED
    BY <2>1, <2>2
<1>5. 0 \in T
  <2>1. upTo(0) = frags
    <3>1. SubSeq(tools, 1, 0) = <<>>
      BY <1>1
    <3> QED
      BY <3>1, ConcatEmptySeq
  <2> QED
    BY <1>4, <2>1
<1>6. ASSUME NEW k \in Nat, k \in T PROVE k + 1 \in T
  <2>1. CASE k + 1 > n
    BY <2>1
  <2>2. CASE ~ (k + 1 > n)
    <3>1. k + 1 \in 1 .. n /\ ~ (k > n) /\ (k + 1) - 1 = k
      BY <1>1, <2>2
    <3>2. Assembled(after[k], upTo(k)) /\ tools[k + 1] \in Fragment
      BY <1>1, <1>6, <3>1
    <3>3. SubSeq(tools, 1, k) \in Seq(Fragment) /\ SubSeq(tools, 1, k + 1) = Append(SubSeq(tools, 1, k), tools[k + 1])
      BY <1>1, <3>1
    <3>4. upTo(k) \in Seq(Fragment) /\ upTo(k + 1) = Append(upTo(k), tools[k + 1])
      BY <3>2, <3>3, ConcatProperties, AppendIsConcat, ConcatAssociative
    <3>5. after[k + 1] = Accumulate(after[k], tools[k + 1])
      BY <1>4, <3>1
    <3> HIDE DEF upTo
    <3>6. Assembled(after[k + 1], upTo(k + 1))
      BY <3>2, <3>4, <3>5, OneAccumulated
    <3> QED
      BY <3>6
  <2> QED
    BY <2>1, <2>2
<1> HIDE DEF upTo
<1>7. T = Nat
  <2> HIDE DEF T
  <2> QED
    BY <1>5, <1>6, NatSetInduction DEF T
<1>8. upTo(n) = frags \o tools
  <2>1. SubSeq(tools, 1, n) = tools
    BY <1>1
  <2> QED
    BY <2>1 DEF upTo
<1>9. Assembled(after[n], upTo(n))
  <2>1. n \in T /\ ~ (n > n)
    BY <1>1, <1>7
  <2> QED
    BY <2>1
<1> QED
  BY <1>2, <1>8, <1>9

\* A call told to the consumer, or nothing of one that never got a name.
TellOf(frags, i) ==
  [type |-> "tool", id |-> IdOf(frags, i), name |-> NameOf(frags, i),
   args |-> IF ArgsOf(frags, i) = <<>> THEN <<"{}">> ELSE ArgsOf(frags, i)]
CallEvents(frags) == {TellOf(frags, i) : i \in Int}
CallIn(frags) == [i \in Int |-> IF NameOf(frags, i) = "" THEN <<>> ELSE <<TellOf(frags, i)>>]

\* Each index tells a call, or nothing.
LEMMA CallInTyped == \A frags : CallIn(frags) \in [Int -> Seq(CallEvents(frags))]
<1> SUFFICES ASSUME NEW frags, NEW i \in Int PROVE CallIn(frags)[i] \in Seq(CallEvents(frags))
  BY DEF CallIn
<1>1. TellOf(frags, i) \in CallEvents(frags)
  BY DEF CallEvents
<1>2. <<TellOf(frags, i)>> \in Seq(CallEvents(frags)) /\ <<>> \in Seq(CallEvents(frags))
  BY <1>1, EmptySeq
<1> QED
  BY <1>2 DEF CallIn

\* The calls of some indices are what each of them tells.
LEMMA CallsOfIs ==
  ASSUME NEW frags, NEW indices \in Seq(Int)
  PROVE  /\ CallsOf(frags, indices) = FlatMap(indices, CallIn(frags))
         /\ CallsOf(frags, indices) \in Seq(CallEvents(frags))
<1>1. \A k \in DOMAIN indices : indices[k] \in Int
  BY LenProperties
<1> DEFINE each == [k \in DOMAIN indices |->
             IF NameOf(frags, indices[k]) = "" THEN <<>> ELSE <<TellOf(frags, indices[k])>>]
<1>2. CallsOf(frags, indices) = FlattenSeq(each)
  BY DEF CallsOf, TellOf
<1>3. each = Mapped(indices, CallIn(frags))
  BY <1>1 DEF Mapped, CallIn
<1> HIDE DEF each
<1>4. CallsOf(frags, indices) = FlatMap(indices, CallIn(frags))
  BY <1>2, <1>3 DEF FlatMap
<1>5. FlatMap(indices, CallIn(frags)) \in Seq(CallEvents(frags))
  BY CallInTyped, FlatMapTyped
<1> QED
  BY <1>4, <1>5

\* Indices without a name tell nothing.
LEMMA NoCalls ==
  ASSUME NEW frags, NEW indices \in Seq(Int), \A k \in DOMAIN indices : NameOf(frags, indices[k]) = ""
  PROVE  CallsOf(frags, indices) = <<>>
<1>1. Len(indices) \in Nat /\ DOMAIN indices = 1 .. Len(indices) /\ \A k \in DOMAIN indices : indices[k] \in Int
  BY LenProperties
<1>2. Mapped(indices, CallIn(frags)) = [k \in 1 .. Len(indices) |-> <<>>]
  BY <1>1 DEF Mapped, CallIn
<1>3. FlatMap(indices, CallIn(frags)) = <<>>
  BY <1>1, <1>2, FlattenNothing DEF FlatMap
<1> QED
  BY <1>3, CallsOfIs

\* The first index with a name, and what comes after it.
LEMMA FirstCall ==
  ASSUME NEW frags, NEW indices \in Seq(Int), NEW n \in DOMAIN indices,
         NameOf(frags, indices[n]) # "",
         \A k \in DOMAIN indices : k < n => NameOf(frags, indices[k]) = ""
  PROVE  /\ SubSeq(indices, n + 1, Len(indices)) \in Seq(Int)
         /\ CallsOf(frags, indices)
              = <<TellOf(frags, indices[n])>> \o CallsOf(frags, SubSeq(indices, n + 1, Len(indices)))
         /\ TellOf(frags, indices[n]) \in CallEvents(frags)
<1> DEFINE m == Len(indices)
           before == SubSeq(indices, 1, n - 1)
           one == <<indices[n]>>
           rest == SubSeq(indices, n + 1, m)
           g == CallIn(frags)
<1>1. /\ m \in Nat /\ DOMAIN indices = 1 .. m /\ n \in 1 .. m
      /\ \A k \in DOMAIN indices : indices[k] \in Int
  BY LenProperties
<1>2. /\ before \in Seq(Int) /\ one \in Seq(Int) /\ rest \in Seq(Int)
      /\ DOMAIN before = 1 .. n - 1 /\ \A k \in 1 .. n - 1 : before[k] = indices[k]
  BY <1>1, CutAt
<1>3. indices = before \o (one \o rest)
  BY <1>1, CutAt
<1>4. one \o rest \in Seq(Int)
  BY <1>2, ConcatProperties
<1>5. g \in [Int -> Seq(CallEvents(frags))]
  BY CallInTyped
<1>6. \A k \in DOMAIN before : NameOf(frags, before[k]) = ""
  <2>1. \A k \in 1 .. n - 1 : k \in 1 .. m /\ k < n
    BY <1>1, EarlierPlaces, Zenon
  <2>2. \A k \in DOMAIN indices : k < n => NameOf(frags, indices[k]) = ""
    OBVIOUS
  <2>3. \A k \in 1 .. n - 1 : k \in DOMAIN indices
    BY <1>1, <2>1, Zenon
  <2> HIDE DEF before, m
  <2> QED
    BY <1>2, <2>1, <2>2, <2>3, Zenon
<1>7. g[indices[n]] = <<TellOf(frags, indices[n])>>
  BY <1>1 DEF CallIn
<1>8. TellOf(frags, indices[n]) \in CallEvents(frags)
  BY <1>1 DEF CallEvents
<1>9. FlatMap(one, g) = g[indices[n]]
  <2>1. indices[n] \in Int /\ <<>> \in Seq(Int)
    BY <1>1, EmptySeq
  <2>2. FlatMap(Append(<<>>, indices[n]), g) = FlatMap(<<>>, g) \o g[indices[n]]
    BY <1>5, <2>1, FlatMapAppend
  <2>3. Append(<<>>, indices[n]) = one
    BY AppendNone
  <2>4. FlatMap(<<>>, g) = <<>>
    BY FlatMapEmpty
  <2>5. g[indices[n]] \in Seq(CallEvents(frags))
    BY <1>5, <2>1
  <2> HIDE DEF g, one
  <2> QED
    BY <2>2, <2>3, <2>4, <2>5, ConcatEmptySeq
<1> HIDE DEF g, before, one, rest
<1>10. FlatMap(indices, g) = FlatMap(before, g) \o (FlatMap(one, g) \o FlatMap(rest, g))
  <2>1. FlatMap(one \o rest, g) = FlatMap(one, g) \o FlatMap(rest, g)
    BY <1>2, <1>5, FlatMapConcat
  <2>2. FlatMap(before \o (one \o rest), g) = FlatMap(before, g) \o FlatMap(one \o rest, g)
    BY <1>2, <1>4, <1>5, FlatMapConcat
  <2> QED
    BY <1>3, <2>1, <2>2, Zenon
<1>11. FlatMap(before, g) = <<>>
  BY <1>2, <1>6, NoCalls, CallsOfIs DEF g
<1>12. /\ CallsOf(frags, indices) = FlatMap(indices, g) /\ CallsOf(frags, rest) = FlatMap(rest, g)
       /\ FlatMap(rest, g) \in Seq(CallEvents(frags))
  BY <1>2, CallsOfIs DEF g
<1>13. FlatMap(one, g) \o FlatMap(rest, g) \in Seq(CallEvents(frags))
  <2>1. FlatMap(one, g) \in Seq(CallEvents(frags))
    BY <1>2, <1>5, FlatMapTyped
  <2> QED
    BY <1>12, <2>1, ConcatProperties
<1>14. CallsOf(frags, indices) = <<TellOf(frags, indices[n])>> \o CallsOf(frags, rest)
  <2>1. <<>> \o (FlatMap(one, g) \o FlatMap(rest, g)) = FlatMap(one, g) \o FlatMap(rest, g)
    BY <1>13, ConcatEmptySeq
  <2> QED
    BY <1>7, <1>9, <1>10, <1>11, <1>12, <2>1, Zenon
<1> QED
  BY <1>2, <1>8, <1>14 DEF rest

-----------------------------------------------------------------------------
(* What a record more adds to what is expected.                            *)

ToolsIn == [f \in WithChoice |-> f.tools]
TextIn  == [f \in Texts |-> [type |-> "text", text |-> f.text]]
TextEvents == {[type |-> "text", text |-> f.text] : f \in Texts}

\* Each chunk with a choice has its fragments.
LEMMA ToolsInTyped == ToolsIn \in [WithChoice -> Seq(Fragment)]
  BY OaiAssumption DEF ToolsIn, WithChoice, Chunks

\* Each chunk with text has its event.
LEMMA TextInTyped == TextIn \in [Texts -> TextEvents]
  BY DEF TextIn, TextEvents

\* The fragments of some records are those of each.
LEMMA FragmentsOfIs ==
  ASSUME NEW s \in Seq(Frames)
  PROVE  FragmentsOf(s) = FlatMap(Among(s, WithChoice), ToolsIn) /\ FragmentsOf(s) \in Seq(Fragment)
<1> DEFINE from == Among(s, WithChoice)
<1>1. from \in Seq(WithChoice)
  BY AmongTyped
<1>2. FragmentsOf(s) = FlattenSeq([i \in DOMAIN from |-> from[i].tools])
  BY DEF FragmentsOf
<1> HIDE DEF from
<1>3. \A i \in DOMAIN from : from[i] \in WithChoice
  BY <1>1, LenProperties
<1>4. [i \in DOMAIN from |-> from[i].tools] = Mapped(from, ToolsIn)
  BY <1>3 DEF Mapped, ToolsIn
<1>5. FlatMap(from, ToolsIn) \in Seq(Fragment)
  BY <1>1, ToolsInTyped, FlatMapTyped
<1> QED
  BY <1>2, <1>4, <1>5 DEF FlatMap, from

\* A record adds its fragments.
LEMMA FragmentsGrow ==
  ASSUME NEW s \in Seq(Frames), NEW f \in Frames
  PROVE  FragmentsOf(Append(s, f)) = IF f \in WithChoice THEN FragmentsOf(s) \o f.tools ELSE FragmentsOf(s)
<1> DEFINE from == Among(s, WithChoice)
           now  == Among(Append(s, f), WithChoice)
<1>1. now = IF f \in WithChoice THEN Append(from, f) ELSE from
  BY AmongAppend
<1>2. from \in Seq(WithChoice)
  BY AmongTyped
<1>3. Append(s, f) \in Seq(Frames)
  BY AppendProperties
<1>4. FragmentsOf(s) = FlatMap(from, ToolsIn) /\ FragmentsOf(Append(s, f)) = FlatMap(now, ToolsIn)
  BY <1>3, FragmentsOfIs
<1> HIDE DEF from, now
<1>5. CASE f \in WithChoice
  <2>1. FlatMap(Append(from, f), ToolsIn) = FlatMap(from, ToolsIn) \o ToolsIn[f]
    BY <1>2, <1>5, ToolsInTyped, FlatMapAppend
  <2>2. ToolsIn[f] = f.tools
    BY <1>5 DEF ToolsIn
  <2> QED
    BY <1>1, <1>4, <1>5, <2>1, <2>2
<1>6. CASE f \notin WithChoice
  BY <1>1, <1>4, <1>6
<1> QED
  BY <1>5, <1>6

\* The text of some records is that of each.
LEMMA TextsOfIs ==
  ASSUME NEW s \in Seq(Frames)
  PROVE  TextsOf(s) = Mapped(Among(s, Texts), TextIn) /\ TextsOf(s) \in Seq(TextEvents)
<1> DEFINE from == Among(s, Texts)
<1>1. from \in Seq(Texts)
  BY AmongTyped
<1>2. TextsOf(s) = [i \in DOMAIN from |-> [type |-> "text", text |-> from[i].text]]
  BY DEF TextsOf
<1> HIDE DEF from
<1>3. \A i \in DOMAIN from : from[i] \in Texts
  BY <1>1, LenProperties
<1>4. TextsOf(s) = Mapped(from, TextIn)
  BY <1>2, <1>3 DEF Mapped, TextIn
<1>5. Mapped(from, TextIn) \in Seq(TextEvents)
  BY <1>1, TextInTyped, MappedTyped
<1> QED
  BY <1>4, <1>5 DEF from

\* A record adds its text.
LEMMA TextsGrow ==
  ASSUME NEW s \in Seq(Frames), NEW f \in Frames
  PROVE  TextsOf(Append(s, f)) =
           IF f \in Texts THEN Append(TextsOf(s), [type |-> "text", text |-> f.text]) ELSE TextsOf(s)
<1> DEFINE from == Among(s, Texts)
           now  == Among(Append(s, f), Texts)
<1>1. now = IF f \in Texts THEN Append(from, f) ELSE from
  BY AmongAppend
<1>2. from \in Seq(Texts)
  BY AmongTyped
<1>3. Append(s, f) \in Seq(Frames)
  BY AppendProperties
<1>4. TextsOf(s) = Mapped(from, TextIn) /\ TextsOf(Append(s, f)) = Mapped(now, TextIn)
  BY <1>3, TextsOfIs
<1> HIDE DEF from, now
<1>5. CASE f \in Texts
  <2>1. Mapped(Append(from, f), TextIn) = Append(Mapped(from, TextIn), TextIn[f])
    BY <1>2, <1>5, TextInTyped, MappedAppend
  <2>2. TextIn[f] = [type |-> "text", text |-> f.text]
    BY <1>5 DEF TextIn
  <2> QED
    BY <1>1, <1>4, <1>5, <2>1, <2>2
<1>6. CASE f \notin Texts
  BY <1>1, <1>4, <1>6
<1> QED
  BY <1>5, <1>6

UsageSent(s) ==
  IF Among(s, Used) = <<>> THEN 0 ELSE Last(Among(s, Used)).usage
StopSent(s) ==
  IF Among(s, Finished) = <<>> THEN "" ELSE MapFinishReason(Last(Among(s, Finished)).finish)

\* A record replaces the totals by those it has.
LEMMA TotalsGrow ==
  ASSUME NEW s \in Seq(Frames), NEW f \in Frames
  PROVE  /\ UsageSent(Append(s, f)) = IF f \in Used THEN f.usage ELSE UsageSent(s)
         /\ StopSent(Append(s, f)) = IF f \in Finished THEN MapFinishReason(f.finish) ELSE StopSent(s)
<1> DEFINE used == Among(s, Used)
           done1 == Among(s, Finished)
<1>1. Among(Append(s, f), Used) = IF f \in Used THEN Append(used, f) ELSE used
  BY AmongAppend
<1>2. Among(Append(s, f), Finished) = IF f \in Finished THEN Append(done1, f) ELSE done1
  BY AmongAppend
<1>3. used \in Seq(Frames) /\ done1 \in Seq(Frames)
  BY AmongTyped
<1>4. /\ Append(used, f) # <<>> /\ Last(Append(used, f)) = f
      /\ Append(done1, f) # <<>> /\ Last(Append(done1, f)) = f
  <2> HIDE DEF used, done1
  <2> QED
    BY <1>3, LastAppended
<1> QED
  BY <1>1, <1>2, <1>4 DEF UsageSent, StopSent

-----------------------------------------------------------------------------
(* What was delivered.                                                    *)

\* No record follows.
Over == wire # "open" \/ (sent # <<>> /\ sent[Len(sent)].kind = "DONE")

Frags == FragmentsOf(sent)

\* What was delivered is the text and the first of the calls; the calls of the
\* order are the others. Until the response is over there are only fragments,
\* and every one of them is in the buffer.
Delivery ==
  /\ order \in Seq(Int)
  /\ DOMAIN pending = Range(order)
  /\ \A i \in DOMAIN pending : pending[i] = PartsOf(Frags, i)
  /\ ~ Over => order = Begun(Frags)
  /\ \E calls \in Seq(CallEvents(Frags)) :
       /\ Content = TextsOf(sent) \o calls
       /\ calls \o CallsOf(Frags, order) = WholeCalls
       /\ calls # <<>> => Over

\* The totals kept are the last ones sent, and the terminal event has them.
Totals ==
  /\ usage = UsageSent(sent) /\ stopReason = StopSent(sent)
  /\ HasDone => Last(log) = DoneEvent(usage, stopReason)

\* What an event returned does to the content.
LEMMA ContentFacts ==
  ASSUME LogTyped, ~ HasDone, NEW e, Return(e)
  PROVE  /\ Content = log /\ Last(log') = e
         /\ HasDone' <=> e.type = "done"
         /\ Content' = IF e.type = "done" THEN Content ELSE Append(Content, e)
<1>1. log' = Append(log, e)
  BY DEF Return
<1>2. Front(log') = log /\ Last(log') = e /\ log' # <<>>
  BY <1>1, FrontAppend DEF LogTyped
<1>3. Content = log
  BY DEF Content
<1>4. HasDone' <=> e.type = "done"
  BY <1>2 DEF HasDone
<1>5. Content' = IF e.type = "done" THEN log ELSE log'
  BY <1>2, <1>4, Zenon DEF Content
<1> QED
  BY <1>1, <1>2, <1>3, <1>4, <1>5

\* finish tells the first call of the order that has a name, and drops those
\* before it; when there is none, it tells the totals.
LEMMA FinishDelivers ==
  ASSUME Inv, Delivery, Totals, Finish, Over', UNCHANGED <<usage, stopReason>>,
         FragmentsOf(sent') = Frags, TextsOf(sent') = TextsOf(sent),
         UsageSent(sent') = UsageSent(sent), StopSent(sent') = StopSent(sent)
  PROVE  Delivery' /\ Totals'
<1>1. /\ LogTyped /\ (flushed <=> HasDone) /\ (flushed => order = <<>>)
  BY DEF Inv, Terminal
<1>2. PICK calls \in Seq(CallEvents(Frags)) :
        /\ Content = TextsOf(sent) \o calls
        /\ calls \o CallsOf(Frags, order) = WholeCalls
  BY DEF Delivery
<1>3. /\ order \in Seq(Int) /\ DOMAIN pending = Range(order)
      /\ \A i \in DOMAIN pending : pending[i] = PartsOf(Frags, i)
  BY DEF Delivery
<1>4. Frags' = Frags /\ WholeCalls' = WholeCalls
  BY DEF Frags, WholeCalls
<1>5. Len(order) \in Nat /\ DOMAIN order = 1 .. Len(order) /\ \A k \in DOMAIN order : order[k] \in Int
  BY <1>3, LenProperties
<1>6. \A k \in DOMAIN order : order[k] \in DOMAIN pending /\ pending[order[k]] = PartsOf(Frags, order[k])
  BY <1>3 DEF Range
<1>7. \A i : PartsOf(Frags, i).name = NameOf(Frags, i)
  BY DEF PartsOf
<1>8. \A i : ToolEvent(PartsOf(Frags, i)) = TellOf(Frags, i)
  BY DEF ToolEvent, TellOf, PartsOf
<1>9. /\ CallEvents(Frags') = CallEvents(Frags) /\ CallsOf(Frags', order') = CallsOf(Frags, order')
      /\ \A i : PartsOf(Frags', i) = PartsOf(Frags, i)
  BY <1>4
<1>10. CASE Named # {}
  <2> DEFINE n == CHOOSE i \in Named : \A j \in Named : i <= j
             rest == SubSeq(order, n + 1, Len(order))
             e == TellOf(Frags, order[n])
  <2>1. n \in Named /\ \A j \in Named : n <= j
    <3>1. Named \in SUBSET Nat
      <4>1. Named \subseteq 1 .. Len(order)
      BY <1>5, Zenon DEF Named
    <4> QED
      BY <1>5, <4>1, PlacesAreNat
    <3> QED
      BY <1>10, <3>1, LeastExists
  <2>2. /\ order' = rest
        /\ pending' = [i \in Range(order') |-> pending[i]]
        /\ Return(ToolEvent(pending[order[n]]))
    BY <1>10, Zenon DEF Finish
  <2> HIDE DEF n
  <2>3. n \in DOMAIN order /\ NameOf(Frags, order[n]) # ""
    BY <1>6, <1>7, <2>1 DEF Named
  <2>4. ASSUME NEW k \in DOMAIN order, k < n PROVE NameOf(Frags, order[k]) = ""
    <3>1. k \notin Named
      <4>1. k \in Nat /\ n \in Nat
        BY <1>5, <2>3, PlacesAreNat, Zenon
      <4> QED
        BY <2>1, <2>4, <4>1
    <3> QED
      BY <1>6, <1>7, <3>1 DEF Named
  <2>5. /\ rest \in Seq(Int) /\ e \in CallEvents(Frags)
        /\ CallsOf(Frags, order) = <<e>> \o CallsOf(Frags, rest)
    BY <1>3, <2>3, <2>4, FirstCall
  <2>6. Return(e) /\ e.type = "tool"
    BY <1>6, <1>8, <2>2, <2>3 DEF TellOf
  <2>7. n \in Named => order # <<>>
    <3>1. DOMAIN <<>> = {}
      OBVIOUS
    <3> QED
      BY <2>3, <3>1, Zenon
  <2> HIDE DEF rest, e
  <2>8. ~ HasDone
    BY <1>1, <2>1, <2>7
  <2>9. ~ HasDone' /\ Content' = Append(Content, e)
    BY <1>1, <2>6, <2>8, ContentFacts
  <2> DEFINE now == calls \o <<e>>
  <2>10. <<e>> \in Seq(CallEvents(Frags)) /\ now \in Seq(CallEvents(Frags))
    <3>1. <<e>> \in Seq(CallEvents(Frags))
      BY <2>5
    <3> QED
      BY <1>2, <3>1, ConcatProperties
  <2>11. Content' = TextsOf(sent) \o now
    <3> DEFINE S == TextEvents \cup CallEvents(Frags)
               texts == TextsOf(sent)
    <3>1. texts \in Seq(TextEvents)
      BY TextsOfIs DEF Inv
    <3>2. texts \in Seq(S) /\ calls \in Seq(S) /\ <<e>> \in Seq(S) /\ e \in S
      BY <1>2, <2>5, <2>10, <3>1, SeqMonotonic
    <3> HIDE DEF S, texts
    <3>3. texts \o calls \in Seq(S)
      BY <3>2, ConcatProperties
    <3>4. Append(texts \o calls, e) = (texts \o calls) \o <<e>>
      BY <3>2, <3>3, AppendIsConcat
    <3>5. (texts \o calls) \o <<e>> = texts \o (calls \o <<e>>)
      BY <3>2, ConcatAssociative
    <3> QED
      BY <1>2, <2>9, <3>4, <3>5, Zenon DEF texts
  <2>12. now \o CallsOf(Frags, rest) = WholeCalls
    <3>1. CallsOf(Frags, rest) \in Seq(CallEvents(Frags))
      BY <2>5, CallsOfIs
    <3>2. (calls \o <<e>>) \o CallsOf(Frags, rest) = calls \o (<<e>> \o CallsOf(Frags, rest))
      BY <1>2, <2>10, <3>1, ConcatAssociative
    <3> QED
      BY <1>2, <2>5, <3>2, Zenon
  <2> HIDE DEF now
  <2>13. \E c \in Seq(CallEvents(Frags')) :
           /\ Content' = TextsOf(sent') \o c
           /\ c \o CallsOf(Frags', order') = WholeCalls'
           /\ c # <<>> => Over'
    BY <1>4, <1>9, <2>2, <2>10, <2>11, <2>12, Zenon
  <2>14. DOMAIN pending' = Range(order') /\ \A i \in DOMAIN pending' : pending'[i] = PartsOf(Frags', i)
    <3>1. Range(order') \subseteq Range(order)
      <4>1. n \in 1 .. Len(order)
        BY <1>5, <2>3, Zenon
      <4>2. Range(rest) \subseteq Range(order)
        BY <1>3, <4>1, RestRange DEF rest
      <4> QED
        BY <2>2, <4>2
    <3> QED
      BY <1>3, <1>9, <2>2, <3>1
  <2>15. Delivery'
    BY <2>2, <2>5, <2>13, <2>14 DEF Delivery
  <2>16. Totals'
    BY <2>9 DEF Totals
  <2> QED
    BY <2>15, <2>16
<1>11. CASE Named = {}
  <2>1. /\ order' = <<>> /\ pending' = <<>>
        /\ \/ ~ flushed /\ Return(DoneEvent(usage, stopReason))
           \/ flushed /\ ReturnFalse("nil")
    BY <1>11, Zenon DEF Finish
  <2>2. \A k \in DOMAIN order : NameOf(Frags, order[k]) = ""
    BY <1>6, <1>7, <1>11 DEF Named
  <2>3. CallsOf(Frags, order) = <<>>
    BY <1>3, <2>2, NoCalls
  <2>4. <<>> \in Seq(Int) /\ DOMAIN <<>> = {} /\ Range(<<>>) = {}
    BY EmptySeq DEF Range
  <2>5. CallsOf(Frags, <<>>) = <<>>
    BY <2>4, NoCalls
  <2>6. Content' = Content /\ (HasDone' => Last(log') = DoneEvent(usage, stopReason))
    <3>1. CASE ~ flushed /\ Return(DoneEvent(usage, stopReason))
      <4>1. DoneEvent(usage, stopReason).type = "done"
        BY DEF DoneEvent
      <4>2. ~ HasDone
        BY <1>1, <3>1
      <4> QED
        BY <1>1, <3>1, <4>1, <4>2, ContentFacts
    <3>2. CASE flushed /\ ReturnFalse("nil")
      <4>1. log' = log
        BY <3>2 DEF ReturnFalse
      <4> QED
        BY <4>1 DEF Content, HasDone, Totals
    <3> QED
      BY <2>1, <3>1, <3>2
  <2>7. \E c \in Seq(CallEvents(Frags')) :
           /\ Content' = TextsOf(sent') \o c
           /\ c \o CallsOf(Frags', order') = WholeCalls'
           /\ c # <<>> => Over'
    BY <1>2, <1>4, <1>9, <2>1, <2>3, <2>5, <2>6, Zenon
  <2>8. Delivery'
    BY <2>1, <2>4, <2>7 DEF Delivery
  <2>9. Totals'
    BY <2>6 DEF Totals
  <2> QED
    BY <2>8, <2>9
<1> QED
  BY <1>10, <1>11

\* Steps that neither read a record with a choice nor come to finish.
LEMMA NothingDelivered ==
  ASSUME Inv, Delivery, UNCHANGED <<log, order, pending>>,
         FragmentsOf(sent') = Frags, TextsOf(sent') = TextsOf(sent),
         Over => Over'
  PROVE  Delivery'
<1>1. Frags' = Frags /\ WholeCalls' = WholeCalls /\ Content' = Content
  BY DEF Frags, WholeCalls, Content, HasDone
<1>2. /\ CallEvents(Frags') = CallEvents(Frags) /\ CallsOf(Frags', order') = CallsOf(Frags, order)
      /\ \A i : PartsOf(Frags', i) = PartsOf(Frags, i)
      /\ Begun(Frags') = Begun(Frags)
  BY <1>1
<1>3. \E c \in Seq(CallEvents(Frags')) :
           /\ Content' = TextsOf(sent') \o c
           /\ c \o CallsOf(Frags', order') = WholeCalls'
           /\ c # <<>> => Over'
  BY <1>1, <1>2, Zenon DEF Delivery
<1>4. /\ order' \in Seq(Int) /\ DOMAIN pending' = Range(order')
      /\ \A i \in DOMAIN pending' : pending'[i] = PartsOf(Frags', i)
      /\ ~ Over' => order' = Begun(Frags')
  BY <1>2 DEF Delivery
<1> QED
  BY <1>3, <1>4 DEF Delivery

\* Steps that read nothing leave the totals alone.
LEMMA NoTotals ==
  ASSUME Totals, UNCHANGED <<log, usage, stopReason, sent>>
  PROVE  Totals'
  BY DEF Totals, HasDone

\* A record without a choice.
LEMMA BareDelivered ==
  ASSUME Inv, Delivery, Totals, NEW f \in Frames, Reads(f), f \notin WithChoice,
         UNCHANGED <<log, order, pending, stopReason>>,
         usage' = IF f \in Used THEN f.usage ELSE usage
  PROVE  Delivery' /\ Totals'
<1>1. sent \in Seq(Frames) /\ sent' = Append(sent, f) /\ wire' = wire /\ ~ Over
  BY DEF Inv, Reads, Over
<1>2. f \notin Texts /\ f \notin Finished
  BY DEF Texts, Finished
<1>3. Delivery'
  BY <1>1, <1>2, FragmentsGrow, TextsGrow, NothingDelivered DEF Frags
<1>4. ~ HasDone /\ HasDone' = HasDone
  BY ReadsFacts DEF Inv, Terminal, HasDone
<1>5. UsageSent(sent') = usage' /\ StopSent(sent') = stopReason'
  BY <1>1, <1>2, TotalsGrow DEF Totals
<1> QED
  BY <1>3, <1>4, <1>5 DEF Totals

\* A record with a choice: its text is delivered, its fragments are kept.
LEMMA ChoiceDelivered ==
  ASSUME Inv, Delivery, Totals, NEW f \in Frames, ReadChoice(f)
  PROVE  Delivery' /\ Totals'
<1>1. /\ sent \in Seq(Frames) /\ sent' = Append(sent, f) /\ wire' = wire /\ ~ Over
      /\ f \in WithChoice
  BY DEF Inv, ReadChoice, Reads, Over, WithChoice, Chunks
<1>2. /\ f.tools \in Seq(Fragment)
      /\ f \in Used <=> f.usage > 0
      /\ f \in Texts <=> f.text # ""
      /\ f \in Finished <=> f.finish # ""
  BY <1>1, OaiAssumption DEF WithChoice, Chunks, Used, Texts, Finished
<1>3. LogTyped /\ ~ HasDone
  BY ReadsFacts DEF Inv, Terminal, ReadChoice
<1>4. /\ Frags' = Frags \o f.tools /\ Frags \in Seq(Fragment) /\ Frags' \in Seq(Fragment)
      /\ TextsOf(sent') = IF f.text # "" THEN Append(TextsOf(sent), [type |-> "text", text |-> f.text])
                          ELSE TextsOf(sent)
      /\ TextsOf(sent) \in Seq(TextEvents) /\ TextsOf(sent') \in Seq(TextEvents)
  <2>1. sent' \in Seq(Frames)
    BY <1>1, AppendProperties
  <2> QED
    BY <1>1, <1>2, <2>1, FragmentsGrow, FragmentsOfIs, TextsGrow, TextsOfIs DEF Frags
<1>5. order = Begun(Frags) /\ Content = TextsOf(sent)
  <2>1. PICK c \in Seq(CallEvents(Frags)) : Content = TextsOf(sent) \o c /\ (c # <<>> => Over)
    BY DEF Delivery
  <2>2. c = <<>>
    BY <1>1, <2>1
  <2>3. TextsOf(sent) \o <<>> = TextsOf(sent)
    BY <1>4, ConcatEmptySeq
  <2> QED
    BY <1>1, <2>1, <2>2, <2>3 DEF Delivery
<1> DEFINE buf == [calls |-> pending, order |-> order]
           acc == Accumulated(buf, f.tools)
<1>6. pending' = acc.calls /\ order' = acc.order
  BY DEF ReadChoice
<1>7. Assembled(buf, Frags)
  BY <1>5 DEF Delivery, Assembled
<1> HIDE DEF buf
<1>8. Assembled(acc, Frags')
  BY <1>2, <1>4, <1>7, AllAccumulated
<1> HIDE DEF acc
<1>9. /\ order' = Begun(Frags') /\ DOMAIN pending' = Range(order')
      /\ \A i \in DOMAIN pending' : pending'[i] = PartsOf(Frags', i)
  BY <1>6, <1>8 DEF Assembled
<1>10. order' \in Seq(Int)
  BY <1>4, <1>9, BegunTyped
<1>11. Content' = TextsOf(sent') /\ ~ HasDone'
  <2>1. CASE f.text # ""
    <3> DEFINE e == [type |-> "text", text |-> f.text]
    <3>1. Return(e) /\ e.type = "text"
      BY <2>1 DEF ReadChoice
    <3> HIDE DEF e
    <3>2. ~ HasDone' /\ Content' = Append(Content, e)
      BY <1>3, <3>1, ContentFacts
    <3>3. TextsOf(sent') = Append(TextsOf(sent), e)
      BY <1>4, <2>1 DEF e
    <3> QED
      BY <1>5, <3>2, <3>3
  <2>2. CASE f.text = ""
    <3>1. log' = log
      BY <2>2 DEF ReadChoice
    <3> QED
      BY <1>3, <1>4, <1>5, <2>2, <3>1 DEF HasDone, Content
  <2> QED
    BY <2>1, <2>2
<1>12. \E c \in Seq(CallEvents(Frags')) :
           /\ Content' = TextsOf(sent') \o c
           /\ c \o CallsOf(Frags', order') = WholeCalls'
           /\ c # <<>> => Over'
  <2>1. WholeCalls' = CallsOf(Frags', order')
    BY <1>9 DEF WholeCalls, Frags
  <2>2. CallsOf(Frags', order') \in Seq(CallEvents(Frags'))
    BY <1>10, CallsOfIs
  <2>3. <<>> \o CallsOf(Frags', order') = WholeCalls' /\ <<>> \in Seq(CallEvents(Frags'))
    BY <2>1, <2>2, ConcatEmptySeq, EmptySeq
  <2>4. Content' = TextsOf(sent') \o <<>>
    BY <1>4, <1>11, ConcatEmptySeq
  <2> QED
    BY <2>3, <2>4, Zenon
<1>13. Delivery'
  BY <1>9, <1>10, <1>12, Zenon DEF Delivery
<1>14. UsageSent(sent') = usage' /\ StopSent(sent') = stopReason'
  <2>1. /\ usage' = IF f.usage > 0 THEN f.usage ELSE usage
        /\ stopReason' = IF f.finish # "" THEN MapFinishReason(f.finish) ELSE stopReason
    BY DEF ReadChoice
  <2>2. usage = UsageSent(sent) /\ stopReason = StopSent(sent)
    BY DEF Totals
  <2> QED
    BY <1>1, <1>2, <2>1, <2>2, TotalsGrow
<1> QED
  BY <1>11, <1>13, <1>14 DEF Totals

\* Every step of the decoder keeps what was delivered and what is kept to what
\* was sent.
LEMMA DeliveryKept ==
  ASSUME Inv, Delivery, Totals, [Next]_vars
  PROVE  Delivery' /\ Totals'
<1> DEFINE Stays == UNCHANGED <<log, order, pending, usage, stopReason, sent>>
<1>1. ASSUME Stays, wire' = wire \/ wire' # "open" PROVE Delivery' /\ Totals'
  <2>1. Over => Over'
    BY <1>1 DEF Over
  <2>2. FragmentsOf(sent') = Frags /\ TextsOf(sent') = TextsOf(sent)
    BY <1>1 DEF Frags
  <2> QED
    BY <1>1, <2>1, <2>2, NothingDelivered, NoTotals
<1>2. CASE CallNext
  BY <1>1, <1>2 DEF CallNext
<1>3. CASE Close
  BY <1>1, <1>3 DEF Close
<1>4. CASE ReadFails
  BY <1>1, <1>4 DEF ReadFails, ReturnFalse
<1>5. CASE ReadEOF
  <2>1. CASE ~ sawTerminal /\ ~ flushed
    BY <1>1, <1>5, <2>1 DEF ReadEOF, ReturnFalse
  <2>2. CASE sawTerminal \/ flushed
    <3>1. /\ Finish /\ wire' = "eof" /\ UNCHANGED <<usage, stopReason, sent>>
      BY <1>5, <2>2 DEF ReadEOF
    <3>2. Over'
      BY <3>1 DEF Over
    <3>3. /\ FragmentsOf(sent') = Frags /\ TextsOf(sent') = TextsOf(sent)
          /\ UsageSent(sent') = UsageSent(sent) /\ StopSent(sent') = StopSent(sent)
      BY <3>1 DEF Frags
    <3> QED
      BY <3>1, <3>2, <3>3, FinishDelivers
  <2> QED
    BY <2>1, <2>2
<1>6. ASSUME NEW f \in Frames, ReadSentinel(f) PROVE Delivery' /\ Totals'
  <2>1. /\ f.kind = "DONE" /\ Reads(f) /\ Finish /\ UNCHANGED <<usage, stopReason>>
    BY <1>6 DEF ReadSentinel
  <2>2. /\ f \notin Used /\ f \notin WithChoice /\ f \notin Texts /\ f \notin Finished
    BY <2>1 DEF Used, Texts, Finished, WithChoice, Chunks
  <2>3. sent' = Append(sent, f) /\ sent \in Seq(Frames)
    BY <2>1 DEF Reads, Inv
  <2>4. /\ FragmentsOf(sent') = Frags /\ TextsOf(sent') = TextsOf(sent)
        /\ UsageSent(sent') = UsageSent(sent) /\ StopSent(sent') = StopSent(sent)
    BY <2>2, <2>3, FragmentsGrow, TextsGrow, TotalsGrow DEF Frags
  <2>5. Over'
    BY <2>1, ReadsFacts DEF Over
  <2> QED
    BY <2>1, <2>4, <2>5, FinishDelivers
<1>7. ASSUME NEW f \in Frames, ReadSkipped(f) PROVE Delivery' /\ Totals'
  <2>1. f \notin Used /\ f \notin WithChoice
    BY <1>7 DEF ReadSkipped, Used, WithChoice, Chunks
  <2> QED
    BY <1>7, <2>1, BareDelivered DEF ReadSkipped
<1>8. ASSUME NEW f \in Frames, ReadErrorChunk(f) PROVE Delivery' /\ Totals'
  <2>1. f \notin Used /\ f \notin WithChoice
    BY <1>8 DEF ReadErrorChunk, Used, WithChoice, Chunks
  <2> QED
    BY <1>8, <2>1, BareDelivered DEF ReadErrorChunk, ReturnFalse
<1>9. ASSUME NEW f \in Frames, ReadBareChunk(f) PROVE Delivery' /\ Totals'
  <2>1. (f \in Used <=> f.usage > 0) /\ f \notin WithChoice
    BY <1>9 DEF ReadBareChunk, Used, WithChoice, Chunks
  <2> QED
    BY <1>9, <2>1, BareDelivered DEF ReadBareChunk
<1>10. ASSUME NEW f \in Frames, ReadChoice(f) PROVE Delivery' /\ Totals'
  BY <1>10, ChoiceDelivered
<1>11. CASE UNCHANGED vars
  BY <1>1, <1>11 DEF vars
<1> QED
  BY <1>2, <1>3, <1>4, <1>5, <1>6, <1>7, <1>8, <1>9, <1>10, <1>11 DEF Next, ReadRecord

\* Nothing was sent, and nothing delivered.
LEMMA DeliveryStarts == Init => Delivery /\ Totals
<1> SUFFICES ASSUME Init PROVE Delivery /\ Totals
  OBVIOUS
<1>1. /\ sent = <<>> /\ order = <<>> /\ pending = <<>> /\ ~ HasDone /\ Content = <<>>
      /\ usage = 0 /\ stopReason = ""
  BY DEF Init, HasDone, Content
<1>2. <<>> \in Seq(Int) /\ DOMAIN <<>> = {} /\ Range(<<>>) = {} /\ <<>> \in Seq(Frames) /\ <<>> \in Seq(Fragment)
  BY EmptySeq DEF Range
<1>3. \A T : Among(sent, T) = <<>>
  BY <1>1, AmongEmpty
<1>4. Frags = <<>>
  <2>1. Frags = FlatMap(<<>>, ToolsIn)
    BY <1>1, <1>2, <1>3, FragmentsOfIs DEF Frags
  <2> QED
    BY <2>1, FlatMapEmpty
<1>5. TextsOf(sent) = <<>>
  BY <1>3 DEF TextsOf
<1>6. Begun(Frags) = <<>>
  BY <1>4, NoneBegun
<1>7. CallsOf(Frags, order) = <<>> /\ WholeCalls = <<>>
  <2>1. CallsOf(Frags, <<>>) = <<>>
    BY <1>2, NoCalls
  <2> QED
    BY <1>1, <1>6, <2>1 DEF WholeCalls, Frags
<1>8. Delivery
  <2>1. <<>> \o <<>> = <<>> /\ <<>> \in Seq(CallEvents(Frags))
    BY EmptySeq
  <2>2. \E c \in Seq(CallEvents(Frags)) :
           /\ Content = TextsOf(sent) \o c
           /\ c \o CallsOf(Frags, order) = WholeCalls
           /\ c # <<>> => Over
    BY <1>1, <1>5, <1>7, <2>1, Zenon
  <2> QED
    BY <1>1, <1>2, <1>6, <2>2 DEF Delivery
<1>9. Totals
  BY <1>1, <1>3 DEF Totals, UsageSent, StopSent
<1> QED
  BY <1>8, <1>9

\* The invariant says what the property says: when the terminal event is there,
\* no call is left in the order.
LEMMA DeliveryMeans == Inv /\ Delivery /\ Totals => LogFaithful
<1> SUFFICES ASSUME Inv, Delivery, Totals PROVE DeliveredInOrder /\ TotalsFaithful
  BY DEF LogFaithful
<1> DEFINE S == TextEvents \cup CallEvents(Frags)
           texts == TextsOf(sent)
           rest == CallsOf(Frags, order)
<1>1. PICK calls \in Seq(CallEvents(Frags)) : Content = texts \o calls /\ calls \o rest = WholeCalls
  BY DEF Delivery
<1>2. texts \in Seq(S) /\ calls \in Seq(S) /\ rest \in Seq(S)
  <2>1. texts \in Seq(TextEvents)
    BY TextsOfIs DEF Inv
  <2>2. rest \in Seq(CallEvents(Frags))
    BY CallsOfIs DEF Delivery
  <2> HIDE DEF texts, rest
  <2> QED
    BY <1>1, <2>1, <2>2, SeqMonotonic
<1>3. HasDone => rest = <<>>
  <2>1. CallsOf(Frags, <<>>) = <<>>
    <3>1. <<>> \in Seq(Int) /\ DOMAIN <<>> = {}
      BY EmptySeq
    <3> QED
      BY <3>1, NoCalls
  <2> QED
    BY <2>1 DEF Inv, Terminal
<1> HIDE DEF S, texts, rest
<1>4. texts \o WholeCalls = Content \o rest
  <2>1. (texts \o calls) \o rest = texts \o (calls \o rest)
    BY <1>2, ConcatAssociative
  <2> QED
    BY <1>1, <2>1, Zenon
<1>5. Content \in Seq(S)
  BY <1>1, <1>2, ConcatProperties
<1>6. IsPrefix(texts, Content) /\ IsPrefix(Content, texts \o WholeCalls)
  BY <1>1, <1>2, <1>4, <1>5, PrefixOfConcat
<1>7. HasDone => Content = texts \o WholeCalls
  BY <1>3, <1>4, <1>5, ConcatEmptySeq
<1>8. DeliveredInOrder
  BY <1>6, <1>7 DEF DeliveredInOrder, texts
<1>9. TotalsFaithful
  <2>1. \A r : MapFinishReason(r) # ""
    BY DEF MapFinishReason
  <2>2. HasDone => /\ Last(log).usage = UsageSent(sent)
                   /\ Last(log).stop = IF StopSent(sent) = "" THEN "unknown" ELSE StopSent(sent)
    <3>1. /\ \A u, r : DoneEvent(u, r).usage = u
          /\ \A u, r : r = "" => DoneEvent(u, r).stop = "unknown"
          /\ \A u, r : r # "" => DoneEvent(u, r).stop = r
      BY DEF DoneEvent
    <3>2. /\ HasDone => Last(log) = DoneEvent(usage, stopReason)
          /\ usage = UsageSent(sent) /\ stopReason = StopSent(sent)
      BY DEF Totals
    <3>3. ASSUME HasDone
          PROVE  /\ Last(log).usage = UsageSent(sent)
                 /\ Last(log).stop = IF StopSent(sent) = "" THEN "unknown" ELSE StopSent(sent)
      <4>1. Last(log) = DoneEvent(UsageSent(sent), StopSent(sent))
        BY <3>2, <3>3
      <4>2. Last(log).usage = UsageSent(sent)
        BY <3>1, <4>1, Zenon
      <4>3. Last(log).stop = IF StopSent(sent) = "" THEN "unknown" ELSE StopSent(sent)
        <5>1. CASE StopSent(sent) = ""
          <6>1. Last(log) = DoneEvent(UsageSent(sent), "")
            BY <4>1, <5>1
          <6>2. Last(log).stop = "unknown"
            BY <6>1 DEF DoneEvent
          <6> QED
            BY <5>1, <6>2
        <5>2. CASE StopSent(sent) # ""
          BY <3>1, <4>1, <5>2, Zenon
        <5> QED
          BY <5>1, <5>2
      <4> QED
        BY <4>2, <4>3
    <3> QED
      BY <3>3
  <2> QED
    BY <2>1, <2>2 DEF TotalsFaithful, UsageSent, StopSent
<1> QED
  BY <1>8, <1>9

\* The consumer is given what the provider sent, for any records in any number
\* and order: the text in order, then each named call whole, once, in the order
\* the provider began them, then the last usage and finish_reason (accumulate and
\* finish).
THEOREM Faithful == Spec => []LogFaithful
<1>1. Init => Inv /\ Delivery /\ Totals
  BY InitHolds, DeliveryStarts
<1>2. Inv /\ Delivery /\ Totals /\ [Next]_vars => (Inv /\ Delivery /\ Totals)'
  BY StepHolds, DeliveryKept
<1> QED
  BY <1>1, <1>2, DeliveryMeans, PTL DEF Spec
=============================================================================
