------------------------ MODULE GeminiStreamProofs ------------------------
(***************************************************************************)
(* The Gemini decoder, for any records in any number and order: what its   *)
(* consumer has been given and what is queued is exactly what the provider *)
(* sent, a truncated answer is never passed off as a whole one, the totals *)
(* and the stop reason are the last ones sent, and the decoder is a Stream *)
(* as StreamContract has it. The reader of Server-Sent Events beneath it:  *)
(* the records it surfaces are those that the lines make up, and it tells  *)
(* a body that ended from one that was cut off.                            *)
(***************************************************************************)
EXTENDS GeminiStream, SseReader, SequenceLemmas

-----------------------------------------------------------------------------
(* What the records sent amount to.                                        *)

Parts == UNION {Range(f.parts) : f \in Candidates}

Events == UNION {Range(EventsOf(p)) : p \in Parts}

PartsIn  == [f \in Candidates |-> f.parts]
EventsIn == [p \in Parts |-> EventsOf(p)]

LEMMA PartsInTyped == PartsIn \in [Candidates -> Seq(Parts)]
<1> SUFFICES ASSUME NEW f \in Candidates PROVE f.parts \in Seq(Parts)
  BY DEF PartsIn
<1>1. f.parts \in Seq(Range(f.parts))
  BY GeminiAssumption DEF Candidates, Chunks
<1>2. Range(f.parts) \subseteq Parts
  BY DEF Parts
<1> QED
  BY <1>1, <1>2, SeqMonotonic

LEMMA EventsInTyped ==
  /\ EventsIn \in [Parts -> Seq(Events)]
  /\ \A e \in Events : e.type \in {"text", "tool"}
<1>1. ASSUME NEW p \in Parts
      PROVE  EventsOf(p) \in Seq(Events) /\ \A e \in Range(EventsOf(p)) : e.type \in {"text", "tool"}
  <2>1. Range(EventsOf(p)) \subseteq Events
    BY DEF Events
  <2>2. ASSUME NEW e, EventsOf(p) = <<e>> PROVE EventsOf(p) \in Seq(Events) /\ Range(EventsOf(p)) = {e}
    <3>1. Range(EventsOf(p)) = {e}
      BY <2>2 DEF Range
    <3>2. e \in Events
      BY <2>1, <3>1
    <3>3. <<e>> \in Seq(Events)
      BY <3>2
    <3> QED
      BY <2>2, <3>1, <3>3
  <2>3. CASE EventsOf(p) = <<>>
    BY <2>3 DEF Range
  <2>4. CASE EventsOf(p) = <<[type |-> "tool", id |-> p.call, name |-> p.call]>>
    BY <2>2, <2>4
  <2>5. CASE EventsOf(p) = <<[type |-> "text", text |-> p.text]>>
    BY <2>2, <2>5
  <2> QED
    BY <2>3, <2>4, <2>5 DEF EventsOf
<1> QED
  BY <1>1 DEF Events, EventsIn

\* The decoder's function is the two steps of Expected for one candidate.
LEMMA FromCandidate ==
  ASSUME NEW parts \in Seq(Parts)
  PROVE  PartsFromCandidate(parts) = FlatMap(parts, EventsIn)
<1>1. \A i \in DOMAIN parts : parts[i] \in Parts
  BY LenProperties
<1>2. [i \in DOMAIN parts |-> EventsOf(parts[i])] = Mapped(parts, EventsIn)
  BY <1>1 DEF Mapped, EventsIn
<1> QED
  BY <1>2 DEF PartsFromCandidate, FlatMap

LEMMA CandidatesTyped ==
  ASSUME NEW s \in Seq(Frames)
  PROVE  /\ Among(s, Candidates) \in Seq(Candidates)
         /\ FlatMap(Among(s, Candidates), PartsIn) \in Seq(Parts)
<1>1. Among(s, Candidates) \in Seq(Candidates)
  BY AmongTyped
<1> QED
  BY <1>1, PartsInTyped, FlatMapTyped

LEMMA PartsOfIs ==
  ASSUME NEW s \in Seq(Frames)
  PROVE  PartsOf(s) = FlatMap(Among(s, Candidates), PartsIn)
<1> DEFINE from == Among(s, Candidates)
<1>1. \A i \in DOMAIN from : from[i] \in Candidates
  <2>1. from \in Seq(Candidates)
    BY CandidatesTyped
  <2> QED
    BY <2>1, LenProperties
<1> HIDE DEF from
<1>2. [i \in DOMAIN from |-> from[i].parts] = Mapped(from, PartsIn)
  BY <1>1 DEF Mapped, PartsIn
<1> QED
  BY <1>2 DEF PartsOf, FlatMap, from

LEMMA SaidIs ==
  ASSUME NEW ps \in Seq(Parts)
  PROVE  Said(ps) = FlatMap(ps, EventsIn)
<1> DEFINE eventsOf(part) ==
      IF part.call # "" THEN <<[type |-> "tool", id |-> part.call, name |-> part.call]>>
      ELSE IF part.text = "" THEN <<>>
      ELSE <<[type |-> "text", text |-> part.text]>>
<1>1. \A p : eventsOf(p) = EventsOf(p)
  BY DEF EventsOf
<1>2. Said(ps) = FlattenSeq([i \in DOMAIN ps |-> eventsOf(ps[i])])
  BY DEF Said
<1> HIDE DEF eventsOf
<1>3. \A i \in DOMAIN ps : ps[i] \in Parts
  BY LenProperties
<1>4. [i \in DOMAIN ps |-> eventsOf(ps[i])] = Mapped(ps, EventsIn)
  BY <1>1, <1>3 DEF Mapped, EventsIn
<1> QED
  BY <1>2, <1>4 DEF FlatMap

\* A record adds what its candidate says, if it has one, to what is expected.
LEMMA ExpectedGrows ==
  ASSUME sent \in Seq(Frames), NEW f \in Frames, sent' = Append(sent, f)
  PROVE  /\ f \in Candidates =>
              Expected' = Expected \o PartsFromCandidate(f.parts)
              /\ PartsFromCandidate(f.parts) \in Seq(Events)
         /\ f \notin Candidates => Expected' = Expected
         /\ Expected \in Seq(Events)
<1> DEFINE from == Among(sent, Candidates)
           fromNow == Among(sent', Candidates)
           ps == FlatMap(from, PartsIn)
<1>2. fromNow = IF f \in Candidates THEN Append(from, f) ELSE from
  BY AmongAppend
<1>3. from \in Seq(Candidates) /\ ps \in Seq(Parts)
  BY CandidatesTyped
<1>4. Expected = FlatMap(ps, EventsIn) /\ Expected' = FlatMap(FlatMap(fromNow, PartsIn), EventsIn)
  <2>1. sent' \in Seq(Frames)
    BY AppendProperties
  <2>2. FlatMap(fromNow, PartsIn) \in Seq(Parts)
    BY <2>1, CandidatesTyped
  <2>3. PartsOf(sent) = ps /\ PartsOf(sent') = FlatMap(fromNow, PartsIn)
    BY <2>1, PartsOfIs
  <2> HIDE DEF ps, from, fromNow
  <2> QED
    BY <1>3, <2>2, <2>3, SaidIs DEF Expected
<1>5. FlatMap(ps, EventsIn) \in Seq(Events)
  BY <1>3, EventsInTyped, FlatMapTyped
<1> HIDE DEF from, fromNow
<1>6. CASE f \in Candidates
  <2>1. f.parts \in Seq(Parts) /\ PartsIn[f] = f.parts
    BY <1>6, PartsInTyped DEF PartsIn
  <2>2. FlatMap(fromNow, PartsIn) = ps \o f.parts
    BY <1>2, <1>3, <1>6, <2>1, PartsInTyped, FlatMapAppend
  <2> HIDE DEF ps
  <2>3. FlatMap(ps \o f.parts, EventsIn) = FlatMap(ps, EventsIn) \o FlatMap(f.parts, EventsIn)
    BY <1>3, <2>1, EventsInTyped, FlatMapConcat
  <2>4. PartsFromCandidate(f.parts) = FlatMap(f.parts, EventsIn)
    BY <2>1, FromCandidate
  <2>5. FlatMap(f.parts, EventsIn) \in Seq(Events)
    BY <2>1, EventsInTyped, FlatMapTyped
  <2> QED
    BY <1>4, <1>5, <1>6, <2>2, <2>3, <2>4, <2>5
<1>7. CASE f \notin Candidates
  BY <1>2, <1>4, <1>5, <1>7 DEF ps
<1> QED
  BY <1>6, <1>7
-----------------------------------------------------------------------------
(* The invariant.                                                          *)

Used == {f \in Chunks : f.usage > 0}

\* The totals and the stop reason are those of the last records to give them.
UsageSent(frames) ==
  LET used == Among(frames, Used) IN IF used = <<>> THEN 0 ELSE Last(used).usage
StopSent(frames) ==
  LET last == Last(Among(frames, Finished))
  IN  MapFinishReason(last.finish, HasCalls(last.parts))

Delivery ==
  /\ sent \in Seq(Frames) /\ queued \in Seq(Events) /\ Content \in Seq(Events)
  /\ \E S : log \in Seq(S)
  /\ Content \o queued = Expected

Progress ==
  /\ pc = "reading" => ~ done /\ err = "nil" /\ queued = <<>>
  /\ sawTerminal <=> Among(sent, Finished) # <<>>
  /\ flushed <=> HasDone
  /\ flushed => wire # "open" /\ queued = <<>> /\ sawTerminal
  /\ done => flushed

Totals ==
  /\ usage = UsageSent(sent)
  /\ sawTerminal => stopReason = StopSent(sent) /\ stopReason # ""
  /\ flushed => Last(log).usage = usage /\ Last(log).stop = stopReason

Inv == Delivery /\ Progress /\ Totals

LEMMA InitHolds == Init => Inv /\ Contract!ContractInit
<1> SUFFICES ASSUME Init PROVE Inv /\ Contract!ContractInit
  OBVIOUS
<1>1. ~ HasDone /\ Content = <<>> /\ log = <<>> /\ queued = <<>> /\ sent = <<>>
  BY DEF Init, HasDone, Content
<1>2. /\ Among(sent, Candidates) = <<>> /\ Among(sent, Finished) = <<>>
      /\ Among(sent, Used) = <<>>
  BY <1>1, AmongEmpty
<1>3. Expected = <<>>
  <2>0. sent \in Seq(Frames) /\ <<>> \in Seq(Parts)
    BY <1>1
  <2>1. PartsOf(sent) = FlatMap(<<>>, PartsIn)
    BY <1>2, <2>0, PartsOfIs
  <2>2. PartsOf(sent) = <<>>
    BY <2>1, FlatMapEmpty
  <2>3. Said(<<>>) = FlatMap(<<>>, EventsIn)
    BY <2>0, SaidIs
  <2> QED
    BY <2>2, <2>3, FlatMapEmpty DEF Expected
<1>4. Delivery
  BY <1>1, <1>3 DEF Delivery
<1>5. Progress /\ Totals
  BY <1>1, <1>2 DEF Init, Progress, Totals, UsageSent
<1>6. Contract!ContractInit
  <2>1. [i \in DOMAIN log |-> log[i].type] = <<>>
    BY <1>1
  <2> QED
    BY <2>1 DEF Init, Contract!ContractInit
<1> QED
  BY <1>4, <1>5, <1>6 DEF Inv

\* What the consumer sees of the log.
LEMMA HasDoneMaps == Delivery => (Contract!HasDone <=> HasDone)
<1> SUFFICES ASSUME Delivery PROVE Contract!HasDone <=> HasDone
  OBVIOUS
<1>1. PICK S : log \in Seq(S)
  BY DEF Delivery
<1> QED
  BY <1>1, TypesFacts DEF Contract!HasDone, HasDone, Last

\* An event returned is the last of the log: one of the content, or the terminal
\* one, with the content before it.
LEMMA ReturnFacts ==
  ASSUME Delivery, ~ HasDone, NEW e, Return(e), err = "nil", ~ done, UNCHANGED <<done, closed>>
  PROVE  /\ \E S : log' \in Seq(S)
         /\ HasDone' <=> e.type = "done"
         /\ Content' = IF e.type = "done" THEN Content ELSE Append(Content, e)
         /\ Last(log') = e
         /\ Contract!Deliver(e.type)
<1>1. log' = Append(log, e) /\ pc' = "idle" /\ err' = err
  BY DEF Return
<1>2. PICK S : log \in Seq(S)
  BY DEF Delivery
<1>3. /\ log \in Seq(S \cup {e}) /\ e \in S \cup {e} /\ log' \in Seq(S \cup {e})
      /\ Front(log') = log /\ Last(log') = e /\ log' # <<>>
  BY <1>1, <1>2, SeqMonotonic, AppendProperties, FrontAppend
<1>4. [i \in DOMAIN log' |-> log'[i].type] = Append([i \in DOMAIN log |-> log[i].type], e.type)
  BY <1>1, <1>3, TypesFacts
<1>5. HasDone' <=> e.type = "done"
  BY <1>3 DEF HasDone
<1>6. Content' = IF e.type = "done" THEN Content ELSE Append(Content, e)
  BY <1>1, <1>3, <1>5 DEF Content
<1>7. Contract!Deliver(e.type)
  BY <1>1, <1>4, HasDoneMaps DEF Contract!Deliver
<1> QED
  BY <1>3, <1>5, <1>6, <1>7

\* What a record adds to the totals.
LEMMA ReadsFacts ==
  ASSUME Inv, NEW f \in Frames, Reads(f)
  PROVE  /\ pc = "reading" /\ ~ flushed /\ ~ done /\ err = "nil" /\ queued = <<>> /\ ~ HasDone
         /\ UNCHANGED <<closed, wire, flushed, done>>
         /\ sent' = Append(sent, f) /\ sent' \in Seq(Frames)
         /\ UsageSent(sent') = IF f \in Used THEN f.usage ELSE UsageSent(sent)
         /\ f \in Finished =>
              /\ Among(sent', Finished) # <<>>
              /\ StopSent(sent') = MapFinishReason(f.finish, HasCalls(f.parts))
         /\ f \notin Finished => Among(sent', Finished) = Among(sent, Finished)
<1>1. /\ pc = "reading" /\ wire = "open" /\ sent' = Append(sent, f)
      /\ UNCHANGED <<closed, wire, flushed, done>>
  BY DEF Reads
<1>2. sent \in Seq(Frames) /\ sent' \in Seq(Frames)
  BY <1>1, AppendProperties DEF Inv, Delivery
<1>3. ~ flushed /\ ~ done /\ err = "nil" /\ queued = <<>> /\ ~ HasDone
  BY <1>1 DEF Inv, Progress
<1>4. ASSUME NEW T
      PROVE  /\ \E S : Among(sent, T) \in Seq(S)
             /\ Among(sent', T) = IF f \in T THEN Append(Among(sent, T), f) ELSE Among(sent, T)
  <2>1. Among(sent, T) \in Seq(Frames)
    BY <1>2, AmongTyped
  <2>2. Among(Append(sent, f), T) = IF f \in T THEN Append(Among(sent, T), f) ELSE Among(sent, T)
    BY <1>2, AmongAppend
  <2> QED
    BY <1>1, <2>1, <2>2
<1>5. ASSUME NEW T, f \in T
      PROVE  Among(sent', T) # <<>> /\ Last(Among(sent', T)) = f
  BY <1>4, <1>5, FrontAppend
<1>6. UsageSent(sent') = IF f \in Used THEN f.usage ELSE UsageSent(sent)
  BY <1>4, <1>5 DEF UsageSent
<1>7. f \in Finished => /\ Among(sent', Finished) # <<>>
                        /\ StopSent(sent') = MapFinishReason(f.finish, HasCalls(f.parts))
  BY <1>5 DEF StopSent
<1> QED
  BY <1>1, <1>2, <1>3, <1>4, <1>6, <1>7

LEMMA ReasonGiven == \A s, c : MapFinishReason(s, c) # ""
  BY DEF MapFinishReason

\* Records that say nothing to the consumer.
LEMMA QuietRecord ==
  ASSUME Inv, NEW f \in Frames, Reads(f), f \notin Candidates,
         usage' = IF f \in Used THEN f.usage ELSE usage,
         UNCHANGED <<queued, stopReason, sawTerminal, log>>, pc' \in {"idle", "reading"},
         pc' = "reading" => err' = "nil"
  PROVE  Inv'
<1>1. f \notin Finished
  BY DEF Finished
<1>2. Expected' = Expected
  BY ExpectedGrows DEF Inv, Delivery, Reads
<1>3. HasDone' = HasDone /\ Content' = Content
  BY DEF HasDone, Content
<1>4. Delivery'
  BY <1>2, <1>3, ReadsFacts DEF Inv, Delivery
<1>5. Progress'
  BY <1>1, <1>3, ReadsFacts DEF Inv, Progress
<1>6. Totals'
  <2>1. StopSent(sent') = StopSent(sent)
    BY <1>1, ReadsFacts DEF StopSent
  <2> QED
    BY <2>1, ReadsFacts DEF Inv, Totals
<1> QED
  BY <1>4, <1>5, <1>6 DEF Inv

\* A record with a candidate: its events are returned and queued.
LEMMA CandidateHolds ==
  ASSUME Inv, NEW f \in Frames, ReadCandidate(f)
  PROVE  Inv' /\ [Contract!ContractNext]_Contract!contractVars
<1> DEFINE events == PartsFromCandidate(f.parts)
<1>1. Reads(f) /\ f \in Candidates
  BY DEF ReadCandidate, Candidates, Chunks
<1>2. /\ sent' = Append(sent, f) /\ sent' \in Seq(Frames) /\ sent \in Seq(Frames)
      /\ pc = "reading" /\ ~ flushed /\ ~ done /\ err = "nil" /\ queued = <<>> /\ ~ HasDone
      /\ UNCHANGED <<closed, wire, flushed, done>>
  BY <1>1, ReadsFacts DEF Inv, Delivery
<1>3. Expected' = Expected \o events /\ events \in Seq(Events)
  BY <1>1, <1>2, ExpectedGrows
<1>4. Content \in Seq(Events) /\ Expected = Content
  BY <1>2, ConcatEmptySeq DEF Inv, Delivery
<1>5. Totals' /\ (sawTerminal' <=> Among(sent', Finished) # <<>>)
  <2>1. usage' = IF f \in Used THEN f.usage ELSE usage
    BY <1>1 DEF ReadCandidate, Candidates, Used
  <2>2. CASE f \in Finished
    <3>1. stopReason' = MapFinishReason(f.finish, HasCalls(f.parts)) /\ sawTerminal' = TRUE
      BY <2>2 DEF ReadCandidate, Finished
    <3> QED
      BY <1>1, <1>2, <2>1, <2>2, <3>1, ReadsFacts, ReasonGiven DEF Inv, Totals
  <2>3. CASE f \notin Finished
    <3>1. UNCHANGED <<stopReason, sawTerminal>>
      BY <1>1, <2>3 DEF ReadCandidate, Finished
    <3>2. StopSent(sent') = StopSent(sent) /\ Among(sent', Finished) = Among(sent, Finished)
      BY <1>1, <2>3, ReadsFacts DEF StopSent
    <3> QED
      BY <1>1, <1>2, <2>1, <3>1, <3>2, ReadsFacts DEF Inv, Totals, Progress
  <2> QED
    BY <2>2, <2>3
<1> HIDE DEF events
<1>6. CASE events = <<>>
  <2>1. UNCHANGED <<pc, queued, err, log>>
    BY <1>6 DEF ReadCandidate, events
  <2>2. HasDone' = HasDone /\ Content' = Content
    BY <2>1 DEF HasDone, Content
  <2>3. Expected' = Expected
    BY <1>3, <1>4, <1>6, ConcatEmptySeq
  <2>4. Delivery' /\ Progress'
    BY <1>2, <1>5, <2>1, <2>2, <2>3 DEF Inv, Delivery, Progress
  <2> QED
    BY <1>2, <1>5, <2>1, <2>4 DEF Inv, Contract!contractVars
<1>7. CASE events # <<>>
  <2>1. queued' = Tail(events) /\ Return(Head(events))
    BY <1>7 DEF ReadCandidate, events
  <2>2. /\ Head(events) \in Events /\ Tail(events) \in Seq(Events)
        /\ Append(Content, Head(events)) \in Seq(Events)
        /\ Append(Content, Head(events)) \o Tail(events) = Content \o events
    BY <1>3, <1>4, <1>7, MoveHead
  <2>3. Head(events).type # "done"
    BY <2>2, EventsInTyped
  <2>4. /\ \E S : log' \in Seq(S)
        /\ ~ HasDone' /\ Content' = Append(Content, Head(events))
        /\ Contract!Deliver(Head(events).type)
    BY <1>2, <2>1, <2>3, ReturnFacts DEF Inv
  <2>5. pc' = "idle" /\ err' = err
    BY <2>1 DEF Return
  <2>6. Delivery' /\ Progress'
    BY <1>2, <1>3, <1>4, <1>5, <2>1, <2>2, <2>4, <2>5 DEF Inv, Delivery, Progress
  <2>7. Contract!ContractNext
    BY <2>2, <2>4, EventsInTyped DEF Contract!ContractNext
  <2> QED
    BY <1>5, <2>6, <2>7 DEF Inv
<1> QED
  BY <1>6, <1>7

\* The end of the connection: truncated, the terminal event, or the end.
LEMMA EOFHolds ==
  ASSUME Inv, ReadEOF
  PROVE  Inv' /\ Contract!ContractNext
<1>1. /\ pc = "reading" /\ wire' = "eof" /\ ~ done /\ err = "nil" /\ queued = <<>>
      /\ UNCHANGED <<queued, usage, stopReason, sawTerminal, closed, sent>>
  BY DEF ReadEOF, Inv, Progress
<1>2. Expected' = Expected /\ UsageSent(sent') = UsageSent(sent) /\ StopSent(sent') = StopSent(sent)
  BY <1>1 DEF Expected
<1>3. CASE ~ sawTerminal /\ ~ flushed /\ ReturnFalse("truncated") /\ UNCHANGED <<flushed, done>>
  <2>1. pc' = "idle" /\ err' = "truncated" /\ log' = log
    BY <1>3 DEF ReturnFalse
  <2>2. HasDone' = HasDone /\ Content' = Content
    BY <2>1 DEF HasDone, Content
  <2>3. Contract!EndFailed
    BY <1>1, <1>3, <2>1 DEF Contract!EndFailed
  <2> QED
    BY <1>1, <1>2, <1>3, <2>1, <2>2, <2>3
    DEF Inv, Delivery, Progress, Totals, Contract!ContractNext
<1>4. ASSUME sawTerminal, ~ flushed, flushed' = TRUE, UNCHANGED done,
             Return([type |-> "done", usage |-> usage,
                     stop |-> IF stopReason = "" THEN "unknown" ELSE stopReason])
      PROVE  Inv' /\ Contract!ContractNext
  <2> DEFINE e == [type |-> "done", usage |-> usage,
                   stop |-> IF stopReason = "" THEN "unknown" ELSE stopReason]
  <2>1. stopReason # "" /\ ~ HasDone
    BY <1>4 DEF Inv, Totals, Progress
  <2>2. e.type = "done" /\ e.usage = usage /\ e.stop = stopReason
    BY <2>1
  <2>3. Return(e)
    BY <1>4
  <2> HIDE DEF e
  <2>4. /\ \E S : log' \in Seq(S)
        /\ HasDone' /\ Content' = Content /\ Last(log') = e
        /\ Contract!Deliver("done")
    BY <1>1, <1>4, <2>1, <2>2, <2>3, ReturnFacts DEF Inv
  <2>5. pc' = "idle" /\ err' = err
    BY <2>3 DEF Return
  <2> QED
    BY <1>1, <1>2, <1>4, <2>2, <2>4, <2>5
    DEF Inv, Delivery, Progress, Totals, Contract!ContractNext
<1>5. CASE flushed /\ done' = TRUE /\ ReturnFalse("nil") /\ UNCHANGED flushed
  <2>1. pc' = "idle" /\ err' = "nil" /\ log' = log
    BY <1>5 DEF ReturnFalse
  <2>2. HasDone' = HasDone /\ Content' = Content
    BY <2>1 DEF HasDone, Content
  <2>3. Contract!EndCleanly
    BY <1>1, <1>5, <2>1, HasDoneMaps DEF Contract!EndCleanly, Inv, Progress
  <2> QED
    BY <1>1, <1>2, <1>5, <2>1, <2>2, <2>3
    DEF Inv, Delivery, Progress, Totals, Contract!ContractNext
<1> QED
  BY <1>3, <1>4, <1>5 DEF ReadEOF

\* A step that reads nothing and returns no event.
LEMMA QuietStep ==
  ASSUME Inv, UNCHANGED <<log, sent, queued, usage, stopReason, flushed, done, sawTerminal>>,
         pc' = "reading" => ~ done /\ err' = "nil" /\ queued = <<>>,
         wire' = wire \/ wire' # "open"
  PROVE  Inv'
<1>1. /\ HasDone' = HasDone /\ Content' = Content /\ Expected' = Expected
      /\ UsageSent(sent') = UsageSent(sent) /\ StopSent(sent') = StopSent(sent)
  BY DEF HasDone, Content, Expected
<1>2. Delivery'
  BY <1>1 DEF Inv, Delivery
<1>3. Progress'
  BY <1>1 DEF Inv, Progress
<1>4. Totals'
  BY <1>1 DEF Inv, Totals
<1> QED
  BY <1>2, <1>3, <1>4 DEF Inv

\* Every step keeps the invariant and is one of the contract, or one the consumer
\* does not see.
LEMMA StepHolds ==
  ASSUME Inv, [Next]_vars
  PROVE  Inv' /\ [Contract!ContractNext]_Contract!contractVars
<1>1. CASE HandOutQueued
  <2>1. /\ pc = "idle" /\ ~ done /\ err = "nil" /\ queued # <<>>
        /\ queued' = Tail(queued) /\ Return(Head(queued))
        /\ UNCHANGED <<usage, stopReason, flushed, done, sawTerminal, closed, sent, wire>>
    BY <1>1 DEF HandOutQueued
  <2>2. ~ flushed /\ ~ HasDone /\ queued \in Seq(Events) /\ Content \in Seq(Events)
    BY <2>1 DEF Inv, Progress, Delivery
  <2>3. /\ Head(queued) \in Events /\ Tail(queued) \in Seq(Events)
        /\ Append(Content, Head(queued)) \in Seq(Events)
        /\ Append(Content, Head(queued)) \o Tail(queued) = Content \o queued
    BY <2>1, <2>2, MoveHead
  <2>0. PICK e \in Events : e = Head(queued)
    BY <2>3
  <2>9. Return(e) /\ e.type \in {"text", "tool"} /\ e.type # "done"
    BY <2>0, <2>1, EventsInTyped
  <2>4. /\ \E S : log' \in Seq(S)
        /\ ~ HasDone' /\ Content' = Append(Content, e)
        /\ Contract!Deliver(e.type)
    BY <2>1, <2>2, <2>9, ReturnFacts DEF Inv
  <2>5. pc' = "idle" /\ err' = err
    BY <2>1 DEF Return
  <2>6. Expected' = Expected /\ UsageSent(sent') = UsageSent(sent) /\ StopSent(sent') = StopSent(sent)
    BY <2>1 DEF Expected
  <2>7. Inv'
    BY <2>0, <2>1, <2>2, <2>3, <2>4, <2>5, <2>6 DEF Inv, Delivery, Progress, Totals
  <2>8. \E t \in {"text", "tool"} \cup {"done"} : Contract!Deliver(t)
    BY <2>4, <2>9
  <2> QED
    BY <2>7, <2>8 DEF Contract!ContractNext
<1>2. CASE CallNext
  <2>1. Inv'
    BY <1>2, QuietStep DEF CallNext
  <2> QED
    BY <1>2, <2>1 DEF CallNext, Contract!contractVars
<1>3. ASSUME NEW f \in Frames, ReadRecord(f)
      PROVE  Inv' /\ [Contract!ContractNext]_Contract!contractVars
  <2>1. CASE ReadSkipped(f)
    <3>1. /\ Reads(f) /\ f \notin Candidates /\ f \notin Used
          /\ UNCHANGED <<pc, queued, usage, stopReason, sawTerminal, err, log>>
      BY <2>1 DEF ReadSkipped, Candidates, Chunks, Used
    <3>2. Inv' /\ UNCHANGED <<closed, done>>
      BY <3>1, ReadsFacts, QuietRecord
    <3> QED
      BY <3>1, <3>2 DEF Contract!contractVars
  <2>2. CASE ReadErrorChunk(f)
    <3>1. /\ Reads(f) /\ f \notin Candidates /\ f \notin Used
          /\ pc' = "idle" /\ err' = "provider"
          /\ UNCHANGED <<queued, usage, stopReason, sawTerminal, log>>
      BY <2>2 DEF ReadErrorChunk, ReturnFalse, Candidates, Chunks, Used
    <3>2. Inv' /\ UNCHANGED <<closed, done>> /\ ~ done /\ err = "nil"
      BY <3>1, ReadsFacts, QuietRecord
    <3>3. Contract!EndFailed
      BY <3>1, <3>2 DEF Contract!EndFailed
    <3> QED
      BY <3>2, <3>3 DEF Contract!ContractNext
  <2>3. CASE ReadBareChunk(f)
    <3>1. /\ Reads(f) /\ f \notin Candidates
          /\ usage' = IF f \in Used THEN f.usage ELSE usage
          /\ UNCHANGED <<pc, queued, stopReason, sawTerminal, err, log>>
      BY <2>3 DEF ReadBareChunk, Candidates, Chunks, Used
    <3>2. Inv' /\ UNCHANGED <<closed, done>>
      BY <3>1, ReadsFacts, QuietRecord
    <3> QED
      BY <3>1, <3>2 DEF Contract!contractVars
  <2>4. CASE ReadCandidate(f)
    BY <2>4, CandidateHolds
  <2> QED
    BY <1>3, <2>1, <2>2, <2>3, <2>4 DEF ReadRecord
<1>4. CASE ReadFails
  <2>1. /\ pc = "reading" /\ wire' = "broken" /\ pc' = "idle" /\ err' = "transport"
        /\ UNCHANGED <<log, queued, usage, stopReason, flushed, done, sawTerminal, closed, sent>>
    BY <1>4 DEF ReadFails, ReturnFalse
  <2>2. Contract!EndFailed
    BY <2>1 DEF Contract!EndFailed, Inv, Progress
  <2>3. Inv'
    BY <2>1, QuietStep
  <2> QED
    BY <2>2, <2>3 DEF Contract!ContractNext
<1>5. CASE ReadEOF
  BY <1>5, EOFHolds
<1>6. CASE Close
  <2>1. /\ closed' = TRUE
        /\ UNCHANGED <<pc, queued, usage, stopReason, flushed, done, sawTerminal, err,
                       log, sent, wire>>
    BY <1>6 DEF Close
  <2>2. Inv'
    BY <2>1, QuietStep DEF Inv, Progress
  <2>3. Contract!Release
    BY <2>1 DEF Contract!Release
  <2> QED
    BY <2>2, <2>3 DEF Contract!ContractNext
<1>7. CASE UNCHANGED vars
  <2>1. UNCHANGED <<pc, queued, usage, stopReason, flushed, done, sawTerminal, closed,
                    err, log, sent, wire>>
    BY <1>7 DEF vars
  <2>2. Inv'
    BY <2>1, QuietStep DEF Inv, Progress
  <2> QED
    BY <2>1, <2>2 DEF Contract!contractVars
<1> QED
  BY <1>1, <1>2, <1>3, <1>4, <1>5, <1>6, <1>7 DEF Next

LEMMA Invariance == Spec => []Inv
<1>1. Inv /\ [Next]_vars => Inv'
  BY StepHolds
<1> QED
  BY <1>1, InitHolds, PTL DEF Spec

-----------------------------------------------------------------------------
(* The results.                                                            *)

\* The terminal event and a clean end need a finishReason: a stream cut before
\* one is an error (stream.sawTerminal).
THEOREM Untruncated == Spec => []NoTruncatedAnswer
<1>1. Inv => NoTruncatedAnswer
  BY AmongSome DEF Inv, Delivery, Progress, NoTruncatedAnswer
<1> QED
  BY <1>1, Invariance, PTL

\* Every part of every candidate is delivered once and in order, with the totals
\* and the stop reason that were sent last (stream.queued, usage, stopReason).
THEOREM Faithful == Spec => []LogFaithful
<1>1. Inv => LogFaithful
  BY DEF Inv, Delivery, Progress, Totals, LogFaithful, DeliveredInOrder, TotalsFaithful,
         UsageSent, StopSent, Used
<1> QED
  BY <1>1, Invariance, PTL

\* The decoder keeps the contract of a Stream (Next, Err, Close).
THEOREM Refinement == Spec => KeepsContract
<1>1. Inv /\ [Next]_vars => [Contract!ContractNext]_Contract!contractVars
  BY StepHolds
<1> QED
  BY <1>1, InitHolds, Invariance, PTL DEF Spec, KeepsContract, Contract!ContractSpec

-----------------------------------------------------------------------------
(* The reader beneath: the text of a record's data.                        *)

\* A character of a line, and of a record's data.
LineText == Seq(STRING \ {"\n"})

\* The value of a field has no newline either.
LEMMA ValueTyped == \A l \in Lines : Value(l) \in LineText /\ Value(l) \in Seq(STRING)
<1> SUFFICES ASSUME NEW l \in Lines PROVE Value(l) \in LineText
  BY SeqMonotonic DEF LineText
<1>1. l.value \in LineText
  BY SseAssumption DEF LineText
<1>2. l.value # <<>> => Tail(l.value) \in LineText
  BY <1>1, HeadTailProperties DEF LineText
<1> QED
  BY <1>1, <1>2 DEF Value

LEMMA TrimmedEmpty == Trimmed(<<>>) = <<>>
<1>1. [i \in DOMAIN <<>> |-> IF \A j \in 1 .. i : <<>>[j] = "\n" THEN <<>> ELSE <<(<<>>[i])>>] = <<>>
  OBVIOUS
<1> QED
  BY <1>1, FlattenEmpty DEF Trimmed

\* A character more.
LEMMA TrimmedGrows ==
  ASSUME NEW C, NEW s \in Seq(C), NEW x \in C
  PROVE  /\ Trimmed(s) \in Seq(C)
         /\ Trimmed(Append(s, x)) =
              Trimmed(s) \o IF x = "\n" /\ (\A j \in DOMAIN s : s[j] = "\n") THEN <<>> ELSE <<x>>
<1> DEFINE n == Len(s)
           r == Append(s, x)
           f == [i \in 1 .. n |-> IF \A j \in 1 .. i : s[j] = "\n" THEN <<>> ELSE <<s[i]>>]
           g == [i \in 1 .. n + 1 |-> IF \A j \in 1 .. i : r[j] = "\n" THEN <<>> ELSE <<r[i]>>]
<1>1. /\ n \in Nat /\ DOMAIN s = 1 .. n /\ DOMAIN r = 1 .. n + 1
      /\ \A i \in 1 .. n : r[i] = s[i] /\ s[i] \in C
      /\ r[n + 1] = x
  BY LenProperties, AppendProperties, ElementOfSeq
<1>2. Trimmed(s) = FlattenSeq(f) /\ Trimmed(r) = FlattenSeq(g)
  BY <1>1, Zenon DEF Trimmed
<1> HIDE DEF n, r
<1>3. \A c \in C : <<c>> \in Seq(C)
  OBVIOUS
<1>4. /\ f \in [1 .. n -> Seq(C)] /\ g \in [1 .. n + 1 -> Seq(C)]
      /\ \A i \in 1 .. n : g[i] = f[i]
      /\ g[n + 1] = IF x = "\n" /\ (\A j \in 1 .. n : s[j] = "\n") THEN <<>> ELSE <<x>>
  <2>1. ASSUME NEW i \in 1 .. n PROVE f[i] \in Seq(C) /\ g[i] = f[i]
    BY <1>1, <1>3, <2>1
  <2>2. (\A j \in 1 .. n + 1 : r[j] = "\n") <=> x = "\n" /\ \A j \in 1 .. n : s[j] = "\n"
    BY <1>1
  <2>3. g[n + 1] = IF x = "\n" /\ (\A j \in 1 .. n : s[j] = "\n") THEN <<>> ELSE <<x>>
    BY <1>1, <2>2
  <2>4. g[n + 1] \in Seq(C)
    BY <1>3, <2>3, EmptySeq
  <2> HIDE DEF f, g
  <2>5. \A i \in 1 .. n + 1 : g[i] \in Seq(C)
    BY <1>1, <2>1, <2>4
  <2>6. f \in [1 .. n -> Seq(C)]
    BY <2>1 DEF f
  <2>7. g \in [1 .. n + 1 -> Seq(C)]
    BY <2>5 DEF g
  <2> QED
    BY <2>1, <2>3, <2>6, <2>7
<1> HIDE DEF f, g
<1>5. FlattenSeq(g) = FlattenSeq(f) \o g[n + 1] /\ FlattenSeq(f) \in Seq(C)
  BY <1>1, <1>4, FlattenGrows
<1> QED
  BY <1>1, <1>2, <1>4, <1>5 DEF r

\* Nothing is left exactly of newlines only.
LEMMA TrimmedNothing ==
  ASSUME NEW C, NEW s \in Seq(C)
  PROVE  Trimmed(s) \in Seq(C) /\ (Trimmed(s) = <<>> <=> \A j \in DOMAIN s : s[j] = "\n")
<1> DEFINE Good == {t \in Seq(C) : /\ Trimmed(t) \in Seq(C)
                                   /\ Trimmed(t) = <<>> <=> \A j \in DOMAIN t : t[j] = "\n"}
<1>1. <<>> \in Good
  <2>1. <<>> \in Seq(C) /\ DOMAIN <<>> = {}
    OBVIOUS
  <2> QED
    BY <2>1, TrimmedEmpty
<1>2. ASSUME NEW t \in Good, NEW x \in C PROVE Append(t, x) \in Good
  <2> DEFINE r == Append(t, x)
  <2>1. /\ r \in Seq(C) /\ DOMAIN t = 1 .. Len(t) /\ DOMAIN r = 1 .. Len(t) + 1
        /\ Len(t) \in Nat
        /\ \A i \in 1 .. Len(t) : r[i] = t[i]
        /\ r[Len(t) + 1] = x
    BY LenProperties, AppendProperties
  <2>2. /\ Trimmed(t) \in Seq(C)
        /\ Trimmed(r) = Trimmed(t) \o IF x = "\n" /\ (\A j \in DOMAIN t : t[j] = "\n") THEN <<>> ELSE <<x>>
    BY TrimmedGrows
  <2>3. /\ Trimmed(t) = <<>> => Trimmed(t) \o <<>> = <<>>
        /\ Trimmed(t) \o <<x>> # <<>>
    BY <2>2, EmptySeq
  <2> HIDE DEF r
  <2>4. (\A j \in DOMAIN r : r[j] = "\n") <=> x = "\n" /\ \A j \in DOMAIN t : t[j] = "\n"
    <3>1. DOMAIN r = DOMAIN t \cup {Len(t) + 1}
      BY <2>1
    <3> QED
      BY <2>1, <3>1, Zenon
  <2>5. Trimmed(r) = <<>> <=> \A j \in DOMAIN r : r[j] = "\n"
    BY <2>2, <2>3, <2>4
  <2>6. Trimmed(r) \in Seq(C)
    BY <2>2, EmptySeq
  <2> QED
    BY <2>1, <2>5, <2>6 DEF r
<1>3. Good = Seq(C)
  <2>1. Good \subseteq Seq(C)
    OBVIOUS
  <2> HIDE DEF Good
  <2> QED
    BY <1>1, <1>2, <2>1, SeqSetInduction
<1> QED
  BY <1>3

\* What follows a text is trimmed only if nothing of the text is left.
LEMMA TrimmedConcat ==
  ASSUME NEW C, NEW s \in Seq(C), NEW t \in Seq(C)
  PROVE  Trimmed(s \o t) = IF Trimmed(s) = <<>> THEN Trimmed(t) ELSE Trimmed(s) \o t
<1> DEFINE Is(u) == Trimmed(s \o u) = IF Trimmed(s) = <<>> THEN Trimmed(u) ELSE Trimmed(s) \o u
           Good == {u \in Seq(C) : Is(u)}
<1>1. <<>> \in Good
  <2>1. s \o <<>> = s /\ Trimmed(s) \o <<>> = Trimmed(s) /\ <<>> \in Seq(C)
    BY TrimmedNothing, ConcatEmptySeq, EmptySeq
  <2> QED
    BY <2>1, TrimmedEmpty
<1>2. ASSUME NEW u \in Seq(C), Is(u), NEW x \in C PROVE Is(Append(u, x))
  <2> DEFINE su == s \o u
             x1 == IF x = "\n" /\ Trimmed(su) = <<>> THEN <<>> ELSE <<x>>
             x2 == IF x = "\n" /\ Trimmed(u) = <<>> THEN <<>> ELSE <<x>>
  <2>1. su \in Seq(C) /\ s \o Append(u, x) = Append(su, x)
    OBVIOUS
  <2>2. Trimmed(Append(su, x)) = Trimmed(su) \o x1 /\ Trimmed(Append(u, x)) = Trimmed(u) \o x2
    BY <2>1, TrimmedGrows, TrimmedNothing
  <2>3. Trimmed(s) \in Seq(C) /\ Trimmed(u) \in Seq(C)
    BY TrimmedNothing
  <2>4. CASE Trimmed(s) = <<>>
    <3>1. Trimmed(su) = Trimmed(u) /\ x1 = x2
      BY <1>2, <2>4
    <3> QED
      BY <2>1, <2>2, <2>4, <3>1
  <2>5. CASE Trimmed(s) # <<>>
    <3>1. Trimmed(su) = Trimmed(s) \o u
      BY <1>2, <2>5
    <3>2. Trimmed(su) # <<>>
      BY <2>3, <2>5, <3>1
    <3>3. x1 = <<x>>
      BY <3>2
    <3>4. (Trimmed(s) \o u) \o <<x>> = Trimmed(s) \o (u \o <<x>>)
      <4>1. <<x>> \in Seq(C)
        OBVIOUS
      <4> QED
        BY <2>3, <4>1, ConcatAssociative
    <3>5. Append(u, x) = u \o <<x>>
      BY AppendIsConcat
    <3> QED
      BY <2>1, <2>2, <2>5, <3>1, <3>3, <3>4, <3>5
  <2> QED
    BY <2>4, <2>5
<1>3. Good = Seq(C)
  <2>1. Good \subseteq Seq(C)
    OBVIOUS
  <2>2. \A u \in Good, x \in C : Append(u, x) \in Good
    <3> HIDE DEF Is
    <3> QED
      BY <1>2, AppendProperties
  <2> HIDE DEF Good
  <2> QED
    BY <1>1, <2>1, <2>2, SeqSetInduction
<1> QED
  BY <1>3

\* A text without newlines stays as it is.
LEMMA TrimmedLine == \A v \in LineText : Trimmed(v) = v
<1> DEFINE C == STRING \ {"\n"}
           Good == {v \in Seq(C) : Trimmed(v) = v}
<1>1. <<>> \in Good
  BY TrimmedEmpty, EmptySeq
<1>2. ASSUME NEW v \in Good, NEW x \in C PROVE Append(v, x) \in Good
  <2>1. v \in Seq(C) /\ x # "\n" /\ Append(v, x) \in Seq(C)
    BY SeqMonotonic, AppendProperties
  <2>2. Trimmed(Append(v, x)) = v \o <<x>>
    BY <2>1, TrimmedGrows
  <2> QED
    BY <2>1, <2>2, AppendIsConcat
<1>3. Good = Seq(C)
  <2>1. Good \subseteq Seq(C)
    OBVIOUS
  <2> HIDE DEF Good, C
  <2> QED
    BY <1>1, <1>2, <2>1, SeqSetInduction
<1> QED
  BY <1>3 DEF LineText

-----------------------------------------------------------------------------
(* Values, their payload, and the record they make.                        *)

LEMMA NothingCollected ==
  /\ \A field : Values(<<>>, field) = <<>>
  /\ Payload(<<>>) = <<>>
  /\ RecordOf(<<>>) = [name |-> <<>>, data |-> <<>>]
<1>1. ASSUME NEW field PROVE Values(<<>>, field) = <<>>
  <2>1. [i \in DOMAIN <<>> |-> IF <<>>[i].field = field THEN <<Value(<<>>[i])>> ELSE <<>>] = <<>>
    OBVIOUS
  <2> QED
    BY <2>1, FlattenEmpty DEF Values
<1>2. Payload(<<>>) = <<>>
  <2>1. [i \in DOMAIN <<>> |-> IF i = 1 THEN <<>>[i] ELSE <<"\n">> \o <<>>[i]] = <<>>
    OBVIOUS
  <2> QED
    BY <2>1, FlattenEmpty DEF Payload
<1> QED
  BY <1>1, <1>2, TrimmedEmpty DEF RecordOf

\* A line more.
LEMMA ValuesGrow ==
  ASSUME NEW group \in Seq(Lines), NEW l \in Lines, NEW field
  PROVE  /\ Values(group, field) \in Seq(LineText)
         /\ Values(Append(group, l), field) =
              IF l.field = field THEN Append(Values(group, field), Value(l)) ELSE Values(group, field)
<1> DEFINE n == Len(group)
           r == Append(group, l)
           f == [i \in 1 .. n |-> IF group[i].field = field THEN <<Value(group[i])>> ELSE <<>>]
           g == [i \in 1 .. n + 1 |-> IF r[i].field = field THEN <<Value(r[i])>> ELSE <<>>]
<1>1. /\ n \in Nat /\ DOMAIN group = 1 .. n /\ DOMAIN r = 1 .. n + 1
      /\ \A i \in 1 .. n : r[i] = group[i] /\ group[i] \in Lines
      /\ r[n + 1] = l
  BY LenProperties, AppendProperties, ElementOfSeq
<1>2. Values(group, field) = FlattenSeq(f) /\ Values(r, field) = FlattenSeq(g)
  BY <1>1, Zenon DEF Values
<1> HIDE DEF n, r
<1>3. \A v \in LineText : <<v>> \in Seq(LineText)
  OBVIOUS
<1>4. /\ f \in [1 .. n -> Seq(LineText)] /\ g \in [1 .. n + 1 -> Seq(LineText)]
      /\ \A i \in 1 .. n : g[i] = f[i]
      /\ g[n + 1] = IF l.field = field THEN <<Value(l)>> ELSE <<>>
  <2>1. \A k \in Lines : Value(k) \in LineText
    BY ValueTyped
  <2> HIDE DEF f, g
  <2>2. \A i \in 1 .. n : f[i] = IF group[i].field = field THEN <<Value(group[i])>> ELSE <<>>
    BY DEF f
  <2>3. \A i \in 1 .. n + 1 : g[i] = IF r[i].field = field THEN <<Value(r[i])>> ELSE <<>>
    BY DEF g
  <2>4. \A i \in 1 .. n : f[i] \in Seq(LineText)
    BY <1>1, <1>3, <2>1, <2>2, EmptySeq
  <2>5. \A i \in 1 .. n : i \in 1 .. n + 1 /\ g[i] = f[i]
    <3> SUFFICES ASSUME NEW i \in 1 .. n PROVE i \in 1 .. n + 1 /\ g[i] = f[i]
      OBVIOUS
    <3>1. i \in 1 .. n + 1 /\ r[i] = group[i]
      BY <1>1
    <3> QED
      BY <2>2, <2>3, <3>1, Zenon
  <2>6. n + 1 \in 1 .. n + 1 /\ g[n + 1] = IF l.field = field THEN <<Value(l)>> ELSE <<>>
    BY <1>1, <2>3
  <2>7. \A i \in 1 .. n + 1 : i \in 1 .. n \/ i = n + 1
    BY <1>1
  <2>8. g[n + 1] \in Seq(LineText)
    BY <1>3, <2>1, <2>6, EmptySeq
  <2>9. \A i \in 1 .. n + 1 : g[i] \in Seq(LineText)
    BY <2>4, <2>5, <2>7, <2>8
  <2>10. DOMAIN f = 1 .. n /\ f = [i \in DOMAIN f |-> f[i]]
         /\ DOMAIN g = 1 .. n + 1 /\ g = [i \in DOMAIN g |-> g[i]]
    BY DEF f, g
  <2> QED
    BY <2>4, <2>5, <2>6, <2>9, <2>10
<1> HIDE DEF f, g
<1>5. FlattenSeq(g) = FlattenSeq(f) \o g[n + 1] /\ FlattenSeq(f) \in Seq(LineText)
  BY <1>1, <1>4, FlattenGrows
<1>6. FlattenSeq(f) \o <<>> = FlattenSeq(f) /\ FlattenSeq(f) \o <<Value(l)>> = Append(FlattenSeq(f), Value(l))
  BY <1>5, ConcatEmptySeq, AppendIsConcat, ValueTyped
<1> QED
  BY <1>2, <1>4, <1>5, <1>6 DEF r

\* A value more: the newline comes between two.
LEMMA PayloadGrows ==
  ASSUME NEW C, "\n" \in C, NEW vs \in Seq(Seq(C)), NEW v \in Seq(C)
  PROVE  /\ Payload(vs) \in Seq(C)
         /\ Payload(Append(vs, v)) = IF vs = <<>> THEN v ELSE Payload(vs) \o (<<"\n">> \o v)
<1> DEFINE n == Len(vs)
           r == Append(vs, v)
           f == [i \in 1 .. n |-> IF i = 1 THEN vs[i] ELSE <<"\n">> \o vs[i]]
           g == [i \in 1 .. n + 1 |-> IF i = 1 THEN r[i] ELSE <<"\n">> \o r[i]]
<1>1. /\ n \in Nat /\ DOMAIN vs = 1 .. n /\ DOMAIN r = 1 .. n + 1
      /\ \A i \in 1 .. n : r[i] = vs[i] /\ vs[i] \in Seq(C)
      /\ r[n + 1] = v
      /\ vs = <<>> <=> n = 0
  BY LenProperties, AppendProperties, ElementOfSeq, EmptySeq
<1>2. Payload(vs) = FlattenSeq(f) /\ Payload(r) = FlattenSeq(g)
  BY <1>1, Zenon DEF Payload
<1> HIDE DEF n, r
<1>3. \A u \in Seq(C) : <<"\n">> \o u \in Seq(C)
  <2>1. <<"\n">> \in Seq(C)
    OBVIOUS
  <2> QED
    BY <2>1, ConcatProperties
<1>4. /\ f \in [1 .. n -> Seq(C)] /\ g \in [1 .. n + 1 -> Seq(C)]
      /\ \A i \in 1 .. n : g[i] = f[i]
      /\ g[n + 1] = IF n = 0 THEN v ELSE <<"\n">> \o v
  <2> HIDE DEF f, g
  <2>2. \A i \in 1 .. n : f[i] = IF i = 1 THEN vs[i] ELSE <<"\n">> \o vs[i]
    BY DEF f
  <2>3. \A i \in 1 .. n + 1 : g[i] = IF i = 1 THEN r[i] ELSE <<"\n">> \o r[i]
    BY DEF g
  <2>4. \A i \in 1 .. n : f[i] \in Seq(C)
    BY <1>1, <1>3, <2>2
  <2>5. \A i \in 1 .. n : i \in 1 .. n + 1 /\ g[i] = f[i]
    <3> SUFFICES ASSUME NEW i \in 1 .. n PROVE i \in 1 .. n + 1 /\ g[i] = f[i]
      OBVIOUS
    <3>1. i \in 1 .. n + 1 /\ r[i] = vs[i]
      BY <1>1
    <3> QED
      BY <2>2, <2>3, <3>1, Zenon
  <2>6. n + 1 \in 1 .. n + 1 /\ g[n + 1] = IF n = 0 THEN v ELSE <<"\n">> \o v
    BY <1>1, <2>3
  <2>7. \A i \in 1 .. n + 1 : i \in 1 .. n \/ i = n + 1
    BY <1>1
  <2>9. \A i \in 1 .. n + 1 : g[i] \in Seq(C)
    BY <1>3, <2>4, <2>5, <2>6, <2>7
  <2>10. DOMAIN f = 1 .. n /\ f = [i \in DOMAIN f |-> f[i]]
         /\ DOMAIN g = 1 .. n + 1 /\ g = [i \in DOMAIN g |-> g[i]]
    BY DEF f, g
  <2> QED
    BY <2>4, <2>5, <2>6, <2>9, <2>10
<1> HIDE DEF f, g
<1>5. FlattenSeq(g) = FlattenSeq(f) \o g[n + 1] /\ FlattenSeq(f) \in Seq(C)
  BY <1>1, <1>4, FlattenGrows
<1>6. CASE n = 0
  <2>1. FlattenSeq(f) = <<>>
    BY <1>1, <1>2, <1>6, NothingCollected
  <2> QED
    BY <1>1, <1>2, <1>4, <1>5, <1>6, <2>1 DEF r
<1>7. CASE n # 0
  BY <1>1, <1>2, <1>4, <1>5, <1>7 DEF r
<1> QED
  BY <1>6, <1>7

\* The record's data grow as Next joins them.
LEMMA JoinedTrimmed ==
  ASSUME NEW vs \in Seq(LineText), NEW v \in LineText
  PROVE  Trimmed(Payload(Append(vs, v))) = Joined(Trimmed(Payload(vs)), v)
<1> DEFINE C == STRING \cup {"\n"}
           p == Payload(vs)
<1>1. LineText \subseteq Seq(C) /\ "\n" \in C
  <2>1. STRING \ {"\n"} \subseteq C
    OBVIOUS
  <2> QED
    BY <2>1, SeqMonotonic DEF LineText
<1>2. vs \in Seq(Seq(C)) /\ v \in Seq(C)
  BY <1>1, SeqMonotonic
<1>3. Trimmed(v) = v
  BY TrimmedLine
<1> HIDE DEF C
<1>4. /\ p \in Seq(C)
      /\ Payload(Append(vs, v)) = IF vs = <<>> THEN v ELSE p \o (<<"\n">> \o v)
  BY <1>1, <1>2, PayloadGrows
<1>5. CASE vs = <<>>
  BY <1>3, <1>4, <1>5, NothingCollected, TrimmedEmpty DEF Joined
<1>6. CASE vs # <<>>
  <2>1. <<"\n">> \in Seq(C) /\ <<"\n">> \o v \in Seq(C)
    <3>1. <<"\n">> \in Seq(C)
      BY <1>1
    <3> QED
      BY <1>2, <3>1, ConcatProperties
  <2>2. Trimmed(<<"\n">>) = <<>>
    <3>1. \A j \in DOMAIN <<"\n">> : <<"\n">>[j] = "\n"
      OBVIOUS
    <3> QED
      BY <2>1, <3>1, TrimmedNothing
  <2>3. Trimmed(<<"\n">> \o v) = v
    BY <1>2, <1>3, <2>1, <2>2, TrimmedConcat
  <2>4. Trimmed(p \o (<<"\n">> \o v)) = IF Trimmed(p) = <<>> THEN v ELSE Trimmed(p) \o (<<"\n">> \o v)
    BY <1>4, <2>1, <2>3, TrimmedConcat
  <2>5. Trimmed(p) \o (<<"\n">> \o v) = Trimmed(p) \o <<"\n">> \o v
    BY <1>2, <1>4, <2>1, TrimmedNothing, ConcatAssociative
  <2> HIDE DEF p
  <2> QED
    BY <1>4, <1>6, <2>4, <2>5 DEF Joined, p
<1> QED
  BY <1>5, <1>6

\* A line more in a record: what Collect does with it.
LEMMA RecordGrows ==
  ASSUME NEW group \in Seq(Lines), NEW l \in Lines
  PROVE  RecordOf(Append(group, l)) =
           [name |-> IF l.field = "event" THEN Value(l) ELSE RecordOf(group).name,
            data |-> IF l.field = "data" THEN Joined(RecordOf(group).data, Value(l)) ELSE RecordOf(group).data]
<1> DEFINE names == Values(group, "event")
           datas == Values(group, "data")
<1>1. Value(l) \in LineText
  BY ValueTyped
<1>2. /\ names \in Seq(LineText)
      /\ Values(Append(group, l), "event") = IF l.field = "event" THEN Append(names, Value(l)) ELSE names
      /\ datas \in Seq(LineText)
      /\ Values(Append(group, l), "data") = IF l.field = "data" THEN Append(datas, Value(l)) ELSE datas
  BY ValuesGrow
<1>3. Append(names, Value(l)) # <<>> /\ Last(Append(names, Value(l))) = Value(l)
  BY <1>2, LastAppended
<1>4. Trimmed(Payload(Append(datas, Value(l)))) = Joined(Trimmed(Payload(datas)), Value(l))
  BY <1>1, <1>2, JoinedTrimmed
<1>5. /\ RecordOf(group).name = IF names = <<>> THEN <<>> ELSE Last(names)
      /\ RecordOf(group).data = Trimmed(Payload(datas))
  BY DEF RecordOf
<1> HIDE DEF names, datas
<1> QED
  BY <1>2, <1>3, <1>4, <1>5 DEF RecordOf

-----------------------------------------------------------------------------
(* The lines of a record, and the records of a body.                       *)

LEMMA GroupTyped ==
  ASSUME NEW s \in Seq(Lines), NEW n \in 0 .. Len(s)
  PROVE  Group(s, n) \in Seq(Lines)
<1> DEFINE In(i) == s[i].field \in {"event", "data"} /\ \A k \in i .. n : ~ Blank(s[k])
           f == [i \in 1 .. n |-> IF In(i) THEN <<s[i]>> ELSE <<>>]
<1>1. n \in Nat /\ \A i \in 1 .. n : s[i] \in Lines
  BY LenProperties, ElementOfSeq
<1>2. \A k \in Lines : <<k>> \in Seq(Lines)
  OBVIOUS
<1>3. Group(s, n) = FlattenSeq(f)
  BY Zenon DEF Group
<1> HIDE DEF In
<1>4. \A i \in 1 .. n : (IF In(i) THEN <<s[i]>> ELSE <<>>) \in Seq(Lines)
  BY <1>1, <1>2, EmptySeq
<1>5. f \in [1 .. n -> Seq(Lines)]
  BY <1>4
<1> HIDE DEF f
<1>6. f \in Seq(Seq(Lines))
  BY <1>1, <1>5, FunctionIsSeq
<1> QED
  BY <1>3, <1>6, FlattenTyped

\* A line more: a blank one starts the next record, one with an event or data
\* field belongs to the record, another does not matter. The groups that ended
\* before stay what they are.
LEMMA GroupGrows ==
  ASSUME NEW s \in Seq(Lines), NEW l \in Lines
  PROVE  /\ Group(s, Len(s)) \in Seq(Lines)
         /\ \A n \in 0 .. Len(s) : Group(Append(s, l), n) = Group(s, n)
         /\ Group(Append(s, l), Len(s) + 1) =
              IF Blank(l) THEN <<>>
              ELSE IF l.field \in {"event", "data"} THEN Append(Group(s, Len(s)), l)
              ELSE Group(s, Len(s))
<1> DEFINE n == Len(s)
           r == Append(s, l)
           In(t, i, m) == t[i].field \in {"event", "data"} /\ \A k \in i .. m : ~ Blank(t[k])
           f == [i \in 1 .. n |-> IF In(s, i, n) THEN <<s[i]>> ELSE <<>>]
           g == [i \in 1 .. n + 1 |-> IF In(r, i, n + 1) THEN <<r[i]>> ELSE <<>>]
<1>1. /\ n \in Nat /\ r \in Seq(Lines)
      /\ \A i \in 1 .. n : r[i] = s[i] /\ s[i] \in Lines
      /\ r[n + 1] = l
  BY LenProperties, AppendProperties, ElementOfSeq
<1>2. Group(s, n) = FlattenSeq(f) /\ Group(r, n + 1) = FlattenSeq(g)
  BY Zenon DEF Group
<1> HIDE DEF n, r
<1>3. ASSUME NEW m \in 0 .. n PROVE Group(r, m) = Group(s, m)
  <2>1. m \in Nat /\ m <= n
    BY <1>1
  <2>2. \A i \in 1 .. m : i \in 1 .. n /\ \A k \in i .. m : k \in 1 .. n
    BY <1>1, <2>1
  <2>3. \A i \in 1 .. m :
          /\ r[i] = s[i]
          /\ In(r, i, m) <=> In(s, i, m)
    BY <1>1, <2>2
  <2>4. [i \in 1 .. m |-> IF In(r, i, m) THEN <<r[i]>> ELSE <<>>]
          = [i \in 1 .. m |-> IF In(s, i, m) THEN <<s[i]>> ELSE <<>>]
    <3> HIDE DEF In
    <3> QED
      BY <2>3
  <2> QED
    BY <2>4 DEF Group
<1>4. \A k \in Lines : <<k>> \in Seq(Lines)
  OBVIOUS
<1>5. f \in [1 .. n -> Seq(Lines)]
  <2> HIDE DEF In
  <2>1. \A i \in 1 .. n : (IF In(s, i, n) THEN <<s[i]>> ELSE <<>>) \in Seq(Lines)
    BY <1>1, <1>4, EmptySeq
  <2> QED
    BY <2>1
<1>6. FlattenSeq(f) \in Seq(Lines)
  <2> HIDE DEF f
  <2> QED
    BY <1>1, <1>5, FunctionIsSeq, FlattenTyped
<1>7. CASE Blank(l)
  <2>1. \A i \in 1 .. n + 1 : n + 1 \in i .. n + 1
    BY <1>1
  <2>2. \A i \in 1 .. n + 1 : ~ In(r, i, n + 1)
    BY <1>1, <1>7, <2>1
  <2>3. g = [i \in 1 .. n + 1 |-> <<>>]
    <3> HIDE DEF In
    <3> QED
      BY <2>2
  <2>4. FlattenSeq(g) = <<>>
    <3> HIDE DEF g
    <3> QED
      BY <1>1, <2>3, FlattenNothing
  <2> QED
    BY <1>2, <1>3, <1>6, <1>7, <2>4 DEF n, r
<1>8. CASE ~ Blank(l)
  <2>1. \A i \in 1 .. n : In(r, i, n + 1) <=> In(s, i, n)
    <3> SUFFICES ASSUME NEW i \in 1 .. n PROVE In(r, i, n + 1) <=> In(s, i, n)
      OBVIOUS
    <3>1. \A k : k \in i .. n + 1 <=> k \in i .. n \/ k = n + 1
      BY <1>1
    <3>2. \A k \in i .. n : r[k] = s[k]
      BY <1>1
    <3> QED
      BY <1>1, <1>8, <3>1, <3>2
  <2>2. In(r, n + 1, n + 1) <=> l.field \in {"event", "data"}
    <3>1. \A k \in n + 1 .. n + 1 : k = n + 1
      BY <1>1
    <3> QED
      BY <1>1, <1>8, <3>1
  <2> HIDE DEF In
  <2>3. \A i \in 1 .. n : i \in 1 .. n + 1 /\ g[i] = f[i]
    BY <1>1, <2>1
  <2>4. /\ n + 1 \in 1 .. n + 1
        /\ g[n + 1] = IF l.field \in {"event", "data"} THEN <<l>> ELSE <<>>
    BY <1>1, <2>2
  <2>5. g \in [1 .. n + 1 -> Seq(Lines)]
    <3>1. g[n + 1] \in Seq(Lines)
      BY <1>4, <2>4, EmptySeq
    <3>2. \A i \in 1 .. n + 1 : i \in 1 .. n \/ i = n + 1
      BY <1>1
    <3>3. DOMAIN g = 1 .. n + 1 /\ g = [i \in DOMAIN g |-> g[i]]
      OBVIOUS
    <3> HIDE DEF f, g
    <3>4. \A i \in 1 .. n + 1 : g[i] \in Seq(Lines)
      BY <1>5, <2>3, <3>1, <3>2
    <3> QED
      BY <3>3, <3>4
  <2> HIDE DEF f, g
  <2>6. FlattenSeq(g) = FlattenSeq(f) \o g[n + 1]
    BY <1>1, <1>5, <2>3, <2>5, FlattenGrows
  <2>7. FlattenSeq(f) \o <<>> = FlattenSeq(f) /\ FlattenSeq(f) \o <<l>> = Append(FlattenSeq(f), l)
    BY <1>6, ConcatEmptySeq, AppendIsConcat
  <2> QED
    BY <1>2, <1>3, <1>6, <1>8, <2>4, <2>6, <2>7 DEF n, r
<1> QED
  BY <1>7, <1>8

Records == {RecordOf(group) : group \in Seq(Lines)}

\* The records of these lines, bare event names among them.
AllRecordsOf(lines) ==
  FlattenSeq([i \in DOMAIN lines |-> IF Blank(lines[i]) THEN RecordAfter(lines, i - 1) ELSE <<>>])

\* A line more: if it is blank, it ends a record.
LEMMA RecordsGrow ==
  ASSUME NEW s \in Seq(Lines), NEW l \in Lines
  PROVE  /\ AllRecordsOf(s) \in Seq(Records)
         /\ AllRecordsOf(Append(s, l)) =
              AllRecordsOf(s) \o IF Blank(l) THEN RecordAfter(s, Len(s)) ELSE <<>>
<1> DEFINE n == Len(s)
           r == Append(s, l)
           f == [i \in 1 .. n |-> IF Blank(s[i]) THEN RecordAfter(s, i - 1) ELSE <<>>]
           g == [i \in 1 .. n + 1 |-> IF Blank(r[i]) THEN RecordAfter(r, i - 1) ELSE <<>>]
<1>1. /\ n \in Nat /\ r \in Seq(Lines) /\ DOMAIN s = 1 .. n /\ DOMAIN r = 1 .. n + 1
      /\ \A i \in 1 .. n : r[i] = s[i] /\ s[i] \in Lines
      /\ r[n + 1] = l
  BY LenProperties, AppendProperties, ElementOfSeq
<1>2. AllRecordsOf(s) = FlattenSeq(f) /\ AllRecordsOf(r) = FlattenSeq(g)
  BY <1>1, Zenon DEF AllRecordsOf
<1>3. \A i \in 1 .. n + 1 : RecordAfter(r, i - 1) = RecordAfter(s, i - 1)
  <2>1. \A m \in 0 .. n : RecordAfter(r, m) = RecordAfter(s, m)
    BY GroupGrows DEF RecordAfter
  <2> HIDE DEF r, n
  <2> QED
    BY <1>1, <2>1
<1>4. \A i \in 0 .. n : RecordAfter(s, i) \in Seq(Records)
  <2> SUFFICES ASSUME NEW i \in 0 .. n PROVE RecordAfter(s, i) \in Seq(Records)
    OBVIOUS
  <2>1. Group(s, i) \in Seq(Lines)
    BY GroupTyped
  <2>2. RecordOf(Group(s, i)) \in Records
    BY <2>1 DEF Records
  <2>3. <<RecordOf(Group(s, i))>> \in Seq(Records)
    BY <2>2
  <2> QED
    BY <2>3, EmptySeq DEF RecordAfter
<1> HIDE DEF n, r, f, g
<1>5. \A i \in 1 .. n : f[i] = IF Blank(s[i]) THEN RecordAfter(s, i - 1) ELSE <<>>
  BY DEF f
<1>6. \A i \in 1 .. n + 1 : g[i] = IF Blank(r[i]) THEN RecordAfter(s, i - 1) ELSE <<>>
  BY <1>3 DEF g
<1>7. \A i \in 1 .. n : i \in 1 .. n + 1 /\ g[i] = f[i]
  BY <1>1, <1>5, <1>6
<1>8. n + 1 \in 1 .. n + 1 /\ g[n + 1] = IF Blank(l) THEN RecordAfter(s, n) ELSE <<>>
  <2>1. n + 1 - 1 = n /\ n + 1 \in 1 .. n + 1
    BY <1>1
  <2> QED
    BY <1>1, <1>6, <2>1
<1>9. \A i \in 1 .. n + 1 : g[i] \in Seq(Records)
  <2>1. \A i \in 1 .. n + 1 : i - 1 \in 0 .. n
    BY <1>1
  <2> QED
    BY <1>4, <1>6, <2>1, EmptySeq
<1>10. f \in [1 .. n -> Seq(Records)] /\ g \in [1 .. n + 1 -> Seq(Records)]
  <2>1. DOMAIN f = 1 .. n /\ f = [i \in DOMAIN f |-> f[i]]
        /\ DOMAIN g = 1 .. n + 1 /\ g = [i \in DOMAIN g |-> g[i]]
    BY DEF f, g
  <2>2. \A i \in 1 .. n : f[i] \in Seq(Records)
    BY <1>7, <1>9
  <2> QED
    BY <1>9, <2>1, <2>2
<1>11. FlattenSeq(g) = FlattenSeq(f) \o g[n + 1] /\ FlattenSeq(f) \in Seq(Records)
  BY <1>1, <1>7, <1>10, FlattenGrows
<1> QED
  BY <1>2, <1>8, <1>11 DEF n, r

-----------------------------------------------------------------------------
(* The reader.                                                             *)

\* The verdict on what ended the body.
Verdict == IF lineWire = "eof" THEN "nil" ELSE lineWire

\* The reader is done once Scan has returned false, which it does when the body has
\* ended; Err is set then, and no call of Next reads on.
ReaderInv ==
  /\ told = "false" => scanDone
  /\ scanDone => readerPc = "idle" /\ lineWire # "open" /\ scanErr = Verdict

\* Surfacing a record, or dropping a blank line, is no end.
LEMMA LinesEndNothing ==
  ASSUME told = "false" => scanDone, EndRecord
  PROVE  told' = "false" => scanDone
  BY DEF EndRecord, Surface

LEMMA ReaderStepHolds ==
  ASSUME ReaderInv, [ReaderNext]_readerVars
  PROVE  ReaderInv'
<1>1. CASE CallReader
  BY <1>1 DEF CallReader, ReaderInv, Verdict
<1>2. CASE ScanLine
  <2>1. ~ scanDone /\ UNCHANGED scanDone
    BY <1>2 DEF ScanLine, ReaderInv
  <2>2. PICK l \in Lines :
          CASE Blank(l)   -> EndRecord
            [] Comment(l) -> UNCHANGED <<readerPc, name, data, seen, records, told>>
            [] OTHER      -> Collect(l)
    BY <1>2 DEF ScanLine
  <2>3. EndRecord \/ UNCHANGED told
    BY <2>2 DEF Collect
  <2>4. told' # "false"
    BY <2>1, <2>3, LinesEndNothing DEF ReaderInv
  <2> QED
    BY <2>1, <2>4 DEF ReaderInv
<1>3. CASE BodyEnds
  BY <1>3 DEF BodyEnds, ReaderInv
<1>4. CASE ScanEnds
  BY <1>4 DEF ScanEnds, Surface, ReaderInv, Verdict
<1>5. CASE UNCHANGED readerVars
  BY <1>5 DEF readerVars, ReaderInv, Verdict
<1> QED
  BY <1>1, <1>2, <1>3, <1>4, <1>5 DEF ReaderNext

\* The lines of the record under way.
Under == Group(body, Len(body))

\* Next surfaces all of them, which is more than RecordsFaithful asks for.
AllSurfaced ==
  records = AllRecordsOf(body)
              \o IF scanDone /\ lineWire = "eof" THEN RecordAfter(body, Len(body)) ELSE <<>>

\* In the loop, Next's locals are the record that the lines under way make up so
\* far; between two calls no line is under way, as the last one was blank.
Collection ==
  /\ readerPc \in {"idle", "reading"}
  /\ body \in Seq(Lines)
  /\ readerPc = "reading" =>
       /\ ~ scanDone
       /\ seen <=> Under # <<>>
       /\ [name |-> name, data |-> data] = RecordOf(Under)
  /\ readerPc = "idle" /\ ~ scanDone => Under = <<>>
  /\ AllSurfaced

LEMMA CollectionStarts == ReaderInit => Collection
<1> SUFFICES ASSUME ReaderInit PROVE Collection
  OBVIOUS
<1>1. body = <<>> /\ records = <<>> /\ readerPc = "idle" /\ scanDone = FALSE
  BY DEF ReaderInit
<1>2. Len(body) = 0 /\ DOMAIN body = 1 .. 0
  BY <1>1
<1>3. Under = <<>>
  <2> DEFINE f == [i \in 1 .. 0 |->
                     IF body[i].field \in {"event", "data"} /\ \A k \in i .. 0 : ~ Blank(body[k])
                       THEN <<body[i]>> ELSE <<>>]
  <2>2. Under = FlattenSeq(f)
    BY <1>2, Zenon DEF Under, Group
  <2>3. f = <<>>
    OBVIOUS
  <2> QED
    BY <2>2, <2>3, FlattenEmpty
<1>4. AllRecordsOf(body) = <<>>
  <2> DEFINE f == [i \in 1 .. 0 |-> IF Blank(body[i]) THEN RecordAfter(body, i - 1) ELSE <<>>]
  <2>1. AllRecordsOf(body) = FlattenSeq(f)
    BY <1>2, Zenon DEF AllRecordsOf
  <2>2. f = <<>>
    OBVIOUS
  <2> QED
    BY <2>1, <2>2, FlattenEmpty
<1>5. records = AllRecordsOf(body) \o <<>>
  BY <1>1, <1>4
<1> QED
  BY <1>1, <1>3, <1>5 DEF Collection, AllSurfaced

\* Surfacing the record under way adds it to the records.
LEMMA SurfacedRecord ==
  ASSUME NEW s, NEW t \in Seq(Records), s = t, [name |-> name, data |-> data] = RecordOf(Under)
  PROVE  Append(s, [name |-> name, data |-> data]) = t \o <<RecordOf(Under)>>
  BY AppendIsConcat

LEMMA LineKeeps ==
  ASSUME Collection, ScanLine
  PROVE  Collection'
<1>1. PICK l \in Lines :
        /\ body' = Append(body, l)
        /\ CASE Blank(l)   -> EndRecord
             [] Comment(l) -> UNCHANGED <<readerPc, name, data, seen, records, told>>
             [] OTHER      -> Collect(l)
  BY DEF ScanLine
<1>2. /\ readerPc = "reading" /\ scanDone' = scanDone /\ ~ scanDone /\ body \in Seq(Lines)
      /\ seen <=> Under # <<>>
      /\ [name |-> name, data |-> data] = RecordOf(Under)
  BY DEF ScanLine, Collection
<1>3. /\ body' \in Seq(Lines) /\ Len(body') = Len(body) + 1
      /\ AllRecordsOf(body) \in Seq(Records)
      /\ AllRecordsOf(body') =
           AllRecordsOf(body) \o IF Blank(l) THEN RecordAfter(body, Len(body)) ELSE <<>>
      /\ Under \in Seq(Lines)
      /\ Under' = IF Blank(l) THEN <<>>
                  ELSE IF l.field \in {"event", "data"} THEN Append(Under, l) ELSE Under
  BY <1>1, <1>2, AppendProperties, RecordsGrow, GroupGrows DEF Under
<1>4. records = AllRecordsOf(body) /\ AllRecordsOf(body) \o <<>> = AllRecordsOf(body)
  <2>1. AllRecordsOf(body) \o <<>> = AllRecordsOf(body)
    BY <1>3, ConcatEmptySeq
  <2> QED
    BY <1>2, <2>1 DEF Collection, AllSurfaced
<1>5. ASSUME records' = AllRecordsOf(body') PROVE AllSurfaced'
  <2>1. AllRecordsOf(body') \in Seq(Records)
    BY <1>3, RecordsGrow
  <2>2. AllRecordsOf(body') \o <<>> = AllRecordsOf(body')
    BY <2>1, ConcatEmptySeq
  <2> QED
    BY <1>2, <1>5, <2>2 DEF AllSurfaced
<1>6. CASE Blank(l)
  <2>1. EndRecord /\ Under' = <<>>
    <3>1. Under' = <<>>
      BY <1>3, <1>6
    <3>2. EndRecord
      BY <1>1, <1>6 DEF Blank, Comment
    <3> QED
      BY <3>1, <3>2
  <2>2. AllRecordsOf(body') = AllRecordsOf(body) \o IF seen THEN <<RecordOf(Under)>> ELSE <<>>
    BY <1>2, <1>3, <1>6 DEF RecordAfter, Under
  <2>3. CASE seen
    <3>1. readerPc' = "idle" /\ records' = Append(records, [name |-> name, data |-> data])
      BY <2>1, <2>3 DEF EndRecord, Surface
    <3>2. records' = AllRecordsOf(body')
      BY <1>2, <1>3, <1>4, <2>2, <2>3, <3>1, SurfacedRecord
    <3> QED
      BY <1>3, <1>5, <2>1, <3>1, <3>2 DEF Collection
  <2>4. CASE ~ seen
    <3>1. name' = <<>> /\ data' = <<>> /\ UNCHANGED <<readerPc, seen, records>>
      BY <2>1, <2>4 DEF EndRecord
    <3>2. records' = AllRecordsOf(body')
      BY <1>4, <2>2, <2>4, <3>1
    <3>3. [name |-> name', data |-> data'] = RecordOf(Under')
      BY <2>1, <3>1, NothingCollected
    <3>4. ~ seen' /\ readerPc' = "reading" /\ ~ scanDone'
      BY <1>2, <2>4, <3>1
    <3> QED
      BY <1>3, <1>5, <2>1, <3>2, <3>3, <3>4 DEF Collection
  <2> QED
    BY <2>3, <2>4
<1>7. CASE ~ Blank(l)
  <2>1. AllRecordsOf(body') = AllRecordsOf(body)
    BY <1>3, <1>4, <1>7
  <2>2. CASE Comment(l)
    <3>1. UNCHANGED <<readerPc, name, data, seen, records>>
      BY <1>1, <1>7, <2>2
    <3>2. l.field \notin {"event", "data"}
      BY <2>2 DEF Comment
    <3>3. Under' = Under
      BY <1>3, <1>7, <3>2
    <3>4. AllSurfaced'
      BY <1>4, <1>5, <2>1, <3>1
    <3>5. [name |-> name', data |-> data'] = RecordOf(Under')
      BY <1>2, <3>1, <3>3
    <3> QED
      BY <1>2, <1>3, <3>1, <3>3, <3>4, <3>5 DEF Collection
  <2>3. CASE ~ Comment(l)
    <3>1. /\ name' = IF l.field = "event" THEN Value(l) ELSE name
          /\ data' = IF l.field = "data" THEN Joined(data, Value(l)) ELSE data
          /\ seen' = (seen \/ l.field \in {"event", "data"})
          /\ UNCHANGED <<readerPc, records>>
      BY <1>1, <1>7, <2>3 DEF Collect
    <3>2. AllSurfaced'
      BY <1>4, <1>5, <2>1, <3>1
    <3>3. seen' <=> Under' # <<>>
      BY <1>2, <1>3, <1>7, <3>1, AppendProperties
    <3>4. [name |-> name', data |-> data'] = RecordOf(Under')
      <4>1. RecordOf(Under).name = name /\ RecordOf(Under).data = data
        <5>1. /\ [name |-> name, data |-> data].name = name
              /\ [name |-> name, data |-> data].data = data
          OBVIOUS
        <5> QED
          BY <1>2, <5>1
      <4>2. CASE l.field \in {"event", "data"}
        <5>1. RecordOf(Append(Under, l)) =
                [name |-> IF l.field = "event" THEN Value(l) ELSE name,
                 data |-> IF l.field = "data" THEN Joined(data, Value(l)) ELSE data]
          BY <1>3, <4>1, RecordGrows
        <5> QED
          BY <1>3, <1>7, <3>1, <4>2, <5>1
      <4>3. CASE l.field \notin {"event", "data"}
        BY <1>2, <1>3, <1>7, <3>1, <4>3
      <4> QED
        BY <4>2, <4>3
    <3> QED
      BY <1>2, <1>3, <3>1, <3>2, <3>3, <3>4 DEF Collection
  <2> QED
    BY <2>2, <2>3
<1> QED
  BY <1>6, <1>7

LEMMA EndKeeps ==
  ASSUME Collection, ScanEnds
  PROVE  Collection'
<1>1. /\ readerPc = "reading" /\ ~ scanDone /\ scanDone' = TRUE
      /\ UNCHANGED <<body, lineWire>>
      /\ body \in Seq(Lines)
      /\ seen <=> Under # <<>>
      /\ [name |-> name, data |-> data] = RecordOf(Under)
      /\ readerPc' = "idle"
  BY DEF ScanEnds, Surface, Collection
<1>2. AllRecordsOf(body) \in Seq(Records)
  <2>1. CASE Lines = {}
    <3>1. body = <<>>
      BY <1>1, <2>1, EmptySeq, ElementOfSeq
    <3>2. [i \in DOMAIN <<>> |-> IF Blank(<<>>[i]) THEN RecordAfter(<<>>, i - 1) ELSE <<>>] = <<>>
      OBVIOUS
    <3> QED
      BY <3>1, <3>2, FlattenEmpty, EmptySeq DEF AllRecordsOf
  <2>2. CASE Lines # {}
    BY <1>1, <2>2, RecordsGrow
  <2> QED
    BY <2>1, <2>2
<1>3. records = AllRecordsOf(body) /\ AllRecordsOf(body) \o <<>> = AllRecordsOf(body)
  <2>1. AllRecordsOf(body) \o <<>> = AllRecordsOf(body)
    BY <1>2, ConcatEmptySeq
  <2> QED
    BY <1>1, <2>1 DEF Collection, AllSurfaced
<1>4. AllSurfaced'
  <2>1. RecordAfter(body, Len(body)) = IF seen THEN <<RecordOf(Under)>> ELSE <<>>
    BY <1>1 DEF RecordAfter, Under
  <2>2. CASE lineWire = "eof" /\ seen
    <3>1. records' = Append(records, [name |-> name, data |-> data])
      BY <2>2 DEF ScanEnds, Surface
    <3>2. records' = AllRecordsOf(body) \o <<RecordOf(Under)>>
      BY <1>1, <1>2, <1>3, <3>1, SurfacedRecord
    <3> QED
      BY <1>1, <2>1, <2>2, <3>2 DEF AllSurfaced
  <2>3. CASE ~ (lineWire = "eof" /\ seen)
    <3>1. records' = records
      BY <2>3 DEF ScanEnds
    <3>2. (IF scanDone' /\ lineWire = "eof" THEN RecordAfter(body, Len(body)) ELSE <<>>) = <<>>
      BY <2>1, <2>3
    <3> QED
      BY <1>1, <1>3, <3>1, <3>2 DEF AllSurfaced
  <2> QED
    BY <2>2, <2>3
<1> QED
  BY <1>1, <1>4 DEF Collection, Under

LEMMA CollectionKept ==
  ASSUME Collection, [ReaderNext]_readerVars
  PROVE  Collection'
<1>1. CASE CallReader
  <2>1. UNCHANGED <<scanDone, records, body, lineWire>> /\ readerPc = "idle"
    BY <1>1 DEF CallReader
  <2>2. AllSurfaced' /\ Under' = Under
    BY <2>1 DEF Collection, AllSurfaced, AllRecordsOf, RecordAfter, Group, Under
  <2>3. CASE scanDone
    BY <1>1, <2>1, <2>2, <2>3 DEF CallReader, Collection
  <2>4. CASE ~ scanDone
    <3>1. /\ readerPc' = "reading" /\ ~ seen' /\ Under = <<>>
          /\ [name |-> name', data |-> data'] = [name |-> <<>>, data |-> <<>>]
      BY <1>1, <2>1, <2>4 DEF CallReader, Collection
    <3>2. [name |-> name', data |-> data'] = RecordOf(Under')
      BY <2>2, <3>1, NothingCollected
    <3> QED
      BY <2>1, <2>2, <2>4, <3>1, <3>2 DEF Collection
  <2> QED
    BY <2>3, <2>4
<1>2. CASE ScanLine
  BY <1>2, LineKeeps
<1>3. CASE BodyEnds
  BY <1>3 DEF BodyEnds, Collection, AllSurfaced, AllRecordsOf, RecordAfter, Group, Under
<1>4. CASE ScanEnds
  BY <1>4, EndKeeps
<1>5. CASE UNCHANGED readerVars
  BY <1>5 DEF readerVars, Collection, AllSurfaced, AllRecordsOf, RecordAfter, Group, Under
<1> QED
  BY <1>1, <1>2, <1>3, <1>4, <1>5 DEF ReaderNext

\* Whatever lines come and however the body ends, the records surfaced are the
\* ones its lines make up, once and in order, with the last one of a body
\* that ended cleanly and without the one that an error cut off. A record with a
\* name and no data is skipped nowhere.
THEOREM Surfaced == ReaderSpec => []RecordsFaithful
<1>1. Collection => RecordsFaithful
  <2> SUFFICES ASSUME Collection
               PROVE  records = Due({})
    BY DEF RecordsFaithful
  <2>1. RecordsOf(body, {}) = AllRecordsOf(body)
    BY DEF RecordsOf, AllRecordsOf
  <2> QED
    BY <2>1 DEF Due, Collection, AllSurfaced
<1> QED
  BY <1>1, CollectionStarts, CollectionKept, PTL DEF ReaderSpec

\* False from Next means the end of the body, and Err tells a clean one from
\* one cut off or with a line too long, and goes on telling it.
THEOREM EndsTold == ReaderSpec => []EndTold
<1>1. ReaderInit => ReaderInv
  BY DEF ReaderInit, ReaderInv
<1>2. ReaderInv => EndTold
  BY DEF ReaderInv, Verdict, EndTold
<1> QED
  BY <1>1, <1>2, ReaderStepHolds, PTL DEF ReaderSpec
=============================================================================
