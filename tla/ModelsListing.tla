--------------------------- MODULE ModelsListing ---------------------------
(***************************************************************************)
(* Client.Models with the adapters' Models inside its attempts: an attempt *)
(* fetches the provider's catalogue of models, page after page where the   *)
(* provider has pages, and any of the requests may fail, be cut off by the *)
(* attempt's deadline, or by the caller. The steps of the call are         *)
(* Client's; what they do to the listing is conjoined here.                *)
(*                                                                         *)
(* Gemini's pages are followed by the adapter and Anthropic's by the SDK,  *)
(* which is external; the other hosts have one page.                       *)
(***************************************************************************)
EXTENDS Client, SequencesExt

CONSTANTS
  Catalogues,  \* what each provider may have on offer
  MaxPages     \* bound: pages fetched in one attempt

(***************************************************************************)
(* A catalogue is its pages, each a sequence of entries, and the page its  *)
(* last one names as the next, 0 for none. Every other page names the next *)
(* one. A page's token is its number; 0 asks for the first. An entry is    *)
(* its id, "" if it has none or cannot be decoded, and whether the host    *)
(* puts "models/" before it.                                               *)
(***************************************************************************)
Entries == [id : STRING, prefixed : BOOLEAN]

ASSUME ListingAssumption ==
  /\ MaxPages \in Nat
  /\ \A p \in DOMAIN Catalogues : \A c \in Catalogues[p] :
       /\ c.pages \in Seq(Seq(Entries))
       /\ Len(c.pages) \in 1 .. MaxPages
       /\ c.last \in 0 .. Len(c.pages)
       /\ p = "oai" => Len(c.pages) = 1

VARIABLES
  provider,   \* whose adapter the client has: oai, gemini, anthropic
  catalogue,  \* what it has on offer
  token,      \* pageToken
  fetched,    \* out, and how many pages are in it
  models      \* what Models returned, <<>> unless it succeeded

listing == <<provider, catalogue, token, fetched, models>>

allVars == <<vars, listing>>

Nothing == [out |-> <<>>, pages |-> 0]

ListingInit ==
  /\ Init
  /\ op = "models"
  /\ provider \in DOMAIN Catalogues
  /\ catalogue \in Catalogues[provider]
  /\ token = 0
  /\ fetched = Nothing
  /\ models = <<>>

-----------------------------------------------------------------------------

Page == IF token = 0 THEN 1 ELSE token

NextToken == IF Page < Len(catalogue.pages) THEN Page + 1 ELSE catalogue.last

\* The SDK hands out every entry; skyl's own readers skip those without a name.
Listable(entry) == provider = "anthropic" \/ entry.id # "" \/ entry.prefixed

\* "models/" is cut off Gemini's names.
ModelInfo(entry) ==
  IF provider # "gemini" /\ entry.prefixed THEN <<"models/", entry.id>> ELSE <<entry.id>>

\* The loop over the entries of a page skips or appends.
Added(entry) == IF Listable(entry) THEN <<ModelInfo(entry)>> ELSE <<>>

WithPage ==
  LET entries == catalogue.pages[Page]
  IN  [out   |-> fetched.out \o FlattenSeq([i \in DOMAIN entries |-> Added(entries[i])]),
       pages |-> fetched.pages + 1]

\* Mutant: a page that names itself is fetched again.
LastPageUnlessToken == provider = "oai" \/ NextToken = 0

\* No further page: none is named, or the one just asked for.
LastPage ==
  \/ provider = "oai"
  \/ NextToken = 0
  \/ provider = "gemini" /\ NextToken = token

\* Mutant: the pages of a failed attempt are kept.
RestartKeepingPages ==
  token' = 0 /\ fetched' = [fetched EXCEPT !.pages = 0] /\ UNCHANGED <<provider, catalogue, models>>

\* Every attempt lists from the first page.
RestartListing == token' = 0 /\ fetched' = Nothing /\ UNCHANGED <<provider, catalogue, models>>

StartListing == (FirstAttempt \/ Wake) /\ RestartListing

\* A page arrives and names another.
PageArrives ==
  /\ pc = "call"
  /\ ~ LastPage
  /\ fetched.pages < MaxPages
  /\ fetched' = WithPage
  /\ token' = NextToken
  /\ UNCHANGED <<vars, provider, catalogue, models>>

\* The last page arrives, and with it Models returns.
LastPageArrives ==
  /\ LastPage
  /\ Succeed
  /\ models' = WithPage.out
  /\ UNCHANGED <<provider, catalogue, token, fetched>>

\* A request for a page fails, and the attempt with it.
PageFails ==
  /\ \E e \in Failures : FailForGood(e) \/ FailAndWait(e) \/ GiveUp(e)
  /\ UNCHANGED listing

\* Time passes, or the caller leaves.
ContextChanges == (AttemptExpires \/ CallerDone) /\ UNCHANGED listing

WaitEnds == StopWaiting /\ UNCHANGED listing

ListingNext ==
  \/ StartListing
  \/ PageArrives \/ LastPageArrives \/ PageFails
  \/ ContextChanges
  \/ WaitEnds

(***************************************************************************)
(* Fairness: Client's, and a host that sends the page it is asked for,     *)
(* unless the request fails before. A listing that has fetched MaxPages    *)
(* stands for one that goes on for ever.                                   *)
(***************************************************************************)
ListingSpec ==
  /\ ListingInit
  /\ [][ListingNext]_allVars
  /\ WF_allVars(StartListing \/ WaitEnds)
  /\ WF_allVars(AttemptExpires /\ UNCHANGED listing)
  /\ WF_allVars(ProviderContextDone /\ PageFails)
  /\ WF_allVars(PageArrives \/ LastPageArrives)

-----------------------------------------------------------------------------
(* Properties.                                                             *)

Named(id) == IF id = "" THEN <<>> ELSE <<id>>

Ids(entries) == FlattenSeq([i \in DOMAIN entries |-> Named(entries[i].id)])

Offered == FlattenSeq([i \in DOMAIN catalogue.pages |-> Ids(catalogue.pages[i])])

Told == FlattenSeq([i \in DOMAIN models |-> Named(Last(models[i]))])

\* A listing that succeeds has every model the provider offers, once and in
\* order, whichever of its pages failed at first and had the attempt begin
\* again; and a catalogue that leads back to an earlier page is never reported
\* as complete. Excepted is a catalogue whose only page names itself, which
\* Models cannot tell from the page before it.
ListingWhole ==
  result = "ok" /\ ~ (Len(catalogue.pages) = 1 /\ catalogue.last = 1) =>
    /\ Told = Offered
    /\ provider # "oai" => catalogue.last \in {0, Len(catalogue.pages)}

\* Pages that lead to an end, for Gemini by naming the last one twice.
EndsByItself ==
  \/ catalogue.last = 0
  \/ provider = "oai"
  \/ provider = "gemini" /\ catalogue.last = Len(catalogue.pages)

\* A listing returns: by itself if the pages lead to an end, and otherwise when
\* the attempts run out of time, or the caller does.
ListingReturns == (EndsByItself \/ timeout > 0 \/ ctxDone) ~> (pc = "returned")
=============================================================================
