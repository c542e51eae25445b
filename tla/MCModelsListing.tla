-------------------------- MODULE MCModelsListing --------------------------
(* ModelsListing on a small instance: catalogues of up to three pages that    *)
(* end, name their last page twice, or lead back to an earlier one; entries   *)
(* without an id and an empty page among them.                                *)
EXTENDS ModelsListing, TLC

MCDefaultPolicy == [maxRetries |-> 1, baseDelay |-> 1, maxDelay |-> 1, retryAfterCap |-> 1]

MCRetryOptions == {-1, 0, 2}

MCDelayOptions == {<<0, 0>>}

MCOutcomes == {HttpError(503, 0), HttpError(404, 0), AdapterError("server")}

Entry(id, prefixed) == [id |-> id, prefixed |-> prefixed]

One   == <<Entry("a", TRUE), Entry("", FALSE), Entry("b", FALSE), Entry("", TRUE)>>
Two   == <<Entry("c", TRUE)>>
Three == <<>>

MCCatalogues ==
  ("oai"       :> {[pages |-> <<One>>, last |-> 0], [pages |-> <<Three>>, last |-> 0]}) @@
  ("gemini"    :> [pages : {<<One>>, <<One, Two>>, <<Two, Three, One>>}, last : {0, 1}]
                    \cup {[pages |-> <<One, Two>>, last |-> 2],
                          [pages |-> <<Two, Three, One>>, last |-> 2],
                          [pages |-> <<Two, Three, One>>, last |-> 3]}) @@
  ("anthropic" :> {[pages |-> <<One, Two>>, last |-> 0], [pages |-> <<Two, One>>, last |-> 2]})
=============================================================================
