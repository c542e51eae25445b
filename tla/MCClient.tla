------------------------------ MODULE MCClient ------------------------------
(* Client on a small instance: options that are ignored as well as applied,  *)
(* and one failure of every class and of every branch of ClassifyStatus.     *)
EXTENDS Client

MCDefaultPolicy == [maxRetries |-> 1, baseDelay |-> 1, maxDelay |-> 2, retryAfterCap |-> 3]

\* -1 keeps the default of one retry; three take the shift past its cap.
MCRetryOptions == {-1, 0, 3}

\* <<0, 0>> keeps the defaults; <<5, 1>> wraps: 5 * 2 is negative in a word of 16.
MCDelayOptions == {<<0, 0>>, <<5, 1>>}

\* The cap may be below, or above, the jitter ceiling.
MCCapOptions == {1, 5}

MCTimeoutOptions == {0, 1}

MCOutcomes ==
  {HttpError(429, 4), HttpError(503, -1), TransportError("api"), Unclassified("bare"),
   HttpError(401, 0), HttpError(400, 0), HttpError(302, 0), TransportError("cert"),
   AdapterError("refusal")}
=============================================================================
