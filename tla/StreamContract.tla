--------------------------- MODULE StreamContract ---------------------------
(***************************************************************************)
(* What a skyl.Stream may do, as its consumers see it: the interface of    *)
(* stream.go with the behaviour its adapters give it. Content events are   *)
(* delivered one by one, a done event is the last, the stream ends cleanly *)
(* only after it, and how the stream ended never changes.                  *)
(*                                                                         *)
(* The contract is as weak as the adapters are: a stream may still fail    *)
(* after its done event, because they go on reading the connection when    *)
(* the consumer asks for more, and it may deliver what it had buffered     *)
(* after Close.                                                            *)
(***************************************************************************)
EXTENDS Naturals, Sequences

CONSTANTS
  Content,  \* text, thinking and tool-call events
  Dones     \* done events

ASSUME ContractAssumption == Content \cap Dones = {}

VARIABLES
  log,    \* every event Next returned true for, in order
  mode,   \* open; ended: Next returned false, Err nil; failed: Err not nil
  closed  \* Close was called

contractVars == <<log, mode, closed>>

HasDone == log # <<>> /\ log[Len(log)] \in Dones

ContractInit ==
  /\ log = <<>>
  /\ mode = "open"
  /\ closed = FALSE

\* Next returns true with event e.
Deliver(e) ==
  /\ mode = "open"
  /\ ~ HasDone
  /\ log' = Append(log, e)
  /\ UNCHANGED <<mode, closed>>

\* Next returns false and Err is nil.
EndCleanly ==
  /\ mode = "open"
  /\ HasDone
  /\ mode' = "ended"
  /\ UNCHANGED <<log, closed>>

\* Next returns false and Err is not nil.
EndFailed ==
  /\ mode = "open"
  /\ mode' = "failed"
  /\ UNCHANGED <<log, closed>>

Release ==
  /\ closed' = TRUE
  /\ UNCHANGED <<log, mode>>

ContractNext ==
  \/ \E e \in Content \cup Dones : Deliver(e)
  \/ EndCleanly
  \/ EndFailed
  \/ Release

ContractSpec == ContractInit /\ [][ContractNext]_contractVars
=============================================================================
