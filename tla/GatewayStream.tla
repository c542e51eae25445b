--------------------------- MODULE GatewayStream ---------------------------
(***************************************************************************)
(* One streaming chat request in the gateway (gateway/server.go): the      *)
(* handler's event loop and the heartbeat goroutine share a ResponseWriter *)
(* that is valid only until the handler returns, a mutex that serialises   *)
(* their writes, and a client that may stall or leave at any moment. The   *)
(* provider's stream is StreamContract's.                                  *)
(*                                                                         *)
(* A write begins in one step and ends in another, so that overlapping     *)
(* writes are states of the model. Deferred calls run last in, first out.  *)
(***************************************************************************)
EXTENDS StreamContract, FiniteSets, Subsequences

CONSTANTS
  Unmarshalable,  \* content whose payload json.Marshal refuses
  MaxForwarded,   \* bound: events the stream delivers
  MaxBeats        \* bound: keep-alive comments written

ASSUME GatewayAssumption ==
  /\ Unmarshalable \subseteq Content
  /\ MaxForwarded \in Nat /\ MaxBeats \in Nat
  /\ {"error", "keep-alive"} \cap (Content \cup Dones) = {}

VARIABLES
  pc,          \* where the handler is
  ok,          \* what the last writeSSE returned
  beat,        \* where the heartbeat goroutine is; none: HeartbeatInterval is not positive
  doneClosed,  \* startHeartbeat's done channel is closed
  writeMu,     \* who holds the mutex
  client,      \* the other end of the connection
  ctxDone,     \* the request's context
  out          \* what was written to the response, in order

handlerVars == <<pc, ok>>
requestVars == <<contractVars, handlerVars, beat, doneClosed, writeMu, client, ctxDone, out>>

HandlerPCs == {"start", "next", "lock", "marshal", "writing", "unlock",
               "errLock", "errWriting", "errUnlock", "stop", "wait", "close", "returned"}

TypeOK ==
  /\ log \in Seq(Content \cup Dones)
  /\ mode \in {"open", "ended", "failed"}
  /\ closed \in BOOLEAN
  /\ pc \in HandlerPCs
  /\ ok \in BOOLEAN
  /\ beat \in {"none", "created", "select", "lock", "writing", "unlock", "leave", "exited"}
  /\ doneClosed \in IF beat = "none" THEN {FALSE} ELSE BOOLEAN
  /\ writeMu \in {"free", "handler", "beat"}
  /\ client \in {"reading", "stalled", "gone"}
  /\ ctxDone \in BOOLEAN
  /\ out \in Seq(Content \cup Dones \cup {"error", "keep-alive"})

\* The provider has accepted the request; nothing has been written.
RequestInit ==
  /\ ContractInit
  /\ pc = "start"
  /\ ok = TRUE
  /\ beat \in {"none", "created"}
  /\ doneClosed = FALSE
  /\ writeMu = "free"
  /\ client = "reading"
  /\ ctxDone = FALSE
  /\ out = <<>>

-----------------------------------------------------------------------------
(* The mutex.                                                              *)

Lock(who)   == writeMu = "free" /\ writeMu' = who
Unlock(who) == writeMu = who /\ writeMu' = "free"

\* A write that ends was taken by the connection's buffers, which may happen
\* after the client has left too, or found it gone.
WriteSucceeds(frame) == out' = Append(out, frame)
WriteFails           == client = "gone" /\ UNCHANGED out

-----------------------------------------------------------------------------
(* The handler.                                                            *)

\* Headers are sent and flushed before the heartbeat is started.
Begin ==
  /\ pc = "start"
  /\ pc' = "next"
  /\ beat' = IF beat = "created" THEN "select" ELSE "none"
  /\ UNCHANGED <<contractVars, ok, doneClosed, writeMu, client, ctxDone, out>>

NextDelivers(e) ==
  /\ pc = "next"
  /\ Len(log) < MaxForwarded
  /\ Deliver(e)
  /\ pc' = "lock"
  /\ UNCHANGED <<ok, beat, doneClosed, writeMu, client, ctxDone, out>>

\* Mutant: an error frame is sent whether or not there is an error.
NextEndsWithError ==
  /\ pc = "next"
  /\ EndCleanly
  /\ pc' = "errLock"
  /\ UNCHANGED <<ok, beat, doneClosed, writeMu, client, ctxDone, out>>

NextEnds ==
  /\ pc = "next"
  /\ EndCleanly
  /\ pc' = "stop"
  /\ UNCHANGED <<ok, beat, doneClosed, writeMu, client, ctxDone, out>>

NextFails ==
  /\ pc = "next"
  /\ EndFailed
  /\ pc' = "errLock"
  /\ UNCHANGED <<ok, beat, doneClosed, writeMu, client, ctxDone, out>>

LockForEvent ==
  /\ pc = "lock"
  /\ Lock("handler")
  /\ pc' = "marshal"
  /\ UNCHANGED <<contractVars, ok, beat, doneClosed, client, ctxDone, out>>

\* writeSSE, first half: a payload json.Marshal refuses is not written at all.
MarshalEvent ==
  /\ pc = "marshal"
  /\ IF log[Len(log)] \in Unmarshalable
       THEN pc' = "unlock" /\ ok' = FALSE
       ELSE pc' = "writing" /\ UNCHANGED ok
  /\ UNCHANGED <<contractVars, beat, doneClosed, writeMu, client, ctxDone, out>>

\* writeSSE, second half.
WriteEvent ==
  /\ pc = "writing"
  /\ \/ WriteSucceeds(log[Len(log)]) /\ ok' = TRUE
     \/ WriteFails /\ ok' = FALSE
  /\ pc' = "unlock"
  /\ UNCHANGED <<contractVars, beat, doneClosed, writeMu, client, ctxDone>>

\* Mutant: the early return comes before the unlock.
UnlockAfterEventLeaking ==
  /\ pc = "unlock"
  /\ IF ok THEN Unlock("handler") /\ pc' = "next" ELSE UNCHANGED writeMu /\ pc' = "stop"
  /\ UNCHANGED <<contractVars, ok, beat, doneClosed, client, ctxDone, out>>

UnlockAfterEvent ==
  /\ pc = "unlock"
  /\ Unlock("handler")
  /\ pc' = IF ok THEN "next" ELSE "stop"
  /\ UNCHANGED <<contractVars, ok, beat, doneClosed, client, ctxDone, out>>

\* The stream failed: its error rides the stream, under the same lock.
LockForError ==
  /\ pc = "errLock"
  /\ Lock("handler")
  /\ pc' = "errWriting"
  /\ UNCHANGED <<contractVars, ok, beat, doneClosed, client, ctxDone, out>>

\* Mutant: the error is logged and the client left without a terminal frame.
WriteErrorNot ==
  /\ pc = "errWriting"
  /\ pc' = "errUnlock"
  /\ UNCHANGED <<contractVars, ok, beat, doneClosed, writeMu, client, ctxDone, out>>

WriteErrorFrame ==
  /\ pc = "errWriting"
  /\ WriteSucceeds("error") \/ WriteFails
  /\ pc' = "errUnlock"
  /\ UNCHANGED <<contractVars, ok, beat, doneClosed, writeMu, client, ctxDone>>

\* The deferred unlock, which runs before the heartbeat is stopped.
UnlockAfterError ==
  /\ pc = "errUnlock"
  /\ Unlock("handler")
  /\ pc' = "stop"
  /\ UNCHANGED <<contractVars, ok, beat, doneClosed, client, ctxDone, out>>

StopBeat ==
  /\ pc = "stop"
  /\ doneClosed' = (beat # "none")
  /\ pc' = "wait"
  /\ UNCHANGED <<contractVars, ok, beat, writeMu, client, ctxDone, out>>

\* Mutant: the heartbeat is told to stop and not waited for.
AwaitBeatNot ==
  /\ pc = "wait"
  /\ pc' = "close"
  /\ UNCHANGED <<contractVars, ok, beat, doneClosed, writeMu, client, ctxDone, out>>

\* The response may not be touched after the handler: wait for the goroutine.
AwaitBeat ==
  /\ pc = "wait"
  /\ beat \in {"none", "exited"}
  /\ pc' = "close"
  /\ UNCHANGED <<contractVars, ok, beat, doneClosed, writeMu, client, ctxDone, out>>

\* Mutant: nothing closes the upstream.
CloseUpstreamNot ==
  /\ pc = "close"
  /\ pc' = "returned"
  /\ UNCHANGED <<contractVars, ok, beat, doneClosed, writeMu, client, ctxDone, out>>

CloseUpstream ==
  /\ pc = "close"
  /\ Release
  /\ pc' = "returned"
  /\ UNCHANGED <<ok, beat, doneClosed, writeMu, client, ctxDone, out>>

-----------------------------------------------------------------------------
(* The heartbeat.                                                          *)

Beats == Cardinality({i \in DOMAIN out : out[i] = "keep-alive"})

\* select picks any ready case; the ticker's can be ready together with others.
BeatStops ==
  /\ beat = "select"
  /\ doneClosed \/ ctxDone
  /\ beat' = "exited"
  /\ UNCHANGED <<contractVars, handlerVars, doneClosed, writeMu, client, ctxDone, out>>

BeatTicks ==
  /\ beat = "select"
  /\ Beats < MaxBeats
  /\ beat' = "lock"
  /\ UNCHANGED <<contractVars, handlerVars, doneClosed, writeMu, client, ctxDone, out>>

BeatLocks ==
  /\ beat = "lock"
  /\ Lock("beat")
  /\ beat' = "writing"
  /\ UNCHANGED <<contractVars, handlerVars, doneClosed, client, ctxDone, out>>

BeatWrites ==
  /\ beat = "writing"
  /\ \/ WriteSucceeds("keep-alive") /\ beat' = "unlock"
     \/ WriteFails /\ beat' = "leave"
  /\ UNCHANGED <<contractVars, handlerVars, doneClosed, writeMu, client, ctxDone>>

BeatUnlocks ==
  /\ beat \in {"unlock", "leave"}
  /\ Unlock("beat")
  /\ beat' = IF beat = "leave" THEN "exited" ELSE "select"
  /\ UNCHANGED <<contractVars, handlerVars, doneClosed, client, ctxDone, out>>

-----------------------------------------------------------------------------
(* The client, and net/http's watch on it.                                 *)

ClientChanges ==
  /\ client # "gone"
  /\ client' \in {"reading", "stalled", "gone"} \ {client}
  /\ UNCHANGED <<contractVars, handlerVars, beat, doneClosed, writeMu, ctxDone, out>>

\* The request's context ends when its connection does, or when the server
\* closes the connection at the end of its grace period: gone, to both.
ContextEnds ==
  /\ client = "gone"
  /\ ~ ctxDone
  /\ ctxDone' = TRUE
  /\ UNCHANGED <<contractVars, handlerVars, beat, doneClosed, writeMu, client, out>>

NextReturns ==
  \/ \E e \in Content \cup Dones : NextDelivers(e)
  \/ NextEnds
  \/ NextFails

HandlerWrites == WriteEvent \/ WriteErrorFrame

HandlerRuns ==
  \/ Begin \/ MarshalEvent \/ UnlockAfterEvent \/ UnlockAfterError
  \/ StopBeat \/ AwaitBeat \/ CloseUpstream

HandlerLocks == LockForEvent \/ LockForError

RequestNext ==
  \/ HandlerRuns \/ NextReturns \/ HandlerLocks \/ HandlerWrites
  \/ BeatStops \/ BeatTicks \/ BeatLocks \/ BeatWrites \/ BeatUnlocks
  \/ ClientChanges \/ ContextEnds

RequestSpec == RequestInit /\ [][RequestNext]_requestVars

(***************************************************************************)
(* Fairness: both goroutines run; a mutex that is released again and again *)
(* is handed to whoever waits (sync.Mutex's starvation mode); a write ends *)
(* unless its client stalls; net/http notices a client that left, and a    *)
(* stream bound to a context that ended answers its Next. No provider owes *)
(* an event, no tick must come, and a client may stall for ever.           *)
(***************************************************************************)
Fairness ==
  /\ WF_requestVars(HandlerRuns)
  /\ WF_requestVars(BeatStops)
  /\ WF_requestVars(BeatUnlocks)
  /\ SF_requestVars(HandlerLocks)
  /\ SF_requestVars(BeatLocks)
  /\ WF_requestVars(client # "stalled" /\ HandlerWrites)
  /\ WF_requestVars(client # "stalled" /\ BeatWrites)
  /\ WF_requestVars(ContextEnds)
  /\ WF_requestVars(ctxDone /\ NextReturns)

FairRequestSpec == RequestSpec /\ Fairness

-----------------------------------------------------------------------------
(* Properties.                                                             *)

HandlerWriting == pc \in {"writing", "errWriting"}
BeatWriting    == beat = "writing"

\* A comment never lands inside a data frame, and nobody touches the response
\* once the handler has returned: at most one goroutine is writing, it holds
\* the mutex, and the heartbeat is gone before the handler is.
ResponseExclusive ==
  /\ ~ (HandlerWriting /\ BeatWriting)
  /\ HandlerWriting => writeMu = "handler"
  /\ BeatWriting => writeMu = "beat"
  /\ pc \in {"close", "returned"} => beat \in {"none", "exited"} /\ writeMu = "free"

\* Who holds the mutex is where the two goroutines are, and the heartbeat's
\* life lies within the handler's: what makes ResponseExclusive inductive.
MutexInvariant ==
  /\ writeMu = "handler" <=> pc \in {"marshal", "writing", "unlock", "errWriting", "errUnlock"}
  /\ writeMu = "beat" <=> beat \in {"writing", "unlock", "leave"}
  /\ beat = "created" => pc = "start"
  /\ pc = "start" => beat \in {"none", "created"}
  /\ pc \in {"close", "returned"} => beat \in {"none", "exited"}

\* The frames that are not comments.
Forwarded == Among(out, Content \cup Dones \cup {"error"})

\* The client reads what the provider sent: the data frames are the stream's
\* events in order and without a gap, then at most one error frame, and that
\* only for a stream that failed.
ForwardedInOrder ==
  \E n \in 0 .. Len(log) :
    \/ Forwarded = SubSeq(log, 1, n)
    \/ n = Len(log) /\ mode = "failed" /\ Forwarded = Append(log, "error")

\* The last frame of the response, which comments may follow, is f.
LastFrame(f) ==
  \E i \in DOMAIN out : out[i] = f /\ \A j \in DOMAIN out : j > i => out[j] = "keep-alive"

NotEncodable == log # <<>> /\ log[Len(log)] \in Unmarshalable

\* A client that stays is never left guessing: when the handler returns, the last
\* frame it was sent is a done or an error frame, unless an event could not be
\* encoded.
TerminalFrameSent ==
  pc = "returned" /\ client # "gone" =>
    NotEncodable \/ \E f \in Dones \cup {"error"} : LastFrame(f)

\* The upstream is released exactly when the handler leaves, on every path out:
\* not while its events are still read, and not never (stream.Close reports
\* the stream to the hooks as well, see ObservedStream).
UpstreamReleased == closed <=> pc = "returned"

\* When the client leaves, or the provider is done with the stream, the handler
\* returns, and its goroutine and the paid request with it, whoever holds the
\* mutex and wherever the handler waits; unless a client that stays keeps it in
\* a write. A client that is gone stays gone, so a hang-up always returns.
HandlerReturns == (client = "gone" \/ mode # "open") ~> (pc = "returned" \/ client = "stalled")
=============================================================================
