-------------------------- MODULE MCObservedStream --------------------------
(* ObservedStream and Telemetry on a small instance: every type of content,  *)
(* done events with and without usage and stop reason, and up to two attempts *)
(* that fail in every way the hook tells apart.                              *)
EXTENDS Telemetry, TLC

CONSTANTS t1, t2, k, c1, c2, none, nil, u

MCContent == {[type |-> "text", body |-> t1], [type |-> "text", body |-> t2],
              [type |-> "thinking", body |-> k],
              [type |-> "tool", body |-> c1], [type |-> "tool", body |-> c2]}

MCDones == {[type |-> "done", usage |-> u, stop |-> "end_turn"],
            [type |-> "done", usage |-> u, stop |-> "unknown"],
            [type |-> "done", usage |-> nil, stop |-> ""]}

MCCounts == (u :> [input |-> 2, output |-> 0]) @@ (none :> [input |-> 0, output |-> 0])

MCFailures == {[kind |-> "server", cause |-> "deadline"], [kind |-> "none", cause |-> "canceled"],
               [kind |-> "none", cause |-> "deadline"], [kind |-> "none", cause |-> "none"]}
=============================================================================
