-------------------------- MODULE MCAnthropicStream --------------------------
(* AnthropicStream on a small instance: every kind of event, blocks of every  *)
(* type, deltas with and without a piece, and two stop reasons.               *)
EXTENDS AnthropicStream

Delta(type, piece) == [kind |-> "delta", type |-> type, piece |-> piece]
Block(type, id)    == [kind |-> "block", type |-> type, id |-> id, name |-> "f"]

MCEvents == {
  [kind |-> "other"],
  [kind |-> "start", usage |-> [input |-> 1, output |-> 0, cacheRead |-> 2, cacheWrite |-> 4]],
  Block("text", ""), Block("tool", "c0"), Block("tool", "c1"),
  Delta("text", "a"), Delta("thinking", "b"), Delta("tool", ""), Delta("tool", "x"),
  [kind |-> "stop", stop |-> "tool_use", output |-> 3],
  [kind |-> "stop", stop |-> "pause_turn", output |-> 5]}
=============================================================================
