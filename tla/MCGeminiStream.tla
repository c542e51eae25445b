--------------------------- MODULE MCGeminiStream ---------------------------
(* GeminiStream on a small instance: every kind of record, and candidates    *)
(* with no part, one, several, one that says nothing, and calls among text.  *)
EXTENDS GeminiStream

Text(t) == [call |-> "", text |-> t]
Call(n) == [call |-> n, text |-> ""]

Chunk(u, finish, parts) ==
  [kind |-> "chunk", usage |-> u, candidate |-> TRUE, finish |-> finish, parts |-> parts]

MCFrames == {
  [kind |-> "skip"], [kind |-> "error"],
  [kind |-> "chunk", usage |-> 2, candidate |-> FALSE, finish |-> "", parts |-> <<>>],
  Chunk(0, "", <<Text("a"), Call("f"), Text("b")>>),
  Chunk(1, "", <<Call("g"), Text("")>>),
  Chunk(0, "", <<Text("")>>),
  Chunk(0, "STOP", <<>>),
  Chunk(3, "MAX_TOKENS", <<Text("c")>>),
  Chunk(0, "SAFETY", <<Call("h"), Text("d")>>)}
=============================================================================
