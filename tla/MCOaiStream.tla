---------------------------- MODULE MCOaiStream ----------------------------
(* OaiStream on a small instance: every kind of record, chunks that carry     *)
(* several things at once, two interleaved calls and one that gets no name.   *)
EXTENDS OaiStream

Frag(idx, id, name, args) == [idx |-> idx, id |-> id, name |-> name, args |-> args]

Chunk(u, finish, tools, text) ==
  [kind |-> "chunk", usage |-> u, choice |-> TRUE, finish |-> finish,
   tools |-> tools, text |-> text]

MCFrames == {
  [kind |-> "skip"], [kind |-> "DONE"], [kind |-> "error"],
  [kind |-> "chunk", usage |-> 2, choice |-> FALSE, finish |-> "", tools |-> <<>>, text |-> ""],
  Chunk(0, "", <<>>, "a"),
  Chunk(1, "length", <<>>, "b"),
  Chunk(0, "tool_calls", <<>>, ""),
  Chunk(0, "", <<Frag(0, "c0", "f", <<>>)>>, ""),
  Chunk(0, "", <<Frag(1, "c1", "g", <<"{">>), Frag(0, "", "", <<"x">>)>>, ""),
  Chunk(0, "", <<Frag(1, "", "", <<"}">>)>>, "")}
=============================================================================
