---------------------------- MODULE MCSseReader ----------------------------
(* SseReader on a small instance: the lines that decide something, with two   *)
(* values to tell apart, an empty one and one that starts with two spaces.    *)
EXTENDS SseReader, TLC

Line(field, value) == [field |-> field, colon |-> TRUE, value |-> value]

MCLines == {
  [field |-> "", colon |-> FALSE, value |-> <<>>], Line("", <<" ", "x">>),
  Line("event", <<" ", "x">>), Line("data", <<" ", " ", "x">>), Line("data", <<"y">>),
  Line("data", <<>>), [field |-> "data", colon |-> FALSE, value |-> <<>>],
  Line("id", <<" ", "x">>)}
=============================================================================
