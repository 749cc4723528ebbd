---------------------------- MODULE MCSuffixLinks ----------------------------
(* Small tries for SuffixLinks. *)
EXTENDS SuffixLinks

CONSTANT MaxCodePoints

\* One code point each of one, two and three bytes.
CodePoints == {<<97>>, <<195, 168>>, <<226, 130, 172>>}

Words[n \in 1..MaxCodePoints] ==
  IF n = 1 THEN CodePoints
  ELSE Words[n - 1] \cup {w \o c : w \in Words[n - 1], c \in CodePoints}

\* Sets of up to three keywords: any two of at most MaxCodePoints code points, and
\* one of three that are a short keyword, one with another code point that shares
\* two of its three bytes, and a long one.
SmallKeywordSets ==
  {{w1, w2, w3} : w1, w2 \in Words[MaxCodePoints], w3 \in {<<97>>, <<226, 130, 173, 97>>, <<195, 168, 226, 130, 172, 97>>}}
=============================================================================
