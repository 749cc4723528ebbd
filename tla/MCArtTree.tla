----------------------------- MODULE MCArtTree -----------------------------
(* Small instances of ArtTree: the constants of the runs. *)
EXTENDS ArtTreeRefinement, ArtTreeInductive, ArtTreeLifetime, TLC

CONSTANTS t1, t2, t3

Call(w, aux) == [keyword |-> w, aux |-> aux]

\* Three threads, five keywords: a prefix of another, one that shares two bytes of
\* a code point with it, and one given twice, the second time with its NUL.
Contended ==
  (t1 :> << Call(<<226, 130, 172>>, 10), Call(<<97, 0>>, 11) >>) @@
  (t2 :> << Call(<<97>>, 20), Call(<<226, 130, 172, 97>>, 21) >>) @@
  (t3 :> << Call(<<226, 130, 173>>, 30) >>)
=============================================================================
