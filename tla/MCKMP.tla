-------------------------------- MODULE MCKMP --------------------------------
(* Every pattern and every text of two letters, up to a length. *)
EXTENDS KMP
CONSTANTS Letters, MaxPattern, MaxText

Strings(n) == UNION {[1..k -> Letters] : k \in 0..n}
ShortPatterns == Strings(MaxPattern) \ {<< >>}
ShortTexts    == Strings(MaxText)
=============================================================================
