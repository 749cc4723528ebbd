------------------------------- MODULE MCProbe -------------------------------
(* What the runs of Probe join. *)
EXTENDS Probe

CONSTANTS MaxPattern, MaxText

A   == <<97>>
B   == <<98>>
E   == <<195, 169>>         \* one code point of two bytes
Pct == <<PERCENTAGE>>
Und == <<UNDERSCORE>>
Esc == <<33>>

\* Every string of at most n of the given pieces.
Strings(pieces, n) ==
  LET upTo[k \in 0..n] ==
        IF k = 0 THEN {<< >>}
        ELSE LET shorter == upTo[k - 1]
             IN  shorter \cup {s \o piece : s \in shorter, piece \in pieces}
  IN  upTo[n]

Join(patterns, rows) == [patterns |-> patterns, escape |-> NoEscape, texts |-> rows]

\* One pattern, one row: every pattern and every text up to a length, once with
\* letters of one and of two bytes, once with longer patterns of one letter, whose
\* literals are found at many offsets at once, and once with escaped wildcards.
TwoWidths ==
  {Join(<<p>>, <<t>>) : p \in Strings({A, E, Pct, Und}, MaxPattern),
                        t \in Strings({A, E}, MaxText)}
OneLetter ==
  {Join(<<p>>, <<t>>) : p \in Strings({A, Pct, Und}, MaxPattern + 2),
                        t \in Strings({A, B}, MaxText)}
Escaped ==
  {[patterns |-> <<p>>, escape |-> 33, texts |-> <<t>>] :
     p \in Strings({A, Pct, Und, Esc \o Pct, Esc \o Und}, MaxPattern),
     t \in Strings({A, Pct, Und}, MaxText - 2)}

\* Patterns that share literals and nest them, on every two rows of some letters.
Shared ==
  << Pct \o A,                          \* %a
     A \o E \o Und \o A \o Pct,          \* aé_a%
     Pct \o A \o E \o A,                \* %aéa
     Und \o E \o Pct \o A,              \* _é%a
     Pct \o E \o Und \o Und \o E,       \* %é__é
     Und \o Pct >>                      \* _%
Nested ==
  << Pct \o A \o A \o A \o E \o Pct, Pct \o A \o A \o Und \o A, A \o Und \o A \o Pct \o E >>

ManyPatterns ==
  {Join(ps, <<t1, t2>>) : ps \in {Shared, Nested}, t1, t2 \in Strings({A, E}, MaxText - 1)}

\* Patterns with a literal at the last offset there is, U16Size - 1.
Widest ==
  {Join(<<p>>, <<t>>) :
     p \in {A \o Und \o A \o Pct \o A \o A \o Und \o A,    \* a_a%aa_a
            E \o Und \o E \o Und \o Und \o A,              \* é_é__a
            Pct \o A \o Und \o Pct \o E \o Und \o A,       \* %a_%é_a
            Und \o E \o Pct \o E \o Und \o A \o Pct},      \* _é%é_a%
     t \in Strings({A, E}, MaxText + 2)}

AllInputs == {TwoWidths, OneLetter, Escaped, ManyPatterns, Widest}

\* One pattern and one row each.
CapacityInput ==   \* %a_aaaaa on aaaaaaa
  {{Join(<<Pct \o A \o Und \o A \o A \o A \o A \o A>>, <<A \o A \o A \o A \o A \o A \o A>>)}}
EscapedEscapeInput ==   \* %!!% on a!b
  {{[patterns |-> <<Pct \o Esc \o Esc \o Pct>>, escape |-> 33, texts |-> <<A \o Esc \o B>>]}}
EscapedRunInput ==   \* !!!!!!a_b on !!!aab
  {{[patterns |-> <<Esc \o Esc \o Esc \o Esc \o Esc \o Esc \o A \o Und \o B>>, escape |-> 33,
    texts |-> <<Esc \o Esc \o Esc \o A \o A \o B>>]}}
=============================================================================
