------------------------------- MODULE MCRows -------------------------------
(* Small instances of Rows for TLC.                                         *)
EXTENDS Rows

Char == {"a", Comma, Quote, Return}
MCNumber == {"-1", "5", "1.23457e+06", "1234567.8"}
MCNegative == {"-1"}
MCPrinted(n) == IF n = "1234567.8" THEN "1.23457e+06" ELSE n
MCRedacted == <<"REDACTED">>

P(id, name, price) == [id |-> id, name |-> name, price |-> price, stock |-> "5"]

\* One product with any fields of up to three and two characters, one with a
\* newline in its fields, and two products with fields that are hard to tell apart.
Ids == BoundedSeq(Char, 2) \ {<<>>}
Singles == {<<P(id, <<"a">>, "1234567.8")>> : id \in BoundedSeq(Char, 3) \ {<<>>}}
    \cup {<<P(<<"a">>, name, "5")>> : name \in BoundedSeq(Char, 3)}
    \cup {<<P(<<"a", Newline, "a">>, <<"a">>, "5")>>}
Pairs == {<<P(a, b, "1234567.8"), P(b, a, "5")>> : a, b \in Ids}
MCListing == {<<>>} \cup Singles \cup {l \in Pairs : l[1].id # l[2].id}
             \cup {<<P(<<"a">>, <<Newline, "a", Comma>>, "5"), P(<<Quote>>, <<"a">>, "5")>>}

Line(chars) == chars \o <<Newline>>
Bodies ==
    { <<>>, <<Newline>>,
      <<"a", Comma, "a", Comma, "5", Comma, "5">>,                        \* no newline at the end
      <<"a", Comma, "a", Comma, "1234567.8", Comma, "5", "a", Newline>>,  \* "5a" is 5
      <<"a", Comma, "a", Comma, "a", Comma, "5", Newline>>,               \* no price
      <<"a", Comma, "a", Comma, "5", Newline>>,                           \* three columns
      <<"a", Comma, "a", Comma, "5", Comma, "5", Comma, Newline>>,        \* five columns
      <<"a", Comma, "a", Comma, "5", Comma, "5", Return, Newline>>,       \* CRLF
      <<"a", Comma, "a", Comma, "-1", Comma, "5", Newline>>,
      <<Comma, "a", Comma, "5", Comma, "5", Newline>>,
      <<Quote, "a", Quote, Comma, Quote, Newline, Quote, Comma, "5", Comma, "5", Newline>> }
Second == {<<>>, <<"a", Comma, "a", Comma, "5", Comma, "5", Newline>>,
           <<Quote, "a", Quote, Quote, Quote, Comma, Comma, "5", Comma, "5", Newline>>}
MCForeign == {Header \o a \o b : a \in Bodies, b \in Second}
=============================================================================
