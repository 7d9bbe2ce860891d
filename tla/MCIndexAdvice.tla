---------------------------- MODULE MCIndexAdvice ----------------------------
(***************************************************************************)
(* Instances of IndexAdvice: three indexes over two columns and an         *)
(* expression, and queries on the first column, with a pattern on it, and  *)
(* on the expression and the second column.                                *)
(***************************************************************************)
EXTENDS IndexAdvice

MCNames == 1..3

\* "(lower(a), b)" is read as the one column "lower(a"
MCKeys == {"a", "b", "lower(a)"}
MCClosing == {"lower(a)"}
MCWords == ("a" :> <<"a">>) @@ ("b" :> <<"b">>) @@ ("lower(a)" :> <<"lower(a">>)

\* Equality, and LIKE 'x%', which asks for an operator class
MCKinds == {"equal", "pattern"}

MCWorkload ==
    {[on |-> <<"a">>, asks |-> "equal"], [on |-> <<"a">>, asks |-> "pattern"],
     [on |-> <<"lower(a)", "b">>, asks |-> "equal"]}

Plain(keys) ==
    [keys |-> keys, offers |-> {"equal"}, primary |-> FALSE, unique |-> FALSE,
     partial |-> FALSE, large |-> TRUE]

\* Equal, longer and other keys, a constraint of each kind, a small index; a
\* partial one, expressions, an operator class and an access method
MCDefinitions ==
    {Plain(<<"a">>), Plain(<<"a", "b">>),
     [Plain(<<"a">>) EXCEPT !.large = FALSE],
     [Plain(<<"a">>) EXCEPT !.unique = TRUE],
     [Plain(<<"a">>) EXCEPT !.unique = TRUE, !.primary = TRUE],
     [Plain(<<"a", "b">>) EXCEPT !.unique = TRUE],
     [Plain(<<"a", "b">>) EXCEPT !.partial = TRUE],
     Plain(<<"lower(a)">>), Plain(<<"lower(a)", "b">>),
     [Plain(<<"a">>) EXCEPT !.offers = {"equal", "pattern"}],
     [Plain(<<"a", "b">>) EXCEPT !.offers = {}]}

\* The tickets of one rule of a report are followed
OneRule == {{"R-I2"}, {"R-I3"}}
=============================================================================
