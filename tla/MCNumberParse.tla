------------------------------ MODULE MCNumberParse ------------------------------
(***************************************************************************)
(* Instances of NumberParse: integers around every power the word and the  *)
(* digit counts meet, with and without sign, fraction, exponent and a      *)
(* proper end.  Words of 17 bits hold every number of 5 digits, signed     *)
(* ones every number of 4.                                                 *)
(***************************************************************************)
EXTENDS NumberParse

\* Decimal digits, as characters.
Numeral(n) ==
    LET f[m \in 0..n] == IF m < 10 THEN <<48 + m>> ELSE f[m \div 10] \o <<48 + (m % 10)>> IN f[n]

Around(n, distance) == (n - distance)..(n + distance)

WholeNumbers ==
    0..12 \union Around(99, 2) \union Around(999, 2) \union Around(9999, 2)
    \union Around(65536, 3) \union Around(99999, 2) \union Around(131072, 10)
    \union Around(262144, 4) \union Around(655360, 3) \union Around(999999, 2)

Wholes == {Numeral(n) : n \in WholeNumbers} \union {<<48, 49>>, <<48, 48, 48, 48, 49>>, << >>}

Fractions ==
    {<< >>, <<Point>>, <<Point, 48>>, <<Point, 53>>, <<Point, 48, 55>>,
     <<Point, 49, 50, 53>>, <<Point, 48, 48, 49, 120>>}

Exponents ==
    {<< >>, <<101>>, <<101, 48>>, <<69, Plus, 49>>, <<101, Minus, 50>>, <<101, Minus>>,
     <<101, 51, 48, 56>>, <<101, 51, 48, 57>>, <<101, Minus, 51, 48, 56>>, <<101, 48, 48, 48, 49>>}

Ends == {<< >>, <<44, 49>>, <<120>>}

MCNumberTexts ==
    {t \in {s \o w \o f \o e \o x :
              s \in {<< >>, <<Minus>>}, w \in Wholes, f \in Fractions, e \in Exponents, x \in Ends} :
        t # << >> /\ t[1] \in {Minus} \union 48..57}

\* Long integer parts with a fraction.
LongFloats == {Numeral(n) \o <<Point, 53>> : n \in Around(131072, 40)}
=================================================================================
