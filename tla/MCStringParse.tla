------------------------------ MODULE MCStringParse ------------------------------
(***************************************************************************)
(* Instances of StringParse: strings of a few pieces, at every distance    *)
(* from the borders of a chunk and from the end of the input.              *)
(***************************************************************************)
EXTENDS StringParse

CONSTANTS
    PieceCount,     \* the pieces of a string
    TailLength      \* the bytes that follow it

Letter == 97

\* \u and four hex digits.
Unicode(a, b, c, d) == <<Backslash, LetterU, a, b, c, d>>

PlainPieces == {<<Letter>>, <<Letter, Letter, Letter, Letter>>, <<195, 169>>,
                <<Backslash, 110>>, <<Backslash, Backslash>>, <<Backslash, Quote>>}

Escapes == {Unicode(48, 48, 52, 49),                                \* 0041
            Unicode(48, 48, 101, 57),                               \* 00e9
            Unicode(50, 48, 65, 67),                                \* 20AC
            Unicode(68, 56, 51, 68) \o Unicode(68, 69, 48, 48)}     \* D83D DE00

Malformed == {<<Backslash, 120>>,                                   \* \x
              Unicode(48, 48, 52, 103),                             \* 004g
              <<Backslash, LetterU>>,                               \* \u
              <<Backslash, LetterU, 48>>,                           \* \u0
              Unicode(68, 56, 51, 68),                              \* D83D alone
              Unicode(68, 67, 48, 48),                              \* DC00 alone
              Unicode(68, 56, 51, 68) \o Unicode(69, 48, 48, 48)}   \* D83D E000

Strings(Pieces, n) ==
    LET s[m \in 0..n] == IF m = 0 THEN {<< >>}
                         ELSE s[m - 1] \union {t \o p : t \in s[m - 1], p \in Pieces}
    IN  s[n]

Tails == UNION {[1..n -> {Letter, Quote}] : n \in 0..TailLength}

Inputs(strings_) == {<<Quote>> \o s \o <<Quote>> \o tail : s \in strings_, tail \in Tails}

MCTexts == Inputs(Strings(PlainPieces \union Escapes \union Malformed, PieceCount))

\* Strings with a low surrogate that follows no high one.
LoneSurrogates == Inputs(Strings({<<Letter>>, Unicode(68, 67, 48, 48)}, PieceCount))
=================================================================================
