---------------------------- MODULE NormalizeName ----------------------------
(***************************************************************************)
(* to_underscored_name (src/tally/utility/normalize_name.cc): the          *)
(* normalisation Variable::expose_impl applies to every requested name.    *)
(* A string is a sequence of character codes; `out` is the string the     *)
(* result is appended to, as in the code.                                  *)
(***************************************************************************)
EXTENDS Naturals, Sequences

US == 95                                   \* '_'
IsUpper(c) == c \in 65 .. 90               \* isupper
IsLower(c) == c \in 97 .. 122
IsAlpha(c) == IsUpper(c) \/ IsLower(c)     \* isalpha
IsDigit(c) == c \in 48 .. 57               \* isdigit
ToLower(c) == c - 65 + 97                  \* *p - 'A' + 'a'

\* back_char: the last character of a string.
BackChar(s) == s[Len(s)]

\* A loop body that also splits runs of upper case letters (RPCTest would
\* become r_p_c_test).
PushCharSplitRuns(out, src, i) ==
    LET c == src[i]
    IN CASE IsAlpha(c) /\ c < 97 ->
              (IF i # 1 /\ BackChar(out) # US
                 THEN Append(out, US) ELSE out) \o <<ToLower(c)>>
         [] IsAlpha(c) \/ IsDigit(c) -> Append(out, c)
         [] out = <<>> \/ BackChar(out) # US -> Append(out, US)
         [] OTHER -> out


(***************************************************************************)
(* One iteration of the loop, at position i of src: an upper case letter   *)
(* is lowered and preceded by '_' when it follows a character that is not *)
(* upper case and the output does not already end in '_'; lower case      *)
(* letters and digits are copied; any other character becomes one '_'     *)
(* unless the output already ends in '_'.                                  *)
(***************************************************************************)
PushChar(out, src, i) ==
    LET c == src[i]
    IN CASE IsAlpha(c) /\ c < 97 ->
              (IF i # 1 /\ ~IsUpper(src[i - 1]) /\ BackChar(out) # US
                 THEN Append(out, US) ELSE out) \o <<ToLower(c)>>
         [] IsAlpha(c) \/ IsDigit(c) -> Append(out, c)
         [] out = <<>> \/ BackChar(out) # US -> Append(out, US)
         [] OTHER -> out

RECURSIVE Underscore(_, _, _)
Underscore(out, src, i) ==
    IF i > Len(src) THEN out ELSE Underscore(PushChar(out, src, i), src, i + 1)

\* to_underscored_name(&out, src)
ToUnderscoredName(out, src) == Underscore(out, src, 1)
=============================================================================
