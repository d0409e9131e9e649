--------------------------- MODULE WildcardMatcher ---------------------------
(***************************************************************************)
(* WildcardMatcher (src/tally/utility/wildcard_matcher.h), the white and  *)
(* black lists of ReportOptions::build_filter (stats_reporter.h).  The wildcards string is   *)
(* split at ',' and ';'; a piece with '*' or the question mark is a       *)
(* wildcard, any other piece an exact name.  match(name) looks the name   *)
(* up among the exact names and then tries wild_cmp with every wildcard. *)
(*                                                                         *)
(* Strings are sequences of character codes.  The wildcards are kept in   *)
(* std::strings, so reading the pattern at its end() yields the           *)
(* terminating NUL: At(s, i) is 0 past the last character.                 *)
(***************************************************************************)
EXTENDS Naturals, Sequences

Star == 42
NUL == 0
Separators == {44, 59}     \* ',' and ';'

At(s, i) == IF i \in 1 .. Len(s) THEN s[i] ELSE NUL

(***************************************************************************)
(* wild_cmp without the final loop that skips trailing '*'s.               *)
(***************************************************************************)
WildCmpNoTrailingStars(wild, str, qm) ==
    LET RECURSIVE Prefix(_, _), Scan(_, _, _, _)
        Prefix(w, s) ==
            IF s <= Len(str) /\ At(wild, w) # Star
              THEN (At(wild, w) = str[s] \/ At(wild, w) = qm) /\ Prefix(w + 1, s + 1)
              ELSE Scan(w, s, 0, 0)
        Scan(w, s, mp, cp) ==
            CASE s > Len(str) -> w = Len(wild) + 1
              [] At(wild, w) = Star ->
                   w + 1 = Len(wild) + 1 \/ Scan(w + 1, s, w + 1, s + 1)
              [] At(wild, w) = str[s] \/ At(wild, w) = qm -> Scan(w + 1, s + 1, mp, cp)
              [] OTHER -> Scan(mp, cp, mp, cp + 1)
    IN Prefix(1, 1)

(***************************************************************************)
(* wild_cmp(wild, str, question_mark).  Prefix is the first loop (compare *)
(* up to the first '*'), Scan the second (mp, cp remember the position    *)
(* after the last '*' and the next place of str to retry from), and       *)
(* Trailing the last loop, which skips '*'s and asks for the pattern's    *)
(* end.  w and s are 1-based positions; Len + 1 is end().                 *)
(***************************************************************************)
WildCmp(wild, str, qm) ==
    LET RECURSIVE Prefix(_, _), Scan(_, _, _, _), Trailing(_)
        Prefix(w, s) ==
            IF s <= Len(str) /\ At(wild, w) # Star
              THEN (At(wild, w) = str[s] \/ At(wild, w) = qm) /\ Prefix(w + 1, s + 1)
              ELSE Scan(w, s, 0, 0)
        Scan(w, s, mp, cp) ==
            CASE s > Len(str) -> Trailing(w)
              [] At(wild, w) = Star ->
                   w + 1 = Len(wild) + 1 \/ Scan(w + 1, s, w + 1, s + 1)
              [] At(wild, w) = str[s] \/ At(wild, w) = qm -> Scan(w + 1, s + 1, mp, cp)
              [] OTHER -> Scan(mp, cp, mp, cp + 1)
        Trailing(w) ==
            IF At(wild, w) = Star THEN Trailing(w + 1) ELSE w = Len(wild) + 1
    IN Prefix(1, 1)

\* turbo::str_split(wildcards, turbo::ByAnyChar(",;")), empty pieces kept.
SplitAny(s) ==
    LET RECURSIVE Go(_, _, _)
        Go(i, piece, acc) ==
            CASE i > Len(s) -> Append(acc, piece)
              [] s[i] \in Separators -> Go(i + 1, <<>>, Append(acc, piece))
              [] OTHER -> Go(i + 1, Append(piece, s[i]), acc)
    IN Go(1, <<>>, <<>>)

\* name.find_first_of({'*', question_mark, '\0'}): the C string stops at
\* the question mark if that is NUL.
HasWildcard(name, qm) ==
    \E i \in 1 .. Len(name) : name[i] = Star \/ (qm # NUL /\ name[i] = qm)

\* The constructor: nothing for an empty string; otherwise every piece goes
\* to _wcs (in order) or to _exact.
Matcher(wildcards, qm, onBothEmpty) ==
    LET pieces == IF wildcards = <<>> THEN <<>> ELSE SplitAny(wildcards)
    IN [wcs |-> SelectSeq(pieces, LAMBDA p : HasWildcard(p, qm)),
        exact |-> {pieces[i] : i \in {j \in 1 .. Len(pieces) : ~HasWildcard(pieces[j], qm)}},
        qm |-> qm, onBothEmpty |-> onBothEmpty]

\* match(name): an exact hit, else _on_both_empty when there are neither
\* exact names nor wildcards, else the first wildcard that wild_cmp accepts.
Match(m, name) ==
    \/ m.exact # {} /\ name \in m.exact
    \/ m.exact = {} /\ m.wcs = <<>> /\ m.onBothEmpty
    \/ \E i \in 1 .. Len(m.wcs) : WildCmp(m.wcs[i], name, m.qm)

\* ReportOptions::build_filter(white, black, question_mark): a matcher with
\* on_both_empty true for a non-empty white list, one with on_both_empty
\* false for a non-empty black list; each is a set of at most one matcher.
BuildFilter(white, black, qm) ==
    [white |-> IF white = <<>> THEN {} ELSE {Matcher(white, qm, TRUE)},
     black |-> IF black = <<>> THEN {} ELSE {Matcher(black, qm, FALSE)}]

\* ReportOptions::allow_report(name): false if a white matcher does not
\* match the name or a black matcher does.
AllowReport(f, name) ==
    /\ \A w \in f.white : Match(w, name)
    /\ \A b \in f.black : ~Match(b, name)

=============================================================================
