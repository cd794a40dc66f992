--------------------------- MODULE Classification ---------------------------
(***************************************************************************)
(* The title filters of src/backend/internal/scan/classification.go.       *)
(* strings.Contains over lowered strings is all the code ever asks of a    *)
(* title, so a title is the set of terms it contains (case ignored), and a *)
(* keyword list or a blocked list is the set of its terms: neither filter  *)
(* depends on order or repetition.                                         *)
(***************************************************************************)

\* The empty string. Every title contains it, and the code skips it in
\* each loop instead of letting it match.
EmptyTerm == ""

Contains(title, term) == term \in title

ContainsBlockedWord(title, blockedWords) ==
    \E bw \in blockedWords : bw # EmptyTerm /\ Contains(title, bw)

MatchesAllKeywords(title, keywords) ==
    \A kw \in keywords : kw # EmptyTerm => Contains(title, kw)

\* An empty list passes; a list of empty strings does not.
MatchesAnyKeyword(title, keywords) ==
    \/ keywords = {}
    \/ \E kw \in keywords : kw # EmptyTerm /\ Contains(title, kw)

=============================================================================
