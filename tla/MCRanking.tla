----------------------------- MODULE MCRanking -----------------------------
(* Values for the constants of Ranking, for TLC, beside those of ScanRunner. *)
EXTENDS MCScanRunner, OfferList

MCWords == {"ps5", "pro", EmptyTerm}

MCTitles == SUBSET {"ps5", "pro"}

\* One keyword or none with targets and tolerances that are nothing and not, and
\* two keywords with a target of 2, to stay within TLC's integers.
MCSearches ==
    [keywords : {<<>>} \cup [1..1 -> MCWords], target : {4}, tolerance : {0, 5000}] \cup
    [keywords : {<<>>} \cup [1..1 -> MCWords], target : {0}, tolerance : {5000}] \cup
    [keywords : [1..2 -> MCWords], target : {2}, tolerance : {5000}]

\* At the target, within the tolerance, at its edge and beyond.
MCPrices == 0..8

\* Three available offers, with ties, and one that is not.
MCOfferSets ==
    {{[id |-> i, classification |-> c[i], available |-> i # 4, monitored |-> i \in watched] :
         i \in 1..4} : c \in [1..4 -> 0..2], watched \in SUBSET (1..4)}
=============================================================================
