---------------------------- MODULE PriceHistory ----------------------------
(***************************************************************************)
(* What the price history of the offers promises (CONTEXT.md, Historico de *)
(* Preco; db/queries/offers.sql, InsertOfferPricePointIfChanged): each     *)
(* offer has a sequence of prices, a price is appended to it when it is    *)
(* not the last one, and nothing else ever happens to it. ScanRunner       *)
(* implements it when the scans of a marketplace do not overlap.           *)
(***************************************************************************)
EXTENDS Integers, Sequences

CONSTANTS
    Keys,      \* the offers
    Prices     \* what they may cost

VARIABLE history    \* the prices recorded of each offer, the oldest first

TypeOK == history \in [Keys -> Seq(Prices)]

Init == history = [k \in Keys |-> <<>>]

Record(k, price) ==
    /\ history[k] # <<>> => history[k][Len(history[k])] # price
    /\ history' = [history EXCEPT ![k] = Append(@, price)]

Next == \E k \in Keys, price \in Prices : Record(k, price)

Spec == Init /\ [][Next]_history

\* Neighbours differ: what Spec is for, and what the chart of an offer shows.
NoRepeat ==
    \A k \in Keys : \A i \in 1..(Len(history[k]) - 1) : history[k][i] # history[k][i + 1]

=============================================================================
