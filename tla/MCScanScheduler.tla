--------------------------- MODULE MCScanScheduler ---------------------------
(* Values for the constants of ScanScheduler, for TLC.                     *)
EXTENDS ScanScheduler

\* Everything belongs to one owner.
OneOwner == [w \in Watches |-> CHOOSE u \in Users : TRUE]

\* The marketplaces named once, and the first named twice while the other is
\* left out.
Once == [m \in Marketplaces |-> 1]

Twice == [m \in Marketplaces |-> IF m = "olx" THEN 2 ELSE 0]

OnceOrTwice == {Once, Twice}

OneInterval == {[min |-> 1, max |-> 1]}
==============================================================================
