--------------------------- MODULE MCScanRunner ---------------------------
(* Values for the constants of ScanRunner, for TLC.                        *)
EXTENDS ScanRunner, TLC

CONSTANTS s1, s2, s3

\* Prices on either side of the target 2, and a listing that no filter keeps.
MCTerms == {"ps5", "pro", "box"}

MCConfig == [target |-> 2, mode |-> "any", keywords |-> {"ps5"}, blocked |-> {}]

\* An edit that wants all of two keywords and blocks a word.
MCEdited == [target |-> 2, mode |-> "all", keywords |-> {"ps5", "pro"}, blocked |-> {"box"}]

\* An edit that raises the target to a price already listed.
MCRaised == [target |-> 3, mode |-> "any", keywords |-> {"ps5"}, blocked |-> {}]

OneConfig == {MCConfig}

FilterEdits == {MCConfig, MCEdited}

TargetEdits == {MCConfig, MCRaised}

Item(id, price) == [id |-> id, title |-> {"ps5"}, price |-> price]

\* At most one listing, above or at the target.
AtMostOne ==
    {<<>>} \cup {<<Item("a", price)>> : price \in {2, 3}}

\* A drop of one identity over two scans, and another identity.
DropOrOther ==
    {<<Item("a", 3)>>, <<Item("a", 2)>>, <<Item("b", 2)>>}

\* Nothing, or a title that the edit starts to reject, for its mode and for a
\* blocked word.
NoneOrTitled == {<<>>, <<[id |-> "a", title |-> {"ps5", "box"}, price |-> 2]>>}

Symmetry == Permutations(Scans)
===========================================================================
