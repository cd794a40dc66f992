------------------------------ MODULE MCAlerts ------------------------------
(* Values for the constants of Alerts, for TLC.                            *)
EXTENDS Alerts, TLC

CONSTANTS w1, w2, r1, r2, r3

MCTerms == {"ps5", "Sucata", "sucata", "quebrado", " "}

MCFold == [t \in MCTerms |-> IF t = "Sucata" THEN "sucata" ELSE t]

MCScalars == {"saved", "edited", "nan", "negative"}

Form == [op |-> "update", by |-> "ana", admin |-> FALSE, watch |-> w1, scalars |-> "edited",
         keywords |-> {"ps5"}, blocked |-> {"Sucata"}, marketplaces |-> {"olx"},
         active |-> FALSE]

MCBodies ==
    {\* of the owner
     [Form EXCEPT !.op = "create", !.watch = None],
     Form,
     [Form EXCEPT !.op = "setActive"],
     [Form EXCEPT !.op = "delete"],
     \* of an admin
     [Form EXCEPT !.by = "root", !.admin = TRUE, !.scalars = "saved", !.keywords = {"quebrado"},
                  !.blocked = {}],
     [Form EXCEPT !.op = "settings", !.by = "root", !.admin = TRUE, !.watch = None,
                  !.blocked = {"Sucata", "sucata"}],
     \* refused, sooner or later
     [Form EXCEPT !.by = "bob", !.scalars = "saved"],
     [Form EXCEPT !.keywords = {" "}],
     [Form EXCEPT !.scalars = "nan"],
     [Form EXCEPT !.scalars = "negative"],
     [Form EXCEPT !.marketplaces = {"olx", "nowhere"}]}

MCSaved == [w \in {w1} |-> "ana"]

Symmetry == Permutations(Requests)
=============================================================================
