------------------------------ MODULE MCUsers ------------------------------
(* Values for the constants of Users, for TLC.                             *)
EXTENDS Users, TLC

CONSTANTS u1, u2, r1, r2, r3, r4

Blank == [op |-> "setActive", user |-> None, name |-> None, email |-> None,
          username |-> None, password |-> None, current |-> None, role |-> None,
          active |-> FALSE]

\* One email is a username as well.
MCEmails == {"admin@x", "ana@x", "ana"}

MCUsernames == {"ana", "bob", "A!"}

MCValidUsernames == {"ana", "bob"}

Boot == [Blank EXCEPT !.op = "bootstrap", !.name = "Admin", !.email = "admin@x",
                      !.password = "first", !.role = "admin"]

New == [Blank EXCEPT !.op = "create", !.name = "Ana", !.email = "ana@x",
                     !.password = "first", !.role = "user"]

Creations ==
    {New, [New EXCEPT !.username = "ana"], [New EXCEPT !.role = "root"],
     [New EXCEPT !.email = "admin@x"], [New EXCEPT !.email = "ana"],
     [New EXCEPT !.password = "1"]}

\* Requests upon user u.
Upon(u) ==
    {[Blank EXCEPT !.user = u],
     [Blank EXCEPT !.user = u, !.op = "setRole", !.role = "user"],
     [Blank EXCEPT !.user = u, !.op = "setRole", !.role = "root"],
     [Blank EXCEPT !.user = u, !.op = "rename", !.username = "bob"],
     [Blank EXCEPT !.user = u, !.op = "firstAccess", !.username = "ana"],
     [Blank EXCEPT !.user = u, !.op = "firstAccess", !.username = "A!"],
     [Blank EXCEPT !.user = u, !.op = "changePassword", !.current = "first", !.password = "next"],
     [Blank EXCEPT !.user = u, !.op = "updateProfile", !.name = "Bo"],
     [Blank EXCEPT !.user = u, !.op = "updateProfile", !.name = EmptyName],
     [Blank EXCEPT !.user = u, !.op = "updateProfile", !.name = "Bo", !.username = "ana"]}

MCBodies == {Boot} \cup Creations \cup UNION {Upon(u) : u \in Ids}

Symmetry == Permutations(Requests)
=============================================================================
