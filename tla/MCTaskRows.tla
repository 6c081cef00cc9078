----------------------------- MODULE MCTaskRows -----------------------------
(* Small forests for TLC. *)
EXTENDS TaskRows

CONSTANTS a, b, c, k1, k2

Chain == [r \in Runs |-> IF r = b THEN a ELSE IF r = c THEN b ELSE Null]
Fork == [r \in Runs |-> IF r \in {b, c} THEN a ELSE Null]

Loose == [r \in Runs |-> Null]

Quiet == [parent |-> Chain, running |-> {a, b}, over |-> {c}, twice |-> {}, lapses |-> FALSE,
          foreignKeys |-> FALSE, skipRoots |-> TRUE, sessions |-> {}]

\* Two transactions over three rows.
Forests == {[Quiet EXCEPT !.sessions = {k1, k2}],
            [Quiet EXCEPT !.parent = Fork, !.foreignKeys = TRUE, !.sessions = {k1, k2}]}
\* One transaction, which may delete a root, and a row that comes while it runs.
Latecomers == {[Quiet EXCEPT !.parent = Fork, !.over = {}, !.skipRoots = FALSE, !.sessions = {k1}],
               [Quiet EXCEPT !.over = {}, !.foreignKeys = TRUE, !.skipRoots = FALSE,
                             !.sessions = {k1}]}
\* New runs of a new type, and a new run of a known one; one of them is initialised twice.
Creations == {[Quiet EXCEPT !.running = {}, !.over = {}, !.twice = {a},
                            !.parent = [Loose EXCEPT ![c] = a]],
              [Quiet EXCEPT !.running = {}, !.twice = {a}, !.lapses = TRUE, !.parent = Loose]}

AllWorlds == Forests \cup Latecomers \cup Creations
=============================================================================
