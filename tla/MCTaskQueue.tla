----------------------------- MODULE MCTaskQueue -----------------------------
(* Small instances of TaskQueue for TLC: every fault with as many actors as it needs. *)
EXTENDS TaskQueue

CONSTANTS r1, r2, r3, w1, w2

Chunks(n) == [r \in Requests |-> IF r = r1 THEN n ELSE 0]

Plain == [requests |-> {r1}, workers |-> {w1}, maxChunks |-> Chunks(0), unreadable |-> {},
          mayGo |-> {}, brief |-> {}, mortal |-> {}]

\* A pending message that nobody serves, and two clean-ups around it.
Trimming == [Plain EXCEPT !.requests = {r1, r2, r3}, !.unreadable = {r1},
                          !.brief = {r1, r3}]
\* A worker that goes, and one that stays.
Failing == [Plain EXCEPT !.requests = {r1, r2}, !.workers = {w1, w2}, !.mortal = {w1}]
\* Callers that go.
Leaving == [Plain EXCEPT !.requests = {r1, r2}, !.maxChunks = Chunks(1), !.mayGo = {r1}]
\* A stream of chunks.
Streaming == [Plain EXCEPT !.maxChunks = Chunks(3), !.workers = {w1, w2}, !.mayGo = {r1},
                           !.mortal = {w1}]

AllWorlds == {Trimming, Failing, Leaving, Streaming}
PlainWorlds == {[Plain EXCEPT !.requests = {r1, r2}]}
=============================================================================
