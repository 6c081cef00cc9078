----------------------------- MODULE MCTaskRun -----------------------------
(* Task runs of one or two tries, for TLC. *)
EXTENDS TaskRun

Plain == [timeout |-> FALSE, semaphore |-> FALSE, rate |-> FALSE, delay |-> FALSE,
          cache |-> "off", monitor |-> TRUE, retryable |-> FALSE, tries |-> 1, faults |-> {}]

\* Everything that may stand around the function, in every combination, ...
Layered == {[Plain EXCEPT !.timeout = t, !.semaphore = s, !.cache = c, !.faults = f] :
              t, s \in BOOLEAN, c \in {"off", "use"}, f \in {{}, {"redis"}, {"db", "redis"}}}
\* ... with a second try, ...
Retried == {[c EXCEPT !.retryable = TRUE, !.tries = 2] : c \in Layered}
\* ... and what adds an await or changes one choice.
Variants == {[Plain EXCEPT !.rate = TRUE, !.semaphore = TRUE, !.timeout = TRUE],
             [Plain EXCEPT !.cache = "refresh", !.timeout = TRUE],
             [Plain EXCEPT !.monitor = FALSE, !.timeout = TRUE],
             [Plain EXCEPT !.tries = 2, !.semaphore = TRUE],
             [Plain EXCEPT !.delay = TRUE, !.retryable = TRUE, !.tries = 2, !.timeout = TRUE]}

AllConfigs == Layered \cup Retried \cup Variants
LiveConfigs == {c \in AllConfigs : c.faults # {"redis"} /\ (c.tries = 2 => c.cache = "off" \/ c.timeout)}
PlainConfigs == {Plain, [Plain EXCEPT !.retryable = TRUE, !.tries = 2, !.timeout = TRUE]}
=============================================================================
