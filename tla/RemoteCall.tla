----------------------------- MODULE RemoteCall -----------------------------
(***************************************************************************)
(* What the task queue promises to one who requests a run, without the     *)
(* stream, the keys and the channels: a run is served at most once, by     *)
(* whom it has been queued for; whoever is answered is given the outcome   *)
(* of that run, after it has ended; and only a run whose caller has left   *)
(* ends as cancelled.  It does not promise that an answer comes.           *)
(***************************************************************************)
CONSTANTS Requests, None

VARIABLES caller, service, outcome, answer

callVars == <<caller, service, outcome, answer>>

CallInit ==
  /\ caller = [r \in Requests |-> "idle"]
  /\ service = [r \in Requests |-> "none"]
  /\ outcome = [r \in Requests |-> None]
  /\ answer = [r \in Requests |-> None]

Ask(r) ==
  /\ caller[r] = "idle"
  /\ caller' = [caller EXCEPT ![r] = "waiting"]
  /\ UNCHANGED <<service, outcome, answer>>

Queue(r) ==
  /\ caller[r] = "waiting" /\ service[r] = "none"
  /\ service' = [service EXCEPT ![r] = "queued"]
  /\ UNCHANGED <<caller, outcome, answer>>

Serve(r) ==
  /\ service[r] = "queued"
  /\ service' = [service EXCEPT ![r] = "serving"]
  /\ UNCHANGED <<caller, outcome, answer>>

End(r) ==
  /\ service[r] = "serving"
  /\ service' = [service EXCEPT ![r] = "ended"]
  /\ \E o \in {"value", "error"} \cup IF caller[r] = "gone" THEN {"cancelled"} ELSE {} :
       outcome' = [outcome EXCEPT ![r] = o]
  /\ UNCHANGED <<caller, answer>>

Answer(r) ==
  /\ caller[r] = "waiting" /\ service[r] = "ended"
  /\ caller' = [caller EXCEPT ![r] = "answered"]
  /\ answer' = [answer EXCEPT ![r] = outcome[r]]
  /\ UNCHANGED <<service, outcome>>

\* The caller's connection or its queue fails, or it is cancelled or dies.
GiveUp(r) ==
  /\ caller[r] = "waiting"
  /\ caller' = [caller EXCEPT ![r] = "gone"]
  /\ UNCHANGED <<service, outcome, answer>>

CallNext ==
  \E r \in Requests : Ask(r) \/ Queue(r) \/ Serve(r) \/ End(r) \/ Answer(r) \/ GiveUp(r)

CallSpec == CallInit /\ [][CallNext]_callVars
=============================================================================
