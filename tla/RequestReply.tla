---------------------------- MODULE RequestReply ----------------------------
(***************************************************************************)
(* What a Stream promises the code that calls it: a request that was sent  *)
(* is transmitted to the validator at most once, its future is resolved    *)
(* with an error only while the connection is down, and an answer, once    *)
(* there, is never replaced.  It does not promise that a future that was   *)
(* resolved with an error stays so: a late answer may still overwrite it.  *)
(* Stream implements this module (Stream!Promise).                         *)
(***************************************************************************)
CONSTANT Futures

VARIABLES
    up,       \* the connection to the validator is usable
    outcome,  \* what the caller of Stream.send can learn of each request
    queued,   \* requests accepted from a caller and not transmitted yet
    held      \* requests the validator holds and has not answered

vars == <<up, outcome, queued, held>>

Outcomes == {"unsent", "pending", "error", "answer"}

Init ==
    /\ up = TRUE
    /\ outcome = [i \in Futures |-> "unsent"]
    /\ queued = {}
    /\ held = {}

Request(i) ==
    /\ outcome[i] = "unsent"
    /\ outcome' = [outcome EXCEPT ![i] = "pending"]
    /\ queued' = queued \union {i}
    /\ UNCHANGED <<up, held>>

\* The caller was interrupted before it had handed the request over.
Withdraw(i) ==
    /\ i \in queued
    /\ queued' = queued \ {i}
    /\ UNCHANGED <<up, outcome, held>>

Transmit(i) ==
    /\ up
    /\ i \in queued
    /\ queued' = queued \ {i}
    /\ held' = held \union {i}
    /\ UNCHANGED <<up, outcome>>

Answer(i) ==
    /\ up
    /\ i \in held
    /\ held' = held \ {i}
    /\ outcome' = [outcome EXCEPT ![i] = "answer"]
    /\ UNCHANGED <<up, queued>>

\* The connection is lost, and with it any of the requests in flight.
Disconnect ==
    /\ up
    /\ up' = FALSE
    /\ held' \in SUBSET held
    /\ UNCHANGED <<outcome, queued>>

Fail(i) ==
    /\ ~up
    /\ outcome[i] \in {"pending", "error"}
    /\ outcome' = [outcome EXCEPT ![i] = "error"]
    /\ UNCHANGED <<up, queued, held>>

\* Requests that had not left yet are dropped.
Discard ==
    /\ ~up
    /\ queued' \in SUBSET queued
    /\ UNCHANGED <<up, outcome, held>>

Reconnect ==
    /\ ~up
    /\ up' = TRUE
    /\ UNCHANGED <<outcome, queued, held>>

Next ==
    \/ \E i \in Futures :
          \/ Request(i) \/ Withdraw(i) \/ Transmit(i) \/ Answer(i) \/ Fail(i)
    \/ Disconnect
    \/ Discard
    \/ Reconnect

Spec == Init /\ [][Next]_vars
=============================================================================
