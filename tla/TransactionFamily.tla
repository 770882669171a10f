--------------------------- MODULE TransactionFamily ---------------------------
(***************************************************************************)
(* What the handlers of the example families share: processors apply       *)
(* transactions of a validator, one each at a time, through the Context    *)
(* of sawtooth_sdk/processor/context.py, and answer as _process of core.py *)
(* does.  A family reads one address, computes, and writes that address.   *)
(*                                                                         *)
(* The validator is not part of the repository.  It keeps the state, gives *)
(* a context to each transaction it hands out, checks each access against  *)
(* the inputs and outputs of the transaction's header, keeps what was set  *)
(* if the answer is OK, and hands out at the same time only transactions   *)
(* whose headers do not conflict.                                          *)
(***************************************************************************)
EXTENDS Integers

CONSTANTS
    Processors,  \* the connected transaction processors
    Addresses,   \* the addresses of the family
    Jobs,        \* transactions: a payload, its signer, its inputs and outputs
    NoJob

ASSUME JobsAssumption ==
    /\ NoJob \notin Jobs
    /\ \A j \in Jobs : /\ j.inputs \subseteq Addresses
                       /\ j.outputs \subseteq Addresses

VARIABLES
    entries,  \* the validator's data at each address, a dict of the family
    job,      \* the transaction each processor applies
    at,       \* where its handler is (Points)
    data      \* the handler's copy of the dict

familyVars == <<entries, job, at, data>>

-----------------------------------------------------------------------------
Points ==
    {"idle",
     "apply",     \* before get_state
     "compute",   \* with the dict
     "store",     \* before set_state or delete_state
     "ok",        \* apply has returned
     "invalid",   \* it raised InvalidTransaction or AuthorizationException
     "internal",  \* it raised InternalError
     "dead"}      \* an exception no clause of _process catches ended the program

Busy == Points \ {"idle", "dead"}

EmptyDict == [n \in {} |-> 0]

FamilyInit ==
    /\ entries = [a \in Addresses |-> EmptyDict]
    /\ job  = [p \in Processors |-> NoJob]
    /\ at   = [p \in Processors |-> "idle"]
    /\ data = [p \in Processors |-> EmptyDict]

-----------------------------------------------------------------------------
(* The validator.                                                          *)

\* One of them may set what the other one reads or sets.
Conflict(j, k) ==
    \/ j.outputs \cap (k.inputs \cup k.outputs) # {}
    \/ k.outputs \cap (j.inputs \cup j.outputs) # {}

\* A TP_PROCESS_REQUEST, the first one for this transaction or another one
\* after an INTERNAL_ERROR or a disconnect.
Deliver(p, j) ==
    /\ at[p] = "idle"
    /\ \A q \in Processors : at[q] \in Busy => ~Conflict(j, job[q])
    /\ job' = [job EXCEPT ![p] = j]
    /\ at' = [at EXCEPT ![p] = "apply"]
    /\ UNCHANGED <<entries, data>>

\* A program that died is started again.
Restart(p) ==
    /\ at[p] = "dead"
    /\ at' = [at EXCEPT ![p] = "idle"]
    /\ UNCHANGED <<entries, job, data>>

-----------------------------------------------------------------------------
(* The processor.                                                          *)

\* The handler raises, or _process passes on what it raised.
Ends(p, point) ==
    /\ at' = [at EXCEPT ![p] = point]
    /\ job' = [job EXCEPT ![p] = IF point = "dead" THEN NoJob ELSE @]
    /\ data' = [data EXCEPT ![p] = EmptyDict]
    /\ UNCHANGED entries

\* get_state of one address: no entry, or one without data, is an empty list.
GetState(p, a) ==
    /\ at[p] = "apply"
    /\ IF a \in job[p].inputs
       THEN /\ data' = [data EXCEPT ![p] = entries[a]]
            /\ at' = [at EXCEPT ![p] = "compute"]
            /\ UNCHANGED <<entries, job>>
       ELSE Ends(p, "invalid")

\* The family's computation leaves a dict to store.
Computes(p, dict) ==
    /\ data' = [data EXCEPT ![p] = dict]
    /\ at' = [at EXCEPT ![p] = "store"]
    /\ UNCHANGED <<entries, job>>

\* set_state or delete_state of one address, in the context.
SetState(p, a) ==
    /\ at[p] = "store"
    /\ IF a \in job[p].outputs
       THEN /\ at' = [at EXCEPT ![p] = "ok"]
            /\ UNCHANGED <<entries, job, data>>
       ELSE Ends(p, "invalid")

\* The TpProcessResponse OK: the validator keeps what was set at a.
Commit(p, a) ==
    /\ at[p] = "ok"
    /\ entries' = [entries EXCEPT ![a] = data[p]]
    /\ at' = [at EXCEPT ![p] = "idle"]
    /\ job' = [job EXCEPT ![p] = NoJob]
    /\ data' = [data EXCEPT ![p] = EmptyDict]

\* The handler is done with its transaction, and nothing of it is kept.
Forget(p) ==
    /\ at' = [at EXCEPT ![p] = "idle"]
    /\ job' = [job EXCEPT ![p] = NoJob]
    /\ data' = [data EXCEPT ![p] = EmptyDict]
    /\ UNCHANGED entries

\* The TpProcessResponse INVALID_TRANSACTION or INTERNAL_ERROR.
Decline(p) == at[p] \in {"invalid", "internal"} /\ Forget(p)

\* The connection is lost: a request of the handler, or its response, raises
\* ValidatorConnectionError, _process returns, and the validator drops the
\* context.  What the handler does until then reaches nobody.
Disconnected(p) == at[p] \in Busy /\ Forget(p)

-----------------------------------------------------------------------------
\* Transactions in progress do not conflict: what the validator's schedule
\* keeps, and what the invariants of the families start from.
NoConflicts ==
    \A p, q \in Processors :
        p # q /\ at[p] \in Busy /\ at[q] \in Busy => ~Conflict(job[p], job[q])
=============================================================================
