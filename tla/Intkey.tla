------------------------------- MODULE Intkey -------------------------------
(***************************************************************************)
(* examples/intkey_python/sawtooth_intkey/processor/handler.py: the        *)
(* integer key family.                                                     *)
(*                                                                         *)
(* The data at an address is a dict from names to values: a name's address *)
(* is a hash of it, and the handler keeps the names of one address apart.  *)
(***************************************************************************)
EXTENDS TransactionFamily

CONSTANTS
    Names,       \* strings of at most MAX_NAME_LENGTH characters
    AddressOf,   \* make_intkey_address: collisions are possible
    MaxValue,    \* MAX_VALUE, 4294967295
    Garbage,     \* a payload cbor does not load
    Incomplete,  \* a payload without one of the keys Verb, Name and Value
    Unset        \* a name that has no value

ASSUME NamesAssumption == AddressOf \in [Names -> Addresses]
ASSUME MaxValueAssumption == MaxValue \in Nat /\ Unset \notin Int

ValidVerbs == {"set", "inc", "dec"}
Values == 0 .. MaxValue

\* What cbor.loads returns; the verb, the name and the value may be anything.
\* A value that is no integer fares like one below 0.
ASSUME PayloadsAssumption ==
    \A j \in Jobs : j.payload \notin {Garbage, Incomplete} =>
        j.payload = [verb |-> j.payload.verb, name |-> j.payload.name,
                     value |-> j.payload.value] /\ j.payload.value \in Int

Dicts == UNION {[S -> Values] : S \in SUBSET Names}

-----------------------------------------------------------------------------
(* Pure parts of the handler.                                              *)

\* The payload passes _validate_verb, _validate_name and _validate_value.
Valid(payload) ==
    /\ payload \notin {Garbage, Incomplete}
    /\ payload.verb \in ValidVerbs
    /\ payload.name \in Names
    /\ payload.value \in Values

\* do_set, do_inc and do_dec do not raise InvalidTransaction.
Applicable(t, dict) ==
    \/ t.verb = "set" /\ t.name \notin DOMAIN dict
    \/ /\ t.verb = "inc"
       /\ t.name \in DOMAIN dict
       /\ dict[t.name] + t.value <= MaxValue
    \/ /\ t.verb = "dec"
       /\ t.name \in DOMAIN dict
       /\ dict[t.name] - t.value >= 0

NewValue(t, dict) ==
    CASE t.verb = "set" -> t.value
      [] t.verb = "inc" -> dict[t.name] + t.value
      [] t.verb = "dec" -> dict[t.name] - t.value

\* Mutant of Updated: the other names of the address are dropped.
UpdatedAlone(t, dict) == [n \in {t.name} |-> NewValue(t, dict)]

\* The copy of the dict with the name's new value.
Updated(t, dict) ==
    [n \in DOMAIN dict \cup {t.name} |->
        IF n = t.name THEN NewValue(t, dict) ELSE dict[n]]

-----------------------------------------------------------------------------
Tx(p)   == job[p].payload
Home(p) == AddressOf[Tx(p).name]

\* _unpack_transaction raises InvalidTransaction ...
Refuse(p) ==
    /\ at[p] = "apply"
    /\ ~Valid(Tx(p))
    /\ Tx(p) # Incomplete
    /\ Ends(p, "invalid")

\* ... or the KeyError of content['Verb'], which "except AttributeError"
\* does not catch.
Die(p) ==
    /\ at[p] = "apply"
    /\ Tx(p) = Incomplete
    /\ Ends(p, "dead")

GetStateData(p) ==
    /\ at[p] = "apply"
    /\ Valid(Tx(p))
    /\ GetState(p, Home(p))

\* Mutant of DoIntkey: "inc" does not reach MAX_VALUE.
DoIntkeyShort(p) ==
    /\ at[p] = "compute"
    /\ IF /\ Applicable(Tx(p), data[p])
          /\ Tx(p).verb = "inc" => NewValue(Tx(p), data[p]) < MaxValue
       THEN Computes(p, Updated(Tx(p), data[p]))
       ELSE Ends(p, "invalid")

DoIntkey(p) ==
    /\ at[p] = "compute"
    /\ IF Applicable(Tx(p), data[p])
       THEN Computes(p, Updated(Tx(p), data[p]))
       ELSE Ends(p, "invalid")

SetStateData(p) == at[p] = "store" /\ SetState(p, Home(p))

CommitState(p) == at[p] = "ok" /\ Commit(p, Home(p))

\* The validator set no address: InternalError('State error').
StateError(p) ==
    /\ at[p] = "store"
    /\ Ends(p, "internal")

IntkeyNext ==
    \E p \in Processors :
        \/ \E j \in Jobs : Deliver(p, j)
        \/ Restart(p)
        \/ Refuse(p)
        \/ Die(p)
        \/ GetStateData(p)
        \/ DoIntkey(p)
        \/ SetStateData(p)
        \/ StateError(p)
        \/ CommitState(p)
        \/ Decline(p)
        \/ Disconnected(p)

IntkeySpec == FamilyInit /\ [][IntkeyNext]_familyVars

-----------------------------------------------------------------------------
(* Properties.                                                             *)

\* What a handler raises TypeError, KeyError or cbor errors for otherwise.
IntkeyTypeOK ==
    /\ entries \in [Addresses -> Dicts]
    /\ data \in [Processors -> Dicts]
    /\ at \in [Processors -> Points]
    /\ job \in [Processors -> Jobs \cup {NoJob}]
    /\ \A p \in Processors : at[p] \in Busy => job[p] \in Jobs

\* The counter of each name, as a reader of the validator's state finds it.
valueOf ==
    [n \in Names |-> IF n \in DOMAIN entries[AddressOf[n]]
                     THEN entries[AddressOf[n]][n] ELSE Unset]

C == INSTANCE Counters WITH value <- valueOf

\* Each transaction that is answered OK takes effect on its own name at one
\* instant, whatever other processors apply meanwhile and whatever names share
\* its address; one that is refused, retried or lost has no effect.
KeepsCounters == C!CountersSpec

\* The header names the address of the payload's name.
Authorized(p) == Home(p) \in job[p].inputs \cap job[p].outputs

\* The transaction is malformed, or its header does not list the address of
\* its name, or it breaks the rule of its verb.
Wrong(p) ==
    Valid(Tx(p)) /\ Authorized(p) => ~Applicable(Tx(p), entries[Home(p)])

\* A transaction is refused only if it is wrong at the instant of the answer:
\* an "inc" or a "dec" is judged by the counter as it is, and not as it was.
RefusedRightly == \A p \in Processors : at[p] = "invalid" => Wrong(p)

\* What a handler has read, or is about to commit, is right for the entries
\* as they are now.
DataCurrent(p) ==
    /\ at[p] \in {"compute", "store", "ok"} =>
        Valid(Tx(p)) /\ Home(p) \in job[p].inputs
    /\ at[p] = "compute" => data[p] = entries[Home(p)]
    /\ at[p] \in {"store", "ok"} =>
        /\ Applicable(Tx(p), entries[Home(p)])
        /\ data[p] = Updated(Tx(p), entries[Home(p)])
    /\ at[p] = "ok" => Home(p) \in job[p].outputs

\* Inductive: the validator's schedule keeps current what a handler has read,
\* so that its verdict and its update are those of the instant it answers.
IntkeyInv ==
    /\ IntkeyTypeOK
    /\ NoConflicts
    /\ \A p \in Processors : DataCurrent(p)
    /\ RefusedRightly
=============================================================================
