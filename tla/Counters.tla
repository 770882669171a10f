------------------------------ MODULE Counters ------------------------------
(***************************************************************************)
(* What the integer key family promises: one counter for each name, set    *)
(* once, then increased and decreased within 0 .. MaxValue, each           *)
(* transaction taking effect at one instant or not at all.  Which names    *)
(* share an address of the validator's state is of no consequence.         *)
(***************************************************************************)
EXTENDS Integers

CONSTANTS Names, MaxValue, Unset

VARIABLE value  \* the value of each name, or Unset

Values == 0 .. MaxValue

CountersInit == value = [n \in Names |-> Unset]

Set(n, v) ==
    /\ value[n] = Unset
    /\ value' = [value EXCEPT ![n] = v]

Inc(n, v) ==
    /\ value[n] # Unset
    /\ value[n] + v <= MaxValue
    /\ value' = [value EXCEPT ![n] = @ + v]

Dec(n, v) ==
    /\ value[n] # Unset
    /\ value[n] - v >= 0
    /\ value' = [value EXCEPT ![n] = @ - v]

CountersNext ==
    \E n \in Names, v \in Values : Set(n, v) \/ Inc(n, v) \/ Dec(n, v)

CountersSpec == CountersInit /\ [][CountersNext]_value
=============================================================================
