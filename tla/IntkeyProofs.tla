---------------------------- MODULE IntkeyProofs ----------------------------
(***************************************************************************)
(* Proofs about Intkey: its invariant, and that it implements Counters.    *)
(***************************************************************************)
EXTENDS Intkey, TLAPS

\* The dicts of the family: facts that do not depend on the state.
LEMMA EmptyIsDict == EmptyDict \in Dicts
  BY DEF EmptyDict, Dicts

LEMMA UpdatedIsDict ==
    ASSUME NEW t, NEW dict \in Dicts, Valid(t), Applicable(t, dict)
    PROVE  Updated(t, dict) \in Dicts
  <1>1. PICK S \in SUBSET Names : dict \in [S -> Values]
    BY DEF Dicts
  <1>2. NewValue(t, dict) \in Values
    <2>1. CASE t.verb = "set"
      BY <2>1 DEF Valid, NewValue, Applicable
    <2>2. CASE t.verb = "inc"
      <3>1. dict[t.name] \in Values /\ t.value \in Values
            /\ dict[t.name] + t.value <= MaxValue
        BY <1>1, <2>2 DEF Valid, Applicable
      <3>2. NewValue(t, dict) = dict[t.name] + t.value
        BY <2>2 DEF NewValue
      <3> QED BY <3>1, <3>2, MaxValueAssumption DEF Values
    <2>3. CASE t.verb = "dec"
      <3>1. dict[t.name] \in Values /\ t.value \in Values
            /\ dict[t.name] - t.value >= 0
        BY <1>1, <2>3 DEF Valid, Applicable
      <3>2. NewValue(t, dict) = dict[t.name] - t.value
        BY <2>3 DEF NewValue
      <3> QED BY <3>1, <3>2, MaxValueAssumption DEF Values
    <2> QED BY <2>1, <2>2, <2>3 DEF Valid, ValidVerbs
  <1>3. Updated(t, dict) \in [S \cup {t.name} -> Values]
    BY <1>1, <1>2 DEF Updated
  <1>4. S \cup {t.name} \in SUBSET Names
    BY DEF Valid
  <1> QED BY <1>3, <1>4 DEF Dicts

\* A busy processor has a job, which lists addresses of the family.
LEMMA JobsListAddresses ==
    ASSUME IntkeyTypeOK, NEW p \in Processors, at[p] \in Busy
    PROVE  /\ job[p].inputs \subseteq Addresses
           /\ job[p].outputs \subseteq Addresses
           /\ Valid(Tx(p)) => Home(p) \in Addresses
  BY JobsAssumption, NamesAssumption DEF IntkeyTypeOK, Valid, Home

\* A step of p alone that leaves the entries as they are and takes no new job.
LEMMA LocalStep ==
    ASSUME IntkeyInv, IntkeyTypeOK', NEW p \in Processors,
           UNCHANGED entries,
           \A q \in Processors \ {p} :
               at'[q] = at[q] /\ job'[q] = job[q] /\ data'[q] = data[q],
           at'[p] \in Busy => at[p] \in Busy /\ job'[p] = job[p],
           DataCurrent(p)',
           at'[p] = "invalid" => Wrong(p)'
    PROVE  IntkeyInv'
  <1>1. NoConflicts'
    BY DEF IntkeyInv, NoConflicts, Conflict
  <1>2. ASSUME NEW q \in Processors
        PROVE  DataCurrent(q)' /\ (at'[q] = "invalid" => Wrong(q)')
    <2>1. CASE q = p
      BY <2>1
    <2>2. CASE q # p
      BY <2>2 DEF IntkeyInv, DataCurrent, Wrong, Authorized, RefusedRightly,
                  Tx, Home
    <2> QED BY <2>1, <2>2
  <1> QED BY <1>1, <1>2 DEF IntkeyInv, RefusedRightly

\* The handler is done, one way or another, without a commit.
LEMMA EndsStep ==
    ASSUME IntkeyInv, NEW p \in Processors, at[p] \in Busy,
           NEW point \in {"invalid", "internal", "dead"}, Ends(p, point),
           point = "invalid" => Wrong(p)
    PROVE  IntkeyInv'
  <1>1. IntkeyTypeOK'
    BY EmptyIsDict DEF IntkeyInv, IntkeyTypeOK, Ends, Points, Busy
  <1>2. at'[p] = point /\ (point # "dead" => job'[p] = job[p])
    BY DEF Ends, IntkeyInv, IntkeyTypeOK
  <1>3. \A q \in Processors \ {p} :
            at'[q] = at[q] /\ job'[q] = job[q] /\ data'[q] = data[q]
    BY DEF Ends, IntkeyInv, IntkeyTypeOK
  <1>4. DataCurrent(p)'
    BY <1>2 DEF DataCurrent
  <1>5. at'[p] = "invalid" => Wrong(p)'
    BY <1>2 DEF Ends, Wrong, Authorized, Tx, Home
  <1>6. UNCHANGED entries
    BY DEF Ends
  <1> QED BY <1>1, <1>2, <1>3, <1>4, <1>5, <1>6, LocalStep DEF Busy

LEMMA ForgetStep ==
    ASSUME IntkeyInv, NEW p \in Processors, Forget(p)
    PROVE  IntkeyInv'
  <1>1. IntkeyTypeOK'
    BY EmptyIsDict DEF IntkeyInv, IntkeyTypeOK, Forget, Points, Busy
  <1>2. at'[p] = "idle"
    BY DEF Forget, IntkeyInv, IntkeyTypeOK
  <1>3. \A q \in Processors \ {p} :
            at'[q] = at[q] /\ job'[q] = job[q] /\ data'[q] = data[q]
    BY DEF Forget, IntkeyInv, IntkeyTypeOK
  <1>4. DataCurrent(p)'
    BY <1>2 DEF DataCurrent
  <1>5. UNCHANGED entries
    BY DEF Forget
  <1> QED BY <1>1, <1>2, <1>3, <1>4, <1>5, LocalStep DEF Busy

LEMMA DeliverStep ==
    ASSUME IntkeyInv, NEW p \in Processors, NEW j \in Jobs, Deliver(p, j)
    PROVE  IntkeyInv'
  <1>1. IntkeyTypeOK'
    BY DEF IntkeyInv, IntkeyTypeOK, Deliver, Points, Busy
  <1>2. at'[p] = "apply" /\ job'[p] = j
    BY DEF Deliver, IntkeyInv, IntkeyTypeOK
  <1>3. /\ entries' = entries
        /\ \A q \in Processors \ {p} :
               at'[q] = at[q] /\ job'[q] = job[q] /\ data'[q] = data[q]
    BY DEF Deliver, IntkeyInv, IntkeyTypeOK
  <1>4. NoConflicts'
    BY <1>2, <1>3 DEF IntkeyInv, NoConflicts, Conflict, Deliver
  <1>5. ASSUME NEW q \in Processors
        PROVE  DataCurrent(q)' /\ (at'[q] = "invalid" => Wrong(q)')
    <2>1. CASE q = p
      BY <1>2, <2>1 DEF DataCurrent
    <2>2. CASE q # p
      BY <1>3, <2>2 DEF IntkeyInv, DataCurrent, Wrong, Authorized,
                        RefusedRightly, Tx, Home
    <2> QED BY <2>1, <2>2
  <1> QED BY <1>1, <1>4, <1>5 DEF IntkeyInv, RefusedRightly

LEMMA RestartStep ==
    ASSUME IntkeyInv, NEW p \in Processors, Restart(p)
    PROVE  IntkeyInv'
  <1>1. IntkeyTypeOK'
    BY DEF IntkeyInv, IntkeyTypeOK, Restart, Points, Busy
  <1>2. at'[p] = "idle"
    BY DEF Restart, IntkeyInv, IntkeyTypeOK
  <1>3. /\ UNCHANGED entries
        /\ \A q \in Processors \ {p} :
               at'[q] = at[q] /\ job'[q] = job[q] /\ data'[q] = data[q]
    BY DEF Restart, IntkeyInv, IntkeyTypeOK
  <1>4. DataCurrent(p)'
    BY <1>2 DEF DataCurrent
  <1> QED BY <1>1, <1>2, <1>3, <1>4, LocalStep DEF Busy

LEMMA GetStep ==
    ASSUME IntkeyInv, NEW p \in Processors, GetStateData(p)
    PROVE  IntkeyInv'
  <1>1. CASE Home(p) \notin job[p].inputs
    <2>1. Ends(p, "invalid") /\ at[p] \in Busy
      BY <1>1 DEF GetStateData, GetState, Points, Busy
    <2> QED BY <1>1, <2>1, EndsStep DEF Wrong, Authorized
  <1>2. CASE Home(p) \in job[p].inputs
    <2>1. /\ at[p] = "apply" /\ Valid(Tx(p))
          /\ data' = [data EXCEPT ![p] = entries[Home(p)]]
          /\ at' = [at EXCEPT ![p] = "compute"]
          /\ UNCHANGED <<entries, job>>
      BY <1>2 DEF GetStateData, GetState
    <2>2. entries[Home(p)] \in Dicts
      BY <2>1, JobsListAddresses DEF IntkeyInv, IntkeyTypeOK, Points, Busy
    <2>3. IntkeyTypeOK'
      BY <2>1, <2>2 DEF IntkeyInv, IntkeyTypeOK, Points, Busy
    <2>4. at'[p] = "compute" /\ data'[p] = entries[Home(p)]
      BY <2>1 DEF IntkeyInv, IntkeyTypeOK
    <2>5. \A q \in Processors \ {p} :
              at'[q] = at[q] /\ job'[q] = job[q] /\ data'[q] = data[q]
      BY <2>1 DEF IntkeyInv, IntkeyTypeOK
    <2>6. DataCurrent(p)'
      BY <1>2, <2>1, <2>4 DEF DataCurrent, Tx, Home
    <2> QED BY <2>1, <2>3, <2>4, <2>5, <2>6, LocalStep DEF Points, Busy
  <1> QED BY <1>1, <1>2

LEMMA DoStep ==
    ASSUME IntkeyInv, NEW p \in Processors, DoIntkey(p)
    PROVE  IntkeyInv'
  <1>1. /\ at[p] = "compute" /\ at[p] \in Busy
        /\ Valid(Tx(p)) /\ Home(p) \in job[p].inputs
        /\ data[p] = entries[Home(p)] /\ data[p] \in Dicts
    BY DEF DoIntkey, IntkeyInv, DataCurrent, IntkeyTypeOK, Points, Busy
  <1>2. CASE ~Applicable(Tx(p), data[p])
    <2>1. Ends(p, "invalid")
      BY <1>2 DEF DoIntkey
    <2>2. Wrong(p)
      BY <1>1, <1>2 DEF Wrong
    <2> QED BY <1>1, <2>1, <2>2, EndsStep
  <1>3. CASE Applicable(Tx(p), data[p])
    <2>1. /\ data' = [data EXCEPT ![p] = Updated(Tx(p), data[p])]
          /\ at' = [at EXCEPT ![p] = "store"]
          /\ UNCHANGED <<entries, job>>
      BY <1>3 DEF DoIntkey, Computes
    <2>2. IntkeyTypeOK'
      <3>1. Updated(Tx(p), data[p]) \in Dicts
        BY <1>1, <1>3, UpdatedIsDict
      <3> QED BY <1>1, <2>1, <3>1 DEF IntkeyInv, IntkeyTypeOK, Points, Busy
    <2>3. at'[p] = "store" /\ data'[p] = Updated(Tx(p), entries[Home(p)])
      BY <1>1, <2>1 DEF IntkeyInv, IntkeyTypeOK
    <2>4. \A q \in Processors \ {p} :
              at'[q] = at[q] /\ job'[q] = job[q] /\ data'[q] = data[q]
      BY <2>1 DEF IntkeyInv, IntkeyTypeOK
    <2>5. DataCurrent(p)'
      BY <1>1, <1>3, <2>1, <2>3 DEF DataCurrent, Tx, Home
    <2> QED BY <1>1, <2>1, <2>2, <2>3, <2>4, <2>5, LocalStep
  <1> QED BY <1>2, <1>3

LEMMA SetStep ==
    ASSUME IntkeyInv, NEW p \in Processors, SetStateData(p)
    PROVE  IntkeyInv'
  <1>1. at[p] = "store" /\ at[p] \in Busy
    BY DEF SetStateData, Points, Busy
  <1>2. CASE Home(p) \notin job[p].outputs
    BY <1>1, <1>2, EndsStep DEF SetStateData, SetState, Wrong, Authorized
  <1>3. CASE Home(p) \in job[p].outputs
    <2>1. at' = [at EXCEPT ![p] = "ok"] /\ UNCHANGED <<entries, job, data>>
      BY <1>3 DEF SetStateData, SetState
    <2>2. IntkeyTypeOK'
      BY <1>1, <2>1 DEF IntkeyInv, IntkeyTypeOK, Points, Busy
    <2>3. at'[p] = "ok" /\ (\A q \in Processors \ {p} : at'[q] = at[q])
      BY <2>1 DEF IntkeyInv, IntkeyTypeOK
    <2>4. DataCurrent(p)'
      BY <1>1, <1>3, <2>1, <2>3 DEF IntkeyInv, DataCurrent, Tx, Home
    <2> QED BY <1>1, <2>1, <2>2, <2>3, <2>4, LocalStep
  <1> QED BY <1>2, <1>3

\* The only step that changes an entry: no other handler that is entitled to
\* read it is busy.
LEMMA CommitStep ==
    ASSUME IntkeyInv, NEW p \in Processors, CommitState(p)
    PROVE  IntkeyInv'
  <1>1. /\ at[p] = "ok" /\ at[p] \in Busy /\ data[p] \in Dicts
        /\ Home(p) \in job[p].outputs /\ Home(p) \in Addresses
    BY JobsListAddresses
       DEF CommitState, IntkeyInv, DataCurrent, IntkeyTypeOK, Points, Busy
  <1>2. /\ entries' = [entries EXCEPT ![Home(p)] = data[p]]
        /\ at' = [at EXCEPT ![p] = "idle"]
        /\ job' = [job EXCEPT ![p] = NoJob]
        /\ data' = [data EXCEPT ![p] = EmptyDict]
    BY DEF CommitState, Commit
  <1>3. IntkeyTypeOK'
    BY <1>1, <1>2, EmptyIsDict DEF IntkeyInv, IntkeyTypeOK, Points, Busy
  <1>4. /\ at'[p] = "idle"
        /\ \A q \in Processors \ {p} :
               at'[q] = at[q] /\ job'[q] = job[q] /\ data'[q] = data[q]
    BY <1>2 DEF IntkeyInv, IntkeyTypeOK
  <1>5. NoConflicts'
    BY <1>4 DEF IntkeyInv, NoConflicts, Conflict, Busy
  <1>6. ASSUME NEW q \in Processors \ {p}, at[q] \in Busy,
               Home(q) \in job[q].inputs
        PROVE  entries'[Home(q)] = entries[Home(q)]
    <2>1. ~Conflict(job[q], job[p])
      BY <1>1, <1>6 DEF IntkeyInv, NoConflicts
    <2>2. Home(q) # Home(p)
      BY <1>1, <1>6, <2>1 DEF Conflict
    <2>3. Home(q) \in Addresses
      BY <1>6, JobsListAddresses DEF IntkeyInv
    <2> QED BY <1>2, <2>2, <2>3 DEF IntkeyInv, IntkeyTypeOK
  <1>7. ASSUME NEW q \in Processors
        PROVE  DataCurrent(q)' /\ (at'[q] = "invalid" => Wrong(q)')
    <2>1. CASE q = p
      BY <1>4, <2>1 DEF DataCurrent
    <2>2. CASE q # p
      <3>1. at'[q] = at[q] /\ data'[q] = data[q]
            /\ Tx(q)' = Tx(q) /\ Home(q)' = Home(q) /\ job'[q] = job[q]
        BY <1>4, <2>2 DEF Tx, Home
      <3>2. DataCurrent(q)'
        <4>1. CASE at[q] \in {"compute", "store", "ok"}
          <5>1. entries'[Home(q)] = entries[Home(q)]
            BY <1>6, <2>2, <4>1 DEF IntkeyInv, DataCurrent, Points, Busy
          <5> QED BY <3>1, <5>1 DEF IntkeyInv, DataCurrent
        <4>2. CASE at[q] \notin {"compute", "store", "ok"}
          BY <3>1, <4>2 DEF DataCurrent
        <4> QED BY <4>1, <4>2
      <3>3. ASSUME at[q] = "invalid" PROVE Wrong(q)'
        <4>1. ASSUME Valid(Tx(q)), Authorized(q)
              PROVE  ~Applicable(Tx(q), entries'[Home(q)])
          <5>1. entries'[Home(q)] = entries[Home(q)]
            BY <1>6, <2>2, <3>3, <4>1 DEF Authorized, Points, Busy
          <5>2. Wrong(q)
            BY <3>3 DEF IntkeyInv, RefusedRightly
          <5> QED BY <4>1, <5>1, <5>2 DEF Wrong
        <4>2. Valid(Tx(q))' = Valid(Tx(q)) /\ Authorized(q)' = Authorized(q)
          BY <3>1 DEF Valid, Authorized
        <4>3. Applicable(Tx(q), entries[Home(q)])'
                = Applicable(Tx(q), entries'[Home(q)])
          BY <3>1 DEF Applicable
        <4> QED BY <4>1, <4>2, <4>3 DEF Wrong
      <3> QED BY <3>1, <3>2, <3>3
    <2> QED BY <2>1, <2>2
  <1> QED BY <1>3, <1>5, <1>7 DEF IntkeyInv, RefusedRightly

-----------------------------------------------------------------------------
LEMMA InvInit == FamilyInit => IntkeyInv
  BY EmptyIsDict DEF FamilyInit, IntkeyInv, IntkeyTypeOK, NoConflicts,
     DataCurrent, RefusedRightly, Points, Busy

LEMMA InvNext ==
    ASSUME IntkeyInv, [IntkeyNext]_familyVars
    PROVE  IntkeyInv'
  <1>1. CASE UNCHANGED familyVars
    BY <1>1 DEF familyVars, IntkeyInv, IntkeyTypeOK, NoConflicts, DataCurrent,
       RefusedRightly, Wrong, Authorized, Tx, Home
  <1>2. ASSUME NEW p \in Processors, Refuse(p) \/ Die(p) \/ StateError(p)
        PROVE  IntkeyInv'
    BY <1>2, EndsStep DEF Refuse, Die, StateError, Wrong, Points, Busy
  <1>3. ASSUME NEW p \in Processors, Decline(p) \/ Disconnected(p)
        PROVE  IntkeyInv'
    BY <1>3, ForgetStep DEF Decline, Disconnected
  <1> QED BY <1>1, <1>2, <1>3, DeliverStep, RestartStep, GetStep, DoStep,
             SetStep, CommitStep DEF IntkeyNext

\* Whatever the processors do at the same time, a handler's copy of the state
\* is that of the validator until it answers.
THEOREM IntkeyInvariant == IntkeySpec => []IntkeyInv
  BY InvInit, InvNext, PTL DEF IntkeySpec

\* What is stored of a counter is a number within its bounds.
THEOREM IntkeyTyped == IntkeySpec => []IntkeyTypeOK
  <1>1. IntkeyInv => IntkeyTypeOK
    BY DEF IntkeyInv
  <1> QED BY <1>1, IntkeyInvariant, PTL

\* A transaction is refused only if it is wrong at the instant of the answer.
THEOREM RefusesRightly == IntkeySpec => []RefusedRightly
  <1>1. IntkeyInv => RefusedRightly
    BY DEF IntkeyInv
  <1> QED BY <1>1, IntkeyInvariant, PTL

-----------------------------------------------------------------------------
(* Intkey implements Counters.                                             *)

\* A commit is the step of Counters that its verb names.
LEMMA CommitCounts ==
    ASSUME IntkeyInv, NEW p \in Processors, CommitState(p)
    PROVE  C!CountersNext
  <1> DEFINE n == Tx(p).name
             v == Tx(p).value
             h == Home(p)
  <1>1. /\ Valid(Tx(p)) /\ h \in Addresses /\ n \in Names /\ v \in Values
        /\ entries[h] \in Dicts /\ Applicable(Tx(p), entries[h])
        /\ entries' = [entries EXCEPT ![h] = Updated(Tx(p), entries[h])]
    BY JobsListAddresses DEF CommitState, Commit, IntkeyInv, IntkeyTypeOK,
       DataCurrent, Points, Busy, Valid
  <1>2. valueOf' = [valueOf EXCEPT ![n] = NewValue(Tx(p), entries[h])]
    <2>1. \A m \in Names : valueOf'[m] = IF m = n THEN NewValue(Tx(p), entries[h])
                                               ELSE valueOf[m]
      <3> SUFFICES ASSUME NEW m \in Names
                   PROVE  valueOf'[m] = IF m = n THEN NewValue(Tx(p), entries[h])
                                                 ELSE valueOf[m]
        OBVIOUS
      <3>1. CASE AddressOf[m] # h
        BY <1>1, <3>1, NamesAssumption
           DEF valueOf, Home, IntkeyInv, IntkeyTypeOK
      <3>2. CASE AddressOf[m] = h
        <4>1. entries'[h] = Updated(Tx(p), entries[h])
          BY <1>1 DEF IntkeyInv, IntkeyTypeOK
        <4> QED BY <3>2, <4>1 DEF valueOf, Updated
      <3> QED BY <3>1, <3>2
    <2> QED BY <1>1, <2>1 DEF valueOf
  <1>3. n \in DOMAIN entries[h] =>
            valueOf[n] = entries[h][n] /\ entries[h][n] \in Values
    BY <1>1 DEF valueOf, Home, Dicts
  <1>4. n \notin DOMAIN entries[h] => valueOf[n] = Unset
    BY <1>1 DEF valueOf, Home
  <1>5. Unset \notin Values
    BY MaxValueAssumption DEF Values
  <1>6. CASE Tx(p).verb = "set"
    <2>1. C!Set(n, v)
      BY <1>1, <1>2, <1>4, <1>6 DEF Applicable, NewValue, C!Set
    <2> QED BY <1>1, <2>1 DEF C!CountersNext, C!Values, Values
  <1>7. CASE Tx(p).verb = "inc"
    <2>1. C!Inc(n, v)
      BY <1>1, <1>2, <1>3, <1>5, <1>7 DEF Applicable, NewValue, C!Inc
    <2> QED BY <1>1, <2>1 DEF C!CountersNext, C!Values, Values
  <1>8. CASE Tx(p).verb = "dec"
    <2>1. C!Dec(n, v)
      BY <1>1, <1>2, <1>3, <1>5, <1>8 DEF Applicable, NewValue, C!Dec
    <2> QED BY <1>1, <2>1 DEF C!CountersNext, C!Values, Values
  <1> QED BY <1>1, <1>6, <1>7, <1>8 DEF Valid, ValidVerbs

\* Every other step leaves the counters alone.
LEMMA OthersStutter ==
    ASSUME [IntkeyNext]_familyVars,
           \A p \in Processors : ~CommitState(p)
    PROVE  UNCHANGED valueOf
  <1>1. UNCHANGED entries
    BY DEF IntkeyNext, familyVars, Deliver, Restart, Refuse, Die, GetStateData,
       GetState, DoIntkey, Computes, SetStateData, SetState, StateError, Ends,
       Decline, Disconnected, Forget
  <1> QED BY <1>1 DEF valueOf

\* The integer key family is one of counters: for any number of processors,
\* names and collisions, and for any bound.
THEOREM CountsAsPromised == IntkeySpec => KeepsCounters
  <1>1. FamilyInit => C!CountersInit
    BY NamesAssumption DEF FamilyInit, C!CountersInit, valueOf, EmptyDict
  <1>2. ASSUME IntkeyInv, [IntkeyNext]_familyVars
        PROVE  [C!CountersNext]_valueOf
    BY <1>2, CommitCounts, OthersStutter
  <1> QED BY <1>1, <1>2, IntkeyInvariant, PTL
          DEF IntkeySpec, KeepsCounters, C!CountersSpec
=============================================================================
