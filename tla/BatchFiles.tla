----------------------------- MODULE BatchFiles -----------------------------
(***************************************************************************)
(* examples/intkey_python/sawtooth_intkey/client_cli: the commands that    *)
(* write a file of batches (create_batch.py, populate.py, generate.py) and *)
(* the one that submits it (load.py), each file by a program of its own,   *)
(* to one validator.                                                       *)
(*                                                                         *)
(* A transaction is its verb, its key and its dependencies.  "update"      *)
(* stands for "inc" and "dec", and the amounts are left out: an update may *)
(* find its counter at a bound.  The validator is external.                *)
(***************************************************************************)
EXTENDS Integers, Sequences, FiniteSets

CONSTANTS
    Programs,
    Commands,      \* the commands a program may be the run of
    Words,         \* what generate_word_list draws keys from
    KeyCount,      \* --key-count, --pool-size
    Count,         \* --count
    MaxBatchSize,  \* --max-batch-size
    ChunkSize,     \* of _split_batch_list, 100
    Workers,       \* of the executor in do_load, 5
    NoOne

ASSUME CommandsAssumption ==
    Commands \in [Programs -> SUBSET {"create_batch", "populate", "generate"}]
ASSUME ProgramsAssumption == NoOne \notin Programs
ASSUME SizesAssumption ==
    /\ KeyCount \in Nat \ {0}
    /\ MaxBatchSize \in Nat \ {0}
    /\ Count \in Nat
ASSUME ChunkAssumption == ChunkSize \in Nat \ {0}
ASSUME WorkersAssumption == Workers \in Nat \ {0}

VARIABLES
    command,    \* which of its commands a program runs
    step,       \* how far it is: "start", "generate", "load", "done"
    keys,       \* for each key of its pool, the dependencies of an update
    file,       \* its batches, in order
    handed,     \* how many of them have been handed to the executor
    queue,      \* chunks no thread has taken
    posting,    \* chunks in post_batches
    posted,     \* chunks whose future is done
    pending,    \* external: batches the validator has not settled
    committed,
    invalid,
    setter      \* external: who set the key, or NoOne

making == <<command, keys, file>>
loading == <<handed, queue, posting, posted>>
settled == <<committed, invalid, setter>>
filesVars == <<step, making, loading, pending, settled>>

-----------------------------------------------------------------------------
(* A batch is named by its program and its place in the file (for its      *)
(* header signature), a transaction by its place in the batch as well.     *)

Ids == Programs \X (Nat \ {0})
TxnIds == Programs \X (Nat \ {0}) \X (Nat \ {0})
Txns == [verb : {"set", "update"}, name : Words, deps : SUBSET TxnIds]
Pools == UNION {[ns -> SUBSET TxnIds] : ns \in SUBSET Words}
Chunks == [first : Nat, last : Nat]

Batch(id) == file[id[1]][id[2]]
In(i, ch) == ch.first <= i /\ i <= ch.last

NewTxn(verb, name, deps) == [verb |-> verb, name |-> name, deps |-> deps]

FilesInit ==
    /\ step = [p \in Programs |-> "start"]
    /\ command \in [Programs -> UNION {Commands[p] : p \in Programs}]
    /\ \A p \in Programs : command[p] \in Commands[p]
    /\ keys = [p \in Programs |-> [n \in {} |-> {}]]
    /\ file = [p \in Programs |-> <<>>]
    /\ handed = [p \in Programs |-> 0]
    /\ queue = [p \in Programs |-> <<>>]
    /\ posting = [p \in Programs |-> {}]
    /\ posted = [p \in Programs |-> {}]
    /\ pending = {} /\ committed = {} /\ invalid = {}
    /\ setter = [n \in Words |-> NoOne]

Goes(p, from, to) == step[p] = from /\ step' = [step EXCEPT ![p] = to]

-----------------------------------------------------------------------------
(* The commands that make a file                                           *)

NamesOf(ns) == {ns[i] : i \in DOMAIN ns}
Sets(ns) == [k \in DOMAIN ns |-> NewTxn("set", ns[k], {})]

\* Mutant of Pool: the words are a list, as in populate.
PoolList(ns) == TRUE

\* generate_word_list of create_batch.py returns a dict.
Pool(ns) == \A i, j \in DOMAIN ns : ns[i] = ns[j] => i = j

\* Mutant of Signatures: of transactions that are not in the file.
SignaturesStale(p, ns) ==
    [n \in NamesOf(ns) |-> {<<p, Count + 2, 1>>}]

\* What create_batch's do_populate leaves in keys.
Signatures(p, ns) ==
    [n \in NamesOf(ns) |-> {<<p, 1, k>> : k \in {i \in DOMAIN ns : ns[i] = n}}]

\* do_populate of create_batch.py.
CreateKeys(p) ==
    /\ command[p] = "create_batch"
    /\ Goes(p, "start", "generate")
    /\ \E m \in 1 .. KeyCount : \E ns \in [1 .. m -> Words] :
        /\ Pool(ns)
        /\ file' = [file EXCEPT ![p] = <<Sets(ns)>>]
        /\ keys' = [keys EXCEPT ![p] = Signatures(p, ns)]
    /\ UNCHANGED <<command, loading, pending, settled>>

\* do_populate of populate.py. Its words are a list.
Populate(p) ==
    /\ command[p] = "populate"
    /\ Goes(p, "start", "load")
    /\ \E ns \in [1 .. KeyCount -> Words] :
          file' = [file EXCEPT ![p] = <<Sets(ns)>>]
    /\ UNCHANGED <<command, keys, loading, pending, settled>>

\* do_generate of generate.py: its own list of words, which nothing sets.
DrawPool(p) ==
    /\ command[p] = "generate"
    /\ Goes(p, "start", "generate")
    /\ \E ns \in [1 .. KeyCount -> Words] :
          keys' = [keys EXCEPT ![p] = [n \in NamesOf(ns) |-> {}]]
    /\ UNCHANGED <<command, file, loading, pending, settled>>

ToGenerate(p) == IF command[p] = "create_batch" THEN Count + 1 ELSE Count

\* Mutant of Dependencies: those of generate, for create_batch as well.
NoDependencies(p, n) == {}

Dependencies(p, n) == keys[p][n]

\* One batch of do_generate, of either command.
Generate(p) ==
    /\ step[p] = "generate"
    /\ Len(file[p]) < ToGenerate(p)
    /\ \E m \in 1 .. MaxBatchSize : \E ns \in [1 .. m -> DOMAIN keys[p]] :
          file' = [file EXCEPT ![p] = Append(@,
              [k \in 1 .. m |-> NewTxn("update", ns[k], Dependencies(p, ns[k]))])]
    /\ UNCHANGED <<step, command, keys, loading, pending, settled>>

WriteFile(p) ==
    /\ Len(file[p]) = ToGenerate(p)
    /\ Goes(p, "generate", "load")
    /\ UNCHANGED <<making, loading, pending, settled>>

-----------------------------------------------------------------------------
(* load                                                                    *)

LastOfChunk(p) == IF Len(file[p]) - handed[p] < ChunkSize
                  THEN Len(file[p]) ELSE handed[p] + ChunkSize

\* Mutant of NextChunk: it begins with the last batch of the one before.
OverlappingChunk(p) ==
    [first |-> IF handed[p] = 0 THEN 1 ELSE handed[p], last |-> LastOfChunk(p)]

\* The next chunk of _split_batch_list.
NextChunk(p) == [first |-> handed[p] + 1, last |-> LastOfChunk(p)]

\* One turn of the loop in do_load.
Submit(p) ==
    /\ step[p] = "load"
    /\ handed[p] < Len(file[p])
    /\ queue' = [queue EXCEPT ![p] = Append(@, NextChunk(p))]
    /\ handed' = [handed EXCEPT ![p] = LastOfChunk(p)]
    /\ UNCHANGED <<step, making, posting, posted, pending, settled>>

\* One of the threads takes the chunk that has waited longest.
Take(p) ==
    /\ queue[p] # <<>>
    /\ Cardinality(posting[p]) < Workers
    /\ queue' = [queue EXCEPT ![p] = Tail(@)]
    /\ posting' = [posting EXCEPT ![p] = @ \cup {Head(queue[p])}]
    /\ UNCHANGED <<step, making, handed, posted, pending, settled>>

Done(p, ch) ==
    /\ ch \in posting[p]
    /\ posting' = [posting EXCEPT ![p] = @ \ {ch}]
    /\ posted' = [posted EXCEPT ![p] = @ \cup {ch}]
    /\ UNCHANGED <<step, making, handed, queue, settled>>

BatchesOf(p, ch) == {<<p, i>> : i \in ch.first .. ch.last}

\* The REST API takes the batches; the answer may be lost (RemoteDisconnected,
\* or an error in result.json), which post_batches' future is not asked for.
PostAccepted(p, ch) ==
    /\ Done(p, ch)
    /\ pending' = pending \cup BatchesOf(p, ch)

\* An HTTPError or a ConnectionError: logged, and the chunk is not retried.
PostFails(p, ch) ==
    /\ Done(p, ch)
    /\ UNCHANGED pending

\* wait(futures) returns. The program prints how many batches the file has.
LoadEnds(p) ==
    /\ handed[p] = Len(file[p]) /\ queue[p] = <<>> /\ posting[p] = {}
    /\ Goes(p, "load", "done")
    /\ UNCHANGED <<making, loading, pending, settled>>

-----------------------------------------------------------------------------
(* External: the validator.  It holds a batch back until what it depends   *)
(* on is settled, and then applies all its transactions or none.           *)

DependsOn(id) ==
    {<<d[1], d[2]>> : d \in UNION {Batch(id)[k].deps : k \in DOMAIN Batch(id)}}

SetIn(id, n) ==
    \E k \in DOMAIN Batch(id) : Batch(id)[k] = NewTxn("set", n, {})

\* No key is set twice, and none is updated that is not set.
Applicable(id) ==
    \A k \in DOMAIN Batch(id) :
        LET t == Batch(id)[k] IN
        IF t.verb = "update" THEN setter[t.name] # NoOne
        ELSE /\ setter[t.name] = NoOne
             /\ \A j \in 1 .. k - 1 : Batch(id)[j].name # t.name

Commit(id) ==
    /\ id \in pending
    /\ DependsOn(id) \subseteq committed
    /\ Applicable(id)
    /\ pending' = pending \ {id}
    /\ committed' = committed \cup {id}
    /\ setter' = [n \in Words |-> IF SetIn(id, n) THEN id[1] ELSE setter[n]]
    /\ UNCHANGED <<step, making, loading, invalid>>

\* A dependency is invalid, or a transaction is: an update also if it takes
\* its counter out of bounds.
Refuse(id) ==
    /\ id \in pending
    /\ DependsOn(id) \subseteq committed \cup invalid
    /\ \/ DependsOn(id) \cap invalid # {}
       \/ ~Applicable(id)
       \/ \E k \in DOMAIN Batch(id) : Batch(id)[k].verb = "update"
    /\ pending' = pending \ {id}
    /\ invalid' = invalid \cup {id}
    /\ UNCHANGED <<step, making, loading, committed, setter>>

-----------------------------------------------------------------------------
Make(p) == CreateKeys(p) \/ Populate(p) \/ DrawPool(p)
           \/ Generate(p) \/ WriteFile(p)

Load(p) ==
    \/ Submit(p)
    \/ Take(p)
    \/ \E ch \in posting[p] : PostAccepted(p, ch) \/ PostFails(p, ch)
    \/ LoadEnds(p)

Settle == \E id \in pending : Commit(id) \/ Refuse(id)

FilesNext == (\E p \in Programs : Make(p) \/ Load(p)) \/ Settle

FilesSpec == FilesInit /\ [][FilesNext]_filesVars

\* A program is not stopped, a request to the REST API ends with an answer or
\* an error, and the validator does not let batches wait for ever.
FilesFairSpec ==
    /\ FilesSpec
    /\ \A p \in Programs : WF_filesVars(Load(p))
    /\ WF_filesVars(Settle)

-----------------------------------------------------------------------------
(* Properties.                                                             *)

FilesTypeOK ==
    /\ step \in [Programs -> {"start", "generate", "load", "done"}]
    /\ command \in [Programs -> {"create_batch", "populate", "generate"}]
    /\ file \in [Programs -> Seq(Seq(Txns))]
    /\ keys \in [Programs -> Pools]
    /\ handed \in [Programs -> Nat]
    /\ queue \in [Programs -> Seq(Chunks)]
    /\ posting \in [Programs -> SUBSET Chunks]
    /\ posted \in [Programs -> SUBSET Chunks]
    /\ pending \in SUBSET Ids /\ committed \in SUBSET Ids /\ invalid \in SUBSET Ids
    /\ setter \in [Words -> Programs \cup {NoOne}]

CreatesBatch(p) == command[p] = "create_batch"
KeysOf(id) == {Batch(id)[k].name : k \in DOMAIN Batch(id)}
Accepted == pending \cup committed \cup invalid

\* An update that create_batch made is applied to no key but those the same
\* file has set, in whatever order the five threads deliver the chunks and
\* whatever else is submitted.
UpdatesOwnKeys ==
    \A id \in committed :
        CreatesBatch(id[1]) => \A n \in KeysOf(id) : setter[n] = id[1]

\* Of a file of create_batch, the batch that sets the keys is refused only
\* when another program has set one of them (all draw the first words of one
\* dictionary), and an update only for that, or at a bound of its counter.
RefusedForCause ==
    \A id \in invalid :
        CreatesBatch(id[1]) =>
            IF id[2] = 1
            THEN \E n \in KeysOf(id) : setter[n] \notin {id[1], NoOne}
            ELSE \/ <<id[1], 1>> \in invalid
                 \/ \A n \in KeysOf(id) : setter[n] = id[1]

Apart(a, b) == a.last < b.first \/ b.last < a.first

\* No batch of a file is in two of the requests of load.
NeverTwice(p) ==
    /\ \A j, k \in DOMAIN queue[p] : j # k => Apart(queue[p][j], queue[p][k])
    /\ \A k \in DOMAIN queue[p] : \A ch \in posting[p] \cup posted[p] :
          Apart(queue[p][k], ch)
    /\ \A a \in posting[p], b \in posted[p] : Apart(a, b)
    /\ \A a, b \in posting[p] : a = b \/ Apart(a, b)
    /\ \A a, b \in posted[p] : a = b \/ Apart(a, b)

\* load posts every batch of the file in exactly one request, of at most
\* ChunkSize batches, before it says it has.
PostedOnce ==
    \A p \in Programs :
        /\ NeverTwice(p)
        /\ \A ch \in posting[p] \cup posted[p] : ch.last - ch.first < ChunkSize
        /\ step[p] = "done" =>
              \A i \in 1 .. Len(file[p]) : \E ch \in posted[p] : In(i, ch)

\* A file of create_batch whose requests are all accepted is settled to the
\* last batch: no order of arrival leaves an update waiting for ever.
FileSettles ==
    \A p \in Programs :
        (/\ CreatesBatch(p) /\ step[p] = "done"
         /\ \A i \in DOMAIN file[p] : <<p, i>> \in Accepted)
        ~> \A i \in DOMAIN file[p] : <<p, i>> \in committed \cup invalid

\* The validator has all it needs to apply id or to refuse it.
CanSettle(id) ==
    \/ DependsOn(id) \subseteq committed /\ Applicable(id)
    \/ /\ DependsOn(id) \subseteq committed \cup invalid
       /\ DependsOn(id) \cap invalid # {} \/ ~Applicable(id)

\* Why such a file settles: once the batch that sets the keys is accepted, none
\* of its batches waits for one that is pending behind it, or was never made.
NoneStuck ==
    \A p \in Programs : CreatesBatch(p) /\ <<p, 1>> \in Accepted =>
        \A id \in pending :
            id[1] = p => \E first \in pending : first[1] = p /\ CanSettle(first)

-----------------------------------------------------------------------------
(* The inductive invariant behind the invariants.                          *)

OwnDeps(p, deps) == deps # {} /\ \A d \in deps : d[1] = p /\ d[2] = 1

\* A file of create_batch sets its keys first, each once, and then updates
\* only these, naming the batch that sets them.
CreatedInv(p) ==
    /\ Len(file[p]) >= 1
    /\ \A k \in DOMAIN file[p][1] :
          file[p][1][k] = NewTxn("set", file[p][1][k].name, {})
    /\ \A j, k \in DOMAIN file[p][1] :
          file[p][1][j].name = file[p][1][k].name => j = k
    /\ DOMAIN keys[p] \subseteq KeysOf(<<p, 1>>)
    /\ \A n \in DOMAIN keys[p] : OwnDeps(p, keys[p][n])
    /\ \A i \in DOMAIN file[p] : i # 1 =>
          \A k \in DOMAIN file[p][i] :
              /\ file[p][i][k].verb = "update"
              /\ file[p][i][k].name \in KeysOf(<<p, 1>>)
              /\ OwnDeps(p, file[p][i][k].deps)

FileInv(p) ==
    /\ step[p] = "start" => file[p] = <<>>
    /\ step[p] \in {"start", "generate"} =>
          handed[p] = 0 /\ queue[p] = <<>> /\ posting[p] = {} /\ posted[p] = {}
    /\ step[p] = "done" =>
          handed[p] = Len(file[p]) /\ queue[p] = <<>> /\ posting[p] = {}
    /\ CreatesBatch(p) /\ step[p] # "start" => CreatedInv(p)

ChunksOf(p) ==
    {queue[p][k] : k \in DOMAIN queue[p]} \cup posting[p] \cup posted[p]

\* What has been handed to the executor is cut into chunks without a gap.
ChunkInv(p) ==
    /\ NeverTwice(p)
    /\ handed[p] <= Len(file[p])
    /\ \A ch \in ChunksOf(p) :
          /\ 1 <= ch.first /\ ch.last <= handed[p]
          /\ ch.last - ch.first < ChunkSize
    /\ \A i \in 1 .. handed[p] : \E ch \in ChunksOf(p) : In(i, ch)

\* Only what was posted is accepted, and it is pending, committed or invalid.
AcceptedInv ==
    /\ \A id \in Accepted : \E ch \in posted[id[1]] : In(id[2], ch)
    /\ pending \cap (committed \cup invalid) = {} /\ committed \cap invalid = {}

SetterInv ==
    \A n \in Words : setter[n] \in Programs /\ CreatesBatch(setter[n])
                         => <<setter[n], 1>> \in committed

FilesInv ==
    /\ FilesTypeOK
    /\ \A p \in Programs : FileInv(p) /\ ChunkInv(p)
    /\ AcceptedInv /\ SetterInv
    /\ UpdatesOwnKeys /\ RefusedForCause
=============================================================================
