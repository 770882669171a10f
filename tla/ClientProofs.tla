---------------------------- MODULE ClientProofs ----------------------------
(***************************************************************************)
(* Proofs about the commands of the families, which reach the validator    *)
(* over the REST API: BatchFiles and Commands.                             *)
(***************************************************************************)
EXTENDS BatchFiles, Commands, SequenceTheorems, TLAPS

-----------------------------------------------------------------------------
(* BatchFiles: what the validator does with the files of create_batch, and *)
(* what load posts, for any number of programs, words, threads, and any    *)
(* sizes.                                                                  *)

\* A list that is given by its elements.
LEMMA ListFacts ==
    ASSUME NEW S, NEW m \in Nat, NEW f \in [1 .. m -> S]
    PROVE  f \in Seq(S) /\ Len(f) = m /\ DOMAIN f = 1 .. m
  <1>1. f \in Seq(S)
    BY SeqDef
  <1>2. DOMAIN f = 1 .. m
    OBVIOUS
  <1>3. Len(f) \in Nat /\ DOMAIN f = 1 .. Len(f)
    BY <1>1, LenProperties
  <1>4. Len(f) = m
    BY <1>2, <1>3
  <1> QED BY <1>1, <1>2, <1>4

\* What a step of p to one of its files leaves of the others.
LEMMA FileFacts ==
    ASSUME FilesTypeOK, NEW p \in Programs
    PROVE  /\ file[p] \in Seq(Seq(Txns)) /\ Len(file[p]) \in Nat
           /\ DOMAIN file[p] = 1 .. Len(file[p])
           /\ \A i \in DOMAIN file[p] : file[p][i] \in Seq(Txns)
           /\ handed[p] \in Nat
           /\ queue[p] \in Seq(Chunks) /\ Len(queue[p]) \in Nat
           /\ DOMAIN queue[p] = 1 .. Len(queue[p])
           /\ posting[p] \in SUBSET Chunks /\ posted[p] \in SUBSET Chunks
           /\ \A k \in DOMAIN queue[p] : queue[p][k] \in Chunks
  <1>1. file[p] \in Seq(Seq(Txns)) /\ queue[p] \in Seq(Chunks)
    BY DEF FilesTypeOK
  <1>2. handed[p] \in Nat /\ posting[p] \in SUBSET Chunks
        /\ posted[p] \in SUBSET Chunks
    BY DEF FilesTypeOK
  <1>3. /\ Len(file[p]) \in Nat /\ DOMAIN file[p] = 1 .. Len(file[p])
        /\ Len(queue[p]) \in Nat /\ DOMAIN queue[p] = 1 .. Len(queue[p])
    BY <1>1, LenProperties
  <1>4. \A i \in DOMAIN file[p] : file[p][i] \in Seq(Txns)
    BY <1>1, <1>3, ElementOfSeq
  <1>5. \A k \in DOMAIN queue[p] : queue[p][k] \in Chunks
    BY <1>1, <1>3, ElementOfSeq
  <1> QED BY <1>1, <1>2, <1>3, <1>4, <1>5

LEMMA InitFilesInv == FilesInit => FilesInv
  <1> SUFFICES ASSUME FilesInit PROVE FilesInv
    OBVIOUS
  <1> USE DEF FilesInit
  <1>0. [n \in {} |-> {}] \in [{} -> SUBSET TxnIds] /\ {} \in SUBSET Words
    OBVIOUS
  <1>1. [n \in {} |-> {}] \in Pools
    BY <1>0 DEF Pools
  <1>2. FilesTypeOK
    <2>1. command \in [Programs -> {"create_batch", "populate", "generate"}]
      BY CommandsAssumption
    <2>2. file \in [Programs -> Seq(Seq(Txns))] /\ queue \in [Programs -> Seq(Chunks)]
      OBVIOUS
    <2> QED BY <1>1, <2>1, <2>2 DEF FilesTypeOK
  <1>3. ASSUME NEW p \in Programs PROVE FileInv(p) /\ ChunkInv(p)
    BY DEF FileInv, ChunkInv, NeverTwice, ChunksOf
  <1>4. AcceptedInv /\ SetterInv /\ UpdatesOwnKeys /\ RefusedForCause
    BY ProgramsAssumption
       DEF AcceptedInv, Accepted, SetterInv, UpdatesOwnKeys, RefusedForCause
  <1> QED BY <1>2, <1>3, <1>4 DEF FilesInv

-----------------------------------------------------------------------------
(* What an accepted batch is.                                              *)

\* Its program has left the making of the file behind, and it is in it.
LEMMA AcceptedFacts ==
    ASSUME FilesInv, NEW id \in Accepted
    PROVE  /\ id[1] \in Programs /\ id[2] \in 1 .. Len(file[id[1]])
           /\ id = <<id[1], id[2]>>
           /\ step[id[1]] \in {"load", "done"}
  <1>1. id \in Ids
    BY DEF FilesInv, FilesTypeOK, Accepted
  <1>2. PICK ch \in posted[id[1]] : In(id[2], ch)
    BY DEF FilesInv, AcceptedInv
  <1>3. id[1] \in Programs /\ id[2] \in Nat /\ id = <<id[1], id[2]>>
    BY <1>1 DEF Ids
  <1>4. 1 <= ch.first /\ ch.last <= handed[id[1]] /\ handed[id[1]] <= Len(file[id[1]])
    BY <1>2, <1>3 DEF FilesInv, ChunkInv, ChunksOf
  <1>5. ch \in Chunks /\ handed[id[1]] \in Nat /\ Len(file[id[1]]) \in Nat
    BY <1>2, <1>3, FileFacts DEF FilesInv
  <1>6. id[2] \in 1 .. Len(file[id[1]])
    BY <1>2, <1>3, <1>4, <1>5 DEF In, Chunks
  <1>7. step[id[1]] \in {"load", "done"}
    BY <1>2, <1>3 DEF FilesInv, FilesTypeOK, FileInv
  <1> QED BY <1>3, <1>6, <1>7

\* A batch of create_batch, and the batches it depends on.
LEMMA CreatedFacts ==
    ASSUME FilesInv, NEW id \in Accepted, CreatesBatch(id[1])
    PROVE  /\ id[2] = 1 =>
                /\ DependsOn(id) = {}
                /\ \A k \in DOMAIN Batch(id) :
                      Batch(id)[k] = NewTxn("set", Batch(id)[k].name, {})
                /\ \A j, k \in DOMAIN Batch(id) :
                      Batch(id)[j].name = Batch(id)[k].name => j = k
           /\ id[2] # 1 =>
                /\ DependsOn(id) \subseteq {<<id[1], 1>>}
                /\ KeysOf(id) # {} => DependsOn(id) = {<<id[1], 1>>}
                /\ KeysOf(id) \subseteq KeysOf(<<id[1], 1>>)
                /\ \A n : ~SetIn(id, n)
  <1> DEFINE p == id[1]
  <1>1. /\ p \in Programs /\ id[2] \in 1 .. Len(file[p]) /\ id = <<p, id[2]>>
        /\ step[p] \in {"load", "done"}
    BY AcceptedFacts
  <1>2. CreatedInv(p)
    BY <1>1 DEF FilesInv, FileInv
  <1>3. DOMAIN file[p] = 1 .. Len(file[p])
    BY <1>1, FileFacts DEF FilesInv
  <1>4. ASSUME id[2] = 1
        PROVE  /\ \A k \in DOMAIN Batch(id) :
                      Batch(id)[k] = NewTxn("set", Batch(id)[k].name, {})
               /\ \A j, k \in DOMAIN Batch(id) :
                      Batch(id)[j].name = Batch(id)[k].name => j = k
    BY <1>2, <1>4 DEF CreatedInv, Batch
  <1>5. ASSUME id[2] = 1 PROVE DependsOn(id) = {}
    <2>1. \A k \in DOMAIN Batch(id) : Batch(id)[k].deps = {}
      BY <1>4, <1>5 DEF NewTxn
    <2> QED BY <2>1 DEF DependsOn
  <1>6. ASSUME id[2] # 1
        PROVE  /\ \A k \in DOMAIN Batch(id) :
                    /\ Batch(id)[k].verb = "update"
                    /\ Batch(id)[k].name \in KeysOf(<<p, 1>>)
                    /\ OwnDeps(p, Batch(id)[k].deps)
    BY <1>1, <1>2, <1>3, <1>6 DEF CreatedInv, Batch
  <1>7. ASSUME id[2] # 1
        PROVE  /\ DependsOn(id) \subseteq {<<p, 1>>}
               /\ KeysOf(id) # {} => DependsOn(id) = {<<p, 1>>}
    BY <1>6, <1>7 DEF DependsOn, OwnDeps, KeysOf
  <1>8. ASSUME id[2] # 1
        PROVE  KeysOf(id) \subseteq KeysOf(<<p, 1>>) /\ \A n : ~SetIn(id, n)
    BY <1>6, <1>8 DEF KeysOf, SetIn, NewTxn
  <1> QED BY <1>4, <1>5, <1>7, <1>8

-----------------------------------------------------------------------------
(* The commands that make a file.                                          *)

\* What their steps have in common: p, which has posted nothing yet, makes
\* more of its file, or is done with it.
LEMMA MakingStep ==
    ASSUME FilesInv, NEW p \in Programs, step[p] \in {"start", "generate"},
           NEW s \in {"generate", "load"}, step' = [step EXCEPT ![p] = s],
           NEW f \in Seq(Seq(Txns)), file' = [file EXCEPT ![p] = f],
           NEW ks \in Pools, keys' = [keys EXCEPT ![p] = ks],
           UNCHANGED <<command, loading, pending, settled>>,
           CreatesBatch(p) => CreatedInv(p)'
    PROVE  FilesInv'
  <1> USE DEF loading, settled
  <1>1. FilesTypeOK'
    BY DEF FilesInv, FilesTypeOK
  <1>2. \A q \in Programs \ {p} :
            step'[q] = step[q] /\ file'[q] = file[q] /\ keys'[q] = keys[q]
    BY DEF FilesInv, FilesTypeOK
  <1>3. step'[p] = s /\ file'[p] = f
    BY DEF FilesInv, FilesTypeOK
  <1>4. ASSUME NEW q \in Programs PROVE FileInv(q)'
    <2>1. CASE q = p
      BY <1>3, <2>1 DEF FilesInv, FileInv, CreatesBatch
    <2>2. CASE q # p
      BY <1>2, <2>2 DEF FilesInv, FileInv, CreatesBatch, CreatedInv, KeysOf, Batch
    <2> QED BY <2>1, <2>2
  <1>5. ASSUME NEW q \in Programs PROVE ChunkInv(q)'
    <2>1. handed[q] <= Len(file'[q])
      <3>1. CASE q = p
        <4>1. handed[p] = 0
          BY DEF FilesInv, FileInv
        <4>2. Len(f) \in Nat
          BY LenProperties
        <4> QED BY <1>3, <3>1, <4>1, <4>2
      <3>2. CASE q # p
        BY <1>2, <3>2 DEF FilesInv, ChunkInv
      <3> QED BY <3>1, <3>2
    <2> QED BY <2>1 DEF FilesInv, ChunkInv, ChunksOf, NeverTwice
  <1>6. AcceptedInv' /\ SetterInv'
    BY DEF FilesInv, AcceptedInv, Accepted, SetterInv, CreatesBatch
  <1>7. \A id \in Accepted : KeysOf(id)' = KeysOf(id)
    <2>1. \A id \in Accepted : id[1] \in Programs \ {p}
      BY AcceptedFacts
    <2> QED BY <1>2, <2>1 DEF KeysOf, Batch
  <1>8. UpdatesOwnKeys'
    <2> SUFFICES ASSUME NEW id \in committed, CreatesBatch(id[1]),
                        NEW n \in KeysOf(id)'
                 PROVE  setter[n] = id[1]
      BY DEF UpdatesOwnKeys, CreatesBatch
    <2>1. n \in KeysOf(id)
      BY <1>7 DEF Accepted
    <2> QED BY <2>1 DEF FilesInv, UpdatesOwnKeys
  <1>9. RefusedForCause'
    <2> SUFFICES ASSUME NEW id \in invalid, CreatesBatch(id[1])
                 PROVE  IF id[2] = 1
                        THEN \E n \in KeysOf(id)' : setter[n] \notin {id[1], NoOne}
                        ELSE \/ <<id[1], 1>> \in invalid
                             \/ \A n \in KeysOf(id)' : setter[n] = id[1]
      BY DEF RefusedForCause, CreatesBatch
    <2>1. KeysOf(id)' = KeysOf(id)
      BY <1>7 DEF Accepted
    <2> QED BY <2>1 DEF FilesInv, RefusedForCause
  <1> QED BY <1>1, <1>4, <1>5, <1>6, <1>8, <1>9 DEF FilesInv

\* The batch that sets the words of a list.
LEMMA SetsFacts ==
    ASSUME NEW m \in Nat \ {0}, NEW ns \in [1 .. m -> Words]
    PROVE  /\ <<Sets(ns)>> \in Seq(Seq(Txns))
           /\ DOMAIN Sets(ns) = 1 .. m
           /\ \A k \in 1 .. m : Sets(ns)[k] = NewTxn("set", ns[k], {})
  <1>1. Sets(ns) \in [1 .. m -> Txns]
    BY DEF Sets, NewTxn, Txns
  <1>2. Sets(ns) \in Seq(Txns)
    BY <1>1, ListFacts
  <1> QED BY <1>2 DEF Sets

LEMMA CreateKeysStep ==
    ASSUME FilesInv, NEW p \in Programs, CreateKeys(p)
    PROVE  FilesInv'
  <1> USE DEF CreateKeys, Goes
  <1>1. PICK m \in 1 .. KeyCount : \E ns \in [1 .. m -> Words] :
            /\ Pool(ns)
            /\ file' = [file EXCEPT ![p] = <<Sets(ns)>>]
            /\ keys' = [keys EXCEPT ![p] = Signatures(p, ns)]
    OBVIOUS
  <1>2. PICK ns \in [1 .. m -> Words] :
            /\ Pool(ns)
            /\ file' = [file EXCEPT ![p] = <<Sets(ns)>>]
            /\ keys' = [keys EXCEPT ![p] = Signatures(p, ns)]
    BY <1>1
  <1>3. m \in Nat \ {0}
    BY SizesAssumption
  <1>4. Signatures(p, ns) \in [NamesOf(ns) -> SUBSET TxnIds]
    BY <1>3 DEF Signatures, TxnIds
  <1>5. NamesOf(ns) \in SUBSET Words
    BY DEF NamesOf
  <1>6. Signatures(p, ns) \in Pools
    BY <1>4, <1>5 DEF Pools
  <1>7. <<Sets(ns)>> \in Seq(Seq(Txns))
    BY <1>3, SetsFacts
  <1>8. CreatedInv(p)'
    <2>1. file'[p] = <<Sets(ns)>> /\ keys'[p] = Signatures(p, ns)
      BY <1>2 DEF FilesInv, FilesTypeOK
    <2>2. /\ Len(file'[p]) = 1 /\ DOMAIN file'[p] = {1}
          /\ file'[p][1] = Sets(ns)
      BY <2>1
    <2>3. DOMAIN Sets(ns) = 1 .. m
          /\ \A k \in 1 .. m : Sets(ns)[k] = NewTxn("set", ns[k], {})
                               /\ Sets(ns)[k].name = ns[k]
      BY <1>3, SetsFacts DEF NewTxn
    <2>4. \A j, k \in 1 .. m : ns[j] = ns[k] => j = k
      BY <1>2 DEF Pool
    <2>5. NamesOf(ns) \subseteq KeysOf(<<p, 1>>)'
      BY <2>2, <2>3 DEF NamesOf, KeysOf, Batch
    <2>6. \A n \in NamesOf(ns) : OwnDeps(p, Signatures(p, ns)[n])
      <3> SUFFICES ASSUME NEW i \in DOMAIN ns
                   PROVE  OwnDeps(p, Signatures(p, ns)[ns[i]])
        BY DEF NamesOf
      <3>1. Signatures(p, ns)[ns[i]]
                = {<<p, 1, k>> : k \in {j \in DOMAIN ns : ns[j] = ns[i]}}
        BY DEF Signatures, NamesOf
      <3>2. <<p, 1, i>> \in Signatures(p, ns)[ns[i]]
        BY <3>1
      <3>3. \A d \in Signatures(p, ns)[ns[i]] : d[1] = p /\ d[2] = 1
        BY <3>1
      <3> QED BY <3>2, <3>3 DEF OwnDeps
    <2>7. DOMAIN keys'[p] = NamesOf(ns)
      BY <2>1 DEF Signatures
    <2>8. \A k \in DOMAIN file'[p][1] :
              file'[p][1][k] = NewTxn("set", file'[p][1][k].name, {})
      BY <2>2, <2>3
    <2>9. \A j, k \in DOMAIN file'[p][1] :
              file'[p][1][j].name = file'[p][1][k].name => j = k
      BY <2>2, <2>3, <2>4
    <2>10. Len(file'[p]) >= 1 /\ \A i \in DOMAIN file'[p] : i = 1
      BY <2>2
    <2>11. DOMAIN keys'[p] \subseteq KeysOf(<<p, 1>>)'
      BY <2>5, <2>7
    <2>12. \A n \in DOMAIN keys'[p] : OwnDeps(p, keys'[p][n])
      BY <2>1, <2>6, <2>7
    <2> HIDE DEF CreateKeys, Goes
    <2> QED BY <2>8, <2>9, <2>10, <2>11, <2>12, Zenon DEF CreatedInv
  <1> QED BY <1>2, <1>6, <1>7, <1>8, MakingStep

LEMMA PopulateStep ==
    ASSUME FilesInv, NEW p \in Programs, Populate(p)
    PROVE  FilesInv'
  <1> USE DEF Populate, Goes
  <1>1. PICK ns \in [1 .. KeyCount -> Words] :
            file' = [file EXCEPT ![p] = <<Sets(ns)>>]
    OBVIOUS
  <1>2. <<Sets(ns)>> \in Seq(Seq(Txns))
    BY SetsFacts, SizesAssumption
  <1>3. keys[p] \in Pools /\ keys' = [keys EXCEPT ![p] = keys[p]]
    BY DEF FilesInv, FilesTypeOK
  <1>4. ~CreatesBatch(p)
    BY DEF CreatesBatch
  <1> QED BY <1>1, <1>2, <1>3, <1>4, MakingStep

LEMMA DrawPoolStep ==
    ASSUME FilesInv, NEW p \in Programs, DrawPool(p)
    PROVE  FilesInv'
  <1> USE DEF DrawPool, Goes
  <1>1. PICK ns \in [1 .. KeyCount -> Words] :
            keys' = [keys EXCEPT ![p] = [n \in NamesOf(ns) |-> {}]]
    OBVIOUS
  <1>2. [n \in NamesOf(ns) |-> {}] \in [NamesOf(ns) -> SUBSET TxnIds]
        /\ NamesOf(ns) \in SUBSET Words
    BY DEF NamesOf
  <1>3. [n \in NamesOf(ns) |-> {}] \in Pools
    BY <1>2 DEF Pools
  <1>4. file[p] \in Seq(Seq(Txns)) /\ file' = [file EXCEPT ![p] = file[p]]
    BY DEF FilesInv, FilesTypeOK
  <1>5. ~CreatesBatch(p)
    BY DEF CreatesBatch
  <1> QED BY <1>1, <1>3, <1>4, <1>5, MakingStep

LEMMA GenerateStep ==
    ASSUME FilesInv, NEW p \in Programs, Generate(p)
    PROVE  FilesInv'
  <1> USE DEF Generate
  <1> DEFINE B(ns, m) == [k \in 1 .. m |->
                              NewTxn("update", ns[k], Dependencies(p, ns[k]))]
  <1>0. PICK m \in 1 .. MaxBatchSize : \E ns \in [1 .. m -> DOMAIN keys[p]] :
            file' = [file EXCEPT ![p] = Append(@, B(ns, m))]
    OBVIOUS
  <1>1. PICK ns \in [1 .. m -> DOMAIN keys[p]] :
            file' = [file EXCEPT ![p] = Append(file[p], B(ns, m))]
    BY <1>0 DEF FilesInv, FilesTypeOK
  <1>2. m \in Nat
    BY SizesAssumption
  <1>3. /\ keys[p] \in Pools /\ keys' = [keys EXCEPT ![p] = keys[p]]
        /\ step' = [step EXCEPT ![p] = "generate"]
    BY DEF FilesInv, FilesTypeOK
  <1>4. PICK ws \in SUBSET Words : keys[p] \in [ws -> SUBSET TxnIds]
    BY <1>3 DEF Pools
  <1>5. B(ns, m) \in [1 .. m -> Txns]
    BY <1>4 DEF NewTxn, Txns, Dependencies
  <1>6. B(ns, m) \in Seq(Txns)
    BY <1>2, <1>5, ListFacts
  <1>7. Append(file[p], B(ns, m)) \in Seq(Seq(Txns))
    BY <1>6, FileFacts DEF FilesInv
  <1>8. CreatesBatch(p) => CreatedInv(p)'
    <2> SUFFICES ASSUME CreatesBatch(p) PROVE CreatedInv(p)'
      OBVIOUS
    <2> DEFINE f == file[p]
               g == file'[p]
    <2>1. CreatedInv(p)
      BY DEF FilesInv, FileInv
    <2>2. f \in Seq(Seq(Txns)) /\ Len(f) \in Nat /\ Len(f) >= 1
          /\ DOMAIN f = 1 .. Len(f)
      BY <2>1, FileFacts DEF FilesInv, CreatedInv
    <2>3. g = Append(f, B(ns, m))
      BY <1>1 DEF FilesInv, FilesTypeOK
    <2>4. /\ Len(g) = Len(f) + 1 /\ DOMAIN g = 1 .. Len(f) + 1
          /\ \A i \in DOMAIN f : g[i] = f[i]
          /\ g[Len(f) + 1] = B(ns, m)
      <3>1. g = Append(f, B(ns, m)) /\ B(ns, m) \in Seq(Txns)
        BY <1>6, <2>3
      <3> HIDE DEF f, g, B
      <3>2. Append(f, B(ns, m)) \in Seq(Seq(Txns))
            /\ Len(Append(f, B(ns, m))) = Len(f) + 1
            /\ \A i \in 1 .. Len(f) : Append(f, B(ns, m))[i] = f[i]
            /\ Append(f, B(ns, m))[Len(f) + 1] = B(ns, m)
        BY <2>2, <3>1, AppendProperties
      <3> QED BY <2>2, <3>1, <3>2, LenProperties
    <2>5. g[1] = f[1] /\ KeysOf(<<p, 1>>)' = KeysOf(<<p, 1>>)
      <3>1. g[1] = f[1]
        BY <2>2, <2>4
      <3>2. Batch(<<p, 1>>)' = Batch(<<p, 1>>)
        BY <3>1 DEF Batch
      <3> HIDE DEF f, g
      <3>3. KeysOf(<<p, 1>>)' = KeysOf(<<p, 1>>)
        BY <3>2 DEF KeysOf
      <3> QED BY <3>1, <3>3
    <2>6. \A k \in DOMAIN B(ns, m) :
              /\ B(ns, m)[k].verb = "update"
              /\ B(ns, m)[k].name \in DOMAIN keys[p]
              /\ B(ns, m)[k].deps = keys[p][B(ns, m)[k].name]
      BY DEF NewTxn, Dependencies
    <2>7. ASSUME NEW i \in DOMAIN g, i # 1, NEW k \in DOMAIN g[i]
          PROVE  /\ g[i][k].verb = "update"
                 /\ g[i][k].name \in KeysOf(<<p, 1>>)
                 /\ OwnDeps(p, g[i][k].deps)
      <3>1. CASE i \in DOMAIN f
        <4>1. g[i] = f[i]
          BY <2>4, <3>1
        <4> QED BY <2>1, <2>7, <3>1, <4>1 DEF CreatedInv
      <3>2. CASE i = Len(f) + 1
        <4>1. g[i] = B(ns, m)
          BY <2>4, <3>2
        <4>2. /\ DOMAIN keys[p] \subseteq KeysOf(<<p, 1>>)
              /\ \A n \in DOMAIN keys[p] : OwnDeps(p, keys[p][n])
          BY <2>1 DEF CreatedInv
        <4> HIDE DEF B, f, g
        <4> QED BY <2>6, <2>7, <4>1, <4>2
      <3>3. i \in DOMAIN f \/ i = Len(f) + 1
        BY <2>2, <2>4, <2>7
      <3> QED BY <3>1, <3>2, <3>3
    <2>8. keys'[p] = keys[p]
      BY DEF FilesInv, FilesTypeOK
    <2>9. /\ \A k \in DOMAIN g[1] : g[1][k] = NewTxn("set", g[1][k].name, {})
          /\ \A j, k \in DOMAIN g[1] : g[1][j].name = g[1][k].name => j = k
      BY <2>1, <2>5 DEF CreatedInv
    <2>10. /\ DOMAIN keys'[p] \subseteq KeysOf(<<p, 1>>)'
           /\ \A n \in DOMAIN keys'[p] : OwnDeps(p, keys'[p][n])
      BY <2>1, <2>5, <2>8 DEF CreatedInv
    <2>11. Len(g) >= 1
      BY <2>2, <2>4
    <2>12. \A i \in DOMAIN g : i # 1 =>
               \A k \in DOMAIN g[i] : /\ g[i][k].verb = "update"
                                      /\ g[i][k].name \in KeysOf(<<p, 1>>)'
                                      /\ OwnDeps(p, g[i][k].deps)
      BY <2>5, <2>7
    <2> QED BY <2>9, <2>10, <2>11, <2>12 DEF CreatedInv
  <1> QED BY <1>1, <1>3, <1>7, <1>8, MakingStep

LEMMA WriteFileStep ==
    ASSUME FilesInv, NEW p \in Programs, WriteFile(p)
    PROVE  FilesInv'
  <1> USE DEF WriteFile, Goes, making
  <1>1. /\ keys[p] \in Pools /\ keys' = [keys EXCEPT ![p] = keys[p]]
        /\ file[p] \in Seq(Seq(Txns)) /\ file' = [file EXCEPT ![p] = file[p]]
    BY DEF FilesInv, FilesTypeOK
  <1>2. CreatesBatch(p) => CreatedInv(p)'
    BY DEF FilesInv, FileInv, CreatedInv, KeysOf, Batch
  <1> QED BY <1>1, <1>2, MakingStep

-----------------------------------------------------------------------------
(* load.                                                                   *)

\* What its steps have in common: no file changes, and nothing is settled.
LEMMA LoadingStep ==
    ASSUME FilesInv, UNCHANGED <<making, settled>>, FilesTypeOK', AcceptedInv',
           \A q \in Programs : FileInv(q)' /\ ChunkInv(q)'
    PROVE  FilesInv'
  BY DEF FilesInv, making, settled, SetterInv, UpdatesOwnKeys, RefusedForCause,
         CreatesBatch, KeysOf, Batch

\* A program that is not the one that moves keeps its part.
LEMMA OtherProgram ==
    ASSUME FilesInv, UNCHANGED making, NEW q \in Programs,
           step'[q] = step[q], handed'[q] = handed[q], queue'[q] = queue[q],
           posting'[q] = posting[q], posted'[q] = posted[q]
    PROVE  FileInv(q)' /\ ChunkInv(q)'
  BY DEF FilesInv, making, FileInv, ChunkInv, ChunksOf, NeverTwice,
         CreatedInv, CreatesBatch, KeysOf, Batch

LEMMA NextChunkFacts ==
    ASSUME FilesTypeOK, NEW p \in Programs, handed[p] < Len(file[p])
    PROVE  /\ NextChunk(p) \in Chunks
           /\ NextChunk(p).first = handed[p] + 1
           /\ NextChunk(p).last = LastOfChunk(p)
           /\ LastOfChunk(p) \in handed[p] + 1 .. Len(file[p])
           /\ LastOfChunk(p) - handed[p] <= ChunkSize
  BY FileFacts, ChunkAssumption DEF NextChunk, LastOfChunk, Chunks

LEMMA SubmitStep ==
    ASSUME FilesInv, NEW p \in Programs, Submit(p)
    PROVE  FilesInv'
  <1> USE DEF Submit
  <1> DEFINE new == NextChunk(p)
             n == Len(queue[p])
  <1>1. /\ new \in Chunks /\ new.first = handed[p] + 1
        /\ new.last = LastOfChunk(p)
        /\ LastOfChunk(p) \in handed[p] + 1 .. Len(file[p])
        /\ LastOfChunk(p) - handed[p] <= ChunkSize
    BY NextChunkFacts DEF FilesInv
  <1>2. /\ queue[p] \in Seq(Chunks) /\ n \in Nat /\ DOMAIN queue[p] = 1 .. n
        /\ handed[p] \in Nat /\ Len(file[p]) \in Nat
        /\ posting[p] \in SUBSET Chunks /\ posted[p] \in SUBSET Chunks
        /\ \A k \in 1 .. n : queue[p][k] \in Chunks
    BY FileFacts DEF FilesInv
  <1>3. queue'[p] = Append(queue[p], new) /\ handed'[p] = LastOfChunk(p)
    BY DEF FilesInv, FilesTypeOK
  <1> HIDE DEF new, n
  <1>4. /\ Append(queue[p], new) \in Seq(Chunks)
        /\ Len(Append(queue[p], new)) = n + 1
        /\ \A k \in 1 .. n : Append(queue[p], new)[k] = queue[p][k]
        /\ Append(queue[p], new)[n + 1] = new
    BY <1>1, <1>2, AppendProperties DEF n
  <1>5. /\ DOMAIN queue'[p] = 1 .. n + 1
        /\ \A k \in 1 .. n : queue'[p][k] = queue[p][k]
        /\ queue'[p][n + 1] = new
    BY <1>3, <1>4, LenProperties
  <1>6. FilesTypeOK'
    <2>1. queue' \in [Programs -> Seq(Chunks)]
      BY <1>4 DEF FilesInv, FilesTypeOK, new
    <2>2. handed' \in [Programs -> Nat]
      BY <1>1, <1>2 DEF FilesInv, FilesTypeOK
    <2> QED BY <2>1, <2>2 DEF FilesInv, FilesTypeOK, making, settled
  <1>7. AcceptedInv'
    BY DEF FilesInv, AcceptedInv, Accepted, settled
  <1>8. FileInv(p)' /\ ChunkInv(p)'
    <2>1. FileInv(p)'
      BY DEF FilesInv, FileInv, making, CreatesBatch, CreatedInv, KeysOf, Batch
    <2>2. \A ch \in ChunksOf(p) :
              /\ ch \in Chunks /\ 1 <= ch.first /\ ch.last <= handed[p]
              /\ ch.last - ch.first < ChunkSize
      BY <1>2 DEF FilesInv, ChunkInv, ChunksOf
    <2>3. \A ch \in ChunksOf(p) : Apart(ch, new) /\ Apart(new, ch)
      BY <1>1, <1>2, <2>2 DEF Apart, Chunks
    <2>4. \A k \in 1 .. n : queue[p][k] \in ChunksOf(p)
      BY <1>2 DEF ChunksOf
    <2>5. ChunksOf(p)' = ChunksOf(p) \cup {new}
      <3>1. {queue'[p][k] : k \in DOMAIN queue'[p]}
                = {queue[p][k] : k \in DOMAIN queue[p]} \cup {new}
        BY <1>2, <1>5
      <3> QED BY <3>1 DEF ChunksOf
    <2>6. NeverTwice(p)'
      <3>1. \A j, k \in DOMAIN queue'[p] :
                j # k => Apart(queue'[p][j], queue'[p][k])
        <4> SUFFICES ASSUME NEW j \in 1 .. n + 1, NEW k \in 1 .. n + 1, j # k
                     PROVE  Apart(queue'[p][j], queue'[p][k])
          BY <1>5
        <4>0. \A i \in 1 .. n + 1 : i # n + 1 => queue'[p][i] \in ChunksOf(p)
          BY <1>2, <1>5, <2>4
        <4>1. CASE j = n + 1
          <5>1. queue'[p][j] = new /\ queue'[p][k] \in ChunksOf(p)
            BY <1>5, <4>0, <4>1
          <5> QED BY <2>3, <5>1
        <4>2. CASE k = n + 1
          <5>1. queue'[p][k] = new /\ queue'[p][j] \in ChunksOf(p)
            BY <1>5, <4>0, <4>2
          <5> QED BY <2>3, <5>1
        <4>3. CASE j \in 1 .. n /\ k \in 1 .. n
          BY <1>2, <1>5, <4>3 DEF FilesInv, ChunkInv, NeverTwice
        <4> QED BY <1>2, <4>1, <4>2, <4>3
      <3>2. \A k \in DOMAIN queue'[p] : \A ch \in posting[p] \cup posted[p] :
                Apart(queue'[p][k], ch)
        <4> SUFFICES ASSUME NEW k \in 1 .. n + 1,
                            NEW ch \in posting[p] \cup posted[p]
                     PROVE  Apart(queue'[p][k], ch)
          BY <1>5
        <4>1. CASE k = n + 1
          BY <1>5, <2>3, <4>1 DEF ChunksOf
        <4>2. CASE k \in 1 .. n
          BY <1>2, <1>5, <4>2 DEF FilesInv, ChunkInv, NeverTwice
        <4> QED BY <1>2, <4>1, <4>2
      <3> QED BY <3>1, <3>2 DEF FilesInv, ChunkInv, NeverTwice
    <2>7. \A ch \in ChunksOf(p)' :
              /\ 1 <= ch.first /\ ch.last <= handed'[p]
              /\ ch.last - ch.first < ChunkSize
      <3>1. /\ 1 <= new.first /\ new.last <= handed'[p]
            /\ new.last - new.first < ChunkSize
        BY <1>1, <1>2, <1>3, ChunkAssumption
      <3>2. ASSUME NEW ch \in ChunksOf(p)
            PROVE  ch.last <= handed'[p]
        <4>1. /\ ch.last \in Nat /\ ch.last <= handed[p]
              /\ handed[p] <= handed'[p] /\ handed'[p] \in Nat
          BY <1>1, <1>2, <1>3, <2>2 DEF Chunks
        <4> QED BY <1>2, <4>1
      <3> QED BY <2>2, <2>5, <3>1, <3>2
    <2>8. \A i \in 1 .. handed'[p] : \E ch \in ChunksOf(p)' : In(i, ch)
      <3> SUFFICES ASSUME NEW i \in 1 .. handed'[p]
                   PROVE  \E ch \in ChunksOf(p)' : In(i, ch)
        OBVIOUS
      <3>1. CASE i <= handed[p]
        BY <1>2, <2>5, <3>1 DEF FilesInv, ChunkInv
      <3>2. CASE i > handed[p]
        BY <1>1, <1>2, <1>3, <2>5, <3>2 DEF In
      <3> QED BY <1>2, <3>1, <3>2
    <2>9. handed'[p] <= Len(file'[p])
      BY <1>1, <1>2, <1>3 DEF making
    <2> QED BY <2>1, <2>6, <2>7, <2>8, <2>9 DEF ChunkInv
  <1>9. ASSUME NEW q \in Programs, q # p PROVE FileInv(q)' /\ ChunkInv(q)'
    BY <1>9, OtherProgram DEF FilesInv, FilesTypeOK
  <1> QED BY <1>6, <1>7, <1>8, <1>9, LoadingStep

LEMMA TakeStep ==
    ASSUME FilesInv, NEW p \in Programs, Take(p)
    PROVE  FilesInv'
  <1> USE DEF Take
  <1> DEFINE hd == Head(queue[p])
             n == Len(queue[p])
  <1>1. /\ queue[p] \in Seq(Chunks) /\ n \in Nat /\ DOMAIN queue[p] = 1 .. n
        /\ posting[p] \in SUBSET Chunks /\ posted[p] \in SUBSET Chunks
    BY FileFacts DEF FilesInv
  <1>2. /\ hd \in Chunks /\ Tail(queue[p]) \in Seq(Chunks)
        /\ Len(Tail(queue[p])) = n - 1 /\ n >= 1 /\ hd = queue[p][1]
        /\ \A k \in 1 .. n - 1 : Tail(queue[p])[k] = queue[p][k + 1]
    <2>1. /\ hd \in Chunks /\ Tail(queue[p]) \in Seq(Chunks)
          /\ Len(Tail(queue[p])) = n - 1
          /\ \A k \in 1 .. Len(Tail(queue[p])) : Tail(queue[p])[k] = queue[p][k + 1]
      BY <1>1, HeadTailProperties
    <2>2. n >= 1
      BY <1>1, EmptySeq
    <2> QED BY <2>1, <2>2
  <1>3. /\ queue'[p] = Tail(queue[p]) /\ posting'[p] = posting[p] \cup {hd}
        /\ posted'[p] = posted[p]
    BY DEF FilesInv, FilesTypeOK
  <1> HIDE DEF hd, n
  <1>4. /\ DOMAIN queue'[p] = 1 .. n - 1
        /\ \A k \in 1 .. n - 1 : queue'[p][k] = queue[p][k + 1]
    BY <1>2, <1>3, LenProperties
  <1>5. FilesTypeOK'
    <2>1. queue' \in [Programs -> Seq(Chunks)]
      BY <1>2 DEF FilesInv, FilesTypeOK
    <2>2. posting' \in [Programs -> SUBSET Chunks]
      BY <1>2 DEF FilesInv, FilesTypeOK, hd
    <2> QED BY <2>1, <2>2 DEF FilesInv, FilesTypeOK, making, settled
  <1>6. AcceptedInv'
    BY DEF FilesInv, AcceptedInv, Accepted, settled
  <1>7. FileInv(p)' /\ ChunkInv(p)'
    <2>1. FileInv(p)'
      BY DEF FilesInv, FileInv, making, CreatesBatch, CreatedInv, KeysOf, Batch
    <2>2. ChunksOf(p)' = ChunksOf(p)
      <3>1. {queue[p][k] : k \in 1 .. n}
                = {queue'[p][k] : k \in 1 .. n - 1} \cup {hd}
        <4>1. ASSUME NEW k \in 1 .. n
              PROVE  queue[p][k] = hd \/ \E j \in 1 .. n - 1 : queue[p][k] = queue'[p][j]
          <5>1. CASE k = 1
            BY <1>2, <5>1
          <5>2. CASE k # 1
            <6>1. k - 1 \in 1 .. n - 1 /\ queue'[p][k - 1] = queue[p][k]
              BY <1>1, <1>4, <4>1, <5>2
            <6> QED BY <6>1
          <5> QED BY <5>1, <5>2
        <4>2. ASSUME NEW j \in 1 .. n - 1
              PROVE  \E k \in 1 .. n : queue'[p][j] = queue[p][k]
          <5>1. j + 1 \in 1 .. n /\ queue'[p][j] = queue[p][j + 1]
            BY <1>1, <1>4, <4>2
          <5> QED BY <5>1
        <4>3. \E k \in 1 .. n : hd = queue[p][k]
          BY <1>1, <1>2
        <4> DEFINE A == {queue[p][k] : k \in 1 .. n}
                   B == {queue'[p][k] : k \in 1 .. n - 1} \cup {hd}
        <4>4. \A x \in A : x \in B
          BY <4>1
        <4>5. \A x \in B : x \in A
          BY <4>2, <4>3
        <4> HIDE DEF A, B
        <4>6. A = B
          BY <4>4, <4>5
        <4> QED BY <4>6 DEF A, B
      <3> QED BY <1>1, <1>3, <1>4, <3>1 DEF ChunksOf
    <2>3. NeverTwice(p)'
      <3>1. \A j, k \in 1 .. n : j # k => Apart(queue[p][j], queue[p][k])
        BY <1>1 DEF FilesInv, ChunkInv, NeverTwice
      <3>2. \A k \in 1 .. n : \A ch \in posting[p] \cup posted[p] :
                Apart(queue[p][k], ch)
        BY <1>1 DEF FilesInv, ChunkInv, NeverTwice
      <3>3. \A j, k \in DOMAIN queue'[p] :
                j # k => Apart(queue'[p][j], queue'[p][k])
        BY <1>1, <1>4, <3>1
      <3>4. \A k \in DOMAIN queue'[p] : Apart(queue'[p][k], hd)
        BY <1>1, <1>2, <1>4, <3>1
      <3>5. \A k \in DOMAIN queue'[p] : \A ch \in posting[p] \cup posted[p] :
                Apart(queue'[p][k], ch)
        BY <1>1, <1>4, <3>2
      <3>6. \A ch \in posting[p] \cup posted[p] : Apart(hd, ch) /\ Apart(ch, hd)
        BY <1>1, <1>2, <3>2 DEF Apart
      <3>7. \A k \in DOMAIN queue'[p] : \A ch \in posting'[p] \cup posted'[p] :
                Apart(queue'[p][k], ch)
        BY <1>3, <3>4, <3>5
      <3>8. /\ \A a \in posting'[p], b \in posted'[p] : Apart(a, b)
            /\ \A a, b \in posting'[p] : a = b \/ Apart(a, b)
            /\ \A a, b \in posted'[p] : a = b \/ Apart(a, b)
        <4>1. /\ \A a \in posting[p], b \in posted[p] : Apart(a, b)
              /\ \A a, b \in posting[p] : a = b \/ Apart(a, b)
              /\ \A a, b \in posted[p] : a = b \/ Apart(a, b)
          BY DEF FilesInv, ChunkInv, NeverTwice
        <4>2. \A a \in posting'[p] : a = hd \/ a \in posting[p]
          BY <1>3
        <4> QED BY <1>3, <3>6, <4>1, <4>2
      <3> QED BY <3>3, <3>7, <3>8 DEF NeverTwice
    <2> QED BY <2>1, <2>2, <2>3 DEF FilesInv, ChunkInv, making
  <1>8. ASSUME NEW q \in Programs, q # p PROVE FileInv(q)' /\ ChunkInv(q)'
    BY <1>8, OtherProgram DEF FilesInv, FilesTypeOK
  <1> QED BY <1>5, <1>6, <1>7, <1>8, LoadingStep

\* A chunk that is posted: its batches are accepted, or none of them.
LEMMA DoneStep ==
    ASSUME FilesInv, NEW p \in Programs, NEW ch \in posting[p],
           PostAccepted(p, ch) \/ PostFails(p, ch)
    PROVE  FilesInv'
  <1>1. Done(p, ch) /\ pending' \in {pending, pending \cup BatchesOf(p, ch)}
    BY DEF PostAccepted, PostFails
  <1> USE <1>1 DEF Done
  <1>2. /\ posting'[p] = posting[p] \ {ch} /\ posted'[p] = posted[p] \cup {ch}
        /\ posting[p] \in SUBSET Chunks /\ posted[p] \in SUBSET Chunks
        /\ ch \in Chunks
    BY FileFacts DEF FilesInv, FilesTypeOK
  <1>3. 1 <= ch.first
    BY DEF FilesInv, ChunkInv, ChunksOf
  <1>4. \A id \in BatchesOf(p, ch) :
            id \in Ids /\ id[1] = p /\ In(id[2], ch)
    BY <1>2, <1>3 DEF BatchesOf, Ids, In, Chunks
  <1>5. FilesTypeOK'
    <2>1. pending' \in SUBSET Ids
      BY <1>4 DEF FilesInv, FilesTypeOK
    <2>2. posting' \in [Programs -> SUBSET Chunks]
          /\ posted' \in [Programs -> SUBSET Chunks]
      BY <1>2 DEF FilesInv, FilesTypeOK
    <2> QED BY <2>1, <2>2 DEF FilesInv, FilesTypeOK, making, settled
  <1>6. AcceptedInv'
    <2>1. \A q \in Programs : posted[q] \subseteq posted'[q]
      BY <1>2 DEF FilesInv, FilesTypeOK
    <2>2. \A id \in Accepted : \E b \in posted'[id[1]] : In(id[2], b)
      BY <2>1, AcceptedFacts DEF FilesInv, AcceptedInv
    <2>3. \A id \in BatchesOf(p, ch) : id \notin committed \cup invalid
      <3> SUFFICES ASSUME NEW id \in BatchesOf(p, ch), id \in committed \cup invalid
                   PROVE  FALSE
        OBVIOUS
      <3>1. PICK b \in posted[p] : In(id[2], b)
        BY <1>4 DEF FilesInv, AcceptedInv, Accepted
      <3>2. Apart(ch, b)
        BY DEF FilesInv, ChunkInv, NeverTwice
      <3>3. b \in Chunks /\ In(id[2], ch) /\ id[2] \in Nat
        BY <1>2, <1>4 DEF Ids
      <3> QED BY <1>2, <3>1, <3>2, <3>3 DEF Apart, In, Chunks
    <2>4. \A id \in BatchesOf(p, ch) : \E b \in posted'[id[1]] : In(id[2], b)
      BY <1>2, <1>4
    <2>5. Accepted' \subseteq Accepted \cup BatchesOf(p, ch)
      BY DEF Accepted, settled
    <2>6. \A id \in Accepted' : \E b \in posted'[id[1]] : In(id[2], b)
      BY <2>2, <2>4, <2>5
    <2> QED BY <2>3, <2>6 DEF FilesInv, AcceptedInv, settled
  <1>7. FileInv(p)' /\ ChunkInv(p)'
    <2>1. FileInv(p)'
      BY <1>2 DEF FilesInv, FileInv, making, CreatesBatch, CreatedInv, KeysOf, Batch
    <2>2. ChunksOf(p)' = ChunksOf(p)
      BY <1>2 DEF ChunksOf
    <2>3. NeverTwice(p)'
      <3>1. \A a \in posting[p] \ {ch}, b \in posted[p] \cup {ch} : Apart(a, b)
        BY DEF FilesInv, ChunkInv, NeverTwice
      <3>2. \A b \in posted[p] : Apart(ch, b) /\ Apart(b, ch)
        BY DEF FilesInv, ChunkInv, NeverTwice, Apart
      <3> QED BY <1>2, <3>1, <3>2 DEF FilesInv, ChunkInv, NeverTwice
    <2> QED BY <2>1, <2>2, <2>3 DEF FilesInv, ChunkInv, making
  <1>8. ASSUME NEW q \in Programs, q # p PROVE FileInv(q)' /\ ChunkInv(q)'
    BY <1>8, OtherProgram DEF FilesInv, FilesTypeOK
  <1> QED BY <1>5, <1>6, <1>7, <1>8, LoadingStep

LEMMA LoadEndsStep ==
    ASSUME FilesInv, NEW p \in Programs, LoadEnds(p)
    PROVE  FilesInv'
  <1> USE DEF LoadEnds, Goes, loading
  <1>1. FilesTypeOK'
    BY DEF FilesInv, FilesTypeOK, making, settled
  <1>2. AcceptedInv'
    BY DEF FilesInv, AcceptedInv, Accepted, settled
  <1>3. ASSUME NEW q \in Programs PROVE ChunkInv(q)'
    BY DEF FilesInv, making, ChunkInv, ChunksOf, NeverTwice
  <1>4. step'[p] = "done" /\ \A q \in Programs \ {p} : step'[q] = step[q]
    BY DEF FilesInv, FilesTypeOK
  <1>5. ASSUME NEW q \in Programs PROVE FileInv(q)'
    BY <1>4 DEF FilesInv, making, FileInv, CreatesBatch, CreatedInv, KeysOf, Batch
  <1> QED BY <1>1, <1>2, <1>3, <1>5, LoadingStep

-----------------------------------------------------------------------------
(* The validator.                                                          *)

\* What its steps have in common: nothing is made or posted.
LEMMA SettlingStep ==
    ASSUME FilesInv, UNCHANGED <<step, making, loading>>,
           FilesTypeOK', AcceptedInv', SetterInv',
           UpdatesOwnKeys', RefusedForCause'
    PROVE  FilesInv'
  BY DEF FilesInv, making, loading, FileInv, ChunkInv, ChunksOf, NeverTwice,
         CreatesBatch, CreatedInv, KeysOf, Batch

\* A batch of create_batch that is committed has its keys set by its file.
LEMMA CommittedFacts ==
    ASSUME FilesInv, NEW p \in Programs, CreatesBatch(p),
           <<p, 1>> \in committed, NEW n \in KeysOf(<<p, 1>>)
    PROVE  setter[n] = p
  <1> DEFINE id == <<p, 1>>
  <1>1. id[1] = p
    OBVIOUS
  <1> HIDE DEF id
  <1>2. id \in committed /\ CreatesBatch(id[1]) /\ n \in KeysOf(id)
    BY <1>1 DEF id
  <1> QED BY <1>1, <1>2 DEF FilesInv, UpdatesOwnKeys

LEMMA CommitStep ==
    ASSUME FilesInv, NEW id \in pending, Commit(id)
    PROVE  FilesInv'
  <1> USE DEF Commit, making, loading
  <1> DEFINE p == id[1]
  <1>1. id \in Accepted /\ p \in Programs /\ id = <<p, id[2]>>
    BY AcceptedFacts DEF Accepted
  <1>2. FilesTypeOK'
    <2>1. setter' \in [Words -> Programs \cup {NoOne}]
      BY <1>1 DEF FilesInv, FilesTypeOK
    <2> QED BY <2>1 DEF FilesInv, FilesTypeOK
  <1>3. AcceptedInv'
    <2>1. Accepted' = Accepted
      BY DEF Accepted
    <2> QED BY <2>1 DEF FilesInv, AcceptedInv
  <1>4. \A n \in Words : setter[n] # NoOne => setter'[n] = setter[n]
    <2> SUFFICES ASSUME NEW n \in Words, setter[n] # NoOne
                 PROVE  ~SetIn(id, n)
      OBVIOUS
    <2>1. ASSUME NEW k \in DOMAIN Batch(id), Batch(id)[k] = NewTxn("set", n, {})
          PROVE  FALSE
      BY <2>1 DEF Applicable, NewTxn
    <2> QED BY <2>1 DEF SetIn
  <1>5. SetterInv'
    <2> SUFFICES ASSUME NEW n \in Words, setter'[n] \in Programs,
                        CreatesBatch(setter'[n])
                 PROVE  <<setter'[n], 1>> \in committed'
      BY DEF SetterInv, CreatesBatch
    <2>1. CASE SetIn(id, n)
      BY <1>1, <2>1, CreatedFacts
    <2>2. CASE ~SetIn(id, n)
      BY <2>2 DEF FilesInv, SetterInv
    <2> QED BY <2>1, <2>2
  <1>6. \A c \in Accepted : KeysOf(c) \subseteq Words
    <2> SUFFICES ASSUME NEW c \in Accepted, NEW k \in DOMAIN Batch(c)
                 PROVE  Batch(c)[k].name \in Words
      BY DEF KeysOf
    <2>1. c[1] \in Programs /\ c[2] \in 1 .. Len(file[c[1]])
      BY AcceptedFacts
    <2>2. Batch(c) \in Seq(Txns)
      BY <2>1, FileFacts DEF FilesInv, Batch
    <2>3. Batch(c)[k] \in Txns
      BY <2>2, ElementOfSeq, LenProperties
    <2> QED BY <2>3 DEF Txns
  <1>7. UpdatesOwnKeys'
    <2> SUFFICES ASSUME NEW c \in committed', CreatesBatch(c[1]),
                        NEW n \in KeysOf(c)
                 PROVE  setter'[n] = c[1]
      BY DEF UpdatesOwnKeys, CreatesBatch, KeysOf, Batch
    <2>1. CASE c \in committed
      <3>1. setter[n] = c[1] /\ n \in Words /\ c[1] \in Programs
        BY <1>6, <2>1, AcceptedFacts DEF FilesInv, UpdatesOwnKeys, Accepted
      <3> QED BY <1>4, <3>1, ProgramsAssumption
    <2>2. CASE c = id /\ id[2] = 1
      <3>1. SetIn(id, n)
        <4>1. PICK k \in DOMAIN Batch(id) : Batch(id)[k].name = n
          BY <2>2 DEF KeysOf
        <4> QED BY <1>1, <2>2, <4>1, CreatedFacts DEF SetIn
      <3> QED BY <1>1, <1>6, <2>2, <3>1
    <2>3. CASE c = id /\ id[2] # 1
      <3>1. <<p, 1>> \in committed /\ n \in KeysOf(<<p, 1>>)
        BY <1>1, <2>3, CreatedFacts
      <3>2. setter[n] = p /\ n \in Words
        BY <1>1, <1>6, <2>3, <3>1, CommittedFacts
      <3> QED BY <1>1, <1>4, <2>3, <3>2, ProgramsAssumption
    <2> QED BY <2>1, <2>2, <2>3
  <1>8. RefusedForCause'
    <2>0. invalid' = invalid /\ command' = command /\ file' = file
      OBVIOUS
    <2> HIDE DEF Commit
    <2> SUFFICES ASSUME NEW c \in invalid, CreatesBatch(c[1])
                 PROVE  IF c[2] = 1
                        THEN \E n \in KeysOf(c) : setter'[n] \notin {c[1], NoOne}
                        ELSE \/ <<c[1], 1>> \in invalid
                             \/ \A n \in KeysOf(c) : setter'[n] = c[1]
      BY <2>0 DEF RefusedForCause, CreatesBatch, KeysOf, Batch
    <2>1. KeysOf(c) \subseteq Words /\ c[1] \in Programs
      BY <1>6, AcceptedFacts DEF Accepted
    <2>2. CASE c[2] = 1
      <3>1. PICK n \in KeysOf(c) : setter[n] \notin {c[1], NoOne}
        BY <2>2 DEF FilesInv, RefusedForCause
      <3> QED BY <1>4, <2>1, <2>2, <3>1
    <2>3. CASE c[2] # 1 /\ <<c[1], 1>> \notin invalid
      <3>1. \A n \in KeysOf(c) : setter[n] = c[1]
        BY <2>3 DEF FilesInv, RefusedForCause
      <3> QED BY <1>4, <2>1, <2>3, <3>1, ProgramsAssumption
    <2> QED BY <2>2, <2>3
  <1> QED BY <1>2, <1>3, <1>5, <1>7, <1>8, SettlingStep

LEMMA RefuseStep ==
    ASSUME FilesInv, NEW id \in pending, Refuse(id)
    PROVE  FilesInv'
  <1> USE DEF Refuse, making, loading
  <1> DEFINE p == id[1]
  <1>1. /\ id \in Accepted /\ p \in Programs /\ id = <<p, id[2]>>
        /\ id[2] \in 1 .. Len(file[p])
    BY AcceptedFacts DEF Accepted
  <1>2. FilesTypeOK'
    BY DEF FilesInv, FilesTypeOK
  <1>3. AcceptedInv'
    <2>1. Accepted' = Accepted
      BY DEF Accepted
    <2> QED BY <2>1 DEF FilesInv, AcceptedInv
  <1>4. SetterInv' /\ UpdatesOwnKeys'
    BY DEF FilesInv, SetterInv, UpdatesOwnKeys, CreatesBatch, KeysOf, Batch
  <1>5. ASSUME CreatesBatch(p), id[2] = 1
        PROVE  \E n \in KeysOf(id) : setter[n] \notin {p, NoOne}
    <2>1. /\ DependsOn(id) = {}
          /\ \A k \in DOMAIN Batch(id) :
                Batch(id)[k] = NewTxn("set", Batch(id)[k].name, {})
          /\ \A j, k \in DOMAIN Batch(id) :
                Batch(id)[j].name = Batch(id)[k].name => j = k
      BY <1>1, <1>5, CreatedFacts
    <2>2. \A k \in DOMAIN Batch(id) : Batch(id)[k].verb = "set"
      BY <2>1 DEF NewTxn
    <2>3. ~Applicable(id)
      BY <2>1, <2>2
    <2>4. Batch(id) \in Seq(Txns)
      BY <1>1, FileFacts DEF FilesInv, Batch
    <2>5. DOMAIN Batch(id) = 1 .. Len(Batch(id)) /\ Len(Batch(id)) \in Nat
      BY <2>4, LenProperties
    <2>6. PICK k \in DOMAIN Batch(id) :
              \/ setter[Batch(id)[k].name] # NoOne
              \/ \E j \in 1 .. k - 1 : Batch(id)[j].name = Batch(id)[k].name
      BY <2>2, <2>3 DEF Applicable
    <2>7. \A j \in 1 .. k - 1 : j \in DOMAIN Batch(id) /\ j # k
      BY <2>5, <2>6
    <2>8. setter[Batch(id)[k].name] # NoOne
      BY <2>1, <2>6, <2>7
    <2>9. id \notin committed
      BY DEF FilesInv, AcceptedInv
    <2>10. Batch(id)[k].name \in Words
      <3>1. Batch(id)[k] \in Txns
        BY <2>4, <2>5, ElementOfSeq
      <3> QED BY <3>1 DEF Txns
    <2>11. setter[Batch(id)[k].name] # p
      BY <1>1, <1>5, <2>9, <2>10 DEF FilesInv, SetterInv
    <2> QED BY <2>8, <2>11 DEF KeysOf
  <1>6. ASSUME CreatesBatch(p), id[2] # 1
        PROVE  <<p, 1>> \in invalid \/ \A n \in KeysOf(id) : setter[n] = p
    <2> SUFFICES ASSUME NEW n \in KeysOf(id), <<p, 1>> \notin invalid
                 PROVE  setter[n] = p
      OBVIOUS
    <2>1. DependsOn(id) = {<<p, 1>>} /\ n \in KeysOf(<<p, 1>>)
      BY <1>1, <1>6, CreatedFacts
    <2>2. <<p, 1>> \in committed
      BY <2>1
    <2> QED BY <1>1, <1>6, <2>1, <2>2, CommittedFacts
  <1>7. RefusedForCause'
    <2> SUFFICES ASSUME NEW c \in invalid', CreatesBatch(c[1])
                 PROVE  IF c[2] = 1
                        THEN \E n \in KeysOf(c) : setter[n] \notin {c[1], NoOne}
                        ELSE \/ <<c[1], 1>> \in invalid'
                             \/ \A n \in KeysOf(c) : setter[n] = c[1]
      BY DEF RefusedForCause, CreatesBatch, KeysOf, Batch
    <2>1. CASE c \in invalid
      BY <2>1 DEF FilesInv, RefusedForCause
    <2>2. CASE c = id
      BY <1>5, <1>6, <2>2
    <2> QED BY <2>1, <2>2
  <1> QED BY <1>2, <1>3, <1>4, <1>7, SettlingStep

-----------------------------------------------------------------------------
LEMMA NextFilesInv == FilesInv /\ [FilesNext]_filesVars => FilesInv'
  <1> SUFFICES ASSUME FilesInv, [FilesNext]_filesVars PROVE FilesInv'
    OBVIOUS
  <1>1. ASSUME NEW p \in Programs, Make(p) PROVE FilesInv'
    BY <1>1, CreateKeysStep, PopulateStep, DrawPoolStep, GenerateStep,
       WriteFileStep DEF Make
  <1>2. ASSUME NEW p \in Programs, Load(p) PROVE FilesInv'
    BY <1>2, SubmitStep, TakeStep, DoneStep, LoadEndsStep DEF Load
  <1>3. CASE Settle
    BY <1>3, CommitStep, RefuseStep DEF Settle
  <1>4. CASE UNCHANGED filesVars
    <2>1. UNCHANGED <<making, settled, step, loading, pending>>
      BY <1>4 DEF filesVars
    <2>2. FilesTypeOK' /\ AcceptedInv'
      BY <2>1 DEF making, settled, loading, FilesInv, FilesTypeOK, AcceptedInv, Accepted
    <2>3. \A q \in Programs : FileInv(q)' /\ ChunkInv(q)'
      BY <2>1, OtherProgram DEF loading
    <2> QED BY <2>1, <2>2, <2>3, LoadingStep
  <1> QED BY <1>1, <1>2, <1>3, <1>4 DEF FilesNext

\* The inductive invariant of the files, their chunks and their batches.
THEOREM FilesInvariant == FilesSpec => []FilesInv
  BY InitFilesInv, NextFilesInv, PTL DEF FilesSpec

\* The state of the programs is always of its type.
THEOREM FilesTyped == FilesSpec => []FilesTypeOK
  <1>1. FilesInv => FilesTypeOK
    BY DEF FilesInv
  <1> QED BY <1>1, FilesInvariant, PTL

\* An update of create_batch meets only keys its own file has set, in any
\* order of the chunks (create_batch.py's dependencies).
THEOREM OwnKeysOnly == FilesSpec => []UpdatesOwnKeys
  <1>1. FilesInv => UpdatesOwnKeys
    BY DEF FilesInv
  <1> QED BY <1>1, FilesInvariant, PTL

\* A batch of create_batch is refused for another's key, or a bound.
THEOREM CauseOfRefusal == FilesSpec => []RefusedForCause
  <1>1. FilesInv => RefusedForCause
    BY DEF FilesInv
  <1> QED BY <1>1, FilesInvariant, PTL

\* Of what create_batch made, a batch can always be settled, in any order of
\* arrival and with any of the updates lost: no dependency is circular or open.
THEOREM NoneWaitsForEver == FilesSpec => []NoneStuck
  <1>1. FilesInv => NoneStuck
    <2> SUFFICES ASSUME FilesInv, NEW p \in Programs, CreatesBatch(p),
                        <<p, 1>> \in Accepted, NEW id \in pending, id[1] = p
                 PROVE  \E first \in pending : first[1] = p /\ CanSettle(first)
      BY DEF NoneStuck
    <2>1. CASE <<p, 1>> \in pending
      <3> DEFINE first == <<p, 1>>
      <3>1. first[1] = p /\ first[2] = 1
        OBVIOUS
      <3> HIDE DEF first
      <3>2. first \in pending /\ first \in Accepted
        BY <2>1 DEF first
      <3>3. DependsOn(first) = {}
        BY <3>1, <3>2, CreatedFacts
      <3>4. CanSettle(first)
        BY <3>3 DEF CanSettle
      <3> QED BY <3>1, <3>2, <3>4
    <2>2. CASE <<p, 1>> \notin pending
      <3>1. <<p, 1>> \in committed \cup invalid
        BY <2>2 DEF Accepted
      <3>2. id \in Accepted
        BY DEF Accepted
      <3>3. id = <<p, id[2]>>
        BY <3>2, AcceptedFacts
      <3>4. id[2] # 1
        BY <2>2, <3>3
      <3>5. DependsOn(id) \subseteq {<<p, 1>>}
        BY <3>2, <3>4, CreatedFacts
      <3>6. CanSettle(id)
        BY <3>1, <3>5 DEF CanSettle
      <3> QED BY <3>6
    <2> QED BY <2>1, <2>2
  <1> QED BY <1>1, FilesInvariant, PTL

\* load posts each batch in one request (load.py, _split_batch_list).
THEOREM EachPostedOnce == FilesSpec => []PostedOnce
  <1>1. FilesInv => PostedOnce
    <2> SUFFICES ASSUME FilesInv, NEW p \in Programs
                 PROVE  /\ NeverTwice(p)
                        /\ \A ch \in posting[p] \cup posted[p] :
                              ch.last - ch.first < ChunkSize
                        /\ step[p] = "done" =>
                              \A i \in 1 .. Len(file[p]) :
                                  \E ch \in posted[p] : In(i, ch)
      BY DEF PostedOnce
    <2>1. NeverTwice(p) /\ \A ch \in posting[p] \cup posted[p] :
                              ch.last - ch.first < ChunkSize
      BY DEF FilesInv, ChunkInv, ChunksOf
    <2>2. ASSUME step[p] = "done", NEW i \in 1 .. Len(file[p])
          PROVE  \E ch \in posted[p] : In(i, ch)
      <3>1. handed[p] = Len(file[p]) /\ queue[p] = <<>> /\ posting[p] = {}
        BY <2>2 DEF FilesInv, FileInv
      <3>2. PICK ch \in ChunksOf(p) : In(i, ch)
        BY <2>2, <3>1 DEF FilesInv, ChunkInv
      <3>3. ch \in posted[p]
        BY <3>1, <3>2 DEF ChunksOf
      <3> QED BY <3>2, <3>3
    <2> QED BY <2>1, <2>2
  <1> QED BY <1>1, FilesInvariant, PTL

-----------------------------------------------------------------------------
(* Commands: what a command reports and how long it waits, for any waits   *)
(* and any number of clients.                                              *)

USE DEF Points, Ends, Statuses, Settled, Waiting, Since

\* int(wait_time) is the number of whole seconds of the time gone.
LEMMA WholeSeconds ==
    ASSUME NEW t \in Nat
    PROVE  LET s == t \div TicksPerSecond IN
           s \in Nat /\ Ticks(s) <= t /\ t < Ticks(s) + TicksPerSecond
  BY TicksAssumption DEF Ticks

\* A time below a number of seconds has fewer whole seconds.
LEMMA FewerSeconds ==
    ASSUME NEW t \in Nat, NEW n \in Int, t < Ticks(n)
    PROVE  t \div TicksPerSecond < n
  <1> DEFINE s == t \div TicksPerSecond
  <1>1. s \in Nat /\ s * TicksPerSecond <= t
    BY WholeSeconds DEF Ticks
  <1>2. SUFFICES ASSUME s >= n PROVE FALSE
    BY <1>1
  <1>3. s * TicksPerSecond >= n * TicksPerSecond
    BY <1>1, <1>2, TicksAssumption
  <1> QED BY <1>1, <1>3, TicksAssumption DEF Ticks

\* What is left of a wait, in ticks.
LEMMA LeftOver ==
    ASSUME NEW n \in Int, NEW s \in Int
    PROVE  Ticks(n) \in Int /\ Ticks(n - s) = Ticks(n) - Ticks(s)
  BY TicksAssumption DEF Ticks

LEMMA SomeTime ==
    ASSUME NEW n \in Int
    PROVE  /\ n > 0 => Ticks(n) > 0
           /\ n >= 0 => Ticks(n) \in Nat
           /\ Ticks(n + 1) = Ticks(n) + TicksPerSecond
  BY TicksAssumption DEF Ticks

LEMMA InitCommandsInv == CommandsInit => CommandsInv
  BY WaitsAssumption
     DEF CommandsInit, CommandsInv, CommandsTypeOK, ReportsTruly, WaitInv

\* A command of either client begins.
LEMMA SendsStep ==
    ASSUME CommandsInv, NEW c \in Clients, NEW f \in {"intkey", "xo"},
           NEW w \in Waits, Sends(c, f, w)
    PROVE  CommandsInv'
  <1> USE DEF CommandsInv, Sends, Moves
  <1>1. CommandsTypeOK'
    BY DEF CommandsTypeOK
  <1>2. ReportsTruly'
    BY DEF CommandsTypeOK, ReportsTruly
  <1>3. ASSUME NEW d \in Clients PROVE WaitInv(d)'
    BY <1>3 DEF CommandsTypeOK, WaitInv, Remaining
  <1> QED BY <1>1, <1>2, <1>3

LEMMA BeginStep ==
    ASSUME CommandsInv, NEW c \in Clients, Begin(c)
    PROVE  CommandsInv'
  <1>1. CASE IntkeyCommand(c)
    BY <1>1, SendsStep DEF IntkeyCommand, SendTransaction
  <1>2. CASE XoCommand(c)
    BY <1>2, SendsStep, WaitsAssumption DEF XoCommand, SendXoTxn
  <1>3. CASE KeyFails(c)
    BY <1>3 DEF KeyFails, Exits, Moves, request, timing, CommandsInv,
                CommandsTypeOK, ReportsTruly, WaitInv, Remaining
  <1> QED BY <1>1, <1>2, <1>3 DEF Begin

LEMMA PostStep ==
    ASSUME CommandsInv, NEW c \in Clients, PostEnds(c)
    PROVE  CommandsInv'
  <1> USE DEF CommandsInv, Exits, Moves, request, timing
  <1>1. CASE PostAnswered(c)
    <2> USE <1>1 DEF PostAnswered
    <2>1. CommandsTypeOK'
      BY DEF CommandsTypeOK
    <2>2. ReportsTruly'
      BY DEF CommandsTypeOK, ReportsTruly
    <2>3. Waiting(c) => wait[c] \in Int /\ 0 < Ticks(wait[c])
      BY WaitsAssumption, SomeTime DEF CommandsTypeOK
    <2>4. ASSUME NEW d \in Clients PROVE WaitInv(d)'
      BY <2>3, <2>4 DEF CommandsTypeOK, WaitInv, Remaining
    <2> QED BY <2>1, <2>2, <2>4
  <1>2. CASE PostRefused(c)
    BY <1>2 DEF PostRefused, CommandsTypeOK, ReportsTruly, WaitInv, Remaining
  <1>3. CASE PostUnanswered(c)
    BY <1>3 DEF PostUnanswered, CommandsTypeOK, ReportsTruly, WaitInv, Remaining
  <1> QED BY <1>1, <1>2, <1>3 DEF PostEnds

\* The wait asked for is positive, as the loop's guard has held.
LEMMA AskStep ==
    ASSUME CommandsInv, NEW c \in Clients, Ask(c)
    PROVE  CommandsInv'
  <1> USE DEF CommandsInv, Ask, Moves, timing
  <1>1. /\ waited[c] \in Nat /\ wait[c] \in Int
        /\ waited[c] < Ticks(wait[c])
    BY WaitsAssumption DEF CommandsTypeOK, WaitInv
  <1>2. Remaining(c) \in Nat /\ Remaining(c) >= 1
    BY <1>1, FewerSeconds, WholeSeconds DEF Remaining
  <1>3. Ticks(Remaining(c)) \in Nat
    BY <1>2, SomeTime
  <1>4. CommandsTypeOK'
    BY <1>2 DEF CommandsTypeOK
  <1>5. ReportsTruly'
    BY DEF CommandsTypeOK, ReportsTruly
  <1>6. ASSUME NEW d \in Clients PROVE WaitInv(d)'
    BY <1>3, <1>6 DEF CommandsTypeOK, WaitInv, Remaining
  <1> QED BY <1>4, <1>5, <1>6

LEMMA StatusStep ==
    ASSUME CommandsInv, NEW c \in Clients, StatusEnds(c)
    PROVE  CommandsInv'
  <1> USE DEF CommandsInv, Exits, Moves, request, timing
  <1>1. CASE StatusAnswered(c)
    <2> USE <1>1 DEF StatusAnswered, Continues, Elapsed
    <2>1. CommandsTypeOK'
      BY DEF CommandsTypeOK, WaitInv
    <2>2. Ticks(wait[c]) \in Int
      BY WaitsAssumption, LeftOver DEF CommandsTypeOK
    <2>3. ReportsTruly'
      <3>1. waited[c] \in Nat /\ clock[c] \in Nat
        BY DEF CommandsTypeOK
      <3>2. CASE Continues(c)
        BY <3>2 DEF CommandsTypeOK, ReportsTruly, WaitInv
      <3>3. CASE status[c] # "PENDING"
        BY <3>3 DEF CommandsTypeOK, ReportsTruly, WaitInv
      <3>4. CASE clock[c] >= Ticks(wait[c])
        BY <2>2, <3>1, <3>4 DEF CommandsTypeOK, ReportsTruly, WaitInv
      <3> QED BY <2>2, <3>1, <3>2, <3>3, <3>4
    <2>4. ASSUME NEW d \in Clients PROVE WaitInv(d)'
      BY <2>4 DEF CommandsTypeOK, WaitInv, Remaining
    <2> QED BY <2>1, <2>3, <2>4
  <1>2. CASE StatusFails(c)
    BY <1>2 DEF StatusFails, CommandsTypeOK, ReportsTruly, WaitInv, Remaining
  <1> QED BY <1>1, <1>2 DEF StatusEnds

\* The other steps: an interrupt, time, and the validator.
LEMMA OtherStep ==
    ASSUME CommandsInv, NEW c \in Clients,
           Interrupted(c) \/ Tick(c) \/ Decides(c)
    PROVE  CommandsInv'
  <1> USE DEF CommandsInv, request, timing
  <1>1. CASE Interrupted(c)
    BY <1>1 DEF Interrupted, Exits, Moves, CommandsTypeOK, ReportsTruly,
                WaitInv, Remaining
  <1>2. CASE Tick(c)
    <2> USE <1>2 DEF Tick
    <2>1. CommandsTypeOK' /\ ReportsTruly'
      BY DEF CommandsTypeOK, ReportsTruly
    <2>2. Ticks(asked[c]) \in Int
      BY LeftOver DEF CommandsTypeOK
    <2>3. ASSUME NEW d \in Clients PROVE WaitInv(d)'
      BY <2>2, <2>3 DEF CommandsTypeOK, WaitInv, Remaining
    <2> QED BY <2>1, <2>3
  <1>3. CASE Decides(c)
    BY <1>3 DEF Decides, CommandsTypeOK, ReportsTruly, WaitInv, Remaining
  <1> QED BY <1>1, <1>2, <1>3

LEMMA NextCommandsInv ==
    CommandsInv /\ [CommandsNext]_commandsVars => CommandsInv'
  <1> SUFFICES ASSUME CommandsInv, [CommandsNext]_commandsVars
               PROVE  CommandsInv'
    OBVIOUS
  <1>1. CASE CommandsNext
    BY <1>1, BeginStep, PostStep, AskStep, StatusStep, OtherStep
       DEF CommandsNext
  <1>2. CASE UNCHANGED commandsVars
    BY <1>2 DEF commandsVars, request, timing, CommandsInv, CommandsTypeOK,
                ReportsTruly, WaitInv, Remaining
  <1> QED BY <1>1, <1>2

\* The inductive invariant of the commands.
THEOREM CommandsInvariant == CommandsSpec => []CommandsInv
  BY InitCommandsInv, NextCommandsInv, PTL DEF CommandsSpec

\* The state of the commands has its type: no wait below zero is asked for.
THEOREM CommandsTyped == CommandsSpec => []CommandsTypeOK
  <1>1. CommandsInv => CommandsTypeOK
    BY DEF CommandsInv
  <1> QED BY <1>1, CommandsInvariant, PTL

\* A response is printed only for a batch that was submitted, and after the
\* wait the user asked for (_send_transaction, _send_xo_txn).
THEOREM ReportsWhatItKnows == CommandsSpec => []ReportsTruly
  <1>1. CommandsInv => ReportsTruly
    BY DEF CommandsInv
  <1> QED BY <1>1, CommandsInvariant, PTL

\* The wait of each status request leaves less than a second over.
THEOREM WaitsNoLonger == CommandsSpec => []NeverOverstays
  <1>1. ASSUME CommandsInv, NEW c \in Clients, at[c] = "status"
        PROVE  /\ asked[c] >= 1
               /\ clock[c] - answeredAt[c] < Ticks(wait[c] + 1)
    <2> DEFINE s == waited[c] \div TicksPerSecond
    <2>1. /\ waited[c] \in Nat /\ wait[c] \in Int /\ answeredAt[c] \in Nat
          /\ clock[c] \in Nat /\ askedAt[c] \in Nat
          /\ waited[c] < Ticks(wait[c]) /\ asked[c] = wait[c] - s
          /\ clock[c] <= askedAt[c] + Ticks(asked[c])
          /\ Since(c, askedAt[c])
      BY <1>1, WaitsAssumption
         DEF CommandsInv, CommandsTypeOK, WaitInv, Remaining
    <2>2. s \in Nat /\ s < wait[c]
          /\ Ticks(s) <= waited[c] /\ waited[c] < Ticks(s) + TicksPerSecond
      BY <2>1, WholeSeconds, FewerSeconds
    <2>3. Ticks(asked[c]) = Ticks(wait[c]) - Ticks(s)
      <3>1. asked[c] = wait[c] - s /\ wait[c] \in Int /\ s \in Int
        BY <2>1, <2>2
      <3> HIDE DEF s
      <3> QED BY <3>1, LeftOver
    <2>4. /\ Ticks(wait[c] + 1) = Ticks(wait[c]) + TicksPerSecond
          /\ Ticks(wait[c]) \in Int /\ Ticks(s) \in Nat
      <3>1. wait[c] \in Int /\ s \in Nat
        BY <2>1, <2>2
      <3> HIDE DEF s
      <3>2. Ticks(wait[c] + 1) = Ticks(wait[c]) + TicksPerSecond
        BY <3>1, SomeTime
      <3>3. Ticks(wait[c]) \in Int
        BY <3>1, LeftOver
      <3>4. Ticks(s) \in Nat
        BY <3>1, SomeTime
      <3> QED BY <3>2, <3>3, <3>4
    <2>5. asked[c] >= 1
      BY <2>1, <2>2
    <2>6. clock[c] - answeredAt[c] < Ticks(wait[c] + 1)
      BY <2>1, <2>2, <2>3, <2>4, TicksAssumption
    <2> QED BY <2>5, <2>6
  <1>2. CommandsInv => NeverOverstays
    BY <1>1 DEF NeverOverstays
  <1> QED BY <1>2, CommandsInvariant, PTL
=============================================================================
