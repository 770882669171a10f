------------------------ MODULE MockValidatorProofs ------------------------
(***************************************************************************)
(* Proofs about MockValidator: a test is judged by the messages of its own *)
(* transaction, and never waits for a processor that waits for it, for any *)
(* number of classes and tests, and whatever scripts and handlers say.     *)
(***************************************************************************)
EXTENDS MockValidator, SequenceTheorems, TLAPS

\* A queue that gets one more.
LEMMA AppendFacts ==
    ASSUME NEW S, NEW s \in Seq(S), NEW e \in S
    PROVE  /\ Append(s, e) \in Seq(S) /\ Len(Append(s, e)) = Len(s) + 1
           /\ \A i \in 1 .. Len(s) : Append(s, e)[i] = s[i]
           /\ Append(s, e)[Len(s) + 1] = e
           /\ Append(s, e) # <<>>
           /\ s # <<>> => Head(Append(s, e)) = Head(s)
           /\ s = <<>> => Append(s, e) = <<e>>
  <1>1. /\ Append(s, e) \in Seq(S) /\ Append(s, e) # <<>>
        /\ Len(Append(s, e)) = Len(s) + 1
        /\ \A i \in 1 .. Len(s) : Append(s, e)[i] = s[i]
        /\ Append(s, e)[Len(s) + 1] = e
    BY AppendProperties
  <1>2. s # <<>> => Head(Append(s, e)) = Head(s)
    <2> SUFFICES ASSUME s # <<>> PROVE Append(s, e)[1] = s[1]
      BY <1>1
    <2> QED BY <1>1, EmptySeq
  <1>3. s = <<>> => Append(s, e) = <<e>>
    OBVIOUS
  <1> QED BY <1>1, <1>2, <1>3

\* A queue, a script or a plan that gets on by one.
LEMMA TailFacts ==
    ASSUME NEW S, NEW s \in Seq(S), s # <<>>
    PROVE  /\ Head(s) \in S /\ Head(s) = s[1] /\ Tail(s) \in Seq(S)
           /\ Len(s) \in Nat /\ Len(s) >= 1 /\ Len(Tail(s)) = Len(s) - 1
           /\ \A i \in 1 .. Len(s) - 1 : Tail(s)[i] = s[i + 1]
           /\ Tail(s) = <<>> <=> Len(s) = 1
  <1>1. /\ Head(s) \in S /\ Head(s) = s[1] /\ Tail(s) \in Seq(S)
        /\ Len(Tail(s)) = Len(s) - 1
        /\ \A i \in 1 .. Len(s) - 1 : Tail(s)[i] = s[i + 1]
    BY HeadTailProperties
  <1>2. Len(s) \in Nat /\ Len(s) >= 1
    BY EmptySeq
  <1>3. Tail(s) = <<>> <=> Len(Tail(s)) = 0
    BY <1>1, EmptySeq
  <1> QED BY <1>1, <1>2, <1>3

\* What remains of a plan ends with a response as well.
LEMMA PlanGoesOn ==
    ASSUME NEW S, NEW s \in Seq(S), EndsWithResponse(s), Len(s) > 1
    PROVE  /\ Tail(s) \in Seq(S) /\ Tail(s) # <<>> /\ EndsWithResponse(Tail(s))
           /\ Head(s).type # "response"
  <1>1. s # <<>>
    OBVIOUS
  <1>2. /\ Tail(s) \in Seq(S) /\ Len(s) \in Nat /\ Len(Tail(s)) = Len(s) - 1
        /\ \A i \in 1 .. Len(s) - 1 : Tail(s)[i] = s[i + 1]
        /\ Head(s) = s[1] /\ (Tail(s) = <<>> <=> Len(s) = 1)
    BY <1>1, TailFacts
  <1>3. DOMAIN s = 1 .. Len(s) /\ DOMAIN Tail(s) = 1 .. Len(Tail(s))
    BY <1>2
  <1>4. Head(s).type # "response"
    BY <1>2, <1>3 DEF EndsWithResponse
  <1>5. ASSUME NEW i \in DOMAIN Tail(s)
        PROVE  Tail(s)[i].type = "response" <=> i = Len(Tail(s))
    <2>1. i \in 1 .. Len(s) - 1 /\ i + 1 \in DOMAIN s
      BY <1>2, <1>3
    <2> QED BY <1>2, <2>1 DEF EndsWithResponse
  <1> QED BY <1>2, <1>4, <1>5 DEF EndsWithResponse

\* What a test has yet to expect: messages it knows, a response last.
Expectable(s) ==
    \A i \in DOMAIN s : \A e \in s[i] :
        e.type # "other" /\ (e.type = "response" <=> i = Len(s))

LEMMA ScriptGoesOn ==
    ASSUME NEW S, NEW s \in Seq(S), s # <<>>, Expectable(s)
    PROVE  /\ Tail(s) \in Seq(S) /\ Expectable(Tail(s))
           /\ \A e \in Head(s) :
                 /\ e.type # "other"
                 /\ e.type = "response" <=> Tail(s) = <<>>
  <1>1. /\ Tail(s) \in Seq(S) /\ Len(s) \in Nat /\ Len(Tail(s)) = Len(s) - 1
        /\ \A i \in 1 .. Len(s) - 1 : Tail(s)[i] = s[i + 1]
        /\ Head(s) = s[1] /\ (Tail(s) = <<>> <=> Len(s) = 1) /\ Len(s) >= 1
    BY TailFacts
  <1>2. DOMAIN s = 1 .. Len(s) /\ DOMAIN Tail(s) = 1 .. Len(Tail(s))
    BY <1>1
  <1>3. \A e \in Head(s) :
            e.type # "other" /\ (e.type = "response" <=> Tail(s) = <<>>)
    BY <1>1, <1>2 DEF Expectable
  <1>4. ASSUME NEW i \in DOMAIN Tail(s), NEW e \in Tail(s)[i]
        PROVE  e.type # "other" /\ (e.type = "response" <=> i = Len(Tail(s)))
    <2>1. i \in 1 .. Len(s) - 1 /\ i + 1 \in DOMAIN s
      BY <1>1, <1>2
    <2> QED BY <1>1, <2>1 DEF Expectable
  <1> QED BY <1>1, <1>3, <1>4 DEF Expectable

-----------------------------------------------------------------------------
(* The types, and what is in the queues                                    *)

LEMMA InitInv == MockInit => MockInv
  <1> SUFFICES ASSUME MockInit PROVE MockInv
    OBVIOUS
  <1>1. \A S : <<>> \in Seq(S)
    BY EmptySeq
  <1>2. class \in 1 .. Classes /\ test \in 0 .. Tests
    BY TestsAssumption DEF MockInit
  <1>3. verdict \in [1 .. Classes -> Seq({"passed", "failed"})]
        /\ \A c \in 1 .. Classes : verdict[c] = <<>> /\ Len(verdict[c]) = 0
    BY <1>1 DEF MockInit
  <1>4. MockTypeOK
    <2>1. script \in Seq(SUBSET Contents)
      BY <1>1 DEF MockInit
    <2>2. \A c \in 1 .. Classes : Len(verdict[c]) <= Tests
      BY <1>3, TestsAssumption
    <2>3. at = "start" /\ tp = "loop" /\ bound = FALSE /\ connected = FALSE /\ fresh = FALSE
      BY DEF MockInit
    <2> QED BY <1>2, <1>3, <2>1, <2>2, <2>3 DEF MockTypeOK, Points, TpPoints
  <1>5. MessagesInv
    <2>1. script = <<>> /\ DOMAIN script = {} /\ inbox = <<>> /\ todo = <<>> /\ tp = "loop"
      BY DEF MockInit
    <2>2. inbox \in Seq(Messages) /\ todo \in Seq(Txns)
      BY <1>1, <2>1
    <2> QED BY <2>1, <2>2 DEF MessagesInv
  <1>6. VerdictInv
    BY <1>2, <1>3, TestsAssumption DEF MockInit, VerdictInv
  <1> QED BY <1>4, <1>5, <1>6
          DEF MockInit, MockInv, FreeInv, RegisterInv, QuietInv, ExpectInv, OwnVerdict

\* What each kind of step may do to the variables of unittest.
LEMMA NextClassFacts ==
    ASSUME MockTypeOK, NextClass
    PROVE  /\ at' \in {"start", "done"} /\ class' \in 1 .. Classes /\ test' = 0
           /\ at' = "start" => class' = class + 1
           /\ at' = "done" => class' = class /\ class = Classes
  BY TestsAssumption DEF MockTypeOK, NextClass

\* A verdict more for the class at hand.
LEMMA EndsAsFacts ==
    ASSUME MockTypeOK, VerdictInv, at = "expect", NEW v \in {"passed", "failed"}, EndsAs(v)
    PROVE  /\ at' = "between"
           /\ verdict' \in [1 .. Classes -> Seq({"passed", "failed"})]
           /\ verdict'[class] = Append(verdict[class], v)
           /\ Len(verdict[class]) = test - 1 /\ Len(verdict'[class]) = test
           /\ verdict'[class][test] = v
           /\ \A i \in 1 .. test - 1 : verdict'[class][i] = verdict[class][i]
           /\ \A c \in 1 .. Classes : c # class => verdict'[c] = verdict[c]
           /\ test \in 1 .. Tests
  <1>1. verdict[class] \in Seq({"passed", "failed"}) /\ Len(verdict[class]) = test - 1
        /\ class \in 1 .. Classes /\ test \in 0 .. Tests
    BY DEF MockTypeOK, VerdictInv
  <1>2. test \in 1 .. Tests
    BY <1>1
  <1>3. /\ Append(verdict[class], v) \in Seq({"passed", "failed"})
        /\ Len(Append(verdict[class], v)) = test
        /\ Append(verdict[class], v)[test] = v
        /\ \A i \in 1 .. test - 1 : Append(verdict[class], v)[i] = verdict[class][i]
    BY <1>1, AppendFacts
  <1>4. at' = "between" /\ verdict' = [verdict EXCEPT ![class] = Append(@, v)]
    BY DEF EndsAs
  <1> QED BY <1>1, <1>2, <1>3, <1>4 DEF MockTypeOK

-----------------------------------------------------------------------------
(* The steps of unittest                                                   *)

\* A class that begins, or the end, has no test to speak of.
LEMMA ClassBegins ==
    ASSUME MockInv, NextClass, UNCHANGED <<script, verdict, heard>>
    PROVE  /\ at' \in Points /\ at' # "expect"
           /\ class' \in 1 .. Classes /\ test' \in 0 .. Tests
           /\ VerdictInv' /\ RegisterInv' /\ QuietInv' /\ ExpectInv' /\ OwnVerdict'
  <1>1. MockTypeOK /\ VerdictInv
    BY DEF MockInv
  <1>2. /\ at' \in {"start", "done"} /\ class' \in 1 .. Classes /\ test' = 0
        /\ at' = "start" => class' = class + 1
        /\ at' = "done" => class' = class /\ class = Classes
    BY <1>1, NextClassFacts
  <1>3. class \in 1 .. Classes /\ Len(<<>>) = 0
    BY <1>1 DEF MockTypeOK
  <1>4. VerdictInv'
    <2>1. \A c \in class + 1 .. Classes : verdict[c] = <<>>
      BY <1>1 DEF VerdictInv
    <2>2. CASE at' = "start"
      BY <1>2, <1>3, <2>1, <2>2, TestsAssumption DEF VerdictInv
    <2>3. CASE at' = "done"
      BY <1>2, <1>3, <2>1, <2>3, TestsAssumption DEF VerdictInv
    <2> QED BY <1>2, <2>2, <2>3
  <1> QED BY <1>2, <1>4, TestsAssumption
          DEF Points, RegisterInv, QuietInv, ExpectInv, OwnVerdict

LEMMA ListenStep == MockInv /\ Listen => MockInv'
  <1> SUFFICES ASSUME MockInv, Listen PROVE MockInv'
    OBVIOUS
  <1> USE DEF MockInv, Listen, processor
  <1>1. MockTypeOK'
    BY DEF MockTypeOK, Points
  <1>2. MessagesInv' /\ FreeInv'
    BY DEF MessagesInv, FreeInv
  <1>3. VerdictInv'
    BY DEF VerdictInv
  <1>4. RegisterInv'
    BY DEF RegisterInv, FreeInv
  <1>5. QuietInv' /\ ExpectInv' /\ OwnVerdict'
    BY DEF QuietInv, ExpectInv, OwnVerdict, VerdictInv
  <1> QED BY <1>1, <1>2, <1>3, <1>4, <1>5

LEMMA ListenFailsStep == MockInv /\ ListenFails => MockInv'
  <1> SUFFICES ASSUME MockInv, ListenFails PROVE MockInv'
    OBVIOUS
  <1> USE DEF ListenFails, validator, processor
  <1>1. /\ at' \in Points /\ at' # "expect"
        /\ class' \in 1 .. Classes /\ test' \in 0 .. Tests
        /\ VerdictInv' /\ RegisterInv' /\ QuietInv' /\ ExpectInv' /\ OwnVerdict'
    BY ClassBegins
  <1>2. MockTypeOK'
    BY <1>1 DEF MockInv, MockTypeOK
  <1>3. MessagesInv' /\ FreeInv'
    BY DEF MockInv, MessagesInv, FreeInv
  <1> QED BY <1>1, <1>2, <1>3 DEF MockInv

\* receive takes what came first.
LEMMA ReceivesFacts ==
    ASSUME MockInv, Receives
    PROVE  /\ inbox # <<>> /\ bound /\ bound' /\ inbox' \in Seq(Messages)
           /\ inbox' = Tail(inbox) /\ Head(inbox) \in Messages
           /\ Len(inbox) = 1 => inbox' = <<>>
  <1>1. inbox \in Seq(Messages) /\ bound \in BOOLEAN /\ (~bound => inbox = <<>>)
    BY DEF MockInv, MockTypeOK, MessagesInv, FreeInv
  <1> QED BY <1>1, TailFacts DEF Receives

LEMMA RegisterProcessorStep == MockInv /\ RegisterProcessor => MockInv'
  <1> SUFFICES ASSUME MockInv, RegisterProcessor PROVE MockInv'
    OBVIOUS
  <1> USE DEF RegisterProcessor
  <1>1. /\ inbox # <<>> /\ bound' /\ inbox' \in Seq(Messages)
        /\ inbox' = Tail(inbox) /\ (Len(inbox) = 1 => inbox' = <<>>)
    BY ReceivesFacts
  <1>2. CASE IsRegistration(Head(inbox))
    <2>1. /\ inbox = <<Message("register", NoTxn)>> /\ todo = <<>>
          /\ tp = "answer" /\ connected /\ ~fresh
      BY <1>1, <1>2 DEF MockInv, RegisterInv
    <2>2. /\ at' = "between" /\ tp' = "loop" /\ class' = class /\ test' = test
          /\ inbox' = <<>> /\ todo' = <<>> /\ connected' /\ ~fresh'
      <3>1. Len(inbox) = 1
        BY <2>1
      <3> QED BY <1>1, <1>2, <2>1, <3>1
    <2>3. MockTypeOK'
      BY <1>1, <2>2 DEF MockInv, MockTypeOK, Points, TpPoints
    <2>4. MessagesInv' /\ FreeInv'
      BY <1>1, <2>2 DEF MockInv, MessagesInv, FreeInv
    <2>5. VerdictInv'
      BY <2>2 DEF MockInv, VerdictInv
    <2>6. RegisterInv' /\ QuietInv' /\ ExpectInv'
      BY <2>2 DEF RegisterInv, QuietInv, Quiet, ExpectInv
    <2>7. OwnVerdict'
      BY <2>2 DEF MockInv, VerdictInv, OwnVerdict
    <2> QED BY <2>3, <2>4, <2>5, <2>6, <2>7 DEF MockInv
  <1>3. CASE ~IsRegistration(Head(inbox))
    <2>1. NextClass /\ UNCHANGED <<script, verdict, heard, tp, connected, fresh, todo, doing, plan>>
      BY <1>3
    <2>2. /\ at' \in Points /\ at' # "expect"
          /\ class' \in 1 .. Classes /\ test' \in 0 .. Tests
          /\ VerdictInv' /\ RegisterInv' /\ QuietInv' /\ ExpectInv' /\ OwnVerdict'
      BY <2>1, ClassBegins
    <2>3. MockTypeOK'
      BY <1>1, <2>1, <2>2 DEF MockInv, MockTypeOK
    <2>4. MessagesInv' /\ FreeInv'
      BY <1>1, <2>1 DEF MockInv, MessagesInv, FreeInv
    <2> QED BY <2>2, <2>3, <2>4 DEF MockInv
  <1> QED BY <1>2, <1>3

LEMMA TearDownStep == MockInv /\ TearDown => MockInv'
  <1> SUFFICES ASSUME MockInv, TearDown PROVE MockInv'
    OBVIOUS
  <1> USE DEF TearDown
  <1>1. /\ at' \in Points /\ at' # "expect"
        /\ class' \in 1 .. Classes /\ test' \in 0 .. Tests
        /\ VerdictInv' /\ RegisterInv' /\ QuietInv' /\ ExpectInv' /\ OwnVerdict'
    BY ClassBegins
  <1>2. tp' \in TpPoints /\ (tp' \in {"send", "blocked"} => tp' = tp)
    BY DEF MockInv, MockTypeOK, TpPoints
  <1>3. MockTypeOK'
    BY <1>1, <1>2 DEF MockInv, MockTypeOK
  <1>4. MessagesInv' /\ FreeInv'
    BY <1>2, EmptySeq DEF MockInv, MessagesInv, FreeInv
  <1> QED BY <1>1, <1>3, <1>4 DEF MockInv

LEMMA SendTransactionStep == MockInv /\ SendTransaction => MockInv'
  <1> SUFFICES ASSUME MockInv, SendTransaction PROVE MockInv'
    OBVIOUS
  <1> USE DEF SendTransaction, validator
  <1>1. /\ class \in 1 .. Classes /\ test \in 0 .. Tests /\ test + 1 \in 1 .. Tests
        /\ at = "between" /\ at' = "expect" /\ test' = test + 1 /\ class' = class
        /\ todo \in Seq(Txns) /\ verdict' = verdict /\ Len(verdict[class]) = test
    BY TestsAssumption DEF MockInv, MockTypeOK, MessagesInv, VerdictInv
  <1>2. Txn' = <<class, test + 1>> /\ Txn' \in Txns
    BY <1>1 DEF Txn, Txns
  <1>3. /\ script' \in Seq(SUBSET Contents) /\ script' # <<>>
        /\ \A i \in DOMAIN script' : \A e \in script'[i] :
               e.type # "other" /\ (e.type = "response" <=> i = Len(script'))
    <2>1. PICK s \in Scripts : script' = s
      BY DEF SendTransaction
    <2>2. s # <<>> /\ s \in Seq(SUBSET Contents \ {{}})
      BY ContentsAssumption
    <2>3. s \in Seq(SUBSET Contents)
      BY <2>2
    <2> QED BY <2>1, <2>2, <2>3, ContentsAssumption
  <1>4. todo' \in Seq(Txns) /\ (~bound => todo' = todo)
        /\ (connected /\ todo = <<>> => todo' = <<Txn'>>)
    <2>1. Append(todo, Txn') \in Seq(Txns)
      BY <1>1, <1>2, AppendFacts
    <2>2. todo = <<>> => Append(todo, Txn') = <<Txn'>>
      BY <1>1, <1>2, AppendFacts
    <2>3. todo' = IF connected THEN Append(todo, Txn') ELSE todo
      BY <1>2
    <2>4. ~bound => ~connected
      BY DEF MockInv, FreeInv
    <2> QED BY <1>1, <2>1, <2>2, <2>3, <2>4
  <1>5. MockTypeOK'
    BY <1>1, <1>3 DEF MockInv, MockTypeOK, Points
  <1>6. MessagesInv'
    BY <1>3, <1>4 DEF MockInv, MessagesInv
  <1>7. FreeInv'
    BY <1>4 DEF MockInv, FreeInv
  <1>8. VerdictInv' /\ RegisterInv' /\ QuietInv' /\ OwnVerdict'
    BY <1>1 DEF MockInv, VerdictInv, RegisterInv, QuietInv, OwnVerdict
  <1>9. ExpectInv'
    <2> SUFFICES ASSUME Clean' PROVE ExpectInv'
      BY DEF ExpectInv
    <2>1. \A i \in 1 .. test : verdict[class][i] = "passed"
      BY <1>1 DEF Clean
    <2>2. Quiet
      BY <1>1, <2>1 DEF MockInv, QuietInv
    <2> QED BY <1>4, <2>2 DEF Quiet, ExpectInv
  <1> QED BY <1>5, <1>6, <1>7, <1>8, <1>9 DEF MockInv

\* Whom a test listens to, if none before it failed.
LEMMA HearsItsOwn ==
    ASSUME MockInv, at = "expect", Clean, Receives
    PROVE  /\ Head(inbox).txn = Txn /\ inbox' = <<>> /\ todo = <<>> /\ doing = Txn
           /\ connected /\ ~fresh
           /\ \/ tp = "blocked" /\ Head(inbox).content = Head(plan)
              \/ tp = "loop" /\ Head(inbox).content.type = "response"
  <1>1. inbox # <<>> /\ (Len(inbox) = 1 => inbox' = <<>>)
    BY ReceivesFacts
  <1>2. connected /\ ~fresh /\ todo = <<>> /\ doing = Txn /\ AtWork
    BY <1>1 DEF MockInv, ExpectInv
  <1>3. CASE tp = "blocked" /\ inbox = <<[content |-> Head(plan), txn |-> Txn]>>
    BY <1>1, <1>2, <1>3
  <1>4. CASE /\ tp = "loop" /\ Len(inbox) = 1
             /\ Head(inbox).content.type = "response" /\ Head(inbox).txn = Txn
    BY <1>1, <1>2, <1>4
  <1> QED BY <1>1, <1>2, <1>3, <1>4 DEF AtWork

\* What a test has heard is its own still.
LEMMA OwnStill ==
    ASSUME MockInv, at = "expect", Receives, Hears(Head(inbox)), Clean' = Clean,
           UNCHANGED <<class, test>>
    PROVE  OwnVerdict'
  <1>1. SUFFICES ASSUME test > 0, Clean PROVE heard' \subseteq {Txn}
    BY DEF OwnVerdict, Txn
  <1> QED BY <1>1, HearsItsOwn DEF MockInv, OwnVerdict, Hears

\* A test that ends leaves nothing of a test before undone or judged anew.
LEMMA VerdictGiven ==
    ASSUME MockInv, at = "expect", NEW v \in {"passed", "failed"}, EndsAs(v),
           UNCHANGED <<class, test>>
    PROVE  /\ Clean' = Clean /\ VerdictInv' /\ at' = "between"
           /\ verdict' \in [1 .. Classes -> Seq({"passed", "failed"})]
           /\ \A c \in 1 .. Classes : Len(verdict'[c]) <= Tests
           /\ (\A i \in 1 .. test' : verdict'[class'][i] = "passed")
                  => v = "passed" /\ Clean
  <1>1. MockTypeOK /\ VerdictInv
    BY DEF MockInv
  <1>2. /\ at' = "between"
        /\ verdict' \in [1 .. Classes -> Seq({"passed", "failed"})]
        /\ Len(verdict'[class]) = test /\ verdict'[class][test] = v
        /\ \A i \in 1 .. test - 1 : verdict'[class][i] = verdict[class][i]
        /\ \A c \in 1 .. Classes : c # class => verdict'[c] = verdict[c]
        /\ test \in 1 .. Tests /\ class \in 1 .. Classes
    BY <1>1, EndsAsFacts DEF MockTypeOK
  <1>3. Clean' = Clean
    BY <1>2 DEF Clean
  <1>4. VerdictInv'
    BY <1>1, <1>2, TestsAssumption DEF VerdictInv
  <1>5. \A c \in 1 .. Classes : Len(verdict'[c]) <= Tests
    BY <1>1, <1>2, TestsAssumption DEF MockTypeOK
  <1>6. (\A i \in 1 .. test' : verdict'[class'][i] = "passed")
            => v = "passed" /\ Clean
    BY <1>2, TestsAssumption DEF Clean
  <1> QED BY <1>2, <1>3, <1>4, <1>5, <1>6

LEMMA ExpectFailsStep == MockInv /\ ExpectFails => MockInv'
  <1> SUFFICES ASSUME MockInv, ExpectFails PROVE MockInv'
    OBVIOUS
  <1> USE DEF ExpectFails, processor
  <1>1. /\ Clean' = Clean /\ VerdictInv' /\ at' = "between"
        /\ verdict' \in [1 .. Classes -> Seq({"passed", "failed"})]
        /\ \A c \in 1 .. Classes : Len(verdict'[c]) <= Tests
        /\ ~\A i \in 1 .. test' : verdict'[class'][i] = "passed"
    BY VerdictGiven
  <1>2. bound /\ bound' /\ inbox' \in Seq(Messages)
    BY ReceivesFacts
  <1>3. MockTypeOK'
    BY <1>1, <1>2 DEF MockInv, MockTypeOK, Points
  <1>4. MessagesInv' /\ FreeInv' /\ RegisterInv' /\ QuietInv' /\ ExpectInv'
    BY <1>1, <1>2 DEF MockInv, MessagesInv, FreeInv, RegisterInv, QuietInv, ExpectInv
  <1>5. OwnVerdict'
    BY <1>1, OwnStill
  <1> QED BY <1>1, <1>3, <1>4, <1>5 DEF MockInv

LEMMA TestRaisesStep == MockInv /\ TestRaises => MockInv'
  <1> SUFFICES ASSUME MockInv, TestRaises PROVE MockInv'
    OBVIOUS
  <1> USE DEF TestRaises, validator, processor
  <1>1. /\ Clean' = Clean /\ VerdictInv' /\ at' = "between"
        /\ verdict' \in [1 .. Classes -> Seq({"passed", "failed"})]
        /\ \A c \in 1 .. Classes : Len(verdict'[c]) <= Tests
        /\ ~\A i \in 1 .. test' : verdict'[class'][i] = "passed"
    BY VerdictGiven
  <1>2. MockTypeOK'
    BY <1>1 DEF MockInv, MockTypeOK, Points
  <1>3. /\ MessagesInv' /\ FreeInv' /\ RegisterInv' /\ QuietInv' /\ ExpectInv'
        /\ OwnVerdict'
    BY <1>1 DEF MockInv, MessagesInv, FreeInv, RegisterInv, QuietInv, ExpectInv,
                OwnVerdict, Txn
  <1> QED BY <1>1, <1>2, <1>3 DEF MockInv

LEMMA ExpectStep == MockInv /\ Expect => MockInv'
  <1> SUFFICES ASSUME MockInv, Expect PROVE MockInv'
    OBVIOUS
  <1> USE DEF Expect
  <1> DEFINE m == Head(inbox)
  <1>1. /\ script \in Seq(SUBSET Contents) /\ script # <<>> /\ Expectable(script)
        /\ at = "expect" /\ UNCHANGED <<class, test, connected, fresh, todo, doing>>
    BY DEF MockInv, MockTypeOK, MessagesInv, Expectable
  <1>2. /\ script' \in Seq(SUBSET Contents) /\ Expectable(script')
        /\ m.content.type # "other"
        /\ m.content.type = "response" <=> script' = <<>>
    BY <1>1, ScriptGoesOn DEF Expected, Compare
  <1>3. bound /\ bound' /\ inbox' \in Seq(Messages)
    BY ReceivesFacts
  <1>4. /\ tp' \in TpPoints /\ (tp' = "blocked" => tp = "blocked")
        /\ tp' \in {"send", "blocked"} =>
               /\ plan' \in Seq(Contents) /\ plan' # <<>> /\ EndsWithResponse(plan')
               /\ doing' \in Txns /\ doing' # NoTxn
        /\ tp' = "blocked" => Len(plan') > 1
    <2>1. CASE m.content.type \in Requests /\ tp = "blocked" /\ doing = m.txn
      <3>1. tp' = "send" /\ plan' = Tail(plan)
        BY <2>1 DEF Respond
      <3>2. plan \in Seq(Contents) /\ EndsWithResponse(plan) /\ Len(plan) > 1
            /\ doing \in Txns
        BY <2>1 DEF MockInv, MessagesInv
      <3> QED BY <1>1, <3>1, <3>2, PlanGoesOn, TestsAssumption DEF TpPoints
    <2>2. CASE ~(m.content.type \in Requests /\ tp = "blocked" /\ doing = m.txn)
      BY <1>1, <2>2 DEF Respond, MockInv, MockTypeOK, MessagesInv
    <2> QED BY <2>1, <2>2
  <1>5. MessagesInv'
    BY <1>1, <1>2, <1>3, <1>4 DEF MockInv, MessagesInv, Expectable
  <1>6. FreeInv'
    BY <1>3 DEF FreeInv
  <1>7. CASE script' = <<>>
    <2>1. EndsAs("passed")
      BY <1>7
    <2>2. /\ Clean' = Clean /\ VerdictInv' /\ at' = "between"
          /\ verdict' \in [1 .. Classes -> Seq({"passed", "failed"})]
          /\ \A c \in 1 .. Classes : Len(verdict'[c]) <= Tests
          /\ (\A i \in 1 .. test' : verdict'[class'][i] = "passed") => Clean
      BY <1>1, <2>1, VerdictGiven
    <2>3. MockTypeOK'
      BY <1>1, <1>2, <1>3, <1>4, <2>2 DEF MockInv, MockTypeOK, Points
    <2>4. QuietInv'
      <3> SUFFICES ASSUME \A i \in 1 .. test' : verdict'[class'][i] = "passed"
                   PROVE  Quiet'
        BY DEF QuietInv
      <3>1. /\ inbox' = <<>> /\ todo = <<>> /\ connected /\ ~fresh
            /\ \/ tp = "blocked" /\ m.content = Head(plan)
               \/ tp = "loop" /\ m.content.type = "response"
        BY <1>1, <2>2, HearsItsOwn
      <3>2. tp # "blocked"
        BY <1>2, <1>7, <3>1, PlanGoesOn DEF MockInv, MessagesInv
      <3>3. tp' = tp
        BY <3>2 DEF Respond
      <3> QED BY <1>1, <3>1, <3>2, <3>3 DEF Quiet
    <2>5. RegisterInv' /\ ExpectInv'
      BY <2>2 DEF RegisterInv, ExpectInv
    <2>6. OwnVerdict'
      BY <1>1, <2>2, OwnStill
    <2> QED BY <1>5, <1>6, <2>2, <2>3, <2>4, <2>5, <2>6 DEF MockInv
  <1>8. CASE script' # <<>>
    <2>1. at' = "expect" /\ verdict' = verdict /\ Clean' = Clean /\ Txn' = Txn
      BY <1>1, <1>8 DEF Clean, Txn
    <2>2. MockTypeOK'
      BY <1>1, <1>2, <1>3, <1>4, <1>8, <2>1 DEF MockInv, MockTypeOK
    <2>3. VerdictInv' /\ RegisterInv' /\ QuietInv'
      BY <1>1, <2>1 DEF MockInv, VerdictInv, RegisterInv, QuietInv
    <2>4. ExpectInv'
      <3> SUFFICES ASSUME Clean
                   PROVE  connected' /\ ~fresh' /\ todo' = <<>> /\ doing' = Txn' /\ AtWork'
        BY <2>1 DEF ExpectInv
      <3>1. /\ m.txn = Txn /\ inbox' = <<>> /\ todo = <<>> /\ doing = Txn
            /\ connected /\ ~fresh
            /\ \/ tp = "blocked" /\ m.content = Head(plan)
               \/ tp = "loop" /\ m.content.type = "response"
        BY <1>1, HearsItsOwn
      <3>2. tp = "blocked" /\ m.content \in Contents
        <4>1. tp = "blocked" /\ m.content = Head(plan)
          BY <1>2, <1>8, <3>1
        <4> QED BY <4>1, TailFacts DEF MockInv, MockTypeOK, MessagesInv
      <3>3. m.content.type \in Requests
        BY <1>2, <1>8, <3>2, ContentsAssumption
      <3>4. tp' = "send"
        BY <3>1, <3>2, <3>3 DEF Respond
      <3> QED BY <1>1, <2>1, <3>1, <3>4 DEF AtWork
    <2>5. OwnVerdict'
      BY <1>1, <2>1, OwnStill
    <2> QED BY <1>5, <1>6, <2>2, <2>3, <2>4, <2>5 DEF MockInv
  <1> QED BY <1>7, <1>8

-----------------------------------------------------------------------------
(* The steps of the processor, which unittest does not see                 *)

\* They leave what is said of unittest alone, and keep the rest if they keep
\* what is said of the queues.
LEMMA UnittestStays ==
    ASSUME MockInv, UNCHANGED unittest,
           bound' \in BOOLEAN, connected' \in BOOLEAN, fresh' \in BOOLEAN,
           tp' \in TpPoints, tp' \in {"send", "blocked"} => plan' # <<>> /\ doing' # NoTxn
    PROVE  /\ MockTypeOK' /\ VerdictInv' /\ OwnVerdict'
           /\ Clean' = Clean /\ Txn' = Txn /\ Expectable(script)' = Expectable(script)
  BY DEF MockInv, MockTypeOK, VerdictInv, OwnVerdict, Clean, Txn, Expectable, unittest

\* No step but a connection is possible while nobody has anything to say.
LEMMA QuietIsQuiet ==
    ASSUME MockInv, UNCHANGED unittest, ~Quiet
    PROVE  QuietInv'
  BY DEF MockInv, QuietInv, unittest

LEMMA TpConnectStep == MockInv /\ TpConnect => MockInv'
  <1> SUFFICES ASSUME MockInv, TpConnect PROVE MockInv'
    OBVIOUS
  <1> USE DEF TpConnect, validator
  <1>1. MockTypeOK' /\ VerdictInv' /\ OwnVerdict'
    BY UnittestStays DEF MockInv, MockTypeOK
  <1>2. MessagesInv' /\ FreeInv'
    BY DEF MockInv, MessagesInv, FreeInv, unittest
  <1>3. RegisterInv'
    BY DEF MockInv, RegisterInv, unittest
  <1>4. QuietInv'
    BY QuietIsQuiet DEF Quiet
  <1>5. ExpectInv'
    BY DEF MockInv, ExpectInv, Clean, unittest
  <1> QED BY <1>1, <1>2, <1>3, <1>4, <1>5 DEF MockInv

LEMMA TpRegisterStep == MockInv /\ TpRegister => MockInv'
  <1> SUFFICES ASSUME MockInv, TpRegister PROVE MockInv'
    OBVIOUS
  <1> USE DEF TpRegister
  <1> DEFINE m == Message("register", NoTxn)
  <1>1. MockTypeOK' /\ VerdictInv' /\ OwnVerdict'
    BY UnittestStays DEF MockInv, MockTypeOK, TpPoints
  <1>2. /\ inbox \in Seq(Messages) /\ Append(inbox, m) \in Seq(Messages)
        /\ inbox # <<>> => Head(Append(inbox, m)) = Head(inbox)
        /\ inbox = <<>> => Append(inbox, m) = <<m>>
        /\ Append(inbox, m) # <<>>
    <2>1. m \in Messages
      BY DEF Message, Messages
    <2> QED BY <2>1, AppendFacts DEF MockInv, MessagesInv
  <1>3. MessagesInv' /\ FreeInv'
    BY <1>2 DEF MockInv, MessagesInv, FreeInv, unittest
  <1>4. RegisterInv'
    BY <1>2 DEF MockInv, RegisterInv, unittest
  <1>5. QuietInv'
    BY QuietIsQuiet DEF Quiet
  <1>6. ExpectInv'
    BY DEF MockInv, ExpectInv, Clean, unittest
  <1> QED BY <1>1, <1>3, <1>4, <1>5, <1>6 DEF MockInv

LEMMA TpTakeStep == MockInv /\ TpTake => MockInv'
  <1> SUFFICES ASSUME MockInv, TpTake PROVE MockInv'
    OBVIOUS
  <1> USE DEF TpTake, validator
  <1>1. PICK h \in Handlings : plan' = h
    OBVIOUS
  <1>2. plan' # <<>> /\ plan' \in Seq(Contents) /\ EndsWithResponse(plan')
    BY <1>1, ContentsAssumption DEF EndsWithResponse
  <1>3. /\ doing' \in Txns /\ doing' # NoTxn /\ todo' \in Seq(Txns)
        /\ todo = <<Txn>> => doing' = Txn /\ todo' = <<>>
    <2>1. todo \in Seq(Txns) /\ todo # <<>>
      BY DEF MockInv, MessagesInv
    <2> QED BY <2>1, TailFacts, TestsAssumption
  <1>4. MockTypeOK' /\ VerdictInv' /\ OwnVerdict' /\ Clean' = Clean /\ Txn' = Txn
    BY <1>2, <1>3, UnittestStays DEF MockInv, MockTypeOK, TpPoints
  <1>5. MessagesInv'
    BY <1>2, <1>3 DEF MockInv, MessagesInv, unittest
  <1>6. FreeInv' /\ RegisterInv'
    BY DEF MockInv, FreeInv, RegisterInv, unittest
  <1>7. QuietInv'
    BY QuietIsQuiet DEF Quiet
  <1>8. ExpectInv'
    BY <1>3, <1>4 DEF MockInv, ExpectInv, AtWork, unittest
  <1> QED BY <1>4, <1>5, <1>6, <1>7, <1>8 DEF MockInv

LEMMA TpSendStep == MockInv /\ TpSend => MockInv'
  <1> SUFFICES ASSUME MockInv, TpSend PROVE MockInv'
    OBVIOUS
  <1> USE DEF TpSend
  <1> DEFINE m == [content |-> Head(plan), txn |-> doing]
  <1>1. /\ plan \in Seq(Contents) /\ plan # <<>> /\ EndsWithResponse(plan)
        /\ doing \in Txns /\ doing # NoTxn /\ Len(plan) \in Nat /\ Len(plan) >= 1
        /\ Head(plan) \in Contents /\ Head(plan) = plan[1] /\ DOMAIN plan = 1 .. Len(plan)
    BY TailFacts DEF MockInv, MockTypeOK, MessagesInv
  <1>2. /\ inbox \in Seq(Messages) /\ Append(inbox, m) \in Seq(Messages)
        /\ inbox # <<>> => Head(Append(inbox, m)) = Head(inbox)
        /\ inbox = <<>> => Append(inbox, m) = <<m>>
        /\ Append(inbox, m) # <<>>
    <2>1. m \in Messages
      BY <1>1 DEF Messages
    <2> QED BY <2>1, AppendFacts DEF MockInv, MessagesInv
  <1>3. Len(plan) = 1 => Head(plan).type = "response"
    BY <1>1 DEF EndsWithResponse
  <1>4. ~IsRegistration(m)
    BY <1>1, ContentsAssumption DEF IsRegistration, Requests
  <1>5. /\ tp' \in {"loop", "blocked"} /\ (tp' = "loop" <=> Len(plan) = 1)
        /\ UNCHANGED <<connected, fresh, todo, doing, plan>>
    OBVIOUS
  <1>6. MockTypeOK' /\ VerdictInv' /\ OwnVerdict' /\ Clean' = Clean /\ Txn' = Txn
    BY <1>1, <1>5, UnittestStays DEF MockInv, MockTypeOK, TpPoints
  <1>7. MessagesInv' /\ FreeInv'
    BY <1>1, <1>2, <1>5 DEF MockInv, MessagesInv, FreeInv, unittest
  <1>8. RegisterInv'
    BY <1>2, <1>4 DEF MockInv, RegisterInv, unittest
  <1>9. QuietInv'
    BY QuietIsQuiet DEF Quiet
  <1>10. ExpectInv'
    <2> SUFFICES ASSUME at = "expect", Clean
                 PROVE  /\ connected /\ ~fresh /\ todo = <<>> /\ doing = Txn
                        /\ AtWork'
      BY <1>5, <1>6 DEF ExpectInv, unittest
    <2>1. connected /\ ~fresh /\ todo = <<>> /\ doing = Txn /\ inbox = <<>>
      BY DEF MockInv, ExpectInv, AtWork
    <2>2. inbox' = <<m>> /\ Len(inbox') = 1 /\ Head(inbox') = m
      BY <1>2, <2>1
    <2> QED BY <1>3, <1>5, <1>6, <2>1, <2>2 DEF AtWork
  <1> QED BY <1>6, <1>7, <1>8, <1>9, <1>10 DEF MockInv

LEMMA TpGivesUpStep == MockInv /\ TpGivesUp => MockInv'
  <1> SUFFICES ASSUME MockInv, TpGivesUp PROVE MockInv'
    OBVIOUS
  <1> USE DEF TpGivesUp, validator
  <1>1. MockTypeOK' /\ VerdictInv' /\ OwnVerdict'
    BY UnittestStays DEF MockInv, MockTypeOK, TpPoints
  <1>2. MessagesInv' /\ FreeInv' /\ RegisterInv'
    BY DEF MockInv, MessagesInv, FreeInv, RegisterInv, unittest
  <1>3. QuietInv'
    BY QuietIsQuiet DEF Quiet
  <1>4. ExpectInv'
    BY DEF MockInv, ExpectInv, Clean, unittest
  <1> QED BY <1>1, <1>2, <1>3, <1>4 DEF MockInv

-----------------------------------------------------------------------------
(* The theorems                                                            *)

LEMMA StutterStep == MockInv /\ UNCHANGED mockVars => MockInv'
  <1> SUFFICES ASSUME MockInv, UNCHANGED mockVars PROVE MockInv'
    OBVIOUS
  <1> USE DEF MockInv, mockVars, unittest, validator, processor
  <1>1. MockTypeOK' /\ MessagesInv' /\ FreeInv' /\ VerdictInv'
    BY DEF MockTypeOK, MessagesInv, FreeInv, VerdictInv
  <1>2. RegisterInv' /\ QuietInv' /\ ExpectInv' /\ OwnVerdict'
    BY DEF RegisterInv, QuietInv, Quiet, ExpectInv, AtWork, OwnVerdict, Clean, Txn
  <1> QED BY <1>1, <1>2

\* The inductive invariant of unittest and the processor (mock_validator.py,
\* transaction_processor_test_case.py:22-41).
THEOREM MockInvariant == MockSpec => []MockInv
  <1>1. ASSUME MockInv, [MockNext]_mockVars PROVE MockInv'
    <2>1. CASE Harness
      BY <1>1, <2>1, ListenStep, ListenFailsStep, RegisterProcessorStep, TearDownStep,
         SendTransactionStep, ExpectStep, ExpectFailsStep DEF Harness
    <2>2. CASE TestRaises
      BY <1>1, <2>2, TestRaisesStep
    <2>3. CASE Tp
      BY <1>1, <2>3, TpConnectStep, TpRegisterStep, TpTakeStep, TpSendStep,
         TpGivesUpStep DEF Tp
    <2>4. CASE UNCHANGED mockVars
      BY <1>1, <2>4, StutterStep
    <2> QED BY <1>1, <2>1, <2>2, <2>3, <2>4 DEF MockNext
  <1> QED BY <1>1, InitInv, PTL DEF MockSpec

\* The types of the variables (MockTypeOK).
THEOREM MockTyped == MockSpec => []MockTypeOK
  <1>1. MockInv => MockTypeOK
    BY DEF MockInv
  <1> QED BY <1>1, MockInvariant, PTL

\* A test none before which failed compares messages of its own transaction
\* only, though expect looks at no correlation id (mock_validator.py:211-262).
THEOREM JudgedByItsOwn == MockSpec => []OwnVerdict
  <1>1. MockInv => OwnVerdict
    BY DEF MockInv
  <1> QED BY <1>1, MockInvariant, PTL

\* In such a test expect and the processor never wait for each other, though
\* receive has no timeout (mock_validator.py:183-209).
THEOREM NobodyHangs == MockSpec => []NeverHangs
  <1>1. MockInv => NeverHangs
    <2> SUFFICES ASSUME MockInv, at = "expect", Clean
                 PROVE  \/ inbox # <<>>
                        \/ tp = "loop" /\ ~fresh /\ todo # <<>>
                        \/ tp = "send" /\ connected
      BY DEF NeverHangs
    <2>1. /\ connected /\ ~fresh
          /\ \/ tp = "loop" /\ inbox = <<>> /\ todo = <<Txn>>
             \/ todo = <<>> /\ doing = Txn /\ AtWork
      BY DEF MockInv, ExpectInv
    <2>2. CASE tp = "loop" /\ todo = <<Txn>>
      BY <2>1, <2>2
    <2>3. CASE AtWork
      BY <2>1, <2>3 DEF AtWork
    <2> QED BY <2>1, <2>2, <2>3
  <1> QED BY <1>1, MockInvariant, PTL
=============================================================================
