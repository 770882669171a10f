--------------------------- MODULE MockValidator ---------------------------
(***************************************************************************)
(* sawtooth_processor_test: the validator of the families' unit tests      *)
(* (mock_validator.py, transaction_processor_test_case.py,                 *)
(* message_factory.py), run by unittest: one test class after another, and *)
(* in each class one test after another, against one processor.            *)
(*                                                                         *)
(* A test sends a transaction and then expects one message after another,  *)
(* answering those that are requests.  The processor, with its handler, is *)
(* external here: Stream and TransactionProcessor say what it does when    *)
(* the validator goes away and comes back.                                 *)
(***************************************************************************)
EXTENDS Naturals, Sequences

CONSTANTS
    Classes,   \* bound: test classes
    Tests,     \* of each class
    Contents,  \* what messages say: [type, body, rest]
    Scripts,   \* of the tests: for each step, the contents it accepts
    Handlings, \* what a handler may say of a transaction, to its response
    NoTxn

\* message_types.py knows these and the response. What else a handler sends,
\* such as a receipt, is no type a test can expect.
Requests == {"get", "set", "delete", "event"}
Txns == (1 .. Classes) \X (1 .. Tests)

ASSUME TestsAssumption ==
    Classes \in Nat \ {0} /\ Tests \in Nat /\ NoTxn \notin Txns
ASSUME ContentsAssumption ==
    /\ \A m \in Contents : m.type \in Requests \cup {"response", "other"}
    /\ \A s \in Scripts :
          /\ s # <<>> /\ s \in Seq(SUBSET Contents \ {{}})
          /\ \A i \in DOMAIN s : \A e \in s[i] :
              e.type # "other" /\ (e.type = "response" <=> i = Len(s))
    /\ \A h \in Handlings :
          /\ h # <<>> /\ h \in Seq(Contents)
          /\ \A i \in DOMAIN h : h[i].type = "response" <=> i = Len(h)

VARIABLES
    at,        \* where unittest is (Points)
    class,
    test,      \* how many tests of the class have begun
    script,    \* what the test at hand has yet to expect
    verdict,   \* of each test that has ended: "passed" or "failed"
    heard,     \* ghost: whose messages the test at hand has compared
    bound,     \* the socket is bound to the url
    inbox,     \* what it has received
    tp,        \* external: where the processor is (TpPoints)
    connected,
    fresh,     \* it has yet to register with this connection
    todo,      \* transactions it has not taken
    doing,     \* the one it has taken last, or NoTxn
    plan       \* what its handler has yet to say of it

unittest == <<at, class, test, script, verdict, heard>>
validator == <<bound, inbox>>
processor == <<tp, connected, fresh, todo, doing, plan>>
mockVars == <<unittest, validator, processor>>

Points ==
    {"start",     \* before setUpClass
     "register",  \* in register_processor
     "between",   \* two tests
     "expect",    \* before expect or expect_one
     "done"}

TpPoints ==
    {"loop",      \* of start
     "answer",    \* awaits the answer to its registration
     "send",      \* about to send
     "blocked"}   \* awaits the answer to a request

Txn == <<class, test>>
Message(type, txn) == [content |-> [type |-> type, body |-> 0, rest |-> 0], txn |-> txn]

MockInit ==
    /\ at = "start" /\ class = 1 /\ test = 0 /\ script = <<>>
    /\ verdict = [c \in 1 .. Classes |-> <<>>]
    /\ heard = {}
    /\ bound = FALSE /\ inbox = <<>>
    /\ tp = "loop" /\ connected = FALSE /\ fresh = FALSE
    /\ todo = <<>> /\ doing = NoTxn /\ plan = <<>>

-----------------------------------------------------------------------------
(* setUpClass and tearDownClass                                            *)

NextClass ==
    /\ at' = IF class < Classes THEN "start" ELSE "done"
    /\ class' = IF class < Classes THEN class + 1 ELSE class
    /\ test' = 0

Listen ==
    /\ at = "start"
    /\ ~bound
    /\ bound' = TRUE
    /\ at' = "register"
    /\ UNCHANGED <<class, test, script, verdict, heard, inbox, processor>>

\* The url is still bound, by the validator of a class whose setUpClass failed:
\* unittest calls no tearDownClass then.
ListenFails ==
    /\ at = "start"
    /\ bound
    /\ NextClass
    /\ UNCHANGED <<script, verdict, heard, validator, processor>>

\* receive
Receives == inbox # <<>> /\ inbox' = Tail(inbox) /\ UNCHANGED bound

\* Mutant of IsRegistration: whatever comes first is taken for it.
IsAnything(m) == TRUE

IsRegistration(m) == m.content.type = "register"

RegisterProcessor ==
    /\ at = "register"
    /\ Receives
    /\ IF IsRegistration(Head(inbox))
       THEN /\ at' = "between"
            /\ tp' = IF tp = "answer" THEN "loop" ELSE tp
            /\ UNCHANGED <<class, test>>
       ELSE NextClass /\ UNCHANGED tp
    /\ UNCHANGED <<script, verdict, heard, connected, fresh, todo, doing, plan>>

\* close. What the processor waits for fails with the connection; what it has
\* not taken is lost.
TearDown ==
    /\ at = "between"
    /\ test = Tests
    /\ NextClass
    /\ bound' = FALSE /\ inbox' = <<>>
    /\ connected' = FALSE /\ fresh' = FALSE /\ todo' = <<>>
    /\ tp' = IF tp \in {"answer", "blocked"} THEN "loop" ELSE tp
    /\ UNCHANGED <<script, verdict, heard, doing, plan>>

-----------------------------------------------------------------------------
(* A test                                                                  *)

SendTransaction ==
    /\ at = "between"
    /\ test < Tests
    /\ at' = "expect"
    /\ test' = test + 1
    /\ \E s \in Scripts : script' = s
    /\ heard' = {}
    /\ todo' = IF connected THEN Append(todo, <<class, test + 1>>) ELSE todo
    /\ UNCHANGED <<class, verdict, validator, tp, connected, fresh, doing, plan>>

EndsAs(v) ==
    /\ at' = "between"
    /\ verdict' = [verdict EXCEPT ![class] = Append(@, v)]

\* Each type of message is compared in all its fields, but for the two that
\* have comparators: of set requests the order of the entries, of responses
\* all but the status is left out.
Compare(a, b) ==
    /\ a.type = b.type /\ a.body = b.body
    /\ a.type \in {"set", "response"} \/ a.rest = b.rest

Expected(m) == \E e \in Head(script) : Compare(m.content, e)

Hears(m) == heard' = heard \cup {m.txn}

\* Mutant of Respond: the answer carries no correlation id.
RespondUncorrelated(m) == UNCHANGED <<tp, plan>>

\* respond. An answer to a request the processor does not wait for is ignored.
Respond(m) ==
    IF m.content.type \in Requests /\ tp = "blocked" /\ doing = m.txn
    THEN tp' = "send" /\ plan' = Tail(plan)
    ELSE UNCHANGED <<tp, plan>>

\* expect, or expect_one if the step accepts several contents.
Expect ==
    /\ at = "expect"
    /\ Receives
    /\ Expected(Head(inbox))
    /\ Hears(Head(inbox))
    /\ script' = Tail(script)
    /\ Respond(Head(inbox))
    /\ IF script' = <<>> THEN EndsAs("passed") ELSE UNCHANGED <<at, verdict>>
    /\ UNCHANGED <<class, test, connected, fresh, todo, doing>>

\* Mutant of ExpectFails: False is returned, as register_processor does.
ExpectGoesOn ==
    /\ at = "expect"
    /\ Receives
    /\ ~Expected(Head(inbox))
    /\ Hears(Head(inbox))
    /\ script' = Tail(script)
    /\ UNCHANGED <<at, class, test, verdict, processor>>

\* UnexpectedMessageException, or UnknownMessageTypeException.
ExpectFails ==
    /\ at = "expect"
    /\ Receives
    /\ ~Expected(Head(inbox))
    /\ Hears(Head(inbox))
    /\ EndsAs("failed")
    /\ UNCHANGED <<class, test, script, processor>>

\* Another exception of the test, such as InvalidMerkleAddressException.
TestRaises ==
    /\ at = "expect"
    /\ EndsAs("failed")
    /\ UNCHANGED <<class, test, script, heard, validator, processor>>

-----------------------------------------------------------------------------
(* External: the processor                                                 *)

TpConnect ==
    /\ bound /\ ~connected
    /\ connected' = TRUE /\ fresh' = TRUE
    /\ UNCHANGED <<unittest, validator, tp, todo, doing, plan>>

TpRegister ==
    /\ tp = "loop" /\ connected /\ fresh
    /\ inbox' = Append(inbox, Message("register", NoTxn))
    /\ tp' = "answer" /\ fresh' = FALSE
    /\ UNCHANGED <<unittest, bound, connected, todo, doing, plan>>

TpTake ==
    /\ tp = "loop" /\ ~fresh /\ todo # <<>>
    /\ tp' = "send"
    /\ doing' = Head(todo) /\ todo' = Tail(todo)
    /\ \E h \in Handlings : plan' = h
    /\ UNCHANGED <<unittest, validator, connected, fresh>>

\* The handler's request, or the response.  One that was held up when the
\* connection broke goes to the next one, ahead of the registration.
TpSend ==
    /\ tp = "send" /\ connected
    /\ inbox' = Append(inbox, [content |-> Head(plan), txn |-> doing])
    /\ tp' = IF Len(plan) = 1 THEN "loop" ELSE "blocked"
    /\ UNCHANGED <<unittest, bound, connected, fresh, todo, doing, plan>>

\* ValidatorConnectionError: the transaction is given up.
TpGivesUp ==
    /\ tp = "send" /\ ~connected
    /\ tp' = "loop"
    /\ UNCHANGED <<unittest, validator, connected, fresh, todo, doing, plan>>

-----------------------------------------------------------------------------
Harness ==
    \/ Listen \/ ListenFails \/ RegisterProcessor \/ TearDown
    \/ SendTransaction \/ Expect \/ ExpectFails

Tp == TpConnect \/ TpRegister \/ TpTake \/ TpSend \/ TpGivesUp

MockNext == Harness \/ TestRaises \/ Tp

MockSpec == MockInit /\ [][MockNext]_mockVars

\* unittest and the processor go on where they are not blocked.
MockFairSpec == MockSpec /\ WF_mockVars(Harness) /\ WF_mockVars(Tp)

-----------------------------------------------------------------------------
(* Properties.                                                             *)

MockTypeOK ==
    /\ at \in Points
    /\ class \in 1 .. Classes /\ test \in 0 .. Tests
    /\ script \in Seq(SUBSET Contents)
    /\ at = "expect" => script # <<>>
    /\ verdict \in [1 .. Classes -> Seq({"passed", "failed"})]
    /\ \A c \in 1 .. Classes : Len(verdict[c]) <= Tests
    /\ bound \in BOOLEAN /\ connected \in BOOLEAN /\ fresh \in BOOLEAN
    /\ tp \in TpPoints
    /\ tp \in {"send", "blocked"} => plan # <<>> /\ doing # NoTxn

\* The tests of the class before the last that has begun have all passed.
Clean == \A i \in 1 .. test - 1 : verdict[class][i] = "passed"

\* Though expect looks at no correlation id: a test is judged by the messages
\* of its own transaction only, unless a test of its class has failed before,
\* and whatever the classes before have left behind.
OwnVerdict == test > 0 /\ Clean => heard \subseteq {Txn}

\* In such a test something is on its way to expect, or the processor has a
\* step to take: the two never wait for each other, for receive has no timeout.
NeverHangs ==
    at = "expect" /\ Clean =>
        \/ inbox # <<>>
        \/ tp = "loop" /\ ~fresh /\ todo # <<>>
        \/ tp = "send" /\ connected

\* A test that follows none that failed ends. (After one that failed the
\* processor may wait for an answer nobody gives, and the next test for ever.)
TestEnds == (at = "expect" /\ Clean) ~> at # "expect"

-----------------------------------------------------------------------------
(* The inductive invariant.                                                *)

\* What is to come ends with a response, and with the first one.
EndsWithResponse(s) == \A i \in DOMAIN s : s[i].type = "response" <=> i = Len(s)

Messages ==
    [content : Contents \cup {Message("register", NoTxn).content},
     txn : Txns \cup {NoTxn}]

MessagesInv ==
    /\ inbox \in Seq(Messages) /\ todo \in Seq(Txns)
    /\ \A i \in DOMAIN script : \A e \in script[i] :
           e.type # "other" /\ (e.type = "response" <=> i = Len(script))
    /\ tp \in {"send", "blocked"} =>
           plan \in Seq(Contents) /\ EndsWithResponse(plan) /\ doing \in Txns
    /\ tp = "blocked" => Len(plan) > 1

\* A url that is free has no messages, and no processor.
FreeInv == ~bound => inbox = <<>> /\ ~connected /\ ~fresh /\ todo = <<>>

\* Tests are judged in their order.
VerdictInv ==
    /\ at \in {"start", "register"} => test = 0
    /\ at # "done" => Len(verdict[class]) = IF at = "expect" THEN test - 1 ELSE test
    /\ \A c \in class + 1 .. Classes : verdict[c] = <<>>

\* Whatever a processor has left over comes ahead of its registration, and a
\* registration comes alone.
RegisterInv ==
    at = "register" =>
        /\ todo = <<>>
        /\ \/ inbox = <<>> /\ (connected => fresh)
           \/ inbox # <<>> /\ ~IsRegistration(Head(inbox))
           \/ /\ inbox = <<Message("register", NoTxn)>>
              /\ tp = "answer" /\ connected /\ ~fresh

\* Nobody has anything to say.
Quiet == tp = "loop" /\ connected /\ ~fresh /\ inbox = <<>> /\ todo = <<>>

QuietInv ==
    at = "between" /\ (\A i \in 1 .. test : verdict[class][i] = "passed") => Quiet

\* Where the one transaction of the test is.
AtWork ==
    \/ tp = "send" /\ inbox = <<>>
    \/ tp = "blocked" /\ inbox = <<[content |-> Head(plan), txn |-> Txn]>>
    \/ /\ tp = "loop" /\ Len(inbox) = 1
       /\ Head(inbox).content.type = "response" /\ Head(inbox).txn = Txn

ExpectInv ==
    at = "expect" /\ Clean =>
        /\ connected /\ ~fresh
        /\ \/ tp = "loop" /\ inbox = <<>> /\ todo = <<Txn>>
           \/ todo = <<>> /\ doing = Txn /\ AtWork

MockInv ==
    /\ MockTypeOK /\ MessagesInv /\ FreeInv /\ VerdictInv
    /\ RegisterInv /\ QuietInv /\ ExpectInv /\ OwnVerdict
=============================================================================
