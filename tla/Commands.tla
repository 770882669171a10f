------------------------------ MODULE Commands ------------------------------
(***************************************************************************)
(* The commands of the families that submit one transaction, with --wait   *)
(* or without: examples/intkey_python/sawtooth_intkey/client_cli           *)
(* (intkey_cli.py, intkey_client.py) and examples/xo_python/sawtooth_xo    *)
(* (xo_cli.py, xo_client.py).  A client runs one command after another.    *)
(*                                                                         *)
(* Time is counted in ticks, of which a second has several: the code       *)
(* compares the time it has waited as it is, and asks the REST API to wait *)
(* for whole seconds.  The REST API and the validator are external.        *)
(***************************************************************************)
EXTENDS Integers

CONSTANTS
    Clients,
    Waits,           \* the numbers given to --wait; 0 also if it is not given
    TicksPerSecond,
    MaxPost          \* bound: the ticks a submission may take

ASSUME WaitsAssumption == Waits \subseteq Int /\ 0 \in Waits
ASSUME TicksAssumption == TicksPerSecond \in Nat \ {0}
ASSUME MaxPostAssumption == MaxPost \in Nat

VARIABLES
    at,       \* where the command is (Points)
    exit,     \* how the last one ended (Ends)
    family,   \* "intkey" or "xo"
    wait,     \* the parameter of the client's methods
    clock,    \* ticks since start_time
    waited,   \* wait_time
    asked,    \* the seconds of the last batch_statuses request
    askedAt,  \* the clock when it was made
    answeredAt,  \* ghost: the clock when the submission was answered
    told,     \* the status it was answered, or "none"
    status    \* external: of the command's batch, or "none"

request == <<asked, askedAt, told>>
timing == <<clock, waited, answeredAt>>
commandsVars == <<at, exit, family, wait, request, timing, status>>

Points ==
    {"idle",
     "post",    \* in the request that submits the batch
     "ask",     \* at the head of the loop
     "status"}  \* in a batch_statuses request

Ends ==
    {"none",
     "response",  \* prints the answer of the submission
     "error",     \* exit status 1
     "silent"}    \* main_wrapper passes over a KeyboardInterrupt

Settled == {"COMMITTED", "INVALID"}
Statuses == Settled \cup {"PENDING", "UNKNOWN"}

CommandsInit ==
    /\ at = [c \in Clients |-> "idle"]
    /\ exit = [c \in Clients |-> "none"]
    /\ family = [c \in Clients |-> "intkey"]
    /\ wait = [c \in Clients |-> 0]
    /\ clock = [c \in Clients |-> 0]
    /\ waited = [c \in Clients |-> 0]
    /\ asked = [c \in Clients |-> 0]
    /\ askedAt = [c \in Clients |-> 0]
    /\ answeredAt = [c \in Clients |-> 0]
    /\ told = [c \in Clients |-> "none"]
    /\ status = [c \in Clients |-> "none"]

Moves(c, from, to) == at[c] = from /\ at' = [at EXCEPT ![c] = to]

Exits(c, from, how) ==
    /\ Moves(c, from, "idle")
    /\ exit' = [exit EXCEPT ![c] = how]
    /\ UNCHANGED <<family, wait>>

Waiting(c) == wait[c] > 0
Ticks(seconds) == seconds * TicksPerSecond

-----------------------------------------------------------------------------
(* A command, up to the submission                                         *)

Sends(c, f, w) ==
    /\ Moves(c, "idle", "post")
    /\ exit' = [exit EXCEPT ![c] = "none"]
    /\ family' = [family EXCEPT ![c] = f]
    /\ wait' = [wait EXCEPT ![c] = w]
    /\ clock' = [clock EXCEPT ![c] = 0]
    /\ waited' = [waited EXCEPT ![c] = 0]
    /\ answeredAt' = [answeredAt EXCEPT ![c] = 0]
    /\ asked' = [asked EXCEPT ![c] = 0]
    /\ askedAt' = [askedAt EXCEPT ![c] = 0]
    /\ told' = [told EXCEPT ![c] = "none"]
    /\ status' = [status EXCEPT ![c] = "none"]

\* A batch of one transaction without dependencies, and a nonce that makes
\* it another one than that of the same command before.
SendTransaction(c, w) == Sends(c, "intkey", w)
SendXoTxn(c, w) == Sends(c, "xo", w)

\* do_set, do_inc and do_dec hand on what is given to --wait.
IntkeyCommand(c) == \E w \in Waits : SendTransaction(c, w)

\* do_create, do_take and do_delete hand on no wait that is not positive.
XoCommand(c) == \E w \in Waits : SendXoTxn(c, IF w > 0 THEN w ELSE 0)

\* The key file cannot be read, or holds no key.
KeyFails(c) ==
    /\ Exits(c, "idle", "error")
    /\ status' = [status EXCEPT ![c] = "none"]
    /\ UNCHANGED <<request, timing>>

-----------------------------------------------------------------------------
(* The submission                                                          *)

PostAnswered(c) ==
    /\ status' = [status EXCEPT ![c] = "PENDING"]
    /\ answeredAt' = [answeredAt EXCEPT ![c] = clock[c]]
    /\ IF Waiting(c)
       THEN Moves(c, "post", "ask") /\ UNCHANGED <<exit, family, wait>>
       ELSE Exits(c, "post", "response")
    /\ UNCHANGED <<request, clock, waited>>

\* Mutant of PostRefused: _send_request returns None, as post_batches does.
PostRefusedQuietly(c) ==
    /\ Exits(c, "post", "response")
    /\ UNCHANGED <<request, timing, status>>

\* No connection, or an error status: _send_request raises.  It also turns a
\* KeyboardInterrupt into the client's exception.
PostRefused(c) ==
    /\ Exits(c, "post", "error")
    /\ UNCHANGED <<request, timing, status>>

\* The same, once the batch is on its way to the validator.
PostUnanswered(c) ==
    /\ Exits(c, "post", "error")
    /\ status' = [status EXCEPT ![c] = "PENDING"]
    /\ UNCHANGED <<request, timing>>

-----------------------------------------------------------------------------
(* The loop that waits                                                     *)

\* Mutant of Remaining: the wait is not shortened by the time gone.
RemainingWhole(c) == wait[c]

\* wait - int(wait_time)
Remaining(c) == wait[c] - waited[c] \div TicksPerSecond

Ask(c) ==
    /\ Moves(c, "ask", "status")
    /\ asked' = [asked EXCEPT ![c] = Remaining(c)]
    /\ askedAt' = [askedAt EXCEPT ![c] = clock[c]]
    /\ UNCHANGED <<exit, family, wait, told, timing, status>>

Elapsed(c) == clock[c]

\* Mutant of Continues: an unknown batch is waited for as a pending one is.
ContinuesUnsettled(c) == status[c] \notin Settled /\ Elapsed(c) < Ticks(wait[c])

\* The loop goes round again.
Continues(c) == status[c] = "PENDING" /\ Elapsed(c) < Ticks(wait[c])

\* The REST API answers when the batch is no longer pending, or at some
\* time within the wait it was asked for.
StatusAnswered(c) ==
    /\ at[c] = "status"
    /\ status[c] = "PENDING" => clock[c] > askedAt[c]
    /\ told' = [told EXCEPT ![c] = status[c]]
    /\ waited' = [waited EXCEPT ![c] = Elapsed(c)]
    /\ IF Continues(c)
       THEN Moves(c, "status", "ask") /\ UNCHANGED <<exit, family, wait>>
       ELSE Exits(c, "status", "response")
    /\ UNCHANGED <<asked, askedAt, clock, answeredAt, status>>

StatusFails(c) ==
    /\ Exits(c, "status", "error")
    /\ UNCHANGED <<request, timing, status>>

\* A KeyboardInterrupt outside of _send_request and _get_status.
Interrupted(c) ==
    /\ Exits(c, "ask", "silent")
    /\ UNCHANGED <<request, timing, status>>

-----------------------------------------------------------------------------
(* External: time, and the validator                                       *)

\* A status request is answered within the time it asks for.
Tick(c) ==
    /\ \/ at[c] = "post" /\ clock[c] < MaxPost
       \/ at[c] = "status" /\ clock[c] < askedAt[c] + Ticks(asked[c])
    /\ clock' = [clock EXCEPT ![c] = @ + 1]
    /\ UNCHANGED <<at, exit, family, wait, request, waited, answeredAt, status>>

\* The validator settles the batch, or forgets it as it is restarted.
Decides(c) ==
    /\ status[c] = "PENDING"
    /\ \E s \in Settled \cup {"UNKNOWN"} : status' = [status EXCEPT ![c] = s]
    /\ UNCHANGED <<at, exit, family, wait, request, timing>>

-----------------------------------------------------------------------------
Begin(c) == IntkeyCommand(c) \/ XoCommand(c) \/ KeyFails(c)
PostEnds(c) == PostAnswered(c) \/ PostRefused(c) \/ PostUnanswered(c)
StatusEnds(c) == StatusAnswered(c) \/ StatusFails(c)

CommandsNext ==
    \E c \in Clients :
        \/ Begin(c) \/ PostEnds(c) \/ Ask(c) \/ StatusEnds(c)
        \/ Interrupted(c) \/ Tick(c) \/ Decides(c)

CommandsSpec == CommandsInit /\ [][CommandsNext]_commandsVars

\* A request ends, in answer or error, and time passes.  The validator may
\* leave a batch pending for ever.
CommandsFairSpec ==
    /\ CommandsSpec
    /\ \A c \in Clients :
        /\ WF_commandsVars(PostEnds(c))
        /\ WF_commandsVars(Ask(c))
        /\ WF_commandsVars(StatusEnds(c))
        /\ WF_commandsVars(Tick(c))

-----------------------------------------------------------------------------
(* Properties.                                                             *)

CommandsTypeOK ==
    /\ at \in [Clients -> Points]
    /\ exit \in [Clients -> Ends]
    /\ family \in [Clients -> {"intkey", "xo"}]
    /\ wait \in [Clients -> Waits]
    /\ clock \in [Clients -> Nat] /\ waited \in [Clients -> Nat]
    /\ asked \in [Clients -> Nat] /\ askedAt \in [Clients -> Nat]
    /\ answeredAt \in [Clients -> Nat]
    /\ told \in [Clients -> Statuses \cup {"none"}]
    /\ status \in [Clients -> Statuses \cup {"none"}]

\* A command that prints a response has submitted its batch, and one with
\* --wait has seen it leave the pending ones or has waited as long as it was
\* told to.  That the batch was committed it does not say.
ReportsTruly ==
    \A c \in Clients : exit[c] = "response" =>
        /\ status[c] # "none"
        /\ Waiting(c) => \/ told[c] \in Statuses \ {"PENDING"}
                         \/ waited[c] >= Ticks(wait[c])

\* Whenever the REST API is asked to wait, it is for a second at least, and
\* from the answer to the submission on a command waits less than a second
\* longer than it was told to.
NeverOverstays ==
    \A c \in Clients : at[c] = "status" =>
        /\ asked[c] >= 1
        /\ clock[c] - answeredAt[c] < Ticks(wait[c] + 1)

\* A command ends, though its batch may stay pending for ever.
CommandEnds == \A c \in Clients : at[c] = "post" ~> at[c] = "idle"

-----------------------------------------------------------------------------
(* The inductive invariant.  Times are those of a command that waits.      *)

\* A request is made at the time it was looked for last, or, the first one,
\* as the submission is answered.
Since(c, t) == t = waited[c] \/ (waited[c] = 0 /\ t = answeredAt[c])

WaitInv(c) ==
    /\ at[c] # "idle" => exit[c] = "none"
    /\ at[c] = "post" => waited[c] = 0 /\ answeredAt[c] = 0
    /\ at[c] \in {"ask", "status"} =>
           Waiting(c) /\ waited[c] < Ticks(wait[c]) /\ status[c] # "none"
    /\ at[c] = "ask" => Since(c, clock[c])
    /\ at[c] = "status" =>
           /\ Since(c, askedAt[c])
           /\ asked[c] = Remaining(c)
           /\ askedAt[c] <= clock[c] /\ clock[c] <= askedAt[c] + Ticks(asked[c])

CommandsInv == CommandsTypeOK /\ ReportsTruly /\ \A c \in Clients : WaitInv(c)
=============================================================================
