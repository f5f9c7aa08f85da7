---------------------------- MODULE BSOTransfer -----------------------------
(***************************************************************************)
(* The bilateral transfer protocol of the bank-shaped objects, BSO-SIM-M0  *)
(* (experiments/BSOSim/M0): reservation, the six messages and their        *)
(* handlers, the lossy and duplicating transport, and the rounds of        *)
(* reconciliation with expiry.                                             *)
(*                                                                         *)
(* Every handler is one Database.Mutate under a command ID made of         *)
(* transfer, kind and sender of the message: a message that was handled    *)
(* before is answered with the reply recorded then, as long as the dedupe  *)
(* window of the participant's store retains it.  A participant that       *)
(* restarts finds the state of its last Mutate (Catalog.tla shows that),   *)
(* so the close and reopen of maybeCrash changes nothing here.             *)
(***************************************************************************)
EXTENDS Integers, FiniteSetsExt

CONSTANTS
    BSOs,               \* the participants
    Transfers,          \* the attempts of the workload
    from, to, amount,   \* the fields of every attempt
    InitialBalance,     \* Config.InitialBalance
    ReservationExpiry,  \* Config.ReservationExpiry
    Duplicated,         \* bound: the messages that may be queued twice
    Forgotten           \* bound: the messages whose outcome may leave the dedupe window

\* GenerateWorkload picks two participants and a positive amount for every attempt.
ASSUME TransferAssumption ==
    /\ IsFiniteSet(BSOs) /\ IsFiniteSet(Transfers)
    /\ from \in [Transfers -> BSOs] /\ to \in [Transfers -> BSOs]
    /\ \A t \in Transfers : from[t] # to[t]
    /\ amount \in [Transfers -> Nat \ {0}]
    /\ InitialBalance \in Nat /\ ReservationExpiry \in Nat \ {0}

VARIABLES
    balance, reserved,    \* BSOState.Balance, Reserved
    outgoing, incoming,   \* Transfer.State at the sender and at the receiver
    debits, credits,      \* AuditEntry count of every transfer, at sender and receiver
    answered,             \* the outcome recorded for a message: its reply, "none" or "new"
    net,                  \* transport.queue: messages, each perhaps with a second copy
    todo,                 \* attempts not yet reserved
    round                 \* the round, counted up to ReservationExpiry

vars == <<balance, reserved, outgoing, incoming, debits, credits, answered, net, todo, round>>
local == <<balance, reserved, outgoing, incoming, debits, credits>>

\* The sum of f over a set.
Total(f, S) == MapThenSumSet(LAMBDA x : f[x], S)

\* An Envelope without the fields that follow from the transfer.  Its State field is read
\* in receiveReconcile alone, and every Reconcile carries StateExpired.
FromSender == {"offer", "commit", "reconcile", "reject"}
FromReceiver == {"accept", "acknowledge", "reject"}
Messages ==
    [transfer : Transfers, kind : FromSender, by : {"sender"}]
        \cup [transfer : Transfers, kind : FromReceiver, by : {"receiver"}]
ToReceiver(t, kind) == [transfer |-> t, kind |-> kind, by |-> "sender"]
ToSender(t, kind) == [transfer |-> t, kind |-> kind, by |-> "receiver"]

Init ==
    /\ balance = [b \in BSOs |-> InitialBalance] /\ reserved = [b \in BSOs |-> 0]
    /\ outgoing = [t \in Transfers |-> "none"] /\ incoming = [t \in Transfers |-> "none"]
    /\ debits = [t \in Transfers |-> 0] /\ credits = [t \in Transfers |-> 0]
    /\ answered = [m \in Messages |-> "new"]
    /\ net = {} /\ todo = Transfers /\ round = 0

-----------------------------------------------------------------------------
(* Transport *)

\* send, when nothing is dropped: a message may be queued twice.
Sent(queue, ms) ==
    \E twice \in SUBSET (ms \cap Duplicated) :
        net' = queue \cup {<<m, 1>> : m \in ms} \cup {<<m, 2>> : m \in twice}

\* send drops a message: here, at any time before it is delivered.
drop(copy) ==
    /\ copy \in net /\ net' = net \ {copy}
    /\ UNCHANGED <<local, answered, todo, round>>

-----------------------------------------------------------------------------
(* Reservation *)

funded(t) == balance[from[t]] >= amount[t]

Reserve(t) ==
    /\ outgoing' = [outgoing EXCEPT ![t] = "reserved"]
    /\ balance' = [balance EXCEPT ![from[t]] = @ - amount[t]]
    /\ reserved' = [reserved EXCEPT ![from[t]] = @ + amount[t]]
    /\ Sent(net, {ToReceiver(t, "offer")})

Reject(t) ==
    /\ outgoing' = [outgoing EXCEPT ![t] = "rejected"]
    /\ UNCHANGED <<balance, reserved, net>>

reserve(t) ==
    /\ t \in todo /\ todo' = todo \ {t}
    /\ IF funded(t) THEN Reserve(t) ELSE Reject(t)
    /\ UNCHANGED <<incoming, debits, credits, answered, round>>

-----------------------------------------------------------------------------
(* The handlers; drain runs them one by one once all attempts are reserved *)

\* The message is new and its outcome is recorded; by is who answers.
Handles(copy, m, reply, by) ==
    /\ todo = {} /\ copy \in net /\ copy[1] = m /\ answered[m] = "new"
    /\ answered' = [answered EXCEPT ![m] = reply]
    /\ Sent(net \ {copy},
            IF reply = "none" THEN {} ELSE {[transfer |-> m.transfer, kind |-> reply, by |-> by]})
    /\ UNCHANGED <<todo, round>>

\* Mutate finds the command ID: the recorded reply is sent again.
replay(copy) ==
    LET m == copy[1] IN
    /\ todo = {} /\ copy \in net /\ answered[m] # "new"
    /\ Sent(net \ {copy},
            IF answered[m] = "none" THEN {}
            ELSE {[transfer |-> m.transfer, kind |-> answered[m],
                   by |-> IF m.by = "sender" THEN "receiver" ELSE "sender"]})
    /\ UNCHANGED <<local, answered, todo, round>>

\* Later decisions of the participant push the outcome out of the dedupe window of its
\* store (applyKeyed): the message is a new one from then on.
forget(m) ==
    /\ m \in Forgotten /\ answered[m] # "new"
    /\ answered' = [answered EXCEPT ![m] = "new"]
    /\ UNCHANGED <<local, net, todo, round>>

receiveOffer(copy, t) ==
    /\ incoming' = [incoming EXCEPT ![t] = IF @ = "none" THEN "accepted" ELSE @]
    /\ LET state == incoming'[t] IN
       Handles(copy, ToReceiver(t, "offer"),
               IF state = "accepted" THEN "accept"
               ELSE IF state = "committed" THEN "acknowledge" ELSE "reject", "receiver")
    /\ UNCHANGED <<balance, reserved, outgoing, debits, credits>>

\* Altered Pending: a reservation that has expired counts as pending.
PendingOrExpired(t) == outgoing[t] \in {"reserved", "expired"}

\* StateReserved; StateAccepted, which the code tests as well, is never given to a sender.
Pending(t) == outgoing[t] = "reserved"

\* Altered debitApplies: the test of DebitApplied is the wrong way round.
DebitAppliesInverted(t) == Pending(t) /\ debits[t] # 0

debitApplies(t) == Pending(t) /\ debits[t] = 0

\* The sender finalises its debit, unless the transfer was settled before.
receiveAccept(copy, t) ==
    /\ outgoing' = [outgoing EXCEPT ![t] = IF Pending(t) THEN "committed" ELSE @]
    /\ debits' = [debits EXCEPT ![t] = IF debitApplies(t) THEN @ + 1 ELSE @]
    /\ reserved' = [reserved EXCEPT ![from[t]] = IF debitApplies(t) THEN @ - amount[t] ELSE @]
    /\ Handles(copy, ToSender(t, "accept"),
               IF outgoing'[t] \in {"committed", "acknowledged"} THEN "commit" ELSE "reject",
               "sender")
    /\ UNCHANGED <<balance, incoming, credits>>

\* Altered releases: a transfer that has expired is released a second time.
ReleasesAgain(t) == outgoing[t] \in {"reserved", "expired"}

releases(t) == Pending(t)

\* A rejection releases the reservation it finds.
receiveReject(copy, t) ==
    /\ outgoing' = [outgoing EXCEPT ![t] = IF releases(t) THEN "rejected" ELSE @]
    /\ balance' = [balance EXCEPT ![from[t]] = IF releases(t) THEN @ + amount[t] ELSE @]
    /\ reserved' = [reserved EXCEPT ![from[t]] = IF releases(t) THEN @ - amount[t] ELSE @]
    /\ Handles(copy, ToSender(t, "reject"), "none", "sender")
    /\ UNCHANGED <<incoming, debits, credits>>

\* The receiver holds no outgoing transfer of that ID.
receiveRejectUnknown(copy, t) ==
    Handles(copy, ToReceiver(t, "reject"), "none", "receiver") /\ UNCHANGED local

creditApplies(t) == incoming[t] = "accepted" /\ credits[t] = 0

\* Altered Credit: the balance grows and CreditApplied is not set.
CreditUnrecorded(t) ==
    /\ balance' = [balance EXCEPT ![to[t]] = IF creditApplies(t) THEN @ + amount[t] ELSE @]
    /\ UNCHANGED credits

Credit(t) ==
    /\ balance' = [balance EXCEPT ![to[t]] = IF creditApplies(t) THEN @ + amount[t] ELSE @]
    /\ credits' = [credits EXCEPT ![t] = IF creditApplies(t) THEN @ + 1 ELSE @]

\* The receiver commits what it accepted and applies its credit, once.
receiveCommit(copy, t) ==
    /\ incoming' = [incoming EXCEPT ![t] = IF @ = "accepted" THEN "committed" ELSE @]
    /\ Credit(t)
    /\ Handles(copy, ToReceiver(t, "commit"),
               IF incoming[t] = "none" THEN "none"
               ELSE IF incoming'[t] = "committed" THEN "acknowledge" ELSE "reject",
               "receiver")
    /\ UNCHANGED <<reserved, outgoing, debits>>

receiveAck(copy, t) ==
    /\ outgoing' = [outgoing EXCEPT ![t] = IF @ = "committed" THEN "acknowledged" ELSE @]
    /\ Handles(copy, ToSender(t, "acknowledge"), "none", "sender")
    /\ UNCHANGED <<balance, reserved, incoming, debits, credits>>

\* The sender's expiry reaches the receiver, which drops an acceptance it has not committed.
receiveReconcile(copy, t) ==
    /\ incoming' = [incoming EXCEPT ![t] = IF @ = "accepted" THEN "expired" ELSE @]
    /\ Handles(copy, ToReceiver(t, "reconcile"),
               IF incoming[t] = "none" THEN "none"
               ELSE IF incoming[t] = "committed" THEN "acknowledge" ELSE "reject",
               "receiver")
    /\ UNCHANGED <<balance, reserved, outgoing, debits, credits>>

\* deliver: one queued copy reaches its participant.
deliver(copy) ==
    \/ replay(copy)
    \/ \E t \in Transfers :
        \/ receiveOffer(copy, t)
        \/ receiveAccept(copy, t)
        \/ receiveReject(copy, t)
        \/ receiveRejectUnknown(copy, t)
        \/ receiveCommit(copy, t)
        \/ receiveAck(copy, t)
        \/ receiveReconcile(copy, t)

-----------------------------------------------------------------------------
(* Reconciliation, between two drains of the queue *)

resolved(t) ==
    outgoing[t] \in {"acknowledged", "rejected", "expired"} /\ incoming[t] # "accepted"

Refund(ts, b) == Total(amount, {t \in ts : from[t] = b})

\* Altered Drained: a round begins while messages of the round before are on their way.
DrainedOrNot == todo = {}

\* drain returns when the queue is empty.
Drained == todo = {} /\ net = {}

\* Altered expires: a sender that has committed may give up too.
ExpiresCommitted(t) ==
    outgoing[t] \in {"reserved", "committed"} /\ round + 1 >= ReservationExpiry

expires(t) == Pending(t) /\ round + 1 >= ReservationExpiry

\* What the two ends of a transfer send again, by their states.
Owed(sender, receiver) ==
    {m \in Messages :
        \/ /\ m.by = "sender"
           /\ <<m.kind, sender[m.transfer]>> \in
                {<<"offer", "reserved">>, <<"commit", "committed">>, <<"reconcile", "expired">>}
        \/ /\ m.by = "receiver"
           /\ <<m.kind, receiver[m.transfer]>> \in
                {<<"accept", "accepted">>, <<"acknowledge", "committed">>}}

\* Every participant in turn expires what is due and sends what it owes; no message is
\* delivered in between.  MaxRounds, which ends a simulation, is left out.
reconcile ==
    LET expired == {t \in Transfers : expires(t)} IN
    /\ Drained
    /\ \E t \in Transfers : ~resolved(t)
    /\ round' = Min({round + 1, ReservationExpiry})
    /\ outgoing' = [t \in Transfers |-> IF expires(t) THEN "expired" ELSE outgoing[t]]
    /\ balance' = [b \in BSOs |-> balance[b] + Refund(expired, b)]
    /\ reserved' = [b \in BSOs |-> reserved[b] - Refund(expired, b)]
    /\ Sent(net, Owed(outgoing', incoming))
    /\ UNCHANGED <<incoming, debits, credits, answered, todo>>

-----------------------------------------------------------------------------
Next ==
    \/ \E t \in Transfers : reserve(t)
    \/ \E copy \in net : deliver(copy) \/ drop(copy)
    \/ \E m \in Messages : forget(m)
    \/ reconcile

Spec == Init /\ [][Next]_vars

\* Run works through its attempts, empties the queue and reconciles; every send draws the
\* loss of its message anew, so one that is sent again and again arrives.
FairSpec ==
    /\ Spec
    /\ WF_vars(\E t \in Transfers : reserve(t))
    /\ WF_vars(\E copy \in net : deliver(copy))
    /\ WF_vars(reconcile)
    /\ \A m \in {m \in Messages : m.kind \in {"commit", "acknowledge", "reconcile"}} :
            SF_vars(deliver(<<m, 1>>))

-----------------------------------------------------------------------------
(* Properties *)

\* The two ends of a transfer never contradict each other, whatever is lost, repeated or
\* late: a receiver that applied the credit has a sender that paid, an acknowledged sender
\* has a receiver that applied the credit, and a reservation that was given back is
\* credited to no one.
BothSidesAgree ==
    \A t \in Transfers :
        /\ incoming[t] = "committed" => outgoing[t] \in {"committed", "acknowledged"}
        /\ outgoing[t] = "acknowledged" => incoming[t] = "committed"
        /\ incoming[t] = "expired" => outgoing[t] = "expired"

\* The audit records of a transfer: one debit exactly when the sender has committed, one
\* credit exactly when the receiver has, never a second one (receiveAccept, receiveCommit).
AppliedOnce ==
    \A t \in Transfers :
        /\ debits[t] = IF outgoing[t] \in {"committed", "acknowledged"} THEN 1 ELSE 0
        /\ credits[t] = IF incoming[t] = "committed" THEN 1 ELSE 0

Underway(ts) == Total(amount, {t \in ts : debits[t] > 0 /\ credits[t] = 0})

\* checkAccountingInvariant at every step, not only between rounds: no Balance or Reserved is
\* negative, and what the participants hold, reserved or not, together with what is debited
\* but not yet credited is what they began with.
MoneyConserved ==
    /\ \A b \in BSOs : balance[b] >= 0 /\ reserved[b] >= 0
    /\ Total([b \in BSOs |-> balance[b] + reserved[b]], BSOs) + Underway(Transfers)
         = Total([b \in BSOs |-> InitialBalance], BSOs)

Ledger == INSTANCE TransferLedger WITH
    funds <- [b \in BSOs |->
                balance[b] + reserved[b] + Underway({t \in Transfers : from[t] = b})],
    status <- [t \in Transfers |->
                IF incoming[t] = "committed" THEN "moved"
                ELSE IF outgoing[t] \in {"rejected", "expired"} THEN "released" ELSE "open"]

\* Seen from outside, every transfer is one atomic step: with the receiver's commit as the
\* moment the value moves, the protocol implements the ledger.
ImplementsLedger == Ledger!Spec

\* A decision a participant has recorded stays: a settled or committed sender never goes
\* back, and a receiver that committed or dropped a transfer keeps to it.
DecisionsFinal ==
    [][\A t \in Transfers :
        /\ outgoing[t] \in {"acknowledged", "rejected", "expired"} => outgoing'[t] = outgoing[t]
        /\ outgoing[t] = "committed" => outgoing'[t] \in {"committed", "acknowledged"}
        /\ incoming[t] \in {"committed", "expired"} => incoming'[t] = incoming[t]]_vars

\* Rounds of reconciliation settle every transfer and leave no receiver with an acceptance
\* whose sender has given up, though a message is not handled again while its outcome is
\* retained.
EveryTransferResolves == <>[](\A t \in Transfers : resolved(t))
=============================================================================
