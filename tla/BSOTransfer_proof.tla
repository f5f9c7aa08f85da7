------------------------- MODULE BSOTransfer_proof --------------------------
(***************************************************************************)
(* The transfer protocol, for any finite set of participants and transfers *)
(* and any queue.  Atomicity: the invariant adds to the agreement of the   *)
(* two ends what every message on its way, and every recorded reply,       *)
(* vouches for: facts that no later step takes back.  Then sums over       *)
(* finite sets, and with them that no money is lost and that the protocol  *)
(* implements the ledger.                                                  *)
(***************************************************************************)
EXTENDS BSOTransfer, FiniteSetTheorems, TLAPS

\* A leaf is tried with Zenon and then with the SMT solver, unless it names a prover.
USE ZenonT(2), SMTT(20), ZenonT(30)

Paid == {"committed", "acknowledged"}

\* What a message says of the end that sent it.
Says(m) ==
    /\ m.kind = "commit" => outgoing[m.transfer] \in Paid
    /\ m.kind = "acknowledge" => incoming[m.transfer] = "committed"
    /\ m.kind = "reconcile" => outgoing[m.transfer] = "expired"
    /\ m.kind = "reject" /\ m.by = "receiver" => incoming[m.transfer] = "expired"

Opposite(end) == IF end = "sender" THEN "receiver" ELSE "sender"
Reply(m) == [transfer |-> m.transfer, kind |-> answered[m], by |-> Opposite(m.by)]

Typed ==
    /\ outgoing \in [Transfers -> {"none", "reserved", "committed", "acknowledged", "rejected", "expired"}]
    /\ incoming \in [Transfers -> {"none", "accepted", "committed", "expired"}]
    /\ debits \in [Transfers -> Nat] /\ credits \in [Transfers -> Nat]

QueueHonest == net \subseteq Messages \X {1, 2} /\ \A copy \in net : Says(copy[1])
RepliesHonest ==
    \A m \in Messages : answered[m] \notin {"new", "none"} => Reply(m) \in Messages /\ Says(Reply(m))
NotYetReserved == todo \subseteq Transfers /\ \A t \in todo : outgoing[t] = "none"

Ends == Typed /\ BothSidesAgree /\ AppliedOnce
IInv == Ends /\ NotYetReserved /\ QueueHonest /\ RepliesHonest /\ DOMAIN answered = Messages

\* What one step leaves of every transfer.
Kept ==
    \A t \in Transfers :
        /\ outgoing[t] \in {"acknowledged", "rejected", "expired"} => outgoing'[t] = outgoing[t]
        /\ outgoing[t] = "committed" => outgoing'[t] \in Paid
        /\ incoming[t] \in {"committed", "expired"} => incoming'[t] = incoming[t]

-----------------------------------------------------------------------------
\* What a message vouches for stays true: the states it names are final (Kept).
LEMMA SaysStable ==
    ASSUME NEW m \in Messages, Says(m), Kept
    PROVE  Says(m)'
<1>1. m.transfer \in Transfers BY DEF Messages
<1> QED BY <1>1 DEF Says, Kept, Paid

\* Sending honest messages keeps the queue honest, whatever was dropped or delivered.
LEMMA QueueStaysHonest ==
    ASSUME QueueHonest, Kept, NEW ms \in SUBSET Messages, \A m \in ms : Says(m)',
           net' \subseteq net \cup (ms \X {1, 2})
    PROVE  QueueHonest'
<1>1. net' \subseteq Messages \X {1, 2} BY DEF QueueHonest
<1>2. ASSUME NEW copy \in net' PROVE Says(copy[1])'
  <2>1. copy[1] \in Messages BY <1>1
  <2>2. CASE copy \in net BY <2>1, <2>2, SaysStable DEF QueueHonest
  <2>3. CASE copy \in ms \X {1, 2} BY <2>3
  <2> QED BY <2>2, <2>3
<1> QED BY <1>1, <1>2 DEF QueueHonest

\* Without a new record the recorded replies stay honest.
LEMMA RepliesKept ==
    ASSUME RepliesHonest, Kept, UNCHANGED answered
    PROVE  RepliesHonest'
<1>1. SUFFICES ASSUME NEW m \in Messages, answered[m] \notin {"new", "none"}
               PROVE  Reply(m)' \in Messages /\ Says(Reply(m))'
  BY DEF RepliesHonest
<1>2. Reply(m)' = Reply(m) /\ Reply(m) \in Messages /\ Says(Reply(m))
  BY <1>1 DEF RepliesHonest, Reply
<1>3. PICK r \in Messages : r = Reply(m) BY <1>2
<1>4. Says(r)' BY <1>2, <1>3, SaysStable
<1> QED BY <1>2, <1>3, <1>4

\* A handler that records and sends an honest reply keeps queue and records honest.
LEMMA HandlesHonest ==
    ASSUME IInv, Kept, NEW copy, NEW m \in Messages, NEW reply, NEW by, by = Opposite(m.by),
           Handles(copy, m, reply, by),
           NEW r, r = [transfer |-> m.transfer, kind |-> reply, by |-> by],
           reply = "none" \/ (r \in Messages /\ Says(r)')
    PROVE  QueueHonest' /\ RepliesHonest' /\ DOMAIN answered' = Messages /\ todo' = todo /\ todo = {}
<1> DEFINE ms == IF reply = "none" THEN {} ELSE {r}
<1>1. ms \in SUBSET Messages /\ \A x \in ms : Says(x)' OBVIOUS
<1>2. net' \subseteq net \cup (ms \X {1, 2})
  <2>1. Sent(net \ {copy}, ms) BY DEF Handles
  <2> QED BY <2>1 DEF Sent
<1>3. QueueHonest' BY <1>1, <1>2, QueueStaysHonest DEF IInv
<1>4. answered' = [answered EXCEPT ![m] = reply] /\ todo' = todo /\ todo = {} BY DEF Handles
<1>5. DOMAIN answered' = Messages BY <1>4 DEF IInv
<1>6. ASSUME NEW x \in Messages, answered'[x] \notin {"new", "none"}
      PROVE  Reply(x)' \in Messages /\ Says(Reply(x))'
  <2>1. CASE x = m
    <3>1. answered'[x] = reply BY <2>1, <1>4 DEF IInv
    <3>2. Reply(x)' = r BY <3>1, <2>1 DEF Reply
    <3> QED BY <3>1, <3>2, <1>6
  <2>2. CASE x # m
    <3>1. answered'[x] = answered[x] BY <2>2, <1>4 DEF IInv
    <3>2. Reply(x)' = Reply(x) /\ Reply(x) \in Messages /\ Says(Reply(x))
      BY <3>1, <1>6 DEF Reply, IInv, RepliesHonest
    <3>3. PICK y \in Messages : y = Reply(x) BY <3>2
    <3>4. Says(y)' BY <3>2, <3>3, SaysStable
    <3> QED BY <3>2, <3>3, <3>4
  <2> QED BY <2>1, <2>2
<1>7. RepliesHonest' BY <1>6 DEF RepliesHonest
<1> QED BY <1>3, <1>4, <1>5, <1>7
-----------------------------------------------------------------------------
\* A message in the queue is honest about its transfer.
LEMMA DeliveredHonest ==
    ASSUME IInv, NEW copy, NEW m, NEW reply, NEW by, Handles(copy, m, reply, by)
    PROVE  Says(m)
BY DEF IInv, QueueHonest, Handles

\* receiveOffer: an end that is new accepts; nothing else moves.
LEMMA OfferStep ==
    ASSUME IInv, NEW copy, NEW t \in Transfers, receiveOffer(copy, t)
    PROVE  IInv' /\ Kept
<1> DEFINE m == ToReceiver(t, "offer")
<1>1. Ends' /\ Kept
  BY DEF receiveOffer, IInv, Ends, Typed, BothSidesAgree, AppliedOnce, Kept, Paid
<1>2. PICK reply :
        /\ reply = IF incoming'[t] = "accepted" THEN "accept"
                   ELSE IF incoming'[t] = "committed" THEN "acknowledge" ELSE "reject"
        /\ Handles(copy, m, reply, "receiver")
  BY DEF receiveOffer
<1>3. PICK r : r = [transfer |-> t, kind |-> reply, by |-> "receiver"] OBVIOUS
<1>4. m \in Messages /\ m.by = "sender" /\ m.transfer = t BY DEF Messages, ToReceiver, FromSender
<1>5. r \in Messages BY <1>2, <1>3 DEF Messages, FromReceiver
<1>6. Says(r)'
  BY <1>1, <1>2, <1>3 DEF Says, Ends, Typed, receiveOffer
<1>7. QueueHonest' /\ RepliesHonest' /\ DOMAIN answered' = Messages /\ todo' = todo /\ todo = {}
  BY <1>1, <1>2, <1>3, <1>4, <1>5, <1>6, HandlesHonest DEF Opposite
<1> QED BY <1>1, <1>7 DEF IInv, NotYetReserved

\* receiveAccept: a pending sender pays, once; a settled one stays settled.
LEMMA AcceptStep ==
    ASSUME IInv, NEW copy, NEW t \in Transfers, receiveAccept(copy, t)
    PROVE  IInv' /\ Kept
<1> DEFINE m == ToSender(t, "accept")
<1>1. PICK reply :
        /\ reply = IF outgoing'[t] \in {"committed", "acknowledged"} THEN "commit" ELSE "reject"
        /\ Handles(copy, m, reply, "sender")
  BY DEF receiveAccept
<1>2. m \in Messages /\ m.by = "receiver" /\ m.transfer = t /\ m.kind = "accept"
  BY DEF Messages, ToSender, FromReceiver
<1>3. Says(m) BY <1>1, DeliveredHonest
<1>4. Ends' /\ Kept
  BY <1>2, <1>3 DEF receiveAccept, Pending, debitApplies, IInv, Ends, Typed, BothSidesAgree, AppliedOnce, Kept, Paid, Says
<1>5. PICK r : r = [transfer |-> t, kind |-> reply, by |-> "sender"] OBVIOUS
<1>6. reply = "none" \/ (r \in Messages /\ Says(r)')
  <2>1. reply = "none" \/ r \in Messages BY <1>1, <1>5 DEF Messages, FromSender
  <2>2. reply = "none" \/ Says(r)'
    BY <1>1, <1>2, <1>3, <1>4, <1>5 DEF Says, Paid
  <2> QED BY <2>1, <2>2
<1>7. QueueHonest' /\ RepliesHonest' /\ DOMAIN answered' = Messages /\ todo' = todo /\ todo = {}
  BY <1>1, <1>2, <1>4, <1>5, <1>6, HandlesHonest DEF Opposite
<1> QED BY <1>4, <1>7 DEF IInv, NotYetReserved

\* receiveReject: the receiver that says so has expired, so no reservation is pending.
LEMMA RejectStep ==
    ASSUME IInv, NEW copy, NEW t \in Transfers, receiveReject(copy, t)
    PROVE  IInv' /\ Kept
<1> DEFINE m == ToSender(t, "reject")
<1>1. PICK reply :
        /\ reply = "none"
        /\ Handles(copy, m, reply, "sender")
  BY DEF receiveReject
<1>2. m \in Messages /\ m.by = "receiver" /\ m.transfer = t /\ m.kind = "reject"
  BY DEF Messages, ToSender, FromReceiver
<1>3. Says(m) BY <1>1, DeliveredHonest
<1>4. Ends' /\ Kept
  BY <1>2, <1>3 DEF receiveReject, releases, Pending, IInv, Ends, Typed, BothSidesAgree, AppliedOnce, Kept, Paid, Says
<1>5. PICK r : r = [transfer |-> t, kind |-> reply, by |-> "sender"] OBVIOUS
<1>6. QueueHonest' /\ RepliesHonest' /\ DOMAIN answered' = Messages /\ todo' = todo /\ todo = {}
  BY <1>1, <1>2, <1>4, <1>5, HandlesHonest DEF Opposite
<1> QED BY <1>4, <1>6 DEF IInv, NotYetReserved

\* receiveReject at the receiver: nothing changes but the record.
LEMMA RejectUnknownStep ==
    ASSUME IInv, NEW copy, NEW t \in Transfers, receiveRejectUnknown(copy, t)
    PROVE  IInv' /\ Kept
<1> DEFINE m == ToReceiver(t, "reject")
<1>1. PICK reply :
        /\ reply = "none"
        /\ Handles(copy, m, reply, "receiver")
  BY DEF receiveRejectUnknown
<1>2. m \in Messages /\ m.by = "sender" /\ m.transfer = t /\ m.kind = "reject"
  BY DEF Messages, ToReceiver, FromSender
<1>3. Says(m) BY <1>1, DeliveredHonest
<1>4. Ends' /\ Kept
  BY <1>2, <1>3 DEF receiveRejectUnknown, local, IInv, Ends, Typed, BothSidesAgree, AppliedOnce, Kept, Paid, Says
<1>5. PICK r : r = [transfer |-> t, kind |-> reply, by |-> "receiver"] OBVIOUS
<1>6. QueueHonest' /\ RepliesHonest' /\ DOMAIN answered' = Messages /\ todo' = todo /\ todo = {}
  BY <1>1, <1>2, <1>4, <1>5, HandlesHonest DEF Opposite
<1> QED BY <1>4, <1>6 DEF IInv, NotYetReserved

\* receiveCommit: the sender has paid, and the receiver applies its credit, once.
LEMMA CommitStep ==
    ASSUME IInv, NEW copy, NEW t \in Transfers, receiveCommit(copy, t)
    PROVE  IInv' /\ Kept
<1> DEFINE m == ToReceiver(t, "commit")
<1>1. PICK reply :
        /\ reply = IF incoming[t] = "none" THEN "none"
                   ELSE IF incoming'[t] = "committed" THEN "acknowledge" ELSE "reject"
        /\ Handles(copy, m, reply, "receiver")
  BY DEF receiveCommit
<1>2. m \in Messages /\ m.by = "sender" /\ m.transfer = t /\ m.kind = "commit"
  BY DEF Messages, ToReceiver, FromSender
<1>3. Says(m) BY <1>1, DeliveredHonest
<1>4. Ends' /\ Kept
  BY <1>2, <1>3 DEF receiveCommit, Credit, creditApplies, IInv, Ends, Typed, BothSidesAgree, AppliedOnce, Kept, Paid, Says
<1>5. PICK r : r = [transfer |-> t, kind |-> reply, by |-> "receiver"] OBVIOUS
<1>6. reply = "none" \/ (r \in Messages /\ Says(r)')
  <2>1. reply = "none" \/ r \in Messages BY <1>1, <1>5 DEF Messages, FromReceiver
  <2>2. reply = "none" \/ Says(r)'
    BY <1>1, <1>2, <1>3, <1>4, <1>5 DEF Says, Ends, Typed, receiveCommit, IInv
  <2> QED BY <2>1, <2>2
<1>7. QueueHonest' /\ RepliesHonest' /\ DOMAIN answered' = Messages /\ todo' = todo /\ todo = {}
  BY <1>1, <1>2, <1>4, <1>5, <1>6, HandlesHonest DEF Opposite
<1> QED BY <1>4, <1>7 DEF IInv, NotYetReserved

\* receiveAck: the receiver has committed, so the sender may close the transfer.
LEMMA AckStep ==
    ASSUME IInv, NEW copy, NEW t \in Transfers, receiveAck(copy, t)
    PROVE  IInv' /\ Kept
<1> DEFINE m == ToSender(t, "acknowledge")
<1>1. PICK reply :
        /\ reply = "none"
        /\ Handles(copy, m, reply, "sender")
  BY DEF receiveAck
<1>2. m \in Messages /\ m.by = "receiver" /\ m.transfer = t /\ m.kind = "acknowledge"
  BY DEF Messages, ToSender, FromReceiver
<1>3. Says(m) BY <1>1, DeliveredHonest
<1>4. Ends' /\ Kept
  BY <1>2, <1>3 DEF receiveAck, IInv, Ends, Typed, BothSidesAgree, AppliedOnce, Kept, Paid, Says
<1>5. PICK r : r = [transfer |-> t, kind |-> reply, by |-> "sender"] OBVIOUS
<1>6. QueueHonest' /\ RepliesHonest' /\ DOMAIN answered' = Messages /\ todo' = todo /\ todo = {}
  BY <1>1, <1>2, <1>4, <1>5, HandlesHonest DEF Opposite
<1> QED BY <1>4, <1>6 DEF IInv, NotYetReserved

\* receiveReconcile: the sender has expired, and the receiver follows it.
LEMMA ReconcileReceived ==
    ASSUME IInv, NEW copy, NEW t \in Transfers, receiveReconcile(copy, t)
    PROVE  IInv' /\ Kept
<1> DEFINE m == ToReceiver(t, "reconcile")
<1>1. PICK reply :
        /\ reply = IF incoming[t] = "none" THEN "none"
                   ELSE IF incoming[t] = "committed" THEN "acknowledge" ELSE "reject"
        /\ Handles(copy, m, reply, "receiver")
  BY DEF receiveReconcile
<1>2. m \in Messages /\ m.by = "sender" /\ m.transfer = t /\ m.kind = "reconcile"
  BY DEF Messages, ToReceiver, FromSender
<1>3. Says(m) BY <1>1, DeliveredHonest
<1>4. Ends' /\ Kept
  BY <1>2, <1>3 DEF receiveReconcile, IInv, Ends, Typed, BothSidesAgree, AppliedOnce, Kept, Paid, Says
<1>5. PICK r : r = [transfer |-> t, kind |-> reply, by |-> "receiver"] OBVIOUS
<1>6. reply = "none" \/ (r \in Messages /\ Says(r)')
  <2>1. reply = "none" \/ r \in Messages BY <1>1, <1>5 DEF Messages, FromReceiver
  <2>2. reply = "none" \/ Says(r)'
    BY <1>1, <1>2, <1>3, <1>4, <1>5 DEF Says, Ends, Typed, receiveReconcile, IInv
  <2> QED BY <2>1, <2>2
<1>7. QueueHonest' /\ RepliesHonest' /\ DOMAIN answered' = Messages /\ todo' = todo /\ todo = {}
  BY <1>1, <1>2, <1>4, <1>5, <1>6, HandlesHonest DEF Opposite
<1> QED BY <1>4, <1>7 DEF IInv, NotYetReserved

\* replay: the recorded reply goes out again; no end changes.
LEMMA ReplayStep ==
    ASSUME IInv, NEW copy, replay(copy)
    PROVE  IInv' /\ Kept
<1>1. copy \in net /\ copy[1] \in Messages BY DEF replay, IInv, QueueHonest
<1>2. Ends' /\ Kept /\ NotYetReserved' /\ UNCHANGED answered
  BY DEF replay, local, IInv, Ends, Typed, BothSidesAgree, AppliedOnce, Kept, Paid, NotYetReserved
<1>3. PICK ms : ms = IF answered[copy[1]] = "none" THEN {} ELSE {Reply(copy[1])} OBVIOUS
<1>4. net' \subseteq net \cup (ms \X {1, 2})
  <2>1. Sent(net \ {copy}, ms) BY <1>3 DEF replay, Reply, Opposite
  <2> QED BY <2>1 DEF Sent
<1>5. ms \in SUBSET Messages /\ \A x \in ms : Says(x)
  BY <1>1, <1>3 DEF replay, IInv, RepliesHonest
<1>6. \A x \in ms : Says(x)' BY <1>2, <1>5, SaysStable
<1>7. QueueHonest' BY <1>2, <1>4, <1>5, <1>6, QueueStaysHonest DEF IInv
<1>8. RepliesHonest' BY <1>2, RepliesKept DEF IInv
<1> QED BY <1>2, <1>7, <1>8 DEF IInv

\* drop: the queue loses a copy.
LEMMA DropStep ==
    ASSUME IInv, NEW copy, drop(copy)
    PROVE  IInv' /\ Kept
<1>1. Ends' /\ Kept /\ NotYetReserved' /\ UNCHANGED answered
  BY DEF drop, local, IInv, Ends, Typed, BothSidesAgree, AppliedOnce, Kept, Paid, NotYetReserved
<1>2. net' \subseteq net \cup ({} \X {1, 2}) BY DEF drop
<1>3. QueueHonest'
  <2>1. PICK ms : ms = {} OBVIOUS
  <2>2. ms \in SUBSET Messages /\ \A m \in ms : Says(m)' BY <2>1
  <2> QED BY <1>1, <1>2, <2>1, <2>2, QueueStaysHonest DEF IInv
<1>4. RepliesHonest' BY <1>1, RepliesKept DEF IInv
<1> QED BY <1>1, <1>3, <1>4 DEF IInv

\* forget: a record less; what is queued stays as honest as it was.
LEMMA ForgetStep ==
    ASSUME IInv, NEW m \in Messages, forget(m)
    PROVE  IInv' /\ Kept
<1>1. /\ Ends' /\ Kept /\ NotYetReserved' /\ UNCHANGED net
      /\ answered' = [answered EXCEPT ![m] = "new"]
  BY DEF forget, local, IInv, Ends, Typed, BothSidesAgree, AppliedOnce, Kept, Paid, NotYetReserved
<1>2. QueueHonest'
  <2>1. PICK ms : ms = {} OBVIOUS
  <2>2. ms \in SUBSET Messages /\ \A x \in ms : Says(x)' BY <2>1
  <2>3. net' \subseteq net \cup (ms \X {1, 2}) BY <1>1
  <2> QED BY <1>1, <2>2, <2>3, QueueStaysHonest DEF IInv
<1>3. ASSUME NEW x \in Messages, answered'[x] \notin {"new", "none"}
      PROVE  Reply(x)' \in Messages /\ Says(Reply(x))'
  <2>1. answered'[x] = answered[x] BY <1>1, <1>3 DEF IInv
  <2>2. Reply(x)' = Reply(x) /\ Reply(x) \in Messages /\ Says(Reply(x))
    BY <2>1, <1>3 DEF Reply, IInv, RepliesHonest
  <2>3. PICK y \in Messages : y = Reply(x) BY <2>2
  <2>4. Says(y)' BY <1>1, <2>2, <2>3, SaysStable
  <2> QED BY <2>2, <2>3, <2>4
<1>4. RepliesHonest' /\ DOMAIN answered' = Messages BY <1>1, <1>3 DEF RepliesHonest, IInv
<1> QED BY <1>1, <1>2, <1>4 DEF IInv

\* reserve: the attempt was in no state before.
LEMMA ReserveStep ==
    ASSUME IInv, NEW t \in Transfers, reserve(t)
    PROVE  IInv' /\ Kept
<1>1. /\ outgoing[t] = "none" /\ UNCHANGED <<incoming, debits, credits, answered>>
      /\ outgoing' \in {[outgoing EXCEPT ![t] = "reserved"], [outgoing EXCEPT ![t] = "rejected"]}
  BY DEF reserve, Reserve, Reject, IInv, NotYetReserved
<1>2. Ends' /\ Kept
  BY <1>1 DEF IInv, Ends, Typed, BothSidesAgree, AppliedOnce, Kept, Paid
<1>3. NotYetReserved'
  BY <1>1 DEF reserve, IInv, NotYetReserved, Ends, Typed
<1>4. net' \subseteq net \cup ({ToReceiver(t, "offer")} \X {1, 2})
  <2>1. CASE Reserve(t) BY <2>1 DEF Reserve, Sent
  <2>2. CASE Reject(t) BY <2>2 DEF Reject
  <2> QED BY <2>1, <2>2 DEF reserve
<1>5. ToReceiver(t, "offer") \in Messages /\ Says(ToReceiver(t, "offer"))'
  BY DEF Messages, ToReceiver, FromSender, Says
<1>6. QueueHonest'
  <2>1. PICK ms : ms = {ToReceiver(t, "offer")} OBVIOUS
  <2>2. ms \in SUBSET Messages /\ \A m \in ms : Says(m)' BY <1>5, <2>1
  <2> QED BY <1>2, <1>4, <2>1, <2>2, QueueStaysHonest DEF IInv
<1>7. RepliesHonest' BY <1>1, <1>2, RepliesKept DEF IInv
<1> QED BY <1>1, <1>2, <1>3, <1>6, <1>7 DEF IInv

\* reconcile: only pending senders expire, and every end sends what is true of it.
LEMMA ReconcileStep ==
    ASSUME IInv, reconcile
    PROVE  IInv' /\ Kept
<1>1. /\ UNCHANGED <<incoming, debits, credits, answered, todo>> /\ todo = {}
      /\ outgoing' = [t \in Transfers |-> IF expires(t) THEN "expired" ELSE outgoing[t]]
  BY DEF reconcile, Drained
<1>2. Ends' /\ Kept
  BY <1>1 DEF expires, Pending, IInv, Ends, Typed, BothSidesAgree, AppliedOnce, Kept, Paid
<1>3. PICK ms : ms = Owed(outgoing', incoming) OBVIOUS
<1>4. net' \subseteq net \cup (ms \X {1, 2})
  <2>1. Sent(net, ms) BY <1>3 DEF reconcile
  <2> QED BY <2>1 DEF Sent
<1>5. ms \in SUBSET Messages BY <1>3 DEF Owed
<1>6. ASSUME NEW x \in ms PROVE Says(x)'
  BY <1>1, <1>3, <1>6 DEF Owed, Says, Paid
<1>7. QueueHonest' BY <1>2, <1>4, <1>5, <1>6, QueueStaysHonest DEF IInv
<1>8. RepliesHonest' BY <1>1, <1>2, RepliesKept DEF IInv
<1> QED BY <1>1, <1>2, <1>7, <1>8 DEF IInv, NotYetReserved

-----------------------------------------------------------------------------
\* Every step keeps the invariant and every decision.
LEMMA NextStep ==
    ASSUME IInv, Next
    PROVE  IInv' /\ Kept
<1>1. CASE \E t \in Transfers : reserve(t) BY <1>1, ReserveStep
<1>2. CASE \E copy \in net : drop(copy) BY <1>2, DropStep
<1>3. CASE \E copy \in net : deliver(copy)
  BY <1>3, ReplayStep, OfferStep, AcceptStep, RejectStep, RejectUnknownStep, CommitStep,
     AckStep, ReconcileReceived DEF deliver
<1>4. CASE reconcile BY <1>4, ReconcileStep
<1>5. CASE \E m \in Messages : forget(m) BY <1>5, ForgetStep
<1> QED BY <1>1, <1>2, <1>3, <1>4, <1>5 DEF Next

\* Reservation, delivery, loss, replay, expired records and reconciliation keep the invariant.
LEMMA InvariantHolds == Spec => []IInv
<1>1. Init => IInv
  BY DEF Init, IInv, Ends, Typed, BothSidesAgree, AppliedOnce, NotYetReserved, QueueHonest,
         RepliesHonest, Paid
<1>2. IInv /\ [Next]_vars => IInv'
  <2>1. ASSUME IInv, UNCHANGED vars PROVE IInv'
    BY <2>1 DEF vars, IInv, Ends, Typed, BothSidesAgree, AppliedOnce, NotYetReserved,
                QueueHonest, RepliesHonest, Paid, Says, Reply
  <2> QED BY <2>1, NextStep
<1> QED BY <1>1, <1>2, PTL DEF Spec

\* Whatever the transport drops, repeats or reorders, the sender and the receiver of a
\* transfer (receiveAccept, receiveCommit, receiveAck, expiry) never contradict each other.
THEOREM Agreement == Spec => []BothSidesAgree
<1>1. IInv => BothSidesAgree BY DEF IInv, Ends
<1> QED BY <1>1, InvariantHolds, PTL

\* A transfer is debited once exactly when its sender committed, and credited once exactly
\* when its receiver did.
THEOREM ExactlyOnce == Spec => []AppliedOnce
<1>1. IInv => AppliedOnce BY DEF IInv, Ends
<1> QED BY <1>1, InvariantHolds, PTL

\* No handler and no round of reconciliation changes a decision that a participant has
\* recorded.
THEOREM DecisionsStay == Spec => DecisionsFinal
<1>1. ASSUME IInv, [Next]_vars
      PROVE  [\A t \in Transfers :
                /\ outgoing[t] \in {"acknowledged", "rejected", "expired"} => outgoing'[t] = outgoing[t]
                /\ outgoing[t] = "committed" => outgoing'[t] \in {"committed", "acknowledged"}
                /\ incoming[t] \in {"committed", "expired"} => incoming'[t] = incoming[t]]_vars
  BY <1>1, NextStep DEF Kept, Paid
<1> QED BY <1>1, InvariantHolds, PTL DEF Spec, DecisionsFinal

-----------------------------------------------------------------------------
(* Sums *)

\* One unfolding of the sum: what MapThenSumSet adds up for s, given the sums of its subsets.
Unfold(f, g, s) == IF s = {} THEN 0 ELSE LET x == CHOOSE x \in s : TRUE IN f[x] + g[s \ {x}]
Sums(f, S, g) == g = [s \in SUBSET S |-> Unfold(f, g, s)]
SumOver(f, S) == CHOOSE g : Sums(f, S, g)

\* A set of naturals that has 0 and with every number the next has all of them.
LEMMA NaturalInduction ==
    ASSUME NEW D, 0 \in D, \A n \in Nat : n \in D => n + 1 \in D
    PROVE  \A n \in Nat : n \in D
<1> DEFINE bad == Nat \ D
<1> SUFFICES ASSUME bad # {} PROVE FALSE
  OBVIOUS
<1>1. PICK x \in bad : \A y \in bad : ~(<<y, x>> \in OpToRel(<, Nat))
  BY NatLessThanWellFounded, WFMin
<1>2. x - 1 \in Nat
  OBVIOUS
<1>3. <<x - 1, x>> \in OpToRel(<, Nat)
  BY <1>2 DEF OpToRel
<1>4. x - 1 \in D
  BY <1>1, <1>2, <1>3
<1> QED
  BY <1>2, <1>4

\* What holds of a finite set when it holds of all its smaller subsets.
LEMMA SubsetInduction ==
    ASSUME NEW S, IsFiniteSet(S), NEW Q,
           \A T \in SUBSET S : (\A x \in T : T \ {x} \in Q) => T \in Q
    PROVE  \A T \in SUBSET S : T \in Q
<1> DEFINE D == {n \in Nat : \A T \in SUBSET S : Cardinality(T) = n => T \in Q}
<1>1. \A T \in SUBSET S : /\ IsFiniteSet(T) /\ Cardinality(T) \in Nat
                          /\ \A x \in T : Cardinality(T \ {x}) = Cardinality(T) - 1
  BY FS_Subset, FS_CardinalityType, FS_RemoveElement
<1>2. 0 \in D
  <2>1. ASSUME NEW T \in SUBSET S, Cardinality(T) = 0 PROVE T \in Q
    BY <1>1, <2>1, FS_EmptySet
  <2> QED
    BY <2>1
<1>3. ASSUME NEW n \in Nat, n \in D PROVE n + 1 \in D
  <2>1. ASSUME NEW T \in SUBSET S, Cardinality(T) = n + 1 PROVE T \in Q
    <3>1. \A x \in T : T \ {x} \in SUBSET S /\ Cardinality(T \ {x}) = n
      BY <1>1, <2>1
    <3> QED
      BY <1>3, <3>1
  <2> QED
    BY <2>1
<1> HIDE DEF D
<1>4. \A n \in Nat : n \in D
  BY <1>2, <1>3, NaturalInduction
<1> QED
  BY <1>1, <1>4 DEF D

\* The recursion of MapThenSumSet has a solution on the subsets of a finite set.
LEMMA SumExists ==
    ASSUME NEW f, NEW S, IsFiniteSet(S)
    PROVE  Sums(f, S, SumOver(f, S))
<1> DEFINE D == {n \in Nat : \E g : \A s \in SUBSET S : Cardinality(s) <= n => g[s] = Unfold(f, g, s)}
<1>1. \A T \in SUBSET S : /\ IsFiniteSet(T) /\ Cardinality(T) \in Nat /\ Cardinality(T) <= Cardinality(S)
                          /\ \A x \in T : Cardinality(T \ {x}) = Cardinality(T) - 1
  BY FS_Subset, FS_CardinalityType, FS_RemoveElement
<1>2. 0 \in D
  <2> DEFINE g == [s \in SUBSET S |-> 0]
  <2>1. ASSUME NEW s \in SUBSET S, Cardinality(s) <= 0 PROVE g[s] = Unfold(f, g, s)
    <3>1. s = {}
      BY <1>1, <2>1, FS_EmptySet
    <3> QED
      BY <3>1 DEF Unfold
  <2> QED
    BY <2>1
<1>3. ASSUME NEW n \in Nat, n \in D PROVE n + 1 \in D
  <2>1. PICK g : \A s \in SUBSET S : Cardinality(s) <= n => g[s] = Unfold(f, g, s)
    BY <1>3
  <2> DEFINE h == [s \in SUBSET S |-> Unfold(f, g, s)]
  <2>2. ASSUME NEW s \in SUBSET S, Cardinality(s) <= n + 1 PROVE h[s] = Unfold(f, h, s)
    <3>1. CASE s = {}
      BY <3>1 DEF Unfold
    <3>2. CASE s # {}
      <4> DEFINE x == CHOOSE x \in s : TRUE
      <4>1. x \in s
        BY <3>2
      <4> HIDE DEF x
      <4>2. s \ {x} \in SUBSET S /\ Cardinality(s \ {x}) <= n
        BY <1>1, <2>2, <4>1
      <4>3. h[s \ {x}] = g[s \ {x}]
        BY <2>1, <4>2
      <4> HIDE DEF h
      <4>4. Unfold(f, h, s) = f[x] + h[s \ {x}] /\ Unfold(f, g, s) = f[x] + g[s \ {x}]
        BY <3>2 DEF Unfold, x
      <4> QED
        BY <4>3, <4>4 DEF h
    <3> QED
      BY <3>1, <3>2
  <2> HIDE DEF h
  <2> QED
    BY <2>2
<1> HIDE DEF D
<1>4. Cardinality(S) \in D
  BY <1>1, <1>2, <1>3, NaturalInduction
<1>5. PICK g : \A s \in SUBSET S : g[s] = Unfold(f, g, s)
  BY <1>1, <1>4 DEF D
<1> DEFINE k == [s \in SUBSET S |-> g[s]]
<1>6. ASSUME NEW s \in SUBSET S PROVE k[s] = Unfold(f, k, s)
  <2>1. \A x : s \ {x} \in SUBSET S
    OBVIOUS
  <2>2. Unfold(f, k, s) = Unfold(f, g, s)
    BY <2>1 DEF Unfold
  <2> QED
    BY <1>5, <2>2
<1>7. Sums(f, S, k)
  <2> HIDE DEF k
  <2>1. k = [s \in SUBSET S |-> k[s]]
    BY DEF k
  <2> QED
    BY <1>6, <2>1 DEF Sums
<1> QED
  BY <1>7, Zenon DEF SumOver

\* Total is that solution, on the whole set.
LEMMA TotalIsSum == ASSUME NEW f, NEW S PROVE Total(f, S) = SumOver(f, S)[S]
BY Zenon DEF Total, MapThenSumSet, MapThenFoldSet, SumOver, Sums, Unfold

\* What the solution says of every subset.
LEMMA SumUnfolds ==
    ASSUME NEW f, NEW S, IsFiniteSet(S), NEW s \in SUBSET S
    PROVE  LET g == SumOver(f, S) IN
           /\ s = {} => g[s] = 0
           /\ s # {} => \E x \in s : x = (CHOOSE y \in s : TRUE) /\ g[s] = f[x] + g[s \ {x}]
<1> DEFINE g == SumOver(f, S)
<1>1. Sums(f, S, g)
  BY SumExists
<1> HIDE DEF g
<1>2. g[s] = Unfold(f, g, s)
  BY <1>1 DEF Sums
<1>3. CASE s = {}
  BY <1>2, <1>3 DEF Unfold, g
<1>4. CASE s # {}
  <2>1. PICK x \in s : x = CHOOSE y \in s : TRUE
    BY <1>4
  <2>2. g[s] = f[x] + g[s \ {x}]
    BY <1>2, <1>4, <2>1 DEF Unfold
  <2> QED
    BY <1>4, <2>1, <2>2 DEF g
<1> QED
  BY <1>3, <1>4

\* The solution does not depend on the set that the subsets are taken from.
LEMMA SumUnique ==
    ASSUME NEW f, NEW S, IsFiniteSet(S), NEW T \in SUBSET S
    PROVE  Total(f, T) = SumOver(f, S)[T]
<1> DEFINE g == SumOver(f, S)
           h == SumOver(f, T)
           Q == {s \in SUBSET T : h[s] = g[s]}
<1>1. IsFiniteSet(T)
  BY FS_Subset
<1>2. ASSUME NEW s \in SUBSET T, \A x \in s : s \ {x} \in Q PROVE s \in Q
  <2>1. CASE s = {}
    BY <1>1, <2>1, SumUnfolds
  <2>2. CASE s # {}
    <3>1. PICK x \in s : x = (CHOOSE y \in s : TRUE) /\ g[s] = f[x] + g[s \ {x}]
      BY <2>2, SumUnfolds
    <3>2. \E z \in s : z = (CHOOSE y \in s : TRUE) /\ h[s] = f[z] + h[s \ {z}]
      BY <1>1, <2>2, SumUnfolds
    <3> HIDE DEF g, h
    <3>3. h[s \ {x}] = g[s \ {x}]
      BY <1>2
    <3> QED
      BY <3>1, <3>2, <3>3
  <2> QED
    BY <2>1, <2>2
<1>3. T \in Q
  <2> HIDE DEF Q
  <2>1. \A s \in SUBSET T : s \in Q
    BY <1>1, <1>2, SubsetInduction
  <2> QED
    BY <2>1
<1> HIDE DEF g, h
<1>4. h[T] = g[T]
  BY <1>3
<1> QED
  BY <1>4, TotalIsSum DEF g, h

\* The sum over a finite set of integers is an integer.
LEMMA TotalType ==
    ASSUME NEW f, NEW S, IsFiniteSet(S), \A x \in S : f[x] \in Int
    PROVE  Total(f, S) \in Int
<1> DEFINE g == SumOver(f, S)
           Q == {s \in SUBSET S : g[s] \in Int}
<1>1. ASSUME NEW s \in SUBSET S, \A x \in s : s \ {x} \in Q PROVE s \in Q
  <2>1. s = {} => g[s] = 0
    BY SumUnfolds
  <2>2. s # {} => \E x \in s : g[s] = f[x] + g[s \ {x}]
    BY SumUnfolds
  <2> HIDE DEF g
  <2>3. \A x \in s : f[x] \in Int /\ g[s \ {x}] \in Int
    BY <1>1
  <2>4. ASSUME s # {} PROVE g[s] \in Int
    <3>1. PICK x \in s : g[s] = f[x] + g[s \ {x}]
      BY <2>2, <2>4
    <3>2. PICK u \in Int, v \in Int : u = f[x] /\ v = g[s \ {x}]
      BY <2>3
    <3> QED
      BY <3>1, <3>2
  <2>5. g[s] \in Int
    BY <2>1, <2>4
  <2> QED
    BY <2>5
<1>2. S \in Q
  <2> HIDE DEF Q
  <2>1. \A s \in SUBSET S : s \in Q
    BY <1>1, SubsetInduction
  <2> QED
    BY <2>1
<1> HIDE DEF g
<1> QED
  BY <1>2, SumUnique DEF g

\* Nothing adds up to nothing.
LEMMA TotalEmpty == ASSUME NEW f PROVE Total(f, {}) = 0
BY FS_EmptySet, SumUnfolds, TotalIsSum

\* The sum over a finite set, one element first, whichever that is.
LEMMA TotalRemove ==
    ASSUME NEW f, NEW S, IsFiniteSet(S), \A x \in S : f[x] \in Int
    PROVE  \A x \in S : Total(f, S) = f[x] + Total(f, S \ {x})
<1> DEFINE Q == {s \in SUBSET S : \A x \in s : Total(f, s) = f[x] + Total(f, s \ {x})}
<1>1. \A s \in SUBSET S : Total(f, s) \in Int
  BY FS_Subset, TotalType
<1>2. ASSUME NEW s \in SUBSET S, \A x \in s : s \ {x} \in Q PROVE s \in Q
  <2> SUFFICES ASSUME NEW x \in s PROVE Total(f, s) = f[x] + Total(f, s \ {x})
    OBVIOUS
  <2>1. PICK c \in s : Total(f, s) = f[c] + Total(f, s \ {c})
    <3>1. PICK c \in s : SumOver(f, S)[s] = f[c] + SumOver(f, S)[s \ {c}]
      BY SumUnfolds
    <3>2. s \ {c} \in SUBSET S
      OBVIOUS
    <3> QED
      BY <3>1, <3>2, SumUnique
  <2>2. CASE x = c
    BY <2>1, <2>2
  <2>3. CASE x # c
    <3> DEFINE rest == (s \ {c}) \ {x}
    <3>1. x \in s \ {c} /\ c \in s \ {x} /\ rest = (s \ {x}) \ {c} /\ rest \in SUBSET S
      BY <2>3
    <3> HIDE DEF rest
    <3>2. Total(f, s \ {c}) = f[x] + Total(f, rest) /\ Total(f, s \ {x}) = f[c] + Total(f, rest)
      BY <1>2, <3>1 DEF rest
    <3>3. PICK u \in Int, v \in Int, w \in Int : u = f[x] /\ v = f[c] /\ w = Total(f, rest)
      BY <1>1, <3>1
    <3>4. Total(f, s) = v + (u + w) /\ Total(f, s \ {x}) = v + w
      BY <2>1, <3>2, <3>3
    <3>5. v + (u + w) = u + (v + w)
      OBVIOUS
    <3> QED
      BY <3>3, <3>4, <3>5
  <2> QED
    BY <2>2, <2>3
<1>3. S \in Q
  <2> HIDE DEF Q
  <2>1. \A s \in SUBSET S : s \in Q
    BY <1>2, SubsetInduction
  <2> QED
    BY <2>1
<1> QED
  BY <1>3

\* The same values have the same sum.
LEMMA TotalSame ==
    ASSUME NEW f, NEW g, NEW S, IsFiniteSet(S), \A x \in S : f[x] = g[x] /\ f[x] \in Int
    PROVE  Total(f, S) = Total(g, S)
<1> DEFINE Q == {s \in SUBSET S : Total(f, s) = Total(g, s)}
<1>1. ASSUME NEW s \in SUBSET S, \A x \in s : s \ {x} \in Q PROVE s \in Q
  <2>1. CASE s = {}
    BY <2>1, TotalEmpty
  <2>2. CASE s # {}
    <3>1. PICK x \in s : TRUE
      BY <2>2
    <3>2. IsFiniteSet(s)
      BY FS_Subset
    <3>3. Total(f, s) = f[x] + Total(f, s \ {x}) /\ Total(g, s) = g[x] + Total(g, s \ {x})
      BY <3>2, TotalRemove
    <3> QED
      BY <1>1, <3>3
  <2> QED
    BY <2>1, <2>2
<1>2. S \in Q
  <2> HIDE DEF Q
  <2>1. \A s \in SUBSET S : s \in Q
    BY <1>1, SubsetInduction
  <2> QED
    BY <2>1
<1> QED
  BY <1>2

\* Where one value changes, so does the sum.
LEMMA TotalUpdate ==
    ASSUME NEW f, NEW g, NEW S, IsFiniteSet(S), NEW x \in S,
           \A y \in S : f[y] \in Int /\ g[y] \in Int /\ (y # x => f[y] = g[y])
    PROVE  Total(g, S) = Total(f, S) - f[x] + g[x]
<1>1. IsFiniteSet(S \ {x})
  BY FS_RemoveElement
<1>2. Total(f, S \ {x}) = Total(g, S \ {x}) /\ Total(f, S \ {x}) \in Int
  BY <1>1, TotalSame, TotalType
<1>3. Total(f, S) = f[x] + Total(f, S \ {x}) /\ Total(g, S) = g[x] + Total(g, S \ {x})
  BY TotalRemove
<1> QED
  BY <1>2, <1>3

\* Natural numbers add up to a natural number.
LEMMA TotalNatural ==
    ASSUME NEW f, NEW S, IsFiniteSet(S), \A x \in S : f[x] \in Nat
    PROVE  Total(f, S) \in Nat
<1> DEFINE Q == {s \in SUBSET S : Total(f, s) \in Nat}
<1>1. ASSUME NEW s \in SUBSET S, \A x \in s : s \ {x} \in Q PROVE s \in Q
  <2>1. CASE s = {}
    BY <2>1, TotalEmpty
  <2>2. CASE s # {}
    <3>1. PICK x \in s : TRUE
      BY <2>2
    <3>2. IsFiniteSet(s) /\ \A y \in s : f[y] \in Int
      BY FS_Subset
    <3>3. Total(f, s) = f[x] + Total(f, s \ {x})
      BY <3>2, TotalRemove
    <3>4. f[x] \in Nat /\ Total(f, s \ {x}) \in Nat
      BY <1>1
    <3> QED
      BY <3>3, <3>4
  <2> QED
    BY <2>1, <2>2
<1>2. S \in Q
  <2> HIDE DEF Q
  <2>1. \A s \in SUBSET S : s \in Q
    BY <1>1, SubsetInduction
  <2> QED
    BY <2>1
<1> QED
  BY <1>2

-----------------------------------------------------------------------------
(* Money *)

Held(b) == {t \in Transfers : from[t] = b /\ outgoing[t] = "reserved"}
Floating(ts) == {t \in ts : debits[t] > 0 /\ credits[t] = 0}
Sending(b) == {t \in Transfers : from[t] = b}
Wealth == [b \in BSOs |-> balance[b] + reserved[b]]

\* Reserved is what the reservations of a participant amount to, and no money is lost.
Money ==
    /\ balance \in [BSOs -> Nat]
    /\ reserved = [b \in BSOs |-> Total(amount, Held(b))]
    /\ Total(Wealth, BSOs) + Underway(Transfers) = Total([b \in BSOs |-> InitialBalance], BSOs)

\* What the ledger sees.
Funds == [b \in BSOs |-> balance[b] + reserved[b] + Underway(Sending(b))]
Status ==
    [t \in Transfers |-> IF incoming[t] = "committed" THEN "moved"
                         ELSE IF outgoing[t] \in {"rejected", "expired"} THEN "released" ELSE "open"]
Moves(t) ==
    /\ Status[t] = "open" /\ Funds[from[t]] >= amount[t]
    /\ Status' = [Status EXCEPT ![t] = "moved"]
    /\ Funds' = [Funds EXCEPT ![from[t]] = @ - amount[t], ![to[t]] = @ + amount[t]]
Releases(ts) ==
    /\ \A t \in ts : Status[t] = "open"
    /\ Status' = [t \in Transfers |-> IF t \in ts THEN "released" ELSE Status[t]]
    /\ UNCHANGED Funds
LedgerStep ==
    \/ UNCHANGED <<Funds, Status>>
    \/ \E t \in Transfers : Moves(t)
    \/ \E ts \in SUBSET Transfers : Releases(ts)

\* Amounts of transfers add up to a natural number, and one more or less adds its own.
LEMMA Amounts ==
    ASSUME NEW S \in SUBSET Transfers
    PROVE  /\ Total(amount, S) \in Nat
           /\ \A t \in S : /\ Total(amount, S \ {t}) = Total(amount, S) - amount[t]
                           /\ amount[t] <= Total(amount, S)
           /\ \A t \in Transfers \ S : Total(amount, S \cup {t}) = Total(amount, S) + amount[t]
<1>1. \A T \in SUBSET Transfers : IsFiniteSet(T) /\ Total(amount, T) \in Nat
  BY FS_Subset, TotalNatural, TransferAssumption
<1>2. \A T \in SUBSET Transfers, t \in Transfers :
        t \in T => Total(amount, T) = amount[t] + Total(amount, T \ {t})
  <2> SUFFICES ASSUME NEW T \in SUBSET Transfers, NEW t \in T
               PROVE  Total(amount, T) = amount[t] + Total(amount, T \ {t})
    OBVIOUS
  <2>1. \A x \in T : amount[x] \in Int
    BY TransferAssumption
  <2> QED
    BY <1>1, <2>1, TotalRemove
<1>3. \A t \in Transfers : amount[t] \in Nat
  BY TransferAssumption
<1>4. ASSUME NEW t \in S
      PROVE  Total(amount, S \ {t}) = Total(amount, S) - amount[t] /\ amount[t] <= Total(amount, S)
  <2>1. PICK u \in Nat, v \in Nat, w \in Nat : u = Total(amount, S) /\ v = amount[t] /\ w = Total(amount, S \ {t})
    BY <1>1, <1>3
  <2>2. u = v + w
    BY <1>2, <2>1
  <2> QED
    BY <2>1, <2>2
<1>5. ASSUME NEW t \in Transfers \ S
      PROVE  Total(amount, S \cup {t}) = Total(amount, S) + amount[t]
  <2>1. (S \cup {t}) \ {t} = S /\ t \in S \cup {t} /\ S \cup {t} \in SUBSET Transfers
    OBVIOUS
  <2>2. Total(amount, S \cup {t}) = amount[t] + Total(amount, S)
    BY <1>2, <2>1
  <2> QED
    BY <1>1, <1>3, <2>2
<1> QED
  BY <1>1, <1>4, <1>5

\* The numbers of a state.
LEMMA MoneyTypes ==
    ASSUME Money
    PROVE  /\ \A b \in BSOs : /\ balance[b] \in Nat /\ reserved[b] \in Nat /\ reserved[b] = Total(amount, Held(b))
                              /\ Underway(Sending(b)) \in Nat /\ Wealth[b] \in Nat
                              /\ Wealth[b] = balance[b] + reserved[b]
           /\ \A t \in Transfers : amount[t] \in Nat /\ amount[t] # 0 /\ from[t] \in BSOs /\ to[t] \in BSOs /\ from[t] # to[t]
           /\ Total(Wealth, BSOs) \in Nat /\ Underway(Transfers) \in Nat
<1>1. \A b \in BSOs : Held(b) \in SUBSET Transfers /\ Sending(b) \in SUBSET Transfers
  BY DEF Held, Sending
<1>2. \A S \in SUBSET Transfers : Floating(S) \in SUBSET Transfers /\ Underway(S) = Total(amount, Floating(S))
  BY DEF Floating, Underway
<1>3. \A S \in SUBSET Transfers : Underway(S) \in Nat
  BY <1>2, Amounts
<1>4. \A b \in BSOs : balance[b] \in Nat /\ reserved[b] = Total(amount, Held(b)) /\ reserved[b] \in Nat
  BY <1>1, Amounts DEF Money
<1>5. \A b \in BSOs : Wealth[b] \in Nat /\ Wealth[b] = balance[b] + reserved[b]
  BY <1>4 DEF Wealth
<1>6. Total(Wealth, BSOs) \in Nat
  BY <1>5, TotalNatural, TransferAssumption
<1> QED
  BY <1>1, <1>3, <1>4, <1>5, <1>6, TransferAssumption

\* A step that moves no money.
LEMMA QuietStep ==
    ASSUME Money, UNCHANGED <<balance, reserved, debits, credits>>,
           \A t \in Transfers : outgoing[t] = "reserved" <=> outgoing'[t] = "reserved"
    PROVE  Money' /\ UNCHANGED Funds
<1>1. \A b \in BSOs : Held(b)' = Held(b)
  BY DEF Held
<1>2. UNCHANGED <<Wealth, Funds>> /\ Underway(Transfers)' = Underway(Transfers)
  BY DEF Wealth, Funds, Underway, Sending
<1>3. reserved' = [b \in BSOs |-> Total(amount, Held(b)')]
  BY <1>1 DEF Money
<1> QED
  BY <1>2, <1>3 DEF Money

\* Money that a participant sets aside, or takes back, is still its own.
LEMMA AsideStep ==
    ASSUME Money, NEW t \in Transfers, NEW d \in {amount[t], -amount[t]},
           UNCHANGED <<debits, credits>>, balance[from[t]] - d \in Nat,
           balance' = [balance EXCEPT ![from[t]] = @ - d],
           reserved' = [reserved EXCEPT ![from[t]] = @ + d],
           \A b \in BSOs : b # from[t] => Held(b)' = Held(b),
           Total(amount, Held(from[t])') = Total(amount, Held(from[t])) + d
    PROVE  Money' /\ UNCHANGED Funds
<1>1. from[t] \in BSOs /\ amount[t] \in Nat /\ d \in Int
  BY TransferAssumption
<1>2. \A b \in BSOs : balance[b] \in Nat /\ reserved[b] \in Nat /\ reserved[b] = Total(amount, Held(b))
  BY MoneyTypes
<1>3. /\ balance' \in [BSOs -> Nat]
      /\ reserved' = [b \in BSOs |-> IF b = from[t] THEN reserved[b] + d ELSE reserved[b]]
      /\ \A b \in BSOs : balance'[b] = IF b = from[t] THEN balance[b] - d ELSE balance[b]
  BY <1>1, <1>2 DEF Money
<1>4. reserved' = [b \in BSOs |-> Total(amount, Held(b)')]
  BY <1>1, <1>2, <1>3
<1>5. ASSUME NEW b \in BSOs PROVE balance'[b] + reserved'[b] = balance[b] + reserved[b]
  <2>1. PICK u \in Nat, v \in Nat : u = balance[b] /\ v = reserved[b]
    BY <1>2
  <2>2. CASE b = from[t]
    <3>1. balance'[b] = u - d /\ reserved'[b] = v + d
      BY <1>3, <2>1, <2>2
    <3> QED
      BY <1>1, <2>1, <3>1
  <2>3. CASE b # from[t]
    BY <1>3, <2>3
  <2> QED
    BY <2>2, <2>3
<1>6. UNCHANGED <<Wealth, Funds>> /\ Underway(Transfers)' = Underway(Transfers)
  <2>1. UNCHANGED Wealth
    BY <1>5 DEF Wealth
  <2>2. \A S : Underway(S)' = Underway(S)
    BY DEF Underway
  <2>3. \A b \in BSOs : Sending(b)' = Sending(b)
    BY DEF Sending
  <2>4. UNCHANGED Funds
    BY <1>5, <2>2, <2>3 DEF Funds
  <2> QED
    BY <2>1, <2>2, <2>4
<1> QED
  BY <1>3, <1>4, <1>6 DEF Money

\* The reservations of a participant when one transfer enters that state,
LEMMA HeldMore ==
    ASSUME NEW t \in Transfers, outgoing[t] # "reserved", DOMAIN outgoing = Transfers,
           outgoing' = [outgoing EXCEPT ![t] = "reserved"]
    PROVE  /\ \A b \in BSOs : b # from[t] => Held(b)' = Held(b)
           /\ Total(amount, Held(from[t])') = Total(amount, Held(from[t])) + amount[t]
<1>1. \A b \in BSOs : b # from[t] => Held(b)' = Held(b)
  BY DEF Held
<1>2. Held(from[t]) \in SUBSET Transfers
  BY DEF Held
<1>3. Held(from[t])' = Held(from[t]) \cup {t} /\ t \in Transfers \ Held(from[t])
  BY DEF Held
<1> QED
  BY <1>1, <1>2, <1>3, Amounts

\* and when it leaves it.
LEMMA HeldLess ==
    ASSUME NEW t \in Transfers, outgoing[t] = "reserved", DOMAIN outgoing = Transfers, NEW s, s # "reserved",
           outgoing' = [outgoing EXCEPT ![t] = s]
    PROVE  /\ \A b \in BSOs : b # from[t] => Held(b)' = Held(b)
           /\ Total(amount, Held(from[t])') = Total(amount, Held(from[t])) - amount[t]
           /\ amount[t] <= Total(amount, Held(from[t]))
<1>1. \A b \in BSOs : b # from[t] => Held(b)' = Held(b)
  BY DEF Held
<1>2. Held(from[t]) \in SUBSET Transfers
  BY DEF Held
<1>3. Held(from[t])' = Held(from[t]) \ {t} /\ t \in Held(from[t])
  BY DEF Held
<1> QED
  BY <1>1, <1>2, <1>3, Amounts

\* The sender pays: what it had reserved is underway.
LEMMA DebitStep ==
    ASSUME Money, Typed, NEW t \in Transfers, outgoing[t] = "reserved", debits[t] = 0, credits[t] = 0,
           outgoing' = [outgoing EXCEPT ![t] = "committed"], UNCHANGED <<balance, credits>>,
           debits' = [debits EXCEPT ![t] = @ + 1],
           reserved' = [reserved EXCEPT ![from[t]] = @ - amount[t]]
    PROVE  Money' /\ UNCHANGED Funds
<1> DEFINE p == from[t]
           a == amount[t]
<1>1. p \in BSOs /\ a \in Nat /\ DOMAIN outgoing = Transfers /\ DOMAIN debits = Transfers
  BY TransferAssumption DEF Typed
<1>2. /\ \A b \in BSOs : balance[b] \in Nat /\ reserved[b] \in Nat /\ reserved[b] = Total(amount, Held(b)) /\ Wealth[b] \in Nat
                         /\ Underway(Sending(b)) \in Nat /\ Wealth[b] = balance[b] + reserved[b]
      /\ Total(Wealth, BSOs) \in Nat /\ Underway(Transfers) \in Nat
  BY MoneyTypes
<1>3. /\ \A b \in BSOs : b # p => Held(b)' = Held(b)
      /\ Total(amount, Held(p)') = Total(amount, Held(p)) - a
      /\ a <= Total(amount, Held(p))
  <2>1. PICK s : s = "committed" /\ s # "reserved" /\ outgoing' = [outgoing EXCEPT ![t] = s]
    OBVIOUS
  <2> QED
    BY <1>1, <2>1, HeldLess
<1>4. reserved' = [b \in BSOs |-> IF b = p THEN reserved[b] - a ELSE reserved[b]]
  BY DEF Money
<1>5. reserved' = [b \in BSOs |-> Total(amount, Held(b)')]
  BY <1>2, <1>3, <1>4
<1>6. ASSUME NEW S \in SUBSET Transfers
      PROVE  /\ t \in S => Underway(S)' = Underway(S) + a
             /\ t \notin S => Underway(S)' = Underway(S)
  <2>1. Floating(S) \in SUBSET Transfers /\ t \notin Floating(S)
    BY DEF Floating
  <2>2. \A r \in Transfers : (debits'[r] > 0) <=> (debits[r] > 0 \/ r = t)
    BY <1>1 DEF Typed
  <2>3. Floating(S)' = IF t \in S THEN Floating(S) \cup {t} ELSE Floating(S)
    BY <2>2 DEF Floating
  <2>4. Underway(S) = Total(amount, Floating(S)) /\ Underway(S)' = Total(amount, Floating(S)')
    BY DEF Underway, Floating
  <2> QED
    BY <2>1, <2>3, <2>4, Amounts
<1>7. \A b \in BSOs : Sending(b) \in SUBSET Transfers /\ (t \in Sending(b) <=> b = p) /\ Sending(b)' = Sending(b)
  BY DEF Sending
<1> HIDE DEF p, a
<1>8. UNCHANGED Funds
  <2>1. ASSUME NEW b \in BSOs
        PROVE  balance'[b] + reserved'[b] + Underway(Sending(b))' = balance[b] + reserved[b] + Underway(Sending(b))
    <3>1. PICK u \in Nat, v \in Nat, w \in Nat : u = balance[b] /\ v = reserved[b] /\ w = Underway(Sending(b))
      BY <1>2
    <3>2. CASE b = p
      <4>1. balance'[b] = u /\ reserved'[b] = v - a /\ Underway(Sending(b))' = w + a
        BY <1>4, <1>6, <1>7, <3>1, <3>2
      <4> QED
        BY <1>1, <3>1, <4>1
    <3>3. CASE b # p
      <4>1. balance'[b] = u /\ reserved'[b] = v /\ Underway(Sending(b))' = w
        BY <1>4, <1>6, <1>7, <3>1, <3>3
      <4> QED
        BY <3>1, <4>1
    <3> QED
      BY <3>2, <3>3
  <2> QED
    BY <2>1 DEF Funds
<1>9. Total(Wealth', BSOs) = Total(Wealth, BSOs) - a
  <2>1. \A b \in BSOs : Wealth'[b] = IF b = p THEN Wealth[b] - a ELSE Wealth[b]
    <3> SUFFICES ASSUME NEW b \in BSOs PROVE Wealth'[b] = IF b = p THEN Wealth[b] - a ELSE Wealth[b]
      OBVIOUS
    <3>1. PICK u \in Nat, v \in Nat : u = balance[b] /\ v = reserved[b]
      BY <1>2
    <3>2. Wealth[b] = u + v /\ Wealth'[b] = u + (IF b = p THEN v - a ELSE v)
      BY <1>4, <3>1 DEF Wealth
    <3> QED
      BY <1>1, <3>2
  <2>2. PICK f : f = Wealth'
    OBVIOUS
  <2>3. \A b \in BSOs : Wealth[b] \in Int /\ f[b] \in Int /\ (b # p => Wealth[b] = f[b])
    BY <1>1, <1>2, <2>1, <2>2
  <2>4. Total(f, BSOs) = Total(Wealth, BSOs) - Wealth[p] + f[p]
    BY <1>1, <2>3, TotalUpdate, TransferAssumption
  <2> QED
    BY <1>1, <1>2, <2>1, <2>2, <2>4
<1>10. Total(Wealth', BSOs) + Underway(Transfers)' = Total(Wealth, BSOs) + Underway(Transfers)
  BY <1>1, <1>2, <1>6, <1>9
<1>11. Money'
  BY <1>5, <1>10 DEF Money
<1> QED
  BY <1>8, <1>11

\* The receiver books what was underway: the ledger sees the money move.
LEMMA CreditStep ==
    ASSUME Money, Typed, NEW t \in Transfers, debits[t] > 0, credits[t] = 0,
           UNCHANGED <<reserved, outgoing, debits>>,
           credits' = [credits EXCEPT ![t] = @ + 1],
           balance' = [balance EXCEPT ![to[t]] = @ + amount[t]]
    PROVE  /\ Money' /\ Funds[from[t]] >= amount[t]
           /\ Funds' = [Funds EXCEPT ![from[t]] = @ - amount[t], ![to[t]] = @ + amount[t]]
<1> DEFINE p == from[t]
           q == to[t]
           a == amount[t]
<1>1. p \in BSOs /\ q \in BSOs /\ p # q /\ a \in Nat /\ DOMAIN credits = Transfers
  BY TransferAssumption DEF Typed
<1>2. /\ \A b \in BSOs : balance[b] \in Nat /\ reserved[b] \in Nat /\ reserved[b] = Total(amount, Held(b)) /\ Wealth[b] \in Nat
                         /\ Underway(Sending(b)) \in Nat /\ Wealth[b] = balance[b] + reserved[b]
      /\ Total(Wealth, BSOs) \in Nat /\ Underway(Transfers) \in Nat
  BY MoneyTypes
<1>3. balance' = [b \in BSOs |-> IF b = q THEN balance[b] + a ELSE balance[b]] /\ balance' \in [BSOs -> Nat]
  <2>1. balance' = [b \in BSOs |-> IF b = q THEN balance[b] + a ELSE balance[b]]
    BY DEF Money
  <2>2. \A b \in BSOs : balance[b] + a \in Nat /\ balance[b] \in Nat
    BY <1>1, <1>2
  <2> HIDE DEF a, q
  <2> QED
    BY <2>1, <2>2
<1>4. reserved' = [b \in BSOs |-> Total(amount, Held(b)')]
  BY DEF Money, Held
<1>5. ASSUME NEW S \in SUBSET Transfers
      PROVE  /\ t \in S => Underway(S)' = Underway(S) - a /\ a <= Underway(S)
             /\ t \notin S => Underway(S)' = Underway(S)
  <2>1. Floating(S) \in SUBSET Transfers /\ (t \in S => t \in Floating(S))
    BY DEF Floating
  <2>2. \A r \in Transfers : (credits'[r] = 0) <=> (credits[r] = 0 /\ r # t)
    BY <1>1 DEF Typed
  <2>3. Floating(S)' = IF t \in S THEN Floating(S) \ {t} ELSE Floating(S)
    BY <2>2 DEF Floating
  <2>4. Underway(S) = Total(amount, Floating(S)) /\ Underway(S)' = Total(amount, Floating(S)')
    BY DEF Underway, Floating
  <2> QED
    BY <2>1, <2>3, <2>4, Amounts
<1>6. \A b \in BSOs : Sending(b) \in SUBSET Transfers /\ (t \in Sending(b) <=> b = p) /\ Sending(b)' = Sending(b)
  BY DEF Sending
<1> HIDE DEF p, q, a
<1>7. /\ DOMAIN Funds = BSOs
      /\ \A b \in BSOs : /\ Funds[b] \in Nat
                         /\ Funds'[b] = IF b = p THEN Funds[b] - a ELSE IF b = q THEN Funds[b] + a ELSE Funds[b]
                         /\ b = p => a <= Funds[b]
  <2> SUFFICES ASSUME NEW b \in BSOs
               PROVE  /\ Funds[b] \in Nat
                      /\ Funds'[b] = IF b = p THEN Funds[b] - a ELSE IF b = q THEN Funds[b] + a ELSE Funds[b]
                      /\ b = p => a <= Funds[b]
    BY DEF Funds
  <2>1. PICK u \in Nat, v \in Nat, w \in Nat : u = balance[b] /\ v = reserved[b] /\ w = Underway(Sending(b))
    BY <1>2
  <2>2. Funds[b] = u + v + w
    BY <2>1 DEF Funds
  <2>3. Funds'[b] = balance'[b] + v + Underway(Sending(b))'
    BY <2>1 DEF Funds
  <2>4. CASE b = p
    <3>1. balance'[b] = u /\ Underway(Sending(b))' = w - a /\ a <= w
      BY <1>1, <1>3, <1>5, <1>6, <2>1, <2>4
    <3> QED
      BY <1>1, <2>2, <2>3, <2>4, <3>1
  <2>5. CASE b = q
    <3>1. balance'[b] = u + a /\ Underway(Sending(b))' = w
      BY <1>1, <1>3, <1>5, <1>6, <2>1, <2>5
    <3> QED
      BY <1>1, <2>2, <2>3, <2>5, <3>1
  <2>6. CASE b # p /\ b # q
    <3>1. balance'[b] = u /\ Underway(Sending(b))' = w
      BY <1>3, <1>5, <1>6, <2>1, <2>6
    <3> QED
      BY <2>2, <2>3, <2>6, <3>1
  <2> QED
    BY <2>4, <2>5, <2>6
<1>8. /\ Funds[p] >= a
      /\ Funds' = [Funds EXCEPT ![p] = @ - a, ![q] = @ + a]
  <2>1. Funds' = [b \in BSOs |-> Funds'[b]]
    BY DEF Funds
  <2>2. Funds = [b \in BSOs |-> Funds[b]]
    BY DEF Funds
  <2>3. Funds[p] >= a
    BY <1>1, <1>7
  <2> HIDE DEF Funds
  <2>4. PICK f, g : f = Funds /\ g = Funds'
    OBVIOUS
  <2>5. g = [f EXCEPT ![p] = @ - a, ![q] = @ + a]
    BY <1>1, <1>7, <2>1, <2>2, <2>4
  <2> QED
    BY <2>3, <2>4, <2>5
<1>9. Total(Wealth', BSOs) = Total(Wealth, BSOs) + a
  <2>1. \A b \in BSOs : Wealth'[b] = IF b = q THEN Wealth[b] + a ELSE Wealth[b]
    <3> SUFFICES ASSUME NEW b \in BSOs PROVE Wealth'[b] = IF b = q THEN Wealth[b] + a ELSE Wealth[b]
      OBVIOUS
    <3>1. PICK u \in Nat, v \in Nat : u = balance[b] /\ v = reserved[b]
      BY <1>2
    <3>2. Wealth[b] = u + v /\ Wealth'[b] = (IF b = q THEN u + a ELSE u) + v
      BY <1>3, <3>1 DEF Wealth
    <3> QED
      BY <1>1, <3>2
  <2>2. PICK f : f = Wealth'
    OBVIOUS
  <2>3. \A b \in BSOs : Wealth[b] \in Int /\ f[b] \in Int /\ (b # q => Wealth[b] = f[b])
    BY <1>1, <1>2, <2>1, <2>2
  <2>4. Total(f, BSOs) = Total(Wealth, BSOs) - Wealth[q] + f[q]
    BY <1>1, <2>3, TotalUpdate, TransferAssumption
  <2> QED
    BY <1>1, <1>2, <2>1, <2>2, <2>4
<1>10. Total(Wealth', BSOs) + Underway(Transfers)' = Total(Wealth, BSOs) + Underway(Transfers)
  BY <1>1, <1>2, <1>5, <1>9
<1>11. Money'
  BY <1>3, <1>4, <1>10 DEF Money
<1> QED
  BY <1>8, <1>11 DEF p, q, a

\* A round gives every reservation back when it is due, to whom it belongs.
LEMMA ExpiryStep ==
    ASSUME Money, Typed, reconcile
    PROVE  Money' /\ UNCHANGED Funds
<1> DEFINE expired == {t \in Transfers : expires(t)}
           due == round + 1 >= ReservationExpiry
<1>1. /\ outgoing' = [t \in Transfers |-> IF expires(t) THEN "expired" ELSE outgoing[t]]
      /\ balance' = [b \in BSOs |-> balance[b] + Refund(expired, b)]
      /\ reserved' = [b \in BSOs |-> reserved[b] - Refund(expired, b)]
      /\ UNCHANGED <<debits, credits>>
  BY DEF reconcile
<1>2. \A b \in BSOs : balance[b] \in Nat /\ reserved[b] \in Nat /\ reserved[b] = Total(amount, Held(b))
  BY MoneyTypes
<1>3. ASSUME NEW b \in BSOs
      PROVE  /\ Refund(expired, b) \in Nat /\ Refund(expired, b) <= reserved[b]
             /\ reserved[b] - Refund(expired, b) = Total(amount, Held(b)')
  <2>1. CASE due
    <3>1. {t \in expired : from[t] = b} = Held(b) /\ Held(b)' = {}
      BY <1>1, <2>1 DEF expires, Pending, Held
    <3>2. Refund(expired, b) = Total(amount, Held(b)) /\ Total(amount, Held(b)') = 0
      BY <3>1, TotalEmpty DEF Refund
    <3> QED
      BY <1>2, <3>2
  <2>2. CASE ~due
    <3>1. {t \in expired : from[t] = b} = {} /\ Held(b)' = Held(b)
      BY <1>1, <2>2 DEF expires, Held
    <3>2. Refund(expired, b) = 0
      BY <3>1, TotalEmpty DEF Refund
    <3> QED
      BY <1>2, <3>1, <3>2
  <2> QED
    BY <2>1, <2>2
<1> HIDE DEF expired
<1>4. balance' \in [BSOs -> Nat] /\ reserved' = [b \in BSOs |-> Total(amount, Held(b)')]
  BY <1>1, <1>2, <1>3
<1>5. ASSUME NEW b \in BSOs PROVE balance'[b] + reserved'[b] = balance[b] + reserved[b]
  <2>1. PICK u \in Nat, v \in Nat, w \in Nat : u = balance[b] /\ v = reserved[b] /\ w = Refund(expired, b)
    BY <1>2, <1>3
  <2>2. balance'[b] = u + w /\ reserved'[b] = v - w
    BY <1>1, <2>1
  <2> QED
    BY <2>1, <2>2
<1>6. UNCHANGED <<Wealth, Funds>> /\ Underway(Transfers)' = Underway(Transfers)
  <2>1. UNCHANGED Wealth
    BY <1>5 DEF Wealth
  <2>2. \A S : Underway(S)' = Underway(S)
    BY <1>1 DEF Underway
  <2>3. \A b \in BSOs : Sending(b)' = Sending(b)
    BY DEF Sending
  <2>4. UNCHANGED Funds
    BY <1>5, <2>2, <2>3 DEF Funds
  <2> QED
    BY <2>1, <2>2, <2>4
<1> QED
  BY <1>4, <1>6 DEF Money

\* A transfer that settles without paying releases what the ledger holds open.
LEMMA ReleaseStep ==
    ASSUME Ends, NEW ts \in SUBSET Transfers, \A t \in ts : outgoing[t] \in {"none", "reserved"},
           UNCHANGED <<incoming, Funds>>,
           \A t \in Transfers : outgoing'[t] = outgoing[t] \/ (t \in ts /\ outgoing'[t] \in {"rejected", "expired"}),
           \A t \in ts : outgoing'[t] \in {"rejected", "expired"}
    PROVE  LedgerStep
<1>1. \A t \in ts : incoming[t] # "committed" /\ Status[t] = "open"
  BY DEF Ends, BothSidesAgree, Status
<1>2. Status' = [t \in Transfers |-> IF t \in ts THEN "released" ELSE Status[t]]
  <2>1. ASSUME NEW t \in Transfers PROVE Status'[t] = IF t \in ts THEN "released" ELSE Status[t]
    BY <1>1 DEF Status
  <2> QED
    BY <2>1 DEF Status
<1>3. Releases(ts)
  BY <1>1, <1>2 DEF Releases
<1> QED
  BY <1>3 DEF LedgerStep

\* Steps that the ledger does not see.
LEMMA HiddenStep ==
    ASSUME UNCHANGED Funds,
           \A t \in Transfers : /\ incoming[t] = "committed" <=> incoming'[t] = "committed"
                                /\ outgoing[t] \in {"rejected", "expired"} <=> outgoing'[t] \in {"rejected", "expired"}
    PROVE  LedgerStep
BY DEF LedgerStep, Status

\* Reserving sets money aside or rejects the attempt.
LEMMA ReserveMoney ==
    ASSUME IInv, Money, NEW t \in Transfers, reserve(t)
    PROVE  Money' /\ LedgerStep
<1>1. /\ outgoing[t] = "none" /\ DOMAIN outgoing = Transfers /\ UNCHANGED <<incoming, debits, credits>> /\ Ends /\ Typed
  BY DEF reserve, IInv, NotYetReserved, Ends, Typed
<1>2. CASE funded(t)
  <2>1. /\ outgoing' = [outgoing EXCEPT ![t] = "reserved"] /\ balance[from[t]] >= amount[t]
        /\ balance' = [balance EXCEPT ![from[t]] = @ - amount[t]]
        /\ reserved' = [reserved EXCEPT ![from[t]] = @ + amount[t]]
    BY <1>2 DEF reserve, Reserve, funded
  <2>2. from[t] \in BSOs /\ amount[t] \in Nat /\ balance[from[t]] \in Nat
    BY TransferAssumption DEF Money
  <2>3. balance[from[t]] - amount[t] \in Nat
    BY <2>1, <2>2
  <2>5. /\ \A b \in BSOs : b # from[t] => Held(b)' = Held(b)
        /\ Total(amount, Held(from[t])') = Total(amount, Held(from[t])) + amount[t]
    BY <1>1, <2>1, HeldMore
  <2>6. Money' /\ UNCHANGED Funds
    BY <1>1, <2>1, <2>3, <2>5, AsideStep
  <2> QED
    BY <1>1, <2>1, <2>6, HiddenStep
<1>3. CASE ~funded(t)
  <2>1. outgoing' = [outgoing EXCEPT ![t] = "rejected"] /\ UNCHANGED <<balance, reserved>>
    BY <1>3 DEF reserve, Reject
  <2>2. Money' /\ UNCHANGED Funds
    BY <1>1, <2>1, QuietStep
  <2>3. PICK ts \in SUBSET Transfers : ts = {t}
    OBVIOUS
  <2> QED
    BY <1>1, <2>1, <2>2, <2>3, ReleaseStep
<1> QED
  BY <1>2, <1>3

\* A rejection gives the reservation back.
LEMMA RejectMoney ==
    ASSUME IInv, Money, NEW copy, NEW t \in Transfers, receiveReject(copy, t)
    PROVE  Money' /\ LedgerStep
<1>1. DOMAIN outgoing = Transfers /\ UNCHANGED <<incoming, debits, credits>> /\ Ends /\ Typed
  BY DEF receiveReject, IInv, Ends, Typed
<1>2. CASE outgoing[t] = "reserved"
  <2>1. /\ outgoing' = [outgoing EXCEPT ![t] = "rejected"]
        /\ balance' = [balance EXCEPT ![from[t]] = @ + amount[t]]
        /\ reserved' = [reserved EXCEPT ![from[t]] = @ - amount[t]]
    BY <1>2 DEF receiveReject, releases, Pending
  <2>2. from[t] \in BSOs /\ amount[t] \in Nat /\ balance[from[t]] \in Nat /\ reserved[from[t]] \in Nat
    BY TransferAssumption, MoneyTypes
  <2>3. PICK s : /\ outgoing' = [outgoing EXCEPT ![t] = s] /\ s # "reserved"
                 /\ outgoing[t] = "reserved" /\ DOMAIN outgoing = Transfers
    BY <1>1, <1>2, <2>1
  <2>4. /\ \A b \in BSOs : b # from[t] => Held(b)' = Held(b)
        /\ Total(amount, Held(from[t])') = Total(amount, Held(from[t])) - amount[t]
    BY <2>3, HeldLess
  <2>5. PICK d \in {amount[t], -amount[t]} : d = -amount[t]
    OBVIOUS
  <2>6. balance[from[t]] - d \in Nat /\ balance[from[t]] + amount[t] = balance[from[t]] - d
        /\ reserved[from[t]] - amount[t] = reserved[from[t]] + d
    BY <2>2, <2>5
  <2>7. /\ balance' = [balance EXCEPT ![from[t]] = @ - d]
        /\ reserved' = [reserved EXCEPT ![from[t]] = @ + d]
    BY <2>1, <2>6
  <2>8. Total(amount, Held(from[t])) \in Nat
    BY <2>2, MoneyTypes
  <2>9. Total(amount, Held(from[t])') = Total(amount, Held(from[t])) + d
    BY <2>2, <2>5, <2>4, <2>8
  <2>10. Money' /\ UNCHANGED Funds
    BY <1>1, <2>6, <2>7, <2>4, <2>9, AsideStep
  <2>11. PICK ts \in SUBSET Transfers : ts = {t}
    OBVIOUS
  <2> QED
    BY <1>1, <1>2, <2>1, <2>10, <2>11, ReleaseStep
<1>3. CASE outgoing[t] # "reserved"
  <2>1. UNCHANGED <<outgoing, balance, reserved>>
    BY <1>1, <1>3 DEF receiveReject, releases, Pending, Money, Typed
  <2>2. Money' /\ UNCHANGED Funds
    BY <1>1, <2>1, QuietStep
  <2> QED
    BY <1>1, <2>1, <2>2, HiddenStep
<1> QED
  BY <1>2, <1>3

\* An acceptance makes the sender pay.
LEMMA AcceptMoney ==
    ASSUME IInv, Money, NEW copy, NEW t \in Transfers, receiveAccept(copy, t)
    PROVE  Money' /\ LedgerStep
<1>1. DOMAIN outgoing = Transfers /\ UNCHANGED <<incoming, balance, credits>> /\ Ends /\ Typed
  BY DEF receiveAccept, IInv, Ends, Typed
<1>2. CASE outgoing[t] = "reserved"
  <2>1. debits[t] = 0 /\ credits[t] = 0 /\ Pending(t) /\ debitApplies(t)
    BY <1>1, <1>2 DEF Ends, AppliedOnce, BothSidesAgree, Pending, debitApplies
  <2>2. /\ outgoing' = [outgoing EXCEPT ![t] = "committed"]
        /\ debits' = [debits EXCEPT ![t] = @ + 1]
        /\ reserved' = [reserved EXCEPT ![from[t]] = @ - amount[t]]
    BY <2>1 DEF receiveAccept
  <2>3. Money' /\ UNCHANGED Funds
    BY <1>1, <1>2, <2>1, <2>2, DebitStep
  <2> QED
    BY <1>1, <1>2, <2>2, <2>3, HiddenStep
<1>3. CASE outgoing[t] # "reserved"
  <2>1. UNCHANGED <<outgoing, debits, reserved>>
    BY <1>1, <1>3 DEF receiveAccept, debitApplies, Pending, Money, Typed
  <2>2. Money' /\ UNCHANGED Funds
    BY <1>1, <2>1, QuietStep
  <2> QED
    BY <1>1, <2>1, <2>2, HiddenStep
<1> QED
  BY <1>2, <1>3

\* The receiver's commit is where the money moves.
LEMMA CommitMoney ==
    ASSUME IInv, Money, NEW copy, NEW t \in Transfers, receiveCommit(copy, t)
    PROVE  Money' /\ LedgerStep
<1>1. DOMAIN incoming = Transfers /\ UNCHANGED <<outgoing, reserved, debits>> /\ Ends /\ Typed /\ Credit(t)
      /\ incoming' = [incoming EXCEPT ![t] = IF @ = "accepted" THEN "committed" ELSE @]
  BY DEF receiveCommit, IInv, Ends, Typed
<1>2. CASE incoming[t] = "accepted"
  <2>1. outgoing[t] \in Paid
    <3>1. Says(ToReceiver(t, "commit"))
      BY DeliveredHonest DEF receiveCommit
    <3> QED
      BY <3>1 DEF Says, ToReceiver
  <2>2. debits[t] > 0 /\ credits[t] = 0 /\ creditApplies(t)
    BY <1>1, <1>2, <2>1 DEF Ends, AppliedOnce, creditApplies, Paid
  <2>3. /\ credits' = [credits EXCEPT ![t] = @ + 1]
        /\ balance' = [balance EXCEPT ![to[t]] = @ + amount[t]]
    BY <1>1, <2>2 DEF Credit
  <2>4. /\ Money' /\ Funds[from[t]] >= amount[t]
        /\ Funds' = [Funds EXCEPT ![from[t]] = @ - amount[t], ![to[t]] = @ + amount[t]]
    BY <1>1, <2>2, <2>3, CreditStep
  <2>5. Status[t] = "open" /\ Status' = [Status EXCEPT ![t] = "moved"]
    <3>1. Status[t] = "open"
      BY <1>2, <2>1 DEF Status, Paid
    <3>2. \A r \in Transfers : Status'[r] = IF r = t THEN "moved" ELSE Status[r]
      BY <1>1, <1>2 DEF Status
    <3> QED
      BY <3>1, <3>2 DEF Status
  <2>6. Moves(t)
    BY <2>4, <2>5 DEF Moves
  <2> QED
    BY <2>4, <2>6 DEF LedgerStep
<1>3. CASE incoming[t] # "accepted"
  <2>1. UNCHANGED <<incoming, credits, balance>>
    BY <1>1, <1>3 DEF Credit, creditApplies, Money, Typed
  <2>2. Money' /\ UNCHANGED Funds
    BY <1>1, <2>1, QuietStep
  <2> QED
    BY <1>1, <2>1, <2>2, HiddenStep
<1> QED
  BY <1>2, <1>3

\* Every step keeps the money, and is a step of the ledger or none.
LEMMA MoneyStep ==
    ASSUME IInv, Money, [Next]_vars
    PROVE  Money' /\ LedgerStep
<1>1. Typed /\ Ends /\ DOMAIN incoming = Transfers
  BY DEF IInv, Ends, Typed
<1>2. ASSUME UNCHANGED <<balance, reserved, outgoing, debits, credits>>,
             \A t \in Transfers : incoming[t] = "committed" <=> incoming'[t] = "committed"
      PROVE  Money' /\ LedgerStep
  <2>1. Money' /\ UNCHANGED Funds
    BY <1>2, QuietStep
  <2> QED
    BY <1>2, <2>1, HiddenStep
<1>3. CASE reconcile
  <2> DEFINE ts == {t \in Transfers : expires(t)}
  <2>1. Money' /\ UNCHANGED Funds
    BY <1>1, <1>3, ExpiryStep
  <2>2. /\ \A t \in ts : outgoing[t] \in {"none", "reserved"} /\ outgoing'[t] \in {"rejected", "expired"}
        /\ \A t \in Transfers : outgoing'[t] = outgoing[t] \/ (t \in ts /\ outgoing'[t] \in {"rejected", "expired"})
        /\ UNCHANGED incoming /\ ts \in SUBSET Transfers
    BY <1>3 DEF reconcile, expires, Pending
  <2> HIDE DEF ts
  <2> QED
    BY <1>1, <2>1, <2>2, ReleaseStep
<1>4. ASSUME NEW copy, NEW t \in Transfers, receiveOffer(copy, t) PROVE Money' /\ LedgerStep
  BY <1>1, <1>2, <1>4 DEF receiveOffer
<1>5. ASSUME NEW copy, NEW t \in Transfers, receiveReconcile(copy, t) PROVE Money' /\ LedgerStep
  BY <1>1, <1>2, <1>5 DEF receiveReconcile
<1>6. ASSUME NEW copy, NEW t \in Transfers, receiveRejectUnknown(copy, t) PROVE Money' /\ LedgerStep
  BY <1>2, <1>6 DEF receiveRejectUnknown, local
<1>7. ASSUME NEW copy, NEW t \in Transfers, receiveAck(copy, t) PROVE Money' /\ LedgerStep
  <2>1. /\ UNCHANGED <<balance, reserved, incoming, debits, credits>>
        /\ outgoing' = [outgoing EXCEPT ![t] = IF @ = "committed" THEN "acknowledged" ELSE @]
    BY <1>7 DEF receiveAck
  <2>2. \A r \in Transfers : \/ outgoing'[r] = outgoing[r]
                             \/ outgoing[r] = "committed" /\ outgoing'[r] = "acknowledged"
    BY <1>1, <2>1 DEF Typed
  <2>3. Money' /\ UNCHANGED Funds
    BY <2>1, <2>2, QuietStep
  <2> QED
    BY <2>1, <2>2, <2>3, HiddenStep
<1>8. CASE UNCHANGED vars
  BY <1>2, <1>8 DEF vars
<1>9. ASSUME NEW copy, replay(copy) \/ drop(copy) PROVE Money' /\ LedgerStep
  BY <1>2, <1>9 DEF replay, drop, local
<1>10. ASSUME NEW m, forget(m) PROVE Money' /\ LedgerStep
  BY <1>2, <1>10 DEF forget, local
<1>11. ASSUME NEW copy, deliver(copy) PROVE Money' /\ LedgerStep
  BY <1>4, <1>5, <1>6, <1>7, <1>9, <1>11, AcceptMoney, RejectMoney, CommitMoney DEF deliver
<1> QED
  BY <1>3, <1>8, <1>9, <1>10, <1>11, ReserveMoney DEF Next

\* At the start nothing is reserved or underway.
LEMMA MoneyInit ==
    ASSUME Init
    PROVE  /\ Money
           /\ Funds = [b \in BSOs |-> InitialBalance] /\ Status = [t \in Transfers |-> "open"]
<1>1. \A b \in BSOs : Held(b) = {}
  BY DEF Init, Held
<1>2. \A S \in SUBSET Transfers : Underway(S) = 0
  <2>1. \A S \in SUBSET Transfers : {t \in S : debits[t] > 0 /\ credits[t] = 0} = {}
    BY DEF Init
  <2> QED
    BY <2>1, TotalEmpty DEF Underway
<1>3. /\ balance = [b \in BSOs |-> InitialBalance] /\ reserved = [b \in BSOs |-> 0]
      /\ InitialBalance \in Nat
  BY TransferAssumption DEF Init
<1>4. Wealth = [b \in BSOs |-> InitialBalance]
  BY <1>3 DEF Wealth
<1>5. Total(Wealth, BSOs) \in Nat
  BY <1>3, <1>4, TotalNatural, TransferAssumption
<1>6. Total(Wealth, BSOs) + Underway(Transfers) = Total([b \in BSOs |-> InitialBalance], BSOs)
  BY <1>2, <1>4, <1>5
<1>7. reserved = [b \in BSOs |-> Total(amount, Held(b))]
  BY <1>1, <1>3, TotalEmpty
<1>8. Money
  BY <1>3, <1>6, <1>7 DEF Money
<1>9. Funds = [b \in BSOs |-> InitialBalance]
  <2>1. \A b \in BSOs : Sending(b) \in SUBSET Transfers
    BY DEF Sending
  <2> QED
    BY <1>2, <1>3, <2>1 DEF Funds
<1>10. Status = [t \in Transfers |-> "open"]
  BY DEF Init, Status
<1> QED
  BY <1>8, <1>9, <1>10

\* Reserved is what the reservations add up to, and no money is lost, along every behaviour.
LEMMA MoneyInvariant == Spec => [](IInv /\ Money)
<1>1. Init => Money
  BY MoneyInit
<1>2. IInv /\ Money /\ [Next]_vars => Money'
  BY MoneyStep
<1> QED
  BY <1>1, <1>2, InvariantHolds, PTL DEF Spec

\* Whatever is lost, repeated or late and whenever reservations expire, no Balance or Reserved
\* becomes negative and the participants hold together, with what is debited but not yet
\* credited, what they began with.
THEOREM MoneyIsConserved == Spec => []MoneyConserved
<1>1. Money => MoneyConserved
  <2> SUFFICES ASSUME Money PROVE MoneyConserved
    OBVIOUS
  <2>1. \A b \in BSOs : balance[b] \in Nat /\ reserved[b] \in Nat
    BY MoneyTypes
  <2>2. \A b \in BSOs : balance[b] >= 0 /\ reserved[b] >= 0
    BY <2>1
  <2> QED
    BY <2>2 DEF Money, MoneyConserved, Wealth
<1> QED
  BY <1>1, MoneyInvariant, PTL

\* Seen from outside the protocol of six messages is the ledger: every transfer is one atomic
\* move of money its sender owns, at the receiver's commit, or none.
THEOREM LedgerImplemented == Spec => ImplementsLedger
<1>1. Init => Ledger!Init
  <2> SUFFICES ASSUME Init PROVE Ledger!Init
    OBVIOUS
  <2> QED
    BY MoneyInit DEF Ledger!Init, Funds, Status, Sending
<1>2. ASSUME IInv, Money, [Next]_vars
      PROVE  [Ledger!Next]_<<Funds, Status>>
  <2>1. LedgerStep
    BY <1>2, MoneyStep
  <2>2. ASSUME NEW t \in Transfers, Moves(t) PROVE Ledger!Move(t)
    BY <2>2 DEF Moves, Ledger!Move, Funds, Status, Sending
  <2>3. ASSUME NEW ts \in SUBSET Transfers, Releases(ts) PROVE Ledger!Release(ts)
    BY <2>3 DEF Releases, Ledger!Release, Funds, Status, Sending
  <2> QED
    BY <2>1, <2>2, <2>3 DEF LedgerStep, Ledger!Next
<1> QED
  BY <1>1, <1>2, MoneyInvariant, PTL DEF Spec, ImplementsLedger, Ledger!Spec, Funds, Status, Sending
=============================================================================
