---------------------------- MODULE MCBSOTransfer ---------------------------
(* Small instances of BSOTransfer for TLC. *)
EXTENDS BSOTransfer

CONSTANTS a, b, t1, t2, t3

\* a holds what the first or the third transfer takes, not both; the second goes back.
Sender == [t \in Transfers |-> IF t = t2 THEN b ELSE a]
Receiver == [t \in Transfers |-> IF t = t2 THEN a ELSE b]
Amount == [t \in Transfers |-> CASE t = t1 -> 2 [] t = t2 -> 1 [] OTHER -> 3]

\* The offer of the first transfer may arrive twice, and so, by the replies
\* to both copies, may every later message of it.
Twice == {m \in Messages : m.transfer = t1 /\ m.kind = "offer"}

\* The outcome of that Offer may leave the dedupe window: its second copy, or the Offer of
\* the next round, then meets a transfer that is accepted or committed already.
Old == Twice
============================================================================
