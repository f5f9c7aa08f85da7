--------------------------- MODULE TransferLedger ---------------------------
(***************************************************************************)
(* What the transfers between bank-shaped objects promise as a whole: each *)
(* moves its amount once, from funds its sender owns, or never moves it.   *)
(***************************************************************************)
EXTENDS Integers

CONSTANTS BSOs, Transfers, from, to, amount, InitialBalance

VARIABLES
    funds,    \* what every BSO owns, reserved or not
    status    \* of every transfer: "open", "moved" or "released"

Init ==
    /\ funds = [b \in BSOs |-> InitialBalance]
    /\ status = [t \in Transfers |-> "open"]

Move(t) ==
    /\ status[t] = "open" /\ funds[from[t]] >= amount[t]
    /\ status' = [status EXCEPT ![t] = "moved"]
    /\ funds' = [funds EXCEPT ![from[t]] = @ - amount[t], ![to[t]] = @ + amount[t]]

\* Several transfers may be released in one step.
Release(released) ==
    /\ \A t \in released : status[t] = "open"
    /\ status' = [t \in Transfers |-> IF t \in released THEN "released" ELSE status[t]]
    /\ UNCHANGED funds

Next ==
    \/ \E t \in Transfers : Move(t)
    \/ \E released \in SUBSET Transfers : Release(released)

Spec == Init /\ [][Next]_<<funds, status>>
=============================================================================
