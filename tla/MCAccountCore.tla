--------------------------- MODULE MCAccountCore ---------------------------
(* Small instances of AccountCore for TLC. *)
EXTENDS AccountCore

CONSTANTS c1, c2, a1, a2

Each(commands(_)) == UNION {commands(c) : c \in CommandIDs}

\* Two accounts, a transfer and one that stays pending: what recovery has to rebuild.
\* With a window of one, decisions alternate between the IDs.
Transfers ==
    {Command(c1, "create", a1, NoAccount, 2), Command(c2, "create", a2, NoAccount, 0),
     Command(c1, "transfer", a1, a2, 1), Command(c2, "begin", a1, a2, 1),
     Command(c1, "begin", a1, a2, 1)}

\* Every kind of command; the source starts with the largest int of 3 bits.  As decisions
\* alternate between the IDs, most kinds need only one of them.
EveryKind ==
    {Command(c1, "create", a1, NoAccount, 3), Command(c1, "begin", a1, a2, 1),
     Command(c1, "deposit", a1, NoAccount, 1), Command(c1, "transfer", a1, a2, 1),
     Command(c2, "create", a2, NoAccount, 0), Command(c2, "cancel", a1, NoAccount, 0),
     Command(c2, "withdraw", a1, NoAccount, 1),
     Command(c2, "freeze", a1, NoAccount, 0), Command(c2, "unfreeze", a1, NoAccount, 0)}
    \cup Each(LAMBDA c : {Command(c, "confirm", a1, a2, 1)})

\* An account and deposits to it: each decision builds on the one before.
Deposits ==
    {Command(c1, "create", a1, NoAccount, 2), Command(c2, "deposit", a1, NoAccount, 1),
     Command(c1, "deposit", a1, NoAccount, 1)}

\* One handle that only submits batches: decisions do not depend on the other steps.
BatchNext ==
    \/ OpenCore \/ loadSnapshot \/ openWAL \/ opened
    \/ \E n \in 1..BatchMax : \E commands \in [1..n -> Commands] : SubmitBatch(commands)
    \/ appendBatch \/ appendSync \/ applyRecords
BatchSpec == Init /\ [][BatchNext]_vars
=============================================================================
