-------------------------- MODULE ReliableDelivery --------------------------
(***************************************************************************)
(* What a session promises its subscriber about QoS 1 and QoS 2 messages,  *)
(* without queues, packet identifiers or connections: an accepted message  *)
(* stays pending until the subscriber has it or its drop is reported, and  *)
(* new messages are first sent in the order they were accepted.            *)
(***************************************************************************)
EXTENDS Naturals

VARIABLES
    owed,       \* messages accepted for the subscriber
    pending,    \* those the session still keeps
    got,        \* those the subscriber has
    reported,   \* those whose drop was reported
    sent        \* highest message sent for the first time

absVars == <<owed, pending, got, reported, sent>>

Init ==
    /\ owed = {} /\ pending = {} /\ got = {} /\ reported = {}
    /\ sent = 0

\* A message arrives; the session may report some messages, this one included,
\* as dropped to stay within its limits.
Accept ==
    \E m \in owed' \ owed :
        /\ owed' = owed \cup {m}
        /\ \A k \in owed : k < m
        /\ reported \subseteq reported'
        /\ reported' \subseteq owed' \cup reported
        /\ pending' \subseteq pending \cup {m}
        /\ \A k \in (pending \cup {m}) \ pending' : k \in reported' \/ k \in got
        /\ UNCHANGED <<got, sent>>

\* The session sends messages for the first time, and reports expired ones.
Send ==
    /\ sent' >= sent
    /\ sent' \in pending \cup {sent}
    /\ reported \subseteq reported' /\ reported' \subseteq reported \cup owed
    /\ pending \ reported' \subseteq pending' /\ pending' \subseteq pending
    /\ UNCHANGED <<owed, got>>

\* The subscriber gets a message, perhaps again, that has been sent.
Deliver ==
    /\ \E m \in owed : m <= sent /\ got' = got \cup {m}
    /\ UNCHANGED <<owed, pending, reported, sent>>

\* The session forgets a message the subscriber has.
Settle ==
    /\ \E m \in pending \cap got : pending' = pending \ {m}
    /\ UNCHANGED <<owed, got, reported, sent>>

Next == Accept \/ Send \/ Deliver \/ Settle

Spec == Init /\ [][Next]_absVars
=============================================================================
