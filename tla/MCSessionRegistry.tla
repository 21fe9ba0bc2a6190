-------------------------- MODULE MCSessionRegistry --------------------------
(* SessionRegistry with small sets of CONNECT packets.                       *)
EXTENDS SessionRegistry, TLC

\* Sessions that outlive their connection, with a delayed, an immediate or no
\* will, and one that asks for a clean start.
PersistentConnects ==
    {[v5 |-> FALSE, clean |-> FALSE, expiry |-> 0, will |-> TRUE, delay |-> 0],
     [v5 |-> TRUE, clean |-> FALSE, expiry |-> 2, will |-> TRUE, delay |-> 1],
     [v5 |-> TRUE, clean |-> FALSE, expiry |-> 1, will |-> TRUE, delay |-> 2],
     [v5 |-> TRUE, clean |-> TRUE, expiry |-> 2, will |-> FALSE, delay |-> 0]}

\* One kind of persistent session with a delayed will.
DelayedWill ==
    {[v5 |-> TRUE, clean |-> FALSE, expiry |-> 2, will |-> TRUE, delay |-> 1]}

NoProps == {{}}
SomeProps == {{}, {0}, {1}}

Symmetry == Permutations(Conns)
=============================================================================
