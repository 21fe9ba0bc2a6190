-------------------------- MODULE SubscriptionStore --------------------------
(***************************************************************************)
(* What the interface subscription.Store promises: a set of subscriptions,  *)
(* one for each client, share name and topic filter, that changes by the    *)
(* subscriptions one call names and by no others.                           *)
(***************************************************************************)
CONSTANTS Clients, Subscriptions   \* the subscriptions [share, filter, ...] in use
VARIABLE subs                      \* the pairs <<client, subscription>> in force

SameKey(x, c, s) == x[1] = c /\ x[2].share = s.share /\ x[2].filter = s.filter

\* Subscribe adds a subscription, or replaces the one it repeats.
Subscribe(c, s) == subs' = {x \in subs : ~SameKey(x, c, s)} \cup {<<c, s>>}

\* Unsubscribe removes one subscription of a client.
Unsubscribe(c, s) == subs' = {x \in subs : ~SameKey(x, c, s)}

\* UnsubscribeAll removes all subscriptions of a specific client.
UnsubscribeAll(c) == subs' = {x \in subs : x[1] # c}

Init == subs = {}
Next == \E c \in Clients : \/ UnsubscribeAll(c)
                           \/ \E s \in Subscriptions : Subscribe(c, s) \/ Unsubscribe(c, s)
Spec == Init /\ [][Next]_subs
==============================================================================
