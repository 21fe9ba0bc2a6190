------------------------------ MODULE TopicTrie ------------------------------
(***************************************************************************)
(* The in-memory subscription store of gmqtt                               *)
(* (persistence/subscription/mem: topic_trie.go, trie_db.go) and the        *)
(* matching of the retained store (retained/trie).                          *)
(*                                                                         *)
(* A topic or a topic filter is its sequence of levels.  The tries are a    *)
(* heap of nodes, because the code keeps POINTERS to nodes in its client    *)
(* indexes: a node that is cut off the trie lives on behind such a pointer. *)
(* Every operator returns the new store; they hold no state of their own.   *)
(***************************************************************************)
EXTENDS Naturals, Sequences, FiniteSets, SequencesExt, TLC

CONSTANTS SystemLevels   \* the first levels that begin with '$'

NoShare == "none"
isSystemTopic(t) == t[1] \in SystemLevels

\* The three tries of TrieDB and their root nodes.
Tries == {"user", "system", "shared"}
Root  == [user |-> 1, system |-> 2, shared |-> 3]
NoParent == 0

newNode(parent) ==
    [parent |-> parent, children |-> <<>>, clients |-> <<>>, shared |-> <<>>]

NewStore(Clients) ==
    [heap    |-> [n \in 1..3 |-> newNode(NoParent)],
     index   |-> [t \in Tries |-> [c \in Clients |-> <<>>]],
     current |-> 0]                            \* stats.SubscriptionsCurrent

Without(f, x) == [y \in DOMAIN f \ {x} |-> f[y]]

\* Which trie and index a subscription belongs to.
TrieOf(share, filter) ==
    IF share # NoShare THEN "shared"
    ELSE IF isSystemTopic(filter) THEN "system" ELSE "user"

-----------------------------------------------------------------------------
(* Memory: a node is kept while a root or an index entry reaches it.       *)

RECURSIVE Reach(_, _)
Reach(heap, S) ==
    LET below == UNION {{heap[n].children[l] : l \in DOMAIN heap[n].children} : n \in S}
        above == {heap[n].parent : n \in S} \ {NoParent}
        next  == S \cup below \cup above
    IN  IF next = S THEN S ELSE Reach(heap, next)

Collect(store) ==
    LET held == UNION {{store.index[t][c][f] : f \in DOMAIN store.index[t][c]} :
                         <<t, c>> \in Tries \X DOMAIN store.index.user}
        live == Reach(store.heap, 1..3 \cup held)
    IN  [store EXCEPT !.heap = [n \in live |-> @[n]]]

Fresh(heap) == CHOOSE n \in 1..(Cardinality(DOMAIN heap) + 1) : n \notin DOMAIN heap

-----------------------------------------------------------------------------
(* topic_trie.go                                                           *)

\* The node at the end of the filter's path, creating what is missing.
Descend(heap, root, filter) ==
    FoldLeft(LAMBDA acc, lv :
                IF lv \in DOMAIN acc.heap[acc.at].children
                THEN [acc EXCEPT !.at = acc.heap[acc.at].children[lv]]
                ELSE LET n == Fresh(acc.heap)
                     IN  [heap |-> (n :> newNode(acc.at)) @@
                                   [acc.heap EXCEPT ![acc.at].children = (lv :> n) @@ @],
                          at   |-> n],
             [heap |-> heap, at |-> root], filter)

subscribe(heap, root, client, s) ==
    LET d == Descend(heap, root, s.filter)
        n == d.heap[d.at]
        members == IF s.share \in DOMAIN n.shared THEN n.shared[s.share] ELSE <<>>
    IN  [d EXCEPT !.heap[d.at] =
            IF s.share # NoShare
            THEN [n EXCEPT !.shared = (s.share :> ((client :> s) @@ members)) @@ @]
            ELSE [n EXCEPT !.clients = (client :> s) @@ @]]

\* The node of a path that exists, NoParent otherwise.
Walk(heap, root, filter) ==
    FoldLeft(LAMBDA at, lv :
                IF at # NoParent /\ lv \in DOMAIN heap[at].children
                THEN heap[at].children[lv] ELSE NoParent,
             root, filter)

\* delete(node.parent.children, last level): whatever hangs there now is cut off.
CutOff(heap, node, level) ==
    [heap EXCEPT ![heap[node].parent].children = Without(@, level)]

\* Mutant: a node without subscribers is cut off although it has children.
unsubscribeWithChildren(heap, root, client, share, filter) ==
    LET n  == Walk(heap, root, filter)
        h1 == [heap EXCEPT ![n].clients = Without(@, client)]
    IN  IF n = NoParent \/ share # NoShare THEN heap
        ELSE IF h1[n].clients = <<>> THEN CutOff(h1, n, Last(filter)) ELSE h1

unsubscribe(heap, root, client, share, filter) ==
    LET n == Walk(heap, root, filter)
        members == Without(heap[n].shared[share], client)
        h1 == IF share # NoShare
              THEN [heap EXCEPT ![n].shared =
                      IF members = <<>> THEN Without(@, share) ELSE (share :> members) @@ @]
              ELSE [heap EXCEPT ![n].clients = Without(@, client)]
        bare == /\ IF share # NoShare THEN h1[n].shared = <<>> ELSE h1[n].clients = <<>>
                /\ h1[n].children = <<>>
    IN  IF n = NoParent \/ (share # NoShare /\ share \notin DOMAIN heap[n].shared) THEN heap
        ELSE IF bare THEN CutOff(h1, n, Last(filter)) ELSE h1

\* The subscriptions a node holds, each with its subscriber, as setRs appends them.
setRs(heap, n) ==
    {<<c, heap[n].clients[c]>> : c \in DOMAIN heap[n].clients}
    \cup UNION {{<<c, heap[n].shared[s][c]>> : c \in DOMAIN heap[n].shared[s]} :
                  s \in DOMAIN heap[n].shared}

Child(heap, n, lv) ==
    IF lv \in DOMAIN heap[n].children THEN {heap[n].children[lv]} ELSE {}

\* Mutant: a filter that ends in "/#" does not meet its parent topic.
RECURSIVE matchTopicNoParent(_, _, _)
matchTopicNoParent(heap, n, topic) ==
    LET below == Child(heap, n, "+") \cup Child(heap, n, topic[1])
    IN  UNION {setRs(heap, m) : m \in Child(heap, n, "#")}
        \cup IF Len(topic) = 1 THEN UNION {setRs(heap, m) : m \in below}
             ELSE UNION {matchTopicNoParent(heap, m, Tail(topic)) : m \in below}

RECURSIVE matchTopic(_, _, _)
matchTopic(heap, n, topic) ==
    LET end   == Len(topic) = 1
        below == Child(heap, n, "+") \cup Child(heap, n, topic[1])
        ends  == below \cup UNION {Child(heap, m, "#") : m \in below}
    IN  UNION {setRs(heap, m) : m \in Child(heap, n, "#")}
        \cup IF end THEN UNION {setRs(heap, m) : m \in ends}
             ELSE UNION {matchTopic(heap, m, Tail(topic)) : m \in below}

RECURSIVE preOrderTraverse(_, _)
preOrderTraverse(heap, n) ==
    setRs(heap, n) \cup UNION {preOrderTraverse(heap, heap[n].children[lv]) :
                                lv \in DOMAIN heap[n].children}

-----------------------------------------------------------------------------
(* trie_db.go                                                              *)

\* The index is keyed by the filter alone, also for shared subscriptions.
AlreadyExisted(store, c, share, filter) ==
    filter \in DOMAIN store.index[TrieOf(share, filter)][c]

SubscribeLocked(store, c, s) ==
    LET t == TrieOf(s.share, s.filter)
        d == subscribe(store.heap, Root[t], c, s)
    IN  Collect([heap    |-> d.heap,
                 index   |-> [store.index EXCEPT ![t][c] = (s.filter :> d.at) @@ @],
                 current |-> store.current
                             + (IF AlreadyExisted(store, c, s.share, s.filter) THEN 0 ELSE 1)])

UnsubscribeLocked(store, c, share, filter) ==
    LET t == TrieOf(share, filter)
    IN  Collect([heap    |-> unsubscribe(store.heap, Root[t], c, share, filter),
                 index   |-> [store.index EXCEPT ![t][c] = Without(@, filter)],
                 current |-> store.current
                             - (IF AlreadyExisted(store, c, share, filter) THEN 1 ELSE 0)])

\* The entries of the client's index are visited in any order; only the clients
\* of a node are touched, also for a node that holds shared subscriptions.
unsubscribeAll(store, t, c, order) ==
    [heap |-> FoldLeft(LAMBDA heap, filter :
                LET n  == store.index[t][c][filter]
                    h1 == [heap EXCEPT ![n].clients = Without(@, c)]
                IN  IF h1[n].clients = <<>> /\ h1[n].children = <<>>
                    THEN CutOff(h1, n, Last(filter)) ELSE h1,
                store.heap, order),
     index   |-> [store.index EXCEPT ![t][c] = <<>>],
     current |-> store.current - Cardinality(DOMAIN store.index[t][c])]

\* Every store UnsubscribeAll(c) can leave behind.
UnsubscribeAllLocked(store, c) ==
    LET after(S, t) ==
          UNION {{unsubscribeAll(s, t, c, o) :
                    o \in SetToSeqs(DOMAIN s.index[t][c])} : s \in S}
    IN  {Collect(s) : s \in after(after(after({store}, "user"), "system"), "shared")}

\* Iterate with MatchFilter: the subscriptions a publish to the topic meets.
IterateLocked(store, topic) ==
    matchTopic(store.heap, Root.shared, topic)
    \cup matchTopic(store.heap, IF isSystemTopic(topic) THEN Root.system ELSE Root.user, topic)

\* Iterate without options: every subscription of the store.
Stored(store) == UNION {preOrderTraverse(store.heap, Root[t]) : t \in Tries}

-----------------------------------------------------------------------------
(* retained/trie: which topics a filter meets.                             *)

RECURSIVE retainedMatch(_, _)
retainedMatch(filter, topic) ==
    \/ filter[1] = "#"                        \* the node itself and all below
    \/ /\ topic # <<>>
       /\ filter[1] \in {"+", topic[1]}
       /\ IF Len(filter) = 1 THEN Len(topic) = 1
                             ELSE retainedMatch(Tail(filter), Tail(topic))

GetMatchedMessages(retained, filter) ==
    {retained[t] : t \in {t \in DOMAIN retained :
        isSystemTopic(t) = isSystemTopic(filter) /\ retainedMatch(filter, t)}}
==============================================================================
