------------------------------ MODULE MemQueue ------------------------------
(***************************************************************************)
(* The in-memory message queue of one session                              *)
(* (gmqtt/persistence/queue/mem/mem.go): inflight messages first, then the *)
(* messages not read yet, with a cursor between them.                      *)
(*                                                                         *)
(* The linked list is a sequence, the cursor an index into it; a nil       *)
(* cursor is the index one past the end, which is also where PushBack puts *)
(* the element that a nil cursor then moves to.  Each operation holds the  *)
(* queue's mutex and is one action.  Time is abstract: an element whose    *)
(* expiry is "armed" may at any moment become "expired".                   *)
(***************************************************************************)
EXTENDS Naturals, FiniteSets, Sequences, FiniteSetsExt

SeqExt == INSTANCE SequencesExt

CONSTANTS
    MaxQueuedMsg,   \* Options.MaxQueuedMsg
    InflightExpiry, \* TRUE iff Options.InflightExpiry is not 0
    MaxPacketID,
    PollBatch,      \* the most identifiers a read is given
    MaxMsgs,        \* bound: messages published in one behaviour
    QoSs,           \* the QoS levels publishers use
    Expiries,       \* subset of {"never", "armed"}: message expiry on entry
    Sizes           \* subset of BOOLEAN: TRUE exceeds ReadBytesLimit

ASSUME MemQueueAssumption ==
    /\ MaxQueuedMsg \in Nat \ {0}
    /\ InflightExpiry \in BOOLEAN
    /\ MaxPacketID \in Nat \ {0}
    /\ PollBatch \in Nat \ {0}
    /\ MaxMsgs \in Nat
    /\ QoSs \subseteq 0 .. 2
    /\ Expiries \subseteq {"never", "armed"}
    /\ Sizes \subseteq BOOLEAN

VARIABLES
    l,               \* the list
    current,         \* the next element to read
    inflightDrained,
    closed,
    added,           \* number of messages given to Add so far
    dropped          \* messages the notifier was told are dropped

queueVars == <<l, current, inflightDrained, closed>>
mqVars == <<l, current, inflightDrained, closed, added, dropped>>

\* queue.Elem: a Publish, or the Pubrel that Replace puts in its place.  msg
\* stands for the message (for a Pubrel, the one it completes).
Elem == [msg : 1 .. MaxMsgs, kind : {"publish", "pubrel"}, qos : 0 .. 2,
         id : 0 .. MaxPacketID, expiry : {"never", "armed", "expired"}, big : BOOLEAN]

NewElem(qos, expiry, big) ==
    [msg |-> added + 1, kind |-> "publish", qos |-> qos, id |-> 0,
     expiry |-> expiry, big |-> big]

Full == Len(l) >= MaxQueuedMsg
Unread == current .. Len(l)
ElemExpiry(i) == l[i].expiry = "expired"

\* "update the expiry time" of an element that becomes, or is again, inflight.
Rearm(e) == IF InflightExpiry THEN [e EXCEPT !.expiry = "armed"] ELSE e

NotifyDropped(msgs) == dropped' = dropped \cup msgs

-----------------------------------------------------------------------------
(* Add: what happens to the incoming element and to the others. *)

\* The expired inflight message at the front gives way first.
FrontExpired == l # <<>> /\ current # 1 /\ ElemExpiry(1)

\* Elements the scan of the unread part drops: an expired one at once, else
\* the first of QoS 0.  The scan asserts that every element is a Publish.
ScanPanics == \E i \in Unread :
    /\ l[i].kind = "pubrel"
    /\ \A j \in Unread : j < i => ~(l[j].id = 0 /\ ElemExpiry(j))
ExpiredUnread == {i \in Unread : l[i].id = 0 /\ ElemExpiry(i)}
QoS0Unread == {i \in Unread : l[i].id = 0 /\ l[i].qos = 0}
Scans == Full /\ ~FrontExpired /\ ~(inflightDrained /\ Unread = {})

\* Mutant: waiting QoS 0 messages are not preferred.
VictimAnyQoS(e) ==
    CASE FrontExpired                    -> 1
      [] ~FrontExpired /\ ~Scans         -> 0
      [] Scans /\ ExpiredUnread # {}     -> Min(ExpiredUnread)
      [] OTHER -> IF e.qos = 0 \/ ~inflightDrained THEN 0 ELSE current

\* Index of the element that makes room for e, or 0 when e itself is dropped.
Victim(e) ==
    CASE FrontExpired                    -> 1
      [] ~FrontExpired /\ ~Scans         -> 0
      [] Scans /\ ExpiredUnread # {}     -> Min(ExpiredUnread)
      [] Scans /\ ExpiredUnread = {} /\ QoS0Unread # {} -> Min(QoS0Unread)
      [] OTHER -> IF e.qos = 0 \/ ~inflightDrained THEN 0 ELSE current

\* Mutant: PushFront for PushBack.
AddRoomFront(e) ==
    /\ ~Full
    /\ l' = <<e>> \o l
    /\ added' = added + 1
    /\ UNCHANGED <<current, inflightDrained, closed, dropped>>

AddRoom(e) ==
    /\ ~Full
    /\ l' = Append(l, e)
    /\ added' = added + 1
    /\ UNCHANGED <<current, inflightDrained, closed, dropped>>

\* Mutant: the cursor is not corrected when an element before it goes.
AddEvictKeepsCursor(e) ==
    LET v == Victim(e)
    IN  /\ Full /\ ~(Scans /\ ScanPanics)
        /\ v # 0
        /\ l' = Append(SeqExt!RemoveAt(l, v), e)
        /\ NotifyDropped(IF l[v].kind = "publish" THEN {l[v].msg} ELSE {})
        /\ added' = added + 1
        /\ UNCHANGED <<current, inflightDrained, closed>>

AddEvict(e) ==
    LET v == Victim(e)
    IN  /\ Full /\ ~(Scans /\ ScanPanics)
        /\ v # 0
        /\ l' = Append(SeqExt!RemoveAt(l, v), e)
        /\ current' = IF v < current THEN current - 1 ELSE current
        /\ NotifyDropped(IF l[v].kind = "publish" THEN {l[v].msg} ELSE {})
        /\ added' = added + 1
        /\ UNCHANGED <<inflightDrained, closed>>

AddReject(e) ==
    /\ Full /\ ~(Scans /\ ScanPanics)
    /\ Victim(e) = 0
    /\ NotifyDropped({e.msg})
    /\ added' = added + 1
    /\ UNCHANGED queueVars

\* The type assertion fails: the deferred functions drop the incoming element
\* and unlock, and the panic goes up to the publisher's readHandle.
AddPanic(e) ==
    /\ Scans /\ ScanPanics
    /\ NotifyDropped({e.msg})
    /\ added' = added + 1
    /\ UNCHANGED queueVars

-----------------------------------------------------------------------------
(* The other operations. *)

\* Mutant: the list is emptied as for a clean start.
InitResumeEmpties ==
    /\ closed' = FALSE
    /\ inflightDrained' = FALSE
    /\ l' = <<>> /\ current' = 1
    /\ UNCHANGED <<added, dropped>>

\* Init with CleanStart false: the cursor goes back to the front.
InitResume ==
    /\ closed' = FALSE
    /\ inflightDrained' = FALSE
    /\ current' = 1
    /\ UNCHANGED <<l, added, dropped>>

Close ==
    /\ closed' = TRUE
    /\ UNCHANGED <<l, current, inflightDrained, added, dropped>>

\* Positions of the inflight part that carry pid; the first one is taken.
Carrying(pid) == {i \in 1 .. (current - 1) : l[i].id = pid}

Remove(pid) ==
    IF Carrying(pid) = {}
    THEN UNCHANGED mqVars
    ELSE /\ l' = SeqExt!RemoveAt(l, Min(Carrying(pid)))
         /\ current' = current - 1
         /\ UNCHANGED <<inflightDrained, closed, added, dropped>>

Replace(pid) ==
    IF Carrying(pid) = {}
    THEN UNCHANGED mqVars
    ELSE /\ l' = [l EXCEPT ![Min(Carrying(pid))].kind = "pubrel",
                           ![Min(Carrying(pid))].expiry = "never"]
         /\ UNCHANGED <<current, inflightDrained, closed, added, dropped>>

\* The positions Read and ReadInflight look at: at most n, from the cursor on.
Window(n) == {i \in Unread : i < current + n}

\* How many elements ReadInflight(n) returns: it stops at the first one
\* without an identifier.
InflightRun(n) ==
    LET fresh == {i \in Window(n) : l[i].id = 0}
    IN  IF fresh = {} THEN Cardinality(Window(n)) ELSE Min(fresh) - current

ReadInflightResult(n) == SubSeq(l, current, current + InflightRun(n) - 1)

ReadInflight(n) ==
    LET k == InflightRun(n)
    IN  /\ l' = [i \in 1 .. Len(l) |->
                    IF i \in current .. (current + k - 1) THEN Rearm(l[i]) ELSE l[i]]
        /\ current' = current + k
        /\ inflightDrained' =
              (inflightDrained \/ Unread = {} \/ k < Cardinality(Window(n)))
        /\ UNCHANGED <<closed, added, dropped>>

\* Read drops what has expired or is too large, takes QoS 0 out of the list
\* and gives the others the next identifiers of pids.
Dead(i) == ElemExpiry(i) \/ l[i].big
BecomesInflight(i) == ~Dead(i) /\ l[i].qos > 0
Inflighted(i, pids) ==
    LET k == Cardinality({j \in Window(Len(pids)) : j <= i /\ BecomesInflight(j)})
    IN  IF BecomesInflight(i) THEN Rearm([l[i] EXCEPT !.id = pids[k]]) ELSE l[i]

\* A set of positions in the order of the list.
InOrder(S) ==
    CHOOSE at \in [1 .. Cardinality(S) -> S] :
        \A j, k \in 1 .. Cardinality(S) : j < k => at[j] < at[k]

\* The elements at positions S after Read, in order.
Taken(S, pids) == [k \in 1 .. Cardinality(S) |-> Inflighted(InOrder(S)[k], pids)]

\* The elements Read returns, and those of them that stay in the list.
ReadResult(pids) == Taken({i \in Window(Len(pids)) : ~Dead(i)}, pids)
ReadKept(pids) == Taken({i \in Window(Len(pids)) : BecomesInflight(i)}, pids)

Read(pids) ==
    LET n    == Len(pids)
        kept == ReadKept(pids)
    IN  /\ inflightDrained /\ ~closed
        /\ Unread # {}
        /\ l' = SubSeq(l, 1, current - 1) \o kept \o SubSeq(l, current + n, Len(l))
        /\ current' = current + Len(kept)
        /\ NotifyDropped({l[i].msg : i \in {j \in Window(n) : Dead(j)}})
        /\ UNCHANGED <<inflightDrained, closed, added>>

\* Time passes for element i.
Expire(i) ==
    /\ l[i].expiry = "armed"
    /\ l' = [l EXCEPT ![i].expiry = "expired"]
    /\ UNCHANGED <<current, inflightDrained, closed, added, dropped>>

-----------------------------------------------------------------------------
(* How the broker uses the queue. *)

IdsInList == {l[i].id : i \in 1 .. Len(l)} \ {0}

Init ==
    /\ l = <<>>
    /\ current = 1
    /\ inflightDrained = FALSE
    /\ closed = FALSE
    /\ added = 0
    /\ dropped = {}

Publish ==
    /\ added < MaxMsgs
    /\ \E qos \in QoSs, expiry \in Expiries, big \in Sizes :
          LET e == NewElem(qos, expiry, big)
          IN  AddRoom(e) \/ AddEvict(e) \/ AddReject(e) \/ AddPanic(e)

Disconnect == ~closed /\ Close

Connect == closed /\ InitResume

\* pollInflights.
Drain == ~inflightDrained /\ \E n \in 1 .. MaxPacketID : ReadInflight(n)

\* pollNewMessages, with identifiers no element of the list carries (Delivery
\* shows that the packet id limiter provides them).
PollNew ==
    \E n \in 1 .. PollBatch :
        \E pids \in [1 .. n -> (1 .. MaxPacketID) \ IdsInList] :
            /\ \A i, j \in 1 .. n : i < j => pids[i] # pids[j]
            /\ Read(pids)

\* PUBACK, PUBCOMP and negative PUBREC.
Acknowledge == \E pid \in 1 .. MaxPacketID : Remove(pid)

\* PUBREC: the peer answers a QoS 2 message with it.
Received ==
    \E pid \in 1 .. MaxPacketID :
        /\ \E i \in Carrying(pid) : l[i].qos = 2
        /\ Replace(pid)

Tick == \E i \in 1 .. Len(l) : Expire(i)

Next ==
    \/ Publish
    \/ Disconnect
    \/ Connect
    \/ Drain
    \/ PollNew
    \/ Acknowledge
    \/ Received
    \/ Tick

Spec == Init /\ [][Next]_mqVars

-----------------------------------------------------------------------------
(* Properties. *)

\* Types of the queue's fields; the cursor is an element of the list or nil.
TypeOK ==
    /\ l \in Seq(Elem)
    /\ current \in 1 .. (Len(l) + 1)
    /\ inflightDrained \in BOOLEAN
    /\ closed \in BOOLEAN
    /\ added \in 0 .. MaxMsgs
    /\ dropped \subseteq 1 .. MaxMsgs

\* However Add chooses its victim, the list never outgrows MaxQueuedMsg.
QueueBounded == Len(l) <= MaxQueuedMsg

\* Everything before the cursor is inflight, inflight elements come first, and
\* once drained the cursor is exactly the boundary.  Read relies on it (its
\* type assertion, and giving each message one identifier), and so do Remove
\* and Replace, which search only before the cursor.
CursorSplitsInflight ==
    /\ \A i \in 1 .. (current - 1) : l[i].id # 0
    /\ \A i, j \in 1 .. Len(l) : i < j /\ l[j].id # 0 => l[i].id # 0
    /\ inflightDrained => \A i \in Unread : l[i].id = 0
    /\ \A i \in 1 .. Len(l) : l[i].kind = "pubrel" => l[i].id # 0

\* No two elements carry the same packet identifier.
IdsDistinct ==
    \A i, j \in 1 .. Len(l) : l[i].id # 0 /\ i # j => l[i].id # l[j].id

\* Messages are kept in the order they were published: evictions, QoS 0 reads
\* and acknowledgements never reorder what is left.
ArrivalOrder == \A i, j \in 1 .. Len(l) : i < j => l[i].msg < l[j].msg

\* A live QoS 1 or 2 message not read yet is dropped by Add only when the
\* priorities of queue.go leave nothing else: no expired inflight message in
\* front, nothing expired, no QoS 0 message waiting.
Live(m) == \E i \in Unread : l[i].msg = m /\ l[i].id = 0 /\ l[i].qos > 0 /\ ~Dead(i)
DropsByPriority ==
    \A m \in dropped' \ dropped :
        Live(m) => Full /\ ~FrontExpired /\ ExpiredUnread = {} /\ QoS0Unread = {}
DropsLastResort == [][DropsByPriority]_mqVars

=============================================================================
