--------------------------- MODULE QueueJobProofs ---------------------------
(***************************************************************************)
(* For any number of jobs, workers, channels, crashes and losses: a job is *)
(* performed by one worker at a time, and a channel never has more jobs    *)
(* being performed than its capacity.  A sequential channel below the root *)
(* passes nothing on before what comes first is finished.                  *)
(***************************************************************************)
EXTENDS QueueJob, FiniteSetTheorems, TLAPS

\* A worker past _acquire_job has a job; the one performing it, or about to
\* roll back, holds its lock; a job being performed stays started.
Locked ==
    \A w \in Workers :
        /\ work[w].pc # "idle" => work[w].job \in Jobs
        /\ work[w].pc \in {"performing", "rollback"} => row[work[w].job].holder = w
        /\ work[w].pc = "performing" => row[work[w].job].state = "started"

\* What every picture the runner builds satisfies: a job is queued or running
\* in the channels of its path only, in one of the two, and the root has only
\* what the job's own channel has passed on.
Consistent(ch) ==
    \A j \in Jobs :
        /\ \A c \in Channels : j \in ch[c].queue \cup ch[c].running => c \in Path(j)
        /\ \A c \in Channels : ~(j \in ch[c].queue /\ j \in ch[c].running)
        /\ ChannelOf[j] # Root /\ j \in ch[Root].queue \cup ch[Root].running =>
             j \in ch[ChannelOf[j]].running

Busy(j) == row[j].state \in {"enqueued", "started"}

BusyIn(c) == {j \in Jobs : c \in Path(j) /\ Busy(j)}

\* However late the notifications are, the runner has every enqueued or started
\* job down as running.
Pictured ==
    /\ Consistent(chan)
    /\ runner = "init" => chan = Emptied
    /\ runner # "init" => \A c \in Channels : BusyIn(c) \subseteq chan[c].running

Counted ==
    \A c \in Channels : Capacity[c] # 0 =>
        /\ Cardinality(chan[c].running) <= Capacity[c]
        /\ Cardinality(BusyIn(c)) <= Capacity[c]

Inv == TypeOK /\ Locked /\ Pictured /\ Counted

Records == [queue : SUBSET Jobs, running : SUBSET Jobs, failed : SUBSET Jobs]
Pictures == [Channels -> Records]

-----------------------------------------------------------------------------
(* The operations on the picture. *)

\* A job's path leads through its own channel and the root.
LEMMA PathType ==
    ASSUME NEW j \in Jobs
    PROVE  /\ ChannelOf[j] \in Channels /\ Root \in Channels /\ Path(j) \subseteq Channels
           /\ ChannelOf[j] \in Path(j) /\ Root \in Path(j)
           /\ \A c \in Path(j) : c = ChannelOf[j] \/ c = Root
BY QueueJobAssumption DEF Path

\* A removed job is gone from the channels named, and nothing else moves.
LEMMA RemovedPlaces ==
    ASSUME NEW ch \in Pictures, NEW cs \in SUBSET Channels, NEW j \in Jobs
    PROVE  /\ Removed(ch, cs, j) \in Pictures
           /\ \A c \in cs : /\ Removed(ch, cs, j)[c].queue = ch[c].queue \ {j}
                            /\ Removed(ch, cs, j)[c].running = ch[c].running \ {j}
           /\ \A c \in Channels \ cs : Removed(ch, cs, j)[c] = ch[c]
BY DEF Removed, Pictures, Records

\* A picture in which only the job j has moved is consistent when j is.
LEMMA OneMoved ==
    ASSUME NEW ch, NEW new, NEW j \in Jobs, Consistent(ch),
           \A c \in Channels, i \in Jobs : i # j =>
             /\ i \in new[c].queue <=> i \in ch[c].queue
             /\ i \in new[c].running <=> i \in ch[c].running,
           \A c \in Channels : j \in new[c].queue \cup new[c].running => c \in Path(j),
           \A c \in Channels : ~(j \in new[c].queue /\ j \in new[c].running),
           ChannelOf[j] # Root /\ j \in new[Root].queue \cup new[Root].running =>
             j \in new[ChannelOf[j]].running
    PROVE  Consistent(new)
<1> SUFFICES ASSUME NEW i \in Jobs, i # j
             PROVE  /\ \A c \in Channels : i \in new[c].queue \cup new[c].running => c \in Path(i)
                    /\ \A c \in Channels : ~(i \in new[c].queue /\ i \in new[c].running)
                    /\ ChannelOf[i] # Root /\ i \in new[Root].queue \cup new[Root].running =>
                         i \in new[ChannelOf[i]].running
  BY DEF Consistent
<1> QED BY PathType DEF Consistent

\* set_done takes the job out of the picture.
LEMMA DonePlaces ==
    ASSUME NEW ch \in Pictures, Consistent(ch), NEW j \in Jobs
    PROVE  /\ set_done(ch, j) \in Pictures /\ Consistent(set_done(ch, j))
           /\ \A c \in Channels : set_done(ch, j)[c].running = ch[c].running \ {j}
           /\ \A c \in Channels : set_done(ch, j)[c].queue = ch[c].queue \ {j}
<1> DEFINE new == Removed(ch, Path(j), j)
<1>1. /\ new \in Pictures
      /\ \A c \in Path(j) : new[c].queue = ch[c].queue \ {j} /\ new[c].running = ch[c].running \ {j}
      /\ \A c \in Channels \ Path(j) : new[c] = ch[c]
  <2>1. Path(j) \in SUBSET Channels
    BY PathType
  <2>2. PICK cs \in SUBSET Channels : cs = Path(j)
    BY <2>1
  <2>3. /\ Removed(ch, cs, j) \in Pictures
        /\ \A c \in cs : /\ Removed(ch, cs, j)[c].queue = ch[c].queue \ {j}
                         /\ Removed(ch, cs, j)[c].running = ch[c].running \ {j}
        /\ \A c \in Channels \ cs : Removed(ch, cs, j)[c] = ch[c]
    BY RemovedPlaces
  <2> QED BY <2>2, <2>3
<1>2. \A c \in Channels : new[c].queue = ch[c].queue \ {j} /\ new[c].running = ch[c].running \ {j}
  BY <1>1 DEF Consistent, Pictures, Records
<1>3. Consistent(new)
  BY <1>2, PathType DEF Consistent
<1> QED BY <1>1, <1>2, <1>3 DEF set_done

\* set_pending moves the job to the queue of its own channel; a job that is
\* queued there stays.
LEMMA PendingPlaces ==
    ASSUME NEW ch \in Pictures, Consistent(ch), NEW j \in Jobs
    PROVE  /\ set_pending(ch, j) \in Pictures /\ Consistent(set_pending(ch, j))
           /\ \A c \in Channels : set_pending(ch, j)[c].running = ch[c].running \ {j}
           /\ \A c \in Channels :
                set_pending(ch, j)[c].queue = IF c = ChannelOf[j] THEN ch[c].queue \cup {j}
                                                                 ELSE ch[c].queue \ {j}
<1> DEFINE o == ChannelOf[j]
           off == set_done(ch, j)
           new == [off EXCEPT ![o].queue = @ \cup {j}]
<1>1. o \in Channels
  BY PathType
<1>2. CASE j \in ch[o].queue
  <2>1. set_pending(ch, j) = ch
    BY <1>2 DEF set_pending
  <2>2. \A c \in Channels : j \notin ch[c].running
    BY <1>1, <1>2, PathType DEF Consistent
  <2>3. \A c \in Channels : c # o => j \notin ch[c].queue
    BY <1>1, <1>2, PathType DEF Consistent
  <2>4. \A c \in Channels : ch[c].running = ch[c].running \ {j}
    BY <2>2
  <2>5. \A c \in Channels :
          ch[c].queue = IF c = o THEN ch[c].queue \cup {j} ELSE ch[c].queue \ {j}
    BY <1>2, <2>3
  <2> QED BY <2>1, <2>4, <2>5
<1>3. CASE j \notin ch[o].queue
  <2>1. set_pending(ch, j) = new
    BY <1>3 DEF set_pending, set_done
  <2>2. /\ off \in Pictures
        /\ \A c \in Channels : off[c].queue = ch[c].queue \ {j} /\ off[c].running = ch[c].running \ {j}
    BY DonePlaces
  <2> HIDE DEF off, o
  <2>3. /\ new \in Pictures
        /\ \A c \in Channels : /\ new[c].running = ch[c].running \ {j}
                               /\ new[c].queue = IF c = o THEN ch[c].queue \cup {j} ELSE ch[c].queue \ {j}
    BY <1>1, <2>2 DEF Pictures, Records
  <2> HIDE DEF new
  <2>4. Consistent(new)
    <3>1. \A c \in Channels : j \notin new[c].running /\ (j \in new[c].queue <=> c = o)
      BY <2>3
    <3>2. \A c \in Channels, i \in Jobs : i # j =>
            /\ i \in new[c].queue <=> i \in ch[c].queue
            /\ i \in new[c].running <=> i \in ch[c].running
      BY <2>3
    <3> QED BY <3>1, <3>2, PathType, OneMoved DEF o
  <2> QED BY <2>1, <2>3, <2>4 DEF o
<1> QED BY <1>2, <1>3

\* set_failed takes the job out of the queues and running sets.
LEMMA FailedPlaces ==
    ASSUME NEW ch \in Pictures, Consistent(ch), NEW j \in Jobs
    PROVE  /\ set_failed(ch, j) \in Pictures /\ Consistent(set_failed(ch, j))
           /\ \A c \in Channels : /\ set_failed(ch, j)[c].running \subseteq ch[c].running
                                  /\ set_failed(ch, j)[c].queue \subseteq ch[c].queue
           /\ \A c \in Channels, i \in Jobs : i # j =>
                (i \in set_failed(ch, j)[c].running <=> i \in ch[c].running)
<1> DEFINE o == ChannelOf[j]
           off == set_done(ch, j)
           new == [off EXCEPT ![o].failed = @ \cup {j}]
<1>1. o \in Channels
  BY PathType
<1>2. CASE j \in ch[o].failed
  BY <1>2 DEF set_failed
<1>3. CASE j \notin ch[o].failed
  <2>1. set_failed(ch, j) = new
    BY <1>3 DEF set_failed, set_done
  <2>2. /\ off \in Pictures /\ Consistent(off)
        /\ \A c \in Channels : off[c].queue = ch[c].queue \ {j} /\ off[c].running = ch[c].running \ {j}
    BY DonePlaces
  <2> HIDE DEF off, o
  <2>3. new \in Pictures /\ \A c \in Channels : new[c].running = off[c].running /\ new[c].queue = off[c].queue
    BY <1>1, <2>2 DEF Pictures, Records
  <2> HIDE DEF new
  <2>4. Consistent(new)
    BY <2>2, <2>3, PathType DEF Consistent
  <2> QED BY <2>1, <2>2, <2>3, <2>4
<1> QED BY <1>2, <1>3

\* set_running has the job running on its whole path.
LEMMA RunningPlaces ==
    ASSUME NEW ch \in Pictures, Consistent(ch), NEW j \in Jobs,
           j \in ch[ChannelOf[j]].running => j \in ch[Root].running
    PROVE  /\ set_running(ch, j) \in Pictures /\ Consistent(set_running(ch, j))
           /\ \A c \in Channels :
                set_running(ch, j)[c].running = IF c \in Path(j) THEN ch[c].running \cup {j}
                                                                 ELSE ch[c].running
           /\ \A c \in Channels : set_running(ch, j)[c].queue = ch[c].queue \ {j}
<1> DEFINE o == ChannelOf[j]
           cs == IF j \in ch[o].running THEN {} ELSE IF j \in ch[Root].running THEN {o} ELSE Path(j)
           off == Removed(ch, cs, j)
           new == [d \in Channels |-> IF d \in cs THEN [off[d] EXCEPT !.running = @ \cup {j}] ELSE ch[d]]
<1>1. set_running(ch, j) = new
  BY DEF set_running
<1>2. cs \in SUBSET Channels /\ cs \subseteq Path(j)
  BY PathType, Zenon
<1>3. \A c \in Path(j) \ cs : j \in ch[c].running
  BY PathType
<1> HIDE DEF cs
<1>4. /\ off \in Pictures
      /\ \A c \in cs : off[c].queue = ch[c].queue \ {j} /\ off[c].running = ch[c].running \ {j}
  BY <1>2 DEF Removed, Pictures, Records
<1> HIDE DEF off
<1>5. /\ new \in Pictures
      /\ \A c \in cs : new[c].queue = ch[c].queue \ {j} /\ new[c].running = ch[c].running \cup {j}
      /\ \A c \in Channels \ cs : new[c] = ch[c]
  BY <1>2, <1>4 DEF Pictures, Records
<1> HIDE DEF new
<1>6. \A c \in Channels : new[c].running = IF c \in Path(j) THEN ch[c].running \cup {j} ELSE ch[c].running
  <2> SUFFICES ASSUME NEW c \in Channels
               PROVE  new[c].running = IF c \in Path(j) THEN ch[c].running \cup {j} ELSE ch[c].running
    OBVIOUS
  <2>1. CASE c \in cs
    BY <1>2, <1>5, <2>1
  <2>2. CASE c \notin cs
    <3>1. new[c] = ch[c] /\ (c \in Path(j) => ch[c].running = ch[c].running \cup {j})
      BY <1>3, <1>5, <2>2
    <3> QED BY <3>1
  <2> QED BY <2>1, <2>2
<1>7. \A c \in Channels : new[c].queue = ch[c].queue \ {j}
  <2> SUFFICES ASSUME NEW c \in Channels PROVE new[c].queue = ch[c].queue \ {j}
    OBVIOUS
  <2>1. CASE c \in cs
    BY <1>5, <2>1
  <2>2. CASE c \notin cs
    <3>1. j \notin ch[c].queue
      BY <1>3, <2>2 DEF Consistent
    <3> QED BY <1>5, <2>2, <3>1
  <2> QED BY <2>1, <2>2
<1>8. Consistent(new)
  <2>1. \A c \in Channels : j \notin new[c].queue /\ (c \in Path(j) => j \in new[c].running)
    BY <1>6, <1>7
  <2>2. \A c \in Channels : j \in new[c].running => c \in Path(j)
    BY <1>6 DEF Consistent
  <2>3. \A c \in Channels, i \in Jobs : i # j =>
          /\ i \in new[c].queue <=> i \in ch[c].queue
          /\ i \in new[c].running <=> i \in ch[c].running
    BY <1>6, <1>7
  <2> QED BY <2>1, <2>2, <2>3, PathType, OneMoved
<1> QED BY <1>1, <1>5, <1>6, <1>7, <1>8

\* A notification leaves no more jobs running in the picture than it had, and
\* none of the busy ones out.
LEMMA NotifyPlaces ==
    ASSUME TypeOK, Pictured, runner # "init", NEW j \in Jobs
    PROVE  /\ notify(chan, j) \in Pictures /\ Consistent(notify(chan, j))
           /\ \A c \in Channels : /\ notify(chan, j)[c].running \subseteq chan[c].running
                                  /\ BusyIn(c) \subseteq notify(chan, j)[c].running
<1> DEFINE old == IF j \in stale THEN set_done(chan, j) ELSE chan
           new == notify(chan, j)
<1>1. /\ chan \in Pictures /\ Consistent(chan) /\ row[j].state \in States
      /\ \A c \in Channels : BusyIn(c) \subseteq chan[c].running
  BY DEF TypeOK, Pictured, Pictures, Records
<1>2. /\ old \in Pictures /\ Consistent(old)
      /\ \A c \in Channels : old[c].running \subseteq chan[c].running
      /\ \A c \in Channels, i \in Jobs : i # j => (i \in old[c].running <=> i \in chan[c].running)
      /\ j \notin stale => old = chan
      /\ j \in stale => \A c \in Channels : j \notin old[c].running
  BY <1>1, DonePlaces
<1> HIDE DEF old
<1>3. CASE Busy(j)
  <2>1. \A c \in Path(j) : j \in chan[c].running
    BY <1>1, <1>3, PathType DEF BusyIn
  <2>2. j \in old[ChannelOf[j]].running => j \in old[Root].running
    BY <1>2, <2>1, PathType
  <2>3. new = set_running(old, j)
    BY <1>3 DEF notify, Busy, old
  <2> HIDE DEF new
  <2>4. /\ new \in Pictures /\ Consistent(new)
        /\ \A c \in Channels : new[c].running = IF c \in Path(j) THEN old[c].running \cup {j}
                                                               ELSE old[c].running
    <3>1. old \in Pictures /\ Consistent(old)
      BY <1>2
    <3> QED BY <2>2, <2>3, <3>1, RunningPlaces, Zenon
  <2>5. \A c \in Channels : new[c].running \subseteq chan[c].running
    BY <1>2, <2>1, <2>4
  <2>6. ASSUME NEW c \in Channels, NEW i \in BusyIn(c) PROVE i \in new[c].running
    BY <1>1, <1>2, <2>4, <2>6 DEF BusyIn
  <2> QED BY <2>4, <2>5, <2>6 DEF new
<1>4. CASE ~Busy(j)
  <2>1. /\ new \in Pictures /\ Consistent(new)
        /\ \A c \in Channels : new[c].running \subseteq old[c].running
        /\ \A c \in Channels, i \in Jobs : i # j => (i \in new[c].running <=> i \in old[c].running)
    <3>1. \/ new = set_done(old, j) \/ new = set_pending(old, j)
          \/ new = set_failed(old, j) \/ new = old
      BY <1>1, <1>4 DEF notify, Busy, States, old
    <3> HIDE DEF new
    <3>2. CASE new = set_done(old, j)
      BY <1>2, <3>2, DonePlaces
    <3>3. CASE new = set_pending(old, j)
      BY <1>2, <3>3, PendingPlaces
    <3>4. CASE new = set_failed(old, j)
      BY <1>2, <3>4, FailedPlaces
    <3>5. CASE new = old
      BY <1>2, <3>5
    <3> QED BY <3>1, <3>2, <3>3, <3>4, <3>5
  <2> HIDE DEF new
  <2>2. ASSUME NEW c \in Channels, NEW i \in BusyIn(c) PROVE i \in new[c].running
    BY <1>1, <1>2, <1>4, <2>1, <2>2 DEF BusyIn
  <2>3. \A c \in Channels : new[c].running \subseteq chan[c].running
    BY <1>2, <2>1
  <2> QED BY <2>1, <2>2, <2>3 DEF new
<1> QED BY <1>3, <1>4

\* What one job contributes to a picture built from nothing.
LEMMA PlacedAlone ==
    ASSUME TypeOK, NEW j \in Jobs
    PROVE  /\ notify(Emptied, j) \in Pictures
           /\ \A c \in Channels :
                /\ notify(Emptied, j)[c].running = IF Busy(j) /\ c \in Path(j) THEN {j} ELSE {}
                /\ notify(Emptied, j)[c].queue \subseteq
                     IF row[j].state = "pending" /\ c = ChannelOf[j] THEN {j} ELSE {}
<1> DEFINE old == IF j \in stale THEN set_done(Emptied, j) ELSE Emptied
           new == notify(Emptied, j)
<1>1. /\ Emptied \in Pictures /\ Consistent(Emptied)
      /\ \A c \in Channels : Emptied[c].running = {} /\ Emptied[c].queue = {}
  BY PathType DEF Emptied, Pictures, Records, Consistent
<1>2. /\ old \in Pictures /\ Consistent(old)
      /\ \A c \in Channels : old[c].running = {} /\ old[c].queue = {}
  BY <1>1, DonePlaces
<1>3. row[j].state \in States
  BY DEF TypeOK
<1>4. /\ Busy(j) => new = set_running(old, j)
      /\ row[j].state = "pending" => new = set_pending(old, j)
      /\ ~Busy(j) /\ row[j].state # "pending" =>
           new = set_done(old, j) \/ new = set_failed(old, j) \/ new = old
  BY <1>3 DEF notify, Busy, States
<1> HIDE DEF old, new
<1>5. CASE Busy(j)
  <2>1. row[j].state # "pending" /\ new = set_running(old, j)
    BY <1>4, <1>5 DEF Busy
  <2>2. j \notin old[ChannelOf[j]].running
    BY <1>2, PathType
  <2>3. /\ new \in Pictures
        /\ \A c \in Channels : new[c].queue = old[c].queue \ {j}
        /\ \A c \in Channels : new[c].running = IF c \in Path(j) THEN old[c].running \cup {j}
                                                               ELSE old[c].running
    <3>1. old \in Pictures /\ Consistent(old)
      BY <1>2
    <3>2. new = set_running(old, j)
      BY <2>1
    <3> QED BY <2>2, <3>1, <3>2, RunningPlaces, Zenon
  <2> QED BY <1>2, <1>5, <2>1, <2>3 DEF new
<1>6. CASE row[j].state = "pending"
  <2>1. ~Busy(j) /\ new = set_pending(old, j)
    BY <1>4, <1>6 DEF Busy
  <2>2. /\ new \in Pictures
        /\ \A c \in Channels : new[c].running = old[c].running \ {j}
        /\ \A c \in Channels : new[c].queue = IF c = ChannelOf[j] THEN old[c].queue \cup {j}
                                                                  ELSE old[c].queue \ {j}
    <3>1. old \in Pictures /\ Consistent(old)
      BY <1>2
    <3>2. new = set_pending(old, j)
      BY <2>1
    <3>3. set_pending(old, j) \in Pictures
      BY <3>1, PendingPlaces, Zenon
    <3>4. \A c \in Channels : set_pending(old, j)[c].running = old[c].running \ {j}
      BY <3>1, PendingPlaces, Zenon
    <3>5. \A c \in Channels :
            set_pending(old, j)[c].queue = IF c = ChannelOf[j] THEN old[c].queue \cup {j}
                                                              ELSE old[c].queue \ {j}
      BY <3>1, PendingPlaces, Zenon
    <3> QED BY <3>2, <3>3, <3>4, <3>5, Zenon
  <2> QED BY <1>2, <1>6, <2>1, <2>2 DEF new
<1>7. CASE ~Busy(j) /\ row[j].state # "pending"
  <2>1. /\ new \in Pictures
        /\ \A c \in Channels : new[c].running = {} /\ new[c].queue = {}
    BY <1>2, <1>4, <1>7, DonePlaces, FailedPlaces
  <2> QED BY <1>7, <2>1 DEF new
<1> QED BY <1>5, <1>6, <1>7

\* After a restart the runner has exactly the busy jobs down as running.
LEMMA RebuiltPlaces ==
    ASSUME TypeOK
    PROVE  /\ Rebuilt \in Pictures /\ Consistent(Rebuilt)
           /\ \A c \in Channels : Rebuilt[c].running = BusyIn(c)
<1> DEFINE Known == {i \in Jobs : row[i].state \in NOT_DONE}
           placed == {notify(Emptied, j) : j \in Known}
<1>1. \A ch \in placed : ch \in Pictures
  <2>1. \A j \in Jobs : notify(Emptied, j) \in Pictures
    BY PlacedAlone
  <2> QED BY <2>1, Zenon
<1>2. \A c \in Channels : /\ Rebuilt[c].queue = UNION {ch[c].queue : ch \in placed}
                          /\ Rebuilt[c].running = UNION {ch[c].running : ch \in placed}
                          /\ Rebuilt[c].failed = UNION {ch[c].failed : ch \in placed}
  BY DEF Rebuilt
<1>3. Rebuilt \in Pictures
  <2>1. \A c \in Channels : /\ UNION {ch[c].queue : ch \in placed} \subseteq Jobs
                            /\ UNION {ch[c].running : ch \in placed} \subseteq Jobs
                            /\ UNION {ch[c].failed : ch \in placed} \subseteq Jobs
    BY <1>1 DEF Pictures, Records
  <2> QED BY <2>1 DEF Rebuilt, Pictures, Records
<1> HIDE DEF placed
<1>4. \A c \in Channels : \A j \in Jobs : j \in Rebuilt[c].running <=> j \in BusyIn(c)
  <2> SUFFICES ASSUME NEW c \in Channels, NEW j \in Jobs
               PROVE  j \in Rebuilt[c].running <=> j \in BusyIn(c)
    OBVIOUS
  <2>1. ASSUME j \in Rebuilt[c].running PROVE j \in BusyIn(c)
    <3>1. PICK ch \in placed : j \in ch[c].running
      BY <1>2, <2>1
    <3>2. PICK i \in Known : ch = notify(Emptied, i)
      BY <3>1 DEF placed
    <3>3. notify(Emptied, i)[c].running = IF Busy(i) /\ c \in Path(i) THEN {i} ELSE {}
      BY PlacedAlone
    <3> QED BY <3>1, <3>2, <3>3 DEF BusyIn
  <2>2. ASSUME j \in BusyIn(c) PROVE j \in Rebuilt[c].running
    <3>1. j \in Known
      BY <2>2 DEF BusyIn, Busy, NOT_DONE
    <3>2. notify(Emptied, j)[c].running = IF Busy(j) /\ c \in Path(j) THEN {j} ELSE {}
      BY PlacedAlone
    <3>3. notify(Emptied, j) \in placed /\ j \in notify(Emptied, j)[c].running
      BY <2>2, <3>1, <3>2 DEF placed, BusyIn
    <3> QED BY <1>2, <3>3
  <2> QED BY <2>1, <2>2
<1>5. \A c \in Channels, j \in Jobs :
        j \in Rebuilt[c].queue => row[j].state = "pending" /\ c = ChannelOf[j]
  <2> SUFFICES ASSUME NEW c \in Channels, NEW j \in Jobs, j \in Rebuilt[c].queue
               PROVE  row[j].state = "pending" /\ c = ChannelOf[j]
    OBVIOUS
  <2>1. PICK ch \in placed : j \in ch[c].queue
    BY <1>2
  <2>2. PICK i \in Known : ch = notify(Emptied, i)
    BY <2>1 DEF placed
  <2>3. notify(Emptied, i)[c].queue \subseteq
          IF row[i].state = "pending" /\ c = ChannelOf[i] THEN {i} ELSE {}
    BY PlacedAlone
  <2> QED BY <2>1, <2>2, <2>3
<1>6. Consistent(Rebuilt)
  BY <1>4, <1>5, PathType DEF Consistent, BusyIn, Busy
<1>7. \A c \in Channels : Rebuilt[c].running = BusyIn(c)
  BY <1>3, <1>4 DEF Pictures, Records, BusyIn
<1> QED BY <1>3, <1>6, <1>7

-----------------------------------------------------------------------------
(* How many jobs a channel passes on. *)

\* Sets of jobs are finite, and a subset is no larger.
LEMMA JobSets ==
    ASSUME NEW S \in SUBSET Jobs
    PROVE  /\ IsFiniteSet(S) /\ Cardinality(S) \in Nat
           /\ \A T \in SUBSET S : /\ Cardinality(T) \in Nat /\ Cardinality(T) <= Cardinality(S)
                                  /\ Cardinality(S) = Cardinality(T) => S = T
<1>1. IsFiniteSet(Jobs)
  BY QueueJobAssumption
<1>2. IsFiniteSet(S)
  BY <1>1, FS_Subset, Zenon
<1>3. Cardinality(S) \in Nat
  BY <1>2, FS_CardinalityType, Zenon
<1>4. ASSUME NEW T \in SUBSET S
      PROVE  /\ Cardinality(T) \in Nat /\ Cardinality(T) <= Cardinality(S)
             /\ Cardinality(S) = Cardinality(T) => S = T
  <2>1. IsFiniteSet(T) /\ Cardinality(T) <= Cardinality(S) /\ (Cardinality(S) = Cardinality(T) => S = T)
    BY <1>2, FS_Subset, Zenon
  <2>2. Cardinality(T) \in Nat
    BY <2>1, FS_CardinalityType, Zenon
  <2> QED BY <2>1, <2>2
<1> QED BY <1>2, <1>3, <1>4

\* What a channel yields fits beside what runs there: the k-th job in the heap's
\* order is passed on only while fewer than the capacity run with k before it.
LEMMA YieldedFits ==
    ASSUME TypeOK, NEW c \in Channels, Capacity[c] # 0,
           Cardinality(chan[c].running) <= Capacity[c]
    PROVE  Cardinality(chan[c].running \cup Yielded(chan, c)) <= Capacity[c]
<1> DEFINE R == chan[c].running
           Y == Yielded(chan, c)
           A == Ready(chan, c)
           K == Capacity[c]
           pre(j) == {i \in A : Before(i, j)}
<1>1. R \in SUBSET Jobs /\ A \in SUBSET Jobs /\ Y \in SUBSET A /\ K \in Nat \ {0}
  <2>1. chan[c] \in Records
    BY DEF TypeOK, Records
  <2> QED BY <2>1, QueueJobAssumption DEF Records, Ready, Yielded
<1>2. \A j \in Y : Cardinality(R) + Cardinality(pre(j)) < K
  BY <1>1 DEF Yielded
<1>3. Cardinality(R) <= K
  OBVIOUS
<1>4. Y # {} => Cardinality(R) < K
  BY <1>1 DEF Yielded, has_capacity
<1> HIDE DEF R, Y, A, K
<1>5. Cardinality(R) \in Nat /\ IsFiniteSet(R) /\ IsFiniteSet(Y) /\ Cardinality(Y) \in Nat
  <2>1. Y \in SUBSET Jobs
    BY <1>1
  <2> QED BY <1>1, <2>1, JobSets, Zenon
<1>6. CASE Y = {}
  <2>1. R \cup Y = R
    BY <1>6
  <2> QED BY <1>3, <2>1 DEF R, Y, K
<1>7. CASE Y # {}
  <2>1. \A j \in Y : pre(j) \in SUBSET A /\ Cardinality(pre(j)) \in Nat
    BY <1>1, JobSets
  <2>2. ASSUME NEW i \in Y, NEW j \in Y, Before(i, j) PROVE Cardinality(pre(i)) # Cardinality(pre(j))
    <3>1. Rank[i] \in Nat /\ Rank[j] \in Nat /\ Rank[i] < Rank[j]
      BY <1>1, <2>2, RankAssumption DEF Before
    <3>2. \A k \in A : Rank[k] \in Nat
      BY <1>1, RankAssumption
    <3>3. pre(i) \in SUBSET pre(j)
      BY <3>1, <3>2 DEF Before
    <3>4. i \in pre(j) /\ i \notin pre(i)
      BY <1>1, <2>2, <3>1 DEF Before
    <3>5. pre(j) \in SUBSET Jobs
      BY <1>1
    <3>6. pre(i) # pre(j)
      BY <3>4
    <3> HIDE DEF pre
    <3> QED BY <3>3, <3>5, <3>6, JobSets
  <2>3. \A i, j \in Y : i # j => Cardinality(pre(i)) # Cardinality(pre(j))
    <3> SUFFICES ASSUME NEW i \in Y, NEW j \in Y, i # j
                 PROVE  Cardinality(pre(i)) # Cardinality(pre(j))
      OBVIOUS
    <3>1. Rank[i] \in Nat /\ Rank[j] \in Nat /\ Rank[i] # Rank[j]
      BY <1>1, RankAssumption
    <3>2. Before(i, j) \/ Before(j, i)
      BY <3>1 DEF Before
    <3> QED BY <2>2, <3>2
  <2> DEFINE f == [j \in Y |-> Cardinality(pre(j))]
             last == (K - Cardinality(R)) - 1
  <2>4. last \in Nat
    BY <1>1, <1>4, <1>5, <1>7
  <2>5. f \in [Y -> 0 .. last]
    <3> SUFFICES ASSUME NEW j \in Y PROVE Cardinality(pre(j)) \in 0 .. last
      OBVIOUS
    <3> HIDE DEF pre
    <3> QED BY <1>1, <1>2, <1>5, <2>1
  <2>6. IsFiniteSet(0 .. last) /\ Cardinality(0 .. last) = last + 1
    BY <2>4, FS_Interval
  <2>7. ~ \E x, y \in Y : x # y /\ f[x] = f[y]
    BY <2>3
  <2>8. ~(Cardinality(0 .. last) < Cardinality(Y))
    <3> HIDE DEF f, last
    <3> QED BY <1>5, <2>5, <2>6, <2>7, FS_PigeonHole, Zenon
  <2>9. Cardinality(Y) + Cardinality(R) <= K
    BY <1>1, <1>5, <2>4, <2>6, <2>8
  <2>10. Cardinality(R \cup Y) <= Cardinality(R) + Cardinality(Y)
    <3>1. Cardinality(R \cup Y) = Cardinality(R) + Cardinality(Y) - Cardinality(R \cap Y)
      BY <1>5, FS_Union, Zenon
    <3>2. R \cap Y \in SUBSET Jobs
      BY <1>1
    <3>3. Cardinality(R \cap Y) \in Nat
      BY <3>2, JobSets, Zenon
    <3> QED BY <1>5, <3>1, <3>3
  <2>11. Cardinality(R \cup Y) \in Nat
    <3>1. R \cup Y \in SUBSET Jobs
      BY <1>1
    <3> QED BY <3>1, JobSets, Zenon
  <2> QED BY <1>1, <1>5, <2>9, <2>10, <2>11 DEF R, Y, K
<1> QED BY <1>6, <1>7

-----------------------------------------------------------------------------
(* What most steps have in common. *)

Row == [state : States, retry : Nat, eta : {"none", "future", "past"},
        aged : BOOLEAN, holder : Workers \cup {None}]
Work == [pc : {"idle", "acquired", "performing", "rollback", "done"}, job : Jobs \cup {None}]

\* The types of the variables, one by one.
LEMMA Types ==
    ASSUME TypeOK
    PROVE  /\ row \in [Jobs -> Row] /\ chan \in Pictures /\ work \in [Workers -> Work]
           /\ notifies \in SUBSET Jobs /\ stale \in SUBSET Jobs
           /\ requests \in [Jobs -> 0 .. MaxRequests]
           /\ runner \in {"init", "requeue", "notify", "run", "wait"}
           /\ faults \in 0 .. MaxFaults /\ userSteps \in 0 .. MaxUserSteps
           /\ MaxFaults \in Nat /\ MaxUserSteps \in Nat /\ MaxRequests \in Nat \ {0}
BY QueueJobAssumption DEF TypeOK, Row, Work, Pictures, Records

\* The trigger's notifications name jobs.
LEMMA NotifiedType ==
    ASSUME TypeOK, NEW js \in SUBSET Jobs, Notified(js)
    PROVE  notifies' \in SUBSET Jobs
BY DEF TypeOK, Notified

\* One worker moves, the others stay where they are.
LEMMA GoesType ==
    ASSUME TypeOK, NEW w \in Workers, NEW j \in Jobs \cup {None},
           NEW p \in {"idle", "acquired", "performing", "rollback", "done"}, Goes(w, p, j)
    PROVE  /\ work' \in [Workers -> Work]
           /\ work'[w].pc = p /\ work'[w].job = j
           /\ \A v \in Workers : v # w => work'[v] = work[v]
BY Types DEF Goes, Work

\* As long as the runner leaves its picture alone and no job becomes busy, the
\* picture and the numbers stay right.
LEMMA PictureStays ==
    ASSUME Inv, UNCHANGED chan, runner' = "init" <=> runner = "init", row' \in [Jobs -> Row],
           \A j \in Jobs : row'[j].state \in {"enqueued", "started"} => Busy(j)
    PROVE  Pictured' /\ Counted'
<1>1. \A c \in Channels : BusyIn(c)' \subseteq BusyIn(c)
  BY DEF BusyIn, Busy, Path
<1>2. Pictured'
  <2>1. Consistent(chan)'
    BY DEF Inv, Pictured, Consistent, Path
  <2>2. (runner = "init" => chan = Emptied)'
    BY DEF Inv, Pictured, Emptied
  <2>3. (runner # "init" => \A c \in Channels : BusyIn(c) \subseteq chan[c].running)'
    BY <1>1 DEF Inv, Pictured
  <2> QED BY <2>1, <2>2, <2>3 DEF Pictured
<1>3. Counted'
  <2> SUFFICES ASSUME NEW c \in Channels, Capacity[c] # 0
               PROVE  /\ Cardinality(chan[c].running) <= Capacity[c]
                      /\ Cardinality(BusyIn(c)') <= Capacity[c]
    BY DEF Counted
  <2>1. Cardinality(chan[c].running) <= Capacity[c] /\ Cardinality(BusyIn(c)) <= Capacity[c]
    BY DEF Inv, Counted
  <2>2. BusyIn(c) \in SUBSET Jobs /\ BusyIn(c)' \in SUBSET BusyIn(c) /\ Capacity[c] \in Nat
    BY <1>1, QueueJobAssumption DEF BusyIn
  <2>3. /\ Cardinality(BusyIn(c)) \in Nat /\ Cardinality(BusyIn(c)') \in Nat
        /\ Cardinality(BusyIn(c)') <= Cardinality(BusyIn(c))
    BY <2>2, JobSets, Zenon
  <2> QED BY <2>1, <2>2, <2>3
<1> QED BY <1>2, <1>3

\* No worker moves, and the jobs that are locked are left alone.
LEMMA LockedStays ==
    ASSUME Locked, UNCHANGED work,
           \A j \in Jobs : /\ row'[j].holder = row[j].holder
                           /\ row[j].state = "started" /\ row[j].holder \in Workers =>
                                row'[j].state = "started"
    PROVE  Locked'
BY DEF Locked

\* One worker moves, and the jobs locked by the others are left alone.
LEMMA LockedMoves ==
    ASSUME TypeOK, Locked, NEW w \in Workers, NEW j \in Jobs \cup {None},
           NEW p \in {"idle", "acquired", "performing", "rollback", "done"}, Goes(w, p, j),
           p # "idle" => j \in Jobs,
           p \in {"performing", "rollback"} => row'[j].holder = w,
           p = "performing" => row'[j].state = "started",
           \A i \in Jobs, v \in Workers : v # w /\ row[i].holder = v =>
             row'[i].holder = v /\ (row[i].state = "started" => row'[i].state = "started")
    PROVE  Locked'
<1>1. /\ work'[w].pc = p /\ work'[w].job = j
      /\ \A v \in Workers : v # w => work'[v] = work[v]
  BY GoesType
<1> SUFFICES ASSUME NEW v \in Workers
             PROVE  /\ work'[v].pc # "idle" => work'[v].job \in Jobs
                    /\ work'[v].pc \in {"performing", "rollback"} => row'[work'[v].job].holder = v
                    /\ work'[v].pc = "performing" => row'[work'[v].job].state = "started"
  BY DEF Locked
<1>2. CASE v = w
  BY <1>1, <1>2
<1>3. CASE v # w
  BY <1>1, <1>3 DEF Locked
<1> QED BY <1>2, <1>3

\* The types again, put together.
LEMMA TypesKept ==
    ASSUME TypeOK, UNCHANGED <<chan, runner>>, row' \in [Jobs -> Row],
           notifies' \in SUBSET Jobs, stale' \in SUBSET Jobs,
           requests' \in [Jobs -> 0 .. MaxRequests], work' \in [Workers -> Work],
           faults' \in 0 .. MaxFaults, userSteps' \in 0 .. MaxUserSteps
    PROVE  TypeOK'
BY DEF TypeOK, Row, Work

\* A step of the table and the workers that makes no job busy and leaves the
\* locked jobs of other workers alone.
LEMMA TableStep ==
    ASSUME Inv, Locked', UNCHANGED <<chan, runner>>, row' \in [Jobs -> Row],
           \A j \in Jobs : row'[j].state \in {"enqueued", "started"} => Busy(j),
           notifies' \in SUBSET Jobs, stale' \in SUBSET Jobs,
           requests' \in [Jobs -> 0 .. MaxRequests], work' \in [Workers -> Work],
           faults' \in 0 .. MaxFaults, userSteps' \in 0 .. MaxUserSteps
    PROVE  Inv'
<1>1. TypeOK'
  BY TypesKept DEF Inv
<1>2. Pictured' /\ Counted'
  BY PictureStays
<1> QED BY <1>1, <1>2 DEF Inv

-----------------------------------------------------------------------------
(* The workers' steps. *)

\* _acquire_job keeps a busy job busy.
LEMMA AcquireInv ==
    ASSUME Inv, NEW w \in Workers, acquire_job(w)
    PROVE  Inv'
<1>1. TypeOK /\ Locked
  BY DEF Inv
<1>2. PICK j \in Jobs :
        /\ requests[j] > 0 /\ requests' = [requests EXCEPT ![j] = @ - 1]
        /\ IF row[j].state = "enqueued"
           THEN /\ row' = [row EXCEPT ![j].state = "started"]
                /\ Notified({j}) /\ Goes(w, "acquired", j)
           ELSE UNCHANGED <<row, notifies, work>>
  BY DEF acquire_job
<1>3. UNCHANGED <<chan, stale, runner, faults, userSteps>>
  BY DEF acquire_job
<1>4. requests' \in [Jobs -> 0 .. MaxRequests]
  BY <1>1, <1>2, Types
<1>5. CASE row[j].state = "enqueued"
  <2>1. /\ row' \in [Jobs -> Row]
        /\ row'[j].state = "started" /\ row'[j].holder = row[j].holder
        /\ \A i \in Jobs : i # j => row'[i] = row[i]
    BY <1>1, <1>2, <1>5, Types DEF Row, States
  <2>2. work' \in [Workers -> Work] /\ Goes(w, "acquired", j)
    BY <1>1, <1>2, <1>5, GoesType
  <2>3. notifies' \in SUBSET Jobs
    <3>1. {j} \in SUBSET Jobs /\ Notified({j})
      BY <1>2, <1>5
    <3> QED BY <1>1, <3>1, NotifiedType
  <2>4. Locked'
    BY <1>1, <2>1, <2>2, LockedMoves
  <2>5. \A i \in Jobs : row'[i].state \in {"enqueued", "started"} => Busy(i)
    BY <1>5, <2>1 DEF Busy
  <2> QED BY <1>1, <1>3, <1>4, <2>1, <2>2, <2>3, <2>4, <2>5, TableStep, Types
<1>6. CASE row[j].state # "enqueued"
  <2>1. UNCHANGED <<row, notifies, work>>
    BY <1>2, <1>6
  <2>2. Locked'
    BY <1>1, <2>1, LockedStays
  <2> QED BY <1>1, <1>3, <1>4, <2>1, <2>2, TableStep, Types DEF Busy
<1> QED BY <1>5, <1>6

\* Job.lock takes only a lock that nobody holds.
LEMMA LockInv ==
    ASSUME Inv, NEW w \in Workers, lock(w)
    PROVE  Inv'
<1> DEFINE j == work[w].job
<1>1. TypeOK /\ Locked /\ UNCHANGED <<notifies, chan, stale, runner, requests, faults, userSteps>>
  BY DEF Inv, lock
<1>2. j \in Jobs
  BY DEF Inv, Locked, lock
<1>3. CASE lockable(j)
  <2>1. row' = [row EXCEPT ![j].holder = w] /\ Goes(w, "performing", j)
    BY <1>3 DEF lock
  <2>2. row[j].holder = None /\ row[j].state = "started"
    BY <1>3 DEF lockable
  <2> HIDE DEF j
  <2>3. /\ row' \in [Jobs -> Row]
        /\ row'[j].state = "started" /\ row'[j].holder = w
        /\ \A i \in Jobs : i # j => row'[i] = row[i]
    BY <1>1, <1>2, <2>1, <2>2, Types DEF Row
  <2>4. work' \in [Workers -> Work]
    BY <1>1, <1>2, <2>1, GoesType
  <2>5. None \notin Workers
    BY QueueJobAssumption
  <2>6. Locked'
    BY <1>1, <1>2, <2>1, <2>2, <2>3, <2>5, LockedMoves
  <2>7. \A i \in Jobs : row'[i].state \in {"enqueued", "started"} => Busy(i)
    BY <2>2, <2>3 DEF Busy
  <2> QED BY <1>1, <2>3, <2>4, <2>6, <2>7, TableStep, Types
<1>4. CASE ~lockable(j)
  <2>1. UNCHANGED row /\ Goes(w, "idle", None)
    BY <1>4 DEF lock
  <2>2. Locked' /\ work' \in [Workers -> Work]
    BY <1>1, <2>1, LockedMoves, GoesType
  <2> QED BY <1>1, <2>1, <2>2, TableStep, Types DEF Busy
<1> QED BY <1>3, <1>4

\* The end of a perform: the job leaves the started state, its worker lets the
\* lock go or rolls back next.
LEMMA PerformedInv ==
    ASSUME Inv, NEW w \in Workers, NEW j \in Jobs, work[w].pc = "performing", work[w].job = j,
           UNCHANGED <<chan, runner, requests, userSteps>>, faults' \in 0 .. MaxFaults,
           stale' \in SUBSET Jobs, Notified({j}),
           row' \in [Jobs -> Row], \A i \in Jobs : i # j => row'[i] = row[i],
           row'[j].state \notin {"enqueued", "started"},
           NEW p \in {"rollback", "done"}, Goes(w, p, j),
           p = "rollback" => row'[j].holder = row[j].holder
    PROVE  Inv'
<1>1. TypeOK /\ Locked
  BY DEF Inv
<1>2. row[j].holder = w
  BY <1>1 DEF Locked
<1>3. Locked' /\ work' \in [Workers -> Work]
  BY <1>1, <1>2, LockedMoves, GoesType
<1>4. notifies' \in SUBSET Jobs
  <2>1. {j} \in SUBSET Jobs
    OBVIOUS
  <2> QED BY <1>1, <2>1, NotifiedType
<1>5. \A i \in Jobs : row'[i].state \in {"enqueued", "started"} => Busy(i)
  BY DEF Busy
<1> QED BY <1>1, <1>3, <1>4, <1>5, TableStep, Types

\* The four ends of _try_perform_job.
LEMMA PerformInv ==
    ASSUME Inv, NEW w \in Workers,
           performDone(w) \/ performRetry(w) \/ performConflict(w) \/ performFails(w)
    PROVE  Inv'
<1> DEFINE j == work[w].job
<1>1. TypeOK /\ Locked
  BY DEF Inv
<1>2. j \in Jobs /\ work[w].pc = "performing"
  BY <1>1 DEF Locked, performDone, performRetry, performConflict, performFails
<1>3. UNCHANGED <<chan, runner, requests, userSteps>>
  BY DEF performDone, performRetry, performConflict, performFails
<1>4. faults' \in 0 .. MaxFaults
  BY <1>1, Types DEF performDone, performRetry, performConflict, performFails
<1>5. PendingState(j) \in {"pending", "wait"} /\ row[j] \in Row
  BY <1>1, <1>2, Types DEF PendingState
<1>6. CASE performDone(w)
  <2>1. /\ row' = [row EXCEPT ![j].state = "done", ![j].retry = @ + 1, ![j].holder = None]
        /\ Notified({j}) /\ Goes(w, "done", j) /\ UNCHANGED stale
    BY <1>6 DEF performDone
  <2> HIDE DEF j
  <2>2. /\ row' \in [Jobs -> Row] /\ row'[j].state = "done"
        /\ \A i \in Jobs : i # j => row'[i] = row[i]
    BY <1>1, <1>2, <1>5, <2>1, Types DEF Row, States
  <2> QED BY <1>1, <1>2, <1>3, <1>4, <2>1, <2>2, PerformedInv, Types DEF j
<1>7. ASSUME row' = [row EXCEPT ![j].state = "failed", ![j].retry = @ + 1],
             Notified({j}), Goes(w, "rollback", j), UNCHANGED stale
      PROVE  Inv'
  <2> HIDE DEF j
  <2>2. /\ row' \in [Jobs -> Row] /\ row'[j].state = "failed" /\ row'[j].holder = row[j].holder
        /\ \A i \in Jobs : i # j => row'[i] = row[i]
    BY <1>1, <1>2, <1>5, <1>7, Types DEF Row, States
  <2> QED BY <1>1, <1>2, <1>3, <1>4, <1>7, <2>2, PerformedInv, Types DEF j
<1>8. ASSUME NEW n \in {0, 1}, Postpone(w, row[j].retry + n) PROVE Inv'
  <2>1. /\ row' = [row EXCEPT ![j].state = PendingState(j), ![j].retry = row[j].retry + n,
                              ![j].eta = "future"]
        /\ stale' = stale \cup {j} /\ Notified({j}) /\ Goes(w, "rollback", j)
    BY <1>8 DEF Postpone
  <2> HIDE DEF j
  <2>2. /\ row' \in [Jobs -> Row] /\ row'[j].state \in {"pending", "wait"}
        /\ row'[j].holder = row[j].holder
        /\ \A i \in Jobs : i # j => row'[i] = row[i]
    <3>1. PICK s \in {"pending", "wait"} : s = PendingState(j)
      BY <1>5
    <3>2. PICK r \in Nat : r = row[j].retry + n
      BY <1>5 DEF Row
    <3>3. row' = [row EXCEPT ![j] = [row[j] EXCEPT !.state = s, !.retry = r, !.eta = "future"]]
      BY <1>1, <1>2, <2>1, <3>1, <3>2, Types
    <3>4. [row[j] EXCEPT !.state = s, !.retry = r, !.eta = "future"] \in Row
      BY <1>5, <3>1, <3>2 DEF Row, States
    <3> QED BY <1>1, <1>2, <1>5, <3>1, <3>3, <3>4, Types DEF Row
  <2>3. stale' \in SUBSET Jobs
    BY <1>1, <1>2, <2>1, Types
  <2> QED BY <1>1, <1>2, <1>3, <1>4, <2>1, <2>2, <2>3, PerformedInv DEF j
<1>9. CASE performRetry(w)
  BY <1>7, <1>8, <1>9 DEF performRetry
<1>10. CASE performConflict(w)
  BY <1>8, <1>10 DEF performConflict
<1>11. CASE performFails(w)
  BY <1>7, <1>11 DEF performFails
<1> QED BY <1>6, <1>9, <1>10, <1>11

\* The releases of dependent jobs touch waiting rows only.
LEMMA DependentsType ==
    ASSUME NEW rows \in [Jobs -> Row], NEW j \in Jobs, NEW from, NEW to \in States
    PROVE  /\ WithDependents(rows, j, from, to) \in [Jobs -> Row]
           /\ Dependents(rows, j, from) \in SUBSET Jobs
           /\ \A i \in Jobs : /\ WithDependents(rows, j, from, to)[i].holder = rows[i].holder
                              /\ \/ WithDependents(rows, j, from, to)[i] = rows[i]
                                 \/ /\ rows[i].state = "wait"
                                    /\ WithDependents(rows, j, from, to)[i].state = to
<1>1. Dependents(rows, j, from) \in SUBSET Jobs
      /\ \A i \in Dependents(rows, j, from) : rows[i].state = "wait"
  BY DEF Dependents, Children
<1> QED BY <1>1 DEF WithDependents, Row

\* After done the dependents are released, or the lock is rolled back.
LEMMA EndInv ==
    ASSUME Inv, NEW w \in Workers, rollback(w) \/ enqueue_dependent_jobs(w)
    PROVE  Inv'
<1> DEFINE j == work[w].job
<1>1. TypeOK /\ Locked /\ UNCHANGED <<chan, stale, runner, requests, faults, userSteps>>
  BY DEF Inv, rollback, enqueue_dependent_jobs
<1>2. j \in Jobs /\ Goes(w, "idle", None) /\ work' \in [Workers -> Work]
  BY <1>1, GoesType DEF Locked, rollback, enqueue_dependent_jobs
<1>3. CASE rollback(w)
  <2>1. row' = [row EXCEPT ![j].holder = None] /\ row[j].holder = w /\ UNCHANGED notifies
    BY <1>1, <1>3 DEF rollback, Locked
  <2> HIDE DEF j
  <2>2. /\ row' \in [Jobs -> Row] /\ row'[j].state = row[j].state
        /\ \A i \in Jobs : i # j => row'[i] = row[i]
    BY <1>1, <1>2, <2>1, Types DEF Row
  <2>3. Locked'
    BY <1>1, <1>2, <2>1, <2>2, LockedMoves
  <2>4. \A i \in Jobs : row'[i].state \in {"enqueued", "started"} => Busy(i)
    BY <2>2 DEF Busy
  <2> QED BY <1>1, <1>2, <2>1, <2>2, <2>3, <2>4, TableStep, Types
<1>4. CASE enqueue_dependent_jobs(w)
  <2>1. row' = WithDependents(row, j, "done", "pending") /\ Notified(Dependents(row, j, "done"))
    BY <1>4 DEF enqueue_dependent_jobs
  <2> HIDE DEF j
  <2>2. /\ row' \in [Jobs -> Row] /\ Dependents(row, j, "done") \in SUBSET Jobs
        /\ \A i \in Jobs : /\ row'[i].holder = row[i].holder
                           /\ row'[i] = row[i] \/ (row[i].state = "wait" /\ row'[i].state = "pending")
    BY <1>1, <1>2, <2>1, DependentsType, Types DEF States
  <2>3. Locked'
    BY <1>1, <1>2, <2>2, LockedMoves
  <2>4. \A i \in Jobs : row'[i].state \in {"enqueued", "started"} => Busy(i)
    BY <2>2 DEF Busy
  <2>5. notifies' \in SUBSET Jobs
    BY <1>1, <2>1, <2>2, NotifiedType
  <2> QED BY <1>1, <1>2, <2>2, <2>3, <2>4, <2>5, TableStep, Types
<1> QED BY <1>3, <1>4

\* A crash drops the locks of its worker only.
LEMMA CrashInv ==
    ASSUME Inv, NEW w \in Workers, workerCrash(w)
    PROVE  Inv'
<1>1. /\ TypeOK /\ Locked /\ UNCHANGED <<notifies, chan, stale, runner, requests, userSteps>>
      /\ Goes(w, "idle", None) /\ faults < MaxFaults /\ faults' = faults + 1
  BY DEF Inv, workerCrash
<1>2. work' \in [Workers -> Work] /\ faults' \in 0 .. MaxFaults
  BY <1>1, GoesType, Types
<1>3. row' = [j \in Jobs |-> IF row[j].holder = w THEN [row[j] EXCEPT !.holder = None] ELSE row[j]]
  BY DEF workerCrash
<1>4. /\ row' \in [Jobs -> Row]
      /\ \A i \in Jobs : /\ row'[i].state = row[i].state
                         /\ row[i].holder # w => row'[i] = row[i]
  BY <1>1, <1>3, Types DEF Row
<1>5. Locked'
  BY <1>1, <1>4, LockedMoves
<1>6. \A i \in Jobs : row'[i].state \in {"enqueued", "started"} => Busy(i)
  BY <1>4 DEF Busy
<1> QED BY <1>1, <1>2, <1>4, <1>5, <1>6, TableStep, Types

-----------------------------------------------------------------------------
(* The user, lost requests and time. *)

\* A step of the table alone that makes no job busy and no locked job less
\* than started.
LEMMA RowsStep ==
    ASSUME Inv, UNCHANGED <<chan, stale, runner, work>>, row' \in [Jobs -> Row],
           \A j \in Jobs : /\ row'[j].holder = row[j].holder
                           /\ row[j].state = "started" /\ row[j].holder \in Workers =>
                                row'[j].state = "started"
                           /\ row'[j].state \in {"enqueued", "started"} => Busy(j),
           notifies' \in SUBSET Jobs, requests' \in [Jobs -> 0 .. MaxRequests],
           faults' \in 0 .. MaxFaults, userSteps' \in 0 .. MaxUserSteps
    PROVE  Inv'
<1>1. TypeOK /\ Locked
  BY DEF Inv
<1>2. Locked'
  BY <1>1, LockedStays
<1> QED BY <1>1, <1>2, TableStep, Types

\* The buttons leave started jobs alone.
LEMMA UserInv ==
    ASSUME Inv, NEW j \in Jobs, UserStep(j)
    PROVE  Inv'
<1>1. TypeOK /\ UNCHANGED <<chan, stale, runner, requests, work, faults>>
  BY DEF Inv, UserStep, button_done, button_cancelled, requeue
<1>2. userSteps' \in 0 .. MaxUserSteps
  BY <1>1, Types DEF UserStep, button_done, button_cancelled, requeue, Pressed
<1>3. row[j].state \notin {"started"} /\ row[j] \in Row
  BY <1>1, Types DEF UserStep, button_done, button_cancelled, requeue, Manual
<1>4. ASSUME NEW s \in {"done", "cancelled"}, NEW to \in {"pending", "cancelled"},
             row' = WithDependents([row EXCEPT ![j].state = s], j, s, to),
             Notified({j} \cup Dependents([row EXCEPT ![j].state = s], j, s))
      PROVE  Inv'
  <2> DEFINE rows == [row EXCEPT ![j].state = s]
  <2>1. /\ rows \in [Jobs -> Row] /\ rows[j].holder = row[j].holder /\ rows[j].state = s
        /\ \A i \in Jobs : i # j => rows[i] = row[i]
    BY <1>1, <1>3, Types DEF Row, States
  <2>2. row' = WithDependents(rows, j, s, to) /\ Notified({j} \cup Dependents(rows, j, s))
    BY <1>4
  <2> HIDE DEF rows
  <2>3. /\ row' \in [Jobs -> Row] /\ {j} \cup Dependents(rows, j, s) \in SUBSET Jobs
        /\ \A i \in Jobs : /\ row'[i].holder = rows[i].holder
                           /\ row'[i] = rows[i] \/ (rows[i].state = "wait" /\ row'[i].state = to)
    <3>1. to \in States
      BY DEF States
    <3> QED BY <2>1, <2>2, <3>1, DependentsType
  <2>4. notifies' \in SUBSET Jobs
    BY <1>1, <2>2, <2>3, NotifiedType
  <2>5. \A i \in Jobs : /\ row'[i].holder = row[i].holder
                        /\ row[i].state = "started" => row'[i].state = "started"
                        /\ row'[i].state \in {"enqueued", "started"} => Busy(i)
    BY <1>3, <2>1, <2>3 DEF Busy
  <2> QED BY <1>1, <1>2, <2>3, <2>4, <2>5, RowsStep, Types
<1>5. CASE button_done(j)
  BY <1>4, <1>5 DEF button_done
<1>6. CASE button_cancelled(j)
  BY <1>4, <1>6 DEF button_cancelled
<1>7. CASE requeue(j)
  <2>1. /\ row' = [row EXCEPT ![j].state = PendingState(j), ![j].retry = 0, ![j].aged = FALSE]
        /\ Notified({j})
    BY <1>7 DEF requeue
  <2>2. PICK s \in {"pending", "wait"} : s = PendingState(j)
    BY DEF PendingState
  <2>3. row' = [row EXCEPT ![j] = [row[j] EXCEPT !.state = s, !.retry = 0, !.aged = FALSE]]
    BY <1>1, <2>1, <2>2, Types
  <2>4. [row[j] EXCEPT !.state = s, !.retry = 0, !.aged = FALSE] \in Row
    BY <1>3, <2>2 DEF Row, States
  <2>5. /\ row' \in [Jobs -> Row] /\ row'[j].holder = row[j].holder /\ row'[j].state = s
        /\ \A i \in Jobs : i # j => row'[i] = row[i]
    BY <1>1, <1>3, <2>3, <2>4, Types DEF Row
  <2>6. \A i \in Jobs : /\ row'[i].holder = row[i].holder
                        /\ row[i].state = "started" => row'[i].state = "started"
                        /\ row'[i].state \in {"enqueued", "started"} => Busy(i)
    BY <1>3, <2>2, <2>5 DEF Busy
  <2>7. notifies' \in SUBSET Jobs
    <3>1. {j} \in SUBSET Jobs
      OBVIOUS
    <3> QED BY <1>1, <2>1, <3>1, NotifiedType
  <2> QED BY <1>1, <1>2, <2>5, <2>6, <2>7, RowsStep, Types
<1> QED BY <1>5, <1>6, <1>7 DEF UserStep

\* Time and lost requests change no state and no lock.
LEMMA TimeInv ==
    ASSUME Inv, requestLost \/ \E j \in Jobs : ages(j) \/ etaPasses(j)
    PROVE  Inv'
<1>1. TypeOK /\ UNCHANGED <<notifies, chan, stale, runner, work, userSteps>>
  BY DEF Inv, requestLost, ages, etaPasses
<1>2. faults' \in 0 .. MaxFaults
  BY <1>1, Types DEF requestLost, ages, etaPasses
<1>3. CASE requestLost
  <2>1. requests' \in [Jobs -> 0 .. MaxRequests] /\ UNCHANGED row
    BY <1>1, <1>3, Types DEF requestLost
  <2> QED BY <1>1, <1>2, <2>1, RowsStep, Types DEF Busy
<1>4. CASE \E j \in Jobs : ages(j) \/ etaPasses(j)
  <2>1. PICK j \in Jobs : ages(j) \/ etaPasses(j)
    BY <1>4
  <2>2. /\ row' = [row EXCEPT ![j].aged = TRUE] \/ row' = [row EXCEPT ![j].eta = "past"]
        /\ UNCHANGED requests
    BY <2>1 DEF ages, etaPasses
  <2>3. /\ row' \in [Jobs -> Row]
        /\ \A i \in Jobs : row'[i].state = row[i].state /\ row'[i].holder = row[i].holder
    <3>1. row \in [Jobs -> Row]
      BY <1>1, Types
    <3>2. CASE row' = [row EXCEPT ![j].aged = TRUE]
      BY <3>1, <3>2 DEF Row
    <3>3. CASE row' = [row EXCEPT ![j].eta = "past"]
      BY <3>1, <3>3 DEF Row
    <3> QED BY <2>2, <3>2, <3>3
  <2> QED BY <1>1, <1>2, <2>2, <2>3, RowsStep, Types DEF Busy
<1> QED BY <1>3, <1>4

-----------------------------------------------------------------------------
(* The runner's steps. *)

\* The dead-job query, the end of a round and the select change no picture.
LEMMA RequeueDeadInv ==
    ASSUME Inv, requeue_dead_jobs \/ wait_notification
    PROVE  Inv'
<1>1. /\ TypeOK /\ Locked /\ runner # "init" /\ runner' \in {"requeue", "notify"}
      /\ UNCHANGED <<chan, stale, requests, work, faults, userSteps>>
  BY DEF Inv, requeue_dead_jobs, wait_notification
<1>2. /\ row' \in [Jobs -> Row] /\ notifies' \in SUBSET Jobs
      /\ \A i \in Jobs : /\ row'[i].holder = row[i].holder
                         /\ row[i].state = "started" /\ row[i].holder \in Workers =>
                              row'[i].state = "started"
                         /\ row'[i].state \in {"enqueued", "started"} => Busy(i)
  <2>1. CASE wait_notification
    BY <1>1, <2>1, Types DEF wait_notification, Busy
  <2>2. CASE requeue_dead_jobs
    <3>1. Dead \in SUBSET Jobs /\ None \notin Workers
      BY QueueJobAssumption DEF Dead
    <3>2. notifies' \in SUBSET Jobs
      BY <1>1, <2>2, <3>1, NotifiedType DEF requeue_dead_jobs
    <3>3. ASSUME NEW i \in Jobs
          PROVE  /\ row'[i] \in Row /\ row'[i].holder = row[i].holder
                 /\ i \notin Dead => row'[i] = row[i]
                 /\ i \in Dead => row'[i].state \in {"failed", "pending"}
      <4>1. row[i] \in Row
        BY <1>1, Types
      <4>2. CASE i \notin Dead
        BY <2>2, <4>1, <4>2 DEF requeue_dead_jobs
      <4>3. CASE i \in Dead
        <5> DEFINE s == IF MaxRetries # 0 /\ row[i].retry > MaxRetries THEN "failed" ELSE "pending"
                   r == IF row[i].state = "started" THEN row[i].retry + 1 ELSE row[i].retry
        <5>1. row'[i] = [row[i] EXCEPT !.state = s, !.retry = r]
          BY <2>2, <4>3 DEF requeue_dead_jobs
        <5>2. s \in {"failed", "pending"} /\ r \in Nat
          BY <4>1 DEF Row
        <5> HIDE DEF s, r
        <5> QED BY <4>1, <4>3, <5>1, <5>2 DEF Row, States
      <4> QED BY <4>2, <4>3
    <3>4. row' \in [Jobs -> Row]
      <4>1. DOMAIN row' = Jobs /\ row' = [i \in Jobs |-> row'[i]]
        BY <2>2 DEF requeue_dead_jobs
      <4> QED BY <3>3, <4>1
    <3> QED BY <3>1, <3>2, <3>3, <3>4 DEF Dead, Busy
  <2> QED BY <1>1, <2>1, <2>2
<1>3. Locked'
  BY <1>1, <1>2, LockedStays
<1>4. TypeOK'
  BY <1>1, <1>2, Types DEF TypeOK, Row
<1>5. Pictured' /\ Counted'
  BY <1>1, <1>2, PictureStays
<1> QED BY <1>3, <1>4, <1>5 DEF Inv

\* A picture that has every busy job running and no channel overfull.
LEMMA PictureRight ==
    ASSUME chan' \in Pictures, Consistent(chan'), runner' # "init",
           \A c \in Channels : BusyIn(c)' \subseteq chan'[c].running,
           \A c \in Channels : Capacity[c] # 0 => Cardinality(chan'[c].running) <= Capacity[c]
    PROVE  Pictured' /\ Counted'
<1>1. Pictured'
  BY DEF Pictured, Consistent, Path
<1>2. ASSUME NEW c \in Channels, Capacity[c] # 0 PROVE Cardinality(BusyIn(c)') <= Capacity[c]
  <2> DEFINE R == chan'[c].running
             B == BusyIn(c)'
  <2>1. R \in SUBSET Jobs /\ B \in SUBSET R /\ Cardinality(R) <= Capacity[c] /\ Capacity[c] \in Nat
    BY <1>2, QueueJobAssumption DEF Pictures, Records
  <2> HIDE DEF R, B
  <2>2. Cardinality(R) \in Nat /\ Cardinality(B) \in Nat /\ Cardinality(B) <= Cardinality(R)
    BY <2>1, JobSets, Zenon
  <2>3. Cardinality(B) <= Capacity[c]
    BY <2>1, <2>2
  <2> QED BY <2>3 DEF B
<1>3. Counted'
  BY <1>2 DEF Counted
<1> QED BY <1>1, <1>3

\* A smaller set of running jobs fits where the larger did.
LEMMA FewerFit ==
    ASSUME TypeOK, Counted, NEW c \in Channels, Capacity[c] # 0, NEW T \in SUBSET chan[c].running
    PROVE  Cardinality(T) <= Capacity[c]
<1> DEFINE R == chan[c].running
<1>1. R \in SUBSET Jobs /\ T \in SUBSET R /\ Cardinality(R) <= Capacity[c] /\ Capacity[c] \in Nat
  BY Types, QueueJobAssumption DEF Pictures, Records, Counted
<1> HIDE DEF R
<1>2. Cardinality(R) \in Nat /\ Cardinality(T) \in Nat /\ Cardinality(T) <= Cardinality(R)
  BY <1>1, JobSets, Zenon
<1> QED BY <1>1, <1>2

\* A runner that starts rebuilds the picture the table gives; one that fails
\* forgets it, and enqueues nothing until it has it again.
LEMMA RestartInv ==
    ASSUME Inv, initialize_databases \/ close_databases
    PROVE  Inv'
<1>1. TypeOK /\ Locked /\ UNCHANGED <<row, requests, work, userSteps>>
      /\ notifies' = {} /\ stale' = {}
  BY DEF Inv, initialize_databases, close_databases
<1>2. Locked'
  BY <1>1, LockedStays
<1>3. \A c \in Channels : BusyIn(c)' = BusyIn(c)
  BY <1>1 DEF BusyIn, Busy, Path
<1>4. CASE initialize_databases
  <2>1. chan' = Rebuilt /\ runner' = "requeue" /\ UNCHANGED faults
    BY <1>4 DEF initialize_databases
  <2>2. /\ chan' \in Pictures /\ Consistent(chan')
        /\ \A c \in Channels : chan'[c].running = BusyIn(c)
    BY <1>1, <2>1, RebuiltPlaces, Zenon
  <2>3. \A c \in Channels : Capacity[c] # 0 => Cardinality(chan'[c].running) <= Capacity[c]
    BY <2>2 DEF Inv, Counted
  <2>4. Pictured' /\ Counted'
    BY <1>3, <2>1, <2>2, <2>3, PictureRight
  <2>5. TypeOK'
    BY <1>1, <2>1, <2>2 DEF TypeOK, Pictures, Records
  <2> QED BY <1>2, <2>4, <2>5 DEF Inv
<1>5. CASE close_databases
  <2>1. chan' = Emptied /\ runner' = "init" /\ faults < MaxFaults /\ faults' = faults + 1
    BY <1>5 DEF close_databases
  <2>2. \A c \in Channels : chan'[c].running = {} /\ chan'[c].queue = {}
    BY <2>1 DEF Emptied
  <2>3. chan' \in Pictures
    BY <2>1 DEF Emptied, Pictures, Records
  <2>4. Pictured'
    BY <2>1, <2>2, PathType DEF Pictured, Consistent, Emptied
  <2>5. Counted'
    <3> SUFFICES ASSUME NEW c \in Channels, Capacity[c] # 0
                 PROVE  /\ Cardinality(chan'[c].running) <= Capacity[c]
                        /\ Cardinality(BusyIn(c)') <= Capacity[c]
      BY DEF Counted
    <3>1. Cardinality(chan'[c].running) = 0 /\ Capacity[c] \in Nat
      BY <2>2, FS_EmptySet, QueueJobAssumption
    <3>2. Cardinality(BusyIn(c)) <= Capacity[c]
      BY DEF Inv, Counted
    <3> QED BY <1>3, <3>1, <3>2
  <2>6. TypeOK'
    BY <1>1, <2>1, <2>3, Types DEF TypeOK, Pictures, Records
  <2> QED BY <1>2, <2>4, <2>5, <2>6 DEF Inv
<1> QED BY <1>4, <1>5

\* A notification is handled.
LEMMA NotificationInv ==
    ASSUME Inv, process_notification
    PROVE  Inv'
<1>1. /\ TypeOK /\ Locked /\ Pictured /\ Counted /\ runner # "init"
      /\ UNCHANGED <<row, runner, requests, work, faults, userSteps>>
  BY DEF Inv, process_notification
<1>2. PICK j \in notifies : /\ notifies' = notifies \ {j} /\ chan' = notify(chan, j)
                            /\ stale' = stale \ {j}
  BY DEF process_notification
<1>3. j \in Jobs
  BY <1>1, Types
<1>4. /\ chan' \in Pictures /\ Consistent(chan')
      /\ \A c \in Channels : chan'[c].running \subseteq chan[c].running /\ BusyIn(c) \subseteq chan'[c].running
  BY <1>1, <1>2, <1>3, NotifyPlaces, Zenon
<1>5. \A c \in Channels : Capacity[c] # 0 => Cardinality(chan'[c].running) <= Capacity[c]
  BY <1>1, <1>4, FewerFit
<1>6. \A c \in Channels : BusyIn(c)' = BusyIn(c)
  BY <1>1 DEF BusyIn, Busy, Path
<1>7. Pictured' /\ Counted'
  BY <1>1, <1>4, <1>5, <1>6, PictureRight
<1>8. Locked'
  BY <1>1, LockedStays
<1>9. TypeOK'
  BY <1>1, <1>2, <1>4 DEF TypeOK, Pictures, Records
<1> QED BY <1>7, <1>8, <1>9 DEF Inv

\* The children pass their jobs on to the root's queue.
LEMMA GetJobsInv ==
    ASSUME Inv, get_jobs_to_run
    PROVE  Inv'
<1> DEFINE Y(c) == Yielded(chan, c)
           up == UNION {Y(c) : c \in Channels \ {Root}}
<1>1. /\ TypeOK /\ Locked /\ Pictured /\ Counted /\ runner # "init" /\ runner' = "run"
      /\ UNCHANGED <<row, notifies, requests, work, faults, userSteps>>
  BY DEF Inv, get_jobs_to_run
<1>2. /\ chan \in Pictures /\ Consistent(chan)
      /\ \A c \in Channels : BusyIn(c) \subseteq chan[c].running
  BY <1>1, Types DEF Pictured
<1>3. chan' = [c \in Channels |->
                 IF c = Root THEN [chan[c] EXCEPT !.queue = @ \cup up]
                 ELSE [chan[c] EXCEPT !.queue = @ \ Y(c), !.running = @ \cup Y(c)]]
  BY DEF get_jobs_to_run
<1>4. \A c \in Channels : Y(c) \subseteq chan[c].queue /\ Y(c) \subseteq Jobs
  BY <1>2 DEF Yielded, Ready, Pictures, Records
<1>5. up \subseteq Jobs /\ \A j \in up : \E c \in Channels \ {Root} : j \in Y(c)
  BY <1>4
<1>6. \A c \in Channels \ {Root}, j \in Jobs : j \in Y(c) => c = ChannelOf[j]
  BY <1>2, <1>4, PathType DEF Consistent
<1> HIDE DEF Y, up
<1>7. /\ chan' \in Pictures
      /\ chan'[Root].queue = chan[Root].queue \cup up /\ chan'[Root].running = chan[Root].running
      /\ \A c \in Channels \ {Root} : /\ chan'[c].queue = chan[c].queue \ Y(c)
                                      /\ chan'[c].running = chan[c].running \cup Y(c)
  <2>1. Root \in Channels
    BY QueueJobAssumption
  <2>2. chan'[Root] = [chan[Root] EXCEPT !.queue = @ \cup up]
    BY <1>3, <2>1
  <2>3. chan'[Root].queue = chan[Root].queue \cup up /\ chan'[Root].running = chan[Root].running
        /\ chan'[Root] \in Records
    BY <1>2, <1>5, <2>1, <2>2 DEF Pictures, Records
  <2>4. ASSUME NEW c \in Channels \ {Root}
        PROVE  /\ chan'[c].queue = chan[c].queue \ Y(c)
               /\ chan'[c].running = chan[c].running \cup Y(c) /\ chan'[c] \in Records
    <3>1. chan'[c] = [chan[c] EXCEPT !.queue = @ \ Y(c), !.running = @ \cup Y(c)]
      BY <1>3
    <3>2. chan[c] \in Records /\ Y(c) \subseteq Jobs
      BY <1>2, <1>4 DEF Pictures
    <3> QED BY <3>1, <3>2 DEF Records
  <2>5. chan' \in Pictures
    <3>1. chan' = [c \in Channels |-> chan'[c]]
      BY <1>3
    <3> QED BY <2>3, <2>4, <3>1 DEF Pictures
  <2> QED BY <2>3, <2>4, <2>5
<1>8. Consistent(chan')
  <2> SUFFICES ASSUME NEW j \in Jobs
               PROVE  /\ \A c \in Channels : j \in chan'[c].queue \cup chan'[c].running => c \in Path(j)
                      /\ \A c \in Channels : ~(j \in chan'[c].queue /\ j \in chan'[c].running)
                      /\ ChannelOf[j] # Root /\ j \in chan'[Root].queue \cup chan'[Root].running =>
                           j \in chan'[ChannelOf[j]].running
    BY DEF Consistent
  <2>1. j \in up => ChannelOf[j] # Root /\ j \in Y(ChannelOf[j]) /\ j \in chan[ChannelOf[j]].queue
    BY <1>4, <1>5, <1>6
  <2>2. /\ \A c \in Channels : j \in chan[c].queue \cup chan[c].running => c \in Path(j)
        /\ \A c \in Channels : ~(j \in chan[c].queue /\ j \in chan[c].running)
        /\ ChannelOf[j] # Root /\ j \in chan[Root].queue \cup chan[Root].running =>
             j \in chan[ChannelOf[j]].running
    BY <1>2 DEF Consistent
  <2>3. j \in up => j \notin chan[Root].queue \cup chan[Root].running
    BY <2>1, <2>2, PathType
  <2>4. ASSUME NEW c \in Channels, j \in chan'[c].queue \cup chan'[c].running PROVE c \in Path(j)
    BY <1>4, <1>7, <2>2, <2>4, PathType
  <2>5. ASSUME NEW c \in Channels PROVE ~(j \in chan'[c].queue /\ j \in chan'[c].running)
    BY <1>4, <1>7, <2>2, <2>3
  <2>6. ASSUME ChannelOf[j] # Root, j \in chan'[Root].queue \cup chan'[Root].running
        PROVE  j \in chan'[ChannelOf[j]].running
    BY <1>7, <2>1, <2>2, <2>6, PathType
  <2> QED BY <2>4, <2>5, <2>6
<1>9. \A c \in Channels : BusyIn(c)' \subseteq chan'[c].running
  <2>1. \A c \in Channels : BusyIn(c)' = BusyIn(c)
    BY <1>1 DEF BusyIn, Busy, Path
  <2> QED BY <1>2, <1>7, <2>1
<1>10. \A c \in Channels : Capacity[c] # 0 => Cardinality(chan'[c].running) <= Capacity[c]
  BY <1>1, <1>7, YieldedFits DEF Y, Counted
<1>11. Pictured' /\ Counted'
  BY <1>1, <1>7, <1>8, <1>9, <1>10, PictureRight
<1>12. Locked'
  BY <1>1, LockedStays
<1>13. stale' \in SUBSET Jobs
  <2>1. \A c \in Channels : Ready(chan, c) \subseteq Jobs
    BY <1>2 DEF Ready, Pictures, Records
  <2>2. PICK S \in SUBSET Channels :
          stale' = stale \cup {j \in UNION {Ready(chan, c) : c \in S} : row[j].eta = "past"}
    BY DEF get_jobs_to_run
  <2> QED BY <1>1, <2>1, <2>2, Types
<1>14. TypeOK'
  BY <1>1, <1>7, <1>13 DEF TypeOK, Pictures, Records
<1> QED BY <1>11, <1>12, <1>14 DEF Inv

\* The root has one more job running, which was not busy before.
LEMMA RunJobsInv ==
    ASSUME Inv, run_jobs
    PROVE  Inv'
<1>1. /\ TypeOK /\ Locked /\ Pictured /\ Counted /\ runner # "init"
      /\ UNCHANGED <<stale, work, faults, userSteps>>
  BY DEF Inv, run_jobs
<1>2. CASE runner' = "wait" /\ UNCHANGED <<chan, row, requests, notifies>>
  <2>1. Pictured' /\ Counted'
    BY <1>1, <1>2, PictureStays, Types DEF Busy
  <2>2. Locked' /\ TypeOK'
    BY <1>1, <1>2, LockedStays DEF TypeOK
  <2> QED BY <2>1, <2>2 DEF Inv
<1>3. ASSUME has_capacity(chan, Root), UNCHANGED runner, NEW j \in Next1(chan), set_job_enqueued(j),
             chan' = [chan EXCEPT ![Root].queue = @ \ {j}, ![Root].running = @ \cup {j}]
      PROVE  Inv'
  <2>1. /\ chan \in Pictures /\ Consistent(chan) /\ Root \in Channels
        /\ \A c \in Channels : BusyIn(c) \subseteq chan[c].running
    BY <1>1, Types, QueueJobAssumption DEF Pictured
  <2>2. j \in Jobs /\ j \in chan[Root].queue
    BY <2>1 DEF Next1, Ready, Pictures, Records
  <2>3. j \notin chan[Root].running /\ (ChannelOf[j] # Root => j \in chan[ChannelOf[j]].running)
    BY <2>1, <2>2 DEF Consistent
  <2>4. ~Busy(j)
    BY <2>1, <2>2, <2>3, PathType DEF BusyIn
  <2>5. /\ chan' \in Pictures
        /\ chan'[Root].queue = chan[Root].queue \ {j}
        /\ chan'[Root].running = chan[Root].running \cup {j}
        /\ \A c \in Channels \ {Root} : chan'[c] = chan[c]
    BY <1>3, <2>1, <2>2 DEF Pictures, Records
  <2>6. Consistent(chan')
    <3>1. \A c \in Channels, i \in Jobs : i # j =>
            /\ i \in chan'[c].queue <=> i \in chan[c].queue
            /\ i \in chan'[c].running <=> i \in chan[c].running
      BY <2>5
    <3>2. \A c \in Channels : j \in chan'[c].queue \cup chan'[c].running => c \in Path(j)
      BY <2>1, <2>2, <2>5, PathType DEF Consistent
    <3>3. \A c \in Channels : ~(j \in chan'[c].queue /\ j \in chan'[c].running)
      BY <2>1, <2>2, <2>5 DEF Consistent
    <3>4. ChannelOf[j] # Root => j \in chan'[ChannelOf[j]].running
      BY <2>2, <2>3, <2>5, PathType
    <3> QED BY <2>1, <2>2, <3>1, <3>2, <3>3, <3>4, OneMoved
  <2>7. /\ row' = [row EXCEPT ![j].state = "enqueued", ![j].aged = FALSE]
        /\ requests' = [requests EXCEPT ![j] = Min({@ + 1, MaxRequests})]
        /\ Notified({j})
    BY <1>3 DEF set_job_enqueued
  <2>8. /\ row' \in [Jobs -> Row] /\ row'[j].holder = row[j].holder
        /\ \A i \in Jobs : i # j => row'[i] = row[i]
    BY <1>1, <2>2, <2>7, Types DEF Row, States
  <2>9. Locked'
    BY <1>1, <2>4, <2>8, LockedStays DEF Busy
  <2>10. \A c \in Channels : BusyIn(c)' \subseteq chan'[c].running
    <3> SUFFICES ASSUME NEW c \in Channels, NEW i \in BusyIn(c)' PROVE i \in chan'[c].running
      OBVIOUS
    <3>1. i \in Jobs /\ c \in Path(i) /\ row'[i].state \in {"enqueued", "started"}
      BY DEF BusyIn, Busy, Path
    <3>2. CASE i = j
      BY <2>3, <2>5, <3>1, <3>2, PathType
    <3>3. CASE i # j
      <4>1. i \in BusyIn(c)
        BY <2>8, <3>1, <3>3 DEF BusyIn, Busy
      <4> QED BY <2>1, <2>5, <4>1
    <3> QED BY <3>2, <3>3
  <2>11. \A c \in Channels : Capacity[c] # 0 => Cardinality(chan'[c].running) <= Capacity[c]
    <3> SUFFICES ASSUME NEW c \in Channels, Capacity[c] # 0
                 PROVE  Cardinality(chan'[c].running) <= Capacity[c]
      OBVIOUS
    <3>1. CASE c # Root
      BY <1>1, <2>5, <3>1 DEF Counted
    <3>2. CASE c = Root
      <4> DEFINE R == chan[Root].running
      <4>1. R \in SUBSET Jobs /\ Capacity[Root] \in Nat /\ Cardinality(R) < Capacity[Root]
        BY <1>3, <2>1, <3>2, QueueJobAssumption DEF Pictures, Records, has_capacity
      <4>2. chan'[Root].running = R \cup {j} /\ j \notin R
        BY <2>3, <2>5
      <4> HIDE DEF R
      <4>3. IsFiniteSet(R) /\ Cardinality(R) \in Nat
        BY <4>1, JobSets, Zenon
      <4>4. Cardinality(R \cup {j}) = Cardinality(R) + 1
        BY <4>2, <4>3, FS_AddElement
      <4> QED BY <3>2, <4>1, <4>2, <4>3, <4>4
    <3> QED BY <3>1, <3>2
  <2>12. Pictured' /\ Counted'
    BY <1>1, <1>3, <2>5, <2>6, <2>10, <2>11, PictureRight
  <2>13. requests' \in [Jobs -> 0 .. MaxRequests]
    <3>1. requests \in [Jobs -> 0 .. MaxRequests] /\ MaxRequests \in Nat \ {0}
      BY <1>1, Types
    <3>2. Min({requests[j] + 1, MaxRequests}) \in 0 .. MaxRequests
      <4>1. \E x \in {requests[j] + 1, MaxRequests} :
              \A y \in {requests[j] + 1, MaxRequests} : x =< y
        BY <2>2, <3>1
      <4>2. /\ Min({requests[j] + 1, MaxRequests}) \in {requests[j] + 1, MaxRequests}
            /\ Min({requests[j] + 1, MaxRequests}) =< MaxRequests
        BY <4>1 DEF Min
      <4> QED BY <2>2, <3>1, <4>2
    <3> QED BY <2>2, <2>7, <3>1, <3>2
  <2>14. notifies' \in SUBSET Jobs
    <3>1. {j} \in SUBSET Jobs
      BY <2>2
    <3> QED BY <1>1, <2>7, <3>1, NotifiedType
  <2>15. TypeOK'
    BY <1>1, <1>3, <2>5, <2>8, <2>13, <2>14 DEF TypeOK, Row, Pictures, Records
  <2> QED BY <2>9, <2>12, <2>15 DEF Inv
<1> QED BY <1>2, <1>3 DEF run_jobs

-----------------------------------------------------------------------------
\* The table the model starts from has nothing busy and nobody at work.
LEMMA InitInv == Init => Inv
<1> SUFFICES ASSUME Init PROVE Inv
  OBVIOUS
<1>1. \A j \in Jobs : ~Busy(j)
  BY DEF Init, Busy
<1>2. TypeOK
  <2>1. row \in [Jobs -> [state : States, retry : Nat, eta : {"none", "future", "past"},
                          aged : BOOLEAN, holder : Workers \cup {None}]]
    BY DEF Init, States
  <2>2. chan \in [Channels -> [queue : SUBSET Jobs, running : SUBSET Jobs, failed : SUBSET Jobs]]
    BY DEF Init, Emptied
  <2>3. work \in [Workers -> [pc : {"idle", "acquired", "performing", "rollback", "done"},
                              job : Jobs \cup {None}]]
    BY DEF Init
  <2>4. requests \in [Jobs -> 0 .. MaxRequests]
    BY QueueJobAssumption DEF Init
  <2>5. faults \in 0 .. MaxFaults /\ userSteps \in 0 .. MaxUserSteps
    BY QueueJobAssumption DEF Init
  <2> QED BY <2>1, <2>2, <2>3, <2>4, <2>5 DEF Init, TypeOK
<1>3. \A c \in Channels : chan[c].queue = {} /\ chan[c].running = {} /\ BusyIn(c) = {}
  BY <1>1 DEF Init, Emptied, BusyIn
<1>4. Pictured
  BY <1>3, PathType DEF Pictured, Consistent, Init
<1>5. Counted
  <2>1. \A c \in Channels : /\ Cardinality(chan[c].running) = 0 /\ Cardinality(BusyIn(c)) = 0
                            /\ Capacity[c] \in Nat
    BY <1>3, FS_EmptySet, QueueJobAssumption
  <2> QED BY <2>1 DEF Counted
<1>6. Locked
  BY DEF Init, Locked
<1> QED BY <1>2, <1>4, <1>5, <1>6 DEF Inv

\* Every step of the runner, the workers, the user and time keeps it.
LEMMA StepInv == Inv /\ [Next]_vars => Inv'
<1> SUFFICES ASSUME Inv, [Next]_vars PROVE Inv'
  OBVIOUS
<1>1. CASE RunnerStep \/ close_databases
  BY <1>1, RestartInv, RequeueDeadInv, NotificationInv, GetJobsInv, RunJobsInv DEF RunnerStep
<1>2. CASE requestLost \/ \E j \in Jobs : UserStep(j) \/ ages(j) \/ etaPasses(j)
  BY <1>2, TimeInv, UserInv
<1>3. ASSUME NEW w \in Workers, acquire_job(w) \/ WorkerStep(w) \/ WorkerFault(w) PROVE Inv'
  BY <1>3, AcquireInv, LockInv, PerformInv, EndInv, CrashInv DEF WorkerStep, WorkerFault
<1>4. CASE UNCHANGED vars
  <2>1. TypeOK /\ UNCHANGED <<row, notifies, chan, stale, runner, requests, work, faults, userSteps>>
    BY <1>4 DEF vars, Inv
  <2> QED BY <2>1, RowsStep, Types DEF Busy
<1> QED BY <1>1, <1>2, <1>3, <1>4 DEF Next

\* The picture, the locks and the counts hold in every reachable state.
THEOREM Invariance == Spec => []Inv
<1>1. Init => Inv
  BY InitInv
<1>2. Inv /\ [Next]_vars => Inv'
  BY StepInv
<1> QED BY <1>1, <1>2, PTL DEF Spec

\* The types of the table, the channels and the workers (job.py, channels.py).
THEOREM TypesCorrect == Spec => []TypeOK
<1>1. Inv => TypeOK
  BY DEF Inv
<1> QED BY <1>1, Invariance, PTL

\* No job is performed by two workers at a time: the row lock of Job.lock and
\* the started state of _acquire_job exclude it for any number of workers.
THEOREM PerformersExclude == Spec => []OneWorkerPerforms
<1>1. Inv => OneWorkerPerforms
  BY DEF Inv, Locked, OneWorkerPerforms
<1> QED BY <1>1, Invariance, PTL

\* No channel has more jobs performed than its capacity (has_capacity of
\* channels.py), for any tree of channels, any queue and any crashes.
THEOREM CapacityIsRespected == Spec => []CapacityRespected
<1>1. ASSUME Inv PROVE CapacityRespected
  <2> SUFFICES ASSUME NEW c \in Channels, Capacity[c] # 0
               PROVE  Cardinality({j \in Performed : c \in Path(j)}) <= Capacity[c]
    BY DEF CapacityRespected
  <2> DEFINE B == BusyIn(c)
             P == {j \in Performed : c \in Path(j)}
  <2>1. P \in SUBSET B /\ B \in SUBSET Jobs
    <3>1. \A j \in Performed : j \in Jobs /\ Busy(j)
      <4> SUFFICES ASSUME NEW j \in Performed PROVE j \in Jobs /\ Busy(j)
        OBVIOUS
      <4>1. PICK w \in Workers : work[w] = [pc |-> "performing", job |-> j]
        BY DEF Performed
      <4>2. work[w].pc = "performing" /\ work[w].job = j
        BY <4>1
      <4> QED BY <1>1, <4>2 DEF Inv, Locked, Busy
    <3> QED BY <3>1 DEF BusyIn
  <2>2. Cardinality(B) <= Capacity[c] /\ Capacity[c] \in Nat
    BY <1>1, QueueJobAssumption DEF Inv, Counted
  <2> HIDE DEF B, P
  <2>3. Cardinality(B) \in Nat /\ Cardinality(P) \in Nat /\ Cardinality(P) <= Cardinality(B)
    BY <2>1, JobSets, Zenon
  <2>4. Cardinality(P) <= Capacity[c]
    BY <2>2, <2>3
  <2> QED BY <2>4 DEF P
<1> QED BY <1>1, Invariance, PTL

-----------------------------------------------------------------------------
(* Sequential channels: what the runner knows once it has read all its mail. *)

\* A pending job is queued or passed on by its channel, a failed one blocks it.
AtHome(s, ch, j) ==
    /\ s = "pending" => j \in ch[ChannelOf[j]].queue \cup ch[ChannelOf[j]].running
    /\ s = "failed"  => j \in ch[ChannelOf[j]].failed

\* Where a job is that no notification is under way for.
Placed == runner # "init" => \A j \in Jobs \ notifies : AtHome(row[j].state, chan, j)

\* The jobs other than j are where they were.
OthersStay(ch, new, j) ==
    \A c \in Channels, i \in Jobs : i # j =>
        /\ i \in new[c].queue   <=> i \in ch[c].queue
        /\ i \in new[c].running <=> i \in ch[c].running
        /\ i \in new[c].failed  <=> i \in ch[c].failed

\* A removal moves one job only.
LEMMA RemovedAlone ==
    ASSUME NEW ch \in Pictures, NEW cs \in SUBSET Channels, NEW j \in Jobs
    PROVE  Removed(ch, cs, j) \in Pictures /\ OthersStay(ch, Removed(ch, cs, j), j)
BY DEF Removed, Pictures, Records, OthersStay

\* Each of the four operations moves one job only, set_pending and set_failed
\* to where its channel looks for it.
LEMMA MovesAlone ==
    ASSUME NEW ch \in Pictures, NEW j \in Jobs
    PROVE  /\ OthersStay(ch, set_done(ch, j), j)
           /\ OthersStay(ch, set_pending(ch, j), j) /\ AtHome("pending", set_pending(ch, j), j)
           /\ OthersStay(ch, set_failed(ch, j), j) /\ AtHome("failed", set_failed(ch, j), j)
           /\ OthersStay(ch, set_running(ch, j), j)
<1> DEFINE o == ChannelOf[j]
           off == Removed(ch, Path(j), j)
<1>1. o \in Channels /\ Path(j) \in SUBSET Channels
  BY PathType
<1>2. off \in Pictures /\ OthersStay(ch, off, j)
  <2>1. PICK cs \in SUBSET Channels : cs = Path(j)
    BY <1>1
  <2>2. Removed(ch, cs, j) \in Pictures /\ OthersStay(ch, Removed(ch, cs, j), j)
    BY RemovedAlone
  <2> QED BY <2>1, <2>2
<1>3. OthersStay(ch, ch, j)
  BY DEF OthersStay
<1>4. OthersStay(ch, set_done(ch, j), j)
  BY <1>2 DEF set_done
<1>5. OthersStay(ch, set_pending(ch, j), j) /\ AtHome("pending", set_pending(ch, j), j)
  <2>1. CASE j \in ch[o].queue
    BY <1>3, <2>1 DEF set_pending, AtHome
  <2>2. CASE j \notin ch[o].queue
    <3>1. set_pending(ch, j) = [off EXCEPT ![o].queue = @ \cup {j}]
      BY <2>2 DEF set_pending
    <3> HIDE DEF off, o
    <3>2. /\ [off EXCEPT ![o].queue = @ \cup {j}][o].queue = off[o].queue \cup {j}
          /\ OthersStay(ch, [off EXCEPT ![o].queue = @ \cup {j}], j)
      BY <1>1, <1>2 DEF Pictures, Records, OthersStay
    <3> QED BY <3>1, <3>2 DEF AtHome, o
  <2> QED BY <2>1, <2>2
<1>6. OthersStay(ch, set_failed(ch, j), j) /\ AtHome("failed", set_failed(ch, j), j)
  <2>1. CASE j \in ch[o].failed
    BY <1>3, <2>1 DEF set_failed, AtHome
  <2>2. CASE j \notin ch[o].failed
    <3>1. set_failed(ch, j) = [off EXCEPT ![o].failed = @ \cup {j}]
      BY <2>2 DEF set_failed
    <3> HIDE DEF off, o
    <3>2. /\ [off EXCEPT ![o].failed = @ \cup {j}][o].failed = off[o].failed \cup {j}
          /\ OthersStay(ch, [off EXCEPT ![o].failed = @ \cup {j}], j)
      BY <1>1, <1>2 DEF Pictures, Records, OthersStay
    <3> QED BY <3>1, <3>2 DEF AtHome, o
  <2> QED BY <2>1, <2>2
<1>7. OthersStay(ch, set_running(ch, j), j)
  <2>1. PICK cs \in SUBSET Channels :
          set_running(ch, j) = [d \in Channels |->
             IF d \in cs THEN [Removed(ch, cs, j)[d] EXCEPT !.running = @ \cup {j}] ELSE ch[d]]
    <3> DEFINE ds == IF j \in ch[o].running THEN {} ELSE IF j \in ch[Root].running THEN {o} ELSE Path(j)
    <3>1. ds \in SUBSET Channels
      BY <1>1
    <3>2. set_running(ch, j) = [d \in Channels |->
             IF d \in ds THEN [Removed(ch, ds, j)[d] EXCEPT !.running = @ \cup {j}] ELSE ch[d]]
      BY DEF set_running
    <3> HIDE DEF ds
    <3> QED BY <3>1, <3>2
  <2>2. PICK r \in Pictures : r = Removed(ch, cs, j) /\ OthersStay(ch, r, j)
    BY RemovedAlone
  <2>3. set_running(ch, j) = [d \in Channels |->
             IF d \in cs THEN [r[d] EXCEPT !.running = @ \cup {j}] ELSE ch[d]]
    BY <2>1, <2>2
  <2> QED BY <2>2, <2>3 DEF Pictures, Records, OthersStay
<1> QED BY <1>4, <1>5, <1>6, <1>7

\* A notification puts its job where its channel looks for it.
LEMMA NotifyHome ==
    ASSUME NEW ch \in Pictures, NEW j \in Jobs, Consistent(ch), row[j].state \in States
    PROVE  OthersStay(ch, notify(ch, j), j) /\ AtHome(row[j].state, notify(ch, j), j)
<1>1. PICK old : old = IF j \in stale THEN set_done(ch, j) ELSE ch
  OBVIOUS
<1>2. old \in Pictures /\ OthersStay(ch, old, j)
  <2>1. CASE j \in stale
    BY <1>1, <2>1, DonePlaces, MovesAlone
  <2>2. CASE j \notin stale
    BY <1>1, <2>2 DEF OthersStay
  <2> QED BY <2>1, <2>2
<1>3. PICK new : new = notify(ch, j)
  OBVIOUS
<1>4. /\ row[j].state \in {"done", "cancelled"} => new = set_done(old, j)
      /\ row[j].state = "pending" => new = set_pending(old, j)
      /\ row[j].state \in {"enqueued", "started"} => new = set_running(old, j)
      /\ row[j].state = "failed" => new = set_failed(old, j)
      /\ row[j].state = "wait" => new = old
  BY <1>1, <1>3 DEF notify
<1>5. OthersStay(old, new, j) /\ AtHome(row[j].state, new, j)
  <2>1. /\ OthersStay(old, set_done(old, j), j)
        /\ OthersStay(old, set_pending(old, j), j) /\ AtHome("pending", set_pending(old, j), j)
        /\ OthersStay(old, set_failed(old, j), j) /\ AtHome("failed", set_failed(old, j), j)
        /\ OthersStay(old, set_running(old, j), j)
    BY <1>2, MovesAlone
  <2>2. row[j].state \notin {"pending", "failed"} => AtHome(row[j].state, new, j)
    BY DEF AtHome
  <2>3. OthersStay(old, old, j)
    BY DEF OthersStay
  <2> QED BY <1>4, <2>1, <2>2, <2>3 DEF States
<1>6. OthersStay(ch, new, j)
  BY <1>2, <1>5 DEF OthersStay
<1> QED BY <1>3, <1>5, <1>6

\* A picture built from the table has every job at home.
LEMMA RebuiltHome ==
    ASSUME TypeOK, NEW j \in Jobs
    PROVE  AtHome(row[j].state, Rebuilt, j)
<1> DEFINE Known == {i \in Jobs : row[i].state \in NOT_DONE}
           all == {notify(Emptied, i) : i \in Known}
           o == ChannelOf[j]
<1>1. o \in Channels /\ row[j].state \in States
  BY PathType DEF TypeOK
<1>2. CASE row[j].state \in {"pending", "failed"}
  <2>1. Emptied \in Pictures /\ Consistent(Emptied)
    BY PathType DEF Emptied, Pictures, Records, Consistent
  <2>2. PICK ch : ch = notify(Emptied, j)
    OBVIOUS
  <2>3. AtHome(row[j].state, ch, j)
    BY <1>1, <2>1, <2>2, NotifyHome, Zenon
  <2>4. ch \in all
    BY <1>2, <2>2 DEF NOT_DONE
  <2>5. /\ Rebuilt[o].queue = UNION {p[o].queue : p \in all}
        /\ Rebuilt[o].running = UNION {p[o].running : p \in all}
        /\ Rebuilt[o].failed = UNION {p[o].failed : p \in all}
    BY <1>1 DEF Rebuilt
  <2> HIDE DEF all
  <2>6. /\ ch[o].queue \subseteq Rebuilt[o].queue /\ ch[o].running \subseteq Rebuilt[o].running
        /\ ch[o].failed \subseteq Rebuilt[o].failed
    BY <2>4, <2>5
  <2> QED BY <2>3, <2>6 DEF AtHome
<1>3. CASE row[j].state \notin {"pending", "failed"}
  BY <1>3 DEF AtHome
<1> QED BY <1>2, <1>3

\* Every change of a job's state, by a worker, the dead-job query or a button,
\* is notified while the runner listens, and no notification is dropped.
Tells == /\ UNCHANGED chan /\ notifies \subseteq notifies'
         /\ \A j \in Jobs : row'[j].state = row[j].state \/ j \in notifies'

\* A step that tells the runner keeps the jobs it is not told of at home.
LEMMA TellsPlaced ==
    ASSUME Placed, Tells, runner # "init"
    PROVE  Placed'
BY DEF Placed, Tells, AtHome

\* A worker tells.
LEMMA WorkerTells ==
    ASSUME Inv, runner # "init", NEW w \in Workers,
           acquire_job(w) \/ WorkerStep(w) \/ WorkerFault(w)
    PROVE  Tells
<1> DEFINE j == work[w].job
<1>1. TypeOK /\ Locked /\ row \in [Jobs -> Row] /\ UNCHANGED chan
  BY Types DEF Inv, WorkerStep, WorkerFault, acquire_job, lock, performDone, performRetry,
              performConflict, performFails, rollback, enqueue_dependent_jobs, workerCrash
<1>2. CASE acquire_job(w)
  <2>1. PICK i \in Jobs : \/ row' = [row EXCEPT ![i].state = "started"] /\ Notified({i})
                          \/ UNCHANGED <<row, notifies>>
    BY <1>2 DEF acquire_job
  <2> QED BY <1>1, <2>1 DEF Tells, Notified
<1>3. CASE lock(w) \/ rollback(w) \/ workerCrash(w)
  <2>1. UNCHANGED notifies
    BY <1>3 DEF lock, rollback, workerCrash
  <2>2. \A i \in Jobs : row'[i].state = row[i].state
    BY <1>1, <1>3 DEF lock, rollback, workerCrash, Row
  <2> QED BY <1>1, <2>1, <2>2 DEF Tells
<1>4. ASSUME Notified({j}), \A i \in Jobs : i # j => row'[i] = row[i] PROVE Tells
  BY <1>1, <1>4 DEF Tells, Notified
<1>5. CASE performDone(w)
  BY <1>1, <1>4, <1>5 DEF performDone
<1>6. ASSUME NEW r, Postpone(w, r) PROVE Tells
  BY <1>1, <1>4, <1>6 DEF Postpone
<1>7. CASE performRetry(w)
  BY <1>1, <1>4, <1>6, <1>7 DEF performRetry
<1>8. CASE performConflict(w)
  BY <1>6, <1>8 DEF performConflict
<1>9. CASE performFails(w)
  BY <1>1, <1>4, <1>9 DEF performFails
<1>10. CASE enqueue_dependent_jobs(w)
  <2>1. row' = WithDependents(row, j, "done", "pending") /\ Notified(Dependents(row, j, "done"))
    BY <1>10 DEF enqueue_dependent_jobs
  <2> HIDE DEF j
  <2> QED BY <1>1, <2>1 DEF Tells, Notified, WithDependents
<1> QED BY <1>2, <1>3, <1>5, <1>7, <1>8, <1>9, <1>10 DEF WorkerStep, WorkerFault

\* So do the user's buttons and the dead-job query; time changes no state.
LEMMA TableTells ==
    ASSUME Inv, runner # "init",
           \/ requeue_dead_jobs \/ wait_notification \/ requestLost
           \/ \E j \in Jobs : UserStep(j) \/ ages(j) \/ etaPasses(j)
    PROVE  Tells
<1>1. row \in [Jobs -> Row]
  BY Types DEF Inv
<1>2. UNCHANGED chan
  BY DEF requeue_dead_jobs, wait_notification, requestLost, UserStep, button_done,
         button_cancelled, requeue, ages, etaPasses
<1>3. CASE requeue_dead_jobs
  BY <1>1, <1>2, <1>3 DEF requeue_dead_jobs, Notified, Tells
<1>4. CASE wait_notification \/ requestLost
  BY <1>2, <1>4 DEF wait_notification, requestLost, Tells
<1>5. ASSUME NEW j \in Jobs, ages(j) \/ etaPasses(j) PROVE Tells
  <2>1. /\ row' = [row EXCEPT ![j].aged = TRUE] \/ row' = [row EXCEPT ![j].eta = "past"]
        /\ UNCHANGED notifies
    BY <1>5 DEF ages, etaPasses
  <2>2. \A i \in Jobs : row'[i].state = row[i].state
    BY <1>1, <2>1 DEF Row
  <2> QED BY <1>2, <2>1, <2>2 DEF Tells
<1>6. ASSUME NEW j \in Jobs, requeue(j) PROVE Tells
  <2>1. Notified({j}) /\ \A i \in Jobs : i # j => row'[i] = row[i]
    BY <1>1, <1>6 DEF requeue
  <2> QED BY <1>2, <2>1 DEF Tells, Notified
<1>7. ASSUME NEW j \in Jobs, NEW s, NEW to,
             row' = WithDependents([row EXCEPT ![j].state = s], j, s, to),
             Notified({j} \cup Dependents([row EXCEPT ![j].state = s], j, s))
      PROVE  Tells
  <2>1. PICK rows : rows = [row EXCEPT ![j].state = s]
    OBVIOUS
  <2>2. \A i \in Jobs : i # j => rows[i] = row[i]
    BY <1>1, <2>1
  <2>3. row' = WithDependents(rows, j, s, to) /\ Notified({j} \cup Dependents(rows, j, s))
    BY <1>7, <2>1
  <2> QED BY <1>2, <2>2, <2>3 DEF Tells, Notified, WithDependents
<1>8. ASSUME NEW j \in Jobs, button_done(j) \/ button_cancelled(j) PROVE Tells
  BY <1>7, <1>8 DEF button_done, button_cancelled
<1> QED BY <1>3, <1>4, <1>5, <1>6, <1>8 DEF UserStep

\* A notification handled brings its job home and leaves the others there.
LEMMA NotificationPlaced ==
    ASSUME Inv, Placed, process_notification
    PROVE  Placed'
<1>1. /\ TypeOK /\ chan \in Pictures /\ Consistent(chan) /\ runner # "init" /\ UNCHANGED row
      /\ notifies \in SUBSET Jobs
  BY Types DEF Inv, Pictured, process_notification
<1>2. PICK j \in notifies : notifies' = notifies \ {j} /\ chan' = notify(chan, j)
  BY DEF process_notification
<1>3. j \in Jobs /\ row[j].state \in States
  BY <1>1 DEF TypeOK
<1>4. OthersStay(chan, chan', j) /\ AtHome(row[j].state, chan', j)
  BY <1>1, <1>2, <1>3, NotifyHome
<1> SUFFICES ASSUME NEW i \in Jobs \ notifies' PROVE AtHome(row[i].state, chan', i)
  BY <1>1 DEF Placed, AtHome
<1>5. CASE i = j
  BY <1>4, <1>5
<1>6. CASE i # j
  <2>1. AtHome(row[i].state, chan, i)
    BY <1>1, <1>2, <1>6 DEF Placed
  <2>2. ChannelOf[i] \in Channels
    BY PathType
  <2> QED BY <1>4, <1>6, <2>1, <2>2 DEF AtHome, OthersStay
<1> QED BY <1>5, <1>6

\* What get_jobs_to_run does with the picture.
LEMMA PassedOn ==
    ASSUME TypeOK, get_jobs_to_run, NEW c \in Channels
    PROVE  /\ chan'[c].failed = chan[c].failed
           /\ c = Root  => /\ chan'[c].running = chan[c].running
                           /\ chan[c].queue \subseteq chan'[c].queue
           /\ c # Root => /\ chan'[c].running = chan[c].running \cup Yielded(chan, c)
                          /\ chan'[c].queue = chan[c].queue \ Yielded(chan, c)
<1>1. PICK up : chan' = [d \in Channels |->
                 IF d = Root THEN [chan[d] EXCEPT !.queue = @ \cup up]
                 ELSE [chan[d] EXCEPT !.queue = @ \ Yielded(chan, d),
                                      !.running = @ \cup Yielded(chan, d)]]
  BY DEF get_jobs_to_run
<1>2. chan[c] \in Records
  BY Types DEF Pictures
<1>3. CASE c = Root
  <2>1. chan'[c] = [chan[c] EXCEPT !.queue = @ \cup up]
    BY <1>1, <1>3
  <2> QED BY <1>2, <1>3, <2>1 DEF Records
<1>4. CASE c # Root
  <2>1. PICK Y : Y = Yielded(chan, c)
    OBVIOUS
  <2>2. chan'[c] = [chan[c] EXCEPT !.queue = @ \ Y, !.running = @ \cup Y]
    BY <1>1, <1>4, <2>1
  <2>3. /\ chan'[c].failed = chan[c].failed
        /\ chan'[c].running = chan[c].running \cup Y /\ chan'[c].queue = chan[c].queue \ Y
    BY <1>2, <2>2 DEF Records
  <2> QED BY <1>4, <2>1, <2>3
<1> QED BY <1>3, <1>4

\* A job popped by the root leaves its queue for its running set.
LEMMA RunPlaced ==
    ASSUME Inv, Placed, run_jobs
    PROVE  Placed'
<1>1. TypeOK /\ chan \in Pictures /\ runner # "init" /\ row \in [Jobs -> Row] /\ Root \in Channels
  BY Types, QueueJobAssumption DEF Inv, run_jobs
<1>2. CASE UNCHANGED <<chan, row, requests, notifies>>
  BY <1>1, <1>2 DEF Placed, AtHome
<1>3. ASSUME NEW j \in Next1(chan), set_job_enqueued(j),
             chan' = [chan EXCEPT ![Root].queue = @ \ {j}, ![Root].running = @ \cup {j}]
      PROVE  Placed'
  <2>1. /\ notifies' = notifies \cup {j}
        /\ row' = [row EXCEPT ![j].state = "enqueued", ![j].aged = FALSE]
    BY <1>1, <1>3 DEF set_job_enqueued, Notified
  <2>2. \A i \in Jobs : i # j => row'[i] = row[i]
    BY <1>1, <2>1
  <2>3. \A c \in Channels, i \in Jobs : i # j =>
          /\ i \in chan[c].queue \cup chan[c].running => i \in chan'[c].queue \cup chan'[c].running
          /\ i \in chan[c].failed => i \in chan'[c].failed
    BY <1>1, <1>3 DEF Pictures, Records
  <2> SUFFICES ASSUME NEW i \in Jobs \ notifies' PROVE AtHome(row'[i].state, chan', i)
    BY DEF Placed, AtHome
  <2>4. i # j /\ i \in Jobs \ notifies /\ ChannelOf[i] \in Channels
    BY <2>1, PathType
  <2>5. AtHome(row[i].state, chan, i) /\ row'[i] = row[i]
    BY <1>1, <2>2, <2>4 DEF Placed
  <2> QED BY <2>3, <2>4, <2>5 DEF AtHome
<1> QED BY <1>2, <1>3 DEF run_jobs

\* Every step keeps the jobs the runner has heard all about at home.
LEMMA StepPlaced == Inv /\ Placed /\ [Next]_vars => Placed'
<1> SUFFICES ASSUME Inv, Placed, [Next]_vars PROVE Placed'
  OBVIOUS
<1>1. CASE initialize_databases
  <2>1. chan' = Rebuilt /\ UNCHANGED row /\ TypeOK
    BY <1>1 DEF initialize_databases, Inv
  <2>2. \A j \in Jobs : AtHome(row[j].state, Rebuilt, j)
    BY <2>1, RebuiltHome
  <2>3. \A j \in Jobs : AtHome(row'[j].state, chan', j)
    BY <2>1, <2>2, Zenon
  <2> QED BY <2>3 DEF Placed, AtHome
<1>2. CASE close_databases
  BY <1>2 DEF close_databases, Placed
<1>3. CASE runner = "init" /\ ~initialize_databases
  <2>1. runner' = "init"
    BY <1>3 DEF Next, vars, RunnerStep, requeue_dead_jobs, process_notification, get_jobs_to_run,
         run_jobs, wait_notification, close_databases, requestLost, acquire_job, WorkerStep, lock,
         performDone, rollback, enqueue_dependent_jobs, WorkerFault, performRetry, performConflict,
         performFails, workerCrash, UserStep, button_done, button_cancelled, requeue, ages, etaPasses
  <2> QED BY <2>1 DEF Placed
<1>4. CASE process_notification
  BY <1>4, NotificationPlaced
<1>5. CASE get_jobs_to_run
  <2>1. TypeOK /\ runner # "init" /\ UNCHANGED <<row, notifies>>
    BY <1>5 DEF Inv, get_jobs_to_run
  <2> SUFFICES ASSUME NEW j \in Jobs \ notifies PROVE AtHome(row[j].state, chan', j)
    BY <2>1 DEF Placed, AtHome
  <2>2. AtHome(row[j].state, chan, j)
    BY <2>1 DEF Placed
  <2>3. PICK o \in Channels : o = ChannelOf[j]
    BY PathType
  <2>4. /\ chan'[o].failed = chan[o].failed
        /\ chan[o].queue \cup chan[o].running \subseteq chan'[o].queue \cup chan'[o].running
    BY <1>5, <2>1, PassedOn
  <2> QED BY <2>2, <2>3, <2>4 DEF AtHome
<1>6. CASE run_jobs
  BY <1>6, RunPlaced
<1>7. CASE runner # "init" /\ (requeue_dead_jobs \/ wait_notification \/ requestLost
                               \/ \E j \in Jobs : UserStep(j) \/ ages(j) \/ etaPasses(j))
  BY <1>7, TableTells, TellsPlaced
<1>8. ASSUME runner # "init", NEW w \in Workers, acquire_job(w) \/ WorkerStep(w) \/ WorkerFault(w)
      PROVE  Placed'
  BY <1>8, WorkerTells, TellsPlaced
<1>9. CASE UNCHANGED vars
  BY <1>9 DEF vars, Placed, AtHome
<1> QED BY <1>1, <1>2, <1>3, <1>4, <1>5, <1>6, <1>7, <1>8, <1>9 DEF Next, RunnerStep

\* What a sequential channel other than the root passes on has nothing unfinished before it:
\* its running set is empty, no failed job blocks it, and a predecessor that is pending
\* would be queued there and either come first or hold the job back by its eta.
LEMMA YieldedFirst ==
    ASSUME Inv, Placed, runner # "init", notifies = {}, NEW c \in Sequential,
           NEW j \in Yielded(chan, c), NEW i \in Jobs, ChannelOf[i] = c, Before(i, j)
    PROVE  row[i].state \in {"done", "cancelled", "wait"}
<1>1. /\ c \in Channels /\ Capacity[c] = 1 /\ chan[c] \in Records /\ row[i].state \in States
      /\ TypeOK
  BY Types, QueueJobAssumption, SequentialAssumption DEF Inv, Pictures, TypeOK
<1> DEFINE R == chan[c].running
           A == {k \in Ready(chan, c) : Before(k, j)}
<1>2. /\ chan[c].failed = {} /\ ~HeldBack(chan, c, j)
      /\ Cardinality(R) + Cardinality(A) < 1
  BY <1>1 DEF Yielded, has_capacity
<1>3. R \in SUBSET Jobs /\ A \in SUBSET Jobs
  BY <1>1 DEF Records, Ready
<1> HIDE DEF R, A
<1>4. /\ IsFiniteSet(R) /\ Cardinality(R) \in Nat /\ IsFiniteSet(A) /\ Cardinality(A) \in Nat
  BY <1>3, JobSets, Zenon
<1>5. Cardinality(R) = 0 /\ Cardinality(A) = 0
  BY <1>2, <1>4
<1>6. R = {} /\ A = {}
  BY <1>4, <1>5, FS_EmptySet, Zenon
<1>7. row[i].state # "failed"
  BY <1>2 DEF Placed, AtHome
<1>8. ~Busy(i)
  <2>1. c \in Path(i) /\ BusyIn(c) \subseteq chan[c].running
    BY <1>1, PathType DEF Inv, Pictured
  <2> QED BY <1>6, <2>1 DEF BusyIn, R
<1>9. row[i].state # "pending"
  <2> SUFFICES ASSUME row[i].state = "pending" PROVE FALSE
    OBVIOUS
  <2>1. i \in chan[c].queue
    BY <1>6 DEF Placed, AtHome, R
  <2>2. CASE row[i].eta = "future"
    BY <1>2, <2>1, <2>2 DEF HeldBack
  <2>3. CASE row[i].eta # "future"
    BY <1>6, <2>1, <2>3 DEF A, Ready
  <2> QED BY <2>2, <2>3
<1> QED BY <1>1, <1>7, <1>8, <1>9 DEF States, Busy

\* A job that is pending moves from a channel's queue to its running set only when the
\* channel passes it on: in get_jobs_to_run, or in run_jobs for the root.
LEMMA MovesWhenPassedOn ==
    ASSUME Inv, [Next]_vars, NEW c \in Channels, c # Root, NEW j \in Jobs,
           j \in chan[c].queue, j \in chan'[c].running, row[j].state = "pending"
    PROVE  get_jobs_to_run /\ j \in Yielded(chan, c)
<1>1. /\ TypeOK /\ chan \in Pictures /\ Consistent(chan) /\ runner # "init"
      /\ j \notin chan[c].running
  BY Types DEF Inv, Pictured, Consistent, Emptied
<1>2. CASE UNCHANGED chan
  BY <1>1, <1>2
<1>3. CASE initialize_databases
  BY <1>1, <1>3 DEF initialize_databases
<1>4. CASE close_databases
  BY <1>4 DEF close_databases, Emptied
<1>5. CASE process_notification
  <2>1. PICK k \in notifies : chan' = notify(chan, k)
    BY <1>5 DEF process_notification
  <2>2. k \in Jobs
    BY <1>1, <2>1, Types
  <2>3. notify(chan, k)[c].running \subseteq chan[c].running
    BY <1>1, <2>2, NotifyPlaces DEF Inv
  <2> QED BY <1>1, <2>1, <2>3
<1>6. CASE get_jobs_to_run
  BY <1>1, <1>6, PassedOn
<1>7. CASE run_jobs
  <2>1. chan'[c] = chan[c]
    BY <1>1, <1>7 DEF run_jobs, Pictures
  <2> QED BY <1>1, <2>1
<1>8. \/ UNCHANGED chan \/ initialize_databases \/ close_databases \/ process_notification
      \/ get_jobs_to_run \/ run_jobs
  BY DEF Next, vars, RunnerStep, requeue_dead_jobs, wait_notification, requestLost, acquire_job,
         WorkerStep, lock, performDone, rollback, enqueue_dependent_jobs, WorkerFault, performRetry,
         performConflict, performFails, workerCrash, UserStep, button_done, button_cancelled,
         requeue, ages, etaPasses
<1> QED BY <1>2, <1>3, <1>4, <1>5, <1>6, <1>7, <1>8

\* A sequential channel below the root keeps its order (ChannelQueue and get_jobs_to_run of
\* channels.py) for any jobs, workers and crashes.  The root is left out: run_jobs empties it
\* job by job, without reading the notifications that arrive meanwhile.
THEOREM SequentialKept == ASSUME Root \notin Sequential PROVE Spec => SequentialOrder
<1> DEFINE Ordered ==
      \A i, j \in Jobs : \A c \in Sequential :
         (/\ ChannelOf[i] = c /\ Before(i, j)
          /\ j \in chan[c].queue \cap chan'[c].running /\ row[j].state = "pending")
         => row[i].state \in {"done", "cancelled", "wait"}
<1>1. Init => Placed
  BY DEF Init, Placed
<1>2. Inv /\ Placed /\ [Next]_vars => Placed'
  BY StepPlaced
<1>3. Inv /\ Placed /\ [Next]_vars => [Ordered]_vars
  <2> SUFFICES ASSUME Inv, Placed, [Next]_vars, NEW i \in Jobs, NEW j \in Jobs, NEW c \in Sequential,
                      ChannelOf[i] = c, Before(i, j), j \in chan[c].queue, j \in chan'[c].running,
                      row[j].state = "pending"
               PROVE  row[i].state \in {"done", "cancelled", "wait"}
    OBVIOUS
  <2>1. c \in Channels /\ c # Root
    BY QueueJobAssumption
  <2>2. get_jobs_to_run /\ j \in Yielded(chan, c)
    BY <2>1, MovesWhenPassedOn, Zenon
  <2>3. runner # "init" /\ notifies = {}
    BY <2>2 DEF get_jobs_to_run
  <2> QED BY <2>2, <2>3, YieldedFirst, Zenon
<1>4. Spec => [][Ordered]_vars
  <2> HIDE DEF Ordered
  <2> QED BY <1>1, <1>2, <1>3, Invariance, PTL DEF Spec
<1> QED BY <1>4 DEF SequentialOrder

=============================================================================
