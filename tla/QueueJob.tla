------------------------------ MODULE QueueJob ------------------------------
(***************************************************************************)
(* The background jobs of the crose server (crose/queue_job): the rows of  *)
(* queue_job in PostgreSQL, the single runner process that schedules them  *)
(* through a tree of channels, the HTTP workers that run them, and the     *)
(* user who cancels, closes and requeues them by hand.                     *)
(*                                                                         *)
(* The runner keeps its own picture of the table (chan) and brings it up   *)
(* to date only from notifications, so everything it decides is decided    *)
(* on a possibly stale picture.  One SQL statement is one step here, and   *)
(* a transaction that writes one row is one step; what a worker commits    *)
(* separately (started, then the lock, then done, then the dependents)     *)
(* are separate steps with everything else in between.                     *)
(*                                                                         *)
(* A job's eta is "none", in the "future" or "past"; a row is aged when    *)
(* its date_enqueued is more than the 10 seconds of the dead-job query     *)
(* ago.  Channels are the root and its direct children; no throttle.       *)
(***************************************************************************)
EXTENDS Integers, FiniteSets, FiniteSetsExt

CONSTANTS Jobs, Workers, None,
          Channels, Root,  \* the channel names, and the root's
          ChannelOf,       \* the channel of a job
          Capacity,        \* of a channel; 0 is unlimited
          Sequential,      \* the channels configured sequential
          Rank,            \* sorting_key_ignoring_eta of a job, as a number
          Parents,         \* depends_on of a job
          MaxRetries,      \* max_retries of every job; 0 retries for ever
          MaxRequests,     \* bound: requests for one job on their way
          MaxFaults,       \* bound: crashes, losses, failures
          MaxUserSteps     \* bound: buttons the user presses

ASSUME QueueJobAssumption ==
    /\ IsFiniteSet(Jobs) /\ None \notin Workers \cup Jobs
    /\ Root \in Channels /\ ChannelOf \in [Jobs -> Channels]
    /\ Capacity \in [Channels -> Nat] /\ Sequential \subseteq Channels
    /\ Parents \in [Jobs -> SUBSET Jobs]
    /\ MaxRetries \in Nat /\ MaxFaults \in Nat /\ MaxUserSteps \in Nat
    /\ MaxRequests \in Nat \ {0}

\* The heap pops one job at a time, so no two come at the same place.
ASSUME RankAssumption ==
    /\ Rank \in [Jobs -> Nat]
    /\ \A i, j \in Jobs : Rank[i] = Rank[j] => i = j

\* configure() refuses a sequential channel of another capacity than 1.
ASSUME SequentialAssumption == \A c \in Sequential : Capacity[c] = 1

VARIABLES row,       \* the table queue_job and, in holder, queue_job_lock
          notifies,  \* uuids notified to the runner's connection
          chan,      \* the channels: queue, running, failed
          stale,     \* jobs whose eta is no longer the one their ChannelJob has
          runner,    \* where the runner is in run()
          requests,  \* HTTP requests for a job on their way to a worker
          work,      \* what every worker does, and for which job
          faults, userSteps

vars == <<row, notifies, chan, stale, runner, requests, work, faults, userSteps>>

States == {"wait", "pending", "enqueued", "started", "done", "cancelled", "failed"}

TypeOK ==
    /\ row \in [Jobs -> [state : States, retry : Nat, eta : {"none", "future", "past"},
                         aged : BOOLEAN, holder : Workers \cup {None}]]
    /\ notifies \subseteq Jobs /\ stale \subseteq Jobs
    /\ chan \in [Channels -> [queue : SUBSET Jobs, running : SUBSET Jobs,
                              failed : SUBSET Jobs]]
    /\ runner \in {"init", "requeue", "notify", "run", "wait"}
    /\ requests \in [Jobs -> 0 .. MaxRequests]
    /\ work \in [Workers -> [pc : {"idle", "acquired", "performing", "rollback", "done"},
                             job : Jobs \cup {None}]]
    /\ faults \in 0 .. MaxFaults /\ userSteps \in 0 .. MaxUserSteps

----------------------------------------------------------------------------
(* channels.py: the runner's picture. *)

Path(j) == {ChannelOf[j], Root}

Emptied == [c \in Channels |-> [queue |-> {}, running |-> {}, failed |-> {}]]

Removed(ch, cs, j) ==
    [c \in Channels |->
        IF c \in cs THEN [queue   |-> ch[c].queue \ {j},
                          running |-> ch[c].running \ {j},
                          failed  |-> ch[c].failed \ {j}]
                    ELSE ch[c]]

set_done(ch, j) == Removed(ch, Path(j), j)

set_pending(ch, j) ==
    LET c == ChannelOf[j]
    IN  IF j \in ch[c].queue THEN ch
        ELSE [Removed(ch, Path(j), j) EXCEPT ![c].queue = @ \cup {j}]

\* A faulty set_running, for a mutant: the parent is never told.
set_runningAlone(ch, j) ==
    LET c == ChannelOf[j]
    IN  [Removed(ch, {c}, j) EXCEPT ![c].running = @ \cup {j}]

\* A channel that has the job running already does not tell its parent.
set_running(ch, j) ==
    LET c  == ChannelOf[j]
        cs == IF j \in ch[c].running THEN {} ELSE
              IF j \in ch[Root].running THEN {c} ELSE Path(j)
        off == Removed(ch, cs, j)
    IN  [d \in Channels |->
            IF d \in cs THEN [off[d] EXCEPT !.running = @ \cup {j}] ELSE ch[d]]

set_failed(ch, j) ==
    LET c == ChannelOf[j]
    IN  IF j \in ch[c].failed THEN ch
        ELSE [Removed(ch, Path(j), j) EXCEPT ![c].failed = @ \cup {j}]

\* A faulty has_capacity, for a mutant: failed jobs do not block.
has_capacityIgnoresFailed(ch, c) ==
    Capacity[c] = 0 \/ Cardinality(ch[c].running) < Capacity[c]

has_capacity(ch, c) ==
    /\ ~(c \in Sequential /\ ch[c].failed # {})
    /\ Capacity[c] = 0 \/ Cardinality(ch[c].running) < Capacity[c]

Before(i, j) == Rank[i] < Rank[j]

Ready(ch, c) == {j \in ch[c].queue : row[j].eta # "future"}

\* A sequential queue waits for a job with an eta that comes first.
HeldBack(ch, c, j) ==
    c \in Sequential /\ \E i \in ch[c].queue : row[i].eta = "future" /\ Before(i, j)

\* The jobs a child channel yields in one go, while it has capacity.
Yielded(ch, c) ==
    {j \in Ready(ch, c) :
        /\ has_capacity(ch, c)
        /\ ~HeldBack(ch, c, j)
        /\ \/ Capacity[c] = 0
           \/ Cardinality(ch[c].running)
              + Cardinality({i \in Ready(ch, c) : Before(i, j)}) < Capacity[c]}

\* ChannelManager.notify: a job whose eta changed gets a new ChannelJob; a job
\* that waits for its parents is left where it is.
notify(ch, j) ==
    LET now == IF j \in stale THEN set_done(ch, j) ELSE ch
    IN  CASE row[j].state \in {"done", "cancelled"}   -> set_done(now, j)
          [] row[j].state = "pending"                 -> set_pending(now, j)
          [] row[j].state \in {"enqueued", "started"} -> set_running(now, j)
          [] row[j].state = "failed"                  -> set_failed(now, j)
          [] OTHER                                    -> now

----------------------------------------------------------------------------
(* job.py and the trigger of post_init_hook.py: changes of the table. *)

\* What the trigger sends reaches the runner only while it listens.
Notified(js) == notifies' = IF runner = "init" THEN {} ELSE notifies \cup js

AllParents(rows, j, s) == \A p \in Parents[j] : rows[p].state = s

Children(j) == {k \in Jobs : j \in Parents[k]}

\* _get_common_dependent_jobs_query: the waiting children of j, every parent of
\* which is in the state from, get the state to.
Dependents(rows, j, from) ==
    {k \in Children(j) : rows[k].state = "wait" /\ AllParents(rows, k, from)}

WithDependents(rows, j, from, to) ==
    [k \in Jobs |-> IF k \in Dependents(rows, j, from)
                    THEN [rows[k] EXCEPT !.state = to] ELSE rows[k]]

PendingState(j) == IF AllParents(row, j, "done") THEN "pending" ELSE "wait"

----------------------------------------------------------------------------
Init ==
    /\ row = [j \in Jobs |->
                [state |-> IF Parents[j] = {} THEN "pending" ELSE "wait",
                 retry |-> 0, eta |-> "none", aged |-> FALSE, holder |-> None]]
    /\ notifies = {} /\ stale = {}
    /\ chan = Emptied
    /\ runner = "init"
    /\ requests = [j \in Jobs |-> 0]
    /\ work = [w \in Workers |-> [pc |-> "idle", job |-> None]]
    /\ faults = 0 /\ userSteps = 0

----------------------------------------------------------------------------
(* runner.py: run(). *)

\* A faulty form, for a mutant: a job never started is not looked for.
DeadStarted == {j \in Jobs : row[j].state = "started" /\ row[j].aged /\ row[j].holder = None}

\* The states the runner reads back when it starts.
NOT_DONE == {"wait", "pending", "enqueued", "started", "failed"}

\* Every job not done is notified to an empty channel manager.  The order makes
\* no difference: each one only places itself.
Rebuilt ==
    LET placed == {notify(Emptied, j) : j \in {i \in Jobs : row[i].state \in NOT_DONE}}
    IN  [c \in Channels |-> [queue   |-> UNION {ch[c].queue : ch \in placed},
                            running |-> UNION {ch[c].running : ch \in placed},
                            failed  |-> UNION {ch[c].failed : ch \in placed}]]

\* LISTEN, then the picture is built.
initialize_databases ==
    /\ runner = "init"
    /\ runner' = "requeue"
    /\ chan' = Rebuilt
    /\ notifies' = {} /\ stale' = {}
    /\ UNCHANGED <<row, requests, work, faults, userSteps>>

Dead == {j \in Jobs : /\ row[j].state \in {"enqueued", "started"}
                      /\ row[j].aged
                      /\ row[j].holder = None}

\* One UPDATE; it tests the retry it then increments.
requeue_dead_jobs ==
    /\ runner = "requeue"
    /\ runner' = "notify"
    /\ row' = [j \in Jobs |->
                IF j \notin Dead THEN row[j]
                ELSE [row[j] EXCEPT
                        !.state = IF MaxRetries # 0 /\ row[j].retry > MaxRetries
                                  THEN "failed" ELSE "pending",
                        !.retry = IF row[j].state = "started" THEN @ + 1 ELSE @]]
    /\ Notified(Dead)
    /\ UNCHANGED <<chan, stale, requests, work, faults, userSteps>>

\* A notification only names the job; its row is read when it is handled.
process_notification ==
    /\ runner = "notify"
    /\ \E j \in notifies :
         /\ notifies' = notifies \ {j}
         /\ chan' = notify(chan, j)
         /\ stale' = stale \ {j}
    /\ UNCHANGED <<row, runner, requests, work, faults, userSteps>>

\* run_jobs asks the root for jobs; the root first empties its children, whose
\* jobs with an eta that has passed lose it (set_no_eta).
get_jobs_to_run ==
    /\ runner = "notify" /\ notifies = {}
    /\ runner' = "run"
    /\ LET up == UNION {Yielded(chan, c) : c \in Channels \ {Root}}
           popped == UNION {Ready(chan, c) : c \in {d \in Channels : has_capacity(chan, d)}}
       IN /\ chan' = [c \in Channels |->
                        IF c = Root THEN [chan[c] EXCEPT !.queue = @ \cup up]
                        ELSE [chan[c] EXCEPT !.queue   = @ \ Yielded(chan, c),
                                             !.running = @ \cup Yielded(chan, c)]]
          /\ stale' = stale \cup {j \in popped : row[j].eta = "past"}
    /\ UNCHANGED <<row, notifies, requests, work, faults, userSteps>>

\* What the root's queue pops next, if anything.
Next1(ch) == {j \in Ready(ch, Root) : /\ \A i \in Ready(ch, Root) : ~Before(i, j)
                                      /\ ~HeldBack(ch, Root, j)}

\* set_job_enqueued writes the state whatever it is now; the request follows.
set_job_enqueued(j) ==
    /\ row' = [row EXCEPT ![j].state = "enqueued", ![j].aged = FALSE]
    /\ requests' = [requests EXCEPT ![j] = Min({@ + 1, MaxRequests})]
    /\ Notified({j})

run_jobs ==
    /\ runner = "run"
    /\ IF has_capacity(chan, Root) /\ Next1(chan) # {}
       THEN /\ \E j \in Next1(chan) :
                 /\ chan' = [chan EXCEPT ![Root].queue   = @ \ {j},
                                         ![Root].running = @ \cup {j}]
                 /\ set_job_enqueued(j)
            /\ UNCHANGED runner
       ELSE runner' = "wait" /\ UNCHANGED <<chan, row, requests, notifies>>
    /\ UNCHANGED <<stale, work, faults, userSteps>>

\* A notification, an eta or the select timeout wakes the runner.
wait_notification ==
    /\ runner = "wait"
    /\ runner' = "requeue"
    /\ UNCHANGED <<row, notifies, chan, stale, requests, work, faults, userSteps>>

\* Any exception: the databases are closed, their jobs forgotten.
close_databases ==
    /\ runner # "init" /\ faults < MaxFaults
    /\ runner' = "init" /\ faults' = faults + 1
    /\ chan' = Emptied /\ notifies' = {} /\ stale' = {}
    /\ UNCHANGED <<row, requests, work, userSteps>>

----------------------------------------------------------------------------
(* controllers/main.py: a worker's request. *)

Goes(w, p, j) == work' = [work EXCEPT ![w] = [pc |-> p, job |-> j]]

\* _acquire_job up to its commit: the row must be enqueued.
acquire_job(w) ==
    /\ work[w].pc = "idle"
    /\ \E j \in Jobs :
         /\ requests[j] > 0
         /\ requests' = [requests EXCEPT ![j] = @ - 1]
         /\ IF row[j].state = "enqueued"
            THEN /\ row' = [row EXCEPT ![j].state = "started"]
                 /\ Notified({j})
                 /\ Goes(w, "acquired", j)
            ELSE UNCHANGED <<row, notifies, work>>
    /\ UNCHANGED <<chan, stale, runner, faults, userSteps>>

\* A faulty lock, for a mutant: the row lock is not looked at.
lockableUnchecked(j) == row[j].state = "started"

\* Job.lock: the row must still be started and nobody may hold its lock.
lockable(j) == row[j].state = "started" /\ row[j].holder = None

lock(w) ==
    /\ work[w].pc = "acquired"
    /\ LET j == work[w].job
       IN  IF lockable(j)
           THEN row' = [row EXCEPT ![j].holder = w] /\ Goes(w, "performing", j)
           ELSE UNCHANGED row /\ Goes(w, "idle", None)
    /\ UNCHANGED <<notifies, chan, stale, runner, requests, faults, userSteps>>

\* _try_perform_job succeeds: the commit of done also releases the lock.
performDone(w) ==
    /\ work[w].pc = "performing"
    /\ LET j == work[w].job
       IN  /\ row' = [row EXCEPT ![j].state = "done", ![j].retry = @ + 1,
                                 ![j].holder = None]
           /\ Notified({j})
           /\ Goes(w, "done", j)
    /\ UNCHANGED <<chan, stale, runner, requests, faults, userSteps>>

\* retry_postpone, in an environment of its own: the lock is still held.
Postpone(w, retry) ==
    LET j == work[w].job
    IN  /\ row' = [row EXCEPT ![j].state = PendingState(j), ![j].retry = retry,
                              ![j].eta = "future"]
        /\ stale' = stale \cup {j}
        /\ Notified({j})
        /\ Goes(w, "rollback", j)

\* RetryableJobError: too many retries make it a failure.
performRetry(w) ==
    /\ work[w].pc = "performing" /\ faults < MaxFaults
    /\ LET j == work[w].job
       IN  IF MaxRetries # 0 /\ row[j].retry + 1 >= MaxRetries
           THEN /\ row' = [row EXCEPT ![j].state = "failed", ![j].retry = @ + 1]
                /\ Notified({j})
                /\ Goes(w, "rollback", j)
                /\ UNCHANGED stale
           ELSE Postpone(w, row[j].retry + 1)
    /\ faults' = faults + 1
    /\ UNCHANGED <<chan, runner, requests, userSteps>>

\* A concurrency error of PostgreSQL is retried whatever max_retries says, as
\* is an error that asks for its retry not to be counted.
performConflict(w) ==
    /\ work[w].pc = "performing" /\ faults < MaxFaults
    /\ \E counted \in {0, 1} : Postpone(w, row[work[w].job].retry + counted)
    /\ faults' = faults + 1
    /\ UNCHANGED <<chan, runner, requests, userSteps>>

\* Any other exception: set_failed, again while the lock is held.
performFails(w) ==
    /\ work[w].pc = "performing" /\ faults < MaxFaults
    /\ LET j == work[w].job
       IN  /\ row' = [row EXCEPT ![j].state = "failed", ![j].retry = @ + 1]
           /\ Notified({j})
           /\ Goes(w, "rollback", j)
    /\ faults' = faults + 1
    /\ UNCHANGED <<chan, stale, runner, requests, userSteps>>

\* The end of the request rolls the transaction of the lock back.
rollback(w) ==
    /\ work[w].pc = "rollback"
    /\ row' = [row EXCEPT ![work[w].job].holder = None]
    /\ Goes(w, "idle", None)
    /\ UNCHANGED <<notifies, chan, stale, runner, requests, faults, userSteps>>

enqueue_dependent_jobs(w) ==
    /\ work[w].pc = "done"
    /\ LET j == work[w].job
       IN  /\ row' = WithDependents(row, j, "done", "pending")
           /\ Notified(Dependents(row, j, "done"))
    /\ Goes(w, "idle", None)
    /\ UNCHANGED <<chan, stale, runner, requests, faults, userSteps>>

\* The worker process dies: PostgreSQL drops its locks.
workerCrash(w) ==
    /\ work[w].pc # "idle" /\ faults < MaxFaults
    /\ row' = [j \in Jobs |-> IF row[j].holder = w
                              THEN [row[j] EXCEPT !.holder = None] ELSE row[j]]
    /\ Goes(w, "idle", None)
    /\ faults' = faults + 1
    /\ UNCHANGED <<notifies, chan, stale, runner, requests, userSteps>>

\* _async_http_get fails, or the server restarts with the request queued.
requestLost ==
    /\ faults < MaxFaults
    /\ \E j \in Jobs : requests[j] > 0 /\ requests' = [requests EXCEPT ![j] = @ - 1]
    /\ faults' = faults + 1
    /\ UNCHANGED <<row, notifies, chan, stale, runner, work, userSteps>>

----------------------------------------------------------------------------
(* models/queue_job.py: the user's buttons, each on one job. *)

Pressed == userSteps < MaxUserSteps /\ userSteps' = userSteps + 1

Manual == {"wait", "pending", "enqueued", "failed"}

button_done(j) ==
    /\ Pressed /\ row[j].state \in Manual
    /\ LET rows == [row EXCEPT ![j].state = "done"]
       IN  /\ row' = WithDependents(rows, j, "done", "pending")
           /\ Notified({j} \cup Dependents(rows, j, "done"))
    /\ UNCHANGED <<chan, stale, runner, requests, work, faults>>

button_cancelled(j) ==
    /\ Pressed /\ row[j].state \in Manual
    /\ LET rows == [row EXCEPT ![j].state = "cancelled"]
       IN  /\ row' = WithDependents(rows, j, "cancelled", "cancelled")
           /\ Notified({j} \cup Dependents(rows, j, "cancelled"))
    /\ UNCHANGED <<chan, stale, runner, requests, work, faults>>

requeue(j) ==
    /\ Pressed /\ row[j].state \in {"failed", "done", "cancelled"}
    /\ row' = [row EXCEPT ![j].state = PendingState(j), ![j].retry = 0,
                          ![j].aged = FALSE]
    /\ Notified({j})
    /\ UNCHANGED <<chan, stale, runner, requests, work, faults>>

----------------------------------------------------------------------------
(* Time. *)

\* A request on its way, or a worker about to lock, that is 10 seconds late is
\* one of the faults.
Underway(j) == requests[j] > 0 \/ \E w \in Workers : work[w] = [pc |-> "acquired", job |-> j]

ages(j) ==
    /\ row[j].state \in {"enqueued", "started"} /\ ~row[j].aged
    /\ IF Underway(j) THEN faults < MaxFaults /\ faults' = faults + 1 ELSE UNCHANGED faults
    /\ row' = [row EXCEPT ![j].aged = TRUE]
    /\ UNCHANGED <<notifies, chan, stale, runner, requests, work, userSteps>>

etaPasses(j) ==
    /\ row[j].eta = "future"
    /\ row' = [row EXCEPT ![j].eta = "past"]
    /\ UNCHANGED <<notifies, chan, stale, runner, requests, work, faults, userSteps>>

----------------------------------------------------------------------------
RunnerStep == \/ initialize_databases \/ requeue_dead_jobs \/ process_notification
              \/ get_jobs_to_run \/ run_jobs \/ wait_notification

WorkerStep(w) == \/ lock(w) \/ performDone(w) \/ rollback(w)
                 \/ enqueue_dependent_jobs(w)

WorkerFault(w) == performRetry(w) \/ performConflict(w) \/ performFails(w) \/ workerCrash(w)

UserStep(j) == button_done(j) \/ button_cancelled(j) \/ requeue(j)

Next ==
    \/ RunnerStep \/ close_databases \/ requestLost
    \/ \E w \in Workers : acquire_job(w) \/ WorkerStep(w) \/ WorkerFault(w)
    \/ \E j \in Jobs : UserStep(j) \/ ages(j) \/ etaPasses(j)

Spec == Init /\ [][Next]_vars

(***************************************************************************)
(* The runner loops, a worker goes on with its request, some worker takes  *)
(* the requests that wait, and time passes.                                *)
(***************************************************************************)
Fairness ==
    /\ WF_vars(RunnerStep)
    /\ \A w \in Workers : WF_vars(WorkerStep(w))
    /\ WF_vars(\E w \in Workers : acquire_job(w))
    /\ \A j \in Jobs : WF_vars(ages(j)) /\ WF_vars(etaPasses(j))

FairSpec == Spec /\ Fairness

----------------------------------------------------------------------------
(* Properties. *)

Performed == {j \in Jobs : \E w \in Workers : work[w] = [pc |-> "performing", job |-> j]}

(* Two workers never perform the same job at the same time: whatever the
   dead-job query, late requests and crashes do, the started state and the row
   lock of _acquire_job let one of them through. *)
OneWorkerPerforms ==
    \A v, w \in Workers :
        v # w /\ work[v].pc = "performing" /\ work[w].pc = "performing"
            => work[v].job # work[w].job

(* The jobs really being performed in a channel and below it never exceed its
   capacity, although the runner counts them in a picture of the table that it
   rebuilds from notifications and loses whenever it restarts. *)
CapacityRespected ==
    \A c \in Channels :
        Capacity[c] # 0 => Cardinality({j \in Performed : c \in Path(j)}) <= Capacity[c]

(* A sequential channel passes a job on only when every job that comes before
   it in that channel is finished or waits for its parents: a predecessor that
   failed, is being retried, runs, or was put back to pending holds it back,
   also after the runner has rebuilt its picture of the table. *)
SequentialOrder ==
    [][\A i, j \in Jobs : \A c \in Sequential :
         (/\ ChannelOf[i] = c /\ Before(i, j)
          /\ j \in chan[c].queue \cap chan'[c].running /\ row[j].state = "pending")
         => row[i].state \in {"done", "cancelled", "wait"}]_vars
=============================================================================
