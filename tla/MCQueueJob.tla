----------------------------- MODULE MCQueueJob -----------------------------
(***************************************************************************)
(* Two jobs of a sequential channel below the root and a third in the root *)
(* that depends on the first of them; see the .cfg files for the bounds.   *)
(***************************************************************************)
EXTENDS QueueJob, TLC

CONSTANTS j1, j2, j3, root, seq, w1, w2

MCChannelOf == j1 :> seq @@ j2 :> seq @@ j3 :> root
MCRank      == j1 :> 1 @@ j2 :> 2 @@ j3 :> 3
MCCapacity  == root :> 1 @@ seq :> 1
MCParents   == j1 :> {} @@ j2 :> {} @@ j3 :> {j1}

----------------------------------------------------------------------------
(* A job that is pending, enqueued or started always reaches an end state (or
   goes back to waiting for its parents), through crashes of workers and of
   the runner, lost requests and retries, unless it stands in a sequential
   channel behind a failed job. *)
EventuallySettles ==
    \A j \in Jobs :
        []<>( \/ row[j].state \in {"done", "cancelled", "failed", "wait"}
              \/ /\ ChannelOf[j] \in Sequential
                 /\ \E i \in Jobs : ChannelOf[i] = ChannelOf[j] /\ row[i].state = "failed")

(* readme/USAGE.md: once the parents of a waiting job are done, "the
   dependency is resolved and the graph will continue to be processed". *)
DependentsReleased ==
    \A j \in Jobs :
        (row[j].state = "wait" /\ AllParents(row, j, "done"))
            ~> ~(row[j].state = "wait" /\ AllParents(row, j, "done"))

(* channels.py: "a sequential queue blocks on failed jobs" - and on no other:
   with all notifications handled, the jobs that block one are failed. *)
BlockedByFailedOnly ==
    runner = "run" /\ notifies = {} =>
        \A c \in Sequential : \A j \in chan[c].failed : row[j].state = "failed"
=============================================================================
