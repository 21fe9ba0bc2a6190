--------------------------- MODULE PacketIDLimiter ---------------------------
(***************************************************************************)
(* The packet identifier limiter of one broker connection                  *)
(* (gmqtt/server/limiter.go) together with the way client.go drives it.    *)
(*                                                                         *)
(* The limiter hands packet identifiers to pollMessageHandler and takes    *)
(* them back from the acknowledgement handlers.  It keeps a counter (used) *)
(* beside the bitmap of identifiers in use (lockedPid) and blocks the      *)
(* poller on a condition variable while the counter is at the limit.       *)
(*                                                                         *)
(* The operations are written over the limiter's own variables so that     *)
(* Delivery can run them; phase, and Next, say when client.go calls which. *)
(***************************************************************************)
EXTENDS Naturals, FiniteSets, Sequences

CONSTANTS
    MaxPacketID,    \* packets.MaxPacketID (65535 in the code)
    Limits,         \* the values client.opts.MaxInflight can take
    PollBatch       \* the 100 of pollMessageHandler

ASSUME LimiterAssumption ==
    /\ MaxPacketID \in Nat \ {0}
    /\ Limits \subseteq 1 .. MaxPacketID
    /\ PollBatch \in Nat \ {0}

VARIABLES
    used,       \* number of identifiers in use, as the code counts them
    limit,      \* receive maximum of the client
    lockedPid,  \* the bitmap, as the set of identifiers whose bit is 1
    freePid,    \* where the search for the next identifier starts
    exit,       \* the limiter has been closed
    waiting,    \* pollPacketIDs is in cond.Wait and has not been signalled
    ids,        \* identifiers pollMessageHandler holds and has not used yet
    phase       \* where pollMessageHandler is: see Phases

limiterVars == <<used, limit, lockedPid, freePid, exit, waiting, ids>>
pollerVars == <<used, limit, lockedPid, freePid, exit, waiting, ids, phase>>

\* pollInflights, pollPacketIDs, queueStore.Read, batchRelease, returned.
Phases == {"drain", "poll", "read", "release", "done"}

Pids == 1 .. MaxPacketID
FreePids == Pids \ lockedPid
Held == {ids[i] : i \in 1 .. Len(ids)}

\* Distance of p from freePid when the search walks upwards and wraps around.
Rank(p) == IF p >= freePid THEN p - freePid ELSE p + MaxPacketID - freePid

\* freePid++ with the wrap from MaxPacketID to MinPacketID.
NextPid(p) == IF p = MaxPacketID THEN 1 ELSE p + 1

\* max of pollMessageHandler, then n of pollPacketIDs.
PollSize ==
    LET max == IF limit < PollBatch THEN limit ELSE PollBatch
    IN  IF limit - used < max THEN limit - used ELSE max

\* The n identifiers the search returns: free ones only, in the order of the
\* walk, and no free one is skipped.
IsFirstFree(s, n) ==
    /\ s \in [1 .. n -> FreePids]
    /\ \A i, j \in 1 .. n : i < j => Rank(s[i]) < Rank(s[j])
    /\ \A r \in FreePids : Rank(r) < Rank(s[n]) => \E i \in 1 .. n : s[i] = r

-----------------------------------------------------------------------------
(* The operations of limiter.go. *)

Signal == waiting' = FALSE

newPacketIDLimiter(l) ==
    /\ used' = 0
    /\ limit' = l
    /\ lockedPid' = {}
    /\ freePid' = 1
    /\ exit' = FALSE
    /\ waiting' = FALSE
    /\ ids' = <<>>

\* close of limiter.go; close itself is a channel of the client (ClientTeardown).
closeLimiter ==
    /\ exit' = TRUE
    /\ Signal
    /\ UNCHANGED <<used, limit, lockedPid, freePid, ids>>

\* pollPacketIDs finds the limit reached and goes to sleep.
pollPacketIDsWait ==
    /\ ~waiting
    /\ used >= limit /\ ~exit
    /\ waiting' = TRUE
    /\ UNCHANGED <<used, limit, lockedPid, freePid, exit, ids>>

\* pollPacketIDs returns nil because the limiter is closed.
pollPacketIDsNil ==
    /\ ~waiting
    /\ exit
    /\ UNCHANGED limiterVars

\* pollPacketIDs returns n > 0 identifiers.
pollPacketIDs ==
    /\ ~waiting
    /\ used < limit /\ ~exit
    /\ \E s \in [1 .. PollSize -> FreePids] :
          /\ IsFirstFree(s, PollSize)
          /\ ids' = s
          /\ used' = used + PollSize
          /\ lockedPid' = lockedPid \cup {s[i] : i \in 1 .. PollSize}
          /\ freePid' = NextPid(s[PollSize])
    /\ UNCHANGED <<limit, exit, waiting>>

\* Mutant: the counter goes down for an identifier that is not in use, too.
releaseLockedAlways(S) ==
    /\ lockedPid' = lockedPid \ S
    /\ used' = used - Cardinality(S)

releaseLocked(S) ==
    /\ lockedPid' = lockedPid \ S
    /\ used' = used - Cardinality(lockedPid \cap S)

\* Mutant: no signal.
releaseSilent(id) ==
    /\ releaseLocked({id})
    /\ UNCHANGED <<limit, freePid, exit, waiting, ids>>

release(id) ==
    /\ releaseLocked({id})
    /\ Signal
    /\ UNCHANGED <<limit, freePid, exit, ids>>

batchRelease ==
    /\ releaseLocked(Held)
    /\ ids' = <<>>
    /\ Signal
    /\ UNCHANGED <<limit, freePid, exit>>

markUsedLocked(id) ==
    /\ used' = used + 1
    /\ lockedPid' = lockedPid \cup {id}
    /\ UNCHANGED <<limit, freePid, exit, waiting, ids>>

-----------------------------------------------------------------------------
(* How client.go uses it. *)

LimiterInit ==
    /\ used = 0
    /\ limit \in Limits
    /\ lockedPid = {}
    /\ freePid = 1
    /\ exit = FALSE
    /\ waiting = FALSE
    /\ ids = <<>>
    /\ phase = "drain"

\* pollInflights marks the identifiers of a stored message in use.  Delivery
\* shows when two stored messages cannot carry the same one.
Mark ==
    /\ phase = "drain"
    /\ \E id \in FreePids : markUsedLocked(id)
    /\ UNCHANGED phase

Drained ==
    /\ phase = "drain"
    /\ phase' = "poll"
    /\ UNCHANGED limiterVars

Poll ==
    /\ phase = "poll"
    /\ \/ pollPacketIDs /\ phase' = "read"
       \/ pollPacketIDsWait /\ UNCHANGED phase
       \/ pollPacketIDsNil /\ phase' = "done"

\* pollNewMessages has put the first k identifiers into messages (ids[1:]).
Use ==
    /\ phase = "read"
    /\ \E k \in 0 .. Len(ids) : ids' = SubSeq(ids, k + 1, Len(ids))
    /\ phase' = "release"
    /\ UNCHANGED <<used, limit, lockedPid, freePid, exit, waiting>>

\* Read returned ErrClosed: the poller ends without giving its batch back.
ReadClosed ==
    /\ phase = "read"
    /\ ids' = <<>>
    /\ phase' = "done"
    /\ UNCHANGED <<used, limit, lockedPid, freePid, exit, waiting>>

\* The rest of the batch goes back.
Unused ==
    /\ phase = "release"
    /\ batchRelease
    /\ phase' = "poll"

\* A PUBACK, PUBCOMP or dropped message gives an identifier back.  The peer may
\* acknowledge anything it was sent, also twice, so id need not be locked; it
\* never names one the poller still holds.
Ack ==
    /\ \E id \in Pids \ Held : release(id)
    /\ UNCHANGED phase

CloseLimiter ==
    /\ ~exit
    /\ closeLimiter
    /\ UNCHANGED phase

\* The session's next connection makes a limiter of its own.
Reconnect ==
    /\ phase = "done"
    /\ \E l \in Limits : newPacketIDLimiter(l)
    /\ phase' = "drain"

LimiterNext ==
    \/ Mark
    \/ Drained
    \/ Poll
    \/ Use
    \/ ReadClosed
    \/ Unused
    \/ Ack
    \/ CloseLimiter
    \/ Reconnect

LimiterSpec == LimiterInit /\ [][LimiterNext]_pollerVars

\* The poller is a goroutine of its own and the scheduler runs it.
LimiterFairSpec == LimiterSpec /\ WF_pollerVars(Poll) /\ WF_pollerVars(Use) /\ WF_pollerVars(Unused)

-----------------------------------------------------------------------------
(* Properties. *)

\* Types of the limiter's fields; used never leaves 0 .. MaxPacketID, so the
\* uint16 of the code neither overflows nor wraps below zero.
LimiterTypeOK ==
    /\ used \in 0 .. MaxPacketID
    /\ limit \in Limits
    /\ lockedPid \subseteq Pids
    /\ freePid \in Pids
    /\ exit \in BOOLEAN
    /\ waiting \in BOOLEAN
    /\ ids \in Seq(Pids)
    /\ phase \in Phases

\* The counter and the bitmap agree, whatever order marks, polls, batch
\* releases, repeated acknowledgements and drops come in.
UsedMatchesBitmap == used = Cardinality(lockedPid)

\* What the poller holds is locked until it gives it back and holds no
\* identifier twice, so no message can be given an identifier in use.
HeldIsLocked ==
    /\ Held \subseteq lockedPid
    /\ \A i, j \in 1 .. Len(ids) : i # j => ids[i] # ids[j]

\* While the counter is below the limit there are enough free identifiers:
\* the inner search loop of pollPacketIDs ends.
SearchEnds == used < limit => Cardinality(FreePids) >= limit - used

\* The poller sleeps only when it has a reason to: every operation that makes
\* room or closes the limiter signals it.
NoLostWakeup == waiting => used >= limit /\ ~exit

\* Handing out identifiers never takes the counter above the limit; only
\* pollInflights can (see Delivery).
PollWithinLimit == [][phase = "poll" /\ used' > used => used' <= limit]_pollerVars

\* Closing the limiter ends the poller, also one that is asleep, so the
\* client.wg.Wait of serve is not held up by it.
PollerEnds == exit /\ phase # "drain" ~> phase = "done"
=============================================================================
