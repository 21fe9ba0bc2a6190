------------------------------ MODULE FrpProxy ------------------------------
(***************************************************************************)
(* One proxy of the frp client (Wrapper) and the session it talks to: the  *)
(* phases of the wrapper, its check loop with the two timeouts, the health *)
(* monitor, a reload of the configuration, and the server's answers.  The  *)
(* messages of a session travel in order both ways; the answers carry the  *)
(* name of the proxy and nothing that tells which request they are for.    *)
(***************************************************************************)
EXTENDS Naturals, Sequences

CONSTANTS Troubles,     \* sets of the kinds of trouble a behaviour may meet
          MaxTroubles   \* bound: how often

Kinds == {"late", "health", "taken", "local", "reload", "link"}

ASSUME FrpProxyAssumption ==
  /\ Troubles \subseteq SUBSET Kinds
  /\ MaxTroubles \in Nat

VARIABLES
  phase,    \* Wrapper.Phase; "none" when the proxy is not configured
  cfg,      \* the configuration of the wrapper, by its number
  healthy,  \* Wrapper.health = 0
  c2s, s2c, \* messages under way on the control connection
  reg,      \* the configuration the server has registered; 0 for none
  taken,    \* another client has the name or the port
  kinds, troubles

proxyVars == <<phase, cfg, healthy, c2s, s2c, reg, taken, kinds, troubles>>

ProxyTypeOK ==
  /\ phase \in {"none", "new", "wait start", "start error", "running",
                "check failed"}
  /\ cfg \in 1 .. MaxTroubles + 1 /\ reg \in 0 .. MaxTroubles + 1
  /\ healthy \in BOOLEAN /\ taken \in BOOLEAN
  /\ c2s \in Seq([type : {"NewProxy", "CloseProxy"}, cfg : 1 .. MaxTroubles + 1])
  /\ s2c \in Seq({"ok", "error"})
  /\ kinds \in Troubles /\ troubles \in 0 .. MaxTroubles

\* A wrapper with a health check starts as failed.
ProxyInit ==
  /\ kinds \in Troubles
  /\ phase = "new" /\ cfg = 1 /\ healthy = ("health" \notin kinds)
  /\ c2s = <<>> /\ s2c = <<>> /\ reg = 0 /\ taken = FALSE
  /\ troubles = 0

Trouble(k) ==
  /\ k \in kinds /\ troubles < MaxTroubles
  /\ troubles' = troubles + 1
  /\ UNCHANGED kinds

calm == UNCHANGED <<kinds, troubles>>

newProxy(v) == [type |-> "NewProxy", cfg |-> v]
closeProxy(v) == [type |-> "CloseProxy", cfg |-> v]

-----------------------------------------------------------------------------
(* The client.                                                             *)

\* checkWorker asks for the proxy: a phase to start from, and no failed health.
sendStart(from) ==
  /\ phase = from /\ healthy
  /\ phase' = "wait start"
  /\ c2s' = Append(c2s, newProxy(cfg))
  /\ UNCHANGED <<cfg, healthy, s2c, reg, taken>>

\* Mutant of checkWorker: a proxy whose health check failed is not started again.
checkWorkerOnce == calm /\ sendStart("new")

checkWorker == calm /\ \E from \in {"new", "check failed"} : sendStart(from)

\* startErrTimeout has passed since the error.
startErrTimeout == calm /\ sendStart("start error")

\* waitResponseTimeout has passed and the answer is still under way.
waitResponseTimeout == Trouble("late") /\ sendStart("wait start")

\* checkWorker with a failed health check closes what is or may be open.
checkFailed ==
  /\ ~healthy /\ phase \in {"running", "wait start"}
  /\ phase' = "check failed"
  /\ c2s' = Append(c2s, closeProxy(cfg))
  /\ calm /\ UNCHANGED <<cfg, healthy, s2c, reg, taken>>

\* statusFailedCallback and statusNormalCallback of the health monitor.
statusFailed ==
  /\ Trouble("health") /\ healthy
  /\ healthy' = FALSE
  /\ UNCHANGED <<phase, cfg, c2s, s2c, reg, taken>>

statusNormal ==
  /\ calm /\ ~healthy
  /\ healthy' = TRUE
  /\ UNCHANGED <<phase, cfg, c2s, s2c, reg, taken>>

\* SetRunningStatus takes an answer in phase "wait start" only.
Awaited == phase = "wait start"

\* handleNewProxyResp and SetRunningStatus.
handleNewProxyResp ==
  /\ s2c # <<>>
  /\ s2c' = Tail(s2c)
  /\ phase' = CASE ~Awaited -> phase
                [] Awaited /\ Head(s2c) = "ok" -> "running"
                [] OTHER -> "start error"
  /\ calm /\ UNCHANGED <<cfg, healthy, c2s, reg, taken>>

\* SetRunningStatus when pxy.Run of the client fails.
runFails ==
  /\ s2c # <<>> /\ Head(s2c) = "ok" /\ Awaited
  /\ Trouble("local")
  /\ s2c' = Tail(s2c)
  /\ c2s' = Append(c2s, closeProxy(cfg))
  /\ phase' = "start error"
  /\ UNCHANGED <<cfg, healthy, reg, taken>>

\* Wrapper.Stop sends CloseProxy in any phase.
Stop == Append(c2s, closeProxy(cfg))

\* UpdateAll without the proxy, and with it again.
remove ==
  /\ Trouble("reload") /\ phase # "none"
  /\ phase' = "none" /\ c2s' = Stop
  /\ UNCHANGED <<cfg, healthy, s2c, reg, taken>>

addAgain ==
  /\ phase = "none"
  /\ phase' = "new" /\ cfg' = cfg + 1
  /\ Trouble("reload") /\ UNCHANGED <<healthy, c2s, s2c, reg, taken>>

\* Mutant of change: the new wrapper is started before the old one is stopped.
changeAddFirst ==
  /\ Trouble("reload") /\ phase # "none"
  /\ phase' = "wait start" /\ cfg' = cfg + 1
  /\ c2s' = c2s \o <<newProxy(cfg + 1), closeProxy(cfg)>>
  /\ UNCHANGED <<healthy, s2c, reg, taken>>

\* UpdateAll with another configuration: the old wrapper is stopped, then a new
\* one is started.
change ==
  /\ Trouble("reload") /\ phase # "none"
  /\ phase' = "new" /\ cfg' = cfg + 1
  /\ c2s' = Stop
  /\ UNCHANGED <<healthy, s2c, reg, taken>>

\* The session ends and the next login succeeds: messages under way are lost,
\* the server has closed the proxies of the session (FrpControl), and Run
\* makes the wrappers anew.
relogin ==
  /\ Trouble("link")
  /\ phase' = IF phase = "none" THEN "none" ELSE "new"
  /\ c2s' = <<>> /\ s2c' = <<>> /\ reg' = 0
  /\ UNCHANGED <<cfg, healthy, taken>>

-----------------------------------------------------------------------------
(* The server.                                                             *)

\* RegisterProxy refuses a name that exists or a port in use.
Refused == taken \/ reg # 0

\* handleNewProxy of the server's control.
serverNewProxy ==
  /\ c2s # <<>> /\ Head(c2s).type = "NewProxy"
  /\ c2s' = Tail(c2s)
  /\ reg' = IF Refused THEN reg ELSE Head(c2s).cfg
  /\ s2c' = Append(s2c, IF Refused THEN "error" ELSE "ok")
  /\ calm /\ UNCHANGED <<phase, cfg, healthy, taken>>

\* handleCloseProxy of the server's control.
serverCloseProxy ==
  /\ c2s # <<>> /\ Head(c2s).type = "CloseProxy"
  /\ c2s' = Tail(c2s)
  /\ reg' = 0
  /\ calm /\ UNCHANGED <<phase, cfg, healthy, s2c, taken>>

\* Another client registers the name or the port, and gives it up.
otherTakes ==
  /\ Trouble("taken") /\ reg = 0 /\ ~taken
  /\ taken' = TRUE
  /\ UNCHANGED <<phase, cfg, healthy, c2s, s2c, reg>>

otherGoes ==
  /\ calm /\ taken
  /\ taken' = FALSE
  /\ UNCHANGED <<phase, cfg, healthy, c2s, s2c, reg>>

-----------------------------------------------------------------------------
\* What the goroutines of client and server do by themselves.
ProxySteps ==
  \/ checkWorker \/ startErrTimeout \/ checkFailed \/ handleNewProxyResp
  \/ serverNewProxy \/ serverCloseProxy

ProxyNext ==
  \/ ProxySteps \/ waitResponseTimeout \/ statusFailed \/ statusNormal \/ runFails
  \/ remove \/ addAgain \/ change \/ relogin \/ otherTakes \/ otherGoes

ProxySpec == ProxyInit /\ [][ProxyNext]_proxyVars

\* The check loop runs every three seconds and messages arrive.
ProxyFairSpec ==
  /\ ProxySpec
  /\ WF_proxyVars(checkWorker \/ startErrTimeout \/ checkFailed)
  /\ WF_proxyVars(handleNewProxyResp)
  /\ WF_proxyVars(serverNewProxy \/ serverCloseProxy)

-----------------------------------------------------------------------------
Quiet == c2s = <<>> /\ s2c = <<>>

\* With nothing under way, a proxy the client shows as running is registered
\* by the server with the configuration the client has now: no answer to an
\* earlier request, taken in SetRunningStatus, makes it believe otherwise.
RunningIsServed == Quiet /\ phase = "running" => reg = cfg

\* With nothing under way, a proxy that was taken out of the configuration is
\* not registered any more: Stop closes it whatever phase its start was in.
RemovedIsClosed == Quiet /\ phase = "none" => reg = 0

\* A proxy that stays configured, healthy and unopposed gets to run on both
\* sides and stays so: no late or repeated answer leaves the wrapper in "start
\* error" with the server refusing every retry because the proxy exists.
EventuallyServed ==
  <>[](phase # "none" /\ healthy /\ ~taken)
    => <>[](phase = "running" /\ reg = cfg)
=============================================================================
