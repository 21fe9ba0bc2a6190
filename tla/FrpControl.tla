----------------------------- MODULE FrpControl -----------------------------
(***************************************************************************)
(* The control sessions of the frp server: a login (RegisterControl and    *)
(* the login part of handleConnection), the replacement of an earlier      *)
(* session of the same run id, the registration and closing of TCP proxies *)
(* with the port manager behind them, the cleanup by worker, and the       *)
(* client registry.                                                        *)
(*                                                                         *)
(* A control is the number of its login.  The messages of one control are  *)
(* handled one after the other by its readLoop, so one record of job holds *)
(* what that goroutine, and after it worker, is doing; controls interleave *)
(* at every lock the code releases.                                        *)
(***************************************************************************)
EXTENDS Naturals, FiniteSets

CONSTANTS RunIDs,             \* the run ids; one client process each
          ClientOf,           \* the client id a run id's process is set up with
          Names, Ports,       \* the proxy names and the allowed remote ports
          Requests,           \* the pairs of name and port a client may ask for
          MaxPortsPerClient,
          MaxLogins,          \* bound: logins in all
          MaxRequests,        \* bound: NewProxy messages in all
          MaxBreaks,          \* bound: connections lost in all
          EarlyRetry,         \* may a client give up a login and retry before the
                              \* server has finished with the first one?
          None

AnyPort == 0    \* remotePort of a proxy that takes what it gets

ASSUME FrpControlAssumption ==
  /\ Requests \subseteq Names \X (Ports \cup {AnyPort})
  /\ AnyPort \notin Ports
  /\ MaxPortsPerClient \in Nat /\ MaxLogins \in Nat /\ MaxRequests \in Nat
  /\ MaxBreaks \in Nat
  /\ EarlyRetry \in BOOLEAN

Ctls == 1 .. MaxLogins

\* None is no run id, name, port or control: "" and 0 and nil of the code.
ASSUME NoneAssumption == None \notin RunIDs \cup Names \cup Ports \cup Ctls

VARIABLES
  pc,         \* where each control is, from "none" to "gone"
  run,        \* the run id of its login message
  replaced,   \* Replaced has emptied ctl.runID
  open,       \* its connection, as the server sees it
  waits,      \* the control whose doneCh its login waits for
  proxies,    \* ctl.proxies: names
  quota,      \* ctl.portsUsedNum
  job,        \* the handler or cleanup under way: step, name and port
  bound,      \* the realBindPort of a control's proxy of a name
  ctls,       \* ctlsByRunID
  pxys,       \* proxy.Manager: the control a name is registered by
  used,       \* usedPorts: the proxy name a port is given to; the rest is free
  reserved,   \* reservedPorts: port and closed, by proxy name
  listening,  \* the control that listens on a port
  online,     \* ClientRegistry: the run id a client id is online under
  index,      \* runIndex
  peer,       \* the control a client believes it is connected to
  known,      \* has the client been told its run id?
  asked,      \* NewProxy messages so far
  breaks      \* connections lost so far

ctlVars  == <<pc, run, replaced, open, waits, ctls>>
pxyVars  == <<proxies, quota, job, bound, pxys, asked>>
portVars == <<used, reserved, listening>>
regVars  == <<online, index>>
cliVars  == <<peer, known, breaks>>
vars == <<ctlVars, pxyVars, portVars, regVars, cliVars>>

ClientIDs == {ClientOf[r] : r \in RunIDs}

Idle == [step |-> "idle", name |-> None, port |-> None]

TypeOK ==
  /\ pc \in [Ctls -> {"none", "wait", "resp", "running", "closing", "done",
                      "gone", "refused", "failed"}]
  /\ run \in [Ctls -> RunIDs \cup {None}]
  /\ replaced \in [Ctls -> BOOLEAN] /\ open \in [Ctls -> BOOLEAN]
  /\ waits \in [Ctls -> Ctls \cup {None}]
  /\ proxies \in [Ctls -> SUBSET Names]
  /\ quota \in [Ctls -> 0 .. MaxPortsPerClient]
  /\ job \in [Ctls -> [step : {"idle", "acquire", "listen", "add", "close",
                               "release", "del"},
                       name : Names \cup {None},
                       port : Ports \cup {AnyPort, None}]]
  /\ bound \in [Ctls -> [Names -> Ports \cup {None}]]
  /\ ctls \in [RunIDs -> Ctls \cup {None}]
  /\ pxys \in [Names -> Ctls \cup {None}]
  /\ used \in [Ports -> Names \cup {None}]
  /\ reserved \in [Names -> [port : Ports \cup {None}, closed : BOOLEAN]]
  /\ listening \in [Ports -> Ctls \cup {None}]
  /\ index \subseteq RunIDs
  /\ online \in [ClientIDs -> RunIDs \cup {None}]
  /\ peer \in [RunIDs -> Ctls \cup {None}] /\ known \subseteq RunIDs
  /\ asked \in 0 .. MaxRequests /\ breaks \in 0 .. MaxBreaks

Init ==
  /\ pc = [c \in Ctls |-> "none"] /\ run = [c \in Ctls |-> None]
  /\ replaced = [c \in Ctls |-> FALSE] /\ open = [c \in Ctls |-> FALSE]
  /\ waits = [c \in Ctls |-> None] /\ ctls = [r \in RunIDs |-> None]
  /\ proxies = [c \in Ctls |-> {}] /\ quota = [c \in Ctls |-> 0]
  /\ job = [c \in Ctls |-> Idle]
  /\ bound = [c \in Ctls |-> [n \in Names |-> None]]
  /\ pxys = [n \in Names |-> None] /\ asked = 0
  /\ used = [p \in Ports |-> None]
  /\ reserved = [n \in Names |-> [port |-> None, closed |-> FALSE]]
  /\ listening = [p \in Ports |-> None]
  /\ online = [k \in ClientIDs |-> None] /\ index = {}
  /\ peer = [r \in RunIDs |-> None] /\ known = {}
  /\ breaks = 0

-----------------------------------------------------------------------------
(* The client registry and the control manager.                            *)

\* Mutant of Del: the run id is deleted whoever has it.
DelAny(c) == ctls' = [ctls EXCEPT ![run[c]] = None]

\* ControlManager.Del: only the control itself, never one that replaced it.
Del(c) == ctls' = IF ctls[run[c]] = c THEN [ctls EXCEPT ![run[c]] = None]
                                      ELSE ctls

\* MarkOfflineByRunID: a run id that is not indexed changes nothing.
MarkOfflineByRunID(r) ==
  /\ index' = index \ {r}
  /\ online' = IF r \in index /\ online[ClientOf[r]] = r
               THEN [online EXCEPT ![ClientOf[r]] = None]
               ELSE online

\* Register refuses a client id that is online under another run id.
Conflict(r) == online[ClientOf[r]] \notin {None, r}

Register(r) ==
  /\ online' = [online EXCEPT ![ClientOf[r]] = r]
  /\ index' = (index \ {online[ClientOf[r]]}) \cup {r}

-----------------------------------------------------------------------------
(* Login.                                                                  *)

\* The client's side of a login: it dials with the run id it was given, or for
\* the first time; a process whose first login went unanswered gets a new run
\* id and is another member of RunIDs.
MayLogin(r) ==
  /\ peer[r] = None
  /\ r \in known \/ \A c \in Ctls : run[c] # r
  /\ EarlyRetry \/ \A c \in Ctls : run[c] = r => pc[c] \notin {"wait", "resp"}

\* RegisterControl up to WaitClosed: ctlManager.Add replaces the control of the
\* same run id, which closes that one's connection.
login(r, c) ==
  /\ pc[c] = "none" /\ \A d \in 1 .. c - 1 : pc[d] # "none"
  /\ MayLogin(r)
  /\ LET old == ctls[r] IN
       /\ pc' = [pc EXCEPT ![c] = "wait"]
       /\ run' = [run EXCEPT ![c] = r]
       /\ open' = [d \in Ctls |-> d = c \/ (open[d] /\ d # old)]
       /\ replaced' = [d \in Ctls |-> replaced[d] \/ d = old]
       /\ waits' = [waits EXCEPT ![c] = old]
       /\ ctls' = [ctls EXCEPT ![r] = c]
  /\ peer' = [peer EXCEPT ![r] = c]
  /\ UNCHANGED <<pxyVars, portVars, regVars, known, breaks>>

\* Mutants of Closed: the login does not wait for the control it replaces; or
\* worker closes doneCh only when no port was in use.
ClosedAtOnce(c) == waits[c] # None => ~open[waits[c]]
ClosedUnused(c) == waits[c] # None => (pc[waits[c]] \in {"done", "gone"} /\ quota[waits[c]] = 0)

\* doneCh of the replaced control is closed: worker has finished it.
Closed(c) == waits[c] # None => pc[waits[c]] \in {"done", "gone"}

\* The rest of RegisterControl: the registry takes the client.
registerControl(c) ==
  /\ pc[c] = "wait" /\ Closed(c) /\ ~Conflict(run[c])
  /\ Register(run[c])
  /\ pc' = [pc EXCEPT ![c] = "resp"]
  /\ UNCHANGED <<run, replaced, open, waits, ctls, pxyVars, portVars, cliVars>>

\* The registry refuses it: the control is dropped and never started.
registerRefused(c) ==
  /\ pc[c] = "wait" /\ Closed(c) /\ Conflict(run[c])
  /\ Del(c)
  /\ pc' = [pc EXCEPT ![c] = "refused"]
  /\ open' = [open EXCEPT ![c] = FALSE]
  /\ UNCHANGED <<run, replaced, waits, pxyVars, portVars, regVars, cliVars>>

\* handleConnection writes LoginResp and starts the control.
start(c) ==
  /\ pc[c] = "resp" /\ open[c]
  /\ pc' = [pc EXCEPT ![c] = "running"]
  /\ known' = IF peer[run[c]] = c THEN known \cup {run[c]} ELSE known
  /\ UNCHANGED <<run, replaced, open, waits, ctls, pxyVars, portVars, regVars,
                 peer, breaks>>

\* The write fails: the control is dropped and never started.
loginFails(c) ==
  /\ pc[c] = "resp" /\ ~open[c]
  /\ Del(c) /\ MarkOfflineByRunID(run[c])
  /\ pc' = [pc EXCEPT ![c] = "failed"]
  /\ UNCHANGED <<run, replaced, open, waits, pxyVars, portVars, cliVars>>

-----------------------------------------------------------------------------
(* Connections.  A client that loses its connection logs in again; the     *)
(* server learns of the loss later, by a reset or by its heartbeat check.  *)

linkBreaks(r) ==
  /\ peer[r] # None /\ breaks < MaxBreaks
  /\ peer' = [peer EXCEPT ![r] = None]
  /\ breaks' = breaks + 1
  /\ UNCHANGED <<ctlVars, pxyVars, portVars, regVars, known>>

\* keepControllerWorking: the client sees the end of its connection.
clientNotices(r) ==
  /\ peer[r] # None /\ ~open[peer[r]]
  /\ peer' = [peer EXCEPT ![r] = None]
  /\ UNCHANGED <<ctlVars, pxyVars, portVars, regVars, known, breaks>>

\* heartbeatWorker, or an error of the connection.
serverNotices(c) ==
  /\ open[c] /\ peer[run[c]] # c
  /\ open' = [open EXCEPT ![c] = FALSE]
  /\ UNCHANGED <<pc, run, replaced, waits, ctls, pxyVars, portVars, regVars,
                 cliVars>>

-----------------------------------------------------------------------------
(* handleNewProxy and RegisterProxy.                                       *)

At(c, step) == job[c].step = step
Goto(c, step) == job' = [job EXCEPT ![c].step = step]

\* A message is read while the control runs and its connection is open.  The
\* quota and PxyManager.Exist come first; a refusal changes nothing.
handleNewProxy(c, n, p) ==
  /\ pc[c] = "running" /\ open[c] /\ At(c, "idle")
  /\ peer[run[c]] = c /\ asked < MaxRequests
  /\ quota[c] < MaxPortsPerClient /\ pxys[n] = None
  /\ asked' = asked + 1
  /\ quota' = [quota EXCEPT ![c] = @ + 1]
  /\ job' = [job EXCEPT ![c] = [step |-> "acquire", name |-> n, port |-> p]]
  /\ UNCHANGED <<ctlVars, proxies, bound, pxys, portVars, regVars, cliVars>>

\* isPortAvailable: nothing listens on it.
isPortAvailable(p) == listening[p] = None

\* The ports Acquire may choose: the port reserved for the name whoever has it,
\* or else any free one; a given port only when it is free.
Acquirable(n, p) ==
  LET free == {q \in Ports : used[q] = None /\ isPortAvailable(q)}
      own  == {q \in Ports : q = reserved[n].port /\ isPortAvailable(q)} IN
  IF p # AnyPort THEN free \cap {p}
  ELSE IF own # {} THEN own ELSE free

acquire(c) ==
  /\ At(c, "acquire")
  /\ LET n == job[c].name IN
     \E q \in Acquirable(n, job[c].port) :
       /\ used' = [used EXCEPT ![q] = n]
       /\ reserved' = [reserved EXCEPT ![n] = [port |-> q, closed |-> FALSE]]
       /\ bound' = [bound EXCEPT ![c][n] = q]
  /\ Goto(c, "listen")
  /\ UNCHANGED <<ctlVars, proxies, quota, pxys, asked, listening, regVars, cliVars>>

\* No port: RegisterProxy returns the error and gives the quota back.
acquireFails(c) ==
  /\ At(c, "acquire") /\ Acquirable(job[c].name, job[c].port) = {}
  /\ quota' = [quota EXCEPT ![c] = @ - 1]
  /\ job' = [job EXCEPT ![c] = Idle]
  /\ UNCHANGED <<ctlVars, proxies, bound, pxys, asked, portVars, regVars, cliVars>>

\* Manager.Release of the port this control's proxy was bound to: it is freed
\* whoever has it now.
Release(c, n) ==
  LET q == bound[c][n]
      m == used[q] IN
  /\ used' = [used EXCEPT ![q] = None]
  /\ reserved' = IF m # None /\ reserved[m].port = q
                 THEN [reserved EXCEPT ![m].closed = TRUE] ELSE reserved
  /\ bound' = [bound EXCEPT ![c][n] = None]

\* net.Listen of Run succeeds,
listen(c) ==
  LET q == bound[c][job[c].name] IN
  /\ At(c, "listen") /\ listening[q] = None
  /\ listening' = [listening EXCEPT ![q] = c]
  /\ Goto(c, "add")
  /\ UNCHANGED <<ctlVars, proxies, quota, bound, pxys, asked, used, reserved,
                 regVars, cliVars>>

\* Mutant of listenFails: the port stays acquired.
listenFailsKeeps(c) ==
  /\ At(c, "listen")
  /\ quota' = [quota EXCEPT ![c] = @ - 1]
  /\ job' = [job EXCEPT ![c] = Idle]
  /\ UNCHANGED <<ctlVars, proxies, bound, pxys, asked, portVars, regVars, cliVars>>

\* or it fails, as when another control or another program of the machine has
\* the port by now: the port is released and the quota returned.
listenFails(c) ==
  /\ At(c, "listen")
  /\ Release(c, job[c].name)
  /\ quota' = [quota EXCEPT ![c] = @ - 1]
  /\ job' = [job EXCEPT ![c] = Idle]
  /\ UNCHANGED <<ctlVars, proxies, pxys, asked, listening, regVars, cliVars>>

\* PxyManager.Add, then ctl.proxies.  A name another control took meanwhile
\* makes the deferred calls close the proxy and return the quota.
add(c) ==
  LET n == job[c].name IN
  /\ At(c, "add") /\ pxys[n] = None
  /\ pxys' = [pxys EXCEPT ![n] = c]
  /\ proxies' = [proxies EXCEPT ![c] = @ \cup {n}]
  /\ job' = [job EXCEPT ![c] = Idle]
  /\ UNCHANGED <<ctlVars, quota, bound, asked, portVars, regVars, cliVars>>

addFails(c) ==
  /\ At(c, "add") /\ pxys[job[c].name] # None
  /\ quota' = [quota EXCEPT ![c] = @ - 1]
  /\ Goto(c, "close")
  /\ UNCHANGED <<ctlVars, proxies, bound, pxys, asked, portVars, regVars, cliVars>>

-----------------------------------------------------------------------------
(* Closing a proxy: pxy.Close stops the listener, then releases the port;  *)
(* then the name is given up.                                              *)

handleCloseProxy(c, n) ==
  /\ pc[c] = "running" /\ open[c] /\ At(c, "idle") /\ peer[run[c]] = c
  /\ n \in proxies[c]
  /\ proxies' = [proxies EXCEPT ![c] = @ \ {n}]
  /\ quota' = [quota EXCEPT ![c] = @ - 1]
  /\ job' = [job EXCEPT ![c] = [step |-> "close", name |-> n, port |-> None]]
  /\ UNCHANGED <<ctlVars, bound, pxys, asked, portVars, regVars, cliVars>>

closeListener(c) ==
  /\ At(c, "close")
  /\ listening' = [listening EXCEPT ![bound[c][job[c].name]] = None]
  /\ Goto(c, "release")
  /\ UNCHANGED <<ctlVars, proxies, quota, bound, pxys, asked, used, reserved,
                 regVars, cliVars>>

\* After a failed Add the name is another control's and stays.
release(c) ==
  /\ At(c, "release")
  /\ Release(c, job[c].name)
  /\ job' = [job EXCEPT ![c] = IF pxys[job[c].name] = c
                               THEN [@ EXCEPT !.step = "del"] ELSE Idle]
  /\ UNCHANGED <<ctlVars, proxies, quota, pxys, asked, listening, regVars, cliVars>>

delName(c) ==
  /\ At(c, "del")
  /\ pxys' = [pxys EXCEPT ![job[c].name] = None]
  /\ job' = [job EXCEPT ![c] = Idle]
  /\ UNCHANGED <<ctlVars, proxies, quota, bound, asked, portVars, regVars, cliVars>>

\* cleanReservedPortsWorker: a reservation unused for 24 hours is forgotten.
\* It only matters to a request still to come.
cleanReserved(n) ==
  /\ reserved[n].port # None /\ reserved[n].closed /\ asked < MaxRequests
  /\ reserved' = [reserved EXCEPT ![n] = [port |-> None, closed |-> FALSE]]
  /\ UNCHANGED <<ctlVars, pxyVars, used, listening, regVars, cliVars>>

-----------------------------------------------------------------------------
(* worker: it wakes when readLoop has ended, which a handler under way     *)
(* puts off.                                                               *)

worker(c) ==
  /\ pc[c] = "running" /\ ~open[c] /\ At(c, "idle")
  /\ pc' = [pc EXCEPT ![c] = "closing"]
  /\ UNCHANGED <<run, replaced, open, waits, ctls, pxyVars, portVars, regVars,
                 cliVars>>

closeProxies(c, n) ==
  /\ pc[c] = "closing" /\ At(c, "idle") /\ n \in proxies[c]
  /\ proxies' = [proxies EXCEPT ![c] = @ \ {n}]
  /\ job' = [job EXCEPT ![c] = [step |-> "close", name |-> n, port |-> None]]
  /\ UNCHANGED <<ctlVars, quota, bound, pxys, asked, portVars, regVars, cliVars>>

\* A replaced control has an empty run id, which is never indexed.
finish(c) ==
  /\ pc[c] = "closing" /\ At(c, "idle") /\ proxies[c] = {}
  /\ IF replaced[c] THEN UNCHANGED regVars ELSE MarkOfflineByRunID(run[c])
  /\ pc' = [pc EXCEPT ![c] = "done"]
  /\ UNCHANGED <<run, replaced, open, waits, ctls, pxyVars, portVars, cliVars>>

\* The goroutine handleConnection leaves behind.
reap(c) ==
  /\ pc[c] = "done"
  /\ Del(c)
  /\ pc' = [pc EXCEPT ![c] = "gone"]
  /\ UNCHANGED <<run, replaced, open, waits, pxyVars, portVars, regVars,
                 cliVars>>

-----------------------------------------------------------------------------
loginSteps(c) == registerControl(c) \/ registerRefused(c) \/ start(c) \/ loginFails(c)

jobSteps(c) ==
  \/ acquire(c) \/ acquireFails(c) \/ listen(c) \/ listenFails(c)
  \/ add(c) \/ addFails(c) \/ closeListener(c) \/ release(c) \/ delName(c)

workerSteps(c) ==
  worker(c) \/ (\E n \in Names : closeProxies(c, n)) \/ finish(c) \/ reap(c)

Next ==
  \/ \E r \in RunIDs : (\E c \in Ctls : login(r, c)) \/ linkBreaks(r) \/ clientNotices(r)
  \/ \E c \in Ctls :
       \/ loginSteps(c) \/ serverNotices(c) \/ jobSteps(c) \/ workerSteps(c)
       \/ \E q \in Requests : handleNewProxy(c, q[1], q[2])
       \/ \E n \in Names : handleCloseProxy(c, n)
  \/ \E n \in Names : cleanReserved(n)

Spec == Init /\ [][Next]_vars

\* Every goroutine of the server runs on, and a dead connection is noticed in
\* the end: the heartbeat check of a started control closes it.
FairSpec ==
  /\ Spec
  /\ \A c \in Ctls : /\ WF_vars(loginSteps(c)) /\ WF_vars(jobSteps(c))
                     /\ WF_vars(workerSteps(c)) /\ WF_vars(serverNotices(c))
-----------------------------------------------------------------------------
(* Properties.                                                             *)

\* Started and not yet cleaned up.
Live(c) == pc[c] \in {"running", "closing"}

\* Two sessions of one client never hold resources at the same time: Start
\* comes only after worker has closed every proxy of the replaced control
\* (ctlManager.Add, WaitClosed, then Start), so the new session finds the
\* names and ports of the old one free.
OneSession ==
  \A c, d \in Ctls : c # d /\ run[c] = run[d] /\ Live(c) => ~Live(d)

\* What a client was given goes when its session goes: a used port is still
\* bound to a proxy of a live control, a listener to a live control that has
\* the port bound, and a registered name to a live control.  Every error path
\* of RegisterProxy and every exit of worker has to keep this.
NothingLeaks ==
  /\ \A p \in Ports : used[p] # None =>
       \E c \in Ctls, n \in Names : Live(c) /\ bound[c][n] = p
  /\ \A p \in Ports : listening[p] # None =>
       /\ Live(listening[p])
       /\ \E n \in Names : bound[listening[p]][n] = p
  /\ \A n \in Names : pxys[n] # None =>
       /\ Live(pxys[n])
       /\ n \in proxies[pxys[n]] \/ job[pxys[n]].name = n

\* A session whose connection is open is the one its run id leads to, which
\* its work connections depend on, and its client is shown online under it:
\* neither the cleanup of an older session nor a failed login takes it out
\* of the control manager or the client registry.
RunningReachable ==
  \A c \in Ctls : pc[c] = "running" /\ open[c] =>
    /\ ctls[run[c]] = c
    /\ online[ClientOf[run[c]]] = run[c] /\ run[c] \in index

\* A login that waits for the control it replaces is answered in the end
\* (RegisterControl: "we release previous controller and start new one").
LoginCompletes == \A c \in Ctls : pc[c] = "wait" ~> pc[c] # "wait"

\* A port somebody listens on is a used one (Acquire and Release of the port
\* manager against net.Listen of the proxies).
ListeningAccounted == \A p \in Ports : listening[p] # None => used[p] # None

=============================================================================
