----------------------------- MODULE FrpProofs ------------------------------
(***************************************************************************)
(* frp, for every value of the constants of FrpControl and FrpProxy.       *)
(*                                                                         *)
(* The server, for every set of run ids, names and ports and any number of *)
(* logins: two sessions of one run id are never live together, a running   *)
(* session with an open connection stays reachable, and nothing a session  *)
(* was given outlives it.                                                  *)
(*                                                                         *)
(* The client, for any number of troubles: what it shows as running is     *)
(* what the server has registered, unless another client can take the name *)
(* or the port while this one closes and reopens its proxy; and a proxy    *)
(* taken out of the configuration is always closed.                        *)
(***************************************************************************)
EXTENDS FrpControl, FrpProxy, FiniteSetTheorems, TLAPS

Finished(c) == pc[c] \in {"done", "gone", "refused", "failed"}

(***************************************************************************)
(* The order of the logins of one run id.  A control that is past WaitClosed*)
(* follows only finished ones, because the one it waited for did too and   *)
(* everything between the two had already finished; the control the        *)
(* manager holds is the latest one, so a Del can take out no other.        *)
(***************************************************************************)
Numbered ==
  /\ \A c, d \in Ctls : c < d /\ pc[c] = "none" => pc[d] = "none"
  /\ \A c \in Ctls : pc[c] = "none" <=> run[c] = None
  /\ \A c \in Ctls : pc[c] = "none" => ~open[c]

Managed ==
  /\ \A r \in RunIDs : ctls[r] # None => run[ctls[r]] = r
  /\ \A c \in Ctls : pc[c] # "none" /\ ~replaced[c] =>
       ctls[run[c]] = c \/ pc[c] \in {"gone", "refused", "failed"}

Replaced ==
  /\ \A c \in Ctls : replaced[c] => ~open[c] /\ run[c] # None
  /\ \A c \in Ctls : replaced[c] /\ ~Finished(c) =>
       ctls[run[c]] # None /\ c < ctls[run[c]]

Waits ==
  /\ \A c \in Ctls : waits[c] # None =>
       waits[c] < c /\ run[waits[c]] = run[c] /\ run[c] # None
  /\ \A c, d \in Ctls : c < d /\ run[c] = run[d] /\ run[c] # None /\ ~Finished(c) =>
       waits[d] # None /\ c <= waits[d]

Follows ==
  \A c, d \in Ctls : c < d /\ run[c] = run[d] /\ pc[d] \notin {"none", "wait"} =>
    Finished(c)

LoginOrder == Numbered /\ Managed /\ Replaced /\ Waits /\ Follows

\* The registry shows every session that was not replaced.
Online ==
  \A c \in Ctls : pc[c] \in {"resp", "running", "closing"} /\ ~replaced[c] =>
    online[ClientOf[run[c]]] = run[c] /\ run[c] \in index

Registering == {"acquire", "listen", "add"}

\* The name n of control c has a listener.
Serves(c, n) ==
  n \in proxies[c] \/ (job[c].name = n /\ job[c].step \in {"add", "close"})

\* It has a port: from acquire to release.
HasPort(c, n) ==
  n \in proxies[c] \/ (job[c].name = n /\ job[c].step \in {"listen", "add", "close", "release"})

\* What each step of a registration or of a closing holds.
JobHeld ==
  /\ \A c \in Ctls : job[c].step = "idle" <=> job[c].name = None
  /\ \A c \in Ctls : job[c].step # "idle" =>
       Live(c) /\ job[c].name \notin proxies[c]
  /\ \A c \in Ctls : job[c].step \in Registering => pc[c] = "running"

NameHeld ==
  /\ \A c \in Ctls : job[c].step \in Registering => pxys[job[c].name] # c
  /\ \A c \in Ctls : job[c].step = "del" => pxys[job[c].name] = c
  /\ \A c \in Ctls : \A n \in proxies[c] : pxys[n] = c /\ Live(c)
  /\ \A n \in Names : pxys[n] # None =>
       \/ n \in proxies[pxys[n]]
       \/ job[pxys[n]].name = n /\ job[pxys[n]].step \in {"close", "release", "del"}

PortHeld ==
  /\ \A c \in Ctls, n \in Names : bound[c][n] # None <=> HasPort(c, n)
  /\ \A p \in Ports : used[p] # None => \E c \in Ctls, n \in Names : bound[c][n] = p

Holdings == JobHeld /\ NameHeld /\ PortHeld

\* A listener belongs to exactly one name of one control.
Listeners ==
  /\ \A c \in Ctls, n \in Names : Serves(c, n) => listening[bound[c][n]] = c
  /\ \A c \in Ctls, n, m \in Names :
       Serves(c, n) /\ Serves(c, m) /\ bound[c][n] = bound[c][m] => n = m
  /\ \A p \in Ports, c \in Ctls : listening[p] = c =>
       \E n \in Names : Serves(c, n) /\ bound[c][n] = p

\* portsUsedNum of a running session counts its proxies and the one being
\* registered.
QuotaExact ==
  \A c \in Ctls :
    /\ IsFiniteSet(proxies[c])
    /\ pc[c] \in {"none", "wait", "resp"} => quota[c] = 0
    /\ pc[c] = "running" =>
         quota[c] = Cardinality(proxies[c]) + IF job[c].step \in Registering THEN 1 ELSE 0

Inv == TypeOK /\ LoginOrder /\ Online /\ Holdings /\ Listeners /\ QuotaExact

-----------------------------------------------------------------------------
\* Initial states satisfy the invariant.
LEMMA InitInv == Init => Inv
<1> SUFFICES ASSUME Init PROVE Inv
  OBVIOUS
<1>1. TypeOK
  BY FrpControlAssumption DEF Init, TypeOK, Idle
<1>2. LoginOrder
  BY NoneAssumption DEF Init, LoginOrder, Numbered, Managed, Replaced, Waits, Follows, Finished
<1>3. Online
  BY DEF Init, Online
<1>4. Holdings /\ Listeners
  BY NoneAssumption DEF Init, Holdings, JobHeld, NameHeld, PortHeld, Listeners, Serves, HasPort, Registering, Idle
<1>5. QuotaExact
  BY FS_EmptySet DEF Init, QuotaExact
<1> QED BY <1>1, <1>2, <1>3, <1>4, <1>5 DEF Inv

-----------------------------------------------------------------------------
(* Types.                                                                  *)

\* A control past its login has a run id.
LEMMA HasRun ==
    ASSUME Inv, NEW c \in Ctls, pc[c] # "none"
    PROVE  run[c] \in RunIDs
BY DEF Inv, TypeOK, LoginOrder, Numbered

\* Del keeps the manager well typed.
LEMMA DelType ==
    ASSUME TypeOK, NEW c \in Ctls, run[c] \in RunIDs, Del(c)
    PROVE  ctls' \in [RunIDs -> Ctls \cup {None}]
BY DEF TypeOK, Del

\* MarkOfflineByRunID keeps the registry well typed.
LEMMA MarkOfflineType ==
    ASSUME TypeOK, NEW r \in RunIDs, MarkOfflineByRunID(r)
    PROVE  index' \subseteq RunIDs /\ online' \in [ClientIDs -> RunIDs \cup {None}]
BY DEF TypeOK, MarkOfflineByRunID, ClientIDs

\* A control that gives quota back has some.
LEMMA QuotaLeft ==
    ASSUME Inv, NEW c \in Ctls, pc[c] = "running",
           job[c].step \in Registering \/ proxies[c] # {}
    PROVE  quota[c] - 1 \in 0 .. MaxPortsPerClient
<1>1. /\ quota[c] \in 0 .. MaxPortsPerClient
      /\ IsFiniteSet(proxies[c])
      /\ quota[c] = Cardinality(proxies[c]) + IF job[c].step \in Registering THEN 1 ELSE 0
  BY DEF Inv, TypeOK, QuotaExact
<1>2. Cardinality(proxies[c]) \in Nat /\ (proxies[c] # {} => Cardinality(proxies[c]) # 0)
  BY <1>1, FS_CardinalityType, FS_EmptySet
<1>3. quota[c] >= 1
  BY <1>1, <1>2
<1> QED BY <1>1, <1>3, FrpControlAssumption

\* The steps of a control's login and of its connection keep the types.
LEMMA LoginTypes ==
    ASSUME Inv, NEW c \in Ctls,
           \/ \E r \in RunIDs : login(r, c)
           \/ loginSteps(c) \/ serverNotices(c)
           \/ worker(c) \/ finish(c) \/ reap(c)
    PROVE  TypeOK'
<1> USE DEF Inv, ctlVars, pxyVars, portVars, regVars, cliVars
<1>1. CASE \E r \in RunIDs : login(r, c)
  BY <1>1 DEF login, TypeOK
<1>2. CASE registerControl(c)
  <2>1. run[c] \in RunIDs
    BY <1>2, HasRun DEF registerControl
  <2> QED BY <1>2, <2>1 DEF registerControl, Register, TypeOK, ClientIDs
<1>3. CASE registerRefused(c)
  <2>1. run[c] \in RunIDs
    BY <1>3, HasRun DEF registerRefused
  <2> QED BY <1>3, <2>1, DelType DEF registerRefused, TypeOK
<1>4. CASE start(c)
  <2>1. run[c] \in RunIDs
    BY <1>4, HasRun DEF start
  <2> QED BY <1>4, <2>1 DEF start, TypeOK
<1>5. CASE loginFails(c)
  <2>1. run[c] \in RunIDs
    BY <1>5, HasRun DEF loginFails
  <2> QED BY <1>5, <2>1, DelType, MarkOfflineType DEF loginFails, TypeOK
<1>6. CASE serverNotices(c)
  BY <1>6 DEF serverNotices, TypeOK
<1>7. CASE worker(c)
  BY <1>7 DEF worker, TypeOK
<1>8. CASE finish(c)
  <2>1. run[c] \in RunIDs
    BY <1>8, HasRun DEF finish
  <2>2. index' \subseteq RunIDs /\ online' \in [ClientIDs -> RunIDs \cup {None}]
    BY <1>8, <2>1, MarkOfflineType DEF finish, TypeOK
  <2> QED BY <1>8, <2>2 DEF finish, TypeOK
<1>9. CASE reap(c)
  <2>1. run[c] \in RunIDs
    BY <1>9, HasRun DEF reap
  <2> QED BY <1>9, <2>1, DelType DEF reap, TypeOK
<1> QED BY <1>1, <1>2, <1>3, <1>4, <1>5, <1>6, <1>7, <1>8, <1>9 DEF loginSteps

\* A job under way names a proxy, and has a port once it has acquired one.
LEMMA JobHolds ==
    ASSUME Inv, NEW c \in Ctls, job[c].step # "idle"
    PROVE  /\ job[c] \in [step : {"acquire", "listen", "add", "close", "release", "del"},
                          name : Names, port : Ports \cup {AnyPort, None}]
           /\ Live(c) /\ job[c].name \notin proxies[c]
           /\ job[c].step \notin {"acquire", "del"} => bound[c][job[c].name] \in Ports
<1>1. /\ job[c].name \in Names
      /\ job[c] \in [step : {"idle", "acquire", "listen", "add", "close", "release", "del"},
                     name : Names \cup {None}, port : Ports \cup {AnyPort, None}]
      /\ bound[c][job[c].name] \in Ports \cup {None}
  BY DEF Inv, TypeOK, Holdings, JobHeld
<1>2. Live(c) /\ job[c].name \notin proxies[c]
  BY DEF Inv, Holdings, JobHeld
<1>3. ASSUME job[c].step \notin {"acquire", "del"}
      PROVE  bound[c][job[c].name] # None
  BY <1>1, <1>3 DEF Inv, Holdings, PortHeld, HasPort
<1> QED BY <1>1, <1>2, <1>3

\* Release keeps the port manager well typed.
LEMMA ReleaseTypes ==
    ASSUME TypeOK, NEW c \in Ctls, NEW n \in Names, bound[c][n] \in Ports, Release(c, n)
    PROVE  /\ used' \in [Ports -> Names \cup {None}]
           /\ reserved' \in [Names -> [port : Ports \cup {None}, closed : BOOLEAN]]
           /\ bound' \in [Ctls -> [Names -> Ports \cup {None}]]
<1> DEFINE q == bound[c][n]
           m == used[q]
<1>1. m \in Names \cup {None}
  BY DEF TypeOK
<1>2. used' = [used EXCEPT ![q] = None] /\ bound' = [bound EXCEPT ![c][n] = None]
  BY DEF Release
<1>3. reserved' \in [Names -> [port : Ports \cup {None}, closed : BOOLEAN]]
  <2>1. CASE m # None /\ reserved[m].port = q
    <3>1. m \in Names /\ reserved' = [reserved EXCEPT ![m].closed = TRUE]
      BY <1>1, <2>1 DEF Release
    <3> QED BY <3>1 DEF TypeOK
  <2>2. CASE ~(m # None /\ reserved[m].port = q)
    BY <2>2 DEF Release, TypeOK
  <2> QED BY <2>1, <2>2
<1> QED BY <1>2, <1>3 DEF TypeOK
\* Registering and closing a proxy keeps the types.
LEMMA ProxyTypes ==
    ASSUME Inv, NEW c \in Ctls,
           \/ jobSteps(c)
           \/ \E q \in Requests : handleNewProxy(c, q[1], q[2])
           \/ \E n \in Names : handleCloseProxy(c, n) \/ closeProxies(c, n)
    PROVE  TypeOK'
<1> USE DEF ctlVars, pxyVars, portVars, regVars, cliVars, At, Goto
<1> DEFINE n == job[c].name
           Steps == {"idle", "acquire", "listen", "add", "close", "release", "del"}
           Jobs == [step : Steps, name : Names \cup {None}, port : Ports \cup {AnyPort, None}]
<1>1. TypeOK /\ job \in [Ctls -> Jobs] /\ Idle \in Jobs
  BY DEF Inv, TypeOK, Idle
<1>2. ASSUME NEW s \in Steps, Goto(c, s) PROVE job' \in [Ctls -> Jobs]
  BY <1>1, <1>2
<1>3. CASE \E q \in Requests : handleNewProxy(c, q[1], q[2])
  <2>1. PICK q \in Requests : handleNewProxy(c, q[1], q[2])
    BY <1>3
  <2>2. q[1] \in Names /\ q[2] \in Ports \cup {AnyPort}
    BY FrpControlAssumption
  <2>3. [step |-> "acquire", name |-> q[1], port |-> q[2]] \in Jobs
    BY <2>2
  <2> HIDE DEF Jobs
  <2> QED BY <1>1, <2>1, <2>3, FrpControlAssumption DEF handleNewProxy, TypeOK, Jobs
<1>4. CASE acquire(c)
  <2>1. n \in Names
    BY <1>4, JobHolds DEF acquire
  <2>2. PICK q \in Ports : /\ used' = [used EXCEPT ![q] = n]
                           /\ reserved' = [reserved EXCEPT ![n] = [port |-> q, closed |-> FALSE]]
                           /\ bound' = [bound EXCEPT ![c][n] = q]
    BY <1>4 DEF acquire, Acquirable
  <2>3. job' \in [Ctls -> Jobs]
    BY <1>4, <1>2 DEF acquire
  <2> QED BY <1>1, <1>4, <2>1, <2>2, <2>3 DEF acquire, TypeOK
<1>5. CASE acquireFails(c)
  <2>1. quota[c] - 1 \in 0 .. MaxPortsPerClient
    BY <1>5, QuotaLeft DEF acquireFails, Inv, Holdings, JobHeld, Registering
  <2> QED BY <1>1, <1>5, <2>1 DEF acquireFails, TypeOK
<1>6. CASE listen(c)
  <2>1. bound[c][n] \in Ports
    BY <1>6, JobHolds DEF listen
  <2>2. job' \in [Ctls -> Jobs]
    BY <1>6, <1>2 DEF listen
  <2> QED BY <1>1, <1>6, <2>1, <2>2 DEF listen, TypeOK
<1>7. CASE listenFails(c)
  <2>1. quota[c] - 1 \in 0 .. MaxPortsPerClient
    BY <1>7, QuotaLeft DEF listenFails, Inv, Holdings, JobHeld, Registering
  <2>2. n \in Names /\ bound[c][n] \in Ports
    BY <1>7, JobHolds DEF listenFails
  <2>3. Release(c, n)
    BY <1>7 DEF listenFails
  <2> QED BY <1>1, <1>7, <2>1, <2>2, <2>3, ReleaseTypes DEF listenFails, TypeOK
<1>8. CASE add(c)
  <2>1. n \in Names
    BY <1>8, JobHolds DEF add
  <2> QED BY <1>1, <1>8, <2>1 DEF add, TypeOK
<1>9. CASE addFails(c)
  <2>1. quota[c] - 1 \in 0 .. MaxPortsPerClient
    BY <1>9, QuotaLeft DEF addFails, Inv, Holdings, JobHeld, Registering
  <2>2. job' \in [Ctls -> Jobs]
    BY <1>9, <1>2 DEF addFails
  <2> QED BY <1>1, <1>9, <2>1, <2>2 DEF addFails, TypeOK
<1>10. CASE closeListener(c)
  <2>1. bound[c][n] \in Ports
    BY <1>10, JobHolds DEF closeListener
  <2>2. job' \in [Ctls -> Jobs]
    BY <1>10, <1>2 DEF closeListener
  <2> QED BY <1>1, <1>10, <2>1, <2>2 DEF closeListener, TypeOK
<1>11. CASE release(c)
  <2>1. n \in Names /\ bound[c][n] \in Ports
    BY <1>11, JobHolds DEF release
  <2>2. Release(c, n)
    BY <1>11 DEF release
  <2>3. job' \in [Ctls -> Jobs]
    BY <1>1, <1>11 DEF release
  <2> QED BY <1>1, <1>11, <2>1, <2>2, <2>3, ReleaseTypes DEF release, TypeOK
<1>12. CASE delName(c)
  <2>1. n \in Names
    BY <1>12, JobHolds DEF delName
  <2> QED BY <1>1, <1>12, <2>1 DEF delName, TypeOK
<1>13. ASSUME NEW m \in Names, handleCloseProxy(c, m) PROVE TypeOK'
  <2>1. quota[c] - 1 \in 0 .. MaxPortsPerClient
    BY <1>13, QuotaLeft DEF handleCloseProxy
  <2> QED BY <1>1, <1>13, <2>1 DEF handleCloseProxy, TypeOK
<1>14. ASSUME NEW m \in Names, closeProxies(c, m) PROVE TypeOK'
  BY <1>1, <1>14 DEF closeProxies, TypeOK
<1> QED
  BY <1>3, <1>4, <1>5, <1>6, <1>7, <1>8, <1>9, <1>10, <1>11, <1>12, <1>13, <1>14 DEF jobSteps

\* The client's steps and the cleaning of reservations keep the types.
LEMMA OtherTypes ==
    ASSUME Inv,
           \/ \E r \in RunIDs : linkBreaks(r) \/ clientNotices(r)
           \/ \E n \in Names : cleanReserved(n)
    PROVE  TypeOK'
<1> USE DEF ctlVars, pxyVars, portVars, regVars, cliVars
<1>1. ASSUME NEW r \in RunIDs, linkBreaks(r) PROVE TypeOK'
  BY <1>1, FrpControlAssumption DEF linkBreaks, Inv, TypeOK
<1>2. ASSUME NEW r \in RunIDs, clientNotices(r) PROVE TypeOK'
  BY <1>2 DEF clientNotices, Inv, TypeOK
<1>3. ASSUME NEW n \in Names, cleanReserved(n) PROVE TypeOK'
  BY <1>3 DEF cleanReserved, Inv, TypeOK
<1> QED BY <1>1, <1>2, <1>3

-----------------------------------------------------------------------------
(* The logins of one run id.                                               *)

CtlFacts ==
  /\ ctls \in [RunIDs -> Ctls \cup {None}]
  /\ waits \in [Ctls -> Ctls \cup {None}]
  /\ run \in [Ctls -> RunIDs \cup {None}]
  /\ pc \in [Ctls -> {"none", "wait", "resp", "running", "closing", "done",
                      "gone", "refused", "failed"}]
  /\ Ctls \subseteq Nat
  /\ None \notin RunIDs /\ None \notin Ctls
  /\ LoginOrder

\* What the proofs of the login order use of the invariant.
LEMMA CtlFactsHold == Inv => CtlFacts
BY NoneAssumption, FrpControlAssumption DEF CtlFacts, Inv, TypeOK, Ctls

\* Whoever passes WaitClosed follows only finished controls.
LEMMA ClosedFollows ==
    ASSUME Inv, NEW d \in Ctls, pc[d] # "none",
           pc[d] = "wait" => Closed(d),
           NEW c \in Ctls, c < d, run[c] = run[d]
    PROVE  Finished(c)
<1> USE DEF Inv, TypeOK, LoginOrder, Waits, Follows
<1>1. CASE pc[d] # "wait"
  BY <1>1
<1>2. CASE pc[d] = "wait" /\ ~Finished(c)
  <2>1. waits[d] \in Ctls /\ c <= waits[d] /\ run[waits[d]] = run[d]
    BY <1>2, HasRun, NoneAssumption
  <2>2. pc[waits[d]] \in {"done", "gone"}
    BY <1>2, <2>1, NoneAssumption DEF Closed
  <2>3. c # waits[d]
    BY <1>2, <2>2 DEF Finished
  <2> QED BY <1>2, <2>1, <2>2, <2>3 DEF Ctls
<1> QED BY <1>1, <1>2

\* A login replaces the latest control of its run id.
LEMMA LoginOrderLogin ==
    ASSUME Inv, NEW r \in RunIDs, NEW c \in Ctls, login(r, c)
    PROVE  LoginOrder'
<1> DEFINE old == ctls[r]
<1> USE DEF CtlFacts
<1>0. CtlFacts
  BY CtlFactsHold
<1>1. /\ pc[c] = "none" /\ run[c] = None /\ r # None
      /\ \A d \in Ctls : d < c <=> pc[d] # "none"
      /\ \A d \in Ctls : run[d] # None <=> d < c
      /\ old # None => old \in Ctls /\ old < c /\ run[old] = r
  BY <1>0, FrpControlAssumption DEF login, LoginOrder, Numbered, Managed, Ctls
<1>2. \A d \in Ctls : run[d] = r /\ ~Finished(d) => old # None /\ d <= old
  <2> SUFFICES ASSUME NEW d \in Ctls, run[d] = r, ~Finished(d)
               PROVE  old # None /\ d <= old
    OBVIOUS
  <2>1. pc[d] # "none"
    BY <1>0, <1>1 DEF LoginOrder, Numbered
  <2>2. CASE replaced[d]
    <3>1. ctls[run[d]] # None /\ d < ctls[run[d]]
      BY <1>0, <2>2 DEF LoginOrder, Replaced
    <3>2. old # None /\ d < old
      BY <3>1
    <3>3. d \in Nat /\ old \in Nat
      BY <1>0, <3>2
    <3> QED BY <3>2, <3>3
  <2>3. CASE ~replaced[d]
    BY <1>0, <2>1, <2>3 DEF LoginOrder, Managed, Finished
  <2> QED BY <2>2, <2>3
<1>3. /\ pc' = [pc EXCEPT ![c] = "wait"]
      /\ run' = [run EXCEPT ![c] = r]
      /\ open' = [d \in Ctls |-> d = c \/ (open[d] /\ d # old)]
      /\ replaced' = [d \in Ctls |-> replaced[d] \/ d = old]
      /\ waits' = [waits EXCEPT ![c] = old]
      /\ ctls' = [ctls EXCEPT ![r] = c]
  BY DEF login
<1>4. /\ pc'[c] = "wait" /\ run'[c] = r /\ waits'[c] = old /\ ctls'[r] = c
      /\ \A s \in RunIDs : s # r => ctls'[s] = ctls[s]
      /\ \A d \in Ctls : replaced'[d] <=> replaced[d] \/ d = old
      /\ \A d \in Ctls : open'[d] <=> d = c \/ (open[d] /\ d # old)
  BY <1>0, <1>3
<1>5. \A d \in Ctls : d # c => /\ pc'[d] = pc[d] /\ run'[d] = run[d] /\ waits'[d] = waits[d]
                               /\ Finished(d)' = Finished(d)
  BY <1>0, <1>3 DEF Finished
<1>6. ~Finished(c) /\ ~Finished(c)'
  BY <1>1, <1>4 DEF Finished
<1> HIDE DEF old
<1>7. Numbered'
  BY <1>0, <1>1, <1>4, <1>5 DEF LoginOrder, Numbered
<1>8. Managed'
  <2>1. ASSUME NEW s \in RunIDs, ctls'[s] # None PROVE run'[ctls'[s]] = s
    <3>1. CASE s = r
      BY <1>4, <3>1
    <3>2. CASE s # r
      <4>1. ctls'[s] = ctls[s] /\ ctls[s] \in Ctls /\ run[ctls[s]] = s
        BY <1>0, <1>4, <2>1, <3>2 DEF LoginOrder, Managed
      <4> QED BY <1>0, <1>1, <1>5, <4>1
    <3> QED BY <3>1, <3>2
  <2>2. ASSUME NEW d \in Ctls, pc'[d] # "none", ~replaced'[d]
        PROVE  ctls'[run'[d]] = d \/ pc'[d] \in {"gone", "refused", "failed"}
    <3>1. CASE d = c
      BY <3>1, <1>4
    <3>2. CASE d # c
      BY <1>0, <1>1, <1>2, <1>4, <1>5, <2>2, <3>2 DEF LoginOrder, Managed, old
    <3> QED BY <3>1, <3>2
  <2> QED BY <2>1, <2>2 DEF Managed
<1>9. Replaced'
  <2>1. ASSUME NEW d \in Ctls, replaced'[d] PROVE ~open'[d] /\ run'[d] # None
    BY <1>0, <1>1, <1>4, <1>5, <2>1 DEF LoginOrder, Replaced
  <2>2. ASSUME NEW d \in Ctls, replaced'[d], ~Finished(d)'
        PROVE  ctls'[run'[d]] # None /\ d < ctls'[run'[d]]
    <3>1. d # c
      BY <2>2, <1>0, <1>1, <1>4 DEF LoginOrder, Replaced
    <3>2. CASE run[d] = r
      BY <1>0, <1>1, <1>4, <1>5, <3>1, <3>2
    <3>3. CASE run[d] # r
      <4>1. replaced[d] /\ ~Finished(d)
        BY <1>0, <1>1, <1>4, <1>5, <2>2, <3>1, <3>3
      <4>2. run[d] \in RunIDs
        BY <1>0, <1>1, <4>1 DEF LoginOrder, Replaced
      <4> QED BY <1>0, <1>4, <1>5, <3>1, <3>3, <4>1, <4>2 DEF LoginOrder, Replaced
    <3> QED BY <3>2, <3>3
  <2> QED BY <2>1, <2>2 DEF Replaced
<1>10. Waits'
  <2>1. ASSUME NEW d \in Ctls, waits'[d] # None
        PROVE  waits'[d] < d /\ run'[waits'[d]] = run'[d] /\ run'[d] # None
    <3>1. CASE d = c
      BY <1>0, <1>1, <1>4, <1>5, <2>1, <3>1
    <3>2. CASE d # c
      <4>1. waits[d] \in Ctls /\ waits[d] < d /\ run[waits[d]] = run[d] /\ run[d] # None
        BY <1>0, <1>5, <2>1, <3>2 DEF LoginOrder, Waits
      <4>2. waits[d] # c
        BY <1>0, <1>1, <3>2, <4>1
      <4> QED BY <1>5, <3>2, <4>1, <4>2
    <3> QED BY <3>1, <3>2
  <2>2. ASSUME NEW e \in Ctls, NEW d \in Ctls, e < d, run'[e] = run'[d], run'[e] # None,
               ~Finished(e)'
        PROVE  waits'[d] # None /\ e <= waits'[d]
    <3>1. e # c
      BY <1>0, <1>1, <1>5, <2>2
    <3>2. CASE d = c
      BY <1>2, <1>4, <1>5, <2>2, <3>1, <3>2
    <3>3. CASE d # c
      BY <1>0, <1>5, <2>2, <3>1, <3>3 DEF LoginOrder, Waits
    <3> QED BY <3>2, <3>3
  <2> QED BY <2>1, <2>2 DEF Waits
<1>11. Follows'
  <2> SUFFICES ASSUME NEW e \in Ctls, NEW d \in Ctls, e < d, run'[e] = run'[d],
                      pc'[d] \notin {"none", "wait"}
               PROVE  Finished(e)'
    BY DEF Follows
  <2>1. d # c
    BY <1>4
  <2>2. e # c
    BY <1>0, <1>1, <1>5, <2>1
  <2> QED BY <1>0, <1>5, <2>1, <2>2 DEF LoginOrder, Follows
<1> QED BY <1>7, <1>8, <1>9, <1>10, <1>11 DEF LoginOrder
\* A control moves on, past WaitClosed or further, and is perhaps taken out of
\* the manager: the others keep their order.
LEMMA LoginOrderAdvance ==
    ASSUME Inv, NEW c \in Ctls, NEW s \in {"resp", "running", "closing", "done",
                                           "gone", "refused", "failed"},
           pc[c] \notin {"none", "gone", "refused", "failed"},
           pc[c] = "wait" => Closed(c),
           pc[c] = "done" => s = "gone",
           pc' = [pc EXCEPT ![c] = s],
           UNCHANGED <<run, replaced, waits>>,
           \A d \in Ctls : open'[d] => open[d],
           \/ UNCHANGED ctls
           \/ Del(c) /\ s \in {"gone", "refused", "failed"}
    PROVE  LoginOrder'
<1> USE DEF CtlFacts
<1>0. CtlFacts /\ run[c] \in RunIDs
  <2>1. pc[c] # "none"
    OBVIOUS
  <2> QED BY <2>1, HasRun, CtlFactsHold
<1>1. /\ pc'[c] = s
      /\ \A d \in Ctls : d # c => pc'[d] = pc[d]
      /\ \A d \in Ctls : Finished(d) => Finished(d)'
      /\ \A d \in Ctls : d # c => (Finished(d) <=> Finished(d)')
  BY <1>0 DEF Finished
<1>2. \A r \in RunIDs : \/ ctls'[r] = ctls[r]
                        \/ ctls'[r] = None /\ ctls[r] = c /\ r = run[c] /\ Finished(c)'
  BY <1>0, <1>1 DEF Del, Finished
<1>3. Numbered'
  BY <1>0, <1>1 DEF LoginOrder, Numbered
<1>4. Managed'
  <2>1. ASSUME NEW r \in RunIDs, ctls'[r] # None PROVE run'[ctls'[r]] = r
    BY <1>0, <1>2, <2>1 DEF LoginOrder, Managed
  <2>2. ASSUME NEW d \in Ctls, pc'[d] # "none", ~replaced'[d],
               pc'[d] \notin {"gone", "refused", "failed"}
        PROVE  ctls'[run'[d]] = d
    <3>1. pc[d] \notin {"none", "gone", "refused", "failed"}
      BY <1>1, <2>2
    <3>2. ctls[run[d]] = d /\ run[d] \in RunIDs
      BY <1>0, <2>2, <3>1 DEF LoginOrder, Managed, Numbered
    <3> QED BY <1>0, <1>1, <1>2, <2>2, <3>2 DEF Del
  <2> QED BY <2>1, <2>2 DEF Managed
<1>5. Replaced'
  <2>1. ASSUME NEW d \in Ctls, replaced'[d] PROVE ~open'[d] /\ run'[d] # None
    BY <1>0, <2>1 DEF LoginOrder, Replaced
  <2>2. ASSUME NEW d \in Ctls, replaced'[d], ~Finished(d)'
        PROVE  ctls'[run'[d]] # None /\ d < ctls'[run'[d]]
    <3>1. /\ replaced[d] /\ ~Finished(d) /\ run[d] \in RunIDs
          /\ ctls[run[d]] # None /\ d < ctls[run[d]]
      BY <1>0, <1>1, <2>2 DEF LoginOrder, Replaced
    <3>2. ctls'[run[d]] = ctls[run[d]]
      <4> SUFFICES ASSUME ctls[run[d]] = c, run[d] = run[c] PROVE FALSE
        BY <1>2, <3>1
      <4> QED BY <3>1, ClosedFollows
    <3> QED BY <3>1, <3>2
  <2> QED BY <2>1, <2>2 DEF Replaced
<1>6. Waits'
  BY <1>0, <1>1 DEF LoginOrder, Waits
<1>7. Follows'
  BY <1>0, <1>1, ClosedFollows DEF LoginOrder, Follows
<1> QED BY <1>3, <1>4, <1>5, <1>6, <1>7 DEF LoginOrder

Answered(c) == pc[c] \in {"resp", "running", "closing"}

\* At most one control of a run id is past WaitClosed and not finished.
LEMMA AnsweredAlone ==
    ASSUME Inv, NEW c \in Ctls, NEW d \in Ctls, c # d, run[c] = run[d],
           Answered(c), Answered(d)
    PROVE  FALSE
<1>1. CtlFacts
  BY CtlFactsHold
<1>2. c < d \/ d < c
  BY <1>1 DEF CtlFacts
<1> QED BY <1>1, <1>2 DEF CtlFacts, LoginOrder, Follows, Finished, Answered

\* Taking the run id of c offline disturbs no other session.
LEMMA OfflineKeeps ==
    ASSUME Inv, NEW c \in Ctls, Answered(c), MarkOfflineByRunID(run[c]),
           NEW d \in Ctls, d # c, Answered(d), ~replaced[d]
    PROVE  online'[ClientOf[run[d]]] = run[d] /\ run[d] \in index'
<1>1. run[c] \in RunIDs /\ run[d] \in RunIDs
  BY HasRun DEF Answered
<1>2. run[c] # run[d]
  BY AnsweredAlone
<1>3. /\ online[ClientOf[run[d]]] = run[d] /\ run[d] \in index
      /\ online \in [ClientIDs -> RunIDs \cup {None}]
  BY DEF Inv, TypeOK, Online, Answered
<1> QED BY <1>1, <1>2, <1>3 DEF MarkOfflineByRunID, ClientIDs

\* A client that is taken on takes no other one's place.
LEMMA RegisterKeeps ==
    ASSUME Inv, NEW c \in Ctls, pc[c] = "wait", ~Conflict(run[c]), Register(run[c])
    PROVE  /\ online'[ClientOf[run[c]]] = run[c] /\ run[c] \in index'
           /\ \A d \in Ctls : Answered(d) /\ ~replaced[d] =>
                online'[ClientOf[run[d]]] = run[d] /\ run[d] \in index'
<1>1. run[c] \in RunIDs /\ ClientOf[run[c]] \in ClientIDs
  BY HasRun DEF ClientIDs
<1>2. /\ online \in [ClientIDs -> RunIDs \cup {None}]
      /\ None \notin RunIDs
  BY NoneAssumption DEF Inv, TypeOK
<1>3. /\ online'[ClientOf[run[c]]] = run[c] /\ run[c] \in index'
      /\ \A k \in ClientIDs : k # ClientOf[run[c]] => online'[k] = online[k]
      /\ \A r \in index : r \in RunIDs /\ r # run[c] /\ online[ClientOf[run[c]]] # r => r \in index'
      /\ online[ClientOf[run[c]]] \in {None, run[c]}
  BY <1>1, <1>2 DEF Register, Conflict
<1>4. ASSUME NEW d \in Ctls, Answered(d), ~replaced[d]
      PROVE  online'[ClientOf[run[d]]] = run[d] /\ run[d] \in index'
  <2>1. run[d] \in RunIDs /\ ClientOf[run[d]] \in ClientIDs
    BY <1>4, HasRun DEF Answered, ClientIDs
  <2>2. online[ClientOf[run[d]]] = run[d] /\ run[d] \in index
    BY <1>4 DEF Inv, Online, Answered
  <2> QED BY <1>1, <1>2, <1>3, <2>1, <2>2
<1> QED BY <1>3, <1>4

\* The steps of a login and of worker keep the order and the registry.
LEMMA SessionSteps ==
    ASSUME Inv, NEW c \in Ctls,
           loginSteps(c) \/ serverNotices(c) \/ worker(c) \/ finish(c) \/ reap(c)
    PROVE  LoginOrder' /\ Online'
<1> USE DEF regVars
<1>0. CtlFacts /\ Online
  BY CtlFactsHold DEF Inv
<1>1. CASE registerControl(c)
  <2>1. LoginOrder'
    BY <1>1, LoginOrderAdvance DEF registerControl
  <2>2. Online'
    BY <1>0, <1>1, RegisterKeeps DEF registerControl, Online, Answered, CtlFacts
  <2> QED BY <2>1, <2>2
<1>2. CASE registerRefused(c)
  <2>1. LoginOrder'
    BY <1>2, LoginOrderAdvance DEF registerRefused, Inv, TypeOK
  <2>2. Online'
    BY <1>0, <1>2 DEF registerRefused, Online, CtlFacts
  <2> QED BY <2>1, <2>2
<1>3. CASE start(c)
  <2>1. LoginOrder'
    BY <1>3, LoginOrderAdvance DEF start
  <2>2. Online'
    BY <1>0, <1>3 DEF start, Online, CtlFacts
  <2> QED BY <2>1, <2>2
<1>4. CASE loginFails(c)
  <2>1. LoginOrder'
    BY <1>4, LoginOrderAdvance DEF loginFails
  <2>2. Online'
    BY <1>0, <1>4, OfflineKeeps DEF loginFails, Online, Answered, CtlFacts
  <2> QED BY <2>1, <2>2
<1>5. CASE serverNotices(c)
  <2>1. /\ UNCHANGED <<pc, run, replaced, waits, ctls, online, index>>
        /\ \A d \in Ctls : open'[d] => open[d]
    BY <1>5 DEF serverNotices, Inv, TypeOK
  <2> QED BY <1>0, <2>1 DEF Online, CtlFacts, LoginOrder, Numbered, Managed, Replaced,
                            Waits, Follows, Finished
<1>6. CASE worker(c)
  <2>1. LoginOrder'
    BY <1>6, LoginOrderAdvance DEF worker
  <2>2. Online'
    BY <1>0, <1>6 DEF worker, Online, CtlFacts
  <2> QED BY <2>1, <2>2
<1>7. CASE finish(c)
  <2>1. LoginOrder'
    BY <1>7, LoginOrderAdvance DEF finish
  <2>2. Online'
    BY <1>0, <1>7, OfflineKeeps DEF finish, Online, Answered, CtlFacts
  <2> QED BY <2>1, <2>2
<1>8. CASE reap(c)
  <2>1. LoginOrder'
    BY <1>8, LoginOrderAdvance DEF reap
  <2>2. Online'
    BY <1>0, <1>8 DEF reap, Online, CtlFacts
  <2> QED BY <2>1, <2>2
<1> QED BY <1>1, <1>2, <1>3, <1>4, <1>5, <1>6, <1>7, <1>8 DEF loginSteps

\* A login leaves the registry as it was, and its own control is not answered.
LEMMA LoginOnline ==
    ASSUME Inv, NEW r \in RunIDs, NEW c \in Ctls, login(r, c)
    PROVE  Online'
<1>1. CtlFacts /\ Online
  BY CtlFactsHold DEF Inv
<1>2. /\ \A d \in Ctls : d # c => pc'[d] = pc[d] /\ run'[d] = run[d]
      /\ pc'[c] = "wait"
      /\ \A d \in Ctls : replaced[d] => replaced'[d]
      /\ UNCHANGED <<online, index>>
  BY <1>1 DEF login, regVars, CtlFacts
<1> QED BY <1>1, <1>2 DEF Online

-----------------------------------------------------------------------------
(* What the sessions hold.                                                 *)

\* A control moves on while it holds nothing, or while it stays live and has no
\* handler under way.
LEMMA HoldingsAdvance ==
    ASSUME Inv, NEW c \in Ctls, UNCHANGED <<pxyVars, portVars>>,
           \A d \in Ctls : d # c => pc'[d] = pc[d],
           \/ ~Live(c) /\ (pc'[c] = "running" => pc[c] = "resp")
           \/ At(c, "idle") /\ (pc[c] = "running" /\ pc'[c] = "closing")
           \/ At(c, "idle") /\ proxies[c] = {} /\ pc'[c] = "done",
           pc'[c] \in {"none", "wait", "resp"} => pc[c] \in {"none", "wait", "resp"}
    PROVE  Holdings' /\ Listeners' /\ QuotaExact'
<1> USE DEF pxyVars, portVars
<1>1. Holdings /\ Listeners /\ QuotaExact
  BY DEF Inv
<1>2. \A d \in Ctls : Live(d) => \/ Live(d)'
                                 \/ job[d].step = "idle" /\ proxies[d] = {}
  BY DEF Live, At
<1>3. Holdings'
  <2>1. \A d \in Ctls : job[d].step \in Registering => pc'[d] = "running"
    BY <1>1 DEF Holdings, JobHeld, Registering, Live, At
  <2>2. /\ \A d \in Ctls : job[d].step # "idle" => Live(d)'
        /\ \A d \in Ctls : \A n \in proxies[d] : Live(d)'
    BY <1>1, <1>2 DEF Holdings, JobHeld, NameHeld
  <2> QED BY <1>1, <2>1, <2>2 DEF Holdings, JobHeld, NameHeld, PortHeld, HasPort
<1>4. Listeners'
  BY <1>1 DEF Listeners, Serves
<1>5. QuotaExact'
  <2> SUFFICES ASSUME NEW d \in Ctls
               PROVE  /\ IsFiniteSet(proxies[d])
                      /\ pc'[d] \in {"none", "wait", "resp"} => quota[d] = 0
                      /\ pc'[d] = "running" => quota[d] = Cardinality(proxies[d]) +
                           IF job[d].step \in Registering THEN 1 ELSE 0
    BY DEF QuotaExact
  <2>1. CASE d # c
    BY <1>1, <2>1 DEF QuotaExact
  <2>2. CASE d = c
    <3>1. pc'[c] = "running" => /\ quota[c] = 0
                                /\ job[c].step \notin Registering /\ proxies[c] = {}
      BY <1>1 DEF Holdings, JobHeld, NameHeld, QuotaExact, Live, Registering
    <3> QED BY <1>1, <2>2, <3>1, FS_EmptySet DEF QuotaExact
  <2> QED BY <2>1, <2>2
<1> QED BY <1>3, <1>4, <1>5

\* The steps of logins and connections and of worker take nothing away.
LEMMA SessionHoldings ==
    ASSUME Inv, NEW c \in Ctls,
           \/ \E r \in RunIDs : login(r, c)
           \/ loginSteps(c) \/ serverNotices(c) \/ worker(c) \/ finish(c) \/ reap(c)
    PROVE  Holdings' /\ Listeners' /\ QuotaExact'
<1>0. CtlFacts
  BY CtlFactsHold
<1>1. CASE serverNotices(c)
  BY <1>1 DEF serverNotices, pxyVars, portVars, Inv, Holdings, JobHeld, NameHeld, PortHeld, Listeners, QuotaExact, Serves, HasPort, Live
<1>2. CASE worker(c)
  BY <1>0, <1>2, HoldingsAdvance DEF worker, CtlFacts, Live
<1>3. CASE finish(c)
  BY <1>0, <1>3, HoldingsAdvance DEF finish, CtlFacts, Live
<1>4. CASE (\E r \in RunIDs : login(r, c)) \/ loginSteps(c) \/ reap(c)
  <2>1. UNCHANGED <<pxyVars, portVars>>
    BY <1>4 DEF login, loginSteps, registerControl, registerRefused, start, loginFails, reap
  <2>2. /\ \A d \in Ctls : d # c => pc'[d] = pc[d]
        /\ ~Live(c) /\ (pc'[c] = "running" => pc[c] = "resp")
        /\ pc'[c] \in {"none", "wait", "resp"} => pc[c] \in {"none", "wait", "resp"}
    BY <1>0, <1>4 DEF CtlFacts, Live, login, loginSteps, registerControl, registerRefused,
                      start, loginFails, reap
  <2> QED BY <2>1, <2>2, HoldingsAdvance
<1> QED BY <1>1, <1>2, <1>3, <1>4

Steps == {"idle", "acquire", "listen", "add", "close", "release", "del"}
Jobs == [step : Steps, name : Names \cup {None}, port : Ports \cup {AnyPort, None}]

PxyFacts ==
  /\ job \in [Ctls -> Jobs]
  /\ proxies \in [Ctls -> SUBSET Names]
  /\ bound \in [Ctls -> [Names -> Ports \cup {None}]]
  /\ pxys \in [Names -> Ctls \cup {None}]
  /\ used \in [Ports -> Names \cup {None}]
  /\ listening \in [Ports -> Ctls \cup {None}]
  /\ quota \in [Ctls -> 0 .. MaxPortsPerClient]
  /\ None \notin Names /\ None \notin Ctls /\ None \notin Ports
  /\ JobHeld /\ NameHeld /\ PortHeld /\ Listeners /\ QuotaExact

\* What the proofs about proxies use of the invariant.
LEMMA PxyFactsHold == Inv => PxyFacts
BY NoneAssumption DEF PxyFacts, Jobs, Steps, Inv, TypeOK, Holdings

\* The listeners are as they were and so are the names they serve.
LEMMA ListenersKept ==
    ASSUME Inv, UNCHANGED listening,
           \A d \in Ctls, m \in Names : Serves(d, m)' <=> Serves(d, m),
           \A d \in Ctls, m \in Names : Serves(d, m) => bound'[d][m] = bound[d][m]
    PROVE  Listeners'
<1>0. Listeners
  BY DEF Inv
<1>1. \A d \in Ctls, m \in Names : Serves(d, m)' => listening'[bound'[d][m]] = d
  BY <1>0 DEF Listeners
<1>2. ASSUME NEW d \in Ctls, NEW m \in Names, NEW k \in Names,
             Serves(d, m)', Serves(d, k)', bound'[d][m] = bound'[d][k]
      PROVE  m = k
  <2>1. Serves(d, m) /\ Serves(d, k) /\ bound[d][m] = bound[d][k]
    BY <1>2
  <2> QED BY <1>0, <2>1 DEF Listeners
<1>3. ASSUME NEW p \in Ports, NEW d \in Ctls, listening'[p] = d
      PROVE  \E m \in Names : Serves(d, m)' /\ bound'[d][m] = p
  <2>1. PICK m \in Names : Serves(d, m) /\ bound[d][m] = p
    BY <1>0, <1>3 DEF Listeners
  <2> QED BY <2>1
<1> QED BY <1>1, <1>2, <1>3 DEF Listeners

\* No port changes hands.
LEMMA PortsKept ==
    ASSUME Inv, UNCHANGED <<bound, used>>,
           \A d \in Ctls, m \in Names : HasPort(d, m)' <=> HasPort(d, m)
    PROVE  PortHeld'
BY DEF Inv, Holdings, PortHeld

\* The port of the name under way is released and nothing else.
LEMMA ReleaseHolds ==
    ASSUME Inv, NEW c \in Ctls, NEW n \in Names, HasPort(c, n), Release(c, n),
           \A d \in Ctls, m \in Names : HasPort(d, m)' <=> HasPort(d, m) /\ ~(d = c /\ m = n)
    PROVE  PortHeld' /\ \A d \in Ctls, m \in Names : d # c \/ m # n => bound'[d][m] = bound[d][m]
<1> USE DEF PxyFacts
<1> DEFINE q == bound[c][n]
<1>0. PxyFacts /\ q \in Ports
  BY PxyFactsHold DEF PortHeld
<1>1. used' = [used EXCEPT ![q] = None] /\ bound' = [bound EXCEPT ![c][n] = None]
  BY DEF Release
<1>2. /\ bound'[c][n] = None
      /\ \A d \in Ctls, m \in Names : d # c \/ m # n => bound'[d][m] = bound[d][m]
  BY <1>0, <1>1
<1>3. \A d \in Ctls, m \in Names : bound'[d][m] # None <=> HasPort(d, m)'
  BY <1>0, <1>2 DEF PortHeld
<1>4. ASSUME NEW p \in Ports, used'[p] # None
      PROVE  \E d \in Ctls, m \in Names : bound'[d][m] = p
  <2>1. p # q /\ used[p] # None
    BY <1>0, <1>1, <1>4
  <2>2. PICK d \in Ctls, m \in Names : bound[d][m] = p
    BY <1>0, <2>1 DEF PortHeld
  <2> QED BY <1>2, <2>1, <2>2
<1> QED BY <1>2, <1>3, <1>4 DEF PortHeld

\* A request is accepted: only a job and the quota change.
LEMMA NewProxyHolds ==
    ASSUME Inv, NEW c \in Ctls, NEW n \in Names, NEW p, handleNewProxy(c, n, p)
    PROVE  Holdings' /\ Listeners' /\ QuotaExact'
<1> USE DEF PxyFacts
<1>0. PxyFacts
  BY PxyFactsHold
<1>1. /\ pc[c] = "running" /\ job[c].step = "idle" /\ pxys[n] = None
      /\ quota' = [quota EXCEPT ![c] = @ + 1]
      /\ job' = [job EXCEPT ![c] = [step |-> "acquire", name |-> n, port |-> p]]
      /\ UNCHANGED <<pc, proxies, bound, pxys, used, listening>>
  BY DEF handleNewProxy, At, ctlVars, portVars
<1>2. /\ job'[c].step = "acquire" /\ job'[c].name = n
      /\ \A d \in Ctls : d # c => job'[d] = job[d]
  BY <1>0, <1>1
<1>3. \A d \in Ctls, m \in Names : /\ Serves(d, m)' <=> Serves(d, m)
                                   /\ HasPort(d, m)' <=> HasPort(d, m)
  BY <1>0, <1>1, <1>2 DEF Serves, HasPort
<1>4. JobHeld'
  BY <1>0, <1>1, <1>2 DEF JobHeld, NameHeld, Live
<1>5. NameHeld'
  BY <1>0, <1>1, <1>2 DEF NameHeld, Registering, Live
<1>6. PortHeld' /\ Listeners'
  BY <1>1, <1>3, PortsKept, ListenersKept
<1>7. QuotaExact'
  BY <1>0, <1>1, <1>2, FS_CardinalityType DEF QuotaExact, Registering
<1> QED BY <1>4, <1>5, <1>6, <1>7 DEF Holdings

\* A port is acquired for the name under way, which had none.
LEMMA AcquireHolds ==
    ASSUME Inv, NEW c \in Ctls, acquire(c)
    PROVE  Holdings' /\ Listeners' /\ QuotaExact'
<1> USE DEF PxyFacts
<1> DEFINE n == job[c].name
<1>0. PxyFacts /\ job[c].step = "acquire" /\ n \in Names /\ n \notin proxies[c]
  BY PxyFactsHold, JobHolds DEF acquire, At
<1>1. PICK q \in Ports : /\ used' = [used EXCEPT ![q] = n]
                         /\ bound' = [bound EXCEPT ![c][n] = q]
  BY DEF acquire, Acquirable
<1>2. /\ job' = [job EXCEPT ![c].step = "listen"]
      /\ UNCHANGED <<pc, proxies, quota, pxys, listening>>
  BY DEF acquire, Goto, ctlVars
<1>3. bound[c][n] = None
  BY <1>0 DEF PortHeld, HasPort
<1>4. /\ job'[c].step = "listen" /\ job'[c].name = n
      /\ \A d \in Ctls : d # c => job'[d] = job[d]
  BY <1>0, <1>2 DEF Jobs
<1>5. /\ bound'[c][n] = q
      /\ \A d \in Ctls, m \in Names : d # c \/ m # n => bound'[d][m] = bound[d][m]
  BY <1>0, <1>1
<1>6. \A d \in Ctls, m \in Names : /\ Serves(d, m)' <=> Serves(d, m)
                                   /\ Serves(d, m) => d # c \/ m # n
                                   /\ HasPort(d, m)' <=> HasPort(d, m) \/ (d = c /\ m = n)
  BY <1>0, <1>2, <1>4 DEF Serves, HasPort
<1> HIDE DEF n
<1>7. JobHeld'
  BY <1>0, <1>2, <1>4 DEF JobHeld, Live, Registering, n
<1>8. NameHeld'
  BY <1>0, <1>2, <1>4 DEF NameHeld, Registering, Live, n
<1>9. PortHeld'
  <2>1. \A d \in Ctls, m \in Names : bound'[d][m] # None <=> HasPort(d, m)'
    BY <1>0, <1>5, <1>6 DEF PortHeld
  <2>2. ASSUME NEW p \in Ports, used'[p] # None
        PROVE  \E d \in Ctls, m \in Names : bound'[d][m] = p
    <3>1. CASE p = q
      BY <1>0, <1>5, <3>1
    <3>2. CASE p # q
      <4>1. used[p] # None
        BY <1>0, <1>1, <2>2, <3>2
      <4>2. PICK d \in Ctls, m \in Names : bound[d][m] = p
        BY <1>0, <4>1 DEF PortHeld
      <4> QED BY <1>0, <1>3, <1>5, <4>2
    <3> QED BY <3>1, <3>2
  <2> QED BY <2>1, <2>2 DEF PortHeld
<1>10. Listeners'
  BY <1>2, <1>5, <1>6, ListenersKept
<1>11. QuotaExact'
  BY <1>0, <1>2, <1>4 DEF QuotaExact, Registering
<1> QED BY <1>7, <1>8, <1>9, <1>10, <1>11 DEF Holdings
\* A registration that failed before or after it had a port: the job is over and
\* the quota returned.
LEMMA RegisterFails ==
    ASSUME Inv, NEW c \in Ctls, acquireFails(c) \/ listenFails(c)
    PROVE  Holdings' /\ Listeners' /\ QuotaExact'
<1> USE DEF PxyFacts
<1> DEFINE n == job[c].name
<1>0. /\ PxyFacts /\ job[c].step \in {"acquire", "listen"}
      /\ n \in Names /\ n \notin proxies[c]
  BY PxyFactsHold, JobHolds DEF acquireFails, listenFails, At
<1>1. /\ job' = [job EXCEPT ![c] = Idle]
      /\ quota' = [quota EXCEPT ![c] = @ - 1]
      /\ UNCHANGED <<pc, proxies, pxys, listening>>
  BY DEF acquireFails, listenFails, ctlVars, portVars
<1>2. /\ job'[c].step = "idle" /\ job'[c].name = None
      /\ \A d \in Ctls : d # c => job'[d] = job[d]
  BY <1>0, <1>1 DEF Idle
<1>3. \A d \in Ctls, m \in Names :
        /\ Serves(d, m)' <=> Serves(d, m)
        /\ Serves(d, m) => d # c \/ m # n
        /\ HasPort(d, m)' <=> HasPort(d, m) /\ ~(d = c /\ m = n)
  BY <1>0, <1>1, <1>2 DEF Serves, HasPort
<1> HIDE DEF n
<1>4. JobHeld'
  BY <1>0, <1>1, <1>2 DEF JobHeld, Live, Registering
<1>5. NameHeld'
  BY <1>0, <1>1, <1>2 DEF NameHeld, Registering, Live
<1>6. PortHeld' /\ \A d \in Ctls, m \in Names : d # c \/ m # n => bound'[d][m] = bound[d][m]
  <2>1. CASE acquireFails(c)
    <3>1. job[c].step = "acquire" /\ UNCHANGED <<bound, used>>
      BY <2>1 DEF acquireFails, At, portVars
    <3>2. ~HasPort(c, n)
      BY <1>0, <3>1 DEF HasPort
    <3> QED BY <1>3, <3>1, <3>2, PortsKept
  <2>2. CASE listenFails(c)
    <3>1. job[c].step = "listen" /\ Release(c, n)
      BY <2>2 DEF listenFails, At, n
    <3>2. HasPort(c, n)
      BY <3>1 DEF HasPort, n
    <3> QED BY <1>0, <1>3, <3>1, <3>2, ReleaseHolds
  <2> QED BY <2>1, <2>2
<1>7. Listeners'
  BY <1>1, <1>3, <1>6, ListenersKept
<1>8. QuotaExact'
  BY <1>0, <1>1, <1>2, FS_CardinalityType DEF QuotaExact, JobHeld, Registering
<1> QED BY <1>4, <1>5, <1>6, <1>7, <1>8 DEF Holdings

\* A listener is opened on a port nobody listens on.
LEMMA ListenHolds ==
    ASSUME Inv, NEW c \in Ctls, listen(c)
    PROVE  Holdings' /\ Listeners' /\ QuotaExact'
<1> USE DEF PxyFacts
<1> DEFINE n == job[c].name
           q == bound[c][n]
<1>0. /\ PxyFacts /\ job[c].step = "listen"
      /\ n \in Names /\ n \notin proxies[c] /\ q \in Ports
  BY PxyFactsHold, JobHolds DEF listen, At
<1>1. /\ job' = [job EXCEPT ![c].step = "add"]
      /\ listening[q] = None /\ listening' = [listening EXCEPT ![q] = c]
      /\ UNCHANGED <<pc, proxies, quota, bound, pxys, used>>
  BY DEF listen, Goto, ctlVars
<1>2. /\ job'[c].step = "add" /\ job'[c].name = n
      /\ \A d \in Ctls : d # c => job'[d] = job[d]
  BY <1>0, <1>1 DEF Jobs
<1>3. \A d \in Ctls, m \in Names :
        /\ Serves(d, m)' <=> Serves(d, m) \/ (d = c /\ m = n)
        /\ HasPort(d, m)' <=> HasPort(d, m)
  BY <1>0, <1>1, <1>2 DEF Serves, HasPort
<1> HIDE DEF n
<1>4. JobHeld'
  BY <1>0, <1>1, <1>2 DEF JobHeld, Live, Registering, n
<1>5. NameHeld'
  BY <1>0, <1>1, <1>2 DEF NameHeld, Registering, Live, n
<1>6. PortHeld'
  BY <1>1, <1>3, PortsKept
<1>7. Listeners'
  <2> HIDE DEF q
  <2>1. \A d \in Ctls, m \in Names : Serves(d, m) =>
          bound[d][m] \in Ports /\ listening[bound[d][m]] = d /\ bound[d][m] # q
    BY <1>0, <1>1 DEF PortHeld, HasPort, Serves, Listeners
  <2>2. \A d \in Ctls, m \in Names : Serves(d, m)' => listening'[bound'[d][m]] = d
    BY <1>0, <1>1, <1>3, <2>1 DEF q
  <2>3. ASSUME NEW d \in Ctls, NEW m \in Names, NEW k \in Names,
               Serves(d, m)', Serves(d, k)', bound'[d][m] = bound'[d][k]
        PROVE  m = k
    BY <1>0, <1>1, <1>3, <2>1, <2>3 DEF Listeners, q
  <2>4. ASSUME NEW p \in Ports, NEW d \in Ctls, listening'[p] = d
        PROVE  \E m \in Names : Serves(d, m)' /\ bound'[d][m] = p
    <3>1. CASE p = q
      BY <1>0, <1>1, <1>3, <2>4, <3>1 DEF q
    <3>2. CASE p # q
      <4>1. PICK m \in Names : Serves(d, m) /\ bound[d][m] = p
        BY <1>0, <1>1, <2>4, <3>2 DEF Listeners
      <4> QED BY <1>1, <1>3, <4>1
    <3> QED BY <3>1, <3>2
  <2> QED BY <2>2, <2>3, <2>4 DEF Listeners
<1>8. QuotaExact'
  BY <1>0, <1>1, <1>2 DEF QuotaExact, Registering
<1> QED BY <1>4, <1>5, <1>6, <1>7, <1>8 DEF Holdings

\* The name is registered, or another control's and the proxy is closed again.
LEMMA AddHolds ==
    ASSUME Inv, NEW c \in Ctls, add(c) \/ addFails(c)
    PROVE  Holdings' /\ Listeners' /\ QuotaExact'
<1> USE DEF PxyFacts
<1> DEFINE n == job[c].name
<1>0. /\ PxyFacts /\ job[c].step = "add"
      /\ n \in Names /\ n \notin proxies[c] /\ pc[c] = "running"
  BY PxyFactsHold, JobHolds DEF add, addFails, At, JobHeld, Registering
<1>1. UNCHANGED <<pc, bound, used, listening>>
  BY DEF add, addFails, ctlVars, portVars
<1>2. CASE add(c)
  <2>1. /\ pxys[n] = None /\ pxys' = [pxys EXCEPT ![n] = c]
        /\ proxies' = [proxies EXCEPT ![c] = @ \cup {n}]
        /\ job' = [job EXCEPT ![c] = Idle] /\ UNCHANGED quota
    BY <1>2 DEF add
  <2>2. /\ job'[c].step = "idle" /\ job'[c].name = None
        /\ \A d \in Ctls : d # c => job'[d] = job[d] /\ proxies'[d] = proxies[d]
        /\ proxies'[c] = proxies[c] \cup {n}
        /\ pxys'[n] = c /\ \A m \in Names : m # n => pxys'[m] = pxys[m]
    BY <1>0, <2>1 DEF Idle
  <2>3. \A d \in Ctls, m \in Names : /\ Serves(d, m)' <=> Serves(d, m)
                                     /\ HasPort(d, m)' <=> HasPort(d, m)
    BY <1>0, <2>2 DEF Serves, HasPort
  <2> HIDE DEF n
  <2>4. JobHeld'
    <3>1. \A d \in Ctls : job'[d].step # "idle" => job'[d] = job[d] /\ proxies'[d] = proxies[d]
      BY <2>2
    <3>2. \A d \in Ctls : job'[d].step = "idle" <=> job'[d].name = None
      BY <1>0, <2>2 DEF JobHeld
    <3> QED BY <1>0, <1>1, <3>1, <3>2 DEF JobHeld, Live, Registering
  <2>5. NameHeld'
    BY <1>0, <1>1, <2>1, <2>2 DEF NameHeld, JobHeld, Registering, Live, n
  <2>6. PortHeld' /\ Listeners'
    BY <1>1, <2>3, PortsKept, ListenersKept
  <2>7. QuotaExact'
    <3>1. /\ IsFiniteSet(proxies'[c])
          /\ Cardinality(proxies'[c]) = Cardinality(proxies[c]) + 1
      <4>1. IsFiniteSet(proxies[c])
        BY <1>0 DEF QuotaExact
      <4> HIDE DEF PxyFacts
      <4>2. n \notin proxies[c]
        BY <1>0
      <4>3. /\ IsFiniteSet(proxies[c] \cup {n})
            /\ Cardinality(proxies[c] \cup {n}) =
                 IF n \in proxies[c] THEN Cardinality(proxies[c]) ELSE Cardinality(proxies[c]) + 1
        BY <4>1, FS_AddElement, Zenon
      <4> QED BY <2>2, <4>2, <4>3
    <3>2. quota'[c] = Cardinality(proxies'[c]) + 0
      BY <1>0, <2>1, <3>1, FS_CardinalityType DEF QuotaExact, Registering
    <3> QED BY <1>0, <1>1, <2>1, <2>2, <3>1, <3>2 DEF QuotaExact, Registering
  <2> QED BY <2>4, <2>5, <2>6, <2>7 DEF Holdings
<1>3. CASE addFails(c)
  <2>1. /\ job' = [job EXCEPT ![c].step = "close"]
        /\ quota' = [quota EXCEPT ![c] = @ - 1]
        /\ UNCHANGED <<proxies, pxys>>
    BY <1>3 DEF addFails, Goto
  <2>2. /\ job'[c].step = "close" /\ job'[c].name = n
        /\ \A d \in Ctls : d # c => job'[d] = job[d]
    BY <1>0, <2>1 DEF Jobs
  <2>3. \A d \in Ctls, m \in Names : /\ Serves(d, m)' <=> Serves(d, m)
                                     /\ HasPort(d, m)' <=> HasPort(d, m)
    BY <1>0, <2>1, <2>2 DEF Serves, HasPort
  <2> HIDE DEF n
  <2>4. JobHeld'
    BY <1>0, <1>1, <2>1, <2>2 DEF JobHeld, Live, Registering
  <2>5. NameHeld'
    BY <1>0, <1>1, <2>1, <2>2 DEF NameHeld, Registering, Live
  <2>6. PortHeld' /\ Listeners'
    BY <1>1, <2>3, PortsKept, ListenersKept
  <2>7. QuotaExact'
    BY <1>0, <1>1, <2>1, <2>2, FS_CardinalityType DEF QuotaExact, Registering
  <2> QED BY <2>4, <2>5, <2>6, <2>7 DEF Holdings
<1> QED BY <1>2, <1>3

\* A proxy is taken off the list and will be closed, by CloseProxy or by worker.
LEMMA StartCloseHolds ==
    ASSUME Inv, NEW c \in Ctls, NEW n \in Names, handleCloseProxy(c, n) \/ closeProxies(c, n)
    PROVE  Holdings' /\ Listeners' /\ QuotaExact'
<1> USE DEF PxyFacts
<1>0. PxyFacts
  BY PxyFactsHold
<1>1. /\ job[c].step = "idle" /\ n \in proxies[c] /\ Live(c)
      /\ proxies' = [proxies EXCEPT ![c] = @ \ {n}]
      /\ job' = [job EXCEPT ![c] = [step |-> "close", name |-> n, port |-> None]]
      /\ UNCHANGED <<pc, bound, pxys, used, listening>>
  BY DEF handleCloseProxy, closeProxies, At, Live, ctlVars, portVars
<1>2. /\ job'[c].step = "close" /\ job'[c].name = n
      /\ \A d \in Ctls : d # c => job'[d] = job[d] /\ proxies'[d] = proxies[d]
      /\ proxies'[c] = proxies[c] \ {n}
  BY <1>0, <1>1
<1>3. \A d \in Ctls, m \in Names : /\ Serves(d, m)' <=> Serves(d, m)
                                   /\ HasPort(d, m)' <=> HasPort(d, m)
  BY <1>0, <1>1, <1>2 DEF Serves, HasPort
<1>4. JobHeld'
  BY <1>0, <1>1, <1>2 DEF JobHeld, Live, Registering
<1>5. NameHeld'
  BY <1>0, <1>1, <1>2 DEF NameHeld, JobHeld, Registering, Live
<1>6. PortHeld' /\ Listeners'
  BY <1>1, <1>3, PortsKept, ListenersKept
<1>7. QuotaExact'
  <2>1. /\ IsFiniteSet(proxies'[c]) /\ Cardinality(proxies[c]) \in Nat
        /\ Cardinality(proxies'[c]) = Cardinality(proxies[c]) - 1
    BY <1>0, <1>1, <1>2, FS_RemoveElement, FS_CardinalityType DEF QuotaExact
  <2>2. /\ pc[c] = "running" => quota'[c] = quota[c] - 1
        /\ \A d \in Ctls : d # c => quota'[d] = quota[d]
    BY <1>0 DEF handleCloseProxy, closeProxies
  <2>3. pc[c] = "running" => quota'[c] = Cardinality(proxies'[c]) + 0
    BY <1>0, <1>1, <2>1, <2>2 DEF QuotaExact, Registering
  <2> QED BY <1>0, <1>1, <1>2, <2>1, <2>2, <2>3 DEF QuotaExact, Registering, Live
<1> QED BY <1>4, <1>5, <1>6, <1>7 DEF Holdings

\* Its listener is closed: it was this name's and no other's.
LEMMA CloseListenerHolds ==
    ASSUME Inv, NEW c \in Ctls, closeListener(c)
    PROVE  Holdings' /\ Listeners' /\ QuotaExact'
<1> USE DEF PxyFacts
<1> DEFINE n == job[c].name
           q == bound[c][n]
<1>0. /\ PxyFacts /\ job[c].step = "close"
      /\ n \in Names /\ n \notin proxies[c] /\ q \in Ports
  BY PxyFactsHold, JobHolds DEF closeListener, At
<1>1. /\ job' = [job EXCEPT ![c].step = "release"]
      /\ listening' = [listening EXCEPT ![q] = None]
      /\ UNCHANGED <<pc, proxies, quota, bound, pxys, used>>
  BY DEF closeListener, Goto, ctlVars
<1>2. /\ job'[c].step = "release" /\ job'[c].name = n
      /\ \A d \in Ctls : d # c => job'[d] = job[d]
  BY <1>0, <1>1 DEF Jobs
<1>3. Serves(c, n) /\ \A d \in Ctls, m \in Names :
        /\ Serves(d, m)' <=> Serves(d, m) /\ ~(d = c /\ m = n)
        /\ HasPort(d, m)' <=> HasPort(d, m)
  BY <1>0, <1>1, <1>2 DEF Serves, HasPort
<1> HIDE DEF n
<1>4. JobHeld'
  BY <1>0, <1>1, <1>2 DEF JobHeld, Live, Registering, n
<1>5. NameHeld'
  BY <1>0, <1>1, <1>2 DEF NameHeld, Registering, Live, n
<1>6. PortHeld'
  BY <1>1, <1>3, PortsKept
<1>7. Listeners'
  <2>1. listening[q] = c
    BY <1>0, <1>3 DEF Listeners
  <2>2. ASSUME NEW d \in Ctls, NEW m \in Names, Serves(d, m)'
        PROVE  Serves(d, m) /\ bound[d][m] \in Ports /\ bound[d][m] # q
    <3>1. Serves(d, m) /\ ~(d = c /\ m = n)
      BY <1>3, <2>2
    <3>2. bound[d][m] \in Ports /\ listening[bound[d][m]] = d
      BY <1>0, <3>1 DEF Listeners, PortHeld, HasPort, Serves
    <3>3. bound[d][m] # q
      BY <1>0, <1>3, <2>1, <3>1, <3>2 DEF Listeners
    <3> QED BY <3>1, <3>2, <3>3
  <2> HIDE DEF q
  <2>3. \A d \in Ctls, m \in Names : Serves(d, m)' => listening'[bound'[d][m]] = d
    BY <1>0, <1>1, <2>2 DEF Listeners
  <2>4. ASSUME NEW d \in Ctls, NEW m \in Names, NEW k \in Names,
               Serves(d, m)', Serves(d, k)', bound'[d][m] = bound'[d][k]
        PROVE  m = k
    BY <1>0, <1>1, <2>2, <2>4 DEF Listeners
  <2>5. ASSUME NEW p \in Ports, NEW d \in Ctls, listening'[p] = d
        PROVE  \E m \in Names : Serves(d, m)' /\ bound'[d][m] = p
    <3>1. p # q /\ listening[p] = d
      BY <1>0, <1>1, <2>5
    <3>2. PICK m \in Names : Serves(d, m) /\ bound[d][m] = p
      BY <1>0, <3>1 DEF Listeners
    <3>3. ~(d = c /\ m = n)
      BY <3>1, <3>2 DEF q
    <3> QED BY <1>1, <1>3, <3>2, <3>3
  <2> QED BY <2>3, <2>4, <2>5 DEF Listeners
<1>8. QuotaExact'
  BY <1>0, <1>1, <1>2 DEF QuotaExact, Registering
<1> QED BY <1>4, <1>5, <1>6, <1>7, <1>8 DEF Holdings

\* Its port is released; the name is given up only if it was this control's.
LEMMA ReleaseStepHolds ==
    ASSUME Inv, NEW c \in Ctls, release(c)
    PROVE  Holdings' /\ Listeners' /\ QuotaExact'
<1> USE DEF PxyFacts
<1> DEFINE n == job[c].name
<1>0. /\ PxyFacts /\ job[c].step = "release"
      /\ n \in Names /\ n \notin proxies[c] /\ Live(c)
  BY PxyFactsHold, JobHolds DEF release, At
<1>1. /\ Release(c, n)
      /\ job' = [job EXCEPT ![c] = IF pxys[n] = c THEN [@ EXCEPT !.step = "del"] ELSE Idle]
      /\ UNCHANGED <<pc, proxies, quota, pxys, listening>>
  BY DEF release, ctlVars
<1>2. /\ pxys[n] = c => job'[c].step = "del" /\ job'[c].name = n
      /\ pxys[n] # c => job'[c].step = "idle" /\ job'[c].name = None
      /\ \A d \in Ctls : d # c => job'[d] = job[d]
  BY <1>0, <1>1 DEF Jobs, Idle
<1>3. HasPort(c, n) /\ \A d \in Ctls, m \in Names :
        /\ Serves(d, m)' <=> Serves(d, m)
        /\ Serves(d, m) => d # c \/ m # n
        /\ HasPort(d, m)' <=> HasPort(d, m) /\ ~(d = c /\ m = n)
  BY <1>0, <1>1, <1>2 DEF Serves, HasPort
<1> HIDE DEF n
<1>4. JobHeld'
  BY <1>0, <1>1, <1>2 DEF JobHeld, Live, Registering
<1>5. NameHeld'
  BY <1>0, <1>1, <1>2 DEF NameHeld, Registering, Live, n
<1>6. PortHeld' /\ \A d \in Ctls, m \in Names : d # c \/ m # n => bound'[d][m] = bound[d][m]
  BY <1>0, <1>1, <1>3, ReleaseHolds
<1>7. Listeners'
  BY <1>1, <1>3, <1>6, ListenersKept
<1>8. QuotaExact'
  BY <1>0, <1>1, <1>2 DEF QuotaExact, Registering
<1> QED BY <1>4, <1>5, <1>6, <1>7, <1>8 DEF Holdings

\* The name is free again.
LEMMA DelNameHolds ==
    ASSUME Inv, NEW c \in Ctls, delName(c)
    PROVE  Holdings' /\ Listeners' /\ QuotaExact'
<1> USE DEF PxyFacts
<1> DEFINE n == job[c].name
<1>0. /\ PxyFacts /\ job[c].step = "del"
      /\ n \in Names /\ n \notin proxies[c] /\ pxys[n] = c
  BY PxyFactsHold, JobHolds DEF delName, At, NameHeld
<1>1. /\ job' = [job EXCEPT ![c] = Idle] /\ pxys' = [pxys EXCEPT ![n] = None]
      /\ UNCHANGED <<pc, proxies, quota, bound, used, listening>>
  BY DEF delName, ctlVars, portVars
<1>2. /\ job'[c].step = "idle" /\ job'[c].name = None
      /\ \A d \in Ctls : d # c => job'[d] = job[d]
      /\ pxys'[n] = None /\ \A m \in Names : m # n => pxys'[m] = pxys[m]
  BY <1>0, <1>1 DEF Idle
<1>3. \A d \in Ctls, m \in Names : /\ Serves(d, m)' <=> Serves(d, m)
                                   /\ HasPort(d, m)' <=> HasPort(d, m)
  BY <1>0, <1>1, <1>2 DEF Serves, HasPort
<1> HIDE DEF n
<1>4. JobHeld'
  BY <1>0, <1>1, <1>2 DEF JobHeld, Live, Registering
<1>5. NameHeld'
  BY <1>0, <1>1, <1>2 DEF NameHeld, JobHeld, Registering, Live, n
<1>6. PortHeld' /\ Listeners'
  BY <1>1, <1>3, PortsKept, ListenersKept
<1>7. QuotaExact'
  BY <1>0, <1>1, <1>2 DEF QuotaExact, Registering
<1> QED BY <1>4, <1>5, <1>6, <1>7 DEF Holdings

-----------------------------------------------------------------------------
\* Every step keeps the invariant.
LEMMA NextInv == Inv /\ [Next]_vars => Inv'
<1> SUFFICES ASSUME Inv, [Next]_vars PROVE Inv'
  OBVIOUS
<1>1. ASSUME NEW c \in Ctls, NEW r \in RunIDs, login(r, c) PROVE Inv'
  <2>1. TypeOK'
    BY <1>1, LoginTypes
  <2>2. Holdings' /\ Listeners' /\ QuotaExact'
    BY <1>1, SessionHoldings
  <2> QED BY <1>1, <2>1, <2>2, LoginOrderLogin, LoginOnline DEF Inv
<1>2. ASSUME NEW c \in Ctls,
             loginSteps(c) \/ serverNotices(c) \/ worker(c) \/ finish(c) \/ reap(c)
      PROVE  Inv'
  BY <1>2, LoginTypes, SessionSteps, SessionHoldings DEF Inv
<1>3. ASSUME NEW c \in Ctls,
             \/ jobSteps(c)
             \/ \E q \in Requests : handleNewProxy(c, q[1], q[2])
             \/ \E n \in Names : handleCloseProxy(c, n) \/ closeProxies(c, n)
      PROVE  Inv'
  <2>1. TypeOK'
    BY <1>3, ProxyTypes
  <2>2. \A q \in Requests : q[1] \in Names
    BY FrpControlAssumption
  <2>3. Holdings' /\ Listeners' /\ QuotaExact'
    BY <1>3, <2>2, NewProxyHolds, AcquireHolds, RegisterFails, ListenHolds, AddHolds,
       StartCloseHolds, CloseListenerHolds, ReleaseStepHolds, DelNameHolds DEF jobSteps
  <2>4. UNCHANGED <<ctlVars, regVars>>
    BY <1>3 DEF jobSteps, handleNewProxy, handleCloseProxy, closeProxies, acquire,
                acquireFails, listen, listenFails, add, addFails, closeListener, release, delName
  <2>5. LoginOrder' /\ Online'
    BY <2>4 DEF ctlVars, regVars, Inv, LoginOrder, Numbered, Managed, Replaced, Waits,
                Follows, Finished, Online
  <2> QED BY <2>1, <2>3, <2>5 DEF Inv
<1>4. ASSUME UNCHANGED <<ctlVars, pxyVars, used, listening, regVars>>, TypeOK'
      PROVE  Inv'
  BY <1>4 DEF ctlVars, pxyVars, regVars, Inv, LoginOrder, Numbered, Managed, Replaced,
              Waits, Follows, Finished, Online, Holdings, JobHeld, NameHeld, PortHeld,
              Listeners, Serves, HasPort, Live, QuotaExact
<1>5. ASSUME \/ \E r \in RunIDs : linkBreaks(r) \/ clientNotices(r)
             \/ \E n \in Names : cleanReserved(n)
      PROVE  Inv'
  BY <1>4, <1>5, OtherTypes DEF linkBreaks, clientNotices, cleanReserved, portVars
<1>6. CASE UNCHANGED vars
  BY <1>4, <1>6 DEF vars, ctlVars, pxyVars, portVars, regVars, cliVars, Inv, TypeOK
<1> QED BY <1>1, <1>2, <1>3, <1>5, <1>6 DEF Next, workerSteps

\* The invariant holds in every state the server reaches.
THEOREM Invariance == Spec => []Inv
<1>1. Init => Inv
  BY InitInv
<1>2. Inv /\ [Next]_vars => Inv'
  BY NextInv
<1> QED BY <1>1, <1>2, PTL DEF Spec

\* Every variable keeps its type, portsUsedNum within the client's quota.
THEOREM TypesCorrect == Spec => []TypeOK
<1>1. Inv => TypeOK
  BY DEF Inv
<1> QED BY <1>1, Invariance, PTL

\* Two sessions of one run id never hold resources at the same time, however
\* many logins of it are under way (ctlManager.Add, WaitClosed, Start).
THEOREM SessionsExclude == Spec => []OneSession
<1>1. Inv => OneSession
  <2> SUFFICES ASSUME Inv, NEW c \in Ctls, NEW d \in Ctls, c # d, run[c] = run[d],
                      Live(c), Live(d)
               PROVE  FALSE
    BY DEF OneSession
  <2> QED BY AnsweredAlone DEF Answered, Live
<1> QED BY <1>1, Invariance, PTL

\* A running session with an open connection is the one its run id leads to and
\* is shown online: no cleanup of an older one takes it out (ControlManager.Del,
\* MarkOfflineByRunID).
THEOREM RunningStaysReachable == Spec => []RunningReachable
<1>1. Inv => RunningReachable
  <2> SUFFICES ASSUME Inv, NEW c \in Ctls, pc[c] = "running", open[c]
               PROVE  /\ ctls[run[c]] = c
                      /\ online[ClientOf[run[c]]] = run[c] /\ run[c] \in index
    BY DEF RunningReachable
  <2>1. ~replaced[c]
    BY DEF Inv, LoginOrder, Replaced
  <2> QED BY <2>1 DEF Inv, LoginOrder, Managed, Online
<1> QED BY <1>1, Invariance, PTL

\* Ports, listeners and names go with the session they were given to, on every
\* error path of RegisterProxy and every exit of worker.
THEOREM HoldingsEnd == Spec => []NothingLeaks
<1>1. Inv => NothingLeaks
  <2> SUFFICES ASSUME Inv PROVE NothingLeaks
    OBVIOUS
  <2> USE DEF PxyFacts
  <2>0. PxyFacts
    BY PxyFactsHold
  <2>1. \A c \in Ctls, n \in Names : bound[c][n] # None => Live(c)
    BY <2>0 DEF PortHeld, HasPort, JobHeld, NameHeld
  <2>2. ASSUME NEW p \in Ports, used[p] # None
        PROVE  \E c \in Ctls, n \in Names : Live(c) /\ bound[c][n] = p
    <3>1. PICK c \in Ctls, n \in Names : bound[c][n] = p
      BY <2>0, <2>2 DEF PortHeld
    <3> QED BY <2>0, <2>1, <3>1
  <2>3. ASSUME NEW p \in Ports, listening[p] # None
        PROVE  Live(listening[p]) /\ \E n \in Names : bound[listening[p]][n] = p
    <3>1. listening[p] \in Ctls
      BY <2>0, <2>3
    <3>2. PICK n \in Names : bound[listening[p]][n] = p
      BY <2>0, <3>1 DEF Listeners
    <3> QED BY <2>0, <2>1, <3>1, <3>2
  <2>4. ASSUME NEW n \in Names, pxys[n] # None
        PROVE  Live(pxys[n]) /\ (n \in proxies[pxys[n]] \/ job[pxys[n]].name = n)
    <3>1. pxys[n] \in Ctls
      BY <2>0, <2>4
    <3> QED BY <2>0, <2>4, <3>1 DEF NameHeld, JobHeld
  <2> QED BY <2>2, <2>3, <2>4 DEF NothingLeaks
<1> QED BY <1>1, Invariance, PTL

(***************************************************************************)
(* The proxy of a client.  The answers of the server do not tell which     *)
(* request they are for, so the argument is about what the requests still  *)
(* under way will leave registered.                                        *)
(***************************************************************************)

ProxyRequests == [type : {"NewProxy", "CloseProxy"}, cfg : 1 .. MaxTroubles + 1]
Closes(i) == c2s[i].type = "CloseProxy"
NothingCloses == \A i \in 1 .. Len(c2s) : ~Closes(i)

\* Once the server has handled what is under way, nothing is registered.
EndsClosed ==
  \/ c2s = <<>> /\ reg = 0
  \/ c2s # <<>> /\ Closes(Len(c2s))

\* Once the server has handled what is under way, and if nobody else takes the
\* name, this configuration is registered: it is now and stays so, or the first
\* request after the last CloseProxy asks for it.
EndsServed ==
  \/ reg = cfg /\ NothingCloses
  \/ \E i \in 1 .. Len(c2s) :
       /\ c2s[i] = newProxy(cfg)
       /\ \A k \in 1 .. Len(c2s) : k > i => ~Closes(k)
       /\ IF i = 1 THEN reg = 0 ELSE Closes(i - 1)

\* Every reload was one of the troubles.
CfgNumbered == cfg <= troubles + 1

\* A wrapper that has nothing to run has asked for its proxy to be closed.
IdleCloses == phase \in {"none", "new", "check failed"} => EndsClosed

\* With the name to itself, a wrapper that waits or runs gets its proxy.
Unopposed ==
  "taken" \notin kinds =>
    /\ ~taken
    /\ phase \in {"wait start", "running"} => EndsServed
    /\ phase = "start error" => EndsServed \/ EndsClosed

\* Without health checks and reloads only a failed local start closes a proxy,
\* after the one "ok" that it had: at most one of the two is under way, and
\* until the CloseProxy is handled the proxy stays registered.
Unchanging ==
  kinds \cap {"health", "reload"} = {} =>
    /\ cfg = 1 /\ healthy /\ phase \notin {"none", "check failed"}
    /\ \A i \in 1 .. Len(c2s) : Closes(i) => reg = cfg
    /\ \A i, k \in 1 .. Len(c2s) : Closes(i) /\ Closes(k) => i = k
    /\ \A i \in 1 .. Len(s2c) : s2c[i] = "ok" => reg = cfg /\ NothingCloses
    /\ \A i, k \in 1 .. Len(s2c) : s2c[i] = "ok" /\ s2c[k] = "ok" => i = k
    /\ phase = "running" =>
         reg = cfg /\ NothingCloses /\ \A i \in 1 .. Len(s2c) : s2c[i] # "ok"
    /\ \A i \in 1 .. Len(c2s) : c2s[i].cfg = cfg

ProxyInv == ProxyTypeOK /\ CfgNumbered /\ IdleCloses /\ Unopposed /\ Unchanging

\* Nobody else takes the name while this client closes and reopens its proxy.
Benign(k) == "taken" \in k => k \cap {"health", "reload"} = {}

-----------------------------------------------------------------------------
(* The requests under way. *)

\* ProxyRequests keep their place when one more is sent.
LEMMA Sent ==
    ASSUME ProxyTypeOK, NEW m \in ProxyRequests, c2s' = Append(c2s, m)
    PROVE  /\ c2s' \in Seq(ProxyRequests) /\ Len(c2s') = Len(c2s) + 1 /\ Len(c2s) \in Nat
           /\ c2s'[Len(c2s')] = m
           /\ \A i \in 1 .. Len(c2s) : c2s'[i] = c2s[i] /\ c2s[i] \in ProxyRequests
<1>1. c2s \in Seq(ProxyRequests)
  BY DEF ProxyTypeOK, ProxyRequests
<1> QED BY <1>1

\* ProxyRequests move up when the first is handled.
LEMMA Handled ==
    ASSUME ProxyTypeOK, c2s # <<>>, c2s' = Tail(c2s)
    PROVE  /\ c2s' \in Seq(ProxyRequests) /\ Len(c2s') = Len(c2s) - 1
           /\ Len(c2s) \in Nat \ {0} /\ Head(c2s) = c2s[1] /\ c2s[1] \in ProxyRequests
           /\ \A i \in 1 .. Len(c2s') : c2s'[i] = c2s[i + 1]
           /\ \A i \in 2 .. Len(c2s) : c2s'[i - 1] = c2s[i]
<1>1. c2s \in Seq(ProxyRequests)
  BY DEF ProxyTypeOK, ProxyRequests
<1>2. /\ c2s' \in Seq(ProxyRequests) /\ Len(c2s') = Len(c2s) - 1
      /\ Len(c2s) \in Nat \ {0} /\ Head(c2s) = c2s[1] /\ c2s[1] \in ProxyRequests
      /\ \A i \in 1 .. Len(c2s') : c2s'[i] = c2s[i + 1]
  BY <1>1
<1>3. ASSUME NEW i \in 2 .. Len(c2s) PROVE c2s'[i - 1] = c2s[i]
  <2>1. i - 1 \in 1 .. Len(c2s') /\ (i - 1) + 1 = i
    BY <1>2
  <2> QED BY <1>2, <2>1
<1> QED BY <1>2, <1>3

\* A proxy is registered with a configuration that has a number.
LEMMA Numbers ==
    ASSUME ProxyTypeOK
    PROVE  /\ MaxTroubles \in Nat /\ cfg \in Nat \ {0} /\ cfg <= MaxTroubles + 1
           /\ newProxy(cfg) \in ProxyRequests /\ closeProxy(cfg) \in ProxyRequests
           /\ newProxy(cfg).type = "NewProxy" /\ newProxy(cfg).cfg = cfg
           /\ closeProxy(cfg).type = "CloseProxy" /\ closeProxy(cfg).cfg = cfg
<1>1. MaxTroubles \in Nat /\ cfg \in 1 .. MaxTroubles + 1
  BY FrpProxyAssumption DEF ProxyTypeOK
<1> QED BY <1>1 DEF ProxyRequests, newProxy, closeProxy

\* CloseProxy sent last leaves nothing.
LEMMA CloseSent ==
    ASSUME ProxyTypeOK, c2s' = Append(c2s, closeProxy(cfg))
    PROVE  EndsClosed' /\ c2s' \in Seq(ProxyRequests)
<1>1. c2s' # <<>> /\ c2s'[Len(c2s')].type = "CloseProxy" /\ c2s' \in Seq(ProxyRequests)
  BY Sent, Numbers
<1> QED BY <1>1 DEF EndsClosed, Closes

\* A request after that, or one more of a proxy that is coming, is served.
LEMMA NewSent ==
    ASSUME ProxyTypeOK, c2s' = Append(c2s, newProxy(cfg)), UNCHANGED <<cfg, reg>>,
           EndsClosed \/ EndsServed
    PROVE  EndsServed'
<1> DEFINE n == Len(c2s')
<1>1. /\ n = Len(c2s) + 1 /\ Len(c2s) \in Nat /\ c2s'[n] = newProxy(cfg)
      /\ \A i \in 1 .. Len(c2s) : c2s'[i] = c2s[i]
  BY Sent, Numbers
<1>2. newProxy(cfg).type # "CloseProxy"
  BY Numbers
<1>3. CASE EndsClosed
  <2>1. IF n = 1 THEN reg = 0 ELSE c2s'[n - 1].type = "CloseProxy"
    <3>1. CASE c2s = <<>> /\ reg = 0
      BY <1>1, <3>1
    <3>2. CASE c2s # <<>> /\ Closes(Len(c2s))
      <4>1. Len(c2s) # 0
        <5>1. c2s \in Seq(ProxyRequests)
          BY DEF ProxyTypeOK, ProxyRequests
        <5> QED BY <3>2, <5>1
      <4>2. n - 1 = Len(c2s) /\ n # 1 /\ Len(c2s) \in 1 .. Len(c2s)
        BY <1>1, <4>1
      <4> QED BY <1>1, <3>2, <4>2 DEF Closes
    <3> QED BY <1>3, <3>1, <3>2 DEF EndsClosed
  <2>2. n \in 1 .. Len(c2s') /\ \A k \in 1 .. Len(c2s') : ~(k > n)
    BY <1>1
  <2> QED BY <1>1, <2>1, <2>2 DEF EndsServed, Closes, newProxy
<1>4. CASE reg = cfg /\ NothingCloses
  <2>1. \A i \in 1 .. n : c2s'[i].type # "CloseProxy"
    BY <1>1, <1>2, <1>4 DEF NothingCloses, Closes
  <2> QED BY <1>4, <2>1 DEF EndsServed, NothingCloses, Closes
<1>5. CASE \E i \in 1 .. Len(c2s) : /\ c2s[i] = newProxy(cfg)
                                    /\ \A k \in 1 .. Len(c2s) : k > i => ~Closes(k)
                                    /\ IF i = 1 THEN reg = 0 ELSE Closes(i - 1)
  <2>1. PICK i \in 1 .. Len(c2s) : /\ c2s[i] = newProxy(cfg)
                                   /\ \A k \in 1 .. Len(c2s) : k > i => ~Closes(k)
                                   /\ IF i = 1 THEN reg = 0 ELSE Closes(i - 1)
    BY <1>5
  <2>2. i \in 1 .. Len(c2s') /\ c2s'[i] = newProxy(cfg)
    BY <1>1, <2>1
  <2>3. \A k \in 1 .. Len(c2s') : k > i => c2s'[k].type # "CloseProxy"
    BY <1>1, <1>2, <2>1 DEF Closes
  <2>4. IF i = 1 THEN reg = 0 ELSE c2s'[i - 1].type = "CloseProxy"
    BY <1>1, <2>1 DEF Closes
  <2> QED BY <2>2, <2>3, <2>4 DEF EndsServed, Closes, newProxy
<1> QED BY <1>3, <1>4, <1>5 DEF EndsServed

\* The server does not change what the requests end in, whoever has the name:
\* nothing stays nothing ...
LEMMA ClosedStays ==
    ASSUME ProxyTypeOK, EndsClosed, serverNewProxy \/ serverCloseProxy
    PROVE  EndsClosed'
<1>1. c2s # <<>> /\ c2s' = Tail(c2s) /\ Closes(Len(c2s))
  BY DEF EndsClosed, serverNewProxy, serverCloseProxy
<1>2. /\ Len(c2s') = Len(c2s) - 1 /\ Len(c2s) \in Nat \ {0} /\ Head(c2s) = c2s[1]
      /\ c2s' \in Seq(ProxyRequests)
      /\ \A i \in 2 .. Len(c2s) : c2s'[i - 1] = c2s[i]
  BY <1>1, Handled
<1>3. CASE Len(c2s) = 1
  <2>1. c2s' = <<>>
    BY <1>2, <1>3
  <2>2. reg' = 0
    BY <1>1, <1>2, <1>3 DEF Closes, serverNewProxy, serverCloseProxy
  <2> QED BY <2>1, <2>2 DEF EndsClosed
<1>4. CASE Len(c2s) # 1
  <2>1. c2s' # <<>> /\ c2s'[Len(c2s')] = c2s[Len(c2s)]
    BY <1>2, <1>4
  <2> QED BY <1>1, <2>1 DEF EndsClosed, Closes
<1> QED BY <1>3, <1>4

\* ... and, with the name free, the configuration stays the one served.
LEMMA ServedStays ==
    ASSUME ProxyTypeOK, EndsServed, ~taken, serverNewProxy \/ serverCloseProxy
    PROVE  EndsServed'
<1>1. c2s # <<>> /\ c2s' = Tail(c2s) /\ UNCHANGED cfg /\ cfg # 0
  BY Numbers DEF serverNewProxy, serverCloseProxy
<1>2. /\ Len(c2s') = Len(c2s) - 1 /\ Len(c2s) \in Nat \ {0} /\ Head(c2s) = c2s[1]
      /\ \A i \in 1 .. Len(c2s') : c2s'[i] = c2s[i + 1]
      /\ \A i \in 2 .. Len(c2s) : c2s'[i - 1] = c2s[i]
  BY <1>1, Handled
<1>3. CASE reg = cfg /\ NothingCloses
  <2>1. \A i \in 1 .. Len(c2s') : c2s'[i].type # "CloseProxy"
    BY <1>2, <1>3 DEF NothingCloses, Closes
  <2>2. reg' = cfg
    BY <1>1, <1>2, <1>3 DEF NothingCloses, Closes, serverNewProxy, serverCloseProxy, Refused
  <2> QED BY <1>1, <2>1, <2>2 DEF EndsServed, NothingCloses, Closes
<1>4. CASE \E i \in 1 .. Len(c2s) : /\ c2s[i] = newProxy(cfg)
                                    /\ \A k \in 1 .. Len(c2s) : k > i => ~Closes(k)
                                    /\ IF i = 1 THEN reg = 0 ELSE Closes(i - 1)
  <2>1. PICK i \in 1 .. Len(c2s) : /\ c2s[i] = newProxy(cfg)
                                   /\ \A k \in 1 .. Len(c2s) : k > i => ~Closes(k)
                                   /\ IF i = 1 THEN reg = 0 ELSE Closes(i - 1)
    BY <1>4
  <2>2. \A k \in 1 .. Len(c2s') : k + 1 > i => c2s'[k].type # "CloseProxy"
    BY <1>2, <2>1 DEF Closes
  <2>3. CASE i = 1
    <3>1. c2s[1].type = "NewProxy" /\ c2s[1].cfg = cfg /\ reg = 0
      BY <2>1, <2>3, Numbers
    <3>2. reg' = cfg
      BY <1>2, <3>1 DEF serverNewProxy, serverCloseProxy, Refused
    <3>3. \A k \in 1 .. Len(c2s') : c2s'[k].type # "CloseProxy"
      BY <1>2, <2>2, <2>3
    <3> QED BY <1>1, <3>2, <3>3 DEF EndsServed, NothingCloses, Closes
  <2>4. CASE i # 1
    <3>1. i - 1 \in 1 .. Len(c2s') /\ c2s'[i - 1] = newProxy(cfg)
      BY <1>2, <2>1, <2>4
    <3>2. \A k \in 1 .. Len(c2s') : k > i - 1 => c2s'[k].type # "CloseProxy"
      BY <2>1, <2>2
    <3>3. CASE i = 2
      <4>1. c2s[1].type = "CloseProxy"
        BY <2>1, <3>3 DEF Closes
      <4>2. reg' = 0
        BY <1>2, <4>1 DEF serverNewProxy, serverCloseProxy
      <4> QED BY <1>1, <3>1, <3>2, <3>3, <4>2 DEF EndsServed, Closes, newProxy
    <3>4. CASE i # 2
      <4>1. (i - 1) - 1 \in 1 .. Len(c2s') /\ c2s'[(i - 1) - 1] = c2s[i - 1]
        <5>1. i - 1 \in 2 .. Len(c2s) /\ (i - 1) - 1 \in 1 .. Len(c2s')
          BY <1>2, <2>4, <3>4
        <5> QED BY <1>2, <5>1
      <4>2. c2s'[(i - 1) - 1].type = "CloseProxy" /\ i - 1 # 1
        BY <2>1, <2>4, <3>4, <4>1 DEF Closes
      <4> QED BY <1>1, <3>1, <3>2, <4>2 DEF EndsServed, Closes, newProxy
    <3> QED BY <3>3, <3>4
  <2> QED BY <2>3, <2>4
<1> QED BY <1>3, <1>4 DEF EndsServed

-----------------------------------------------------------------------------
(* Types. *)

\* The counters stay within their bounds.
LEMMA CountersStep ==
    ASSUME ProxyTypeOK, CfgNumbered, ProxyNext
    PROVE  /\ CfgNumbered' /\ cfg' \in 1 .. MaxTroubles + 1 /\ troubles' \in 0 .. MaxTroubles
           /\ UNCHANGED kinds
<1>1. MaxTroubles \in Nat /\ troubles \in 0 .. MaxTroubles /\ cfg \in 1 .. MaxTroubles + 1
      /\ cfg <= troubles + 1
  BY FrpProxyAssumption DEF ProxyTypeOK, CfgNumbered
<1>2. /\ UNCHANGED kinds
      /\ \/ UNCHANGED <<cfg, troubles>>
         \/ troubles < MaxTroubles /\ troubles' = troubles + 1 /\ (cfg' = cfg \/ cfg' = cfg + 1)
  BY DEF ProxyNext, ProxySteps, checkWorker, startErrTimeout, waitResponseTimeout, sendStart, checkFailed,
         handleNewProxyResp, serverNewProxy, serverCloseProxy, statusFailed, statusNormal, runFails,
         remove, addAgain, change, relogin, otherTakes, otherGoes, calm, Trouble
<1> QED BY <1>1, <1>2 DEF CfgNumbered

\* The queues hold requests and answers.
LEMMA QueuesStep ==
    ASSUME ProxyTypeOK, ProxyNext
    PROVE  c2s' \in Seq(ProxyRequests) /\ s2c' \in Seq({"ok", "error"}) /\ reg' \in 0 .. MaxTroubles + 1
<1>1. c2s \in Seq(ProxyRequests) /\ s2c \in Seq({"ok", "error"}) /\ reg \in 0 .. MaxTroubles + 1
      /\ newProxy(cfg) \in ProxyRequests /\ closeProxy(cfg) \in ProxyRequests /\ MaxTroubles \in Nat
  BY Numbers DEF ProxyTypeOK, ProxyRequests
<1>2. \/ c2s' = c2s \/ c2s' = <<>> \/ c2s' = Append(c2s, newProxy(cfg))
      \/ c2s' = Append(c2s, closeProxy(cfg)) \/ (c2s # <<>> /\ c2s' = Tail(c2s))
  BY DEF ProxyNext, ProxySteps, checkWorker, startErrTimeout, waitResponseTimeout, sendStart, checkFailed,
         handleNewProxyResp, serverNewProxy, serverCloseProxy, statusFailed, statusNormal, runFails,
         remove, addAgain, change, relogin, otherTakes, otherGoes, Stop
<1>3. \/ s2c' = s2c \/ s2c' = <<>> \/ s2c' = Append(s2c, "ok")
      \/ s2c' = Append(s2c, "error") \/ (s2c # <<>> /\ s2c' = Tail(s2c))
  BY DEF ProxyNext, ProxySteps, checkWorker, startErrTimeout, waitResponseTimeout, sendStart, checkFailed,
         handleNewProxyResp, serverNewProxy, serverCloseProxy, statusFailed, statusNormal, runFails,
         remove, addAgain, change, relogin, otherTakes, otherGoes
<1>4. reg' = reg \/ reg' = 0 \/ (c2s # <<>> /\ reg' = Head(c2s).cfg)
  BY DEF ProxyNext, ProxySteps, checkWorker, startErrTimeout, waitResponseTimeout, sendStart, checkFailed,
         handleNewProxyResp, serverNewProxy, serverCloseProxy, statusFailed, statusNormal, runFails,
         remove, addAgain, change, relogin, otherTakes, otherGoes
<1>5. c2s # <<>> => Head(c2s).cfg \in 1 .. MaxTroubles + 1
  <2>1. c2s # <<>> => Head(c2s) \in ProxyRequests
    BY <1>1
  <2> QED BY <2>1 DEF ProxyRequests
<1>6. c2s' \in Seq(ProxyRequests)
  <2>1. ASSUME NEW m \in ProxyRequests PROVE Append(c2s, m) \in Seq(ProxyRequests)
    BY <1>1
  <2>2. c2s # <<>> => Tail(c2s) \in Seq(ProxyRequests)
    BY <1>1
  <2>3. <<>> \in Seq(ProxyRequests)
    OBVIOUS
  <2> QED BY <1>1, <1>2, <2>1, <2>2, <2>3, Zenon
<1>7. s2c' \in Seq({"ok", "error"})
  <2>1. ASSUME NEW m \in {"ok", "error"} PROVE Append(s2c, m) \in Seq({"ok", "error"})
    BY <1>1
  <2>2. s2c # <<>> => Tail(s2c) \in Seq({"ok", "error"})
    BY <1>1
  <2>3. <<>> \in Seq({"ok", "error"})
    OBVIOUS
  <2> QED BY <1>1, <1>3, <2>1, <2>2, <2>3
<1>8. reg' \in 0 .. MaxTroubles + 1
  BY <1>1, <1>4, <1>5
<1> QED BY <1>6, <1>7, <1>8

\* Every step keeps the types.
LEMMA TypesStep ==
    ASSUME ProxyTypeOK, CfgNumbered, ProxyNext
    PROVE  ProxyTypeOK'
<1>1. phase' \in {"none", "new", "wait start", "start error", "running", "check failed"}
  BY DEF ProxyTypeOK, ProxyNext, ProxySteps, checkWorker, startErrTimeout, waitResponseTimeout, sendStart, checkFailed,
         handleNewProxyResp, serverNewProxy, serverCloseProxy, statusFailed, statusNormal, runFails,
         remove, addAgain, change, relogin, otherTakes, otherGoes
<1>2. healthy' \in BOOLEAN /\ taken' \in BOOLEAN
  BY DEF ProxyTypeOK, ProxyNext, ProxySteps, checkWorker, startErrTimeout, waitResponseTimeout, sendStart, checkFailed,
         handleNewProxyResp, serverNewProxy, serverCloseProxy, statusFailed, statusNormal, runFails,
         remove, addAgain, change, relogin, otherTakes, otherGoes
<1>3. kinds' \in Troubles
  BY CountersStep DEF ProxyTypeOK
<1> QED BY <1>1, <1>2, <1>3, CountersStep, QueuesStep DEF ProxyTypeOK, ProxyRequests

-----------------------------------------------------------------------------
(* What the wrapper's phases promise. *)

\* The kinds of steps, as far as the requests are concerned.
Starts == \E from \in {"new", "check failed", "start error", "wait start"} : sendStart(from)
ClosesProxy ==
  /\ phase' \in {"none", "new", "check failed", "start error"}
  /\ c2s' = Append(c2s, closeProxy(cfg))
Served == serverNewProxy \/ serverCloseProxy
\* The wrapper's phase moves on while requests and registration stay.
AnswerTaken ==
  /\ UNCHANGED <<cfg, c2s, reg, taken>>
  /\ \/ phase' = phase
     \/ phase = "wait start" /\ phase' \in {"running", "start error"}
Aside == UNCHANGED <<cfg, c2s, reg, phase>> /\ ("taken" \notin kinds => taken' = taken \/ ~taken')

\* There are no others but a relogin and the return of a removed proxy.
LEMMA StepKinds ==
    ASSUME ProxyNext
    PROVE  Starts \/ ClosesProxy \/ Served \/ AnswerTaken \/ Aside \/ relogin \/ addAgain
<1>1. CASE checkWorker \/ startErrTimeout \/ waitResponseTimeout
  BY <1>1 DEF checkWorker, startErrTimeout, waitResponseTimeout, Starts
<1>2. CASE checkFailed \/ remove \/ change \/ runFails
  BY <1>2 DEF checkFailed, remove, change, runFails, Stop, ClosesProxy
<1>3. CASE handleNewProxyResp
  BY <1>3 DEF handleNewProxyResp, Awaited, AnswerTaken
<1>4. CASE statusFailed \/ statusNormal \/ otherTakes \/ otherGoes
  BY <1>4 DEF statusFailed, statusNormal, otherTakes, otherGoes, Trouble, Aside
<1> QED BY <1>1, <1>2, <1>3, <1>4 DEF ProxyNext, ProxySteps, Served

\* A wrapper that has nothing to run keeps its proxy closed.
LEMMA IdleStep ==
    ASSUME ProxyTypeOK, IdleCloses, ProxyNext
    PROVE  IdleCloses'
<1>1. CASE Starts
  BY <1>1 DEF Starts, sendStart, IdleCloses
<1>2. CASE ClosesProxy
  BY <1>2, CloseSent DEF ClosesProxy, IdleCloses
<1>3. CASE Served
  <2>1. UNCHANGED phase
    BY <1>3 DEF Served, serverNewProxy, serverCloseProxy
  <2> QED BY <1>3, <2>1, ClosedStays DEF IdleCloses, Served
<1>4. CASE AnswerTaken \/ Aside
  <2>1. EndsClosed => EndsClosed'
    BY <1>4 DEF AnswerTaken, Aside, EndsClosed, Closes
  <2> QED BY <1>4, <2>1 DEF AnswerTaken, Aside, IdleCloses
<1>5. CASE relogin
  BY <1>5 DEF relogin, IdleCloses, EndsClosed
<1>6. CASE addAgain
  <2>1. EndsClosed => EndsClosed'
    BY <1>6 DEF addAgain, EndsClosed, Closes
  <2> QED BY <1>6, <2>1 DEF addAgain, IdleCloses
<1> QED BY <1>1, <1>2, <1>3, <1>4, <1>5, <1>6, StepKinds

\* With the name to itself, a wrapper that waits or runs is served.
LEMMA UnopposedStep ==
    ASSUME ProxyTypeOK, CfgNumbered, IdleCloses, Unopposed, ProxyNext
    PROVE  Unopposed'
<1> SUFFICES ASSUME "taken" \notin kinds
             PROVE  /\ ~taken'
                    /\ phase' \in {"wait start", "running"} => EndsServed'
                    /\ phase' = "start error" => EndsServed' \/ EndsClosed'
  BY CountersStep DEF Unopposed
<1>1. /\ ~taken
      /\ phase \in {"wait start", "running"} => EndsServed
      /\ phase = "start error" => EndsServed \/ EndsClosed
  BY DEF Unopposed
<1>2. ~taken'
  BY <1>1 DEF ProxyNext, ProxySteps, checkWorker, startErrTimeout, waitResponseTimeout, sendStart, checkFailed,
         handleNewProxyResp, serverNewProxy, serverCloseProxy, statusFailed, statusNormal, runFails,
         remove, addAgain, change, relogin, otherTakes, otherGoes, Trouble
<1>3. CASE Starts
  <2>1. /\ c2s' = Append(c2s, newProxy(cfg)) /\ UNCHANGED <<cfg, reg>> /\ phase' = "wait start"
        /\ phase \in {"new", "check failed", "start error", "wait start"}
    BY <1>3 DEF Starts, sendStart
  <2>2. EndsServed \/ EndsClosed
    BY <1>1, <2>1 DEF IdleCloses
  <2> QED BY <1>2, <2>1, <2>2, NewSent
<1>4. CASE ClosesProxy
  BY <1>2, <1>4, CloseSent DEF ClosesProxy
<1>5. CASE Served
  <2>1. UNCHANGED phase
    BY <1>5 DEF Served, serverNewProxy, serverCloseProxy
  <2>2. (EndsServed => EndsServed') /\ (EndsClosed => EndsClosed')
    BY <1>1, <1>5, ServedStays, ClosedStays DEF Served
  <2> QED BY <1>1, <1>2, <2>1, <2>2
<1>6. CASE AnswerTaken \/ Aside
  <2>1. (EndsServed => EndsServed') /\ (EndsClosed => EndsClosed')
    BY <1>6 DEF AnswerTaken, Aside, EndsServed, EndsClosed, NothingCloses, Closes, newProxy
  <2> QED BY <1>1, <1>2, <1>6, <2>1 DEF AnswerTaken, Aside
<1>7. CASE relogin \/ addAgain
  BY <1>2, <1>7 DEF relogin, addAgain
<1> QED BY <1>3, <1>4, <1>5, <1>6, <1>7, StepKinds

\* What Unchanging says when it applies.
Simple ==
  /\ \A i \in 1 .. Len(c2s) : Closes(i) => reg = cfg
  /\ \A i, k \in 1 .. Len(c2s) : Closes(i) /\ Closes(k) => i = k
  /\ \A i \in 1 .. Len(s2c) : s2c[i] = "ok" => reg = cfg /\ NothingCloses
  /\ \A i, k \in 1 .. Len(s2c) : s2c[i] = "ok" /\ s2c[k] = "ok" => i = k
  /\ phase = "running" =>
       reg = cfg /\ NothingCloses /\ \A i \in 1 .. Len(s2c) : s2c[i] # "ok"
  /\ \A i \in 1 .. Len(c2s) : c2s[i].cfg = cfg

\* An answer is taken or ignored.
LEMMA AnswersMove ==
    ASSUME ProxyTypeOK, s2c # <<>>, s2c' = Tail(s2c)
    PROVE  /\ Len(s2c') = Len(s2c) - 1 /\ Len(s2c) \in Nat \ {0} /\ Head(s2c) = s2c[1]
           /\ \A i \in 1 .. Len(s2c') : s2c'[i] = s2c[i + 1]
<1>1. s2c \in Seq({"ok", "error"})
  BY DEF ProxyTypeOK
<1> QED BY <1>1

\* Without health checks and reloads there is one "ok" or one CloseProxy.
LEMMA UnchangingStep ==
    ASSUME ProxyTypeOK, CfgNumbered, Unchanging, ProxyNext
    PROVE  Unchanging'
<1> SUFFICES ASSUME kinds \cap {"health", "reload"} = {}
             PROVE  /\ cfg' = 1 /\ healthy' /\ phase' \notin {"none", "check failed"}
                    /\ Simple'
  BY CountersStep DEF Unchanging, Simple
<1>1. /\ cfg = 1 /\ healthy /\ phase \notin {"none", "check failed"}
      /\ Simple
  BY DEF Unchanging, Simple
<1>2. \/ Starts \/ handleNewProxyResp \/ runFails \/ relogin \/ serverNewProxy \/ serverCloseProxy
      \/ otherTakes \/ otherGoes
  BY <1>1 DEF ProxyNext, ProxySteps, checkWorker, startErrTimeout, waitResponseTimeout, Starts, checkFailed,
         statusFailed, statusNormal, remove, addAgain, change, Trouble
<1>3. cfg' = 1 /\ healthy' /\ phase' \notin {"none", "check failed"}
  BY <1>1, <1>2 DEF Starts, sendStart, handleNewProxyResp, runFails, relogin, serverNewProxy,
         serverCloseProxy, otherTakes, otherGoes
<1>4. Simple'
  <2>1. CASE Starts
    <3>1. c2s' = Append(c2s, newProxy(cfg)) /\ UNCHANGED <<s2c, cfg, reg>> /\ phase' = "wait start"
      BY <2>1 DEF Starts, sendStart
    <3>2. /\ Len(c2s') = Len(c2s) + 1 /\ Len(c2s) \in Nat
          /\ c2s'[Len(c2s')].type = "NewProxy" /\ c2s'[Len(c2s')].cfg = cfg
          /\ \A i \in 1 .. Len(c2s) : c2s'[i] = c2s[i]
      BY <3>1, Sent, Numbers
    <3>3. \A i \in 1 .. Len(c2s') : c2s'[i].cfg = cfg
      <4>1. \A i \in 1 .. Len(c2s) : c2s[i].cfg = cfg
        BY <1>1 DEF Simple
      <4>2. \A i \in 1 .. Len(c2s') : i \in 1 .. Len(c2s) \/ i = Len(c2s')
        BY <3>2
      <4> QED BY <3>2, <4>1, <4>2, Zenon
    <3>4. \A i \in 1 .. Len(c2s') : c2s'[i].type = "CloseProxy" => i \in 1 .. Len(c2s) /\ Closes(i)
      BY <3>2 DEF Closes
    <3>5. NothingCloses => NothingCloses'
      BY <3>4 DEF NothingCloses, Closes
    <3> QED BY <1>1, <3>1, <3>3, <3>4, <3>5 DEF Simple, Closes
  <2>2. CASE handleNewProxyResp
    <3>1. s2c # <<>> /\ s2c' = Tail(s2c) /\ UNCHANGED <<cfg, c2s, reg>>
          /\ (phase' = "running" => phase = "running" \/ Head(s2c) = "ok")
      BY <2>2 DEF handleNewProxyResp
    <3>2. /\ Len(s2c') = Len(s2c) - 1 /\ Len(s2c) \in Nat \ {0} /\ Head(s2c) = s2c[1]
          /\ \A i \in 1 .. Len(s2c') : s2c'[i] = s2c[i + 1]
      BY <3>1, AnswersMove
    <3>3. \A i \in 1 .. Len(s2c') : i + 1 \in 1 .. Len(s2c) /\ i + 1 # 1
      BY <3>2
    <3>4. phase' = "running" =>
            reg = cfg /\ NothingCloses /\ \A i \in 1 .. Len(s2c') : s2c'[i] # "ok"
      <4>1. 1 \in 1 .. Len(s2c)
        BY <3>2
      <4>2. CASE phase = "running"
        BY <1>1, <3>2, <3>3, <4>2 DEF Simple
      <4>3. CASE s2c[1] = "ok"
        <5>1. reg = cfg /\ NothingCloses
          BY <1>1, <4>1, <4>3 DEF Simple
        <5>2. \A i \in 1 .. Len(s2c') : s2c[i + 1] # "ok"
          BY <1>1, <3>3, <4>1, <4>3 DEF Simple
        <5> QED BY <3>2, <5>1, <5>2
      <4> QED BY <3>1, <3>2, <4>2, <4>3
    <3>5. NothingCloses <=> NothingCloses'
      BY <3>1 DEF NothingCloses, Closes
    <3>6. \A i, k \in 1 .. Len(s2c') : s2c'[i] = "ok" /\ s2c'[k] = "ok" => i = k
      <4> SUFFICES ASSUME NEW i \in 1 .. Len(s2c'), NEW k \in 1 .. Len(s2c'),
                          s2c'[i] = "ok", s2c'[k] = "ok"
                   PROVE  i = k
        OBVIOUS
      <4>1. i + 1 = k + 1
        BY <1>1, <3>2, <3>3 DEF Simple
      <4> QED BY <3>2, <4>1
    <3>7. \A i \in 1 .. Len(s2c') : s2c'[i] = "ok" => reg = cfg /\ NothingCloses
      BY <1>1, <3>2, <3>3 DEF Simple
    <3> QED BY <1>1, <3>1, <3>4, <3>5, <3>6, <3>7 DEF Simple, Closes
  <2>3. CASE runFails
    <3>1. /\ s2c # <<>> /\ s2c' = Tail(s2c) /\ Head(s2c) = "ok" /\ UNCHANGED <<cfg, reg>>
          /\ c2s' = Append(c2s, closeProxy(cfg)) /\ phase' = "start error"
      BY <2>3 DEF runFails
    <3>2. /\ Len(s2c') = Len(s2c) - 1 /\ Len(s2c) \in Nat \ {0} /\ Head(s2c) = s2c[1]
          /\ \A i \in 1 .. Len(s2c') : s2c'[i] = s2c[i + 1]
      BY <3>1, AnswersMove
    <3>3. 1 \in 1 .. Len(s2c) /\ s2c[1] = "ok"
      <4>1. 1 \in 1 .. Len(s2c)
        BY <3>2
      <4> QED BY <3>1, <3>2, <4>1, Zenon
    <3>4. reg = cfg /\ NothingCloses
      BY <1>1, <3>3 DEF Simple
    <3>5. \A i \in 1 .. Len(s2c') : s2c'[i] # "ok"
      <4>1. \A i \in 1 .. Len(s2c') : i + 1 \in 1 .. Len(s2c) /\ i + 1 # 1
        BY <3>2
      <4> QED BY <1>1, <3>2, <3>3, <4>1 DEF Simple
    <3>6. /\ Len(c2s') = Len(c2s) + 1 /\ Len(c2s) \in Nat /\ c2s'[Len(c2s')].cfg = cfg
          /\ \A i \in 1 .. Len(c2s) : c2s'[i] = c2s[i]
      BY <3>1, Sent, Numbers
    <3>7. \A i \in 1 .. Len(c2s') : c2s'[i].cfg = cfg
      <4>1. \A i \in 1 .. Len(c2s) : c2s[i].cfg = cfg
        BY <1>1 DEF Simple
      <4>2. \A i \in 1 .. Len(c2s') : i \in 1 .. Len(c2s) \/ i = Len(c2s')
        BY <3>6
      <4> QED BY <3>6, <4>1, <4>2, Zenon
    <3>8. \A i \in 1 .. Len(c2s') : c2s'[i].type = "CloseProxy" => i = Len(c2s')
      BY <3>4, <3>6 DEF NothingCloses, Closes
    <3> QED BY <3>1, <3>4, <3>5, <3>7, <3>8 DEF Simple, Closes
  <2>4. CASE relogin
    <3>1. c2s' = <<>> /\ s2c' = <<>> /\ phase' # "running"
      BY <2>4 DEF relogin
    <3> QED BY <3>1 DEF Simple
  <2>5. CASE serverNewProxy \/ serverCloseProxy
    <3>1. c2s # <<>> /\ c2s' = Tail(c2s) /\ UNCHANGED <<cfg, phase>>
      BY <2>5 DEF serverNewProxy, serverCloseProxy
    <3>2. /\ Len(c2s') = Len(c2s) - 1 /\ Len(c2s) \in Nat \ {0} /\ Head(c2s) = c2s[1]
          /\ \A i \in 1 .. Len(c2s') : c2s'[i] = c2s[i + 1]
      BY <3>1, Handled
    <3>3. \A i \in 1 .. Len(c2s') : i + 1 \in 1 .. Len(c2s) /\ i + 1 # 1
      BY <3>2
    <3>4. \A i \in 1 .. Len(c2s') : c2s'[i].cfg = cfg /\ (c2s'[i].type = "CloseProxy" => Closes(i + 1))
      BY <1>1, <3>2, <3>3 DEF Simple, Closes
    <3>5. \A i, k \in 1 .. Len(c2s') :
            c2s'[i].type = "CloseProxy" /\ c2s'[k].type = "CloseProxy" => i = k
      <4> SUFFICES ASSUME NEW i \in 1 .. Len(c2s'), NEW k \in 1 .. Len(c2s'),
                          c2s'[i].type = "CloseProxy", c2s'[k].type = "CloseProxy"
                   PROVE  i = k
        OBVIOUS
      <4>1. i + 1 = k + 1
        BY <1>1, <3>3, <3>4 DEF Simple
      <4> QED BY <3>2, <4>1
    <3>6. 1 \in 1 .. Len(c2s) /\ c2s[1].cfg = cfg
      <4>1. 1 \in 1 .. Len(c2s)
        BY <3>2
      <4> QED BY <1>1, <4>1, Zenon DEF Simple
    <3>7. NothingCloses => NothingCloses'
      BY <3>3, <3>4 DEF NothingCloses, Closes
    <3>8. CASE serverCloseProxy
      <4>1. Closes(1) /\ UNCHANGED s2c
        BY <3>2, <3>8 DEF serverCloseProxy, Closes
      <4>2. ~NothingCloses /\ \A i \in 1 .. Len(c2s') : c2s'[i].type # "CloseProxy"
        BY <1>1, <3>3, <3>4, <3>6, <4>1 DEF NothingCloses, Simple
      <4>3. phase # "running" /\ \A i \in 1 .. Len(s2c) : s2c[i] # "ok"
        BY <1>1, <4>2 DEF Simple
      <4> QED BY <3>1, <3>4, <4>1, <4>2, <4>3 DEF Simple, Closes
    <3>9. CASE serverNewProxy /\ Refused
      <4>1. reg' = reg /\ s2c' = Append(s2c, "error")
        BY <3>9 DEF serverNewProxy
      <4>2. /\ Len(s2c') = Len(s2c) + 1 /\ Len(s2c) \in Nat /\ s2c'[Len(s2c')] = "error"
            /\ \A i \in 1 .. Len(s2c) : s2c'[i] = s2c[i]
        <5>1. s2c \in Seq({"ok", "error"})
          BY DEF ProxyTypeOK
        <5> QED BY <4>1, <5>1
      <4>3. \A i \in 1 .. Len(s2c') : s2c'[i] = "ok" => i \in 1 .. Len(s2c) /\ s2c[i] = "ok"
        BY <4>2
      <4> QED BY <1>1, <3>1, <3>3, <3>4, <3>5, <3>7, <4>1, <4>3 DEF Simple, Closes
    <3>10. CASE serverNewProxy /\ ~Refused
      <4>1. reg' = cfg /\ s2c' = Append(s2c, "ok") /\ reg = 0 /\ reg # cfg
        <5>1. reg' = Head(c2s).cfg /\ s2c' = Append(s2c, "ok") /\ reg = 0
          BY <3>10 DEF serverNewProxy, Refused
        <5>2. reg' = cfg
          BY <3>2, <3>6, <5>1, Zenon
        <5>3. cfg # 0
          BY Numbers
        <5> QED BY <5>1, <5>2, <5>3, Zenon
      <4>2. /\ phase # "running" /\ NothingCloses
            /\ \A i \in 1 .. Len(s2c) : s2c[i] # "ok"
        BY <1>1, <4>1 DEF Simple, NothingCloses
      <4>3. /\ Len(s2c') = Len(s2c) + 1 /\ Len(s2c) \in Nat
            /\ \A i \in 1 .. Len(s2c) : s2c'[i] = s2c[i]
        <5>1. s2c \in Seq({"ok", "error"})
          BY DEF ProxyTypeOK
        <5> QED BY <4>1, <5>1
      <4>4. \A i \in 1 .. Len(s2c') : s2c'[i] = "ok" => i = Len(s2c')
        BY <4>2, <4>3
      <4> QED BY <3>1, <3>4, <3>5, <3>7, <4>1, <4>2, <4>4 DEF Simple, Closes
    <3> QED BY <2>5, <3>8, <3>9, <3>10
  <2>6. CASE otherTakes \/ otherGoes
    <3>1. UNCHANGED <<c2s, s2c, reg, cfg, phase>>
      BY <2>6 DEF otherTakes, otherGoes
    <3> QED BY <1>1, <3>1 DEF Simple, NothingCloses, Closes
  <2> QED BY <1>2, <2>1, <2>2, <2>3, <2>4, <2>5, <2>6
<1> QED BY <1>3, <1>4

-----------------------------------------------------------------------------
\* A new wrapper has sent nothing.
LEMMA ProxyInitInv == ProxyInit => ProxyInv
<1> SUFFICES ASSUME ProxyInit PROVE ProxyInv
  OBVIOUS
<1>1. c2s = <<>> /\ s2c = <<>> /\ reg = 0 /\ ~taken /\ cfg = 1 /\ phase = "new" /\ troubles = 0
      /\ MaxTroubles \in Nat /\ healthy = ("health" \notin kinds) /\ kinds \in Troubles
  BY FrpProxyAssumption DEF ProxyInit
<1>2. ProxyTypeOK
  <2>1. taken \in BOOLEAN /\ healthy \in BOOLEAN
    BY DEF ProxyInit
  <2> QED BY <1>1, <2>1 DEF ProxyTypeOK
<1>3. CfgNumbered /\ IdleCloses /\ Unopposed
  BY <1>1 DEF CfgNumbered, IdleCloses, EndsClosed, Unopposed
<1>4. Unchanging
  <2>1. Len(c2s) = 0 /\ Len(s2c) = 0
    BY <1>1
  <2>2. kinds \cap {"health", "reload"} = {} => healthy
    BY <1>1
  <2> QED BY <1>1, <2>1, <2>2 DEF Unchanging
<1> QED BY <1>2, <1>3, <1>4 DEF ProxyInv

\* Every step of the client, the server and the others keeps it.
LEMMA ProxyStepInv == ProxyInv /\ [ProxyNext]_proxyVars => ProxyInv'
<1> SUFFICES ASSUME ProxyInv, [ProxyNext]_proxyVars PROVE ProxyInv'
  OBVIOUS
<1>1. CASE ProxyNext
  BY <1>1, TypesStep, CountersStep, IdleStep, UnopposedStep, UnchangingStep DEF ProxyInv
<1>2. CASE UNCHANGED proxyVars
  BY <1>2 DEF ProxyInv, proxyVars, ProxyTypeOK, CfgNumbered, IdleCloses, Unopposed, Unchanging, EndsClosed, EndsServed,
              NothingCloses, Closes, newProxy
<1> QED BY <1>1, <1>2

\* What the requests under way end in agrees with the wrapper's phase.
THEOREM ProxyInvariance == ProxySpec => []ProxyInv
<1>1. ProxyInit => ProxyInv
  BY ProxyInitInv
<1>2. ProxyInv /\ [ProxyNext]_proxyVars => ProxyInv'
  BY ProxyStepInv
<1> QED BY <1>1, <1>2, PTL DEF ProxySpec

\* The types of the wrapper, the registration and the messages under way.
THEOREM ProxyTypesCorrect == ProxySpec => []ProxyTypeOK
<1>1. ProxyInv => ProxyTypeOK
  BY DEF ProxyInv
<1> QED BY <1>1, ProxyInvariance, PTL

\* With nothing under way, a proxy in phase "running" (SetRunningStatus) is
\* registered with the client's configuration: whatever answers are late,
\* repeated or lost, whatever fails, is reloaded or restarted, as long as nobody
\* else takes the name while this client closes and reopens the proxy.
THEOREM RunningProxyIsServed ==
    ASSUME \A k \in Troubles : Benign(k)
    PROVE  ProxySpec => []RunningIsServed
<1>1. ASSUME ProxyInv PROVE RunningIsServed
  <2> SUFFICES ASSUME c2s = <<>>, s2c = <<>>, phase = "running" PROVE reg = cfg
    BY DEF RunningIsServed, Quiet
  <2>1. Benign(kinds)
    BY <1>1 DEF ProxyInv, ProxyTypeOK
  <2>2. CASE "taken" \notin kinds
    <3>1. EndsServed
      BY <1>1, <2>2 DEF ProxyInv, Unopposed
    <3>2. Len(c2s) = 0
      OBVIOUS
    <3> QED BY <3>1, <3>2 DEF EndsServed
  <2>3. CASE kinds \cap {"health", "reload"} = {}
    BY <1>1, <2>3 DEF ProxyInv, Unchanging
  <2> QED BY <2>1, <2>2, <2>3 DEF Benign
<1> QED BY <1>1, ProxyInvariance, PTL

\* With nothing under way, a proxy taken out of the configuration is not
\* registered (Wrapper.Stop), whoever else wants its name.
THEOREM RemovedProxyIsClosed == ProxySpec => []RemovedIsClosed
<1>1. ProxyInv => RemovedIsClosed
  BY DEF ProxyInv, IdleCloses, EndsClosed, RemovedIsClosed, Quiet
<1> QED BY <1>1, ProxyInvariance, PTL

=============================================================================
