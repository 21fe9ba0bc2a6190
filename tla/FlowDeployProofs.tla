-------------------------- MODULE FlowDeployProofs --------------------------
(***************************************************************************)
(* For every set of templates, however they use subflows (also in a        *)
(* circle), and any number of deployments, failed calls and edits: as long *)
(* as nobody uses the editor while a deployment runs, Node-RED never holds *)
(* an element that uses a subflow it does not have, no subflow is deployed *)
(* twice unless a synchronisation has failed, a deployment without a       *)
(* failed call leaves every chosen flow with a record of its template, and *)
(* a deployment takes nothing away from Node-RED.                          *)
(*                                                                         *)
(* The invariant has three parts: records and elements with one id are of  *)
(* one template (StoreInv); what the frames of the recursion have seen of  *)
(* Node-RED still holds, the records they look at are up to date, and the  *)
(* subflows they are about to post are not there (StackInv); and a chosen  *)
(* template is in the queue, being worked on or posted (RequestInv).       *)
(***************************************************************************)
EXTENDS FlowDeploy, Integers, TLAPS

Kinds == {"tab", "subflow"}
Labels == {"sync", "subflows", "lookup", "read", "write", "add", "resync", "confirm"}
Templates == Flows \cup Subflows
Ident == Nat \ {0}

Elements == [id : Ident, kind : Kinds, of : Templates \cup {None}, refs : SUBSET Ident]
Records == [id : Ident, kind : Kinds, of : Templates \cup {None}, app : Templates \cup {None}]
Frames == [of : Templates, at : Labels, todo : SUBSET Subflows, map : SUBSET Ident, id : Nat]

TypeInv ==
    /\ runtime \subseteq Elements /\ fetched \subseteq Elements
    /\ flows \subseteq Records
    /\ phase \in {"idle", "deploy", "link"}
    /\ queue \subseteq Flows /\ request \subseteq Flows
    /\ deployed \subseteq [id : Ident, of : Flows]
    /\ stack \in Seq(Frames)
    /\ nextId \in Ident /\ badSyncs \in Nat

-----------------------------------------------------------------------------
(* The invariant. *)

\* Node-RED has element id, a subflow made from s.
IsSubflow(id, s) == \E e \in runtime : e.id = id /\ e.kind = "subflow" /\ e.of = s

\* Node-RED has a subflow made from s.
Has(s) == \E e \in runtime : e.kind = "subflow" /\ e.of = s

\* An id names one element for good, the records agree with the elements, and
\* the template that a record is said to have is the one it was made from.
StoreInv ==
    /\ \A d, e \in runtime : d.id = e.id => d = e
    /\ \A e \in runtime : e.id < nextId
    /\ \A r \in flows : r.id < nextId
    /\ \A r \in flows, e \in runtime : r.id = e.id => r.kind = e.kind /\ r.of = e.of
    /\ \A r \in flows : r.app \in {None, r.of}

\* The records the running deployment relies on are up to date: no call of it
\* has failed, or no synchronisation ever has.
Good == clean \/ badSyncs = 0

\* There is a record for each subflow of Node-RED and for no other.
Fresh ==
    /\ \A e \in runtime : e.kind = "subflow" => \E r \in flows : r.id = e.id
    /\ \A r \in flows : r.kind = "subflow" => r.id \in SubflowIds

\* A frame whose template is known not to be in Node-RED.
Missing(f) == f.of \in Subflows /\ f.at \notin {"lookup", "resync", "confirm"}

FrameInv(i) ==
    /\ stack[i].of \in Flows <=> i = 1
    /\ i < Len(stack) => stack[i].at = "subflows"
    /\ i < Len(stack) => stack[i + 1].of \in Refs[stack[i].of]
    /\ stack[i].map \subseteq SubflowIds
    /\ stack[i].todo \subseteq Refs[stack[i].of]
    /\ \A s \in Refs[stack[i].of] \ stack[i].todo :
          Has(s) \/ (i < Len(stack) /\ stack[i + 1].of = s)
    /\ stack[i].at \in {"read", "write", "add", "resync", "confirm"} => stack[i].todo = {}
    /\ stack[i].at \in {"lookup", "resync", "confirm"} => stack[i].of \in Subflows
    /\ stack[i].at = "add" => stack[i].of \in Flows
    /\ stack[i].at \in {"resync", "confirm"} => IsSubflow(stack[i].id, stack[i].of)
    /\ stack[i].at = "write" => fetched = runtime
    /\ Good /\ i = Len(stack) /\ stack[i].at \in {"subflows", "lookup", "confirm"} => Fresh
    /\ Good /\ Missing(stack[i]) => ~Has(stack[i].of)

StackInv ==
    /\ stack # <<>> => phase = "deploy"
    /\ \A i \in 1 .. Len(stack) : FrameInv(i)

RequestInv ==
    /\ clean /\ phase = "deploy" =>
          \A x \in request : \/ x \in queue
                             \/ stack # <<>> /\ stack[1].of = x
                             \/ \E d \in deployed : d.of = x
    /\ phase # "idle" =>
          \A d \in deployed : \E e \in Tabs : e.id = d.id /\ e.of = d.of
    /\ clean /\ phase = "link" =>
          /\ \A x \in request : \E d \in deployed : d.of = x
          /\ \A e \in runtime : \E r \in flows : r.id = e.id

Inv ==
    /\ TypeInv /\ StoreInv /\ StackInv /\ RequestInv
    /\ RefsResolve /\ SubflowOnce /\ CleanDeployWorks

-----------------------------------------------------------------------------
(* The stack. *)

\* Every template uses subflows only, and a flow is not a subflow.
LEMMA TemplateFacts ==
    /\ \A x \in Templates : Refs[x] \subseteq Subflows
    /\ Flows \cap Subflows = {} /\ None \notin Templates
  BY FlowDeployAssumption DEF Templates

\* The fields of a frame.
LEMMA FrameFields ==
    ASSUME NEW f \in Frames
    PROVE  /\ f.of \in Templates /\ f.at \in Labels /\ f.todo \in SUBSET Subflows
           /\ f.map \in SUBSET Ident /\ f.id \in Nat
  BY DEF Frames

\* A frame with one of them changed.
LEMMA FrameAt ==
    ASSUME NEW f \in Frames, NEW a \in Labels
    PROVE  LET g == [f EXCEPT !.at = a] IN
             /\ g \in Frames /\ g.at = a
             /\ g.of = f.of /\ g.todo = f.todo /\ g.map = f.map /\ g.id = f.id
  BY DEF Frames

LEMMA FrameTodo ==
    ASSUME NEW f \in Frames, NEW t \in SUBSET Subflows
    PROVE  LET g == [f EXCEPT !.todo = t] IN
             /\ g \in Frames /\ g.todo = t
             /\ g.of = f.of /\ g.at = f.at /\ g.map = f.map /\ g.id = f.id
  BY DEF Frames

LEMMA FrameMap ==
    ASSUME NEW f \in Frames, NEW m \in SUBSET Ident
    PROVE  LET g == [f EXCEPT !.map = m] IN
             /\ g \in Frames /\ g.map = m
             /\ g.of = f.of /\ g.at = f.at /\ g.todo = f.todo /\ g.id = f.id
  BY DEF Frames

LEMMA FrameId ==
    ASSUME NEW f \in Frames, NEW k \in Nat
    PROVE  LET g == [f EXCEPT !.id = k] IN
             /\ g \in Frames /\ g.id = k
             /\ g.of = f.of /\ g.at = f.at /\ g.todo = f.todo /\ g.map = f.map
  BY DEF Frames

\* One more frame on a sequence of them.
LEMMA Appended ==
    ASSUME NEW st \in Seq(Frames), NEW g \in Frames
    PROVE  LET n == Len(st)
               new == Append(st, g)
           IN  /\ new \in Seq(Frames) /\ Len(new) = n + 1 /\ new[n + 1] = g
               /\ \A i \in 1 .. n : new[i] = st[i]
  OBVIOUS

\* Replacing the last element of a sequence of frames.
LEMMA LastReplaced ==
    ASSUME NEW st \in Seq(Frames), st # <<>>, NEW g \in Frames
    PROVE  LET n == Len(st)
               new == [st EXCEPT ![n] = g]
           IN  /\ n \in Nat /\ n >= 1 /\ st[n] \in Frames
               /\ new \in Seq(Frames) /\ Len(new) = n /\ new[n] = g
               /\ \A i \in 1 .. n : i # n => new[i] = st[i]
  OBVIOUS

\* Goto changes the label of the frame on top and nothing else.
LEMMA GotoMoves ==
    ASSUME stack \in Seq(Frames), stack # <<>>, NEW a \in Labels, Goto(a)
    PROVE  /\ stack' \in Seq(Frames) /\ Len(stack') = Len(stack)
           /\ Len(stack) \in Nat /\ Len(stack) >= 1 /\ Top \in Frames
           /\ \A i \in 1 .. Len(stack) :
                 /\ stack'[i].of = stack[i].of /\ stack'[i].todo = stack[i].todo
                 /\ stack'[i].map = stack[i].map /\ stack'[i].id = stack[i].id
                 /\ stack'[i].at = IF i = Len(stack) THEN a ELSE stack[i].at
  <1> DEFINE n == Len(stack)
             g == [stack[n] EXCEPT !.at = a]
  <1>1. n \in Nat /\ n >= 1 /\ stack[n] \in Frames
    OBVIOUS
  <1>2. stack' = [stack EXCEPT ![n] = g]
    BY DEF Goto
  <1>3. /\ g \in Frames /\ g.at = a /\ g.of = stack[n].of
        /\ g.todo = stack[n].todo /\ g.map = stack[n].map /\ g.id = stack[n].id
    BY <1>1, FrameAt, Zenon
  <1> HIDE DEF g
  <1>4. /\ stack' \in Seq(Frames) /\ Len(stack') = n /\ stack'[n] = g
        /\ \A i \in 1 .. n : i # n => stack'[i] = stack[i]
    BY <1>2, <1>3, LastReplaced
  <1> QED
    BY <1>1, <1>3, <1>4 DEF Top

\* Push adds a frame for s and takes s off the list of the frame below.
LEMMA PushMoves ==
    ASSUME stack \in Seq(Frames), stack # <<>>, NEW s \in Subflows,
           stack' = Append([stack EXCEPT ![Len(stack)].todo = @ \ {s}],
                           Frame(s, "lookup", Refs[s]))
    PROVE  /\ stack' \in Seq(Frames) /\ Len(stack') = Len(stack) + 1
           /\ Len(stack) \in Nat /\ Len(stack) >= 1
           /\ \A i \in 1 .. Len(stack) :
                 /\ stack'[i].of = stack[i].of /\ stack'[i].at = stack[i].at
                 /\ stack'[i].map = stack[i].map /\ stack'[i].id = stack[i].id
                 /\ stack'[i].todo = IF i = Len(stack) THEN stack[i].todo \ {s} ELSE stack[i].todo
           /\ LET new == stack'[Len(stack) + 1]
              IN  /\ new.of = s /\ new.at = "lookup" /\ new.todo = Refs[s] /\ new.map = {}
  <1> DEFINE n == Len(stack)
             g == [stack[n] EXCEPT !.todo = @ \ {s}]
             low == [stack EXCEPT ![n] = g]
             new == Frame(s, "lookup", Refs[s])
  <1>1. n \in Nat /\ n >= 1 /\ stack[n] \in Frames
    OBVIOUS
  <1>2. stack' = Append(low, new)
    OBVIOUS
  <1>3. /\ g \in Frames /\ g.todo = stack[n].todo \ {s} /\ g.of = stack[n].of
        /\ g.at = stack[n].at /\ g.map = stack[n].map /\ g.id = stack[n].id
    <2>1. stack[n].todo \ {s} \in SUBSET Subflows
      BY <1>1, FrameFields
    <2> QED
      BY <1>1, <2>1, FrameTodo, Zenon
  <1>4. new \in Frames
    <2>1. s \in Templates /\ Refs[s] \in SUBSET Subflows /\ {} \in SUBSET Ident /\ 0 \in Nat
      BY TemplateFacts DEF Templates
    <2> QED
      BY <2>1 DEF Frames, Frame, Labels
  <1>5. new.of = s /\ new.at = "lookup" /\ new.todo = Refs[s] /\ new.map = {}
    BY DEF Frame
  <1> HIDE DEF g, new
  <1>6. /\ low \in Seq(Frames) /\ Len(low) = n /\ low[n] = g
        /\ \A i \in 1 .. n : i # n => low[i] = stack[i]
    BY <1>3, LastReplaced
  <1> HIDE DEF low
  <1>7. /\ stack' \in Seq(Frames) /\ Len(stack') = n + 1
        /\ \A i \in 1 .. n : stack'[i] = low[i]
        /\ stack'[n + 1] = new
    <2> DEFINE pushed == Append(low, new)
    <2>1. /\ pushed \in Seq(Frames) /\ Len(pushed) = Len(low) + 1 /\ pushed[Len(low) + 1] = new
          /\ \A i \in 1 .. Len(low) : pushed[i] = low[i]
      BY <1>4, <1>6, Appended
    <2> HIDE DEF pushed
    <2>2. stack' = pushed
      BY <1>2 DEF pushed
    <2> QED
      BY <1>6, <2>1, <2>2
  <1> QED
    BY <1>1, <1>3, <1>5, <1>6, <1>7

\* Return takes the frame on top away and gives id to the one below.
LEMMA ReturnMoves ==
    ASSUME stack \in Seq(Frames), Len(stack) >= 2, NEW id \in Ident, Return(id)
    PROVE  /\ stack' \in Seq(Frames) /\ Len(stack') = Len(stack) - 1 /\ Len(stack) \in Nat
           /\ \A i \in 1 .. (Len(stack) - 1) :
                 /\ stack'[i].of = stack[i].of /\ stack'[i].at = stack[i].at
                 /\ stack'[i].todo = stack[i].todo /\ stack'[i].id = stack[i].id
                 /\ stack'[i].map = IF i = Len(stack) - 1 THEN stack[i].map \cup {id} ELSE stack[i].map
  <1> DEFINE n == Len(stack) - 1
             low == SubSeq(stack, 1, n)
             g == [low[n] EXCEPT !.map = @ \cup {id}]
  <1>1. Len(stack) \in Nat /\ n \in Nat /\ n >= 1 /\ n <= Len(stack)
    OBVIOUS
  <1>2. low \in Seq(Frames) /\ Len(low) = n /\ \A i \in 1 .. n : low[i] = stack[i]
    BY <1>1
  <1>3. stack' = [low EXCEPT ![n] = g]
    BY DEF Return
  <1> HIDE DEF low
  <1>4. low # <<>> /\ low[n] \in Frames
    BY <1>1, <1>2
  <1>5. /\ g \in Frames /\ g.map = low[n].map \cup {id} /\ g.of = low[n].of
        /\ g.at = low[n].at /\ g.todo = low[n].todo /\ g.id = low[n].id
    <2>1. low[n].map \cup {id} \in SUBSET Ident
      BY <1>4, FrameFields
    <2> QED
      BY <1>4, <2>1, FrameMap, Zenon
  <1> HIDE DEF g
  <1>6. /\ stack' \in Seq(Frames) /\ Len(stack') = n /\ stack'[n] = g
        /\ \A i \in 1 .. n : i # n => stack'[i] = low[i]
    BY <1>2, <1>3, <1>4, <1>5, LastReplaced
  <1> QED
    BY <1>1, <1>2, <1>5, <1>6

-----------------------------------------------------------------------------
(* The part of the invariant about the stack. *)

\* Nothing is said of an empty stack: a flow that failed leaves nothing behind.
LEMMA StackEmpty == stack' = <<>> => StackInv'
  BY DEF StackInv, FrameInv

\* A step that only moves the frame on top to another label.
LEMMA StackGoto ==
    ASSUME TypeInv, StackInv, stack # <<>>, UNCHANGED <<runtime, phase>>,
           NEW a \in Labels, Goto(a),
           Good' => Good,
           a \in {"read", "write", "add", "resync", "confirm"} => Top.todo = {},
           a \in {"lookup", "resync", "confirm"} => Top.of \in Subflows,
           a = "add" => Top.of \in Flows,
           a \in {"resync", "confirm"} => IsSubflow(Top.id, Top.of),
           a = "write" => fetched' = runtime,
           Good' /\ a \in {"subflows", "lookup", "confirm"} => Fresh',
           Good' /\ Top.of \in Subflows /\ a \notin {"lookup", "resync", "confirm"} => ~Has(Top.of)
    PROVE  StackInv' /\ stack' \in Seq(Frames) /\ stack' # <<>> /\ stack'[1].of = stack[1].of
  <1> DEFINE n == Len(stack)
  <1>0. stack \in Seq(Frames)
    BY DEF TypeInv
  <1>1. /\ stack' \in Seq(Frames) /\ Len(stack') = n /\ n \in Nat /\ n >= 1
        /\ \A i \in 1 .. n :
              /\ stack'[i].of = stack[i].of /\ stack'[i].todo = stack[i].todo
              /\ stack'[i].map = stack[i].map /\ stack'[i].id = stack[i].id
              /\ stack'[i].at = IF i = n THEN a ELSE stack[i].at
    BY <1>0, GotoMoves
  <1>2. /\ SubflowIds' = SubflowIds /\ \A s : Has(s)' <=> Has(s)
        /\ \A k, s : IsSubflow(k, s)' <=> IsSubflow(k, s)
    BY DEF SubflowIds, Has, IsSubflow
  <1>3. stack' # <<>> /\ phase' = "deploy"
    BY <1>1 DEF StackInv, FrameInv
  <1>4. ASSUME NEW i \in 1 .. n
        PROVE  /\ stack'[i].of \in Flows <=> i = 1
               /\ i < n => stack'[i].at = "subflows"
               /\ i < n => stack'[i + 1].of \in Refs[stack'[i].of]
               /\ stack'[i].map \subseteq SubflowIds
               /\ stack'[i].todo \subseteq Refs[stack'[i].of]
               /\ \A s \in Refs[stack'[i].of] \ stack'[i].todo :
                     Has(s) \/ (i < n /\ stack'[i + 1].of = s)
    BY <1>1, <1>4 DEF StackInv, FrameInv
  <1>5. ASSUME NEW i \in 1 .. n
        PROVE  /\ stack'[i].at \in {"read", "write", "add", "resync", "confirm"} => stack'[i].todo = {}
               /\ stack'[i].at \in {"lookup", "resync", "confirm"} => stack'[i].of \in Subflows
               /\ stack'[i].at = "add" => stack'[i].of \in Flows
               /\ stack'[i].at \in {"resync", "confirm"} => IsSubflow(stack'[i].id, stack'[i].of)
               /\ stack'[i].at = "write" => fetched' = runtime
    <2>1. CASE i = n
      BY <1>1, <2>1 DEF Top
    <2>2. CASE i # n
      BY <1>1, <2>2 DEF StackInv, FrameInv
    <2> QED
      BY <2>1, <2>2
  <1>6. ASSUME NEW i \in 1 .. n, Good'
        PROVE  /\ i = n /\ stack'[i].at \in {"subflows", "lookup", "confirm"} => Fresh'
               /\ Missing(stack'[i]) => ~Has(stack'[i].of)
    <2>1. CASE i = n
      BY <1>1, <1>6, <2>1 DEF Top, Missing
    <2>2. CASE i # n
      BY <1>1, <1>6, <2>2 DEF StackInv, FrameInv, Missing
    <2> QED
      BY <2>1, <2>2
  <1>7. StackInv'
    <2>1. ASSUME NEW i \in 1 .. n
          PROVE  /\ Good' /\ i = n /\ stack'[i].at \in {"subflows", "lookup", "confirm"} => Fresh'
                 /\ Good' /\ Missing(stack'[i]) => ~Has(stack'[i].of)
      BY <1>6
    <2> HIDE DEF n
    <2> QED
      BY <1>1, <1>2, <1>3, <1>4, <1>5, <2>1 DEF StackInv, FrameInv, Missing
  <1> QED
    BY <1>1, <1>3, <1>7

\* The loop over the subflows of the frame on top comes to s.
LEMMA StackPush ==
    ASSUME TypeInv, StackInv, At("subflows"), UNCHANGED <<runtime, flows, phase>>,
           Good' => Good,
           NEW s \in Top.todo,
           stack' = Append([stack EXCEPT ![Len(stack)].todo = @ \ {s}],
                           Frame(s, "lookup", Refs[s]))
    PROVE  StackInv' /\ stack' \in Seq(Frames) /\ stack' # <<>> /\ stack'[1].of = stack[1].of
  <1> DEFINE n == Len(stack)
             new == stack'[n + 1]
  <1>0. stack \in Seq(Frames) /\ stack # <<>> /\ Top.at = "subflows"
    BY DEF TypeInv, At
  <1>s. s \in Subflows /\ s \in Refs[stack[n].of] /\ n \in Nat /\ n >= 1
    <2>1. n \in Nat /\ n >= 1 /\ n \in 1 .. n /\ stack[n] \in Frames
      BY <1>0
    <2>2. stack[n].todo \in SUBSET Subflows
      BY <2>1, FrameFields
    <2> QED
      BY <2>1, <2>2 DEF Top, StackInv, FrameInv
  <1>1. /\ stack' \in Seq(Frames) /\ Len(stack') = n + 1
        /\ \A i \in 1 .. n :
              /\ stack'[i].of = stack[i].of /\ stack'[i].at = stack[i].at
              /\ stack'[i].map = stack[i].map /\ stack'[i].id = stack[i].id
              /\ stack'[i].todo = IF i = n THEN stack[i].todo \ {s} ELSE stack[i].todo
        /\ new.of = s /\ new.at = "lookup" /\ new.todo = Refs[s] /\ new.map = {}
    BY <1>0, <1>s, PushMoves
  <1>2. /\ SubflowIds' = SubflowIds /\ \A x : Has(x)' <=> Has(x)
        /\ \A k, x : IsSubflow(k, x)' <=> IsSubflow(k, x)
        /\ Fresh' <=> Fresh
    BY DEF SubflowIds, Has, IsSubflow, Fresh
  <1>3. stack' # <<>> /\ phase' = "deploy"
    BY <1>0, <1>1, <1>s DEF StackInv, FrameInv
  <1>4. Good' => Fresh
    BY <1>0, <1>s DEF StackInv, FrameInv, Top
  <1>5. ASSUME NEW i \in 1 .. n
        PROVE  /\ stack'[i].of \in Flows <=> i = 1
               /\ stack'[i].at = "subflows"
               /\ stack'[i + 1].of \in Refs[stack'[i].of]
               /\ stack'[i].map \subseteq SubflowIds
               /\ stack'[i].todo \subseteq Refs[stack'[i].of]
               /\ \A x \in Refs[stack'[i].of] \ stack'[i].todo : Has(x) \/ stack'[i + 1].of = x
               /\ Good' /\ Missing(stack'[i]) => ~Has(stack'[i].of)
    <2>1. CASE i = n
      BY <1>0, <1>1, <1>s, <2>1 DEF StackInv, FrameInv, Top, Missing
    <2>2. CASE i # n
      BY <1>1, <1>s, <2>2 DEF StackInv, FrameInv, Missing
    <2> QED
      BY <2>1, <2>2
  <1>6. /\ new.of \notin Flows /\ new.map \subseteq SubflowIds /\ ~Missing(new)
        /\ new.todo \subseteq Refs[new.of] /\ Refs[new.of] \ new.todo = {}
    BY <1>1, <1>s, TemplateFacts DEF Missing
  <1>7. StackInv'
    <2>0. Len(stack') = n + 1 /\ n \in Nat
      BY <1>1, <1>s
    <2> SUFFICES ASSUME NEW i \in 1 .. (n + 1) PROVE FrameInv(i)'
      BY <1>3, <2>0 DEF StackInv
    <2>1. CASE i = n + 1
      BY <1>1, <1>2, <1>4, <1>6, <1>s, <2>0, <2>1 DEF FrameInv, Missing
    <2>2. CASE i # n + 1
      <3>1. i \in 1 .. n /\ i < n + 1
        BY <2>0, <2>2
      <3> HIDE DEF n, new
      <3> QED
        BY <1>2, <1>5, <2>0, <3>1 DEF FrameInv, Missing
    <2> QED
      BY <2>1, <2>2
  <1> QED
    BY <1>1, <1>3, <1>7, <1>s

\* The subflow of the frame on top is there, under id: the frame below goes on.
LEMMA StackReturn ==
    ASSUME TypeInv, StackInv, stack # <<>>, Top.of \in Subflows,
           UNCHANGED <<runtime, phase>>,
           Good' => Good, Good' => Fresh',
           NEW id \in Ident, Return(id), IsSubflow(id, Top.of)
    PROVE  StackInv' /\ stack' \in Seq(Frames) /\ stack' # <<>> /\ stack'[1].of = stack[1].of
  <1> DEFINE n == Len(stack)
             m == n - 1
  <1>0. /\ stack \in Seq(Frames) /\ n \in Nat /\ n >= 2
        /\ m \in Nat /\ m >= 1
    <2>1. stack \in Seq(Frames) /\ n \in Nat /\ n >= 1
      BY DEF TypeInv
    <2>2. n # 1
      BY <2>1, TemplateFacts DEF StackInv, FrameInv, Top
    <2> HIDE DEF n
    <2> QED
      BY <2>1, <2>2
  <1>1. /\ stack' \in Seq(Frames) /\ Len(stack') = m
        /\ \A i \in 1 .. m :
              /\ stack'[i].of = stack[i].of /\ stack'[i].at = stack[i].at
              /\ stack'[i].todo = stack[i].todo /\ stack'[i].id = stack[i].id
              /\ stack'[i].map = IF i = m THEN stack[i].map \cup {id} ELSE stack[i].map
    BY <1>0, ReturnMoves
  <1>2. /\ SubflowIds' = SubflowIds /\ \A x : Has(x)' <=> Has(x)
    BY DEF SubflowIds, Has
  <1>3. stack' # <<>> /\ phase' = "deploy"
    BY <1>0, <1>1 DEF StackInv, FrameInv
  <1>4. id \in SubflowIds /\ Has(stack[n].of)
    BY DEF IsSubflow, SubflowIds, Ids, Has, Top
  <1>5. ASSUME NEW i \in 1 .. m
        PROVE  /\ stack'[i].of \in Flows <=> i = 1
               /\ stack'[i].at = "subflows"
               /\ i < m => stack'[i + 1].of \in Refs[stack'[i].of]
               /\ stack'[i].map \subseteq SubflowIds
               /\ stack'[i].todo \subseteq Refs[stack'[i].of]
               /\ \A x \in Refs[stack'[i].of] \ stack'[i].todo :
                     Has(x) \/ (i < m /\ stack'[i + 1].of = x)
               /\ Good' /\ Missing(stack'[i]) => ~Has(stack'[i].of)
    <2>0. i \in 1 .. n /\ i < n /\ i \in Nat /\ (i # m => i < m /\ i + 1 \in 1 .. m) /\ (i = m => i + 1 = n)
      BY <1>0
    <2>1. FrameInv(i)
      BY <2>0 DEF StackInv
    <2> HIDE DEF n
    <2>2. /\ stack[i].of \in Flows <=> i = 1
          /\ stack[i].at = "subflows" /\ stack[i].map \subseteq SubflowIds
          /\ stack[i].todo \subseteq Refs[stack[i].of]
          /\ Good /\ Missing(stack[i]) => ~Has(stack[i].of)
          /\ stack[i + 1].of \in Refs[stack[i].of]
          /\ \A x \in Refs[stack[i].of] \ stack[i].todo : Has(x) \/ stack[i + 1].of = x
      BY <2>0, <2>1 DEF FrameInv, n
    <2> HIDE DEF m
    <2>3. CASE i = m
      <3>1. /\ stack'[i].of = stack[i].of /\ stack'[i].at = stack[i].at
            /\ stack'[i].todo = stack[i].todo /\ stack'[i].map = stack[i].map \cup {id}
        BY <1>1, <2>3
      <3>2. ~(i < m) /\ stack[i + 1] = stack[n]
        BY <2>0, <2>3
      <3> QED
        BY <1>4, <2>2, <3>1, <3>2 DEF Missing
    <2>4. CASE i # m
      BY <1>1, <2>0, <2>2, <2>4 DEF Missing
    <2> QED
      BY <2>3, <2>4
  <1>7. StackInv'
    <2> HIDE DEF m
    <2> QED
      BY <1>1, <1>2, <1>3, <1>5 DEF StackInv, FrameInv, Missing
  <1>8. stack'[1].of = stack[1].of
    <2>1. 1 \in 1 .. m
      BY <1>0
    <2> HIDE DEF m
    <2> QED
      BY <1>1, <2>1
  <1> QED
    BY <1>1, <1>3, <1>7, <1>8

-----------------------------------------------------------------------------
(* Records and elements. *)

\* What one search may give: a record that Node-RED has, or what the next
\* search gives if there is no record or one that Node-RED does not have.
LEMMA SearchGives ==
    ASSUME NEW R, NEW O, NEW y \in Search(R, O)
    PROVE  \/ \E r \in R : r.id = y /\ y \in SubflowIds
           \/ y \in O /\ (R = {} \/ \E r \in R : r.id \notin SubflowIds)
  BY DEF Search

\* The three searches of _nr_resolve_deployed_subflow_flow.
LEMMA ResolvedSearches ==
    ASSUME NEW s, NEW x
    PROVE  Resolved(s, x) =
             Search({r \in flows : r.kind = "subflow" /\ r.app = s},
             Search({r \in flows : r.kind = "subflow" /\ r.id = x},
             Search({r \in flows : r.kind = "subflow" /\ r.of = s}, {0})))
  BY DEF Resolved

\* Whatever record _nr_resolve_deployed_subflow_flow returns, Node-RED has its
\* element, and it is of the subflow asked for.
LEMMA ResolvedIsThere ==
    ASSUME TypeInv, StoreInv, NEW s \in Subflows, NEW x, x = 0 \/ IsSubflow(x, s),
           NEW id \in Resolved(s, x), id # 0
    PROVE  id \in Ident /\ IsSubflow(id, s)
  <1> DEFINE A == {r \in flows : r.kind = "subflow" /\ r.app = s}
             B == {r \in flows : r.kind = "subflow" /\ r.id = x}
             C == {r \in flows : r.kind = "subflow" /\ r.of = s}
  <1>1. /\ \A r \in flows : r.id \in Ident
        /\ s # None
    BY TemplateFacts DEF TypeInv, Records, Templates
  <1>2. id \in Search(A, Search(B, Search(C, {0})))
    BY ResolvedSearches
  <1> HIDE DEF A, B, C
  <1>3. \E r \in A \cup B \cup C : r.id = id /\ id \in SubflowIds
    <2>1. \/ \E r \in A : r.id = id /\ id \in SubflowIds
          \/ id \in Search(B, Search(C, {0}))
      BY <1>2, SearchGives
    <2>2. id \in Search(B, Search(C, {0})) => \/ \E r \in B : r.id = id /\ id \in SubflowIds
                                              \/ id \in Search(C, {0})
      BY SearchGives
    <2>3. id \in Search(C, {0}) => \E r \in C : r.id = id /\ id \in SubflowIds
      BY SearchGives
    <2> QED
      BY <2>1, <2>2, <2>3
  <1>4. PICK r \in flows : /\ r.id = id /\ id \in SubflowIds
                           /\ r.app = s \/ r.id = x \/ r.of = s
    BY <1>3 DEF A, B, C
  <1>5. PICK e \in runtime : e.kind = "subflow" /\ e.id = id
    BY <1>4 DEF SubflowIds, Ids
  <1>6. r.of = e.of
    BY <1>4, <1>5 DEF StoreInv
  <1>7. e.of = s
    <2>1. CASE r.app = s
      BY <1>1, <1>6, <2>1 DEF StoreInv
    <2>2. CASE r.id = x
      <3>1. PICK u \in runtime : u.id = x /\ u.of = s
        BY <1>1, <1>4, <2>2 DEF IsSubflow, Ident
      <3> QED
        BY <1>4, <1>5, <2>2, <3>1 DEF StoreInv
    <2> QED
      BY <1>4, <1>6, <2>1, <2>2
  <1> QED
    BY <1>1, <1>4, <1>5, <1>7 DEF IsSubflow

\* With records that are up to date a subflow that is there is found.
LEMMA ResolvedFinds ==
    ASSUME TypeInv, StoreInv, Fresh, NEW s \in Subflows, NEW x, Has(s)
    PROVE  0 \notin Resolved(s, x)
  <1> DEFINE A == {r \in flows : r.kind = "subflow" /\ r.app = s}
             B == {r \in flows : r.kind = "subflow" /\ r.id = x}
             C == {r \in flows : r.kind = "subflow" /\ r.of = s}
  <1>1. \A r \in flows : r.id # 0
    BY DEF TypeInv, Records, Ident
  <1>2. \A r \in flows : r.kind = "subflow" => r.id \in SubflowIds
    BY DEF Fresh
  <1>3. PICK e \in runtime : e.kind = "subflow" /\ e.of = s
    BY DEF Has
  <1>4. PICK q \in flows : q.id = e.id
    BY <1>3 DEF Fresh
  <1>5. q \in C
    BY <1>3, <1>4 DEF StoreInv
  <1>6. A \cup B \cup C \subseteq flows /\ \A r \in A \cup B \cup C : r.id \in SubflowIds
    BY <1>2
  <1>7. Resolved(s, x) = Search(A, Search(B, Search(C, {0})))
    BY ResolvedSearches
  <1> HIDE DEF A, B, C
  <1>8. 0 \notin Search(C, {0})
    BY <1>1, <1>5, <1>6, SearchGives
  <1>9. 0 \notin Search(B, Search(C, {0}))
    BY <1>1, <1>6, <1>8, SearchGives
  <1>10. 0 \notin Search(A, Search(B, Search(C, {0})))
    BY <1>1, <1>6, <1>9, SearchGives
  <1> QED
    BY <1>7, <1>10

\* Whatever a synchronisation does, the records agree with the elements.
LEMMA SyncKeepsStore ==
    ASSUME TypeInv, StoreInv, api_sync_flows, UNCHANGED <<runtime, nextId>>
    PROVE  flows' \subseteq Records /\ StoreInv' /\ badSyncs' \in Nat
  <1>1. badSyncs' \in Nat
    BY DEF TypeInv, api_sync_flows
  <1>2. ASSUME NEW q \in flows', q \notin flows
        PROVE  \E e \in runtime : /\ q = Record(e, None) /\ e.id \notin Ids(flows)
    BY <1>2 DEF api_sync_flows, Synced, Tabs
  <1>3. ASSUME NEW q \in flows', q \notin flows
        PROVE  /\ q \in Records
               /\ q.app = None
               /\ \E e \in runtime : q.id = e.id /\ q.kind = e.kind /\ q.of = e.of
    <2>1. PICK e \in runtime : q = Record(e, None)
      BY <1>2, <1>3
    <2>2. /\ e.id \in Ident /\ e.kind \in Kinds /\ e.of \in Templates \cup {None}
      BY DEF TypeInv, Elements
    <2> QED
      BY <2>1, <2>2 DEF Record, Records
  <1>4. flows' \subseteq Records
    BY <1>3 DEF TypeInv
  <1>5. StoreInv'
    <2>1. ASSUME NEW r \in flows'
          PROVE  /\ r.id < nextId /\ r.app \in {None, r.of}
                 /\ \A e \in runtime : r.id = e.id => r.kind = e.kind /\ r.of = e.of
      BY <1>3 DEF StoreInv
    <2> QED
      BY <2>1 DEF StoreInv
  <1> QED
    BY <1>1, <1>4, <1>5

\* A synchronisation that has not failed leaves a record for each element and
\* for nothing else.
LEMMA SyncGood ==
    ASSUME TypeInv, StoreInv, api_sync_flows, UNCHANGED <<runtime, nextId>>
    PROVE  /\ Good' => Good /\ Fresh'
           /\ clean' => clean /\ Good' /\ \A e \in runtime : \E r \in flows' : r.id = e.id
  <1>1. CASE /\ flows' = Synced /\ callOK /\ UNCHANGED badSyncs
    <2>1. (Good' <=> Good) /\ (clean' <=> clean)
      BY <1>1, Zenon DEF callOK, Good
    <2>2. clean => Good
      BY Zenon DEF Good
    <2>3. /\ \A e \in runtime : \E r \in flows' : r.id = e.id
          /\ \A r \in flows' : \E e \in runtime : r.id = e.id
      <3>1. ASSUME NEW e \in runtime PROVE \E r \in flows' : r.id = e.id
        <4>1. CASE e.id \in Ids(flows)
          BY <1>1, <4>1 DEF Synced, Ids
        <4>2. CASE e.id \notin Ids(flows)
          <5>1. Record(e, None) \in flows' /\ Record(e, None).id = e.id
            BY <1>1, <4>2 DEF Synced, Record
          <5> QED
            BY <5>1
        <4> QED
          BY <4>1, <4>2
      <3>2. ASSUME NEW r \in flows' PROVE \E e \in runtime : r.id = e.id
        BY <1>1 DEF Synced, Record, Ids
      <3> QED
        BY <3>1, <3>2
    <2>4. Fresh'
      <3>1. StoreInv'
        BY SyncKeepsStore
      <3>2. ASSUME NEW r \in flows', r.kind = "subflow" PROVE r.id \in SubflowIds'
        BY <2>3, <3>1, <3>2 DEF StoreInv, SubflowIds, Ids
      <3> QED
        BY <2>3, <3>2 DEF Fresh
    <2> QED
      BY <2>1, <2>2, <2>3, <2>4
  <1>2. CASE fault /\ badSyncs' = badSyncs + 1
    <2>1. badSyncs' # 0
      BY <1>2 DEF TypeInv
    <2>2. ~clean'
      BY <1>2, Zenon DEF fault
    <2>3. ~Good'
      BY <2>1, <2>2, Zenon DEF Good
    <2> QED
      BY <2>2, <2>3
  <1> QED
    BY <1>1, <1>2, Zenon DEF api_sync_flows

\* A POST takes effect: the store is as before with one new element.
LEMMA PostKeepsStore ==
    ASSUME TypeInv, StoreInv, UNCHANGED flows, nextId' = nextId + 1,
           NEW e \in Elements, e.id = nextId, runtime' = runtime \cup {e}
    PROVE  StoreInv' /\ runtime' \subseteq Elements /\ nextId' \in Ident
  <1>1. nextId \in Nat /\ nextId' \in Ident
    BY DEF TypeInv, Ident
  <1>2. \A d \in runtime : d.id \in Nat /\ d.id < nextId
    BY DEF TypeInv, StoreInv, Elements, Ident
  <1>3. \A r \in flows : r.id \in Nat /\ r.id < nextId
    BY DEF TypeInv, StoreInv, Records, Ident
  <1> QED
    BY <1>1, <1>2, <1>3 DEF StoreInv, TypeInv

-----------------------------------------------------------------------------
(* What the steps have in common. *)

\* What the invariant says of the frame on top.
LEMMA TopFacts ==
    ASSUME TypeInv, StackInv, stack # <<>>
    PROVE  /\ phase = "deploy" /\ Len(stack) \in Nat /\ Len(stack) >= 1 /\ Top = stack[Len(stack)]
           /\ Top \in Frames /\ Top.of \in Templates /\ Top.at \in Labels
           /\ Top.todo \in SUBSET Subflows /\ Top.map \in SUBSET Ident /\ Top.id \in Nat
           /\ Top.of \in Flows <=> Len(stack) = 1
           /\ Top.map \subseteq SubflowIds
           /\ Top.todo \subseteq Refs[Top.of]
           /\ \A s \in Refs[Top.of] \ Top.todo : Has(s)
           /\ Top.at \in {"read", "write", "add", "resync", "confirm"} => Top.todo = {}
           /\ Top.at \in {"lookup", "resync", "confirm"} => Top.of \in Subflows
           /\ Top.at = "add" => Top.of \in Flows
           /\ Top.at \in {"resync", "confirm"} => IsSubflow(Top.id, Top.of)
           /\ Top.at = "write" => fetched = runtime
           /\ Good /\ Top.at \in {"subflows", "lookup", "confirm"} => Fresh
           /\ Good /\ Missing(Top) => ~Has(Top.of)
  <1> DEFINE n == Len(stack)
  <1>1. n \in Nat /\ n >= 1 /\ n \in 1 .. n /\ stack[n] \in Frames /\ phase = "deploy"
    BY DEF TypeInv, StackInv
  <1>2. FrameInv(n)
    BY <1>1 DEF StackInv
  <1>3. Top = stack[n]
    BY DEF Top
  <1>4. /\ Top.of \in Templates /\ Top.at \in Labels
        /\ Top.todo \in SUBSET Subflows /\ Top.map \in SUBSET Ident /\ Top.id \in Nat
    BY <1>1, <1>3, FrameFields
  <1>5. ~(n < n)
    BY <1>1
  <1> QED
    BY <1>1, <1>2, <1>3, <1>4, <1>5 DEF FrameInv

\* A subflow about to be posted is no frame further down, also where subflows
\* use each other in a circle: the frame above that one would be of a subflow
\* which it uses, and those are all there.
LEMMA NotBelow ==
    ASSUME TypeInv, StackInv, Good, At("write"), Top.of \in Subflows,
           NEW i \in 1 .. Len(stack), i < Len(stack)
    PROVE  stack[i].of # Top.of
  <1> SUFFICES ASSUME stack[i].of = Top.of PROVE FALSE
    OBVIOUS
  <1> DEFINE n == Len(stack)
             up == stack[i + 1]
  <1>1. /\ n \in Nat /\ i \in Nat /\ i + 1 \in 1 .. n /\ i + 1 # 1 /\ up \in Frames
        /\ Top = stack[n] /\ stack # <<>> /\ Top.at = "write"
    BY DEF TypeInv, At, Top
  <1>2. FrameInv(i) /\ FrameInv(i + 1)
    BY <1>1 DEF StackInv
  <1>3. up.of \in Refs[Top.of]
    BY <1>2 DEF FrameInv
  <1>4. Top.todo = {} /\ \A s \in Refs[Top.of] \ Top.todo : Has(s)
    BY <1>1, TopFacts
  <1>5. Has(up.of)
    BY <1>3, <1>4
  <1>6. up.at \in {"subflows", "write"}
    <2>1. CASE i + 1 < n
      BY <1>2, <2>1 DEF FrameInv
    <2>2. CASE i + 1 = n
      BY <1>1, <2>2
    <2> QED
      BY <1>1, <2>1, <2>2
  <1>7. up.of \in Subflows
    <2>1. up.of \in Templates
      BY <1>1, FrameFields
    <2>2. up.of \notin Flows
      BY <1>1, <1>2 DEF FrameInv
    <2> QED
      BY <2>1, <2>2 DEF Templates
  <1>8. Missing(up)
    BY <1>6, <1>7 DEF Missing
  <1>9. ~Has(up.of)
    BY <1>2, <1>8 DEF FrameInv
  <1> QED
    BY <1>5, <1>9

\* The subflow of the frame on top has been posted.
LEMMA StackPosted ==
    ASSUME TypeInv, StackInv, At("write"), Top.of \in Subflows, UNCHANGED phase,
           Good' => Good,
           NEW e, e.id = nextId, e.kind = "subflow", e.of = Top.of, runtime' = runtime \cup {e},
           stack' = [stack EXCEPT ![Len(stack)].at = "resync", ![Len(stack)].id = nextId]
    PROVE  StackInv' /\ stack' \in Seq(Frames) /\ stack' # <<>> /\ stack'[1].of = stack[1].of
  <1> DEFINE n == Len(stack)
             g == [stack[n] EXCEPT !.at = "resync", !.id = nextId]
  <1>0. /\ stack \in Seq(Frames) /\ stack # <<>> /\ Top.at = "write"
        /\ n \in Nat /\ n >= 1 /\ n \in 1 .. n /\ stack[n] \in Frames /\ Top = stack[n]
        /\ nextId \in Nat /\ "resync" \in Labels
    BY DEF TypeInv, At, Top, Ident, Labels
  <1>1. /\ g \in Frames /\ g.id = nextId /\ g.at = "resync"
        /\ g.of = stack[n].of /\ g.todo = stack[n].todo /\ g.map = stack[n].map
    <2> DEFINE f == [stack[n] EXCEPT !.at = "resync"]
    <2>1. /\ f \in Frames /\ f.at = "resync"
          /\ f.of = stack[n].of /\ f.todo = stack[n].todo /\ f.map = stack[n].map
      BY <1>0, FrameAt, Zenon
    <2>2. g = [f EXCEPT !.id = nextId]
      OBVIOUS
    <2> HIDE DEF f, g
    <2> QED
      BY <1>0, <2>1, <2>2, FrameId
  <1>2. stack' = [stack EXCEPT ![n] = g]
    BY <1>0
  <1> HIDE DEF g
  <1>3. /\ stack' \in Seq(Frames) /\ Len(stack') = n /\ stack'[n] = g
        /\ \A i \in 1 .. n : i # n => stack'[i] = stack[i]
    <2> DEFINE new == [stack EXCEPT ![n] = g]
    <2>1. /\ new \in Seq(Frames) /\ Len(new) = n /\ new[n] = g
          /\ \A i \in 1 .. n : i # n => new[i] = stack[i]
      BY <1>0, <1>1, LastReplaced, Zenon
    <2> HIDE DEF new
    <2>2. stack' = new
      BY <1>2 DEF new
    <2> QED
      BY <2>1, <2>2
  <1>4. /\ SubflowIds \subseteq SubflowIds' /\ \A x : Has(x) => Has(x)'
        /\ \A x : Has(x)' => Has(x) \/ x = Top.of
        /\ \E d \in runtime' : d.id = nextId /\ d.kind = "subflow" /\ d.of = Top.of
    BY DEF SubflowIds, Ids, Has
  <1>5. stack' # <<>> /\ phase' = "deploy"
    BY <1>0, <1>3 DEF StackInv
  <1>6. ASSUME NEW i \in 1 .. n, i = n PROVE FrameInv(i)'
    <2>1. /\ g.of \notin Flows /\ n # 1 /\ g.map \subseteq SubflowIds /\ g.todo = {}
          /\ \A s \in Refs[g.of] \ g.todo : Has(s)
      BY <1>0, <1>1, TopFacts, TemplateFacts
    <2>2. ~Missing(g)
      BY <1>1 DEF Missing
    <2>3. ~(n < n)
      BY <1>0
    <2> HIDE DEF n
    <2> QED
      BY <1>0, <1>1, <1>3, <1>4, <1>6, <2>1, <2>2, <2>3 DEF FrameInv, Missing, IsSubflow
  <1>7. ASSUME NEW i \in 1 .. n, i # n PROVE FrameInv(i)'
    <2>1. FrameInv(i) /\ i < n /\ i + 1 \in 1 .. n
      BY <1>0, <1>7 DEF StackInv
    <2>2. stack'[i] = stack[i] /\ stack'[i + 1].of = stack[i + 1].of
      BY <1>1, <1>3, <1>7, <2>1
    <2>3. Good' => stack[i].of # Top.of
      BY <2>1, NotBelow
    <2>4. /\ stack[i].at = "subflows" /\ stack[i + 1].of \in Refs[stack[i].of]
          /\ stack[i].of \in Flows <=> i = 1
          /\ stack[i].map \subseteq SubflowIds /\ stack[i].todo \subseteq Refs[stack[i].of]
          /\ \A s \in Refs[stack[i].of] \ stack[i].todo : Has(s) \/ stack[i + 1].of = s
          /\ Good /\ Missing(stack[i]) => ~Has(stack[i].of)
      BY <2>1 DEF FrameInv
    <2> HIDE DEF n
    <2> QED
      BY <1>3, <1>4, <1>7, <2>1, <2>2, <2>3, <2>4 DEF FrameInv, Missing
  <1>8. StackInv'
    BY <1>3, <1>5, <1>6, <1>7 DEF StackInv
  <1>9. stack'[1].of = stack[1].of
    BY <1>0, <1>1, <1>3
  <1> QED
    BY <1>3, <1>5, <1>8, <1>9

\* A call that succeeds leaves clean as it was, one that fails clears it.
LEMMA Calls ==
    /\ callOK /\ UNCHANGED badSyncs => (Good' => Good) /\ (clean' => clean)
    /\ fault => ~clean'
    /\ fault /\ UNCHANGED badSyncs => (Good' => Good)
  <1>1. ASSUME callOK, UNCHANGED badSyncs PROVE (Good' => Good) /\ (clean' => clean)
    <2>1. clean' = clean
      BY <1>1 DEF callOK
    <2> QED
      BY <1>1, <2>1, Zenon DEF Good
  <1>2. fault => ~clean'
    BY Zenon DEF fault
  <1>3. fault /\ UNCHANGED badSyncs => (Good' => Good)
    BY <1>2, Zenon DEF Good
  <1> QED
    BY <1>1, <1>2, <1>3, Zenon

\* While a flow is being worked on, what was asked for and what was posted stay.
LEMMA RequestKept ==
    ASSUME RequestInv, phase = "deploy", UNCHANGED <<phase, queue, deployed, request>>,
           runtime \subseteq runtime',
           clean' => clean /\ stack' # <<>> /\ stack'[1].of = stack[1].of
    PROVE  RequestInv' /\ CleanDeployWorks'
  <1>1. phase' = "deploy" /\ Tabs \subseteq Tabs'
    BY DEF Tabs
  <1>2. ASSUME NEW d \in deployed' PROVE \E e \in Tabs' : e.id = d.id /\ e.of = d.of
    BY <1>1 DEF RequestInv
  <1>3. ASSUME clean', NEW x \in request'
        PROVE  \/ x \in queue'
               \/ stack' # <<>> /\ stack'[1].of = x
               \/ \E d \in deployed' : d.of = x
    BY <1>3 DEF RequestInv
  <1>4. RequestInv'
    BY <1>1, <1>2, <1>3 DEF RequestInv
  <1>5. CleanDeployWorks'
    BY <1>1 DEF CleanDeployWorks
  <1> QED
    BY <1>4, <1>5

\* A step that does not change Node-RED.
LEMMA RuntimeKept ==
    ASSUME RefsResolve, SubflowOnce, UNCHANGED runtime, badSyncs' = 0 => badSyncs = 0
    PROVE  RefsResolve' /\ SubflowOnce'
  BY DEF RefsResolve, SubflowOnce, SubflowIds, Ids

\* The number of failed synchronisations only grows.
LEMMA BadSyncsGrow ==
    ASSUME TypeInv, api_sync_flows
    PROVE  badSyncs' = 0 => badSyncs = 0
  BY DEF TypeInv, api_sync_flows

\* A call failed and changed nothing but, perhaps, the next id.
LEMMA GaveUp ==
    ASSUME Inv, stack # <<>>, giveUp, fault,
           UNCHANGED <<runtime, flows, phase, queue, deployed, request, badSyncs>>,
           fetched' \subseteq Elements, nextId' \in {nextId, nextId + 1}
    PROVE  Inv'
  <1> USE DEF Inv
  <1>1. stack' = <<>> /\ stack' \in Seq(Frames)
    BY DEF giveUp
  <1>2. TypeInv'
    <2>1. nextId' \in Ident
      BY DEF TypeInv, Ident
    <2> QED
      BY <1>1, <2>1 DEF TypeInv
  <1>3. StoreInv'
    <2>1. nextId \in Nat
      BY DEF TypeInv, Ident
    <2>2. \A d \in runtime : d.id \in Nat
      BY DEF TypeInv, Elements, Ident
    <2>3. \A r \in flows : r.id \in Nat
      BY DEF TypeInv, Records, Ident
    <2> QED
      BY <2>1, <2>2, <2>3 DEF StoreInv
  <1>4. StackInv'
    BY <1>1, StackEmpty
  <1>5. RequestInv' /\ CleanDeployWorks'
    <2>1. ~clean' /\ phase = "deploy"
      BY Calls, TopFacts
    <2> QED
      BY <2>1, RequestKept
  <1>6. RefsResolve' /\ SubflowOnce'
    BY RuntimeKept
  <1> QED
    BY <1>2, <1>3, <1>4, <1>5, <1>6

-----------------------------------------------------------------------------
(* The steps. *)

\* The user starts a deployment.
LEMMA StepDeploy == Inv /\ action_deploy_flows => Inv'
  <1> SUFFICES ASSUME Inv, action_deploy_flows PROVE Inv'
    OBVIOUS
  <1> USE DEF Inv
  <1>1. /\ phase = "idle" /\ phase' = "deploy" /\ deployed' = {}
        /\ queue' = request' /\ queue' \subseteq Flows
        /\ UNCHANGED <<runtime, flows, stack, fetched, nextId, badSyncs>>
    BY DEF action_deploy_flows, odoo
  <1>2. stack' = <<>>
    BY <1>1 DEF StackInv
  <1>3. TypeInv'
    BY <1>1 DEF TypeInv
  <1>4. StoreInv'
    BY <1>1 DEF StoreInv
  <1>5. StackInv'
    BY <1>2, StackEmpty
  <1>6. RequestInv'
    BY <1>1 DEF RequestInv
  <1>7. RefsResolve' /\ SubflowOnce'
    BY <1>1, RuntimeKept
  <1>8. CleanDeployWorks'
    BY <1>1 DEF CleanDeployWorks
  <1> QED
    BY <1>3, <1>4, <1>5, <1>6, <1>7, <1>8

\* The deployment comes to the next template.
LEMMA StepNextFlow == Inv /\ _nr_deploy_single_flow => Inv'
  <1> SUFFICES ASSUME Inv, _nr_deploy_single_flow PROVE Inv'
    OBVIOUS
  <1> USE DEF Inv
  <1>0. /\ phase = "deploy" /\ stack = <<>>
        /\ UNCHANGED <<runtime, flows, phase, deployed, fetched, nextId, request, clean, badSyncs>>
    BY DEF _nr_deploy_single_flow, odoo, ghosts
  <1>1. PICK x \in queue :
          /\ queue' = queue \ {x}
          /\ stack' = <<Frame(x, IF Refs[x] = {} THEN Post(x) ELSE "sync", Refs[x])>>
    BY DEF _nr_deploy_single_flow
  <1> DEFINE a == IF Refs[x] = {} THEN "add" ELSE "sync"
             g == Frame(x, a, Refs[x])
  <1>2. x \in Flows /\ x \in Templates /\ x \notin Subflows /\ Refs[x] \in SUBSET Subflows
    BY TemplateFacts DEF TypeInv, Templates
  <1>3. stack' = <<g>>
    BY <1>1, <1>2 DEF Post
  <1>4. g \in Frames /\ g.of = x /\ g.at = a /\ g.todo = Refs[x] /\ g.map = {}
    <2>1. a \in Labels /\ {} \in SUBSET Ident /\ 0 \in Nat
      BY DEF Labels
    <2> HIDE DEF a
    <2> QED
      BY <1>2, <2>1 DEF Frames, Frame
  <1>a. a \in {"add", "sync"} /\ (a = "add" => Refs[x] = {})
    OBVIOUS
  <1> HIDE DEF g, a
  <1>5. /\ stack' \in Seq(Frames) /\ Len(stack') = 1 /\ stack'[1] = g /\ stack' # <<>>
    BY <1>3, <1>4
  <1>6. TypeInv'
    BY <1>0, <1>1, <1>5 DEF TypeInv
  <1>7. StoreInv'
    BY <1>0 DEF StoreInv
  <1>8. StackInv'
    <2>1. ~Missing(g)
      BY <1>2, <1>4 DEF Missing
    <2>2. ASSUME NEW i \in 1 .. Len(stack') PROVE FrameInv(i)'
      <3>1. i = 1 /\ ~(i < Len(stack'))
        BY <1>5
      <3> QED
        BY <1>2, <1>4, <1>5, <1>a, <2>1, <3>1 DEF FrameInv, Missing
    <2> QED
      BY <1>0, <2>2 DEF StackInv
  <1>9. RequestInv'
    <2>1. Tabs' = Tabs /\ (clean' => clean)
      BY <1>0, Zenon DEF Tabs
    <2>2. ASSUME clean', NEW y \in request'
          PROVE  \/ y \in queue'
                 \/ stack' # <<>> /\ stack'[1].of = y
                 \/ \E d \in deployed' : d.of = y
      BY <1>0, <1>1, <1>4, <1>5, <2>1, <2>2 DEF RequestInv
    <2> QED
      BY <1>0, <2>1, <2>2 DEF RequestInv
  <1>10. RefsResolve' /\ SubflowOnce'
    BY <1>0, RuntimeKept
  <1>11. CleanDeployWorks'
    BY <1>0 DEF CleanDeployWorks
  <1> QED
    BY <1>6, <1>7, <1>8, <1>9, <1>10, <1>11

\* _nr_ensure_subflows_deployed brings the records up to date.
LEMMA StepEnsureSync == Inv /\ ensureSync => Inv'
  <1> SUFFICES ASSUME Inv, ensureSync PROVE Inv'
    OBVIOUS
  <1> USE DEF Inv
  <1>0. /\ stack # <<>> /\ Top.at = "sync" /\ api_sync_flows /\ Goto("subflows")
        /\ UNCHANGED <<runtime, phase, queue, deployed, fetched, nextId, request>>
    BY DEF ensureSync, At
  <1>1. flows' \subseteq Records /\ StoreInv' /\ badSyncs' \in Nat
    BY <1>0, SyncKeepsStore
  <1>2. /\ Good' => Good /\ Fresh'
        /\ clean' => clean
    BY <1>0, SyncGood
  <1>3. Good' /\ Top.of \in Subflows => ~Has(Top.of)
    BY <1>0, <1>2, TopFacts DEF Missing
  <1>4. StackInv' /\ stack' \in Seq(Frames) /\ stack' # <<>> /\ stack'[1].of = stack[1].of
    <2>1. "subflows" \in Labels
      BY DEF Labels
    <2> QED
      BY <1>0, <1>2, <1>3, <2>1, StackGoto
  <1>5. TypeInv'
    BY <1>0, <1>1, <1>4 DEF TypeInv
  <1>6. RequestInv' /\ CleanDeployWorks'
    BY <1>0, <1>2, <1>4, TopFacts, RequestKept
  <1>7. RefsResolve' /\ SubflowOnce'
    BY <1>0, BadSyncsGrow, RuntimeKept
  <1> QED
    BY <1>1, <1>4, <1>5, <1>6, <1>7

\* The loop over the subflows.
LEMMA StepLoop == Inv /\ _nr_ensure_subflows_deployed => Inv'
  <1> SUFFICES ASSUME Inv, _nr_ensure_subflows_deployed PROVE Inv'
    OBVIOUS
  <1> USE DEF Inv
  <1>0. /\ At("subflows") /\ stack # <<>> /\ Top.at = "subflows"
        /\ UNCHANGED <<runtime, flows, phase, queue, deployed, fetched, nextId, request, clean, badSyncs>>
    BY DEF _nr_ensure_subflows_deployed, At, ghosts
  <1>1. (Good' => Good) /\ (clean' => clean)
    BY <1>0, Zenon DEF Good
  <1>2. Fresh' <=> Fresh
    BY <1>0 DEF Fresh, SubflowIds
  <1>3. StackInv' /\ stack' \in Seq(Frames) /\ stack' # <<>> /\ stack'[1].of = stack[1].of
    <2>1. CASE Top.todo = {} /\ Goto(Post(Top.of))
      <3>1. /\ Post(Top.of) \in {"add", "read"} /\ Post(Top.of) \in Labels
            /\ Post(Top.of) = "add" => Top.of \in Flows
        BY DEF Post, Labels
      <3>2. Good' /\ Top.of \in Subflows => ~Has(Top.of)
        BY <1>0, <1>1, TopFacts DEF Missing
      <3> QED
        BY <1>0, <1>1, <2>1, <3>1, <3>2, StackGoto
    <2>2. CASE \E s \in Top.todo :
                  stack' = Append([stack EXCEPT ![Len(stack)].todo = @ \ {s}],
                                  Frame(s, "lookup", Refs[s]))
      <3>1. PICK s \in Top.todo :
                  stack' = Append([stack EXCEPT ![Len(stack)].todo = @ \ {s}],
                                  Frame(s, "lookup", Refs[s]))
        BY <2>2
      <3> QED
        BY <1>0, <1>1, <3>1, StackPush
    <2> QED
      BY <2>1, <2>2 DEF _nr_ensure_subflows_deployed
  <1>4. TypeInv'
    BY <1>0, <1>3 DEF TypeInv
  <1>5. StoreInv'
    BY <1>0 DEF StoreInv
  <1>6. RequestInv' /\ CleanDeployWorks'
    BY <1>0, <1>1, <1>3, TopFacts, RequestKept
  <1>7. RefsResolve' /\ SubflowOnce'
    BY <1>0, RuntimeKept
  <1> QED
    BY <1>3, <1>4, <1>5, <1>6, <1>7

\* A subflow is looked up: what is found is there, and with records that are
\* up to date what is not found is not there.
LEMMA StepLookup == Inv /\ lookup => Inv'
  <1> SUFFICES ASSUME Inv, lookup PROVE Inv'
    OBVIOUS
  <1> USE DEF Inv
  <1>0. /\ stack # <<>> /\ Top.at = "lookup"
        /\ UNCHANGED <<runtime, flows, phase, queue, deployed, fetched, nextId, request, badSyncs>>
    BY DEF lookup, At, odoo
  <1>1. CASE fault /\ giveUp
    BY <1>0, <1>1, GaveUp DEF TypeInv
  <1>2. CASE callOK /\ \E id \in Resolved(Top.of, 0) :
                IF id # 0 THEN Return(id)
                          ELSE Goto(IF Top.todo = {} THEN "read" ELSE "sync")
    <2>0. (Good' => Good) /\ (clean' => clean)
      BY <1>0, <1>2, Calls
    <2>1. PICK id \in Resolved(Top.of, 0) :
                IF id # 0 THEN Return(id)
                          ELSE Goto(IF Top.todo = {} THEN "read" ELSE "sync")
      BY <1>2
    <2>2. Top.of \in Subflows
      BY <1>0, TopFacts
    <2>3. Good' => Fresh /\ Fresh'
      <3>1. Fresh' <=> Fresh
        BY <1>0 DEF Fresh, SubflowIds
      <3> QED
        BY <1>0, <2>0, <3>1, TopFacts
    <2>4. StackInv' /\ stack' \in Seq(Frames) /\ stack' # <<>> /\ stack'[1].of = stack[1].of
      <3>1. CASE id # 0
        <4>1. id \in Ident /\ IsSubflow(id, Top.of)
          BY <2>1, <2>2, <3>1, ResolvedIsThere
        <4> QED
          BY <1>0, <2>0, <2>1, <2>2, <2>3, <3>1, <4>1, StackReturn
      <3>2. CASE id = 0
        <4> DEFINE a == IF Top.todo = {} THEN "read" ELSE "sync"
        <4>1. a \in Labels /\ a \in {"read", "sync"} /\ (a = "read" => Top.todo = {}) /\ Goto(a)
          BY <2>1, <3>2 DEF Labels
        <4>2. Good' => ~Has(Top.of)
          BY <2>1, <2>2, <2>3, <3>2, ResolvedFinds
        <4> HIDE DEF a
        <4> QED
          BY <1>0, <2>0, <4>1, <4>2, StackGoto
      <3> QED
        BY <3>1, <3>2
    <2>5. TypeInv'
      BY <1>0, <2>4 DEF TypeInv
    <2>6. StoreInv'
      BY <1>0 DEF StoreInv
    <2>7. RequestInv' /\ CleanDeployWorks'
      BY <1>0, <2>0, <2>4, TopFacts, RequestKept
    <2>8. RefsResolve' /\ SubflowOnce'
      BY <1>0, RuntimeKept
    <2> QED
      BY <2>4, <2>5, <2>6, <2>7, <2>8
  <1> QED
    BY <1>1, <1>2 DEF lookup

\* All flows are read.
LEMMA StepRead == Inv /\ readFlows => Inv'
  <1> SUFFICES ASSUME Inv, readFlows PROVE Inv'
    OBVIOUS
  <1> USE DEF Inv
  <1>0. /\ stack # <<>> /\ Top.at = "read"
        /\ UNCHANGED <<runtime, flows, phase, queue, deployed, nextId, request, badSyncs>>
    BY DEF readFlows, At, odoo
  <1>1. CASE fault /\ giveUp /\ UNCHANGED fetched
    BY <1>0, <1>1, GaveUp DEF TypeInv
  <1>2. CASE callOK /\ fetched' = runtime /\ Goto("write")
    <2>0. (Good' => Good) /\ (clean' => clean)
      BY <1>0, <1>2, Calls
    <2>1. "write" \in Labels
      BY DEF Labels
    <2>2. /\ Top.todo = {}
          /\ Good' /\ Top.of \in Subflows => ~Has(Top.of)
      BY <1>0, <2>0, TopFacts DEF Missing
    <2>3. StackInv' /\ stack' \in Seq(Frames) /\ stack' # <<>> /\ stack'[1].of = stack[1].of
      BY <1>0, <1>2, <2>0, <2>1, <2>2, StackGoto
    <2>4. TypeInv'
      BY <1>0, <1>2, <2>3 DEF TypeInv
    <2>5. StoreInv'
      BY <1>0 DEF StoreInv
    <2>6. RequestInv' /\ CleanDeployWorks'
      BY <1>0, <2>0, <2>3, TopFacts, RequestKept
    <2>7. RefsResolve' /\ SubflowOnce'
      BY <1>0, RuntimeKept
    <2> QED
      BY <2>3, <2>4, <2>5, <2>6, <2>7
  <1> QED
    BY <1>1, <1>2 DEF readFlows

\* A POST takes effect, whether or not its answer arrives: the element uses
\* subflows that are there, and a subflow was not there.
LEMMA StepPosted ==
    ASSUME Inv, stack # <<>>, Top.at \in {"write", "add"},
           runtime' = runtime \cup {NewElement}, nextId' = nextId + 1, fetched' \subseteq Elements,
           UNCHANGED <<flows, phase, queue, request, badSyncs>>,
           posted \/ (fault /\ giveUp /\ UNCHANGED deployed)
    PROVE  Inv'
  <1> USE DEF Inv
  <1> DEFINE e == NewElement
  <1>0. /\ phase = "deploy" /\ Top.of \in Templates /\ Top.map \in SUBSET Ident
        /\ Top.map \subseteq SubflowIds /\ nextId \in Ident
        /\ Top.of \notin Flows => Top.of \in Subflows /\ Top.at = "write"
        /\ Top.of \in Flows => Top = stack[1] /\ Top.of \notin Subflows
    BY TopFacts, TemplateFacts DEF TypeInv, Templates
  <1>1. /\ e \in Elements /\ e.id = nextId /\ e.of = Top.of /\ e.refs = Top.map
        /\ e.kind = IF Top.of \in Flows THEN "tab" ELSE "subflow"
    BY <1>0 DEF NewElement, Element, Elements, Kinds
  <1> HIDE DEF e
  <1>2. runtime' = runtime \cup {e}
    BY DEF e
  <1>3. StoreInv' /\ runtime' \subseteq Elements /\ nextId' \in Ident
    BY <1>1, <1>2, PostKeepsStore
  <1>4. RefsResolve'
    <2>1. SubflowIds \subseteq SubflowIds'
      BY <1>2 DEF SubflowIds, Ids
    <2>2. \A d \in runtime' : d.refs \subseteq SubflowIds
      BY <1>0, <1>1, <1>2 DEF RefsResolve
    <2> QED
      BY <2>1, <2>2 DEF RefsResolve
  <1>5. SubflowOnce'
    <2> SUFFICES ASSUME badSyncs = 0, NEW c \in runtime', NEW d \in runtime',
                        c.kind = "subflow", d.kind = "subflow", c.of = d.of
                 PROVE  c = d
      BY DEF SubflowOnce
    <2>1. Good
      BY Zenon DEF Good
    <2>2. \A u \in runtime : u.kind = "subflow" /\ e.kind = "subflow" => u.of # e.of
      <3>1. SUFFICES ASSUME Top.of \notin Flows PROVE ~Has(Top.of)
        BY <1>1 DEF Has
      <3> QED
        BY <1>0, <2>1, <3>1, TopFacts DEF Missing
    <2> QED
      BY <1>2, <2>2 DEF SubflowOnce
  <1>6. clean' => clean
    BY Calls, Zenon DEF posted
  <1>7. CASE posted /\ Top.of \in Flows
    <2>1. deployed' = deployed \cup {[id |-> nextId, of |-> Top.of]} /\ stack' = <<>>
      BY <1>7 DEF posted, giveUp
    <2>2. StackInv' /\ stack' \in Seq(Frames)
      BY <2>1, StackEmpty
    <2>3. deployed' \subseteq [id : Ident, of : Flows]
      BY <1>0, <1>7, <2>1 DEF TypeInv
    <2>4. TypeInv'
      BY <1>3, <2>2, <2>3 DEF TypeInv
    <2>5. RequestInv'
      <3>1. e \in Tabs' /\ Tabs \subseteq Tabs'
        BY <1>1, <1>2, <1>7 DEF Tabs
      <3>2. ASSUME NEW d \in deployed' PROVE \E t \in Tabs' : t.id = d.id /\ t.of = d.of
        <4>1. CASE d \in deployed
          BY <1>0, <3>1, <4>1 DEF RequestInv
        <4>2. CASE d = [id |-> nextId, of |-> Top.of]
          BY <1>1, <3>1, <4>2
        <4> QED
          BY <2>1, <4>1, <4>2
      <3>3. ASSUME clean', NEW x \in request
            PROVE  x \in queue \/ \E d \in deployed' : d.of = x
        <4>1. \/ x \in queue \/ stack[1].of = x \/ \E d \in deployed : d.of = x
          BY <1>0, <1>6, <3>3 DEF RequestInv
        <4>2. [id |-> nextId, of |-> Top.of].of = Top.of
          OBVIOUS
        <4> QED
          BY <1>0, <1>7, <2>1, <4>1, <4>2
      <3> QED
        BY <1>0, <3>2, <3>3 DEF RequestInv
    <2>6. CleanDeployWorks'
      BY <1>0 DEF CleanDeployWorks
    <2> QED
      BY <1>3, <1>4, <1>5, <2>2, <2>4, <2>5, <2>6
  <1>8. CASE posted /\ Top.of \notin Flows
    <2>1. /\ stack' = [stack EXCEPT ![Len(stack)].at = "resync", ![Len(stack)].id = nextId]
          /\ UNCHANGED deployed /\ callOK
      BY <1>8 DEF posted
    <2>2. Good' => Good
      BY <2>1, Calls
    <2>3. StackInv' /\ stack' \in Seq(Frames) /\ stack' # <<>> /\ stack'[1].of = stack[1].of
      <3>1. At("write")
        BY <1>0, <1>8 DEF At
      <3>2. Top.of \in Subflows /\ e.id = nextId /\ e.kind = "subflow" /\ e.of = Top.of
        BY <1>0, <1>1, <1>8
      <3> QED
        BY <1>2, <2>1, <2>2, <3>1, <3>2, StackPosted
    <2>4. TypeInv'
      BY <1>3, <2>1, <2>3 DEF TypeInv
    <2>5. RequestInv' /\ CleanDeployWorks'
      BY <1>0, <1>6, <2>1, <2>3, RequestKept
    <2> QED
      BY <1>3, <1>4, <1>5, <2>3, <2>4, <2>5
  <1>9. CASE fault /\ giveUp /\ UNCHANGED deployed
    <2>1. StackInv' /\ stack' \in Seq(Frames)
      BY <1>9, StackEmpty DEF giveUp
    <2>2. TypeInv'
      BY <1>3, <1>9, <2>1 DEF TypeInv
    <2>3. ~clean'
      BY <1>9, Calls
    <2>4. RequestInv' /\ CleanDeployWorks'
      BY <1>0, <1>9, <2>3, RequestKept
    <2> QED
      BY <1>3, <1>4, <1>5, <2>1, <2>2, <2>4
  <1> QED
    BY <1>7, <1>8, <1>9

\* Everything is posted back.
LEMMA StepWrite == Inv /\ writeFlows => Inv'
  <1> SUFFICES ASSUME Inv, writeFlows PROVE Inv'
    OBVIOUS
  <1>0. /\ stack # <<>> /\ Top.at = "write" /\ nextId' = nextId + 1 /\ fetched' \subseteq Elements
        /\ UNCHANGED <<flows, phase, queue, request, badSyncs>>
    BY DEF writeFlows, At, odoo
  <1>1. Merged = runtime \cup {NewElement}
    BY <1>0, TopFacts DEF Inv, Merged
  <1>2. CASE runtime' = Merged /\ (posted \/ (fault /\ giveUp /\ UNCHANGED deployed))
    BY <1>0, <1>1, <1>2, StepPosted
  <1>3. CASE UNCHANGED runtime /\ fault /\ giveUp /\ UNCHANGED deployed
    BY <1>0, <1>3, GaveUp
  <1> QED
    BY <1>2, <1>3 DEF writeFlows

\* A flow that uses no subflow is added.
LEMMA StepAdd == Inv /\ addFlow => Inv'
  <1> SUFFICES ASSUME Inv, addFlow PROVE Inv'
    OBVIOUS
  <1>0. /\ stack # <<>> /\ Top.at = "add" /\ nextId' = nextId + 1 /\ fetched' \subseteq Elements
        /\ UNCHANGED <<flows, phase, queue, request, badSyncs>>
    BY DEF addFlow, At, odoo, Inv, TypeInv
  <1>2. CASE /\ runtime' = runtime \cup {NewElement}
             /\ posted \/ (fault /\ giveUp /\ UNCHANGED deployed)
    BY <1>0, <1>2, StepPosted
  <1>3. CASE UNCHANGED runtime /\ fault /\ giveUp /\ UNCHANGED deployed
    BY <1>0, <1>3, GaveUp
  <1> QED
    BY <1>2, <1>3 DEF addFlow

\* After the POST of a subflow the records are brought up to date.
LEMMA StepResync == Inv /\ resync => Inv'
  <1> SUFFICES ASSUME Inv, resync PROVE Inv'
    OBVIOUS
  <1> USE DEF Inv
  <1>0. /\ stack # <<>> /\ Top.at = "resync" /\ api_sync_flows /\ Goto("confirm")
        /\ UNCHANGED <<runtime, phase, queue, deployed, fetched, nextId, request>>
    BY DEF resync, At
  <1>1. flows' \subseteq Records /\ StoreInv' /\ badSyncs' \in Nat
    BY <1>0, SyncKeepsStore
  <1>2. /\ Good' => Good /\ Fresh'
        /\ clean' => clean
    BY <1>0, SyncGood
  <1>3. Top.todo = {} /\ Top.of \in Subflows /\ IsSubflow(Top.id, Top.of)
    BY <1>0, TopFacts
  <1>4. StackInv' /\ stack' \in Seq(Frames) /\ stack' # <<>> /\ stack'[1].of = stack[1].of
    <2>1. "confirm" \in Labels
      BY DEF Labels
    <2> QED
      BY <1>0, <1>2, <1>3, <2>1, StackGoto
  <1>5. TypeInv'
    BY <1>0, <1>1, <1>4 DEF TypeInv
  <1>6. RequestInv' /\ CleanDeployWorks'
    BY <1>0, <1>2, <1>4, TopFacts, RequestKept
  <1>7. RefsResolve' /\ SubflowOnce'
    BY <1>0, BadSyncsGrow, RuntimeKept
  <1> QED
    BY <1>1, <1>4, <1>5, <1>6, <1>7

\* The template of some records is noted.
LEMMA AppNoted ==
    ASSUME TypeInv, StoreInv, UNCHANGED <<runtime, nextId>>, NEW S,
           flows' = {IF r \in S THEN [r EXCEPT !.app = r.of] ELSE r : r \in flows}
    PROVE  /\ flows' \subseteq Records /\ StoreInv' /\ (Fresh => Fresh')
           /\ \A r \in flows : \E q \in flows' :
                 /\ q.id = r.id /\ q.kind = r.kind /\ q.of = r.of
                 /\ r \in S => q.app = r.of
  <1> DEFINE Noted(r) == IF r \in S THEN [r EXCEPT !.app = r.of] ELSE r
  <1>1. ASSUME NEW r \in flows
        PROVE  /\ Noted(r) \in Records
               /\ Noted(r).id = r.id /\ Noted(r).kind = r.kind /\ Noted(r).of = r.of
               /\ Noted(r).app = IF r \in S THEN r.of ELSE r.app
    BY DEF TypeInv, Records
  <1>2. flows' = {Noted(r) : r \in flows}
    OBVIOUS
  <1> HIDE DEF Noted
  <1>3. flows' \subseteq Records
    BY <1>1, <1>2
  <1>4. StoreInv'
    <2>1. ASSUME NEW q \in flows'
          PROVE  /\ q.id < nextId /\ q.app \in {None, q.of}
                 /\ \A e \in runtime : q.id = e.id => q.kind = e.kind /\ q.of = e.of
      <3>1. PICK r \in flows : q = Noted(r)
        BY <1>2
      <3> QED
        BY <1>1, <3>1 DEF StoreInv
    <2> QED
      BY <2>1 DEF StoreInv
  <1>5. ASSUME NEW r \in flows
        PROVE  \E q \in flows' : /\ q.id = r.id /\ q.kind = r.kind /\ q.of = r.of
                                 /\ r \in S => q.app = r.of
    BY <1>1, <1>2
  <1>6. ASSUME Fresh PROVE Fresh'
    <2>1. SubflowIds' = SubflowIds
      BY DEF SubflowIds
    <2>2. ASSUME NEW e \in runtime, e.kind = "subflow" PROVE \E q \in flows' : q.id = e.id
      <3>1. PICK r \in flows : r.id = e.id
        BY <1>6, <2>2 DEF Fresh
      <3>2. PICK q \in flows' : q.id = r.id
        BY <1>5
      <3> QED
        BY <3>1, <3>2
    <2>3. ASSUME NEW q \in flows', q.kind = "subflow" PROVE q.id \in SubflowIds
      BY <1>1, <1>2, <1>6, <2>3 DEF Fresh
    <2> QED
      BY <2>1, <2>2, <2>3 DEF Fresh
  <1> QED
    BY <1>3, <1>4, <1>5, <1>6

\* A posted subflow is looked up and its template noted.
LEMMA StepConfirm == Inv /\ confirm => Inv'
  <1> SUFFICES ASSUME Inv, confirm PROVE Inv'
    OBVIOUS
  <1> USE DEF Inv
  <1>0. /\ stack # <<>> /\ Top.at = "confirm"
        /\ UNCHANGED <<runtime, phase, queue, deployed, fetched, nextId, request, badSyncs>>
    BY DEF confirm, At
  <1>1. /\ phase = "deploy" /\ Top.of \in Subflows /\ IsSubflow(Top.id, Top.of)
        /\ Good => Fresh
    BY <1>0, TopFacts
  <1>2. CASE fault /\ giveUp /\ UNCHANGED flows
    BY <1>0, <1>2, GaveUp DEF TypeInv
  <1>3. CASE callOK /\ \E id \in Resolved(Top.of, Top.id) :
                IF id = 0
                THEN giveUp /\ UNCHANGED flows
                ELSE /\ flows' = {IF r.id = id THEN [r EXCEPT !.app = Top.of] ELSE r : r \in flows}
                     /\ Return(id)
    <2>0. (Good' => Good) /\ (clean' => clean)
      BY <1>0, <1>3, Calls
    <2>1. PICK id \in Resolved(Top.of, Top.id) :
                IF id = 0
                THEN giveUp /\ UNCHANGED flows
                ELSE /\ flows' = {IF r.id = id THEN [r EXCEPT !.app = Top.of] ELSE r : r \in flows}
                     /\ Return(id)
      BY <1>3
    <2>2. RefsResolve' /\ SubflowOnce'
      BY <1>0, RuntimeKept
    <2>3. CASE id = 0
      <3>1. UNCHANGED flows /\ stack' = <<>> /\ stack' \in Seq(Frames)
        BY <2>1, <2>3 DEF giveUp
      <3>2. ~clean'
        <4>1. ~Good
          <5>1. Has(Top.of)
            BY <1>1 DEF IsSubflow, Has
          <5>2. Fresh => 0 \notin Resolved(Top.of, Top.id)
            BY <1>1, <5>1, ResolvedFinds
          <5> QED
            BY <1>1, <2>1, <2>3, <5>2
        <4>2. ~clean
          BY <4>1, Zenon DEF Good
        <4> QED
          BY <2>0, <4>2, Zenon
      <3>3. TypeInv' /\ StoreInv'
        BY <1>0, <3>1 DEF TypeInv, StoreInv
      <3>4. StackInv'
        BY <3>1, StackEmpty
      <3>5. RequestInv' /\ CleanDeployWorks'
        BY <1>0, <1>1, <3>2, RequestKept
      <3> QED
        BY <2>2, <3>3, <3>4, <3>5
    <2>4. CASE id # 0
      <3>1. id \in Ident /\ IsSubflow(id, Top.of)
        BY <1>1, <2>1, <2>4, ResolvedIsThere
      <3> DEFINE S == {r \in flows : r.id = id}
      <3>2. \A r \in S : r.of = Top.of
        BY <3>1 DEF IsSubflow, StoreInv
      <3>3. flows' = {IF r \in S THEN [r EXCEPT !.app = r.of] ELSE r : r \in flows}
        BY <2>1, <2>4, <3>2
      <3> HIDE DEF S
      <3>4. flows' \subseteq Records /\ StoreInv' /\ (Fresh => Fresh')
        BY <1>0, <3>3, AppNoted
      <3>5. StackInv' /\ stack' \in Seq(Frames) /\ stack' # <<>> /\ stack'[1].of = stack[1].of
        BY <1>0, <1>1, <2>0, <2>1, <2>4, <3>1, <3>4, StackReturn
      <3>6. TypeInv'
        BY <1>0, <3>4, <3>5 DEF TypeInv
      <3>7. RequestInv' /\ CleanDeployWorks'
        BY <1>0, <1>1, <2>0, <3>5, RequestKept
      <3> QED
        BY <2>2, <3>4, <3>5, <3>6, <3>7
    <2> QED
      BY <2>3, <2>4
  <1> QED
    BY <1>2, <1>3 DEF confirm

\* The last synchronisation of a deployment.
LEMMA StepFinalSync == Inv /\ finalSync => Inv'
  <1> SUFFICES ASSUME Inv, finalSync PROVE Inv'
    OBVIOUS
  <1> USE DEF Inv
  <1>0. /\ phase = "deploy" /\ stack = <<>> /\ queue = {} /\ phase' = "link" /\ api_sync_flows
        /\ UNCHANGED <<runtime, queue, deployed, stack, fetched, nextId, request>>
    BY DEF finalSync, deployer
  <1>1. flows' \subseteq Records /\ StoreInv' /\ badSyncs' \in Nat
    BY <1>0, SyncKeepsStore
  <1>2. clean' => clean /\ \A e \in runtime : \E r \in flows' : r.id = e.id
    BY <1>0, SyncGood
  <1>3. TypeInv'
    BY <1>0, <1>1 DEF TypeInv
  <1>4. StackInv'
    BY <1>0, StackEmpty
  <1>5. RequestInv'
    <2>1. Tabs' = Tabs
      BY <1>0 DEF Tabs
    <2> QED
      BY <1>0, <1>2, <2>1 DEF RequestInv
  <1>6. RefsResolve' /\ SubflowOnce'
    BY <1>0, BadSyncsGrow, RuntimeKept
  <1>7. CleanDeployWorks'
    BY <1>0 DEF CleanDeployWorks
  <1> QED
    BY <1>1, <1>3, <1>4, <1>5, <1>6, <1>7

\* The end of a deployment: if no call failed, each flow asked for was posted,
\* has a record, and the record gets its template.
LEMMA StepLink == Inv /\ link => Inv'
  <1> SUFFICES ASSUME Inv, link PROVE Inv'
    OBVIOUS
  <1> USE DEF Inv
  <1>0. /\ phase = "link" /\ phase' = "idle"
        /\ UNCHANGED <<runtime, queue, deployed, stack, fetched, nextId, request, clean, badSyncs>>
    BY DEF link, deployer, ghosts
  <1> DEFINE S == {r \in flows : \E d \in deployed : d.id = r.id /\ r.kind = "tab"}
  <1>1. flows' = {IF r \in S THEN [r EXCEPT !.app = r.of] ELSE r : r \in flows}
    BY DEF link
  <1>s. \A r \in flows, d \in deployed : d.id = r.id /\ r.kind = "tab" => r \in S
    OBVIOUS
  <1> HIDE DEF S
  <1>2. /\ flows' \subseteq Records /\ StoreInv'
        /\ \A r \in flows : \E q \in flows' :
              /\ q.id = r.id /\ q.kind = r.kind /\ q.of = r.of
              /\ r \in S => q.app = r.of
    BY <1>0, <1>1, AppNoted
  <1>3. TypeInv'
    BY <1>0, <1>2 DEF TypeInv
  <1>4. StackInv'
    <2>1. stack' = <<>>
      BY <1>0 DEF StackInv
    <2> QED
      BY <2>1, StackEmpty
  <1>5. RequestInv'
    BY <1>0 DEF RequestInv
  <1>6. RefsResolve' /\ SubflowOnce'
    BY <1>0, RuntimeKept
  <1>7. CleanDeployWorks'
    <2> SUFFICES ASSUME clean', NEW x \in request
                 PROVE  \E r \in flows' : r.of = x /\ r.app = x /\ r.id \in Ids(Tabs')
      BY <1>0 DEF CleanDeployWorks
    <2>0. clean
      BY <1>0, Zenon
    <2>1. PICK d \in deployed : d.of = x
      BY <1>0, <2>0 DEF RequestInv
    <2>2. PICK e \in Tabs : e.id = d.id /\ e.of = x
      BY <1>0, <2>1 DEF RequestInv
    <2>3. e \in runtime /\ e.kind = "tab" /\ e \in Tabs'
      BY <1>0 DEF Tabs
    <2>4. PICK r \in flows : r.id = e.id
      BY <1>0, <2>0, <2>3 DEF RequestInv
    <2>5. r.of = x /\ r.kind = "tab"
      BY <2>2, <2>3, <2>4 DEF StoreInv
    <2>6. r \in S
      BY <1>s, <2>2, <2>4, <2>5
    <2>7. PICK q \in flows' : q.id = r.id /\ q.of = r.of /\ q.app = r.of
      BY <1>2, <2>6
    <2> QED
      BY <2>3, <2>4, <2>5, <2>7 DEF Ids
  <1> QED
    BY <1>2, <1>3, <1>4, <1>5, <1>6, <1>7

\* Records and elements go, in the wizard or in the editor, while no deployment
\* runs: nothing that is left uses them.
LEMMA ElementsGo ==
    ASSUME Inv, phase = "idle", runtime' \subseteq runtime, flows' \subseteq flows,
           \A e, u \in runtime : e \notin runtime' /\ e.kind = "subflow" => e.id \notin u.refs,
           ~clean',
           UNCHANGED <<phase, queue, deployed, stack, fetched, nextId, request, badSyncs>>
    PROVE  Inv'
  <1> USE DEF Inv
  <1>1. TypeInv'
    BY DEF TypeInv
  <1>2. StoreInv'
    BY DEF StoreInv
  <1>3. StackInv'
    <2>1. stack' = <<>>
      BY DEF StackInv
    <2> QED
      BY <2>1, StackEmpty
  <1>4. RequestInv' /\ CleanDeployWorks'
    BY DEF RequestInv, CleanDeployWorks
  <1>5. RefsResolve'
    BY DEF RefsResolve, SubflowIds, Ids
  <1>6. SubflowOnce'
    BY DEF SubflowOnce
  <1> QED
    BY <1>1, <1>2, <1>3, <1>4, <1>5, <1>6

\* The wizard deletes a flow.
LEMMA StepDelete == Inv /\ deleteFlow => Inv'
  <1> SUFFICES ASSUME Inv, deleteFlow PROVE Inv'
    OBVIOUS
  <1>0. /\ phase = "idle"
        /\ UNCHANGED <<phase, queue, deployed, stack, fetched, nextId, request, badSyncs>>
    BY DEF deleteFlow, deployer
  <1>1. ~clean'
    BY Zenon DEF deleteFlow
  <1>2. PICK r \in flows : /\ r.kind = "tab" /\ flows' = flows \ {r}
                           /\ runtime' = {e \in runtime : e.id # r.id} \/ UNCHANGED runtime
    BY DEF deleteFlow
  <1>3. ASSUME NEW e \in runtime, e \notin runtime' PROVE e.kind # "subflow"
    BY <1>2, <1>3 DEF Inv, StoreInv
  <1> QED
    BY <1>0, <1>1, <1>2, <1>3, ElementsGo

\* The editor is used while no deployment runs.
LEMMA StepEditor ==
    ASSUME ~EditorDuring, Inv, editor
    PROVE  Inv'
  <1> USE DEF Inv
  <1>0. /\ phase = "idle"
        /\ UNCHANGED <<flows, phase, queue, deployed, stack, fetched, request, badSyncs>>
    BY DEF editor, deployer, odoo
  <1>1. ~clean'
    BY Zenon DEF editor
  <1> DEFINE e == Element(nextId, "tab", None, {})
  <1>2. CASE runtime' = runtime \cup {e} /\ nextId' = nextId + 1
    <2>1. /\ e \in Elements /\ e.id = nextId /\ e.kind = "tab" /\ e.refs = {}
      <3>1. nextId \in Ident /\ {} \in SUBSET Ident
        BY DEF TypeInv
      <3> QED
        BY <3>1 DEF Element, Elements, Kinds
    <2> HIDE DEF e
    <2>2. StoreInv' /\ runtime' \subseteq Elements /\ nextId' \in Ident
      BY <1>0, <1>2, <2>1, PostKeepsStore
    <2>3. TypeInv'
      BY <1>0, <2>2 DEF TypeInv
    <2>4. StackInv'
      <3>1. stack' = <<>>
        BY <1>0 DEF StackInv
      <3> QED
        BY <3>1, StackEmpty
    <2>5. RequestInv' /\ CleanDeployWorks'
      BY <1>0, <1>1 DEF RequestInv, CleanDeployWorks
    <2>6. RefsResolve'
      <3>1. SubflowIds \subseteq SubflowIds'
        BY <1>2 DEF SubflowIds, Ids
      <3> QED
        BY <1>2, <2>1, <3>1 DEF RefsResolve
    <2>7. SubflowOnce'
      BY <1>0, <1>2, <2>1 DEF SubflowOnce
    <2> QED
      BY <2>2, <2>3, <2>4, <2>5, <2>6, <2>7
  <1>3. CASE /\ \E x \in runtime : /\ \A u \in runtime : x.id \notin u.refs
                                   /\ runtime' = runtime \ {x}
             /\ UNCHANGED nextId
    <2>1. PICK x \in runtime : /\ \A u \in runtime : x.id \notin u.refs
                               /\ runtime' = runtime \ {x}
      BY <1>3
    <2>2. \A y, u \in runtime : y \notin runtime' => y.id \notin u.refs
      BY <2>1
    <2> QED
      BY <1>0, <1>1, <1>3, <2>1, <2>2, ElementsGo
  <1> QED
    BY <1>2, <1>3 DEF editor

-----------------------------------------------------------------------------
(* The theorems. *)

\* An instance with no flow, and no record of one.
LEMMA InitInv == Init => Inv
  <1> SUFFICES ASSUME Init PROVE Inv
    OBVIOUS
  <1>1. /\ runtime = {} /\ flows = {} /\ fetched = {} /\ phase = "idle" /\ queue = {} /\ request = {}
        /\ deployed = {} /\ stack = <<>> /\ nextId = 1 /\ badSyncs = 0
    BY DEF Init
  <1>2. TypeInv
    BY <1>1 DEF TypeInv, Ident
  <1>3. StoreInv /\ StackInv
    BY <1>1 DEF StoreInv, StackInv
  <1>4. RequestInv /\ RefsResolve /\ SubflowOnce /\ CleanDeployWorks
    BY <1>1 DEF RequestInv, RefsResolve, SubflowOnce, CleanDeployWorks
  <1> QED
    BY <1>2, <1>3, <1>4 DEF Inv

\* Every step keeps the invariant.
LEMMA StepInv ==
    ASSUME ~EditorDuring
    PROVE  Inv /\ [Next]_vars => Inv'
  <1> SUFFICES ASSUME Inv, [Next]_vars PROVE Inv'
    OBVIOUS
  <1>1. CASE deployment
    BY <1>1, StepNextFlow, StepEnsureSync, StepLoop, StepLookup, StepRead, StepWrite,
       StepAdd, StepResync, StepConfirm, StepFinalSync, StepLink DEF deployment
  <1>2. CASE UNCHANGED vars
    <2>1. UNCHANGED <<runtime, flows, phase, queue, deployed, stack, fetched, nextId, request, badSyncs>>
      BY <1>2 DEF vars, odoo, deployer, ghosts
    <2>2. clean' = clean
      BY <1>2 DEF vars, ghosts
    <2>3. (Good' <=> Good) /\ (clean' <=> clean)
      BY <2>1, <2>2, Zenon DEF Good
    <2>4. TypeInv' /\ StoreInv' /\ RefsResolve' /\ SubflowOnce'
      BY <2>1, RuntimeKept DEF Inv, TypeInv, StoreInv
    <2>5. StackInv'
      <3>1. SubflowIds' = SubflowIds /\ (Fresh' <=> Fresh)
        BY <2>1 DEF Fresh, SubflowIds
      <3>2. /\ \A s : Has(s)' <=> Has(s)
            /\ \A k, s : IsSubflow(k, s)' <=> IsSubflow(k, s)
        BY <2>1 DEF Has, IsSubflow
      <3>3. ASSUME NEW i \in 1 .. Len(stack) PROVE FrameInv(i)'
        <4>1. FrameInv(i)
          BY DEF Inv, StackInv
        <4> QED
          BY <2>1, <2>3, <3>1, <3>2, <4>1 DEF FrameInv, Missing
      <3> QED
        BY <2>1, <3>3 DEF Inv, StackInv
    <2>6. RequestInv' /\ CleanDeployWorks'
      BY <2>1, <2>3 DEF Inv, RequestInv, CleanDeployWorks, Tabs
    <2> QED
      BY <2>4, <2>5, <2>6 DEF Inv
  <1> QED
    BY <1>1, <1>2, StepDeploy, StepDelete, StepEditor DEF Next

\* Whatever calls of a deployment fail or lose their answer, and however stale
\* the records are, Node-RED never holds an element that uses a subflow which
\* it does not have, as long as the editor rests while a deployment runs.
THEOREM DeployedRefsResolve ==
    ASSUME ~EditorDuring
    PROVE  Spec => []RefsResolve
  <1>1. Inv => RefsResolve
    BY DEF Inv
  <1>2. Inv /\ [Next]_vars => Inv'
    BY StepInv
  <1> QED
    BY <1>1, <1>2, InitInv, PTL DEF Spec

\* Until a synchronisation fails no subflow is deployed twice, also when a POST
\* took effect and its answer was lost, and also when subflows use each other
\* in a circle.
THEOREM SubflowsDeployedOnce ==
    ASSUME ~EditorDuring
    PROVE  Spec => []SubflowOnce
  <1>1. Inv => SubflowOnce
    BY DEF Inv
  <1>2. Inv /\ [Next]_vars => Inv'
    BY StepInv
  <1> QED
    BY <1>1, <1>2, InitInv, PTL DEF Spec

\* A deployment none of whose calls fails leaves each flow it was asked for in
\* Node-RED with a record of its template, whatever earlier ones left behind.
THEOREM CleanDeploymentsWork ==
    ASSUME ~EditorDuring
    PROVE  Spec => []CleanDeployWorks
  <1>1. Inv => CleanDeployWorks
    BY DEF Inv
  <1>2. Inv /\ [Next]_vars => Inv'
    BY StepInv
  <1> QED
    BY <1>1, <1>2, InitInv, PTL DEF Spec

\* A deployment takes nothing away from Node-RED: what GET /flows returned is
\* still all there is when everything is posted back.
THEOREM DeploymentsKeep ==
    ASSUME ~EditorDuring
    PROVE  Spec => DeployKeeps
  <1>1. Inv /\ [Next]_vars => [deployment => runtime \subseteq runtime']_vars
    <2> SUFFICES ASSUME Inv, deployment PROVE runtime \subseteq runtime'
      OBVIOUS
    <2>1. CASE writeFlows
      <3>1. fetched = runtime
        BY <2>1, TopFacts DEF writeFlows, At, Inv
      <3> QED
        BY <2>1, <3>1 DEF writeFlows, Merged
    <2>2. CASE addFlow
      BY <2>2 DEF addFlow
    <2>3. CASE ~writeFlows /\ ~addFlow
      BY <2>3 DEF deployment, _nr_deploy_single_flow, ensureSync, _nr_ensure_subflows_deployed,
         lookup, readFlows, resync, confirm, finalSync, link
    <2> QED
      BY <2>1, <2>2, <2>3
  <1>2. Inv /\ [Next]_vars => Inv'
    BY StepInv
  <1> QED
    BY <1>1, <1>2, InitInv, PTL DEF Spec, DeployKeeps

=============================================================================
