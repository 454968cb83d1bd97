------------------------- MODULE HerdrManagerProofs -------------------------
(***************************************************************************)
(* Proofs about HerdrManager for any number of callers, panes and rounds   *)
(* of waiting: what a call types and where, and the workspace that         *)
(* EnsureReady creates.                                                    *)
(***************************************************************************)
EXTENDS HerdrManager, WellFoundedInduction, FiniteSetTheorems, TLAPS

(* The places of EnsureReady, and those where m.mu is held across exchanges. *)
Locked == {"check", "install", "verify", "snap", "start", "poll", "workspace"}
Ensuring == {"ensure"} \cup Locked

LockInv == \A w \in Callers : /\ pc[w] \in Locked <=> mu = w
                              /\ pc[w] = "poll" => polls[w] < MaxPolls
                              /\ after[w] \notin Ensuring

(* Where a call is, or will be when EnsureReady returns nil to it.         *)
At(w) == IF pc[w] \in Ensuring THEN after[w] ELSE pc[w]

(* Panes and workspaces are numbered as they are made.  While EnsureReady is
   about to create a workspace, none that it created before has a pane.    *)
AutoInv ==
    /\ \A n \in auto : n <= made
    /\ \A p \in panes : p.ws <= made
    /\ \A p, q \in panes : p.ws \in auto /\ q.ws \in auto => p.ws = q.ws
    /\ \A w \in Callers : pc[w] = "workspace" => \A p \in panes : p.ws \notin auto

(* A call types one thing, and then is past every place that types.  If it is
   for a named pane, it never looks for another one.                       *)
CallOK(w) ==
    /\ ranIn[w] = <<>> \/ \E p \in Panes : ranIn[w] = <<p>>
    /\ ranIn[w] # <<>> => At(w) \in {"ok", "failed", "agentRead", "agentGet"}
    /\ Arg(w) # NoPane =>
          /\ At(w) \notin {"listForTarget", "listForRerun", "setDefault", "rerun"}
                            \cup AgentOps
          /\ At(w) \in {"run", "type"} => target[w] = Arg(w)
          /\ ranIn[w] = <<>> \/ ranIn[w] = <<Arg(w)>>
CallInv == \A w \in Callers : CallOK(w)

IInv == TypeOK /\ LockInv /\ AutoInv /\ CallInv

-----------------------------------------------------------------------------
(* The first pane of a list is one of its panes.                           *)
LEMMA FirstPaneListed ==
    ASSUME TypeOK, panes # {}
    PROVE  FirstPane \in panes
<1> DEFINE numbers == {p.no : p \in panes}
<1>1. numbers \in SUBSET Nat /\ numbers # {}
  BY DEF TypeOK, Panes
<1> HIDE DEF numbers
<1>2. PICK n \in numbers : \A m \in numbers : n <= m
  <2> DEFINE less == {ss \in Nat \X Nat : ss[1] < ss[2]}
  <2>1. IsWellFoundedOn(less, Nat)
    BY NatLessThanWellFounded, Zenon DEF OpToRel
  <2>2. \A i, j \in Nat : <<i, j>> \in less <=> i < j
    OBVIOUS
  <2> HIDE DEF less
  <2>3. PICK n \in numbers : \A m \in numbers : <<m, n>> \notin less
    BY <1>1, <2>1, WFMin, Zenon
  <2>4. ASSUME NEW m \in numbers PROVE n <= m
    <3>1. m \in Nat /\ n \in Nat
      BY <1>1
    <3>2. ~ (m < n)
      BY <2>2, <2>3, <3>1, Zenon
    <3> QED
      BY <3>1, <3>2
  <2> QED
    BY <2>4
<1>3. PICK p \in panes : p.no = n
  BY DEF numbers
<1>4. \A q \in panes : p.no <= q.no
  BY <1>2, <1>3 DEF numbers
<1> QED
  BY <1>3, <1>4 DEF FirstPane

(* A pane that is made has a number of its own.                            *)
LEMMA NewPaneTypes ==
    ASSUME TypeOK, made < MaxPanes
    PROVE  /\ made + 1 \in 1 .. MaxPanes
           /\ NewPane(made + 1) \in Panes /\ NewPane(made + 1).ws = made + 1
           /\ \A q \in panes : NewPane(q.ws) \in Panes /\ NewPane(q.ws).ws = q.ws
  BY ManagerAssumption DEF TypeOK, Panes, NewPane

(* The places of a call, one by one.                                       *)
LEMMA Places ==
    /\ "idle" \in Pcs /\ "ensure" \in Pcs /\ "check" \in Pcs
    /\ "install" \in Pcs /\ "verify" \in Pcs /\ "snap" \in Pcs
    /\ "start" \in Pcs /\ "poll" \in Pcs /\ "workspace" \in Pcs
    /\ "target" \in Pcs /\ "listForTarget" \in Pcs /\ "run" \in Pcs
    /\ "listForRerun" \in Pcs /\ "setDefault" \in Pcs /\ "rerun" \in Pcs
    /\ "closeWorkspace" \in Pcs /\ "clearDefault" \in Pcs /\ "listForDefault" \in Pcs
    /\ "newDefault" \in Pcs /\ "createWorkspace" \in Pcs /\ "split" \in Pcs
    /\ "closePane" \in Pcs /\ "send" \in Pcs /\ "wait" \in Pcs
    /\ "type" \in Pcs /\ "waitOutput" \in Pcs /\ "agentStart" \in Pcs
    /\ "agentPrompt" \in Pcs /\ "agentKeys" \in Pcs /\ "agentWait" \in Pcs
    /\ "agentRead" \in Pcs /\ "agentGet" \in Pcs /\ "query" \in Pcs
    /\ "ok" \in Pcs /\ "failed" \in Pcs /\ "paneGone" \in Pcs
  BY DEF Pcs

LEMMA GotoTypes ==
    ASSUME TypeOK, NEW w \in Callers, NEW l \in Pcs, Goto(w, l) \/ Ensure(w, l)
    PROVE  pc' \in [Callers -> Pcs] /\ after' \in [Callers -> Pcs]
  BY Places DEF TypeOK, Goto, Ensure

LEMMA InitIInv == Init => IInv
<1> SUFFICES ASSUME Init PROVE IInv
  OBVIOUS
<1> USE ManagerAssumption
<1>1. [ws |-> 1, no |-> 1] \in Panes
  BY DEF Panes
<1>2. NoCall \in [op : OpKinds, arg : Panes \cup {NoPane}] /\ NoCall.arg = NoPane
  BY DEF NoCall, OpKinds
<1>3. TypeOK
  <2>1. "idle" \in Pcs /\ "ok" \in Pcs
    BY DEF Pcs
  <2>2. panes \subseteq Panes /\ made \in 0 .. MaxPanes
    BY <1>1 DEF Init
  <2>3. ranIn \in [Callers -> Seq(Panes)]
    BY DEF Init
  <2>4. {initialized, available, confirmed, installed} \subseteq BOOLEAN
    BY DEF Init
  <2>5. call \in [Callers -> [op : OpKinds, arg : Panes \cup {NoPane}]]
    BY <1>2 DEF Init
  <2>6. pc \in [Callers -> Pcs] /\ after \in [Callers -> Pcs]
    BY <2>1 DEF Init
  <2>7. polls \in [Callers -> 0 .. MaxPolls] /\ target \in [Callers -> Panes \cup {NoPane}]
    BY DEF Init
  <2> QED
    BY <2>1, <2>2, <2>3, <2>4, <2>5, <2>6, <2>7 DEF Init, TypeOK
<1>4. LockInv /\ AutoInv
  BY DEF Init, LockInv, Locked, Ensuring, AutoInv
<1>5. CallInv
  BY <1>2 DEF Init, CallInv, CallOK, Arg
<1> QED
  BY <1>3, <1>4, <1>5 DEF IInv

-----------------------------------------------------------------------------
(* The steps keep the types: those of EnsureReady, of a command, of the other
   operations, and of the host.                                            *)
LEMMA EnsureReadyTypes ==
    ASSUME IInv, NEW w \in Callers, EnsureReady(w)
    PROVE  TypeOK'
<1> USE GotoTypes, Places DEF IInv, remote, fields, locals
<1>0. after[w] \in Pcs
  BY DEF TypeOK
<1>1. CASE IsReady(w) \/ Acquire(w) \/ Install(w) \/ SnapFails(w) \/ SnapshotEmpty(w)
  BY <1>0, <1>1 DEF IsReady, Acquire, Install, SnapFails, SnapshotEmpty, TypeOK
<1>2. ASSUME AfterError(w) PROVE pc' \in [Callers -> Pcs] /\ after' \in [Callers -> Pcs]
  BY <1>2 DEF AfterError
<1>3. CASE CheckFound(w) \/ CheckNotFound(w) \/ InstallOrVerifyFails(w)
  BY <1>2, <1>3 DEF CheckFound, CheckNotFound, InstallOrVerifyFails, NotReady, TypeOK
<1>4. CASE SnapshotWithPanes(w)
  BY <1>0, <1>4 DEF SnapshotWithPanes, TypeOK
<1>5. CASE StartServer(w)
  BY <1>5, ManagerAssumption DEF StartServer, TypeOK
<1>6. CASE PollFails(w)
  <2>1. polls' \in [Callers -> 0 .. MaxPolls]
    BY <1>6, ManagerAssumption DEF PollFails, LockInv, TypeOK
  <2> QED
    BY <1>2, <1>6, <2>1 DEF PollFails, NotReady, TypeOK
<1>7. CASE AutoWorkspace(w)
  <2>1. \/ UNCHANGED <<panes, made, auto, defaultPane>>
        \/ /\ made < MaxPanes /\ made' = made + 1 /\ auto' = auto \cup {made + 1}
           /\ panes' = panes \cup {NewPane(made + 1)}
           /\ defaultPane' \in {NewPane(made + 1), defaultPane}
    BY <1>7 DEF AutoWorkspace, CreatesWorkspace
  <2>2. made < MaxPanes => made + 1 \in 1 .. MaxPanes /\ NewPane(made + 1) \in Panes
    BY NewPaneTypes
  <2>3. panes' \subseteq Panes /\ defaultPane' \in Panes \cup {NoPane}
    BY <2>1, <2>2 DEF TypeOK
  <2>4. auto' \subseteq 1 .. MaxPanes
    BY <2>1, <2>2 DEF TypeOK
  <2>5. made' \in 0 .. MaxPanes
    BY <2>1, ManagerAssumption DEF TypeOK
  <2> QED
    BY <1>0, <1>7, <2>3, <2>4, <2>5 DEF AutoWorkspace, TypeOK
<1> QED
  BY <1>1, <1>3, <1>4, <1>5, <1>6, <1>7 DEF EnsureReady

LEMMA RunInPaneTypes ==
    ASSUME IInv, NEW w \in Callers, RunInPane(w)
    PROVE  TypeOK'
<1> USE GotoTypes, Places DEF IInv, remote, fields, locals
<1>1. CASE Target(w)
  <2>1. target' \in [Callers -> Panes \cup {NoPane}]
    BY <1>1 DEF Target, Arg, TypeOK
  <2> QED
    BY <1>1, <2>1 DEF Target, TypeOK
<1>2. CASE ListForTarget(w) \/ ListForRerun(w)
  <2>1. panes # {} /\ target' = [target EXCEPT ![w] = FirstPane]
    BY <1>2 DEF ListForTarget, ListForRerun, Listed
  <2>2. target' \in [Callers -> Panes \cup {NoPane}]
    BY <2>1, FirstPaneListed DEF TypeOK
  <2> QED
    BY <1>2, <2>2 DEF ListForTarget, ListForRerun, TypeOK
<1>3. CASE ListForTargetFails(w) \/ ListForRerunFails(w) \/ RunFails(w) \/ RerunNotFound(w)
  BY <1>3 DEF ListForTargetFails, ListForRerunFails, RunFails, RerunNotFound, TypeOK
<1>4. CASE Run(w)
  <2>1. ranIn' \in [Callers -> Seq(Panes)]
    BY <1>4 DEF Run, TypeOK
  <2> QED
    BY <1>4, <2>1 DEF Run, TypeOK
<1>5. CASE RunNotFound(w)
  BY <1>5 DEF RunNotFound, TypeOK
<1>6. CASE SetDefault(w)
  BY <1>6 DEF SetDefault, TypeOK
<1> QED
  BY <1>1, <1>2, <1>3, <1>4, <1>5, <1>6 DEF RunInPane

LEMMA OtherTypes ==
    ASSUME IInv, NEW w \in Callers,
           \/ Begin(w) \/ Cleanup(w) \/ Return(w) \/ CloseWorkspace(w) \/ ClearDefault(w)
           \/ ListForDefault(w) \/ CreateWorkspace(w) \/ NewDefault(w) \/ Split(w)
           \/ ClosePane(w) \/ TypeInPane(w) \/ UseAgent(w) \/ RefusedByServer(w)
    PROVE  TypeOK'
<1> USE GotoTypes, Places DEF IInv, remote, fields, locals
<1>1. CASE Begin(w)
  <2>1. PICK o \in Ops[w] \ {"cleanup"}, p \in Known \cup {NoPane} :
          /\ call' = [call EXCEPT ![w] = [op |-> o, arg |-> p]]
          /\ Ensure(w, IF o = "run" THEN "target" ELSE o)
    BY <1>1 DEF Begin
  <2>2. o \in OpKinds /\ p \in Panes \cup {NoPane}
    BY <2>1, ManagerAssumption DEF Known, TypeOK
  <2>3. call' \in [Callers -> [op : OpKinds, arg : Panes \cup {NoPane}]]
    BY <2>1, <2>2 DEF TypeOK
  <2>4. (IF o = "run" THEN "target" ELSE o) \in Pcs
    BY <2>1, <2>2 DEF OpKinds, Pcs
  <2>5. pc' \in [Callers -> Pcs] /\ after' \in [Callers -> Pcs]
    BY <2>1, <2>4
  <2> QED
    BY <1>1, <2>3, <2>5 DEF Begin, TypeOK
<1>2. CASE Cleanup(w)
  BY <1>2 DEF Cleanup, TypeOK
<1>3. CASE Return(w)
  <2>1. NoCall \in [op : OpKinds, arg : Panes \cup {NoPane}]
    BY DEF NoCall, OpKinds
  <2>3. /\ pc' \in [Callers -> Pcs] /\ after' \in [Callers -> Pcs]
        /\ polls' \in [Callers -> 0 .. MaxPolls]
        /\ target' \in [Callers -> Panes \cup {NoPane}]
        /\ ranIn' \in [Callers -> Seq(Panes)]
    BY <1>3, ManagerAssumption DEF Return, TypeOK
  <2> QED
    BY <1>3, <2>1, <2>3 DEF Return, TypeOK
<1>4. CASE CloseWorkspace(w) \/ ClosePane(w)
  <2>1. panes' \subseteq Panes
    BY <1>4 DEF CloseWorkspace, ClosePane, TypeOK
  <2> QED
    BY <1>4, <2>1 DEF CloseWorkspace, ClosePane, TypeOK
<1>5. CASE ClearDefault(w) \/ NewDefault(w)
  <2>1. defaultPane' \in Panes \cup {NoPane}
    BY <1>5 DEF ClearDefault, NewDefault, TypeOK
  <2> QED
    BY <1>5, <2>1 DEF ClearDefault, NewDefault, TypeOK
<1>6. CASE ListForDefault(w)
  BY <1>6, FirstPaneListed DEF ListForDefault, Listed, TypeOK
<1>7. CASE CreateWorkspace(w)
  <2>1. \/ UNCHANGED <<panes, made, target>>
        \/ /\ made < MaxPanes /\ made' = made + 1
           /\ panes' = panes \cup {NewPane(made + 1)}
           /\ target' = [target EXCEPT ![w] = NewPane(made + 1)] \/ UNCHANGED target
    BY <1>7 DEF CreateWorkspace, CreatesWorkspace
  <2>2. made < MaxPanes => made + 1 \in 1 .. MaxPanes /\ NewPane(made + 1) \in Panes
    BY NewPaneTypes
  <2>3. /\ panes' \subseteq Panes /\ made' \in 0 .. MaxPanes
        /\ target' \in [Callers -> Panes \cup {NoPane}]
    <3>1. panes' \subseteq Panes
      BY <2>1, <2>2 DEF TypeOK
    <3>2. made' \in 0 .. MaxPanes
      BY <2>1, ManagerAssumption DEF TypeOK
    <3>3. target' \in [Callers -> Panes \cup {NoPane}]
      BY <2>1, <2>2 DEF TypeOK
    <3> QED
      BY <3>1, <3>2, <3>3
  <2> QED
    BY <1>7, <2>3 DEF CreateWorkspace, TypeOK
<1>8. CASE Split(w)
  <2>1. \/ UNCHANGED <<panes, made>>
        \/ /\ made < MaxPanes /\ made' = made + 1
           /\ \E q \in panes : panes' = panes \cup {NewPane(q.ws)}
    BY <1>8, Zenon DEF Split
  <2>2. panes' \subseteq Panes /\ made' \in 0 .. MaxPanes
    BY <2>1, NewPaneTypes, ManagerAssumption DEF TypeOK
  <2> QED
    BY <1>8, <2>2 DEF Split, TypeOK
<1>9. CASE TypeInPane(w)
  <2>1. CASE Resolve(w)
    <3>1. target' \in [Callers -> Panes \cup {NoPane}]
      BY <2>1 DEF Resolve, Arg, TypeOK
    <3> QED
      BY <2>1, <3>1 DEF Resolve, TypeOK
  <2>2. CASE Type(w)
    <3>1. ranIn' \in [Callers -> Seq(Panes)] /\ agent' \in Panes \cup {NoPane}
      BY <2>2 DEF Type, TypeOK
    <3> QED
      BY <2>2, <3>1 DEF Type, TypeOK
  <2>3. CASE WaitOutput(w)
    BY <2>3 DEF WaitOutput, TypeOK
  <2> QED
    BY <1>9, <2>1, <2>2, <2>3 DEF TypeInPane
<1>10. CASE UseAgent(w) \/ RefusedByServer(w)
  <2>1. ranIn' = ranIn \/ (ranIn' = [ranIn EXCEPT ![w] = Append(@, agent)] /\ agent \in panes)
    BY <1>10 DEF UseAgent, TypeToAgent, AgentWait, AgentRead, RefusedByServer
  <2>2. ranIn' \in [Callers -> Seq(Panes)]
    <3>1. ranIn[w] \in Seq(Panes) /\ (agent \in panes => Append(ranIn[w], agent) \in Seq(Panes))
      BY DEF TypeOK
    <3> QED
      BY <2>1, <3>1 DEF TypeOK
  <2> QED
    BY <1>10, <2>2 DEF UseAgent, TypeToAgent, AgentWait, AgentRead, RefusedByServer, TypeOK
<1> QED
  BY <1>1, <1>2, <1>3, <1>4, <1>5, <1>6, <1>7, <1>8, <1>9, <1>10

LEMMA HostTypes ==
    ASSUME IInv, ServerUp \/ ServerDies \/ PaneExits
    PROVE  TypeOK'
  BY DEF IInv, ServerUp, ServerDies, PaneExits, remote, fields, locals, TypeOK

-----------------------------------------------------------------------------
(* A step of one call leaves the others where they are.                    *)
LEMMA Frame ==
    ASSUME TypeOK, NEW w \in Callers, Begin(w) \/ Cleanup(w) \/ Advance(w),
           NEW v \in Callers \ {w}
    PROVE  /\ pc'[v] = pc[v] /\ after'[v] = after[v] /\ call'[v] = call[v]
           /\ polls'[v] = polls[v] /\ target'[v] = target[v] /\ ranIn'[v] = ranIn[v]
<1> USE DEF TypeOK, locals, Goto, Ensure
<1>1. CASE Begin(w) \/ Cleanup(w) \/ Return(w)
  BY <1>1 DEF Begin, Cleanup, Return
<1>2. CASE EnsureReady(w)
  BY <1>2 DEF EnsureReady, IsReady, Acquire, CheckFound, CheckNotFound, Install,
      InstallOrVerifyFails, SnapshotWithPanes, SnapshotEmpty, SnapFails, StartServer,
      PollFails, AutoWorkspace, NotReady, AfterError
<1>3. CASE RunInPane(w)
  BY <1>3 DEF RunInPane, Target, ListForTarget, ListForTargetFails, Run, RunFails,
      RunNotFound, ListForRerun, ListForRerunFails, SetDefault, RerunNotFound
<1>4. CASE CloseWorkspace(w) \/ ClearDefault(w) \/ ListForDefault(w) \/ CreateWorkspace(w)
           \/ NewDefault(w) \/ Split(w) \/ ClosePane(w)
  BY <1>4 DEF CloseWorkspace, ClearDefault, ListForDefault, CreateWorkspace, NewDefault,
      Split, ClosePane
<1>5. CASE TypeInPane(w) \/ UseAgent(w) \/ RefusedByServer(w)
  BY <1>5 DEF TypeInPane, Resolve, Type, WaitOutput, UseAgent, TypeToAgent, AgentWait,
      AgentRead, RefusedByServer
<1> QED
  BY <1>1, <1>2, <1>3, <1>4, <1>5 DEF Advance

-----------------------------------------------------------------------------
(* m.mu: EnsureReady takes it and lets go of it, everything else leaves it
   alone.                                                                  *)
LEMMA LockStep ==
    ASSUME IInv, NEW w \in Callers, Begin(w) \/ Cleanup(w) \/ Advance(w)
    PROVE  LockInv'
<1> USE ManagerAssumption DEF IInv, Goto, Ensure, Locked, Ensuring, locals
<1>1. SUFFICES /\ pc'[w] \in Locked <=> mu' = w
               /\ mu' = mu \/ (mu \in {w, Free} /\ mu' \in {w, Free})
               /\ pc'[w] = "poll" => polls'[w] < MaxPolls
               /\ after'[w] \notin Ensuring
  BY Frame DEF LockInv
<1>2. /\ pc[w] \in Locked <=> mu = w
      /\ pc[w] = "poll" => polls[w] < MaxPolls
      /\ after[w] \notin Ensuring
      /\ pc \in [Callers -> Pcs] /\ after \in [Callers -> Pcs]
      /\ polls \in [Callers -> 0 .. MaxPolls] /\ mu \in Callers \cup {Free}
  BY DEF LockInv, TypeOK
<1> HIDE DEF IInv
<1>3. CASE Begin(w)
  <2>1. PICK o \in Ops[w] \ {"cleanup"} : Ensure(w, IF o = "run" THEN "target" ELSE o)
    BY <1>3 DEF Begin
  <2>2. o \in OpKinds
    BY <2>1
  <2> QED
    BY <1>2, <1>3, <2>1, <2>2 DEF Begin, OpKinds
<1>4. CASE Cleanup(w) \/ Return(w)
  BY <1>2, <1>4 DEF Cleanup, Return
<1>5. CASE IsReady(w) \/ Acquire(w) \/ Install(w) \/ SnapFails(w) \/ SnapshotEmpty(w)
           \/ CheckFound(w)
  BY <1>2, <1>5 DEF IsReady, Acquire, Install, SnapFails, SnapshotEmpty, CheckFound
<1>6. ASSUME AfterError(w)
      PROVE  pc'[w] \in {"ensure", "ok", "failed", "paneGone"} /\ after'[w] \notin Ensuring
  <2>1. CASE after[w] = "agentRead"
    BY <1>2, <1>6, <2>1 DEF AfterError
  <2>2. CASE after[w] # "agentRead"
    <3> DEFINE next == CASE after[w] \in {"ok", "listForDefault", "agentGet"} -> "ok"
                         [] after[w] = "listForRerun" -> "paneGone"
                         [] OTHER -> "failed"
    <3>1. pc' = [pc EXCEPT ![w] = next] /\ after' = after
      BY <1>6, <2>2 DEF AfterError
    <3>2. next \in {"ok", "failed", "paneGone"}
      OBVIOUS
    <3> QED
      BY <1>2, <3>1, <3>2
  <2> QED
    BY <2>1, <2>2
<1>7. CASE CheckNotFound(w) \/ InstallOrVerifyFails(w)
  BY <1>2, <1>6, <1>7 DEF CheckNotFound, InstallOrVerifyFails, NotReady
<1>8. CASE SnapshotWithPanes(w) \/ AutoWorkspace(w)
  BY <1>2, <1>8 DEF SnapshotWithPanes, AutoWorkspace
<1>9. CASE StartServer(w)
  BY <1>2, <1>9 DEF StartServer
<1>10. CASE PollFails(w)
  BY <1>2, <1>6, <1>10 DEF PollFails, NotReady
<1>11. CASE RunInPane(w)
  BY <1>2, <1>11 DEF RunInPane, fields, Target, ListForTarget, ListForTargetFails, Run,
      RunFails, RunNotFound, ListForRerun, ListForRerunFails, SetDefault, RerunNotFound
<1>12. CASE CloseWorkspace(w) \/ ClearDefault(w) \/ ListForDefault(w) \/ CreateWorkspace(w)
            \/ NewDefault(w) \/ Split(w) \/ ClosePane(w)
  BY <1>2, <1>12 DEF CloseWorkspace, ClearDefault, ListForDefault, CreateWorkspace,
      NewDefault, Split, ClosePane
<1>13. CASE TypeInPane(w) \/ UseAgent(w) \/ RefusedByServer(w)
  BY <1>2, <1>13 DEF TypeInPane, Resolve, Type, WaitOutput, UseAgent, TypeToAgent,
      AgentWait, AgentRead, RefusedByServer, AgentOps
<1> QED
  BY <1>3, <1>4, <1>5, <1>7, <1>8, <1>9, <1>10, <1>11, <1>12, <1>13
     DEF Advance, EnsureReady

-----------------------------------------------------------------------------
(* What any step of a call does to the panes: EnsureReady creates a workspace,
   a pane is added to a workspace that is new or has one, or none is added. *)
AddsAuto == /\ made' = made + 1 /\ auto' = auto \cup {made + 1}
            /\ panes' = panes \cup {NewPane(made + 1)}
AddsPane == /\ made' = made + 1 /\ auto' = auto
            /\ \E n \in {made + 1} \cup {q.ws : q \in panes} :
                   panes' = panes \cup {NewPane(n)}
AddsNone == made' = made /\ auto' = auto /\ panes' \subseteq panes

LEMMA PaneSteps ==
    ASSUME IInv, NEW w \in Callers, Begin(w) \/ Cleanup(w) \/ Advance(w)
    PROVE  /\ \/ AddsAuto /\ pc[w] = "workspace" /\ pc'[w] # "workspace"
              \/ AddsPane /\ pc'[w] # "workspace"
              \/ AddsNone
           /\ pc'[w] = "workspace" => pc[w] = "workspace" \/ panes' = {}
<1> USE DEF Goto, Ensure, locals, remote
<1>1. /\ pc \in [Callers -> Pcs] /\ after \in [Callers -> Pcs]
      /\ after[w] \notin Ensuring
  BY DEF IInv, TypeOK, LockInv
<1>2. after[w] # "workspace"
  BY <1>1 DEF Ensuring, Locked
<1>3. CASE Begin(w) \/ Cleanup(w) \/ Return(w)
  <2>1. AddsNone
    BY <1>3 DEF Begin, Cleanup, Return, AddsNone
  <2>2. CASE Begin(w)
    BY <1>1, <2>1, <2>2 DEF Begin
  <2>3. CASE Cleanup(w) \/ Return(w)
    BY <1>1, <2>1, <2>3 DEF Cleanup, Return
  <2> QED
    BY <1>3, <2>2, <2>3
<1>4. CASE EnsureReady(w)
  <2>1. CASE AutoWorkspace(w)
    <3>1. AddsAuto \/ AddsNone
      BY <2>1 DEF AutoWorkspace, CreatesWorkspace, AddsAuto, AddsNone
    <3>2. pc[w] = "workspace" /\ pc'[w] # "workspace"
      BY <1>1, <1>2, <2>1 DEF AutoWorkspace
    <3> QED
      BY <3>1, <3>2
  <2>2. CASE SnapshotEmpty(w)
    BY <2>2 DEF SnapshotEmpty, AddsNone
  <2>3. CASE ~ AutoWorkspace(w) /\ ~ SnapshotEmpty(w)
    <3>1. AddsNone
      BY <1>4, <2>3 DEF EnsureReady, IsReady, Acquire, CheckFound, CheckNotFound, Install,
          InstallOrVerifyFails, SnapshotWithPanes, SnapFails, StartServer, PollFails, AddsNone
    <3>2. pc'[w] # "workspace"
      BY <1>1, <1>2, <1>4, <2>3 DEF EnsureReady, IsReady, Acquire, CheckFound,
          CheckNotFound, Install, InstallOrVerifyFails, SnapshotWithPanes, SnapFails,
          StartServer, PollFails, NotReady, AfterError
    <3> QED
      BY <3>1, <3>2
  <2> QED
    BY <2>1, <2>2, <2>3
<1>5. CASE RunInPane(w)
  BY <1>1, <1>5 DEF RunInPane, Target, ListForTarget, ListForTargetFails, Run, RunFails,
      RunNotFound, ListForRerun, ListForRerunFails, SetDefault, RerunNotFound, AddsNone
<1>6. CASE CloseWorkspace(w) \/ ClearDefault(w) \/ ListForDefault(w) \/ NewDefault(w)
           \/ ClosePane(w)
  BY <1>1, <1>6 DEF CloseWorkspace, ClearDefault, ListForDefault, NewDefault, ClosePane,
      AddsNone
<1>7. CASE CreateWorkspace(w) \/ Split(w)
  <2>1. pc'[w] # "workspace"
    BY <1>1, <1>7 DEF CreateWorkspace, Split
  <2>2. CASE CreateWorkspace(w)
    BY <2>1, <2>2 DEF CreateWorkspace, CreatesWorkspace, AddsPane, AddsNone
  <2>3. CASE Split(w)
    <3>1. \/ UNCHANGED <<panes, made>>
          \/ made' = made + 1 /\ \E q \in panes : panes' = panes \cup {NewPane(q.ws)}
      BY <2>3, Zenon DEF Split
    <3>2. auto' = auto
      BY <2>3 DEF Split
    <3> QED
      BY <2>1, <3>1, <3>2 DEF AddsPane, AddsNone
  <2> QED
    BY <1>7, <2>2, <2>3
<1>8. CASE TypeInPane(w) \/ UseAgent(w) \/ RefusedByServer(w)
  BY <1>1, <1>8 DEF TypeInPane, Resolve, Type, WaitOutput, UseAgent, TypeToAgent, AgentWait,
      AgentRead, RefusedByServer, AddsNone
<1> QED
  BY <1>3, <1>4, <1>5, <1>6, <1>7, <1>8 DEF Advance

(* Only the holder of m.mu is about to create a workspace, and it has seen an
   empty snapshot; whatever the others create is not the manager's.        *)
LEMMA AutoStep ==
    ASSUME IInv, NEW w \in Callers, Begin(w) \/ Cleanup(w) \/ Advance(w)
    PROVE  AutoInv'
<1>1. /\ made \in Nat /\ \A n \in auto : n \in Nat /\ n <= made
      /\ \A p \in panes : p.ws \in Nat /\ p.ws <= made
      /\ \A p, q \in panes : p.ws \in auto /\ q.ws \in auto => p.ws = q.ws
  BY ManagerAssumption DEF IInv, TypeOK, Panes, AutoInv
<1>2. \A v \in Callers : pc[v] = "workspace" => mu = v /\ \A p \in panes : p.ws \notin auto
  BY DEF IInv, LockInv, AutoInv, Locked
<1>3. \A v \in Callers \ {w} : pc'[v] = pc[v]
  BY Frame DEF IInv
<1>4. \A n : NewPane(n).ws = n
  BY DEF NewPane
<1>5. CASE AddsAuto /\ pc[w] = "workspace" /\ pc'[w] # "workspace"
  <2>1. \A v \in Callers : pc'[v] # "workspace"
    BY <1>2, <1>3, <1>5
  <2>2. \A p \in panes : p.ws \notin auto'
    BY <1>1, <1>2, <1>5 DEF AddsAuto
  <2>3. \A p \in panes' : p.ws \in auto' => p.ws = made + 1
    BY <1>4, <1>5, <2>2 DEF AddsAuto
  <2>4. \A n \in auto' : n <= made'
    BY <1>1, <1>5 DEF AddsAuto
  <2>5. \A p \in panes' : p.ws <= made'
    BY <1>1, <1>4, <1>5 DEF AddsAuto
  <2> QED
    BY <2>1, <2>3, <2>4, <2>5 DEF AutoInv
<1>6. CASE AddsPane /\ pc'[w] # "workspace"
  <2>1. PICK n \in {made + 1} \cup {q.ws : q \in panes} : panes' = panes \cup {NewPane(n)}
    BY <1>6 DEF AddsPane
  <2>2. n <= made + 1 /\ (n \in auto => \E q \in panes : n = q.ws)
    BY <1>1
  <2>3. \A p \in panes' : p.ws \in auto => \E q \in panes : p.ws = q.ws
    BY <1>4, <2>1, <2>2
  <2>4. \A p \in panes' : p.ws <= made'
    BY <1>1, <1>4, <1>6, <2>1, <2>2 DEF AddsPane
  <2>5. \A n_1 \in auto' : n_1 <= made'
    BY <1>1, <1>6 DEF AddsPane
  <2>6. \A p, q \in panes' : p.ws \in auto' /\ q.ws \in auto' => p.ws = q.ws
    BY <1>1, <1>6, <2>3 DEF AddsPane
  <2>7. \A v \in Callers : pc'[v] = "workspace" => \A p \in panes' : p.ws \notin auto'
    BY <1>2, <1>3, <1>6, <2>3 DEF AddsPane
  <2> QED
    BY <2>4, <2>5, <2>6, <2>7 DEF AutoInv
<1>7. CASE AddsNone
  <2>1. pc'[w] = "workspace" => pc[w] = "workspace" \/ panes' = {}
    BY PaneSteps
  <2> QED
    BY <1>1, <1>2, <1>3, <1>7, <2>1 DEF AutoInv, AddsNone
<1> QED
  BY <1>5, <1>6, <1>7, PaneSteps

-----------------------------------------------------------------------------
(* Where a call goes: EnsureReady returns it to where it was, or ends it.   *)
LEMMA EnsureReadyReturns ==
    ASSUME IInv, NEW w \in Callers, EnsureReady(w)
    PROVE  /\ \/ At(w)' \in {At(w), "ok", "failed", "agentGet"}
              \/ At(w) = "listForRerun" /\ At(w)' = "paneGone"
           /\ UNCHANGED <<call, target, ranIn>>
<1> USE DEF Goto, Ensure, Locked, Ensuring, At
<1>1. /\ pc \in [Callers -> Pcs] /\ after \in [Callers -> Pcs]
      /\ after[w] \notin Ensuring
  BY DEF IInv, TypeOK, LockInv
<1>2. UNCHANGED <<call, target, ranIn>>
  BY DEF locals, EnsureReady, IsReady, Acquire, CheckFound, CheckNotFound, Install,
      InstallOrVerifyFails, SnapshotWithPanes, SnapshotEmpty, SnapFails, StartServer,
      PollFails, AutoWorkspace
<1>3. ASSUME AfterError(w), pc[w] \in Locked
      PROVE  \/ At(w)' \in {"ok", "failed", "agentGet"}
             \/ At(w) = "listForRerun" /\ At(w)' = "paneGone"
  BY <1>1, <1>3 DEF AfterError
<1>4. CASE IsReady(w) \/ Acquire(w) \/ Install(w) \/ SnapFails(w) \/ SnapshotEmpty(w)
           \/ CheckFound(w) \/ SnapshotWithPanes(w) \/ StartServer(w) \/ AutoWorkspace(w)
  BY <1>1, <1>2, <1>4 DEF IsReady, Acquire, Install, SnapFails, SnapshotEmpty, CheckFound,
      SnapshotWithPanes, StartServer, AutoWorkspace
<1>5. CASE CheckNotFound(w) \/ InstallOrVerifyFails(w) \/ PollFails(w)
  BY <1>1, <1>2, <1>3, <1>5 DEF CheckNotFound, InstallOrVerifyFails, PollFails, NotReady
<1> QED
  BY <1>2, <1>4, <1>5 DEF EnsureReady

(* A step of a call keeps what is known of it.                             *)
LEMMA CallStep ==
    ASSUME IInv, NEW w \in Callers, Begin(w) \/ Cleanup(w) \/ Advance(w)
    PROVE  CallInv'
<1>1. SUFFICES CallOK(w)'
  <2>1. ASSUME NEW v \in Callers \ {w} PROVE CallOK(v)'
    <3>1. CallOK(v)
      BY DEF IInv, CallInv
    <3>2. /\ pc'[v] = pc[v] /\ after'[v] = after[v] /\ call'[v] = call[v]
          /\ target'[v] = target[v] /\ ranIn'[v] = ranIn[v]
      BY Frame DEF IInv
    <3> QED
      BY <3>1, <3>2 DEF CallOK, At, Arg
  <2> QED
    BY <2>1 DEF CallInv
<1>2. /\ pc \in [Callers -> Pcs] /\ after \in [Callers -> Pcs]
      /\ after[w] \notin Ensuring
      /\ call \in [Callers -> [op : OpKinds, arg : Panes \cup {NoPane}]]
      /\ target \in [Callers -> Panes \cup {NoPane}]
      /\ ranIn \in [Callers -> Seq(Panes)]
      /\ panes \subseteq Panes /\ NoPane \notin Panes
      /\ agent \in Panes \cup {NoPane}
  BY ManagerAssumption DEF IInv, TypeOK, LockInv, Panes
<1>3. CallOK(w)
  BY DEF IInv, CallInv
<1> USE DEF Goto, Ensure, Locked, Ensuring, At, locals, AgentOps
<1>4. CASE Begin(w)
  <2>1. PICK o \in Ops[w] \ {"cleanup"}, p \in Known \cup {NoPane} :
          /\ o \in {"createWorkspace", "query"} \cup AgentOps => p = NoPane
          /\ call' = [call EXCEPT ![w] = [op |-> o, arg |-> p]]
          /\ Ensure(w, IF o = "run" THEN "target" ELSE o)
    BY <1>4 DEF Begin
  <2>2. o \in OpKinds /\ pc[w] = "idle" /\ ranIn' = ranIn
    BY <1>4, <2>1, ManagerAssumption DEF Begin
  <2>3. ranIn'[w] = <<>>
    BY <1>3, <2>2 DEF CallOK
  <2>4. At(w)' = (IF o = "run" THEN "target" ELSE o) /\ Arg(w)' = p
    BY <1>2, <2>1, <2>2 DEF Arg, OpKinds
  <2> QED
    BY <2>1, <2>2, <2>3, <2>4 DEF CallOK, OpKinds
<1>5. CASE Cleanup(w)
  BY <1>3, <1>5 DEF Cleanup, CallOK, Arg
<1>6. CASE Return(w)
  <2>1. ranIn'[w] = <<>> /\ Arg(w)' = NoPane
    BY <1>2, <1>6 DEF Return, NoCall, Arg
  <2> QED
    BY <2>1 DEF CallOK
<1>7. CASE EnsureReady(w)
  <2>1. /\ \/ At(w)' \in {At(w), "ok", "failed", "agentGet"}
           \/ At(w) = "listForRerun" /\ At(w)' = "paneGone"
        /\ UNCHANGED <<call, target, ranIn>>
    BY <1>7, EnsureReadyReturns
  <2> HIDE DEF At
  <2> QED
    BY <1>3, <2>1 DEF CallOK, Arg
<1>8. CASE RunInPane(w)
  <2>1. CASE Target(w)
    <3>1. ranIn' = ranIn /\ ranIn[w] = <<>> /\ call' = call
      BY <1>3, <2>1 DEF Target, CallOK
    <3>2. /\ At(w)' \in {"run", "listForTarget"}
          /\ Arg(w) # NoPane => At(w)' = "run" /\ target'[w] = Arg(w)
      BY <1>2, <2>1 DEF Target, Arg
    <3> QED
      BY <3>1, <3>2 DEF CallOK, Arg
  <2>2. CASE ListForTarget(w) \/ ListForRerun(w) \/ SetDefault(w)
    <3>1. ranIn' = ranIn /\ ranIn[w] = <<>> /\ call' = call /\ Arg(w) = NoPane
      BY <1>3, <2>2 DEF ListForTarget, ListForRerun, SetDefault, CallOK
    <3> QED
      BY <3>1 DEF CallOK, Arg
  <2>3. CASE ListForTargetFails(w) \/ ListForRerunFails(w) \/ RunFails(w) \/ RerunNotFound(w)
    <3>1. ranIn' = ranIn /\ call' = call /\ pc'[w] \in {"failed", "paneGone"}
      BY <1>2, <2>3 DEF ListForTargetFails, ListForRerunFails, RunFails, RerunNotFound
    <3>2. pc'[w] = "failed" \/ ranIn[w] = <<>>
      BY <1>2, <1>3, <2>3 DEF ListForTargetFails, ListForRerunFails, RunFails,
          RerunNotFound, CallOK
    <3> QED
      BY <1>3, <3>1, <3>2 DEF CallOK, Arg
  <2>4. CASE Run(w)
    <3>1. ranIn[w] = <<>> /\ (Arg(w) # NoPane => target[w] = Arg(w))
      BY <1>3, <2>4 DEF Run, CallOK
    <3>2. ranIn'[w] = Append(ranIn[w], target[w]) /\ target[w] \in Panes
      BY <1>2, <2>4 DEF Run
    <3>3. ranIn'[w] = <<target[w]>>
      BY <3>1, <3>2
    <3>4. At(w)' \in {"ok", "failed"} /\ call' = call
      BY <1>2, <2>4 DEF Run
    <3> HIDE DEF At
    <3> QED
      BY <3>1, <3>2, <3>3, <3>4 DEF CallOK, Arg
  <2>5. CASE RunNotFound(w)
    <3>1. ranIn' = ranIn /\ ranIn[w] = <<>> /\ call' = call
      BY <1>3, <2>5 DEF RunNotFound, CallOK
    <3>2. /\ At(w)' \in {"listForRerun", "paneGone"}
          /\ Arg(w) # NoPane => At(w)' = "paneGone"
      BY <1>2, <2>5 DEF RunNotFound
    <3> QED
      BY <3>1, <3>2 DEF CallOK, Arg
  <2> QED
    BY <1>8, <2>1, <2>2, <2>3, <2>4, <2>5 DEF RunInPane
<1>9. CASE CloseWorkspace(w) \/ ClearDefault(w) \/ ListForDefault(w) \/ CreateWorkspace(w)
           \/ NewDefault(w) \/ Split(w) \/ ClosePane(w)
  <2>1. /\ At(w) \notin {"ok", "failed", "agentRead", "agentGet"}
        /\ At(w)' \in {"clearDefault", "failed", "listForDefault", "newDefault", "ok"}
        /\ ranIn' = ranIn /\ call' = call
    BY <1>2, <1>9 DEF CloseWorkspace, ClearDefault, ListForDefault, CreateWorkspace,
        NewDefault, Split, ClosePane
  <2> HIDE DEF At
  <2> QED
    BY <1>3, <2>1 DEF CallOK, Arg
<1>10. CASE TypeInPane(w)
  <2>1. CASE Resolve(w)
    <3>1. ranIn' = ranIn /\ ranIn[w] = <<>> /\ call' = call
      BY <1>3, <2>1 DEF Resolve, CallOK
    <3>2. /\ At(w)' \in {"waitOutput", "type"}
          /\ Arg(w) # NoPane => target'[w] = Arg(w)
      BY <1>2, <2>1 DEF Resolve
    <3> QED
      BY <3>1, <3>2 DEF CallOK, Arg
  <2>2. CASE Type(w)
    <3>1. ranIn[w] = <<>> /\ (Arg(w) # NoPane => target[w] = Arg(w))
      BY <1>3, <2>2 DEF Type, CallOK
    <3>2. ranIn'[w] = Append(ranIn[w], target[w]) /\ target[w] \in Panes
      BY <1>2, <2>2 DEF Type
    <3>3. ranIn'[w] = <<target[w]>>
      BY <3>1, <3>2
    <3>4. At(w)' \in {"ok", "failed"} /\ call' = call
      BY <1>2, <2>2 DEF Type
    <3> HIDE DEF At
    <3> QED
      BY <3>1, <3>2, <3>3, <3>4 DEF CallOK, Arg
  <2>3. CASE WaitOutput(w)
    BY <1>2, <1>3, <2>3 DEF WaitOutput, CallOK, Arg
  <2> QED
    BY <1>10, <2>1, <2>2, <2>3 DEF TypeInPane
<1>11. CASE UseAgent(w)
  <2>1. CASE TypeToAgent(w)
    <3>1. ranIn[w] = <<>> /\ Arg(w) = NoPane
      BY <1>3, <2>1 DEF TypeToAgent, CallOK
    <3>2. ranIn'[w] = Append(ranIn[w], agent) /\ agent \in Panes
      BY <1>2, <2>1 DEF TypeToAgent
    <3>3. ranIn'[w] = <<agent>>
      BY <3>1, <3>2
    <3>4. At(w)' \in {"ok", "failed", "agentRead"} /\ call' = call
      BY <1>2, <2>1 DEF TypeToAgent
    <3> HIDE DEF At
    <3> QED
      BY <3>1, <3>2, <3>3, <3>4 DEF CallOK, Arg
  <2>2. CASE AgentWait(w) \/ AgentRead(w)
    <3>1. At(w)' = "agentGet" /\ ranIn' = ranIn /\ call' = call
      BY <1>2, <2>2 DEF AgentWait, AgentRead
    <3> HIDE DEF At
    <3> QED
      BY <1>3, <3>1 DEF CallOK, Arg
  <2> QED
    BY <1>11, <2>1, <2>2 DEF UseAgent
<1>12. CASE RefusedByServer(w)
  <2>1. At(w)' = "failed" /\ ranIn' = ranIn /\ call' = call
    BY <1>2, <1>12 DEF RefusedByServer
  <2> HIDE DEF At
  <2> QED
    BY <1>3, <2>1 DEF CallOK, Arg
<1> QED
  BY <1>4, <1>5, <1>6, <1>7, <1>8, <1>9, <1>10, <1>11, <1>12 DEF Advance

-----------------------------------------------------------------------------
LEMMA NextIInv == IInv /\ [Next]_vars => IInv'
<1> SUFFICES ASSUME IInv, [Next]_vars PROVE IInv'
  OBVIOUS
<1>1. CASE UNCHANGED vars
  BY <1>1 DEF vars, remote, fields, locals, IInv, TypeOK, LockInv, AutoInv, CallInv, CallOK,
      At, Arg
<1>2. ASSUME NEW w \in Callers, Begin(w) \/ Cleanup(w) \/ Advance(w) PROVE IInv'
  <2>1. TypeOK'
    BY <1>2, EnsureReadyTypes, RunInPaneTypes, OtherTypes DEF Advance
  <2> QED
    BY <1>2, <2>1, LockStep, AutoStep, CallStep DEF IInv
<1>3. CASE ServerUp \/ ServerDies \/ PaneExits
  <2>1. TypeOK'
    BY <1>3, HostTypes
  <2>2. panes' \subseteq panes /\ UNCHANGED <<made, auto, mu, pc, after, call, polls, target, ranIn>>
    BY <1>3 DEF ServerUp, ServerDies, PaneExits, locals
  <2>3. LockInv' /\ AutoInv'
    BY <2>2 DEF IInv, LockInv, AutoInv
  <2>4. CallInv'
    BY <2>2 DEF IInv, CallInv, CallOK, At, Arg
  <2> QED
    BY <2>1, <2>3, <2>4 DEF IInv
<1> QED
  BY <1>1, <1>2, <1>3 DEF Next

LEMMA Invariance == Spec => []IInv
  BY InitIInv, NextIInv, PTL DEF Spec

(* The variables have their types; in particular a waiting EnsureReady never
   counts more than MaxPolls rounds.                                       *)
THEOREM TypeCorrect == Spec => []TypeOK
<1>1. IInv => TypeOK
  BY DEF IInv
<1> QED
  BY <1>1, Invariance, PTL

(* A call types its command, text, keys or prompt at most once, whatever the
   panes, the server and the other callers do between its exchanges.       *)
THEOREM TypedOnce == Spec => []CommandTypedOnce
<1>1. IInv => CommandTypedOnce
  <2> SUFFICES ASSUME IInv, NEW w \in Callers PROVE Len(ranIn[w]) <= 1
    BY DEF CommandTypedOnce
  <2>1. ranIn[w] = <<>> \/ \E p \in Panes : ranIn[w] = <<p>>
    BY DEF IInv, CallInv, CallOK
  <2>2. Len(<<>>) = 0
    OBVIOUS
  <2>3. ASSUME NEW p \in Panes PROVE Len(<<p>>) = 1
    OBVIOUS
  <2>4. Len(ranIn[w]) \in {0, 1}
    BY <2>1, <2>2, <2>3
  <2>5. \A n \in {0, 1} : n <= 1
    OBVIOUS
  <2> QED
    BY <2>4, <2>5, Zenon
<1> QED
  BY <1>1, Invariance, PTL

(* What is meant for a named pane is typed into that pane or nowhere: the
   second try of RunInPane is for calls that named none.                   *)
THEOREM NamedOnly == Spec => []NamedPaneOnly
<1>1. IInv => NamedPaneOnly
  <2> SUFFICES ASSUME IInv, NEW w \in Callers, Arg(w) # NoPane
               PROVE  Elems(ranIn[w]) \subseteq {Arg(w)}
    BY DEF NamedPaneOnly
  <2>1. ranIn[w] = <<>> \/ ranIn[w] = <<Arg(w)>>
    BY DEF IInv, CallInv, CallOK
  <2> QED
    BY <2>1 DEF Elems
<1> QED
  BY <1>1, Invariance, PTL

(* The session never holds two of the workspaces that EnsureReady creates:
   it creates one only under m.mu and after an empty snapshot.             *)
THEOREM OneWorkspace == Spec => []OneAutoWorkspace
<1>1. IInv => OneAutoWorkspace
  <2> SUFFICES ASSUME IInv PROVE Cardinality(auto \cap {p.ws : p \in panes}) <= 1
    BY DEF OneAutoWorkspace
  <2> DEFINE S == auto \cap {p.ws : p \in panes}
  <2>1. \A m, n \in S : m = n
    BY DEF IInv, AutoInv
  <2>2. S = {} \/ \E n : S = {n}
    BY <2>1
  <2> HIDE DEF S
  <2>3. Cardinality(S) <= 1
    BY <2>2, FS_EmptySet, FS_Singleton
  <2> QED
    BY <2>3 DEF S
<1> QED
  BY <1>1, Invariance, PTL

-----------------------------------------------------------------------------
(* One caller on a host where panes and servers do not end by themselves.
   From the first EnsureReady of a command on the manager is ready, so that
   the later ones change nothing; the pane of the command is the default one,
   if there is one; and the pane it is repeated in was listed and still
   exists.                                                                 *)
Alone == ~ Outside /\ \A v, w \in Callers : v = w

Listing(w) == /\ pc[w] \in {"ensure", "listForTarget", "listForRerun"}
              /\ At(w) \in {"listForTarget", "listForRerun"}
Trying == {"run", "setDefault", "rerun"}

StaleOK(w) ==
    /\ pc[w] \in Ensuring => after[w] \notin Trying \cup {"paneGone"}
    /\ pc[w] \in Locked => after[w] \notin {"listForTarget", "listForRerun"}
    /\ pc[w] \in {"snap", "start", "poll", "workspace"} => available
    /\ pc[w] \in {"target"} \cup Trying \/ Listing(w) => initialized /\ available
    /\ Listing(w) /\ At(w) = "listForTarget" => defaultPane = NoPane
    /\ pc[w] = "run" /\ Arg(w) = NoPane => defaultPane \in {NoPane, target[w]}
    /\ pc[w] \in {"setDefault", "rerun"} => target[w] \in panes
    /\ pc[w] = "rerun" => defaultPane = target[w]
StaleInv == \A w \in Callers : StaleOK(w)

(* What StaleDefaultRecovers says of a step of w.                          *)
Recovers(w) ==
    Arg(w) = NoPane =>
       /\ pc'[w] = "paneGone" => pc[w] \in {"listForRerun", "paneGone"}
       /\ pc[w] \in {"run", "rerun"} /\ ranIn'[w] # ranIn[w] =>
             defaultPane \in {NoPane, target[w]}

(* A place that StaleOK says nothing about.                                *)
LEMMA StaleElsewhere ==
    ASSUME NEW w \in Callers,
           pc'[w] \notin Locked \cup Trying
                           \cup {"target", "listForTarget", "listForRerun"},
           pc'[w] = "ensure" =>
              after'[w] \notin Trying \cup {"listForTarget", "listForRerun", "paneGone"}
    PROVE  StaleOK(w)'
  BY DEF StaleOK, Listing, At, Ensuring, Locked, Trying

LEMMA StaleEnsureReady ==
    ASSUME IInv, NEW w \in Callers, StaleOK(w), EnsureReady(w)
    PROVE  StaleOK(w)' /\ Recovers(w)
<1> USE DEF Goto, Ensure, locals, remote, fields
<1>1. /\ pc \in [Callers -> Pcs] /\ after \in [Callers -> Pcs]
      /\ after[w] \notin Ensuring
  BY DEF IInv, TypeOK, LockInv
<1>2. CASE IsReady(w)
  <2>1. /\ pc[w] = "ensure" /\ pc'[w] = after[w] /\ initialized /\ available
        /\ UNCHANGED <<panes, initialized, available, defaultPane, call, target, ranIn, after>>
    BY <1>1, <1>2 DEF IsReady
  <2>2. after[w] \notin Trying \cup {"paneGone"}
    BY <2>1 DEF StaleOK, Ensuring
  <2> QED
    BY <1>1, <2>1, <2>2 DEF StaleOK, Recovers, Listing, At, Ensuring, Locked, Trying
<1>3. CASE Acquire(w)
  BY <1>1, <1>3 DEF Acquire, StaleOK, Recovers, Listing, At, Ensuring, Locked, Trying
<1>4. CASE CheckFound(w) \/ Install(w) \/ SnapshotEmpty(w) \/ SnapFails(w) \/ StartServer(w)
  BY <1>1, <1>4 DEF CheckFound, Install, SnapshotEmpty, SnapFails, StartServer, StaleOK,
      Recovers, Listing, At, Ensuring, Locked, Trying
<1>5. CASE SnapshotWithPanes(w) \/ AutoWorkspace(w)
  <2>1. /\ pc[w] \in {"snap", "poll", "workspace"} /\ pc'[w] = after[w]
        /\ initialized' /\ available' = available /\ UNCHANGED ranIn
    BY <1>1, <1>5 DEF SnapshotWithPanes, AutoWorkspace
  <2>2. /\ after[w] \notin Trying \cup {"paneGone", "listForTarget", "listForRerun"}
        /\ available
    BY <2>1 DEF StaleOK, Ensuring, Locked
  <2> QED
    BY <1>1, <2>1, <2>2 DEF StaleOK, Recovers, Listing, At, Ensuring, Locked, Trying
<1>6. ASSUME pc[w] \in Locked, AfterError(w), UNCHANGED ranIn
      PROVE  StaleOK(w)' /\ Recovers(w)
  <2>1. /\ pc'[w] \in {"ok", "failed", "ensure"}
        /\ pc'[w] = "ensure" => after'[w] = "agentGet"
    BY <1>1, <1>6 DEF AfterError, StaleOK
  <2> QED
    BY <1>6, <2>1, StaleElsewhere DEF Recovers, Locked, Trying
<1>7. CASE CheckNotFound(w) \/ InstallOrVerifyFails(w) \/ PollFails(w)
  <2>1. CASE NotReady(w)
    BY <1>6, <1>7, <2>1 DEF CheckNotFound, InstallOrVerifyFails, PollFails, NotReady, Locked
  <2>2. CASE CheckNotFound(w) /\ Goto(w, "install")
    BY <1>1, <2>2 DEF CheckNotFound, StaleOK, Recovers, Listing, At, Ensuring, Locked, Trying
  <2>3. CASE PollFails(w) /\ Goto(w, "poll") /\ UNCHANGED initialized
    BY <1>1, <2>3 DEF PollFails, StaleOK, Recovers, Listing, At, Ensuring, Locked, Trying
  <2> QED
    BY <1>7, <2>1, <2>2, <2>3 DEF CheckNotFound, InstallOrVerifyFails, PollFails
<1> QED
  BY <1>2, <1>3, <1>4, <1>5, <1>7 DEF EnsureReady

LEMMA StaleOther ==
    ASSUME IInv, NEW w \in Callers,
           \/ Begin(w) \/ Return(w) \/ CloseWorkspace(w)
           \/ ClearDefault(w) \/ ListForDefault(w) \/ CreateWorkspace(w) \/ NewDefault(w)
           \/ Split(w) \/ ClosePane(w) \/ TypeInPane(w) \/ UseAgent(w) \/ RefusedByServer(w)
    PROVE  StaleOK(w)' /\ Recovers(w)
<1> USE DEF Goto, Ensure, locals, AgentOps
<1>1. pc \in [Callers -> Pcs] /\ after \in [Callers -> Pcs]
  BY DEF IInv, TypeOK
<1>2. /\ pc[w] \notin {"run", "rerun"}
      /\ pc'[w] \notin Locked \cup Trying
                      \cup {"target", "listForTarget", "listForRerun", "paneGone"}
      /\ pc'[w] = "ensure" =>
            after'[w] \notin Trying \cup {"listForTarget", "listForRerun", "paneGone"}
  <2>1. CASE Begin(w)
    <3>1. PICK o \in Ops[w] \ {"cleanup"} : Ensure(w, IF o = "run" THEN "target" ELSE o)
      BY <2>1 DEF Begin
    <3>2. o \in OpKinds /\ pc[w] = "idle"
      BY <2>1, ManagerAssumption DEF Begin
    <3> QED
      BY <1>1, <3>1, <3>2 DEF OpKinds, Locked, Trying
  <2>2. CASE Return(w) \/ CloseWorkspace(w) \/ ClearDefault(w) \/ ListForDefault(w)
             \/ CreateWorkspace(w) \/ NewDefault(w) \/ Split(w) \/ ClosePane(w)
    BY <1>1, <2>2 DEF Return, CloseWorkspace, ClearDefault, ListForDefault,
        CreateWorkspace, NewDefault, Split, ClosePane, Locked, Trying
  <2>3. CASE TypeInPane(w) \/ UseAgent(w) \/ RefusedByServer(w)
    BY <1>1, <2>3 DEF TypeInPane, Resolve, Type, WaitOutput, UseAgent, TypeToAgent,
        AgentWait, AgentRead, RefusedByServer, Locked, Trying
  <2> QED
    BY <2>1, <2>2, <2>3
<1> QED
  BY <1>2, StaleElsewhere DEF Recovers

LEMMA StaleRunInPane ==
    ASSUME IInv, NEW w \in Callers, StaleOK(w), RunInPane(w)
    PROVE  StaleOK(w)' /\ Recovers(w)
<1> USE DEF Goto, Ensure, locals, remote, fields, Arg
<1>1. /\ pc \in [Callers -> Pcs] /\ after \in [Callers -> Pcs]
      /\ target \in [Callers -> Panes \cup {NoPane}]
  BY DEF IInv, TypeOK
<1>2. UNCHANGED <<panes, call, initialized, available>>
  BY DEF RunInPane, Target, ListForTarget, ListForTargetFails, Run, RunFails, RunNotFound,
      ListForRerun, ListForRerunFails, SetDefault, RerunNotFound
<1>3. CASE Target(w)
  <2>1. /\ pc[w] = "target" /\ initialized /\ available
        /\ UNCHANGED <<defaultPane, ranIn>>
    BY <1>3 DEF Target, StaleOK
  <2>2. \/ /\ pc'[w] = "ensure" /\ after'[w] = "listForTarget" /\ defaultPane = NoPane
        \/ /\ pc'[w] = "run" /\ (Arg(w) = NoPane => target'[w] = defaultPane)
    BY <1>1, <1>3 DEF Target
  <2> QED
    BY <1>2, <2>1, <2>2 DEF StaleOK, Recovers, Listing, At, Ensuring, Locked, Trying
<1>4. CASE ListForTarget(w)
  <2>1. /\ pc[w] = "listForTarget" /\ initialized /\ available /\ defaultPane = NoPane
        /\ pc'[w] = "run" /\ UNCHANGED <<defaultPane, ranIn>>
    BY <1>1, <1>4 DEF ListForTarget, StaleOK, Listing, At, Ensuring, Locked
  <2> QED
    BY <1>2, <2>1 DEF StaleOK, Recovers, Listing, At, Ensuring, Locked, Trying
<1>5. CASE ListForRerun(w)
  <2>1. target'[w] = FirstPane /\ FirstPane \in panes
    BY <1>1, <1>5, FirstPaneListed DEF IInv, ListForRerun, Listed
  <2>2. /\ pc[w] = "listForRerun" /\ initialized /\ available
        /\ pc'[w] = "setDefault" /\ UNCHANGED ranIn
    BY <1>1, <1>5 DEF ListForRerun, StaleOK, Listing, At, Ensuring, Locked
  <2> QED
    BY <1>2, <2>1, <2>2 DEF StaleOK, Recovers, Listing, At, Ensuring, Locked, Trying
<1>6. CASE SetDefault(w)
  <2>1. /\ pc[w] = "setDefault" /\ initialized /\ available /\ target[w] \in panes
        /\ pc'[w] = "rerun" /\ defaultPane' = target[w] /\ UNCHANGED <<target, ranIn>>
    BY <1>1, <1>6 DEF SetDefault, StaleOK, Trying
  <2> QED
    BY <1>2, <2>1 DEF StaleOK, Recovers, Listing, At, Ensuring, Locked, Trying
<1>7. CASE RunNotFound(w)
  <2>1. /\ pc[w] = "run" /\ initialized /\ available /\ UNCHANGED ranIn
        /\ IF Arg(w) = NoPane THEN pc'[w] = "ensure" /\ after'[w] = "listForRerun"
                              ELSE pc'[w] = "paneGone"
    BY <1>1, <1>7 DEF RunNotFound, StaleOK, Trying
  <2> QED
    BY <1>2, <2>1 DEF StaleOK, Recovers, Listing, At, Ensuring, Locked, Trying
<1>8. CASE RerunNotFound(w)
  BY <1>8 DEF RerunNotFound, StaleOK
<1>9. CASE Run(w)
  <2>1. /\ pc'[w] \in {"ensure", "failed"} /\ (pc'[w] = "ensure" => after'[w] = "ok")
        /\ pc[w] \in {"run", "rerun"}
    BY <1>1, <1>9 DEF Run
  <2>2. Recovers(w)
    BY <2>1 DEF StaleOK, Recovers
  <2> QED
    BY <2>1, <2>2, StaleElsewhere DEF Locked, Trying
<1>10. CASE ListForTargetFails(w) \/ RunFails(w) \/ ListForRerunFails(w)
  <2>1. /\ pc'[w] \in {"failed", "paneGone"} /\ UNCHANGED ranIn
        /\ pc'[w] = "paneGone" => pc[w] = "listForRerun"
    BY <1>1, <1>10 DEF ListForTargetFails, RunFails, ListForRerunFails
  <2> QED
    BY <2>1, StaleElsewhere DEF Recovers, Locked, Trying
<1> QED
  BY <1>3, <1>4, <1>5, <1>6, <1>7, <1>8, <1>9, <1>10 DEF RunInPane

(* Of one caller on a host nobody else uses: a command without a pane fails
   with pane_not_found only out of the list for its second try, which is
   empty or cannot be had, and where it runs is what the manager remembers. *)
THEOREM StaleRecovers ==
    ASSUME Alone
    PROVE  Spec => StaleDefaultRecovers
<1>1. Init => StaleInv
  BY DEF Init, StaleInv, StaleOK, Listing, At, Ensuring, Locked, Trying
<1>2. ASSUME IInv, StaleInv, [Next]_vars, NEW w \in Callers
      PROVE  StaleOK(w)' /\ Recovers(w)
  <2>1. StaleOK(w)
    BY <1>2 DEF StaleInv
  <2>2. CASE UNCHANGED vars \/ ServerUp
    BY <2>1, <2>2 DEF vars, remote, fields, locals, ServerUp, StaleOK, Listing, At, Arg,
        Recovers
  <2>3. CASE Cleanup(w)
    BY <2>3, StaleElsewhere DEF Cleanup, locals, Recovers, Locked, Trying
  <2>4. CASE Begin(w) \/ Advance(w)
    BY <1>2, <2>1, <2>4, StaleEnsureReady, StaleOther, StaleRunInPane DEF Advance
  <2>5. ~ ServerDies /\ ~ PaneExits
    BY DEF Alone, ServerDies, PaneExits
  <2> QED
    BY <1>2, <2>2, <2>3, <2>4, <2>5 DEF Alone, Next
<1>3. IInv /\ StaleInv /\ [Next]_vars => StaleInv'
  BY <1>2 DEF StaleInv
<1>4. IInv /\ StaleInv /\ [Next]_vars => [\A w \in Callers : Recovers(w)]_vars
  BY <1>2
<1>5. [\A w \in Callers : Recovers(w)]_vars =>
      [\A w \in Callers : Arg(w) = NoPane =>
          /\ pc'[w] = "paneGone" => pc[w] \in {"listForRerun", "paneGone"}
          /\ pc[w] \in {"run", "rerun"} /\ ranIn'[w] # ranIn[w] =>
                defaultPane \in {NoPane, target[w]}]_vars
  BY DEF Recovers
<1> QED
  BY <1>1, <1>3, <1>4, <1>5, Invariance, PTL DEF Spec, StaleDefaultRecovers
=============================================================================
