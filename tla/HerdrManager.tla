---------------------------- MODULE HerdrManager ----------------------------
(***************************************************************************)
(* The terminal manager (internal/herdr/manager.go): it brings up a herdr  *)
(* server on the remote host, remembers a default pane and runs commands   *)
(* in panes.                                                               *)
(*                                                                         *)
(* Every exchange with the host is one ExecRaw: it is carried out or not,  *)
(* and its answer may be lost.  EnsureReady and CleanupSession hold m.mu   *)
(* across their exchanges; everything else takes it only for a field.      *)
(* Other herdr users of the same host are part of the environment.         *)
(***************************************************************************)
EXTENDS Naturals, Sequences, FiniteSets

CONSTANTS
    Callers,     \* goroutines of the server that run tool calls
    Ops,         \* the kinds of call each caller makes
    NoPane,      \* a pane ID that is ""
    Free,        \* value of mu when nobody holds it
    Named,       \* is Manager.sessionName set?
    Bootstrap,   \* Manager.bootstrap
    Outside,     \* do panes and servers also end by themselves?
    MaxPolls,    \* rounds of the wait for the server, 10 in the code
    MaxPanes     \* bound: panes made in a behaviour

OpKinds == {"run", "closeWorkspace", "createWorkspace", "split", "closePane",
            "send", "wait", "agentStart", "agentPrompt", "agentKeys", "agentWait",
            "query", "cleanup"}

ASSUME ManagerAssumption ==
    /\ Free \notin Callers
    /\ Ops \in [Callers -> SUBSET OpKinds]
    /\ {Named, Bootstrap, Outside} \subseteq BOOLEAN
    /\ MaxPolls \in Nat \ {0} /\ MaxPanes \in Nat \ {0}
    /\ NoPane \notin [ws : 1 .. MaxPanes, no : 1 .. MaxPanes]

VARIABLES
    installed,    \* is herdr installed on the host?
    server,       \* state of the herdr server of the session
    panes,        \* its panes, known by workspace and by a number in the order made
    made,         \* number of panes made so far
    auto,         \* the workspaces that EnsureReady has created
    agent,        \* the pane the agent was last started in; it ends with the pane
    initialized, available, defaultPane,    \* fields of the Manager
    confirmed,    \* has the manager ever received a snapshot of a server?
    mu,           \* holder of Manager.mu
    pc,           \* where the call of each caller is
    after,        \* where it continues when EnsureReady returns nil
    call,         \* its operation and arguments
    polls,        \* rounds it has waited for the server
    target,       \* its targetPane
    ranIn         \* the panes its command was typed into, in order

remote == <<installed, server, panes, made, auto, agent>>
fields == <<initialized, available, defaultPane, confirmed>>
locals == <<call, polls, target, ranIn>>
vars == <<remote, fields, mu, pc, after, locals>>

Panes == [ws : 1 .. MaxPanes, no : 1 .. MaxPanes]
Elems(s) == {s[i] : i \in DOMAIN s}

NoCall == [op |-> "query", arg |-> NoPane]

Pcs == {"idle", "ensure", "check", "install", "verify", "snap", "start", "poll",
        "workspace", "target", "listForTarget", "run", "listForRerun", "setDefault",
        "rerun", "closeWorkspace", "clearDefault", "listForDefault", "newDefault",
        "createWorkspace", "split", "closePane", "send", "wait", "type", "waitOutput",
        "agentStart", "agentPrompt", "agentKeys", "agentWait", "agentRead", "agentGet",
        "query", "ok", "failed", "paneGone"}

TypeOK ==
    /\ installed \in BOOLEAN
    /\ server \in {"down", "starting", "up"}
    /\ panes \subseteq Panes
    /\ made \in 0 .. MaxPanes
    /\ auto \subseteq 1 .. MaxPanes
    /\ agent \in Panes \cup {NoPane}
    /\ {initialized, available, confirmed} \subseteq BOOLEAN
    /\ defaultPane \in Panes \cup {NoPane}
    /\ mu \in Callers \cup {Free}
    /\ pc \in [Callers -> Pcs]
    /\ after \in [Callers -> Pcs]
    /\ call \in [Callers -> [op : OpKinds, arg : Panes \cup {NoPane}]]
    /\ polls \in [Callers -> 0 .. MaxPolls]
    /\ target \in [Callers -> Panes \cup {NoPane}]
    /\ ranIn \in [Callers -> Seq(Panes)]

Init ==
    /\ installed \in BOOLEAN
    /\ server \in {"down", "up"}
    /\ server = "up" => installed
    /\ panes = IF server = "up" THEN {[ws |-> 1, no |-> 1]} ELSE {}
    /\ made = IF server = "up" THEN 1 ELSE 0
    /\ auto = {} /\ agent = NoPane
    /\ initialized = FALSE /\ available = FALSE /\ confirmed = FALSE
    /\ defaultPane = NoPane
    /\ mu = Free
    /\ pc = [w \in Callers |-> "idle"]
    /\ after = [w \in Callers |-> "ok"]
    /\ call = [w \in Callers |-> NoCall]
    /\ polls = [w \in Callers |-> 0]
    /\ target = [w \in Callers |-> NoPane]
    /\ ranIn = [w \in Callers |-> <<>>]

-----------------------------------------------------------------------------
Goto(w, l) == pc' = [pc EXCEPT ![w] = l] /\ UNCHANGED after

(* A method of the Manager that begins with EnsureReady.                   *)
Ensure(w, l) == /\ pc' = [pc EXCEPT ![w] = "ensure"]
                /\ after' = [after EXCEPT ![w] = l]

Arg(w) == call[w].arg
NewPane(ws) == [ws |-> ws, no |-> made + 1]

(* A server gives a new workspace a number of its own and one pane.        *)
CreatesWorkspace == /\ server = "up" /\ made < MaxPanes
                    /\ panes' = panes \cup {NewPane(made + 1)}
                    /\ made' = made + 1

(* The server lists its panes in the order in which it has made them.      *)
FirstPane == CHOOSE p \in panes : \A q \in panes : p.no <= q.no

-----------------------------------------------------------------------------
(* The calls; Arg is a pane that was listed before, or none.               *)
Known == panes \cup {defaultPane}

(* Operations on an agent that runs, which is known by its name.           *)
AgentOps == {"agentPrompt", "agentKeys", "agentWait"}

Begin(w) ==
    /\ pc[w] = "idle"
    /\ \E o \in Ops[w] \ {"cleanup"}, p \in Known \cup {NoPane} :
          /\ o \in {"createWorkspace", "query"} \cup AgentOps => p = NoPane
          /\ o = "closeWorkspace" => p # NoPane
          /\ call' = [call EXCEPT ![w] = [op |-> o, arg |-> p]]
          /\ Ensure(w, IF o = "run" THEN "target" ELSE o)
    /\ UNCHANGED <<remote, fields, mu, polls, target, ranIn>>

(* The end of a call: it returns, with an error unless pc is "ok".         *)
Return(w) ==
    /\ pc[w] \in {"ok", "query", "agentGet", "failed", "paneGone"}
    /\ pc' = [pc EXCEPT ![w] = "idle"]
    /\ after' = [after EXCEPT ![w] = "ok"]
    /\ call' = [call EXCEPT ![w] = NoCall]
    /\ polls' = [polls EXCEPT ![w] = 0]
    /\ target' = [target EXCEPT ![w] = NoPane]
    /\ ranIn' = [ranIn EXCEPT ![w] = <<>>]
    /\ UNCHANGED <<remote, fields, mu>>

(* CleanupSession, under m.mu.  Only a named session is stopped.           *)
Cleanup(w) ==
    /\ pc[w] = "idle" /\ "cleanup" \in Ops[w] /\ mu = Free
    /\ \/ /\ Named
          /\ server' = "down" /\ panes' = {}
       \/ UNCHANGED <<server, panes>>     \* unnamed, or the exchange failed
    /\ initialized' = FALSE
    /\ defaultPane' = NoPane
    /\ UNCHANGED <<installed, made, auto, agent, available, confirmed, mu, pc, after,
                   locals>>

-----------------------------------------------------------------------------
(* EnsureReady.                                                            *)
IsReady(w) ==
    /\ pc[w] = "ensure" /\ mu = Free
    /\ initialized /\ available
    /\ Goto(w, after[w])
    /\ UNCHANGED <<remote, fields, mu, locals>>

(* Mutant: EnsureReady does not hold m.mu.                                 *)
AcquireNothing(w) ==
    /\ pc[w] = "ensure" /\ mu = Free
    /\ ~(initialized /\ available)
    /\ Goto(w, "check")
    /\ UNCHANGED <<remote, fields, mu, locals>>

Acquire(w) ==
    /\ pc[w] = "ensure" /\ mu = Free
    /\ ~(initialized /\ available)
    /\ mu' = w
    /\ Goto(w, "check")
    /\ UNCHANGED <<remote, fields, locals>>

(* What comes after an error of EnsureReady.  It is ignored by RunInPane and
   remote_terminal_wait in their final ReadPane, by CloseWorkspace in its
   ListPanes, and by AgentPrompt and AgentWait in the calls that follow the
   prompt or the wait.  In the list for a second try RunInPane ignores it too,
   and returns the error of the first try.                                 *)
AfterError(w) ==
    IF after[w] = "agentRead" THEN Ensure(w, "agentGet")
    ELSE Goto(w, CASE after[w] \in {"ok", "listForDefault", "agentGet"} -> "ok"
                   [] after[w] = "listForRerun" -> "paneGone"
                   [] OTHER -> "failed")

(* Mutant: m.mu is not released on the error path.                         *)
NotReadyLocked(w) ==
    /\ initialized' = TRUE
    /\ mu' = mu
    /\ AfterError(w)

NotReady(w) ==
    /\ initialized' = TRUE
    /\ mu' = Free
    /\ AfterError(w)

CheckFound(w) ==
    /\ pc[w] \in {"check", "verify"} /\ installed
    /\ available' = TRUE
    /\ Goto(w, "snap")
    /\ UNCHANGED <<remote, initialized, defaultPane, confirmed, mu, locals>>

(* Not installed, or the answer is lost.                                   *)
CheckNotFound(w) ==
    /\ pc[w] = "check"
    /\ IF Bootstrap
       THEN Goto(w, "install") /\ UNCHANGED <<initialized, available, mu>>
       ELSE NotReady(w) /\ available' = FALSE
    /\ UNCHANGED <<remote, defaultPane, confirmed, locals>>

Install(w) ==
    /\ pc[w] = "install"
    /\ installed' = TRUE
    /\ Goto(w, "verify")
    /\ UNCHANGED <<server, panes, made, auto, agent, fields, mu, locals>>

InstallOrVerifyFails(w) ==
    /\ pc[w] \in {"install", "verify"}
    /\ available' = FALSE
    /\ NotReady(w)
    /\ UNCHANGED <<remote, defaultPane, confirmed, locals>>

(* A snapshot with a workspace: its focused or its first pane.             *)
SnapshotWithPanes(w) ==
    /\ pc[w] \in {"snap", "poll"} /\ server = "up" /\ panes # {}
    /\ defaultPane' \in panes
    /\ initialized' = TRUE /\ confirmed' = TRUE
    /\ mu' = Free
    /\ Goto(w, after[w])
    /\ UNCHANGED <<remote, available, locals>>

SnapshotEmpty(w) ==
    /\ pc[w] \in {"snap", "poll"} /\ server = "up" /\ panes = {}
    /\ confirmed' = TRUE
    /\ Goto(w, "workspace")
    /\ UNCHANGED <<remote, initialized, available, defaultPane, mu, locals>>

(* No server, or the answer is lost.                                       *)
SnapFails(w) ==
    /\ pc[w] = "snap"
    /\ Goto(w, "start")
    /\ UNCHANGED <<remote, fields, mu, locals>>

StartServer(w) ==
    /\ pc[w] = "start"
    /\ \/ server = "down" /\ installed /\ server' = "starting"
       \/ UNCHANGED server
    /\ polls' = [polls EXCEPT ![w] = 0]
    /\ Goto(w, "poll")
    /\ UNCHANGED <<installed, panes, made, auto, agent, fields, mu, call, target, ranIn>>

(* Mutant: one round too many.                                             *)
PollFailsLate(w) ==
    /\ pc[w] = "poll"
    /\ polls' = [polls EXCEPT ![w] = @ + 1]
    /\ IF polls'[w] <= MaxPolls
       THEN Goto(w, "poll") /\ UNCHANGED <<initialized, mu>>
       ELSE NotReady(w)
    /\ UNCHANGED <<remote, available, defaultPane, confirmed, call, target, ranIn>>

PollFails(w) ==
    /\ pc[w] = "poll"
    /\ polls' = [polls EXCEPT ![w] = @ + 1]
    /\ IF polls'[w] < MaxPolls
       THEN Goto(w, "poll") /\ UNCHANGED <<initialized, mu>>
       ELSE NotReady(w)
    /\ UNCHANGED <<remote, available, defaultPane, confirmed, call, target, ranIn>>

(* "workspace create --label mcp-agent"; its failure is ignored.           *)
AutoWorkspace(w) ==
    /\ pc[w] = "workspace"
    /\ \/ /\ CreatesWorkspace
          /\ auto' = auto \cup {made + 1}
          /\ defaultPane' \in {NewPane(made + 1), defaultPane}
       \/ UNCHANGED <<panes, made, auto, defaultPane>>
    /\ initialized' = TRUE
    /\ mu' = Free
    /\ Goto(w, after[w])
    /\ UNCHANGED <<installed, server, agent, available, confirmed, locals>>

-----------------------------------------------------------------------------
(* RunInPane.  A "cd" that it types into the first pane it tries, whatever
   comes of it, is not modelled.                                           *)
Target(w) ==
    /\ pc[w] = "target"
    /\ Arg(w) = NoPane => mu = Free
    /\ LET p == IF Arg(w) # NoPane THEN Arg(w) ELSE defaultPane IN
       /\ target' = [target EXCEPT ![w] = p]
       /\ IF p = NoPane THEN Ensure(w, "listForTarget") ELSE Goto(w, "run")
    /\ UNCHANGED <<remote, fields, mu, call, polls, ranIn>>

(* ListPanes answers with a non-empty list.                                *)
Listed == server = "up" /\ panes # {}

ListForTarget(w) ==
    /\ pc[w] = "listForTarget" /\ Listed
    /\ target' = [target EXCEPT ![w] = FirstPane]
    /\ Goto(w, "run")
    /\ UNCHANGED <<remote, fields, mu, call, polls, ranIn>>

ListForTargetFails(w) ==
    /\ pc[w] = "listForTarget"
    /\ Goto(w, "failed")
    /\ UNCHANGED <<remote, fields, mu, locals>>

(* Mutant: a lost answer is retried like a missing pane.                   *)
RunRetried(w) ==
    /\ pc[w] \in {"run", "rerun"} /\ target[w] \in panes
    /\ ranIn' = [ranIn EXCEPT ![w] = Append(@, target[w])]
    /\ Ensure(w, "ok") \/ Ensure(w, "listForRerun")
    /\ UNCHANGED <<remote, fields, mu, call, polls, target>>

(* The command reaches the pane; ReadPane follows when the answer arrives. *)
Run(w) ==
    /\ pc[w] \in {"run", "rerun"} /\ target[w] \in panes
    /\ ranIn' = [ranIn EXCEPT ![w] = Append(@, target[w])]
    /\ Ensure(w, "ok") \/ Goto(w, "failed")
    /\ UNCHANGED <<remote, fields, mu, call, polls, target>>

(* The answer is lost before the command is carried out, or no server.     *)
RunFails(w) ==
    /\ pc[w] \in {"run", "rerun"}
    /\ Goto(w, "failed")
    /\ UNCHANGED <<remote, fields, mu, locals>>

(* Mutants: no other pane is looked up; one is looked up even for a pane
   that the caller named.                                                  *)
RunNotFoundFails(w) ==
    /\ pc[w] = "run" /\ server = "up" /\ target[w] \notin panes
    /\ Goto(w, "paneGone")
    /\ UNCHANGED <<remote, fields, mu, locals>>

RunNotFoundAnyPane(w) ==
    /\ pc[w] = "run" /\ server = "up" /\ target[w] \notin panes
    /\ Ensure(w, "listForRerun")
    /\ UNCHANGED <<remote, fields, mu, locals>>

(* pane_not_found: another pane is looked up if the caller named none.     *)
RunNotFound(w) ==
    /\ pc[w] = "run" /\ server = "up" /\ target[w] \notin panes
    /\ IF Arg(w) = NoPane THEN Ensure(w, "listForRerun") ELSE Goto(w, "paneGone")
    /\ UNCHANGED <<remote, fields, mu, locals>>

ListForRerun(w) ==
    /\ pc[w] = "listForRerun" /\ Listed
    /\ target' = [target EXCEPT ![w] = FirstPane]
    /\ Goto(w, "setDefault")
    /\ UNCHANGED <<remote, fields, mu, call, polls, ranIn>>

(* The list is empty or cannot be had: the error of the first try is returned. *)
ListForRerunFails(w) ==
    /\ pc[w] = "listForRerun"
    /\ Goto(w, "paneGone")
    /\ UNCHANGED <<remote, fields, mu, locals>>

SetDefault(w) ==
    /\ pc[w] = "setDefault" /\ mu = Free
    /\ defaultPane' = target[w]
    /\ Goto(w, "rerun")
    /\ UNCHANGED <<remote, initialized, available, confirmed, mu, locals>>

RerunNotFound(w) ==
    /\ pc[w] = "rerun" /\ server = "up" /\ target[w] \notin panes
    /\ Goto(w, "paneGone")
    /\ UNCHANGED <<remote, fields, mu, locals>>

-----------------------------------------------------------------------------
(* The other operations.  The exchange is carried out and answered, carried
   out with the answer lost, or not carried out.                           *)
CloseWorkspace(w) ==
    /\ pc[w] = "closeWorkspace"
    /\ \/ /\ server = "up" /\ \E p \in panes : p.ws = Arg(w).ws
          /\ panes' = {p \in panes : p.ws # Arg(w).ws}
          /\ Goto(w, "clearDefault") \/ Goto(w, "failed")
       \/ UNCHANGED panes /\ Goto(w, "failed")
    /\ UNCHANGED <<installed, server, made, auto, agent, fields, mu, locals>>

ClearDefault(w) ==
    /\ pc[w] = "clearDefault" /\ mu = Free
    /\ defaultPane' = IF defaultPane # NoPane /\ defaultPane.ws = Arg(w).ws
                      THEN NoPane ELSE defaultPane
    /\ Ensure(w, "listForDefault")
    /\ UNCHANGED <<remote, initialized, available, confirmed, mu, locals>>

ListForDefault(w) ==
    /\ pc[w] = "listForDefault"
    /\ \/ Listed /\ target' = [target EXCEPT ![w] = FirstPane] /\ Goto(w, "newDefault")
       \/ UNCHANGED target /\ Goto(w, "ok")
    /\ UNCHANGED <<remote, fields, mu, call, polls, ranIn>>

CreateWorkspace(w) ==
    /\ pc[w] = "createWorkspace"
    /\ \/ /\ CreatesWorkspace
          /\ \/ /\ target' = [target EXCEPT ![w] = NewPane(made + 1)]
                /\ Goto(w, "newDefault")
             \/ UNCHANGED target /\ Goto(w, "failed")
       \/ UNCHANGED <<panes, made, target>> /\ Goto(w, "failed")
    /\ UNCHANGED <<installed, server, auto, agent, fields, mu, call, polls, ranIn>>

NewDefault(w) ==
    /\ pc[w] = "newDefault" /\ mu = Free
    /\ defaultPane' = target[w]
    /\ Goto(w, "ok")
    /\ UNCHANGED <<remote, initialized, available, confirmed, mu, locals>>

(* SplitPane reads defaultPaneID without m.mu; a read that races with a
   write yields a pane ID that no server knows.                            *)
Split(w) ==
    /\ pc[w] = "split"
    /\ LET p == IF Arg(w) # NoPane THEN Arg(w) ELSE defaultPane IN
       \/ /\ server = "up" /\ made < MaxPanes
          /\ \E q \in IF p = NoPane THEN panes ELSE panes \cap {p} :
                panes' = panes \cup {NewPane(q.ws)}
          /\ made' = made + 1
          /\ \E r \in {"ok", "failed"} : Goto(w, r)
       \/ UNCHANGED <<panes, made>> /\ Goto(w, "failed")
    /\ UNCHANGED <<installed, server, auto, agent, fields, mu, locals>>

(* The default pane is kept even when it is the one that is closed.        *)
ClosePane(w) ==
    /\ pc[w] = "closePane"
    /\ Arg(w) = NoPane => mu = Free
    /\ LET p == IF Arg(w) # NoPane THEN Arg(w) ELSE defaultPane IN
       \/ /\ server = "up" /\ p \in panes
          /\ panes' = panes \ {p}
          /\ \E r \in {"ok", "failed"} : Goto(w, r)
       \/ UNCHANGED panes /\ Goto(w, "failed")
    /\ UNCHANGED <<installed, server, made, auto, agent, fields, mu, locals>>

-----------------------------------------------------------------------------
(* Keys, text and new agents go to the pane of the call or to the default,
   which is read once; there is no second try in another pane.  Likewise the
   wait for output.                                                        *)
Resolve(w) ==
    /\ pc[w] \in {"send", "agentStart", "wait"}
    /\ Arg(w) = NoPane => mu = Free
    /\ target' = [target EXCEPT ![w] = IF Arg(w) # NoPane THEN Arg(w) ELSE defaultPane]
    /\ Goto(w, IF pc[w] = "wait" THEN "waitOutput" ELSE "type")
    /\ UNCHANGED <<remote, fields, mu, call, polls, ranIn>>

(* SendKeys, SendText, AgentStart.                                         *)
Type(w) ==
    /\ pc[w] = "type" /\ target[w] \in panes
    /\ ranIn' = [ranIn EXCEPT ![w] = Append(@, target[w])]
    /\ agent' = IF call[w].op = "agentStart" THEN target[w] ELSE agent
    /\ \E r \in {"ok", "failed"} : Goto(w, r)
    /\ UNCHANGED <<installed, server, panes, made, auto, fields, mu, call, polls, target>>

(* WaitOutput; then ReadPane, which looks up the default pane once more.   *)
WaitOutput(w) ==
    /\ pc[w] = "waitOutput" /\ target[w] \in panes
    /\ Ensure(w, "ok")
    /\ UNCHANGED <<remote, fields, mu, locals>>

(* AgentPrompt, AgentSendKeys.                                             *)
TypeToAgent(w) ==
    /\ pc[w] \in {"agentPrompt", "agentKeys"} /\ agent \in panes
    /\ ranIn' = [ranIn EXCEPT ![w] = Append(@, agent)]
    /\ \/ IF pc[w] = "agentPrompt" THEN Ensure(w, "agentRead") ELSE Goto(w, "ok")
       \/ Goto(w, "failed")
    /\ UNCHANGED <<remote, fields, mu, call, polls, target>>

AgentWait(w) ==
    /\ pc[w] = "agentWait" /\ agent \in panes
    /\ Ensure(w, "agentGet")
    /\ UNCHANGED <<remote, fields, mu, locals>>

(* No server, no such pane or agent, the time is up, or the exchange fails
   before it is carried out.                                               *)
RefusedByServer(w) ==
    /\ pc[w] \in {"type", "waitOutput"} \cup AgentOps
    /\ Goto(w, "failed")
    /\ UNCHANGED <<remote, fields, mu, locals>>

(* AgentPrompt reads what the agent has written, whatever comes of it.     *)
AgentRead(w) ==
    /\ pc[w] = "agentRead"
    /\ Ensure(w, "agentGet")
    /\ UNCHANGED <<remote, fields, mu, locals>>

-----------------------------------------------------------------------------
(* The host.                                                               *)
ServerUp ==
    /\ server = "starting"
    /\ server' = "up"
    /\ UNCHANGED <<installed, panes, made, auto, agent, fields, mu, pc, after, locals>>

ServerDies ==
    /\ Outside /\ server # "down"
    /\ server' = "down" /\ panes' = {}
    /\ UNCHANGED <<installed, made, auto, agent, fields, mu, pc, after, locals>>

PaneExits ==
    /\ Outside
    /\ \E p \in panes : panes' = panes \ {p}
    /\ UNCHANGED <<installed, server, made, auto, agent, fields, mu, pc, after, locals>>

-----------------------------------------------------------------------------
EnsureReady(w) ==
    \/ IsReady(w) \/ Acquire(w) \/ CheckFound(w) \/ CheckNotFound(w) \/ Install(w)
    \/ InstallOrVerifyFails(w) \/ SnapshotWithPanes(w) \/ SnapshotEmpty(w)
    \/ SnapFails(w) \/ StartServer(w) \/ PollFails(w) \/ AutoWorkspace(w)

RunInPane(w) ==
    \/ Target(w) \/ ListForTarget(w) \/ ListForTargetFails(w) \/ Run(w)
    \/ RunFails(w) \/ RunNotFound(w) \/ ListForRerun(w) \/ ListForRerunFails(w)
    \/ SetDefault(w) \/ RerunNotFound(w)

TypeInPane(w) == Resolve(w) \/ Type(w) \/ WaitOutput(w)

UseAgent(w) == TypeToAgent(w) \/ AgentWait(w) \/ AgentRead(w)

Advance(w) ==
    \/ EnsureReady(w) \/ RunInPane(w) \/ CloseWorkspace(w) \/ ClearDefault(w)
    \/ ListForDefault(w) \/ CreateWorkspace(w) \/ NewDefault(w) \/ Split(w)
    \/ ClosePane(w) \/ TypeInPane(w) \/ UseAgent(w) \/ RefusedByServer(w) \/ Return(w)

Next == \/ \E w \in Callers : Begin(w) \/ Cleanup(w) \/ Advance(w)
        \/ ServerUp \/ ServerDies \/ PaneExits

Spec == Init /\ [][Next]_vars

(* Goroutines run, a waiting locker of m.mu gets it in the end, and every
   ExecRaw returns because the host answers or the connection breaks.      *)
Fairness == \A w \in Callers : SF_vars(Advance(w))

LiveSpec == Spec /\ Fairness

-----------------------------------------------------------------------------
(* Properties.                                                             *)

(* A call types its command, text, keys or prompt at most once, although
   RunInPane retries: it only does so after an answer that the pane does not
   exist.                                                                  *)
CommandTypedOnce == \A w \in Callers : Len(ranIn[w]) <= 1

(* What is meant for a named pane is never typed into another one.         *)
NamedPaneOnly ==
    \A w \in Callers : Arg(w) # NoPane => Elems(ranIn[w]) \subseteq {Arg(w)}

(* However often and by whomever EnsureReady is called again, the session
   never holds two of the workspaces it creates.                           *)
OneAutoWorkspace == Cardinality(auto \cap {p.ws : p \in panes}) <= 1

(* Of one caller on a host nobody else uses: a command without a pane fails
   with pane_not_found only when the remembered pane is gone and no list of
   the panes can be had or it is empty; the second try never meets a missing
   pane.  Where such a command runs is what the manager remembers, so that
   the next one follows it.                                                *)
StaleDefaultRecovers ==
    [][\A w \in Callers : Arg(w) = NoPane =>
          /\ pc'[w] = "paneGone" => pc[w] \in {"listForRerun", "paneGone"}
          /\ pc[w] \in {"run", "rerun"} /\ ranIn'[w] # ranIn[w] =>
                defaultPane \in {NoPane, target[w]}]_vars

(* Every call returns; the wait for a server ends.                         *)
CallsReturn == \A w \in Callers : pc[w] # "idle" ~> pc[w] = "idle"

(* EnsureReady ensures a running server: it returns nil only after it has
   seen one.                                                               *)
ReadyMeansServer ==
    \A w \in Callers : pc[w] \in {"target", "closeWorkspace", "createWorkspace",
                                  "split", "closePane", "send", "wait",
                                  "agentStart", "query"} \cup AgentOps => confirmed
=============================================================================
