------------------------- MODULE TasksFutureProofs -------------------------
(***************************************************************************)
(* For any number of callers and commands: the registry and its goroutines *)
(* implement TaskFuture.  Beyond the invariant of TasksProofs this needs   *)
(* that a command that has a number has been started, and that only a      *)
(* caller that has been told that the command goes on leaves a collector   *)
(* behind.                                                                 *)
(***************************************************************************)
EXTENDS TasksProofs

FutureInv ==
    /\ \A t \in Tasks : t <= started => proc[t] # "none"
    /\ \A t \in Tasks : collector[t] # "none" => answer[t] = Async

LEMMA FutureInvariance == Spec => [](IInv /\ FutureInv)
<1>1. Init => FutureInv
  BY TasksAssumption DEF Init, FutureInv, Tasks
<1>2. IInv /\ FutureInv /\ [Next]_vars => FutureInv'
  <2> SUFFICES ASSUME IInv, FutureInv, [Next]_vars PROVE FutureInv'
    OBVIOUS
  <2> USE DEF IInv, FutureInv
  <2>1. ASSUME NEW w \in Callers, StartCommand(w) PROVE FutureInv'
    BY <2>1 DEF StartCommand, registry, finish, TypeOK, Tasks, CollectInv
  <2>2. ASSUME NEW w \in Callers, Daemon(w) \/ SelectTimeout(w) PROVE FutureInv'
    BY <2>2 DEF Daemon, SelectTimeout, Return, outcome, TypeOK
  <2>3. ASSUME NEW w \in Callers, FinishForeground(w) PROVE FutureInv'
    <3>1. collector[task[w]] = "none"
      BY <2>3 DEF FinishForeground, OwnerInv, Owns
    <3> QED
      BY <2>3, <3>1 DEF FinishForeground, Return, outcome, TypeOK
  <2>4. ASSUME NEW w \in Callers, KillSignal(w) PROVE FutureInv'
    BY <2>4 DEF KillSignal, SessionEnds, registry, finish, outcome, TypeOK
  <2>5. ASSUME NEW t \in Tasks, Collect(t) PROVE FutureInv'
    BY <2>5 DEF Collect, CollectDone, CollectClose, CollectCode, registry,
        outcome, TypeOK
  <2>6. ASSUME NEW t \in Tasks, Environment(t) PROVE FutureInv'
    BY <2>6 DEF Environment, CommandEnds, SessionLost, SessionEnds, registry,
        finish, TypeOK
  <2>7. ASSUME NEW w \in Callers,
               StartFails(w) \/ KillCheck(w) \/ AddID(w) \/ Insert(w) \/ SelectDone(w)
        PROVE  FutureInv'
    BY <2>7 DEF StartFails, KillCheck, AddID, Insert, SelectDone, vars,
        registry, finish, outcome
  <2>8. CASE UNCHANGED vars
    BY <2>8 DEF vars, registry, finish, outcome
  <2> QED
    BY <2>1, <2>2, <2>3, <2>4, <2>5, <2>6, <2>7, <2>8 DEF Next, Begin, Advance
<1> QED
  BY <1>1, <1>2, InitIInv, NextIInv, PTL DEF Spec

-----------------------------------------------------------------------------
(* The parts of the future that a step changes.                            *)
States == [t \in Tasks |-> FutureState(t)]
Listed == {t \in Tasks : id[t] # 0 /\ tasks[id[t]] = t}

LEMMA StateUnchanged ==
    ASSUME UNCHANGED outcome PROVE UNCHANGED <<code, States>>
  BY DEF States, FutureState, Evident, outcome

(* The step of a command to p is one of its future.                        *)
LEMMA StateChanged ==
    ASSUME TypeOK, NEW u \in Tasks, NEW p, proc' = [proc EXCEPT ![u] = p],
           \A t \in Tasks \ {u} : /\ code'[t] = code[t] /\ mark'[t] = mark[t]
                                 /\ status'[t] = status[t]
    PROVE  States' = [States EXCEPT ![u] = FutureState(u)']
<1>1. \A t \in Tasks \ {u} : FutureState(t)' = FutureState(t)
  BY DEF FutureState, Evident, TypeOK
<1>2. States'[u] = FutureState(u)' /\ \A t \in Tasks \ {u} : States'[t] = States[t]
  BY <1>1 DEF States
<1> QED
  BY <1>2 DEF States

LEMMA ListedUnchanged ==
    ASSUME UNCHANGED registry PROVE UNCHANGED Listed
  BY DEF Listed, registry

(* A caller that waits for its command has made the entry for it.          *)
LEMMA WaitingIsListed ==
    ASSUME IInv, NEW w \in Callers, pc[w] \in {"daemon", "select"}
    PROVE  task[w] \in Listed
<1>1. /\ task[w] \in Tasks /\ task[w] \in 1 .. started
      /\ \A v \in Callers : Owns(v) /\ task[v] = task[w] => v = w
  BY DEF IInv, OwnerInv, Owns
<1>2. \A v \in Callers : pc[v] \in {"addID", "insert"} => task[v] # task[w]
  BY <1>1 DEF Owns
<1>3. id[task[w]] # 0
  BY <1>1, <1>2 DEF IInv, IdInv
<1> QED
  BY <1>1, <1>2, <1>3 DEF IInv, RegInv, Listed

-----------------------------------------------------------------------------
LEMMA InitFuture == Init => Future!Init
  BY DEF Init, Future!Init, FutureState, NoAnswer

LEMMA NextFuture ==
    IInv /\ FutureInv /\ [Next]_vars => [Future!Next]_(Future!futureVars)
<1> SUFFICES ASSUME IInv, FutureInv, [Next]_vars
             PROVE  [Future!Next]_(Future!futureVars)
  OBVIOUS
<1>1. ASSUME NEW w \in Callers, StartCommand(w) PROVE Future!Next
  <2>1. PICK t \in Tasks : t = started + 1
    BY <1>1, TasksAssumption DEF StartCommand, IInv, TypeOK, Tasks
  <2>2. proc[t] = "none" /\ proc' = [proc EXCEPT ![t] = "running"]
    BY <1>1, <2>1 DEF StartCommand, IInv, TypeOK, CollectInv
  <2>3. FutureState(t) = "unborn" /\ FutureState(t)' = "pending"
    BY <2>2 DEF FutureState, IInv, TypeOK
  <2>4. UNCHANGED <<code, Listed, answer, closes>>
    BY <1>1, ListedUnchanged DEF StartCommand, finish
  <2>5. States' = [States EXCEPT ![t] = "pending"] /\ States[t] = "unborn"
    BY <1>1, <2>1, <2>2, <2>3, StateChanged DEF StartCommand, IInv, States
  <2> QED
    BY <2>1, <2>4, <2>5 DEF States, Listed, Future!Begin, Future!Next
<1>2. ASSUME NEW w \in Callers, AddID(w) \/ Insert(w)
      PROVE  [Future!Next]_(Future!futureVars)
  <2> DEFINE t == task[w]
  <2>1. t \in Tasks /\ t <= started
    BY <1>2 DEF AddID, Insert, IInv, OwnerInv, Owns
  <2>2. States[t] # "unborn"
    BY <2>1 DEF FutureInv, FutureState, States
  <2>3. UNCHANGED <<code, States, answer, closes>>
    BY <1>2, StateUnchanged DEF AddID, Insert, finish
  <2>4. Listed' = Listed \/ Listed' = Listed \cup {t}
    <3>1. CASE AddID(w)
      <4>1. id[t] = 0
        BY <3>1 DEF AddID, IInv, OwnerInv
      <4> QED
        BY <2>1, <3>1, <4>1 DEF AddID, Listed, IInv, TypeOK
    <3>2. CASE Insert(w)
      <4>1. \A u \in Tasks : id[u] = id[t] /\ id[u] # 0 => u = t
        BY <2>1 DEF IInv, IdInv
      <4>2. tasks' = [tasks EXCEPT ![id[t]] = t] /\ UNCHANGED id
        BY <3>2 DEF Insert
      <4> QED
        BY <2>1, <4>1, <4>2 DEF Listed, IInv, TypeOK, Tasks
    <3> QED
      BY <1>2, <3>1, <3>2
  <2> QED
    BY <2>1, <2>2, <2>3, <2>4 DEF States, Listed, Future!List, Future!Next,
        Future!futureVars
<1>3. ASSUME NEW w \in Callers, Daemon(w) \/ SelectTimeout(w) PROVE Future!Next
  <2> DEFINE t == task[w]
  <2>1. t \in Tasks /\ answer[t].kind = "none" /\ t \in Listed
    BY <1>3, WaitingIsListed DEF Daemon, SelectTimeout, IInv, OwnerInv, Owns,
        NoAnswer
  <2>2. answer' = [answer EXCEPT ![t] = Async]
    BY <1>3 DEF Daemon, SelectTimeout, Return
  <2>3. UNCHANGED <<code, States, Listed, closes>>
    BY <1>3, StateUnchanged, ListedUnchanged DEF Daemon, SelectTimeout
  <2> QED
    BY <2>1, <2>2, <2>3 DEF Async, States, Listed, Future!Ticket, Future!Next
<1>4. ASSUME NEW w \in Callers, FinishForeground(w) PROVE Future!Next
  <2> DEFINE t == task[w]
             c == ForegroundCode(t)
  <2>1. /\ t \in Tasks /\ answer[t].kind = "none"
        /\ proc[t] = "ended" /\ closes[t] = 0
    BY <1>4 DEF FinishForeground, IInv, OwnerInv, Owns, NoAnswer
  <2>2. States[t] \in {"ended", "lost"}
    BY <2>1 DEF States, FutureState
  <2>3. c \in Codes /\ (States[t] = "ended" => c = code[t])
    <3>1. /\ mark[t] \in Codes \cup {NoCode} /\ status[t] \in Codes \cup {NoCode}
          /\ NoCode \notin Codes /\ 0 \in Codes
      BY <2>1, TasksAssumption DEF IInv, TypeOK, NoCode
    <3>2. c \in Codes /\ (Evident(t) => c = code[t])
      BY <3>1 DEF ForegroundCode, Evident
    <3> QED
      BY <2>1, <3>2 DEF States, FutureState
  <2>4. answer' = [answer EXCEPT ![t] = [kind |-> "done", code |-> c]]
    BY <1>4 DEF FinishForeground, Return
  <2>5. closes' = [closes EXCEPT ![t] = 1]
    BY <1>4, <2>1 DEF FinishForeground, IInv, TypeOK
  <2>6. UNCHANGED <<code, States, Listed>>
    BY <1>4, StateUnchanged, ListedUnchanged DEF FinishForeground
  <2> HIDE DEF c
  <2> QED
    BY <2>1, <2>2, <2>3, <2>4, <2>5, <2>6 DEF States, Listed, Future!Settled,
        Future!Answer, Future!Next
<1>5. ASSUME NEW t \in Tasks, CollectClose(t) PROVE Future!Next
  <2>0. collector[t] = "close" /\ closes' = [closes EXCEPT ![t] = closes[t] + 1]
    BY <1>5 DEF CollectClose
  <2>1. answer[t] = Async /\ closes[t] = 0 /\ proc[t] = "ended"
    BY <2>0 DEF IInv, CollectInv, FutureInv
  <2>2. States[t] \in {"ended", "lost"}
    BY <2>1 DEF States, FutureState
  <2>3. UNCHANGED <<code, States, Listed, answer>>
    BY <1>5, StateUnchanged, ListedUnchanged DEF CollectClose
  <2>4. answer[t].kind = "async" /\ closes' = [closes EXCEPT ![t] = 1]
    BY <2>0, <2>1 DEF Async
  <2> QED
    BY <2>1, <2>2, <2>3, <2>4 DEF States, Listed, Future!Settled,
        Future!Announce, Future!Next
<1>6. ASSUME NEW t \in Tasks, NEW c \in Codes \cup {NoCode},
             NEW m \in Codes \cup {NoCode}, NEW e \in Codes \cup {NoCode},
             SessionEnds(t, c, m, e), UNCHANGED <<registry, answer, closes>>
      PROVE  Future!Next
  <2>1. States[t] = "pending"
    BY <1>6 DEF SessionEnds, States, FutureState
  <2>2. proc' = [proc EXCEPT ![t] = "ended"] /\ code' = [code EXCEPT ![t] = c]
    BY <1>6 DEF SessionEnds
  <2>3. FutureState(t)' \in {"ended", "lost"}
    BY <2>2 DEF FutureState, IInv, TypeOK
  <2>4. FutureState(t)' = "ended" => c \in Codes
    BY <2>2 DEF FutureState, Evident, IInv, TypeOK
  <2>5. States' = [States EXCEPT ![t] = FutureState(t)']
    BY <1>6, StateChanged DEF SessionEnds, IInv, TypeOK
  <2>6. UNCHANGED <<Listed, answer, closes>>
    BY <1>6, ListedUnchanged
  <2>7. \/ /\ States' = [States EXCEPT ![t] = "ended"]
           /\ \E d \in Codes : code' = [code EXCEPT ![t] = d]
        \/ /\ States' = [States EXCEPT ![t] = "lost"]
           /\ \E d \in Codes \cup {NoCode} : code' = [code EXCEPT ![t] = d]
    BY <2>2, <2>3, <2>4, <2>5
  <2> QED
    BY <2>1, <2>6, <2>7 DEF States, Listed, Future!Settle, Future!Next
<1>7. ASSUME NEW t \in Tasks, Environment(t) PROVE Future!Next
  BY <1>6, <1>7 DEF Environment, CommandEnds, SessionLost, finish
<1>8. ASSUME NEW w \in Callers, KillSignal(w) PROVE [Future!Next]_(Future!futureVars)
  <2>1. task[w] \in Tasks /\ UNCHANGED <<registry, answer, closes>>
    BY <1>8 DEF KillSignal, finish, IInv, OwnerInv
  <2>2. CASE UNCHANGED outcome
    BY <2>1, <2>2, StateUnchanged, ListedUnchanged DEF States, Listed,
        Future!futureVars
  <2>3. ASSUME NEW s \in {NoCode} \cup (Codes \ {0}), SessionEnds(task[w], s, NoCode, s)
        PROVE  Future!Next
    BY <1>6, <2>1, <2>3
  <2> QED
    BY <1>8, <2>2, <2>3 DEF KillSignal
<1>9. ASSUME UNCHANGED <<outcome, registry, answer, closes>>
      PROVE  UNCHANGED Future!futureVars
  BY <1>9, StateUnchanged, ListedUnchanged DEF States, Listed, Future!futureVars
<1>10. ASSUME NEW w \in Callers,
              StartFails(w) \/ KillCheck(w) \/ SelectDone(w)
       PROVE  UNCHANGED Future!futureVars
  BY <1>9, <1>10 DEF StartFails, KillCheck, SelectDone, vars, finish
<1>11. ASSUME NEW t \in Tasks, CollectDone(t) \/ CollectCode(t)
       PROVE  UNCHANGED Future!futureVars
  BY <1>9, <1>11 DEF CollectDone, CollectCode
<1>12. CASE UNCHANGED vars
  BY <1>9, <1>12 DEF vars, finish
<1> QED
  BY <1>1, <1>2, <1>3, <1>4, <1>5, <1>7, <1>8, <1>10, <1>11, <1>12 DEF Next,
      Begin, Advance, Collect

(* A command is a future to those who use it: settled, announced and told
   once and in this order, whatever the callers, the collectors and the
   remote host do.                                                         *)
THEOREM TasksImplementFuture == Spec => FutureImplemented
<1>1. Init => Future!Init
  BY InitFuture
<1>2. IInv /\ FutureInv /\ [Next]_vars => [Future!Next]_(Future!futureVars)
  BY NextFuture
<1> QED
  BY <1>1, <1>2, FutureInvariance, PTL DEF Spec, FutureImplemented, Future!Spec
=============================================================================
