----------------------------- MODULE TasksProofs -----------------------------
(***************************************************************************)
(* Proofs about Tasks for any number of callers and commands: the safety   *)
(* of the registry, of the completion of a task and of the exit code that  *)
(* a caller gets.                                                          *)
(***************************************************************************)
EXTENDS Tasks, FiniteSetTheorems, TLAPS

(* The call of w is RunCommand, and the task is still its own.             *)
Owns(w) == pc[w] \in {"addID", "insert", "daemon", "select", "finish"}

(* A task that a RunCommand owns has no other owner, no collector, and has
   not been closed or reported.                                            *)
OwnerInv ==
    \A w \in Callers :
        /\ pc[w] # "idle" => task[w] \in Tasks
        /\ Owns(w) =>
              /\ task[w] \in 1 .. started
              /\ collector[task[w]] = "none" /\ closes[task[w]] = 0
              /\ answer[task[w]] = NoAnswer
              /\ \A v \in Callers : Owns(v) /\ task[v] = task[w] => v = w
        /\ pc[w] = "finish" => proc[task[w]] = "ended"
        /\ pc[w] = "addID" => id[task[w]] = 0

(* The collector closes DoneChan once, after the end of the command.       *)
CollectInv ==
    \A t \in Tasks :
        /\ closes[t] <= 1
        /\ collector[t] \in {"wait", "close"} => closes[t] = 0
        /\ collector[t] \in {"close", "code", "end"} => proc[t] = "ended"
        /\ t > started => /\ closes[t] = 0 /\ collector[t] = "none"
                          /\ answer[t] = NoAnswer /\ id[t] = 0
                          /\ proc[t] = "none"

(* Numbers that have been drawn are distinct, and as many as the counter
   says.                                                                   *)
Drawn == {t \in Tasks : id[t] # 0}
IdInv ==
    /\ nextID = Cardinality(Drawn)
    /\ \A t \in Tasks : id[t] <= nextID
    /\ \A t, u \in Tasks : id[t] = id[u] /\ id[t] # 0 => t = u
    /\ \A t \in 1 .. started : id[t] = 0 =>
          \E w \in Callers : pc[w] = "addID" /\ task[w] = t

(* Between the drawing of its number and the entry a task cannot be found. *)
RegInv ==
    \A t \in Tasks : id[t] # 0 /\ (\A w \in Callers : pc[w] = "insert" => task[w] # t)
                        => tasks[id[t]] = t

(* What is completed or reported as done has ended.                        *)
CodeInv ==
    /\ CompletedMeansEnded
    /\ ForegroundCodeFaithful
    /\ \A t \in Tasks : answer[t].kind = "done" => proc[t] = "ended"

IInv == TypeOK /\ OwnerInv /\ CollectInv /\ IdInv /\ RegInv /\ CodeInv

-----------------------------------------------------------------------------
LEMMA TasksFinite ==
    /\ IsFiniteSet(Tasks) /\ Cardinality(Tasks) = MaxTasks
    /\ \A S \in SUBSET Tasks : /\ IsFiniteSet(S) /\ Cardinality(S) \in Nat
                                /\ Cardinality(S) <= MaxTasks
<1>1. IsFiniteSet(Tasks) /\ Cardinality(Tasks) = MaxTasks
  BY FS_Interval, TasksAssumption DEF Tasks
<1> QED
  BY <1>1, FS_Subset, FS_CardinalityType

(* A task that gets a number makes one more that has one.                  *)
LEMMA OneMoreDrawn ==
    ASSUME TypeOK, IdInv, NEW t \in Tasks, id[t] = 0,
           id' = [id EXCEPT ![t] = nextID + 1]
    PROVE  /\ Cardinality(Drawn') = Cardinality(Drawn) + 1
           /\ nextID + 1 <= MaxTasks
<1>1. Drawn' = Drawn \cup {t} /\ t \notin Drawn
  BY DEF Drawn, TypeOK
<1>2. Drawn \in SUBSET Tasks /\ Drawn' \in SUBSET Tasks
  BY DEF Drawn
<1>3. Cardinality(Drawn \cup {t}) = Cardinality(Drawn) + 1
  BY <1>1, <1>2, TasksFinite, FS_AddElement
<1> QED
  BY <1>1, <1>2, <1>3, TasksFinite DEF IdInv

LEMMA InitIInv == Init => IInv
<1> SUFFICES ASSUME Init PROVE IInv
  OBVIOUS
<1>1. TypeOK
  BY TasksAssumption DEF Init, TypeOK, Answers, NoAnswer
<1>2. OwnerInv /\ CollectInv
  BY DEF Init, OwnerInv, Owns, CollectInv
<1>3. IdInv
  <2>1. Drawn = {}
    BY DEF Init, Drawn
  <2> QED
    BY <2>1, FS_EmptySet, TasksAssumption DEF Init, IdInv
<1>4. RegInv
  BY DEF Init, RegInv
<1>5. CodeInv
  BY DEF Init, CodeInv, CompletedMeansEnded, ForegroundCodeFaithful, Evident, NoAnswer
<1> QED
  BY <1>1, <1>2, <1>3, <1>4, <1>5 DEF IInv

(* Nothing is completed or reported while its command runs, so that the end
   of a command leaves CodeInv alone.                                      *)
LEMMA EndPreservesCode ==
    ASSUME TypeOK, CodeInv, NEW t \in Tasks, NEW c, NEW m, NEW s,
           SessionEnds(t, c, m, s), UNCHANGED <<completed, answer>>
    PROVE  CodeInv'
<1>1. /\ proc[t] = "running" /\ proc'[t] = "ended"
      /\ \A u \in Tasks \ {t} : /\ proc'[u] = proc[u] /\ code'[u] = code[u]
                                /\ mark'[u] = mark[u] /\ status'[u] = status[u]
  BY DEF SessionEnds, TypeOK
<1>2. ~completed[t] /\ answer[t].kind # "done"
  BY <1>1 DEF CodeInv, CompletedMeansEnded
<1> QED
  BY <1>1, <1>2 DEF CodeInv, CompletedMeansEnded, ForegroundCodeFaithful, Evident

(* IInv is inductive: one step per action, one per part of the invariant.  *)
LEMMA NextIInv == IInv /\ [Next]_vars => IInv'
<1> SUFFICES ASSUME IInv, [Next]_vars PROVE IInv'
  OBVIOUS
<1> USE TasksAssumption DEF IInv, outcome
<1>1. ASSUME NEW w \in Callers, StartCommand(w) PROVE IInv'
  <2>1. TypeOK'
    BY <1>1 DEF StartCommand, Goto, registry, finish, TypeOK, Tasks
  <2>2. OwnerInv'
    BY <1>1 DEF StartCommand, Goto, registry, finish, TypeOK, OwnerInv, Owns,
        CollectInv, Tasks
  <2>3. CollectInv'
    BY <1>1 DEF StartCommand, registry, finish, TypeOK, CollectInv, Tasks
  <2>4. IdInv'
    <3>1. Drawn' = Drawn
      BY <1>1 DEF StartCommand, registry, Drawn
    <3> QED
      BY <1>1, <3>1 DEF StartCommand, Goto, registry, TypeOK, IdInv
  <2>5. RegInv'
    BY <1>1 DEF StartCommand, Goto, registry, RegInv
  <2>6. CodeInv'
    BY <1>1 DEF StartCommand, finish, TypeOK, CollectInv, CodeInv,
        CompletedMeansEnded, ForegroundCodeFaithful, Evident
  <2> QED
    BY <2>1, <2>2, <2>3, <2>4, <2>5, <2>6
<1>2. ASSUME NEW w \in Callers, KillCheck(w) PROVE IInv'
  <2>1. TypeOK'
    <3>1. task' \in [Callers -> 0 .. MaxTasks]
      BY <1>2 DEF KillCheck, Registered, TypeOK
    <3> QED
      BY <1>2, <3>1 DEF KillCheck, Goto, registry, finish, TypeOK
  <2>2. OwnerInv'
    BY <1>2 DEF KillCheck, Goto, Registered, registry, finish, TypeOK,
        OwnerInv, Owns, CollectInv, Tasks
  <2>3. CollectInv'
    BY <1>2 DEF KillCheck, registry, finish, CollectInv
  <2>4. IdInv'
    <3>1. Drawn' = Drawn
      BY <1>2 DEF KillCheck, registry, Drawn
    <3> QED
      BY <1>2, <3>1 DEF KillCheck, Goto, registry, IdInv
  <2>5. RegInv'
    BY <1>2 DEF KillCheck, Goto, registry, RegInv
  <2>6. CodeInv'
    BY <1>2 DEF KillCheck, finish, CodeInv, CompletedMeansEnded,
        ForegroundCodeFaithful, Evident
  <2> QED
    BY <2>1, <2>2, <2>3, <2>4, <2>5, <2>6
<1>3. ASSUME NEW w \in Callers, AddID(w) PROVE IInv'
  <2>0. /\ task[w] \in Tasks /\ id[task[w]] = 0 /\ nextID \in Nat
        /\ id' = [id EXCEPT ![task[w]] = nextID + 1] /\ nextID' = nextID + 1
        /\ Cardinality(Drawn') = Cardinality(Drawn) + 1 /\ nextID + 1 <= MaxTasks
    <3>1. /\ task[w] \in Tasks /\ id[task[w]] = 0 /\ nextID \in Nat
          /\ id' = [id EXCEPT ![task[w]] = nextID + 1] /\ nextID' = nextID + 1
      BY <1>3 DEF AddID, OwnerInv, TypeOK
    <3>2. Cardinality(Drawn') = Cardinality(Drawn) + 1 /\ nextID + 1 <= MaxTasks
      BY <3>1, OneMoreDrawn
    <3> QED
      BY <3>1, <3>2
  <2>1. TypeOK'
    BY <1>3, <2>0 DEF AddID, Goto, finish, TypeOK
  <2>2. OwnerInv'
    BY <1>3, <2>0 DEF AddID, Goto, finish, TypeOK, OwnerInv, Owns
  <2>3. CollectInv'
    BY <1>3, <2>0 DEF AddID, finish, TypeOK, OwnerInv, Owns, CollectInv
  <2>4. IdInv'
    <3>1. nextID' = Cardinality(Drawn')
      BY <2>0 DEF IdInv
    <3>2. \A t \in Tasks : id'[t] <= nextID'
      BY <2>0 DEF TypeOK, IdInv
    <3>3. \A t, u \in Tasks : id'[t] = id'[u] /\ id'[t] # 0 => t = u
      BY <2>0 DEF IdInv
    <3>4. ASSUME NEW t \in 1 .. started', id'[t] = 0
          PROVE  \E v \in Callers : pc'[v] = "addID" /\ task'[v] = t
      <4>1. t \in Tasks /\ t \in 1 .. started
        BY <1>3 DEF AddID, TypeOK, Tasks
      <4>2. t # task[w] /\ id[t] = 0
        BY <2>0, <3>4, <4>1 DEF TypeOK
      <4>3. PICK v \in Callers : pc[v] = "addID" /\ task[v] = t
        BY <4>1, <4>2 DEF IdInv
      <4> QED
        BY <1>3, <4>2, <4>3 DEF AddID, Goto
    <3> QED
      BY <3>1, <3>2, <3>3, <3>4 DEF IdInv
  <2>5. RegInv'
    BY <1>3, <2>0 DEF AddID, Goto, TypeOK, CollectInv, RegInv
  <2>6. CodeInv'
    BY <1>3, <2>0 DEF AddID, finish, CodeInv, CompletedMeansEnded,
        ForegroundCodeFaithful, Evident
  <2> QED
    BY <2>1, <2>2, <2>3, <2>4, <2>5, <2>6
<1>4. ASSUME NEW w \in Callers, Insert(w) PROVE IInv'
  <2>1. TypeOK'
    <3>1. task[w] \in 0 .. MaxTasks
      BY DEF TypeOK
    <3>2. tasks' \in [Tasks -> 0 .. MaxTasks]
      BY <1>4, <3>1 DEF Insert, TypeOK
    <3>3. UNCHANGED <<started, outcome, open, nextID, id, finish, task, answer>>
      BY <1>4 DEF Insert
    <3>4. pc' \in [Callers -> {"idle", "addID", "insert", "daemon", "select",
                             "finish", "signal"}]
      BY <1>4 DEF Insert, Goto, TypeOK
    <3> QED
      BY <3>2, <3>3, <3>4 DEF finish, TypeOK
  <2>2. OwnerInv'
    BY <1>4 DEF Insert, Goto, finish, OwnerInv, Owns
  <2>3. CollectInv'
    BY <1>4 DEF Insert, finish, CollectInv
  <2>4. IdInv'
    <3>1. Drawn' = Drawn
      BY <1>4 DEF Insert, Drawn
    <3> QED
      BY <1>4, <3>1 DEF Insert, Goto, IdInv
  <2>5. RegInv'
    <3>1. task[w] \in Tasks /\ task[w] \in 1 .. started
      BY <1>4 DEF Insert, OwnerInv, Owns
    <3>2. id[task[w]] # 0
      <4> SUFFICES ASSUME id[task[w]] = 0 PROVE FALSE
        OBVIOUS
      <4>1. PICK v \in Callers : pc[v] = "addID" /\ task[v] = task[w]
        BY <3>1 DEF IdInv
      <4>2. v = w
        BY <1>4, <4>1 DEF Insert, OwnerInv, Owns
      <4> QED
        BY <1>4, <4>1, <4>2 DEF Insert
    <3>3. id[task[w]] \in Tasks
      BY <3>1, <3>2 DEF TypeOK, Tasks
    <3>4. tasks' = [tasks EXCEPT ![id[task[w]]] = task[w]] /\ id' = id /\ task' = task
      BY <1>4 DEF Insert
    <3>5. ASSUME NEW t \in Tasks, id'[t] # 0, t # task[w],
                 \A v \in Callers : pc'[v] = "insert" => task'[v] # t
          PROVE  tasks'[id'[t]] = t
      <4>1. \A v \in Callers : pc[v] = "insert" => task[v] # t
        BY <1>4, <3>4, <3>5 DEF Insert, Goto
      <4>2. tasks[id[t]] = t /\ id[t] # id[task[w]]
        BY <3>1, <3>4, <3>5, <4>1 DEF RegInv, IdInv
      <4> QED
        BY <3>3, <3>4, <4>2
    <3> QED
      BY <3>3, <3>4, <3>5 DEF RegInv, TypeOK
  <2>6. CodeInv'
    BY <1>4 DEF Insert, finish, CodeInv, CompletedMeansEnded,
        ForegroundCodeFaithful, Evident
  <2> QED
    BY <2>1, <2>2, <2>3, <2>4, <2>5, <2>6
<1>5. ASSUME NEW w \in Callers, Daemon(w) PROVE IInv'
  <2>1. TypeOK'
    <3>1. Async \in Answers
      BY DEF Async, Answers
    <3>2. answer' = [answer EXCEPT ![task[w]] = Async]
      BY <1>5 DEF Daemon, Return
    <3>3. answer' \in [Tasks -> Answers]
      BY <3>1, <3>2 DEF TypeOK
    <3> HIDE DEF IInv
    <3>4. TypeOK
      BY DEF IInv
    <3> QED
      BY <1>5, <3>3, <3>4 DEF Daemon, Goto, Return, registry, TypeOK
  <2>2. OwnerInv'
    BY <1>5 DEF Daemon, Goto, Return, registry, TypeOK, OwnerInv, Owns
  <2>3. CollectInv'
    BY <1>5 DEF Daemon, Return, registry, TypeOK, OwnerInv, Owns, CollectInv
  <2>4. IdInv'
    <3>1. Drawn' = Drawn
      BY <1>5 DEF Daemon, registry, Drawn
    <3> QED
      BY <1>5, <3>1 DEF Daemon, Goto, Return, registry, IdInv
  <2>5. RegInv'
    BY <1>5 DEF Daemon, Goto, Return, registry, RegInv
  <2>6. CodeInv'
    BY <1>5 DEF Daemon, Return, Async, CodeInv, CompletedMeansEnded,
        ForegroundCodeFaithful, Evident
  <2> QED
    BY <2>1, <2>2, <2>3, <2>4, <2>5, <2>6
<1>6. ASSUME NEW w \in Callers, SelectDone(w) PROVE IInv'
  <2>1. TypeOK'
    BY <1>6 DEF SelectDone, Goto, registry, TypeOK
  <2>2. OwnerInv'
    BY <1>6 DEF SelectDone, Goto, registry, OwnerInv, Owns
  <2>3. CollectInv'
    BY <1>6 DEF SelectDone, registry, CollectInv
  <2>4. IdInv'
    <3>1. Drawn' = Drawn
      BY <1>6 DEF SelectDone, registry, Drawn
    <3> QED
      BY <1>6, <3>1 DEF SelectDone, Goto, registry, IdInv
  <2>5. RegInv'
    BY <1>6 DEF SelectDone, Goto, registry, RegInv
  <2>6. CodeInv'
    BY <1>6 DEF SelectDone, CodeInv, CompletedMeansEnded,
        ForegroundCodeFaithful, Evident
  <2> QED
    BY <2>1, <2>2, <2>3, <2>4, <2>5, <2>6
<1>7. ASSUME NEW w \in Callers, FinishForeground(w) PROVE IInv'
  <2>1. TypeOK'
    BY <1>7 DEF FinishForeground, Goto, Return, ForegroundCode, registry,
        TypeOK, OwnerInv, Owns, Answers
  <2>2. OwnerInv'
    BY <1>7 DEF FinishForeground, Goto, Return, registry, TypeOK, OwnerInv,
        Owns
  <2>3. CollectInv'
    BY <1>7 DEF FinishForeground, Return, registry, TypeOK, OwnerInv, Owns,
        CollectInv
  <2>4. IdInv'
    <3>1. Drawn' = Drawn
      BY <1>7 DEF FinishForeground, registry, Drawn
    <3> QED
      BY <1>7, <3>1 DEF FinishForeground, Goto, Return, registry, IdInv
  <2>5. RegInv'
    BY <1>7 DEF FinishForeground, Goto, Return, registry, RegInv
  <2>6. CodeInv'
    <3> DEFINE t == task[w]
    <3>1. /\ t \in Tasks /\ proc[t] = "ended"
          /\ answer' = [answer EXCEPT ![t] = [kind |-> "done", code |-> ForegroundCode(t)]]
          /\ UNCHANGED <<outcome, completed>>
      BY <1>7 DEF FinishForeground, Return, OwnerInv
    <3>2. /\ Evident(t) => ForegroundCode(t) = code[t]
          /\ ForegroundCode(t) = 0 => {mark[t], status[t]} \subseteq {0, NoCode}
      BY <3>1 DEF Evident, ForegroundCode, TypeOK, NoCode
    <3>3. answer'[t] = [kind |-> "done", code |-> ForegroundCode(t)]
      BY <3>1 DEF TypeOK
    <3>4. \A u \in Tasks \ {t} : answer'[u] = answer[u]
      BY <3>1 DEF TypeOK
    <3> QED
      BY <3>1, <3>2, <3>3, <3>4 DEF CodeInv, CompletedMeansEnded,
          ForegroundCodeFaithful, Evident
  <2> QED
    BY <2>1, <2>2, <2>3, <2>4, <2>5, <2>6
<1>8. ASSUME NEW w \in Callers, SelectTimeout(w) PROVE IInv'
  <2>1. TypeOK'
    <3>1. Async \in Answers
      BY DEF Async, Answers
    <3>2. answer' = [answer EXCEPT ![task[w]] = Async]
      BY <1>8 DEF SelectTimeout, Return
    <3>3. answer' \in [Tasks -> Answers]
      BY <3>1, <3>2 DEF TypeOK
    <3> HIDE DEF IInv
    <3>4. TypeOK
      BY DEF IInv
    <3> QED
      BY <1>8, <3>3, <3>4 DEF SelectTimeout, Goto, Return, registry, TypeOK
  <2>2. OwnerInv'
    BY <1>8 DEF SelectTimeout, Goto, Return, registry, TypeOK, OwnerInv, Owns
  <2>3. CollectInv'
    BY <1>8 DEF SelectTimeout, Return, registry, TypeOK, OwnerInv, Owns,
        CollectInv
  <2>4. IdInv'
    <3>1. Drawn' = Drawn
      BY <1>8 DEF SelectTimeout, registry, Drawn
    <3> QED
      BY <1>8, <3>1 DEF SelectTimeout, Goto, Return, registry, IdInv
  <2>5. RegInv'
    BY <1>8 DEF SelectTimeout, Goto, Return, registry, RegInv
  <2>6. CodeInv'
    BY <1>8 DEF SelectTimeout, Return, Async, CodeInv, CompletedMeansEnded,
        ForegroundCodeFaithful, Evident
  <2> QED
    BY <2>1, <2>2, <2>3, <2>4, <2>5, <2>6
<1>9. ASSUME NEW w \in Callers, KillSignal(w) PROVE IInv'
  <2>0. task[w] \in Tasks
    BY <1>9 DEF KillSignal, OwnerInv
  <2>10. \/ \E s \in {NoCode} \cup (Codes \ {0}) : SessionEnds(task[w], s, NoCode, s)
         \/ UNCHANGED outcome
    BY <1>9 DEF KillSignal
  <2>1. TypeOK'
    <3>1. /\ proc' \in [Tasks -> {"none", "running", "ended"}]
          /\ code' \in [Tasks -> Codes \cup {NoCode}]
      BY <2>10 DEF TypeOK, SessionEnds
    <3>2. /\ mark' \in [Tasks -> Codes \cup {NoCode}]
          /\ status' \in [Tasks -> Codes \cup {NoCode}]
      BY <2>10 DEF TypeOK, SessionEnds
    <3>3. /\ open' = [open EXCEPT ![task[w]] = FALSE]
          /\ pc' = [pc EXCEPT ![w] = "idle"] /\ task' = [task EXCEPT ![w] = 0]
          /\ UNCHANGED <<started, nextID, id, tasks, completed, closes, exitCode,
                         collector, answer>>
      BY <1>9 DEF KillSignal, Goto, registry, finish
    <3>4. pc' \in [Callers -> {"idle", "addID", "insert", "daemon", "select",
                             "finish", "signal"}]
      BY <3>3 DEF TypeOK
    <3>5. task' \in [Callers -> 0 .. MaxTasks]
      <4>1. 0 \in 0 .. MaxTasks
        OBVIOUS
      <4> QED
        BY <3>3, <4>1 DEF TypeOK
    <3>6. open' \in [Tasks -> BOOLEAN]
      BY <3>3 DEF TypeOK
    <3> QED
      BY <3>1, <3>2, <3>3, <3>4, <3>5, <3>6 DEF TypeOK
  <2>2. OwnerInv'
    BY <1>9 DEF KillSignal, SessionEnds, Goto, registry, finish, TypeOK, OwnerInv, Owns,
        CollectInv
  <2>3. CollectInv'
    BY <1>9 DEF KillSignal, SessionEnds, registry, finish, TypeOK, CollectInv
  <2>4. IdInv'
    <3>1. Drawn' = Drawn
      BY <1>9 DEF KillSignal, registry, Drawn
    <3> QED
      BY <1>9, <3>1 DEF KillSignal, Goto, registry, IdInv
  <2>5. RegInv'
    BY <1>9 DEF KillSignal, Goto, registry, RegInv
  <2>6. CodeInv'
    <3>1. completed' = completed /\ answer' = answer
      BY <1>9 DEF KillSignal, finish
    <3>2. CASE UNCHANGED outcome
      BY <3>1, <3>2 DEF CodeInv, CompletedMeansEnded, ForegroundCodeFaithful,
          Evident
    <3>3. ASSUME NEW s, SessionEnds(task[w], s, NoCode, s) PROVE CodeInv'
      BY <2>0, <3>1, <3>3, EndPreservesCode
    <3> QED
      BY <2>10, <3>2, <3>3
  <2> QED
    BY <2>1, <2>2, <2>3, <2>4, <2>5, <2>6
<1>10. ASSUME NEW t \in Tasks, CollectDone(t) PROVE IInv'
  <2>1. TypeOK'
    BY <1>10 DEF CollectDone, registry, TypeOK
  <2>2. OwnerInv'
    BY <1>10 DEF CollectDone, registry, OwnerInv, Owns
  <2>3. CollectInv'
    BY <1>10 DEF CollectDone, registry, CollectInv
  <2>4. IdInv'
    <3>1. Drawn' = Drawn
      BY <1>10 DEF CollectDone, registry, Drawn
    <3> QED
      BY <1>10, <3>1 DEF CollectDone, registry, IdInv
  <2>5. RegInv'
    BY <1>10 DEF CollectDone, registry, RegInv
  <2>6. CodeInv'
    BY <1>10 DEF CollectDone, CodeInv, CompletedMeansEnded,
        ForegroundCodeFaithful, Evident
  <2> QED
    BY <2>1, <2>2, <2>3, <2>4, <2>5, <2>6
<1>11. ASSUME NEW t \in Tasks, CollectClose(t) PROVE IInv'
  <2>1. TypeOK'
    BY <1>11 DEF CollectClose, registry, TypeOK, CollectInv
  <2>2. OwnerInv'
    BY <1>11 DEF CollectClose, registry, OwnerInv, Owns
  <2>3. CollectInv'
    BY <1>11 DEF CollectClose, registry, TypeOK, CollectInv
  <2>4. IdInv'
    <3>1. Drawn' = Drawn
      BY <1>11 DEF CollectClose, registry, Drawn
    <3> QED
      BY <1>11, <3>1 DEF CollectClose, registry, IdInv
  <2>5. RegInv'
    BY <1>11 DEF CollectClose, registry, RegInv
  <2>6. CodeInv'
    BY <1>11 DEF CollectClose, CodeInv, CompletedMeansEnded,
        ForegroundCodeFaithful, Evident
  <2> QED
    BY <2>1, <2>2, <2>3, <2>4, <2>5, <2>6
<1>12. ASSUME NEW t \in Tasks, CollectCode(t) PROVE IInv'
  <2>1. TypeOK'
    BY <1>12 DEF CollectCode, registry, TypeOK
  <2>2. OwnerInv'
    BY <1>12 DEF CollectCode, registry, OwnerInv, Owns
  <2>3. CollectInv'
    BY <1>12 DEF CollectCode, registry, CollectInv
  <2>4. IdInv'
    <3>1. Drawn' = Drawn
      BY <1>12 DEF CollectCode, registry, Drawn
    <3> QED
      BY <1>12, <3>1 DEF CollectCode, registry, IdInv
  <2>5. RegInv'
    BY <1>12 DEF CollectCode, registry, RegInv
  <2>6. CodeInv'
    BY <1>12 DEF CollectCode, CodeInv, CompletedMeansEnded,
        ForegroundCodeFaithful, Evident
  <2> QED
    BY <2>1, <2>2, <2>3, <2>4, <2>5, <2>6
<1>13. ASSUME NEW t \in Tasks, CommandEnds(t) PROVE IInv'
  <2>1. TypeOK'
    BY <1>13 DEF CommandEnds, SessionEnds, registry, finish, TypeOK, Answers
  <2>2. OwnerInv'
    BY <1>13 DEF CommandEnds, SessionEnds, registry, finish, OwnerInv, Owns
  <2>3. CollectInv'
    BY <1>13 DEF CommandEnds, SessionEnds, registry, finish, CollectInv
  <2>4. IdInv'
    <3>1. Drawn' = Drawn
      BY <1>13 DEF CommandEnds, SessionEnds, registry, Drawn
    <3> QED
      BY <1>13, <3>1 DEF CommandEnds, SessionEnds, registry, IdInv
  <2>5. RegInv'
    BY <1>13 DEF CommandEnds, SessionEnds, registry, RegInv
  <2>6. CodeInv'
    BY <1>13, EndPreservesCode DEF CommandEnds, finish
  <2> QED
    BY <2>1, <2>2, <2>3, <2>4, <2>5, <2>6
<1>14. ASSUME NEW t \in Tasks, SessionLost(t) PROVE IInv'
  <2>1. TypeOK'
    BY <1>14 DEF SessionLost, SessionEnds, registry, finish, TypeOK
  <2>2. OwnerInv'
    BY <1>14 DEF SessionLost, SessionEnds, registry, finish, OwnerInv, Owns
  <2>3. CollectInv'
    BY <1>14 DEF SessionLost, SessionEnds, registry, finish, CollectInv
  <2>4. IdInv'
    <3>1. Drawn' = Drawn
      BY <1>14 DEF SessionLost, SessionEnds, registry, Drawn
    <3> QED
      BY <1>14, <3>1 DEF SessionLost, SessionEnds, registry, IdInv
  <2>5. RegInv'
    BY <1>14 DEF SessionLost, SessionEnds, registry, RegInv
  <2>6. CodeInv'
    BY <1>14, EndPreservesCode DEF SessionLost, finish
  <2> QED
    BY <2>1, <2>2, <2>3, <2>4, <2>5, <2>6
<1>15. CASE UNCHANGED vars
  <2>1. TypeOK' /\ OwnerInv' /\ CollectInv' /\ RegInv' /\ CodeInv'
    BY <1>15 DEF vars, registry, finish, TypeOK, OwnerInv, Owns, CollectInv,
        RegInv, CodeInv, CompletedMeansEnded, ForegroundCodeFaithful, Evident
  <2>2. IdInv'
    BY <1>15 DEF vars, registry, IdInv, Drawn
  <2> QED
    BY <2>1, <2>2
<1>16. ASSUME NEW w \in Callers, StartFails(w) PROVE IInv'
  BY <1>15, <1>16 DEF StartFails
<1> QED
  BY <1>1, <1>2, <1>3, <1>4, <1>5, <1>6, <1>7, <1>8, <1>9, <1>10, <1>11, <1>12, <1>13, <1>14, <1>15, <1>16
  DEF Next, Begin, Advance, Collect, Environment

LEMMA Invariance == Spec => []IInv
<1>1. Init => IInv
  BY InitIInv
<1>2. IInv /\ [Next]_vars => IInv'
  BY NextIInv
<1> QED
  BY <1>1, <1>2, PTL DEF Spec

-----------------------------------------------------------------------------
(* Every variable keeps its type; in particular a number that Register draws
   is one that the registry has room for.                                  *)
THEOREM TypeCorrect == Spec => []TypeOK
<1>1. IInv => TypeOK
  BY DEF IInv
<1> QED
  BY <1>1, Invariance, PTL

(* A task whose number a caller has been told can be found in the registry
   under that number, whoever else registers tasks at the same time.       *)
THEOREM TaskFound == Spec => []AsyncTaskCanBeFound
<1>1. IInv => AsyncTaskCanBeFound
  <2> SUFFICES ASSUME IInv, NEW t \in Tasks, answer[t].kind = "async"
               PROVE  tasks[id[t]] = t
    BY DEF AsyncTaskCanBeFound
  <2>1. answer[t] # NoAnswer
    BY DEF NoAnswer
  <2>2. t \in 1 .. started
    BY <2>1 DEF IInv, TypeOK, CollectInv, Tasks
  <2>3. \A w \in Callers : Owns(w) => task[w] # t
    BY <2>1 DEF IInv, OwnerInv
  <2>4. id[t] # 0
    BY <2>2, <2>3 DEF IInv, IdInv, Owns
  <2> QED
    BY <2>3, <2>4 DEF IInv, RegInv, Owns
<1> QED
  BY <1>1, Invariance, PTL

(* The waiting caller and the collector never both close DoneChan.         *)
THEOREM ClosedOnce == Spec => []DoneClosedOnce
<1>1. IInv => DoneClosedOnce
  BY DEF IInv, CollectInv, DoneClosedOnce
<1> QED
  BY <1>1, Invariance, PTL

(* Nothing counts as completed while its command runs.                     *)
THEOREM CompletionSound == Spec => []CompletedMeansEnded
<1>1. IInv => CompletedMeansEnded
  BY DEF IInv, CodeInv
<1> QED
  BY <1>1, Invariance, PTL

(* The exit code that a caller who waited gets is that of the command where
   what has reached the client shows it, and elsewhere never turns a failure
   that has reached the client into a success.                             *)
THEOREM CompletionFaithful == Spec => []ForegroundCodeFaithful
<1>1. IInv => ForegroundCodeFaithful
  BY DEF IInv, CodeInv
<1> QED
  BY <1>1, Invariance, PTL
=============================================================================
