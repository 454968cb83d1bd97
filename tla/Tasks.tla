------------------------------- MODULE Tasks --------------------------------
(***************************************************************************)
(* Commands that have started: RunCommand from Session.Start on            *)
(* (internal/sshclient/exec.go), the task registry                         *)
(* (internal/sshclient/tasks.go) and the remote_manage_task handler        *)
(* (internal/tools/register.go).                                           *)
(*                                                                         *)
(* A command is known to three parties: the caller that waits for it, the  *)
(* goroutine that collects it when it runs in the background, and any      *)
(* other caller that finds it in the registry.  The connection underneath  *)
(* is that of Client; here it can only be lost.                            *)
(***************************************************************************)
EXTENDS Integers, FiniteSets

CONSTANTS
    Callers,    \* goroutines of the server that run tool calls
    MaxTasks,   \* bound: commands started in a behaviour
    Codes       \* exit statuses of commands, those of signals included

ASSUME TasksAssumption ==
    /\ MaxTasks \in Nat \ {0}
    /\ Codes \subseteq Nat /\ 0 \in Codes

VARIABLES
    started,    \* number of commands started
    proc,       \* "none", "running" or "ended": the session of a task
    code,       \* exit status of the command of a task
    mark,       \* exit status in the markers that reached the client
    status,     \* exit status the session reports: that of the wrapper
    open,       \* is the SSH session of the task open?
    nextID,     \* TaskManager.nextID
    id,         \* the number in Task.ID, 0 before it is drawn
    tasks,      \* TaskManager.tasks: from numbers to tasks, 0 for no entry
    completed,  \* Task.Completed
    closes,     \* how often Task.DoneChan has been closed
    exitCode,   \* Task.ExitCode
    collector,  \* the goroutine that collects a background task
    pc,         \* where the call of each caller is
    task,       \* the task the call of each caller is about
    answer      \* what the RunCommand that started the task has returned

registry == <<nextID, id, tasks>>
finish == <<completed, closes, exitCode, collector>>
outcome == <<proc, code, mark, status>>
vars == <<started, outcome, open, registry, finish, pc, task, answer>>

Tasks == 1 .. MaxTasks
NoCode == -1          \* none known, or none that reached the client

(* RunCommand has not returned, has returned the exit code of a command that
   is done, or the number of one that goes on.                             *)
Answers == [kind : {"none", "done", "async"}, code : Codes \cup {NoCode}]
NoAnswer == [kind |-> "none", code |-> NoCode]
Async == [kind |-> "async", code |-> NoCode]

TypeOK ==
    /\ started \in 0 .. MaxTasks
    /\ proc \in [Tasks -> {"none", "running", "ended"}]
    /\ code \in [Tasks -> Codes \cup {NoCode}]
    /\ mark \in [Tasks -> Codes \cup {NoCode}]
    /\ status \in [Tasks -> Codes \cup {NoCode}]
    /\ open \in [Tasks -> BOOLEAN]
    /\ nextID \in 0 .. MaxTasks
    /\ id \in [Tasks -> 0 .. MaxTasks]
    /\ tasks \in [Tasks -> 0 .. MaxTasks]
    /\ completed \in [Tasks -> BOOLEAN]
    /\ closes \in [Tasks -> 0 .. 2]
    /\ exitCode \in [Tasks -> Codes \cup {NoCode}]
    /\ collector \in [Tasks -> {"none", "wait", "close", "code", "end"}]
    /\ pc \in [Callers -> {"idle", "addID", "insert", "daemon", "select", "finish", "signal"}]
    /\ task \in [Callers -> 0 .. MaxTasks]
    /\ answer \in [Tasks -> Answers]

Init ==
    /\ started = 0
    /\ proc = [t \in Tasks |-> "none"]
    /\ code = [t \in Tasks |-> NoCode]
    /\ mark = [t \in Tasks |-> NoCode]
    /\ status = [t \in Tasks |-> NoCode]
    /\ open = [t \in Tasks |-> FALSE]
    /\ nextID = 0
    /\ id = [t \in Tasks |-> 0]
    /\ tasks = [n \in Tasks |-> 0]
    /\ completed = [t \in Tasks |-> FALSE]
    /\ closes = [t \in Tasks |-> 0]
    /\ exitCode = [t \in Tasks |-> NoCode]
    /\ collector = [t \in Tasks |-> "none"]
    /\ pc = [w \in Callers |-> "idle"]
    /\ task = [w \in Callers |-> 0]
    /\ answer = [t \in Tasks |-> NoAnswer]

-----------------------------------------------------------------------------
Goto(w, l) == pc' = [pc EXCEPT ![w] = l]

(* RunCommand returns r.                                                   *)
Return(w, r) == /\ Goto(w, "idle")
                /\ answer' = [answer EXCEPT ![task[w]] = r]
                /\ task' = [task EXCEPT ![w] = 0]

(* The tasks Get finds.                                                    *)
Registered == {tasks[n] : n \in Tasks} \ {0}

(* Mutant: the exit code in the markers is not used.                       *)
ForegroundCodeOfWrapper(t) == IF status[t] = NoCode THEN 0 ELSE status[t]

(* The exit code of a command that ends while its caller waits: the one in
   the markers unless they are missing or say 0, then that of the wrapper.
   An error of Wait without a status is dropped.                           *)
ForegroundCode(t) == CASE mark[t] \notin {0, NoCode} -> mark[t]
                       [] mark[t] \in {0, NoCode} /\ status[t] # NoCode -> status[t]
                       [] OTHER -> 0

-----------------------------------------------------------------------------
(* RunCommand.                                                             *)
(* The call fails before the command runs, and nothing is registered.      *)
StartFails(w) ==
    /\ pc[w] = "idle"
    /\ UNCHANGED vars

(* sess.Start succeeds.                                                    *)
StartCommand(w) ==
    /\ pc[w] = "idle" /\ started < MaxTasks
    /\ started' = started + 1
    /\ proc' = [proc EXCEPT ![started'] = "running"]
    /\ open' = [open EXCEPT ![started'] = TRUE]
    /\ task' = [task EXCEPT ![w] = started']
    /\ Goto(w, "addID")
    /\ UNCHANGED <<code, mark, status, registry, finish, answer>>

(* Mutants: the number is the size of the registry; the counter is bumped
   twice.                                                                  *)
AddIDBySize(w) ==
    /\ pc[w] = "addID"
    /\ nextID' = Cardinality(Registered) + 1
    /\ id' = [id EXCEPT ![task[w]] = nextID']
    /\ Goto(w, "insert")
    /\ UNCHANGED <<started, outcome, open, tasks, finish, task, answer>>

AddIDTwice(w) ==
    /\ pc[w] = "addID"
    /\ nextID' = nextID + 2
    /\ id' = [id EXCEPT ![task[w]] = nextID']
    /\ Goto(w, "insert")
    /\ UNCHANGED <<started, outcome, open, tasks, finish, task, answer>>

(* Register: the number is drawn and the entry made in two steps.          *)
AddID(w) ==
    /\ pc[w] = "addID"
    /\ nextID' = nextID + 1
    /\ id' = [id EXCEPT ![task[w]] = nextID']
    /\ Goto(w, "insert")
    /\ UNCHANGED <<started, outcome, open, tasks, finish, task, answer>>

Insert(w) ==
    /\ pc[w] = "insert"
    /\ tasks' = [tasks EXCEPT ![id[task[w]]] = task[w]]
    /\ \E daemon \in BOOLEAN : Goto(w, IF daemon THEN "daemon" ELSE "select")
    /\ UNCHANGED <<started, outcome, open, nextID, id, finish, task, answer>>

(* A daemon is left to its collector at once.                              *)
Daemon(w) ==
    /\ pc[w] = "daemon"
    /\ collector' = [collector EXCEPT ![task[w]] = "wait"]
    /\ Return(w, Async)
    /\ UNCHANGED <<started, outcome, open, registry, completed, closes,
                   exitCode>>

(* The command ends before waitMs is over.                                 *)
SelectDone(w) ==
    /\ pc[w] = "select" /\ proc[task[w]] = "ended"
    /\ completed' = [completed EXCEPT ![task[w]] = TRUE]
    /\ Goto(w, "finish")
    /\ UNCHANGED <<started, outcome, open, registry, closes, exitCode,
                   collector, task, answer>>

FinishForeground(w) ==
    /\ pc[w] = "finish"
    /\ closes' = [closes EXCEPT ![task[w]] = @ + 1]
    /\ open' = [open EXCEPT ![task[w]] = FALSE]
    /\ Return(w, [kind |-> "done", code |-> ForegroundCode(task[w])])
    /\ UNCHANGED <<started, outcome, registry, completed, exitCode, collector>>

(* Mutants: nobody collects the task;
   it is reported as done; the wait has no timer.                          *)
SelectTimeoutUncollected(w) ==
    /\ pc[w] = "select"
    /\ Return(w, Async)
    /\ UNCHANGED <<started, outcome, open, registry, finish>>

SelectTimeoutAsDone(w) ==
    /\ pc[w] = "select"
    /\ collector' = [collector EXCEPT ![task[w]] = "wait"]
    /\ Return(w, [kind |-> "done", code |-> 0])
    /\ UNCHANGED <<started, outcome, open, registry, completed, closes,
                   exitCode>>

SelectTimeoutMissing(w) == FALSE /\ SelectTimeoutUncollected(w)

(* The time is over first, or both and select picks this one.              *)
SelectTimeout(w) ==
    /\ pc[w] = "select"
    /\ collector' = [collector EXCEPT ![task[w]] = "wait"]
    /\ Return(w, Async)
    /\ UNCHANGED <<started, outcome, open, registry, completed, closes,
                   exitCode>>

-----------------------------------------------------------------------------
(* Mutant: the collector does not wait.                                    *)
CollectDoneAtOnce(t) ==
    /\ collector[t] = "wait"
    /\ completed' = [completed EXCEPT ![t] = TRUE]
    /\ collector' = [collector EXCEPT ![t] = "close"]
    /\ UNCHANGED <<started, outcome, open, registry, closes, exitCode,
                   pc, task, answer>>

(* The collector of a background task.                                     *)
CollectDone(t) ==
    /\ collector[t] = "wait" /\ proc[t] = "ended"
    /\ completed' = [completed EXCEPT ![t] = TRUE]
    /\ collector' = [collector EXCEPT ![t] = "close"]
    /\ UNCHANGED <<started, outcome, open, registry, closes, exitCode,
                   pc, task, answer>>

CollectClose(t) ==
    /\ collector[t] = "close"
    /\ closes' = [closes EXCEPT ![t] = @ + 1]
    /\ collector' = [collector EXCEPT ![t] = "code"]
    /\ UNCHANGED <<started, outcome, open, registry, completed, exitCode,
                   pc, task, answer>>

CollectCode(t) ==
    /\ collector[t] = "code"
    /\ exitCode' = [exitCode EXCEPT ![t] = status[t]]
    /\ open' = [open EXCEPT ![t] = FALSE]
    /\ collector' = [collector EXCEPT ![t] = "end"]
    /\ UNCHANGED <<started, outcome, registry, completed, closes, pc,
                   task, answer>>

-----------------------------------------------------------------------------
(* remote_manage_task.  Kill looks the task up, tests Completed, and only
   then signals and closes the session.                                    *)
KillCheck(w) ==
    /\ pc[w] = "idle"
    /\ \E t \in Registered :
          /\ ~completed[t]
          /\ task' = [task EXCEPT ![w] = t]
    /\ Goto(w, "signal")
    /\ UNCHANGED <<started, outcome, open, registry, finish, answer>>

(* The session of a running command ends, the command with c; the markers
   that have arrived say m, and the session reports s.                     *)
SessionEnds(t, c, m, s) ==
    /\ proc[t] = "running"
    /\ proc' = [proc EXCEPT ![t] = "ended"]
    /\ code' = [code EXCEPT ![t] = c]
    /\ mark' = [mark EXCEPT ![t] = m]
    /\ status' = [status EXCEPT ![t] = s]

(* The wrapper is killed, and the session reports that or nothing any more. *)
KillSignal(w) ==
    /\ pc[w] = "signal"
    /\ LET t == task[w] IN
       /\ open' = [open EXCEPT ![t] = FALSE]
       /\ \/ /\ open[t]
             /\ \E s \in {NoCode} \cup (Codes \ {0}) : SessionEnds(t, s, NoCode, s)
          \/ /\ ~(proc[t] = "running" /\ open[t])
             /\ UNCHANGED outcome
    /\ Goto(w, "idle")
    /\ task' = [task EXCEPT ![w] = 0]
    /\ UNCHANGED <<started, registry, finish, answer>>

-----------------------------------------------------------------------------
(* The remote host and the network.                                        *)
(* The wrapper prints the markers with the status of the command, unless the
   command ends the wrapper (exit, exec, a signal, or by reading the rest of
   the script as its input) or has sent its output elsewhere (exec >log).
   Its own status is that of its last command, or that of a trap on EXIT.  *)
CommandEnds(t) ==
    /\ \E c, s \in Codes : \E m \in {c, NoCode} : SessionEnds(t, c, m, s)
    /\ UNCHANGED <<started, open, registry, finish, pc, task, answer>>

(* The connection breaks, before the markers or between them and the status. *)
SessionLost(t) ==
    /\ \E m \in Codes \cup {NoCode} : SessionEnds(t, m, m, NoCode)
    /\ UNCHANGED <<started, open, registry, finish, pc, task, answer>>

-----------------------------------------------------------------------------
Begin(w) == StartFails(w) \/ StartCommand(w) \/ KillCheck(w)

Advance(w) == AddID(w) \/ Insert(w) \/ Daemon(w) \/ SelectDone(w)
              \/ FinishForeground(w) \/ SelectTimeout(w) \/ KillSignal(w)

Collect(t) == CollectDone(t) \/ CollectClose(t) \/ CollectCode(t)

Environment(t) == CommandEnds(t) \/ SessionLost(t)

Next == \/ \E w \in Callers : Begin(w) \/ Advance(w)
        \/ \E t \in Tasks : Collect(t) \/ Environment(t)

Spec == Init /\ [][Next]_vars

(* Goroutines that can run do run, and the timer of RunCommand fires.      *)
Fairness == /\ \A w \in Callers : WF_vars(Advance(w))
            /\ \A t \in Tasks : WF_vars(Collect(t))

LiveSpec == Spec /\ Fairness

-----------------------------------------------------------------------------
(* Properties.                                                             *)

(* The task that an asynchronous result names can be found, and is the
   command that the caller started, however calls to Register interleave.  *)
AsyncTaskCanBeFound ==
    \A t \in Tasks : answer[t].kind = "async" => tasks[id[t]] = t

(* DoneChan is closed at most once: closing it twice would panic.  The
   waiting caller and the collector never both finish a task.              *)
DoneClosedOnce == \A t \in Tasks : closes[t] <= 1

(* A task counts as completed only after its command or its session ended. *)
CompletedMeansEnded == \A t \in Tasks : completed[t] => proc[t] = "ended"

(* What has reached the client tells how the command ended: its markers do,
   unless they say 0 and the wrapper says otherwise, or without markers its
   status is the one of the wrapper.                                       *)
Evident(t) ==
    /\ code[t] # NoCode
    /\ \/ mark[t] = code[t] /\ (code[t] # 0 \/ status[t] \in {0, NoCode})
       \/ mark[t] = NoCode /\ status[t] = code[t]

(* The exit code returned for a command that ended while its caller waited
   is the command's own wherever that is evident; where it is not (output of
   the wrapper sent elsewhere, a trap on EXIT, a lost session), a failure
   that has reached the client is not returned as a success.               *)
ForegroundCodeFaithful ==
    \A t \in Tasks :
        answer[t].kind = "done" =>
            /\ Evident(t) => answer[t].code = code[t]
            /\ answer[t].code = 0 => {mark[t], status[t]} \subseteq {0, NoCode}

(* Every task whose command ends is collected and its session closed,
   whoever waited for it, killed it or lost it.                            *)
EndedIsCollected ==
    \A t \in Tasks : proc[t] = "ended" ~> closes[t] = 1 /\ ~open[t]

(* RunCommand returns although the command may run for ever.               *)
RunReturns == \A w \in Callers : pc[w] # "idle" ~> pc[w] = "idle"

(* A task that is shown as completed, and that nobody is still finishing, is
   shown with the exit status of its command.                              *)
CompletedShowsExitCode ==
    \A t \in Registered :
        completed[t] /\ collector[t] \in {"none", "end"} /\ (\A w \in Callers : task[w] # t)
            => exitCode[t] = code[t]

-----------------------------------------------------------------------------
(* What a command is to those who use it.  Its result is lost to them when
   the session reports none, and when what it reports is not the command's. *)
FutureState(t) == CASE proc[t] = "none" -> "unborn"
                    [] proc[t] = "running" -> "pending"
                    [] proc[t] = "ended" /\ Evident(t) -> "ended"
                    [] OTHER -> "lost"

Future == INSTANCE TaskFuture WITH
              Futures <- Tasks,
              state <- [t \in Tasks |-> FutureState(t)],
              result <- code,
              listed <- {t \in Tasks : id[t] # 0 /\ tasks[id[t]] = t},
              told <- answer,
              announced <- closes

(* However waiting, timing out, collecting and killing interleave, a command
   is a future: it is announced once and after its end, and its starter is
   told once, what it evidently ended with or a number under which it can be
   found.                                                                  *)
FutureImplemented == Future!Spec
=============================================================================
