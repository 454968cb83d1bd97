# Herdlink in TLA+

Herdlink is an MCP server written in Go.  An agent talks to it over stdio and
the server works for it on one remote host: it keeps an SSH connection, runs
commands with a persistent working directory, keeps commands that take long as
background tasks, edits remote files over SFTP, opens port forwardings, and
drives a terminal multiplexer (*herdr*) on the host.

The server runs tool calls on a pool of goroutines, and all of them share one
`sshclient.Client`.  Agents send calls in parallel.  So the hard part of the
program is what happens to the shared state when calls interleave, when the
connection breaks between two steps of a call, and when an answer is lost after
the remote side has done what it was asked for.  That is what is modelled here.

Paths below are relative to the repository, `src/` being its root.

## 1. The system

| Component | State it keeps | Operations | Hard behaviour |
|---|---|---|---|
| SSH client, `internal/sshclient/client.go` | configuration, SSH and SFTP client, working directory, sudo password, terminal manager | `ConnectTo`, `Connect`, `EnsureConnected`, `SSH`, `SFTP`, `Close`, getters and setters | fields written under one lock and read under another or none; reconnection by any call; change of host under running calls |
| Command execution, `exec.go` | none of its own | `RunCommand`, `ExecRaw`, `WrapCommand` | reads the client's state at several moments, writes the directory back at the end |
| Background tasks, `tasks.go`, `tools/register.go` | registry of tasks, completion flag, channel and exit code of each | `Register`, `Get`, `Kill`, `Tail`, waiting and collecting goroutines | a timer that races with the end of the command; a kill that races with both |
| Remote files, `sftp.go` | none locally; the files of the host | `ReplaceFileContent`, `WriteFile`, `ViewFile`, `UploadFile`, `DownloadFile`, `mkdirAll` | sequences of requests that can stop anywhere and interleave with those of other calls |
| Terminal manager, `internal/herdr/manager.go` | initialized, available, default pane | `EnsureReady`, `RunInPane`, `CloseWorkspace`, `CreateWorkspace`, `SplitPane`, `ClosePane`, `CleanupSession` | a remembered pane that no longer exists, retries, bootstrap under a lock, lost answers |
| Tunnels, `tunnel.go` | table of tunnels, listeners | `Open`, `Close`, `CloseAll`, `List`, forwarding goroutines | opening while everything is closed, connections that outlive their tunnel |
| Text limits, `internal/herdr/text.go`, parts of `sftp.go` and `tasks.go` | none | `SmartTruncate`, `tailLines`, line ranges | off by one |
| Herdr agents, `internal/herdr/agent.go` | none of its own; agents live in panes | `AgentStart`, `AgentPrompt`, `AgentWait`, `AgentSendKeys`, `AgentRead`, `AgentGet`, `AgentList` | as the manager; a prompt followed by two calls whose errors are ignored |
| Local bridge, configuration, programs, tool registration | none | argument parsing, lookup, formatting | none |
| MCP server over stdio (vendored) | queue and workers | dispatch | the source of all concurrency here |

How they interact: a tool handler calls one method of the client, the terminal
manager or the tunnel manager.  The terminal manager runs each of its requests
through `ExecRaw`.  `RunCommand`, `ExecRaw`, the file operations and each
forwarded connection first call `EnsureConnected`, which may reconnect, and
then read `sshClient` or `sftpClient` without a lock.  `ConnectTo` and
`remote_disconnect` close the connections, and the tunnels, under the other
calls.

What makes each correct:

- *SSH client*: a call never gets a nil client; the SSH and the SFTP client
  belong together and to the configured host; the directory, the password and
  the manager used on a host are that host's; no connection is left behind; no
  call waits for ever.
- *Tasks*: a task that a caller is told of can be found; the completion channel
  is closed exactly once; nothing counts as completed while it runs; exit codes
  are those of the command wherever the client can know them; every ended command
  is collected.
- *Files*: no text is lost whatever the server refuses; a reader sees a whole
  text; success means that no write failed; a new file is created once; an edit
  changes the lines it was given and no others; pages show every line once; what
  was shown can be found again.
- *Terminal manager*: a command is typed at most once and only where the caller
  said; a stale default pane is replaced while there is another; one automatic
  workspace; every wait ends.
- *Text limits*: every line is shown or counted as left out.
- *Tunnels*: what is listed is what listens; nothing that was open survives the
  end of the session; every goroutine ends; nobody waits in a circle of locks.

## 2. The modules

| Module | Models | Runs | Proofs |
|---|---|---|---|
| `Client` | `client.go` and the part of `exec.go` and `tunnel.go` that uses its state | `Client_seq`, `Client_conc`, `Client_disconnect` (through `MCClient`) | `ClientProofs` |
| `ConnectionSlot` | abstract: what `client.go` promises to its users | `Client_conc` (`SlotImplemented`) | `ClientSlotProofs` |
| `Tasks` | `exec.go` from `Session.Start` on, `tasks.go`, `remote_manage_task` | `Tasks_all`, `Tasks_exitcode` | `TasksProofs` |
| `TaskFuture` | abstract: what `RunCommand` and the registry promise about a command | `Tasks_all` (`FutureImplemented`) | `TasksFutureProofs` |
| `HerdrManager` | `manager.go`, `agent.go` | `Herdr_seq`, `Herdr_conc`, `Herdr_ready` (through `MCHerdrManager`) | `HerdrManagerProofs` |
| `RemoteFiles` | `sftp.go`: sequences of requests | `Files_mixed`, `Files_atomic` (through `MCRemoteFiles`) | `RemoteFilesProofs` |
| `TextOps` | `sftp.go`: pages, line ranges, replacements | `Text_ops` (through `MCTextOps`) | `TextOpsProofs` |
| `TextLimits` | `text.go`, the tails of `tasks.go` | `Text_ops` | `TextOpsProofs` |
| `Tunnels` | `tunnel.go`, `Client.Close` | `Tunnels_all` | `TunnelsProofs` |

Operators that are marked "Mutant" in a comment are not part of a
specification.  Each is a plausible mistake in the action that follows it, and
stands for the question what a property would say if the code had that mistake;
`PROJECT.json` pairs them with the properties they break.

### Client

Every goroutine `w` has a program counter `pc[w]`, and `call[w]` holds the
arguments and the locals of its call.  A step is a critical section of `c.mu`,
`c.cwdMu` or `c.sudoMu`, one unsynchronised access to a shared field, or one
exchange with the host.  `mu` is the holder of `c.mu`; a critical section that
contains no exchange and no access that races is a single step, so `mu` is
taken only by `Connect`, which dials with the lock held, and by `ConnectTo`,
whose write of `currentCwd` races with readers that hold `cwdMu`.

- `sshClient` and `sftpClient` are numbers of connections, given in the order
  in which connections are made; 0 is nil.  `conns` is the state that the host
  sees.  `Close` marks connections dead but, like the code, leaves the fields.
- A directory carries the host it is a directory of.  A Go string is two words,
  so a write that races with an access can leave or yield `Torn`; `Raced` marks
  a string on which two unsynchronised writes overlap, until the first of them
  is over.
- `ecCfg`, `ecSftp`, `ecProbe` are the three moments of `EnsureConnected`:
  two short critical sections and the `Getwd` outside of them.
- `RunCommand` calls `EnsureConnected` itself and again through `SSH`;
  `call[w].first` says which of the two is running.
- A directory that the caller passes goes into `call[w].cwd` with the call:
  one of the caller's own, or, as in `remote_connect`, what `GetCwd` returned
  before the call, which may be of another host, or torn.
- `StartDirs` is where the wrapper's `cd` leads: to the directory, or to `/` when
  that has been removed, is unreadable or never existed (`exec.go:38`), on whatever
  host.  A command that goes nowhere makes its start the directory of the session.
- A forwarded connection (`Forward`) is a goroutine like the others: it comes at
  any moment, also after `remote_disconnect`, and asks for `SSH()`.
- The network is `DropConn` and `SftpEnds`, at any moment.

`ConnectionSlot` says what all of this amounts to for those who call `SSH()` and
`SFTP()`: a slot with the newest connection, into which any call may put a newer
one; a call is vouched for a connection that has been in the slot, and then
takes one that is not older, and never none.  The refinement maps the slot to
`sshClient`, what a call has been vouched for to `seen`, what it works with to
`handle`.

### Tasks

`proc` says whether the session of a command goes on.  What it ended with is three
numbers: `code` is the exit status of the command itself, `mark` the one in the
markers that have reached the client, `status` the one the session reports.  They
differ.  The wrapper prints no markers when the command ends it (`exit`, `exec`, a
signal) or has sent the shell's output elsewhere (`exec >log`), and then its own
status, 0 if it has reached its end, need not be the command's; a trap on EXIT gives
the wrapper a status that is neither; a lost connection or a kill cuts off the
markers, the status or both (`CommandEnds`, `SessionLost`, `KillSignal`).
`ForegroundCode` takes the markers unless they say 0 or are missing, then the status,
then 0.  `Evident` says when that is the command's.  A command that prints markers of
its own is not modelled.  `answer[t]` is what the `RunCommand` that started the
command has returned.  `Register` draws the number and makes the entry
in two steps, as the code does.  `select` between the end of the command and
the timer is the choice between `SelectDone` and `SelectTimeout`; when both are
ready Go may pick either, and so may the model.  The collector is a goroutine
with three steps because other callers read the task between them.  `Kill`
tests `Completed` in one step and signals in another.

`TaskFuture` is a future for each command: it settles once, with a result or, when
nothing that shows the result has reached the client, as lost; its starter is told
once, the result if it has settled with one, some code if it is lost, or that it goes
on if others can find it; its end is announced once, with the answer or after the
starter has been told that it goes on.  `FutureState` maps `proc` and `Evident` to the
state of the future, `code` is its result, the registered commands are those listed, `answer` is what the
starter has been told and `closes` counts the announcements: `DoneChan` is the
announcement, and to close it twice would be a panic.

### HerdrManager

One `ExecRaw` is one step, which may be carried out, carried out with its answer
lost, or not carried out.  `after[w]` is the place where the operation continues
when `EnsureReady` returns nil; `EnsureReady` is entered again by the calls of
`ListPanes` and `ReadPane` within other operations.  `m.mu` is not reentrant.
The environment starts the server that was launched, and, where `Outside` is
TRUE, lets panes and servers end.

`SendKeys`, `SendText`, `AgentStart` and `WaitOutput` look up the default pane
once (`Resolve`) and have no second try.  There is one agent (bound), known by
the pane it was last started in.  `AgentPrompt` types the prompt and then calls
`AgentRead` and `AgentGet`, each with an `EnsureReady` of its own whose error is
ignored (`AfterError`); so is that of the list for the second try of `RunInPane`,
which then fails with the error of the first one, `pane_not_found`, as it does when
that list is empty (`ListForRerunFails`).  `AgentWait` and `remote_terminal_wait` likewise ask once
more after the wait.

### RemoteFiles

One SFTP request is one step.  A file is an inode, since a removed or renamed
file goes on to exist for those who have it open.  A text is two blocks, so
that half-written and half-read texts exist; a block is the set of the calls
whose change it contains.  A replacement reads the file, edits every block,
writes a file of its own, closes it, removes the original, renames its file and, if
the rename fails, writes in place.

`Close` is the SFTP CLOSE.  By its error a server tells of blocks that it has
acknowledged and could not store, on a full disk or over a quota; what is left is the
first part of what was written (`StoredOf`, `Dropped`).  The code ignores the error
(`sftp.go:216`, and the deferred calls at 230, 272 and 381), and so does `Close`:
only the error of a write makes a call fail.  `unsaved` remembers the calls whose
writes all succeeded and whose blocks were dropped; no guard reads it.

### TextOps and TextLimits

A text is a sequence of characters, and a call is one step on it.  `Split`,
`Join`, `Places` and `Count` are what package `strings` does; `ViewLines` is what
`bufio.Scanner` makes of a text, which is not what `Split` makes of it: it shows
no carriage return at the end of a line (`DropCR`) and no empty last line.  `Places`
and `Join` go through a text and through its parts from left to right, as recursive
functions on numbers.  `Page` is one
answer of `ViewFile`; `reader` is a caller that asks for the line after each
truncated page.  `edit` is a replacement that has been asked for, so that it can
be one for a text that the reader has seen in part.

`TextLimits` is arithmetic on numbers of lines: how many come from the beginning
and the end of a text, and how many the marker says are missing.

### Tunnels

`table`, `listening`, `closed` and `stopped` are sets of tunnels: those in the
map, with an open listener, with the flag set, with the channel closed.  `Close`
and `CloseAll` share the steps `Mark`, `Stop`, `CloseListener`, `Delete` for each
tunnel, with `tm.mu` held; they are separate because the accept loop reads the
same things without the lock.  `loop[t]` is the accept loop, `serve[c]` the
goroutine of a connection and `copier[c]` its two copying goroutines, which
report through a channel with room for two (`sent[c]`).  `clientMu` is the lock
of the client where it is held for more than a step.

## 3. What the runs show

The longest runs, `Tasks_all` and `Files_mixed`, take two to three minutes on two
workers, the others up to one.

| Run | Instance | Shows |
|---|---|---|
| `Client_conc` | 2 callers, 2 hosts, 3 connections, symmetry | `TypeOK`, `HandleNeverNil`, `PairConsistent`, `InstallsConfiguredHost`, `SlotImplemented` |
| `Client_seq` | 1 caller, all operations, 2 hosts, 3 connections, fairness | `RunsOnItsHost`, `StateOfItsHost`, `NoWorkingConnectionAbandoned`, `DirectoryKept`, `CallsReturn` |
| `Client_disconnect` | 1 caller, 1 host, 2 connections | violates `DisconnectTearsDown` |
| `Tasks_all` | 2 callers, 2 commands, exit codes 0 and 1, fairness | `TypeOK`, `AsyncTaskCanBeFound`, `CompletedMeansEnded`, `ForegroundCodeFaithful`, `EndedIsCollected`, `RunReturns`, `FutureImplemented` |
| `Tasks_exitcode` | 1 caller, 1 command, 3 exit codes | violates `CompletedShowsExitCode` |
| `Herdr_seq` | 1 caller, all operations, 3 panes, 2 polls, unnamed session, fairness | `TypeOK`, `StaleDefaultRecovers`, `CallsReturn` |
| `Herdr_conc` | 2 callers, 2 panes, 1 poll, named session, panes and servers end | `CommandTypedOnce`, `NamedPaneOnly`, `OneAutoWorkspace` |
| `Herdr_ready` | 1 caller, 2 panes | violates `ReadyMeansServer` |
| `Files_mixed` | 2 calls that write, each in any way, and a reader, symmetry | `TypeOK`, `TextNeverLost`, `ReadsWholeText`, `NewFileOnce`, `SuccessMeansWritten` |
| `Files_atomic` | 1 replacement | violates `ReplaceAtomic` |
| `Tunnels_all` | 2 callers, 2 tunnels, 1 connection, fairness | `TypeOK`, `TableIsListeners`, `CloseAllEmptiesTable`, `LoopOutlivesNoTunnel`, `LoopEnds`, `ForwardingEnds`, `CallsReturn` |
| `Text_ops` | texts of 3 characters of 3 kinds and of 4 of 2 kinds, 1 edit, 1 reader; 13 lengths and 13 requests around the limits | `ShownIsFound`, `PagesInOrder`, `PagingAdvances`, `SurgicalEdit`, `TruncationHonest` |

Why the bounds are enough:

- *Callers*.  The races of the code are between two accesses, by two callers; a
  third caller is a second environment.  The theorems of section 5 have no such
  bound.
- *Connections* (`MaxConns`).  Three are the one that was there, the one that a
  call makes, and the one that replaces it.  Behaviours that would dial once
  more fail to dial; that is also what a host that is out of sessions does.
- *Commands* (`MaxTasks`).  Two, because commands share only the number and the
  registry.  *Exit codes* (`Codes`): the code tells 0 from the others; with two of
  them markers and status can agree, differ either way, and be missing.
- *Panes* (`MaxPanes`).  The default, the other one, and one that is made to
  replace them.  *Polls*: the first and the last round are the only ones the
  code tells apart.
- *Calls on a file*.  A write and an upload that may overwrite the file take the same
  steps, and the instance has the write.  Each call runs once: two writers in all interleavings and
  a reader that sees all their intermediate states.  A call that follows
  another one is one that starts when the other is done.
- *Tunnels*.  Two, so that `CloseAll` has one to close while another is being
  opened; one connection, since connections meet only in the lock of the client.
- *Texts*.  The code tells apart a line break, a carriage return and everything
  else, and lines before, in and behind a range; four characters give three
  empty lines in a row, or two lines with something on them.  One edit, since the
  edited text is again a text, and most of those are among the initial ones.
  *Bytes of a page*: the prefix of a line has ten, so 11 holds one short line and
  21 two; 0 stands for the default, which holds all.
- *Blocks*.  Two are enough for a text that is neither the old nor the new one.
  *Dropped*: a server that fails to store the last block leaves a partial text; that
  it stores none leaves no whole text either, which is all the properties tell apart.
  The theorems hold for any numbers.

`Files_*` allow deadlock because each call runs once and then all is over, and
`Text_ops` because the reader may be done and the one edit made.  In the other
runs a caller can always call again.  `Client_conc` uses symmetry of
callers and hosts, and `Files_mixed` of the two calls that write; both
check safety only.

Properties that hold for one caller but not for two are checked with one caller
and say so in their comments: two calls that change the host, the directory or
the password at the same time do disturb each other (section 6).

## 4. Fairness

- `Client`, `HerdrManager`: strong fairness of each caller's steps after a call
  has begun.  The Go scheduler runs every goroutine that can run; `sync.Mutex`
  hands itself to a waiter that has waited for more than a millisecond, so a
  caller that again and again finds the lock free gets it: that is strong
  fairness.  It also says that every exchange with the host ends.  The code gives
  `Connect` a timeout for TCP only, and `ExecRaw` and the SFTP requests have none
  of their own; for a host that accepts a connection and stays silent for ever
  the liveness properties claim nothing.
- `Tasks`: weak fairness of each caller and each collector.  A step that waits
  for the command is enabled only when it has ended; nothing forces a command to
  end, and `RunReturns` holds because of the timer.
- `Tunnels`: strong fairness for calls and for connections that wait for
  `Client.mu`, weak fairness for the accept loop and the copying goroutines.  Dial
  and `SSH()` end, as above.  Nobody has to connect, `Accept` may fail any number
  of times, and neither side of a connection has to end by itself.
- The environment (connections that drop, commands that end, panes that exit,
  a server that comes up) is never fair.

## 5. What is proved

`ClientProofs` is checked by TLAPS for every finite or infinite set of workers
and hosts, every assignment of operations, and any number of connections, from
`ClientAssumption` alone (the markers `NoHost` and `Free` are not hosts and
workers, and `MaxConns` is a positive number).

- `TypeCorrect`: `Spec => []TypeOK`.
- `HandlesSound`: `Spec => [](HandleNeverNil /\ HandleNotOlder)`.
- `SlotConsistent`: `Spec => []PairConsistent`, and `ConfiguredHost`:
  `Spec => []InstallsConfiguredHost`.

Only the first of these is inductive.  The inductive invariant `IInv` is

- `TypeOK`, and
- `LockInv`: a worker holds `c.mu` exactly when it is at one of the four places
  between taking and releasing it.  This is what makes `PairConsistent`
  inductive, because two workers cannot both be between the two assignments of
  `Connect`; and `InstallsConfiguredHost`, because the configuration changes
  only under the same lock.
- `SlotInv`: `sftpClient <= sshClient <= dialed`; what a call has seen is not
  newer than the SFTP client, except in `Connect`; and a call past
  `EnsureConnected` finds the fields set.  Connections are numbered in the order
  in which they are made and the fields only grow, which is why the unlocked
  read can be late but never goes back.
- `CallInv`: a command never runs with a half-written directory.

`InitIInv` and `NextIInv` prove that it is inductive, one step per action and
under it one per conjunct; the theorems follow with PTL.

Four theorems hold for one caller at a time, and assume `Solo`, that there is one
worker: `RunsAtHome` (`[]RunsOnItsHost`), `StateAtHome` (`[]StateOfItsHost`),
`NoneAbandoned` (`[]NoWorkingConnectionAbandoned`) and `CwdKept` (`DirectoryKept`, an
action property: a reconnection does not change the directory, and a command changes it
only if it goes elsewhere, was given a directory, or had to start in `/`).  With
two callers they are false (section 6); with one, connections still drop and are
replaced at any moment, and hosts change between the calls.  They rest on `SoloInv`
beside `IInv`: a connection that works is the installed one and leads to the
configured host (`UpInv`), because `ConnectTo` closes it before the host changes;
the manager, the directory and the password belong to that host from `SetMgr` and
`SetSudo` on, and the directory is set while a connection works (`FieldsInv`); what
a call has found out at a stage still holds there (`StageInv`), and so does what it
carries (`ArgsInv`).

`TasksProofs` is checked for every set of callers and any number of commands,
and any set of exit codes, from `TasksAssumption` alone (`MaxTasks` is a positive
number, 0 is an exit code).

- `TypeCorrect`: `Spec => []TypeOK`; in particular the numbers that are drawn
  never exceed the number of commands.
- `TaskFound`: `Spec => []AsyncTaskCanBeFound`.
- `ClosedOnce`: `Spec => []DoneClosedOnce`.
- `CompletionSound`: `Spec => []CompletedMeansEnded`.
- `CompletionFaithful`: `Spec => []ForegroundCodeFaithful`: the code returned is the
  command's wherever that is evident, and no failure that has reached the client is
  returned as 0.  Where it is not evident the code returned may be wrong (section 6).

The inductive invariant adds to the properties themselves

- `OwnerInv`: a `RunCommand` that has not returned owns its task: nobody else
  does, no collector has been started for it and `DoneChan` is open.  The owner
  hands the task to the collector and returns in one step, which is why the two
  never both close the channel.
- `CollectInv`: the collector closes the channel once, after the command ended.
- `IdInv`: the counter equals the number of tasks that have drawn a number, and
  these numbers are distinct.  It needs cardinalities, because `Register` draws
  the number and makes the entry in two steps and the order of the entries is
  not that of the numbers.
- `RegInv`: a task whose number has been drawn is in the registry, except
  between the two steps.

The two refinements are proved for the same constants.

- `ClientImplementsSlot` (`ClientSlotProofs`): `Spec => SlotImplemented`.  Each
  action of `Client` is a step of `ConnectionSlot` or leaves the slot as it is; the
  invariant `IInv` of `ClientProofs` gives what the step needs to know: that a
  call past `EnsureConnected` has been vouched for, and that a connection it reads
  is not older than that.
- `TasksImplementFuture` (`TasksFutureProofs`): `Spec => FutureImplemented`, from
  the invariant of `TasksProofs` and one more, `FutureInv`: who has not been told
  is a caller that still owns the command, and a collector works only for a
  command whose starter has been told that it goes on.

`TextOpsProofs` is checked for any set of characters and any texts, ranges, limits
and edits over it, from `TextAssumption` and `LimitsAssumption` (texts and arguments
are sequences of characters, nobody replaces the empty string, numbers of lines and
bytes that a caller may leave out are given as 0).

- `PagesSound`: `Spec => []PagesInOrder`.  Its inductive invariant is `PagesInv`: a
  reader that has still a page to come has the lines before it, and asks for the
  first line or for one that exists.
- `PagingMoves`: `Spec => []PagingAdvances`.  A page ends with the last line that
  fits (`Cut`), and a line that fits alone is one of them (`OneLine`).
- `CopiedIsFound`: `Spec => []ShownIsFound`.  A line without its carriage return is
  how the line begins, so are the joined lines of the page (`JoinBegins`), and `Count`
  finds what a text begins with (`BeginningCounted`).
- `TruncationSound`: `Spec => []TruncationHonest`.  The head and the tail together are
  what was asked for or twice the minimum (`Kept`), which is all that one call needs
  (`OneRead`).

What is not arithmetic in it is that edits of texts are texts (`ReplacedType`), and
this rests on what the recursive functions in `Places` and `Join` are.  Neither that
such a function exists nor an induction over it can be cited from the library, whose
theorems take an operator as a parameter.  `RecursionExists` takes the step as a
function instead, `UpTo` is induction for the members of a set, and both follow from
the least element of a set of numbers (`LeastNumber`).

`HerdrManagerProofs` is checked for any number of callers, panes, workspaces and
rounds of waiting, from `ManagerAssumption`, whatever calls each caller makes, and
with panes and servers that end at any moment if `Outside` is TRUE.

- `TypeCorrect`: `Spec => []TypeOK`.
- `TypedOnce`: `Spec => []CommandTypedOnce`, and `NamedOnly`:
  `Spec => []NamedPaneOnly`.  A call types at several places, in `RunInPane` twice,
  and goes through `EnsureReady` in between.  `CallInv` says that a call that has
  typed is past every place that types, where `At(w)` looks through `EnsureReady`
  to the place that comes after it; and that a call for a named pane is at none of
  the places that look for another one.
- `OneWorkspace`: `Spec => []OneAutoWorkspace`.  `AutoInv` numbers panes and
  workspaces in the order in which they are made and says that a caller about to
  create the workspace has seen that there is none; `LockInv`, that `m.mu` is held
  from the snapshot to the creation, by one caller.
- `StaleRecovers`: `Alone` implies `Spec => []StaleDefaultRecovers`, where `Alone`
  says that there is one caller and that panes end only when it closes them.  Others
  can close the pane between the list and the second try, and then the call does
  fail.  `StaleInv` says that a call that has found its pane has been through
  `EnsureReady`, so that the list that follows does not start it again; that the
  pane of the second try is there, so that `pane_not_found` is left to a second try
  that has no list or an empty one; and that a call about to run a command has no
  default pane to compete with the pane it runs it in.

`RemoteFilesProofs` is checked for any finite set of calls of any kinds, from
`FilesAssumption` (0 is a number of dropped blocks), with requests that fail and connections that are lost anywhere.
A text has two blocks in the model (section 2), and so it has in the theorems.

- `TypeCorrect`: `Spec => []TypeOK`.  That the inodes suffice is `MadeInv`: it counts
  the calls that are past the places where they make one.
- `SuccessWritten`: `Spec => SuccessMeansWritten`, an action property.  `CallInv`
  says that what has been written through the handle of a call is the first part of
  its text; `NameInv`, that an inode has one name and that nobody else has the
  temporary file of a call open; `SoleInv`, that a call that no other one overlaps
  has the file to itself; `OverlapInv`, that two active calls are overlapped.
  The exception is a call in `unsaved`: what a server drops at a CLOSE is lost
  without a word.
- `NewOnce`: `Spec => []NewFileOnce`, with `NewInv`: while nobody removes files, an
  upload that has made the file is the only one, and the file stays.
- `WholeRead`: `Spec => []ReadsWholeText`, with `ReadInv`: the file and everything
  that is being read is whole, also after the file has been removed or renamed over.
  It and `NeverLost` are about servers that have dropped nothing at a CLOSE.
- `NeverLost`: `Spec => []TextNeverLost`, with `KeptInv`, which says for every place
  of a replacement which of the two files is whole.

`TunnelsProofs` is checked for any sets of callers, tunnels and connections.

- `TypeCorrect`: `Spec => []TypeOK`.
- `ListedAreListening`: `Spec => []TableIsListeners`.  `OpenInv` says of a tunnel that
  listens and has no entry yet that one `Open` is about to make the entry, and
  `CloseInv` and `LoopInv` what `Close` has done at each of its steps; `LockInv`, that
  one caller at a time is in them.
- `LoopsOutlive`: `Spec => []LoopOutlivesNoTunnel`.
- `SessionEndsTunnels`: `Spec => CloseAllEmptiesTable`, an action property: who closes
  the session has still to close everything that is in the table, because nobody
  inserts while it holds the lock.
- `SendNeverBlocks`: `Spec => []SendHasRoom`, which is why the goroutines of a
  connection end: `SentInv` counts the values in the channel.

Before each proof TLC has checked the inductive invariant on the instances of the
runs.

Only model-checked: all liveness (`CallsReturn`, `EndedIsCollected`, `RunReturns`,
`LoopEnds`, `ForwardingEnds`), because liveness under fairness and ENABLED are out of
reach of the installed provers; and `SurgicalEdit` of `TextOps`, which needs that
splitting a text and joining the parts gives the text back, and how the lines of an
edited text follow from those of its parts.

## 6. Where the code and its documentation disagree

With a run, and listed in `PROJECT.json`:

- *A connection survives `remote_disconnect`* (`Client_disconnect`,
  `client.go:170`).  `EnsureConnected` reconnects whenever the SFTP `Getwd`
  fails, and `Connect` overwrites the clients without closing them.
- *Exit code of finished tasks* (`Tasks_exitcode`, `exec.go:168`).  A command
  that ends within the wait is kept as completed with exit code -1.
- *`EnsureReady` after a failed start* (`Herdr_ready`, `manager.go:132`) returns
  nil at once.
- *Replacement is not atomic* (`Files_atomic`, `sftp.go:223`).

Met while modelling, described here only:

- The error of CLOSE is ignored: a replacement whose blocks the server could not
  store removes the original, renames what is left over it and reports success
  (`sftp.go:216`, `:223`); `WriteFile` and `UploadFile` report success too.
- A command that sends the shell's own output elsewhere (`exec >log 2>&1; make`)
  returns 0 whatever its status is, because the markers are in the log and the
  wrapper ends with 0; so does one whose session is lost or killed before anything
  of its end arrives (`exec.go:175`).
- A directory that is gone when a command starts becomes `/` for the commands after
  it too (`exec.go:38`, `:182`).
- Two `remote_connect` calls at once: the configuration that one sets can be the
  one that the other dials, and both report success (`client.go:112`).
- A command that never changes directory stores the directory it started in, and
  so undoes a `cd` of a command that ran beside it (`exec.go:183`).
- "Optional sudo password override for this command"
  (`tools/register.go:200`) is stored for all later commands (`exec.go:89`).
- `send_input` writes to the stdin of the session, while the wrapped command
  reads the script from a pipe (`exec.go:61`, `tools/register.go:370`).
- `CleanupSession` stops nothing when the session has no name and reports
  success (`manager.go:624`).
- The retry of `RunInPane` in another pane types the command but not the `cd`
  (`manager.go:393`).
- `WriteFile` without overwrite asks first and opens with `O_TRUNC` later
  (`sftp.go:257`); `UploadFile` uses `O_EXCL`.  Two writers can both succeed.
- A line range that starts after a single empty line loses the line break
  (`sftp.go:160`; `SurgicalEdit` names the exception), and a range that ends more
  than a line before it starts makes the handler panic (`sftp.go:165`).  A worker of
  the server recovers it and answers with an error that has no id
  (`vendor/github.com/mark3labs/mcp-go/server/stdio.go:459`); a call that the server
  runs itself because its queue is full (`stdio.go:601`) ends the program.
- A tunnel that is being opened while `remote_disconnect` runs stays open after
  it, and a connection accepted before it may reconnect the client
  (`tunnel.go:67`, `:95`).
- `SmartTruncate` "truncates output to maxLines" (`text.go:16`) and keeps ten
  lines when fewer were asked for (`text.go:28`).
- A line that is longer than `maxBytes` is never shown: the page before it says
  that the text goes on and the next page is empty (`sftp.go:95`).
- Lines copied from a view of a file whose lines end with a carriage return and a
  line break are not found by a replacement (`sftp.go:58`, `:172`); nor are lines
  with bytes that are not UTF-8, which the JSON of the answer replaces.
- From line 1,000,000 on the prefix of a line is longer than the ten bytes that
  `PrintedBytes` counts (`sftp.go:92`).
- `ReadPane` asks herdr for a number of lines only above 100 (`manager.go:485`); the
  text that `TruncationHonest` speaks of is what herdr returned.
- A reconnection that runs between the `Close` of `ConnectTo` and the change of
  configuration leads to the old host, and nobody closes it when the new
  connection is installed (`client.go:75`, `:170`).
- `SetDefaultPaneID` in the retry of `RunInPane` may overwrite the default pane
  that another call has made meanwhile (`manager.go:392`).
- `remote_terminal_wait` looks up the default pane twice, for the wait and for the
  output it returns; they may be different panes (`tools/terminal.go:234`).
- `AgentPrompt` reports the status "done", and `AgentWait` "idle", when the status
  could not be read (`agent.go:120`, `:182`).
- A default pane that has been closed stays the default; `SendKeys`, `SendText`,
  `AgentStart` and `WaitOutput` fail until a `RunInPane` has replaced it
  (`manager.go:585`).

## 7. Not modelled

- Content of commands, quoting, escaping, host keys and authentication methods:
  strings without control flow that the properties depend on.
- Output of tasks: buffers that only grow, with their own lock.
- Daemon detection and the text of the wrapper: the wrapper is modelled by where
  it starts, by the markers that arrive and by the status that the session reports.
- Bytes that are not UTF-8, which the answer of `remote_view_file` replaces, and files
  of a million lines: see section 6.
- `StripAnsi`, a regular expression over the output of a pane; what is on the
  screen of a pane, and what an agent does in it.
- The local bridge, configuration, argument parsing, formatting
  of answers, the stdio server: see the notes in `PROJECT.json`.
- A host that never answers: see section 4.

## 8. Plan

Order of work: the client first, because everything depends on it; then what
runs on it.

1. `Client` and `ClientProofs`, `Tasks` and `TasksProofs`, `HerdrManager` with the
   agents, `RemoteFiles`, `Tunnels`: done.
2. `TextOps` and `TextLimits`: done.
3. `ConnectionSlot` and `TaskFuture`, and the proofs that `Client` and `Tasks`
   implement them: done.
4. Proofs about `HerdrManager`, `RemoteFiles`, `Tunnels` and the single caller of
   `Client`, and about the invariants of `TextOps`: done.  Left is `SurgicalEdit`, with
   the lemmas of `TextOpsProofs` on `Places` and `Join`: `Join(Split(t, sep), sep) = t`,
   and the lines of a text that is put together from two.
5. Compositions: the handler of `remote_connect` as a whole (`ConnectTo`, the
   identity command, the report).  A forwarded connection that asks `Client` for
   its connection, also after a change of host, is part of `Client`.
