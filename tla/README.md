# A TLA+ model of vmstated

vmstated is a daemon that starts, watches, restarts and stops bhyve virtual
machines. This directory holds TLA+ specifications of its core, the TLC
configurations that check them on small instances, and proofs that TLAPS checks
for every instance. Paths below are relative to `src/src/`.

## 1. The system

### Components

| component | state | operations | how it meets the others |
|---|---|---|---|
| `process_state_vm` (`libprocwatch/process_state.c`) | the state of one VM, `processid` | `psv_startvm`, `psv_stopvm`, `psv_rebootvm`, `psv_onexit`, `psv_failurestate`, `psv_resetfailure` | called by the director from four threads, without a lock around the state |
| `libstate` (`state_handler.c`, `state_node.c`) | the current state node | `sth_transitionto`, `sth_findtransition` | looks a transition up, runs the hook of the target, stores the target |
| `state_change.c` | none | `sch_onenter`: run a hook script and wait for it | may take arbitrarily long and may fail |
| `process_def.c` | argv | `pd_launch_redirected`: fork, exec bhyve | fork may fail |
| `bhyve_director.c` | list of VMs, `rebootlist`, stamps of recent starts, kqueue | `bd_startvm`, `bd_stopvm`, `bd_resetfailvm`, `bd_runautostart`, `bd_requestreboot`, the kqueue thread, the restart thread, `bd_recv_ondata` | owns the `process_state_vm`s; `bd->mtx` protects the lists only |
| `socket_handle.c`, `reply_collector.c` | connections, their buffers, subscribers, accept and handler threads | accept, read and frame a command, call the subscribers, send the replies | calls `bd_recv_ondata` through `vmstated/subscriber.c` |
| `socket_connect.c`, `command_sender.c`, `vmstatedctl` | one connection | send one command, collect the reply | the client of the socket |
| `log_director.c` | redirectors of the VMs' output, clients, a kqueue thread | add a client, read a pipe, write a file | owned by the director |
| configuration (`bhyve_config*.c`, `bhyve_uclparser*.c`) | the store: a list of configurations | `bcs_walkdir` reads the directory, an iterator hands them out | `bd_new` makes a VM of each; changed by nobody once started |
| `libtranslate`, `libconfig` (`config_core.c`, `check*.c`, `output_bhyve_core.c`), `config_generator.c` | none; bhyve's configuration files | `ptc_translate`, `check_parameters_ok`, `obc_new`, `obc_combine_with` | each start in the director generates a file, which bhyve reads later |
| `vm_info.c`, `bhyve_command.c` | none | encode and decode commands and status replies | the socket hands the director's status to `vmstatedctl` |
| `ident_keeper.c` | sorted list of reservations, next fresh identifier | `ik_reserve`, `ik_validate_reservation`, `ik_dispose` | a library object with a mutex of its own |
| `vmstated_main.c` | pid file, socket path, a pipe to the parent, the mutex and condition of the signal handler | check for a running daemon, fork, start everything, `bd_runautostart`, wait for a signal, clean up | several invocations meet in the files; its main thread starts VMs at boot |
| `daemon_config.c`, the parser in `libconfig` (`parser_reader.c`) | | | not used by the daemon |

### What is hard about it

* **No lock around a VM's state.** `sth_transitionto` looks the transition up,
  runs a script and stores the target. A second thread that works on the VM in
  between is not noticed. What keeps the threads apart is a hand-over: the
  thread that starts a VM registers its process with the kqueue as its last
  act, the kqueue thread works on the VM once the process ended and puts it on
  the reboot list, and the restart thread takes it from there. Commands from
  the socket take no part in this.
* **Two ways to learn of an end.** `bd_startvm` probes the new process with
  `waitpid`; the kqueue reports it otherwise. Reported twice, the end would
  walk the next incarnation of the VM down; reported never, the VM would be
  "running" for good.
* **Clean-up that can fail itself.** Hooks can fail in the middle of a walk
  through several states; the code walks on to FAILED with more hooks.
* **A condition variable used without its condition.** The restart thread waits
  whatever the list holds.
* **A limiter without a transaction.** Counting the recent starts and adding one
  are two steps, on a list of stamps that no lock protects.
* **Events that are disabled while they are handled.** Each event of the socket's
  kqueue must be enabled again, whatever happened to the connection meanwhile.
* **A stream without lengths.** Where a command ends is decided by zero bytes, by
  the parser and by the code that drops the command; they have to agree.
* **A free on an event.** The log director frees a client when its pipe ends, in
  another thread than the one that is still launching the program.

* **Settings that pass through four representations.** A UCL value becomes a
  field through a table of offsets, a parameter, a line, and part of a file that
  other lines follow; lists are built by insertion at the head. The file is
  written by each start, also one that is rejected later, and read by bhyve at
  some time after the launch.
* **A pid file as a lock.** Nothing but a file and `kill(pid, 0)` keeps a second
  daemon away, and daemons crash between its creation, its writing and its end.
* **Signal handlers that lock.** `vmstated_sigrecv` locks a mutex and signals a
  condition, in whichever thread the signal hits, while main may hold that mutex,
  destroy it, or not wait yet.

`PROJECT.json` lists each hazard at its line, with the properties for it.

### What makes each component correct

* `process_state_vm`: at most one process; when no operation is under way, the
  state tells whether there is a process, and `processid` is the right one; no
  operation leaves the table of transitions or parks the VM half-way.
* director: one thread at a time works on a VM; each exit is reported once;
  a running VM is watched; the reboot list is a list and holds the VMs that
  wait; the limiter limits; exits are received, walks end, reboots happen.
* socket server: a command is handed on once, whole; every command gets a reply,
  and its own; no connection loses its event; every client is accepted.
* log director: everything a program writes is logged, once; a client that left
  is not touched any more, and every client leaves in the end.
* ident_keeper: no identifier has two holders; a free one is found.
* configuration: a name reaches the VM its block describes; bhyve boots with the
  settings of that block and its base file, of nobody else and not half of them;
  the parameters obey bhyve's rules; consoles can be reached; the status that is
  shown is the director's.
* the daemon: one at a time; whoever was told that it runs can reach it; it
  leaves nothing behind; a parent hears of its daemon; SIGTERM ends it.

## 2. The modules

```
ProcessStates <- ProcessState <- PsvClients        <- MCPsv
                      ^
                      +------ Director <- DirectorProperties <- MCDirector
                      |                          ^
              ProcessStateProofs <-------- DirectorProofs
                      ^
                      +------ PsvClientsProofs -> PsvClients

IdentPool <~ IdentKeeper <- MCIdentKeeper      (<- EXTENDS, <~ INSTANCE)
                   ^
            IdentKeeperProofs

SocketBuffer <- SocketServer <- MCSocketServer
                     ^
             SocketServerProofs

LogDirector <- MCLogDirector
     ^
LogDirectorProofs

BhyveConfig <- BhyveParameters <-+
     ^                           +- Configuration <- ConfigurationProperties <- MCConfiguration
     +-------- VmInfo <----------+                         ^
                                                  ConfigurationProofs

Daemon <- DaemonProofs
```

### ProcessStates

The states, the transition table and the chains of `sth_transitionto` calls that
the operations make. `FromAny` is the row whose source is NULL.

### ProcessState

`vmstate`, `processid`, `proc` (the kernel's process table) and `call` (the
operation each thread is in). An operation is a frame: the place in the
operation (`pc`), the target states left to enter (`todo`) and where to go on
success and on failure (`then`, `else`). `StartVM`, `StopVM`, `OnExit`,
`FailureState` and `ResetFailure` give the frame an entry point begins with; they
read the state once, as the code does. `Lookup` and `Enter` (or `HookFails`) are
the two halves of `sth_transitionto`. `Launch`, `LaunchFails`, `Kill`, `ClearPid`
and so on are the places where the code does more than walk. A stop or a reboot
that was given an `exitcode` waits for the process it signalled (`Collect`);
without one it returns (`Signalled`), as vmstated has it do. A client may do either.

A wait status is the pair of WIFEXITED and WEXITSTATUS; the latter is 0 for a
process that a signal ended, which matters. `Kill` is one step although the code
reads the pid, unlocks and signals: what another thread does in between commutes
with one of the two. A process is collected once, by whoever waits first, and a
second wait fails; `waited` is one that a stop has collected and that was not
reported to the object yet. Pids are not reused.

### PsvClients

The object as `libprocwatch/tests/test_process_state.c` uses it: clients call the
operations, wait for the process and report its exit. With one thread it is the
sequential contract of the object, without director. Such a client resets a
failed VM only when all its processes have ended and been reported, since
`psv_resetfailure` itself asks for nothing; the director's resetfail comes at any
time.

### Director

Four threads: `cmd` (the socket handler; the accept thread joins each handler
before it accepts again, so commands come one at a time), `boot`
(`bd_runautostart`), `kq` and `rb`. `job` is the place in `bd_startvm` (`count`,
`stamp`, `generate`, `started`, `register`, `died`) or `finish`, when a single
call remains. `recent` counts the stamps inside the window of `maxrestarttime`;
`Expires` is time passing, and takes the stamp off at once which
`bwv_countrestarts_since` would take off when it counts next. No lock protects this
list: while two threads are about to count or stamp the starts of one VM
(`Racing`), a stamp may be lost or one too many dropped, and since the tail pointer
may then be left in a stamp that is not on the list, so may each later one
(`raced`). `rebootlist` is the STAILQ with its links, so that
inserting an element twice does what it does to the pointers. `watched` and
`kevents` are the knotes and the fired events. A critical section of `bd->mtx`
that makes no call is one step.

`kill(pid, 0)` in `bd_startvm` cannot fail, since nobody else waits for the
process, so its branch has no action. The fork of hook scripts does not count
against `Pids`.

### DirectorProperties

What the director promises. A thread that has asked for the reboot, or has made
the last call of its job and only returns, no longer counts as working on the VM.

### IdentKeeper, IdentPool

`ident_next` and the list of reservations, and what an identifier pool promises.
Each operation holds the mutex while it touches the state and is one step.
`IdentKeeper` implements `IdentPool` with `reserved <- ToSet(reservations)` and
`granted <- Len(reservations)`; counting makes a second grant of an identifier
differ from no grant. `check_ident` is the environment's choice.

### SocketBuffer, SocketServer

`SocketBuffer` has the operations on one connection's buffer as operators:
`ReadData` (`sh_read_data`), `TryParse` (`sh_try_cmdparsing`) and `DropBytes`
(`shc_dropbytes`). A byte is zero or the number of the message it belongs to, so
that a message cut at the wrong place shows. `FirstZero` searches for the end of
the data in the whole buffer, as the code does, and `DropBytes` leaves the cells
behind the moved bytes as the overlapping `bzero` and `memcpy` leave them.

`SocketServer` is the server between its clients and its listeners. `main` is
where `vmstated_launch` is in `sh_start`, `sh_stop` and `sh_free`; `thread` is
the accept thread together with its handler, which it joins at once. Each
branch of the handler is an action, and the one that serves a command is cut where
others can see what it does: `Accept`, `Disconnect`, `ReadAndParse`, `ReplyError`,
`CallListeners`, `Reply`. `listener` and `watch`
are the events, armed or disabled; `conn` is `struct socket_connection` with its
reply collector. The listener is `bd_recv_ondata`, reduced to its `Outcomes`:
0 or an error, with a short reply, data or nothing for the collector. A client
writes a command at once, waits for a reply, and may leave at any time; a write
to a client that left ends the daemon, by SIGPIPE.

Two facts about the platform are used. An event that kevent returns does not
carry EV_ENABLE (`EV_EOF == event.flags` in `log_director.c` relies on the same),
so that `event.flags |= EV_DISABLE` disables it. And the freed `sct` still has
its contents when the handler uses it a few lines later; in `sh_accept_thread`,
where more happens in between, the use may end the daemon (`ShutDown`).

### LogDirector

The launching threads with their redirectors, the pipes, the programs and the
kqueue thread. `holders` says who has a write end open: programs inherit those
that are open in the daemon when they are forked, for none is close-on-exec.
`clients` is the list of a redirector; LIST_INSERT_HEAD is two steps (`Link`,
`Insert`), for the kqueue thread removes from the list without the mutex.
`ldrd_accept_redirect` notes the close (`Accept`) before it closes (`Close`), and
`FreeClient` acts on that note. Of the output, only the amount counts.

### BhyveConfig, BhyveParameters, VmInfo

Pure operators. `BhyveConfig` goes from UCL blocks to the store: `bc_nvlist2config`
is the mapping table, `Converted` what each type makes of a value (a number in 16
bits wraps, a value of another type is NULL, 0 or false), `bcs_parseucl` the
insertion of a file's blocks. Of UCL itself, which is external, only the values
it hands out count. `cores` is mapped as a string onto a `uint16_t`, so that what
is read back is half an address; `Addresses` are those malloc may return.

`BhyveParameters` is the translation (`ptc_translate`), the rules (`bpchecks`, one
operator per rule), the lines in the order of the calls (`obc_set_core`) and in
that of the file (`obc_new`), and what `obc_combine_with` has written after some of
its texts, when the writes of others returned -1 (`Written`). `VmInfo` is the status
record as cells of memory with the table of their offsets: the pid is mapped as 64 bits at the place of the 32 bits
of the state, and `StatusExact` shows that this works out.

### Configuration, ConfigurationProperties

The daemon from the configuration directory to the bhyve that runs: `bcs_walkdir`
entry by entry, `bd_new` with the store's iterator, and the starts of several
threads: `Begin`, `Open` (the file is truncated), `obc_combine_with`,
`bwv_linkconsoles`, `Launch`; then `Boots`, when bhyve reads its file, `Ends` and
`OnExit`. What the limiter and the state machine do in between is in `Director`
and `ProcessState`; here a VM has four states, and a start may fail in any.

`obc_combine_with` writes a text, then a newline, and so on. A write that is cut
short, a newline that fails or a failing `fchmod` ends it with an error, after any of
the numbers of texts in `Stops`. The write of a text that returns -1 passes for
success, since the result is compared as unsigned, and whatever is written next
follows: `Unnoticed` has the sets of texts this may happen to, and `lost`, which no code
keeps, notes that a file misses one. `symlink` and `unlink` may fail for any
console in `Unlinkable`, before or after the old link is gone, and the VM is
launched all the same; `broken`, a history variable, notes where.
`ConfigurationProperties` says what the administrator wrote (`Says`, on the blocks
themselves) and compares bhyve's file, the rules, the links and the status with it.
`BootsAsConfigured` promises the settings of the block where no text was lost; where
one was, a setting may be missing or be the base file's, but never another's.
`ConsolesLinked` is about the consoles in front of the first whose link failed.
`ChecksAreExact` is about a checker that the daemon itself never calls.

### Daemon

Invocations of vmstated that share a log directory, a pid file and a socket path.
One action per step another process, a signal or a crash can come between;
`errnoSet` is what `stat` left in errno, which `check_already_running` reads.
`parent` is the process that forked and waits on the pipe; it holds the write end
open itself, so the daemon's death tells it nothing. `Fork` covers main from `pipe`
to the second fork: `pipe` may fail, which main notices, and so may either fork,
which it does not: there is no daemon then (`unforked`), and the parent waits.
`handler` and `sigmtx` are the signal handler in main and in any other thread, with a
mutex that reports its misuse. `Signal` may come whenever the daemon runs, and so may `Crash`, which
includes what comes of freeing the configurations under threads that could not be
stopped. `overlapped` is a history variable: an invocation came before the one
before it was done starting.

### Faulty variants

A definition named `Faulty...` is what its namesake would be with a plausible
bug: a dropped guard, an off-by-one, a missing reset. Nothing refers to it. For
each property, substituting one of them makes TLC report that property as
violated; `PROJECT.json` pairs them under "mutants".

## 3. What TLC checks

Every VM is a model value, `Pids` are the processes that can be forked before
fork fails, and they are symmetric in runs without liveness. Exit codes: 0 is a
reboot, 1 and 2 power-off and halt, 3 stands for all codes from 3 on.

| run | instance | checked |
|---|---|---|
| `PsvOneClient` | one client, 3 processes, all exit codes and signals, stops that wait and stops that do not; every hook on the way up, in a stop and in a reboot may fail, but none of the clean-up | `PsvTypeOK`, `SingleProcess`, `StateMatchesProcess`, `TableSteps` |
| `DirectorUnattended` | two VMs that reboot or fail, both autostarted, no commands | `TypeOK`, `OneWorker`, `SingleProcess`, `RebootListSound` |
| `DirectorFaults` | one VM, every way to end, failing configuration, failing fork, failing hooks before the launch, resetfail; under fairness | `RunningIsWatched`, `StartsLimited`, `ParkedAtRest`, `ExitsReceived`, `WalksEnd` |
| `DirectorCommands` | startvm and stopvm at any time against a rebooting guest, limit 0 | `ExitReportedOnce` |
| `IdentKeeper` | six identifiers, malloc may fail | `TypeOK`, `ListSound`, `FreeOneFound`, `PoolSpec` |
| `SocketServer` | two clients, a buffer of 8 bytes, names of 2: commands with and without data, packed data, a name and data that are too long, no command at all; under fairness | `TypeOK`, `DeliveredOnce`, `AnswersItsOwn`, `EventNotLost`, `Replied` |
| `LogDirector` | two launchers, two programs that write up to twice; under fairness | `TypeOK`, `OutlivesLaunch`, `Released` |
| `Configuration` | seven directories of up to three VMs, four base files, two threads that start VMs; the writes of the base file and the third line may fail unnoticed together, the generator may fail after four texts, and the second console may not be linked or unlinked | `TypeOK`, `NamesResolve`, `BootsAsConfigured`, `TranslationObeysRules`, `ChecksAreExact`, `ConsolesLinked`, `StatusExact` |
| `Daemon` | an invocation that forks and one in the foreground, failing forks, two signals each, crashes; under fairness | `TypeOK`, `OneDaemon`, `SuccessMeansServing`, `NothingLeft`, `StartIsHeardOf`, `TermEndsIt` |

Why the bounds are enough: a VM passes through at most `MaxRestart + 1` starts
in a window, and `Expires` lets it start again and again until fork fails, so
two or three processes show a start, a restart and a start that fails. Two VMs
are the least for a list with a middle, and make the restart thread take a
second VM before it waits again. Six identifiers give lists with a gap at either
end and in the middle. A buffer of eight bytes holds the longest well-formed
command with one byte to spare, so that each way to overflow it is close; the
scripts have one to three commands, the least for something to be left over from
the one before; `ConversationsAssumption` names what such scripts have in common. Two
programs are the least for one to inherit the other's pipe,
and two writes let one be read and one remain. The configuration directories
have between them every setting, values of the wrong type and beyond 16 bits, a
nameless and a fifth console, two blocks of one name, two VMs of one base file,
and base files that are missing, empty and a whole page; one extra slot of each
type at each of four places decides every rule. A console that fails in the middle of
the list has one in front and some behind it, and a file that misses its base and one
line in the middle is neither empty nor a beginning of the right one. Two invocations are the least for
a second daemon, in either order, and one that crashed before one that starts;
two signals meet in one handler's mutex. The only counters are bounded by these
constants; no state constraint is used.

`CHECK_DEADLOCK FALSE` appears where the system really may stop: in the
IdentKeeper run `ik_reserve` returns with the mutex held when malloc fails, in
the socket runs clients leave and the daemon ends, in the log runs every program
has been launched and has ended, in the configuration run a daemon without
configurations exits, and in the daemon run the invocations come to an end. The other runs check deadlock: the
restart thread can always wake up or wait.

### Fairness

`FairSpec` assumes weak fairness of each thread's steps, which covers that hook
scripts end, and of the end of a bhyve that got SIGTERM. It does not assume that
guests end by themselves, that anyone sends a command, that time passes or that
`pthread_cond_wait` wakes up spuriously; each of these may help the restart
thread, none has to.

In `SocketServer` the thread of the server runs when it can, and `vmstated_launch`
calls `sh_start`; clients are free to send, wait or leave, and nobody has to stop
the server. In `LogDirector` the kqueue thread and the launchers that have begun
run; a program may run for ever. The scheduler gives each thread of the daemon
its turn, and none of the assumed steps waits for anything but its guard.

In `Daemon` the main thread, the handlers and the parents run when they can;
nobody has to start an invocation, send a signal or crash.

### Disagreements between the code and what it says

Three runs show one each; TLC's trace is the explanation.

| run | what happens |
|---|---|
| `DirectorLostWakeup` | a reboot requested while the restart thread is about to wait is never carried out |
| `SocketSecondClient` | the handler enables the new connection's event instead of the listening socket's, and no second client is accepted |
| `LogLastWords` | a program's last output arrives together with the end of its pipe and is thrown away |

The first client of `SocketServer` is accepted by the same code, and the second
waits in the listen queue: in that run two clients mean one that is served while
another waits.

Seen in the same models, without a run of their own:

* when the start_storage hook fails, `psv_startvm` puts the VM into FAILED and
  launches bhyve nevertheless; RUNNING is then refused, so that `bd_startvm` returns
  at 613-623 and never registers the process, which runs on unwatched
  (`RunningIsWatched` does not see it, for the VM is FAILED, and `ParkedAtRest` counts
  FAILED as rest);
* stopvm racing a guest that powers itself off leaves the VM in STOPPING with no
  process to wait for;
* a bhyve killed by a signal before `bd_startvm` probes it is taken for a guest
  that rebooted, for WEXITSTATUS is 0;
* once the largest identifier failed its validation, `ident_keeper` loses those
  that are freed at the end of the list, until it has none left to give;
* a startvm while `bd_runautostart` starts the VM launches a second bhyve
  (`SingleProcess` as an invariant of `DirectorCommands`);
* a failing stop_network hook parks the VM in STOP_STORAGE, for `psv_onexit` and
  `psv_failurestate` both give up at the first failing hook;
* when the hook of RUNNING or of STOPPING fails, the VM is FAILED while its bhyve
  lives, and a reset and a start make a second one;
* a guest that answers `psv_rebootvm` by powering off stays in
  PRESTOP_BEFORE_RESTART (no command calls `psv_rebootvm`);
* a startvm for a running VM is rejected but counted, until the limiter puts the
  running VM into FAILED;
* commands that start a VM while another thread starts it touch its list of stamps at
  once (`STAILQ_INSERT_TAIL` at 202 of `bhyve_director.c`, `STAILQ_REMOVE_HEAD` at
  228): stamps get lost, and the limiter has no bound any more;
* a VM started by command while it waits on the reboot list is inserted a second
  time when it reboots again, and then links to itself;
* a freed client of the log director can be linked into the list again, when it
  is freed between the read and the write of a LIST_INSERT_HEAD;
* a client that leaves before its reply is written takes the daemon with it;
* a command that cannot be parsed is answered twice, so that each later answer on
  that connection belongs to the command before (`test_socket_connect.c:96` sends
  on after one); what follows a BHYV command meets what is left of its data;
* a number of cpus above 65535 wraps, `cores` comes out as half an address, under
  the key "sockets", and `wire_memory` is never written; the manual's key "cpus"
  is "numcpus" in the code (`vmstated.8:110`), and the defaults it names for
  maxrestart and maxrestarttime (`vmstated.8:91`) are 0;
* a setting that must be a string and is not, or a console without a backend,
  ends the daemon with strncpy from NULL; so may a base file that cannot be
  mapped or that fills its last page;
* a write of text that fails with -1 passes for success, for it is compared as
  unsigned: when later writes succeed (a passing EIO, or a base file too long for what
  is left of the disk and lines that are not), bhyve boots from a file that misses it;
* the links of consoles end at the first that cannot be made, `bd_startvm` only warns
  and launches the VM, and a start that races the end of the VM leaves it running
  without them;
* `check_already_running` ignores the pid file when errno was set before; an
  empty pid file, left by a daemon that died before it wrote it, reads as pid 0
  and keeps every later daemon from starting;
* two invocations at once can both become daemons, and the first to end removes
  the other's socket;
* SIGTERM before the daemon waits is lost; a second one during the clean-up makes
  it exit with its pid file in place; and when a daemon is killed before it
  reports, or one of the two forks fails, the parent waits for ever.

This is why the passing runs are split as they are: each is the largest
environment in which its properties hold. Commands that race the hand-over break
`OneWorker`, `SingleProcess` and `StartsLimited`, so these are checked without them;
`ExitReportedOnce` survives commands and is checked, and proved, with them.

## 4. What is proved

| theorem | module | statement |
|---|---|---|
| `TypesHold` | DirectorProofs | `Spec => []TypeOK` |
| `ExitsReportedOnce` | DirectorProofs | `Spec => []ExitReportedOnce` |
| `OneWorkerEach` | DirectorProofs | no commands: `Spec => []OneWorker` |
| `OneProcessEach` | DirectorProofs | only resetfail: `Spec => []SingleProcess` |
| `LimiterExact` | DirectorProofs | only resetfail: `Spec => []StartsLimited` |
| `AlwaysParkedAtRest` | DirectorProofs | only resetfail, starts fail: `Spec => []ParkedAtRest` |
| `RunningStaysWatched` | DirectorProofs | only resetfail, starts fail: `Spec => []RunningIsWatched` |
| `AlwaysOneList` | DirectorProofs | only resetfail, starts fail, finitely many VMs: `Spec => []RebootListSound` |
| `TypesHold` | PsvClientsProofs | `Spec => []PsvTypeOK` |
| `TableRespected` | PsvClientsProofs | one client: `Spec => TableSteps` |
| `OneProcess` | PsvClientsProofs | one client, clean-up succeeds: `Spec => []SingleProcess` |
| `StateIsTrue` | PsvClientsProofs | one client, clean-up succeeds: `Spec => []StateMatchesProcess` |
| `TypesHold` | IdentKeeperProofs | `Spec => []TypeOK` |
| `ListStaysSound` | IdentKeeperProofs | `Spec => []ListSound` |
| `FreeIdentIsFound` | IdentKeeperProofs | `Spec => []FreeOneFound` |
| `KeeperIsAPool` | IdentKeeperProofs | `Spec => PoolSpec` |
| `TypesHold` | SocketServerProofs | `Spec => []TypeOK` |
| `NoEventIsLost` | SocketServerProofs | `Spec => []EventNotLost` |
| `CommandsAreDelivered` | SocketServerProofs | `Spec => []DeliveredOnce` |
| `RepliesFitTheirCommands` | SocketServerProofs | `Spec => []AnswersItsOwn` |
| `ReadingAppends` | SocketServerProofs | `ReadData` appends to what is pending |
| `DroppingTakesTheFront` | SocketServerProofs | `DropBytes` removes a prefix of what is pending |
| `TypesHold` | LogDirectorProofs | `Spec => []TypeOK` |
| `ClientsOutliveLaunch` | LogDirectorProofs | `Spec => []OutlivesLaunch` |
| `TypeCorrect` | DaemonProofs | `Spec => []TypeOK` |
| `OneDaemonAtATime` | DaemonProofs | `Spec => []OneDaemon` |
| `FilesLeadToTheDaemon` | DaemonProofs | `Spec => []SuccessMeansServing` |
| `CleanExit` | DaemonProofs | `Spec => []NothingLeft` |
| `ConfigurationIsTyped` | ConfigurationProofs | `Spec => []TypeOK` |
| `BlocksBecomeMachines` | ConfigurationProofs | `Spec => []NamesResolve` |
| `ConsolesReachTheirPeers` | ConfigurationProofs | `Spec => []ConsolesLinked` |
| `RulesMeanUsable` | ConfigurationProofs | `Spec => []ChecksAreExact` |
| `TranslationsObeyTheRules` | ConfigurationProofs | `Spec => []TranslationObeysRules` |
| `StatusComesBack` | ConfigurationProofs | `Spec => []StatusExact` |
| `BhyveBootsAsConfigured` | ConfigurationProofs | `Spec => []BootsAsConfigured` |

They hold for any number of VMs and processes, any set of failing hooks, any
commands and any `MaxRestart`, any sizes of buffers, clients and launchers, any
number of invocations and signals, except where the table says otherwise: "no
commands" is `Commands = {}`, "only resetfail" is `Commands \subseteq {"resetfail"}`,
"starts fail" is `FailingHooks \subseteq StartStates`, that hooks may fail on the way
up and no others, "one client" is `Threads = {c}`, and "clean-up succeeds" is
`CleanUpSucceeds`, that none of the hooks of STOP_STORAGE, STOP_NETWORK, STOPPED,
FAILED and PRESTOP_BEFORE_RESTART fails. Section 3 says what happens without
these. All other
assumptions are the named ones in `ProcessState` (`ConstantsAssumption`),
`Director` (`DirectorAssumption`), `IdentKeeper` (`RangeAssumption`),
`SocketBuffer` (`SizesAssumption`), `SocketServer` (`ScriptsAssumption` and
`ConversationsAssumption`),
`LogDirector` (`LogAssumption`), `Daemon` (`DaemonAssumption`) and `Configuration`
(`DirectoriesAssumption`, `BasesAssumption`, `AddressesAssumption` and
`NullModemsAssumption`: readdir and libucl give sequences, a value libucl calls an
integer or a boolean is one and none is NULL, a base file is a sequence of lines, an
address is a number, and null modems come in pairs; and `BhyveParameters`'
`NullAssumption`, that NULL is not the name of a rule).

**Types.** `TypeOK` is not inductive: a frame that walks must have a state to
enter, a job must name a VM, and `bd_startvm` probes `call[t].pid` once
`psv_startvm` returned 0, which has to be a process by then. `TypeInv` adds
this: `PsvInv` (walking frames have something left to enter), `BdTypes`,
`JobsSound` (a frame that returned ok to `started` went through `Launch`, and
its pid was forked) and `ProcsSound` (forked processes have a VM, and the kqueue
knows forked processes only). `ProcessStateProofs` shows once that every step
inside an operation keeps the frames well-formed and what it does to the
processes; `DirectorProofs` uses that for each thread.

**Exits.** `ExitReportedOnce` is inductive relative to `TypeInv`. Its last part
is the reason: a thread between `Launch` and `Register` holds its process, and a
process is held by one thread, or watched, or on the queue, or collected.

**Owners.** `OneWorker` and `SingleProcess` are about different things and are
proved together, for each is the reason for the other. The workers are the threads
of autostart, kqueue and restart; while the only command is resetfail, the socket
handler does nothing but walk a VM from FAILED to INIT (`ResetsOnly`,
`HandlerResets`). A VM is claimed by one of four: `toboot`, the reboot list, a thread that works
on it, or a process that is `Live`, which runs or has its end on the queue.
`Owned` says that they exclude each other, with one exception: the thread that
forked a process works on the VM until it has registered it (`Holds`). Each step
passes the claim on: `AutoStarts` and `TakesNext` from a list to a thread, `Launch`
and `Register` from the thread to the process, `ReceiveExit` back to a thread,
`RequestReboot` to the list. `FrameFits` is needed for the middle of an operation:
only `bd_startvm` forks, only once, and the reboot is requested by a thread that
has nothing left to do but return. `Links` ties the pointers of the list to a
sequence; an insertion keeps it only because a VM is not on the list yet, which
`Owned` supplies. `LimiterExact` uses the same invariant: from before its count to its
stamp a thread has the stamps of its VM to itself, so that none is `Racing` and none is
lost, and between the two their number does not grow (`Limit`).

**Order.** `ParkedAtRest`, `RunningIsWatched` and `RebootListSound` say in which
state a VM is that nobody works on. That depends on how the last thread left it,
so the invariant has to follow the state through every operation. `OrderInv` adds
to the owners: a thread at work on a VM is in phase with its state (`InWork`), and a
VM nobody works on is at ease (`AtEase`): parked, watched if and only if RUNNING,
listed if and only if RESTART_STOPPED, INIT while it waits for the autostart.
`Phase` says for each place of `bd_startvm` which states are possible; inside an
operation it is `Starting` for `psv_startvm` and `Ending` for `psv_onexit` and
`psv_failurestate`, and both come down to `Along`: the frame is in front of the i-th
state of its chain and the VM is in the state before. Such a walk either goes on,
arrives, or is abandoned at a hook that fails. On the way up that leads into
`psv_failurestate`, from wherever it is; on the way down nothing undoes the walk,
and the VM stays between two states. This is why these theorems let hooks fail on
the way up only, as `DirectorFaults` does; with the others `ParkedAtRest` is false.
The reset is the one step that interferes: a worker may be walking the VM into the
failure state when resetfail takes it from FAILED to INIT, since the VM is FAILED
before `set_vm` has returned. `InWork` says that a reset under way means just that,
or a VM at ease in FAILED, and `StartingReset` and `EndingReset` that the walk
survives it. For `AlwaysOneList`, `OrderIs` shows that the property's walk along the
links gives the sequence of `Links`, which is unique (`LinksUnique`) and no longer
than the number of VMs, for no VM is on it twice.

**Clients.** With one client, `processid` names every process whose end was not
reported (`Named`), so there is one at most; it is kept because `Launch` comes only when
there is none. That is what the invariant has to say about each place in an
operation, and `Phase` says it in three words. `Down`: there is no process, the
state is none that has one, and neither are the states still to enter. `Leaving`:
the process has ended, the state still speaks of it, and the next state to enter
will be entered, since its hook is one of the clean-up and the table has the row.
`Up`: the process is there, and the frame launched it or is about to stop it. A VM
nobody works on satisfies `Rest`, which gives `StateMatchesProcess`.
`TableRespected` needs less: a row that was found stays valid until it is used
when nobody else moves the VM in between.

**Identifiers.** `KeeperInv` is `TypeOK`, `ListSound` and that `ident_next` stays
within `IdentMin .. IdentMax + 1`. `GapIsFree` is the argument about the search:
in a strictly ascending list, the first element that differs from what its place
calls for is larger, so the expected identifier is free. Insertion and removal
are first described element by element, then as changes of a set. `KeeperIsAPool`
maps each step: Reserve to Grant, Dispose to Release, Validate to Exchange or
Release, and a failing malloc to no step.

**Socket.** `TypeOK` includes that `bytes_read` stays within the buffer, and is
inductive together with the places of the handler: what is ready was counted
when the event came, and only the handler takes bytes from the stream. Every
outcome of `TryParse` leaves a buffer and two lengths. `EventNotLost` follows from
it by the handler's places: an event is disabled by `Wake`, which makes its
connection the one that is handled. `ReadingAppends` and `DroppingTakesTheFront`
say that the buffer is a queue of bytes, although it is an array whose tail is
not always cleared.

For `DeliveredOnce` and `AnswersItsOwn` each client's dialogue is at one of a few
stages: its command is in the stream (`InStream`), in the buffer (`InBuffer`), with
the listeners (`InHand`), to be rejected (`Rejected`), or it has its reply
(`Answered`), after which what a rejected one left behind may still be read
(`Spilling`). `DeliveryInv` says for each stage what stream, buffer, listeners and
reply hold. The hard steps are in the handler: what `sh_read_data` has
read so far is a prefix of what was sent; `TryParse` finds the command once it is
whole and never earlier, and `DropBytes` takes all of it. This is what
`ConversationsAssumption` is needed for: a command that is not the last on its
connection is a plain one and its data is text with one zero behind it.
`vmstatedctl` sends nothing else: `sc_sendrecv` sends text and its zero, and it
connects anew for each BHYV command. A command that cannot be parsed, or a BHYV
command, may be any sequence of bytes of its kind (`Unreadable`, `Readable`), as the
last one. Section 3 says what comes after it.

**Log director.** `TypeOK` bounds what is logged; inductive is `Conserved`, that
what was logged and what is in the pipe make up what was written. For
`OutlivesLaunch` the reason is `OwnersInv`: until `Close`, the daemon holds the
write end of the client it is launching (`Held`), so its pipe has not ended, and
an event that tells of the end is about a pipe nobody holds any more
(`EndIsFinal`); a client whose write end the daemon has closed was noted as
accepted before (`ClosedOnce`).

**Daemon.** `OneDaemon` is not inductive: it depends on what the pid file says, on
who has passed the check and will become a daemon, and on who will not be stopped
by it. `IInv` says so in two parts. `History` holds whatever happens: a parent
has heard nothing before the start is over (`Untold`), errno is looked at once
(`LooksOnce`) and nobody is past `check_logdir` while the directory is missing
(`FirstToLook`), so that the one check that is skipped comes before any daemon;
and a socket or pid file that was given back is not the daemon's any more
(`Gone`). `Locked` holds while no invocations overlap: one starts at a time
(`Alone`), the files lead to the daemon that has written them (`Holds`), and who
has passed the check, or will, is alone (`Claims`, `Unread`). Each action is first
reduced to what it may do to these (`Moves`), and the invariant is shown once for
all moves.

**Configuration.** `TypeInv` says what the daemon relies on in a configuration
(`Proper`: the numbers within the widths of their fields, the consoles a sequence), in the store and
then in the machines, and that nothing runs before the daemon serves. A block
becomes such a configuration (`ParsedIsProper`) because every conversion of the
mapping table ends in the modulo of its field (`ConvertedIs`), and `cores` in the
low half word of an address. For the names, `NameInv` follows the reading: the store
is the blocks read so far, the last one first (`StoreFits`), and the director's list
is the part of the store the iterator has passed, turned round once more
(`ListFits`). The blocks are a `FlattenSeq` over the entries read; `FlattenIs` takes
what is needed of it from its recursive equation.

`ConsolesLinked` depends on who else is at work, for all machines share the file
system. `LinkInv` says for each machine that while two threads start it, or one
starts it a second time, it is not `alone` (`OneStart`, `NoProcess`), and that
from the end of `bwv_linkconsoles` to the end of its bhyve its consoles are
`Linked`. `LinkEndsIs` says how far the loop gets when no link fails: each console
before the first without a backend has its link; a loop that ends earlier is `broken`
there, and `Linked` asks for nothing from that console on. Another thread's links replace one of these only
where both have one path, and then the property excuses that console; whichever
way it happens, `LinkedStays` covers it.

`BootsAsConfigured` joins what the blocks say to what bhyve reads, which lies three
steps and a file apart. `FileInv` is about the steps: while a machine is `alone` and
shares its file with no other, the file named in its configuration is `Made` from it
from the end of `obc_combine_with` to the boot of its bhyve, and a bhyve that is up has
booted from that text. `Made` says two things: if no text is lost the file is the base
file and the lines, and in any case it consists of `Parts`, the base file or nothing and
then lines of the generator. `WrittenIs` gets them from `Written`, text by text, and
`PartsCount` that a key counts with the value of a generated line of its own, with the
base file's or not at all.
`Keeps`, a part of `Fits`, says which settings a
configuration keeps of its block (`ParsedKeeps`), and `BootedFits` that this is known
of every machine that was started, also once the daemon has crashed. The text is the
base file and then the generated lines in the opposite order of their calls, so that
the first line added for a key counts (`EffectiveIs`); `CoreIs` finds it for each key,
or that no line was added for it.

The other three are not about steps but about what the code computes, for every
configuration. `FirstBroken` says that `check_parameters_ok` names the first rule
that is broken, and `RulesAreExact` that no rule is broken exactly when the
parameters are `Usable`, for any sequence of slots; `TranslatedIs` gives the fields
and the at most two slots of a translated configuration, from which `TranslationIs`
reads off the rule it breaks. For the status reply, `PiecesAre` finds every piece of
what `stc_collect` put together at the sum of the lengths before it (`OffsetIs`), and
`InfoComesBack` decodes one struct item by item: after each item of the mapping
the cells decoded so far are those of the struct that was encoded. "pid" is decoded
over the place of the state as well, so that the state is decoded twice and the pid
once; the proof follows that order.

Liveness (`ExitsReceived`, `WalksEnd`, `Replied`, `Released`, `StartIsHeardOf`,
`TermEndsIt`) is out of the prover's reach and only model-checked; every invariant a
passing run checks is also proved, where need be under the conditions in the table.
An operator cannot be handed to
the library's induction theorems. Where a function over the naturals is all that is
needed, induction is at hand as a fact about sets of numbers (`NatSet`, `AllOfNat`,
from the well-foundedness of `<`): `OrderIs` uses it for the recursive function in
`QueueOrder`, `FlattenIs` for `FlattenSeq`, `OffsetIs` for the sums of lengths and
`WrittenIs` for the writes.

## 5. What is not modelled

Null-argument checks, failing mutex and condition-variable calls, failing
allocations and logging are left out everywhere. Of the director, `reboot_state`
(written, never read for a decision) and the shutdown of its threads in `bd_free`
are not modelled, nor is that of the log director in `ld_free`: both try to trigger
an EVFILT_USER event that was never added and fail, so that `Daemon` has the
consequence (`Crash` during the clean-up) and not the threads. Of the list of stamps, the
memory is not modelled: no stamp is ever freed, and a thread that takes the head off a
list another thread has just emptied follows NULL and ends vmstated; what is modelled is
which starts count afterwards. Of vmstated, option
parsing (whose result is `Foreground`) and the test for root are left out. The
parser of parameter files in `libconfig` and `daemon_config.c` are not called by
the daemon. `ik_free` ends the life of its object. See "components" in
`PROJECT.json`.

## 6. Plan

Done: `ProcessStates`, `ProcessState`, `PsvClients`, `Director`,
`DirectorProperties`, `IdentPool`, `IdentKeeper`, `SocketBuffer`, `SocketServer`,
`LogDirector`, `BhyveConfig`, `BhyveParameters`, `VmInfo`, `Configuration`,
`ConfigurationProperties`, `Daemon` and the proof modules.

Next, in this order:

1. An abstract request/response channel that answers each command once, which
   `SocketServer` implements by refinement; commands written in pieces and
   several commands at once.
2. `DirectorShutdown`: what `bd_free` and `ld_free` would need to stop their
   threads, against the kqueue and restart threads.
3. An abstract supervisor of one VM (down, up, failed; at most one process) that
   `PsvClients` with one client implements, by refinement.
4. The parser of `parser_reader`, as operators with reference definitions.

Theorem next: that `PsvClients` with one client implements the supervisor of item 3,
from the invariant of `StateIsTrue`.
