# TLA+ models of linux-practice

The repository is a collection of system programs: exercises that follow *The
Linux Programming Interface*, chapter by chapter (`chap4` to `chap15`), and the
programs of the book itself (`tlpi-book`). There is no single system. What is
worth verifying are the programs in which several processes or threads, the
kernel and failures meet: servers and their clients, hand-over and
initialisation protocols, signal handlers, programs that look at a world that
changes while they look. Each of them is a component with a module of its own.
The kernel's side (semaphores, FIFOs, message queues, signals, condition
variables, inotify, `/proc`) is not in the repository; it is modelled from how the
code uses it, and `PROJECT.json` marks those definitions as external.

Every program module has the same layout: constants with named assumptions (or a
`…Params` module that holds them), variables named after the variables of the
code, one action per call of the code that another process can observe, `Next`,
`Spec`, then the properties. A definition whose comment begins with `Mutant:` is a
deliberately wrong variant of the definition that follows it. It is not part of
any specification; it is there to show that a property fails when the code is
wrong in that way.

## Organisation

The larger programs have a run of their own. The small ones are checked in
*suites*: a module with instances of several program modules, whose variable `prog`
(`program` in ThreadSuite) says which of them runs. The programs of a suite do not
interact in the repository, and not in the suite either: while one runs, the
variables of the others keep a fixed value (`Others` in the initial state and `Frame`
in the steps of SignalSuite and ToolSuite, frames by program in MCIpc and
ThreadSuite). `prog` never changes, so a fairness condition on a suite's action is the
fairness condition of the program that runs. A property of a suite has one conjunct
for each program it is about.

ThreadSuite, SignalSuite and ToolSuite hold the proofs as well: the instance of a
program is followed by its inductive invariant and the lemmas about it; behind the
last program come the suite's `Init`, `Next`, `Spec` and properties, and at the end the
theorems. The proofs about the other programs are in the modules `…Proofs`.

| Run | Module | Programs | Members |
|---|---|---|---|
| `ipc` | MCIpc | shared memory transfer; semaphore initialisation; FIFO sequence numbers | ShmXfr (with Transfer), SemInit, FifoSeqnum |
| `svmsg_file` | SvmsgFile | file server over message queues | – |
| `threads` | MCThreads (gives ThreadSuite its values) | producers and consumer; joining; increments, `one_time_init`, barrier, cancellation; timer threads | ProdCondvar, MultiJoin, ThreadPrograms, TimerThread |
| `signals` | SignalSuite | the programs that depend on signals, and `pipe_sync` | MultiSigchld, SelfPipe, DaemonSighup, TimedRead, MqNotify, SystemFn, SimpleInit, TtyStop, SigSuspend, PipeSync |
| `tools` | ToolSuite | PID file, appending, copies, access control lists, seccomp supervisor, user namespace, lines from a stream, sequence numbers over TCP | PidFile, FileAppend, FileCopy, AclUpdate, SeccompNotify, UsernsChildExec, LineRead, SockSeqnum |
| `inotify_dtree` | MCInotifyDtree | directory tree monitor | InotifyDtree on FsInotify |
| `proc_scan` | ProcScan | `/proc` scanners | – |

Five more runs, `sem_init_retry`, `simple_init_pause`, `inotify_sync`,
`proc_scan_end` and `userns_maps`, are violations; see Findings.

## Modules, state and actions

### IPC

**ShmXfr** (writer `W…`, reader `R…`). `sem` are the two semaphore values,
`cnt` and `buf` the segment. `shmp->cnt = read(…, shmp->buf, …)` is two steps,
`WRead` and `WSetCnt`. The end-of-file test `WTest` and the addition in the head of
the loop, `WCount`, read the count *after* the segment was given away, as the code
does. `read()` may be short or fail, `write()` may be partial or fail. Initially
the IPC objects do not exist, and the reader may start at any time; or
(`lateReader`) a pair that died has left them with arbitrary values, and the reader
is started after the writer's set-up. A reader that is started earlier on
left-over objects works on stale contents; nothing in the code prevents it, and
no property is claimed there. The counters `xfrs`, which only feed the report, are
left out.

**Transfer** is what such a pair of programs promises, without semaphores or
segment: the input is delivered piece by piece, then the transfer is complete, or
it fails, perhaps with a last piece. ShmXfr implements it with its output as
`delivered` and the programs' ends as `outcome` (`ImplementsTransfer`).

**SemInit**. `otime` stands for `sem_otime # 0`. Processes run the good or the bad
program (`program`, chosen initially); `Sleep` is the second between two looks,
`tries` the loop counter, `Kill` ends a process anywhere.

**FifoSeqnum**. `SCallOpen`/`SOpenRead`, `COpenServer` and `SOpenClient`/`COpen`
model the blocking `open()` of a FIFO by who has, or waits to have, the other end.
A response is the server's life and the first number of a range. The counter has
no width: behind `INT_MAX` its addition is undefined in C, and the program does
not bound it.

**SvmsgFile**. The server (`S…`), its handler (`grimReaper…`), a child per request
(`K…`) and the clients (`C…`). A file is a number of blocks or `Unreadable`; a
queue holds `QCap` messages. SIGCHLD is a flag, not a counter. A full queue blocks
`msgsnd()`; a removed one makes it fail.

### Threads

**ProdCondvar**, **MultiJoin**. `avail++` and `numUnjoined++` are a load and a
store. Waiting on the condition variable, being woken (also spuriously) and taking
the mutex again are separate steps. `prod_no_condvar` is the variant `"poll"` of
ProdCondvar.

**ThreadPrograms** has `main()` once, creating and joining, and the threads of
`thread_incr` and its four variants with locks, `one_time_init`,
`pthread_barrier_demo`, `thread_cleanup` and `thread_cancel`. The `sleep()`s of these
programs order nothing in the model.

**TimerThread** (`ptmr_sigev_thread`). Each notification runs in a thread of its own;
`main()` waits on a condition variable without testing a predicate.

### Signals

Signals are flags that merge while they are pending; a blocked one stays pending,
an unblocked one is handled before the process's next step or interrupts the call
it is in.

* **MultiSigchld**, **SigSuspend**: programs that block a signal, create the process
  that sends it, and wait in `sigsuspend()`. SigSuspend covers `fork_sig_sync`,
  `sig_speed_sigsuspend` and `t_sigsuspend`.
* **SelfPipe**: the handler writes to a non-blocking pipe that holds `PipeCap` bytes.
* **DaemonSighup**: a flag set by the handler, and a `sleep()` that returns the rest.
* **TimedRead**: `alarm()` and `read()` are two steps, with SA_RESTART or without.
* **MqNotify**: the three programs that are told of messages on a queue, once per
  registration and only when the queue was empty.
* **SystemFn**: `system()` called by a program whose SIGCHLD handler waits for any
  child; keys typed at any time.
* **SimpleInit**: `simple_init` with its children, inherited orphans and the
  terminal's foreground group.
* **TtyStop**: `handling_SIGTSTP` and `test_tty_functions`. `stack` holds the
  handlers in progress, since each blocks only its own signal; `tty` is the
  terminal's mode; the user may change it while the program is stopped; SIGCONT
  discards a pending SIGTSTP.
* **PipeSync**: children synchronised by the end of file on a pipe, with failing
  `fork()`.

### Tools

* **PidFile**: `createPidFile()`, processes that end anywhere and are started again.
* **FileAppend**: processes that append with O_APPEND or with `lseek()`.
* **FileCopy**: `copy`, `copy_sync`, `cp-holes` and `tee-practice` with short reads
  and writes.
* **AclUpdate**: `acl_update` applies its entries one at a time, and stores the list
  after each.
* **SeccompNotify**: supervisor and target, the socket that passes the notification
  descriptor, SIGINT, a target that dies between any two steps.
* **UsernsChildExec**: parent and child, maps, the pipe whose end of file is the
  signal to go on.
* **LineRead**: `readLine()`, `readLineBuf()` and `readn()` on a stream that gives its
  bytes in pieces, with interrupted and failing reads.
* **SockSeqnum**: `is_seqnum` and `is_seqnum_v2`: an iterative server, and clients
  that send a request in two writes and may be killed between them.

### Directory monitor and /proc scanners

**FsInotify**, **InotifyDtree**. FsInotify is the kernel: a forest of directories
under names, `mkdir`, `rmdir`, `rename`, a rename out of the monitored trees, and
inotify (descriptors never used twice by one instance, a bounded queue that
overflows, merging of equal neighbouring events, and delivery that is a step after
the change itself).
InotifyDtree is the program: `cache` maps descriptors to paths. `Visit…` and
`traverseTree` are the steps of `nftw()`: each looks at the tree as it is then, and
the `stat` buffer of a vanished path, which the code reads uninitialised, has an
arbitrary type. The `process…` actions are the branches of
`processNextInotifyEvent()`, and `command…` the commands that change the cache.
`pace` says when others change the tree: only while the program is at rest
(`"settled"`), not during a walk (`"between"`), or at any step (`"free"`).

**ProcScan**. `/proc` lists fixed names and then the processes by number, which is
also their offset in the directory; `readdir()` takes the next `BufMax` entries, or
all there are, as a set, and hands out the one with the least offset first. After the
`fork()` of `pstree_implementation` the offset `pos` is shared and `dirbuf` is not.
`errno` is modelled because the code decides by it: `getInt()` sets it to 0, a failing
`stat()`, `fopen()` or `fgets()` to something else.

## What the runs check

| Run | States | Shows |
|---|---|---|
| `ipc` | 58,825 | *svshm_xfr*: at most one process has its turn (`OneTurn`), the output is always a prefix of the input (`OutputIsPrefix`), no `semop()` on a set that is gone (`SetOutlivesUse`), success of the writer means that everything was transferred, counted and removed (`SuccessIsComplete`), the pair implements Transfer (`ImplementsTransfer`). *svsem_init*: the value is the sum of the operations, or for the bad program of those after SETVAL (`OpsAccounted`), the creator's no-op finds 0 (`NoOpNeverBlocks`). *fifo_seqnum*: numbers are given once per server (`RangesDisjoint`), a client's FIFO is there before its request (`FifoBeforeRequest`), only a killed client holds the server up (`HeldUpOnlyByKilled`), clients are served while nobody is killed (`Served`). The first two end (`Finishes`) |
| `svmsg_file` | 76,672 | success is the whole file unless the child could not read it (`SuccessIsWholeFile`), no zombie stays (`NoZombieStays`), answers come while the server runs (`Answered`), children end unless their client was killed (`ChildEnds`) |
| `threads` | 16,273 | no unit lost or doubled (`UnitsConserved`), counter and table agree when the mutex is free (`UnjoinedAgrees`), nobody passes a barrier or `one_time_init()` early (`InStep`), exit means that the work is done, with no increment lost under a lock, one call of `init_func()` and no mutex left locked (`ExitMeansDone`), no lost wakeup (`NoLostWakeup`), termination (`Finishes`) |
| `signals` | 24,216 | no zombie, SIGHUP or message is forgotten (`NothingForgotten`), nobody goes on before what they wait for has happened (`WaitedFor`), masks, dispositions and the terminal are put back (`Restored`), the programs respond (`Responds`) |
| `tools` | 138,563 | one running instance, whose number is in the file (`RunsOnce`), appended bytes are kept (`AppendKeepsAll`), a copy that succeeds is a copy, and lines and blocks come whole and in order (`BytesArrive`), files have valid lists with exactly the entries applied so far (`AclsSound`), the target is told what was done, and numbers go to one client each (`AnswersMatch`), the command runs with its maps or the parent has failed (`MapsFirst`), nobody waits for ever (`NobodyBlocked`) |
| `inotify_dtree` | 204,172 | the cache is right when changes come one at a time (`SettledConsistent`); under any interleaving no watch is without an entry (`WatchesCached`), an entry without a watch has its event on the way (`DeadEntriesKnown`), and the program comes to rest (`Settles`) |
| `proc_scan` | 9,553 | no process that stays is missed (`NoneMissed`), no process other than the two scanners, which also find themselves as `/proc/self`, is printed twice (`PrintedOnce`), both programs end, `p_id_cmdn_si` with success (`EndsWell`) |

What the properties excuse is part of them, and named in the modules:

* `thread_cleanup` sends its signal without the mutex; a thread that is not waiting
  yet misses it (`SignalMissed`).
* `timed_read` without a limit when SIGALRM comes before `read()`, or with
  SA_RESTART (`Unlimited`).
* `mq_notify_*`: messages that were in the queue before the first registration
  notify nobody (`early`).
* `ptmr_sigev_thread`: a notification before `main()` first waits is not printed until
  the next one (`unheard`).
* `test_tty_functions`: when SIGINT or SIGTERM is handled inside `tstpHandler()`, or
  SIGTSTP comes after `main()` has reset the terminal, the settings given back are
  those of an older `userTermios` (`overlap`). They are still the user's, not the
  program's own.
* copies: what success promises differs by program. `tee-practice` writes the
  terminator of its buffer as well, and `cp-holes` takes a short read for all.

### Bounds

* `ipc`: three different bytes through a buffer of two give full, short and
  empty blocks, in all orders of short reads. Three processes are a creator and two
  that race each other; one operation is negative and can block. `MAX_TRIES` is 2
  instead of 10: looks before and after the initialisation, and the give-up, all
  occur. Three FIFO clients with ranges of different lengths, two lives of the
  server; one client cannot be killed, so that someone is left to be served.
* `svmsg_file`: two clients; two children are what it takes for one SIGCHLD to
  hide another. Queues of one message block at every send; files have up to two
  blocks. Failing `fork()` and `read()`, and failing `msgrcv()` of a mortal client.
* `threads`: three threads; one producer has nothing to do, and two threads can end
  while `main()` joins a third. Two barriers: a thread can reach the second while
  others are still blocked at the first. Three increments per thread.
* `signals`: three children, so that two ends merge while a third is reaped; a pipe
  of two bytes that three signals fill; three messages.
* `tools`: three instances, so that one is refused while another ends; two writers
  that write twice; files of up to three bytes and a buffer of two; one entry more
  than a list may have, two files; two directories and one SIGINT; two clients with
  up to two numbers.
* `inotify_dtree`: two roots and two more directories, two names, two processes,
  two changes or commands, a queue of three events. Two changes are what it
  takes for one to overtake the events of the other; three events make a rename of
  a root's child overflow the queue when something else is in it.
* `proc_scan`: five process numbers, of which two belong to the scanner and three
  come and go; two entries per buffer, so that parent and child interleave buffers.

The theorems lift the bounds where there are some. No run uses symmetry. Deadlock is
not checked (`CHECK_DEADLOCK FALSE`) because all of these programs may stop: they
exit, or wait for requests nobody sends. That they do not stop *early* is what the
liveness properties say.

### Fairness

* Weak fairness of each process: the scheduler runs a process whose call can
  return. Nothing is assumed about processes that are killed, started or exit,
  about `fork()` and other calls that fail, about changes to the tree or commands,
  nor about signals, keys and messages from outside.
* `signals`: also weak fairness of the delivery of a signal that is pending and not
  blocked, and of an alarm that was set.
* Strong fairness where a mutex is contended (`threads`): a thread
  that tries to lock again and again gets the lock in the end. POSIX does not
  promise this, and a mutex of Linux is not a fair lock; but a thread that locks in
  a loop also does other work between unlocking and locking, and does not win every
  time. Only `Finishes` depends on it.
* Strong fairness for the clients of `SvmsgFile`: the room in the server's queue
  that a client waits for may be taken by another client, but not each time: the
  kernel wakes blocked senders in order.
* `InotifyDtree`: weak fairness of the program, and of the delivery of an event
  once its change has happened.

## What is proved

TLAPS checks these theorems for every value of the constants that the named
assumptions of the modules allow.

| Module | Theorem | States |
|---|---|---|
| IpcProofs | `TypeCorrect` | `TypeOK` of ShmXfr; in particular the semaphores stay binary |
| | `MutualExclusion`, `PrefixTransferred`, `SetAvailable`, `CompleteOnSuccess` | `OneTurn`, `OutputIsPrefix`, `SetOutlivesUse`, `SuccessIsComplete` |
| | `XfrImplementsTransfer` | `ImplementsTransfer`: ShmXfr implements Transfer |
| | `CreatorPasses`, `NothingWipedOut` | `NoOpNeverBlocks`, `OpsAccounted` |
| | `NumbersUnique`, `FifoIsThere` | `RangesDisjoint`, `FifoBeforeRequest` |
| SvmsgProofs | `WholeFileOnSuccess` | `SuccessIsWholeFile` |
| ThreadSuite | `NoUnitLost`, `UnjoinedCounted`, `ThreadsInStep`, `ExitIsDone`, `WakeupNotLost` | `UnitsConserved`, `UnjoinedAgrees`, `InStep`, `ExitMeansDone`, `NoLostWakeup` |
| SignalSuite | `NobodyForgotten`, `GoesOnInTime`, `AllRestored` | `NothingForgotten`, `WaitedFor`, `Restored` |
| ToolSuite | `OnlyOneRuns`, `NothingOverwritten`, `CopiesAreWhole`, `ListsStaySound`, `ToldWhatWasDone`, `CommandAfterMaps` | `RunsOnce`, `AppendKeepsAll`, `BytesArrive`, `AclsSound`, `AnswersMatch`, `MapsFirst` |
| InotifyProofs | `NoWatchLost`, `NoDeadEntryStays` | `WatchesCached`, `DeadEntriesKnown` |
| ProcScanProofs | `NobodyOverlooked`, `NobodyTwice` | `NoneMissed`, `PrintedOnce` |

With these, every safety property that a passing run checks is a theorem, with one
exception (`SettledConsistent`, see below). The theorems are about the very
specification and definition that the run checks. All follow one pattern: an
invariant that is true initially and kept by every step (one case per action), from
which the property follows. In a suite the invariant of the program that runs is an
invariant of the suite, because a step of the suite is a step of that program and
leaves the rest alone.

**ShmXfr**: every input, every set of bytes and every buffer size, both ways to
start, and every behaviour of `read()` and `write()`. The assumptions are
`InputAssumption` (the input is a sequence of bytes, NUL is a
byte) and `BufAssumption` (the buffer is not empty). None of the properties but
`TypeOK` and `SetOutlivesUse` says enough about the state to be inductive, and these
two not on their own. The inductive invariant `IInv` adds:

* `SetupInv`: no reader passes `shmget()` before the set-up is over, and what the
  set-up has done so far;
* `TokenInv`: there is one token, in a semaphore or with the process whose turn it
  is. A failed process may have taken it along (`TokenLost`);
* `BlockInv`, `OutInv`: a block in flight is what follows the output in the input,
  and apart from it the output is all the writer has taken;
* `CntInv`: the count is the size of the last block *wherever a process reads it*.
  This is what makes the two reads outside the writer's turn harmless;
* `EndInv`: who has passed the end of file, and which objects still exist;
* `BytesInv`: the two byte counters.

The refinement needs it too: that a step of the reader extends the output along the
input is `BlockInv`, and that the writer's last step may be called complete is
`EndInv`.

**SemInit**: any number of processes, operations and tries, with kills. That the
semaphore is 0 at the creator's no-op holds because of what others have *not* done:
`Protocol` says that nobody comes to an operation before `sem_otime` is set, and
that this happens after the creator has passed; `OneCreator` that only one process
initialises. For the same reason SETVAL finds nothing to wipe out, and the value
stays the sum of the operations done (`Accounted`).

**Sums** has what `OpsAccounted` and `UnitsConserved` need: a sum over a finite set
can be computed in any order, and changes by what one of its terms changes. The
library defines the sum by a recursion over the set. Its induction theorems cannot be
used with the provers at hand; instead the lemmas look at a least counterexample,
which exists because the order of the natural numbers is well-founded.

**FifoSeqnum**: any clients, lengths, kills and restarts. `PastLives` orders a range
before the counter, `OneRequest` says that no client is in the pipe twice,
`OwnFifo` that a client has its FIFO from `mkfifo()` to its end.

**SvmsgFile**: any clients, lengths of files and capacities of queues. A request is on
one way: not yet sent, queued, about to be served, or with its child (`ServedOnce`).
What a client has received and what is in its queue are together the blocks that
the child has sent, in order (`ChildInv`, `ClientInv`).

**Threads**: any number of threads, loops, barriers and notifications. The invariants
say who is inside the mutex and what a thread between the read and the write of a
`++` has read (`LockedInv`, `ProdLock`, `JoinLock`); what the counters add up to
(`ProdSum`, `CountInv`, `LiveInv`; without a lock only bounds hold, `UnlockedInv`);
that `init_func()` was called, once, if the flag is set or is about to be
(`OnceInv`); that every thread has passed as many barriers as had a serial thread
(`BarrierInv`); when the thread with a cleanup handler has the mutex and its block of
memory (`CleanupInv`); and that an expiration not yet printed has a thread that will
signal it, or was signalled before `main()` waited (`TimerShown`).

**Signals**: any number of children, signals, messages and seconds, and any size of
the pipe.

* MqNotify: from the first registration on there is one token: the registration, the
  notification on its way, or the one reader that has yet to register (`MQToken`).
* MultiSigchld: a zombie has left a SIGCHLD pending unless the handler runs, and the
  counter is the number of children not yet reaped.
* SystemFn: which dispositions and which mask are in force at each step, the caller's
  at the return (`CallerInv`); those of the child, and whose status is returned
  (`KidInv`).
* TtyStop: each signal has at most one handler on the stack, and SIGTSTP the
  disposition that belongs to the place its handler has come to (`StackInv`);
  `ModeInv` says where the terminal has the program's mode, `UserInv` where it has the
  user's, `WishInv` that it is the one the user chose last unless handlers overlap.
* SigSuspend: the two processes of `sig_speed_sigsuspend` are in one of five places of
  their round (`SpeedTurn`); in `fork_sig_sync` a pending signal means that the child
  has done its work (`SyncInv`).
* SelfPipe: until `select()` returns, what was caught is in the pipe. DaemonSighup and
  PipeSync need little more than the property.

**Tools**: any files, buffers, streams, lists, writers, clients and directories.

* FileCopy, LineRead: what was written, what is in the buffer and what has yet to be
  read make up the source, for each program in its own way (`Copied`, `Took`,
  `Current`).
* AclUpdate: the list in the file is valid and is that of the entries applied so far,
  at every step between reading and storing it (`Reached`).
* FileAppend: a process that has sought to the end has not written behind it
  (`FAOffset`), so that what it overwrites is never its own.
* SockSeqnum: a connection waits once and is not served meanwhile (`Queued`); the
  numbers below the counter are those that were given (`Shared`); without one is left
  who asked for nothing or was killed before the request was complete (`Refused`).
* SeccompNotify: the supervisor works on the target's current call or on one that was
  interrupted (`Calls`, `Working`), and a directory that was made belongs to a call
  that has returned or to the one being answered, with that answer (`Making`).
* PidFile: the lock's holder is the one process between `lockRegion()` and its end.
* UsernsChildExec: end of file at the child means that the parent has written the maps
  or has failed.

**InotifyDtree**: any directories, initial trees, processes, number of changes and
commands, queue length and buffer size, at any pace. `WatchesCached` alone is not
inductive: the slot of a DELETE_SELF is emptied without a call that removes a watch.
`InFlightSound` says that a DELETE_SELF in the queue or in the buffer has a descriptor
that was given out and is not in use, which the kernel's numbering and the removal of
the watch in the step that queues the event guarantee, and which a new instance, whose
numbers start again, keeps because `reinitialize()` drops the queue and the rest of
the buffer. `BufferInUse` says that an event is there whenever one is processed, and
none when `read()` fills the buffer. `DeadEntriesKnown` needs in addition that a
directory has one watch (`OneWatch`): the kernel queues one DELETE_SELF for it, and
merging, a full queue and the two `read()`s lose neither that event nor the OVERFLOW.

**ProcScan**: any processes that start and exit, any size of the buffer. What was taken
from the directory and not done with lies before the offset, and only one of the
scanners has it, in its buffer or as the entry it looks at (`OpenOnce`); what is
printed is done with (`PrintedDone`, `PrintedApart`). In `p_id_cmdn_si` a process that
stays is ahead of the offset, in the buffer, looked at or printed (`Found`).

Only model-checked:

* all liveness properties: fairness and ENABLED are out of the prover's reach;
* `SettledConsistent` of InotifyDtree. It is about the directory that a cached path
  leads to. `resolve()` and `Above()` follow a path by recursion, and what they
  compute after a rename in the middle of a path, for paths of every length, needs
  induction along the path at every step of the walk and of every event;
* `TypeOK` of the modules other than ShmXfr, apart from what the invariants contain.

## Findings

In five places the code does something else than its own comments say.

* `sem_init_retry`: `svsem_good_init.c:74` says of its sleep "If not, wait and
  retry". After the last look it sleeps once more and then decides on the look from
  before that sleep: it gives up with "Existing semaphore not initialized" although
  the creator has finished meanwhile.
* `simple_init_pause`: `simple_init.c:234` says of `pause()` "Will be interrupted by
  signal handler". A child that ends between `fork()` and `pause()` has been reaped
  by then, and init pauses until some other signal comes.
* `inotify_sync`: `inotify_dtree.c:1036` wants "to keep our cached view of the
  subtree in sync with the filesystem", and the comment at line 229 expects missing
  entries with "multiple renamers" and "races with nftw()". One process that makes a
  directory and renames it before the program has read the first event is enough,
  with no walk in progress: the directory stays out of the cache.
* `proc_scan_end`: `pstree_implementation.c:291` says that moving `readdir()` into
  the loop condition "solves this problem" of an `errno` left by `stat()`. `errno` is
  set to 0 only before the loop, so the problem remains when the last listed process is
  gone before `stat()`.
* `userns_maps`: the pipe of `userns_child_exec.c:552` is there "to ensure that the
  parent sets the UID and GID maps before the child calls execve()". A parent that
  fails to write a map exits, which closes the pipe, and the child executes the
  command without it.

Met while modelling, with no run of their own:

* `thread_multijoin.c`: the declaration of `threadMutex` says that it protects all
  of the global variables that follow it. `main()` sets `totThreads` and `numLive`
  without it; since no thread uses them, this has no consequence.
* `acl_update -V` calls any list "valid" that can be parsed. A file without a default
  list can never get one.
* `userns_child_exec` stores options as `A` and `I` and looks for `a` and `h` when it
  performs them; `S:` is in its option string and not in its `switch`.
* `seccomp_unotify_mkdir` installs its SIGCHLD handler after `fork()`; when the target
  has died before that, the supervisor stays in `recvfd()`. Its
  comment on the delay says that a call interrupted meanwhile makes the response fail
  with ENOENT; the check after the delay ends the supervisor before that.
* `readLine()` with a buffer of one byte returns 0 for an empty line, as for end of
  file. `readLineBuf()` takes EINTR for an error, and fills all `n` bytes without a
  terminator.
* `is_seqnum`: a request without its newline, from a client that ended, still gets
  its numbers.
* `bad_exclusive_open` has the race that its own comments describe.

## What is not modelled

* Parts of modelled components: in `inotify_dtree` unmounting, the option `-a`, the
  choice of cache slots, logging and the read-only commands. After command `0` the
  program may block in `read()` on the new descriptor until the next event; the
  model has this state, and `Settles` accepts it. In `p_id_cmdn_si`, the name that is
  printed (a pointer into a line buffer that is overwritten), and in
  `pstree_implementation` the uninitialised pointer given to `waitpid()`. Reuse of
  process numbers, which both `/proc` scanners and the FIFO names of
  `fifo_seqnum_client` are exposed to. Failing pthread calls, which end the process.
  A caller of `createPidFile()` that deletes the file when it ends, as its comment
  advises. Qualifiers and permission texts in `acl_update`; the effects of the
  repeatable options of `userns_child_exec`; `procfs` mounts and word expansion in
  `simple_init`; name resolution in `is_seqnum`; `writen()`, which nothing calls.
* Whole components, with the reason in `PROJECT.json`: programs that show single
  calls, print attributes, relay bytes, or depend on the terminal driver; echo and
  case-conversion servers; `event_flags`, which no program uses; `becomeDaemon()`, a
  fixed sequence of calls; the `strerror` programs, whose threads run one after
  the other.
* `make-practice`: makefile exercises and a second copy of `tlpi-book`, about half of
  the repository's lines. The modules cover the programs once. This, and the many
  one-call programs, are why the modelled lines are a small share of the whole: of what
  has state that others can disturb, most is here.
