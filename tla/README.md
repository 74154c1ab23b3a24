# INF1019 Operating Systems: a verification of the course programs

The repository holds the exercises ("Labs") and the two assignments ("T1", "T2") of an
operating-systems course, each a small C program of its own. They share no library; what they have in
common is that several processes, signal handlers, threads or machines touch the same state. This
directory models the programs that keep state worth arguing about, model-checks them with TLC and proves
some of the results with TLAPS. `PROJECT.json` has the machine-readable side: which definition stands for
which lines, the runs, the mutants, the hazards, the findings and the theorems.

## 1. Inventory

| Part (under `src/`) | State it keeps | Operations | Interacts by | Hard part | Correct when |
|---|---|---|---|---|---|
| `T1/SchedulerRR.c` round-robin scheduler | `mainQueue`, `waitQueue`, `current`, `runningFlag`, one alarm | launch, `alarmHandler`, `childHandler`, `ioStartedHandler` | `fork`, `kill(SIGSTOP/SIGCONT)`, SIGCHLD, SIGUSR1, SIGALRM | handlers interrupt `main()` and each other; signals and status changes merge | no process lost or run beside the current one, served in turn, alarm never lost, ends when all have |
| `T1/SchedulerPR.c` priority scheduler | array `mainList`, `size`, `waitQueue`, `current`, `runningFlag`, alarm | as above, plus ageing and `qsort` | as above | as above; array bounds; the list must be sorted when its last element is taken | as above, best priority first |
| `T1/Queue.c` | linked list | `enqueue`, `dequeue`, `front` | called in handlers | a handler may interrupt a call | list stays whole |
| `T1/Test*.c`, `TestIO*.c` | none | compute, raise SIGUSR1, exit | signals to the parent | – | – |
| `T1/interpretador.c` | none | parse a command file, `fork`, `execv`, `waitpid` | – | little: one child | – |
| `T1/processRR/` | – | not used by the schedulers | – | – | – |
| `T2/server.c` file server | directories, files, `.name` and `.directory` with owners; file descriptors | RD, WR, FI, DC, DR, DL requests | UDP datagrams | killed between system calls, repeated requests, descriptors that leak, uninitialised memory | objects keep their owners, what others may only read they do not write, each request is answered |
| `T2/client.c` | the command it waits for | send a line, wait | UDP | no timeout, no numbering | an answer belongs to the command before it |
| `T2/sample/` | – | course material T2 was derived from | UDP | – | – |
| `Lab 8/Ex 3` producer/consumer | bounded queue, mutex | `produtor`, `consumidor` | shared memory | queue tested outside the mutex | nothing lost, both finish |
| `Lab 9/Ex 3` the same with `notBusy` | queue, flag | same | shared memory | test and clear are two steps | (it is not) |
| `Lab 9/Ex 4` with condition variables | queue, 3 mutexes, 2 conditions | same, several threads | pthreads | tests outside the mutexes, lost wakeups | queue within bounds, nobody stuck |
| `Queue.c` of Labs 8 and 9 | linked list and counter | `enqueue`, `dequeue`, `queueNotFull`, `queueNotEmpty` | called by threads | counter read without the mutex | list and counter agree |
| `Lab 9/Ex 1, 2` frog race | `cont`, `classificacao`, in Ex 2 a mutex | a frog jumps, prints its place, counts up | threads | `printf`, `cont++` and `classificacao++` of several frogs interleave in Ex 1 | with the mutex each place once and in order; without it nobody is told too late a place |
| `Lab 8/Ex 2` counter | `global` | two threads count it up | threads | `global++` is a load and a store | no count made up; both end |
| `Lab 7/Ex 1` letters | a semaphore | leader creates, sets and removes it; all write two letters in turn | System V semaphore, SEM_UNDO | users kill and restart processes; the leader removes the semaphore under the others | turns do not mix, nobody waits for ever for a semaphore that is there |
| `Lab 7/Ex 2` writer and printers | 16 characters of shared memory, a semaphore | the writer stores characters and gives notice, printers print and wait | shared memory, semaphore | the semaphore counts messages but does not guard the buffer; its limits | what is printed is no older than the last notice |
| `Lab 7/Ex 3` a sum | an integer in shared memory, a semaphore | add 5, add 1, set to 0 | shared memory, semaphore | every process that starts sets the semaphore, the first to end removes the segment | no addition lost |
| `Lab 8/Ex 1`, Labs 2–6 | next to none | `fork`, pipes of memory, signals, `exec` | – | – | – |

## 2. Modules

| Module | What it is |
|---|---|
| `Kernel` | External: processes, wait statuses, `alarm`, signals, as T1 uses them |
| `SchedulerRR` | `T1/SchedulerRR.c` on top of `Kernel` |
| `RoundRobin` | Abstract: what a round-robin scheduler promises, one step per interrupted slice |
| `SchedulerRRView` | `SchedulerRR` with a history variable, refines `RoundRobin` |
| `SchedulerRRProofs` | TLAPS proofs about `SchedulerRR` whatever interrupts what; with handlers that are not interrupted, more, and the refinement of `RoundRobin` |
| `SchedulerPR` | `T1/SchedulerPR.c` on top of `Kernel` |
| `SchedulerPRProofs` | TLAPS proofs about it, whatever interrupts what and with handlers that are not interrupted |
| `BoundedQueue` | `Queue.c` of Labs 8 and 9 with atomic calls (pure operators) |
| `ProducerConsumer` | `Lab 8/Ex 3` over `BoundedQueue` |
| `ProducerConsumerProofs` | TLAPS proofs about it |
| `ProducerConsumerList` | `Lab 8/Ex 3` and `Lab 9/Ex 3` on the linked list, load by load; the mutex version refines `ProducerConsumer` |
| `ProducerConsumerListProofs` | TLAPS proofs about it: order, the whole list, the refinement |
| `ProducerConsumerCond` | `Lab 9/Ex 4` |
| `ProducerConsumerCondProofs` | TLAPS proofs about it |
| `MCProducerConsumerCond` | symmetry for TLC |
| `FileServer` | `T2/server.c` |
| `FileService` | `FileServer` with clients (`T2/client.c`) and a network that misbehaves |
| `MCFileService` | commands and inputs for TLC |
| `FileServiceProofs` | TLAPS proofs about it: requests and answers, and the disk |
| `SystemV` | External: a semaphore, a segment, SEM_UNDO, kills and restarts, as Lab 7 uses them |
| `SemaphoreLetters`, `SemaphoreBuffer`, `SemaphoreSum` | `Lab 7/Ex 1`, `Ex 2`, `Ex 3` on top of `SystemV` |
| `SemaphoreExercises` | the three under one set of users, and their properties |
| `MCSemaphoreExercises` | who runs what, for TLC |
| `SemaphoreProofs` | TLAPS proofs about the three |
| `Threads` | `pthread_create`, `pthread_join`, load and store, as the small exercises of Labs 8 and 9 use them |
| `FrogRace`, `CountingThreads` | `Lab 9/Ex 1, 2` and `Lab 8/Ex 2` on top of `Threads` |
| `FinishLine` | Abstract: each frog reported once, places counting up from 1 |
| `Races` | the two with their properties and the refinement of `FinishLine` |
| `MCRaces` | the rounds of the counting threads, for TLC |
| `RacesProofs` | TLAPS proofs about the frog race and the counter |

Operators named `X_Something` next to an operator `X` are variants of it with a plausible bug. No
specification uses them: each shows that some property would notice the bug.

### 2.1 Kernel and the schedulers

A child is `unborn`, `running`, `stopped` or `exited`; `status` is the change `waitpid()` has not reported
(a later change overwrites an earlier one); `pending` is a set, because signals do not queue; `stack` is the
handlers in progress and `pc` the next statement of each. `signal()` masks a handler's own signal and no
other, so any other handler may start on top. `pid` 0 in `kill()` is the scheduler's own group (`current` is
a zeroed static until the first swap): stopping it freezes the scheduler. When `waitpid(WNOHANG)` has nothing
to report, `status` is uninitialised and `WIFEXITED` may say either.

Every statement of the schedulers that touches shared state is an action, named after what it does
(`Preempt`, `Park`, `SwapFront`, `SwapDequeue`, `Resume`, `Rearm`, ...) and shared by the handlers that
contain it; `alarmHandler`, `childHandler`, `ioStartedHandler` and `mainStep` are the disjunctions that the C
functions are. Granularity: a condition and the `kill()` it guards, a `struct` assignment, and a call of
`Queue.c` are one step each. `size++` and the array assignment before it are two.

The constant `Overlap` selects the environment. TRUE: signals come and handlers start at any step. FALSE:
programs and timer act only while `main()` spins in its last loop and no handler runs, and a deliverable
signal is delivered at once. Many properties hold only in the second, which is how the code behaves as long
as a handler takes less time than it takes the next event to occur; section 4 says what breaks in the first.

Not modelled: a failing `fork()`, priorities outside 1..7 or missing, `execv()` separately from `fork()` (a
failed one ends the child, as `Exit` does), compilers that read `runningFlag` once only.

### 2.2 Producers and consumers

`ProducerConsumer` has one action per critical statement: the unlocked test, lock, the call, unlock. The
history variables `made` and `eaten` record values. `ProducerConsumerList` has the pointers: `heap`, the
`Queue` structure, `limit++` and `limit--` as load and store, and `crashed` for a NULL dereference; the
variable `useMutex`, chosen initially and never changed, says which of the two programs it is. Data races are
modelled as sequentially consistent interleavings. `ProducerConsumerCond` has `pthread_cond_wait` in its three
parts (release and block, wake, take the mutex again) with spurious wakeups; only the length of the list is
kept, since its contents make no difference to the properties. `malloc` and `pthread_create` succeed.

### 2.3 File server

The disk is four variables: `dirs`, `data` (bytes known by who wrote them), `dot` (the `.name` files) and
`mark` (the `.directory` files). `runServer()` takes one datagram at a time; each function starts with the
action that takes its request (`Take`), every changing system call after that is an action (`WriteDot`,
`WriteSign`, `WriteRemove`, `WriteUndot`, `WriteBytes`, `DirMark`, `DirMarkSign`, `DeleteEntry`,
`DeleteDirectory`), and the last one sends the answer (`Answer`). Nothing but the server writes the disk, so
the checks at the start of a handler may be taken with its first system call. `recursive_delete()` walks the
tree with `cursor` as `fts_read()` does: entries of a directory in any order, before the directory itself.

`free` counts the descriptors that can still be opened: `WriteUndot` loses `descriptor` and `WriteRefused`
loses `dirDescriptor`, as the code does, and every `open()` that fails for want of one has the consequence it
has in the code. `LookupFails` is the exit at line 324: the datagram was taken, `gethostbyaddr()` finds no name for its
sender, or has no descriptor to look for one, and `error()` ends the process without an answer. With no descriptor left
both outcomes are possible, since it depends on the resolver whether it needs one. `Kill` stops the server between any two system calls; `Start` starts it in the same
directory. `WriteOpensUnsigned` is the use of memory nobody set, with the outcomes refuse, go on and die.
`newline` in a datagram is the end of the client's line, which becomes part of the last parameter: only
`DR-REQ` compares that one, and so only a last line without a newline (as `T2/input:15`) can remove a
directory.

`FileService` adds the client's loop (`Send`, `Receive`, `Leave`) and the network (`LoseRequest`,
`LoseReply`, `Double`, `DeliverLate`), and says when there is no name (`NoName`). `hit` remembers the misfortunes, so that a property can say which of them
it survives.

Abstracted: parsing and texts of answers; wrong numbers of parameters are the command `??`; names are plain
(a file called `directory`, or a name with a leading dot, would share its `.name` file with something else)
and paths short enough for the code's buffers; client numbers have one length, so that a new owner
overwrites an old one; memory that was not set is no client's number in `Owns`; a removal cannot fail for other
reasons than an entry left in the directory. `#` lines never leave the client (`client.c:73`), so the server's
test for them (line 333) is not modelled. `error()` after a failed
`recvfrom()` or `sendto()` is not modelled, and `inet_ntoa()` never fails.

### 2.4 Lab 7: semaphores and shared memory

`SystemV` is the kernel's side: one semaphore found by a key, what SEM_UNDO keeps for each process (`undo`), one
segment, who is attached to it. `SETVAL` and `IPC_RMID` forget what was to be undone; a process that ends, by
itself or by a signal, has its operations taken back, and the value stops at 0 and at the largest value a
semaphore can have (`SemMax`, 32767 in Linux). A `semop()` that would pass that limit, for the value or for what
is kept of one process, returns `ERANGE`, and one on a removed semaphore `EINVAL`; no program looks at the
result, so each goes on as if it had succeeded. The users may kill a process between any two steps (`Interrupt`)
and start it again (`StartAgain`). `hit` remembers what has gone wrong, so that a property can say which
misfortunes it survives; `base` is what `SETVAL` set.

The exercises use different keys, so that processes of different exercises never meet: `OneExercise` assumes that all
programs of one behaviour belong to the same one. `program`, chosen initially, says what each process runs; `pc` is its next statement and `i` the loop counter of
its `main()`. `SemaphoreLetters` has a step for each `putchar`. `SemaphoreBuffer` has one for each character stored
or printed; a character is the number of its message, and the user types `Messages` of them. The names in the
code are reversed there: `semaforoP()` adds one and is the notice, `semaforoV()` takes one and is the wait.
`SemaphoreSum` splits `*mem += 5` into load and store; `due` is the sum that ought to be there. The file of Ex 3
holds two programs, one after the other with the line `E também` between them, and so does not compile as it
stands; they are modelled as the two programs it means. No program of the repository creates the segment of Ex 3:
`segment` is initially either. A process that was not given an address dies at its first access (`Crash`).
Left out: the `sleep()`s, the output of Ex 3, and a failing `shmat()` or `semget()` for other reasons.

### 2.5 Threads: the frog race and the counter

`main()` creates the threads one by one and joins them in order. Every access to a shared counter is a step with
a register in between; the arguments of `printf()` are fetched before it prints. `mutexed`, chosen initially, says
whether it is Ex 1 or Ex 2 of Lab 9; `exercise` says whether the frogs of Lab 9 run or the two threads of Lab 8. A
jump may have length 0, and then changes nothing. `cont` is counted up as well, but nothing reads it.

## 3. Runs

| Run | Module | Instance | States | Shows |
|---|---|---|---|---|
| `rr_quiet` | `SchedulerRRView` | 3 programs, up to 1 I/O each, no overlap | 2,629 | `TypeOK`, `Heartbeat`, `OnlyCurrentRuns`, `DoneMeansAllExited`, `ExitReport`, `Finishes`, `ImplementsRoundRobin` |
| `rr_false_exit` | `SchedulerRR` | 2 programs, overlap | – | violates `ExitsAreReal` |
| `pr_quiet` | `SchedulerPR` | 3 programs, 1 I/O, priorities 5 and 7, 3 slots, no overlap | 86,986 | `TypeOK`, `OwnedOnce`, `OnlyCurrentRuns`, `BestIsPicked`, `DoneMeansAllExited`, `Heartbeat`, `OnlyIOLeavesBounds` |
| `pr_ghost` | `SchedulerPR` | 2 programs, 1 I/O, priority 7 | – | violates `Finishes` |
| `pc_lab8` | `ProducerConsumer` | capacity 2, 4 elements of 2 values | 681 | `NothingLost`, `TestStaysTrue`, `LimitIsLength` |
| `pc_list` | `ProducerConsumerList` | both programs, capacity 2, 4 elements | 192,227 | `ListIsWhole`, `EatenOnceInOrder`, `BothFinish`, `ImplementsProducerConsumer` |
| `pc_flag` | `ProducerConsumerList` | `Lab 9/Ex 3`, 3 elements | – | violates `FlagIsEnough` |
| `pc_cond` | `MCProducerConsumerCond` | 2+2 threads, capacity 2, 2 elements each | about 36,000 | `WithinCapacity`, `MutexesAreReturned` |
| `pc_cond_stuck` | `MCProducerConsumerCond` | capacity 1, 1 element each | – | violates `NeverAllBlocked` |
| `sfs` | `MCFileService` | 2 clients, a directory, a file and a directory in it, 2 descriptors, one misfortune | 4,445,117 | `TypeOK`, `Signed`, `ProtectedBytes`, `ProtectedDirectories`, `AnswersMatch`, `NothingForgotten` |
| `semaphores` | `MCSemaphoreExercises` | 3 processes in five casts, 1 restart, any kills | 276,960 | `Conserved`, `Exclusive`, `NothingLost`, `Fresh`, `LimitNeedsMessages`, `Ends`, `Delivered` |
| `races` | `MCRaces` | 3 frogs with and without the mutex; 2 threads that count 3 and 4 times | 34,673 | `NoPlaceTooLate`, `Outcome`, `ImplementsFinishLine`, `MainEnds` |

Every property of a passing run has a mutant, a plausible bug in a mapped definition under which the run finds
it violated.

**Why the bounds are enough.** Three programs are the fewest of which one runs, one waits and one is ready, and
with one I/O each all orders of preemption, I/O and exit between two of them occur beside a third; the refinement
holds a strict queue order that two could not show. `TypeOK` and `Heartbeat` hold under overlap as well; there the
theorems speak for them, for any number of programs. Priorities 5 and 7 include decay up to the last level and
ties, which `qsort` may order as it likes. Capacity 2 with 4 elements has the queue empty, half full and full,
fills and empties it and passes every wrap between the producer's and the consumer's tests. Two threads on each
side are the fewest that pass a test together. In the file service the clients have no limit on the number of
commands, so every disk that these commands can lead to is visited; c1 and c2
differ in what they ask so that each owns, is refused by, and removes what the other created; two descriptors
are the most a request needs, so the first leak already starves a later request. Each behaviour has at most
one lost or doubled datagram, kill or missing name; leaks and their consequences, among them further failing lookups, come
on top. `ProtectedBytes` and
`ProtectedDirectories` are claimed across kills and repetitions, `Signed` for a server that was neither killed nor
starved, `AnswersMatch` without a doubled request, `NothingForgotten` without a lost datagram and
while the server has not died, be it killed, of memory nobody set, or for want of a client's name. `Signed` is claimed across
that last exit, which falls between two requests.
`ProtectedBytes` excludes a starved server, whose `WR-REQ` may go on with a file whose permissions it could not
read. In this instance, with a single file, the state does not arise: descriptors leak where a file is deleted or a
directory refuses, so it takes a second file to leak one while the protected file stays, and then it does.

In `semaphores` three processes are a leader with two followers that compete for a turn, two leaders that set and
remove each other's semaphore beside a follower, a writer with two printers, two writers that share one buffer,
and the two adders of Ex 3 of which one zeroes the sum. `SemMax` 3 with 4 messages lets the writer pass the limit;
a printer's own account passes it as well. Two rounds have a process come back for a second turn, two characters
a message that is half written. One restart lets a process find what its predecessor, or a dead one, left. In
`races` two frogs already lose an increment; the third reads between the two, and is the one that may be told a
place that was counted up before and not yet again. Three and four rounds are enough for a late store to undo several
counts. A jump is 0 or 1 and the race is over after 1: the distance has no effect but on who comes first.

**Fairness.** `rr_quiet` and `pr_ghost` assume weak fairness of the scheduler process and of the kernel's
timer, which the operating system gives a process that is never starved and `alarm()` guarantees, and strong
fairness of each program: it is enabled only while it holds the CPU, over and over again, and the time it
computes is finite (the test programs count to a limit). `pc_lab8` and `pc_list` assume weak fairness of both
threads: they are preemptive, and the loops poll. `pc_list`'s mutex has two users only, so weak fairness is
enough for it. `semaphores` assumes weak fairness of each process' own steps, and that of a waiting `semop()` means
that a process waits for ever only if the semaphore is empty again and again; nobody has to type, kill or
restart. `races` assumes weak fairness of `main()` and of each thread; as a jump of length 0 changes nothing, this
also says that `rand()` does not give one frog 0 for ever, and since a mutex is taken for a bounded number of
times nothing stronger is needed. Nothing is assumed of spurious wakeups or of the file service, whose properties are safety.

**Deadlock.** All runs have `CHECK_DEADLOCK FALSE`, since every one of these programs may stop: `main()` returns,
threads exit, a frozen scheduler or a NULL dereference ends everything, clients leave or wait for a lost
datagram, a follower waits for a semaphore nobody creates. That nothing stops too early is the matter of
`Finishes`, `BothFinish`, `Heartbeat`, `MutexesAreReturned`, `NothingForgotten`, `Ends`, `Delivered` and `MainEnds`.

## 4. What the checks found

- `rr_false_exit` (`SchedulerRR.c:74`): an exit that overwrites a stop or continue still being handled leaves a
  second SIGCHLD with nothing to report; the uninitialised `status` may then count as an exit.
- `pr_ghost` (`SchedulerPR.c:114`): when a process exits with nobody ready and somebody waiting, `current` stays the
  dead process; `alarmHandler` queues it again and may choose it for ever, so the waiting program never runs.
- `pc_flag` (`Lab 9/Ex 3/main.c:17`): both threads get past `notBusy`, and one dereferences NULL. The report says
  the flag is enough.
- `pc_cond_stuck` (`Lab 9/Ex 4/main.c:33`): the signal falls between another thread's test and its wait.

Seen while modelling, but kept out of the runs:

- With overlapping handlers and two programs, a program may be queued twice, and `OnlyCurrentRuns` and `DoneMeansAllExited` fail in
  `SchedulerRR` (a program that exits before its first SIGSTOP clears `runningFlag` before the next is launched).
- `SchedulerPR` with a single program that announces an I/O reads `mainList[-1]`; `OnlyIOLeavesBounds` says that
  this is the only way out of the array.
- In `Lab 9/Ex 4` two producers that pass the test together lose an element: `enqueue()` drops it silently.
- The server's main loop is said to "wait for a datagram, then echo it" (`server.c:306`). A client whose address has no name,
  which is looked up only to be printed (line 330), ends the server instead (lines 322-324) and waits for ever; so do the others,
  until the server is started again and they are too. `NothingForgotten` names this exit as an exception.
- The server leaks a descriptor for each file removed and each write a directory refuses. With one left, `WR-REQ` creates
  files without a `.name`. With none, it is likely that `gethostbyaddr()` fails first and the server exits; only where the
  resolver needs no descriptor does `DC-REQ` make directories without an owner, which nobody can remove.
- A doubled datagram makes a client take the second answer for that to its next command.
- The answer to `WR-REQ` ends with the number of bytes (`server.c:140`) where the comment at line 144 promises the
  offset.
- `Lab 7/Ex 1`: the leader's `IPC_RMID` at its end leaves the followers without a semaphore; their `semop()`s fail
  and their letters mix. A leader killed between `semget()` and `SETVAL` leaves followers waiting for ever. `Exclusive`
  and `Ends` name these as the only ways.
- `Lab 7/Ex 2`: a printer prints once before its first wait. The segment is never removed, so the next writer gets no
  address and dies at its first character. The writer does not wait for the printers, so a line may mix two messages;
  `Fresh` is what is left. After 32,767 notices that nobody took, or that one printer took, `semop()` fails and the
  notice or the wait is dropped.
- `Lab 7/Ex 3`: every process that starts sets the semaphore to 1, also while another is in what the comment at
  `main.c:40` calls the critical region, and lets itself in. The first to end removes the segment, so that a later
  one dies.
- `Lab 9/Ex 1`: several frogs are told the same place, as its report says, and Ex 2 cures it (`ImplementsFinishLine`).
  `Lab 8/Ex 2`: one late store undoes everything the other thread has counted since, so that two counts may be all
  that is left (`Outcome`).

## 5. Proofs

`tlapm` checks every proof from nothing; each is for all values of the constants allowed by the named `ASSUME`s.

- `SchedulerRRProofs`, any overlap: `TypeCorrect` and `HeartbeatHolds`, for any number of programs and I/Os and any overlap.
  `Heartbeat` is not inductive. The invariant `IInv` adds that `main()` stops and queues only what it launched
  (`Launched`), that a handler about to queue `current` has a real process in it or the scheduler is frozen
  (`NotGroup`, without which the type of the queues is lost), and that `alarm(0)` is reached only after
  `runningFlag` was cleared (`CancelLast`, the one statement that could break the heartbeat). There is one lemma
  per action; those about `Kernel` (`KillKeepsType`, `GotoKeepsType`, `ReturnKeepsType`, `DeliverKeepsType`) and
  `StatementKeepsHeartbeat` are used by all.
- `ProducerConsumerProofs`: `TypeCorrect`, `NothingIsLost`, `TestsStayTrue` and `CounterIsTrue` for every capacity, number of
  elements and set of values. `IInv` combines types, who holds the mutex at which label, that the counter is the
  length of the list, and that a thread past its test still finds what it tested: between the producer's test
  and its call only the consumer changes the queue, and only to make room, and conversely.
- `ProducerConsumerCondProofs`: `TypeCorrect` and `QueueStaysWithinCapacity` for any sets of threads. Not the test
  (several threads pass it) but `enqueue()`'s own comparison under the mutex keeps the bound.
  `MutexesReturned` states what `MutexesAreReturned` is about without `ENABLED`: as long as some thread is neither blocked
  nor at its end, some thread can go on, its guards written out in `CanGoOn`. It rests on `WaitMutexHeld`: a
  condition's mutex is held by exactly the threads about to wait or about to unlock it, and by none that is blocked.
- `ProducerConsumerListProofs`: the linked list, for every capacity, number of elements and set of values.
  - `OnceInOrder` (`EatenOnceInOrder`) holds for the mutex and for the flag, under every interleaving of loads and stores.
    `OrderInv` says that what is enqueued is remembered in the order of the nodes (`Log`), that a node not yet linked is
    the producer's own and the newest (`Unlinked`), that `frontNode` is never behind the node the consumer has in hand
    (`NotBehind`), and that each element eaten comes from a node older than all the consumer may come to (`Traced`, `Older`); `Counted` bounds the loops.
  - `WholeList` (`ListIsWhole`) is about the program with the mutex. `Chain` follows the pointers recursively, and induction
    over it is not to be had; the invariant `MutexInv` does without. Nodes are allocated one after the other, so
    the list is always the nodes from a first number to a last one (`Nodes`, `Linked`); `Queue(a, b)` says so with the `Queue`
    structure, and `Enqueueing`, `Dequeueing` and `Whole` say what of it is true at each statement of the call in progress
    (`Shape`). TLC checked `MutexInv` before it was proved, for `Capacity` 3 and `LIMIT` 6 (195,753 states). That
    `Chain` then yields these nodes is `ChainIsNodes`, by the least length for which it would be false (`LeastNumber`,
    `Follows`).
  - `ListImplements` (`ImplementsProducerConsumer`): the abstract queue is `Chain` between calls, and during one what the call
    will leave. The statements of a call of `Queue.c` map to one step of `ProducerConsumer` and stutters, and each other
    statement to the action of the same name.
- `SchedulerRRProofs`, without overlap: `CurrentHasTheCPU`, `DoneIsDone`, `ExitsAreOfCurrent` and the refinement
  `RoundRobinImplemented`, for any number of programs and I/Os. All four assume `~Overlap`: a handler is interrupted
  only by the SIGCHLD of its own `kill()`. That is no convenience, since with overlap they are false (section 4); TLC
  finds `rr_false_exit` in seconds. `QuietInv` says which frames can be on the stack together (`Script`, `Nesting`), that
  timer and programs wait for a quiet moment (`Undisturbed`), that at most one change of status is unreported and whose it
  is (`OneReport`), how far `main()` has come (`Launching`, `LaunchOrder`), and, the heart of it, that every
  program that lives is in exactly one place, the ready queue, the wait queue, `current` or the hands of a handler
  (`Places`, `CurrentProcess`). For the refinement, `Progress` relates `seen`, the state at the last quiet moment, to the
  queues statement by statement of each handler, so that when the last handler returns the difference between
  `seen` and the present is one step of `RoundRobin`, or none.
- `SchedulerPRProofs`, any overlap: `TypeCorrect` and `HeartbeatHolds` for any number of programs, I/Os, priorities and
  slots, up to the step, if there is one, that leaves the array. The invariant has the parts of the round-robin one,
  `CallType`, `ControlType`, `SchedulerType`, `Launched`, `CancelLast`, `Heartbeat`; a statement keeps it
  (`StatementInv`) or leaves the array, where the model stops (`OutOfBoundsInv`).
- `SchedulerPRProofs`, without overlap: `EverybodyOnce` (`OwnedOnce`), `OnlyCurrent` (`OnlyCurrentRuns`), `DoneAllExited`
  (`DoneMeansAllExited`), `BestPicked` (`BestIsPicked`) and `OnlyIOLeaves` (`OnlyIOLeavesBounds`). All assume `~Overlap`, as
  those of the round-robin scheduler do and for the same reason. `QuietInv` has the same parts as there (`Script`, `Nesting`,
  `Undisturbed`, `OneReport`, `Launching`) and these: `Places`, who is in the list, in the wait queue, in `current` or in a handler's
  hands, each process in one place only; `Stored`, that the list and the wait queue hold programs and `size` fits the array; `Subject`, that who
  announces an I/O is alive and who is buried is not; `Sorted`, that the list is sorted except between an insertion or an ageing and the `qsort`
  that follows; `SomeReady`, that only `ioStartedHandler` chooses from a list that may be empty. `Places` is weaker than for
  round robin in one point, which is the defect that `pr_ghost` shows: one process that has exited may still be in `current`
  or in the list. TLC checked the invariant before it was proved (86,986 states). Each change of place has a lemma
  (`MoveStop` to `MoveWake`), and so does each change of the array (`FirstPut`, `FirstPick`, `FirstSort`; `qsort` is any
  permutation that sorts). `OnlyIOLeaves` has a second hypothesis, `N <= Slots`: there are no more programs than
  the array of 20 has room for, else it overflows while they are listed. No process is in two slots (`FewOnce`), so that a list
  of at most `N` processes fits, and `mainList[-1]` after an I/O is what is left.
- `FileServiceProofs`, requests: `NoRequestForgotten` and `AnswersAreMatched` for any clients, commands, inputs, faults
  and number of descriptors. `IInv` adds that the server has no request in hand while it waits in `recvfrom()` and never
  two (`OneJob`), that clients wait for requests of their own (`OwnRequests`), and that, while nothing was doubled,
  each client has at most one datagram on its way in either direction (`Apart`, part of `Matched`). A step of the
  server takes a request or goes on with one, and answers it or keeps it; the four combinations are the lemmas
  `TakeAnswer`, `TakeContinue`, `JobAnswer` and `JobContinue`, and each action is one of them. The server drops what it has
  or was sent only where it is killed, dies of memory nobody set, or finds no name for a client; `NothingForgotten` names these
  and a lost datagram, and no other way exists, also none for want of descriptors after the lookup.
- `FileServiceProofs`, disk: `TypeCorrect`, `EverythingSigned`, `BytesProtected` and `DirectoriesProtected`, for the same
  constants and any tree of paths. `DiskInv` adds what each label of the server has already written and still relies on:
  the permission found at the check is that of the file at the `write()` (`Serving`), the directory that
  `recursive_delete()` stands in exists and nothing below what it has left does (`Tree`), a directory's owner is what the
  check found and a `.name` left behind by a kill between two system calls names somebody who was let in
  (`DirectoriesHold`). Between two requests, and after an exit in `gethostbyaddr()`, signatures and objects agree (`InStep`); while a request is served the
  difference is what that request's next statements write. A starved server is a separate case wherever an `open()`
  may fail.
- `SemaphoreProofs`: `ExclusiveTheorem`, `ConservedTheorem`, `NothingLostTheorem`, `FreshTheorem` and `LimitTheorem`, for any
  processes, messages, kills and restarts. `TurnInv`: while nothing disturbed the semaphore, a process has something
  to undo exactly while it is inside, and then the value is 0. `SumInv`: what an adder loaded is still what is in memory.
  `BufferInv`: some number M of whole messages is in the memory, or newer ones, the value of the semaphore and what the
  printers have taken come to no more than M, and each writer's account is no lower than -M; `Fresh` and the limit follow. `LimitTheorem` supposes `Cardinality(Process) <=
  SemMax`: each process of Ex 1 and Ex 3 may add one to the semaphore, SEMVMX is 32767 and so is the highest pid by
  default. `Conserved` is a sum over a finite set, and induction over sets cannot be cited here: the lemmas about sums
  (`SumOnce`, `SumType`, `SumChange`) argue by the smallest subset for which they would be false. Then `ConservedTheorem`
  needs only that functions that differ at one process have sums that differ by as much.
- `RacesProofs`: `MutexMakesFinishLine`, that the frog race with the mutex implements `FinishLine`,
  `NobodyIsToldTooLate`, and `OutcomeTheorem`, for any number of frogs, jumps, distance and rounds. The first rests on
  `MutexInv`: who has not been created has not started (`NotYet`, without which `pthread_create()` could send a frog
  back), who holds the mutex is the one frog between lock and unlock (`MutexHeld`), a frog in the lines is past its
  `printf()` (`OneLineEach`), and `classificacao` is the number of lines plus one, except while the holder has printed and
  not yet counted (`PlaceIsNext`). Then a line that is printed is the next one (`StepCrosses`), and every other step is a
  stutter. Without the mutex `Places` counts: there are as many lines as frogs past `printf()`, and neither
  `classificacao` nor what a frog has read of it is more than one ahead of the number of frogs that have counted up, who
  all have their line. `OutcomeTheorem` adds what `main()` knows from its joins (`FrogsJoined`) and both bounds of the
  counters (`ContBounds`, `ContExact` with the mutex, `PlaceBounds`); for the two counting threads `CountInv` says that the
  counter is never more than the rounds begun (`AtMostRounds`) and that a thread that has finished cannot leave less than
  two behind (`TwoAreLeft`), which needs what the other has in its register.

Only model-checked:

- liveness (`Finishes`, `BothFinish`, `Ends`, `Delivered`, `MainEnds`): out of reach of these provers;
- `MutexesAreReturned`, which uses `ENABLED`; `MutexesReturned` is its counterpart with the guards written out;
- that the properties of the runs expected to fail do fail: a counterexample is TLC's matter.

## 6. Not modelled, and the plan

Not modelled: the interpreter (it parses one line, forks and waits for one child at a time) and Labs 2–6 (next to
no state), `processRR` (unused), `T2/sample` (superseded), `Lab 8/Ex 1` (two threads that share nothing). Of
`T1/Queue.c` only whole calls are modelled: a handler that interrupts a call in `main()` or in another handler may find
the list in the middle of a change.

What would come next is `T1/Queue.c` at pointer level under signals, and the interpreter.
