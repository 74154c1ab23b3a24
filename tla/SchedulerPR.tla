----------------------------- MODULE SchedulerPR -----------------------------
(***************************************************************************)
(* T1/SchedulerPR.c: the scheduler with a priority list.  The ready        *)
(* processes are mainList[0 .. size-1], worst priority first; the process  *)
(* to run next is the last one.  A process that used up its slice falls    *)
(* one level.  As in SchedulerRR every statement on shared state is a step.*)
(***************************************************************************)
EXTENDS Kernel, FiniteSets

CONSTANTS
  Slots,    (* Length of the array mainList: 20 in the code.               *)
  Level     (* Priorities on the command line, 1 the best, 7 the worst.    *)

ASSUME SchedulerPRAssumption ==
  /\ Slots \in Nat \ {0}
  /\ Level \subseteq 1 .. 7 /\ Level # {}

VARIABLES
  mainList,     (* The array of ready processes; slots from size on are    *)
                (* stale.                                                  *)
  size,         (* An int: handlers that interrupt each other can take it   *)
                (* below 0.                                                *)
  waitQueue,    (* Processes that announced an I/O, front first.           *)
  current,      (* The process the scheduler believes is running.          *)
  runningFlag,
  argi          (* Programs launched so far.                               *)

listVars == <<mainList, size>>
vars == <<kernelVars, listVars, waitQueue, current, runningFlag, argi>>

Slot == 0 .. Slots - 1
Process == [pid : Pid \cup {Group}, priority : 0 .. 7]
Zero  == [pid |-> Group, priority |-> 0]    \* a static, before main() runs

Label == {"fork", "stop", "put", "grow", "sort", "pick", "shrink", "cont",
          "rearm", "loop", "done", "undefined", "decay", "wake", "wakegrow",
          "wakesort", "unwait", "wait", "test", "cancel", "park"}

TypeOK ==
  /\ KernelTypeOK(Label)
  /\ mainList \in [Slot -> Process]
  /\ size \in Int
  /\ waitQueue \in Seq(Process)
  /\ current \in Process
  /\ runningFlag \in BOOLEAN
  /\ argi \in 0 .. N

Init ==
  /\ KernelInit("fork")
  /\ mainList = [i \in Slot |-> Zero]
  /\ size = 0
  /\ waitQueue = << >>
  /\ current = Zero
  /\ runningFlag = TRUE
  /\ argi = 0

-----------------------------------------------------------------------------
(* The array and its order.                                                *)

\* An access outside the array: the program may do anything from here on, and
\* the model stops.
OutOfBounds ==
  /\ pc' = [pc EXCEPT !["main"] = "undefined"]
  /\ UNCHANGED <<stack, listVars, waitQueue, current>>

\* mainList[size] = x
Put(f, x, next) ==
  IF size \in Slot
    THEN /\ mainList' = [mainList EXCEPT ![size] = x]
         /\ Goto(f, next)
         /\ UNCHANGED <<size, waitQueue, current>>
    ELSE OutOfBounds

\* size++
Grow(f, label, next) ==
  /\ At(f, label)
  /\ size' = size + 1
  /\ Goto(f, next)
  /\ NoCall
  /\ UNCHANGED <<mainList, waitQueue, current, runningFlag, argi>>

Orders(n) ==
  {o \in [0 .. n - 1 -> 0 .. n - 1] : \A i, j \in 0 .. n - 1 : o[i] = o[j] => i = j}

Descending(list, n) ==
  \A i, j \in 0 .. n - 1 : i < j => list[i].priority >= list[j].priority

\* Mutant of sortList: not called when a waiting process became ready.
sortList_OncePerAlarm(f, label, next) ==
  /\ At(f, label)
  /\ \E o \in Orders(size) : mainList' =
       [i \in Slot |-> IF i < size THEN mainList[o[i]] ELSE mainList[i]]
  /\ label # "wakesort" => Descending(mainList', size)
  /\ Goto(f, next)
  /\ NoCall
  /\ UNCHANGED <<size, waitQueue, current, runningFlag, argi>>

\* sortList(): qsort() by cmpfunc, which orders equal priorities as it likes.
sortList(f, label, next) ==
  /\ At(f, label)
  /\ IF size \in 0 .. Slots
       THEN /\ \E o \in Orders(size) : mainList' =
                 [i \in Slot |-> IF i < size THEN mainList[o[i]] ELSE mainList[i]]
            /\ Descending(mainList', size)
            /\ Goto(f, next)
            /\ UNCHANGED <<size, waitQueue, current>>
       ELSE OutOfBounds
  /\ NoCall
  /\ UNCHANGED <<runningFlag, argi>>

-----------------------------------------------------------------------------
(* main()                                                                  *)

Launch ==
  /\ At("main", "fork")
  /\ IF argi < N
       THEN /\ argi' = argi + 1
            /\ Fork(argi + 1)
            /\ Goto("main", "stop")
       ELSE /\ Goto("main", "sort")
            /\ NoCall /\ UNCHANGED argi
  /\ UNCHANGED <<listVars, waitQueue, current, runningFlag>>

LaunchStop ==
  /\ At("main", "stop")
  /\ KillStop(argi)
  /\ Goto("main", "put")
  /\ UNCHANGED <<listVars, waitQueue, current, runningFlag, argi>>

\* The priority is the argument that follows the program's name.
LaunchPut ==
  /\ At("main", "put")
  /\ \E priority \in Level : Put("main", [pid |-> argi, priority |-> priority], "grow")
  /\ NoCall
  /\ UNCHANGED <<runningFlag, argi>>

Leave ==
  /\ At("main", "loop")
  /\ ~runningFlag
  /\ Goto("main", "done")
  /\ NoCall
  /\ UNCHANGED <<listVars, waitQueue, current, runningFlag, argi>>

mainStart == \/ Launch \/ LaunchStop \/ LaunchPut \/ Leave
             \/ Grow("main", "grow", "fork") \/ sortList("main", "sort", "pick")

-----------------------------------------------------------------------------
(* Statements the handlers, and main() for its last lines, have in common. *)

\* if(current.pid != -1) kill(current.pid, SIGSTOP)
Preempt(f) ==
  /\ At(f, "stop")
  /\ IF current.pid # None THEN KillStop(current.pid) ELSE NoCall
  /\ Goto(f, IF f = "SIGALRM" THEN "decay" ELSE "park")
  /\ UNCHANGED <<listVars, waitQueue, current, runningFlag, argi>>

\* current = mainList[size-1]
Pick(f) ==
  /\ At(f, "pick")
  /\ IF size - 1 \in Slot
       THEN /\ current' = mainList[size - 1]
            /\ Goto(f, "shrink")
            /\ UNCHANGED <<listVars, waitQueue>>
       ELSE OutOfBounds
  /\ NoCall
  /\ UNCHANGED <<runningFlag, argi>>

Shrink(f) ==
  /\ At(f, "shrink")
  /\ size' = size - 1
  /\ Goto(f, "cont")
  /\ NoCall
  /\ UNCHANGED <<mainList, waitQueue, current, runningFlag, argi>>

\* Mutant of Resume: only the alarm and I/O handlers continue a process.
Resume_NotByChild(f) ==
  /\ At(f, "cont")
  /\ IF current.pid = None \/ f = "SIGCHLD" THEN NoCall ELSE KillCont(current.pid)
  /\ Goto(f, "rearm")
  /\ UNCHANGED <<listVars, waitQueue, current, runningFlag, argi>>

\* kill(current.pid, SIGCONT); the alarm and I/O handlers look at the pid first.
Resume(f) ==
  /\ At(f, "cont")
  /\ IF current.pid = None /\ f \in {"SIGALRM", "SIGUSR1"}
       THEN NoCall
       ELSE KillCont(current.pid)
  /\ Goto(f, "rearm")
  /\ UNCHANGED <<listVars, waitQueue, current, runningFlag, argi>>

\* Mutant of Rearm: only main() sets the alarm.
Rearm_OnlyMain(f) ==
  /\ At(f, "rearm")
  /\ IF f = "main" THEN SetTimer(TRUE) ELSE NoCall
  /\ CASE f = "main"    -> Goto(f, "loop")
       [] f = "SIGALRM" -> Goto(f, "wake")
       [] OTHER         -> Return(f)
  /\ UNCHANGED <<listVars, waitQueue, current, runningFlag, argi>>

\* alarm(timeSlice); only alarmHandler has more to do afterwards.
Rearm(f) ==
  /\ At(f, "rearm")
  /\ SetTimer(TRUE)
  /\ CASE f = "main"    -> Goto(f, "loop")
       [] f = "SIGALRM" -> Goto(f, "wake")
       [] OTHER         -> Return(f)
  /\ UNCHANGED <<listVars, waitQueue, current, runningFlag, argi>>

Swap(f) == Pick(f) \/ Shrink(f) \/ Resume(f) \/ Rearm(f)

-----------------------------------------------------------------------------
(* alarmHandler                                                            *)

\* Mutant of Decay: no worst level.
Decay_Unlimited ==
  /\ At("SIGALRM", "decay")
  /\ current' = [current EXCEPT !.priority = @ + 1]
  /\ Goto("SIGALRM", "put")
  /\ NoCall
  /\ UNCHANGED <<listVars, waitQueue, runningFlag, argi>>

Decay ==
  /\ At("SIGALRM", "decay")
  /\ current' = [current EXCEPT !.priority = IF @ < 7 THEN @ + 1 ELSE @]
  /\ Goto("SIGALRM", "put")
  /\ NoCall
  /\ UNCHANGED <<listVars, waitQueue, runningFlag, argi>>

PutBack ==
  /\ At("SIGALRM", "put")
  /\ Put("SIGALRM", current, "grow")
  /\ NoCall
  /\ UNCHANGED <<runningFlag, argi>>

\* The oldest waiting process becomes ready, after the next one was chosen.
Wake ==
  /\ At("SIGALRM", "wake")
  /\ IF waitQueue # << >>
       THEN Put("SIGALRM", Head(waitQueue), "wakegrow")
       ELSE Return("SIGALRM") /\ UNCHANGED <<listVars, waitQueue, current>>
  /\ NoCall
  /\ UNCHANGED <<runningFlag, argi>>

\* Mutant of Unwait: the process stays in the wait queue.
Unwait_Missing ==
  /\ At("SIGALRM", "unwait")
  /\ Return("SIGALRM")
  /\ NoCall
  /\ UNCHANGED <<listVars, waitQueue, current, runningFlag, argi>>

Unwait ==
  /\ At("SIGALRM", "unwait")
  /\ waitQueue' = IF waitQueue = << >> THEN waitQueue ELSE Tail(waitQueue)
  /\ Return("SIGALRM")
  /\ NoCall
  /\ UNCHANGED <<listVars, current, runningFlag, argi>>

alarmHandler ==
  \/ Preempt("SIGALRM") \/ Decay \/ PutBack
  \/ Grow("SIGALRM", "grow", "sort") \/ sortList("SIGALRM", "sort", "pick")
  \/ Swap("SIGALRM") \/ Wake
  \/ Grow("SIGALRM", "wakegrow", "wakesort") \/ sortList("SIGALRM", "wakesort", "unwait")
  \/ Unwait

-----------------------------------------------------------------------------
(* childHandler                                                            *)

Reap(exited) ==
  /\ At("SIGCHLD", "wait")
  /\ WaitPid(exited)
  /\ IF exited THEN Goto("SIGCHLD", "test") ELSE Return("SIGCHLD")
  /\ UNCHANGED <<listVars, waitQueue, current, runningFlag, argi>>

\* Mutants of TestIdle: the wait queue is not looked at; size is not looked at
\* before the next process is taken.
TestIdle_IgnoresWaiting ==
  /\ At("SIGCHLD", "test")
  /\ runningFlag' = (runningFlag /\ size # 0)
  /\ Goto("SIGCHLD", IF size # 0 THEN "pick" ELSE "cancel")
  /\ NoCall
  /\ UNCHANGED <<listVars, waitQueue, current, argi>>

TestIdle_AlwaysPicks ==
  /\ At("SIGCHLD", "test")
  /\ Goto("SIGCHLD", "pick")
  /\ NoCall
  /\ UNCHANGED <<listVars, waitQueue, current, runningFlag, argi>>

\* With nobody ready but somebody waiting, `current' stays the process that
\* has just exited.
TestIdle ==
  /\ At("SIGCHLD", "test")
  /\ runningFlag' = (runningFlag /\ ~(size = 0 /\ waitQueue = << >>))
  /\ Goto("SIGCHLD", IF size # 0 THEN "pick"
                     ELSE IF waitQueue = << >> THEN "cancel" ELSE "rearm")
  /\ NoCall
  /\ UNCHANGED <<listVars, waitQueue, current, argi>>

\* alarm(0)
Cancel ==
  /\ At("SIGCHLD", "cancel")
  /\ SetTimer(FALSE)
  /\ Return("SIGCHLD")
  /\ UNCHANGED <<listVars, waitQueue, current, runningFlag, argi>>

childHandler == \/ \E exited \in BOOLEAN : Reap(exited)
                \/ TestIdle \/ Swap("SIGCHLD") \/ Cancel

(* ioStartedHandler                                                        *)

Park ==
  /\ At("SIGUSR1", "park")
  /\ waitQueue' = Append(waitQueue, current)
  /\ Goto("SIGUSR1", "pick")
  /\ NoCall
  /\ UNCHANGED <<listVars, current, runningFlag, argi>>

ioStartedHandler == Preempt("SIGUSR1") \/ Park \/ Swap("SIGUSR1")

-----------------------------------------------------------------------------
Entry(s) == IF s = "SIGCHLD" THEN "wait" ELSE "stop"

schedulerVars == <<listVars, waitQueue, current, runningFlag, argi>>

Interrupt(s) == Deliver(s, Entry(s)) /\ UNCHANGED schedulerVars

Scheduler == \/ mainStart \/ Swap("main")
             \/ alarmHandler \/ childHandler \/ ioStartedHandler
             \/ \E s \in Signal : Interrupt(s)

Program(p) == (RequestIO(p) \/ Exit(p)) /\ UNCHANGED schedulerVars

Timer == Tick /\ UNCHANGED schedulerVars

Next == Scheduler \/ Timer \/ \E p \in Pid : Program(p)

Spec == Init /\ [][Next]_vars

\* As for SchedulerRR.
Fairness == /\ WF_vars(Scheduler)
            /\ WF_vars(Timer)
            /\ \A p \in Pid : SF_vars(Program(p))

FairSpec == Spec /\ Fairness

-----------------------------------------------------------------------------
(* Properties.                                                             *)

Listed ==
  <<current.pid>> \o [i \in 1 .. size |-> mainList[i - 1].pid]
                  \o [i \in 1 .. Len(waitQueue) |-> waitQueue[i].pid]

Copies(p) == Cardinality({i \in 1 .. Len(Listed) : Listed[i] = p})

\* Between two interruptions the scheduler knows every process that has not
\* exited exactly once, as the current one, in the ready list or waiting: the
\* array assignments and size++ / size-- of the handlers lose and copy nothing.
\* Beside them it may know one process that has exited: childHandler leaves it
\* as the current one when nobody is ready but somebody waits, and alarmHandler
\* then lists it as ready; such a ghost is never joined by a second one.
OwnedOnce ==
  Quiet =>
    /\ \A p \in Pid : life[p] # "exited" => Copies(p) = 1
    /\ runningFlag =>
         Cardinality({i \in 1 .. Len(Listed) : Listed[i] \in Pid /\ life[Listed[i]] = "exited"}) <= 1

\* Between two interruptions the current process runs, unless it has exited, and
\* nothing else does: the SIGSTOP and SIGCONT the handlers sent agree with `current'.
OnlyCurrentRuns ==
  Quiet => \A p \in Pid :
    (life[p] = "running") <=> (p = current.pid /\ life[p] # "exited")

\* Whoever takes the last element of mainList takes the best priority: the
\* handlers that pick without sorting first find the list in order, whichever
\* handler changed it last.
BestIsPicked ==
  [][\A f \in Frame : Pick(f) /\ pc'[f] = "shrink" =>
       \A i \in 0 .. size - 1 : current'.priority <= mainList[i].priority]_vars

\* childHandler clears runningFlag only when no program is left.
DoneMeansAllExited == ~runningFlag => \A p \in Pid : life[p] = "exited"

\* The scheduler never loses its clock: while it has work it has an alarm set,
\* an alarm to handle, or a handler on the way to alarm(timeSlice).  In
\* alarmHandler that call comes before the waiting process is released.
Heartbeat ==
  pc["main"] = "loop" /\ runningFlag =>
    \/ timer
    \/ "SIGALRM" \in pending
    \/ pc["SIGALRM"] \notin {"idle", "wake", "wakegrow", "wakesort", "unwait"}
    \/ pc["SIGUSR1"] # "idle"
    \/ pc["SIGCHLD"] \notin {"idle", "wait", "cancel"}

\* With room for all the programs, nothing but ioStartedHandler's swap with an
\* empty list ever leaves mainList's bounds.
OnlyIOLeavesBounds ==
  [][pc["main"] # "undefined" /\ pc'["main"] = "undefined" =>
       pc["SIGUSR1"] = "pick" /\ size = 0]_vars

\* Every program gets enough of the CPU to finish, and then main() returns, unless
\* a handler has left the array's bounds.
Finishes == <>(\/ pc["main"] = "done" /\ \A p \in Pid : life[p] = "exited"
               \/ pc["main"] = "undefined")
=============================================================================
