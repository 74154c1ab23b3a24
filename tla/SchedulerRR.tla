----------------------------- MODULE SchedulerRR -----------------------------
(***************************************************************************)
(* T1/SchedulerRR.c: main() forks every program and stops it at once, then *)
(* three signal handlers share one CPU among them in round-robin order.    *)
(* Each statement that touches shared state is a step of its own, so that  *)
(* a handler can interrupt another one between any two of them.            *)
(***************************************************************************)
EXTENDS Kernel, FiniteSets

VARIABLES
  mainQueue,    (* The ready queue (T1/Queue.c), front first.              *)
  waitQueue,    (* Processes that announced an I/O.                        *)
  current,      (* The pid the scheduler believes is running.              *)
  runningFlag,  (* main() loops while it is TRUE.                          *)
  argi          (* Programs launched so far.                               *)

queueVars == <<mainQueue, waitQueue>>
vars == <<kernelVars, queueVars, current, runningFlag, argi>>

Label == {"fork", "stop", "enq", "pick", "deq", "cont", "rearm", "loop", "done",
          "wake", "unwait", "wait", "test", "cancel"}

TypeOK ==
  /\ KernelTypeOK(Label)
  /\ mainQueue \in Seq(Pid \cup {None})
  /\ waitQueue \in Seq(Pid \cup {None})
  /\ current \in Pid \cup {None, Group}
  /\ runningFlag \in BOOLEAN
  /\ argi \in 0 .. N

\* `current' is a zeroed static: until the first swap its pid is 0.
Init ==
  /\ KernelInit("fork")
  /\ mainQueue = << >>
  /\ waitQueue = << >>
  /\ current = Group
  /\ runningFlag = TRUE
  /\ argi = 0

-----------------------------------------------------------------------------
(* T1/Queue.c                                                              *)

Front(q)   == IF q = << >> THEN None ELSE Head(q)
Dequeue(q) == IF q = << >> THEN q ELSE Tail(q)

-----------------------------------------------------------------------------
(* main()                                                                  *)

\* Mutant of Launch: i <= argc.
Launch_OneTooMany ==
  /\ At("main", "fork")
  /\ IF argi <= N
       THEN /\ argi' = argi + 1
            /\ Fork(argi + 1)
            /\ Goto("main", "stop")
       ELSE /\ Goto("main", "pick")
            /\ NoCall /\ UNCHANGED argi
  /\ UNCHANGED <<queueVars, current, runningFlag>>

\* The loop over argv: fork() the next program, or go on after the loop.
Launch ==
  /\ At("main", "fork")
  /\ IF argi < N
       THEN /\ argi' = argi + 1
            /\ Fork(argi + 1)
            /\ Goto("main", "stop")
       ELSE /\ Goto("main", "pick")
            /\ NoCall /\ UNCHANGED argi
  /\ UNCHANGED <<queueVars, current, runningFlag>>

LaunchStop ==
  /\ At("main", "stop")
  /\ KillStop(argi)
  /\ Goto("main", "enq")
  /\ UNCHANGED <<queueVars, current, runningFlag, argi>>

LaunchEnqueue ==
  /\ At("main", "enq")
  /\ mainQueue' = Append(mainQueue, argi)
  /\ Goto("main", "fork")
  /\ NoCall
  /\ UNCHANGED <<waitQueue, current, runningFlag, argi>>

\* while(runningFlag)
Leave ==
  /\ At("main", "loop")
  /\ ~runningFlag
  /\ Goto("main", "done")
  /\ NoCall
  /\ UNCHANGED <<queueVars, current, runningFlag, argi>>

-----------------------------------------------------------------------------
(* Statements the handlers, and main() for its last lines, have in common. *)

\* Mutant of Preempt: the process is queued but not stopped.
Preempt_NoStop(f) ==
  /\ At(f, "stop")
  /\ Goto(f, IF current # None THEN "enq" ELSE "pick")
  /\ NoCall
  /\ UNCHANGED <<queueVars, current, runningFlag, argi>>

\* if(current.pid != -1) kill(current.pid, SIGSTOP)
Preempt(f) ==
  /\ At(f, "stop")
  /\ IF current # None
       THEN KillStop(current) /\ Goto(f, "enq")
       ELSE /\ Goto(f, "pick")
            /\ NoCall
  /\ UNCHANGED <<queueVars, current, runningFlag, argi>>

\* The stopped process goes back to the ready queue, or to the wait queue.
Park(f) ==
  /\ At(f, "enq")
  /\ IF f = "SIGALRM"
       THEN mainQueue' = Append(mainQueue, current) /\ UNCHANGED waitQueue
       ELSE waitQueue' = Append(waitQueue, current) /\ UNCHANGED mainQueue
  /\ Goto(f, "pick")
  /\ NoCall
  /\ UNCHANGED <<current, runningFlag, argi>>

\* current = front(mainQueue)
SwapFront(f) ==
  /\ At(f, "pick")
  /\ current' = Front(mainQueue)
  /\ Goto(f, "deq")
  /\ NoCall
  /\ UNCHANGED <<queueVars, runningFlag, argi>>

\* dequeue(mainQueue)
SwapDequeue(f) ==
  /\ At(f, "deq")
  /\ mainQueue' = Dequeue(mainQueue)
  /\ Goto(f, IF f = "SIGCHLD" THEN "test" ELSE "cont")
  /\ NoCall
  /\ UNCHANGED <<waitQueue, current, runningFlag, argi>>

\* kill(current.pid, SIGCONT); only main() does so without looking at the pid.
Resume(f) ==
  /\ At(f, "cont")
  /\ IF current # None \/ f = "main"
       THEN KillCont(current)
       ELSE NoCall
  /\ Goto(f, "rearm")
  /\ UNCHANGED <<queueVars, current, runningFlag, argi>>

\* Mutant of Rearm: only main() sets the alarm.
Rearm_OnlyMain(f) ==
  /\ At(f, "rearm")
  /\ IF f = "main" THEN SetTimer(TRUE) /\ Goto(f, "loop") ELSE NoCall /\ Return(f)
  /\ UNCHANGED <<queueVars, current, runningFlag, argi>>

\* alarm(timeSlice), the last statement of every handler and of the set-up.
Rearm(f) ==
  /\ At(f, "rearm")
  /\ SetTimer(TRUE)
  /\ IF f = "main" THEN Goto(f, "loop") ELSE Return(f)
  /\ UNCHANGED <<queueVars, current, runningFlag, argi>>

-----------------------------------------------------------------------------
(* alarmHandler: first the oldest waiting process becomes ready again.     *)

WakeEnqueue ==
  /\ At("SIGALRM", "wake")
  /\ IF waitQueue # << >>
       THEN /\ mainQueue' = Append(mainQueue, Front(waitQueue))
            /\ Goto("SIGALRM", "unwait")
       ELSE /\ Goto("SIGALRM", "stop")
            /\ UNCHANGED mainQueue
  /\ NoCall
  /\ UNCHANGED <<waitQueue, current, runningFlag, argi>>

WakeDequeue ==
  /\ At("SIGALRM", "unwait")
  /\ waitQueue' = Dequeue(waitQueue)
  /\ Goto("SIGALRM", "stop")
  /\ NoCall
  /\ UNCHANGED <<mainQueue, current, runningFlag, argi>>

(* childHandler: one waitpid(), and the swap when it reports an exit.      *)

Reap(exited) ==
  /\ At("SIGCHLD", "wait")
  /\ WaitPid(exited)
  /\ IF exited THEN Goto("SIGCHLD", "pick") ELSE Return("SIGCHLD")
  /\ UNCHANGED <<queueVars, current, runningFlag, argi>>

\* Mutant of TestIdle: without isQueueEmpty(waitQueue).
TestIdle_IgnoresWaiting ==
  /\ At("SIGCHLD", "test")
  /\ IF current = None
       THEN runningFlag' = FALSE /\ Goto("SIGCHLD", "cancel")
       ELSE UNCHANGED runningFlag /\ Goto("SIGCHLD", "cont")
  /\ NoCall
  /\ UNCHANGED <<queueVars, current, argi>>

TestIdle ==
  /\ At("SIGCHLD", "test")
  /\ IF current = None /\ waitQueue = << >>
       THEN runningFlag' = FALSE /\ Goto("SIGCHLD", "cancel")
       ELSE UNCHANGED runningFlag /\ Goto("SIGCHLD", "cont")
  /\ NoCall
  /\ UNCHANGED <<queueVars, current, argi>>

\* alarm(0)
Cancel ==
  /\ At("SIGCHLD", "cancel")
  /\ SetTimer(FALSE)
  /\ Return("SIGCHLD")
  /\ UNCHANGED <<queueVars, current, runningFlag, argi>>

-----------------------------------------------------------------------------
\* Mutant of Entry: alarmHandler does not look at the wait queue.
Entry_NoWake(s) == CASE s = "SIGALRM" -> "stop"
                     [] s = "SIGCHLD" -> "wait"
                     [] s = "SIGUSR1" -> "stop"

Entry(s) == CASE s = "SIGALRM" -> "wake"
              [] s = "SIGCHLD" -> "wait"
              [] s = "SIGUSR1" -> "stop"

Swap(f) == SwapFront(f) \/ SwapDequeue(f) \/ Resume(f) \/ Rearm(f)

mainStep == Launch \/ LaunchStop \/ LaunchEnqueue \/ Swap("main") \/ Leave

alarmHandler == \/ WakeEnqueue \/ WakeDequeue
                \/ Preempt("SIGALRM") \/ Park("SIGALRM") \/ Swap("SIGALRM")

childHandler == \/ \E exited \in BOOLEAN : Reap(exited)
                \/ Swap("SIGCHLD") \/ TestIdle \/ Cancel

ioStartedHandler == Preempt("SIGUSR1") \/ Park("SIGUSR1") \/ Swap("SIGUSR1")

Interrupt(s) == Deliver(s, Entry(s)) /\ UNCHANGED <<queueVars, current, runningFlag, argi>>

Scheduler == \/ mainStep \/ alarmHandler \/ childHandler \/ ioStartedHandler
             \/ \E s \in Signal : Interrupt(s)

Program(p) == (RequestIO(p) \/ Exit(p)) /\ UNCHANGED <<queueVars, current, runningFlag, argi>>

Timer == Tick /\ UNCHANGED <<queueVars, current, runningFlag, argi>>

Next == Scheduler \/ Timer \/ \E p \in Pid : Program(p)

Spec == Init /\ [][Next]_vars

\* The scheduler and the kernel's clock keep going; a program that is let run
\* again and again gets on with its work, which is finite.
Fairness == /\ WF_vars(Scheduler)
            /\ WF_vars(Timer)
            /\ \A p \in Pid : SF_vars(Program(p))

-----------------------------------------------------------------------------
(* Properties.                                                             *)

\* Between two interruptions the CPU belongs to the current process alone: the
\* SIGSTOP and SIGCONT the handlers sent agree with `current', and it is only
\* left idle when no process is ready.
OnlyCurrentRuns ==
  Quiet => /\ \A p \in Pid : (life[p] = "running") <=> (p = current)
           /\ current = None => mainQueue = << >>

\* childHandler clears runningFlag, so that main() prints Done!, only when no
\* program is left, not even one that waits for its I/O.
DoneMeansAllExited == ~runningFlag => \A p \in Pid : life[p] = "exited"

\* Whenever childHandler says that a process finished and gives the CPU to the
\* next one, the process it names, `current', has exited and waitpid() has just
\* said so: a SIGCHLD for a stop or a continue, and an uninitialised `status', are
\* never taken for an exit.
ExitReport ==
  [][Reap(TRUE) => /\ current \in Pid
                   /\ status[current] = "exited" /\ status'[current] = "none"]_vars

\* The branch commented `exited normally' is only taken for a child that did exit.
ExitsAreReal == [][Reap(TRUE) => \E p \in Pid : status[p] = "exited"]_vars

\* The scheduler never loses its clock: while it has work it has an alarm set,
\* an alarm to handle, or a handler on the way to alarm(timeSlice), however the
\* handlers interrupt each other.  childHandler is on its way only once it has
\* taken waitpid()'s answer for an exit.
Heartbeat ==
  pc["main"] = "loop" /\ runningFlag =>
    \/ timer
    \/ "SIGALRM" \in pending
    \/ pc["SIGALRM"] # "idle"
    \/ pc["SIGUSR1"] # "idle"
    \/ pc["SIGCHLD"] \notin {"idle", "wait", "cancel"}

\* Every program gets enough of the CPU to finish, and then main() returns.
Finishes == <>(pc["main"] = "done" /\ \A p \in Pid : life[p] = "exited")
=============================================================================
