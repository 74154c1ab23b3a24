------------------------------- MODULE Kernel -------------------------------
(***************************************************************************)
(* The part of the operating system the two schedulers of T1 talk to, as   *)
(* they use it: child processes that run, stop, continue and exit, the     *)
(* wait status waitpid() reports for each of them, the one-shot alarm()    *)
(* timer, and signals.  A signal is pending at most once, its own handler  *)
(* is masked while it runs, and any other handler may start on top of it:  *)
(* signal() leaves the handler installed and masks nothing else.           *)
(***************************************************************************)
EXTENDS Integers, Sequences

CONSTANTS
  N,        (* Number of programs on the scheduler's command line.         *)
  MaxIO,    (* A program raises SIGUSR1 at most this many times.           *)
  Overlap   (* TRUE: programs and the timer may act, and signals may be    *)
            (* delivered, at any moment.  FALSE: a handler runs to its end *)
            (* before anything but its own kill() raises a signal, and a   *)
            (* signal that may be delivered is delivered at once.          *)

ASSUME KernelAssumption ==
  /\ N \in Nat \ {0}
  /\ MaxIO \in Nat
  /\ Overlap \in BOOLEAN

VARIABLES
  life,     (* What each child process is doing.                           *)
  ioLeft,   (* How often each program will still raise SIGUSR1.            *)
  status,   (* The status change of each child waitpid() has not reported. *)
  pending,  (* Signals raised for the scheduler and not yet delivered.     *)
  timer,    (* Whether alarm() is armed.                                   *)
  frozen,   (* The scheduler stopped itself with kill(0, SIGSTOP).         *)
  stack,    (* The handlers in progress, the innermost first.              *)
  pc        (* The next statement of main() and of each handler.           *)

kernelVars == <<life, ioLeft, status, pending, timer, frozen, stack, pc>>

Pid    == 1 .. N
Group  == 0             \* kill(0, ...): the scheduler's own process group
None   == -1            \* the pid of the process front() makes up
Signal == {"SIGALRM", "SIGCHLD", "SIGUSR1"}
Frame  == Signal \cup {"main"}

KernelTypeOK(Label) ==
  /\ life   \in [Pid -> {"unborn", "running", "stopped", "exited"}]
  /\ ioLeft \in [Pid -> 0 .. MaxIO]
  /\ status \in [Pid -> {"none", "stopped", "continued", "exited"}]
  /\ pending \subseteq Signal
  /\ timer  \in BOOLEAN
  /\ frozen \in BOOLEAN
  /\ stack  \in Seq(Signal)
  /\ pc     \in [Frame -> Label \cup {"idle"}]

KernelInit(start) ==
  /\ life    = [p \in Pid |-> "unborn"]
  /\ ioLeft  \in [Pid -> 0 .. MaxIO]
  /\ status  = [p \in Pid |-> "none"]
  /\ pending = {}
  /\ timer   = FALSE
  /\ frozen  = FALSE
  /\ stack   = << >>
  /\ pc      = [f \in Frame |-> IF f = "main" THEN start ELSE "idle"]

-----------------------------------------------------------------------------
(* Control: frames and delivery.                                           *)

Alive == ~frozen /\ pc["main"] \notin {"done", "undefined"}

Deliverable(s) == Alive /\ s \in pending /\ pc[s] = "idle"

\* Frame f executes its statement `label'.
At(f, label) ==
  /\ Alive
  /\ pc[f] = label
  /\ IF stack = << >> THEN f = "main" ELSE f = Head(stack)
  /\ Overlap \/ \A s \in Signal : ~Deliverable(s)

Goto(f, label) ==
  /\ pc' = [pc EXCEPT ![f] = label]
  /\ UNCHANGED stack

Return(f) ==
  /\ pc' = [pc EXCEPT ![f] = "idle"]
  /\ stack' = Tail(stack)

Deliver(s, entry) ==
  /\ Deliverable(s)
  /\ pending' = pending \ {s}
  /\ stack' = <<s>> \o stack
  /\ pc' = [pc EXCEPT ![s] = entry]
  /\ UNCHANGED <<life, ioLeft, status, timer, frozen>>

-----------------------------------------------------------------------------
(* System calls.                                                           *)

NoCall == UNCHANGED <<life, ioLeft, status, pending, timer, frozen>>

Targets(pid) == IF pid \in {Group, None} THEN Pid ELSE {pid}

\* kill() turns every target that is `from' into `to', and tells the parent.
Shift(pid, from, to, report) ==
  LET hit == {p \in Targets(pid) : life[p] = from}
  IN  /\ life'   = [p \in Pid |-> IF p \in hit THEN to ELSE life[p]]
      /\ status' = [p \in Pid |-> IF p \in hit THEN report ELSE status[p]]
      /\ pending' = IF hit = {} THEN pending ELSE pending \cup {"SIGCHLD"}

KillStop(pid) ==
  /\ Shift(pid, "running", "stopped", "stopped")
  /\ frozen' = (frozen \/ pid = Group)
  /\ UNCHANGED <<ioLeft, timer>>

KillCont(pid) ==
  /\ Shift(pid, "stopped", "running", "continued")
  /\ UNCHANGED <<ioLeft, timer, frozen>>

SetTimer(on) ==
  /\ timer' = on
  /\ UNCHANGED <<life, ioLeft, status, pending, frozen>>

\* fork(); the child goes on to execv() its program.
Fork(p) ==
  /\ life' = [life EXCEPT ![p] = "running"]
  /\ UNCHANGED <<ioLeft, status, pending, timer, frozen>>

\* waitpid(-1, &status, WUNTRACED | WCONTINUED | WNOHANG): one unreported
\* change of any child.  When there is none, status stays uninitialised and
\* WIFEXITED(status) may come out either way.
WaitPid(exited) ==
  /\ \/ \E p \in Pid :
          /\ status[p] # "none"
          /\ exited = (status[p] = "exited")
          /\ status' = [status EXCEPT ![p] = "none"]
     \/ /\ \A p \in Pid : status[p] = "none"
        /\ UNCHANGED status
  /\ UNCHANGED <<life, ioLeft, pending, timer, frozen>>

-----------------------------------------------------------------------------
(* The programs and the timer.                                             *)

\* No handler in progress, no signal to deliver, main() in its final loop.
Quiet == stack = << >> /\ pending = {} /\ pc["main"] = "loop"

Event == Overlap \/ Quiet

\* TestIO1, TestIO2: kill(getppid(), SIGUSR1), then go on computing.
RequestIO(p) ==
  /\ Event
  /\ life[p] = "running" /\ ioLeft[p] > 0
  /\ ioLeft' = [ioLeft EXCEPT ![p] = @ - 1]
  /\ pending' = pending \cup {"SIGUSR1"}
  /\ UNCHANGED <<life, status, timer, frozen, stack, pc>>

\* Every test program ends by itself; a failed execv() ends with exit(0) too.
Exit(p) ==
  /\ Event
  /\ life[p] = "running" /\ ioLeft[p] = 0
  /\ life'   = [life EXCEPT ![p] = "exited"]
  /\ status' = [status EXCEPT ![p] = "exited"]
  /\ pending' = pending \cup {"SIGCHLD"}
  /\ UNCHANGED <<ioLeft, timer, frozen, stack, pc>>

Tick ==
  /\ Event
  /\ timer
  /\ timer' = FALSE
  /\ pending' = pending \cup {"SIGALRM"}
  /\ UNCHANGED <<life, ioLeft, status, frozen, stack, pc>>
=============================================================================
