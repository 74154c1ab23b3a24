-------------------------- MODULE SchedulerRRProofs --------------------------
(***************************************************************************)
(* What holds of SchedulerRR for any number of programs and I/Os.  First,  *)
(* however its handlers interrupt each other: types, and the heartbeat.    *)
(* Then, when no handler is interrupted: who runs, what an exit and the    *)
(* end mean, and the refinement of RoundRobin.                             *)
(***************************************************************************)
EXTENDS SchedulerRRView, SequenceTheorems, TLAPS

\* The state system calls change, and the state of control.
CallType ==
  /\ life   \in [Pid -> {"unborn", "running", "stopped", "exited"}]
  /\ ioLeft \in [Pid -> 0 .. MaxIO]
  /\ status \in [Pid -> {"none", "stopped", "continued", "exited"}]
  /\ pending \subseteq Signal
  /\ timer  \in BOOLEAN
  /\ frozen \in BOOLEAN

ControlType ==
  /\ stack \in Seq(Signal)
  /\ pc    \in [Frame -> Label \cup {"idle"}]

SchedulerType ==
  /\ mainQueue \in Seq(Pid \cup {None})
  /\ waitQueue \in Seq(Pid \cup {None})
  /\ current \in Pid \cup {None, Group}
  /\ runningFlag \in BOOLEAN
  /\ argi \in 0 .. N

\* main() stops and queues a program it has launched.
Launched == pc["main"] \in {"stop", "enq"} => argi \in Pid

\* A handler that is about to queue `current' stopped a process, not the
\* scheduler's own group; otherwise nothing runs any more.
NotGroup ==
  pc["SIGALRM"] = "enq" \/ pc["SIGUSR1"] = "enq" => current # Group \/ frozen

\* alarm(0) comes only after runningFlag was cleared.
CancelLast == pc["SIGCHLD"] = "cancel" => ~runningFlag

IInv ==
  /\ CallType /\ ControlType /\ SchedulerType
  /\ Launched /\ NotGroup /\ CancelLast /\ Heartbeat

USE KernelAssumption

-----------------------------------------------------------------------------
(* System calls and control, one lemma each.                               *)

LEMMA PidFacts == Group \notin Pid /\ None \notin Pid /\ None # Group
BY DEF Group, None, Pid

LEMMA KillKeepsType ==
  ASSUME CallType, NEW pid, KillStop(pid) \/ KillCont(pid)
  PROVE  /\ CallType' /\ timer' = timer /\ pending \subseteq pending'
         /\ frozen => frozen'
<1>1. ASSUME NEW from, NEW to \in {"running", "stopped"},
             NEW report \in {"stopped", "continued"},
             Shift(pid, from, to, report)
      PROVE  /\ life'   \in [Pid -> {"unborn", "running", "stopped", "exited"}]
             /\ status' \in [Pid -> {"none", "stopped", "continued", "exited"}]
             /\ pending' \subseteq Signal /\ pending \subseteq pending'
  BY <1>1 DEF CallType, Shift, Signal
<1>2. CASE KillStop(pid)
  BY <1>1, <1>2 DEF KillStop, CallType
<1>3. CASE KillCont(pid)
  BY <1>1, <1>3 DEF KillCont, CallType
<1> QED  BY <1>2, <1>3

LEMMA StopGroupFreezes ==
  ASSUME NEW pid, KillStop(pid)
  PROVE  pid = Group => frozen'
BY DEF KillStop

LEMMA OtherCallsKeepType ==
  ASSUME CallType, NEW p \in Pid, NEW on \in BOOLEAN, NEW exited,
         NoCall \/ SetTimer(on) \/ Fork(p) \/ WaitPid(exited)
  PROVE  CallType' /\ pending' = pending /\ frozen' = frozen
BY DEF CallType, NoCall, SetTimer, Fork, WaitPid

LEMMA GotoKeepsType ==
  ASSUME ControlType, NEW f \in Frame, NEW label \in Label, Goto(f, label)
  PROVE  ControlType' /\ pc'[f] = label /\ \A g \in Frame : g # f => pc'[g] = pc[g]
BY DEF ControlType, Goto

LEMMA ReturnKeepsType ==
  ASSUME ControlType, NEW f \in Signal, NEW label, At(f, label), Return(f)
  PROVE  ControlType' /\ pc'[f] = "idle" /\ \A g \in Frame : g # f => pc'[g] = pc[g]
<1>1. f # "main"
  BY DEF Signal
<1>2. stack # << >>
  BY <1>1 DEF At
<1>3. stack' \in Seq(Signal)
  BY <1>2, HeadTailProperties DEF ControlType, Return
<1> QED
  BY <1>3 DEF ControlType, Return, Frame

LEMMA DeliverKeepsType ==
  ASSUME CallType, ControlType, NEW s \in Signal, NEW entry \in Label, Deliver(s, entry)
  PROVE  /\ CallType' /\ ControlType' /\ timer' = timer /\ frozen' = frozen
         /\ pending' = pending \ {s}
         /\ pc'[s] = entry /\ \A g \in Frame : g # s => pc'[g] = pc[g]
<1>1. <<s>> \in Seq(Signal)
  OBVIOUS
<1>2. stack' \in Seq(Signal)
  BY <1>1, ConcatProperties DEF Deliver, ControlType
<1> QED
  BY <1>2 DEF Deliver, CallType, ControlType, Frame

\* A statement that leaves the timer, the pending signals and runningFlag as they
\* are keeps the heartbeat, unless its frame is one the heartbeat relies on and
\* gives up that role.
Beats(f, label) == \/ f = "SIGALRM" /\ label # "idle"
                   \/ f = "SIGUSR1" /\ label # "idle"
                   \/ f = "SIGCHLD" /\ label \notin {"idle", "wait", "cancel"}

LEMMA StatementKeepsHeartbeat ==
  ASSUME Heartbeat, NEW f \in Frame,
         timer' = timer, pending \subseteq pending', runningFlag' => runningFlag,
         \A g \in Frame : g # f => pc'[g] = pc[g],
         Beats(f, pc[f]) => Beats(f, pc'[f]),
         f = "main" => pc'["main"] # "loop"
  PROVE  Heartbeat'
BY DEF Heartbeat, Beats, Frame, Signal

LEMMA InitInv == Init => IInv
<1> SUFFICES ASSUME Init PROVE IInv
  OBVIOUS
<1>0. << >> \in Seq(Signal)
  OBVIOUS
<1>1. CallType /\ ControlType
  <2>1. CallType
    BY DEF Init, KernelInit, CallType, Signal
  <2>2. pc \in [Frame -> Label \cup {"idle"}]
    BY DEF Init, KernelInit, Label
  <2>3. stack \in Seq(Signal)
    BY <1>0 DEF Init, KernelInit
  <2> QED  BY <2>1, <2>2, <2>3 DEF ControlType
<1>2. SchedulerType
  BY DEF Init, SchedulerType
<1>3. Launched /\ NotGroup /\ CancelLast /\ Heartbeat
  BY DEF Init, KernelInit, Launched, NotGroup, CancelLast, Heartbeat, Frame, Signal
<1> QED  BY <1>1, <1>2, <1>3 DEF IInv

-----------------------------------------------------------------------------
(* main()                                                                  *)

LEMMA MainFacts ==
  /\ "main" \in Frame /\ Signal \subseteq Frame
  /\ \A s \in Signal : s # "main"
BY DEF Frame, Signal

LEMMA LaunchInv == IInv /\ Launch => IInv'
<1> SUFFICES ASSUME IInv, Launch PROVE IInv'
  OBVIOUS
<1> USE MainFacts DEF IInv
<1>1. pc["main"] = "fork"
  BY DEF Launch, At
<1>2. CASE argi < N
  <2>1. Fork(argi + 1) /\ Goto("main", "stop") /\ argi' = argi + 1
    BY <1>2 DEF Launch
  <2>2. argi + 1 \in Pid
    BY <1>2 DEF SchedulerType, Pid
  <2>3. CallType' /\ pending' = pending /\ frozen' = frozen
    BY <2>1, <2>2, OtherCallsKeepType
  <2>4. ControlType' /\ pc'["main"] = "stop" /\ \A g \in Frame : g # "main" => pc'[g] = pc[g]
    BY <2>1, GotoKeepsType DEF Label
  <2>5. SchedulerType'
    BY <2>1, <2>2 DEF Launch, SchedulerType, queueVars, Pid
  <2>6. Launched' /\ NotGroup' /\ CancelLast'
    BY <2>1, <2>2, <2>3, <2>4 DEF Launch, Launched, NotGroup, CancelLast, Frame, Signal
  <2>7. Heartbeat'
    BY <2>4, <2>1, <2>3, StatementKeepsHeartbeat DEF Launch, Fork, Beats
  <2> QED  BY <2>3, <2>4, <2>5, <2>6, <2>7
<1>3. CASE ~(argi < N)
  <2>1. NoCall /\ Goto("main", "pick") /\ UNCHANGED <<argi, current, runningFlag, queueVars>>
    BY <1>3 DEF Launch
  <2>2. CallType' /\ timer' = timer /\ pending' = pending /\ frozen' = frozen
    BY <2>1 DEF NoCall, CallType
  <2>3. ControlType' /\ pc'["main"] = "pick" /\ \A g \in Frame : g # "main" => pc'[g] = pc[g]
    BY <2>1, GotoKeepsType DEF Label
  <2>4. SchedulerType'
    BY <2>1 DEF SchedulerType, queueVars
  <2>5. Launched' /\ NotGroup' /\ CancelLast'
    BY <2>1, <2>2, <2>3 DEF Launched, NotGroup, CancelLast, Frame, Signal
  <2>6. Heartbeat'
    BY <2>1, <2>2, <2>3, StatementKeepsHeartbeat DEF Beats
  <2> QED  BY <2>2, <2>3, <2>4, <2>5, <2>6
<1> QED  BY <1>2, <1>3

LEMMA LaunchStopInv == IInv /\ LaunchStop => IInv'
<1> SUFFICES ASSUME IInv, LaunchStop PROVE IInv'
  OBVIOUS
<1> USE MainFacts DEF IInv
<1>1. /\ pc["main"] = "stop" /\ KillStop(argi) /\ Goto("main", "enq")
      /\ UNCHANGED <<queueVars, current, runningFlag, argi>>
  BY DEF LaunchStop, At
<1>2. CallType' /\ timer' = timer /\ pending \subseteq pending' /\ (frozen => frozen')
  BY <1>1, KillKeepsType
<1>3. ControlType' /\ pc'["main"] = "enq" /\ \A g \in Frame : g # "main" => pc'[g] = pc[g]
  BY <1>1, GotoKeepsType DEF Label
<1>4. SchedulerType'
  BY <1>1 DEF SchedulerType, queueVars
<1>5. Launched' /\ NotGroup' /\ CancelLast'
  BY <1>1, <1>2, <1>3 DEF Launched, NotGroup, CancelLast, Frame, Signal
<1>6. Heartbeat'
  BY <1>1, <1>2, <1>3, StatementKeepsHeartbeat DEF Beats
<1> QED  BY <1>2, <1>3, <1>4, <1>5, <1>6

LEMMA LaunchEnqueueInv == IInv /\ LaunchEnqueue => IInv'
<1> SUFFICES ASSUME IInv, LaunchEnqueue PROVE IInv'
  OBVIOUS
<1> USE MainFacts DEF IInv
<1>1. /\ pc["main"] = "enq" /\ NoCall /\ Goto("main", "fork")
      /\ mainQueue' = Append(mainQueue, argi)
      /\ UNCHANGED <<waitQueue, current, runningFlag, argi>>
  BY DEF LaunchEnqueue, At
<1>2. CallType' /\ timer' = timer /\ pending' = pending /\ frozen' = frozen
  BY <1>1 DEF NoCall, CallType
<1>3. ControlType' /\ pc'["main"] = "fork" /\ \A g \in Frame : g # "main" => pc'[g] = pc[g]
  BY <1>1, GotoKeepsType DEF Label
<1>4. SchedulerType'
  BY <1>1, AppendProperties DEF SchedulerType, Launched
<1>5. Launched' /\ NotGroup' /\ CancelLast'
  BY <1>1, <1>2, <1>3 DEF Launched, NotGroup, CancelLast, Frame, Signal
<1>6. Heartbeat'
  BY <1>1, <1>2, <1>3, StatementKeepsHeartbeat DEF Beats
<1> QED  BY <1>2, <1>3, <1>4, <1>5, <1>6

LEMMA LeaveInv == IInv /\ Leave => IInv'
<1> SUFFICES ASSUME IInv, Leave PROVE IInv'
  OBVIOUS
<1> USE MainFacts DEF IInv
<1>1. /\ NoCall /\ Goto("main", "done") /\ UNCHANGED <<queueVars, current, runningFlag, argi>>
  BY DEF Leave, At
<1>2. CallType' /\ timer' = timer /\ pending' = pending /\ frozen' = frozen
  BY <1>1 DEF NoCall, CallType
<1>3. ControlType' /\ pc'["main"] = "done" /\ \A g \in Frame : g # "main" => pc'[g] = pc[g]
  BY <1>1, GotoKeepsType DEF Label
<1>4. SchedulerType'
  BY <1>1 DEF SchedulerType, queueVars
<1>5. Launched' /\ NotGroup' /\ CancelLast'
  BY <1>1, <1>2, <1>3 DEF Launched, NotGroup, CancelLast, Frame, Signal
<1>6. Heartbeat'
  BY <1>1, <1>2, <1>3, StatementKeepsHeartbeat DEF Beats
<1> QED  BY <1>2, <1>3, <1>4, <1>5, <1>6

-----------------------------------------------------------------------------
(* The statements the handlers share.                                      *)

LEMMA PreemptInv == ASSUME NEW f \in {"SIGALRM", "SIGUSR1"} PROVE IInv /\ Preempt(f) => IInv'
<1> SUFFICES ASSUME IInv, Preempt(f) PROVE IInv'
  OBVIOUS
<1> USE MainFacts DEF IInv
<1>1. pc[f] = "stop" /\ UNCHANGED <<queueVars, current, runningFlag, argi>> /\ f \in Frame
  BY DEF Preempt, At, Frame, Signal
<1>2. PICK label \in {"enq", "pick"} :
        /\ Goto(f, label)
        /\ \/ label = "enq" /\ KillStop(current)
           \/ label = "pick" /\ NoCall
  BY DEF Preempt
<1>3. /\ CallType' /\ timer' = timer /\ pending \subseteq pending' /\ (frozen => frozen')
      /\ label = "enq" /\ current = Group => frozen'
  BY <1>2, KillKeepsType, StopGroupFreezes DEF NoCall, CallType
<1>4. ControlType' /\ pc'[f] = label /\ \A g \in Frame : g # f => pc'[g] = pc[g]
  BY <1>1, <1>2, GotoKeepsType DEF Label
<1>5. SchedulerType'
  BY <1>1 DEF SchedulerType, queueVars
<1>6. Launched' /\ CancelLast'
  BY <1>1, <1>4 DEF Launched, CancelLast, Frame, Signal
<1>7. NotGroup'
  BY <1>1, <1>3, <1>4 DEF NotGroup, Frame, Signal
<1>8. Heartbeat'
  BY <1>1, <1>3, <1>4, StatementKeepsHeartbeat DEF Beats
<1> QED  BY <1>3, <1>4, <1>5, <1>6, <1>7, <1>8

LEMMA ParkInv == ASSUME NEW f \in {"SIGALRM", "SIGUSR1"} PROVE IInv /\ Park(f) => IInv'
<1> SUFFICES ASSUME IInv, Park(f) PROVE IInv'
  OBVIOUS
<1> USE MainFacts DEF IInv
<1>1. /\ pc[f] = "enq" /\ ~frozen /\ f \in Frame
      /\ NoCall /\ Goto(f, "pick") /\ UNCHANGED <<current, runningFlag, argi>>
  BY DEF Park, At, Alive, Frame, Signal
<1>2. CallType' /\ timer' = timer /\ pending' = pending /\ frozen' = frozen
  BY <1>1 DEF NoCall, CallType
<1>3. ControlType' /\ pc'[f] = "pick" /\ \A g \in Frame : g # f => pc'[g] = pc[g]
  BY <1>1, GotoKeepsType DEF Label
<1>4. current \in Pid \cup {None}
  BY <1>1 DEF NotGroup, SchedulerType
<1>5. mainQueue' \in Seq(Pid \cup {None}) /\ waitQueue' \in Seq(Pid \cup {None})
  <2>1. /\ Append(mainQueue, current) \in Seq(Pid \cup {None})
        /\ Append(waitQueue, current) \in Seq(Pid \cup {None})
    BY <1>4, AppendProperties DEF SchedulerType
  <2> QED  BY <2>1 DEF Park, SchedulerType
<1>6. SchedulerType'
  BY <1>1, <1>5 DEF SchedulerType
<1>7. Launched' /\ NotGroup' /\ CancelLast'
  BY <1>1, <1>2, <1>3 DEF Launched, NotGroup, CancelLast, Frame, Signal
<1>8. Heartbeat'
  BY <1>1, <1>2, <1>3, StatementKeepsHeartbeat DEF Beats
<1> QED  BY <1>2, <1>3, <1>6, <1>7, <1>8

LEMMA QueueOps ==
  ASSUME NEW S, NEW q \in Seq(S)
  PROVE  Front(q) \in S \cup {None} /\ Dequeue(q) \in Seq(S)
BY HeadTailProperties DEF Front, Dequeue

LEMMA SwapFrontInv == ASSUME NEW f \in Frame PROVE IInv /\ SwapFront(f) => IInv'
<1> SUFFICES ASSUME IInv, SwapFront(f) PROVE IInv'
  OBVIOUS
<1> USE MainFacts DEF IInv
<1>1. /\ pc[f] = "pick" /\ NoCall /\ Goto(f, "deq") /\ current' = Front(mainQueue)
      /\ UNCHANGED <<queueVars, runningFlag, argi>>
  BY DEF SwapFront, At
<1>2. CallType' /\ timer' = timer /\ pending' = pending /\ frozen' = frozen
  BY <1>1 DEF NoCall, CallType
<1>3. ControlType' /\ pc'[f] = "deq" /\ \A g \in Frame : g # f => pc'[g] = pc[g]
  BY <1>1, GotoKeepsType DEF Label
<1>4. current' \in Pid \cup {None}
  BY <1>1, QueueOps DEF SchedulerType
<1>5. SchedulerType'
  BY <1>1, <1>4 DEF SchedulerType, queueVars
<1>6. Launched' /\ NotGroup' /\ CancelLast'
  BY <1>1, <1>2, <1>3, <1>4, PidFacts DEF Launched, NotGroup, CancelLast, Frame, Signal
<1>7. Heartbeat'
  BY <1>1, <1>2, <1>3, StatementKeepsHeartbeat DEF Beats
<1> QED  BY <1>2, <1>3, <1>5, <1>6, <1>7

LEMMA SwapDequeueInv == ASSUME NEW f \in Frame PROVE IInv /\ SwapDequeue(f) => IInv'
<1> SUFFICES ASSUME IInv, SwapDequeue(f) PROVE IInv'
  OBVIOUS
<1> USE MainFacts DEF IInv
<1>1. PICK label \in {"test", "cont"} :
        /\ pc[f] = "deq" /\ NoCall /\ Goto(f, label) /\ mainQueue' = Dequeue(mainQueue)
        /\ UNCHANGED <<waitQueue, current, runningFlag, argi>>
  BY DEF SwapDequeue, At
<1>2. CallType' /\ timer' = timer /\ pending' = pending /\ frozen' = frozen
  BY <1>1 DEF NoCall, CallType
<1>3. ControlType' /\ pc'[f] = label /\ \A g \in Frame : g # f => pc'[g] = pc[g]
  BY <1>1, GotoKeepsType DEF Label
<1>4. SchedulerType'
  BY <1>1, QueueOps DEF SchedulerType
<1>5. Launched' /\ NotGroup' /\ CancelLast'
  BY <1>1, <1>2, <1>3 DEF Launched, NotGroup, CancelLast, Frame, Signal
<1>6. Heartbeat'
  BY <1>1, <1>2, <1>3, StatementKeepsHeartbeat DEF Beats
<1> QED  BY <1>2, <1>3, <1>4, <1>5, <1>6

LEMMA ResumeInv == ASSUME NEW f \in Frame PROVE IInv /\ Resume(f) => IInv'
<1> SUFFICES ASSUME IInv, Resume(f) PROVE IInv'
  OBVIOUS
<1> USE MainFacts DEF IInv
<1>1. /\ pc[f] = "cont" /\ (KillCont(current) \/ NoCall) /\ Goto(f, "rearm")
      /\ UNCHANGED <<queueVars, current, runningFlag, argi>>
  BY DEF Resume, At
<1>2. CallType' /\ timer' = timer /\ pending \subseteq pending' /\ (frozen => frozen')
  BY <1>1, KillKeepsType DEF NoCall, CallType
<1>3. ControlType' /\ pc'[f] = "rearm" /\ \A g \in Frame : g # f => pc'[g] = pc[g]
  BY <1>1, GotoKeepsType DEF Label
<1>4. SchedulerType'
  BY <1>1 DEF SchedulerType, queueVars
<1>5. Launched' /\ NotGroup' /\ CancelLast'
  BY <1>1, <1>2, <1>3 DEF Launched, NotGroup, CancelLast, Frame, Signal
<1>6. Heartbeat'
  BY <1>1, <1>2, <1>3, StatementKeepsHeartbeat DEF Beats
<1> QED  BY <1>2, <1>3, <1>4, <1>5, <1>6

LEMMA RearmInv == ASSUME NEW f \in Frame PROVE IInv /\ Rearm(f) => IInv'
<1> SUFFICES ASSUME IInv, Rearm(f) PROVE IInv'
  OBVIOUS
<1> USE MainFacts DEF IInv
<1>1. SetTimer(TRUE) /\ UNCHANGED <<queueVars, current, runningFlag, argi>>
  BY DEF Rearm
<1>2. CallType' /\ timer' = TRUE /\ frozen' = frozen
  BY <1>1 DEF SetTimer, CallType
<1>3. /\ ControlType' /\ pc'[f] \in {"loop", "idle"}
      /\ \A g \in Frame : g # f => pc'[g] = pc[g]
  <2>1. CASE f = "main"
    BY <2>1, GotoKeepsType DEF Rearm, Label
  <2>2. CASE f # "main"
    <3>1. f \in Signal /\ At(f, "rearm") /\ Return(f)
      BY <2>2 DEF Rearm, Frame
    <3> QED  BY <3>1, ReturnKeepsType
  <2> QED  BY <2>1, <2>2
<1>4. SchedulerType'
  BY <1>1 DEF SchedulerType, queueVars
<1>5. Launched' /\ NotGroup' /\ CancelLast'
  BY <1>1, <1>2, <1>3 DEF Launched, NotGroup, CancelLast, Frame, Signal
<1>6. Heartbeat'
  BY <1>2 DEF Heartbeat
<1> QED  BY <1>2, <1>3, <1>4, <1>5, <1>6

-----------------------------------------------------------------------------
(* Statements of alarmHandler and childHandler alone.                      *)

LEMMA WakeEnqueueInv == IInv /\ WakeEnqueue => IInv'
<1> SUFFICES ASSUME IInv, WakeEnqueue PROVE IInv'
  OBVIOUS
<1> USE MainFacts DEF IInv
<1>1. PICK label \in {"unwait", "stop"} :
        /\ pc["SIGALRM"] = "wake" /\ NoCall /\ Goto("SIGALRM", label)
        /\ mainQueue' \in {mainQueue, Append(mainQueue, Front(waitQueue))}
        /\ UNCHANGED <<waitQueue, current, runningFlag, argi>>
  BY DEF WakeEnqueue, At
<1>2. CallType' /\ timer' = timer /\ pending' = pending /\ frozen' = frozen
  BY <1>1 DEF NoCall, CallType
<1>3. /\ ControlType' /\ pc'["SIGALRM"] = label
      /\ \A g \in Frame : g # "SIGALRM" => pc'[g] = pc[g]
  BY <1>1, GotoKeepsType DEF Label, Signal
<1>4. mainQueue' \in Seq(Pid \cup {None})
  <2>1. Front(waitQueue) \in Pid \cup {None}
    BY QueueOps DEF SchedulerType
  <2> QED  BY <1>1, <2>1, AppendProperties DEF SchedulerType
<1>5. SchedulerType'
  BY <1>1, <1>4 DEF SchedulerType
<1>6. Launched' /\ NotGroup' /\ CancelLast'
  BY <1>1, <1>2, <1>3 DEF Launched, NotGroup, CancelLast, Frame, Signal
<1>7. Heartbeat'
  BY <1>1, <1>2, <1>3, StatementKeepsHeartbeat DEF Beats, Signal
<1> QED  BY <1>2, <1>3, <1>5, <1>6, <1>7

LEMMA WakeDequeueInv == IInv /\ WakeDequeue => IInv'
<1> SUFFICES ASSUME IInv, WakeDequeue PROVE IInv'
  OBVIOUS
<1> USE MainFacts DEF IInv
<1>1. /\ NoCall /\ Goto("SIGALRM", "stop") /\ waitQueue' = Dequeue(waitQueue)
      /\ UNCHANGED <<mainQueue, current, runningFlag, argi>>
  BY DEF WakeDequeue
<1>2. CallType' /\ timer' = timer /\ pending' = pending /\ frozen' = frozen
  BY <1>1 DEF NoCall, CallType
<1>3. /\ ControlType' /\ pc'["SIGALRM"] = "stop"
      /\ \A g \in Frame : g # "SIGALRM" => pc'[g] = pc[g]
  BY <1>1, GotoKeepsType DEF Label, Signal
<1>4. SchedulerType'
  BY <1>1, QueueOps DEF SchedulerType
<1>5. Launched' /\ NotGroup' /\ CancelLast'
  BY <1>1, <1>2, <1>3 DEF Launched, NotGroup, CancelLast, Frame, Signal
<1>6. Heartbeat'
  BY <1>1, <1>2, <1>3, StatementKeepsHeartbeat DEF Beats, Signal
<1> QED  BY <1>2, <1>3, <1>4, <1>5, <1>6

LEMMA ReapInv == ASSUME NEW exited PROVE IInv /\ Reap(exited) => IInv'
<1> SUFFICES ASSUME IInv, Reap(exited) PROVE IInv'
  OBVIOUS
<1> USE MainFacts DEF IInv
<1>1. /\ At("SIGCHLD", "wait") /\ pc["SIGCHLD"] = "wait" /\ WaitPid(exited)
      /\ Goto("SIGCHLD", "pick") \/ Return("SIGCHLD")
      /\ UNCHANGED <<queueVars, current, runningFlag, argi>>
  BY DEF Reap, At
<1>2. CallType' /\ timer' = timer /\ pending' = pending /\ frozen' = frozen
  BY <1>1 DEF WaitPid, CallType
<1>3. /\ ControlType' /\ pc'["SIGCHLD"] \in {"pick", "idle"}
      /\ \A g \in Frame : g # "SIGCHLD" => pc'[g] = pc[g]
  BY <1>1, GotoKeepsType, ReturnKeepsType DEF Label, Signal
<1>4. SchedulerType'
  BY <1>1 DEF SchedulerType, queueVars
<1>5. Launched' /\ NotGroup' /\ CancelLast'
  BY <1>1, <1>2, <1>3 DEF Launched, NotGroup, CancelLast, Frame, Signal
<1>6. Heartbeat'
  BY <1>1, <1>2, <1>3, StatementKeepsHeartbeat DEF Beats, Signal
<1> QED  BY <1>2, <1>3, <1>4, <1>5, <1>6

LEMMA TestIdleInv == IInv /\ TestIdle => IInv'
<1> SUFFICES ASSUME IInv, TestIdle PROVE IInv'
  OBVIOUS
<1> USE MainFacts DEF IInv
<1>1. PICK label \in {"cancel", "cont"} :
        /\ NoCall /\ Goto("SIGCHLD", label)
        /\ \/ label = "cancel" /\ runningFlag' = FALSE
           \/ label = "cont" /\ runningFlag' = runningFlag
        /\ UNCHANGED <<queueVars, current, argi>>
  BY DEF TestIdle
<1>2. CallType' /\ timer' = timer /\ pending' = pending /\ frozen' = frozen
  BY <1>1 DEF NoCall, CallType
<1>3. /\ ControlType' /\ pc'["SIGCHLD"] = label
      /\ \A g \in Frame : g # "SIGCHLD" => pc'[g] = pc[g]
  BY <1>1, GotoKeepsType DEF Label, Signal
<1>4. SchedulerType'
  BY <1>1 DEF SchedulerType, queueVars
<1>5. Launched' /\ NotGroup' /\ CancelLast'
  BY <1>1, <1>2, <1>3 DEF Launched, NotGroup, CancelLast, Frame, Signal
<1>6. Heartbeat'
  <2>1. CASE label = "cancel"
    BY <2>1, <1>1 DEF Heartbeat
  <2>2. CASE label = "cont"
    BY <2>2, <1>1, <1>2, <1>3, StatementKeepsHeartbeat DEF Beats, Signal
  <2> QED  BY <2>1, <2>2
<1> QED  BY <1>2, <1>3, <1>4, <1>5, <1>6

LEMMA CancelInv == IInv /\ Cancel => IInv'
<1> SUFFICES ASSUME IInv, Cancel PROVE IInv'
  OBVIOUS
<1> USE MainFacts DEF IInv
<1>1. /\ At("SIGCHLD", "cancel") /\ pc["SIGCHLD"] = "cancel"
      /\ SetTimer(FALSE) /\ Return("SIGCHLD")
      /\ UNCHANGED <<queueVars, current, runningFlag, argi>>
  BY DEF Cancel, At
<1>2. CallType' /\ frozen' = frozen
  BY <1>1 DEF SetTimer, CallType
<1>3. /\ ControlType' /\ pc'["SIGCHLD"] = "idle"
      /\ \A g \in Frame : g # "SIGCHLD" => pc'[g] = pc[g]
  BY <1>1, ReturnKeepsType DEF Signal
<1>4. SchedulerType'
  BY <1>1 DEF SchedulerType, queueVars
<1>5. Launched' /\ NotGroup' /\ CancelLast'
  BY <1>1, <1>2, <1>3 DEF Launched, NotGroup, CancelLast, Frame, Signal
<1>6. Heartbeat'
  BY <1>1 DEF CancelLast, Heartbeat
<1> QED  BY <1>2, <1>3, <1>4, <1>5, <1>6

-----------------------------------------------------------------------------
(* Interruptions, the timer and the programs.                              *)

LEMMA InterruptInv == ASSUME NEW s \in Signal PROVE IInv /\ Interrupt(s) => IInv'
<1> SUFFICES ASSUME IInv, Interrupt(s) PROVE IInv'
  OBVIOUS
<1> USE MainFacts DEF IInv
<1>1. /\ Deliver(s, Entry(s)) /\ pc[s] = "idle"
      /\ UNCHANGED <<queueVars, current, runningFlag, argi>>
  BY DEF Interrupt, Deliver, Deliverable
<1>2. /\ Entry(s) \in Label \ {"enq", "cancel"}
      /\ s \in {"SIGALRM", "SIGUSR1"} => Entry(s) # "idle"
  BY DEF Entry, Label, Signal
<1>3. /\ CallType' /\ ControlType' /\ timer' = timer /\ frozen' = frozen
      /\ pending' = pending \ {s}
      /\ pc'[s] = Entry(s) /\ \A g \in Frame : g # s => pc'[g] = pc[g]
  BY <1>1, <1>2, DeliverKeepsType
<1>4. SchedulerType'
  BY <1>1 DEF SchedulerType, queueVars
<1>5. Launched' /\ NotGroup' /\ CancelLast'
  BY <1>1, <1>2, <1>3 DEF Launched, NotGroup, CancelLast, Frame, Signal
<1>6. Heartbeat'
  BY <1>1, <1>2, <1>3 DEF Heartbeat, Frame, Signal
<1> QED  BY <1>3, <1>4, <1>5, <1>6

LEMMA TimerInv == IInv /\ Timer => IInv'
<1> SUFFICES ASSUME IInv, Timer PROVE IInv'
  OBVIOUS
<1> USE DEF IInv
<1>1. /\ UNCHANGED <<queueVars, current, runningFlag, argi, stack, pc, life, ioLeft, status, frozen>>
      /\ timer' = FALSE /\ pending' = pending \cup {"SIGALRM"}
  BY DEF Timer, Tick
<1>2. CallType' /\ ControlType' /\ SchedulerType'
  BY <1>1 DEF CallType, ControlType, SchedulerType, queueVars, Signal
<1>3. Launched' /\ NotGroup' /\ CancelLast' /\ Heartbeat'
  BY <1>1 DEF Launched, NotGroup, CancelLast, Heartbeat
<1> QED  BY <1>2, <1>3

LEMMA ProgramInv == ASSUME NEW p \in Pid PROVE IInv /\ Program(p) => IInv'
<1> SUFFICES ASSUME IInv, Program(p) PROVE IInv'
  OBVIOUS
<1> USE DEF IInv
<1>1. /\ UNCHANGED <<queueVars, current, runningFlag, argi, stack, pc, timer, frozen>>
      /\ pending \subseteq pending'
  BY DEF Program, RequestIO, Exit
<1>2. CallType'
  <2>1. CASE RequestIO(p)
    BY <2>1 DEF RequestIO, CallType, Signal
  <2>2. CASE Exit(p)
    BY <2>2 DEF Exit, CallType, Signal
  <2> QED  BY <2>1, <2>2 DEF Program
<1>3. ControlType' /\ SchedulerType'
  BY <1>1 DEF ControlType, SchedulerType, queueVars
<1>4. Launched' /\ NotGroup' /\ CancelLast' /\ Heartbeat'
  BY <1>1 DEF Launched, NotGroup, CancelLast, Heartbeat
<1> QED  BY <1>2, <1>3, <1>4

-----------------------------------------------------------------------------
(* The inductive invariant, and what follows from it.                      *)

LEMMA SwapInv == ASSUME NEW f \in Frame PROVE IInv /\ Swap(f) => IInv'
BY SwapFrontInv, SwapDequeueInv, ResumeInv, RearmInv DEF Swap

LEMMA NextInv == IInv /\ [Next]_vars => IInv'
<1> SUFFICES ASSUME IInv, [Next]_vars PROVE IInv'
  OBVIOUS
<1>0. "main" \in Frame /\ "SIGALRM" \in Frame /\ "SIGCHLD" \in Frame /\ "SIGUSR1" \in Frame
  BY DEF Frame, Signal
<1>1. CASE mainStep
  BY <1>0, <1>1, LaunchInv, LaunchStopInv, LaunchEnqueueInv, LeaveInv, SwapInv DEF mainStep
<1>2. CASE alarmHandler
  BY <1>0, <1>2, WakeEnqueueInv, WakeDequeueInv, PreemptInv, ParkInv, SwapInv DEF alarmHandler
<1>3. CASE childHandler
  BY <1>0, <1>3, ReapInv, TestIdleInv, CancelInv, SwapInv DEF childHandler
<1>4. CASE ioStartedHandler
  BY <1>0, <1>4, PreemptInv, ParkInv, SwapInv DEF ioStartedHandler
<1>5. CASE \E s \in Signal : Interrupt(s)
  BY <1>5, InterruptInv
<1>6. CASE Timer
  BY <1>6, TimerInv
<1>7. CASE \E p \in Pid : Program(p)
  BY <1>7, ProgramInv
<1>8. CASE UNCHANGED vars
  BY <1>8 DEF vars, kernelVars, queueVars, IInv, CallType, ControlType, SchedulerType,
              Launched, NotGroup, CancelLast, Heartbeat
<1> QED  BY <1>1, <1>2, <1>3, <1>4, <1>5, <1>6, <1>7, <1>8 DEF Next, Scheduler

LEMMA Invariant == Spec => []IInv
BY InitInv, NextInv, PTL DEF Spec

\* Whatever the number of programs and I/Os and however handlers, programs and the
\* timer interleave, the queues of T1/SchedulerRR.c hold nothing but pids of
\* launched programs and front()'s -1: the zeroed `current' of start-up is never
\* queued, because kill(0, SIGSTOP) stops the scheduler before it could be.
THEOREM TypeCorrect == Spec => []TypeOK
<1>1. IInv => TypeOK
  BY DEF IInv, CallType, ControlType, SchedulerType, TypeOK, KernelTypeOK
<1> QED  BY <1>1, Invariant, PTL

\* While main() of T1/SchedulerRR.c is in its final loop and runningFlag is set, an
\* alarm is armed, pending or being handled, or a handler is on its way to
\* alarm(timeSlice): no interleaving of the three handlers stops the clock.
THEOREM HeartbeatHolds == Spec => []Heartbeat
<1>1. IInv => Heartbeat
  BY DEF IInv
<1> QED  BY <1>1, Invariant, PTL

-----------------------------------------------------------------------------
(***************************************************************************)
(* What holds of SchedulerRR when a handler runs to its end before         *)
(* anything but its own kill() raises a signal (~Overlap), for any number  *)
(* of programs and I/Os.  With Overlap these properties are false.         *)
(***************************************************************************)
\* The frame whose statement comes next once childHandler has taken an answer of
\* waitpid() that is no exit.
Worker == IF pc["SIGALRM"] # "idle" THEN "SIGALRM"
          ELSE IF pc["SIGUSR1"] # "idle" THEN "SIGUSR1"
          ELSE IF pc["SIGCHLD"] \notin {"idle", "wait"} THEN "SIGCHLD"
          ELSE "main"

now == pc[Worker]

\* What each frame may be about to do.
Lines(f) ==
  CASE f = "SIGALRM" -> {"idle", "wake", "unwait", "stop", "enq", "pick", "deq", "cont", "rearm"}
    [] f = "SIGUSR1" -> {"idle", "stop", "enq", "pick", "deq", "cont", "rearm"}
    [] f = "SIGCHLD" -> {"idle", "wait", "pick", "deq", "test", "cont", "rearm", "cancel"}
    [] f = "main"    -> {"fork", "stop", "enq", "pick", "deq", "cont", "rearm", "loop", "done"}

Script == \A f \in Frame : pc[f] \in Lines(f)

\* One handler at a time works, main() waits for it in its loop, and all that can
\* be on top of it is a childHandler about to call waitpid().
Nesting ==
  /\ pc["SIGALRM"] = "idle" \/ pc["SIGUSR1"] = "idle"
  /\ Worker \in {"SIGALRM", "SIGUSR1"} => pc["SIGCHLD"] \in {"idle", "wait"}
  /\ Worker # "main" => pc["main"] = "loop"
  /\ stack = IF pc["SIGCHLD"] = "wait"
               THEN IF Worker = "main" THEN <<"SIGCHLD">> ELSE <<"SIGCHLD", Worker>>
               ELSE IF Worker = "main" THEN << >> ELSE <<Worker>>

\* The clock and the programs wait for a quiet moment.
Undisturbed ==
  "SIGALRM" \in pending \/ "SIGUSR1" \in pending =>
     /\ stack = << >> /\ pc["main"] = "loop" /\ "SIGCHLD" \notin pending
     /\ ~({"SIGALRM", "SIGUSR1"} \subseteq pending)

Told == "SIGCHLD" \in pending \/ pc["SIGCHLD"] = "wait"

\* Every SIGCHLD stands for exactly one change of one child, and only the exit of
\* the current process, in main()'s loop, is reported as one.
OneReport ==
  /\ "SIGCHLD" \in pending => pc["SIGCHLD"] \in {"idle", "rearm"}
  /\ Told => \E p \in Pid : status[p] # "none" /\ \A q \in Pid : q # p => status[q] = "none"
  /\ ~Told => \A p \in Pid : status[p] = "none"
  /\ \A p \in Pid : status[p] = "exited" =>
        /\ p = current /\ life[p] = "exited"
        /\ Worker = "main" /\ pc["main"] = "loop"

\* main()'s launches: it stops and queues the programs in order, then gives the
\* CPU to the first one.
Count(k) == [i \in 1 .. k |-> i]

Launching ==
  /\ pc["main"] \in {"fork", "stop", "enq", "pick"} <=> current = Group
  /\ pc["main"] \in {"fork", "stop", "enq"} \/ argi = N
  /\ pc["main"] \in {"stop", "enq"} => argi \in Pid
  /\ \A p \in Pid : life[p] = "unborn" <=> p > argi

LaunchOrder ==
  /\ pc["main"] \in {"fork", "pick"} => mainQueue = Count(argi)
  /\ pc["main"] \in {"stop", "enq"} => mainQueue = Count(argi - 1)
  /\ pc["main"] = "deq" => mainQueue = Count(N)
  /\ pc["main"] \in {"cont", "rearm"} => mainQueue = Tail(Count(N))
  /\ pc["main"] \in {"deq", "cont", "rearm"} => current = 1
  /\ pc["main"] \notin {"loop", "done"} =>
        waitQueue = << >> /\ runningFlag /\ \A p \in Pid : life[p] # "exited"

\* The process that is in no queue, the queues as they are once the statement in
\* progress is done, and whether the process in no queue has the CPU.
Held == IF Worker = "main" /\ now \in {"stop", "enq"} THEN {argi}
        ELSE IF now = "pick" THEN {}
        ELSE {p \in Pid : p = current /\ status[p] # "exited"}
Ready == IF now = "deq" THEN Dequeue(mainQueue) ELSE mainQueue
Waiting == IF now = "unwait" THEN Dequeue(waitQueue) ELSE waitQueue
Given == IF now \in {"wake", "unwait", "stop", "rearm", "loop", "done"} THEN "running" ELSE "stopped"

Once(q) == \A i, j \in 1 .. Len(q) : q[i] = q[j] => i = j
In(p, q) == \E i \in 1 .. Len(q) : q[i] = p

\* Every process that is alive has one place, the set h or one of the queues r
\* and w, and stands still unless it is in h.
PlacesOf(h, r, w, l, given) ==
  /\ Once(r) /\ Once(w)
  /\ \A p \in Pid :
       /\ p \in h => l[p] = given
       /\ In(p, r) => l[p] = "stopped" /\ p \notin h /\ ~In(p, w)
       /\ In(p, w) => l[p] = "stopped" /\ p \notin h
       /\ l[p] \in {"running", "stopped"} => p \in h \/ In(p, r) \/ In(p, w)

Places == PlacesOf(Held, Ready, Waiting, life, Given)

\* `current', from the moment front() returns it.
CurrentProcess ==
  /\ mainQueue \in Seq(Pid) /\ waitQueue \in Seq(Pid)
  /\ now = "deq" => current = Front(mainQueue)
  /\ now = "unwait" => waitQueue # << >>
  /\ Worker # "main" /\ now = "enq" => current \in Pid
  /\ now = "cancel" => current = None
  /\ current = None /\ now # "pick" /\ ~(Worker = "SIGALRM" /\ now \in {"unwait", "stop"})
       => mainQueue = << >>

QuietInv == Script /\ Nesting /\ Undisturbed /\ OneReport /\ Launching /\ LaunchOrder
            /\ Places /\ CurrentProcess /\ DoneMeansAllExited

-----------------------------------------------------------------------------
(* Queues.                                                                 *)

LEMMA AppendOnce ==
  ASSUME NEW q \in Seq(Pid), NEW p \in Pid, ~In(p, q), Once(q)
  PROVE  /\ Once(Append(q, p)) /\ Append(q, p) \in Seq(Pid)
         /\ \A x \in Pid : In(x, Append(q, p)) <=> In(x, q) \/ x = p
<1> DEFINE r == Append(q, p)
<1>1. /\ r \in Seq(Pid) /\ Len(q) \in Nat /\ Len(r) = Len(q) + 1
      /\ \A i \in 1 .. Len(q) : r[i] = q[i]
      /\ r[Len(q) + 1] = p
  BY AppendProperties
<1>2. 1 .. Len(r) = 1 .. Len(q) \cup {Len(q) + 1}
  BY <1>1
<1> HIDE DEF r
<1>3. Once(r)
  BY <1>1, <1>2 DEF Once, In
<1>4. ASSUME NEW x \in Pid PROVE In(x, r) <=> In(x, q) \/ x = p
  BY <1>1, <1>2 DEF In
<1> QED  BY <1>1, <1>3, <1>4 DEF r

LEMMA TailOnce ==
  ASSUME NEW q \in Seq(Pid), q # << >>, Once(q)
  PROVE  /\ Once(Tail(q)) /\ Tail(q) \in Seq(Pid) /\ Head(q) \in Pid
         /\ In(Head(q), q) /\ ~In(Head(q), Tail(q))
         /\ \A x \in Pid : In(x, q) <=> In(x, Tail(q)) \/ x = Head(q)
<1> DEFINE r == Tail(q)
<1>1. /\ r \in Seq(Pid) /\ Len(q) \in Nat \ {0} /\ Len(r) = Len(q) - 1
      /\ \A i \in 1 .. Len(r) : r[i] = q[i + 1]
      /\ Head(q) = q[1] /\ Head(q) \in Pid
  BY HeadTailProperties, EmptySeq
<1>2. /\ \A i \in 1 .. Len(r) : i + 1 \in 1 .. Len(q) /\ i + 1 # 1
      /\ \A i \in 1 .. Len(q) : i = 1 \/ (i - 1 \in 1 .. Len(r) /\ r[i - 1] = q[i])
      /\ 1 \in 1 .. Len(q)
  BY <1>1
<1> HIDE DEF r
<1>3. Once(r)
  BY <1>1, <1>2 DEF Once
<1>4. ~In(Head(q), r)
  BY <1>1, <1>2 DEF Once, In
<1>5. ASSUME NEW x \in Pid PROVE In(x, q) <=> In(x, r) \/ x = Head(q)
  BY <1>1, <1>2 DEF In
<1>6. In(Head(q), q)
  BY <1>1, <1>2 DEF In
<1> QED  BY <1>1, <1>3, <1>4, <1>5, <1>6 DEF r

LEMMA EmptyHasNone == \A x : ~In(x, << >>)
BY DEF In

-----------------------------------------------------------------------------
(* The moves between the places, one lemma each.                           *)

Life == {"unborn", "running", "stopped", "exited"}

LEMMA MoveStop ==
  ASSUME NEW p \in Pid, NEW r, NEW w, NEW l \in [Pid -> Life], NEW m \in [Pid -> Life],
         PlacesOf({p}, r, w, l, "running"), m = [l EXCEPT ![p] = "stopped"]
  PROVE  PlacesOf({p}, r, w, m, "stopped")
BY DEF PlacesOf

LEMMA MoveRun ==
  ASSUME NEW p \in Pid, NEW r, NEW w, NEW l \in [Pid -> Life], NEW m \in [Pid -> Life],
         PlacesOf({p}, r, w, l, "stopped"), m = [l EXCEPT ![p] = "running"]
  PROVE  PlacesOf({p}, r, w, m, "running")
BY DEF PlacesOf

LEMMA MoveExit ==
  ASSUME NEW p \in Pid, NEW r, NEW w, NEW l \in [Pid -> Life], NEW m \in [Pid -> Life],
         PlacesOf({p}, r, w, l, "running"), m = [l EXCEPT ![p] = "exited"]
  PROVE  PlacesOf({}, r, w, m, "running")
BY DEF PlacesOf

LEMMA MoveFork ==
  ASSUME NEW p \in Pid, NEW r, NEW w, NEW l \in [Pid -> Life], NEW m \in [Pid -> Life],
         NEW given, PlacesOf({}, r, w, l, given), l[p] = "unborn",
         m = [l EXCEPT ![p] = "running"]
  PROVE  PlacesOf({p}, r, w, m, "running")
BY DEF PlacesOf

LEMMA MoveReady ==
  ASSUME NEW p \in Pid, NEW r \in Seq(Pid), NEW w, NEW l \in [Pid -> Life],
         NEW given, PlacesOf({p}, r, w, l, "stopped")
  PROVE  PlacesOf({}, Append(r, p), w, l, given) /\ Append(r, p) \in Seq(Pid)
<1>1. Once(r) /\ ~In(p, r)
  BY DEF PlacesOf
<1>2. /\ Once(Append(r, p)) /\ Append(r, p) \in Seq(Pid)
      /\ \A x \in Pid : In(x, Append(r, p)) <=> In(x, r) \/ x = p
  BY <1>1, AppendOnce
<1> QED  BY <1>2 DEF PlacesOf

LEMMA MoveWait ==
  ASSUME NEW p \in Pid, NEW r, NEW w \in Seq(Pid), NEW l \in [Pid -> Life],
         NEW given, PlacesOf({p}, r, w, l, "stopped")
  PROVE  PlacesOf({}, r, Append(w, p), l, given) /\ Append(w, p) \in Seq(Pid)
<1>1. Once(w) /\ ~In(p, w)
  BY DEF PlacesOf
<1>2. /\ Once(Append(w, p)) /\ Append(w, p) \in Seq(Pid)
      /\ \A x \in Pid : In(x, Append(w, p)) <=> In(x, w) \/ x = p
  BY <1>1, AppendOnce
<1> QED  BY <1>2 DEF PlacesOf

LEMMA MoveTake ==
  ASSUME NEW r \in Seq(Pid), NEW w, NEW l \in [Pid -> Life], r # << >>,
         NEW given, PlacesOf({}, r, w, l, given)
  PROVE  PlacesOf({Head(r)}, Tail(r), w, l, "stopped") /\ Tail(r) \in Seq(Pid) /\ Head(r) \in Pid
<1>1. Once(r)
  BY DEF PlacesOf
<1>2. /\ Once(Tail(r)) /\ Tail(r) \in Seq(Pid) /\ Head(r) \in Pid
      /\ In(Head(r), r) /\ ~In(Head(r), Tail(r))
      /\ \A x \in Pid : In(x, r) <=> In(x, Tail(r)) \/ x = Head(r)
  BY <1>1, TailOnce
<1> QED  BY <1>2 DEF PlacesOf

LEMMA MoveWake ==
  ASSUME NEW h, NEW r \in Seq(Pid), NEW w \in Seq(Pid), NEW l \in [Pid -> Life], w # << >>,
         NEW given, PlacesOf(h, r, w, l, given)
  PROVE  /\ PlacesOf(h, Append(r, Head(w)), Tail(w), l, given)
         /\ Append(r, Head(w)) \in Seq(Pid) /\ Tail(w) \in Seq(Pid)
<1>1. Once(r) /\ Once(w)
  BY DEF PlacesOf
<1>2. /\ Once(Tail(w)) /\ Tail(w) \in Seq(Pid) /\ Head(w) \in Pid
      /\ In(Head(w), w) /\ ~In(Head(w), Tail(w))
      /\ \A x \in Pid : In(x, w) <=> In(x, Tail(w)) \/ x = Head(w)
  BY <1>1, TailOnce
<1>3. ~In(Head(w), r) /\ l[Head(w)] = "stopped" /\ Head(w) \notin h
  BY <1>2 DEF PlacesOf
<1>4. /\ Once(Append(r, Head(w))) /\ Append(r, Head(w)) \in Seq(Pid)
      /\ \A x \in Pid : In(x, Append(r, Head(w))) <=> In(x, r) \/ x = Head(w)
  BY <1>1, <1>2, <1>3, AppendOnce
<1> QED  BY <1>2, <1>3, <1>4 DEF PlacesOf

LEMMA MoveNone ==
  ASSUME NEW r, NEW w, NEW l, NEW given, PlacesOf({}, r, w, l, given), NEW other
  PROVE  PlacesOf({}, r, w, l, other)
BY DEF PlacesOf

-----------------------------------------------------------------------------
(* Control.                                                                *)

LEMMA FrameCases ==
  /\ \A f : f \in Frame <=> f \in {"SIGALRM", "SIGUSR1", "SIGCHLD", "main"}
  /\ \A f : f \in Signal <=> f \in {"SIGALRM", "SIGUSR1", "SIGCHLD"}
BY DEF Frame, Signal

LEMMA ScriptCases ==
  Script <=>
    /\ pc["SIGALRM"] \in {"idle", "wake", "unwait", "stop", "enq", "pick", "deq", "cont", "rearm"}
    /\ pc["SIGUSR1"] \in {"idle", "stop", "enq", "pick", "deq", "cont", "rearm"}
    /\ pc["SIGCHLD"] \in {"idle", "wait", "pick", "deq", "test", "cont", "rearm", "cancel"}
    /\ pc["main"] \in {"fork", "stop", "enq", "pick", "deq", "cont", "rearm", "loop", "done"}
BY FrameCases DEF Script, Lines

\* Nothing else goes on while a frame executes a statement other than waitpid().
LEMMA AtFacts ==
  ASSUME IInv, QuietInv, ~Overlap, NEW f \in Frame, NEW label \in Label \ {"wait"}, At(f, label)
  PROVE  /\ Worker = f /\ now = label /\ pc[f] = label
         /\ \A s \in Signal : s # f => pc[s] = "idle"
         /\ f # "main" => stack = <<f>> /\ pc["main"] = "loop"
         /\ f = "main" => stack = << >>
         /\ pending \subseteq {"SIGCHLD"}
         /\ "SIGCHLD" \in pending => f = "SIGCHLD" /\ label = "rearm"
<1>1. /\ Alive /\ pc[f] = label /\ \A s \in Signal : s \in pending => pc[s] # "idle"
      /\ IF stack = << >> THEN f = "main" ELSE f = Head(stack)
  BY DEF At, Deliverable
<1>2. label \notin {"idle", "wait"}
  BY DEF Label
<1>3. pc["SIGCHLD"] # "wait"
  <2> SUFFICES ASSUME pc["SIGCHLD"] = "wait" PROVE FALSE
    OBVIOUS
  <2>1. stack # << >> /\ Head(stack) = "SIGCHLD"
    BY DEF QuietInv, Nesting
  <2> QED  BY <1>1, <1>2, <2>1
<1>4. stack = IF Worker = "main" THEN << >> ELSE <<Worker>>
  BY <1>3 DEF QuietInv, Nesting
<1>5. Worker = f
  BY <1>1, <1>4
<1>6. \A s \in Signal : s # f => pc[s] = "idle"
  BY <1>2, <1>3, <1>5, FrameCases DEF Worker, QuietInv, Nesting
<1>7. "SIGALRM" \notin pending /\ "SIGUSR1" \notin pending
  <2>1. stack = << >> => pc["SIGALRM"] = "idle" /\ pc["SIGUSR1"] = "idle"
    BY <1>4, <1>5, <1>6, FrameCases
  <2> QED  BY <1>1, <2>1, FrameCases DEF QuietInv, Undisturbed
<1>8. "SIGCHLD" \in pending => f = "SIGCHLD" /\ label = "rearm"
  BY <1>1, <1>2, <1>6, FrameCases DEF QuietInv, OneReport
<1>9. pending \subseteq {"SIGCHLD"}
  BY <1>7, FrameCases DEF IInv, CallType
<1> QED  BY <1>1, <1>4, <1>5, <1>6, <1>8, <1>9 DEF now, QuietInv, Nesting

\* ... and every change of a child has been reported, save the one childHandler
\* causes itself.
LEMMA AllReported ==
  ASSUME IInv, QuietInv, ~Overlap, NEW f \in Frame, NEW label \in Label \ {"wait"}, At(f, label)
  PROVE  /\ label # "rearm" \/ f # "SIGCHLD" => \A p \in Pid : status[p] = "none"
         /\ \A p \in Pid : status[p] # "exited"
<1>1. /\ Worker = f /\ pc[f] = label
      /\ \A s \in Signal : s # f => pc[s] = "idle"
      /\ "SIGCHLD" \in pending => f = "SIGCHLD" /\ label = "rearm"
  BY AtFacts
<1>2. pc["SIGCHLD"] # "wait"
  BY <1>1, FrameCases
<1> QED  BY <1>1, <1>2 DEF QuietInv, OneReport, Told

LEMMA GotoKeepsControl ==
  ASSUME IInv, QuietInv, ~Overlap, NEW f \in Frame, NEW label \in Label \ {"wait"}, At(f, label),
         NEW next \in Lines(f) \ {"idle", "wait"}, Goto(f, next),
         pending' \subseteq pending \cup {"SIGCHLD"}
  PROVE  /\ Script' /\ Nesting' /\ Undisturbed' /\ Worker' = f /\ now' = next
         /\ f # "main" => pc'["main"] = "loop" /\ pc["main"] = "loop"
         /\ pc'[f] = next
         /\ pc'["SIGCHLD"] = IF f = "SIGCHLD" THEN next ELSE "idle"
<1>1. /\ Worker = f /\ now = label /\ pc[f] = label
      /\ \A s \in Signal : s # f => pc[s] = "idle"
      /\ f # "main" => stack = <<f>> /\ pc["main"] = "loop"
      /\ f = "main" => stack = << >>
      /\ pending \subseteq {"SIGCHLD"}
  BY AtFacts
<1>2. pc' = [pc EXCEPT ![f] = next] /\ stack' = stack /\ pc \in [Frame -> Label \cup {"idle"}]
  BY DEF Goto, IInv, ControlType
<1>3. pc'[f] = next /\ \A g \in Frame : g # f => pc'[g] = pc[g]
  BY <1>2
<1>4. Script'
  BY <1>3 DEF QuietInv, Script
<1>5. Worker' = f
  BY <1>1, <1>3, FrameCases DEF Worker
<1>6. now' = next
  BY <1>3, <1>5 DEF now
<1>7. Nesting'
  BY <1>1, <1>2, <1>3, <1>5, FrameCases DEF Nesting
<1>8. Undisturbed'
  BY <1>1 DEF Undisturbed
<1> QED  BY <1>1, <1>3, <1>4, <1>5, <1>6, <1>7, <1>8, FrameCases

LEMMA ReturnKeepsControl ==
  ASSUME IInv, QuietInv, ~Overlap, NEW f \in Signal, NEW label \in Label \ {"wait"}, At(f, label),
         Return(f), pending' = pending
  PROVE  /\ Script' /\ Nesting' /\ Undisturbed' /\ Worker' = "main" /\ now' = "loop"
         /\ pc'["main"] = "loop" /\ pc["main"] = "loop" /\ stack' = << >>
         /\ \A s \in Signal : pc'[s] = "idle"
<1>0. f \in Frame /\ f # "main"
  BY FrameCases
<1>1. /\ \A s \in Signal : s # f => pc[s] = "idle"
      /\ stack = <<f>> /\ pc["main"] = "loop"
      /\ pending \subseteq {"SIGCHLD"}
  BY <1>0, AtFacts
<1>2. pc' = [pc EXCEPT ![f] = "idle"] /\ stack' = Tail(<<f>>) /\ pc \in [Frame -> Label \cup {"idle"}]
  BY <1>1 DEF Return, IInv, ControlType
<1>3. pc'[f] = "idle" /\ (\A g \in Frame : g # f => pc'[g] = pc[g]) /\ stack' = << >>
  BY <1>0, <1>2
<1>4. (\A s \in Signal : pc'[s] = "idle") /\ pc'["main"] = "loop"
  BY <1>0, <1>1, <1>3, FrameCases
<1>5. Script'
  BY <1>4, FrameCases DEF Script, Lines
<1>6. Worker' = "main"
  BY <1>4, FrameCases DEF Worker
<1>7. now' = "loop"
  BY <1>4, <1>6 DEF now
<1>8. Nesting'
  BY <1>3, <1>4, <1>6, FrameCases DEF Nesting
<1>9. Undisturbed'
  BY <1>1 DEF Undisturbed
<1> QED  BY <1>1, <1>3, <1>4, <1>5, <1>6, <1>7, <1>8, <1>9

-----------------------------------------------------------------------------
(* Reports, launches and the end, as far as a statement leaves them alone. *)

LEMMA ReportKept ==
  ASSUME QuietInv, \A p \in Pid : status[p] = "none", status' = status,
         "SIGCHLD" \notin pending', pc'["SIGCHLD"] # "wait"
  PROVE  OneReport'
BY DEF OneReport, Told

LEMMA ReportMade ==
  ASSUME IInv, \A p \in Pid : status[p] = "none", NEW p \in Pid,
         NEW report \in {"stopped", "continued"}, status' = [status EXCEPT ![p] = report],
         "SIGCHLD" \in pending', pc'["SIGCHLD"] \in {"idle", "rearm"}
  PROVE  OneReport'
<1>1. \A q \in Pid : status'[q] = IF q = p THEN report ELSE "none"
  BY DEF IInv, CallType
<1> QED  BY <1>1 DEF OneReport, Told

LEMMA LaunchingKept ==
  ASSUME QuietInv, pc["main"] = "loop", pc'["main"] = "loop", argi' = argi, current' # Group,
         \A p \in Pid : life'[p] = "unborn" <=> life[p] = "unborn"
  PROVE  Launching' /\ LaunchOrder'
BY DEF QuietInv, Launching, LaunchOrder

LEMMA CountNext ==
  ASSUME NEW k \in Nat
  PROVE  Append(Count(k), k + 1) = Count(k + 1)
<1>1. Count(k) \in Seq(Int) /\ Len(Count(k)) = k
  BY DEF Count
<1> QED  BY <1>1 DEF Count

LEMMA DoneKept ==
  ASSUME QuietInv, runningFlag' = runningFlag,
         \A p \in Pid : life[p] = "exited" => life'[p] = "exited"
  PROVE  DoneMeansAllExited'
BY DEF QuietInv, DoneMeansAllExited

LEMMA NotGroupInLoop ==
  ASSUME QuietInv, pc["main"] = "loop"
  PROVE  current # Group
BY DEF QuietInv, Launching

-----------------------------------------------------------------------------
(* kill() of one process.                                                  *)

LEMMA StopOne ==
  ASSUME IInv, NEW p \in Pid, life[p] = "running", KillStop(p)
  PROVE  /\ life' = [life EXCEPT ![p] = "stopped"]
         /\ status' = [status EXCEPT ![p] = "stopped"]
         /\ pending' = pending \cup {"SIGCHLD"}
         /\ life \in [Pid -> Life] /\ life' \in [Pid -> Life]
<1>1. Targets(p) = {p}
  BY PidFacts DEF Targets
<1>2. Shift(p, "running", "stopped", "stopped") /\ life \in [Pid -> Life]
      /\ status \in [Pid -> {"none", "stopped", "continued", "exited"}]
  BY DEF KillStop, IInv, CallType, Life
<1> DEFINE hit == {q \in Targets(p) : life[q] = "running"}
<1>3. hit = {p}
  BY <1>1
<1>4. /\ life'   = [q \in Pid |-> IF q \in hit THEN "stopped" ELSE life[q]]
      /\ status' = [q \in Pid |-> IF q \in hit THEN "stopped" ELSE status[q]]
      /\ pending' = IF hit = {} THEN pending ELSE pending \cup {"SIGCHLD"}
  BY <1>2 DEF Shift
<1> HIDE DEF hit
<1>5. life' = [life EXCEPT ![p] = "stopped"]
  BY <1>2, <1>3, <1>4
<1>6. status' = [status EXCEPT ![p] = "stopped"]
  BY <1>2, <1>3, <1>4
<1>7. pending' = pending \cup {"SIGCHLD"}
  BY <1>3, <1>4
<1>8. life' \in [Pid -> Life]
  BY <1>2, <1>5 DEF Life
<1> QED  BY <1>2, <1>5, <1>6, <1>7, <1>8

LEMMA ContOne ==
  ASSUME IInv, NEW p \in Pid, life[p] = "stopped", KillCont(p)
  PROVE  /\ life' = [life EXCEPT ![p] = "running"]
         /\ status' = [status EXCEPT ![p] = "continued"]
         /\ pending' = pending \cup {"SIGCHLD"}
         /\ life \in [Pid -> Life] /\ life' \in [Pid -> Life]
<1>1. Targets(p) = {p}
  BY PidFacts DEF Targets
<1>2. Shift(p, "stopped", "running", "continued") /\ life \in [Pid -> Life]
      /\ status \in [Pid -> {"none", "stopped", "continued", "exited"}]
  BY DEF KillCont, IInv, CallType, Life
<1> DEFINE hit == {q \in Targets(p) : life[q] = "stopped"}
<1>3. hit = {p}
  BY <1>1
<1>4. /\ life'   = [q \in Pid |-> IF q \in hit THEN "running" ELSE life[q]]
      /\ status' = [q \in Pid |-> IF q \in hit THEN "continued" ELSE status[q]]
      /\ pending' = IF hit = {} THEN pending ELSE pending \cup {"SIGCHLD"}
  BY <1>2 DEF Shift
<1> HIDE DEF hit
<1>5. life' = [life EXCEPT ![p] = "running"]
  BY <1>2, <1>3, <1>4
<1>6. status' = [status EXCEPT ![p] = "continued"]
  BY <1>2, <1>3, <1>4
<1>7. pending' = pending \cup {"SIGCHLD"}
  BY <1>3, <1>4
<1>8. life' \in [Pid -> Life]
  BY <1>2, <1>5 DEF Life
<1> QED  BY <1>2, <1>5, <1>6, <1>7, <1>8

-----------------------------------------------------------------------------
(* main()'s launches, one lemma per statement.                             *)

LEMMA LaunchQuiet ==
  ASSUME IInv, QuietInv, ~Overlap, Launch
  PROVE  QuietInv'
<1>1. /\ At("main", "fork") /\ UNCHANGED <<queueVars, current, runningFlag>>
      /\ "main" \in Frame /\ "fork" \in Label \ {"wait"}
  BY FrameCases DEF Launch, Label
<1>2. /\ Worker = "main" /\ now = "fork" /\ pc["main"] = "fork" /\ pending = {}
      /\ \A s \in Signal : pc[s] = "idle"
  BY <1>1, AtFacts, FrameCases
<1>3. \A p \in Pid : status[p] = "none"
  BY <1>1, AllReported
<1>4. /\ current = Group /\ (\A p \in Pid : life[p] = "unborn" <=> p > argi) /\ argi \in 0 .. N
      /\ life \in [Pid -> Life]
  BY <1>2 DEF QuietInv, Launching, IInv, SchedulerType, CallType, Life
<1>5. Held = {} /\ Ready = mainQueue /\ Waiting = waitQueue /\ Given = "stopped"
  BY <1>2, <1>4, PidFacts DEF Held, Ready, Waiting, Given
<1>6. CASE argi < N
  <2>1. /\ argi' = argi + 1 /\ Fork(argi + 1) /\ Goto("main", "stop")
        /\ argi + 1 \in Pid
    BY <1>4, <1>6, KernelAssumption DEF Launch, Pid
  <2>2. /\ life' = [life EXCEPT ![argi + 1] = "running"] /\ status' = status /\ pending' = pending
    BY <2>1 DEF Fork
  <2>3. /\ Script' /\ Nesting' /\ Undisturbed' /\ Worker' = "main" /\ now' = "stop"
        /\ pc'["main"] = "stop" /\ pc'["SIGCHLD"] = "idle"
    BY <1>1, <2>1, <2>2, GotoKeepsControl DEF Lines
  <2>4. life[argi + 1] = "unborn" /\ life' \in [Pid -> Life]
    BY <1>4, <2>1, <2>2 DEF Life
  <2>5. OneReport'
    BY <1>2, <1>3, <2>2, <2>3, ReportKept
  <2>6. Launching' /\ LaunchOrder'
    <3>1. Launching'
      BY <1>1, <1>4, <2>1, <2>2, <2>3, PidFacts DEF Launching, Life, Pid
    <3>2. mainQueue = Count(argi) /\ argi' - 1 = argi
      BY <1>2, <1>4, <2>1 DEF QuietInv, LaunchOrder
    <3>3. LaunchOrder'
      BY <1>1, <1>2, <2>1, <2>2, <2>3, <2>4, <3>2 DEF QuietInv, LaunchOrder, queueVars, Life
    <3> QED  BY <3>1, <3>3
  <2>7. Held' = {argi'} /\ Ready' = mainQueue /\ Waiting' = waitQueue /\ Given' = "running"
    BY <1>1, <2>3 DEF Held, Ready, Waiting, Given, queueVars
  <2>8. PlacesOf({argi'}, mainQueue, waitQueue, life', "running")
    <3>1. PlacesOf({}, mainQueue, waitQueue, life, "stopped")
      BY <1>5 DEF QuietInv, Places
    <3> QED  BY <1>4, <2>1, <2>2, <2>4, <3>1, MoveFork
  <2>9. Places'
    BY <2>7, <2>8 DEF Places
  <2>10. CurrentProcess'
    BY <1>1, <1>4, <2>3, PidFacts DEF QuietInv, CurrentProcess, queueVars
  <2>11. DoneMeansAllExited'
    BY <1>1, <1>4, <2>1, <2>2, <2>4, DoneKept
  <2> QED  BY <2>3, <2>5, <2>6, <2>9, <2>10, <2>11 DEF QuietInv
<1>7. CASE ~(argi < N)
  <2>1. argi' = argi /\ Goto("main", "pick") /\ NoCall /\ argi = N
    BY <1>4, <1>7, KernelAssumption DEF Launch
  <2>2. life' = life /\ status' = status /\ pending' = pending
    BY <2>1 DEF NoCall
  <2>3. /\ Script' /\ Nesting' /\ Undisturbed' /\ Worker' = "main" /\ now' = "pick"
        /\ pc'["main"] = "pick" /\ pc'["SIGCHLD"] = "idle"
    BY <1>1, <2>1, <2>2, GotoKeepsControl DEF Lines
  <2>4. OneReport'
    BY <1>2, <1>3, <2>2, <2>3, ReportKept
  <2>5. Launching' /\ LaunchOrder'
    <3>1. Launching'
      BY <1>1, <1>4, <2>1, <2>2, <2>3, PidFacts DEF Launching
    <3>2. LaunchOrder'
      BY <1>1, <1>2, <2>1, <2>2, <2>3 DEF QuietInv, LaunchOrder, queueVars
    <3> QED  BY <3>1, <3>2
  <2>6. Held' = {} /\ Ready' = mainQueue /\ Waiting' = waitQueue
    BY <1>1, <2>3 DEF Held, Ready, Waiting, queueVars
  <2>7. Places'
    <3>1. PlacesOf({}, mainQueue, waitQueue, life, "stopped")
      BY <1>5 DEF QuietInv, Places
    <3>2. PlacesOf({}, mainQueue, waitQueue, life, Given')
      BY <3>1, MoveNone
    <3> QED  BY <2>2, <2>6, <3>2 DEF Places
  <2>8. CurrentProcess'
    BY <1>1, <2>3 DEF QuietInv, CurrentProcess, queueVars
  <2>9. DoneMeansAllExited'
    BY <1>1, <2>2, DoneKept
  <2> QED  BY <2>3, <2>4, <2>5, <2>7, <2>8, <2>9 DEF QuietInv
<1> QED  BY <1>6, <1>7

LEMMA LaunchStopQuiet ==
  ASSUME IInv, QuietInv, ~Overlap, LaunchStop
  PROVE  QuietInv'
<1>1. /\ At("main", "stop") /\ KillStop(argi) /\ Goto("main", "enq")
      /\ UNCHANGED <<queueVars, current, runningFlag, argi>>
      /\ "main" \in Frame /\ "stop" \in Label \ {"wait"}
  BY FrameCases DEF LaunchStop, Label
<1>2. /\ Worker = "main" /\ now = "stop" /\ pc["main"] = "stop" /\ pending = {}
      /\ \A s \in Signal : pc[s] = "idle"
  BY <1>1, AtFacts, FrameCases
<1>3. \A p \in Pid : status[p] = "none"
  BY <1>1, AllReported
<1>4. current = Group /\ argi \in Pid
  BY <1>2 DEF QuietInv, Launching
<1>5. Held = {argi} /\ Ready = mainQueue /\ Waiting = waitQueue /\ Given = "running"
  BY <1>2 DEF Held, Ready, Waiting, Given
<1>6. PlacesOf({argi}, mainQueue, waitQueue, life, "running") /\ life[argi] = "running"
  BY <1>4, <1>5 DEF QuietInv, Places, PlacesOf
<1>7. /\ life' = [life EXCEPT ![argi] = "stopped"]
      /\ status' = [status EXCEPT ![argi] = "stopped"]
      /\ pending' = pending \cup {"SIGCHLD"}
      /\ life \in [Pid -> Life] /\ life' \in [Pid -> Life]
  BY <1>1, <1>4, <1>6, StopOne
<1>8. /\ Script' /\ Nesting' /\ Undisturbed' /\ Worker' = "main" /\ now' = "enq"
      /\ pc'["main"] = "enq" /\ pc'["SIGCHLD"] = "idle"
  BY <1>1, <1>7, GotoKeepsControl DEF Lines
<1>9. OneReport'
  BY <1>3, <1>4, <1>7, <1>8, ReportMade
<1>10. Launching' /\ LaunchOrder'
  <2>1. Launching'
    BY <1>1, <1>2, <1>4, <1>6, <1>7, <1>8 DEF QuietInv, Launching
  <2>2. LaunchOrder'
    BY <1>1, <1>2, <1>4, <1>6, <1>7, <1>8 DEF QuietInv, LaunchOrder, queueVars
  <2> QED  BY <2>1, <2>2
<1>11. Held' = {argi} /\ Ready' = mainQueue /\ Waiting' = waitQueue /\ Given' = "stopped"
  BY <1>1, <1>8 DEF Held, Ready, Waiting, Given, queueVars
<1>12. Places'
  <2>1. PlacesOf({argi}, mainQueue, waitQueue, life', "stopped")
    BY <1>4, <1>6, <1>7, MoveStop
  <2> QED  BY <2>1, <1>11 DEF Places
<1>13. CurrentProcess'
  BY <1>1, <1>4, <1>8, PidFacts DEF QuietInv, CurrentProcess, queueVars
<1>14. DoneMeansAllExited'
  BY <1>1, <1>4, <1>6, <1>7, DoneKept
<1> QED  BY <1>8, <1>9, <1>10, <1>12, <1>13, <1>14 DEF QuietInv

LEMMA LaunchEnqueueQuiet ==
  ASSUME IInv, QuietInv, ~Overlap, LaunchEnqueue
  PROVE  QuietInv'
<1>1. /\ At("main", "enq") /\ mainQueue' = Append(mainQueue, argi) /\ Goto("main", "fork") /\ NoCall
      /\ UNCHANGED <<waitQueue, current, runningFlag, argi>>
      /\ "main" \in Frame /\ "enq" \in Label \ {"wait"}
  BY FrameCases DEF LaunchEnqueue, Label
<1>2. /\ Worker = "main" /\ now = "enq" /\ pc["main"] = "enq" /\ pending = {}
      /\ \A s \in Signal : pc[s] = "idle"
  BY <1>1, AtFacts, FrameCases
<1>3. \A p \in Pid : status[p] = "none"
  BY <1>1, AllReported
<1>4. current = Group /\ argi \in Pid /\ mainQueue \in Seq(Pid) /\ life \in [Pid -> Life]
  BY <1>2 DEF QuietInv, Launching, CurrentProcess, IInv, CallType, Life
<1>5. Held = {argi} /\ Ready = mainQueue /\ Waiting = waitQueue /\ Given = "stopped"
  BY <1>2 DEF Held, Ready, Waiting, Given
<1>6. PlacesOf({argi}, mainQueue, waitQueue, life, "stopped")
  BY <1>5 DEF QuietInv, Places
<1>7. life' = life /\ status' = status /\ pending' = pending
  BY <1>1 DEF NoCall
<1>8. /\ Script' /\ Nesting' /\ Undisturbed' /\ Worker' = "main" /\ now' = "fork"
      /\ pc'["main"] = "fork" /\ pc'["SIGCHLD"] = "idle"
  BY <1>1, <1>7, GotoKeepsControl DEF Lines
<1>9. OneReport'
  BY <1>2, <1>3, <1>7, <1>8, ReportKept
<1>10. Launching' /\ LaunchOrder'
  <2>1. Launching'
    BY <1>1, <1>2, <1>4, <1>7, <1>8 DEF QuietInv, Launching
  <2>2. mainQueue' = Count(argi)
    <3>1. mainQueue = Count(argi - 1) /\ argi - 1 \in Nat /\ (argi - 1) + 1 = argi
      BY <1>2, <1>4 DEF QuietInv, LaunchOrder, Pid
    <3> QED  BY <1>1, <3>1, CountNext
  <2>3. LaunchOrder'
    BY <1>1, <1>2, <1>7, <1>8, <2>2 DEF QuietInv, LaunchOrder
  <2> QED  BY <2>1, <2>3
<1>11. Held' = {} /\ Ready' = mainQueue' /\ Waiting' = waitQueue
  BY <1>1, <1>4, <1>8, PidFacts DEF Held, Ready, Waiting
<1>12. PlacesOf({}, Append(mainQueue, argi), waitQueue, life, Given') /\ mainQueue' \in Seq(Pid)
  BY <1>1, <1>4, <1>6, MoveReady
<1>13. Places'
  BY <1>1, <1>7, <1>11, <1>12 DEF Places
<1>14. CurrentProcess'
  BY <1>1, <1>4, <1>8, <1>12, PidFacts DEF QuietInv, CurrentProcess
<1>15. DoneMeansAllExited'
  BY <1>1, <1>7, DoneKept
<1> QED  BY <1>8, <1>9, <1>10, <1>13, <1>14, <1>15 DEF QuietInv

LEMMA LeaveQuiet ==
  ASSUME IInv, QuietInv, ~Overlap, Leave
  PROVE  QuietInv'
<1>1. /\ At("main", "loop") /\ Goto("main", "done") /\ NoCall
      /\ UNCHANGED <<queueVars, current, runningFlag, argi>>
      /\ "main" \in Frame /\ "loop" \in Label \ {"wait"}
  BY FrameCases DEF Leave, Label
<1>2. /\ Worker = "main" /\ now = "loop" /\ pc["main"] = "loop" /\ pending = {}
      /\ \A s \in Signal : pc[s] = "idle"
  BY <1>1, AtFacts, FrameCases
<1>3. \A p \in Pid : status[p] = "none"
  BY <1>1, AllReported
<1>7. life' = life /\ status' = status /\ pending' = pending
  BY <1>1 DEF NoCall
<1>8. /\ Script' /\ Nesting' /\ Undisturbed' /\ Worker' = "main" /\ now' = "done"
      /\ pc'["main"] = "done" /\ pc'["SIGCHLD"] = "idle"
  BY <1>1, <1>7, GotoKeepsControl DEF Lines
<1>9. OneReport'
  BY <1>2, <1>3, <1>7, <1>8, ReportKept
<1>10. Launching' /\ LaunchOrder'
  BY <1>1, <1>2, <1>7, <1>8 DEF QuietInv, Launching, LaunchOrder
<1>11. Held' = Held /\ Ready' = Ready /\ Waiting' = Waiting /\ Given' = Given
  BY <1>1, <1>2, <1>7, <1>8 DEF Held, Ready, Waiting, Given, queueVars
<1>13. Places'
  BY <1>7, <1>11 DEF QuietInv, Places
<1>14. CurrentProcess'
  BY <1>1, <1>2, <1>8 DEF QuietInv, CurrentProcess, queueVars
<1>15. DoneMeansAllExited'
  BY <1>1, <1>7, DoneKept
<1> QED  BY <1>8, <1>9, <1>10, <1>13, <1>14, <1>15 DEF QuietInv

-----------------------------------------------------------------------------
(* The statements the handlers share.                                      *)

\* What a handler knows of `current' while it works.
LEMMA HandlerFacts ==
  ASSUME IInv, QuietInv, ~Overlap, NEW f \in Signal, NEW label \in Label \ {"wait"}, At(f, label)
  PROVE  /\ f \in Frame /\ f # "main" /\ Worker = f /\ now = label /\ pc["main"] = "loop"
         /\ \A p \in Pid : status[p] # "exited"
         /\ current \in Pid \cup {None}
         /\ mainQueue \in Seq(Pid) /\ waitQueue \in Seq(Pid) /\ life \in [Pid -> Life]
         /\ label # "pick" => Held = IF current \in Pid THEN {current} ELSE {}
         /\ label = "pick" => Held = {}
<1>1. f \in Frame /\ f # "main"
  BY FrameCases
<1>2. Worker = f /\ now = label /\ pc["main"] = "loop"
  BY <1>1, AtFacts
<1>3. \A p \in Pid : status[p] # "exited"
  BY <1>1, AllReported
<1>4. current \in Pid \cup {None}
  BY <1>2, NotGroupInLoop DEF IInv, SchedulerType
<1>5. mainQueue \in Seq(Pid) /\ waitQueue \in Seq(Pid) /\ life \in [Pid -> Life]
  BY DEF QuietInv, CurrentProcess, IInv, CallType, Life
<1> QED  BY <1>1, <1>2, <1>3, <1>4, <1>5 DEF Held

LEMMA PreemptQuiet ==
  ASSUME IInv, QuietInv, ~Overlap, NEW f \in {"SIGALRM", "SIGUSR1"}, Preempt(f)
  PROVE  QuietInv'
<1>1. /\ At(f, "stop") /\ UNCHANGED <<queueVars, current, runningFlag, argi>>
      /\ f \in Signal /\ "stop" \in Label \ {"wait"}
  BY FrameCases DEF Preempt, Label
<1>2. /\ f \in Frame /\ f # "main" /\ Worker = f /\ now = "stop" /\ pc["main"] = "loop"
      /\ current \in Pid \cup {None}
      /\ mainQueue \in Seq(Pid) /\ waitQueue \in Seq(Pid) /\ life \in [Pid -> Life]
      /\ Held = IF current \in Pid THEN {current} ELSE {}
  BY <1>1, HandlerFacts DEF Label
<1>3. (\A p \in Pid : status[p] = "none") /\ pending \subseteq {"SIGCHLD"} /\ "SIGCHLD" \notin pending
  BY <1>1, <1>2, AtFacts, AllReported
<1>4. Ready = mainQueue /\ Waiting = waitQueue /\ Given = "running"
  BY <1>2 DEF Ready, Waiting, Given
<1>5. CASE current # None
  <2>1. current \in Pid /\ KillStop(current) /\ Goto(f, "enq")
    BY <1>2, <1>5 DEF Preempt
  <2>2. PlacesOf({current}, mainQueue, waitQueue, life, "running") /\ life[current] = "running"
    BY <1>2, <1>4, <2>1 DEF QuietInv, Places, PlacesOf
  <2>3. /\ life' = [life EXCEPT ![current] = "stopped"]
        /\ status' = [status EXCEPT ![current] = "stopped"]
        /\ pending' = pending \cup {"SIGCHLD"} /\ life' \in [Pid -> Life]
    BY <2>1, <2>2, StopOne
  <2>4. /\ Script' /\ Nesting' /\ Undisturbed' /\ Worker' = f /\ now' = "enq"
        /\ pc'["main"] = "loop" /\ pc'["SIGCHLD"] = "idle"
    BY <1>1, <1>2, <2>1, <2>3, GotoKeepsControl DEF Lines
  <2>5. OneReport'
    BY <1>3, <2>1, <2>3, <2>4, ReportMade
  <2>6. Launching' /\ LaunchOrder'
    BY <1>1, <1>2, <2>1, <2>2, <2>3, <2>4, PidFacts, LaunchingKept
  <2>7. \A p \in Pid : status'[p] # "exited"
    BY <1>3, <2>1, <2>3 DEF IInv, CallType
  <2>8. Held' = {current} /\ Ready' = mainQueue /\ Waiting' = waitQueue /\ Given' = "stopped"
    BY <1>1, <1>2, <2>1, <2>4, <2>7 DEF Held, Ready, Waiting, Given, queueVars
  <2>9. PlacesOf({current}, mainQueue, waitQueue, life', "stopped")
    BY <1>2, <2>1, <2>2, <2>3, MoveStop
  <2>10. Places'
    BY <2>8, <2>9 DEF Places
  <2>11. CurrentProcess'
    BY <1>1, <1>2, <1>5, <2>1, <2>4 DEF CurrentProcess, queueVars
  <2>12. DoneMeansAllExited'
    BY <1>1, <1>2, <2>1, <2>2, <2>3, DoneKept
  <2> QED  BY <2>4, <2>5, <2>6, <2>10, <2>11, <2>12 DEF QuietInv
<1>6. CASE current = None
  <2>1. NoCall /\ Goto(f, "pick") /\ Held = {}
    BY <1>2, <1>6, PidFacts DEF Preempt
  <2>2. life' = life /\ status' = status /\ pending' = pending
    BY <2>1 DEF NoCall
  <2>3. /\ Script' /\ Nesting' /\ Undisturbed' /\ Worker' = f /\ now' = "pick"
        /\ pc'["main"] = "loop" /\ pc'["SIGCHLD"] = "idle"
    BY <1>1, <1>2, <2>1, <2>2, GotoKeepsControl DEF Lines
  <2>4. OneReport'
    BY <1>3, <2>2, <2>3, ReportKept
  <2>5. Launching' /\ LaunchOrder'
    BY <1>1, <1>2, <1>6, <2>2, <2>3, PidFacts, LaunchingKept
  <2>6. Held' = {} /\ Ready' = mainQueue /\ Waiting' = waitQueue
    BY <1>1, <2>3 DEF Held, Ready, Waiting, queueVars
  <2>7. PlacesOf({}, mainQueue, waitQueue, life, Given')
    <3>1. PlacesOf({}, mainQueue, waitQueue, life, "running")
      BY <1>4, <2>1 DEF QuietInv, Places
    <3> QED  BY <3>1, MoveNone
  <2>8. Places'
    BY <2>2, <2>6, <2>7 DEF Places
  <2>9. CurrentProcess'
    BY <1>1, <1>2, <2>3 DEF CurrentProcess, queueVars
  <2>10. DoneMeansAllExited'
    BY <1>1, <2>2, DoneKept
  <2> QED  BY <2>3, <2>4, <2>5, <2>8, <2>9, <2>10 DEF QuietInv
<1> QED  BY <1>5, <1>6

LEMMA ParkQuiet ==
  ASSUME IInv, QuietInv, ~Overlap, NEW f \in {"SIGALRM", "SIGUSR1"}, Park(f)
  PROVE  QuietInv'
<1>1. /\ At(f, "enq") /\ Goto(f, "pick") /\ NoCall /\ UNCHANGED <<current, runningFlag, argi>>
      /\ f \in Signal /\ "enq" \in Label \ {"wait"}
  BY FrameCases DEF Park, Label
<1>2. /\ f \in Frame /\ f # "main" /\ Worker = f /\ now = "enq" /\ pc["main"] = "loop"
      /\ current \in Pid
      /\ mainQueue \in Seq(Pid) /\ waitQueue \in Seq(Pid) /\ life \in [Pid -> Life]
      /\ Held = {current}
  <2>1. /\ f \in Frame /\ f # "main" /\ Worker = f /\ now = "enq" /\ pc["main"] = "loop"
        /\ mainQueue \in Seq(Pid) /\ waitQueue \in Seq(Pid) /\ life \in [Pid -> Life]
        /\ Held = IF current \in Pid THEN {current} ELSE {}
    BY <1>1, HandlerFacts DEF Label
  <2> QED  BY <2>1 DEF QuietInv, CurrentProcess
<1>3. (\A p \in Pid : status[p] = "none") /\ pending \subseteq {"SIGCHLD"} /\ "SIGCHLD" \notin pending
  BY <1>1, <1>2, AtFacts, AllReported
<1>4. PlacesOf({current}, mainQueue, waitQueue, life, "stopped")
  BY <1>2 DEF QuietInv, Places, Ready, Waiting, Given
<1>5. life' = life /\ status' = status /\ pending' = pending
  BY <1>1 DEF NoCall
<1>6. /\ Script' /\ Nesting' /\ Undisturbed' /\ Worker' = f /\ now' = "pick"
      /\ pc'["main"] = "loop" /\ pc'["SIGCHLD"] = "idle"
  BY <1>1, <1>2, <1>5, GotoKeepsControl DEF Lines
<1>7. OneReport'
  BY <1>3, <1>5, <1>6, ReportKept
<1>8. Launching' /\ LaunchOrder'
  BY <1>1, <1>2, <1>5, <1>6, PidFacts, LaunchingKept
<1>9. PlacesOf({}, mainQueue', waitQueue', life, Given') /\ mainQueue' \in Seq(Pid) /\ waitQueue' \in Seq(Pid)
  <2>1. CASE f = "SIGALRM"
    <3>1. mainQueue' = Append(mainQueue, current) /\ waitQueue' = waitQueue
      BY <2>1 DEF Park
    <3>2. PlacesOf({}, Append(mainQueue, current), waitQueue, life, Given') /\ Append(mainQueue, current) \in Seq(Pid)
      BY <1>2, <1>4, MoveReady
    <3> QED  BY <1>2, <3>1, <3>2
  <2>2. CASE f = "SIGUSR1"
    <3>1. waitQueue' = Append(waitQueue, current) /\ mainQueue' = mainQueue
      BY <2>2 DEF Park
    <3>2. PlacesOf({}, mainQueue, Append(waitQueue, current), life, Given') /\ Append(waitQueue, current) \in Seq(Pid)
      BY <1>2, <1>4, MoveWait
    <3> QED  BY <1>2, <3>1, <3>2
  <2> QED  BY <2>1, <2>2
<1>10. Held' = {} /\ Ready' = mainQueue' /\ Waiting' = waitQueue'
  BY <1>6 DEF Held, Ready, Waiting
<1>11. Places'
  BY <1>5, <1>9, <1>10 DEF Places
<1>12. CurrentProcess'
  BY <1>6, <1>9 DEF CurrentProcess
<1>13. DoneMeansAllExited'
  BY <1>1, <1>5, DoneKept
<1> QED  BY <1>6, <1>7, <1>8, <1>11, <1>12, <1>13 DEF QuietInv

LEMMA WakeEnqueueQuiet ==
  ASSUME IInv, QuietInv, ~Overlap, WakeEnqueue
  PROVE  QuietInv'
<1> DEFINE f == "SIGALRM"
           next == IF waitQueue # << >> THEN "unwait" ELSE "stop"
<1>1. /\ At(f, "wake") /\ Goto(f, next) /\ NoCall /\ UNCHANGED <<waitQueue, current, runningFlag, argi>>
      /\ mainQueue' = IF waitQueue # << >> THEN Append(mainQueue, Head(waitQueue)) ELSE mainQueue
      /\ f \in Signal /\ "wake" \in Label \ {"wait"}
  BY FrameCases DEF WakeEnqueue, Label, Front
<1>2. /\ f \in Frame /\ f # "main" /\ Worker = f /\ now = "wake" /\ pc["main"] = "loop"
      /\ current \in Pid \cup {None}
      /\ mainQueue \in Seq(Pid) /\ waitQueue \in Seq(Pid) /\ life \in [Pid -> Life]
      /\ Held = IF current \in Pid THEN {current} ELSE {}
      /\ \A p \in Pid : status[p] # "exited"
  BY <1>1, HandlerFacts DEF Label
<1>3. (\A p \in Pid : status[p] = "none") /\ pending \subseteq {"SIGCHLD"} /\ "SIGCHLD" \notin pending
  BY <1>1, <1>2, AtFacts, AllReported
<1>4. PlacesOf(Held, mainQueue, waitQueue, life, "running")
  BY <1>2 DEF QuietInv, Places, Ready, Waiting, Given
<1>5. life' = life /\ status' = status /\ pending' = pending
  BY <1>1 DEF NoCall
<1>6. /\ Script' /\ Nesting' /\ Undisturbed' /\ Worker' = f /\ now' = next
      /\ pc'["main"] = "loop" /\ pc'["SIGCHLD"] = "idle"
  <2>1. next \in Lines(f) \ {"idle", "wait"}
    BY DEF Lines
  <2> HIDE DEF next
  <2> QED  BY <1>1, <1>2, <1>5, <2>1, GotoKeepsControl
<1>7. OneReport'
  BY <1>3, <1>5, <1>6, ReportKept
<1>8. Launching' /\ LaunchOrder'
  BY <1>1, <1>2, <1>5, <1>6, PidFacts, LaunchingKept
<1>9. Held' = Held /\ Given' = "running" /\ Ready' = mainQueue'
      /\ Waiting' = IF waitQueue # << >> THEN Tail(waitQueue) ELSE waitQueue
  BY <1>1, <1>2, <1>5, <1>6 DEF Held, Ready, Waiting, Given, Dequeue
<1>10. PlacesOf(Held, Ready', Waiting', life, "running") /\ mainQueue' \in Seq(Pid)
  <2>1. CASE waitQueue # << >>
    <3>1. /\ PlacesOf(Held, Append(mainQueue, Head(waitQueue)), Tail(waitQueue), life, "running")
          /\ Append(mainQueue, Head(waitQueue)) \in Seq(Pid)
      BY <1>2, <1>4, <2>1, MoveWake
    <3> QED  BY <1>1, <1>9, <2>1, <3>1
  <2>2. CASE waitQueue = << >>
    BY <1>1, <1>2, <1>4, <1>9, <2>2
  <2> QED  BY <2>1, <2>2
<1>11. Places'
  BY <1>5, <1>9, <1>10 DEF Places
<1>12. CurrentProcess'
  BY <1>1, <1>2, <1>6, <1>10 DEF CurrentProcess
<1>13. DoneMeansAllExited'
  BY <1>1, <1>5, DoneKept
<1> QED  BY <1>6, <1>7, <1>8, <1>11, <1>12, <1>13 DEF QuietInv

LEMMA WakeDequeueQuiet ==
  ASSUME IInv, QuietInv, ~Overlap, WakeDequeue
  PROVE  QuietInv'
<1> DEFINE f == "SIGALRM"
<1>1. /\ At(f, "unwait") /\ Goto(f, "stop") /\ NoCall /\ UNCHANGED <<mainQueue, current, runningFlag, argi>>
      /\ waitQueue' = Dequeue(waitQueue)
      /\ f \in Signal /\ "unwait" \in Label \ {"wait"}
  BY FrameCases DEF WakeDequeue, Label
<1>2. /\ f \in Frame /\ f # "main" /\ Worker = f /\ now = "unwait" /\ pc["main"] = "loop"
      /\ current \in Pid \cup {None}
      /\ mainQueue \in Seq(Pid) /\ waitQueue \in Seq(Pid)
  BY <1>1, HandlerFacts DEF Label
<1>3. (\A p \in Pid : status[p] = "none") /\ pending \subseteq {"SIGCHLD"} /\ "SIGCHLD" \notin pending
  BY <1>1, <1>2, AtFacts, AllReported
<1>5. life' = life /\ status' = status /\ pending' = pending
  BY <1>1 DEF NoCall
<1>6. /\ Script' /\ Nesting' /\ Undisturbed' /\ Worker' = f /\ now' = "stop"
      /\ pc'["main"] = "loop" /\ pc'["SIGCHLD"] = "idle"
  BY <1>1, <1>2, <1>5, GotoKeepsControl DEF Lines
<1>7. OneReport'
  BY <1>3, <1>5, <1>6, ReportKept
<1>8. Launching' /\ LaunchOrder'
  BY <1>1, <1>2, <1>5, <1>6, PidFacts, LaunchingKept
<1>9. Held' = Held /\ Given' = Given /\ Ready' = Ready /\ Waiting' = Waiting
  BY <1>1, <1>2, <1>5, <1>6 DEF Held, Ready, Waiting, Given
<1>11. Places'
  BY <1>5, <1>9 DEF Places, QuietInv
<1>12. CurrentProcess'
  <2>1. waitQueue' \in Seq(Pid)
    BY <1>1, <1>2, HeadTailProperties DEF Dequeue
  <2> QED  BY <1>1, <1>2, <1>6, <2>1 DEF CurrentProcess
<1>13. DoneMeansAllExited'
  BY <1>1, <1>5, DoneKept
<1> QED  BY <1>6, <1>7, <1>8, <1>11, <1>12, <1>13 DEF QuietInv

LEMMA CountFirst ==
  Count(N) \in Seq(Pid) /\ Count(N) # << >> /\ Head(Count(N)) = 1 /\ 1 \in Pid
<1>1. N \in Nat \ {0}
  BY KernelAssumption
<1>2. Count(N) \in Seq(Pid) /\ Len(Count(N)) = N /\ Count(N)[1] = 1 /\ 1 \in Pid
  BY <1>1 DEF Count, Pid
<1> QED  BY <1>1, <1>2

LEMMA SwapFrontQuiet ==
  ASSUME IInv, QuietInv, ~Overlap, NEW f \in Frame, SwapFront(f)
  PROVE  QuietInv'
<1>1. /\ At(f, "pick") /\ current' = Front(mainQueue) /\ Goto(f, "deq") /\ NoCall
      /\ UNCHANGED <<queueVars, runningFlag, argi>>
      /\ "pick" \in Label \ {"wait"}
  BY DEF SwapFront, Label
<1>2. /\ Worker = f /\ now = "pick" /\ pc[f] = "pick"
      /\ mainQueue \in Seq(Pid) /\ waitQueue \in Seq(Pid) /\ life \in [Pid -> Life]
      /\ Held = {} /\ Ready = mainQueue /\ Waiting = waitQueue
      /\ f # "main" => pc["main"] = "loop"
      /\ "SIGCHLD" \notin pending
  BY <1>1, AtFacts DEF QuietInv, CurrentProcess, IInv, CallType, Life, Held, Ready, Waiting
<1>3. \A p \in Pid : status[p] = "none"
  BY <1>1, AllReported
<1>4. life' = life /\ status' = status /\ pending' = pending
  BY <1>1 DEF NoCall
<1>5. "deq" \in Lines(f) \ {"idle", "wait"}
  BY FrameCases DEF Lines
<1>6. /\ Script' /\ Nesting' /\ Undisturbed' /\ Worker' = f /\ now' = "deq"
      /\ f # "main" => pc'["main"] = "loop" /\ pc["main"] = "loop"
      /\ pc'[f] = "deq" /\ pc'["SIGCHLD"] # "wait"
  BY <1>1, <1>4, <1>5, GotoKeepsControl
<1>7. OneReport'
  BY <1>2, <1>3, <1>4, <1>6, ReportKept
<1>8. /\ PlacesOf(IF current' \in Pid THEN {current'} ELSE {}, Dequeue(mainQueue), waitQueue, life, "stopped")
      /\ Dequeue(mainQueue) \in Seq(Pid) /\ current' \in Pid \cup {None}
      /\ current' = None => mainQueue = << >>
  <2>1. PlacesOf({}, mainQueue, waitQueue, life, Given)
    BY <1>2 DEF QuietInv, Places
  <2>2. CASE mainQueue = << >>
    <3>1. current' = None /\ current' \notin Pid /\ Dequeue(mainQueue) = mainQueue
      BY <1>1, <2>2, PidFacts DEF Front, Dequeue
    <3>2. PlacesOf({}, mainQueue, waitQueue, life, "stopped")
      BY <2>1, MoveNone
    <3> QED  BY <1>2, <2>2, <3>1, <3>2
  <2>3. CASE mainQueue # << >>
    <3>1. current' = Head(mainQueue) /\ Dequeue(mainQueue) = Tail(mainQueue)
      BY <1>1, <2>3 DEF Front, Dequeue
    <3>2. /\ PlacesOf({Head(mainQueue)}, Tail(mainQueue), waitQueue, life, "stopped")
          /\ Tail(mainQueue) \in Seq(Pid) /\ Head(mainQueue) \in Pid
      BY <1>2, <2>1, <2>3, MoveTake
    <3> QED  BY <3>1, <3>2, PidFacts
  <2> QED  BY <2>2, <2>3
<1>9. Launching' /\ LaunchOrder'
  <2>1. CASE f = "main"
    <3>1. mainQueue = Count(N) /\ current' = 1 /\ 1 \in Pid /\ argi = N
      BY <1>1, <1>2, <2>1, CountFirst DEF QuietInv, Launching, LaunchOrder, Front
    <3>2. Launching'
      BY <1>1, <1>4, <1>6, <2>1, <3>1, PidFacts DEF QuietInv, Launching
    <3>3. LaunchOrder'
      BY <1>1, <1>2, <1>4, <1>6, <2>1, <3>1 DEF QuietInv, LaunchOrder, queueVars
    <3> QED  BY <3>2, <3>3
  <2>2. CASE f # "main"
    BY <1>1, <1>4, <1>6, <1>8, <2>2, PidFacts, LaunchingKept
  <2> QED  BY <2>1, <2>2
<1>10. /\ Held' = IF current' \in Pid THEN {current'} ELSE {}
       /\ Ready' = Dequeue(mainQueue) /\ Waiting' = waitQueue /\ Given' = "stopped"
  BY <1>1, <1>3, <1>4, <1>6 DEF Held, Ready, Waiting, Given, queueVars
<1>11. Places'
  BY <1>4, <1>8, <1>10 DEF Places
<1>12. CurrentProcess'
  BY <1>1, <1>2, <1>6, <1>8 DEF CurrentProcess, queueVars
<1>13. DoneMeansAllExited'
  BY <1>1, <1>4, DoneKept
<1> QED  BY <1>6, <1>7, <1>9, <1>11, <1>12, <1>13 DEF QuietInv

LEMMA SwapDequeueQuiet ==
  ASSUME IInv, QuietInv, ~Overlap, NEW f \in Frame, SwapDequeue(f)
  PROVE  QuietInv'
<1> DEFINE next == IF f = "SIGCHLD" THEN "test" ELSE "cont"
<1>1. /\ At(f, "deq") /\ mainQueue' = Dequeue(mainQueue) /\ Goto(f, next) /\ NoCall
      /\ UNCHANGED <<waitQueue, current, runningFlag, argi>>
      /\ "deq" \in Label \ {"wait"}
  BY DEF SwapDequeue, Label
<1>2. next \in Lines(f) \ {"idle", "wait"} /\ next \in {"test", "cont"} /\ (f = "main" => next = "cont")
  BY FrameCases DEF Lines
<1> HIDE DEF next
<1>3. /\ Worker = f /\ now = "deq" /\ pc[f] = "deq"
      /\ mainQueue \in Seq(Pid) /\ waitQueue \in Seq(Pid)
      /\ f # "main" => pc["main"] = "loop"
      /\ "SIGCHLD" \notin pending
  BY <1>1, AtFacts DEF QuietInv, CurrentProcess
<1>4. \A p \in Pid : status[p] = "none"
  BY <1>1, AllReported
<1>5. life' = life /\ status' = status /\ pending' = pending
  BY <1>1 DEF NoCall
<1>6. /\ Script' /\ Nesting' /\ Undisturbed' /\ Worker' = f /\ now' = next
      /\ f # "main" => pc'["main"] = "loop" /\ pc["main"] = "loop"
      /\ pc'[f] = next /\ pc'["SIGCHLD"] # "wait"
  BY <1>1, <1>2, <1>5, GotoKeepsControl
<1>7. OneReport'
  BY <1>3, <1>4, <1>5, <1>6, ReportKept
<1>8. Launching' /\ LaunchOrder'
  <2>1. CASE f = "main"
    <3>1. Launching'
      BY <1>1, <1>2, <1>3, <1>5, <1>6, <2>1 DEF QuietInv, Launching
    <3>2. mainQueue' = Tail(Count(N))
      BY <1>1, <1>3, <2>1, CountFirst DEF QuietInv, LaunchOrder, Dequeue
    <3>3. LaunchOrder'
      BY <1>1, <1>2, <1>3, <1>5, <1>6, <2>1, <3>2 DEF QuietInv, LaunchOrder
    <3> QED  BY <3>1, <3>3
  <2>2. CASE f # "main"
    BY <1>1, <1>3, <1>5, <1>6, <2>2, NotGroupInLoop, LaunchingKept
  <2> QED  BY <2>1, <2>2
<1>9. Held' = Held /\ Ready' = Ready /\ Waiting' = Waiting /\ Given' = Given
  BY <1>1, <1>2, <1>3, <1>5, <1>6 DEF Held, Ready, Waiting, Given
<1>10. Places'
  BY <1>5, <1>9 DEF Places, QuietInv
<1>11. CurrentProcess'
  <2>1. mainQueue' \in Seq(Pid)
    BY <1>1, <1>3, HeadTailProperties DEF Dequeue
  <2>2. current = None => mainQueue' = << >>
    BY <1>1, <1>3 DEF QuietInv, CurrentProcess, Dequeue
  <2> QED  BY <1>1, <1>2, <1>3, <1>6, <2>1, <2>2 DEF CurrentProcess
<1>12. DoneMeansAllExited'
  BY <1>1, <1>5, DoneKept
<1> QED  BY <1>6, <1>7, <1>8, <1>10, <1>11, <1>12 DEF QuietInv

LEMMA ResumeQuiet ==
  ASSUME IInv, QuietInv, ~Overlap, NEW f \in Frame, Resume(f)
  PROVE  QuietInv'
<1>1. /\ At(f, "cont") /\ Goto(f, "rearm") /\ UNCHANGED <<queueVars, current, runningFlag, argi>>
      /\ "cont" \in Label \ {"wait"}
  BY DEF Resume, Label
<1>2. "rearm" \in Lines(f) \ {"idle", "wait"}
  BY FrameCases DEF Lines
<1>3. /\ Worker = f /\ now = "cont" /\ pc[f] = "cont"
      /\ mainQueue \in Seq(Pid) /\ waitQueue \in Seq(Pid) /\ life \in [Pid -> Life]
      /\ f # "main" => pc["main"] = "loop"
      /\ "SIGCHLD" \notin pending
  BY <1>1, AtFacts DEF QuietInv, CurrentProcess, IInv, CallType, Life
<1>4. \A p \in Pid : status[p] = "none"
  BY <1>1, AllReported
<1>5. current \in Pid \cup {None} /\ (f = "main" => current \in Pid)
  <2>1. f = "main" => current \in Pid
    BY <1>3, CountFirst DEF QuietInv, LaunchOrder
  <2>2. f # "main" => current # Group
    BY <1>3, NotGroupInLoop
  <2> QED  BY <2>1, <2>2 DEF IInv, SchedulerType
<1>6. /\ Held = (IF current \in Pid THEN {current} ELSE {})
      /\ Ready = mainQueue /\ Waiting = waitQueue /\ Given = "stopped"
  BY <1>3, <1>4 DEF Held, Ready, Waiting, Given
<1>7. CASE current \in Pid
  <2>1. KillCont(current)
    BY <1>7, PidFacts DEF Resume
  <2>2. PlacesOf({current}, mainQueue, waitQueue, life, "stopped") /\ life[current] = "stopped"
    BY <1>6, <1>7 DEF QuietInv, Places, PlacesOf
  <2>3. /\ life' = [life EXCEPT ![current] = "running"]
        /\ status' = [status EXCEPT ![current] = "continued"]
        /\ pending' = pending \cup {"SIGCHLD"} /\ life' \in [Pid -> Life]
    BY <1>7, <2>1, <2>2, ContOne
  <2>4. /\ Script' /\ Nesting' /\ Undisturbed' /\ Worker' = f /\ now' = "rearm"
        /\ f # "main" => pc'["main"] = "loop" /\ pc["main"] = "loop"
        /\ pc'[f] = "rearm" /\ pc'["SIGCHLD"] \in {"idle", "rearm"}
    BY <1>1, <1>2, <2>3, GotoKeepsControl
  <2>5. OneReport'
    BY <1>4, <1>7, <2>3, <2>4, ReportMade
  <2>6. Launching' /\ LaunchOrder'
    <3>1. CASE f = "main"
      <4>1. Launching'
        BY <1>1, <1>3, <1>7, <2>2, <2>3, <2>4, <3>1, PidFacts DEF QuietInv, Launching
      <4>2. LaunchOrder'
        BY <1>1, <1>3, <1>7, <2>2, <2>3, <2>4, <3>1 DEF QuietInv, LaunchOrder, queueVars
      <4> QED  BY <4>1, <4>2
    <3>2. CASE f # "main"
      BY <1>1, <1>3, <1>7, <2>2, <2>3, <2>4, <3>2, PidFacts, LaunchingKept
    <3> QED  BY <3>1, <3>2
  <2>7. \A p \in Pid : status'[p] # "exited"
    BY <1>4, <1>7, <2>3 DEF IInv, CallType
  <2>8. Held' = {current} /\ Ready' = mainQueue /\ Waiting' = waitQueue /\ Given' = "running"
    BY <1>1, <1>7, <2>4, <2>7 DEF Held, Ready, Waiting, Given, queueVars
  <2>9. PlacesOf({current}, mainQueue, waitQueue, life', "running")
    BY <1>3, <1>7, <2>2, <2>3, MoveRun
  <2>10. Places'
    BY <2>8, <2>9 DEF Places
  <2>11. CurrentProcess'
    BY <1>1, <1>3, <1>7, <2>4, PidFacts DEF CurrentProcess, queueVars
  <2>12. DoneMeansAllExited'
    BY <1>1, <1>3, <1>7, <2>2, <2>3, DoneKept
  <2> QED  BY <2>4, <2>5, <2>6, <2>10, <2>11, <2>12 DEF QuietInv
<1>8. CASE current \notin Pid
  <2>1. current = None /\ f # "main" /\ NoCall
    BY <1>5, <1>8 DEF Resume
  <2>2. life' = life /\ status' = status /\ pending' = pending
    BY <2>1 DEF NoCall
  <2>3. /\ Script' /\ Nesting' /\ Undisturbed' /\ Worker' = f /\ now' = "rearm"
        /\ pc'["main"] = "loop" /\ pc["main"] = "loop" /\ pc'["SIGCHLD"] # "wait"
    BY <1>1, <1>2, <2>1, <2>2, GotoKeepsControl
  <2>4. OneReport'
    BY <1>3, <1>4, <2>2, <2>3, ReportKept
  <2>5. Launching' /\ LaunchOrder'
    BY <1>1, <2>1, <2>2, <2>3, PidFacts, LaunchingKept
  <2>6. Held' = {} /\ Ready' = mainQueue /\ Waiting' = waitQueue
    BY <1>1, <1>8, <2>3 DEF Held, Ready, Waiting, queueVars
  <2>7. PlacesOf({}, mainQueue, waitQueue, life, Given')
    <3>1. PlacesOf({}, mainQueue, waitQueue, life, "stopped")
      BY <1>6, <1>8 DEF QuietInv, Places
    <3> QED  BY <3>1, MoveNone
  <2>8. Places'
    BY <2>2, <2>6, <2>7 DEF Places
  <2>9. mainQueue = << >>
    BY <1>3, <2>1 DEF QuietInv, CurrentProcess
  <2>10. CurrentProcess'
    BY <1>1, <1>3, <2>3, <2>9 DEF CurrentProcess, queueVars
  <2>11. DoneMeansAllExited'
    BY <1>1, <2>2, DoneKept
  <2> QED  BY <2>3, <2>4, <2>5, <2>8, <2>10, <2>11 DEF QuietInv
<1> QED  BY <1>7, <1>8

LEMMA RearmQuiet ==
  ASSUME IInv, QuietInv, ~Overlap, NEW f \in Frame, Rearm(f)
  PROVE  QuietInv'
<1>1. /\ At(f, "rearm") /\ SetTimer(TRUE) /\ UNCHANGED <<queueVars, current, runningFlag, argi>>
      /\ IF f = "main" THEN Goto(f, "loop") ELSE Return(f)
      /\ "rearm" \in Label \ {"wait"}
  BY DEF Rearm, Label
<1>2. /\ Worker = f /\ now = "rearm" /\ pc[f] = "rearm"
      /\ \A s \in Signal : s # f => pc[s] = "idle"
      /\ "SIGCHLD" \in pending => f = "SIGCHLD"
      /\ mainQueue \in Seq(Pid) /\ waitQueue \in Seq(Pid)
  BY <1>1, AtFacts DEF QuietInv, CurrentProcess
<1>3. \A p \in Pid : status[p] # "exited"
  BY <1>1, AllReported
<1>4. life' = life /\ status' = status /\ pending' = pending
  BY <1>1 DEF SetTimer
<1>5. /\ Script' /\ Nesting' /\ Undisturbed' /\ Worker' = "main" /\ now' = "loop"
      /\ pc'["main"] = "loop" /\ pc'["SIGCHLD"] = "idle"
  <2>1. CASE f = "main"
    <3>1. "loop" \in Lines(f) \ {"idle", "wait"}
      BY <2>1 DEF Lines
    <3> QED  BY <1>1, <1>4, <2>1, <3>1, GotoKeepsControl
  <2>2. CASE f # "main"
    <3>1. f \in Signal /\ Return(f)
      BY <1>1, <2>2, FrameCases
    <3> QED  BY <1>1, <1>4, <3>1, ReturnKeepsControl, FrameCases
  <2> QED  BY <2>1, <2>2
<1>6. OneReport'
  <2>1. pc["SIGCHLD"] # "wait"
    BY <1>2, FrameCases
  <2>2. Told' <=> Told
    BY <1>4, <1>5, <2>1 DEF Told
  <2> QED  BY <1>3, <1>4, <1>5, <2>2 DEF QuietInv, OneReport
<1>7. current \in Pid \cup {None}
  <2>1. CASE f = "main"
    BY <1>2, <2>1, CountFirst DEF QuietInv, LaunchOrder
  <2>2. CASE f # "main"
    <3>1. pc["main"] = "loop"
      BY <1>1, <2>2, AtFacts
    <3> QED  BY <3>1, NotGroupInLoop DEF IInv, SchedulerType
  <2> QED  BY <2>1, <2>2
<1>8. argi = N
  <2>1. pc["main"] \in {"rearm", "loop"}
    BY <1>1, <1>2, AtFacts
  <2> QED  BY <2>1 DEF QuietInv, Launching
<1>9. Launching' /\ LaunchOrder'
  <2>1. Launching'
    BY <1>1, <1>4, <1>5, <1>7, <1>8, PidFacts DEF QuietInv, Launching
  <2> QED  BY <1>5, <2>1 DEF LaunchOrder
<1>10. Held' = Held /\ Ready' = Ready /\ Waiting' = Waiting /\ Given' = Given
  BY <1>1, <1>2, <1>4, <1>5 DEF Held, Ready, Waiting, Given, queueVars
<1>11. Places'
  BY <1>4, <1>10 DEF Places, QuietInv
<1>12. CurrentProcess'
  BY <1>1, <1>2, <1>5 DEF QuietInv, CurrentProcess, queueVars
<1>13. DoneMeansAllExited'
  BY <1>1, <1>4, DoneKept
<1> QED  BY <1>5, <1>6, <1>9, <1>11, <1>12, <1>13 DEF QuietInv

-----------------------------------------------------------------------------
(* childHandler.                                                           *)

LEMMA TestIdleQuiet ==
  ASSUME IInv, QuietInv, ~Overlap, TestIdle
  PROVE  QuietInv'
<1> DEFINE f == "SIGCHLD"
           idle == current = None /\ waitQueue = << >>
           next == IF idle THEN "cancel" ELSE "cont"
<1>1. /\ At(f, "test") /\ Goto(f, next) /\ NoCall /\ UNCHANGED <<queueVars, current, argi>>
      /\ runningFlag' = IF idle THEN FALSE ELSE runningFlag
      /\ f \in Signal /\ "test" \in Label \ {"wait"}
  BY FrameCases DEF TestIdle, Label
<1>2. next \in Lines(f) \ {"idle", "wait"} /\ next \in {"cancel", "cont"}
  BY DEF Lines
<1>3. /\ f \in Frame /\ f # "main" /\ Worker = f /\ now = "test" /\ pc["main"] = "loop"
      /\ current \in Pid \cup {None}
      /\ mainQueue \in Seq(Pid) /\ waitQueue \in Seq(Pid) /\ life \in [Pid -> Life]
      /\ Held = IF current \in Pid THEN {current} ELSE {}
  BY <1>1, HandlerFacts DEF Label
<1>4. (\A p \in Pid : status[p] = "none") /\ "SIGCHLD" \notin pending
  BY <1>1, <1>3, AtFacts, AllReported
<1>5. life' = life /\ status' = status /\ pending' = pending
  BY <1>1 DEF NoCall
<1>6. /\ Script' /\ Nesting' /\ Undisturbed' /\ Worker' = f /\ now' = next
      /\ pc'["main"] = "loop" /\ pc'["SIGCHLD"] # "wait"
  <2> HIDE DEF next
  <2> QED  BY <1>1, <1>2, <1>3, <1>5, GotoKeepsControl
<1>7. OneReport'
  BY <1>4, <1>5, <1>6, ReportKept
<1>8. Launching' /\ LaunchOrder'
  BY <1>1, <1>3, <1>5, <1>6, PidFacts, LaunchingKept
<1>9. Held' = Held /\ Ready' = Ready /\ Waiting' = Waiting /\ Given' = Given
  <2> HIDE DEF next, idle
  <2> QED  BY <1>1, <1>2, <1>3, <1>5, <1>6 DEF Held, Ready, Waiting, Given, queueVars
<1>10. Places'
  BY <1>5, <1>9 DEF Places, QuietInv
<1>11. CurrentProcess'
  <2>1. current = None => mainQueue = << >>
    BY <1>3 DEF QuietInv, CurrentProcess
  <2>2. next = "cancel" => current = None
    OBVIOUS
  <2> HIDE DEF next, idle
  <2> QED  BY <1>1, <1>2, <1>3, <1>6, <2>1, <2>2 DEF CurrentProcess, queueVars
<1>12. DoneMeansAllExited'
  <2>1. CASE idle
    <3>1. Held = {} /\ Ready = << >> /\ Waiting = << >>
      BY <1>3, <2>1, PidFacts DEF QuietInv, CurrentProcess, Ready, Waiting
    <3>2. \A p \in Pid : life[p] \notin {"running", "stopped"}
      BY <3>1, EmptyHasNone DEF QuietInv, Places, PlacesOf
    <3>3. \A p \in Pid : life[p] # "unborn"
      BY <1>3, KernelAssumption DEF QuietInv, Launching, Pid
    <3> QED  BY <1>3, <1>5, <3>2, <3>3 DEF DoneMeansAllExited, Life
  <2>2. CASE ~idle
    BY <1>1, <1>5, <2>2, DoneKept
  <2> QED  BY <2>1, <2>2
<1> QED  BY <1>6, <1>7, <1>8, <1>10, <1>11, <1>12 DEF QuietInv

LEMMA CancelQuiet ==
  ASSUME IInv, QuietInv, ~Overlap, Cancel
  PROVE  QuietInv'
<1> DEFINE f == "SIGCHLD"
<1>1. /\ At(f, "cancel") /\ Return(f) /\ SetTimer(FALSE)
      /\ UNCHANGED <<queueVars, current, runningFlag, argi>>
      /\ f \in Signal /\ "cancel" \in Label \ {"wait"}
  BY FrameCases DEF Cancel, Label
<1>2. /\ f \in Frame /\ f # "main" /\ Worker = f /\ now = "cancel" /\ pc["main"] = "loop"
      /\ mainQueue \in Seq(Pid) /\ waitQueue \in Seq(Pid)
      /\ Held = IF current \in Pid THEN {current} ELSE {}
  BY <1>1, HandlerFacts DEF Label
<1>3. current = None /\ mainQueue = << >> /\ Held = {}
  BY <1>2, PidFacts DEF QuietInv, CurrentProcess
<1>4. (\A p \in Pid : status[p] = "none") /\ "SIGCHLD" \notin pending
  BY <1>1, <1>2, AtFacts, AllReported
<1>5. life' = life /\ status' = status /\ pending' = pending
  BY <1>1 DEF SetTimer
<1>6. /\ Script' /\ Nesting' /\ Undisturbed' /\ Worker' = "main" /\ now' = "loop"
      /\ pc'["main"] = "loop" /\ pc'["SIGCHLD"] # "wait"
  BY <1>1, <1>5, ReturnKeepsControl, FrameCases
<1>7. OneReport'
  BY <1>4, <1>5, <1>6, ReportKept
<1>8. Launching' /\ LaunchOrder'
  BY <1>1, <1>2, <1>3, <1>5, <1>6, PidFacts, LaunchingKept
<1>9. Held' = {} /\ Ready' = mainQueue /\ Waiting' = waitQueue /\ Ready = mainQueue /\ Waiting = waitQueue
  BY <1>1, <1>2, <1>3, <1>6, PidFacts DEF Held, Ready, Waiting, queueVars
<1>10. Places'
  <2>1. PlacesOf({}, mainQueue, waitQueue, life, Given)
    BY <1>3, <1>9 DEF QuietInv, Places
  <2>2. PlacesOf({}, mainQueue, waitQueue, life, Given')
    BY <2>1, MoveNone
  <2> QED  BY <1>5, <1>9, <2>2 DEF Places
<1>11. CurrentProcess'
  BY <1>1, <1>2, <1>3, <1>6 DEF CurrentProcess, queueVars
<1>12. DoneMeansAllExited'
  BY <1>1, <1>5, DoneKept
<1> QED  BY <1>6, <1>7, <1>8, <1>10, <1>11, <1>12 DEF QuietInv

\* waitpid() finds the one change its SIGCHLD stands for.
LEMMA ReapFacts ==
  ASSUME IInv, QuietInv, ~Overlap, NEW exited \in BOOLEAN, Reap(exited)
  PROVE  /\ pending = {} /\ pc["SIGCHLD"] = "wait" /\ pc' \in [Frame -> Label \cup {"idle"}]
         /\ \A g \in Frame : g # "SIGCHLD" => pc'[g] = pc[g]
         /\ \A p \in Pid : status'[p] = "none"
         /\ life' = life /\ pending' = pending
         /\ UNCHANGED <<queueVars, current, runningFlag, argi>>
         /\ IF exited
              THEN /\ current \in Pid /\ status[current] = "exited" /\ life[current] = "exited"
                   /\ Worker = "main" /\ pc["main"] = "loop"
                   /\ pc'["SIGCHLD"] = "pick" /\ stack' = <<"SIGCHLD">>
              ELSE /\ \A p \in Pid : status[p] # "exited"
                   /\ pc'["SIGCHLD"] = "idle"
                   /\ stack' = IF Worker = "main" THEN << >> ELSE <<Worker>>
<1>1. /\ pc["SIGCHLD"] = "wait" /\ \A s \in Signal : Alive /\ s \in pending => pc[s] # "idle"
      /\ Alive /\ WaitPid(exited)
      /\ UNCHANGED <<queueVars, current, runningFlag, argi>>
      /\ IF exited THEN Goto("SIGCHLD", "pick") ELSE Return("SIGCHLD")
  BY DEF Reap, At, Deliverable
<1>2. /\ stack = IF Worker = "main" THEN <<"SIGCHLD">> ELSE <<"SIGCHLD", Worker>>
      /\ stack # << >>
  BY <1>1 DEF QuietInv, Nesting
<1>3. pending = {}
  <2>1. "SIGCHLD" \notin pending
    BY <1>1 DEF QuietInv, OneReport
  <2>2. "SIGALRM" \notin pending /\ "SIGUSR1" \notin pending
    BY <1>2 DEF QuietInv, Undisturbed
  <2> QED  BY <2>1, <2>2 DEF IInv, CallType, Signal
<1>4. /\ life' = life /\ pending' = pending
      /\ \/ \E p \in Pid : /\ status[p] # "none"
                           /\ exited = (status[p] = "exited")
                           /\ status' = [status EXCEPT ![p] = "none"]
         \/ \A p \in Pid : status[p] = "none"
  BY <1>1 DEF WaitPid
<1>5. PICK p \in Pid : status[p] # "none" /\ \A q \in Pid : q # p => status[q] = "none"
  BY <1>1 DEF QuietInv, OneReport, Told
<1>6. exited = (status[p] = "exited") /\ status' = [status EXCEPT ![p] = "none"]
  BY <1>4, <1>5
<1>7. \A q \in Pid : status'[q] = "none"
  BY <1>5, <1>6 DEF IInv, CallType
<1>8. pc \in [Frame -> Label \cup {"idle"}]
  BY DEF IInv, ControlType
<1>9. CASE exited
  <2>1. status[p] = "exited"
    BY <1>6, <1>9
  <2>2. p = current /\ life[p] = "exited" /\ Worker = "main" /\ pc["main"] = "loop"
    BY <2>1 DEF QuietInv, OneReport
  <2>3. pc' = [pc EXCEPT !["SIGCHLD"] = "pick"] /\ stack' = stack
    BY <1>1, <1>9 DEF Goto
  <2>4. /\ pc'["SIGCHLD"] = "pick" /\ \A g \in Frame : g # "SIGCHLD" => pc'[g] = pc[g]
        /\ pc' \in [Frame -> Label \cup {"idle"}]
    BY <1>8, <2>3, FrameCases DEF Label
  <2> QED  BY <1>1, <1>2, <1>3, <1>4, <1>7, <1>9, <2>1, <2>2, <2>3, <2>4
<1>10. CASE ~exited
  <2>1. \A q \in Pid : status[q] # "exited"
    BY <1>5, <1>6, <1>10
  <2>2. pc' = [pc EXCEPT !["SIGCHLD"] = "idle"] /\ stack' = Tail(stack)
    BY <1>1, <1>10 DEF Return
  <2>3. /\ pc'["SIGCHLD"] = "idle" /\ \A g \in Frame : g # "SIGCHLD" => pc'[g] = pc[g]
        /\ pc' \in [Frame -> Label \cup {"idle"}]
    BY <1>8, <2>2, FrameCases
  <2>4. stack' = IF Worker = "main" THEN << >> ELSE <<Worker>>
    BY <1>2, <2>2
  <2> QED  BY <1>1, <1>3, <1>4, <1>7, <1>10, <2>1, <2>3, <2>4
<1> QED  BY <1>9, <1>10

LEMMA ReapQuiet ==
  ASSUME IInv, QuietInv, ~Overlap, NEW exited \in BOOLEAN, Reap(exited)
  PROVE  QuietInv'
<1>1. /\ pending = {} /\ pc["SIGCHLD"] = "wait"
      /\ \A g \in Frame : g # "SIGCHLD" => pc'[g] = pc[g]
      /\ \A p \in Pid : status'[p] = "none"
      /\ life' = life /\ pending' = pending
      /\ UNCHANGED <<queueVars, current, runningFlag, argi>>
  BY ReapFacts
<1>2. pc'["SIGALRM"] = pc["SIGALRM"] /\ pc'["SIGUSR1"] = pc["SIGUSR1"] /\ pc'["main"] = pc["main"]
  BY <1>1, FrameCases
<1>3. Undisturbed'
  BY <1>1 DEF Undisturbed
<1>4. CASE exited
  <2>1. /\ current \in Pid /\ status[current] = "exited" /\ life[current] = "exited"
        /\ Worker = "main" /\ pc["main"] = "loop"
        /\ pc'["SIGCHLD"] = "pick" /\ stack' = <<"SIGCHLD">>
    BY <1>4, ReapFacts
  <2>2. pc["SIGALRM"] = "idle" /\ pc["SIGUSR1"] = "idle" /\ now = "loop"
    BY <2>1 DEF Worker, now
  <2>3. Worker' = "SIGCHLD"
    BY <1>2, <2>1, <2>2 DEF Worker
  <2>4. now' = "pick"
    BY <2>1, <2>3 DEF now
  <2>5. Script'
    BY <1>1, <2>1, FrameCases DEF QuietInv, Script, Lines
  <2>6. Nesting'
    BY <1>2, <2>1, <2>2, <2>3 DEF Nesting
  <2>7. OneReport'
    BY <1>1, <2>1 DEF OneReport, Told
  <2>8. Launching' /\ LaunchOrder'
    BY <1>1, <1>2, <2>1, NotGroupInLoop, LaunchingKept
  <2>9. /\ Held = {} /\ Ready = mainQueue /\ Waiting = waitQueue
        /\ Held' = {} /\ Ready' = mainQueue /\ Waiting' = waitQueue
    BY <1>1, <2>1, <2>2, <2>3, <2>4 DEF Held, Ready, Waiting, queueVars
  <2>10. Places'
    <3>1. PlacesOf({}, mainQueue, waitQueue, life, Given)
      BY <2>9 DEF QuietInv, Places
    <3>2. PlacesOf({}, mainQueue, waitQueue, life, Given')
      BY <3>1, MoveNone
    <3> QED  BY <1>1, <2>9, <3>2 DEF Places
  <2>11. CurrentProcess'
    BY <1>1, <2>3, <2>4 DEF QuietInv, CurrentProcess, queueVars
  <2>12. DoneMeansAllExited'
    BY <1>1, DoneKept
  <2> QED  BY <1>3, <2>5, <2>6, <2>7, <2>8, <2>10, <2>11, <2>12 DEF QuietInv
<1>5. CASE ~exited
  <2>1. /\ \A p \in Pid : status[p] # "exited"
        /\ pc'["SIGCHLD"] = "idle"
        /\ stack' = IF Worker = "main" THEN << >> ELSE <<Worker>>
    BY <1>5, ReapFacts
  <2>2. Worker' = Worker
    BY <1>1, <1>2, <2>1 DEF Worker
  <2>3. now' = now
    <3>1. Worker \in Frame /\ Worker # "SIGCHLD"
      BY <1>1, FrameCases DEF Worker
    <3> QED  BY <1>1, <2>2, <3>1 DEF now
  <2>4. Script'
    BY <1>1, <2>1, FrameCases DEF QuietInv, Script, Lines
  <2>5. Nesting'
    BY <1>2, <2>1, <2>2 DEF QuietInv, Nesting
  <2>6. OneReport'
    BY <1>1, <2>1 DEF OneReport, Told
  <2>7. Launching' /\ LaunchOrder'
    <3>1. Launching'
      BY <1>1, <1>2 DEF QuietInv, Launching
    <3>2. LaunchOrder'
      BY <1>1, <1>2 DEF QuietInv, LaunchOrder, queueVars
    <3> QED  BY <3>1, <3>2
  <2>8. Held' = Held /\ Ready' = Ready /\ Waiting' = Waiting /\ Given' = Given
    BY <1>1, <2>1, <2>2, <2>3 DEF Held, Ready, Waiting, Given, queueVars
  <2>9. Places'
    BY <1>1, <2>8 DEF QuietInv, Places
  <2>10. CurrentProcess'
    BY <1>1, <2>2, <2>3 DEF QuietInv, CurrentProcess, queueVars
  <2>11. DoneMeansAllExited'
    BY <1>1, DoneKept
  <2> QED  BY <1>3, <2>4, <2>5, <2>6, <2>7, <2>9, <2>10, <2>11 DEF QuietInv
<1> QED  BY <1>4, <1>5

-----------------------------------------------------------------------------
(* Interruptions, the timer and the programs.                              *)

LEMMA InterruptQuiet ==
  ASSUME IInv, QuietInv, NEW s \in Signal, Interrupt(s)
  PROVE  QuietInv'
<1>1. /\ s \in pending /\ pc[s] = "idle" /\ pending' = pending \ {s} /\ stack' = <<s>> \o stack
      /\ pc' = [pc EXCEPT ![s] = Entry(s)] /\ pc \in [Frame -> Label \cup {"idle"}]
      /\ life' = life /\ status' = status
      /\ UNCHANGED <<queueVars, current, runningFlag, argi>>
  BY DEF Interrupt, Deliver, Deliverable, IInv, ControlType
<1>2. pc'[s] = Entry(s) /\ \A g \in Frame : g # s => pc'[g] = pc[g]
  BY <1>1, FrameCases
<1>3. DoneMeansAllExited'
  BY <1>1, DoneKept
<1>4. CASE s = "SIGCHLD"
  <2>1. /\ pc'["SIGCHLD"] = "wait" /\ pc'["SIGALRM"] = pc["SIGALRM"] /\ pc'["SIGUSR1"] = pc["SIGUSR1"]
        /\ pc'["main"] = pc["main"] /\ pc["SIGCHLD"] = "idle"
    BY <1>1, <1>2, <1>4, FrameCases DEF Entry
  <2>2. Worker' = Worker /\ Worker # "SIGCHLD"
    BY <2>1 DEF Worker
  <2>3. now' = now
    <3>1. Worker \in Frame
      BY FrameCases DEF Worker
    <3> QED  BY <1>2, <1>4, <2>2, <3>1 DEF now
  <2>4. Script'
    BY <1>2, <1>4, <2>1, FrameCases DEF QuietInv, Script, Lines
  <2>5. Nesting'
    <3>1. stack = IF Worker = "main" THEN << >> ELSE <<Worker>>
      BY <2>1 DEF QuietInv, Nesting
    <3>2. stack' = IF Worker = "main" THEN <<"SIGCHLD">> ELSE <<"SIGCHLD", Worker>>
      BY <1>1, <1>4, <3>1
    <3> QED  BY <2>1, <2>2, <3>2 DEF QuietInv, Nesting
  <2>6. Undisturbed'
    BY <1>1, <1>4 DEF QuietInv, Undisturbed
  <2>7. OneReport'
    BY <1>1, <1>4, <2>1, <2>2 DEF QuietInv, OneReport, Told
  <2>8. Launching' /\ LaunchOrder'
    <3>1. Launching'
      BY <1>1, <2>1 DEF QuietInv, Launching
    <3>2. LaunchOrder'
      BY <1>1, <2>1 DEF QuietInv, LaunchOrder, queueVars
    <3> QED  BY <3>1, <3>2
  <2>9. Held' = Held /\ Ready' = Ready /\ Waiting' = Waiting /\ Given' = Given
    BY <1>1, <2>2, <2>3 DEF Held, Ready, Waiting, Given, queueVars
  <2>10. Places'
    BY <1>1, <2>9 DEF QuietInv, Places
  <2>11. CurrentProcess'
    BY <1>1, <2>2, <2>3 DEF QuietInv, CurrentProcess, queueVars
  <2> QED  BY <1>3, <2>4, <2>5, <2>6, <2>7, <2>8, <2>10, <2>11 DEF QuietInv
<1>5. CASE s # "SIGCHLD"
  <2>1. /\ stack = << >> /\ pc["main"] = "loop" /\ "SIGCHLD" \notin pending
        /\ pending = {s} /\ s \in {"SIGALRM", "SIGUSR1"}
    <3>1. s \in {"SIGALRM", "SIGUSR1"}
      BY <1>5, FrameCases
    <3>2. /\ stack = << >> /\ pc["main"] = "loop" /\ "SIGCHLD" \notin pending
          /\ ~({"SIGALRM", "SIGUSR1"} \subseteq pending)
      BY <1>1, <3>1 DEF QuietInv, Undisturbed
    <3>3. pending \subseteq Signal
      BY DEF IInv, CallType
    <3>4. pending = {s}
      BY <1>1, <3>1, <3>2, <3>3, FrameCases
    <3> QED  BY <3>1, <3>2, <3>4
  <2>2. Worker = "main" /\ pc["SIGCHLD"] # "wait"
    BY <2>1 DEF QuietInv, Nesting
  <2>3. pc["SIGALRM"] = "idle" /\ pc["SIGUSR1"] = "idle" /\ pc["SIGCHLD"] = "idle" /\ now = "loop"
    BY <2>1, <2>2 DEF Worker, now
  <2>4. /\ Entry(s) \in {"wake", "stop"} /\ Entry(s) \in Lines(s) /\ stack' = <<s>> /\ pending' = {}
        /\ pc'["SIGCHLD"] = "idle" /\ pc'["main"] = "loop"
    BY <1>1, <1>2, <2>1, <2>3, FrameCases DEF Entry, Lines
  <2>5. Worker' = s /\ s # "main"
    BY <1>2, <2>1, <2>3, <2>4, FrameCases DEF Worker
  <2>6. now' = Entry(s)
    BY <1>2, <2>5 DEF now
  <2>7. Script'
    BY <1>2, <2>4 DEF QuietInv, Script
  <2>8. Nesting'
    BY <1>2, <2>1, <2>3, <2>4, <2>5, FrameCases DEF Nesting
  <2>9. Undisturbed'
    BY <2>4 DEF Undisturbed
  <2>10. \A p \in Pid : status[p] = "none"
    BY <2>1, <2>2 DEF QuietInv, OneReport, Told
  <2>11. OneReport'
    BY <1>1, <2>4, <2>10, ReportKept
  <2>12. Launching' /\ LaunchOrder'
    BY <1>1, <2>1, <2>4, NotGroupInLoop, LaunchingKept
  <2>13. Held' = Held /\ Ready' = Ready /\ Waiting' = Waiting /\ Given' = Given
    BY <1>1, <2>2, <2>3, <2>4, <2>5, <2>6 DEF Held, Ready, Waiting, Given, queueVars
  <2>14. Places'
    BY <1>1, <2>13 DEF QuietInv, Places
  <2>15. CurrentProcess'
    BY <1>1, <2>2, <2>3, <2>4, <2>5, <2>6 DEF QuietInv, CurrentProcess, queueVars
  <2> QED  BY <1>3, <2>7, <2>8, <2>9, <2>11, <2>12, <2>14, <2>15 DEF QuietInv
<1> QED  BY <1>4, <1>5

\* A quiet moment is the same in every conjunct but the last event.
LEMMA QuietFacts ==
  ASSUME IInv, QuietInv, Quiet
  PROVE  /\ Worker = "main" /\ now = "loop" /\ Told = FALSE
         /\ \A s \in Signal : pc[s] = "idle"
         /\ \A p \in Pid : status[p] = "none"
         /\ Held = {p \in Pid : p = current} /\ Ready = mainQueue /\ Waiting = waitQueue
         /\ Given = "running"
<1>1. stack = << >> /\ pending = {} /\ pc["main"] = "loop"
  BY DEF Quiet
<1>2. Worker = "main" /\ pc["SIGCHLD"] # "wait"
  BY <1>1 DEF QuietInv, Nesting
<1>3. \A s \in Signal : pc[s] = "idle"
  BY <1>2, FrameCases DEF Worker
<1>4. ~Told /\ \A p \in Pid : status[p] = "none"
  BY <1>1, <1>2 DEF Told, QuietInv, OneReport
<1>5. now = "loop"
  BY <1>1, <1>2 DEF now
<1> QED  BY <1>2, <1>3, <1>4, <1>5 DEF Held, Ready, Waiting, Given

LEMMA RaiseQuiet ==
  ASSUME IInv, QuietInv, Quiet, NEW s \in {"SIGALRM", "SIGUSR1"}, pending' = pending \cup {s},
         UNCHANGED <<life, status, stack, pc, queueVars, current, runningFlag, argi>>
  PROVE  QuietInv'
<1>1. stack = << >> /\ pending = {} /\ pc["main"] = "loop"
  BY DEF Quiet
<1>2. Worker' = Worker /\ now' = now
  BY DEF Worker, now
<1>3. Script' /\ Nesting'
  BY <1>2 DEF QuietInv, Script, Nesting
<1>4. Undisturbed'
  BY <1>1 DEF Undisturbed
<1>5. OneReport'
  BY <1>1, <1>2 DEF QuietInv, OneReport, Told
<1>6. Launching' /\ LaunchOrder'
  BY DEF QuietInv, Launching, LaunchOrder, queueVars
<1>7. Held' = Held /\ Ready' = Ready /\ Waiting' = Waiting /\ Given' = Given
  BY <1>2 DEF Held, Ready, Waiting, Given, queueVars
<1>8. Places'
  BY <1>7 DEF QuietInv, Places
<1>9. CurrentProcess' /\ DoneMeansAllExited'
  BY <1>2 DEF QuietInv, CurrentProcess, DoneMeansAllExited, queueVars
<1> QED  BY <1>3, <1>4, <1>5, <1>6, <1>8, <1>9 DEF QuietInv

LEMMA TimerQuiet ==
  ASSUME IInv, QuietInv, ~Overlap, Timer
  PROVE  QuietInv'
BY RaiseQuiet DEF Timer, Tick, Event

LEMMA ExitQuiet ==
  ASSUME IInv, QuietInv, ~Overlap, NEW p \in Pid, Exit(p),
         UNCHANGED <<queueVars, current, runningFlag, argi>>
  PROVE  QuietInv' /\ p = current
<1>1. /\ Quiet /\ life[p] = "running" /\ life' = [life EXCEPT ![p] = "exited"]
      /\ status' = [status EXCEPT ![p] = "exited"] /\ pending' = pending \cup {"SIGCHLD"}
      /\ UNCHANGED <<stack, pc>> /\ pending = {} /\ stack = << >> /\ pc["main"] = "loop"
  BY DEF Exit, Event, Quiet
<1>2. /\ Worker = "main" /\ now = "loop"
      /\ \A s \in Signal : pc[s] = "idle"
      /\ \A q \in Pid : status[q] = "none"
      /\ Held = {q \in Pid : q = current} /\ Ready = mainQueue /\ Waiting = waitQueue
      /\ Given = "running"
  BY <1>1, QuietFacts
<1>3. p \in Held
  BY <1>1 DEF QuietInv, Places, PlacesOf
<1>4. p = current /\ Held = {p}
  BY <1>2, <1>3
<1>5. life \in [Pid -> Life] /\ life' \in [Pid -> Life] /\ life'[p] = "exited"
  BY <1>1 DEF IInv, CallType, Life
<1>6. status'[p] = "exited" /\ \A q \in Pid : q # p => status'[q] = "none"
  BY <1>1, <1>2 DEF IInv, CallType
<1>7. Worker' = Worker /\ now' = now
  BY <1>1 DEF Worker, now
<1>8. Script' /\ Nesting' /\ Undisturbed'
  BY <1>1, <1>7 DEF QuietInv, Script, Nesting, Undisturbed
<1>9. OneReport'
  BY <1>1, <1>2, <1>4, <1>5, <1>6, <1>7, FrameCases DEF OneReport, Told
<1>10. Launching' /\ LaunchOrder'
  BY <1>1, <1>5, NotGroupInLoop, LaunchingKept
<1>11. Held' = {} /\ Ready' = mainQueue /\ Waiting' = waitQueue /\ Given' = "running"
  BY <1>2, <1>4, <1>6, <1>7 DEF Held, Ready, Waiting, Given, queueVars
<1>12. PlacesOf({}, mainQueue, waitQueue, life', "running")
  <2>1. PlacesOf({p}, mainQueue, waitQueue, life, "running")
    BY <1>2, <1>4 DEF QuietInv, Places
  <2> QED  BY <1>1, <1>5, <2>1, MoveExit
<1>13. Places'
  BY <1>11, <1>12 DEF Places
<1>14. CurrentProcess'
  BY <1>7 DEF QuietInv, CurrentProcess, queueVars
<1>15. DoneMeansAllExited'
  BY <1>1, <1>5, DoneKept
<1> QED  BY <1>4, <1>8, <1>9, <1>10, <1>13, <1>14, <1>15 DEF QuietInv

LEMMA ProgramQuiet ==
  ASSUME IInv, QuietInv, ~Overlap, NEW p \in Pid, Program(p)
  PROVE  QuietInv'
<1>1. CASE RequestIO(p)
  BY <1>1, RaiseQuiet DEF RequestIO, Event, Program
<1>2. CASE Exit(p)
  BY <1>2, ExitQuiet DEF Program
<1> QED  BY <1>1, <1>2 DEF Program

-----------------------------------------------------------------------------
(* The inductive invariant, and what follows from it.                      *)

LEMMA InitQuiet ==
  ASSUME Init
  PROVE  QuietInv
<1>1. /\ pc = [f \in Frame |-> IF f = "main" THEN "fork" ELSE "idle"]
      /\ life = [p \in Pid |-> "unborn"] /\ status = [p \in Pid |-> "none"]
      /\ stack = << >> /\ pending = {} /\ mainQueue = << >> /\ waitQueue = << >>
      /\ current = Group /\ runningFlag = TRUE /\ argi = 0
  BY DEF Init, KernelInit
<1>2. /\ pc["main"] = "fork" /\ \A s \in Signal : pc[s] = "idle"
  BY <1>1, FrameCases
<1>3. Worker = "main" /\ now = "fork"
  BY <1>2, FrameCases DEF Worker, now
<1>4. Script
  BY <1>2, FrameCases DEF Script, Lines
<1>5. Nesting /\ Undisturbed
  BY <1>1, <1>2, <1>3, FrameCases DEF Nesting, Undisturbed
<1>6. OneReport
  BY <1>1, <1>2, <1>3, FrameCases DEF OneReport, Told
<1>7. Launching
  BY <1>1, <1>2 DEF Launching, Pid
<1>8. LaunchOrder
  <2>1. Count(0) = << >>
    BY DEF Count
  <2> QED  BY <1>1, <1>2, <2>1 DEF LaunchOrder
<1>9. Held = {} /\ Ready = << >> /\ Waiting = << >>
  BY <1>1, <1>3, PidFacts DEF Held, Ready, Waiting
<1>10. Places
  BY <1>1, <1>9, EmptyHasNone DEF Places, PlacesOf, Once
<1>11. CurrentProcess
  BY <1>1, <1>3, EmptySeq DEF CurrentProcess
<1>12. DoneMeansAllExited
  BY <1>1 DEF DoneMeansAllExited
<1> QED  BY <1>4, <1>5, <1>6, <1>7, <1>8, <1>10, <1>11, <1>12 DEF QuietInv

LEMMA SwapQuiet ==
  ASSUME IInv, QuietInv, ~Overlap, NEW f \in Frame, Swap(f)
  PROVE  QuietInv'
BY SwapFrontQuiet, SwapDequeueQuiet, ResumeQuiet, RearmQuiet DEF Swap

LEMMA NextQuiet ==
  ASSUME IInv, QuietInv, ~Overlap, [Next]_vars
  PROVE  QuietInv'
<1>0. "main" \in Frame /\ "SIGALRM" \in Frame /\ "SIGCHLD" \in Frame /\ "SIGUSR1" \in Frame
  BY FrameCases
<1>1. CASE mainStep
  BY <1>0, <1>1, LaunchQuiet, LaunchStopQuiet, LaunchEnqueueQuiet, LeaveQuiet, SwapQuiet DEF mainStep
<1>2. CASE alarmHandler
  BY <1>0, <1>2, WakeEnqueueQuiet, WakeDequeueQuiet, PreemptQuiet, ParkQuiet, SwapQuiet
  DEF alarmHandler
<1>3. CASE childHandler
  BY <1>0, <1>3, ReapQuiet, TestIdleQuiet, CancelQuiet, SwapQuiet DEF childHandler
<1>4. CASE ioStartedHandler
  BY <1>0, <1>4, PreemptQuiet, ParkQuiet, SwapQuiet DEF ioStartedHandler
<1>5. CASE \E s \in Signal : Interrupt(s)
  BY <1>5, InterruptQuiet
<1>6. CASE Timer
  BY <1>6, TimerQuiet
<1>7. CASE \E p \in Pid : Program(p)
  BY <1>7, ProgramQuiet
<1>8. CASE UNCHANGED vars
  <2>1. UNCHANGED <<life, status, pending, stack, pc, queueVars, current, runningFlag, argi>>
    BY <1>8 DEF vars, kernelVars
  <2>2. Worker' = Worker /\ now' = now
    BY <2>1 DEF Worker, now
  <2>3. Held' = Held /\ Ready' = Ready /\ Waiting' = Waiting /\ Given' = Given
    BY <2>1, <2>2 DEF Held, Ready, Waiting, Given, queueVars
  <2>4. Script' /\ Nesting' /\ Undisturbed' /\ OneReport'
    BY <2>1, <2>2 DEF QuietInv, Script, Nesting, Undisturbed, OneReport, Told
  <2>5. Launching' /\ LaunchOrder' /\ Places'
    BY <2>1, <2>3 DEF QuietInv, Launching, LaunchOrder, Places, queueVars
  <2>6. CurrentProcess' /\ DoneMeansAllExited'
    BY <2>1, <2>2 DEF QuietInv, CurrentProcess, DoneMeansAllExited, queueVars
  <2> QED  BY <2>4, <2>5, <2>6 DEF QuietInv
<1> QED  BY <1>1, <1>2, <1>3, <1>4, <1>5, <1>6, <1>7, <1>8 DEF Next, Scheduler

LEMMA QuietInvariant ==
  ASSUME ~Overlap
  PROVE  Spec => [](IInv /\ QuietInv)
<1>1. Init => IInv /\ QuietInv
  BY InitInv, InitQuiet
<1>2. IInv /\ QuietInv /\ [Next]_vars => (IInv /\ QuietInv)'
  BY NextInv, NextQuiet
<1> QED  BY <1>1, <1>2, PTL DEF Spec

\* When no handler of T1/SchedulerRR.c is interrupted, the process that has the CPU
\* between two signals is the one in `current', however many programs there are and
\* whatever I/O they start, and the CPU is idle only when the ready queue is empty.
THEOREM CurrentHasTheCPU ==
  ASSUME ~Overlap
  PROVE  Spec => []OnlyCurrentRuns
<1>1. IInv /\ QuietInv => OnlyCurrentRuns
  <2> SUFFICES ASSUME IInv, QuietInv, Quiet
               PROVE  /\ \A p \in Pid : (life[p] = "running") <=> (p = current)
                      /\ current = None => mainQueue = << >>
    BY DEF OnlyCurrentRuns
  <2>1. /\ Worker = "main" /\ now = "loop" /\ Given = "running"
        /\ Held = {p \in Pid : p = current}
    BY QuietFacts
  <2>2. \A p \in Pid : (life[p] = "running") <=> (p = current)
    BY <2>1 DEF QuietInv, Places, PlacesOf
  <2> QED  BY <2>1, <2>2 DEF QuietInv, CurrentProcess
<1> QED  BY <1>1, QuietInvariant, PTL

\* When no handler of T1/SchedulerRR.c is interrupted, childHandler clears
\* runningFlag only when every program has exited: none is left in the wait queue.
THEOREM DoneIsDone ==
  ASSUME ~Overlap
  PROVE  Spec => []DoneMeansAllExited
<1>1. IInv /\ QuietInv => DoneMeansAllExited
  BY DEF QuietInv
<1> QED  BY <1>1, QuietInvariant, PTL

\* When no handler of T1/SchedulerRR.c is interrupted, childHandler takes the exit
\* branch only for the process in `current', which has exited and which waitpid()
\* has just reported.
THEOREM ExitsAreOfCurrent ==
  ASSUME ~Overlap
  PROVE  Spec => ExitReport
<1>1. IInv /\ QuietInv /\ [Next]_vars =>
        [Reap(TRUE) => /\ current \in Pid
                       /\ status[current] = "exited" /\ status'[current] = "none"]_vars
  BY ReapFacts
<1> QED  BY <1>1, QuietInvariant, PTL DEF Spec, ExitReport

-----------------------------------------------------------------------------
(* SchedulerRRView: every cascade of handlers is a step of RoundRobin.     *)

\* The first snapshot, and the processes that are done.
First == [cpu |-> <<1>>, ready |-> [i \in 1 .. N - 1 |-> i + 1], waiting |-> << >>, finished |-> {}]
Gone == {p \in Pid : life[p] = "exited"}

\* What the queues and `current' are at each statement, seen from the last quiet
\* moment: Is(c, r, w) once a process is chosen, Has(r, w) before that.
Has(r, w)   == Ready = r /\ Waiting = w
Is(c, r, w) == InProgram(current) = c /\ Has(r, w)

Sliced == (seen.ready \o Abstract!Take(seen.waiting)) \o seen.cpu

AlarmProgress ==
  /\ now = "wake" => Is(seen.cpu, seen.ready, seen.waiting)
  /\ now \in {"unwait", "stop", "enq"} =>
       Is(seen.cpu, seen.ready \o Abstract!Take(seen.waiting), Abstract!Drop(seen.waiting))
  /\ now = "pick" => Has(Sliced, Abstract!Drop(seen.waiting))
  /\ now \in {"deq", "cont", "rearm"} =>
       Is(Abstract!Take(Sliced), Abstract!Drop(Sliced), Abstract!Drop(seen.waiting))
  /\ Gone = seen.finished

IOProgress ==
  /\ seen.cpu # << >>
  /\ now \in {"stop", "enq"} => Is(seen.cpu, seen.ready, seen.waiting)
  /\ now = "pick" => Has(seen.ready, seen.waiting \o seen.cpu)
  /\ now \in {"deq", "cont", "rearm"} =>
       Is(Abstract!Take(seen.ready), Abstract!Drop(seen.ready), seen.waiting \o seen.cpu)
  /\ Gone = seen.finished

Finished == seen.cpu # << >> /\ Gone = seen.finished \cup {seen.cpu[1]}

ChildProgress ==
  /\ Finished
  /\ now = "pick" => Has(seen.ready, seen.waiting)
  /\ now # "pick" => Is(Abstract!Take(seen.ready), Abstract!Drop(seen.ready), seen.waiting)

\* main(): before its loop, in its loop with nothing to report, and with the exit
\* of `current' or the continuation after it to report.
MainProgress ==
  /\ pc["main"] \notin {"loop", "done"} => seen = First
  /\ pc["main"] \in {"loop", "done"} /\ ~Told => seen = Snapshot
  /\ pc["main"] \in {"loop", "done"} /\ Told => Finished
  /\ pc["main"] \in {"loop", "done"} /\ (\E p \in Pid : status[p] = "exited") =>
       Is(seen.cpu, seen.ready, seen.waiting)
  /\ pc["main"] \in {"loop", "done"} /\ Told /\ (\A p \in Pid : status[p] # "exited") =>
       Is(Abstract!Take(seen.ready), Abstract!Drop(seen.ready), seen.waiting)

SeenType == seen.cpu \in Seq(Pid) /\ seen.ready \in Seq(Pid) /\ seen.waiting \in Seq(Pid)

Progress ==
  /\ SeenType
  /\ Worker = "main" => MainProgress
  /\ Worker = "SIGALRM" => AlarmProgress
  /\ Worker = "SIGUSR1" => IOProgress
  /\ Worker = "SIGCHLD" => ChildProgress
  /\ "SIGUSR1" \in pending => current # None


LEMMA TakeDrop ==
  ASSUME NEW q \in Seq(Pid)
  PROVE  /\ Abstract!Take(q) = InProgram(Front(q)) /\ Abstract!Drop(q) = Dequeue(q)
         /\ Abstract!Take(q) \in Seq(Pid) /\ Abstract!Drop(q) \in Seq(Pid)
<1>1. CASE q = << >>
  <2>1. Abstract!Take(q) = << >>
    BY <1>1 DEF Abstract!Take
  <2>2. Abstract!Drop(q) = << >>
    BY <1>1, <2>1 DEF Abstract!Drop
  <2> QED  BY <1>1, <2>1, <2>2, EmptySeq DEF InProgram, Front, Dequeue
<1>2. CASE q # << >>
  <2>1. Len(q) \in Nat \ {0} /\ Head(q) = q[1] /\ q[1] \in Pid
    BY <1>2, EmptySeq
  <2>2. Abstract!Take(q) = <<q[1]>>
    <3>1. Abstract!Take(q) = SubSeq(q, 1, 1)
      BY <1>2 DEF Abstract!Take
    <3>2. SubSeq(q, 1, 1) \in Seq(Pid) /\ Len(SubSeq(q, 1, 1)) = 1 /\ SubSeq(q, 1, 1)[1] = q[1]
      BY <2>1, SubSeqProperties
    <3>3. <<q[1]>> \in Seq(Pid) /\ Len(<<q[1]>>) = 1 /\ <<q[1]>>[1] = q[1]
      BY <2>1
    <3>4. SubSeq(q, 1, 1) = <<q[1]>>
      <4> DEFINE x == SubSeq(q, 1, 1)
                 y == <<q[1]>>
      <4>1. x \in Seq(Pid) /\ y \in Seq(Pid) /\ Len(x) = Len(y)
        BY <3>2, <3>3
      <4>2. \A i \in 1 .. Len(x) : x[i] = y[i]
        BY <3>2, <3>3
      <4> HIDE DEF x, y
      <4>3. x = y
        BY <4>1, <4>2, SeqEqual
      <4> QED  BY <4>3 DEF x, y
    <3> QED  BY <3>1, <3>4
  <2>3. Abstract!Drop(q) = Tail(q)
    BY <1>2, <2>1, <2>2, TailIsSubSeq DEF Abstract!Drop
  <2>4. Tail(q) \in Seq(Pid)
    BY <1>2, HeadTailProperties
  <2> QED  BY <1>2, <2>1, <2>2, <2>3, <2>4, PidFacts DEF InProgram, Front, Dequeue
<1> QED  BY <1>1, <1>2

LEMMA InProgramType ==
  ASSUME NEW p \in Pid \cup {None}
  PROVE  InProgram(p) \in Seq(Pid) /\ (InProgram(p) = << >> <=> p = None)
BY EmptySeq, PidFacts DEF InProgram

\* No handler in progress means a quiet moment, and only that.
LEMMA Busy ==
  ASSUME QuietInv', Worker' # "main" \/ pc'["main"] # "loop" \/ pending' # {} \/ stack' # << >>
  PROVE  ~Quiet'
<1>1. Worker' # "main" => stack' # << >>
  BY DEF QuietInv, Nesting
<1> QED  BY <1>1 DEF Quiet

LEMMA CallKeepsGone ==
  ASSUME IInv, NEW pid, NEW on, KillStop(pid) \/ KillCont(pid) \/ NoCall \/ SetTimer(on)
  PROVE  Gone' = Gone /\ pending' \subseteq pending \cup {"SIGCHLD"}
<1>1. ASSUME NEW from \in {"running", "stopped"}, NEW to \in {"running", "stopped"}, NEW report,
             Shift(pid, from, to, report)
      PROVE  Gone' = Gone /\ pending' \subseteq pending \cup {"SIGCHLD"}
  BY <1>1 DEF Shift, Gone
<1>2. CASE KillStop(pid)
  BY <1>1, <1>2 DEF KillStop
<1>3. CASE KillCont(pid)
  BY <1>1, <1>3 DEF KillCont
<1>4. CASE NoCall \/ SetTimer(on)
  BY <1>4 DEF NoCall, SetTimer, Gone
<1> QED  BY <1>2, <1>3, <1>4

\* A statement of a handler that is not its last: what it does to the view.
LEMMA ViewGoto ==
  ASSUME IInv, QuietInv, QuietInv', ~Overlap, Progress, seen' = IF Quiet' THEN Snapshot' ELSE seen,
         NEW f \in Signal, NEW label \in Label \ {"wait"}, At(f, label),
         NEW next \in Lines(f) \ {"idle", "wait"}, Goto(f, next),
         NEW pid, KillStop(pid) \/ KillCont(pid) \/ NoCall
  PROVE  /\ Worker = f /\ now = label /\ Worker' = f /\ now' = next
         /\ seen' = seen /\ Gone' = Gone
         /\ \/ f = "SIGALRM" /\ AlarmProgress /\ (AlarmProgress' => Progress')
            \/ f = "SIGUSR1" /\ IOProgress /\ (IOProgress' => Progress')
            \/ f = "SIGCHLD" /\ ChildProgress /\ (ChildProgress' => Progress')
         /\ mainQueue \in Seq(Pid) /\ waitQueue \in Seq(Pid)
         /\ current \in Pid \cup {None}
<1>1. Gone' = Gone /\ pending' \subseteq pending \cup {"SIGCHLD"}
  BY CallKeepsGone
<1>2. f \in Frame /\ f # "main"
  BY FrameCases
<1>3. Worker = f /\ now = label /\ pending \subseteq {"SIGCHLD"} /\ pc["main"] = "loop"
  BY <1>2, AtFacts
<1>4. Worker' = f /\ now' = next
  BY <1>1, <1>2, GotoKeepsControl
<1>5. ~Quiet' /\ seen' = seen
  BY <1>2, <1>4, Busy
<1>6. SeenType'
  BY <1>5 DEF SeenType, Progress
<1>7. "SIGUSR1" \notin pending'
  BY <1>1, <1>3
<1>8. f \in {"SIGALRM", "SIGUSR1", "SIGCHLD"}
  BY FrameCases
<1>9. \/ f = "SIGALRM" /\ AlarmProgress /\ (AlarmProgress' => Progress')
      \/ f = "SIGUSR1" /\ IOProgress /\ (IOProgress' => Progress')
      \/ f = "SIGCHLD" /\ ChildProgress /\ (ChildProgress' => Progress')
  BY <1>3, <1>4, <1>6, <1>7, <1>8 DEF Progress
<1>10. current \in Pid \cup {None}
  BY <1>3, NotGroupInLoop DEF IInv, SchedulerType
<1> QED  BY <1>1, <1>3, <1>4, <1>5, <1>9, <1>10 DEF QuietInv, CurrentProcess

\* The statements of main() before its loop.
LEMMA ViewLaunch ==
  ASSUME IInv, QuietInv, QuietInv', ~Overlap, Progress, seen' = IF Quiet' THEN Snapshot' ELSE seen,
         NEW label \in Label \ {"wait"}, At("main", label), label # "loop",
         NEW next \in Lines("main") \ {"idle", "wait", "loop", "done"}, Goto("main", next),
         pending' \subseteq pending \cup {"SIGCHLD"}
  PROVE  Progress' /\ seen' = seen
<1>1. "main" \in Frame
  BY FrameCases
<1>2. Worker = "main" /\ now = label /\ pending \subseteq {"SIGCHLD"} /\ pc["main"] = label
  BY <1>1, AtFacts
<1>3. Worker' = "main" /\ now' = next /\ pc'["main"] = next
  BY <1>1, GotoKeepsControl
<1>4. ~Quiet' /\ seen' = seen
  BY <1>3, Busy
<1>5. label # "done"
  BY <1>2 DEF At, Alive
<1>6. seen = First
  BY <1>2, <1>5 DEF Progress, MainProgress
<1>7. MainProgress'
  BY <1>3, <1>4, <1>6 DEF MainProgress, First
<1> QED  BY <1>2, <1>3, <1>4, <1>7 DEF Progress, SeenType

LEMMA PreemptView ==
  ASSUME IInv, QuietInv, QuietInv', ~Overlap, Progress, seen' = IF Quiet' THEN Snapshot' ELSE seen,
         NEW f \in {"SIGALRM", "SIGUSR1"}, Preempt(f)
  PROVE  Progress' /\ seen' = seen
<1> DEFINE next == IF current # None THEN "enq" ELSE "pick"
<1>1. /\ At(f, "stop") /\ Goto(f, next) /\ (KillStop(current) \/ NoCall)
      /\ UNCHANGED <<queueVars, current>>
      /\ f \in Signal /\ "stop" \in Label \ {"wait"}
  BY FrameCases DEF Preempt, Label
<1>2. next \in Lines(f) \ {"idle", "wait"}
  BY DEF Lines
<1>3. next = (IF current = None THEN "pick" ELSE "enq")
  OBVIOUS
<1> HIDE DEF next
<1>4. /\ now = "stop" /\ now' = next /\ seen' = seen /\ Gone' = Gone
      /\ \/ f = "SIGALRM" /\ AlarmProgress /\ (AlarmProgress' => Progress')
         \/ f = "SIGUSR1" /\ IOProgress /\ (IOProgress' => Progress')
         \/ f = "SIGCHLD" /\ ChildProgress /\ (ChildProgress' => Progress')
      /\ mainQueue \in Seq(Pid) /\ waitQueue \in Seq(Pid)
      /\ current \in Pid \cup {None}
  BY <1>1, <1>2, ViewGoto
<1>5. /\ Ready = mainQueue /\ Waiting = waitQueue /\ current' = current
      /\ Ready' = mainQueue /\ Waiting' = waitQueue
  BY <1>1, <1>3, <1>4 DEF Ready, Waiting, queueVars
<1>6. CASE f = "SIGALRM"
  <2>1. Is(seen.cpu, seen.ready \o Abstract!Take(seen.waiting), Abstract!Drop(seen.waiting)) /\ Gone = seen.finished
    BY <1>4, <1>6 DEF AlarmProgress
  <2>2. CASE current = None
    <3>1. seen.cpu = << >>
      BY <2>1, <2>2 DEF Is, InProgram
    <3>2. Sliced = mainQueue
      BY <1>4, <1>5, <2>1, <3>1, ConcatEmptySeq DEF Is, Has, Sliced
    <3>3. Sliced' = Sliced
      BY <1>4 DEF Sliced
    <3> QED  BY <1>3, <1>4, <1>5, <1>6, <2>1, <2>2, <3>2, <3>3 DEF AlarmProgress, Is, Has
  <2>3. CASE current # None
    BY <1>3, <1>4, <1>5, <1>6, <2>1, <2>3 DEF AlarmProgress, Is, Has
  <2> QED  BY <2>2, <2>3
<1>7. CASE f = "SIGUSR1"
  <2>1. Is(seen.cpu, seen.ready, seen.waiting) /\ seen.cpu # << >> /\ Gone = seen.finished
    BY <1>4, <1>7 DEF IOProgress
  <2>2. current # None
    BY <2>1 DEF Is, InProgram
  <2> QED  BY <1>3, <1>4, <1>5, <1>7, <2>1, <2>2 DEF IOProgress, Is, Has
<1> QED  BY <1>6, <1>7

LEMMA ParkView ==
  ASSUME IInv, QuietInv, QuietInv', ~Overlap, Progress, seen' = IF Quiet' THEN Snapshot' ELSE seen,
         NEW f \in {"SIGALRM", "SIGUSR1"}, Park(f)
  PROVE  Progress' /\ seen' = seen
<1>1. /\ At(f, "enq") /\ Goto(f, "pick") /\ NoCall /\ UNCHANGED current
      /\ f \in Signal /\ "enq" \in Label \ {"wait"} /\ "pick" \in Lines(f) \ {"idle", "wait"}
  BY FrameCases DEF Park, Label, Lines
<1>2. /\ Worker = f /\ now = "enq" /\ now' = "pick" /\ seen' = seen /\ Gone' = Gone
      /\ \/ f = "SIGALRM" /\ AlarmProgress /\ (AlarmProgress' => Progress')
         \/ f = "SIGUSR1" /\ IOProgress /\ (IOProgress' => Progress')
         \/ f = "SIGCHLD" /\ ChildProgress /\ (ChildProgress' => Progress')
      /\ mainQueue \in Seq(Pid) /\ waitQueue \in Seq(Pid)
  BY <1>1, ViewGoto
<1>3. current \in Pid /\ current # None
  BY <1>1, <1>2, FrameCases, PidFacts DEF QuietInv, CurrentProcess
<1>4. InProgram(current) = <<current>>
  BY <1>3 DEF InProgram
<1>5. Ready = mainQueue /\ Waiting = waitQueue /\ Ready' = mainQueue' /\ Waiting' = waitQueue'
  BY <1>2 DEF Ready, Waiting
<1>6. CASE f = "SIGALRM"
  <2>1. Is(seen.cpu, seen.ready \o Abstract!Take(seen.waiting), Abstract!Drop(seen.waiting)) /\ Gone = seen.finished
    BY <1>2, <1>6 DEF AlarmProgress
  <2>2. mainQueue' = mainQueue \o <<current>> /\ waitQueue' = waitQueue
    BY <1>2, <1>3, <1>6, AppendIsConcat DEF Park
  <2>3. Sliced = mainQueue'
    BY <1>4, <1>5, <2>1, <2>2 DEF Is, Has, Sliced
  <2>4. Sliced' = Sliced
    BY <1>2 DEF Sliced
  <2> QED  BY <1>2, <1>5, <1>6, <2>1, <2>2, <2>3, <2>4 DEF AlarmProgress, Is, Has
<1>7. CASE f = "SIGUSR1"
  <2>1. Is(seen.cpu, seen.ready, seen.waiting) /\ seen.cpu # << >> /\ Gone = seen.finished
    BY <1>2, <1>7 DEF IOProgress
  <2>2. waitQueue' = waitQueue \o <<current>> /\ mainQueue' = mainQueue
    BY <1>2, <1>3, <1>7, AppendIsConcat DEF Park
  <2>3. Has(seen.ready, seen.waiting \o seen.cpu)'
    BY <1>2, <1>4, <1>5, <2>1, <2>2 DEF Is, Has
  <2> QED  BY <1>2, <1>7, <2>1, <2>3 DEF IOProgress
<1> QED  BY <1>6, <1>7

LEMMA SwapFrontView ==
  ASSUME IInv, QuietInv, QuietInv', ~Overlap, Progress, seen' = IF Quiet' THEN Snapshot' ELSE seen,
         NEW f \in Signal, SwapFront(f)
  PROVE  Progress' /\ seen' = seen
<1>1. /\ At(f, "pick") /\ Goto(f, "deq") /\ NoCall /\ current' = Front(mainQueue) /\ UNCHANGED queueVars
      /\ "pick" \in Label \ {"wait"} /\ "deq" \in Lines(f) \ {"idle", "wait"}
  BY FrameCases DEF SwapFront, Label, Lines
<1>2. /\ now = "pick" /\ now' = "deq" /\ seen' = seen /\ Gone' = Gone
      /\ \/ f = "SIGALRM" /\ AlarmProgress /\ (AlarmProgress' => Progress')
         \/ f = "SIGUSR1" /\ IOProgress /\ (IOProgress' => Progress')
         \/ f = "SIGCHLD" /\ ChildProgress /\ (ChildProgress' => Progress')
      /\ mainQueue \in Seq(Pid) /\ waitQueue \in Seq(Pid)
  BY <1>1, ViewGoto
<1>3. Ready = mainQueue /\ Waiting = waitQueue /\ Ready' = Dequeue(mainQueue) /\ Waiting' = waitQueue
  BY <1>1, <1>2 DEF Ready, Waiting, queueVars
<1>4. InProgram(current') = Abstract!Take(mainQueue) /\ Dequeue(mainQueue) = Abstract!Drop(mainQueue)
  BY <1>1, <1>2, TakeDrop
<1>5. CASE f = "SIGALRM"
  <2>1. Has(Sliced, Abstract!Drop(seen.waiting)) /\ Gone = seen.finished
    BY <1>2, <1>5 DEF AlarmProgress
  <2>2. Sliced' = Sliced
    BY <1>2 DEF Sliced
  <2>3. Is(Abstract!Take(Sliced), Abstract!Drop(Sliced), Abstract!Drop(seen.waiting))'
    BY <1>2, <1>3, <1>4, <2>1, <2>2 DEF Is, Has
  <2> QED  BY <1>2, <1>5, <2>1, <2>3 DEF AlarmProgress
<1>6. CASE f = "SIGUSR1"
  <2>1. Has(seen.ready, seen.waiting \o seen.cpu) /\ seen.cpu # << >> /\ Gone = seen.finished
    BY <1>2, <1>6 DEF IOProgress
  <2>2. Is(Abstract!Take(seen.ready), Abstract!Drop(seen.ready), seen.waiting \o seen.cpu)'
    BY <1>2, <1>3, <1>4, <2>1 DEF Is, Has
  <2> QED  BY <1>2, <1>6, <2>1, <2>2 DEF IOProgress
<1>7. CASE f = "SIGCHLD"
  <2>1. Has(seen.ready, seen.waiting) /\ Finished
    BY <1>2, <1>7 DEF ChildProgress
  <2>2. Is(Abstract!Take(seen.ready), Abstract!Drop(seen.ready), seen.waiting)'
    BY <1>2, <1>3, <1>4, <2>1 DEF Is, Has
  <2>3. Finished'
    BY <1>2, <2>1 DEF Finished
  <2> QED  BY <1>2, <1>7, <2>2, <2>3 DEF ChildProgress
<1> QED  BY <1>2, <1>5, <1>6, <1>7

\* The statements that do not change where the handler is in the view.
LEMMA SameView ==
  ASSUME IInv, QuietInv, QuietInv', ~Overlap, Progress, seen' = IF Quiet' THEN Snapshot' ELSE seen,
         NEW f \in Signal, NEW label \in Label \ {"wait"}, At(f, label),
         NEW next \in Lines(f) \ {"idle", "wait"}, Goto(f, next),
         NEW pid, KillStop(pid) \/ KillCont(pid) \/ NoCall,
         current' = current, Ready' = Ready, Waiting' = Waiting,
         \/ label \in {"deq", "cont", "rearm"} /\ next \in {"deq", "cont", "rearm"}
         \/ f = "SIGCHLD" /\ label # "pick" /\ next # "pick"
         \/ f = "SIGALRM" /\ label \in {"unwait", "stop", "enq"} /\ next \in {"unwait", "stop", "enq"}
  PROVE  Progress' /\ seen' = seen
<1>1. /\ now = label /\ now' = next /\ seen' = seen /\ Gone' = Gone
      /\ \/ f = "SIGALRM" /\ AlarmProgress /\ (AlarmProgress' => Progress')
         \/ f = "SIGUSR1" /\ IOProgress /\ (IOProgress' => Progress')
         \/ f = "SIGCHLD" /\ ChildProgress /\ (ChildProgress' => Progress')
  BY ViewGoto
<1>2. Sliced' = Sliced
  BY <1>1 DEF Sliced
<1>3. CASE f = "SIGALRM"
  <2>1. AlarmProgress'
    BY <1>1, <1>2, <1>3 DEF AlarmProgress, Is, Has
  <2> QED  BY <1>1, <1>3, <2>1
<1>4. CASE f = "SIGUSR1"
  <2>1. IOProgress'
    BY <1>1, <1>4 DEF IOProgress, Is, Has
  <2> QED  BY <1>1, <1>4, <2>1
<1>5. CASE f = "SIGCHLD"
  <2>1. ChildProgress'
    BY <1>1, <1>5 DEF ChildProgress, Finished, Is, Has
  <2> QED  BY <1>1, <1>5, <2>1
<1> QED  BY <1>1, <1>3, <1>4, <1>5

LEMMA SwapDequeueView ==
  ASSUME IInv, QuietInv, QuietInv', ~Overlap, Progress, seen' = IF Quiet' THEN Snapshot' ELSE seen,
         NEW f \in Signal, SwapDequeue(f)
  PROVE  Progress' /\ seen' = seen
<1> DEFINE next == IF f = "SIGCHLD" THEN "test" ELSE "cont"
<1>1. /\ At(f, "deq") /\ Goto(f, next) /\ NoCall /\ mainQueue' = Dequeue(mainQueue)
      /\ UNCHANGED <<waitQueue, current>> /\ "deq" \in Label \ {"wait"}
  BY DEF SwapDequeue, Label
<1>2. /\ next \in Lines(f) \ {"idle", "wait"}
      /\ next \notin {"deq", "unwait", "pick"}
      /\ (next \in {"deq", "cont", "rearm"} \/ f = "SIGCHLD")
  BY FrameCases DEF Lines
<1> HIDE DEF next
<1>3. now = "deq" /\ now' = next
  BY <1>1, <1>2, ViewGoto
<1>4. Ready' = Ready /\ Waiting' = Waiting
  BY <1>1, <1>2, <1>3 DEF Ready, Waiting
<1> QED  BY <1>1, <1>2, <1>4, SameView

LEMMA ResumeView ==
  ASSUME IInv, QuietInv, QuietInv', ~Overlap, Progress, seen' = IF Quiet' THEN Snapshot' ELSE seen,
         NEW f \in Signal, Resume(f)
  PROVE  Progress' /\ seen' = seen
<1>1. /\ At(f, "cont") /\ Goto(f, "rearm") /\ (KillCont(current) \/ NoCall)
      /\ UNCHANGED <<queueVars, current>>
      /\ "cont" \in Label \ {"wait"} /\ "rearm" \in Lines(f) \ {"idle", "wait"}
  BY FrameCases DEF Resume, Label, Lines
<1>2. now = "cont" /\ now' = "rearm"
  BY <1>1, ViewGoto
<1>3. Ready' = Ready /\ Waiting' = Waiting
  BY <1>1, <1>2 DEF Ready, Waiting, queueVars
<1> QED  BY <1>1, <1>3, SameView

LEMMA TestIdleView ==
  ASSUME IInv, QuietInv, QuietInv', ~Overlap, Progress, seen' = IF Quiet' THEN Snapshot' ELSE seen,
         TestIdle
  PROVE  Progress' /\ seen' = seen
<1>1. PICK next \in {"cancel", "cont"} : Goto("SIGCHLD", next)
  BY DEF TestIdle
<1>2. /\ At("SIGCHLD", "test") /\ NoCall /\ UNCHANGED <<queueVars, current>>
      /\ "test" \in Label \ {"wait"} /\ next \in Lines("SIGCHLD") \ {"idle", "wait"}
      /\ "SIGCHLD" \in Signal
  BY FrameCases DEF TestIdle, Label, Lines
<1>3. now = "test" /\ now' = next
  BY <1>1, <1>2, ViewGoto
<1>4. Ready' = Ready /\ Waiting' = Waiting
  BY <1>2, <1>3 DEF Ready, Waiting, queueVars
<1> QED  BY <1>1, <1>2, <1>4, SameView

LEMMA WakeDequeueView ==
  ASSUME IInv, QuietInv, QuietInv', ~Overlap, Progress, seen' = IF Quiet' THEN Snapshot' ELSE seen,
         WakeDequeue
  PROVE  Progress' /\ seen' = seen
<1>1. /\ At("SIGALRM", "unwait") /\ Goto("SIGALRM", "stop") /\ NoCall
      /\ UNCHANGED <<mainQueue, current>> /\ waitQueue' = Dequeue(waitQueue)
      /\ "unwait" \in Label \ {"wait"} /\ "stop" \in Lines("SIGALRM") \ {"idle", "wait"}
      /\ "SIGALRM" \in Signal
  BY FrameCases DEF WakeDequeue, Label, Lines
<1>2. now = "unwait" /\ now' = "stop"
  BY <1>1, ViewGoto
<1>3. Ready' = Ready /\ Waiting' = Waiting
  BY <1>1, <1>2 DEF Ready, Waiting
<1> QED  BY <1>1, <1>3, SameView

LEMMA WakeEnqueueView ==
  ASSUME IInv, QuietInv, QuietInv', ~Overlap, Progress, seen' = IF Quiet' THEN Snapshot' ELSE seen,
         WakeEnqueue
  PROVE  Progress' /\ seen' = seen
<1>1. PICK next \in {"unwait", "stop"} :
        /\ Goto("SIGALRM", next)
        /\ next = (IF waitQueue # << >> THEN "unwait" ELSE "stop")
  BY DEF WakeEnqueue
<1>2. /\ At("SIGALRM", "wake") /\ NoCall /\ UNCHANGED <<waitQueue, current>>
      /\ mainQueue' = IF waitQueue # << >> THEN Append(mainQueue, Front(waitQueue)) ELSE mainQueue
      /\ "wake" \in Label \ {"wait"} /\ next \in Lines("SIGALRM") \ {"idle", "wait"}
      /\ "SIGALRM" \in Signal
  BY FrameCases DEF WakeEnqueue, Label, Lines
<1>3. /\ now = "wake" /\ now' = next /\ seen' = seen /\ Gone' = Gone
      /\ AlarmProgress /\ (AlarmProgress' => Progress')
      /\ mainQueue \in Seq(Pid) /\ waitQueue \in Seq(Pid)
  BY <1>1, <1>2, ViewGoto
<1>4. Is(seen.cpu, seen.ready, seen.waiting) /\ Gone = seen.finished
  BY <1>3 DEF AlarmProgress
<1>5. Ready = mainQueue /\ Waiting = waitQueue /\ Ready' = mainQueue' /\ Waiting' = Dequeue(waitQueue)
  BY <1>1, <1>2, <1>3 DEF Ready, Waiting, Dequeue
<1>6. /\ Abstract!Take(waitQueue) = InProgram(Front(waitQueue))
      /\ Abstract!Drop(waitQueue) = Dequeue(waitQueue)
  BY <1>3, TakeDrop
<1>7. mainQueue' = mainQueue \o Abstract!Take(waitQueue)
  <2>1. CASE waitQueue = << >>
    <3>1. Abstract!Take(waitQueue) = << >>
      BY <1>6, <2>1 DEF InProgram, Front
    <3> QED  BY <1>2, <1>3, <2>1, <3>1, ConcatEmptySeq
  <2>2. CASE waitQueue # << >>
    <3>1. Front(waitQueue) \in Pid
      BY <1>3, <2>2, HeadTailProperties DEF Front
    <3>2. Abstract!Take(waitQueue) = <<Front(waitQueue)>>
      BY <1>6, <3>1, PidFacts DEF InProgram
    <3> QED  BY <1>2, <1>3, <2>2, <3>1, <3>2, AppendIsConcat
  <2> QED  BY <2>1, <2>2
<1>8. Is(seen.cpu, seen.ready \o Abstract!Take(seen.waiting), Abstract!Drop(seen.waiting))'
  BY <1>2, <1>3, <1>4, <1>5, <1>6, <1>7 DEF Is, Has
<1>9. AlarmProgress'
  BY <1>1, <1>3, <1>4, <1>8 DEF AlarmProgress
<1> QED  BY <1>3, <1>9

-----------------------------------------------------------------------------
(* The statements a cascade ends with, and those it begins with.           *)

Round == Abstract!SliceEnds \/ Abstract!StartIO \/ Abstract!Finish

\* A quiet moment is a new snapshot.
LEMMA Snap ==
  ASSUME QuietInv', Quiet', seen' = Snapshot', current' \in Pid \cup {None}
  PROVE  /\ Progress'
         /\ seen'.cpu = InProgram(current') /\ seen'.ready = mainQueue' /\ seen'.waiting = waitQueue'
         /\ seen'.finished = Gone'
<1>1. pc'["main"] = "loop" /\ stack' = << >> /\ pending' = {}
  BY DEF Quiet
<1>2. Worker' = "main" /\ pc'["SIGCHLD"] # "wait"
  BY <1>1 DEF QuietInv, Nesting
<1>3. ~Told'
  BY <1>1, <1>2 DEF Told
<1>4. \A p \in Pid : status'[p] # "exited"
  BY <1>3 DEF QuietInv, OneReport
<1>5. MainProgress'
  BY <1>1, <1>3, <1>4 DEF MainProgress
<1>6. /\ seen'.cpu = InProgram(current') /\ seen'.ready = mainQueue' /\ seen'.waiting = waitQueue'
      /\ seen'.finished = Gone'
  BY DEF Snapshot, Gone
<1>7. mainQueue' \in Seq(Pid) /\ waitQueue' \in Seq(Pid) /\ InProgram(current') \in Seq(Pid)
  BY InProgramType DEF QuietInv, CurrentProcess
<1> QED  BY <1>1, <1>2, <1>5, <1>6, <1>7 DEF Progress, SeenType

LEMMA RearmMainView ==
  ASSUME IInv, QuietInv, QuietInv', ~Overlap, Progress, seen' = IF Quiet' THEN Snapshot' ELSE seen,
         Rearm("main")
  PROVE  Progress' /\ seen' = seen
<1>1. /\ At("main", "rearm") /\ SetTimer(TRUE) /\ Goto("main", "loop")
      /\ UNCHANGED <<queueVars, current, runningFlag, argi>>
      /\ "rearm" \in Label \ {"wait"} /\ "main" \in Frame /\ "loop" \in Lines("main") \ {"idle", "wait"}
  BY FrameCases DEF Rearm, Label, Lines
<1>2. /\ Worker = "main" /\ pc["main"] = "rearm" /\ pending = {} /\ stack = << >>
  BY <1>1, AtFacts
<1>3. pending' = pending /\ life' = life /\ pc'["main"] = "loop" /\ stack' = << >>
  BY <1>1, <1>2, GotoKeepsControl DEF SetTimer, Goto
<1>4. Quiet'
  BY <1>2, <1>3 DEF Quiet
<1>5. seen = First
  BY <1>2 DEF Progress, MainProgress
<1>6. /\ mainQueue = Tail(Count(N)) /\ current = 1 /\ waitQueue = << >>
      /\ \A p \in Pid : life[p] # "exited"
  BY <1>2 DEF QuietInv, LaunchOrder
<1>7. Tail(Count(N)) = [i \in 1 .. N - 1 |-> i + 1]
  <2>1. Count(N) \in Seq(Pid) /\ Count(N) # << >> /\ Len(Count(N)) = N /\ N \in Nat \ {0}
    BY CountFirst, KernelAssumption DEF Count
  <2>2. Count(N) \in Seq(Nat)
    BY <2>1 DEF Count
  <2> DEFINE x == Tail(Count(N))
             y == [i \in 1 .. N - 1 |-> i + 1]
  <2>3. x \in Seq(Nat) /\ Len(x) = N - 1 /\ \A i \in 1 .. Len(x) : x[i] = Count(N)[i + 1]
    BY <2>1, <2>2, HeadTailProperties
  <2>4. y \in Seq(Nat) /\ Len(y) = N - 1
    BY <2>1
  <2>5. \A i \in 1 .. Len(x) : x[i] = y[i]
    BY <2>1, <2>3 DEF Count
  <2> HIDE DEF x, y
  <2>6. x = y
    BY <2>3, <2>4, <2>5, SeqEqual
  <2> QED  BY <2>6 DEF x, y
<1>8. Snapshot' = First
  <2>1. {p \in Pid : life'[p] = "exited"} = {}
    BY <1>3, <1>6
  <2>2. InProgram(current') = <<1>>
    BY <1>1, <1>6, CountFirst, PidFacts DEF InProgram
  <2> QED  BY <1>1, <1>6, <1>7, <2>1, <2>2 DEF Snapshot, First, queueVars
<1>9. current' \in Pid \cup {None}
  BY <1>1, <1>6, CountFirst
<1> QED  BY <1>4, <1>5, <1>8, <1>9, Snap

LEMMA RearmView ==
  ASSUME IInv, QuietInv, QuietInv', ~Overlap, Progress, seen' = IF Quiet' THEN Snapshot' ELSE seen,
         NEW f \in Signal, Rearm(f)
  PROVE  Progress' /\ (seen' = seen \/ Round)
<1>1. /\ At(f, "rearm") /\ SetTimer(TRUE) /\ Return(f) /\ UNCHANGED <<queueVars, current>>
      /\ "rearm" \in Label \ {"wait"} /\ f # "main" /\ f \in Frame
  BY FrameCases DEF Rearm, Label
<1>2. /\ Worker = f /\ now = "rearm" /\ pc["main"] = "loop"
      /\ pending \subseteq {"SIGCHLD"} /\ ("SIGCHLD" \in pending => f = "SIGCHLD")
  BY <1>1, AtFacts
<1>3. pending' = pending /\ life' = life /\ status' = status
  BY <1>1 DEF SetTimer
<1>4. Worker' = "main" /\ now' = "loop" /\ pc'["main"] = "loop" /\ stack' = << >> /\ pc'["SIGCHLD"] = "idle"
  BY <1>1, <1>3, ReturnKeepsControl, FrameCases
<1>5. /\ Ready = mainQueue /\ Waiting = waitQueue /\ Ready' = mainQueue /\ Waiting' = waitQueue
      /\ mainQueue' = mainQueue /\ waitQueue' = waitQueue /\ current' = current /\ Gone' = Gone
  BY <1>1, <1>2, <1>3, <1>4 DEF Ready, Waiting, queueVars, Gone
<1>6. current' \in Pid \cup {None}
  BY <1>1, <1>2, NotGroupInLoop DEF IInv, SchedulerType
<1>7. CASE pending = {}
  <2>1. Quiet' /\ seen' = Snapshot'
    BY <1>3, <1>4, <1>7 DEF Quiet
  <2>2. /\ Progress'
        /\ seen'.cpu = InProgram(current) /\ seen'.ready = mainQueue /\ seen'.waiting = waitQueue
        /\ seen'.finished = Gone
    BY <1>5, <1>6, <2>1, Snap
  <2>3. CASE f = "SIGALRM"
    <3>1. Is(Abstract!Take(Sliced), Abstract!Drop(Sliced), Abstract!Drop(seen.waiting)) /\ Gone = seen.finished
      BY <1>2, <2>3 DEF Progress, AlarmProgress
    <3>2. Abstract!SliceEnds
      BY <1>5, <2>2, <3>1 DEF Is, Has, Sliced, Abstract!SliceEnds, Abstract!Dispatch
    <3> QED  BY <2>2, <3>2 DEF Round
  <2>4. CASE f = "SIGUSR1"
    <3>1. /\ Is(Abstract!Take(seen.ready), Abstract!Drop(seen.ready), seen.waiting \o seen.cpu)
          /\ Gone = seen.finished /\ seen.cpu # << >>
      BY <1>2, <2>4 DEF Progress, IOProgress
    <3>2. Abstract!StartIO
      BY <1>5, <2>2, <3>1 DEF Is, Has, Abstract!StartIO, Abstract!Dispatch
    <3> QED  BY <2>2, <3>2 DEF Round
  <2>5. CASE f = "SIGCHLD"
    <3>1. /\ Is(Abstract!Take(seen.ready), Abstract!Drop(seen.ready), seen.waiting) /\ Finished
      BY <1>2, <2>5 DEF Progress, ChildProgress
    <3>2. Abstract!Finish
      BY <1>5, <2>2, <3>1 DEF Is, Has, Finished, Abstract!Finish, Abstract!Dispatch
    <3> QED  BY <2>2, <3>2 DEF Round
  <2> QED  BY <2>3, <2>4, <2>5, FrameCases
<1>8. CASE pending # {}
  <2>1. f = "SIGCHLD" /\ "SIGCHLD" \in pending
    BY <1>2, <1>8
  <2>2. ~Quiet' /\ seen' = seen
    BY <1>3, <1>8, Busy
  <2>3. Is(Abstract!Take(seen.ready), Abstract!Drop(seen.ready), seen.waiting) /\ Finished
    BY <1>2, <2>1 DEF Progress, ChildProgress
  <2>4. Told' /\ \A p \in Pid : status'[p] # "exited"
    BY <1>1, <1>3, <2>1, AllReported DEF Told
  <2>5. Is(Abstract!Take(seen.ready), Abstract!Drop(seen.ready), seen.waiting)' /\ Finished'
    BY <1>5, <2>2, <2>3 DEF Is, Has, Finished
  <2>6. MainProgress'
    BY <1>4, <2>4, <2>5 DEF MainProgress
  <2>7. SeenType' /\ "SIGUSR1" \notin pending'
    BY <1>2, <1>3, <2>2 DEF Progress, SeenType
  <2> QED  BY <1>4, <2>2, <2>6, <2>7 DEF Progress
<1> QED  BY <1>7, <1>8

LEMMA CancelView ==
  ASSUME IInv, QuietInv, QuietInv', ~Overlap, Progress, seen' = IF Quiet' THEN Snapshot' ELSE seen,
         Cancel
  PROVE  Progress' /\ (seen' = seen \/ Round)
<1>1. /\ At("SIGCHLD", "cancel") /\ SetTimer(FALSE) /\ Return("SIGCHLD") /\ UNCHANGED <<queueVars, current>>
      /\ "cancel" \in Label \ {"wait"} /\ "SIGCHLD" \in Signal /\ "SIGCHLD" \in Frame
  BY FrameCases DEF Cancel, Label
<1>2. Worker = "SIGCHLD" /\ now = "cancel" /\ pc["main"] = "loop" /\ pending = {}
  BY <1>1, AtFacts
<1>3. pending' = pending /\ life' = life
  BY <1>1 DEF SetTimer
<1>4. pc'["main"] = "loop" /\ stack' = << >>
  BY <1>1, <1>3, ReturnKeepsControl
<1>5. /\ Ready = mainQueue /\ Waiting = waitQueue
      /\ mainQueue' = mainQueue /\ waitQueue' = waitQueue /\ current' = current /\ Gone' = Gone
  BY <1>1, <1>2, <1>3 DEF Ready, Waiting, queueVars, Gone
<1>6. current' \in Pid \cup {None}
  BY <1>1, <1>2, NotGroupInLoop DEF IInv, SchedulerType
<1>7. Quiet' /\ seen' = Snapshot'
  BY <1>2, <1>3, <1>4 DEF Quiet
<1>8. /\ Progress'
      /\ seen'.cpu = InProgram(current) /\ seen'.ready = mainQueue /\ seen'.waiting = waitQueue
      /\ seen'.finished = Gone
  BY <1>5, <1>6, <1>7, Snap
<1>9. /\ Is(Abstract!Take(seen.ready), Abstract!Drop(seen.ready), seen.waiting) /\ Finished
  BY <1>2 DEF Progress, ChildProgress
<1>10. Abstract!Finish
  BY <1>5, <1>8, <1>9 DEF Is, Has, Finished, Abstract!Finish, Abstract!Dispatch
<1> QED  BY <1>8, <1>10 DEF Round

LEMMA ReapView ==
  ASSUME IInv, QuietInv, QuietInv', ~Overlap, Progress, seen' = IF Quiet' THEN Snapshot' ELSE seen,
         NEW exited \in BOOLEAN, Reap(exited)
  PROVE  Progress' /\ (seen' = seen \/ Round)
<1>1. /\ pending = {} /\ pc["SIGCHLD"] = "wait" /\ Alive
      /\ \A g \in Frame : g # "SIGCHLD" => pc'[g] = pc[g]
      /\ \A p \in Pid : status'[p] = "none"
      /\ life' = life /\ pending' = pending
      /\ UNCHANGED <<queueVars, current, runningFlag, argi>>
  BY ReapFacts DEF Reap, At
<1>2. /\ pc'["SIGALRM"] = pc["SIGALRM"] /\ pc'["SIGUSR1"] = pc["SIGUSR1"] /\ pc'["main"] = pc["main"]
      /\ Told /\ Gone' = Gone /\ pc["main"] # "done"
  BY <1>1, FrameCases DEF Told, Gone, Alive
<1>3. CASE exited
  <2>1. /\ current \in Pid /\ status[current] = "exited"
        /\ Worker = "main" /\ pc["main"] = "loop"
        /\ pc'["SIGCHLD"] = "pick" /\ stack' = <<"SIGCHLD">>
    BY <1>3, ReapFacts
  <2>2. pc["SIGALRM"] = "idle" /\ pc["SIGUSR1"] = "idle" /\ now = "loop"
    BY <2>1 DEF Worker, now
  <2>3. Worker' = "SIGCHLD"
    BY <1>2, <2>1, <2>2 DEF Worker
  <2>4. now' = "pick"
    BY <2>1, <2>3 DEF now
  <2>5. ~Quiet' /\ seen' = seen
    BY <2>3, Busy
  <2>6. Is(seen.cpu, seen.ready, seen.waiting) /\ Finished
    BY <1>2, <2>1 DEF Progress, MainProgress
  <2>7. /\ Ready = mainQueue /\ Waiting = waitQueue /\ Ready' = mainQueue /\ Waiting' = waitQueue
    BY <1>1, <2>2, <2>4 DEF Ready, Waiting, queueVars
  <2>8. Finished' /\ Has(seen.ready, seen.waiting)'
    BY <1>2, <2>5, <2>6, <2>7 DEF Finished, Is, Has
  <2>9. ChildProgress'
    BY <2>4, <2>8 DEF ChildProgress
  <2>10. SeenType' /\ "SIGUSR1" \notin pending'
    BY <1>1, <2>5 DEF Progress, SeenType
  <2> QED  BY <2>3, <2>5, <2>9, <2>10 DEF Progress
<1>4. CASE ~exited
  <2>1. /\ \A p \in Pid : status[p] # "exited"
        /\ pc'["SIGCHLD"] = "idle"
        /\ stack' = IF Worker = "main" THEN << >> ELSE <<Worker>>
    BY <1>4, ReapFacts
  <2>2. Worker' = Worker
    BY <1>1, <1>2, <2>1 DEF Worker
  <2>3. now' = now
    <3>1. Worker \in Frame /\ Worker # "SIGCHLD"
      BY <1>1, FrameCases DEF Worker
    <3> QED  BY <1>1, <2>2, <3>1 DEF now
  <2>4. Ready' = Ready /\ Waiting' = Waiting /\ current' = current
    BY <1>1, <2>3 DEF Ready, Waiting, queueVars
  <2>5. CASE Worker = "main" /\ pc["main"] = "loop"
    <3>1. now = "loop"
      BY <2>5 DEF now
    <3>2. Ready = mainQueue /\ Waiting = waitQueue /\ mainQueue' = mainQueue /\ waitQueue' = waitQueue
      BY <1>1, <3>1 DEF Ready, Waiting, queueVars
    <3>3. Quiet' /\ seen' = Snapshot'
      BY <1>1, <1>2, <2>1, <2>5 DEF Quiet
    <3>4. current' \in Pid \cup {None}
      BY <2>4, <2>5, NotGroupInLoop DEF IInv, SchedulerType
    <3>5. /\ Progress'
          /\ seen'.cpu = InProgram(current) /\ seen'.ready = mainQueue /\ seen'.waiting = waitQueue
          /\ seen'.finished = Gone
      BY <1>2, <2>4, <3>2, <3>3, <3>4, Snap
    <3>6. Is(Abstract!Take(seen.ready), Abstract!Drop(seen.ready), seen.waiting) /\ Finished
      BY <1>2, <2>1, <2>5 DEF Progress, MainProgress
    <3>7. Abstract!Finish
      BY <3>2, <3>5, <3>6 DEF Is, Has, Finished, Abstract!Finish, Abstract!Dispatch
    <3> QED  BY <3>5, <3>7 DEF Round
  <2>6. CASE Worker = "main" /\ pc["main"] # "loop"
    <3>1. ~Quiet' /\ seen' = seen
      BY <1>2, <2>6, Busy
    <3>2. seen = First
      BY <1>2, <2>6 DEF Progress, MainProgress
    <3>3. MainProgress'
      BY <1>2, <2>6, <3>1, <3>2 DEF MainProgress, First
    <3> QED  BY <1>1, <2>2, <2>6, <3>1, <3>3 DEF Progress, SeenType
  <2>7. CASE Worker # "main"
    <3>1. ~Quiet' /\ seen' = seen
      BY <2>2, <2>7, Busy
    <3>2. /\ Worker = "SIGALRM" => AlarmProgress'
          /\ Worker = "SIGUSR1" => IOProgress'
          /\ Worker = "SIGCHLD" => ChildProgress'
      <4>1. Sliced' = Sliced
        BY <3>1 DEF Sliced
      <4>2. ASSUME Worker = "SIGALRM" PROVE AlarmProgress'
        BY <1>2, <2>3, <2>4, <3>1, <4>1, <4>2 DEF Progress, AlarmProgress, Is, Has
      <4>3. ASSUME Worker = "SIGUSR1" PROVE IOProgress'
        BY <1>2, <2>3, <2>4, <3>1, <4>3 DEF Progress, IOProgress, Is, Has
      <4>4. ASSUME Worker = "SIGCHLD" PROVE ChildProgress'
        BY <1>2, <2>3, <2>4, <3>1, <4>4 DEF Progress, ChildProgress, Finished, Is, Has
      <4> QED  BY <4>2, <4>3, <4>4
    <3> QED  BY <1>1, <2>2, <2>7, <3>1, <3>2 DEF Progress, SeenType
  <2> QED  BY <2>5, <2>6, <2>7
<1> QED  BY <1>3, <1>4

LEMMA InterruptView ==
  ASSUME IInv, QuietInv, QuietInv', Progress, seen' = IF Quiet' THEN Snapshot' ELSE seen,
         NEW s \in Signal, Interrupt(s)
  PROVE  Progress' /\ seen' = seen
<1>1. /\ s \in pending /\ pc[s] = "idle" /\ pending' = pending \ {s} /\ stack' = <<s>> \o stack
      /\ pc' = [pc EXCEPT ![s] = Entry(s)] /\ pc \in [Frame -> Label \cup {"idle"}]
      /\ life' = life /\ status' = status
      /\ UNCHANGED <<queueVars, current, runningFlag, argi>>
  BY DEF Interrupt, Deliver, Deliverable, IInv, ControlType
<1>2. pc'[s] = Entry(s) /\ (\A g \in Frame : g # s => pc'[g] = pc[g]) /\ Gone' = Gone
  BY <1>1, FrameCases DEF Gone
<1>3. ~Quiet' /\ seen' = seen
  <2>1. stack \in Seq(Signal) /\ <<s>> \in Seq(Signal)
    BY DEF IInv, ControlType
  <2>2. stack' # << >>
    BY <1>1, <2>1, ConcatEqualIffEmpty
  <2> QED  BY <2>2, Busy
<1>4. SeenType' /\ ("SIGUSR1" \in pending' => current' # None)
  BY <1>1, <1>3 DEF Progress, SeenType
<1>5. Sliced' = Sliced
  BY <1>3 DEF Sliced
<1>6. CASE s = "SIGCHLD"
  <2>1. /\ pc'["SIGCHLD"] = "wait" /\ pc'["SIGALRM"] = pc["SIGALRM"] /\ pc'["SIGUSR1"] = pc["SIGUSR1"]
        /\ pc'["main"] = pc["main"] /\ pc["SIGCHLD"] = "idle" /\ Told /\ Told'
    BY <1>1, <1>2, <1>6, FrameCases DEF Entry, Told
  <2>2. Worker' = Worker /\ Worker # "SIGCHLD"
    BY <2>1 DEF Worker
  <2>3. now' = now
    <3>1. Worker \in Frame
      BY FrameCases DEF Worker
    <3> QED  BY <1>2, <1>6, <2>2, <3>1 DEF now
  <2>4. Ready' = Ready /\ Waiting' = Waiting /\ current' = current
    BY <1>1, <2>3 DEF Ready, Waiting, queueVars
  <2>5. ASSUME Worker = "main" PROVE MainProgress'
    <3>1. MainProgress
      BY <2>5 DEF Progress
    <3> QED  BY <1>1, <1>2, <1>3, <2>1, <2>4, <3>1 DEF MainProgress, Finished, Is, Has, First
  <2>6. ASSUME Worker = "SIGALRM" PROVE AlarmProgress'
    BY <1>2, <1>3, <1>5, <2>3, <2>4, <2>6 DEF Progress, AlarmProgress, Is, Has
  <2>7. ASSUME Worker = "SIGUSR1" PROVE IOProgress'
    BY <1>2, <1>3, <2>3, <2>4, <2>7 DEF Progress, IOProgress, Is, Has
  <2> QED  BY <1>3, <1>4, <2>2, <2>5, <2>6, <2>7 DEF Progress
<1>7. CASE s # "SIGCHLD"
  <2>1. /\ stack = << >> /\ pc["main"] = "loop" /\ "SIGCHLD" \notin pending
        /\ s \in {"SIGALRM", "SIGUSR1"}
    BY <1>1, <1>7, FrameCases DEF QuietInv, Undisturbed
  <2>2. Worker = "main" /\ pc["SIGCHLD"] # "wait" /\ ~Told
    BY <2>1 DEF QuietInv, Nesting, Told
  <2>3. pc["SIGALRM"] = "idle" /\ pc["SIGUSR1"] = "idle" /\ pc["SIGCHLD"] = "idle" /\ now = "loop"
    BY <2>1, <2>2 DEF Worker, now
  <2>4. Worker' = s
    BY <1>2, <2>1, <2>3, FrameCases DEF Worker, Entry
  <2>5. now' = IF s = "SIGALRM" THEN "wake" ELSE "stop"
    BY <1>2, <2>1, <2>4 DEF now, Entry
  <2>6. seen = Snapshot
    BY <2>1, <2>2 DEF Progress, MainProgress
  <2>7. /\ Ready' = mainQueue /\ Waiting' = waitQueue /\ current' = current
        /\ seen.cpu = InProgram(current) /\ seen.ready = mainQueue /\ seen.waiting = waitQueue
        /\ seen.finished = Gone
    BY <1>1, <2>5, <2>6 DEF Ready, Waiting, queueVars, Snapshot, Gone
  <2>8. Is(seen.cpu, seen.ready, seen.waiting)'
    BY <1>3, <2>7 DEF Is, Has
  <2>9. CASE s = "SIGALRM"
    <3>1. AlarmProgress'
      BY <1>2, <1>3, <2>5, <2>7, <2>8, <2>9 DEF AlarmProgress
    <3> QED  BY <1>3, <1>4, <2>4, <2>9, <3>1 DEF Progress
  <2>10. CASE s = "SIGUSR1"
    <3>1. current # None /\ current \in Pid \cup {None}
      BY <1>1, <2>1, <2>10, NotGroupInLoop DEF Progress, IInv, SchedulerType
    <3>2. seen.cpu # << >>
      BY <2>7, <3>1, InProgramType
    <3>3. IOProgress'
      BY <1>2, <1>3, <2>5, <2>7, <2>8, <2>10, <3>2 DEF IOProgress
    <3> QED  BY <1>3, <1>4, <2>4, <2>10, <3>3 DEF Progress
  <2> QED  BY <2>1, <2>9, <2>10
<1> QED  BY <1>6, <1>7

LEMMA RaiseView ==
  ASSUME IInv, QuietInv, QuietInv', Quiet, Progress, seen' = IF Quiet' THEN Snapshot' ELSE seen,
         NEW s \in {"SIGALRM", "SIGUSR1"}, pending' = pending \cup {s},
         s = "SIGUSR1" => current # None,
         UNCHANGED <<life, status, stack, pc, queueVars, current>>
  PROVE  Progress' /\ seen' = seen
<1>1. ~Quiet' /\ seen' = seen
  BY Busy
<1>2. Worker = "main" /\ ~Told /\ pending = {} /\ pc["main"] = "loop"
  BY QuietFacts DEF Quiet
<1>3. Worker' = "main" /\ ~Told'
  <2>1. Worker' = Worker
    BY DEF Worker
  <2> QED  BY <1>2, <2>1 DEF Told
<1>4. seen = Snapshot
  BY <1>2 DEF Progress, MainProgress
<1>5. Snapshot' = Snapshot
  BY DEF Snapshot, queueVars
<1>6. \A p \in Pid : status'[p] # "exited"
  BY QuietFacts
<1>7. MainProgress'
  BY <1>1, <1>2, <1>3, <1>4, <1>5, <1>6 DEF MainProgress
<1>8. "SIGUSR1" \in pending' => current' # None
  BY <1>2
<1> QED  BY <1>1, <1>3, <1>7, <1>8 DEF Progress, SeenType

LEMMA TimerView ==
  ASSUME IInv, QuietInv, QuietInv', ~Overlap, Progress, seen' = IF Quiet' THEN Snapshot' ELSE seen,
         Timer
  PROVE  Progress' /\ seen' = seen
BY RaiseView DEF Timer, Tick, Event

LEMMA ProgramView ==
  ASSUME IInv, QuietInv, QuietInv', ~Overlap, Progress, seen' = IF Quiet' THEN Snapshot' ELSE seen,
         NEW p \in Pid, Program(p)
  PROVE  Progress' /\ seen' = seen
<1>1. Quiet /\ life[p] = "running"
  BY DEF Program, RequestIO, Exit, Event
<1>2. /\ Worker = "main" /\ now = "loop" /\ ~Told /\ Given = "running"
      /\ Held = {q \in Pid : q = current}
      /\ Ready = mainQueue /\ Waiting = waitQueue
      /\ pending = {} /\ stack = << >> /\ pc["main"] = "loop"
  BY <1>1, QuietFacts DEF Quiet
<1>3. p = current /\ current # None
  BY <1>1, <1>2, PidFacts DEF QuietInv, Places, PlacesOf
<1>4. CASE RequestIO(p)
  BY <1>1, <1>3, <1>4, RaiseView DEF RequestIO, Program
<1>5. CASE Exit(p)
  <2>1. /\ life' = [life EXCEPT ![p] = "exited"] /\ status' = [status EXCEPT ![p] = "exited"]
        /\ pending' = pending \cup {"SIGCHLD"} /\ UNCHANGED <<stack, pc, queueVars, current>>
    BY <1>5 DEF Exit, Program
  <2>2. ~Quiet' /\ seen' = seen
    BY <2>1, Busy
  <2>3. Worker' = "main" /\ now' = "loop" /\ Told'
    BY <1>2, <2>1 DEF Worker, now, Told
  <2>4. seen = Snapshot
    BY <1>2 DEF Progress, MainProgress
  <2>5. /\ seen.cpu = <<p>> /\ seen.ready = mainQueue /\ seen.waiting = waitQueue /\ seen.finished = Gone
    BY <1>3, <2>4 DEF Snapshot, InProgram, Gone
  <2>6. Gone' = Gone \cup {p}
    BY <2>1 DEF Gone, IInv, CallType
  <2>7. Finished'
    BY <2>2, <2>5, <2>6 DEF Finished
  <2>8. Is(seen.cpu, seen.ready, seen.waiting)'
    BY <1>3, <2>1, <2>2, <2>3, <2>5 DEF Is, Has, InProgram, Ready, Waiting, queueVars
  <2>9. status'[p] = "exited"
    BY <2>1 DEF IInv, CallType
  <2>10. MainProgress'
    BY <1>2, <2>1, <2>3, <2>7, <2>8, <2>9 DEF MainProgress
  <2> QED  BY <1>2, <2>1, <2>2, <2>3, <2>10 DEF Progress, SeenType
<1> QED  BY <1>4, <1>5 DEF Program

LEMMA MainView ==
  ASSUME IInv, QuietInv, QuietInv', ~Overlap, Progress, seen' = IF Quiet' THEN Snapshot' ELSE seen,
         mainStep
  PROVE  Progress' /\ seen' = seen
<1>0. "main" \in Frame /\ {"fork", "stop", "enq", "pick", "deq", "cont", "rearm", "loop"} \subseteq Label \ {"wait"}
      /\ {"fork", "stop", "enq", "pick", "deq", "cont", "rearm"} \subseteq Lines("main") \ {"idle", "wait", "loop", "done"}
  BY FrameCases DEF Label, Lines
<1>1. CASE Launch
  <2>1. /\ At("main", "fork") /\ (\E next \in {"stop", "pick"} : Goto("main", next))
        /\ pending' = pending
    BY <1>1 DEF Launch, Fork, NoCall
  <2> QED  BY <1>0, <2>1, ViewLaunch
<1>2. CASE LaunchStop
  <2>1. At("main", "stop") /\ Goto("main", "enq") /\ KillStop(argi)
    BY <1>2 DEF LaunchStop
  <2>2. pending' \subseteq pending \cup {"SIGCHLD"}
    BY <2>1, CallKeepsGone
  <2> QED  BY <1>0, <2>1, <2>2, ViewLaunch
<1>3. CASE LaunchEnqueue
  BY <1>0, <1>3, ViewLaunch DEF LaunchEnqueue, NoCall
<1>4. CASE SwapFront("main")
  BY <1>0, <1>4, ViewLaunch DEF SwapFront, NoCall
<1>5. CASE SwapDequeue("main")
  BY <1>0, <1>5, ViewLaunch DEF SwapDequeue, NoCall
<1>6. CASE Resume("main")
  <2>1. At("main", "cont") /\ Goto("main", "rearm") /\ (KillCont(current) \/ NoCall)
    BY <1>6 DEF Resume
  <2>2. pending' \subseteq pending \cup {"SIGCHLD"}
    BY <2>1, CallKeepsGone
  <2> QED  BY <1>0, <2>1, <2>2, ViewLaunch
<1>7. CASE Rearm("main")
  BY <1>7, RearmMainView
<1>8. CASE Leave
  <2>1. At("main", "loop") /\ Goto("main", "done") /\ NoCall /\ UNCHANGED <<queueVars, current>>
        /\ "done" \in Lines("main") \ {"idle", "wait"}
    BY <1>8 DEF Leave, Lines
  <2>2. Worker = "main" /\ pc["main"] = "loop" /\ pending = {} /\ stack = << >>
    BY <1>0, <2>1, AtFacts
  <2>3. life' = life /\ status' = status /\ pending' = pending
    BY <2>1 DEF NoCall
  <2>4. Worker' = "main" /\ pc'["main"] = "done" /\ pc'["SIGCHLD"] = "idle"
    BY <1>0, <2>1, <2>3, GotoKeepsControl
  <2>5. ~Quiet' /\ seen' = seen
    BY <2>4, Busy
  <2>6. Quiet
    BY <2>2 DEF Quiet
  <2>7. ~Told /\ ~Told' /\ \A p \in Pid : status'[p] # "exited"
    BY <2>2, <2>3, <2>4, <2>6, QuietFacts DEF Told
  <2>8. seen = Snapshot /\ Snapshot' = Snapshot
    BY <2>1, <2>2, <2>3, <2>7 DEF Progress, MainProgress, Snapshot, queueVars
  <2>9. MainProgress'
    BY <2>4, <2>5, <2>7, <2>8 DEF MainProgress
  <2> QED  BY <2>2, <2>3, <2>4, <2>5, <2>9 DEF Progress, SeenType
<1> QED  BY <1>1, <1>2, <1>3, <1>4, <1>5, <1>6, <1>7, <1>8 DEF mainStep, Swap

LEMMA ViewStep ==
  ASSUME IInv, QuietInv, QuietInv', ~Overlap, Progress, [ViewNext]_viewVars
  PROVE  Progress' /\ (seen' = seen \/ Round)
<1>0. "SIGALRM" \in Signal /\ "SIGCHLD" \in Signal /\ "SIGUSR1" \in Signal
  BY FrameCases
<1>1. CASE UNCHANGED viewVars
  <2>1. seen' = seen /\ UNCHANGED <<life, status, pending, stack, pc, queueVars, current>>
    BY <1>1 DEF viewVars, vars, kernelVars
  <2>2. Worker' = Worker /\ now' = now
    BY <2>1 DEF Worker, now
  <2>3. Ready' = Ready /\ Waiting' = Waiting /\ Gone' = Gone /\ Snapshot' = Snapshot /\ (Told' <=> Told)
        /\ Sliced' = Sliced
    BY <2>1, <2>2 DEF Ready, Waiting, Gone, Snapshot, Told, Sliced, queueVars
  <2>4. (AlarmProgress <=> AlarmProgress') /\ (IOProgress <=> IOProgress')
    BY <2>1, <2>2, <2>3 DEF AlarmProgress, IOProgress, Is, Has
  <2>5. (ChildProgress <=> ChildProgress') /\ (MainProgress <=> MainProgress')
    BY <2>1, <2>2, <2>3 DEF ChildProgress, MainProgress, Is, Has, Finished, First
  <2> QED  BY <2>1, <2>2, <2>4, <2>5 DEF Progress, SeenType
<1>2. CASE ViewNext
  <2>1. Next /\ seen' = IF Quiet' THEN Snapshot' ELSE seen
    BY <1>2 DEF ViewNext
  <2>2. ASSUME NEW f \in Signal, Swap(f) PROVE Progress' /\ (seen' = seen \/ Round)
    BY <2>1, <2>2, SwapFrontView, SwapDequeueView, ResumeView, RearmView DEF Swap
  <2>3. CASE mainStep
    BY <2>1, <2>3, MainView
  <2>4. CASE alarmHandler
    BY <1>0, <2>1, <2>2, <2>4, WakeEnqueueView, WakeDequeueView, PreemptView, ParkView
    DEF alarmHandler
  <2>5. CASE childHandler
    BY <1>0, <2>1, <2>2, <2>5, ReapView, TestIdleView, CancelView DEF childHandler
  <2>6. CASE ioStartedHandler
    BY <1>0, <2>1, <2>2, <2>6, PreemptView, ParkView DEF ioStartedHandler
  <2>7. CASE \E s \in Signal : Interrupt(s)
    BY <2>1, <2>7, InterruptView
  <2>8. CASE Timer
    BY <2>1, <2>8, TimerView
  <2>9. CASE \E p \in Pid : Program(p)
    BY <2>1, <2>9, ProgramView
  <2> QED  BY <2>1, <2>3, <2>4, <2>5, <2>6, <2>7, <2>8, <2>9 DEF Next, Scheduler
<1> QED  BY <1>1, <1>2

LEMMA ViewStart ==
  ASSUME ViewInit
  PROVE  Progress
<1>1. Init /\ seen = First
  BY DEF ViewInit, First
<1>2. QuietInv
  BY <1>1, InitQuiet
<1>3. pc["main"] = "fork" /\ (\A s \in Signal : pc[s] = "idle") /\ pending = {}
  BY <1>1, FrameCases DEF Init, KernelInit
<1>4. Worker = "main"
  BY <1>3, FrameCases DEF Worker
<1>5. MainProgress
  BY <1>1, <1>3 DEF MainProgress
<1>6. SeenType
  <2>1. 1 \in Pid /\ N \in Nat \ {0}
    BY CountFirst, KernelAssumption
  <2>2. [i \in 1 .. N - 1 |-> i + 1] \in Seq(Pid)
    <3>1. N - 1 \in Nat /\ \A i \in 1 .. N - 1 : i + 1 \in Pid
      BY <2>1 DEF Pid
    <3> QED  BY <3>1
  <2> QED  BY <1>1, <2>1, <2>2, EmptySeq DEF SeenType, First
<1> QED  BY <1>3, <1>4, <1>5, <1>6 DEF Progress

\* When no handler is interrupted, T1/SchedulerRR.c is a round-robin scheduler for
\* any number of programs and I/Os: seen from one quiet moment to the next, a whole
\* cascade of alarmHandler, childHandler and ioStartedHandler is one step of
\* RoundRobin, or none.
THEOREM RoundRobinImplemented ==
  ASSUME ~Overlap
  PROVE  ViewSpec => ImplementsRoundRobin
<1>1. ViewInit => IInv /\ QuietInv /\ Progress /\ Abstract!AbstractInit
  <2> SUFFICES ASSUME ViewInit PROVE IInv /\ QuietInv /\ Progress /\ Abstract!AbstractInit
    OBVIOUS
  <2>1. Init
    BY DEF ViewInit
  <2>2. Abstract!AbstractInit
    BY DEF ViewInit, Abstract!AbstractInit
  <2> QED  BY <2>1, <2>2, InitInv, InitQuiet, ViewStart
<1>2. IInv /\ QuietInv /\ Progress /\ [ViewNext]_viewVars =>
        (IInv /\ QuietInv /\ Progress)' /\ [Abstract!AbstractNext]_(Abstract!abstractVars)
  <2> SUFFICES ASSUME IInv, QuietInv, Progress, [ViewNext]_viewVars
               PROVE  (IInv /\ QuietInv /\ Progress)' /\ [Abstract!AbstractNext]_(Abstract!abstractVars)
    OBVIOUS
  <2>1. [Next]_vars
    BY DEF ViewNext, viewVars
  <2>2. IInv' /\ QuietInv'
    BY <2>1, NextInv, NextQuiet
  <2>3. Progress' /\ (seen' = seen \/ Round)
    BY <2>2, ViewStep
  <2>4. seen' = seen => UNCHANGED Abstract!abstractVars
    BY DEF Abstract!abstractVars
  <2> QED  BY <2>2, <2>3, <2>4 DEF Round, Abstract!AbstractNext
<1> QED  BY <1>1, <1>2, PTL DEF ViewSpec, ImplementsRoundRobin, Abstract!AbstractSpec
=============================================================================
