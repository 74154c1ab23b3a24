-------------------------- MODULE SchedulerPRProofs --------------------------
(***************************************************************************)
(* What holds of SchedulerPR for any number of programs, I/Os, slots and   *)
(* levels: however its handlers interrupt each other, its types and the    *)
(* heartbeat; where they run to their end (~Overlap), who owns whom, who   *)
(* runs, who is picked and when the array's bounds are left.               *)
(***************************************************************************)
EXTENDS SchedulerPR, SequenceTheorems, FiniteSetTheorems, TLAPS

\* The state system calls change, and the state of control.
CallType ==
  /\ life   \in [Pid -> {"unborn", "running", "stopped", "exited"}]
  /\ ioLeft \in [Pid -> 0 .. MaxIO]
  /\ status \in [Pid -> {"none", "stopped", "continued", "exited"}]
  /\ pending \subseteq Signal
  /\ timer  \in BOOLEAN
  /\ frozen \in BOOLEAN

ControlType ==
  /\ stack \in Seq(Signal)
  /\ pc    \in [Frame -> Label \cup {"idle"}]

SchedulerType ==
  /\ mainList \in [Slot -> Process]
  /\ size \in Int
  /\ waitQueue \in Seq(Process)
  /\ current \in Process
  /\ runningFlag \in BOOLEAN
  /\ argi \in 0 .. N

\* main() lists a program it has launched.
Launched == pc["main"] \in {"stop", "put"} => argi \in Pid

\* alarm(0) comes only after runningFlag was cleared.
CancelLast == pc["SIGCHLD"] = "cancel" => ~runningFlag

IInv ==
  /\ CallType /\ ControlType /\ SchedulerType
  /\ Launched /\ CancelLast /\ Heartbeat

USE KernelAssumption

-----------------------------------------------------------------------------
(* System calls and control, one lemma each.                               *)

LEMMA MainFacts ==
  /\ "main" \in Frame /\ Signal \subseteq Frame
  /\ \A s \in Signal : s # "main"
BY DEF Frame, Signal

LEMMA ShiftKeepsType ==
  ASSUME CallType, NEW pid, NEW from, NEW to \in {"running", "stopped"},
         NEW report \in {"stopped", "continued"}, Shift(pid, from, to, report)
  PROVE  /\ life'   \in [Pid -> {"unborn", "running", "stopped", "exited"}]
         /\ status' \in [Pid -> {"none", "stopped", "continued", "exited"}]
         /\ pending' \subseteq Signal /\ pending \subseteq pending'
BY DEF CallType, Shift, Signal

LEMMA KillKeepsType ==
  ASSUME CallType, NEW pid, KillStop(pid) \/ KillCont(pid)
  PROVE  CallType' /\ timer' = timer /\ pending \subseteq pending'
<1>1. CASE KillStop(pid)
  BY <1>1, ShiftKeepsType DEF KillStop, CallType
<1>2. CASE KillCont(pid)
  BY <1>2, ShiftKeepsType DEF KillCont, CallType
<1> QED  BY <1>1, <1>2

LEMMA OtherCallsKeepType ==
  ASSUME CallType, NEW p \in Pid, NEW on \in BOOLEAN, NEW exited,
         NoCall \/ SetTimer(on) \/ Fork(p) \/ WaitPid(exited)
  PROVE  CallType' /\ pending' = pending /\ frozen' = frozen
BY DEF CallType, NoCall, SetTimer, Fork, WaitPid

LEMMA GotoKeepsType ==
  ASSUME ControlType, NEW f \in Frame, NEW label \in Label, Goto(f, label)
  PROVE  ControlType' /\ pc'[f] = label /\ \A g \in Frame : g # f => pc'[g] = pc[g]
BY DEF ControlType, Goto

LEMMA ReturnKeepsType ==
  ASSUME ControlType, NEW f \in Signal, NEW label, At(f, label), Return(f)
  PROVE  ControlType' /\ pc'[f] = "idle" /\ \A g \in Frame : g # f => pc'[g] = pc[g]
<1>1. f # "main"
  BY DEF Signal
<1>2. stack # << >>
  BY <1>1 DEF At
<1>3. stack' \in Seq(Signal)
  BY <1>2, HeadTailProperties DEF ControlType, Return
<1> QED
  BY <1>3 DEF ControlType, Return, Frame

LEMMA DeliverKeepsType ==
  ASSUME CallType, ControlType, NEW s \in Signal, NEW entry \in Label, Deliver(s, entry)
  PROVE  /\ CallType' /\ ControlType' /\ timer' = timer /\ frozen' = frozen
         /\ pending' = pending \ {s}
         /\ pc'[s] = entry /\ \A g \in Frame : g # s => pc'[g] = pc[g]
<1>1. <<s>> \in Seq(Signal)
  OBVIOUS
<1>2. stack' \in Seq(Signal)
  BY <1>1, ConcatProperties DEF Deliver, ControlType
<1> QED
  BY <1>2 DEF Deliver, CallType, ControlType, Frame

\* What an access outside the array does to control.
LEMMA OutOfBoundsKeepsType ==
  ASSUME ControlType, OutOfBounds
  PROVE  /\ ControlType' /\ pc'["main"] = "undefined"
         /\ \A g \in Frame : g # "main" => pc'[g] = pc[g]
BY DEF ControlType, OutOfBounds, Frame, Label

\* The frames the heartbeat relies on, and where.
Beats(f, label) ==
  \/ f = "SIGALRM" /\ label \notin {"idle", "wake", "wakegrow", "wakesort", "unwait"}
  \/ f = "SIGUSR1" /\ label # "idle"
  \/ f = "SIGCHLD" /\ label \notin {"idle", "wait", "cancel"}

(***************************************************************************)
(* Most statements are like this: they leave the timer alone, raise        *)
(* signals at most, and move their own frame.  A frame that held the       *)
(* heartbeat up holds it still, or runningFlag is cleared.                 *)
(***************************************************************************)
Statement(f, label) ==
  /\ CallType' /\ ControlType' /\ SchedulerType'
  /\ timer' = timer /\ pending \subseteq pending'
  /\ runningFlag' => runningFlag
  /\ pc'[f] = label
  /\ \A g \in Frame : g # f => pc'[g] = pc[g]

LEMMA StatementInv ==
  ASSUME IInv, NEW f \in Frame, NEW label, Statement(f, label),
         \/ f = "main" /\ (label \in {"stop", "put"} => argi' \in Pid)
         \/ f # "main" /\ argi' = argi,
         f = "SIGCHLD" /\ label = "cancel" => ~runningFlag',
         Beats(f, pc[f]) /\ runningFlag' => Beats(f, label),
         f = "main" => label # "loop"
  PROVE  IInv'
<1>1. CallType' /\ ControlType' /\ SchedulerType'
  BY DEF Statement
<1>2. Launched'
  BY MainFacts DEF IInv, Statement, Launched
<1>3. CancelLast'
  BY DEF IInv, Statement, CancelLast, Frame, Signal
<1>4. Heartbeat'
  BY DEF IInv, Statement, Heartbeat, Beats, Frame, Signal
<1> QED  BY <1>1, <1>2, <1>3, <1>4 DEF IInv

\* An access outside the array ends main()'s loop, and the heartbeat with it.
LEMMA OutOfBoundsInv ==
  ASSUME IInv, OutOfBounds, NoCall, UNCHANGED <<mainList, size, waitQueue, current, runningFlag, argi>>
  PROVE  IInv'
<1>1. /\ ControlType' /\ pc'["main"] = "undefined"
      /\ \A g \in Frame : g # "main" => pc'[g] = pc[g]
  BY OutOfBoundsKeepsType DEF IInv
<1>2. CallType'
  BY DEF IInv, NoCall, CallType
<1>3. SchedulerType'
  BY DEF IInv, SchedulerType
<1>4. Launched' /\ CancelLast' /\ Heartbeat'
  BY <1>1 DEF IInv, Launched, CancelLast, Heartbeat, Frame, Signal
<1> QED  BY <1>1, <1>2, <1>3, <1>4 DEF IInv

LEMMA InitInv == Init => IInv
<1> SUFFICES ASSUME Init PROVE IInv
  OBVIOUS
<1>0. << >> \in Seq(Signal) /\ << >> \in Seq(Process)
  OBVIOUS
<1>1. CallType /\ ControlType
  <2>1. CallType
    BY DEF Init, KernelInit, CallType, Signal
  <2>2. pc \in [Frame -> Label \cup {"idle"}]
    BY DEF Init, KernelInit, Label
  <2>3. stack \in Seq(Signal)
    BY <1>0 DEF Init, KernelInit
  <2> QED  BY <2>1, <2>2, <2>3 DEF ControlType
<1>2. SchedulerType
  <2>1. Zero \in Process
    BY DEF Zero, Process
  <2> QED  BY <1>0, <2>1 DEF Init, SchedulerType
<1>3. Launched /\ CancelLast /\ Heartbeat
  BY DEF Init, KernelInit, Launched, CancelLast, Heartbeat, Frame, Signal
<1> QED  BY <1>1, <1>2, <1>3 DEF IInv

-----------------------------------------------------------------------------
(* The array.                                                              *)

LEMMA PutInv ==
  ASSUME IInv, NEW f \in Frame, NEW x \in Process, NEW next \in Label,
         Put(f, x, next), NoCall, UNCHANGED <<runningFlag, argi>>,
         next \notin {"stop", "put", "loop", "cancel"}, Beats(f, pc[f]) => Beats(f, next)
  PROVE  IInv'
<1>1. CASE size \in Slot
  <2>1. /\ mainList' = [mainList EXCEPT ![size] = x] /\ Goto(f, next)
        /\ UNCHANGED <<size, waitQueue, current>>
    BY <1>1 DEF Put
  <2>2. mainList' \in [Slot -> Process]
    BY <1>1, <2>1 DEF IInv, SchedulerType
  <2>3. CallType' /\ timer' = timer /\ pending' = pending
    BY DEF NoCall, CallType, IInv
  <2>4. ControlType' /\ pc'[f] = next /\ \A g \in Frame : g # f => pc'[g] = pc[g]
    BY <2>1, GotoKeepsType DEF IInv
  <2>5. SchedulerType'
    BY <2>1, <2>2 DEF IInv, SchedulerType
  <2> QED  BY <2>3, <2>4, <2>5, StatementInv DEF Statement
<1>2. CASE size \notin Slot
  BY <1>2, OutOfBoundsInv DEF Put, OutOfBounds, listVars
<1> QED  BY <1>1, <1>2

LEMMA GrowInv ==
  ASSUME IInv, NEW f \in Frame, NEW label, NEW next \in Label, Grow(f, label, next),
         next \notin {"stop", "put", "loop", "cancel"}, Beats(f, label) => Beats(f, next)
  PROVE  IInv'
<1>1. /\ pc[f] = label /\ size' = size + 1 /\ Goto(f, next) /\ NoCall
      /\ UNCHANGED <<mainList, waitQueue, current, runningFlag, argi>>
  BY DEF Grow, At
<1>2. CallType' /\ timer' = timer /\ pending' = pending
  BY <1>1 DEF NoCall, CallType, IInv
<1>3. ControlType' /\ pc'[f] = next /\ \A g \in Frame : g # f => pc'[g] = pc[g]
  BY <1>1, GotoKeepsType DEF IInv
<1>4. SchedulerType'
  BY <1>1 DEF IInv, SchedulerType
<1> QED  BY <1>1, <1>2, <1>3, <1>4, StatementInv DEF Statement

LEMMA sortListInv ==
  ASSUME IInv, NEW f \in Frame, NEW label, NEW next \in Label, sortList(f, label, next),
         next \notin {"stop", "put", "loop", "cancel"}, Beats(f, label) => Beats(f, next)
  PROVE  IInv'
<1>0. pc[f] = label /\ NoCall /\ UNCHANGED <<runningFlag, argi>>
  BY DEF sortList, At
<1>1. CASE size \in 0 .. Slots
  <2>1. /\ Goto(f, next) /\ UNCHANGED <<size, waitQueue, current>>
    BY <1>1 DEF sortList
  <2>2. PICK o \in Orders(size) : mainList' =
          [i \in Slot |-> IF i < size THEN mainList[o[i]] ELSE mainList[i]]
    BY <1>1 DEF sortList
  <2>3. mainList' \in [Slot -> Process]
    <3>1. \A i \in Slot : i < size => o[i] \in Slot
      BY <1>1, SchedulerPRAssumption DEF Orders, Slot
    <3> QED  BY <2>2, <3>1 DEF IInv, SchedulerType
  <2>4. CallType' /\ timer' = timer /\ pending' = pending
    BY <1>0 DEF NoCall, CallType, IInv
  <2>5. ControlType' /\ pc'[f] = next /\ \A g \in Frame : g # f => pc'[g] = pc[g]
    BY <2>1, GotoKeepsType DEF IInv
  <2>6. SchedulerType'
    BY <1>0, <2>1, <2>3 DEF IInv, SchedulerType
  <2> QED  BY <1>0, <2>4, <2>5, <2>6, StatementInv DEF Statement
<1>2. CASE size \notin 0 .. Slots
  BY <1>0, <1>2, OutOfBoundsInv DEF sortList, OutOfBounds, listVars
<1> QED  BY <1>1, <1>2

-----------------------------------------------------------------------------
(* main()                                                                  *)

LEMMA LaunchInv == IInv /\ Launch => IInv'
<1> SUFFICES ASSUME IInv, Launch PROVE IInv'
  OBVIOUS
<1>0. "main" \in Frame /\ UNCHANGED <<mainList, size, waitQueue, current, runningFlag>>
  BY MainFacts DEF Launch, listVars
<1>1. CASE argi < N
  <2>1. Fork(argi + 1) /\ Goto("main", "stop") /\ argi' = argi + 1
    BY <1>1 DEF Launch
  <2>2. argi + 1 \in Pid
    BY <1>1 DEF IInv, SchedulerType, Pid
  <2>3. CallType' /\ pending' = pending /\ timer' = timer
    BY <2>1, <2>2, OtherCallsKeepType DEF IInv, Fork
  <2>4. ControlType' /\ pc'["main"] = "stop" /\ \A g \in Frame : g # "main" => pc'[g] = pc[g]
    BY <1>0, <2>1, GotoKeepsType DEF IInv, Label
  <2>5. SchedulerType'
    BY <1>0, <2>1, <2>2 DEF IInv, SchedulerType, Pid
  <2> QED  BY <1>0, <2>1, <2>2, <2>3, <2>4, <2>5, StatementInv DEF Statement, Beats
<1>2. CASE ~(argi < N)
  <2>1. NoCall /\ Goto("main", "sort") /\ argi' = argi
    BY <1>2 DEF Launch
  <2>2. CallType' /\ pending' = pending /\ timer' = timer
    BY <2>1 DEF NoCall, CallType, IInv
  <2>3. ControlType' /\ pc'["main"] = "sort" /\ \A g \in Frame : g # "main" => pc'[g] = pc[g]
    BY <1>0, <2>1, GotoKeepsType DEF IInv, Label
  <2>4. SchedulerType'
    BY <1>0, <2>1 DEF IInv, SchedulerType
  <2> QED  BY <1>0, <2>1, <2>2, <2>3, <2>4, StatementInv DEF Statement, Beats
<1> QED  BY <1>1, <1>2

LEMMA LaunchStopInv == IInv /\ LaunchStop => IInv'
<1> SUFFICES ASSUME IInv, LaunchStop PROVE IInv'
  OBVIOUS
<1>1. /\ pc["main"] = "stop" /\ KillStop(argi) /\ Goto("main", "put")
      /\ UNCHANGED <<mainList, size, waitQueue, current, runningFlag, argi>>
  BY DEF LaunchStop, At, listVars
<1>2. CallType' /\ timer' = timer /\ pending \subseteq pending'
  BY <1>1, KillKeepsType DEF IInv
<1>3. ControlType' /\ pc'["main"] = "put" /\ \A g \in Frame : g # "main" => pc'[g] = pc[g]
  BY <1>1, GotoKeepsType, MainFacts DEF IInv, Label
<1>4. SchedulerType' /\ argi' \in Pid
  BY <1>1 DEF IInv, SchedulerType, Launched
<1> QED  BY <1>1, <1>2, <1>3, <1>4, StatementInv, MainFacts DEF Statement, Beats

LEMMA LaunchPutInv == IInv /\ LaunchPut => IInv'
<1> SUFFICES ASSUME IInv, LaunchPut PROVE IInv'
  OBVIOUS
<1>1. PICK priority \in Level : Put("main", [pid |-> argi, priority |-> priority], "grow")
  BY DEF LaunchPut
<1>2. pc["main"] = "put" /\ NoCall /\ UNCHANGED <<runningFlag, argi>>
  BY DEF LaunchPut, At
<1>3. [pid |-> argi, priority |-> priority] \in Process
  <2>1. argi \in Pid /\ priority \in 0 .. 7
    BY <1>2, SchedulerPRAssumption DEF IInv, Launched
  <2> QED  BY <2>1 DEF Process
<1> QED  BY <1>1, <1>2, <1>3, PutInv, MainFacts DEF Beats, Label

LEMMA LeaveInv == IInv /\ Leave => IInv'
<1> SUFFICES ASSUME IInv, Leave PROVE IInv'
  OBVIOUS
<1>1. /\ NoCall /\ Goto("main", "done")
      /\ UNCHANGED <<mainList, size, waitQueue, current, runningFlag, argi>>
  BY DEF Leave, listVars
<1>2. CallType' /\ timer' = timer /\ pending' = pending
  BY <1>1 DEF NoCall, CallType, IInv
<1>3. ControlType' /\ pc'["main"] = "done" /\ \A g \in Frame : g # "main" => pc'[g] = pc[g]
  BY <1>1, GotoKeepsType, MainFacts DEF IInv, Label
<1>4. SchedulerType'
  BY <1>1 DEF IInv, SchedulerType
<1> QED  BY <1>1, <1>2, <1>3, <1>4, StatementInv, MainFacts DEF Statement, Beats

-----------------------------------------------------------------------------
(* The statements the handlers share.                                      *)

LEMMA PreemptInv == ASSUME NEW f \in {"SIGALRM", "SIGUSR1"} PROVE IInv /\ Preempt(f) => IInv'
<1> SUFFICES ASSUME IInv, Preempt(f) PROVE IInv'
  OBVIOUS
<1> DEFINE label == IF f = "SIGALRM" THEN "decay" ELSE "park"
<1>0. f \in Frame /\ f # "main" /\ label \in Label
  BY DEF Frame, Signal, Label
<1>1. /\ KillStop(current.pid) \/ NoCall
      /\ Goto(f, label)
      /\ UNCHANGED <<mainList, size, waitQueue, current, runningFlag, argi>>
  BY DEF Preempt, listVars
<1>2. CallType' /\ timer' = timer /\ pending \subseteq pending'
  BY <1>1, KillKeepsType DEF IInv, NoCall, CallType
<1>3. ControlType' /\ pc'[f] = label /\ \A g \in Frame : g # f => pc'[g] = pc[g]
  BY <1>0, <1>1, GotoKeepsType DEF IInv
<1>4. SchedulerType'
  BY <1>1 DEF IInv, SchedulerType
<1> QED  BY <1>0, <1>1, <1>2, <1>3, <1>4, StatementInv DEF Statement, Beats

LEMMA PickInv == ASSUME NEW f \in Frame PROVE IInv /\ Pick(f) => IInv'
<1> SUFFICES ASSUME IInv, Pick(f) PROVE IInv'
  OBVIOUS
<1>0. pc[f] = "pick" /\ NoCall /\ UNCHANGED <<runningFlag, argi>>
  BY DEF Pick, At
<1>1. CASE size - 1 \in Slot
  <2>1. /\ current' = mainList[size - 1] /\ Goto(f, "shrink")
        /\ UNCHANGED <<mainList, size, waitQueue>>
    BY <1>1 DEF Pick, listVars
  <2>2. CallType' /\ timer' = timer /\ pending' = pending
    BY <1>0 DEF NoCall, CallType, IInv
  <2>3. ControlType' /\ pc'[f] = "shrink" /\ \A g \in Frame : g # f => pc'[g] = pc[g]
    BY <2>1, GotoKeepsType DEF IInv, Label
  <2>4. SchedulerType'
    BY <1>0, <1>1, <2>1 DEF IInv, SchedulerType
  <2> QED  BY <1>0, <2>1, <2>2, <2>3, <2>4, StatementInv DEF Statement, Beats
<1>2. CASE size - 1 \notin Slot
  BY <1>0, <1>2, OutOfBoundsInv DEF Pick, OutOfBounds, listVars
<1> QED  BY <1>1, <1>2

LEMMA ShrinkInv == ASSUME NEW f \in Frame PROVE IInv /\ Shrink(f) => IInv'
<1> SUFFICES ASSUME IInv, Shrink(f) PROVE IInv'
  OBVIOUS
<1>1. /\ pc[f] = "shrink" /\ size' = size - 1 /\ Goto(f, "cont") /\ NoCall
      /\ UNCHANGED <<mainList, waitQueue, current, runningFlag, argi>>
  BY DEF Shrink, At
<1>2. CallType' /\ timer' = timer /\ pending' = pending
  BY <1>1 DEF NoCall, CallType, IInv
<1>3. ControlType' /\ pc'[f] = "cont" /\ \A g \in Frame : g # f => pc'[g] = pc[g]
  BY <1>1, GotoKeepsType DEF IInv, Label
<1>4. SchedulerType'
  BY <1>1 DEF IInv, SchedulerType
<1> QED  BY <1>1, <1>2, <1>3, <1>4, StatementInv DEF Statement, Beats

LEMMA ResumeInv == ASSUME NEW f \in Frame PROVE IInv /\ Resume(f) => IInv'
<1> SUFFICES ASSUME IInv, Resume(f) PROVE IInv'
  OBVIOUS
<1>1. /\ pc[f] = "cont" /\ (KillCont(current.pid) \/ NoCall) /\ Goto(f, "rearm")
      /\ UNCHANGED <<mainList, size, waitQueue, current, runningFlag, argi>>
  BY DEF Resume, At, listVars
<1>2. CallType' /\ timer' = timer /\ pending \subseteq pending'
  BY <1>1, KillKeepsType DEF IInv, NoCall, CallType
<1>3. ControlType' /\ pc'[f] = "rearm" /\ \A g \in Frame : g # f => pc'[g] = pc[g]
  BY <1>1, GotoKeepsType DEF IInv, Label
<1>4. SchedulerType'
  BY <1>1 DEF IInv, SchedulerType
<1> QED  BY <1>1, <1>2, <1>3, <1>4, StatementInv DEF Statement, Beats

LEMMA RearmInv == ASSUME NEW f \in Frame PROVE IInv /\ Rearm(f) => IInv'
<1> SUFFICES ASSUME IInv, Rearm(f) PROVE IInv'
  OBVIOUS
<1>1. SetTimer(TRUE) /\ UNCHANGED <<mainList, size, waitQueue, current, runningFlag, argi>>
  BY DEF Rearm, listVars
<1>2. CallType' /\ timer' = TRUE
  BY <1>1 DEF SetTimer, CallType, IInv
<1>3. /\ ControlType' /\ pc'[f] \in {"loop", "wake", "idle"}
      /\ \A g \in Frame : g # f => pc'[g] = pc[g]
  <2>1. CASE f = "main"
    BY <2>1, GotoKeepsType DEF Rearm, Label, IInv
  <2>2. CASE f = "SIGALRM"
    BY <2>2, GotoKeepsType DEF Rearm, Label, IInv
  <2>3. CASE f \notin {"main", "SIGALRM"}
    <3>1. f \in Signal /\ At(f, "rearm") /\ Return(f)
      BY <2>3 DEF Rearm, Frame
    <3> QED  BY <3>1, ReturnKeepsType DEF IInv
  <2> QED  BY <2>1, <2>2, <2>3
<1>4. SchedulerType'
  BY <1>1 DEF IInv, SchedulerType
<1>5. Launched' /\ CancelLast'
  BY <1>1, <1>3 DEF IInv, Launched, CancelLast, Frame, Signal
<1>6. Heartbeat'
  BY <1>2 DEF Heartbeat
<1> QED  BY <1>2, <1>3, <1>4, <1>5, <1>6 DEF IInv

-----------------------------------------------------------------------------
(* Statements of one handler alone.                                        *)

LEMMA DecayInv == IInv /\ Decay => IInv'
<1> SUFFICES ASSUME IInv, Decay PROVE IInv'
  OBVIOUS
<1>1. /\ pc["SIGALRM"] = "decay" /\ NoCall /\ Goto("SIGALRM", "put")
      /\ current' = [current EXCEPT !.priority = IF @ < 7 THEN @ + 1 ELSE @]
      /\ UNCHANGED <<mainList, size, waitQueue, runningFlag, argi>>
  BY DEF Decay, At, listVars
<1>2. CallType' /\ timer' = timer /\ pending' = pending
  BY <1>1 DEF NoCall, CallType, IInv
<1>3. "SIGALRM" \in Frame /\ "put" \in Label
  BY DEF Frame, Signal, Label
<1>4. ControlType' /\ pc'["SIGALRM"] = "put" /\ \A g \in Frame : g # "SIGALRM" => pc'[g] = pc[g]
  BY <1>1, <1>3, GotoKeepsType DEF IInv
<1>5. current' \in Process
  BY <1>1 DEF IInv, SchedulerType, Process
<1>6. SchedulerType'
  BY <1>1, <1>5 DEF IInv, SchedulerType
<1> QED  BY <1>1, <1>2, <1>3, <1>4, <1>6, StatementInv DEF Statement, Beats

LEMMA PutBackInv == IInv /\ PutBack => IInv'
<1> SUFFICES ASSUME IInv, PutBack PROVE IInv'
  OBVIOUS
<1>1. /\ pc["SIGALRM"] = "put" /\ NoCall /\ UNCHANGED <<runningFlag, argi>>
      /\ Put("SIGALRM", current, "grow")
  BY DEF PutBack, At
<1>2. current \in Process /\ "SIGALRM" \in Frame /\ "grow" \in Label
  BY DEF IInv, SchedulerType, Frame, Signal, Label
<1> QED  BY <1>1, <1>2, PutInv DEF Beats

LEMMA WakeInv == IInv /\ Wake => IInv'
<1> SUFFICES ASSUME IInv, Wake PROVE IInv'
  OBVIOUS
<1>1. /\ At("SIGALRM", "wake") /\ pc["SIGALRM"] = "wake" /\ NoCall
      /\ UNCHANGED <<runningFlag, argi>>
  BY DEF Wake, At
<1>2. "SIGALRM" \in Frame /\ "SIGALRM" \in Signal /\ "wakegrow" \in Label
  BY DEF Frame, Signal, Label
<1>3. CASE waitQueue # << >>
  <2>1. Head(waitQueue) \in Process
    BY <1>3, HeadTailProperties DEF IInv, SchedulerType
  <2>2. Put("SIGALRM", Head(waitQueue), "wakegrow")
    BY <1>3 DEF Wake
  <2> QED  BY <1>1, <1>2, <2>1, <2>2, PutInv DEF Beats
<1>4. CASE waitQueue = << >>
  <2>1. Return("SIGALRM") /\ UNCHANGED <<mainList, size, waitQueue, current>>
    BY <1>4 DEF Wake, listVars
  <2>2. CallType' /\ timer' = timer /\ pending' = pending
    BY <1>1 DEF NoCall, CallType, IInv
  <2>3. /\ ControlType' /\ pc'["SIGALRM"] = "idle"
        /\ \A g \in Frame : g # "SIGALRM" => pc'[g] = pc[g]
    BY <1>1, <1>2, <2>1, ReturnKeepsType DEF IInv
  <2>4. SchedulerType'
    BY <1>1, <2>1 DEF IInv, SchedulerType
  <2> QED  BY <1>1, <1>2, <2>2, <2>3, <2>4, StatementInv DEF Statement, Beats
<1> QED  BY <1>3, <1>4

LEMMA UnwaitInv == IInv /\ Unwait => IInv'
<1> SUFFICES ASSUME IInv, Unwait PROVE IInv'
  OBVIOUS
<1>1. /\ At("SIGALRM", "unwait") /\ pc["SIGALRM"] = "unwait" /\ NoCall /\ Return("SIGALRM")
      /\ waitQueue' = IF waitQueue = << >> THEN waitQueue ELSE Tail(waitQueue)
      /\ UNCHANGED <<mainList, size, current, runningFlag, argi>>
  BY DEF Unwait, At, listVars
<1>2. CallType' /\ timer' = timer /\ pending' = pending
  BY <1>1 DEF NoCall, CallType, IInv
<1>3. "SIGALRM" \in Frame /\ "SIGALRM" \in Signal
  BY DEF Frame, Signal
<1>4. /\ ControlType' /\ pc'["SIGALRM"] = "idle"
      /\ \A g \in Frame : g # "SIGALRM" => pc'[g] = pc[g]
  BY <1>1, <1>3, ReturnKeepsType DEF IInv
<1>5. waitQueue' \in Seq(Process)
  BY <1>1, HeadTailProperties DEF IInv, SchedulerType
<1>6. SchedulerType'
  BY <1>1, <1>5 DEF IInv, SchedulerType
<1> QED  BY <1>1, <1>2, <1>3, <1>4, <1>6, StatementInv DEF Statement, Beats

LEMMA ReapInv == ASSUME NEW exited PROVE IInv /\ Reap(exited) => IInv'
<1> SUFFICES ASSUME IInv, Reap(exited) PROVE IInv'
  OBVIOUS
<1>1. /\ At("SIGCHLD", "wait") /\ pc["SIGCHLD"] = "wait" /\ WaitPid(exited)
      /\ Goto("SIGCHLD", "test") \/ Return("SIGCHLD")
      /\ UNCHANGED <<mainList, size, waitQueue, current, runningFlag, argi>>
  BY DEF Reap, At, listVars
<1>2. CallType' /\ timer' = timer /\ pending' = pending
  BY <1>1 DEF WaitPid, CallType, IInv
<1>3. "SIGCHLD" \in Frame /\ "SIGCHLD" \in Signal /\ "test" \in Label
  BY DEF Frame, Signal, Label
<1>4. PICK label \in {"test", "idle"} :
        /\ ControlType' /\ pc'["SIGCHLD"] = label
        /\ \A g \in Frame : g # "SIGCHLD" => pc'[g] = pc[g]
  BY <1>1, <1>3, GotoKeepsType, ReturnKeepsType DEF IInv
<1>5. SchedulerType'
  BY <1>1 DEF IInv, SchedulerType
<1> QED  BY <1>1, <1>2, <1>3, <1>4, <1>5, StatementInv DEF Statement, Beats

LEMMA TestIdleInv == IInv /\ TestIdle => IInv'
<1> SUFFICES ASSUME IInv, TestIdle PROVE IInv'
  OBVIOUS
<1>1. PICK label \in {"pick", "cancel", "rearm"} :
        /\ pc["SIGCHLD"] = "test" /\ NoCall /\ Goto("SIGCHLD", label)
        /\ label = "cancel" => runningFlag' = FALSE
        /\ runningFlag' \in BOOLEAN /\ (runningFlag' => runningFlag)
        /\ UNCHANGED <<mainList, size, waitQueue, current, argi>>
  BY DEF TestIdle, At, listVars, IInv, SchedulerType
<1>2. CallType' /\ timer' = timer /\ pending' = pending
  BY <1>1 DEF NoCall, CallType, IInv
<1>3. "SIGCHLD" \in Frame /\ label \in Label
  BY DEF Frame, Signal, Label
<1>4. ControlType' /\ pc'["SIGCHLD"] = label /\ \A g \in Frame : g # "SIGCHLD" => pc'[g] = pc[g]
  BY <1>1, <1>3, GotoKeepsType DEF IInv
<1>5. SchedulerType'
  BY <1>1 DEF IInv, SchedulerType
<1> QED  BY <1>1, <1>2, <1>3, <1>4, <1>5, StatementInv DEF Statement, Beats

LEMMA CancelInv == IInv /\ Cancel => IInv'
<1> SUFFICES ASSUME IInv, Cancel PROVE IInv'
  OBVIOUS
<1>1. /\ At("SIGCHLD", "cancel") /\ pc["SIGCHLD"] = "cancel"
      /\ SetTimer(FALSE) /\ Return("SIGCHLD")
      /\ UNCHANGED <<mainList, size, waitQueue, current, runningFlag, argi>>
  BY DEF Cancel, At, listVars
<1>2. CallType'
  BY <1>1 DEF SetTimer, CallType, IInv
<1>3. /\ ControlType' /\ pc'["SIGCHLD"] = "idle"
      /\ \A g \in Frame : g # "SIGCHLD" => pc'[g] = pc[g]
  BY <1>1, ReturnKeepsType DEF Signal, IInv
<1>4. SchedulerType'
  BY <1>1 DEF IInv, SchedulerType
<1>5. Launched' /\ CancelLast'
  BY <1>1, <1>3, MainFacts DEF IInv, Launched, CancelLast
<1>6. Heartbeat'
  BY <1>1 DEF IInv, CancelLast, Heartbeat
<1> QED  BY <1>2, <1>3, <1>4, <1>5, <1>6 DEF IInv

LEMMA ParkInv == IInv /\ Park => IInv'
<1> SUFFICES ASSUME IInv, Park PROVE IInv'
  OBVIOUS
<1>1. /\ pc["SIGUSR1"] = "park" /\ NoCall /\ Goto("SIGUSR1", "pick")
      /\ waitQueue' = Append(waitQueue, current)
      /\ UNCHANGED <<mainList, size, current, runningFlag, argi>>
  BY DEF Park, At, listVars
<1>2. CallType' /\ timer' = timer /\ pending' = pending
  BY <1>1 DEF NoCall, CallType, IInv
<1>3. "SIGUSR1" \in Frame /\ "pick" \in Label
  BY DEF Frame, Signal, Label
<1>4. ControlType' /\ pc'["SIGUSR1"] = "pick" /\ \A g \in Frame : g # "SIGUSR1" => pc'[g] = pc[g]
  BY <1>1, <1>3, GotoKeepsType DEF IInv
<1>5. waitQueue' \in Seq(Process)
  BY <1>1, AppendProperties DEF IInv, SchedulerType
<1>6. SchedulerType'
  BY <1>1, <1>5 DEF IInv, SchedulerType
<1> QED  BY <1>1, <1>2, <1>3, <1>4, <1>6, StatementInv DEF Statement, Beats

-----------------------------------------------------------------------------
(* Interruptions, the timer and the programs.                              *)

LEMMA InterruptInv == ASSUME NEW s \in Signal PROVE IInv /\ Interrupt(s) => IInv'
<1> SUFFICES ASSUME IInv, Interrupt(s) PROVE IInv'
  OBVIOUS
<1>1. /\ Deliver(s, Entry(s)) /\ pc[s] = "idle"
      /\ UNCHANGED <<mainList, size, waitQueue, current, runningFlag, argi>>
  BY DEF Interrupt, Deliver, Deliverable, schedulerVars, listVars
<1>2. /\ Entry(s) \in Label \ {"cancel"}
      /\ s \in {"SIGALRM", "SIGUSR1"} => Entry(s) = "stop"
  BY DEF Entry, Label, Signal
<1>3. /\ CallType' /\ ControlType' /\ timer' = timer
      /\ pending' = pending \ {s}
      /\ pc'[s] = Entry(s) /\ \A g \in Frame : g # s => pc'[g] = pc[g]
  BY <1>1, <1>2, DeliverKeepsType DEF IInv
<1>4. SchedulerType'
  BY <1>1 DEF IInv, SchedulerType
<1>5. Launched' /\ CancelLast'
  BY <1>1, <1>2, <1>3, MainFacts DEF IInv, Launched, CancelLast, Signal
<1>6. Heartbeat'
  BY <1>1, <1>2, <1>3 DEF IInv, Heartbeat, Frame, Signal
<1> QED  BY <1>3, <1>4, <1>5, <1>6 DEF IInv

LEMMA TimerInv == IInv /\ Timer => IInv'
<1> SUFFICES ASSUME IInv, Timer PROVE IInv'
  OBVIOUS
<1>1. /\ UNCHANGED <<mainList, size, waitQueue, current, runningFlag, argi>>
      /\ UNCHANGED <<stack, pc, life, ioLeft, status, frozen>>
      /\ timer' = FALSE /\ pending' = pending \cup {"SIGALRM"}
  BY DEF Timer, Tick, schedulerVars, listVars
<1>2. CallType' /\ ControlType' /\ SchedulerType'
  BY <1>1 DEF IInv, CallType, ControlType, SchedulerType, Signal
<1>3. Launched' /\ CancelLast' /\ Heartbeat'
  BY <1>1 DEF IInv, Launched, CancelLast, Heartbeat
<1> QED  BY <1>2, <1>3 DEF IInv

LEMMA ProgramInv == ASSUME NEW p \in Pid PROVE IInv /\ Program(p) => IInv'
<1> SUFFICES ASSUME IInv, Program(p) PROVE IInv'
  OBVIOUS
<1>1. /\ UNCHANGED <<mainList, size, waitQueue, current, runningFlag, argi>>
      /\ UNCHANGED <<stack, pc, timer, frozen>>
      /\ pending \subseteq pending'
  BY DEF Program, RequestIO, Exit, schedulerVars, listVars
<1>2. CallType'
  <2>1. CASE RequestIO(p)
    BY <2>1 DEF RequestIO, IInv, CallType, Signal
  <2>2. CASE Exit(p)
    BY <2>2 DEF Exit, IInv, CallType, Signal
  <2> QED  BY <2>1, <2>2 DEF Program
<1>3. ControlType' /\ SchedulerType'
  BY <1>1 DEF IInv, ControlType, SchedulerType
<1>4. Launched' /\ CancelLast' /\ Heartbeat'
  BY <1>1 DEF IInv, Launched, CancelLast, Heartbeat
<1> QED  BY <1>2, <1>3, <1>4 DEF IInv

-----------------------------------------------------------------------------
(* The inductive invariant, and what follows from it.                      *)

LEMMA SwapInv == ASSUME NEW f \in Frame PROVE IInv /\ Swap(f) => IInv'
BY PickInv, ShrinkInv, ResumeInv, RearmInv DEF Swap

LEMMA NextInv == IInv /\ [Next]_vars => IInv'
<1> SUFFICES ASSUME IInv, [Next]_vars PROVE IInv'
  OBVIOUS
<1>0. "main" \in Frame /\ "SIGALRM" \in Frame /\ "SIGCHLD" \in Frame /\ "SIGUSR1" \in Frame
  BY DEF Frame, Signal
<1>1. CASE mainStart
  <2>1. CASE Grow("main", "grow", "fork")
    BY <1>0, <2>1, GrowInv DEF Beats, Label
  <2>2. CASE sortList("main", "sort", "pick")
    BY <1>0, <2>2, sortListInv DEF Beats, Label
  <2> QED  BY <1>1, <2>1, <2>2, LaunchInv, LaunchStopInv, LaunchPutInv, LeaveInv DEF mainStart
<1>2. CASE alarmHandler
  <2>1. CASE Grow("SIGALRM", "grow", "sort")
    BY <1>0, <2>1, GrowInv DEF Beats, Label
  <2>2. CASE sortList("SIGALRM", "sort", "pick")
    BY <1>0, <2>2, sortListInv DEF Beats, Label
  <2>3. CASE Grow("SIGALRM", "wakegrow", "wakesort")
    BY <1>0, <2>3, GrowInv DEF Beats, Label
  <2>4. CASE sortList("SIGALRM", "wakesort", "unwait")
    BY <1>0, <2>4, sortListInv DEF Beats, Label
  <2> QED  BY <1>0, <1>2, <2>1, <2>2, <2>3, <2>4, PreemptInv, DecayInv, PutBackInv, SwapInv,
              WakeInv, UnwaitInv DEF alarmHandler
<1>3. CASE childHandler
  BY <1>0, <1>3, ReapInv, TestIdleInv, CancelInv, SwapInv DEF childHandler
<1>4. CASE ioStartedHandler
  BY <1>0, <1>4, PreemptInv, ParkInv, SwapInv DEF ioStartedHandler
<1>5. CASE \E s \in Signal : Interrupt(s)
  BY <1>5, InterruptInv
<1>6. CASE Timer
  BY <1>6, TimerInv
<1>7. CASE \E p \in Pid : Program(p)
  BY <1>7, ProgramInv
<1>8. CASE UNCHANGED vars
  BY <1>8 DEF vars, kernelVars, listVars, IInv, CallType, ControlType, SchedulerType,
              Launched, CancelLast, Heartbeat
<1>9. CASE Swap("main")
  BY <1>0, <1>9, SwapInv
<1> QED  BY <1>1, <1>2, <1>3, <1>4, <1>5, <1>6, <1>7, <1>8, <1>9 DEF Next, Scheduler

LEMMA Invariant == Spec => []IInv
BY InitInv, NextInv, PTL DEF Spec

\* Whatever the number of programs, I/Os, slots and levels and however handlers,
\* programs and the timer interleave, the list and the queue of T1/SchedulerPR.c
\* hold nothing but launched programs, and the zeroed process of start-up, with a
\* priority from 0 to 7: alarmHandler takes none past 7.
THEOREM TypeCorrect == Spec => []TypeOK
<1>1. IInv => TypeOK
  BY DEF IInv, CallType, ControlType, SchedulerType, TypeOK, KernelTypeOK
<1> QED  BY <1>1, Invariant, PTL

\* While main() of T1/SchedulerPR.c is in its final loop and runningFlag is set, an
\* alarm is armed, pending or being handled, or a handler is on its way to
\* alarm(timeSlice): no interleaving of the three handlers stops the clock.
THEOREM HeartbeatHolds == Spec => []Heartbeat
<1>1. IInv => Heartbeat
  BY DEF IInv
<1> QED  BY <1>1, Invariant, PTL

(***************************************************************************)
(* What holds when a handler runs to its end before anything but its own   *)
(* kill() raises a signal (~Overlap).  With Overlap it is false.           *)
(***************************************************************************)

\* The frame whose statement comes next once childHandler has taken an answer of
\* waitpid() that is no exit.
Worker == IF pc["SIGALRM"] # "idle" THEN "SIGALRM"
          ELSE IF pc["SIGUSR1"] # "idle" THEN "SIGUSR1"
          ELSE IF pc["SIGCHLD"] \notin {"idle", "wait"} THEN "SIGCHLD"
          ELSE "main"

now == pc[Worker]

\* What each frame may be about to do.
Lines(f) ==
  CASE f = "SIGALRM" -> {"idle", "stop", "decay", "put", "grow", "sort", "pick", "shrink",
                         "cont", "rearm", "wake", "wakegrow", "wakesort", "unwait"}
    [] f = "SIGUSR1" -> {"idle", "stop", "park", "pick", "shrink", "cont", "rearm"}
    [] f = "SIGCHLD" -> {"idle", "wait", "test", "pick", "shrink", "cont", "rearm", "cancel"}
    [] f = "main"    -> {"fork", "stop", "put", "grow", "sort", "pick", "shrink", "cont",
                         "rearm", "loop", "done"}

Script == \A f \in Frame : pc[f] \in Lines(f)

\* One handler at a time works, main() waits for it in its loop, and all that can
\* be on top of it is a childHandler about to call waitpid().
Nesting ==
  /\ pc["SIGALRM"] = "idle" \/ pc["SIGUSR1"] = "idle"
  /\ Worker \in {"SIGALRM", "SIGUSR1"} => pc["SIGCHLD"] \in {"idle", "wait"}
  /\ Worker # "main" => pc["main"] = "loop"
  /\ stack = IF pc["SIGCHLD"] = "wait"
               THEN IF Worker = "main" THEN <<"SIGCHLD">> ELSE <<"SIGCHLD", Worker>>
               ELSE IF Worker = "main" THEN << >> ELSE <<Worker>>

\* The clock and the programs wait for a quiet moment.
Undisturbed ==
  "SIGALRM" \in pending \/ "SIGUSR1" \in pending =>
     /\ stack = << >> /\ pc["main"] = "loop" /\ "SIGCHLD" \notin pending
     /\ ~({"SIGALRM", "SIGUSR1"} \subseteq pending)

Told == "SIGCHLD" \in pending \/ pc["SIGCHLD"] = "wait"

\* Every SIGCHLD stands for exactly one change of one child, and only the exit of
\* the current process, in main()'s loop, is reported as one.
OneReport ==
  /\ "SIGCHLD" \in pending => pc["SIGCHLD"] \in {"idle", "rearm"}
  /\ Told => \E p \in Pid : status[p] # "none" /\ \A q \in Pid : q # p => status[q] = "none"
  /\ ~Told => \A p \in Pid : status[p] = "none"
  /\ \A p \in Pid : status[p] = "exited" =>
        /\ p = current.pid /\ life[p] = "exited"
        /\ Worker = "main" /\ pc["main"] = "loop"

\* main()'s launches: none exits before the last is listed, and from then on
\* `current' is one of the programs.
Launching ==
  /\ IF pc["main"] \in {"fork", "stop", "put", "grow", "sort", "pick"}
       THEN current.pid = Group ELSE current.pid \in Pid
  /\ pc["main"] \in {"fork", "stop", "put", "grow"} \/ argi = N
  /\ pc["main"] \in {"stop", "put"} => argi \in Pid
  /\ \A p \in Pid : life[p] = "unborn" <=> p > argi
  /\ pc["main"] \notin {"loop", "done"} =>
        waitQueue = << >> /\ runningFlag /\ \A p \in Pid : life[p] # "exited"

\* The process a handler has in its hands or has made the current one; the ready
\* list and the wait queue as they are once the assignment in progress is done;
\* whether the process in the handler's hands has the CPU.
Held == IF Worker = "main" /\ now \in {"stop", "put"} THEN {argi}
        ELSE IF now \in {"fork", "grow", "sort", "pick", "test"} THEN {}
        ELSE {p \in Pid : p = current.pid /\ status[p] # "exited"}

length == IF now \in {"grow", "wakegrow"} THEN size + 1
          ELSE IF now = "shrink" THEN size - 1 ELSE size

First(list, n) == [i \in 1 .. n |-> list[i - 1].pid]
Pids(q) == [i \in 1 .. Len(q) |-> q[i].pid]

Ready == First(mainList, length)

stillWaiting == IF now \in {"wakegrow", "wakesort", "unwait"} THEN Tail(waitQueue) ELSE waitQueue
Waiting == Pids(stillWaiting)

Given == IF now \in {"stop", "rearm", "wake", "wakegrow", "wakesort", "unwait", "loop", "done"}
           THEN "running" ELSE "stopped"

Once(q) == \A i, j \in 1 .. Len(q) : q[i] = q[j] => i = j
In(p, q) == \E i \in 1 .. Len(q) : q[i] = p

\* Every process that is alive has one place, the set h, the list r or the queue w,
\* and stands still unless it is in h.  One process that has exited may be in h or r.
PlacesOf(h, r, w, l, given) ==
  /\ Once(r) /\ Once(w)
  /\ \A p \in Pid :
       /\ p \in h => l[p] \in {given, "exited"}
       /\ In(p, r) => l[p] \in {"stopped", "exited"} /\ p \notin h /\ ~In(p, w)
       /\ In(p, w) => l[p] = "stopped" /\ p \notin h
       /\ l[p] \in {"running", "stopped"} => p \in h \/ In(p, r) \/ In(p, w)
  /\ \A p, q \in Pid :
       /\ l[p] = "exited" /\ (p \in h \/ In(p, r))
       /\ l[q] = "exited" /\ (q \in h \/ In(q, r))
       => p = q

Places == PlacesOf(Held, Ready, Waiting, life, Given)

Stored ==
  /\ size \in Nat /\ length \in 0 .. Slots
  /\ Ready \in Seq(Pid) /\ Waiting \in Seq(Pid)
  /\ now \in {"wakegrow", "wakesort", "unwait"} => waitQueue # << >>

\* Who asked for an I/O is alive; who is buried is not.
Subject ==
  /\ "SIGUSR1" \in pending \/ (Worker = "SIGUSR1" /\ now \in {"stop", "park"})
       => life[current.pid] # "exited"
  /\ Worker = "SIGCHLD" /\ now = "test" => life[current.pid] = "exited"

\* The list is in order except between an addition and the sort after it.
Unsorted == \/ now \in {"fork", "grow", "sort", "wakegrow", "wakesort"}
            \/ Worker = "main" /\ now \in {"stop", "put"}
Sorted == Unsorted \/ Descending(mainList, size)

\* Only ioStartedHandler may find nobody to pick.
SomeReady ==
  \/ Worker \in {"SIGALRM", "SIGCHLD"} /\ now = "pick"
  \/ Worker = "SIGALRM" /\ now = "sort"
  => size > 0

InOrder == /\ Script /\ Nesting /\ Undisturbed /\ OneReport /\ Launching
           /\ Places /\ Stored /\ Subject /\ Sorted /\ SomeReady

QuietInv == /\ DoneMeansAllExited
            /\ pc["main"] # "undefined" => InOrder

-----------------------------------------------------------------------------
(* Sequences of processes.                                                 *)

LEMMA AppendOnce ==
  ASSUME NEW q \in Seq(Pid), NEW p \in Pid
  PROVE  /\ Append(q, p) \in Seq(Pid)
         /\ Once(Append(q, p)) <=> Once(q) /\ ~In(p, q)
         /\ \A x \in Pid : In(x, Append(q, p)) <=> In(x, q) \/ x = p
<1> DEFINE r == Append(q, p)
<1>1. /\ r \in Seq(Pid) /\ Len(q) \in Nat /\ Len(r) = Len(q) + 1
      /\ \A i \in 1 .. Len(q) : r[i] = q[i]
      /\ r[Len(q) + 1] = p
  BY AppendProperties
<1>2. 1 .. Len(r) = 1 .. Len(q) \cup {Len(q) + 1} /\ Len(q) + 1 \notin 1 .. Len(q)
  BY <1>1
<1> HIDE DEF r
<1>3. Once(r) => Once(q) /\ ~In(p, q)
  BY <1>1, <1>2 DEF Once, In
<1>4. Once(q) /\ ~In(p, q) => Once(r)
  BY <1>1, <1>2 DEF Once, In
<1>5. ASSUME NEW x \in Pid PROVE In(x, r) <=> In(x, q) \/ x = p
  BY <1>1, <1>2 DEF In
<1> QED  BY <1>1, <1>3, <1>4, <1>5 DEF r

LEMMA TailOnce ==
  ASSUME NEW q \in Seq(Pid), q # << >>, Once(q)
  PROVE  /\ Once(Tail(q)) /\ Tail(q) \in Seq(Pid) /\ Head(q) \in Pid
         /\ In(Head(q), q) /\ ~In(Head(q), Tail(q))
         /\ \A x \in Pid : In(x, q) <=> In(x, Tail(q)) \/ x = Head(q)
<1> DEFINE r == Tail(q)
<1>1. /\ r \in Seq(Pid) /\ Len(q) \in Nat \ {0} /\ Len(r) = Len(q) - 1
      /\ \A i \in 1 .. Len(r) : r[i] = q[i + 1]
      /\ Head(q) = q[1] /\ Head(q) \in Pid
  BY HeadTailProperties, EmptySeq
<1>2. /\ \A i \in 1 .. Len(r) : i + 1 \in 1 .. Len(q) /\ i + 1 # 1
      /\ \A i \in 1 .. Len(q) : i = 1 \/ (i - 1 \in 1 .. Len(r) /\ r[i - 1] = q[i])
      /\ 1 \in 1 .. Len(q)
  BY <1>1
<1> HIDE DEF r
<1>3. Once(r)
  BY <1>1, <1>2 DEF Once
<1>4. ~In(Head(q), r)
  BY <1>1, <1>2 DEF Once, In
<1>5. ASSUME NEW x \in Pid PROVE In(x, q) <=> In(x, r) \/ x = Head(q)
  BY <1>1, <1>2 DEF In
<1>6. In(Head(q), q)
  BY <1>1, <1>2 DEF In
<1> QED  BY <1>1, <1>3, <1>4, <1>5, <1>6 DEF r

LEMMA EmptyHasNone == \A x : ~In(x, << >>)
BY DEF In

LEMMA FirstFacts ==
  ASSUME NEW list, NEW n \in Nat
  PROVE  DOMAIN First(list, n) = 1 .. n /\ \A i \in 1 .. n : First(list, n)[i] = list[i - 1].pid
BY DEF First

LEMMA FirstIs ==
  ASSUME NEW list, NEW n \in Nat, NEW r \in Seq(Pid), Len(r) = n,
         \A i \in 1 .. n : r[i] = list[i - 1].pid
  PROVE  First(list, n) = r
<1>1. r \in [1 .. n -> Pid]
  BY LenProperties
<1>2. r = [i \in 1 .. n |-> r[i]]
  BY <1>1
<1> QED  BY <1>2 DEF First

LEMMA FirstLen ==
  ASSUME NEW list, NEW n \in Nat, First(list, n) \in Seq(Pid)
  PROVE  Len(First(list, n)) = n
<1>1. PICK m \in Nat : Len(First(list, n)) = m /\ DOMAIN First(list, n) = 1 .. m
  BY LenProperties
<1>2. 1 .. m = 1 .. n
  BY <1>1, FirstFacts
<1>3. m = n
  <2>1. n \in 1 .. m \/ n = 0
    BY <1>2
  <2>2. m \in 1 .. n \/ m = 0
    BY <1>2
  <2> QED  BY <2>1, <2>2
<1> QED  BY <1>1, <1>3

\* mainList[n] = x lengthens the list by x.
LEMMA FirstPut ==
  ASSUME NEW list \in [Slot -> Process], NEW n \in Slot, NEW x \in Process, x.pid \in Pid,
         First(list, n) \in Seq(Pid)
  PROVE  First([list EXCEPT ![n] = x], n + 1) = Append(First(list, n), x.pid)
<1> DEFINE new == [list EXCEPT ![n] = x]
           r == First(list, n)
           t == Append(r, x.pid)
<1>0. n \in Nat /\ n + 1 \in Nat /\ \A i \in 1 .. n : i - 1 \in Slot /\ i - 1 # n
  BY SchedulerPRAssumption DEF Slot
<1>1. new[n] = x /\ \A i \in 1 .. n : new[i - 1] = list[i - 1]
  BY <1>0
<1>2. Len(r) = n /\ \A i \in 1 .. n : r[i] = list[i - 1].pid
  BY <1>0, FirstFacts, FirstLen
<1> HIDE DEF new, r
<1>3. r \in Seq(Pid)
  BY DEF r
<1>4. t \in Seq(Pid) /\ Len(t) = n + 1 /\ t[n + 1] = x.pid /\ \A i \in 1 .. n : t[i] = r[i]
  BY <1>2, <1>3, AppendProperties
<1> HIDE DEF t
<1>5. \A i \in 1 .. n + 1 : t[i] = new[i - 1].pid
  <2> SUFFICES ASSUME NEW i \in 1 .. n + 1 PROVE t[i] = new[i - 1].pid
    OBVIOUS
  <2>1. i \in 1 .. n \/ (i = n + 1 /\ i - 1 = n)
    BY <1>0
  <2> QED  BY <1>1, <1>2, <1>4, <2>1
<1>6. First(new, n + 1) = t
  BY <1>0, <1>4, <1>5, FirstIs
<1> QED  BY <1>6 DEF new, r, t

\* What the list does not reach is not in it.
LEMMA FirstSame ==
  ASSUME NEW list, NEW other, NEW n \in Nat, \A i \in 0 .. n - 1 : list[i] = other[i]
  PROVE  First(list, n) = First(other, n)
<1>1. \A i \in 1 .. n : i - 1 \in 0 .. n - 1
  OBVIOUS
<1> QED  BY <1>1 DEF First

\* The last element and those before it.
LEMMA FirstPick ==
  ASSUME NEW list, NEW n \in Nat \ {0}, First(list, n) \in Seq(Pid)
  PROVE  /\ list[n - 1].pid \in Pid /\ First(list, n - 1) \in Seq(Pid)
         /\ First(list, n) = Append(First(list, n - 1), list[n - 1].pid)
<1> DEFINE m == n - 1
           r == First(list, n)
           s == First(list, m)
<1>1. m \in Nat /\ n = m + 1 /\ 1 .. n = 1 .. m \cup {n} /\ n - 1 = m
  OBVIOUS
<1>2. Len(r) = n /\ r \in Seq(Pid) /\ \A i \in 1 .. n : r[i] = list[i - 1].pid
  BY FirstLen, FirstFacts
<1>3. \A i \in 1 .. n : list[i - 1].pid \in Pid
  BY <1>2, ElementOfSeq
<1>4. s = [i \in 1 .. m |-> list[i - 1].pid]
  BY DEF First
<1> HIDE DEF m, r, s
<1>5. s \in Seq(Pid) /\ Len(s) = m /\ \A i \in 1 .. m : s[i] = list[i - 1].pid
  BY <1>1, <1>3, <1>4
<1>6. list[m].pid \in Pid
  <2>1. n \in 1 .. n
    OBVIOUS
  <2> QED  BY <1>1, <1>3, <2>1
<1> DEFINE t == Append(s, list[m].pid)
<1>7. t \in Seq(Pid) /\ Len(t) = n /\ t[n] = list[m].pid /\ \A i \in 1 .. m : t[i] = s[i]
  BY <1>1, <1>5, <1>6, AppendProperties
<1> HIDE DEF t
<1>8. \A i \in 1 .. n : t[i] = list[i - 1].pid
  BY <1>1, <1>5, <1>7
<1>9. First(list, n) = t
  BY <1>7, <1>8, FirstIs
<1> QED  BY <1>5, <1>6, <1>9 DEF m, s, t

\* qsort() loses nothing and doubles nothing.
LEMMA FirstSort ==
  ASSUME NEW list, NEW new, NEW n \in 0 .. Slots, NEW o \in Orders(n),
         new = [i \in Slot |-> IF i < n THEN list[o[i]] ELSE list[i]],
         First(list, n) \in Seq(Pid), Once(First(list, n))
  PROVE  /\ First(new, n) \in Seq(Pid) /\ Once(First(new, n))
         /\ \A p \in Pid : In(p, First(new, n)) <=> In(p, First(list, n))
<1> DEFINE r == First(list, n)
           s == First(new, n)
           D == 0 .. n - 1
<1>0. n \in Nat /\ n <= Slots /\ D \subseteq Slot /\ \A i \in D : i < n
  BY SchedulerPRAssumption DEF Slot
<1>1. Len(r) = n /\ r \in Seq(Pid) /\ \A i \in 1 .. n : r[i] = list[i - 1].pid
  BY <1>0, FirstLen, FirstFacts
<1>2. o \in [D -> D] /\ \A i, j \in D : o[i] = o[j] => i = j
  BY DEF Orders
<1>3. \A j \in D : \E i \in D : o[i] = j
  <2>1. IsFiniteSet(D)
    BY <1>0, FS_Interval
  <2>2. o \in Injection(D, D)
    BY <1>2 DEF Injection, IsInjective
  <2>3. o \in Surjection(D, D)
    BY <2>1, <2>2, FS_Injection
  <2> QED  BY <2>3 DEF Surjection
<1>4. \A i \in D : new[i] = list[o[i]]
  BY <1>0
<1>5. s = [i \in 1 .. n |-> new[i - 1].pid]
  BY DEF First
<1>6. \A i \in 1 .. n : i - 1 \in D /\ o[i - 1] + 1 \in 1 .. n /\ (o[i - 1] + 1) - 1 = o[i - 1]
  <2> SUFFICES ASSUME NEW i \in 1 .. n PROVE i - 1 \in D /\ o[i - 1] + 1 \in 1 .. n /\ (o[i - 1] + 1) - 1 = o[i - 1]
    OBVIOUS
  <2>1. i - 1 \in D
    BY <1>0
  <2>2. o[i - 1] \in D
    BY <1>2, <2>1
  <2> QED  BY <1>0, <2>1, <2>2
<1> HIDE DEF r, s, D
<1>7. \A i \in 1 .. n : s[i] = r[o[i - 1] + 1]
  <2> SUFFICES ASSUME NEW i \in 1 .. n PROVE s[i] = r[o[i - 1] + 1]
    OBVIOUS
  <2>1. s[i] = new[i - 1].pid
    BY <1>5
  <2>2. new[i - 1] = list[o[i - 1]]
    BY <1>4, <1>6
  <2>3. r[o[i - 1] + 1] = list[o[i - 1]].pid
    BY <1>1, <1>6
  <2> QED  BY <2>1, <2>2, <2>3
<1>8. \A i \in 1 .. n : s[i] \in Pid
  BY <1>1, <1>6, <1>7, ElementOfSeq
<1>9. s \in Seq(Pid) /\ Len(s) = n
  <2>1. s \in [1 .. n -> Pid]
    BY <1>5, <1>8
  <2> QED  BY <1>0, <2>1
<1>10. \A j \in 1 .. n : \E i \in 1 .. n : s[i] = r[j]
  <2> SUFFICES ASSUME NEW j \in 1 .. n PROVE \E i \in 1 .. n : s[i] = r[j]
    OBVIOUS
  <2>1. j - 1 \in D
    BY <1>6
  <2>2. PICK k \in D : o[k] = j - 1
    BY <1>3, <2>1
  <2>3. k + 1 \in 1 .. n /\ (k + 1) - 1 = k /\ (j - 1) + 1 = j
    BY <1>0 DEF D
  <2>4. s[k + 1] = r[j]
    BY <1>7, <2>2, <2>3
  <2> QED  BY <2>3, <2>4
<1>11. Once(s)
  <2> SUFFICES ASSUME NEW i \in 1 .. n, NEW j \in 1 .. n, s[i] = s[j] PROVE i = j
    BY <1>9 DEF Once
  <2>1. r[o[i - 1] + 1] = r[o[j - 1] + 1]
    BY <1>7
  <2>2. o[i - 1] + 1 = o[j - 1] + 1
    BY <1>1, <1>6, <2>1 DEF Once, r
  <2>3. o[i - 1] = o[j - 1]
    BY <1>6, <2>2
  <2>4. i - 1 = j - 1
    BY <1>2, <1>6, <2>3
  <2> QED  BY <2>4
<1>12. ASSUME NEW p \in Pid PROVE In(p, s) <=> In(p, r)
  <2>1. In(p, s) => In(p, r)
    BY <1>1, <1>6, <1>7, <1>9 DEF In
  <2>2. In(p, r) => In(p, s)
    BY <1>1, <1>9, <1>10 DEF In
  <2> QED  BY <2>1, <2>2
<1> QED  BY <1>9, <1>11, <1>12 DEF r, s

LEMMA PidsAppend ==
  ASSUME NEW q \in Seq(Process), NEW x \in Process, x.pid \in Pid, Pids(q) \in Seq(Pid)
  PROVE  Pids(Append(q, x)) = Append(Pids(q), x.pid)
<1> DEFINE a == Append(q, x)
           n == Len(q)
           r == Pids(q)
           t == Append(r, x.pid)
<1>1. /\ n \in Nat /\ Len(a) = n + 1 /\ a[n + 1] = x /\ \A i \in 1 .. n : a[i] = q[i]
  BY AppendProperties
<1>2. r = [i \in 1 .. n |-> q[i].pid] /\ r \in Seq(Pid)
  BY DEF Pids
<1> HIDE DEF a, n, r
<1>3. Len(r) = n /\ \A i \in 1 .. n : r[i] = q[i].pid
  BY <1>1, <1>2
<1>4. t \in Seq(Pid) /\ Len(t) = n + 1 /\ t[n + 1] = x.pid /\ \A i \in 1 .. n : t[i] = r[i]
  BY <1>1, <1>2, <1>3, AppendProperties
<1> HIDE DEF t
<1>5. 1 .. n + 1 = 1 .. n \cup {n + 1}
  BY <1>1
<1>6. \A i \in 1 .. n + 1 : t[i] = a[i].pid
  BY <1>1, <1>3, <1>4, <1>5
<1>7. t \in [1 .. n + 1 -> Pid]
  BY <1>4, LenProperties
<1>8. t = [i \in 1 .. n + 1 |-> a[i].pid]
  BY <1>6, <1>7
<1>9. Pids(a) = t
  BY <1>1, <1>8 DEF Pids
<1> QED  BY <1>9 DEF a, r, t

LEMMA PidsTail ==
  ASSUME NEW q \in Seq(Process), q # << >>, Pids(q) \in Seq(Pid)
  PROVE  /\ Pids(q) # << >> /\ Head(q) \in Process /\ Head(q).pid = Head(Pids(q))
         /\ Tail(q) \in Seq(Process) /\ Pids(Tail(q)) = Tail(Pids(q))
<1> DEFINE a == Tail(q)
           n == Len(q)
           r == Pids(q)
           t == Tail(r)
<1>1. /\ n \in Nat \ {0} /\ Head(q) = q[1] /\ Head(q) \in Process
      /\ a \in Seq(Process) /\ Len(a) = n - 1 /\ \A i \in 1 .. n - 1 : a[i] = q[i + 1]
  BY HeadTailProperties, EmptySeq
<1>2. r = [i \in 1 .. n |-> q[i].pid] /\ r \in Seq(Pid)
  BY DEF Pids
<1> HIDE DEF a, n, r
<1>3. Len(r) = n /\ \A i \in 1 .. n : r[i] = q[i].pid
  BY <1>1, <1>2
<1>4. r # << >>
  BY <1>1, <1>3
<1>5. /\ Head(r) = r[1] /\ t \in Seq(Pid) /\ Len(t) = n - 1
      /\ \A i \in 1 .. n - 1 : t[i] = r[i + 1]
  <2>1. Tail(r) \in Seq(Pid) /\ Len(Tail(r)) = Len(r) - 1
    BY <1>2, <1>4, HeadTailProperties
  <2>2. Head(r) = r[1]
    BY <1>2, <1>4
  <2>3. \A i \in 1 .. Len(Tail(r)) : Tail(r)[i] = r[i + 1]
    BY <1>2, <1>4, HeadTailProperties
  <2> QED  BY <1>3, <2>1, <2>2, <2>3
<1> HIDE DEF t
<1>6. \A i \in 1 .. n - 1 : i + 1 \in 1 .. n
  BY <1>1
<1>7. \A i \in 1 .. n - 1 : t[i] = a[i].pid
  BY <1>1, <1>3, <1>5, <1>6
<1>8. t \in [1 .. n - 1 -> Pid]
  BY <1>5, LenProperties
<1>9. t = [i \in 1 .. n - 1 |-> a[i].pid]
  BY <1>7, <1>8
<1>10. Pids(a) = t
  BY <1>1, <1>9 DEF Pids
<1>11. Head(q).pid = Head(r)
  BY <1>1, <1>3, <1>5
<1> QED  BY <1>1, <1>4, <1>10, <1>11 DEF a, r, t

LEMMA PidsNone == Pids(<< >>) = << >>
BY DEF Pids

-----------------------------------------------------------------------------
(* The moves between the places, one lemma each.                           *)

Life == {"unborn", "running", "stopped", "exited"}

LEMMA MoveStop ==
  ASSUME NEW p \in Pid, NEW r, NEW w, NEW l \in [Pid -> Life], NEW m \in [Pid -> Life],
         PlacesOf({p}, r, w, l, "running"), l[p] = "running", m = [l EXCEPT ![p] = "stopped"]
  PROVE  PlacesOf({p}, r, w, m, "stopped")
BY DEF PlacesOf

LEMMA MoveRun ==
  ASSUME NEW p \in Pid, NEW r, NEW w, NEW l \in [Pid -> Life], NEW m \in [Pid -> Life],
         PlacesOf({p}, r, w, l, "stopped"), l[p] = "stopped", m = [l EXCEPT ![p] = "running"]
  PROVE  PlacesOf({p}, r, w, m, "running")
BY DEF PlacesOf

\* kill() does nothing to a process that has exited.
LEMMA MoveGhost ==
  ASSUME NEW p \in Pid, NEW r, NEW w, NEW l \in [Pid -> Life], NEW given, NEW other,
         PlacesOf({p}, r, w, l, given), l[p] = "exited"
  PROVE  PlacesOf({p}, r, w, l, other)
BY DEF PlacesOf

LEMMA MoveExit ==
  ASSUME NEW p \in Pid, NEW r, NEW w, NEW l \in [Pid -> Life], NEW m \in [Pid -> Life],
         PlacesOf({p}, r, w, l, "running"), l[p] = "running", m = [l EXCEPT ![p] = "exited"]
  PROVE  PlacesOf({}, r, w, m, "running")
BY DEF PlacesOf

\* With nobody ready childHandler leaves the dead process where it was.
LEMMA MoveBury ==
  ASSUME NEW p \in Pid, NEW w, NEW l \in [Pid -> Life], NEW given, NEW other,
         PlacesOf({}, << >>, w, l, given), l[p] = "exited"
  PROVE  PlacesOf({p}, << >>, w, l, other)
BY EmptyHasNone DEF PlacesOf

LEMMA MoveFork ==
  ASSUME NEW p \in Pid, NEW r, NEW w, NEW l \in [Pid -> Life], NEW m \in [Pid -> Life],
         NEW given, PlacesOf({}, r, w, l, given), l[p] = "unborn",
         m = [l EXCEPT ![p] = "running"]
  PROVE  PlacesOf({p}, r, w, m, "running")
BY DEF PlacesOf

LEMMA MoveReady ==
  ASSUME NEW p \in Pid, NEW r \in Seq(Pid), NEW w, NEW l \in [Pid -> Life],
         NEW given, PlacesOf({p}, r, w, l, "stopped")
  PROVE  PlacesOf({}, Append(r, p), w, l, given) /\ Append(r, p) \in Seq(Pid)
<1>1. Once(r) /\ ~In(p, r) /\ ~In(p, w)
  BY DEF PlacesOf
<1>2. /\ Once(Append(r, p)) /\ Append(r, p) \in Seq(Pid)
      /\ \A x \in Pid : In(x, Append(r, p)) <=> In(x, r) \/ x = p
  BY <1>1, AppendOnce
<1> QED  BY <1>1, <1>2 DEF PlacesOf

LEMMA MoveWait ==
  ASSUME NEW p \in Pid, NEW r, NEW w \in Seq(Pid), NEW l \in [Pid -> Life],
         NEW given, PlacesOf({p}, r, w, l, "stopped"), l[p] # "exited"
  PROVE  PlacesOf({}, r, Append(w, p), l, given) /\ Append(w, p) \in Seq(Pid)
<1>1. Once(w) /\ ~In(p, w) /\ ~In(p, r)
  BY DEF PlacesOf
<1>2. /\ Once(Append(w, p)) /\ Append(w, p) \in Seq(Pid)
      /\ \A x \in Pid : In(x, Append(w, p)) <=> In(x, w) \/ x = p
  BY <1>1, AppendOnce
<1> QED  BY <1>1, <1>2 DEF PlacesOf

LEMMA MoveTake ==
  ASSUME NEW p \in Pid, NEW r \in Seq(Pid), NEW w, NEW l \in [Pid -> Life],
         NEW given, PlacesOf({}, Append(r, p), w, l, given)
  PROVE  PlacesOf({p}, r, w, l, "stopped")
<1>1. /\ Once(r) /\ ~In(p, r)
      /\ \A x \in Pid : In(x, Append(r, p)) <=> In(x, r) \/ x = p
  BY AppendOnce DEF PlacesOf
<1> QED  BY <1>1 DEF PlacesOf

LEMMA MoveWake ==
  ASSUME NEW h, NEW r \in Seq(Pid), NEW w \in Seq(Pid), NEW l \in [Pid -> Life], w # << >>,
         NEW given, PlacesOf(h, r, w, l, given)
  PROVE  /\ PlacesOf(h, Append(r, Head(w)), Tail(w), l, given)
         /\ Append(r, Head(w)) \in Seq(Pid) /\ Tail(w) \in Seq(Pid)
<1>1. Once(r) /\ Once(w)
  BY DEF PlacesOf
<1>2. /\ Once(Tail(w)) /\ Tail(w) \in Seq(Pid) /\ Head(w) \in Pid
      /\ In(Head(w), w) /\ ~In(Head(w), Tail(w))
      /\ \A x \in Pid : In(x, w) <=> In(x, Tail(w)) \/ x = Head(w)
  BY <1>1, TailOnce
<1>3. ~In(Head(w), r) /\ l[Head(w)] = "stopped" /\ Head(w) \notin h
  BY <1>2 DEF PlacesOf
<1>4. /\ Once(Append(r, Head(w))) /\ Append(r, Head(w)) \in Seq(Pid)
      /\ \A x \in Pid : In(x, Append(r, Head(w))) <=> In(x, r) \/ x = Head(w)
  BY <1>1, <1>2, <1>3, AppendOnce
<1> QED  BY <1>2, <1>3, <1>4 DEF PlacesOf

LEMMA MoveSort ==
  ASSUME NEW h, NEW r, NEW s, NEW w, NEW l, NEW given, PlacesOf(h, r, w, l, given),
         Once(s), \A p \in Pid : In(p, s) <=> In(p, r)
  PROVE  PlacesOf(h, s, w, l, given)
BY DEF PlacesOf

LEMMA MoveNone ==
  ASSUME NEW r, NEW w, NEW l, NEW given, PlacesOf({}, r, w, l, given), NEW other
  PROVE  PlacesOf({}, r, w, l, other)
BY DEF PlacesOf

-----------------------------------------------------------------------------
(* Control.                                                                *)

LEMMA PidFacts == Group \notin Pid /\ None \notin Pid /\ None # Group
BY DEF Group, None, Pid

LEMMA FrameCases ==
  /\ \A f : f \in Frame <=> f \in {"SIGALRM", "SIGUSR1", "SIGCHLD", "main"}
  /\ \A f : f \in Signal <=> f \in {"SIGALRM", "SIGUSR1", "SIGCHLD"}
BY DEF Frame, Signal

\* Nothing else goes on while a frame executes a statement other than waitpid().
LEMMA AtFacts ==
  ASSUME IInv, InOrder, ~Overlap, NEW f \in Frame, NEW label \in Label \ {"wait"}, At(f, label)
  PROVE  /\ Worker = f /\ now = label /\ pc[f] = label
         /\ \A s \in Signal : s # f => pc[s] = "idle"
         /\ f # "main" => stack = <<f>> /\ pc["main"] = "loop"
         /\ f = "main" => stack = << >>
         /\ pending \subseteq {"SIGCHLD"}
         /\ "SIGCHLD" \in pending => f = "SIGCHLD" /\ label = "rearm"
<1>1. /\ Alive /\ pc[f] = label /\ \A s \in Signal : s \in pending => pc[s] # "idle"
      /\ IF stack = << >> THEN f = "main" ELSE f = Head(stack)
  BY DEF At, Deliverable
<1>2. label \notin {"idle", "wait"}
  BY DEF Label
<1>3. pc["SIGCHLD"] # "wait"
  <2> SUFFICES ASSUME pc["SIGCHLD"] = "wait" PROVE FALSE
    OBVIOUS
  <2>1. stack # << >> /\ Head(stack) = "SIGCHLD"
    BY DEF InOrder, Nesting
  <2> QED  BY <1>1, <1>2, <2>1
<1>4. stack = IF Worker = "main" THEN << >> ELSE <<Worker>>
  BY <1>3 DEF InOrder, Nesting
<1>5. Worker = f
  BY <1>1, <1>4
<1>6. \A s \in Signal : s # f => pc[s] = "idle"
  BY <1>2, <1>3, <1>5, FrameCases DEF Worker, InOrder, Nesting
<1>7. "SIGALRM" \notin pending /\ "SIGUSR1" \notin pending
  <2>1. stack = << >> => pc["SIGALRM"] = "idle" /\ pc["SIGUSR1"] = "idle"
    BY <1>4, <1>5, <1>6, FrameCases
  <2> QED  BY <1>1, <2>1, FrameCases DEF InOrder, Undisturbed
<1>8. "SIGCHLD" \in pending => f = "SIGCHLD" /\ label = "rearm"
  BY <1>1, <1>2, <1>6, FrameCases DEF InOrder, OneReport
<1>9. pending \subseteq {"SIGCHLD"}
  BY <1>7, FrameCases DEF IInv, CallType
<1> QED  BY <1>1, <1>4, <1>5, <1>6, <1>8, <1>9 DEF now, InOrder, Nesting

\* ... and every change of a child has been reported, save the one childHandler
\* causes itself.
LEMMA AllReported ==
  ASSUME IInv, InOrder, ~Overlap, NEW f \in Frame, NEW label \in Label \ {"wait"}, At(f, label)
  PROVE  /\ label # "rearm" \/ f # "SIGCHLD" => \A p \in Pid : status[p] = "none"
         /\ \A p \in Pid : status[p] # "exited"
<1>1. /\ Worker = f /\ pc[f] = label
      /\ \A s \in Signal : s # f => pc[s] = "idle"
      /\ "SIGCHLD" \in pending => f = "SIGCHLD" /\ label = "rearm"
  BY AtFacts
<1>2. pc["SIGCHLD"] # "wait"
  BY <1>1, FrameCases
<1> QED  BY <1>1, <1>2 DEF InOrder, OneReport, Told

LEMMA GotoKeepsControl ==
  ASSUME IInv, InOrder, ~Overlap, NEW f \in Frame, NEW label \in Label \ {"wait"}, At(f, label),
         NEW next \in Lines(f) \ {"idle", "wait"}, Goto(f, next),
         pending' \subseteq pending \cup {"SIGCHLD"}
  PROVE  /\ Script' /\ Nesting' /\ Undisturbed' /\ Worker' = f /\ now' = next
         /\ f # "main" => pc'["main"] = "loop" /\ pc["main"] = "loop"
         /\ pc'[f] = next
         /\ pc'["SIGCHLD"] = IF f = "SIGCHLD" THEN next ELSE "idle"
<1>1. /\ Worker = f /\ now = label /\ pc[f] = label
      /\ \A s \in Signal : s # f => pc[s] = "idle"
      /\ f # "main" => stack = <<f>> /\ pc["main"] = "loop"
      /\ f = "main" => stack = << >>
      /\ pending \subseteq {"SIGCHLD"}
  BY AtFacts
<1>2. pc' = [pc EXCEPT ![f] = next] /\ stack' = stack /\ pc \in [Frame -> Label \cup {"idle"}]
  BY DEF Goto, IInv, ControlType
<1>3. pc'[f] = next /\ \A g \in Frame : g # f => pc'[g] = pc[g]
  BY <1>2
<1>4. Script'
  BY <1>3 DEF InOrder, Script
<1>5. Worker' = f
  BY <1>1, <1>3, FrameCases DEF Worker
<1>6. now' = next
  BY <1>3, <1>5 DEF now
<1>7. Nesting'
  BY <1>1, <1>2, <1>3, <1>5, FrameCases DEF Nesting
<1>8. Undisturbed'
  BY <1>1 DEF Undisturbed
<1> QED  BY <1>1, <1>3, <1>4, <1>5, <1>6, <1>7, <1>8, FrameCases

LEMMA ReturnKeepsControl ==
  ASSUME IInv, InOrder, ~Overlap, NEW f \in Signal, NEW label \in Label \ {"wait"}, At(f, label),
         Return(f), pending' = pending
  PROVE  /\ Script' /\ Nesting' /\ Undisturbed' /\ Worker' = "main" /\ now' = "loop"
         /\ pc'["main"] = "loop" /\ pc["main"] = "loop" /\ stack' = << >>
         /\ \A s \in Signal : pc'[s] = "idle"
<1>0. f \in Frame /\ f # "main"
  BY FrameCases
<1>1. /\ \A s \in Signal : s # f => pc[s] = "idle"
      /\ stack = <<f>> /\ pc["main"] = "loop"
      /\ pending \subseteq {"SIGCHLD"}
  BY <1>0, AtFacts
<1>2. pc' = [pc EXCEPT ![f] = "idle"] /\ stack' = Tail(<<f>>) /\ pc \in [Frame -> Label \cup {"idle"}]
  BY <1>1 DEF Return, IInv, ControlType
<1>3. pc'[f] = "idle" /\ (\A g \in Frame : g # f => pc'[g] = pc[g]) /\ stack' = << >>
  BY <1>0, <1>2
<1>4. (\A s \in Signal : pc'[s] = "idle") /\ pc'["main"] = "loop"
  BY <1>0, <1>1, <1>3, FrameCases
<1>5. Script'
  BY <1>4, FrameCases DEF Script, Lines
<1>6. Worker' = "main"
  BY <1>4, FrameCases DEF Worker
<1>7. now' = "loop"
  BY <1>4, <1>6 DEF now
<1>8. Nesting'
  BY <1>3, <1>4, <1>6, FrameCases DEF Nesting
<1>9. Undisturbed'
  BY <1>1 DEF Undisturbed
<1> QED  BY <1>1, <1>3, <1>4, <1>5, <1>6, <1>7, <1>8, <1>9

-----------------------------------------------------------------------------
(* Reports, launches and the end, as far as a statement leaves them alone. *)

LEMMA ReportKept ==
  ASSUME InOrder, \A p \in Pid : status[p] = "none", status' = status,
         "SIGCHLD" \notin pending', pc'["SIGCHLD"] # "wait"
  PROVE  OneReport'
BY DEF OneReport, Told

LEMMA ReportMade ==
  ASSUME IInv, \A p \in Pid : status[p] = "none", NEW p \in Pid,
         NEW report \in {"stopped", "continued"}, status' = [status EXCEPT ![p] = report],
         "SIGCHLD" \in pending', pc'["SIGCHLD"] \in {"idle", "rearm"}
  PROVE  OneReport'
<1>1. \A q \in Pid : status'[q] = IF q = p THEN report ELSE "none"
  BY DEF IInv, CallType
<1> QED  BY <1>1 DEF OneReport, Told

LEMMA LaunchingKept ==
  ASSUME InOrder, pc["main"] = "loop", pc'["main"] = "loop", argi' = argi, current'.pid \in Pid,
         \A p \in Pid : life'[p] = "unborn" <=> life[p] = "unborn"
  PROVE  Launching'
BY DEF InOrder, Launching

LEMMA DoneKept ==
  ASSUME DoneMeansAllExited, runningFlag' = runningFlag,
         \A p \in Pid : life[p] = "exited" => life'[p] = "exited"
  PROVE  DoneMeansAllExited'
BY DEF DoneMeansAllExited

-----------------------------------------------------------------------------
(* kill() of one process.                                                  *)

LEMMA StopOne ==
  ASSUME IInv, NEW p \in Pid, life[p] = "running", KillStop(p)
  PROVE  /\ life' = [life EXCEPT ![p] = "stopped"]
         /\ status' = [status EXCEPT ![p] = "stopped"]
         /\ pending' = pending \cup {"SIGCHLD"}
         /\ life \in [Pid -> Life] /\ life' \in [Pid -> Life]
<1>1. Targets(p) = {p}
  BY PidFacts DEF Targets
<1>2. Shift(p, "running", "stopped", "stopped") /\ life \in [Pid -> Life]
      /\ status \in [Pid -> {"none", "stopped", "continued", "exited"}]
  BY DEF KillStop, IInv, CallType, Life
<1> DEFINE hit == {q \in Targets(p) : life[q] = "running"}
<1>3. hit = {p}
  BY <1>1
<1>4. /\ life'   = [q \in Pid |-> IF q \in hit THEN "stopped" ELSE life[q]]
      /\ status' = [q \in Pid |-> IF q \in hit THEN "stopped" ELSE status[q]]
      /\ pending' = IF hit = {} THEN pending ELSE pending \cup {"SIGCHLD"}
  BY <1>2 DEF Shift
<1> HIDE DEF hit
<1>5. life' = [life EXCEPT ![p] = "stopped"]
  BY <1>2, <1>3, <1>4
<1>6. status' = [status EXCEPT ![p] = "stopped"]
  BY <1>2, <1>3, <1>4
<1>7. pending' = pending \cup {"SIGCHLD"}
  BY <1>3, <1>4
<1>8. life' \in [Pid -> Life]
  BY <1>2, <1>5 DEF Life
<1> QED  BY <1>2, <1>5, <1>6, <1>7, <1>8

LEMMA ContOne ==
  ASSUME IInv, NEW p \in Pid, life[p] = "stopped", KillCont(p)
  PROVE  /\ life' = [life EXCEPT ![p] = "running"]
         /\ status' = [status EXCEPT ![p] = "continued"]
         /\ pending' = pending \cup {"SIGCHLD"}
         /\ life \in [Pid -> Life] /\ life' \in [Pid -> Life]
<1>1. Targets(p) = {p}
  BY PidFacts DEF Targets
<1>2. Shift(p, "stopped", "running", "continued") /\ life \in [Pid -> Life]
      /\ status \in [Pid -> {"none", "stopped", "continued", "exited"}]
  BY DEF KillCont, IInv, CallType, Life
<1> DEFINE hit == {q \in Targets(p) : life[q] = "stopped"}
<1>3. hit = {p}
  BY <1>1
<1>4. /\ life'   = [q \in Pid |-> IF q \in hit THEN "running" ELSE life[q]]
      /\ status' = [q \in Pid |-> IF q \in hit THEN "continued" ELSE status[q]]
      /\ pending' = IF hit = {} THEN pending ELSE pending \cup {"SIGCHLD"}
  BY <1>2 DEF Shift
<1> HIDE DEF hit
<1>5. life' = [life EXCEPT ![p] = "running"]
  BY <1>2, <1>3, <1>4
<1>6. status' = [status EXCEPT ![p] = "continued"]
  BY <1>2, <1>3, <1>4
<1>7. pending' = pending \cup {"SIGCHLD"}
  BY <1>3, <1>4
<1>8. life' \in [Pid -> Life]
  BY <1>2, <1>5 DEF Life
<1> QED  BY <1>2, <1>5, <1>6, <1>7, <1>8

LEMMA KillGhost ==
  ASSUME IInv, NEW p \in Pid, life[p] = "exited", KillStop(p) \/ KillCont(p)
  PROVE  life' = life /\ status' = status /\ pending' = pending
<1>1. Targets(p) = {p}
  BY PidFacts DEF Targets
<1>2. /\ life \in [Pid -> Life]
      /\ status \in [Pid -> {"none", "stopped", "continued", "exited"}]
  BY DEF IInv, CallType, Life
<1>3. PICK from \in {"stopped", "running"}, to \in {"stopped", "running"}, report \in {"stopped", "continued"} :
        Shift(p, from, to, report)
  BY DEF KillStop, KillCont
<1> DEFINE hit == {q \in Targets(p) : life[q] = from}
<1>4. hit = {}
  BY <1>1
<1>5. /\ life'   = [q \in Pid |-> IF q \in hit THEN to ELSE life[q]]
      /\ status' = [q \in Pid |-> IF q \in hit THEN report ELSE status[q]]
      /\ pending' = IF hit = {} THEN pending ELSE pending \cup {"SIGCHLD"}
  BY <1>3 DEF Shift
<1> HIDE DEF hit
<1>6. life' = life
  BY <1>2, <1>4, <1>5
<1>7. status' = status
  BY <1>2, <1>4, <1>5
<1> QED  BY <1>4, <1>5, <1>6, <1>7

-----------------------------------------------------------------------------
(* One statement of a frame.                                               *)

LEMMA StatementFacts ==
  ASSUME IInv, InOrder, ~Overlap, NEW f \in Frame, NEW label \in Label \ {"wait"}, At(f, label)
  PROVE  /\ Worker = f /\ now = label /\ pc[f] = label /\ label \in Lines(f)
         /\ f # "main" => pc["main"] = "loop"
         /\ "SIGUSR1" \notin pending
         /\ f # "main" \/ label \notin {"fork", "stop", "put", "grow", "sort", "pick"}
              => current.pid \in Pid
         /\ label \in {"fork", "grow", "sort", "pick", "test"} => Held = {}
         /\ f # "main" \/ label \in {"shrink", "cont", "rearm", "loop"}
              => label \in {"grow", "sort", "pick", "test"} \/ Held = {current.pid}
<1>1. /\ Worker = f /\ now = label /\ pc[f] = label /\ label \in Lines(f)
      /\ f # "main" => pc["main"] = "loop"
      /\ "SIGUSR1" \notin pending
  BY AtFacts, FrameCases DEF InOrder, Script
<1>2. f # "main" \/ label \notin {"fork", "stop", "put", "grow", "sort", "pick"}
        => current.pid \in Pid
  BY <1>1 DEF InOrder, Launching
<1>3. \A p \in Pid : status[p] # "exited"
  BY AllReported
<1>4. label \in {"fork", "grow", "sort", "pick", "test"} => Held = {}
  BY <1>1 DEF Held
<1>5. f # "main" \/ label \in {"shrink", "cont", "rearm", "loop"}
              => label \in {"grow", "sort", "pick", "test"} \/ Held = {current.pid}
  <2> SUFFICES ASSUME f # "main" \/ label \in {"shrink", "cont", "rearm", "loop"},
                      label \notin {"grow", "sort", "pick", "test"}
               PROVE  Held = {current.pid}
    OBVIOUS
  <2>1. f # "main" => label # "fork"
    BY <1>1, FrameCases DEF Lines
  <2>2. Held = {p \in Pid : p = current.pid /\ status[p] # "exited"}
    BY <1>1, <2>1 DEF Held
  <2> QED  BY <1>2, <1>3, <2>2
<1> QED  BY <1>1, <1>2, <1>4, <1>5

\* A statement that sends no signal moves control and nothing else.
LEMMA StatementKeeps ==
  ASSUME IInv, InOrder, ~Overlap, NEW f \in Frame, NEW label \in Label \ {"wait"}, At(f, label),
         NEW next \in Lines(f) \ {"idle", "wait"}, Goto(f, next), NoCall \/ SetTimer(TRUE),
         f # "SIGCHLD" \/ label # "rearm"
  PROVE  /\ Script' /\ Nesting' /\ Undisturbed' /\ OneReport' /\ Worker' = f /\ now' = next
         /\ f # "main" => pc["main"] = "loop" /\ pc'["main"] = "loop"
         /\ pc[f] = label /\ pc'[f] = next
         /\ life' = life /\ status' = status /\ pending' = pending /\ "SIGUSR1" \notin pending'
         /\ next \in {"fork", "grow", "sort", "pick", "test"} => Held' = {}
         /\ current'.pid \in Pid /\ (f # "main" \/ next \in {"shrink", "cont", "rearm", "loop"})
              => next \in {"grow", "sort", "pick", "test"} \/ Held' = {current'.pid}
<1>1. life' = life /\ status' = status /\ pending' = pending
  BY DEF NoCall, SetTimer
<1>2. /\ Script' /\ Nesting' /\ Undisturbed' /\ Worker' = f /\ now' = next
      /\ f # "main" => pc["main"] = "loop" /\ pc'["main"] = "loop"
      /\ pc'[f] = next
      /\ pc'["SIGCHLD"] = IF f = "SIGCHLD" THEN next ELSE "idle"
  BY <1>1, GotoKeepsControl
<1>3. /\ \A p \in Pid : status[p] = "none"
      /\ \A p \in Pid : status[p] # "exited"
  BY AllReported
<1>4. "SIGCHLD" \notin pending /\ "SIGUSR1" \notin pending /\ pc[f] = label
  BY AtFacts
<1>5. OneReport'
  BY <1>1, <1>2, <1>3, <1>4, ReportKept
<1>6. next \in {"fork", "grow", "sort", "pick", "test"} => Held' = {}
  BY <1>2 DEF Held
<1>7. ASSUME current'.pid \in Pid, f # "main" \/ next \in {"shrink", "cont", "rearm", "loop"},
             next \notin {"grow", "sort", "pick", "test"}
      PROVE  Held' = {current'.pid}
  <2>1. f # "main" => next # "fork"
    BY FrameCases DEF Lines
  <2>2. Held' = {p \in Pid : p = current'.pid /\ status'[p] # "exited"}
    BY <1>2, <1>7, <2>1 DEF Held
  <2> QED  BY <1>1, <1>3, <1>7, <2>2
<1> QED  BY <1>1, <1>2, <1>4, <1>5, <1>6, <1>7

\* After the last launch nobody is launched.
LEMMA LaunchingStep ==
  ASSUME InOrder, NEW f \in Frame,
         f # "main" => pc["main"] = "loop" /\ pc'["main"] = "loop",
         f = "main" => /\ pc["main"] \in {"sort", "pick", "shrink", "cont", "rearm"}
                       /\ pc'["main"] \in {"pick", "shrink", "cont", "rearm", "loop"},
         IF pc'["main"] = "pick" THEN current'.pid = Group ELSE current'.pid \in Pid,
         argi' = argi, waitQueue' = waitQueue, runningFlag' = runningFlag,
         \A p \in Pid : /\ life'[p] = "unborn" <=> life[p] = "unborn"
                        /\ life'[p] = "exited" <=> life[p] = "exited"
  PROVE  Launching'
BY DEF InOrder, Launching

LEMMA DescendingSame ==
  ASSUME NEW list, NEW other, NEW n \in Nat, NEW m \in 0 .. n, Descending(list, n),
         \A i \in 0 .. m - 1 : other[i] = list[i]
  PROVE  Descending(other, m)
BY DEF Descending

LEMMA GrowQuiet ==
  ASSUME IInv, InOrder, ~Overlap, NEW f \in Frame, NEW label, NEW next, Grow(f, label, next),
         \/ f = "SIGALRM" /\ label = "grow" /\ next = "sort"
         \/ f = "SIGALRM" /\ label = "wakegrow" /\ next = "wakesort"
         \/ f = "main" /\ label = "grow" /\ next = "fork"
  PROVE  InOrder'
<1>1. /\ At(f, label) /\ Goto(f, next) /\ NoCall /\ size' = size + 1
      /\ UNCHANGED <<mainList, waitQueue, current, runningFlag, argi>>
  BY DEF Grow
<1>2. label \in Label \ {"wait"} /\ next \in Lines(f) \ {"idle", "wait"}
  BY DEF Label, Lines
<1>3. /\ Worker = f /\ now = label /\ (f # "main" => current.pid \in Pid)
      /\ label = "grow" => Held = {}
      /\ label = "wakegrow" => Held = {current.pid}
  BY <1>1, <1>2, StatementFacts
<1>4. /\ Script' /\ Nesting' /\ Undisturbed' /\ OneReport' /\ Worker' = f /\ now' = next
      /\ f # "main" => pc["main"] = "loop" /\ pc'["main"] = "loop"
      /\ pc[f] = label /\ pc'[f] = next
      /\ life' = life /\ "SIGUSR1" \notin pending'
      /\ label = "grow" => Held' = {}
      /\ label = "wakegrow" => Held' = {current.pid}
  BY <1>1, <1>2, <1>3, StatementKeeps
<1>5. Launching'
  BY <1>1, <1>4 DEF InOrder, Launching
<1>6. /\ length' = length /\ size' \in Nat
      /\ size' > 0
  BY <1>1, <1>3, <1>4 DEF length, InOrder, Stored
<1>7. Ready' = Ready /\ stillWaiting' = stillWaiting
  BY <1>1, <1>3, <1>4, <1>6 DEF Ready, stillWaiting
<1>8. Waiting' = Waiting
  BY <1>7 DEF Waiting
<1>9. Places'
  <2>1. CASE label = "grow"
    <3>1. PlacesOf({}, Ready, Waiting, life, Given)
      BY <1>3, <2>1 DEF InOrder, Places
    <3>2. PlacesOf({}, Ready', Waiting', life', Given')
      BY <1>4, <1>7, <1>8, <3>1, MoveNone
    <3> QED  BY <1>4, <2>1, <3>2 DEF Places
  <2>2. CASE label = "wakegrow"
    <3>1. Given' = Given /\ Held' = Held
      BY <1>3, <1>4, <2>2 DEF Given
    <3> QED  BY <1>4, <1>7, <1>8, <3>1 DEF InOrder, Places
  <2> QED  BY <2>1, <2>2
<1>10. Stored'
  BY <1>1, <1>3, <1>4, <1>6, <1>7, <1>8 DEF InOrder, Stored
<1>11. Subject' /\ Sorted' /\ SomeReady'
  BY <1>4, <1>6 DEF Subject, Sorted, Unsorted, SomeReady
<1> QED  BY <1>4, <1>5, <1>9, <1>10, <1>11 DEF InOrder

LEMMA sortListQuiet ==
  ASSUME IInv, InOrder, ~Overlap, NEW f \in Frame, NEW label, NEW next, sortList(f, label, next),
         \/ f = "SIGALRM" /\ label = "sort" /\ next = "pick"
         \/ f = "SIGALRM" /\ label = "wakesort" /\ next = "unwait"
         \/ f = "main" /\ label = "sort" /\ next = "pick"
  PROVE  InOrder'
<1>1. /\ At(f, label) /\ label \in Label \ {"wait"} /\ next \in Lines(f) \ {"idle", "wait"}
  BY DEF sortList, Label, Lines
<1>2. /\ Worker = f /\ now = label /\ (f # "main" => current.pid \in Pid)
      /\ label = "sort" => Held = {}
      /\ label = "wakesort" => Held = {current.pid}
  BY <1>1, StatementFacts
<1>3. length = size /\ size \in 0 .. Slots
  BY <1>2 DEF length, InOrder, Stored
<1>4. /\ Goto(f, next) /\ NoCall /\ Descending(mainList', size)
      /\ UNCHANGED <<size, waitQueue, current, runningFlag, argi>>
  BY <1>3 DEF sortList
<1>5. PICK o \in Orders(size) : mainList' =
        [i \in Slot |-> IF i < size THEN mainList[o[i]] ELSE mainList[i]]
  BY <1>3 DEF sortList
<1>6. /\ Script' /\ Nesting' /\ Undisturbed' /\ OneReport' /\ Worker' = f /\ now' = next
      /\ f # "main" => pc["main"] = "loop" /\ pc'["main"] = "loop"
      /\ pc[f] = label /\ pc'[f] = next
      /\ life' = life /\ "SIGUSR1" \notin pending'
      /\ label = "sort" => Held' = {}
      /\ label = "wakesort" => Held' = {current.pid}
  BY <1>1, <1>2, <1>4, StatementKeeps
<1>7. Launching'
  BY <1>4, <1>6 DEF InOrder, Launching
<1>8. length' = size /\ size' = size
  BY <1>4, <1>6 DEF length
<1>9. Ready = First(mainList, size) /\ Ready' = First(mainList', size)
  BY <1>3, <1>8 DEF Ready
<1>10. Waiting' = Waiting
  BY <1>2, <1>4, <1>6 DEF Waiting, stillWaiting
<1>11. /\ First(mainList', size) \in Seq(Pid) /\ Once(First(mainList', size))
       /\ \A p \in Pid : In(p, First(mainList', size)) <=> In(p, First(mainList, size))
  <2>1. First(mainList, size) \in Seq(Pid) /\ Once(First(mainList, size))
    BY <1>9 DEF InOrder, Stored, Places, PlacesOf
  <2> QED  BY <1>3, <1>5, <2>1, FirstSort
<1>12. PlacesOf(Held, Ready', Waiting, life, Given)
  BY <1>9, <1>11, MoveSort DEF InOrder, Places
<1>13. Given' = Given /\ Held' = Held
  BY <1>2, <1>6 DEF Given
<1>14. Places'
  BY <1>6, <1>10, <1>12, <1>13 DEF Places
<1>15. Stored'
  BY <1>2, <1>3, <1>4, <1>6, <1>8, <1>9, <1>10, <1>11 DEF InOrder, Stored
<1>16. Subject' /\ Sorted'
  BY <1>4, <1>6, <1>8 DEF Subject, Sorted
<1>17. SomeReady'
  BY <1>2, <1>6, <1>8 DEF InOrder, SomeReady
<1> QED  BY <1>6, <1>7, <1>14, <1>15, <1>16, <1>17 DEF InOrder

LEMMA PickQuiet ==
  ASSUME IInv, InOrder, ~Overlap, NEW f \in Frame, Pick(f), pc'["main"] # "undefined"
  PROVE  InOrder'
<1>1. /\ At(f, "pick") /\ "pick" \in Label \ {"wait"} /\ "shrink" \in Lines(f) \ {"idle", "wait"}
  BY FrameCases DEF Pick, Label, Lines
<1>2. /\ size - 1 \in Slot /\ current' = mainList[size - 1] /\ Goto(f, "shrink") /\ NoCall
      /\ UNCHANGED <<mainList, size, waitQueue, runningFlag, argi>>
  <2>1. ~OutOfBounds
    BY FrameCases DEF OutOfBounds, IInv, ControlType
  <2> QED  BY <2>1 DEF Pick, listVars
<1>3. Worker = f /\ now = "pick" /\ Held = {} /\ pc[f] = "pick"
  BY <1>1, StatementFacts
<1>4. size \in Nat \ {0} /\ size - 1 \in 0 .. Slots
  BY <1>2, SchedulerPRAssumption DEF Slot, InOrder, Stored
<1>5. Ready = First(mainList, size) /\ First(mainList, size) \in Seq(Pid)
  BY <1>3 DEF Ready, length, InOrder, Stored
<1>6. /\ current'.pid \in Pid /\ First(mainList, size - 1) \in Seq(Pid)
      /\ Ready = Append(First(mainList, size - 1), current'.pid)
  BY <1>2, <1>4, <1>5, FirstPick
<1>7. /\ Script' /\ Nesting' /\ Undisturbed' /\ OneReport' /\ Worker' = f /\ now' = "shrink"
      /\ f # "main" => pc["main"] = "loop" /\ pc'["main"] = "loop"
      /\ pc'[f] = "shrink"
      /\ life' = life /\ "SIGUSR1" \notin pending' /\ Held' = {current'.pid}
  BY <1>1, <1>2, <1>6, StatementKeeps
<1>8. Launching'
  BY <1>2, <1>3, <1>6, <1>7, LaunchingStep
<1>9. length' = size - 1 /\ Ready' = First(mainList, size - 1) /\ Waiting' = Waiting
  BY <1>2, <1>3, <1>7 DEF length, Ready, Waiting, stillWaiting
<1>10. Places'
  <2>1. PlacesOf({}, Append(First(mainList, size - 1), current'.pid), Waiting, life, Given)
    BY <1>3, <1>6 DEF InOrder, Places
  <2>2. life \in [Pid -> Life]
    BY DEF IInv, CallType, Life
  <2>3. PlacesOf({current'.pid}, First(mainList, size - 1), Waiting, life, "stopped")
    BY <1>6, <2>1, <2>2, MoveTake
  <2>4. Given' = "stopped"
    BY <1>7 DEF Given
  <2> QED  BY <1>7, <1>9, <2>3, <2>4 DEF Places
<1>11. Stored'
  BY <1>2, <1>4, <1>6, <1>7, <1>9 DEF InOrder, Stored
<1>12. Subject' /\ SomeReady'
  BY <1>7 DEF Subject, SomeReady
<1>13. Sorted'
  BY <1>2, <1>3, <1>7 DEF InOrder, Sorted, Unsorted
<1> QED  BY <1>7, <1>8, <1>10, <1>11, <1>12, <1>13 DEF InOrder

LEMMA ShrinkQuiet ==
  ASSUME IInv, InOrder, ~Overlap, NEW f \in Frame, Shrink(f)
  PROVE  InOrder'
<1>1. /\ At(f, "shrink") /\ Goto(f, "cont") /\ NoCall /\ size' = size - 1
      /\ UNCHANGED <<mainList, waitQueue, current, runningFlag, argi>>
  BY DEF Shrink
<1>2. "shrink" \in Label \ {"wait"} /\ "cont" \in Lines(f) \ {"idle", "wait"}
  BY FrameCases DEF Label, Lines
<1>3. Worker = f /\ now = "shrink" /\ Held = {current.pid} /\ current.pid \in Pid /\ pc[f] = "shrink"
  BY <1>1, <1>2, StatementFacts
<1>4. /\ Script' /\ Nesting' /\ Undisturbed' /\ OneReport' /\ Worker' = f /\ now' = "cont"
      /\ f # "main" => pc["main"] = "loop" /\ pc'["main"] = "loop"
      /\ pc'[f] = "cont"
      /\ life' = life /\ "SIGUSR1" \notin pending' /\ Held' = {current.pid}
  BY <1>1, <1>2, <1>3, StatementKeeps
<1>5. Launching'
  BY <1>1, <1>3, <1>4, LaunchingStep
<1>6. length = size - 1 /\ length' = size - 1 /\ size \in Nat /\ size - 1 \in 0 .. Slots
  BY <1>1, <1>3, <1>4 DEF length, InOrder, Stored
<1>7. Ready' = Ready /\ Waiting' = Waiting
  BY <1>1, <1>3, <1>4, <1>6 DEF Ready, Waiting, stillWaiting
<1>8. Places'
  <2>1. Given' = Given
    BY <1>3, <1>4 DEF Given
  <2> QED  BY <1>3, <1>4, <1>7, <2>1 DEF InOrder, Places
<1>9. Stored'
  BY <1>1, <1>4, <1>6, <1>7 DEF InOrder, Stored
<1>10. Subject' /\ SomeReady'
  BY <1>4 DEF Subject, SomeReady
<1>11. Sorted'
  <2>1. Descending(mainList, size)
    BY <1>3 DEF InOrder, Sorted, Unsorted
  <2>2. size - 1 \in 0 .. size
    BY <1>6
  <2>3. Descending(mainList', size')
    BY <1>1, <1>6, <2>1, <2>2, DescendingSame
  <2> QED  BY <2>3 DEF Sorted
<1> QED  BY <1>4, <1>5, <1>8, <1>9, <1>10, <1>11 DEF InOrder

LEMMA DecayQuiet ==
  ASSUME IInv, InOrder, ~Overlap, Decay
  PROVE  InOrder'
<1> DEFINE f == "SIGALRM"
<1>1. /\ At(f, "decay") /\ Goto(f, "put") /\ NoCall /\ current'.pid = current.pid
      /\ UNCHANGED <<mainList, size, waitQueue, runningFlag, argi>>
  BY DEF Decay, listVars, IInv, SchedulerType, Process
<1>2. f \in Frame /\ f # "main" /\ "decay" \in Label \ {"wait"} /\ "put" \in Lines(f) \ {"idle", "wait"}
  BY FrameCases DEF Label, Lines
<1>3. Worker = f /\ now = "decay" /\ Held = {current.pid} /\ current.pid \in Pid
  BY <1>1, <1>2, StatementFacts
<1>4. /\ Script' /\ Nesting' /\ Undisturbed' /\ OneReport' /\ Worker' = f /\ now' = "put"
      /\ pc["main"] = "loop" /\ pc'["main"] = "loop"
      /\ life' = life /\ "SIGUSR1" \notin pending' /\ Held' = {current.pid}
  BY <1>1, <1>2, <1>3, StatementKeeps
<1>5. Launching'
  BY <1>1, <1>3, <1>4, LaunchingKept
<1>6. length' = length /\ Ready' = Ready /\ Waiting' = Waiting
  BY <1>1, <1>3, <1>4 DEF length, Ready, Waiting, stillWaiting
<1>7. Given' = Given
  BY <1>3, <1>4 DEF Given
<1>8. Places'
  BY <1>3, <1>4, <1>6, <1>7 DEF InOrder, Places
<1>9. Stored' /\ Subject' /\ SomeReady'
  BY <1>1, <1>4, <1>6 DEF InOrder, Stored, Subject, SomeReady
<1>10. Sorted'
  BY <1>1, <1>3, <1>4 DEF InOrder, Sorted, Unsorted
<1> QED  BY <1>4, <1>5, <1>8, <1>9, <1>10 DEF InOrder

\* A process put at the end of the list, by main() or alarmHandler.
LEMMA PutQuiet ==
  ASSUME IInv, InOrder, ~Overlap, NEW f \in Frame, NEW x \in Process, At(f, "put"),
         Put(f, x, "grow"), NoCall, UNCHANGED <<runningFlag, argi>>, pc'["main"] # "undefined",
         x.pid \in Pid, Held = {x.pid}, f \in {"main", "SIGALRM"}
  PROVE  InOrder'
<1>1. "put" \in Label \ {"wait"} /\ "grow" \in Lines(f) \ {"idle", "wait"}
  BY DEF Label, Lines
<1>2. /\ size \in Slot /\ mainList' = [mainList EXCEPT ![size] = x]
      /\ Goto(f, "grow")
      /\ UNCHANGED <<size, waitQueue, current>>
  <2>1. ~OutOfBounds
    BY FrameCases DEF OutOfBounds, IInv, ControlType
  <2> QED  BY <2>1 DEF Put
<1>3. Worker = f /\ now = "put" /\ (f # "main" => current.pid \in Pid)
  BY <1>1, StatementFacts
<1>4. /\ Script' /\ Nesting' /\ Undisturbed' /\ OneReport' /\ Worker' = f /\ now' = "grow"
      /\ f # "main" => pc["main"] = "loop" /\ pc'["main"] = "loop"
      /\ pc[f] = "put" /\ pc'[f] = "grow"
      /\ life' = life /\ "SIGUSR1" \notin pending' /\ Held' = {}
  BY <1>1, <1>2, StatementKeeps
<1>5. Launching'
  BY <1>2, <1>3, <1>4 DEF InOrder, Launching
<1>6. length = size /\ length' = size + 1 /\ size \in Nat /\ size + 1 \in 0 .. Slots
  BY <1>2, <1>3, <1>4, SchedulerPRAssumption DEF length, Slot
<1>7. Ready = First(mainList, size) /\ Ready \in Seq(Pid) /\ mainList \in [Slot -> Process]
  BY <1>6 DEF Ready, InOrder, Stored, IInv, SchedulerType
<1>8. Ready' = Append(Ready, x.pid)
  BY <1>2, <1>6, <1>7, FirstPut DEF Ready
<1>9. Waiting' = Waiting
  BY <1>2, <1>3, <1>4 DEF Waiting, stillWaiting
<1>10. PlacesOf({}, Append(Ready, x.pid), Waiting, life, Given') /\ Append(Ready, x.pid) \in Seq(Pid)
  <2>1. PlacesOf({x.pid}, Ready, Waiting, life, "stopped")
    BY <1>3 DEF InOrder, Places, Given
  <2>2. life \in [Pid -> Life]
    BY DEF IInv, CallType, Life
  <2> QED  BY <1>7, <2>1, <2>2, MoveReady
<1>11. Places'
  BY <1>4, <1>8, <1>9, <1>10 DEF Places
<1>12. Stored'
  BY <1>2, <1>4, <1>6, <1>8, <1>9, <1>10 DEF InOrder, Stored
<1>13. Subject' /\ SomeReady' /\ Sorted'
  BY <1>4 DEF Subject, SomeReady, Sorted, Unsorted
<1> QED  BY <1>4, <1>5, <1>11, <1>12, <1>13 DEF InOrder

LEMMA PutBackQuiet ==
  ASSUME IInv, InOrder, ~Overlap, PutBack, pc'["main"] # "undefined"
  PROVE  InOrder'
<1>1. /\ At("SIGALRM", "put") /\ Put("SIGALRM", current, "grow") /\ NoCall
      /\ UNCHANGED <<runningFlag, argi>>
  BY DEF PutBack
<1>2. "SIGALRM" \in Frame /\ "SIGALRM" # "main" /\ "put" \in Label \ {"wait"} /\ current \in Process
  BY FrameCases DEF Label, IInv, SchedulerType
<1>3. Held = {current.pid} /\ current.pid \in Pid
  BY <1>1, <1>2, StatementFacts
<1> QED  BY <1>1, <1>2, <1>3, PutQuiet

LEMMA LaunchPutQuiet ==
  ASSUME IInv, InOrder, ~Overlap, LaunchPut, pc'["main"] # "undefined"
  PROVE  InOrder'
<1>1. /\ At("main", "put") /\ NoCall /\ UNCHANGED <<runningFlag, argi>>
  BY DEF LaunchPut
<1>2. PICK priority \in Level : Put("main", [pid |-> argi, priority |-> priority], "grow")
  BY DEF LaunchPut
<1>3. "main" \in Frame /\ "put" \in Label \ {"wait"}
  BY FrameCases DEF Label
<1>4. Worker = "main" /\ now = "put" /\ pc["main"] = "put"
  BY <1>1, <1>3, StatementFacts
<1>5. argi \in Pid /\ Held = {argi}
  BY <1>4 DEF InOrder, Launching, Held
<1>6. [pid |-> argi, priority |-> priority] \in Process
  BY <1>5, SchedulerPRAssumption DEF Process
<1> QED  BY <1>1, <1>2, <1>3, <1>5, <1>6, PutQuiet

LEMMA ParkQuiet ==
  ASSUME IInv, InOrder, ~Overlap, Park
  PROVE  InOrder'
<1> DEFINE f == "SIGUSR1"
<1>1. /\ At(f, "park") /\ Goto(f, "pick") /\ NoCall /\ waitQueue' = Append(waitQueue, current)
      /\ UNCHANGED <<mainList, size, current, runningFlag, argi>>
  BY DEF Park, listVars
<1>2. f \in Frame /\ f # "main" /\ "park" \in Label \ {"wait"} /\ "pick" \in Lines(f) \ {"idle", "wait"}
  BY FrameCases DEF Label, Lines
<1>3. Worker = f /\ now = "park" /\ Held = {current.pid} /\ current.pid \in Pid
  BY <1>1, <1>2, StatementFacts
<1>4. /\ Script' /\ Nesting' /\ Undisturbed' /\ OneReport' /\ Worker' = f /\ now' = "pick"
      /\ pc["main"] = "loop" /\ pc'["main"] = "loop"
      /\ life' = life /\ "SIGUSR1" \notin pending' /\ Held' = {}
  BY <1>1, <1>2, <1>3, StatementKeeps
<1>5. Launching'
  BY <1>1, <1>3, <1>4, LaunchingKept
<1>6. length' = length /\ Ready' = Ready
  BY <1>1, <1>3, <1>4 DEF length, Ready
<1>7. Waiting = Pids(waitQueue) /\ Waiting \in Seq(Pid)
  BY <1>3 DEF Waiting, stillWaiting, InOrder, Stored
<1>8. Waiting' = Append(Waiting, current.pid)
  <2>1. Waiting' = Pids(waitQueue')
    BY <1>4 DEF Waiting, stillWaiting
  <2> QED  BY <1>1, <1>3, <1>7, <2>1, PidsAppend DEF IInv, SchedulerType
<1>9. PlacesOf({}, Ready, Append(Waiting, current.pid), life, Given') /\ Append(Waiting, current.pid) \in Seq(Pid)
  <2>1. PlacesOf({current.pid}, Ready, Waiting, life, "stopped")
    BY <1>3 DEF InOrder, Places, Given
  <2>2. life \in [Pid -> Life] /\ life[current.pid] # "exited"
    BY <1>3 DEF IInv, CallType, Life, InOrder, Subject
  <2> QED  BY <1>3, <1>7, <2>1, <2>2, MoveWait
<1>10. Places'
  BY <1>4, <1>6, <1>8, <1>9 DEF Places
<1>11. Stored' /\ Subject' /\ SomeReady'
  BY <1>1, <1>4, <1>6, <1>8, <1>9 DEF InOrder, Stored, Subject, SomeReady
<1>12. Sorted'
  BY <1>1, <1>3, <1>4 DEF InOrder, Sorted, Unsorted
<1> QED  BY <1>4, <1>5, <1>10, <1>11, <1>12 DEF InOrder

\* So does the end of a handler.
LEMMA ReturnKeeps ==
  ASSUME IInv, InOrder, ~Overlap, NEW f \in Signal, NEW label \in Label \ {"wait"}, At(f, label),
         Return(f), NoCall \/ SetTimer(TRUE) \/ SetTimer(FALSE), UNCHANGED <<current, argi>>
  PROVE  /\ Script' /\ Nesting' /\ Undisturbed' /\ OneReport' /\ Launching'
         /\ Worker' = "main" /\ now' = "loop" /\ pc'["main"] = "loop"
         /\ life' = life /\ "SIGUSR1" \notin pending' /\ Held' = {current.pid}
         /\ current.pid \in Pid
<1>1. life' = life /\ status' = status /\ pending' = pending
  BY DEF NoCall, SetTimer
<1>2. /\ Script' /\ Nesting' /\ Undisturbed' /\ Worker' = "main" /\ now' = "loop"
      /\ pc'["main"] = "loop" /\ pc["main"] = "loop" /\ stack' = << >>
      /\ \A s \in Signal : pc'[s] = "idle"
  BY <1>1, ReturnKeepsControl
<1>3. f \in Frame /\ f # "main"
  BY FrameCases
<1>4. /\ current.pid \in Pid /\ "SIGUSR1" \notin pending
      /\ \A p \in Pid : status[p] # "exited"
      /\ Worker = f /\ pc[f] = label
  BY <1>3, StatementFacts, AllReported
<1>5. \A s \in Signal : s # f => pc[s] = "idle"
  BY <1>3, AtFacts
<1>6. OneReport'
  <2>1. "SIGCHLD" \in pending => pc["SIGCHLD"] # "wait"
    BY <1>4, <1>5, FrameCases
  <2>2. pc["SIGCHLD"] # "wait" /\ pc'["SIGCHLD"] = "idle"
    BY <1>2, <1>4, <1>5, FrameCases
  <2>3. Told' <=> Told
    BY <1>1, <2>2 DEF Told
  <2> QED  BY <1>1, <1>4, <2>2, <2>3 DEF InOrder, OneReport
<1>7. Launching'
  BY <1>1, <1>2, <1>4, LaunchingKept
<1>8. Held' = {p \in Pid : p = current'.pid /\ status'[p] # "exited"}
  BY <1>2 DEF Held
<1>9. Held' = {current.pid}
  BY <1>1, <1>4, <1>8
<1> QED  BY <1>1, <1>2, <1>4, <1>6, <1>7, <1>9

LEMMA UnwaitQuiet ==
  ASSUME IInv, InOrder, ~Overlap, Unwait
  PROVE  InOrder'
<1> DEFINE f == "SIGALRM"
<1>1. /\ At(f, "unwait") /\ Return(f) /\ NoCall
      /\ waitQueue' = IF waitQueue = << >> THEN waitQueue ELSE Tail(waitQueue)
      /\ UNCHANGED <<mainList, size, current, runningFlag, argi>>
  BY DEF Unwait, listVars
<1>2. f \in Signal /\ f \in Frame /\ f # "main" /\ "unwait" \in Label \ {"wait"}
  BY FrameCases DEF Label
<1>3. Worker = f /\ now = "unwait" /\ Held = {current.pid} /\ current.pid \in Pid
  BY <1>1, <1>2, StatementFacts
<1>4. /\ Script' /\ Nesting' /\ Undisturbed' /\ OneReport' /\ Launching'
      /\ Worker' = "main" /\ now' = "loop"
      /\ life' = life /\ "SIGUSR1" \notin pending' /\ Held' = {current.pid}
  BY <1>1, <1>2, ReturnKeeps
<1>5. length' = length /\ Ready' = Ready
  BY <1>1, <1>3, <1>4 DEF length, Ready
<1>6. waitQueue # << >> /\ stillWaiting = Tail(waitQueue)
  BY <1>3 DEF InOrder, Stored, stillWaiting
<1>7. stillWaiting' = stillWaiting
  BY <1>1, <1>4, <1>6 DEF stillWaiting
<1>8. Waiting' = Waiting
  BY <1>7 DEF Waiting
<1>9. Given' = Given
  BY <1>3, <1>4 DEF Given
<1>10. Places'
  BY <1>3, <1>4, <1>5, <1>8, <1>9 DEF InOrder, Places
<1>11. Stored' /\ Subject' /\ SomeReady'
  BY <1>1, <1>4, <1>5, <1>8 DEF InOrder, Stored, Subject, SomeReady
<1>12. Sorted'
  BY <1>1, <1>3, <1>4 DEF InOrder, Sorted, Unsorted
<1> QED  BY <1>4, <1>10, <1>11, <1>12 DEF InOrder

LEMMA WakeQuiet ==
  ASSUME IInv, InOrder, ~Overlap, Wake, pc'["main"] # "undefined"
  PROVE  InOrder'
<1> DEFINE f == "SIGALRM"
<1>1. /\ At(f, "wake") /\ NoCall /\ UNCHANGED <<runningFlag, argi>>
      /\ f \in Signal /\ f \in Frame /\ f # "main" /\ "wake" \in Label \ {"wait"}
      /\ "wakegrow" \in Lines(f) \ {"idle", "wait"}
  BY FrameCases DEF Wake, Label, Lines
<1>2. Worker = f /\ now = "wake" /\ Held = {current.pid} /\ current.pid \in Pid
  BY <1>1, StatementFacts
<1>3. CASE waitQueue = << >>
  <2>1. Return(f) /\ UNCHANGED <<mainList, size, waitQueue, current>>
    BY <1>3 DEF Wake, listVars
  <2>2. /\ Script' /\ Nesting' /\ Undisturbed' /\ OneReport' /\ Launching'
        /\ Worker' = "main" /\ now' = "loop"
        /\ life' = life /\ "SIGUSR1" \notin pending' /\ Held' = {current.pid}
    BY <1>1, <2>1, ReturnKeeps
  <2>3. length' = length /\ Ready' = Ready /\ Waiting' = Waiting
    BY <1>2, <2>1, <2>2 DEF length, Ready, Waiting, stillWaiting
  <2>4. Given' = Given
    BY <1>2, <2>2 DEF Given
  <2>5. Places'
    BY <1>2, <2>2, <2>3, <2>4 DEF InOrder, Places
  <2>6. Stored' /\ Subject' /\ SomeReady'
    BY <2>1, <2>2, <2>3 DEF InOrder, Stored, Subject, SomeReady
  <2>7. Sorted'
    BY <1>2, <2>1, <2>2 DEF InOrder, Sorted, Unsorted
  <2> QED  BY <2>2, <2>5, <2>6, <2>7 DEF InOrder
<1>4. CASE waitQueue # << >>
  <2>1. /\ size \in Slot /\ mainList' = [mainList EXCEPT ![size] = Head(waitQueue)]
        /\ Goto(f, "wakegrow")
        /\ UNCHANGED <<size, waitQueue, current>>
    <3>1. ~OutOfBounds
      BY FrameCases DEF OutOfBounds, IInv, ControlType
    <3> QED  BY <1>4, <3>1 DEF Wake, Put
  <2>2. /\ Script' /\ Nesting' /\ Undisturbed' /\ OneReport' /\ Worker' = f /\ now' = "wakegrow"
        /\ pc["main"] = "loop" /\ pc'["main"] = "loop"
        /\ life' = life /\ "SIGUSR1" \notin pending' /\ Held' = {current.pid}
    BY <1>1, <1>2, <2>1, StatementKeeps
  <2>3. Launching'
    BY <1>1, <1>2, <2>1, <2>2, LaunchingKept
  <2>4. length = size /\ length' = size + 1 /\ size \in Nat /\ size + 1 \in 0 .. Slots
    BY <1>2, <2>1, <2>2, SchedulerPRAssumption DEF length, Slot
  <2>5. /\ Ready = First(mainList, size) /\ Ready \in Seq(Pid) /\ mainList \in [Slot -> Process]
        /\ Waiting = Pids(waitQueue) /\ Waiting \in Seq(Pid) /\ waitQueue \in Seq(Process)
    BY <1>2, <2>4 DEF Ready, Waiting, stillWaiting, InOrder, Stored, IInv, SchedulerType
  <2>6. /\ Waiting # << >> /\ Head(waitQueue) \in Process /\ Head(waitQueue).pid = Head(Waiting)
        /\ Pids(Tail(waitQueue)) = Tail(Waiting)
    BY <1>4, <2>5, PidsTail
  <2>7. Waiting' = Tail(Waiting)
    BY <2>1, <2>2, <2>6 DEF Waiting, stillWaiting
  <2>8. /\ PlacesOf({current.pid}, Append(Ready, Head(Waiting)), Tail(Waiting), life, "running")
        /\ Append(Ready, Head(Waiting)) \in Seq(Pid) /\ Tail(Waiting) \in Seq(Pid)
    <3>1. PlacesOf({current.pid}, Ready, Waiting, life, "running")
      BY <1>2 DEF InOrder, Places, Given
    <3>2. life \in [Pid -> Life]
      BY DEF IInv, CallType, Life
    <3> QED  BY <2>5, <2>6, <3>1, <3>2, MoveWake
  <2>9. Ready' = Append(Ready, Head(Waiting))
    <3>1. Head(Waiting) \in Pid
      BY <2>5, <2>6, HeadTailProperties
    <3> QED  BY <2>1, <2>4, <2>5, <2>6, <3>1, FirstPut DEF Ready
  <2>10. Given' = "running"
    BY <2>2 DEF Given
  <2>11. Places'
    BY <2>2, <2>7, <2>8, <2>9, <2>10 DEF Places
  <2>12. Stored'
    BY <1>4, <2>1, <2>2, <2>4, <2>7, <2>8, <2>9 DEF InOrder, Stored
  <2>13. Subject' /\ SomeReady' /\ Sorted'
    BY <2>2 DEF Subject, SomeReady, Sorted, Unsorted
  <2> QED  BY <2>2, <2>3, <2>11, <2>12, <2>13 DEF InOrder
<1> QED  BY <1>3, <1>4

LEMMA PreemptQuiet ==
  ASSUME IInv, InOrder, ~Overlap, NEW f \in {"SIGALRM", "SIGUSR1"}, Preempt(f)
  PROVE  InOrder'
<1> DEFINE next == IF f = "SIGALRM" THEN "decay" ELSE "park"
           p == current.pid
<1>1. /\ At(f, "stop") /\ Goto(f, next) /\ UNCHANGED <<mainList, size, waitQueue, current, runningFlag, argi>>
      /\ IF current.pid # None THEN KillStop(current.pid) ELSE NoCall
  BY DEF Preempt, listVars
<1>2. /\ f \in Frame /\ f # "main" /\ f # "SIGCHLD"
      /\ "stop" \in Label \ {"wait"} /\ next \in Lines(f) \ {"idle", "wait"}
  BY FrameCases DEF Label, Lines
<1>3. Worker = f /\ now = "stop" /\ Held = {p} /\ p \in Pid /\ "SIGUSR1" \notin pending
  BY <1>1, <1>2, StatementFacts
<1>4. KillStop(p)
  BY <1>1, <1>3, PidFacts
<1>5. /\ \A q \in Pid : status[q] = "none"
      /\ "SIGCHLD" \notin pending
  BY <1>1, <1>2, AllReported, AtFacts
<1>6. PlacesOf({p}, Ready, Waiting, life, "running") /\ life \in [Pid -> Life]
  BY <1>3 DEF InOrder, Places, Given, IInv, CallType, Life
<1>7. life[p] \in {"running", "exited"}
  BY <1>3, <1>6 DEF PlacesOf
<1> HIDE DEF next
<1>8. /\ pending' \subseteq pending \cup {"SIGCHLD"}
      /\ PlacesOf({p}, Ready, Waiting, life', "stopped")
      /\ pc'["SIGCHLD"] = "idle" => OneReport'
      /\ \A q \in Pid : life'[q] = "unborn" <=> life[q] = "unborn"
      /\ life[p] # "exited" => life'[p] # "exited"
  <2>1. CASE life[p] = "running"
    <3>1. /\ life' = [life EXCEPT ![p] = "stopped"]
          /\ status' = [status EXCEPT ![p] = "stopped"]
          /\ pending' = pending \cup {"SIGCHLD"} /\ life' \in [Pid -> Life]
      BY <1>3, <1>4, <2>1, StopOne
    <3>2. PlacesOf({p}, Ready, Waiting, life', "stopped")
      BY <1>3, <1>6, <2>1, <3>1, MoveStop
    <3>3. pc'["SIGCHLD"] = "idle" => OneReport'
      BY <1>3, <1>5, <3>1, ReportMade
    <3> QED  BY <1>3, <1>6, <2>1, <3>1, <3>2, <3>3
  <2>2. CASE life[p] = "exited"
    <3>1. life' = life /\ status' = status /\ pending' = pending
      BY <1>3, <1>4, <2>2, KillGhost
    <3>2. PlacesOf({p}, Ready, Waiting, life', "stopped")
      BY <1>3, <1>6, <2>2, <3>1, MoveGhost
    <3>3. pc'["SIGCHLD"] = "idle" => OneReport'
      BY <1>5, <3>1, ReportKept
    <3> QED  BY <3>1, <3>2, <3>3
  <2> QED  BY <1>7, <2>1, <2>2
<1>9. /\ Script' /\ Nesting' /\ Undisturbed' /\ Worker' = f /\ now' = next
      /\ pc["main"] = "loop" /\ pc'["main"] = "loop" /\ pc'["SIGCHLD"] = "idle"
  BY <1>1, <1>2, <1>8, GotoKeepsControl
<1>10. OneReport'
  BY <1>8, <1>9
<1>11. Launching'
  BY <1>1, <1>3, <1>8, <1>9, LaunchingKept
<1>12. next \in {"decay", "park"} /\ (f = "SIGALRM" => next = "decay")
  BY DEF next
<1>13. Held' = {p}
  <2>1. Held' = {q \in Pid : q = current'.pid /\ status'[q] # "exited"}
    BY <1>9, <1>12 DEF Held
  <2>2. \A q \in Pid : status'[q] # "exited"
    BY <1>2, <1>9, <1>10 DEF OneReport
  <2> QED  BY <1>1, <1>3, <2>1, <2>2
<1>14. length' = length /\ Ready' = Ready /\ Waiting' = Waiting /\ Given' = "stopped"
  BY <1>1, <1>3, <1>9, <1>12 DEF length, Ready, Waiting, stillWaiting, Given
<1>15. Places'
  BY <1>8, <1>13, <1>14 DEF Places
<1>16. Stored' /\ SomeReady'
  BY <1>1, <1>9, <1>12, <1>14 DEF InOrder, Stored, SomeReady
<1>17. Sorted'
  BY <1>1, <1>2, <1>3, <1>9, <1>12 DEF InOrder, Sorted, Unsorted
<1>18. Subject'
  BY <1>1, <1>2, <1>3, <1>8, <1>9, <1>12 DEF InOrder, Subject
<1> QED  BY <1>9, <1>10, <1>11, <1>15, <1>16, <1>17, <1>18 DEF InOrder

LEMMA ResumeQuiet ==
  ASSUME IInv, InOrder, ~Overlap, NEW f \in Frame, Resume(f)
  PROVE  InOrder'
<1> DEFINE p == current.pid
<1>1. /\ At(f, "cont") /\ Goto(f, "rearm") /\ UNCHANGED <<mainList, size, waitQueue, current, runningFlag, argi>>
      /\ IF current.pid = None /\ f \in {"SIGALRM", "SIGUSR1"} THEN NoCall ELSE KillCont(current.pid)
  BY DEF Resume, listVars
<1>2. "cont" \in Label \ {"wait"} /\ "rearm" \in Lines(f) \ {"idle", "wait"}
  BY FrameCases DEF Label, Lines
<1>3. /\ Worker = f /\ now = "cont" /\ Held = {p} /\ p \in Pid /\ "SIGUSR1" \notin pending
      /\ pc[f] = "cont"
  BY <1>1, <1>2, StatementFacts
<1>4. KillCont(p)
  BY <1>1, <1>3, PidFacts
<1>5. /\ \A q \in Pid : status[q] = "none"
      /\ "SIGCHLD" \notin pending
  BY <1>1, <1>2, AllReported, AtFacts
<1>6. PlacesOf({p}, Ready, Waiting, life, "stopped") /\ life \in [Pid -> Life]
  BY <1>3 DEF InOrder, Places, Given, IInv, CallType, Life
<1>7. life[p] \in {"stopped", "exited"}
  BY <1>3, <1>6 DEF PlacesOf
<1>8. /\ pending' \subseteq pending \cup {"SIGCHLD"}
      /\ PlacesOf({p}, Ready, Waiting, life', "running")
      /\ pc'["SIGCHLD"] \in {"idle", "rearm"} => OneReport'
      /\ \A q \in Pid : /\ life'[q] = "unborn" <=> life[q] = "unborn"
                        /\ life'[q] = "exited" <=> life[q] = "exited"
  <2>1. CASE life[p] = "stopped"
    <3>1. /\ life' = [life EXCEPT ![p] = "running"]
          /\ status' = [status EXCEPT ![p] = "continued"]
          /\ pending' = pending \cup {"SIGCHLD"} /\ life' \in [Pid -> Life]
      BY <1>3, <1>4, <2>1, ContOne
    <3>2. PlacesOf({p}, Ready, Waiting, life', "running")
      BY <1>3, <1>6, <2>1, <3>1, MoveRun
    <3>3. pc'["SIGCHLD"] \in {"idle", "rearm"} => OneReport'
      BY <1>3, <1>5, <3>1, ReportMade
    <3> QED  BY <1>3, <1>6, <2>1, <3>1, <3>2, <3>3
  <2>2. CASE life[p] = "exited"
    <3>1. life' = life /\ status' = status /\ pending' = pending
      BY <1>3, <1>4, <2>2, KillGhost
    <3>2. PlacesOf({p}, Ready, Waiting, life', "running")
      BY <1>3, <1>6, <2>2, <3>1, MoveGhost
    <3>3. pc'["SIGCHLD"] \in {"idle", "rearm"} => OneReport'
      BY <1>5, <3>1, ReportKept
    <3> QED  BY <3>1, <3>2, <3>3
  <2> QED  BY <1>7, <2>1, <2>2
<1>9. /\ Script' /\ Nesting' /\ Undisturbed' /\ Worker' = f /\ now' = "rearm"
      /\ f # "main" => pc'["main"] = "loop" /\ pc["main"] = "loop"
      /\ pc'[f] = "rearm" /\ pc'["SIGCHLD"] \in {"idle", "rearm"}
  BY <1>1, <1>2, <1>8, GotoKeepsControl
<1>10. OneReport'
  BY <1>8, <1>9
<1>11. Launching'
  BY <1>1, <1>3, <1>8, <1>9, LaunchingStep
<1>12. Held' = {p}
  <2>1. Held' = {q \in Pid : q = current'.pid /\ status'[q] # "exited"}
    BY <1>9 DEF Held
  <2>2. \A q \in Pid : status'[q] # "exited"
    BY <1>9, <1>10 DEF OneReport
  <2> QED  BY <1>1, <1>3, <2>1, <2>2
<1>13. length' = length /\ Ready' = Ready /\ Waiting' = Waiting /\ Given' = "running"
  BY <1>1, <1>3, <1>9 DEF length, Ready, Waiting, stillWaiting, Given
<1>14. Places'
  BY <1>8, <1>12, <1>13 DEF Places
<1>15. Stored' /\ SomeReady'
  BY <1>1, <1>9, <1>13 DEF InOrder, Stored, SomeReady
<1>16. Sorted'
  BY <1>1, <1>3, <1>9 DEF InOrder, Sorted, Unsorted
<1>17. Subject'
  BY <1>3, <1>8, <1>9 DEF Subject
<1> QED  BY <1>9, <1>10, <1>11, <1>14, <1>15, <1>16, <1>17 DEF InOrder

\* Places, lists and order stay while the label changes between these.
Calm == {"rearm", "wake", "loop", "done"}

LEMMA CalmKept ==
  ASSUME IInv, InOrder, now \in Calm, now' \in Calm, Held' = Held, life' = life,
         UNCHANGED <<mainList, size, waitQueue, current>>,
         "SIGUSR1" \notin pending'
  PROVE  Places' /\ Stored' /\ Subject' /\ Sorted' /\ SomeReady'
<1>1. length' = length
  BY DEF length, Calm
<1>2. Ready' = Ready /\ Waiting' = Waiting
  BY <1>1 DEF Ready, Waiting, stillWaiting, Calm
<1>3. Given' = Given
  BY DEF Given, Calm
<1>4. Places'
  BY <1>2, <1>3 DEF InOrder, Places
<1>5. Stored'
  BY <1>1, <1>2 DEF InOrder, Stored, Calm
<1>6. Subject' /\ SomeReady'
  BY DEF Subject, SomeReady, Calm
<1>7. Sorted'
  BY DEF InOrder, Sorted, Unsorted, Calm
<1> QED  BY <1>4, <1>5, <1>6, <1>7

LEMMA RearmQuiet ==
  ASSUME IInv, InOrder, ~Overlap, NEW f \in Frame, Rearm(f)
  PROVE  InOrder'
<1>1. /\ At(f, "rearm") /\ SetTimer(TRUE)
      /\ UNCHANGED <<mainList, size, waitQueue, current, runningFlag, argi>>
      /\ "rearm" \in Label \ {"wait"}
  BY DEF Rearm, listVars, Label
<1>2. /\ Worker = f /\ now = "rearm" /\ Held = {current.pid} /\ current.pid \in Pid
      /\ pc[f] = "rearm"
  BY <1>1, StatementFacts
<1>3. CASE f \in {"main", "SIGALRM"}
  <2> DEFINE next == IF f = "main" THEN "loop" ELSE "wake"
  <2>1. Goto(f, next) /\ next \in Lines(f) \ {"idle", "wait"}
    BY <1>3 DEF Rearm, Lines
  <2>2. next \in {"loop", "wake"} /\ (f = "main" => next = "loop") /\ next \in Calm
    BY DEF Calm
  <2> HIDE DEF next
  <2>3. /\ Script' /\ Nesting' /\ Undisturbed' /\ OneReport' /\ Worker' = f /\ now' = next
        /\ f # "main" => pc["main"] = "loop" /\ pc'["main"] = "loop"
        /\ pc'[f] = next
        /\ life' = life /\ "SIGUSR1" \notin pending' /\ Held' = {current.pid}
    BY <1>1, <1>2, <1>3, <2>1, <2>2, StatementKeeps
  <2>4. Launching'
    BY <1>1, <1>2, <2>2, <2>3, LaunchingStep
  <2>5. Places' /\ Stored' /\ Subject' /\ Sorted' /\ SomeReady'
    BY <1>1, <1>2, <2>2, <2>3, CalmKept DEF Calm
  <2> QED  BY <2>3, <2>4, <2>5 DEF InOrder
<1>4. CASE f \notin {"main", "SIGALRM"}
  <2>1. Return(f) /\ f \in Signal
    BY <1>4, FrameCases DEF Rearm
  <2>2. /\ Script' /\ Nesting' /\ Undisturbed' /\ OneReport' /\ Launching'
        /\ Worker' = "main" /\ now' = "loop"
        /\ life' = life /\ "SIGUSR1" \notin pending' /\ Held' = {current.pid}
    BY <1>1, <2>1, ReturnKeeps
  <2>3. Places' /\ Stored' /\ Subject' /\ Sorted' /\ SomeReady'
    BY <1>1, <1>2, <2>2, CalmKept DEF Calm
  <2> QED  BY <2>2, <2>3 DEF InOrder
<1> QED  BY <1>3, <1>4

LEMMA LeaveQuiet ==
  ASSUME IInv, InOrder, ~Overlap, Leave
  PROVE  InOrder'
<1>1. /\ At("main", "loop") /\ Goto("main", "done") /\ NoCall
      /\ UNCHANGED <<mainList, size, waitQueue, current, runningFlag, argi>>
      /\ "loop" \in Label \ {"wait"} /\ "main" \in Frame
      /\ "done" \in Lines("main") \ {"idle", "wait"}
  BY FrameCases DEF Leave, listVars, Label, Lines
<1>2. /\ Worker = "main" /\ now = "loop" /\ Held = {current.pid} /\ current.pid \in Pid
      /\ pc["main"] = "loop"
  BY <1>1, StatementFacts
<1>3. /\ Script' /\ Nesting' /\ Undisturbed' /\ OneReport' /\ Worker' = "main" /\ now' = "done"
      /\ pc'["main"] = "done" /\ life' = life /\ "SIGUSR1" \notin pending'
  BY <1>1, StatementKeeps
<1>4. Held' = Held
  <2>1. Held' = {q \in Pid : q = current'.pid /\ status'[q] # "exited"}
    BY <1>3 DEF Held
  <2>2. \A q \in Pid : status'[q] # "exited"
    BY <1>3 DEF OneReport
  <2> QED  BY <1>1, <1>2, <2>1, <2>2
<1>5. Launching'
  BY <1>1, <1>2, <1>3 DEF InOrder, Launching
<1>6. Places' /\ Stored' /\ Subject' /\ Sorted' /\ SomeReady'
  BY <1>1, <1>2, <1>3, <1>4, CalmKept DEF Calm
<1> QED  BY <1>3, <1>5, <1>6 DEF InOrder

LEMMA CancelQuiet ==
  ASSUME IInv, InOrder, DoneMeansAllExited, ~Overlap, Cancel
  PROVE  InOrder'
<1> DEFINE f == "SIGCHLD"
<1>1. /\ At(f, "cancel") /\ SetTimer(FALSE) /\ Return(f)
      /\ UNCHANGED <<mainList, size, waitQueue, current, runningFlag, argi>>
      /\ f \in Signal /\ f \in Frame /\ f # "main" /\ "cancel" \in Label \ {"wait"}
  BY FrameCases DEF Cancel, listVars, Label
<1>2. Worker = f /\ now = "cancel" /\ Held = {current.pid} /\ current.pid \in Pid /\ pc[f] = "cancel"
  BY <1>1, StatementFacts
<1>3. /\ Script' /\ Nesting' /\ Undisturbed' /\ OneReport' /\ Launching'
      /\ Worker' = "main" /\ now' = "loop"
      /\ life' = life /\ "SIGUSR1" \notin pending' /\ Held' = {current.pid}
  BY <1>1, ReturnKeeps
<1>4. length' = length /\ Ready' = Ready /\ Waiting' = Waiting
  BY <1>1, <1>2, <1>3 DEF length, Ready, Waiting, stillWaiting
<1>5. Places'
  <2>1. life[current.pid] = "exited" /\ life \in [Pid -> Life]
    BY <1>2 DEF IInv, CancelLast, DoneMeansAllExited, CallType, Life
  <2>2. PlacesOf({current.pid}, Ready, Waiting, life, Given)
    BY <1>2 DEF InOrder, Places
  <2>3. PlacesOf({current.pid}, Ready, Waiting, life, Given')
    BY <1>2, <2>1, <2>2, MoveGhost
  <2> QED  BY <1>3, <1>4, <2>3 DEF Places
<1>6. Stored' /\ Subject' /\ SomeReady'
  BY <1>1, <1>3, <1>4 DEF InOrder, Stored, Subject, SomeReady
<1>7. Sorted'
  BY <1>1, <1>2, <1>3 DEF InOrder, Sorted, Unsorted
<1> QED  BY <1>3, <1>5, <1>6, <1>7 DEF InOrder

LEMMA TestIdleQuiet ==
  ASSUME IInv, InOrder, DoneMeansAllExited, ~Overlap, TestIdle
  PROVE  InOrder' /\ DoneMeansAllExited'
<1> DEFINE f == "SIGCHLD"
           next == IF size # 0 THEN "pick" ELSE IF waitQueue = << >> THEN "cancel" ELSE "rearm"
           p == current.pid
<1>1. /\ At(f, "test") /\ NoCall /\ Goto(f, next)
      /\ UNCHANGED <<mainList, size, waitQueue, current, argi>>
      /\ runningFlag' = (runningFlag /\ ~(size = 0 /\ waitQueue = << >>))
      /\ f \in Frame /\ f # "main" /\ "test" \in Label \ {"wait"}
      /\ next \in Lines(f) \ {"idle", "wait"}
  BY FrameCases DEF TestIdle, listVars, Label, Lines
<1>2. /\ next = "pick" => size # 0
      /\ next # "pick" => size = 0 /\ next \in {"cancel", "rearm"}
  OBVIOUS
<1> HIDE DEF next
<1>3. Worker = f /\ now = "test" /\ Held = {} /\ p \in Pid
  BY <1>1, StatementFacts
<1>4. /\ Script' /\ Nesting' /\ Undisturbed' /\ OneReport' /\ Worker' = f /\ now' = next
      /\ pc["main"] = "loop" /\ pc'["main"] = "loop"
      /\ life' = life /\ "SIGUSR1" \notin pending'
      /\ Held' = IF next = "pick" THEN {} ELSE {p}
  BY <1>1, <1>2, <1>3, StatementKeeps
<1>5. Launching'
  BY <1>1, <1>3, <1>4, LaunchingKept
<1>6. length = size /\ length' = size /\ size \in Nat /\ Ready' = Ready /\ Waiting' = Waiting
  BY <1>1, <1>2, <1>3, <1>4 DEF length, Ready, Waiting, stillWaiting, InOrder, Stored
<1>7. size = 0 => Ready = << >>
  BY <1>6 DEF Ready, First
<1>8. PlacesOf({}, Ready, Waiting, life, Given) /\ life[p] = "exited" /\ life \in [Pid -> Life]
  BY <1>3 DEF InOrder, Places, Subject, IInv, CallType, Life
<1>9. Places'
  <2>1. CASE next = "pick"
    <3>1. PlacesOf({}, Ready, Waiting, life, Given')
      BY <1>8, MoveNone
    <3> QED  BY <1>4, <1>6, <2>1, <3>1 DEF Places
  <2>2. CASE next # "pick"
    <3>1. PlacesOf({p}, Ready, Waiting, life, Given')
      BY <1>2, <1>3, <1>7, <1>8, <2>2, MoveBury
    <3> QED  BY <1>4, <1>6, <2>2, <3>1 DEF Places
  <2> QED  BY <2>1, <2>2
<1>10. Stored' /\ Subject'
  BY <1>1, <1>2, <1>4, <1>6 DEF InOrder, Stored, Subject
<1>11. SomeReady'
  BY <1>1, <1>2, <1>4, <1>6 DEF SomeReady
<1>12. Sorted'
  BY <1>1, <1>3, <1>4 DEF InOrder, Sorted, Unsorted
<1>13. DoneMeansAllExited'
  <2>1. CASE runningFlag' = runningFlag
    BY <1>4, <2>1, DoneKept
  <2>2. CASE size = 0 /\ waitQueue = << >>
    <3>1. Ready = << >> /\ Waiting = << >>
      BY <1>3, <1>7, <2>2, PidsNone DEF Waiting, stillWaiting
    <3>2. \A q \in Pid : life[q] \notin {"running", "stopped"}
      BY <1>8, <3>1, EmptyHasNone DEF PlacesOf
    <3>3. argi = N /\ \A q \in Pid : life[q] = "unborn" <=> q > argi
      BY <1>4 DEF InOrder, Launching
    <3>4. \A q \in Pid : life[q] # "unborn"
      BY <3>3 DEF Pid
    <3>5. \A q \in Pid : life[q] = "exited"
      BY <1>8, <3>2, <3>4 DEF Life
    <3> QED  BY <1>4, <3>5 DEF DoneMeansAllExited
  <2> QED  BY <1>1, <2>1, <2>2 DEF IInv, SchedulerType
<1> QED  BY <1>4, <1>5, <1>9, <1>10, <1>11, <1>12, <1>13 DEF InOrder

LEMMA LaunchQuiet ==
  ASSUME IInv, InOrder, ~Overlap, Launch
  PROVE  InOrder'
<1>1. /\ At("main", "fork") /\ "main" \in Frame /\ "fork" \in Label \ {"wait"}
      /\ UNCHANGED <<mainList, size, waitQueue, current, runningFlag>>
      /\ {"stop", "sort"} \subseteq Lines("main") \ {"idle", "wait"}
  BY FrameCases DEF Launch, listVars, Label, Lines
<1>2. /\ Worker = "main" /\ now = "fork" /\ Held = {} /\ pc["main"] = "fork"
      /\ "SIGUSR1" \notin pending
  BY <1>1, StatementFacts
<1>3. CASE argi < N
  <2>1. /\ argi' = argi + 1 /\ Fork(argi + 1) /\ Goto("main", "stop")
        /\ life' = [life EXCEPT ![argi + 1] = "running"] /\ status' = status /\ pending' = pending
    BY <1>3 DEF Launch, Fork
  <2>2. /\ Script' /\ Nesting' /\ Undisturbed' /\ Worker' = "main" /\ now' = "stop"
        /\ pc'["main"] = "stop" /\ pc'["SIGCHLD"] = "idle"
    BY <1>1, <2>1, GotoKeepsControl
  <2>3. OneReport'
    <3>1. (\A p \in Pid : status[p] = "none") /\ "SIGCHLD" \notin pending
      BY <1>1, AllReported, AtFacts
    <3> QED  BY <2>1, <2>2, <3>1, ReportKept
  <2>4. argi \in Nat /\ argi + 1 \in Pid /\ life \in [Pid -> Life]
    BY <1>3 DEF IInv, SchedulerType, CallType, Pid, Life
  <2>5. \A p \in Pid : life[p] = "unborn" <=> p > argi
    BY DEF InOrder, Launching
  <2>6. life[argi + 1] = "unborn"
    BY <2>4, <2>5
  <2>7. life' \in [Pid -> Life]
    BY <2>1, <2>4 DEF Life
  <2>8. \A p \in Pid : life'[p] = "unborn" <=> p > argi'
    <3> SUFFICES ASSUME NEW p \in Pid PROVE life'[p] = "unborn" <=> p > argi'
      OBVIOUS
    <3>1. life'[p] = IF p = argi + 1 THEN "running" ELSE life[p]
      BY <2>1, <2>4
    <3>2. p \in Nat
      BY DEF Pid
    <3> QED  BY <2>1, <2>4, <2>5, <3>1, <3>2
  <2>9. Launching'
    BY <1>1, <1>2, <2>1, <2>2, <2>4, <2>8 DEF InOrder, Launching
  <2>10. Held' = {argi + 1}
    BY <2>1, <2>2 DEF Held
  <2>11. length' = length /\ Ready' = Ready /\ Waiting' = Waiting /\ Given' = "running"
    BY <1>1, <1>2, <2>2 DEF length, Ready, Waiting, stillWaiting, Given
  <2>12. PlacesOf({argi + 1}, Ready, Waiting, life', "running")
    <3>1. PlacesOf({}, Ready, Waiting, life, Given)
      BY <1>2 DEF InOrder, Places
    <3> QED  BY <2>1, <2>4, <2>6, <2>7, <3>1, MoveFork
  <2>13. Places'
    BY <2>10, <2>11, <2>12 DEF Places
  <2>14. Stored' /\ Subject' /\ Sorted' /\ SomeReady'
    BY <1>1, <1>2, <2>1, <2>2, <2>11 DEF InOrder, Stored, Subject, Sorted, Unsorted, SomeReady
  <2> QED  BY <2>2, <2>3, <2>9, <2>13, <2>14 DEF InOrder
<1>4. CASE ~(argi < N)
  <2>1. Goto("main", "sort") /\ NoCall /\ argi' = argi
    BY <1>4 DEF Launch
  <2>2. /\ Script' /\ Nesting' /\ Undisturbed' /\ OneReport' /\ Worker' = "main" /\ now' = "sort"
        /\ pc'["main"] = "sort" /\ life' = life /\ "SIGUSR1" \notin pending' /\ Held' = {}
    BY <1>1, <2>1, StatementKeeps
  <2>3. argi = N
    BY <1>4 DEF IInv, SchedulerType
  <2>4. Launching'
    BY <1>1, <1>2, <2>1, <2>2, <2>3 DEF InOrder, Launching
  <2>5. length' = length /\ Ready' = Ready /\ Waiting' = Waiting
    BY <1>1, <1>2, <2>2 DEF length, Ready, Waiting, stillWaiting
  <2>6. PlacesOf({}, Ready, Waiting, life, Given')
    BY <1>2, MoveNone DEF InOrder, Places
  <2>7. Places'
    BY <2>2, <2>5, <2>6 DEF Places
  <2>8. Stored' /\ Subject' /\ Sorted' /\ SomeReady'
    BY <1>1, <1>2, <2>2, <2>5 DEF InOrder, Stored, Subject, Sorted, Unsorted, SomeReady
  <2> QED  BY <2>2, <2>4, <2>7, <2>8 DEF InOrder
<1> QED  BY <1>3, <1>4

LEMMA LaunchStopQuiet ==
  ASSUME IInv, InOrder, ~Overlap, LaunchStop
  PROVE  InOrder'
<1>1. /\ At("main", "stop") /\ "main" \in Frame /\ "stop" \in Label \ {"wait"}
      /\ UNCHANGED <<mainList, size, waitQueue, current, runningFlag, argi>>
      /\ KillStop(argi) /\ Goto("main", "put") /\ "put" \in Lines("main") \ {"idle", "wait"}
  BY FrameCases DEF LaunchStop, listVars, Label, Lines
<1>2. /\ Worker = "main" /\ now = "stop" /\ pc["main"] = "stop" /\ "SIGUSR1" \notin pending
  BY <1>1, StatementFacts
<1>3. argi \in Pid /\ Held = {argi} /\ Given = "running"
  BY <1>2 DEF InOrder, Launching, Held, Given
<1>4. PlacesOf({argi}, Ready, Waiting, life, "running") /\ life \in [Pid -> Life]
  BY <1>3 DEF InOrder, Places, IInv, CallType, Life
<1>5. life[argi] = "running"
  <2>1. life[argi] # "exited"
    BY <1>2, <1>3 DEF InOrder, Launching
  <2> QED  BY <1>3, <1>4, <2>1 DEF PlacesOf
<1>6. /\ life' = [life EXCEPT ![argi] = "stopped"]
      /\ status' = [status EXCEPT ![argi] = "stopped"]
      /\ pending' = pending \cup {"SIGCHLD"} /\ life' \in [Pid -> Life]
  BY <1>1, <1>3, <1>5, StopOne
<1>7. /\ Script' /\ Nesting' /\ Undisturbed' /\ Worker' = "main" /\ now' = "put"
      /\ pc'["main"] = "put" /\ pc'["SIGCHLD"] = "idle"
  BY <1>1, <1>6, GotoKeepsControl
<1>8. OneReport'
  <2>1. \A p \in Pid : status[p] = "none"
    BY <1>1, AllReported
  <2> QED  BY <1>3, <1>6, <1>7, <2>1, ReportMade
<1>9. Launching'
  <2>1. \A p \in Pid : /\ life'[p] = "unborn" <=> life[p] = "unborn"
                       /\ life'[p] # "exited"
    BY <1>2, <1>3, <1>4, <1>5, <1>6 DEF InOrder, Launching
  <2> QED  BY <1>1, <1>2, <1>3, <1>7, <2>1 DEF InOrder, Launching
<1>10. PlacesOf({argi}, Ready, Waiting, life', "stopped")
  BY <1>3, <1>4, <1>5, <1>6, MoveStop
<1>11. /\ length' = length /\ Ready' = Ready /\ Waiting' = Waiting /\ Given' = "stopped"
       /\ Held' = {argi}
  BY <1>1, <1>2, <1>7 DEF length, Ready, Waiting, stillWaiting, Given, Held
<1>12. Places'
  BY <1>10, <1>11 DEF Places
<1>13. Stored' /\ Subject' /\ Sorted' /\ SomeReady'
  BY <1>1, <1>2, <1>6, <1>7, <1>11 DEF InOrder, Stored, Subject, Sorted, Unsorted, SomeReady
<1> QED  BY <1>7, <1>8, <1>9, <1>12, <1>13 DEF InOrder

-----------------------------------------------------------------------------
(* waitpid(), delivery and what happens in quiet moments.                  *)

LEMMA ReapFacts ==
  ASSUME IInv, InOrder, NEW exited \in BOOLEAN, At("SIGCHLD", "wait"), WaitPid(exited)
  PROVE  /\ \A q \in Pid : status'[q] = "none"
         /\ exited => \E p \in Pid : status[p] = "exited"
         /\ ~exited => \A p \in Pid : status[p] # "exited"
<1>1. pc["SIGCHLD"] = "wait"
  BY DEF At
<1>2. PICK p \in Pid : status[p] # "none" /\ \A q \in Pid : q # p => status[q] = "none"
  BY <1>1 DEF InOrder, OneReport, Told
<1>3. PICK r \in Pid : /\ status[r] # "none" /\ exited = (status[r] = "exited")
                       /\ status' = [status EXCEPT ![r] = "none"]
  BY <1>2 DEF WaitPid
<1>4. r = p
  BY <1>2, <1>3
<1>5. \A q \in Pid : status'[q] = "none"
  BY <1>2, <1>3, <1>4 DEF IInv, CallType
<1>6. exited => status[p] = "exited"
  BY <1>3, <1>4
<1>7. ~exited => \A q \in Pid : status[q] # "exited"
  BY <1>2, <1>3, <1>4
<1> QED  BY <1>5, <1>6, <1>7

LEMMA ReapQuiet ==
  ASSUME IInv, InOrder, ~Overlap, NEW exited \in BOOLEAN, Reap(exited)
  PROVE  InOrder'
<1>1. /\ At("SIGCHLD", "wait") /\ WaitPid(exited)
      /\ IF exited THEN Goto("SIGCHLD", "test") ELSE Return("SIGCHLD")
      /\ UNCHANGED <<mainList, size, waitQueue, current, runningFlag, argi>>
      /\ life' = life /\ pending' = pending
  BY DEF Reap, WaitPid, listVars
<1>2. /\ pc["SIGCHLD"] = "wait" /\ stack # << >>
      /\ pc \in [Frame -> Label \cup {"idle"}]
      /\ "SIGALRM" \notin pending /\ "SIGUSR1" \notin pending /\ "SIGCHLD" \notin pending
      /\ Worker \in {"SIGALRM", "SIGUSR1", "main"}
  BY <1>1, FrameCases DEF At, IInv, ControlType, InOrder, Undisturbed, OneReport, Worker
<1>3. /\ \A q \in Pid : status'[q] = "none"
      /\ exited => \E p \in Pid : status[p] = "exited"
      /\ ~exited => \A p \in Pid : status[p] # "exited"
  BY <1>1, ReapFacts
<1>4. CASE exited
  <2>1. PICK p \in Pid : status[p] = "exited"
    BY <1>3, <1>4
  <2>2. p = current.pid /\ life[p] = "exited" /\ Worker = "main" /\ pc["main"] = "loop"
    BY <2>1 DEF InOrder, OneReport
  <2>3. now = "loop" /\ stack = <<"SIGCHLD">>
    BY <1>2, <2>2 DEF now, InOrder, Nesting
  <2>4. pc' = [pc EXCEPT !["SIGCHLD"] = "test"] /\ stack' = stack
    BY <1>1, <1>4 DEF Goto
  <2>5. /\ pc'["SIGCHLD"] = "test" /\ pc'["main"] = "loop"
        /\ pc["SIGALRM"] = "idle" /\ pc["SIGUSR1"] = "idle"
        /\ pc'["SIGALRM"] = "idle" /\ pc'["SIGUSR1"] = "idle"
    <3>1. pc["SIGALRM"] = "idle" /\ pc["SIGUSR1"] = "idle"
      BY <2>2, FrameCases DEF Worker
    <3> QED  BY <1>2, <2>2, <2>4, <3>1, FrameCases
  <2>6. Worker' = "SIGCHLD"
    BY <2>5 DEF Worker
  <2>7. now' = "test"
    BY <2>5, <2>6 DEF now
  <2>8. Script'
    BY <2>5, FrameCases DEF Script, Lines
  <2>9. Nesting'
    BY <2>3, <2>4, <2>5, <2>6 DEF Nesting
  <2>10. Undisturbed'
    BY <1>1, <1>2 DEF Undisturbed
  <2>11. OneReport'
    BY <1>1, <1>2, <1>3, <2>5 DEF OneReport, Told
  <2>12. Launching'
    BY <1>1, <2>2, <2>5, LaunchingKept
  <2>13. Held = {}
    BY <2>1, <2>2, <2>3 DEF Held
  <2>14. /\ Held' = {} /\ length' = length /\ Ready' = Ready /\ Waiting' = Waiting
    BY <1>1, <2>3, <2>6, <2>7 DEF Held, length, Ready, Waiting, stillWaiting
  <2>15. PlacesOf({}, Ready, Waiting, life, Given')
    BY <2>13, MoveNone DEF InOrder, Places
  <2>16. Places'
    BY <1>1, <2>14, <2>15 DEF Places
  <2>17. Stored' /\ SomeReady'
    BY <1>1, <2>6, <2>7, <2>14 DEF InOrder, Stored, SomeReady
  <2>18. Subject'
    BY <1>1, <1>2, <2>2, <2>6, <2>7 DEF Subject
  <2>19. Sorted'
    BY <1>1, <2>2, <2>3, <2>6, <2>7 DEF InOrder, Sorted, Unsorted
  <2> QED  BY <2>8, <2>9, <2>10, <2>11, <2>12, <2>16, <2>17, <2>18, <2>19 DEF InOrder
<1>5. CASE ~exited
  <2>1. pc' = [pc EXCEPT !["SIGCHLD"] = "idle"] /\ stack' = Tail(stack)
    BY <1>1, <1>5 DEF Return
  <2>2. /\ pc'["SIGCHLD"] = "idle"
        /\ \A g \in Frame : g # "SIGCHLD" => pc'[g] = pc[g]
    BY <1>2, <2>1, FrameCases
  <2>3. Worker' = Worker /\ now' = now
    <3>1. Worker' = Worker
      BY <1>2, <2>2, FrameCases DEF Worker
    <3> QED  BY <1>2, <2>2, <3>1, FrameCases DEF now
  <2>4. Script'
    BY <2>2, FrameCases DEF InOrder, Script, Lines
  <2>5. stack = IF Worker = "main" THEN <<"SIGCHLD">> ELSE <<"SIGCHLD", Worker>>
    BY <1>2 DEF InOrder, Nesting
  <2>6. stack' = IF Worker = "main" THEN << >> ELSE <<Worker>>
    BY <2>1, <2>5
  <2>7. Nesting'
    BY <2>2, <2>3, <2>6, FrameCases DEF InOrder, Nesting
  <2>8. Undisturbed'
    BY <1>1, <1>2 DEF Undisturbed
  <2>9. OneReport'
    BY <1>1, <1>2, <1>3, <2>2 DEF OneReport, Told
  <2>10. pc'["main"] = pc["main"]
    BY <2>2, FrameCases
  <2>11. Launching'
    BY <1>1, <2>10 DEF InOrder, Launching
  <2>12. Held' = Held
    BY <1>1, <1>3, <1>5, <2>3 DEF Held
  <2>13. length' = length /\ Ready' = Ready /\ Waiting' = Waiting /\ Given' = Given
    BY <1>1, <2>3 DEF length, Ready, Waiting, stillWaiting, Given
  <2>14. Places'
    BY <1>1, <2>12, <2>13 DEF InOrder, Places
  <2>15. Stored' /\ SomeReady' /\ Subject' /\ Sorted'
    BY <1>1, <2>3, <2>13 DEF InOrder, Stored, SomeReady, Subject, Sorted, Unsorted
  <2> QED  BY <2>4, <2>7, <2>8, <2>9, <2>11, <2>14, <2>15 DEF InOrder
<1> QED  BY <1>4, <1>5

LEMMA PushOne ==
  ASSUME NEW a \in Signal, NEW b \in Signal
  PROVE  <<a>> \o << >> = <<a>> /\ <<a>> \o <<b>> = <<a, b>>
<1>1. /\ <<a>> \in Seq(Signal) /\ <<b>> \in Seq(Signal) /\ <<a, b>> \in Seq(Signal)
      /\ Len(<<a>>) = 1 /\ Len(<<b>>) = 1 /\ Len(<<a, b>>) = 2
  OBVIOUS
<1>2. <<a>> \o <<b>> \in Seq(Signal) /\ Len(<<a>> \o <<b>>) = 2
  BY <1>1, ConcatProperties
<1>3. (<<a>> \o <<b>>)[1] = a /\ (<<a>> \o <<b>>)[2] = b
  BY <1>1, ConcatProperties
<1>4. \A i \in 1 .. 2 : (<<a>> \o <<b>>)[i] = <<a, b>>[i]
  BY <1>3
<1>5. <<a>> \o <<b>> = <<a, b>>
  BY <1>1, <1>2, <1>4, SeqEqual
<1>6. <<a>> \o << >> = <<a>>
  OBVIOUS
<1> QED  BY <1>5, <1>6

LEMMA InterruptQuiet ==
  ASSUME IInv, InOrder, ~Overlap, NEW s \in Signal, Interrupt(s)
  PROVE  InOrder'
<1>1. /\ s \in pending /\ pc[s] = "idle" /\ pending' = pending \ {s}
      /\ stack' = <<s>> \o stack /\ pc' = [pc EXCEPT ![s] = Entry(s)]
      /\ UNCHANGED <<life, status, mainList, size, waitQueue, current, runningFlag, argi>>
  BY DEF Interrupt, Deliver, Deliverable, schedulerVars, listVars
<1>2. /\ pc \in [Frame -> Label \cup {"idle"}] /\ s \in Frame /\ s # "main"
      /\ pc'[s] = Entry(s) /\ \A g \in Frame : g # s => pc'[g] = pc[g]
  BY <1>1, FrameCases DEF IInv, ControlType
<1>3. pc'["main"] = pc["main"]
  BY <1>2, FrameCases
<1>4. Launching'
  BY <1>1, <1>3 DEF InOrder, Launching
<1>5. CASE s = "SIGCHLD"
  <2>1. pc["SIGCHLD"] = "idle" /\ pc'["SIGCHLD"] = "wait"
    BY <1>1, <1>2, <1>5 DEF Entry
  <2>2. Worker' = Worker /\ Worker \in {"SIGALRM", "SIGUSR1", "main"}
    BY <1>2, <1>5, <2>1, FrameCases DEF Worker
  <2>3. now' = now
    BY <1>2, <1>5, <2>2, FrameCases DEF now
  <2>4. Script'
    BY <1>2, <1>5, <2>1, FrameCases DEF InOrder, Script, Lines
  <2>5. stack = IF Worker = "main" THEN << >> ELSE <<Worker>>
    BY <2>1 DEF InOrder, Nesting
  <2>6. stack' = IF Worker = "main" THEN <<"SIGCHLD">> ELSE <<"SIGCHLD", Worker>>
    BY <1>1, <1>5, <2>2, <2>5, PushOne, FrameCases
  <2>7. Nesting'
    BY <1>2, <1>5, <2>1, <2>2, <2>6, FrameCases DEF InOrder, Nesting
  <2>8. Undisturbed'
    BY <1>1, <1>5 DEF InOrder, Undisturbed
  <2>9. OneReport'
    BY <1>1, <1>3, <1>5, <2>1, <2>2 DEF InOrder, OneReport, Told
  <2>10. length' = length /\ Ready' = Ready /\ Waiting' = Waiting /\ Given' = Given /\ Held' = Held
    BY <1>1, <2>2, <2>3 DEF length, Ready, Waiting, stillWaiting, Given, Held
  <2>11. Places'
    BY <1>1, <2>10 DEF InOrder, Places
  <2>12. Stored' /\ SomeReady' /\ Subject' /\ Sorted'
    BY <1>1, <2>2, <2>3, <2>10 DEF InOrder, Stored, SomeReady, Subject, Sorted, Unsorted
  <2> QED  BY <1>4, <2>4, <2>7, <2>8, <2>9, <2>11, <2>12 DEF InOrder
<1>6. CASE s # "SIGCHLD"
  <2>1. s \in {"SIGALRM", "SIGUSR1"}
    BY <1>6, FrameCases
  <2>2. /\ stack = << >> /\ pc["main"] = "loop" /\ "SIGCHLD" \notin pending
        /\ ~({"SIGALRM", "SIGUSR1"} \subseteq pending)
    BY <1>1, <2>1 DEF InOrder, Undisturbed
  <2>3. pending' \cap {"SIGALRM", "SIGCHLD", "SIGUSR1"} = {}
    BY <1>1, <2>1, <2>2
  <2>4. Worker = "main" /\ pc["SIGCHLD"] # "wait" /\ now = "loop"
    BY <2>2 DEF InOrder, Nesting, now
  <2>5. pc["SIGALRM"] = "idle" /\ pc["SIGUSR1"] = "idle" /\ pc["SIGCHLD"] = "idle"
    BY <2>4, FrameCases DEF Worker
  <2>6. /\ pc'[s] = "stop" /\ pc'["main"] = "loop" /\ pc'["SIGCHLD"] = "idle"
        /\ s = "SIGALRM" => pc'["SIGUSR1"] = "idle"
        /\ s = "SIGUSR1" => pc'["SIGALRM"] = "idle"
    BY <1>2, <2>1, <2>2, <2>5, FrameCases DEF Entry
  <2>7. Worker' = s
    BY <2>1, <2>6 DEF Worker
  <2>8. now' = "stop"
    BY <2>6, <2>7 DEF now
  <2>9. Script'
    BY <2>1, <2>6, FrameCases DEF Script, Lines
  <2>10. stack' = <<s>>
    BY <1>1, <2>2
  <2>11. Nesting'
    BY <2>1, <2>6, <2>7, <2>10 DEF Nesting
  <2>12. Undisturbed'
    BY <2>3 DEF Undisturbed
  <2>13. \A p \in Pid : status[p] = "none"
    BY <2>2, <2>4 DEF InOrder, OneReport, Told
  <2>14. OneReport'
    BY <1>1, <2>3, <2>6, <2>13 DEF OneReport, Told
  <2>15. Held' = Held
    BY <1>1, <1>2, <2>4, <2>7, <2>8 DEF Held
  <2>16. length' = length /\ Ready' = Ready /\ Waiting' = Waiting /\ Given' = Given
    BY <1>1, <2>4, <2>8 DEF length, Ready, Waiting, stillWaiting, Given
  <2>17. Places'
    BY <1>1, <2>15, <2>16 DEF InOrder, Places
  <2>18. Stored' /\ SomeReady'
    BY <1>1, <2>8, <2>16 DEF InOrder, Stored, SomeReady
  <2>19. Subject'
    BY <1>1, <2>1, <2>3, <2>7, <2>8 DEF InOrder, Subject
  <2>20. Sorted'
    BY <1>1, <1>2, <2>4, <2>7, <2>8 DEF InOrder, Sorted, Unsorted
  <2> QED  BY <1>4, <2>9, <2>11, <2>12, <2>14, <2>17, <2>18, <2>19, <2>20 DEF InOrder
<1> QED  BY <1>5, <1>6

LEMMA QuietFacts ==
  ASSUME IInv, InOrder, Quiet
  PROVE  /\ Worker = "main" /\ now = "loop" /\ stack = << >> /\ pending = {}
         /\ pc["main"] = "loop" /\ pc["SIGCHLD"] = "idle"
         /\ Held = {current.pid} /\ current.pid \in Pid
         /\ \A p \in Pid : status[p] = "none"
         /\ \A p \in Pid : life[p] = "running" => p = current.pid
<1>1. stack = << >> /\ pending = {} /\ pc["main"] = "loop"
  BY DEF Quiet
<1>2. Worker = "main" /\ pc["SIGCHLD"] # "wait"
  BY <1>1 DEF InOrder, Nesting
<1>3. now = "loop" /\ pc["SIGCHLD"] = "idle"
  BY <1>1, <1>2 DEF now, Worker
<1>4. \A p \in Pid : status[p] = "none"
  BY <1>1, <1>2 DEF InOrder, OneReport, Told
<1>5. current.pid \in Pid
  BY <1>1 DEF InOrder, Launching
<1>6. Held = {current.pid}
  BY <1>3, <1>4, <1>5 DEF Held
<1>7. \A p \in Pid : life[p] = "running" => p = current.pid
  BY <1>6 DEF InOrder, Places, PlacesOf
<1> QED  BY <1>1, <1>2, <1>3, <1>4, <1>5, <1>6, <1>7

\* A step that only raises a signal of the clock or of the current process.
LEMMA RaiseQuiet ==
  ASSUME IInv, InOrder, Quiet, NEW s \in {"SIGALRM", "SIGUSR1"}, pending' = pending \cup {s},
         UNCHANGED <<life, status, stack, pc, mainList, size, waitQueue, current, runningFlag, argi>>,
         s = "SIGUSR1" => life[current.pid] # "exited"
  PROVE  InOrder'
<1>1. /\ Worker = "main" /\ now = "loop" /\ stack = << >> /\ pending = {}
      /\ pc["main"] = "loop" /\ pc["SIGCHLD"] = "idle"
      /\ \A p \in Pid : status[p] = "none"
  BY QuietFacts
<1>2. Worker' = Worker /\ now' = now
  BY DEF Worker, now
<1>3. Script' /\ Nesting' /\ Launching'
  BY <1>2 DEF InOrder, Script, Nesting, Launching
<1>4. Undisturbed'
  BY <1>1 DEF Undisturbed
<1>5. OneReport'
  BY <1>1, ReportKept
<1>6. length' = length /\ Ready' = Ready /\ Waiting' = Waiting /\ Given' = Given /\ Held' = Held
  BY <1>2 DEF length, Ready, Waiting, stillWaiting, Given, Held
<1>7. Places' /\ Stored' /\ Sorted' /\ SomeReady'
  BY <1>2, <1>6 DEF InOrder, Places, Stored, Sorted, Unsorted, SomeReady
<1>8. Subject'
  BY <1>1, <1>2 DEF Subject
<1> QED  BY <1>3, <1>4, <1>5, <1>7, <1>8 DEF InOrder

LEMMA TimerQuiet ==
  ASSUME IInv, InOrder, ~Overlap, Timer
  PROVE  InOrder'
BY RaiseQuiet DEF Timer, Tick, Event, schedulerVars, listVars

LEMMA ProgramQuiet ==
  ASSUME IInv, InOrder, ~Overlap, NEW p \in Pid, Program(p)
  PROVE  InOrder'
<1>1. Quiet /\ life[p] = "running"
      /\ UNCHANGED <<stack, pc, mainList, size, waitQueue, current, runningFlag, argi>>
  BY DEF Program, RequestIO, Exit, Event, schedulerVars, listVars
<1>2. p = current.pid
  BY <1>1, QuietFacts
<1>3. CASE RequestIO(p)
  <2>1. UNCHANGED <<life, status>> /\ pending' = pending \cup {"SIGUSR1"}
    BY <1>3 DEF RequestIO
  <2>2. life[current.pid] # "exited"
    BY <1>1, <1>2
  <2> QED  BY <1>1, <2>1, <2>2, RaiseQuiet
<1>4. CASE Exit(p)
  <2>1. /\ life' = [life EXCEPT ![p] = "exited"]
        /\ status' = [status EXCEPT ![p] = "exited"]
        /\ pending' = pending \cup {"SIGCHLD"}
    BY <1>4 DEF Exit
  <2>2. /\ Worker = "main" /\ now = "loop" /\ stack = << >> /\ pending = {}
        /\ pc["main"] = "loop" /\ pc["SIGCHLD"] = "idle"
        /\ Held = {p} /\ \A q \in Pid : status[q] = "none"
    BY <1>1, <1>2, QuietFacts
  <2>3. Worker' = Worker /\ now' = now
    BY <1>1 DEF Worker, now
  <2>4. /\ life \in [Pid -> Life] /\ life' \in [Pid -> Life]
        /\ \A q \in Pid : life'[q] = IF q = p THEN "exited" ELSE life[q]
        /\ \A q \in Pid : status'[q] = IF q = p THEN "exited" ELSE "none"
    BY <2>1, <2>2 DEF IInv, CallType, Life
  <2>5. Script' /\ Nesting'
    BY <1>1, <2>3 DEF InOrder, Script, Nesting
  <2>6. Undisturbed'
    BY <2>1, <2>2 DEF Undisturbed
  <2>7. OneReport'
    BY <1>1, <1>2, <2>1, <2>2, <2>3, <2>4 DEF OneReport, Told
  <2>8. Launching'
    BY <1>1, <1>2, <2>2, <2>4, LaunchingKept
  <2>9. Held' = {}
    BY <1>1, <1>2, <2>2, <2>3, <2>4 DEF Held
  <2>10. length' = length /\ Ready' = Ready /\ Waiting' = Waiting /\ Given' = "running"
    BY <1>1, <2>2, <2>3 DEF length, Ready, Waiting, stillWaiting, Given
  <2>11. PlacesOf({}, Ready, Waiting, life', "running")
    <3>1. PlacesOf({p}, Ready, Waiting, life, "running")
      BY <2>2 DEF InOrder, Places, Given
    <3> QED  BY <1>1, <2>1, <2>4, <3>1, MoveExit
  <2>12. Places'
    BY <2>9, <2>10, <2>11 DEF Places
  <2>13. Stored' /\ Sorted' /\ SomeReady'
    BY <1>1, <2>2, <2>3, <2>10 DEF InOrder, Stored, Sorted, Unsorted, SomeReady
  <2>14. Subject'
    BY <2>1, <2>2, <2>3 DEF Subject
  <2> QED  BY <2>5, <2>6, <2>7, <2>8, <2>12, <2>13, <2>14 DEF InOrder
<1> QED  BY <1>3, <1>4 DEF Program

-----------------------------------------------------------------------------
(* The invariant.                                                          *)

LEMMA InitQuiet == Init => QuietInv
<1> SUFFICES ASSUME Init PROVE QuietInv
  OBVIOUS
<1>1. /\ pc = [f \in Frame |-> IF f = "main" THEN "fork" ELSE "idle"]
      /\ life = [p \in Pid |-> "unborn"] /\ status = [p \in Pid |-> "none"]
      /\ pending = {} /\ stack = << >> /\ size = 0 /\ waitQueue = << >>
      /\ current.pid = Group /\ runningFlag = TRUE /\ argi = 0
  BY DEF Init, KernelInit, Zero
<1>2. pc["main"] = "fork" /\ \A s \in Signal : pc[s] = "idle"
  BY <1>1, FrameCases
<1>3. Worker = "main"
  BY <1>2, FrameCases DEF Worker
<1>4. now = "fork"
  BY <1>2, <1>3 DEF now
<1>5. Script
  BY <1>2, FrameCases DEF Script, Lines
<1>6. Nesting /\ Undisturbed
  BY <1>1, <1>2, <1>3, FrameCases DEF Nesting, Undisturbed
<1>7. OneReport
  BY <1>1, <1>2, FrameCases DEF OneReport, Told
<1>8. Launching
  BY <1>1, <1>2 DEF Launching, Pid
<1>9. Held = {} /\ length = 0
  BY <1>1, <1>3, <1>4 DEF Held, length
<1>10. Ready = << >> /\ Waiting = << >>
  BY <1>1, <1>4, <1>9, PidsNone DEF Ready, First, Waiting, stillWaiting
<1>11. Once(<< >>)
  BY DEF Once
<1>12. Places
  BY <1>1, <1>9, <1>10, <1>11, EmptyHasNone DEF Places, PlacesOf
<1>13. Stored
  BY <1>1, <1>4, <1>9, <1>10, SchedulerPRAssumption DEF Stored
<1>14. Subject /\ Sorted /\ SomeReady
  BY <1>1, <1>3, <1>4 DEF Subject, Sorted, Unsorted, SomeReady
<1> QED
  BY <1>1, <1>5, <1>6, <1>7, <1>8, <1>12, <1>13, <1>14 DEF QuietInv, InOrder, DoneMeansAllExited

LEMMA KillKeepsExited ==
  ASSUME IInv, NEW pid, KillStop(pid) \/ KillCont(pid)
  PROVE  \A p \in Pid : life[p] = "exited" => life'[p] = "exited"
BY DEF KillStop, KillCont, Shift

\* runningFlag is cleared by childHandler, and nobody rises from the dead.
LEMMA DoneNext ==
  ASSUME IInv, InOrder, DoneMeansAllExited, ~Overlap, Next
  PROVE  DoneMeansAllExited'
<1>1. CASE TestIdle
  BY <1>1, TestIdleQuiet
<1>2. ASSUME NoCall \/ (\E pid : KillStop(pid) \/ KillCont(pid)) \/ (\E on : SetTimer(on)),
             runningFlag' = runningFlag
      PROVE  DoneMeansAllExited'
  <2>1. \A p \in Pid : life[p] = "exited" => life'[p] = "exited"
    BY <1>2, KillKeepsExited DEF NoCall, SetTimer
  <2> QED  BY <1>2, <2>1, DoneKept
<1>3. CASE Launch
  <2>1. runningFlag' = runningFlag
    BY <1>3 DEF Launch
  <2>2. CASE argi < N
    <3>1. Fork(argi + 1) /\ pc["main"] = "fork"
      BY <1>3, <2>2 DEF Launch, At
    <3>2. runningFlag
      BY <3>1 DEF InOrder, Launching
    <3> QED  BY <2>1, <3>2 DEF DoneMeansAllExited
  <2>3. CASE ~(argi < N)
    BY <1>2, <1>3, <2>1, <2>3 DEF Launch
  <2> QED  BY <2>2, <2>3
<1>4. CASE LaunchStop
  BY <1>2, <1>4 DEF LaunchStop
<1>5. CASE LaunchPut \/ Leave
  BY <1>2, <1>5 DEF LaunchPut, Leave
<1>6. ASSUME NEW f, NEW label, NEW next, Grow(f, label, next) \/ sortList(f, label, next)
      PROVE  DoneMeansAllExited'
  BY <1>2, <1>6 DEF Grow, sortList
<1>7. ASSUME NEW f \in Frame, Swap(f) PROVE DoneMeansAllExited'
  BY <1>2, <1>7 DEF Swap, Pick, Shrink, Resume, Rearm
<1>8. ASSUME NEW f \in Frame, Preempt(f) PROVE DoneMeansAllExited'
  BY <1>2, <1>8 DEF Preempt
<1>9. CASE Decay \/ PutBack \/ Wake \/ Unwait \/ Cancel \/ Park
  BY <1>2, <1>9 DEF Decay, PutBack, Wake, Unwait, Cancel, Park
<1>10. ASSUME NEW exited \in BOOLEAN, Reap(exited) PROVE DoneMeansAllExited'
  BY <1>10, DoneKept DEF Reap, WaitPid
<1>11. ASSUME NEW s \in Signal, Interrupt(s) PROVE DoneMeansAllExited'
  BY <1>11, DoneKept DEF Interrupt, Deliver, schedulerVars
<1>12. CASE Timer
  BY <1>12, DoneKept DEF Timer, Tick, schedulerVars
<1>13. ASSUME NEW p \in Pid, Program(p) PROVE DoneMeansAllExited'
  <2>1. \A q \in Pid : life[q] = "exited" => life'[q] = "exited"
    BY <1>13 DEF Program, RequestIO, Exit, IInv, CallType
  <2>2. runningFlag' = runningFlag
    BY <1>13 DEF Program, schedulerVars
  <2> QED  BY <2>1, <2>2, DoneKept
<1> QED
  BY <1>1, <1>3, <1>4, <1>5, <1>6, <1>7, <1>8, <1>9, <1>10, <1>11, <1>12, <1>13, FrameCases
  DEF Next, Scheduler, mainStart, alarmHandler, childHandler, ioStartedHandler

LEMMA SwapQuiet ==
  ASSUME IInv, InOrder, ~Overlap, NEW f \in Frame, Swap(f), pc'["main"] # "undefined"
  PROVE  InOrder'
BY PickQuiet, ShrinkQuiet, ResumeQuiet, RearmQuiet DEF Swap

LEMMA NextQuiet ==
  ASSUME ~Overlap
  PROVE  IInv /\ QuietInv /\ [Next]_vars => QuietInv'
<1> SUFFICES ASSUME IInv, QuietInv, [Next]_vars PROVE QuietInv'
  OBVIOUS
<1>1. CASE UNCHANGED vars
  <2>1. UNCHANGED <<life, status, pending, stack, pc, mainList, size, waitQueue, current, runningFlag, argi>>
    BY <1>1 DEF vars, kernelVars, listVars
  <2>2. Worker' = Worker /\ now' = now
    BY <2>1 DEF Worker, now
  <2>3. length' = length /\ Ready' = Ready /\ Waiting' = Waiting /\ Given' = Given /\ Held' = Held
    BY <2>1, <2>2 DEF length, Ready, stillWaiting, Waiting, Given, Held
  <2>4. InOrder => Script' /\ Nesting' /\ Undisturbed' /\ OneReport' /\ Launching'
    BY <2>1, <2>2 DEF InOrder, Script, Nesting, Undisturbed, OneReport, Told, Launching
  <2>5. InOrder => Places' /\ Stored' /\ Subject' /\ Sorted' /\ SomeReady'
    BY <2>1, <2>2, <2>3 DEF InOrder, Places, Stored, Subject, Sorted, Unsorted, SomeReady
  <2>6. InOrder => InOrder'
    BY <2>4, <2>5 DEF InOrder
  <2> QED  BY <2>1, <2>6 DEF QuietInv, DoneMeansAllExited
<1>2. CASE Next
  <2>1. pc["main"] # "undefined"
    <3> SUFFICES ASSUME pc["main"] = "undefined" PROVE FALSE
      OBVIOUS
    <3>1. ~Alive /\ ~Event
      BY DEF Alive, Event, Quiet
    <3>2. ~Scheduler
      BY <3>1 DEF Scheduler, mainStart, Launch, LaunchStop, LaunchPut, Leave, Grow, sortList, Swap,
         Pick, Shrink, Resume, Rearm, alarmHandler, Preempt, Decay, PutBack, Wake, Unwait,
         childHandler, Reap, TestIdle, Cancel, ioStartedHandler, Park, Interrupt, Deliver,
         Deliverable, At
    <3>3. ~Timer /\ \A p \in Pid : ~Program(p)
      BY <3>1 DEF Timer, Tick, Program, RequestIO, Exit
    <3> QED  BY <1>2, <3>2, <3>3 DEF Next
  <2>2. InOrder /\ DoneMeansAllExited
    BY <2>1 DEF QuietInv
  <2>3. DoneMeansAllExited'
    BY <1>2, <2>2, DoneNext
  <2>4. ASSUME pc'["main"] # "undefined" PROVE InOrder'
    <3>1. CASE mainStart
      BY <2>2, <2>4, <3>1, FrameCases, LaunchQuiet, LaunchStopQuiet, LaunchPutQuiet, LeaveQuiet,
         GrowQuiet, sortListQuiet DEF mainStart
    <3>2. ASSUME NEW f \in Frame, Swap(f) PROVE InOrder'
      BY <2>2, <2>4, <3>2, SwapQuiet
    <3>3. CASE alarmHandler
      <4>1. CASE Preempt("SIGALRM") \/ Decay \/ PutBack
        BY <2>2, <2>4, <4>1, PreemptQuiet, DecayQuiet, PutBackQuiet
      <4>2. CASE \/ Grow("SIGALRM", "grow", "sort") \/ sortList("SIGALRM", "sort", "pick")
                 \/ Grow("SIGALRM", "wakegrow", "wakesort") \/ sortList("SIGALRM", "wakesort", "unwait")
        BY <2>2, <4>2, FrameCases, GrowQuiet, sortListQuiet
      <4>3. CASE Swap("SIGALRM") \/ Wake \/ Unwait
        BY <2>2, <2>4, <3>2, <4>3, FrameCases, WakeQuiet, UnwaitQuiet
      <4> QED  BY <3>3, <4>1, <4>2, <4>3 DEF alarmHandler
    <3>4. CASE childHandler
      BY <2>2, <3>2, <3>4, FrameCases, ReapQuiet, TestIdleQuiet, CancelQuiet DEF childHandler
    <3>5. CASE ioStartedHandler
      BY <2>2, <3>2, <3>5, FrameCases, PreemptQuiet, ParkQuiet DEF ioStartedHandler
    <3>6. CASE Timer \/ (\E s \in Signal : Interrupt(s)) \/ (\E p \in Pid : Program(p))
      BY <2>2, <3>6, TimerQuiet, InterruptQuiet, ProgramQuiet
    <3> QED  BY <1>2, <3>1, <3>2, <3>3, <3>4, <3>5, <3>6, FrameCases DEF Next, Scheduler
  <2> QED  BY <2>3, <2>4 DEF QuietInv
<1> QED  BY <1>1, <1>2

LEMMA QuietInvariant ==
  ASSUME ~Overlap
  PROVE  Spec => [](IInv /\ QuietInv)
<1>1. Init => IInv /\ QuietInv
  BY InitInv, InitQuiet
<1>2. IInv /\ QuietInv /\ [Next]_vars => (IInv /\ QuietInv)'
  BY NextInv, NextQuiet
<1> QED  BY <1>1, <1>2, PTL DEF Spec

-----------------------------------------------------------------------------
(* What follows.                                                           *)

LEMMA QuietMeaning ==
  ASSUME IInv, QuietInv, Quiet
  PROVE  /\ PlacesOf({current.pid}, First(mainList, size), Pids(waitQueue), life, "running")
         /\ First(mainList, size) \in Seq(Pid) /\ Pids(waitQueue) \in Seq(Pid)
         /\ Len(First(mainList, size)) = size /\ size \in Nat
         /\ current.pid \in Pid /\ life \in [Pid -> Life]
         /\ \A p \in Pid : life[p] # "unborn"
<1>1. InOrder
  BY DEF QuietInv, Quiet
<1>2. /\ Worker = "main" /\ now = "loop" /\ pc["main"] = "loop"
      /\ Held = {current.pid} /\ current.pid \in Pid
  BY <1>1, QuietFacts
<1>3. Ready = First(mainList, size) /\ Waiting = Pids(waitQueue) /\ Given = "running" /\ size \in Nat
  BY <1>1, <1>2 DEF Ready, length, Waiting, stillWaiting, Given, InOrder, Stored
<1>4. Ready \in Seq(Pid) /\ Waiting \in Seq(Pid) /\ PlacesOf(Held, Ready, Waiting, life, Given)
  BY <1>1 DEF InOrder, Stored, Places
<1>5. Len(First(mainList, size)) = size
  BY <1>3, <1>4, FirstLen
<1>6. argi = N /\ \A p \in Pid : life[p] = "unborn" <=> p > argi
  BY <1>1, <1>2 DEF InOrder, Launching
<1>7. \A p \in Pid : life[p] # "unborn"
  BY <1>6 DEF Pid
<1>8. life \in [Pid -> Life]
  BY DEF IInv, CallType, Life
<1> QED  BY <1>2, <1>3, <1>4, <1>5, <1>7, <1>8

\* Between two interruptions the current process runs, unless it has exited, and
\* nothing else does, for any number of programs and I/Os.
THEOREM OnlyCurrent ==
  ASSUME ~Overlap
  PROVE  Spec => []OnlyCurrentRuns
<1>1. IInv /\ QuietInv => OnlyCurrentRuns
  <2> SUFFICES ASSUME IInv, QuietInv, Quiet, NEW p \in Pid
               PROVE  (life[p] = "running") <=> (p = current.pid /\ life[p] # "exited")
    BY DEF OnlyCurrentRuns
  <2> QED  BY QuietMeaning DEF PlacesOf
<1> QED  BY <1>1, QuietInvariant, PTL

\* childHandler clears runningFlag only when no program is left.
THEOREM DoneAllExited ==
  ASSUME ~Overlap
  PROVE  Spec => []DoneMeansAllExited
<1>1. IInv /\ QuietInv => DoneMeansAllExited
  BY DEF QuietInv
<1> QED  BY <1>1, QuietInvariant, PTL

\* Whoever takes the last element of mainList takes the best priority, whichever
\* handler changed the list last.
THEOREM BestPicked ==
  ASSUME ~Overlap
  PROVE  Spec => BestIsPicked
<1>1. IInv /\ QuietInv =>
        [\A f \in Frame : Pick(f) /\ pc'[f] = "shrink" =>
           \A i \in 0 .. size - 1 : current'.priority <= mainList[i].priority]_vars
  <2> SUFFICES ASSUME IInv, QuietInv, NEW f \in Frame, Pick(f), pc'[f] = "shrink",
                      NEW i \in 0 .. size - 1
               PROVE  current'.priority <= mainList[i].priority
    OBVIOUS
  <2>1. At(f, "pick") /\ pc[f] = "pick" /\ pc["main"] # "undefined"
    BY DEF Pick, At, Alive
  <2>2. InOrder
    BY <2>1 DEF QuietInv
  <2>3. now = "pick"
    BY <2>1, <2>2, StatementFacts DEF Label
  <2>4. Descending(mainList, size)
    BY <2>2, <2>3 DEF InOrder, Sorted, Unsorted
  <2>5. size - 1 \in Slot /\ current' = mainList[size - 1]
    BY <2>1 DEF Pick, OutOfBounds, IInv, ControlType
  <2>6. size \in Int /\ mainList \in [Slot -> Process]
    BY DEF IInv, SchedulerType
  <2>7. i \in Slot
    BY <2>5, <2>6, SchedulerPRAssumption DEF Slot
  <2>8. mainList[i].priority \in Int /\ mainList[size - 1].priority \in Int
    BY <2>5, <2>6, <2>7 DEF Process
  <2>9. i < size - 1 => mainList[i].priority >= mainList[size - 1].priority
    BY <2>4, <2>6 DEF Descending
  <2>10. i < size - 1 \/ i = size - 1
    BY <2>6
  <2> QED  BY <2>5, <2>8, <2>9, <2>10
<1> QED  BY <1>1, QuietInvariant, PTL DEF BestIsPicked

\* No list without repetition is longer than there are programs.
LEMMA FewOnce ==
  ASSUME NEW q \in Seq(Pid), Once(q)
  PROVE  Len(q) <= N
<1>1. PICK n \in Nat : Len(q) = n /\ q \in [1 .. n -> Pid]
  BY LenProperties
<1>2. /\ IsFiniteSet(1 .. n) /\ Cardinality(1 .. n) = n
      /\ IsFiniteSet(Pid) /\ Cardinality(Pid) = N
  BY FS_Interval DEF Pid
<1>3. N < n => \E i, j \in 1 .. n : i # j /\ q[i] = q[j]
  BY <1>1, <1>2, FS_PigeonHole
<1> QED  BY <1>1, <1>3 DEF Once

\* There is a slot for one more.
LEMMA RoomForOne ==
  ASSUME NEW r \in Seq(Pid), NEW p \in Pid, Once(r), ~In(p, r), Len(r) \in 0 .. Slots, N <= Slots
  PROVE  Len(r) \in Slot
<1>1. Once(Append(r, p)) /\ Append(r, p) \in Seq(Pid) /\ Len(Append(r, p)) = Len(r) + 1
  BY AppendOnce
<1>2. Len(r) + 1 <= N
  BY <1>1, FewOnce
<1> QED  BY <1>2, SchedulerPRAssumption DEF Slot

\* Control never goes to "undefined" but by an access outside the array.
LEMMA ControlDefined ==
  ASSUME IInv, NEW f \in Frame, pc["main"] # "undefined",
         \/ \E label : label # "undefined" /\ Goto(f, label)
         \/ f # "main" /\ Return(f)
         \/ \E s \in Signal : \E entry : Deliver(s, entry)
         \/ pc' = pc
  PROVE  pc'["main"] # "undefined"
BY FrameCases DEF IInv, ControlType, Goto, Return, Deliver

LEMMA PutInside ==
  ASSUME IInv, InOrder, ~Overlap, N <= Slots, NEW f \in Frame, NEW x, NEW next,
         NEW label \in {"put", "wake"}, At(f, label), Put(f, x, next), next # "undefined",
         label = "wake" => f = "SIGALRM" /\ waitQueue # << >>,
         label = "put" => f \in {"main", "SIGALRM"}
  PROVE  pc'["main"] # "undefined"
<1>1. /\ Worker = f /\ now = label /\ pc[f] = label /\ pc["main"] # "undefined"
      /\ f # "main" => current.pid \in Pid /\ Held = {current.pid}
  <2>1. label \in Label \ {"wait"}
    BY DEF Label
  <2> QED  BY <2>1, StatementFacts DEF At, Alive
<1>2. Ready = First(mainList, size) /\ size \in Nat /\ size \in 0 .. Slots /\ Ready \in Seq(Pid)
  BY <1>1 DEF Ready, length, InOrder, Stored
<1>3. Len(Ready) = size
  BY <1>2, FirstLen
<1>4. \E p \in Pid : ~In(p, Ready)
  <2>1. CASE f = "main"
    <3>1. argi \in Pid /\ Held = {argi}
      BY <1>1, <2>1 DEF InOrder, Launching, Held
    <3> QED  BY <3>1 DEF InOrder, Places, PlacesOf
  <2>2. CASE f # "main"
    BY <1>1, <2>2 DEF InOrder, Places, PlacesOf
  <2> QED  BY <2>1, <2>2
<1>5. Once(Ready)
  BY DEF InOrder, Places, PlacesOf
<1>6. size \in Slot
  BY <1>2, <1>3, <1>4, <1>5, RoomForOne
<1> QED  BY <1>1, <1>6, ControlDefined DEF Put

\* main() picks once it has listed a program, and the first one still is.
LEMMA MainFindsOne ==
  ASSUME IInv, InOrder, pc["main"] = "pick", Worker = "main"
  PROVE  size > 0
<1>1. now = "pick" /\ Held = {} /\ waitQueue = << >> /\ size \in Nat
  BY DEF now, Held, InOrder, Launching, Stored
<1>2. Ready = First(mainList, size) /\ Waiting = << >>
  BY <1>1, PidsNone DEF Ready, length, Waiting, stillWaiting
<1>3. 1 \in Pid /\ life[1] \in {"running", "stopped"}
  <2>1. 1 \in Pid
    BY DEF Pid
  <2>2. life[1] # "unborn" /\ life[1] # "exited"
    BY <2>1 DEF InOrder, Launching, Pid
  <2> QED  BY <2>1, <2>2 DEF IInv, CallType
<1>4. In(1, Ready)
  BY <1>1, <1>2, <1>3, EmptyHasNone DEF InOrder, Places, PlacesOf
<1>5. size = 0 => Ready = << >>
  BY <1>2 DEF First
<1> QED  BY <1>1, <1>4, <1>5, EmptyHasNone

\* Only ioStartedHandler picks from an empty list.
LEMMA PickInside ==
  ASSUME IInv, InOrder, ~Overlap, NEW f \in Frame, Pick(f), pc'["main"] = "undefined"
  PROVE  f = "SIGUSR1" /\ pc[f] = "pick" /\ size = 0
<1>1. /\ At(f, "pick") /\ "pick" \in Label \ {"wait"} /\ pc["main"] # "undefined" /\ "shrink" # "undefined"
  BY DEF Pick, At, Alive, Label
<1>2. Worker = f /\ now = "pick" /\ pc[f] = "pick"
  BY <1>1, StatementFacts
<1>3. size \in 0 .. Slots
  BY <1>2 DEF length, InOrder, Stored
<1>4. size - 1 \notin Slot
  <2>1. ~Goto(f, "shrink")
    BY <1>1, ControlDefined
  <2> QED  BY <2>1 DEF Pick
<1>5. size = 0
  BY <1>3, <1>4, SchedulerPRAssumption DEF Slot
<1>6. f \notin {"SIGALRM", "SIGCHLD"}
  BY <1>2, <1>5 DEF InOrder, SomeReady
<1>7. f # "main"
  BY <1>2, <1>5, MainFindsOne
<1> QED  BY <1>2, <1>5, <1>6, <1>7, FrameCases

LEMMA sortListInside ==
  ASSUME IInv, InOrder, ~Overlap, NEW f \in Frame, NEW label \in {"sort", "wakesort"}, NEW next,
         next # "undefined", sortList(f, label, next)
  PROVE  pc'["main"] # "undefined"
<1>1. At(f, label) /\ label \in Label \ {"wait"} /\ pc["main"] # "undefined"
  BY DEF sortList, At, Alive, Label
<1>2. now = label
  BY <1>1, StatementFacts
<1>3. size \in 0 .. Slots
  BY <1>2 DEF length, InOrder, Stored
<1>4. Goto(f, next)
  BY <1>3 DEF sortList
<1> QED  BY <1>1, <1>4, ControlDefined

\* With room for all the programs, nothing but ioStartedHandler's swap with an
\* empty list ever leaves mainList's bounds.
THEOREM OnlyIOLeaves ==
  ASSUME ~Overlap, N <= Slots
  PROVE  Spec => OnlyIOLeavesBounds
<1>1. IInv /\ QuietInv /\ [Next]_vars =>
        [pc["main"] # "undefined" /\ pc'["main"] = "undefined" =>
           pc["SIGUSR1"] = "pick" /\ size = 0]_vars
  <2> SUFFICES ASSUME IInv, QuietInv, Next, pc["main"] # "undefined", pc'["main"] = "undefined"
               PROVE  pc["SIGUSR1"] = "pick" /\ size = 0
    BY DEF vars, kernelVars
  <2>1. InOrder
    BY DEF QuietInv
  <2>2. ASSUME NEW f \in Frame, Swap(f) PROVE pc["SIGUSR1"] = "pick" /\ size = 0
    <3>1. CASE Pick(f)
      BY <2>1, <3>1, PickInside
    <3>2. CASE Shrink(f)
      BY <3>2, ControlDefined DEF Shrink
    <3>3. CASE Resume(f)
      BY <3>3, ControlDefined DEF Resume
    <3>4. CASE Rearm(f)
      BY <3>4, ControlDefined DEF Rearm
    <3> QED  BY <2>2, <3>1, <3>2, <3>3, <3>4 DEF Swap
  <2>3. ~mainStart
    <3>1. ~Launch /\ ~LaunchStop /\ ~Leave
      BY FrameCases, ControlDefined DEF Launch, LaunchStop, Leave
    <3>2. ~Grow("main", "grow", "fork")
      BY FrameCases, ControlDefined DEF Grow
    <3>3. ~LaunchPut
      BY <2>1, FrameCases, PutInside DEF LaunchPut
    <3>4. ~sortList("main", "sort", "pick")
      BY <2>1, FrameCases, sortListInside
    <3> QED  BY <3>1, <3>2, <3>3, <3>4 DEF mainStart
  <2>4. alarmHandler => Swap("SIGALRM")
    <3>1. ~Preempt("SIGALRM") /\ ~Decay /\ ~Unwait
      BY FrameCases, ControlDefined DEF Preempt, Decay, Unwait
    <3>2. ~Grow("SIGALRM", "grow", "sort") /\ ~Grow("SIGALRM", "wakegrow", "wakesort")
      BY FrameCases, ControlDefined DEF Grow
    <3>3. ~PutBack
      BY <2>1, FrameCases, PutInside DEF PutBack
    <3>4. ~sortList("SIGALRM", "sort", "pick") /\ ~sortList("SIGALRM", "wakesort", "unwait")
      BY <2>1, FrameCases, sortListInside
    <3>5. ~Wake
      <4>1. CASE waitQueue # << >>
        BY <2>1, <4>1, FrameCases, PutInside DEF Wake
      <4>2. CASE waitQueue = << >>
        BY <4>2, FrameCases, ControlDefined DEF Wake
      <4> QED  BY <4>1, <4>2
    <3> QED  BY <3>1, <3>2, <3>3, <3>4, <3>5 DEF alarmHandler
  <2>5. childHandler => Swap("SIGCHLD")
    <3>1. \A exited \in BOOLEAN : ~Reap(exited)
      BY FrameCases, ControlDefined DEF Reap
    <3>2. ~TestIdle
      BY FrameCases, ControlDefined DEF TestIdle
    <3>3. ~Cancel
      BY FrameCases, ControlDefined DEF Cancel
    <3> QED  BY <3>1, <3>2, <3>3 DEF childHandler
  <2>6. ioStartedHandler => Swap("SIGUSR1")
    BY FrameCases, ControlDefined DEF ioStartedHandler, Preempt, Park
  <2>7. \A s \in Signal : ~Interrupt(s)
    BY FrameCases, ControlDefined DEF Interrupt
  <2>8. ~Timer /\ \A p \in Pid : ~Program(p)
    BY DEF Timer, Tick, Program, RequestIO, Exit
  <2> QED  BY <2>2, <2>3, <2>4, <2>5, <2>6, <2>7, <2>8, FrameCases DEF Next, Scheduler
<1> QED  BY <1>1, QuietInvariant, PTL DEF Spec, OnlyIOLeavesBounds

-----------------------------------------------------------------------------
(* The list of everybody the scheduler knows.                              *)

LEMMA ListedIs ==
  ASSUME IInv, QuietInv, Quiet
  PROVE  /\ Listed \in Seq(Pid) /\ 1 \in 1 .. Len(Listed)
         /\ Listed[1] = current.pid
         /\ \A i \in 1 .. Len(Listed) :
              \/ i = 1
              \/ i - 1 \in 1 .. size /\ Listed[i] = First(mainList, size)[i - 1]
              \/ i - 1 - size \in 1 .. Len(waitQueue) /\ Listed[i] = Pids(waitQueue)[i - 1 - size]
         /\ \A i \in 1 .. size : i + 1 \in 1 .. Len(Listed)
                                 /\ Listed[i + 1] = First(mainList, size)[i]
         /\ \A i \in 1 .. Len(waitQueue) : i + 1 + size \in 1 .. Len(Listed)
                                           /\ Listed[i + 1 + size] = Pids(waitQueue)[i]
         /\ Len(Pids(waitQueue)) = Len(waitQueue)
<1> DEFINE a == <<current.pid>>
           b == First(mainList, size)
           c == Pids(waitQueue)
           d == a \o b
           e == d \o c
<1>1. /\ b \in Seq(Pid) /\ c \in Seq(Pid) /\ Len(b) = size /\ size \in Nat /\ current.pid \in Pid
  BY QuietMeaning
<1>2. Listed = e
  BY DEF Listed, First, Pids
<1>3. a \in Seq(Pid) /\ Len(a) = 1 /\ a[1] = current.pid
  BY <1>1
<1>4. PICK n \in Nat : Len(waitQueue) = n /\ Len(c) = n
  <2>1. PICK n \in Nat : Len(waitQueue) = n
    BY DEF IInv, SchedulerType
  <2>2. c = [i \in 1 .. n |-> waitQueue[i].pid]
    BY <2>1 DEF Pids
  <2>3. c \in Seq(Pid)
    BY <1>1
  <2>4. Len(c) = n
    BY <2>2, <2>3
  <2> QED  BY <2>1, <2>4
<1> HIDE DEF a, b, c
<1>5. /\ d \in Seq(Pid) /\ Len(d) = 1 + size
      /\ \A i \in 1 .. 1 + size : d[i] = IF i <= 1 THEN a[i] ELSE b[i - 1]
  <2>1. /\ a \o b \in Seq(Pid) /\ Len(a \o b) = Len(a) + Len(b)
        /\ \A i \in 1 .. Len(a) + Len(b) :
             (a \o b)[i] = IF i <= Len(a) THEN a[i] ELSE b[i - Len(a)]
    BY <1>1, <1>3, ConcatProperties
  <2> QED  BY <1>1, <1>3, <2>1
<1> HIDE DEF d
<1>6. /\ e \in Seq(Pid) /\ Len(e) = 1 + size + n
      /\ \A i \in 1 .. 1 + size + n : e[i] = IF i <= 1 + size THEN d[i] ELSE c[i - (1 + size)]
  <2>1. /\ d \o c \in Seq(Pid) /\ Len(d \o c) = Len(d) + Len(c)
        /\ \A i \in 1 .. Len(d) + Len(c) :
             (d \o c)[i] = IF i <= Len(d) THEN d[i] ELSE c[i - Len(d)]
    BY <1>1, <1>4, <1>5, ConcatProperties
  <2> QED  BY <1>1, <1>4, <1>5, <2>1
<1> HIDE DEF e
<1>7. e[1] = current.pid
  BY <1>1, <1>3, <1>5, <1>6
<1>8. \A i \in 1 .. size : i + 1 \in 1 .. Len(e) /\ e[i + 1] = b[i]
  <2> SUFFICES ASSUME NEW i \in 1 .. size PROVE i + 1 \in 1 .. Len(e) /\ e[i + 1] = b[i]
    OBVIOUS
  <2>1. i + 1 \in 1 .. 1 + size + n /\ i + 1 \in 1 .. 1 + size /\ ~(i + 1 <= 1) /\ (i + 1) - 1 = i
    BY <1>1
  <2>2. e[i + 1] = d[i + 1]
    BY <1>1, <1>6, <2>1
  <2>3. d[i + 1] = b[(i + 1) - 1]
    BY <1>5, <2>1
  <2> QED  BY <1>6, <2>1, <2>2, <2>3
<1>9. \A i \in 1 .. n : i + 1 + size \in 1 .. Len(e) /\ e[i + 1 + size] = c[i]
  <2> SUFFICES ASSUME NEW i \in 1 .. n PROVE i + 1 + size \in 1 .. Len(e) /\ e[i + 1 + size] = c[i]
    OBVIOUS
  <2>1. /\ i + 1 + size \in 1 .. 1 + size + n /\ ~(i + 1 + size <= 1 + size)
        /\ (i + 1 + size) - (1 + size) = i
    BY <1>1
  <2>2. e[i + 1 + size] = c[(i + 1 + size) - (1 + size)]
    BY <1>6, <2>1
  <2> QED  BY <1>6, <2>1, <2>2
<1>10. \A i \in 1 .. Len(e) :
         \/ i = 1
         \/ i - 1 \in 1 .. size /\ e[i] = b[i - 1]
         \/ i - 1 - size \in 1 .. n /\ e[i] = c[i - 1 - size]
  <2> SUFFICES ASSUME NEW i \in 1 .. 1 + size + n
               PROVE  \/ i = 1
                      \/ i - 1 \in 1 .. size /\ e[i] = b[i - 1]
                      \/ i - 1 - size \in 1 .. n /\ e[i] = c[i - 1 - size]
    BY <1>6
  <2>1. \/ i = 1
        \/ i - 1 \in 1 .. size /\ (i - 1) + 1 = i
        \/ i - 1 - size \in 1 .. n /\ (i - 1 - size) + 1 + size = i
    BY <1>1
  <2> QED  BY <1>8, <1>9, <2>1
<1>11. 1 \in 1 .. Len(e)
  BY <1>1, <1>6
<1> QED  BY <1>2, <1>4, <1>6, <1>7, <1>8, <1>9, <1>10, <1>11 DEF b, c

\* Nobody stands in it twice, a process that has exited included.
LEMMA ListedOnce ==
  ASSUME IInv, QuietInv, Quiet, NEW i \in 1 .. Len(Listed), NEW j \in 1 .. Len(Listed),
         Listed[i] = Listed[j]
  PROVE  i = j
<1> DEFINE r == First(mainList, size)
           w == Pids(waitQueue)
<1>1. /\ PlacesOf({current.pid}, r, w, life, "running")
      /\ r \in Seq(Pid) /\ w \in Seq(Pid) /\ Len(r) = size /\ size \in Nat /\ current.pid \in Pid
  BY QuietMeaning
<1>2. /\ Listed \in Seq(Pid) /\ Listed[1] = current.pid /\ Len(w) = Len(waitQueue)
      /\ \A k \in 1 .. Len(Listed) :
           \/ k = 1
           \/ k - 1 \in 1 .. size /\ Listed[k] = r[k - 1]
           \/ k - 1 - size \in 1 .. Len(waitQueue) /\ Listed[k] = w[k - 1 - size]
  BY ListedIs
<1>3. PICK p \in Pid : Listed[i] = p /\ Listed[j] = p
  BY <1>2, ElementOfSeq
<1> HIDE DEF r, w
<1>4. /\ p = current.pid => ~In(p, r) /\ ~In(p, w)
      /\ ~(In(p, r) /\ In(p, w))
      /\ Once(r) /\ Once(w)
  BY <1>1 DEF PlacesOf
<1>5. \A k \in {i, j} : \/ k = 1 /\ p = current.pid
                        \/ k - 1 \in 1 .. size /\ p = r[k - 1] /\ In(p, r)
                        \/ k - 1 - size \in 1 .. Len(w) /\ p = w[k - 1 - size] /\ In(p, w)
  <2> SUFFICES ASSUME NEW k \in 1 .. Len(Listed), Listed[k] = p
               PROVE  \/ k = 1 /\ p = current.pid
                      \/ k - 1 \in 1 .. size /\ p = r[k - 1] /\ In(p, r)
                      \/ k - 1 - size \in 1 .. Len(w) /\ p = w[k - 1 - size] /\ In(p, w)
    BY <1>3
  <2>1. CASE k = 1
    BY <1>2, <2>1
  <2>2. CASE k - 1 \in 1 .. size /\ Listed[k] = r[k - 1]
    BY <1>1, <2>2 DEF In
  <2>3. CASE k - 1 - size \in 1 .. Len(waitQueue) /\ Listed[k] = w[k - 1 - size]
    BY <1>2, <2>3 DEF In
  <2> QED  BY <1>2, <2>1, <2>2, <2>3
<1>6. CASE p = current.pid
  BY <1>4, <1>5, <1>6
<1>7. CASE In(p, r)
  <2>1. i - 1 \in 1 .. Len(r) /\ j - 1 \in 1 .. Len(r) /\ r[i - 1] = r[j - 1]
    BY <1>1, <1>4, <1>5, <1>7
  <2>2. i - 1 = j - 1
    BY <1>4, <2>1 DEF Once
  <2> QED  BY <2>2
<1>8. CASE In(p, w)
  <2>1. i - 1 - size \in 1 .. Len(w) /\ j - 1 - size \in 1 .. Len(w) /\ w[i - 1 - size] = w[j - 1 - size]
    BY <1>4, <1>5, <1>8
  <2>2. i - 1 - size = j - 1 - size
    BY <1>4, <2>1 DEF Once
  <2> QED  BY <1>1, <2>2
<1> QED  BY <1>5, <1>6, <1>7, <1>8

LEMMA AtMostOne ==
  ASSUME NEW S, \A x, y \in S : x = y
  PROVE  IsFiniteSet(S) /\ Cardinality(S) <= 1 /\ (S # {} => Cardinality(S) = 1)
<1>1. CASE S = {}
  BY <1>1, FS_EmptySet
<1>2. CASE S # {}
  <2>1. PICK x : S = {x}
    BY <1>2
  <2>2. IsFiniteSet({x}) /\ Cardinality({x}) = 1
    BY FS_Singleton
  <2> QED  BY <1>2, <2>1, <2>2
<1> QED  BY <1>1, <1>2

\* Between two interruptions the scheduler knows every process that has not
\* exited exactly once, as the current one, as ready or as waiting, and beside
\* them at most one that has exited.
THEOREM EverybodyOnce ==
  ASSUME ~Overlap
  PROVE  Spec => []OwnedOnce
<1>1. IInv /\ QuietInv => OwnedOnce
  <2> SUFFICES ASSUME IInv, QuietInv, Quiet
               PROVE  /\ \A p \in Pid : life[p] # "exited" => Copies(p) = 1
                      /\ Cardinality({i \in 1 .. Len(Listed) :
                            Listed[i] \in Pid /\ life[Listed[i]] = "exited"}) <= 1
    BY DEF OwnedOnce
  <2>1. ASSUME NEW p \in Pid, life[p] # "exited" PROVE Copies(p) = 1
    <3> DEFINE S == {i \in 1 .. Len(Listed) : Listed[i] = p}
    <3>1. \A x, y \in S : x = y
      BY ListedOnce
    <3>2. p = current.pid \/ In(p, First(mainList, size)) \/ In(p, Pids(waitQueue))
      <4>1. life[p] \in {"running", "stopped"}
        BY <2>1, QuietMeaning DEF Life
      <4> QED  BY <4>1, QuietMeaning DEF PlacesOf
    <3>3. \E i \in 1 .. Len(Listed) : Listed[i] = p
      <4>1. CASE p = current.pid
        BY <4>1, ListedIs
      <4>2. CASE In(p, First(mainList, size))
        <5>1. PICK i \in 1 .. size : First(mainList, size)[i] = p
          BY <4>2, QuietMeaning DEF In
        <5> QED  BY <5>1, ListedIs
      <4>3. CASE In(p, Pids(waitQueue))
        <5>1. PICK i \in 1 .. Len(waitQueue) : Pids(waitQueue)[i] = p
          BY <4>3, ListedIs DEF In
        <5> QED  BY <5>1, ListedIs
      <4> QED  BY <3>2, <4>1, <4>2, <4>3
    <3>4. S # {}
      BY <3>3
    <3>5. Cardinality(S) = 1
      BY <3>1, <3>4, AtMostOne
    <3> QED  BY <3>5 DEF Copies
  <2>2. Cardinality({i \in 1 .. Len(Listed) :
            Listed[i] \in Pid /\ life[Listed[i]] = "exited"}) <= 1
    <3> DEFINE S == {i \in 1 .. Len(Listed) : Listed[i] \in Pid /\ life[Listed[i]] = "exited"}
    <3>1. \A i \in S : Listed[i] = current.pid \/ In(Listed[i], First(mainList, size))
      <4> SUFFICES ASSUME NEW i \in S
                   PROVE  Listed[i] = current.pid \/ In(Listed[i], First(mainList, size))
        OBVIOUS
      <4>1. ~In(Listed[i], Pids(waitQueue))
        BY QuietMeaning DEF PlacesOf
      <4> QED  BY <4>1, ListedIs, QuietMeaning DEF In
    <3>2. ASSUME NEW i \in S, NEW j \in S PROVE i = j
      <4>1. Listed[i] = Listed[j]
        BY <3>1, QuietMeaning DEF PlacesOf
      <4> QED  BY <4>1, ListedOnce
    <3>3. Cardinality(S) <= 1
      BY <3>2, AtMostOne
    <3> QED  BY <3>3
  <2> QED  BY <2>1, <2>2
<1> QED  BY <1>1, QuietInvariant, PTL
=============================================================================
