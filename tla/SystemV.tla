------------------------------ MODULE SystemV -------------------------------
(***************************************************************************)
(* The System V IPC of the kernel, as the exercises of Lab 7 use it: each  *)
(* of them has one semaphore and at most one shared memory segment, found  *)
(* by keys the source fixes, and processes that may be killed and started  *)
(* again at any moment.  Every semop() carries SEM_UNDO: the kernel keeps  *)
(* for each process what would take its operations back, and applies it    *)
(* when the process ends, however it ends.                                 *)
(***************************************************************************)
EXTENDS Integers, FiniteSetsExt

CONSTANTS
  Process,    (* The processes the users start.                            *)
  Scenarios,  (* Which programs they may run.                              *)
  Restarts,   (* How often a process that is gone is started again.        *)
  SemMax      (* SEMVMX and SEMAEM, 32767 in Linux.                        *)

ASSUME SystemVAssumption ==
  /\ IsFiniteSet(Process)
  /\ Scenarios \subseteq [Process -> STRING]
  /\ Restarts \in Nat
  /\ SemMax \in Nat \ {0}

VARIABLES
  program,    (* What each process runs.                                   *)
  pc,         (* Its next statement; "gone" when it has ended.             *)
  i,          (* The i of its main(), which counts its rounds.             *)
  starts,     (* Restarts so far.                                          *)
  semId,      (* What each process' semId is good for: nothing yet, the    *)
              (* semaphore, or one that was removed.                       *)
  exists,     (* Whether there is a semaphore.                             *)
  value,      (* Its value.                                                *)
  undo,       (* What SEM_UNDO keeps for each process.                     *)
  base,       (* The value semctl() gave it, 0 before.                     *)
  segment,    (* Whether shmget() finds a segment.                         *)
  attached,   (* The processes shmat() gave the segment's address.         *)
  hit         (* The misfortunes so far: "kill", "reset" (SETVAL forgot    *)
              (* operations not yet taken back), "remove" (IPC_RMID under  *)
              (* a process that still uses the semaphore), "clamp" (SEM_-  *)
              (* UNDO stopped at a bound), "range" (semop() returned       *)
              (* ERANGE) and "zero" (see SemaphoreSum).                    *)

semVars == <<semId, exists, value, undo, base>>
shmVars == <<segment, attached>>
systemVars == <<program, pc, i, starts, semVars, shmVars, hit>>

Alive(p) == pc[p] # "gone"

SystemInit ==
  /\ program \in Scenarios
  /\ i = [p \in Process |-> 0]
  /\ starts = 0
  /\ semId = [p \in Process |-> "none"]
  /\ exists = FALSE /\ value = 0 /\ base = 0
  /\ undo = [p \in Process |-> 0]
  /\ segment \in BOOLEAN
  /\ attached = {}
  /\ hit = {}

At(p, programs, label) == program[p] \in programs /\ pc[p] = label

Goto(p, label) == pc' = [pc EXCEPT ![p] = label]

-----------------------------------------------------------------------------
(* The semaphore.                                                          *)

NoSemCall == UNCHANGED <<semVars, hit>>

\* semget(key, 1, 0666 | IPC_CREAT)
SemCreate(p) ==
  /\ semId' = [semId EXCEPT ![p] = "valid"]
  /\ exists' = TRUE
  /\ UNCHANGED <<value, undo, base, hit>>

\* semget(key, 1, 0666), once it succeeds.
SemFind(p) ==
  /\ exists
  /\ semId' = [semId EXCEPT ![p] = "valid"]
  /\ UNCHANGED <<exists, value, undo, base, hit>>

\* semctl(semId, 0, SETVAL, v); the kernel forgets what it was to undo.
SemSet(p, v) ==
  IF semId[p] = "valid"
    THEN /\ value' = v /\ base' = v
         /\ undo' = [q \in Process |-> 0]
         /\ hit' = IF \E q \in Process : undo[q] # 0 THEN hit \cup {"reset"} ELSE hit
         /\ UNCHANGED <<semId, exists>>
    ELSE NoSemCall

InRange(p, n) == value + n <= SemMax /\ undo[p] - n \in (-SemMax - 1) .. SemMax

\* semop(): it waits while the value would be negative, and returns an error,
\* which nobody looks at, when a limit is passed or the semaphore was removed.
SemOp(p, n, semFlg) ==
  \/ /\ semId[p] = "valid" /\ value + n >= 0 /\ InRange(p, n)
     /\ value' = value + n
     /\ undo' = IF semFlg = "SEM_UNDO" THEN [undo EXCEPT ![p] = @ - n] ELSE undo
     /\ UNCHANGED <<semId, exists, base, hit>>
  \/ /\ semId[p] = "valid" /\ value + n >= 0 /\ ~InRange(p, n)
     /\ hit' = hit \cup {"range"}
     /\ UNCHANGED semVars
  \/ /\ semId[p] # "valid"
     /\ NoSemCall

\* semctl(semId, 0, IPC_RMID)
SemRemove(p) ==
  IF semId[p] = "valid"
    THEN /\ exists' = FALSE /\ value' = 0 /\ base' = 0
         /\ undo' = [q \in Process |-> 0]
         /\ semId' = [q \in Process |-> IF semId[q] = "valid" THEN "stale" ELSE semId[q]]
         /\ hit' = IF \E q \in Process \ {p} : semId[q] = "valid" THEN hit \cup {"remove"} ELSE hit
    ELSE NoSemCall

-----------------------------------------------------------------------------
(* The segment.                                                            *)

\* shmget() and shmat() of a segment that is there; otherwise the address is
\* (void *) -1, and the first access is the process' end.
ShmAttach(p) ==
  /\ attached' = IF segment THEN attached \cup {p} ELSE attached
  /\ UNCHANGED segment

\* shmget(IPC_CREAT | IPC_EXCL) and shmat()
ShmCreate(p) ==
  /\ attached' = IF segment THEN attached ELSE attached \cup {p}
  /\ segment' = TRUE

\* shmdt() and shmctl(IPC_RMID); who is attached keeps the memory.
ShmRemove(p) ==
  /\ attached' = attached \ {p}
  /\ segment' = IF p \in attached THEN FALSE ELSE segment

-----------------------------------------------------------------------------
(* The processes.                                                          *)

Undone(p) == value + undo[p]

\* exit(), the end of main() or a deadly signal: the kernel undoes and
\* detaches.
Terminate(p, fate) ==
  /\ Goto(p, "gone")
  /\ i' = [i EXCEPT ![p] = 0]
  /\ semId' = [semId EXCEPT ![p] = "none"]
  /\ undo' = [undo EXCEPT ![p] = 0]
  /\ value' = Min({SemMax, Max({0, Undone(p)})})
  /\ attached' = attached \ {p}
  /\ hit' = hit \cup fate \cup IF Undone(p) \in 0 .. SemMax THEN {} ELSE {"clamp"}
  /\ UNCHANGED <<program, starts, exists, base, segment>>

Leave(p) == Terminate(p, {})

\* Ctrl-C
Kill(p) == Alive(p) /\ Terminate(p, {"kill"})

\* The first access to an address shmat() did not give.
Crash(p) == p \notin attached /\ Terminate(p, {"kill"})

Restart(p, entry) ==
  /\ ~Alive(p) /\ starts < Restarts
  /\ Goto(p, entry)
  /\ starts' = starts + 1
  /\ UNCHANGED <<program, i, semVars, shmVars, hit>>

Sum(f) == MapThenSumSet(LAMBDA p : f[p], Process)
=============================================================================
