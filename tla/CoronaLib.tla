----------------------------- MODULE CoronaLib -----------------------------
(***************************************************************************)
(* The coroutine engine of src/src/lib.rs: stackful coroutines switched   *)
(* cooperatively on one OS thread.                                        *)
(*                                                                         *)
(* One step of this spec is the code a single execution context runs       *)
(* between two context transfers (`Context::resume`).  Nothing else runs   *)
(* meanwhile, so grouping that code into one action loses no interleaving. *)
(* The thread-local SWITCH slot is `mailbox`; a transfer itself is the     *)
(* assignment to `running`.  The reactor (tokio Core) is the Main context, *)
(* which spawns top-level coroutines, polls the wake-up futures the        *)
(* coroutines registered, or is dropped (Shutdown).                        *)
(***************************************************************************)
EXTENDS Naturals, Sequences, FiniteSets

CONSTANTS
  Coro,      \* coroutine ids (model values), one per `Coroutine::spawn` call
  Main,      \* the thread's original context, where the reactor runs
  None,      \* "no context" / "no payload"
  MaxWaits   \* bound on the `Await::future` calls of one coroutine

ASSUME Main \notin Coro /\ None \notin Coro \cup {Main}
ASSUME MaxWaits \in Nat

Ctx == Coro \cup {Main}

VARIABLES
  running,   \* the execution context that currently has the CPU
  pc,        \* where each context is: see PcValues
  parent,    \* Await.transfer: the context a coroutine transfers back to
  callee,    \* the context a `run_child` frame of a context resumed
  mailbox,   \* thread-local SWITCH, as a sequence so an overfull slot shows
  wakeups,   \* coroutines whose wake-up future is spawned on the reactor
  stack,     \* ProtectedFixedSizeStack of each coroutine
  result,    \* the oneshot channel behind each CoroutineResult
  waits,     \* number of Await::future calls made by each coroutine
  down       \* the reactor Core has been dropped

vars == <<running, pc, parent, callee, mailbox, wakeups, stack, result,
          waits, down>>

(* "idle": not spawned; "start": transferred into, trampoline not yet run;  *)
(* "run": executing user code; "child": blocked in run_child's resume;      *)
(* "await": blocked in Await::future's resume; "dead": final transfer done. *)
PcValues == {"idle", "start", "run", "child", "await", "dead"}

Tags == {"StartTask", "ScheduleWakeup", "Resume", "Destroy"}

(* A Switch value; `co` names the coroutine whose stack it carries. *)
Msg(tag, co) == [tag |-> tag, co |-> co]

Put(m) == mailbox' = Append(mailbox, m)

(* Switch::get() expecting `tag`; any other content panics (the step is   *)
(* not enabled and the thread stops).                                      *)
Got(tag) == mailbox # <<>> /\ Head(mailbox).tag = tag

(* The context whose run_child frame transferred into c. *)
Resumer(c) == CHOOSE x \in Ctx : callee[x] = c

TypeOK ==
  /\ running \in Ctx
  /\ pc \in [Ctx -> PcValues]
  /\ parent \in [Coro -> Ctx \cup {None}]
  /\ callee \in [Ctx -> Coro \cup {None}]
  /\ mailbox \in Seq([tag : Tags, co : Coro \cup {None}])
  /\ wakeups \subseteq Coro
  /\ stack \in [Coro -> {"none", "owned", "freed"}]
  /\ result \in [Coro -> {"none", "stackerr", "open", "finished", "panicked"}]
  /\ waits \in [Coro -> 0..MaxWaits]
  /\ down \in BOOLEAN

Init ==
  /\ running = Main
  /\ pc = [x \in Ctx |-> IF x = Main THEN "run" ELSE "idle"]
  /\ parent = [c \in Coro |-> None]
  /\ callee = [x \in Ctx |-> None]
  /\ mailbox = <<>>
  /\ wakeups = {}
  /\ stack = [c \in Coro |-> "none"]
  /\ result = [c \in Coro |-> "none"]
  /\ waits = [c \in Coro |-> 0]
  /\ down = FALSE

(* A context p may call Coroutine::spawn while it runs user code; the      *)
(* reactor's context only while the Core exists.                           *)
CanSpawn(p, c) ==
  /\ running = p
  /\ pc[p] = "run"
  /\ p = Main => ~down
  /\ result[c] = "none"

(***************************************************************************)
(* Coroutine::spawn, its stack allocation failing: `?` returns the         *)
(* StackError before anything ran.                                         *)
(***************************************************************************)
SpawnStackError(p, c) ==
  /\ CanSpawn(p, c)
  /\ result' = [result EXCEPT ![c] = "stackerr"]
  /\ UNCHANGED <<running, pc, parent, callee, mailbox, wakeups, stack,
                 waits, down>>

(***************************************************************************)
(* Coroutine::spawn: allocate the stack, create the context, then          *)
(* run_child: put StartTask and transfer into the new context.             *)
(***************************************************************************)
Spawn(p, c) ==
  /\ CanSpawn(p, c)
  /\ stack' = [stack EXCEPT ![c] = "owned"]
  /\ result' = [result EXCEPT ![c] = "open"]
  /\ Put(Msg("StartTask", c))
  /\ running' = c
  /\ pc' = [pc EXCEPT ![p] = "child", ![c] = "start"]
  /\ callee' = [callee EXCEPT ![p] = c]
  /\ UNCHANGED <<parent, wakeups, waits, down>>

(***************************************************************************)
(* The trampoline `coroutine`: take StartTask, call perform_and_send with  *)
(* the transfer it was entered with, which starts the user task.           *)
(***************************************************************************)
Entry(c) ==
  /\ running = c
  /\ pc[c] = "start"
  /\ Got("StartTask")
  /\ Head(mailbox).co = c
  /\ mailbox' = Tail(mailbox)
  /\ pc' = [pc EXCEPT ![c] = "run"]
  /\ parent' = [parent EXCEPT ![c] = Resumer(c)]
  /\ UNCHANGED <<running, callee, wakeups, stack, result, waits, down>>

(***************************************************************************)
(* Await::future: put ScheduleWakeup, take the transfer out of the cell    *)
(* and resume the parent.                                                  *)
(***************************************************************************)
Await(c) ==
  /\ running = c
  /\ pc[c] = "run"
  /\ waits[c] < MaxWaits
  /\ Put(Msg("ScheduleWakeup", None))
  /\ running' = parent[c]
  /\ parent' = [parent EXCEPT ![c] = None]
  /\ pc' = [pc EXCEPT ![c] = "await"]
  /\ waits' = [waits EXCEPT ![c] = @ + 1]
  /\ UNCHANGED <<callee, wakeups, stack, result, down>>

\* Mutant: the transfer returned by resume(0) is not stored back.
WakeNoStore(c) ==
  /\ running = c
  /\ pc[c] = "await"
  /\ Got("Resume")
  /\ mailbox' = Tail(mailbox)
  /\ pc' = [pc EXCEPT ![c] = "run"]
  /\ UNCHANGED <<running, parent, callee, wakeups, stack, result, waits, down>>

(***************************************************************************)
(* Await::future after its resume(0) returns: store the new transfer,      *)
(* require Resume; the oneshot was filled by the wake-up's `then` before   *)
(* it resumed us, so `receiver.wait()` returns at once.                    *)
(***************************************************************************)
Wake(c) ==
  /\ running = c
  /\ pc[c] = "await"
  /\ Got("Resume")
  /\ mailbox' = Tail(mailbox)
  /\ parent' = [parent EXCEPT ![c] = Resumer(c)]
  /\ pc' = [pc EXCEPT ![c] = "run"]
  /\ UNCHANGED <<running, callee, wakeups, stack, result, waits, down>>

\* Mutant: the trampoline transfers out without putting Destroy.
FinishNoDestroy(c) ==
  /\ running = c
  /\ pc[c] = "run"
  /\ \E outcome \in {"finished", "panicked"} :
        result' = [result EXCEPT ![c] = outcome]
  /\ running' = parent[c]
  /\ pc' = [pc EXCEPT ![c] = "dead"]
  /\ UNCHANGED <<mailbox, parent, callee, wakeups, stack, waits, down>>

(***************************************************************************)
(* The end of perform_and_send and of the trampoline: the task returned or *)
(* panicked (catch_unwind), the result is sent (a send error is ignored),  *)
(* Destroy{stack} is put and control goes to the parent for good.          *)
(***************************************************************************)
Finish(c) ==
  /\ running = c
  /\ pc[c] = "run"
  /\ \E outcome \in {"finished", "panicked"} :
        result' = [result EXCEPT ![c] = outcome]
  /\ Put(Msg("Destroy", c))
  /\ running' = parent[c]
  /\ pc' = [pc EXCEPT ![c] = "dead"]
  /\ UNCHANGED <<parent, callee, wakeups, stack, waits, down>>

\* Mutant: Switch::get reads the slot without taking the instruction.
ChildReturnNoTake(p) ==
  /\ running = p
  /\ pc[p] = "child"
  /\ \/ /\ Got("Destroy")
        /\ stack' = [stack EXCEPT ![Head(mailbox).co] = "freed"]
        /\ UNCHANGED wakeups
     \/ /\ Got("ScheduleWakeup")
        /\ wakeups' = wakeups \cup {callee[p]}
        /\ UNCHANGED stack
  /\ pc' = [pc EXCEPT ![p] = "run"]
  /\ callee' = [callee EXCEPT ![p] = None]
  /\ UNCHANGED <<mailbox, running, parent, result, waits, down>>

\* Mutant: Destroy drops the context but leaks the stack it carries.
ChildReturnLeaks(p) ==
  /\ running = p
  /\ pc[p] = "child"
  /\ \/ /\ Got("Destroy")
        /\ UNCHANGED <<stack, wakeups>>
     \/ /\ Got("ScheduleWakeup")
        /\ wakeups' = wakeups \cup {callee[p]}
        /\ UNCHANGED stack
  /\ mailbox' = Tail(mailbox)
  /\ pc' = [pc EXCEPT ![p] = "run"]
  /\ callee' = [callee EXCEPT ![p] = None]
  /\ UNCHANGED <<running, parent, result, waits, down>>

\* Mutant: the wake-up future is built but never spawned on the reactor.
ChildReturnDropsWakeup(p) ==
  /\ running = p
  /\ pc[p] = "child"
  /\ \/ /\ Got("Destroy")
        /\ stack' = [stack EXCEPT ![Head(mailbox).co] = "freed"]
     \/ /\ Got("ScheduleWakeup")
        /\ UNCHANGED stack
  /\ mailbox' = Tail(mailbox)
  /\ pc' = [pc EXCEPT ![p] = "run"]
  /\ callee' = [callee EXCEPT ![p] = None]
  /\ UNCHANGED <<running, parent, wakeups, result, waits, down>>

\* Mutant: the wake-up branch also drops the stack of the returned context.
ChildReturnFreesOnWakeup(p) ==
  /\ running = p
  /\ pc[p] = "child"
  /\ \/ /\ Got("Destroy")
        /\ stack' = [stack EXCEPT ![Head(mailbox).co] = "freed"]
        /\ UNCHANGED wakeups
     \/ /\ Got("ScheduleWakeup")
        /\ wakeups' = wakeups \cup {callee[p]}
        /\ stack' = [stack EXCEPT ![callee[p]] = "freed"]
  /\ mailbox' = Tail(mailbox)
  /\ pc' = [pc EXCEPT ![p] = "run"]
  /\ callee' = [callee EXCEPT ![p] = None]
  /\ UNCHANGED <<running, parent, result, waits, down>>

(***************************************************************************)
(* run_child after its resume(0) returns: Destroy drops the child's        *)
(* context and the stack it carries; ScheduleWakeup spawns onto the        *)
(* reactor a future that will resume the returned context.                 *)
(***************************************************************************)
ChildReturn(p) ==
  /\ running = p
  /\ pc[p] = "child"
  /\ \/ /\ Got("Destroy")
        /\ stack' = [stack EXCEPT ![Head(mailbox).co] = "freed"]
        /\ UNCHANGED wakeups
     \/ /\ Got("ScheduleWakeup")
        /\ wakeups' = wakeups \cup {callee[p]}
        /\ UNCHANGED stack
  /\ mailbox' = Tail(mailbox)
  /\ pc' = [pc EXCEPT ![p] = "run"]
  /\ callee' = [callee EXCEPT ![p] = None]
  /\ UNCHANGED <<running, parent, result, waits, down>>

\* Mutant: the resolved wake-up stays registered and can fire again.
ReactorPollKeepsWakeup(c) ==
  /\ running = Main
  /\ pc[Main] = "run"
  /\ ~down
  /\ c \in wakeups
  /\ Put(Msg("Resume", None))
  /\ running' = c
  /\ pc' = [pc EXCEPT ![Main] = "child"]
  /\ callee' = [callee EXCEPT ![Main] = c]
  /\ UNCHANGED <<wakeups, parent, stack, result, waits, down>>

(***************************************************************************)
(* The reactor polls a wake-up whose future resolved: its `then` closure   *)
(* calls run_child(context, Resume).                                       *)
(***************************************************************************)
ReactorPoll(c) ==
  /\ running = Main
  /\ pc[Main] = "run"
  /\ ~down
  /\ c \in wakeups
  /\ wakeups' = wakeups \ {c}
  /\ Put(Msg("Resume", None))
  /\ running' = c
  /\ pc' = [pc EXCEPT ![Main] = "child"]
  /\ callee' = [callee EXCEPT ![Main] = c]
  /\ UNCHANGED <<parent, stack, result, waits, down>>

(***************************************************************************)
(* The Core is dropped: the pending wake-ups, and the contexts they hold,  *)
(* are dropped without being run.                                          *)
(***************************************************************************)
Shutdown ==
  /\ running = Main
  /\ pc[Main] = "run"
  /\ ~down
  /\ down' = TRUE
  /\ wakeups' = {}
  /\ UNCHANGED <<running, pc, parent, callee, mailbox, stack, result, waits>>

(* What the user code of a running coroutine may do next. *)
CoroStep(c) ==
  \/ \E d \in Coro : Spawn(c, d) \/ SpawnStackError(c, d)
  \/ Await(c)
  \/ Finish(c)

Next ==
  \/ \E p \in Ctx, c \in Coro : Spawn(p, c) \/ SpawnStackError(p, c)
  \/ \E c \in Coro : Entry(c) \/ Await(c) \/ Wake(c) \/ Finish(c)
  \/ \E p \in Ctx : ChildReturn(p)
  \/ \E c \in Coro : ReactorPoll(c)
  \/ Shutdown

(***************************************************************************)
(* Fairness: code after a transfer always continues (Entry, Wake,          *)
(* ChildReturn); a task's code eventually suspends or returns (CoroStep);  *)
(* the reactor polls every resolved wake-up (tokio's guarantee).  Main's   *)
(* own spawns and the drop of the Core are not forced.                     *)
(***************************************************************************)
Fairness ==
  /\ \A c \in Coro : WF_vars(Entry(c)) /\ WF_vars(Wake(c))
  /\ \A c \in Coro : WF_vars(CoroStep(c))
  /\ \A p \in Ctx : WF_vars(ChildReturn(p))
  /\ \A c \in Coro : WF_vars(ReactorPoll(c))

Spec == Init /\ [][Next]_vars
FairSpec == Spec /\ Fairness

-----------------------------------------------------------------------------
(***************************************************************************)
(* Properties                                                              *)
(***************************************************************************)

(* The SWITCH slot holds exactly one instruction while a transfer is in    *)
(* flight (the receiver has the CPU but has not called Switch::get yet),   *)
(* and none while user code runs: `put` never finds a leftover and `get`   *)
(* never finds it missing, however spawns, waits and wake-ups nest.        *)
MailboxFraming ==
  Len(mailbox) = IF pc[running] = "run" THEN 0 ELSE 1

(* Every coroutine that is active (running user code, or blocked in        *)
(* run_child for a child it spawned) will transfer back to the context     *)
(* whose run_child frame is waiting for it: the transfer stored in         *)
(* Await.transfer is never stale after a resumption from another context. *)
ReturnPathIntact ==
  \A c \in Coro :
     pc[c] \in {"run", "child"} => parent[c] \in Ctx /\ callee[parent[c]] = c

(* A stack is released only after its coroutine made its final transfer,   *)
(* by the context it returned to, and nothing can resume it afterwards;    *)
(* a finished coroutine's stack is released by the very next step.         *)
StackReleasedOnlyAfterExit ==
  \A c \in Coro :
     /\ stack[c] = "freed" =>
           /\ pc[c] = "dead" /\ c \notin wakeups
           /\ \A x \in Ctx : callee[x] # c
     /\ (pc[c] = "dead" /\ stack[c] # "freed") =>
           mailbox = <<Msg("Destroy", c)>>

(* A suspended coroutine is accounted for exactly once until the Core is   *)
(* dropped: its ScheduleWakeup is on the way to the run_child frame that   *)
(* resumed it, or its wake-up is registered, or the Resume is on the way   *)
(* to it; and a registered wake-up always targets a suspended coroutine.   *)
SuspendedIsTracked ==
  /\ \A c \in wakeups : pc[c] = "await" /\ running # c
  /\ \A c \in Coro : (pc[c] = "await" /\ ~down) =>
        \/ c \in wakeups
        \/ callee[running] = c /\ pc[running] = "child"
        \/ running = c

(* The thread only stops once the Core has been dropped: no mismatched     *)
(* instruction or lost transfer leaves every context blocked.              *)
StopsOnlyAtShutdown == (ENABLED Next) \/ down

(* Every coroutine spawned with a stack has its result sent and its stack  *)
(* released, unless the Core is dropped first.                             *)
TerminatesUnlessShutdown ==
  \A c \in Coro :
     result[c] = "open" ~> (stack[c] = "freed" /\ result[c] # "open") \/ down

(* Spec section 5: every suspended coroutine is resumed, for real or with  *)
(* Cleanup, and its stack is eventually released, even across a shutdown. *)
EveryStackReleased ==
  \A c \in Coro : stack[c] = "owned" ~> stack[c] = "freed"


-----------------------------------------------------------------------------
(***************************************************************************)
(* Refinement of CoroutineLifecycle                                        *)
(***************************************************************************)

(* A coroutine counts as active from the transfer into it until the        *)
(* transfer out of it: also while its Resume is still in the slot.         *)
Active(c) == pc[c] \in {"start", "run", "child"} \/ (pc[c] = "await" /\ running = c)

(* The chain of run_child frames from the thread's own context to the one  *)
(* that executes; `n` bounds the walk.                                     *)
RECURSIVE ChainFrom(_, _)
ChainFrom(x, n) ==
  IF n > 0 /\ callee[x] # None /\ Active(callee[x])
  THEN <<x>> \o ChainFrom(callee[x], n - 1)
  ELSE <<x>>

LifecycleState(c) ==
  CASE result[c] = "none"     -> "none"
    [] result[c] = "stackerr" -> "failed"
    [] stack[c] = "freed"     -> "destroyed"
    [] pc[c] = "dead"         -> "finished"
    [] Active(c)              -> "running"
    [] OTHER                  -> "suspended"

Lifecycle == INSTANCE CoroutineLifecycle
               WITH state <- [c \in Coro |-> LifecycleState(c)],
                    nest  <- ChainFrom(Main, Cardinality(Coro))

(* The engine implements the lifecycle: spawn runs the child eagerly until *)
(* it suspends or finishes, only the reactor resumes a suspended coroutine, *)
(* and a stack is released only after its task finished.                   *)
LifecycleRefined == Lifecycle!Spec

=============================================================================
