--------------------------- MODULE CoronaCoroutine ---------------------------
(***************************************************************************)
(* The coroutine engine of src/src/coroutine.rs, with the `switch` module  *)
(* it uses (not under src/) modelled from spec sections 4.2, 4.5 and 4.6.  *)
(*                                                                         *)
(* As in CoronaLib, one step is the code one execution context runs        *)
(* between two transfers.  What is new: the thread-local stack CONTEXTS of *)
(* CoroutineContext records replaces Await.transfer; `wait` keeps its own  *)
(* record on its stack while suspended and writes the future's outcome     *)
(* into a slot on that stack; a WaitTask dropped by the reactor exchanges  *)
(* Cleanup into its coroutine, which then returns Err(Dropped).            *)
(***************************************************************************)
EXTENDS Naturals, Sequences, SequencesExt

CONSTANTS
  Coro,      \* coroutine ids (model values), one per `Coroutine::spawn` call
  Main,      \* the thread's original context, where the reactor runs
  None,      \* "no context" / "no record" / "no payload"
  MaxWaits   \* bound on the `Coroutine::wait` calls of one coroutine

ASSUME Main \notin Coro /\ None \notin Coro \cup {Main}
ASSUME MaxWaits \in Nat

Ctx == Coro \cup {Main}

VARIABLES
  running,   \* the execution context that currently has the CPU
  pc,        \* where each context is, as in CoronaLib
  callee,    \* the context an exchange / run_new_coroutine frame resumed
  contexts,  \* CONTEXTS: sequence of records [co, parent]
  held,      \* my_context, kept on the stack of a coroutine inside `wait`
  mailbox,   \* the switch module's thread-local slot
  wakeups,   \* coroutines whose WaitTask is spawned on the reactor
  slot,      \* `result: Option<Result<I, E>>` on the waiting coroutine's stack
  stack,     \* ProtectedFixedSizeStack of each coroutine
  result,    \* the oneshot channel behind each CoroutineResult
  waits,     \* number of `wait` calls made by each coroutine
  down       \* the reactor Core has been dropped

vars == <<running, pc, callee, contexts, held, mailbox, wakeups, slot, stack,
          result, waits, down>>

PcValues == {"idle", "start", "run", "child", "await", "dead"}

Tags == {"StartTask", "WaitFuture", "Resume", "Cleanup", "Destroy"}

(* A CoroutineContext: whose record it is, and its parent_context. *)
Record(co, parent) == [co |-> co, parent |-> parent]

(* A Switch value; `co` names the coroutine whose stack it carries. *)
Msg(tag, co) == [tag |-> tag, co |-> co]

Put(m) == mailbox' = Append(mailbox, m)

Got(tag) == mailbox # <<>> /\ Head(mailbox).tag = tag

(* The context whose frame transferred into c: the Transfer's context. *)
Resumer(c) == CHOOSE x \in Ctx : callee[x] = c

TypeOK ==
  /\ running \in Ctx
  /\ pc \in [Ctx -> PcValues]
  /\ callee \in [Ctx -> Coro \cup {None}]
  /\ contexts \in Seq([co : Coro, parent : Ctx])
  /\ held \in [Coro -> [co : Coro, parent : Ctx] \cup {None}]
  /\ mailbox \in Seq([tag : Tags, co : Coro \cup {None}])
  /\ wakeups \subseteq Coro
  /\ slot \in [Coro -> {"empty", "filled"}]
  /\ stack \in [Coro -> {"none", "owned", "freed"}]
  /\ result \in [Coro -> {"none", "stackerr", "open", "finished", "panicked"}]
  /\ waits \in [Coro -> 0..MaxWaits]
  /\ down \in BOOLEAN

Init ==
  /\ running = Main
  /\ pc = [x \in Ctx |-> IF x = Main THEN "run" ELSE "idle"]
  /\ callee = [x \in Ctx |-> None]
  /\ contexts = <<>>
  /\ held = [c \in Coro |-> None]
  /\ mailbox = <<>>
  /\ wakeups = {}
  /\ slot = [c \in Coro |-> "empty"]
  /\ stack = [c \in Coro |-> "none"]
  /\ result = [c \in Coro |-> "none"]
  /\ waits = [c \in Coro |-> 0]
  /\ down = FALSE

CanSpawn(p, c) ==
  /\ running = p
  /\ pc[p] = "run"
  /\ p = Main => ~down
  /\ result[c] = "none"

(* Coroutine::spawn: run_new_coroutine fails to allocate the stack. *)
SpawnStackError(p, c) ==
  /\ CanSpawn(p, c)
  /\ result' = [result EXCEPT ![c] = "stackerr"]
  /\ UNCHANGED <<running, pc, callee, contexts, held, mailbox, wakeups, slot,
                 stack, waits, down>>

(* Coroutine::spawn: run_new_coroutine allocates the stack, puts           *)
(* StartTask and transfers into the new context.                           *)
Spawn(p, c) ==
  /\ CanSpawn(p, c)
  /\ stack' = [stack EXCEPT ![c] = "owned"]
  /\ result' = [result EXCEPT ![c] = "open"]
  /\ Put(Msg("StartTask", c))
  /\ running' = c
  /\ pc' = [pc EXCEPT ![p] = "child", ![c] = "start"]
  /\ callee' = [callee EXCEPT ![p] = c]
  /\ UNCHANGED <<contexts, held, wakeups, slot, waits, down>>

(* The trampoline takes StartTask and calls `perform`, which pushes the    *)
(* coroutine's record with the context it was entered from.               *)
Entry(c) ==
  /\ running = c
  /\ pc[c] = "start"
  /\ Got("StartTask")
  /\ Head(mailbox).co = c
  /\ mailbox' = Tail(mailbox)
  /\ contexts' = Append(contexts, Record(c, Resumer(c)))
  /\ pc' = [pc EXCEPT ![c] = "run"]
  /\ UNCHANGED <<running, callee, held, wakeups, slot, stack, result, waits,
                 down>>

(* Coroutine::wait up to its exchange: pop the top record (panicking when  *)
(* there is none), clear the result slot, put WaitFuture and transfer to   *)
(* the popped record's parent_context.                                     *)
Wait(c) ==
  /\ running = c
  /\ pc[c] = "run"
  /\ waits[c] < MaxWaits
  /\ contexts # <<>>
  /\ held' = [held EXCEPT ![c] = Last(contexts)]
  /\ contexts' = Front(contexts)
  /\ slot' = [slot EXCEPT ![c] = "empty"]
  /\ Put(Msg("WaitFuture", None))
  /\ running' = Last(contexts).parent
  /\ pc' = [pc EXCEPT ![c] = "await"]
  /\ waits' = [waits EXCEPT ![c] = @ + 1]
  /\ UNCHANGED <<callee, wakeups, stack, result, down>>

\* Mutant: the pushed record keeps the parent_context from before the wait.
WakeStaleParent(c) ==
  /\ running = c
  /\ pc[c] = "await"
  /\ Got("Resume") \/ Got("Cleanup")
  /\ mailbox' = Tail(mailbox)
  /\ contexts' = Append(contexts, held[c])
  /\ held' = [held EXCEPT ![c] = None]
  /\ pc' = [pc EXCEPT ![c] = "run"]
  /\ UNCHANGED <<running, callee, wakeups, slot, stack, result, waits, down>>

\* Mutant: only Resume is expected on wake-up; Cleanup hits unreachable!.
WakeOnlyResume(c) ==
  /\ running = c
  /\ pc[c] = "await"
  /\ Got("Resume")
  /\ mailbox' = Tail(mailbox)
  /\ contexts' = Append(contexts, Record(held[c].co, Resumer(c)))
  /\ held' = [held EXCEPT ![c] = None]
  /\ pc' = [pc EXCEPT ![c] = "run"]
  /\ UNCHANGED <<running, callee, wakeups, slot, stack, result, waits, down>>

\* Mutant: the instruction is read but left in the slot.
WakeNoTake(c) ==
  /\ running = c
  /\ pc[c] = "await"
  /\ Got("Resume") \/ Got("Cleanup")
  /\ contexts' = Append(contexts, Record(held[c].co, Resumer(c)))
  /\ held' = [held EXCEPT ![c] = None]
  /\ pc' = [pc EXCEPT ![c] = "run"]
  /\ UNCHANGED <<mailbox, running, callee, wakeups, slot, stack, result,
                 waits, down>>

(* Coroutine::wait after the exchange returns: push a record with the kept *)
(* stack and the new parent_context, then Resume returns the slot's value  *)
(* and Cleanup returns Err(Dropped) without reading it.                    *)
Wake(c) ==
  /\ running = c
  /\ pc[c] = "await"
  /\ Got("Resume") \/ Got("Cleanup")
  /\ mailbox' = Tail(mailbox)
  /\ contexts' = Append(contexts, Record(held[c].co, Resumer(c)))
  /\ held' = [held EXCEPT ![c] = None]
  /\ pc' = [pc EXCEPT ![c] = "run"]
  /\ UNCHANGED <<running, callee, wakeups, slot, stack, result, waits, down>>

(* The end of `perform`: catch_unwind gives Finished or Panicked, the send *)
(* result is ignored, the top record is popped (`unwrap`), and the        *)
(* trampoline puts Destroy with the record's stack and transfers to the    *)
(* record's parent_context.                                                *)
Finish(c) ==
  /\ running = c
  /\ pc[c] = "run"
  /\ contexts # <<>>
  /\ \E outcome \in {"finished", "panicked"} :
        result' = [result EXCEPT ![c] = outcome]
  /\ contexts' = Front(contexts)
  /\ Put(Msg("Destroy", Last(contexts).co))
  /\ running' = Last(contexts).parent
  /\ pc' = [pc EXCEPT ![c] = "dead"]
  /\ UNCHANGED <<callee, held, wakeups, slot, stack, waits, down>>

\* Mutant: Destroy drops the context but leaks the stack it carries.
ChildReturnLeaks(p) ==
  /\ running = p
  /\ pc[p] = "child"
  /\ \/ Got("Destroy") /\ UNCHANGED <<stack, wakeups>>
     \/ Got("WaitFuture") /\ wakeups' = wakeups \cup {callee[p]}
                          /\ UNCHANGED stack
  /\ mailbox' = Tail(mailbox)
  /\ pc' = [pc EXCEPT ![p] = "run"]
  /\ callee' = [callee EXCEPT ![p] = None]
  /\ UNCHANGED <<running, contexts, held, slot, result, waits, down>>

\* Mutant: the WaitFuture branch also drops the returned context's stack.
ChildReturnFreesOnWait(p) ==
  /\ running = p
  /\ pc[p] = "child"
  /\ \/ Got("Destroy") /\ stack' = [stack EXCEPT ![Head(mailbox).co] = "freed"]
                       /\ UNCHANGED wakeups
     \/ Got("WaitFuture") /\ wakeups' = wakeups \cup {callee[p]}
                          /\ stack' = [stack EXCEPT ![callee[p]] = "freed"]
  /\ mailbox' = Tail(mailbox)
  /\ pc' = [pc EXCEPT ![p] = "run"]
  /\ callee' = [callee EXCEPT ![p] = None]
  /\ UNCHANGED <<running, contexts, held, slot, result, waits, down>>

(* The switch module after a transfer returns to the resuming side:        *)
(* Destroy frees the stack it carries; WaitFuture spawns the WaitTask,     *)
(* holding the returned context, on the reactor.                           *)
ChildReturn(p) ==
  /\ running = p
  /\ pc[p] = "child"
  /\ \/ /\ Got("Destroy")
        /\ stack' = [stack EXCEPT ![Head(mailbox).co] = "freed"]
        /\ UNCHANGED wakeups
     \/ /\ Got("WaitFuture")
        /\ wakeups' = wakeups \cup {callee[p]}
        /\ UNCHANGED stack
  /\ mailbox' = Tail(mailbox)
  /\ pc' = [pc EXCEPT ![p] = "run"]
  /\ callee' = [callee EXCEPT ![p] = None]
  /\ UNCHANGED <<running, contexts, held, slot, result, waits, down>>

\* Mutant: the WaitTask keeps its context after resuming, so its Drop can
\* still exchange Cleanup.
ReactorPollKeepsTask(c) ==
  /\ running = Main
  /\ pc[Main] = "run"
  /\ ~down
  /\ c \in wakeups
  /\ slot' = [slot EXCEPT ![c] = "filled"]
  /\ Put(Msg("Resume", None))
  /\ running' = c
  /\ pc' = [pc EXCEPT ![Main] = "child"]
  /\ callee' = [callee EXCEPT ![Main] = c]
  /\ UNCHANGED <<wakeups, contexts, held, stack, result, waits, down>>

ReactorPoll(c) ==
  /\ running = Main
  /\ pc[Main] = "run"
  /\ ~down
  /\ c \in wakeups
  /\ wakeups' = wakeups \ {c}
  /\ slot' = [slot EXCEPT ![c] = "filled"]
  /\ Put(Msg("Resume", None))
  /\ running' = c
  /\ pc' = [pc EXCEPT ![Main] = "child"]
  /\ callee' = [callee EXCEPT ![Main] = c]
  /\ UNCHANGED <<contexts, held, stack, result, waits, down>>

\* Mutant: the Core forgets its tasks instead of dropping them (lib.rs).
ShutdownForgetsTasks ==
  /\ running = Main
  /\ pc[Main] = "run"
  /\ ~down
  /\ down' = TRUE
  /\ wakeups' = {}
  /\ UNCHANGED <<running, pc, callee, contexts, held, mailbox, slot, stack,
                 result, waits>>

(* The Core starts being dropped. *)
Shutdown ==
  /\ running = Main
  /\ pc[Main] = "run"
  /\ ~down
  /\ down' = TRUE
  /\ UNCHANGED <<running, pc, callee, contexts, held, mailbox, wakeups, slot,
                 stack, result, waits>>

(* The dropped Core drops a WaitTask: its Drop exchanges Cleanup. *)
DropTask(c) ==
  /\ running = Main
  /\ pc[Main] = "run"
  /\ down
  /\ c \in wakeups
  /\ wakeups' = wakeups \ {c}
  /\ Put(Msg("Cleanup", None))
  /\ running' = c
  /\ pc' = [pc EXCEPT ![Main] = "child"]
  /\ callee' = [callee EXCEPT ![Main] = c]
  /\ UNCHANGED <<contexts, held, slot, stack, result, waits, down>>

CoroStep(c) ==
  \/ \E d \in Coro : Spawn(c, d) \/ SpawnStackError(c, d)
  \/ Wait(c)
  \/ Finish(c)

Next ==
  \/ \E p \in Ctx, c \in Coro : Spawn(p, c) \/ SpawnStackError(p, c)
  \/ \E c \in Coro : Entry(c) \/ Wait(c) \/ Wake(c) \/ Finish(c)
  \/ \E p \in Ctx : ChildReturn(p)
  \/ \E c \in Coro : ReactorPoll(c) \/ DropTask(c)
  \/ Shutdown

(* As in CoronaLib; in addition a dropped Core drops every task it holds. *)
Fairness ==
  /\ \A c \in Coro : WF_vars(Entry(c)) /\ WF_vars(Wake(c))
  /\ \A c \in Coro : WF_vars(CoroStep(c))
  /\ \A p \in Ctx : WF_vars(ChildReturn(p))
  /\ \A c \in Coro : WF_vars(ReactorPoll(c)) /\ WF_vars(DropTask(c))

Spec == Init /\ [][Next]_vars
FairSpec == Spec /\ Fairness


-----------------------------------------------------------------------------
(***************************************************************************)
(* Properties                                                              *)
(***************************************************************************)

Active(c) == pc[c] \in {"start", "run", "child"} \/ (pc[c] = "await" /\ running = c)

(* The chain of resuming frames from the thread's own context to the one   *)
(* that executes; `n` bounds the walk.                                     *)
RECURSIVE ChainFrom(_, _)
ChainFrom(x, n) ==
  IF n > 0 /\ callee[x] # None /\ Active(callee[x])
  THEN <<x>> \o ChainFrom(callee[x], n - 1)
  ELSE <<x>>

Chain == ChainFrom(Main, Len(SetToSeq(Coro)))

(* The part of the chain that has landed: a coroutine whose StartTask,     *)
(* Resume or Cleanup is still in the slot has not pushed its record yet.   *)
Landed == IF pc[Last(Chain)] \in {"start", "await"} THEN Front(Chain) ELSE Chain

(* The switch protocol is framed: one instruction while a transfer is in   *)
(* flight, none while user code runs.                                      *)
MailboxFraming ==
  Len(mailbox) = IF pc[running] = "run" THEN 0 ELSE 1

(* CONTEXTS is exactly the chain of active coroutines, innermost last, and *)
(* each record's parent_context is the frame that resumed that coroutine   *)
(* most recently: so `wait` and the end of `perform` always pop their own  *)
(* record, `reactor()` reads the running coroutine's, and the transfer out *)
(* goes to a frame that waits for it, across spawns nested in coroutines   *)
(* and resumptions by the reactor.                                         *)
ContextsMatchChain ==
  /\ Len(contexts) = Len(Landed) - 1
  /\ \A i \in 1..Len(contexts) : contexts[i] = Record(Landed[i + 1], Landed[i])

(* A stack is released only after its coroutine's final transfer, by the  *)
(* context it returned to, and nothing can resume it afterwards; a         *)
(* finished coroutine's stack is released by the very next step.          *)
StackReleasedOnlyAfterExit ==
  \A c \in Coro :
     /\ stack[c] = "freed" =>
           /\ pc[c] = "dead" /\ c \notin wakeups
           /\ \A x \in Ctx : callee[x] # c
     /\ (pc[c] = "dead" /\ stack[c] # "freed") =>
           mailbox = <<Msg("Destroy", c)>>

(* Every waiting coroutine has exactly one pending resumption, real or     *)
(* cancelling, also after the Core is dropped: its WaitFuture is on the    *)
(* way to the resuming frame, its WaitTask is registered, or its Resume or *)
(* Cleanup is in the slot; a registered task always belongs to a waiting   *)
(* coroutine, so no context is resumed twice.                              *)
SuspendedIsTracked ==
  /\ \A c \in wakeups : pc[c] = "await" /\ running # c
  /\ \A c \in Coro : pc[c] = "await" =>
        \/ c \in wakeups
        \/ callee[running] = c /\ pc[running] = "child"
        \/ running = c

StopsOnlyWhenReleased ==
  (ENABLED Next) \/ (down /\ \A c \in Coro : stack[c] # "owned")

(* Spec section 5: every coroutine with a stack is eventually finished and *)
(* its stack released, even when the Core is dropped while it waits.       *)
EveryStackReleased ==
  \A c \in Coro : stack[c] = "owned" ~> stack[c] = "freed"

LifecycleState(c) ==
  CASE result[c] = "none"     -> "none"
    [] result[c] = "stackerr" -> "failed"
    [] stack[c] = "freed"     -> "destroyed"
    [] pc[c] = "dead"         -> "finished"
    [] Active(c)              -> "running"
    [] OTHER                  -> "suspended"

Lifecycle == INSTANCE CoroutineLifecycle
               WITH state <- [c \in Coro |-> LifecycleState(c)],
                    nest  <- Chain

(* The engine implements the lifecycle of CoroutineLifecycle. *)
LifecycleRefined == Lifecycle!Spec

=============================================================================
