------------------------------ MODULE CoronaJoin ------------------------------
(***************************************************************************)
(* The join handles of src/src/coroutine.rs composed with its engine.      *)
(*                                                                         *)
(* Coroutine::spawn returns a CoroutineResult, the Receiver of a oneshot   *)
(* channel whose Sender `perform` fires with the TaskResult.  The handle   *)
(* is a future: the thread's own context drives the reactor with           *)
(* core.run(handle) until it resolves, and a coroutine waits for it with   *)
(* Coroutine::wait.  A handle is owned by one context at a time: the       *)
(* spawner gets it, may move it into the closure of a later spawn (as the  *)
(* `done` coroutine of the lib.rs tests does), and a wait or core.run      *)
(* consumes it.                                                            *)
(*                                                                         *)
(* Every step of the engine is a step of CoronaCoroutine (Eng); this       *)
(* module adds what the handles decide: which future a wait is on, when a  *)
(* WaitTask's future is ready, and that the reactor only turns inside      *)
(* core.run.  A wait on any other future (a timeout, a channel) resolves   *)
(* at some time while the reactor turns.                                   *)
(***************************************************************************)
EXTENDS Naturals, Sequences, SequencesExt

CONSTANTS Coro, Main, None, MaxWaits

VARIABLES
  running, pc, callee, contexts, held, mailbox, wakeups, slot, stack, result,
  waits, down,
  handles,   \* the CoroutineResults each context owns
  target,    \* the handle a waiting coroutine's future is, None for others
  mainRun    \* the handle core.run is driving, None outside core.run

Eng == INSTANCE CoronaCoroutine

Ctx == Eng!Ctx

engineVars == <<running, pc, callee, contexts, held, mailbox, wakeups, slot,
               stack, result, waits, down>>
joinVars == <<handles, target, mainRun>>
vars == <<engineVars, joinVars>>

TypeOK ==
  /\ Eng!TypeOK
  /\ handles \in [Ctx -> SUBSET Coro]
  /\ target \in [Coro -> Coro \cup {None}]
  /\ mainRun \in Coro \cup {None}

Init ==
  /\ Eng!Init
  /\ handles = [x \in Ctx |-> {}]
  /\ target = [c \in Coro |-> None]
  /\ mainRun = None

(* CoroutineResult::poll: Ready once the TaskResult, Finished or Panicked, *)
(* has been sent; NotReady while the Sender is alive and silent.          *)
JoinReady(t) == result[t] \in {"finished", "panicked"}

(* Coroutine::spawn, from the thread's own context only outside core.run:  *)
(* the task closure moves some of the spawner's handles; the spawner gets  *)
(* the new coroutine's handle.                                             *)
Spawn(p, c) ==
  /\ Eng!Spawn(p, c)
  /\ p = Main => mainRun = None
  /\ \E moved \in SUBSET handles[p] :
        handles' = [handles EXCEPT ![p] = (@ \ moved) \cup {c}, ![c] = moved]
  /\ UNCHANGED <<target, mainRun>>

(* The stack allocation fails: the closure, with what it moved, is dropped. *)
SpawnStackError(p, c) ==
  /\ Eng!SpawnStackError(p, c)
  /\ p = Main => mainRun = None
  /\ \E moved \in SUBSET handles[p] :
        handles' = [handles EXCEPT ![p] = @ \ moved]
  /\ UNCHANGED <<target, mainRun>>

Entry(c) == Eng!Entry(c) /\ UNCHANGED joinVars

(* Coroutine::wait on a handle the coroutine owns, or on another future. *)
Wait(c) ==
  /\ Eng!Wait(c)
  /\ \E t \in handles[c] \cup {None} :
        /\ target' = [target EXCEPT ![c] = t]
        /\ handles' = [handles EXCEPT ![c] = @ \ {t}]
  /\ UNCHANGED mainRun

(* wait returns: the future, with the handle in it, is gone. *)
Wake(c) ==
  /\ Eng!Wake(c)
  /\ target' = [target EXCEPT ![c] = None]
  /\ UNCHANGED <<handles, mainRun>>

\* Mutant: `perform` fires the Sender after its final transfer, i.e. never.
FinishNoSend(c) ==
  /\ running = c
  /\ pc[c] = "run"
  /\ contexts # <<>>
  /\ contexts' = Front(contexts)
  /\ Eng!Put(Eng!Msg("Destroy", Last(contexts).co))
  /\ running' = Last(contexts).parent
  /\ pc' = [pc EXCEPT ![c] = "dead"]
  /\ handles' = [handles EXCEPT ![c] = {}]
  /\ UNCHANGED <<callee, held, wakeups, slot, stack, result, waits, down,
                 target, mainRun>>

(* The end of `perform` sends the TaskResult; the closure, with the        *)
(* handles it still owns, is dropped.                                      *)
Finish(c) ==
  /\ Eng!Finish(c)
  /\ handles' = [handles EXCEPT ![c] = {}]
  /\ UNCHANGED <<target, mainRun>>

ChildReturn(p) == Eng!ChildReturn(p) /\ UNCHANGED joinVars

(* The reactor turns only inside core.run, and polls a WaitTask to Ready   *)
(* only when its future is: a handle's TaskResult is there.                *)
ReactorPoll(c) ==
  /\ Eng!ReactorPoll(c)
  /\ mainRun # None
  /\ target[c] # None => JoinReady(target[c])
  /\ UNCHANGED joinVars

(* core.run(handle) from the thread's own context: the handle is moved in. *)
RunStart ==
  /\ running = Main /\ pc[Main] = "run" /\ ~down
  /\ mainRun = None
  /\ \E h \in handles[Main] :
        /\ mainRun' = h
        /\ handles' = [handles EXCEPT ![Main] = @ \ {h}]
  /\ UNCHANGED <<engineVars, target>>

(* core.run returns once its handle polls Ready. *)
RunReturn ==
  /\ running = Main /\ pc[Main] = "run"
  /\ mainRun # None
  /\ JoinReady(mainRun)
  /\ mainRun' = None
  /\ UNCHANGED <<engineVars, handles, target>>

(* The Core is dropped after core.run returned. *)
Shutdown == Eng!Shutdown /\ mainRun = None /\ UNCHANGED joinVars

DropTask(c) == Eng!DropTask(c) /\ UNCHANGED joinVars

Next ==
  \/ \E p \in Ctx, c \in Coro : Spawn(p, c) \/ SpawnStackError(p, c)
  \/ \E c \in Coro : Entry(c) \/ Wait(c) \/ Wake(c) \/ Finish(c)
  \/ \E p \in Ctx : ChildReturn(p)
  \/ \E c \in Coro : ReactorPoll(c) \/ DropTask(c)
  \/ RunStart \/ RunReturn \/ Shutdown

Spec == Init /\ [][Next]_vars

-----------------------------------------------------------------------------
(***************************************************************************)
(* Properties                                                              *)
(***************************************************************************)

(* The thread never blocks inside core.run: while it drives a handle, some *)
(* context can run or the reactor has a ready WaitTask.  Handles only move *)
(* to coroutines spawned later and a spawn runs its child first, so the    *)
(* waits on handles never form a cycle, and `perform` sends before its     *)
(* final transfer.                                                         *)
RunNeverBlocks == mainRun # None => ENABLED Next

=============================================================================
