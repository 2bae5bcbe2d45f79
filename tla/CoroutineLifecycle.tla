------------------------- MODULE CoroutineLifecycle -------------------------
(***************************************************************************)
(* What the engine promises its users, without stacks, contexts or the     *)
(* SWITCH slot (spec sections 3 and 5): the lifecycle of each coroutine    *)
(* and the nesting of the coroutines that are active at once.              *)
(*                                                                         *)
(* `nest` is the chain of contexts that are active: the thread's own       *)
(* context first, then each coroutine spawned from the one before it.  Only *)
(* the last one executes.  Spawning is eager: the child is pushed and runs *)
(* until it suspends or finishes, only then the spawner continues.  A      *)
(* suspended coroutine is resumed only by the reactor, from the thread's   *)
(* own context.                                                            *)
(***************************************************************************)
EXTENDS Naturals, Sequences

CONSTANTS Coro, Main

VARIABLES state, nest, down

States == {"none", "failed", "running", "suspended", "finished", "destroyed"}

Top == nest[Len(nest)]

TypeOK ==
  /\ state \in [Coro -> States]
  /\ nest \in Seq(Coro \cup {Main})
  /\ down \in BOOLEAN

Init ==
  /\ state = [c \in Coro |-> "none"]
  /\ nest = <<Main>>
  /\ down = FALSE

CanSpawn(c) == state[c] = "none" /\ (Top = Main => ~down)

SpawnFail(c) ==
  /\ CanSpawn(c)
  /\ state' = [state EXCEPT ![c] = "failed"]
  /\ UNCHANGED <<nest, down>>

Spawn(c) ==
  /\ CanSpawn(c)
  /\ state' = [state EXCEPT ![c] = "running"]
  /\ nest' = Append(nest, c)
  /\ UNCHANGED down

Suspend(c) ==
  /\ Len(nest) > 1 /\ Top = c
  /\ state' = [state EXCEPT ![c] = "suspended"]
  /\ nest' = SubSeq(nest, 1, Len(nest) - 1)
  /\ UNCHANGED down

(* A real resumption, or after shutdown a cancelling (Cleanup) one. *)
Resume(c) ==
  /\ nest = <<Main>>
  /\ state[c] = "suspended"
  /\ state' = [state EXCEPT ![c] = "running"]
  /\ nest' = Append(nest, c)
  /\ UNCHANGED down

Finish(c) ==
  /\ Len(nest) > 1 /\ Top = c
  /\ state' = [state EXCEPT ![c] = "finished"]
  /\ nest' = SubSeq(nest, 1, Len(nest) - 1)
  /\ UNCHANGED down

Destroy(c) ==
  /\ state[c] = "finished"
  /\ state' = [state EXCEPT ![c] = "destroyed"]
  /\ UNCHANGED <<nest, down>>

Shutdown ==
  /\ nest = <<Main>> /\ ~down
  /\ down' = TRUE
  /\ UNCHANGED <<state, nest>>

Next ==
  \/ Shutdown
  \/ \E c \in Coro :
       \/ SpawnFail(c) \/ Spawn(c) \/ Suspend(c) \/ Resume(c)
       \/ Finish(c) \/ Destroy(c)

Spec == Init /\ [][Next]_<<state, nest, down>>

=============================================================================
