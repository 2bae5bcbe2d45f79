--------------------------- MODULE CoronaProducerTest ---------------------------
(***************************************************************************)
(* The `producer` test of src/src/lib.rs run on the lib.rs engine          *)
(* (CoronaLib, as Eng): the helpers of CoronaHelpers composed with the     *)
(* real suspensions, spawns and reactor polls instead of an abstraction.   *)
(*                                                                         *)
(* The thread's own context spawns three coroutines with Coroutine::new,   *)
(* in this order, then runs core.run(done):                                *)
(*   Snd  (done_sender):   Producer::new over the mpsc Sender, produce     *)
(*                         each item, return Ok(());                       *)
(*   Rcv  (done_receiver): collect Await::stream(receiver), assert the     *)
(*                         items, return Ok(());                           *)
(*   Done (done):          Await::future(done_sender) then                 *)
(*                         Await::future(done_receiver), `unwrap()?` each. *)
(* Each step of a task is a step of Eng, conjoined with what the task's    *)
(* code does there; the future a task awaits is fixed by where it is, and  *)
(* the reactor's poll of a ready future does the future's work (queue the  *)
(* item, take an item) together with the resumption, as the `then`         *)
(* closures of Await::future do.                                           *)
(***************************************************************************)
EXTENDS Naturals, Sequences

CONSTANTS
  Coro, Main, None, MaxWaits,
  Snd, Rcv, Done,  \* the three coroutines of the test
  Workloads,       \* the item sequences done_sender may produce
  Capacities       \* the buffer bounds the channel may have

ASSUME Coro = {Snd, Rcv, Done}
ASSUME Capacities \subseteq Nat \ {0}
ASSUME \A w \in Workloads : w \in Seq(Nat) /\ MaxWaits >= Len(w) + 1

VARIABLES
  running, pc, parent, callee, mailbox, wakeups, stack, result, waits, down,
  items,      \* the items of this run of the test (fixed by Init)
  capacity,   \* the buffer bound of this run (fixed by Init)
  next,       \* index of the item done_sender produces next
  buf,        \* the channel's buffer
  senderUp,   \* the Sender exists (dropped with the Producer)
  receiverUp, \* the Receiver exists (dropped with the stream)
  collected,  \* what the stream iteration returned
  ended,      \* the stream iteration has returned None
  joinAt,     \* which of done's two awaits is next (3: both done)
  joinFailed, \* an awaited handle resolved with Panicked: `unwrap` panics
  mainAt      \* the test function: "spawn", "run" (in core.run), "returned"

Eng == INSTANCE CoronaLib

engineVars == <<running, pc, parent, callee, mailbox, wakeups, stack, result,
               waits, down>>
instance == <<items, capacity>>
testVars == <<instance, next, buf, senderUp, receiverUp, collected, ended,
             joinAt, joinFailed, mainAt>>
vars == <<engineVars, testVars>>

Order == <<Snd, Rcv, Done>>

TypeOK ==
  /\ Eng!TypeOK
  /\ items \in Workloads /\ capacity \in Capacities
  /\ next \in 1..Len(items) + 1
  /\ buf \in Seq(Nat) /\ Len(buf) <= capacity
  /\ senderUp \in BOOLEAN /\ receiverUp \in BOOLEAN /\ ended \in BOOLEAN
  /\ collected \in Seq(Nat)
  /\ joinAt \in 1..3 /\ joinFailed \in BOOLEAN
  /\ mainAt \in {"spawn", "run", "returned"}

Init ==
  /\ Eng!Init
  /\ items \in Workloads /\ capacity \in Capacities
  /\ next = 1 /\ buf = <<>>
  /\ senderUp = TRUE /\ receiverUp = TRUE
  /\ collected = <<>> /\ ended = FALSE
  /\ joinAt = 1 /\ joinFailed = FALSE
  /\ mainAt = "spawn"

(* The test body spawns the coroutines in order; Coroutine::new unwraps    *)
(* the spawn, and the default stack size allocates.                        *)
MainSpawn(i) ==
  /\ mainAt = "spawn"
  /\ \A j \in 1..i - 1 : result[Order[j]] # "none"
  /\ Eng!Spawn(Main, Order[i])
  /\ UNCHANGED testVars

(* core.run(done) once the three are spawned. *)
RunStart ==
  /\ running = Main /\ pc[Main] = "run"
  /\ mainAt = "spawn" /\ result[Done] # "none"
  /\ mainAt' = "run"
  /\ UNCHANGED <<engineVars, instance, next, buf, senderUp, receiverUp,
                 collected, ended, joinAt, joinFailed>>

(* core.run returns once done's CoroutineResult polls Ready. *)
RunReturn ==
  /\ running = Main /\ pc[Main] = "run"
  /\ mainAt = "run"
  /\ result[Done] \in {"finished", "panicked"}
  /\ mainAt' = "returned"
  /\ UNCHANGED <<engineVars, instance, next, buf, senderUp, receiverUp,
                 collected, ended, joinAt, joinFailed>>

(* The test function returns and drops the Core. *)
Shutdown == Eng!Shutdown /\ mainAt = "returned" /\ UNCHANGED testVars

Entry(c) == Eng!Entry(c) /\ UNCHANGED testVars
Wake(c) == Eng!Wake(c) /\ UNCHANGED testVars
ChildReturn(p) == Eng!ChildReturn(p) /\ UNCHANGED testVars

(* Producer::produce: Await::future(sink.send(item)).  In this test the    *)
(* receiver outlives every send (the stream ends only after the Sender is  *)
(* dropped), so the sink is always there; CoronaHelpers covers its loss.   *)
ProduceStart ==
  /\ Eng!Await(Snd)
  /\ next <= Len(items)
  /\ UNCHANGED testVars

\* Mutant: the Producer, with its Sender, outlives done_sender's task.
ProducerEndKeepsSender ==
  /\ Eng!Finish(Snd)
  /\ next > Len(items)
  /\ result'[Snd] = "finished"
  /\ UNCHANGED testVars

(* done_sender returns Ok(()): the Producer and its Sender are dropped,    *)
(* then perform_and_send sends the result.                                 *)
ProducerEnd ==
  /\ Eng!Finish(Snd)
  /\ next > Len(items)
  /\ result'[Snd] = "finished"
  /\ senderUp' = FALSE
  /\ UNCHANGED <<instance, next, buf, receiverUp, collected, ended, joinAt,
                 joinFailed, mainAt>>

(* StreamIterator::next: Await::future(stream.into_future()). *)
NextStart ==
  /\ Eng!Await(Rcv)
  /\ ~ended
  /\ UNCHANGED testVars

(* collect has seen None: assert_eq! panics unless the items came in order *)
(* (caught by perform_and_send as Panicked); the stream is dropped.        *)
ConsumerEnd ==
  /\ Eng!Finish(Rcv)
  /\ ended
  /\ result'[Rcv] = IF collected = items THEN "finished" ELSE "panicked"
  /\ receiverUp' = FALSE
  /\ UNCHANGED <<instance, next, buf, senderUp, collected, ended, joinAt,
                 joinFailed, mainAt>>

(* done: Await::future on the next handle. *)
JoinStart ==
  /\ Eng!Await(Done)
  /\ joinAt <= 2 /\ ~joinFailed
  /\ UNCHANGED testVars

(* done returns: Ok(()) after both, or its `unwrap` panicked. *)
DoneEnd ==
  /\ Eng!Finish(Done)
  /\ joinAt = 3 \/ joinFailed
  /\ result'[Done] = IF joinFailed THEN "panicked" ELSE "finished"
  /\ UNCHANGED testVars

(* The receiver's future resolves: Some(oldest item), or None once the     *)
(* Sender is gone and the buffer empty.                                    *)
RecvPoll ==
  \/ /\ buf # <<>>
     /\ collected' = Append(collected, Head(buf))
     /\ buf' = Tail(buf)
     /\ UNCHANGED ended
  \/ /\ buf = <<>> /\ ~senderUp
     /\ ended' = TRUE
     /\ UNCHANGED <<collected, buf>>

(* The send future resolves Ok(sink) once the buffer has room. *)
SendPoll ==
  /\ receiverUp /\ Len(buf) < capacity
  /\ buf' = Append(buf, items[next])
  /\ next' = next + 1

(* A handle resolves once its coroutine has sent its result. *)
JoinPoll ==
  /\ result[Order[joinAt]] \in {"finished", "panicked"}
  /\ joinFailed' = (result[Order[joinAt]] = "panicked")
  /\ joinAt' = joinAt + 1

(* The reactor, inside core.run, runs the wake-up of a ready future. *)
ReactorPoll(c) ==
  /\ Eng!ReactorPoll(c)
  /\ mainAt = "run"
  /\ \/ c = Snd /\ SendPoll
        /\ UNCHANGED <<senderUp, receiverUp, collected, ended, joinAt,
                       joinFailed>>
     \/ c = Rcv /\ RecvPoll
        /\ UNCHANGED <<next, senderUp, receiverUp, joinAt, joinFailed>>
     \/ c = Done /\ JoinPoll
        /\ UNCHANGED <<next, buf, senderUp, receiverUp, collected,
                       ended>>
  /\ UNCHANGED <<instance, mainAt>>

TaskStep(c) ==
  \/ c = Snd /\ (ProduceStart \/ ProducerEnd)
  \/ c = Rcv /\ (NextStart \/ ConsumerEnd)
  \/ c = Done /\ (JoinStart \/ DoneEnd)

Next ==
  \/ \E i \in 1..3 : MainSpawn(i)
  \/ RunStart \/ RunReturn \/ Shutdown
  \/ \E c \in Coro : Entry(c) \/ Wake(c) \/ TaskStep(c) \/ ReactorPoll(c)
  \/ \E p \in Eng!Ctx : ChildReturn(p)

(* The test body is straight-line code, so its spawns and core.run happen; *)
(* code after a transfer continues; each task's code runs on; the reactor  *)
(* polls every ready wake-up and core.run returns once done is ready.  The *)
(* drop of the Core at the end is not needed by the property.              *)
Fairness ==
  /\ \A i \in 1..3 : WF_vars(MainSpawn(i))
  /\ WF_vars(RunStart) /\ WF_vars(RunReturn)
  /\ \A c \in Coro : WF_vars(Entry(c)) /\ WF_vars(Wake(c))
  /\ \A c \in Coro : WF_vars(TaskStep(c)) /\ WF_vars(ReactorPoll(c))
  /\ \A p \in Eng!Ctx : WF_vars(ChildReturn(p))

Spec == Init /\ [][Next]_vars
FairSpec == Spec /\ Fairness

-----------------------------------------------------------------------------
(***************************************************************************)
(* Properties                                                              *)
(***************************************************************************)

(* The test passes: core.run(done) returns and done's result is Ok(()),    *)
(* so the stream ends, the producer is never left blocked on a full        *)
(* channel, and neither join waits forever.                                *)
TestPasses == <>(mainAt = "returned" /\ result[Done] = "finished")

=============================================================================
