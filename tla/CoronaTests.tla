------------------------------ MODULE CoronaTests ------------------------------
(***************************************************************************)
(* The unit tests of src/src/lib.rs and src/src/coroutine.rs, other than   *)
(* lib.rs's `producer` (CoronaProducerTest), each run on its file's engine *)
(* model: CoronaLib (Lib) or CoronaCoroutine (Co).  The two engines share  *)
(* the variables they have in common; a lib.rs test leaves CONTEXTS, the   *)
(* kept record and the result slot alone, a coroutine.rs test Await's      *)
(* transfer.                                                               *)
(*                                                                         *)
(* A test is a record: `engine`; `main`, the steps of the test function    *)
(* (spawn a coroutine, core.run a handle, or wait outside any coroutine);  *)
(* `task`, the steps of each coroutine's closure (a nested spawn, a wait   *)
(* on some future, the return); and `expect`, what the test asserts each   *)
(* core.run returns.  Init picks the test; every step is an engine step    *)
(* conjoined with what the test's code does there, so every order in which *)
(* the reactor could resume the coroutines is explored.                    *)
(***************************************************************************)
EXTENDS Naturals, Sequences

CONSTANTS Coro, Main, None, MaxWaits,
          A, B   \* the first and the second coroutine a test spawns

ASSUME Coro = {A, B} /\ MaxWaits >= 4

VARIABLES
  running, pc, parent, callee, contexts, held, mailbox, wakeups, slot, stack,
  result, waits, down,
  test,     \* the test being run (fixed by Init)
  mainAt,   \* the next step of the test function
  at,       \* the next step of each coroutine's closure
  fut,      \* the future a suspended coroutine waits on
  value,    \* what each closure returned (a number, "unit" or a handle)
  sent,     \* future_wait's oneshot: None until 42 is sent
  sum,      \* stream_iter's running sum of the items
  flags,    \* spawn_some's AtomicBools s1, s2 that have been stored
  returned  \* what each core.run of the test returned

Lib == INSTANCE CoronaLib
Co == INSTANCE CoronaCoroutine

engineVars == <<running, pc, parent, callee, contexts, held, mailbox, wakeups,
               slot, stack, result, waits, down>>
testVars == <<test, mainAt, at, fut, value, sent, sum, flags, returned>>
vars == <<engineVars, testVars>>

Spawn(c) == [op |-> "spawn", co |-> c]
Run(c) == [op |-> "run", co |-> c]

Script(a, b) == [c \in Coro |-> IF c = A THEN a ELSE b]

(* spawn_some: the outer closure spawns the inner one (builder_inner) and  *)
(* returns its handle; core.run(result.and_then(|r| r)) must give 42.      *)
SpawnSome(e) == [engine |-> e, main |-> <<Spawn(A), Run(A)>>,
                 task |-> Script(<<"spawn", "return">>, <<"return">>),
                 expect |-> <<42>>]

(* panics: core.run of a panicking coroutine is Err(Panicked), then a      *)
(* second coroutine on the same Core returns 42.                           *)
Panics(e) == [engine |-> e, main |-> <<Spawn(A), Run(A), Spawn(B), Run(B)>>,
              task |-> Script(<<"return">>, <<"return">>),
              expect |-> <<"Panicked", 42>>]

(* future_wait: all_done waits on the oneshot receiver; the other          *)
(* coroutine waits on a Timeout, then sends 42.                            *)
FutureWait(e) == [engine |-> e, main |-> <<Spawn(A), Spawn(B), Run(A)>>,
                  task |-> Script(<<"recv", "return">>,
                                     <<"timeout", "return">>),
                  expect |-> <<42>>]

(* stream_iter: the `for` over await.stream(Interval.take(3).map(|_| 1))   *)
(* calls next four times, the last one yielding None; the sum is 3.        *)
StreamIter == [engine |-> "lib", main |-> <<Spawn(A), Run(A)>>,
               task |-> Script(<<"tick", "tick", "tick", "end",
                                        "return">>, <<>>),
               expect |-> <<3>>]

(* yield_now: two yields, then core.run(done).unwrap(). *)
YieldNow == [engine |-> "lib", main |-> <<Spawn(A), Run(A)>>,
             task |-> Script(<<"ok", "ok", "return">>, <<>>),
             expect |-> <<"unit">>]

(* panic_without_coroutine: Coroutine::wait from the test function itself *)
(* must panic.                                                             *)
PanicWithoutCoroutine == [engine |-> "co", main |-> <<[op |-> "wait"]>>,
                          task |-> Script(<<>>, <<>>),
                          expect |-> <<"Panicked">>]

(* coroutine.rs has its own spawn_some (spawn_aus, then builder_inner's   *)
(* spawn), panics (with_defaults) and future_wait (Coroutine::wait).       *)
CoSpawnSome == SpawnSome("co")
CoPanics == Panics("co")
CoFutureWait == FutureWait("co")

Tests == [lib_spawn_some |-> SpawnSome("lib"), lib_panics |-> Panics("lib"),
          lib_future_wait |-> FutureWait("lib"), stream_iter |-> StreamIter,
          yield_now |-> YieldNow,
          co_spawn_some |-> CoSpawnSome, co_panics |-> CoPanics,
          co_future_wait |-> CoFutureWait,
          panic_without_coroutine |-> PanicWithoutCoroutine]

T == Tests[test]

MainOp == T.main[mainAt]
TaskOp(c) == T.task[c][at[c]]

Futures == {"recv", "timeout", "tick", "end", "ok"}

(* A step of the test's engine; the other engine's own variables stay. *)
OnEngine(libStep, coStep) ==
  IF T.engine = "lib" THEN libStep /\ UNCHANGED <<contexts, held, slot>>
                      ELSE coStep /\ UNCHANGED parent

Init ==
  /\ Lib!Init /\ Co!Init
  /\ test \in DOMAIN Tests
  /\ mainAt = 1
  /\ at = [c \in Coro |-> 1]
  /\ fut = [c \in Coro |-> None]
  /\ value = [c \in Coro |-> None]
  /\ sent = None /\ sum = 0 /\ flags = {}
  /\ returned = <<>>

\* Mutant: CoroutineResult::poll only takes a Finished result for ready.
ReadyOnlyFinished(c) == result[c] = "finished"

(* CoroutineResult::poll is Ready once the TaskResult has been sent. *)
Ready(c) == result[c] \in {"finished", "panicked"}

(* core.run(h), and for spawn_some the and_then that then polls the handle *)
(* the outer closure returned.                                             *)
RunReady(c) == Ready(c) /\ (result[c] = "finished" /\ value[c] \in Coro
                              => Ready(value[c]))

Outcome(c) == IF result[c] = "panicked" THEN "Panicked" ELSE value[c]

RunOutcome(c) ==
  IF result[c] = "finished" /\ value[c] \in Coro THEN Outcome(value[c])
  ELSE Outcome(c)

InRun == mainAt <= Len(T.main) /\ MainOp.op = "run"

MainFree == running = Main /\ pc[Main] = "run" /\ mainAt <= Len(T.main)

(* The test function spawns a coroutine (Coroutine::new, with_defaults,   *)
(* or a Builder's spawn(..).unwrap()) with a stack size that allocates.    *)
MainSpawn ==
  /\ mainAt <= Len(T.main) /\ MainOp.op = "spawn"
  /\ OnEngine(Lib!Spawn(Main, MainOp.co), Co!Spawn(Main, MainOp.co))
  /\ mainAt' = mainAt + 1
  /\ UNCHANGED <<test, at, fut, value, sent, sum, flags, returned>>

(* core.run(h) returns once h polls Ready; the test keeps what it gave. *)
RunReturn ==
  /\ MainFree /\ InRun
  /\ RunReady(MainOp.co)
  /\ returned' = Append(returned, RunOutcome(MainOp.co))
  /\ mainAt' = mainAt + 1
  /\ UNCHANGED <<engineVars, test, at, fut, value, sent, sum, flags>>

(* Coroutine::wait outside any coroutine: CONTEXTS is empty, so the pop's *)
(* `expect` panics and the test function unwinds.                          *)
WaitOutside ==
  /\ MainFree /\ MainOp.op = "wait"
  /\ contexts = <<>>
  /\ returned' = Append(returned, "Panicked")
  /\ mainAt' = Len(T.main) + 1
  /\ UNCHANGED <<engineVars, test, at, fut, value, sent, sum, flags>>

(* The test function returns and drops the Core. *)
Shutdown ==
  /\ mainAt > Len(T.main)
  /\ OnEngine(Lib!Shutdown, Co!Shutdown)
  /\ UNCHANGED testVars

Entry(c) == OnEngine(Lib!Entry(c), Co!Entry(c)) /\ UNCHANGED testVars
Wake(c) == OnEngine(Lib!Wake(c), Co!Wake(c)) /\ UNCHANGED testVars
ChildReturn(p) ==
  OnEngine(Lib!ChildReturn(p), Co!ChildReturn(p)) /\ UNCHANGED testVars

Step(c) == at' = [at EXCEPT ![c] = @ + 1]

(* spawn_some's outer closure spawns the inner one with builder_inner. *)
TaskSpawn(c) ==
  /\ at[c] <= Len(T.task[c]) /\ TaskOp(c) = "spawn"
  /\ OnEngine(Lib!Spawn(c, B), Co!Spawn(c, B))
  /\ Step(c)
  /\ UNCHANGED <<test, mainAt, fut, value, sent, sum, flags, returned>>

(* await.future(f) or Coroutine::wait(f); for the stream, a                *)
(* StreamIterator::next.                                                   *)
TaskWait(c) ==
  /\ at[c] <= Len(T.task[c]) /\ TaskOp(c) \in Futures
  /\ OnEngine(Lib!Await(c), Co!Wait(c))
  /\ fut' = [fut EXCEPT ![c] = TaskOp(c)]
  /\ Step(c)
  /\ UNCHANGED <<test, mainAt, value, sent, sum, flags, returned>>

(* What each closure returns after its last suspension. *)
Returns(c) ==
  CASE T = SpawnSome(T.engine) /\ c = A -> B
    [] T \in {SpawnSome(T.engine), Panics(T.engine)} -> 42
    [] T = FutureWait(T.engine) /\ c = A -> sent
    [] T = StreamIter -> sum
    [] OTHER -> "unit"

(* The closure returns (panics! for the first coroutine of `panics`);      *)
(* spawn_some's closures store their flag first; future_wait's second      *)
(* coroutine sends 42, and its `unwrap` panics once the receiver is gone.  *)
TaskReturn(c) ==
  /\ at[c] <= Len(T.task[c]) /\ TaskOp(c) = "return"
  /\ OnEngine(Lib!Finish(c), Co!Finish(c))
  /\ result'[c] = IF \/ T = Panics(T.engine) /\ c = A
                     \/ T = FutureWait(T.engine) /\ c = B /\ pc[A] = "dead"
                  THEN "panicked" ELSE "finished"
  /\ value' = [value EXCEPT ![c] = Returns(c)]
  /\ sent' = IF T = FutureWait(T.engine) /\ c = B THEN 42 ELSE sent
  /\ flags' = IF T = SpawnSome(T.engine)
              THEN flags \cup {IF c = A THEN "s1" ELSE "s2"} ELSE flags
  /\ Step(c)
  /\ UNCHANGED <<test, mainAt, fut, sum, returned>>

TaskStep(c) == TaskSpawn(c) \/ TaskWait(c) \/ TaskReturn(c)

\* Mutant: the wake-up fires before the oneshot has a value.
ResolvedEarly(f) == TRUE

(* The awaited future has resolved: the oneshot once 42 is sent; a         *)
(* Timeout, an Interval tick, the end of Take(3) and future::ok at any     *)
(* time the reactor turns.                                                 *)
Resolved(f) == f = "recv" => sent # None

(* The reactor, inside core.run, runs a wake-up (lib.rs) or polls a        *)
(* WaitTask (coroutine.rs) whose future resolved; an Interval tick is an   *)
(* item, mapped to 1 and added to the sum.                                 *)
ReactorPoll(c) ==
  /\ OnEngine(Lib!ReactorPoll(c), Co!ReactorPoll(c))
  /\ InRun /\ Resolved(fut[c])
  /\ sum' = IF fut[c] = "tick" THEN sum + 1 ELSE sum
  /\ fut' = [fut EXCEPT ![c] = None]
  /\ UNCHANGED <<test, mainAt, at, value, sent, flags, returned>>

Next ==
  \/ MainSpawn \/ RunReturn \/ WaitOutside \/ Shutdown
  \/ \E c \in Coro : Entry(c) \/ Wake(c) \/ TaskStep(c) \/ ReactorPoll(c)
  \/ \E p \in Lib!Ctx : ChildReturn(p)

(* As in CoronaProducerTest: the test bodies are straight-line code, code  *)
(* after a transfer continues, and the reactor polls every ready wake-up.  *)
Fairness ==
  /\ WF_vars(MainSpawn) /\ WF_vars(RunReturn) /\ WF_vars(WaitOutside)
  /\ \A c \in Coro : WF_vars(Entry(c)) /\ WF_vars(Wake(c))
  /\ \A c \in Coro : WF_vars(TaskStep(c)) /\ WF_vars(ReactorPoll(c))
  /\ \A p \in Lib!Ctx : WF_vars(ChildReturn(p))

Spec == Init /\ [][Next]_vars
FairSpec == Spec /\ Fairness

-----------------------------------------------------------------------------
(***************************************************************************)
(* Properties                                                              *)
(***************************************************************************)

(* Every assertion of the tests holds in every order of the reactor's      *)
(* polls: each core.run gives what the test's assert_eq! or match expects, *)
(* spawn_some finds both flags stored as soon as its spawn returns (the    *)
(* coroutines ran eagerly, the nested one inside the outer), and no        *)
(* `unwrap` inside a closure panics.                                       *)
AssertsHold ==
  /\ returned = SubSeq(T.expect, 1, Len(returned))
  /\ T = SpawnSome(T.engine) /\ mainAt > 1 /\ running = Main
       /\ pc[Main] = "run" => flags = {"s1", "s2"}
  /\ \A c \in Coro : result[c] = "panicked" => T = Panics(T.engine) /\ c = A

(* Every test runs to its end: each core.run returns, the one of a         *)
(* coroutine that panicked included, and gives all the test expects.       *)
TestsPass == <>(mainAt > Len(T.main) /\ returned = T.expect)

=============================================================================
