---------------------------- MODULE CoronaHelpers ----------------------------
(***************************************************************************)
(* The helpers of src/src/lib.rs built on Await::future: a coroutine       *)
(* running Producer::produce over the Sender of a bounded                  *)
(* futures::unsync::mpsc channel, and a coroutine iterating the Receiver   *)
(* with Await::stream (StreamIterator::next), as in the `producer` test.   *)
(*                                                                         *)
(* The engine is abstracted to what CoronaLib shows it does: each          *)
(* Await::future suspends the coroutine until the reactor finds the future *)
(* resolved and resumes it.  A call is therefore two steps: the suspension *)
(* (…Start) and the resolution with the resumption (one reactor poll).     *)
(***************************************************************************)
EXTENDS Naturals, Sequences

CONSTANTS
  Items,     \* the sequence of values the producer task produces
  Capacity   \* the channel's buffer bound

ASSUME Items \in Seq(Nat) /\ Len(Items) > 0
ASSUME Capacity \in Nat \ {0}

VARIABLES
  prodPc,    \* "run", "sending" (suspended in produce), "done"
  next,      \* index of the next item the producer task produces
  sink,      \* Producer.sink: "held" (Some) or "gone" (None)
  consPc,    \* "run", "receiving" (suspended in next), "done"
  buf,       \* the channel's buffer
  senderUp,  \* the Sender exists (dropped with the Producer at task end)
  receiverUp,\* the Receiver exists (dropped when the consumer stops)
  collected, \* the items StreamIterator::next returned, in order
  sent       \* the number of items the channel accepted

vars == <<prodPc, next, sink, consPc, buf, senderUp, receiverUp, collected,
          sent>>

TypeOK ==
  /\ prodPc \in {"run", "sending", "done"}
  /\ next \in 1..Len(Items) + 1
  /\ sink \in {"held", "gone"}
  /\ consPc \in {"run", "receiving", "done", "stopped"}
  /\ buf \in Seq(Nat) /\ Len(buf) <= Capacity
  /\ senderUp \in BOOLEAN /\ receiverUp \in BOOLEAN
  /\ collected \in Seq(Nat)
  /\ sent \in 0..Len(Items)

Init ==
  /\ prodPc = "run" /\ next = 1 /\ sink = "held"
  /\ consPc = "run" /\ buf = <<>>
  /\ senderUp = TRUE /\ receiverUp = TRUE
  /\ collected = <<>> /\ sent = 0

(***************************************************************************)
(* Producer::produce with the sink present: take it, build sink.send(item) *)
(* and Await::future it.                                                   *)
(***************************************************************************)
ProduceStart ==
  /\ prodPc = "run" /\ next <= Len(Items)
  /\ sink = "held"
  /\ prodPc' = "sending"
  /\ UNCHANGED <<next, sink, consPc, buf, senderUp, receiverUp, collected, sent>>

(* Producer::produce with the sink gone: `if let Some` fails, nothing      *)
(* happens and produce returns as if the item was sent.                    *)
ProduceNoSink ==
  /\ prodPc = "run" /\ next <= Len(Items)
  /\ sink = "gone"
  /\ next' = next + 1
  /\ UNCHANGED <<prodPc, sink, consPc, buf, senderUp, receiverUp, collected, sent>>

(* The send future resolves Ok(sink) when the buffer has room: the item is *)
(* queued, the sink is put back and the producer resumed.                  *)
SendDone ==
  /\ prodPc = "sending"
  /\ receiverUp /\ Len(buf) < Capacity
  /\ buf' = Append(buf, Items[next])
  /\ sent' = sent + 1
  /\ next' = next + 1
  /\ prodPc' = "run"
  /\ UNCHANGED <<sink, consPc, senderUp, receiverUp, collected>>

(* The send future fails because the receiver is gone: Await::future       *)
(* returns Err, the sink is not put back.                                  *)
SendFailed ==
  /\ prodPc = "sending"
  /\ ~receiverUp
  /\ sink' = "gone"
  /\ next' = next + 1
  /\ prodPc' = "run"
  /\ UNCHANGED <<consPc, buf, senderUp, receiverUp, collected, sent>>

(* Mutant: the Sender outlives the producer task (kept in a clone). *)
ProducerEndKeepsSender ==
  /\ prodPc = "run" /\ next > Len(Items)
  /\ prodPc' = "done"
  /\ UNCHANGED <<next, sink, consPc, buf, senderUp, receiverUp, collected, sent>>

(* The producer task returns: the Producer and its Sender are dropped. *)
ProducerEnd ==
  /\ prodPc = "run" /\ next > Len(Items)
  /\ prodPc' = "done"
  /\ senderUp' = FALSE
  /\ UNCHANGED <<next, sink, consPc, buf, receiverUp, collected, sent>>

(* StreamIterator::next: take the stream, Await::future its into_future. *)
NextStart ==
  /\ consPc = "run"
  /\ consPc' = "receiving"
  /\ UNCHANGED <<prodPc, next, sink, buf, senderUp, receiverUp, collected, sent>>

(* Mutant: the item is returned but left in the channel. *)
NextItemKeepsHead ==
  /\ consPc = "receiving"
  /\ buf # <<>>
  /\ collected' = Append(collected, Head(buf))
  /\ consPc' = "run"
  /\ UNCHANGED <<prodPc, next, sink, buf, senderUp, receiverUp, sent>>

(* into_future resolves with Some(item): next returns Some(Ok(item)). *)
NextItem ==
  /\ consPc = "receiving"
  /\ buf # <<>>
  /\ collected' = Append(collected, Head(buf))
  /\ buf' = Tail(buf)
  /\ consPc' = "run"
  /\ UNCHANGED <<prodPc, next, sink, senderUp, receiverUp, sent>>

(* Mutant: the stream reports its end as soon as the buffer is empty. *)
NextEndEarly ==
  /\ consPc = "receiving"
  /\ buf = <<>>
  /\ consPc' = "done"
  /\ receiverUp' = FALSE
  /\ UNCHANGED <<prodPc, next, sink, buf, senderUp, collected, sent>>

(* into_future resolves with None once the sender is gone and the buffer   *)
(* is empty: next returns None and the loop ends, dropping the receiver.   *)
NextEnd ==
  /\ consPc = "receiving"
  /\ buf = <<>> /\ ~senderUp
  /\ consPc' = "done"
  /\ receiverUp' = FALSE
  /\ UNCHANGED <<prodPc, next, sink, buf, senderUp, collected, sent>>

(* The consumer task stops iterating early (returns or panics): the        *)
(* receiver and the items still queued are dropped.                        *)
ConsumerStops ==
  /\ consPc = "run"
  /\ consPc' = "stopped"
  /\ receiverUp' = FALSE
  /\ buf' = <<>>
  /\ UNCHANGED <<prodPc, next, sink, senderUp, collected, sent>>

Next ==
  \/ ProduceStart \/ ProduceNoSink \/ SendDone \/ SendFailed \/ ProducerEnd
  \/ NextStart \/ NextItem \/ NextEnd \/ ConsumerStops

Done == prodPc = "done" /\ consPc \in {"done", "stopped"}

(* The reactor resolves every ready future and resumes its coroutine, and  *)
(* code after a resumption continues; stopping early is the user's choice  *)
(* and is not forced.                                                      *)
Fairness ==
  /\ WF_vars(ProduceStart) /\ WF_vars(ProduceNoSink) /\ WF_vars(ProducerEnd)
  /\ WF_vars(SendDone) /\ WF_vars(SendFailed)
  /\ WF_vars(NextStart) /\ WF_vars(NextItem) /\ WF_vars(NextEnd)

Spec == Init /\ [][Next]_vars
FairSpec == Spec /\ Fairness


-----------------------------------------------------------------------------
(***************************************************************************)
(* Properties                                                              *)
(***************************************************************************)

(* What the consumer received and what is still queued is exactly the      *)
(* start of the produced sequence, in order; while the consumer listens,   *)
(* every item a produce call finished with is among them: no item is lost, *)
(* duplicated or reordered across the suspensions of the two coroutines.   *)
InOrderNoLoss ==
  /\ collected \o buf = SubSeq(Items, 1, Len(collected) + Len(buf))
  /\ receiverUp => Len(collected) + Len(buf) = next - 1

(* The stream iteration ends (next returns None) only after every produced *)
(* item was returned by it: the test's collect gives exactly [42, 12].     *)
CollectedAllAtEnd == consPc = "done" => collected = Items

(* Both tasks finish: the producer is never left suspended on a full       *)
(* channel and the consumer never on a stream whose sender is gone.        *)
BothFinish == <>Done

(* Spec section 7: no failure is silently swallowed; a produce call that   *)
(* returns has had its item accepted by the channel.                       *)
ProduceReportsLoss ==
  prodPc # "sending" => sent = next - 1

=============================================================================
