-------------------------- MODULE AxonBatchCommit --------------------------
(***************************************************************************)
(* What send_messages_and_wait_commit of the Axon chain endpoint           *)
(* (crates/relayer/src/chain/axon.rs) promises its caller, without the     *)
(* mempool, the receipts and the per-message steps of send_message.        *)
(*                                                                         *)
(* The messages of a batch are committed to the chain one at a time and   *)
(* in input order, each in a block of its own above the previous one; the  *)
(* caller gets back, in the same order, the event each message is known   *)
(* to produce at the block that committed it.  The call either returns     *)
(* every event (status "ok") or stops with an error (status "failed"),     *)
(* after which the message that was in flight may still be committed but  *)
(* nothing more is returned.                                               *)
(***************************************************************************)
EXTENDS Naturals, Sequences

CONSTANTS
    Batches,     \* the batches the caller may pass
    MaxHeight,   \* the chain produces blocks 1..MaxHeight
    Sendable,    \* the message types that can reach the chain
    EventOf(_)   \* the event a committed message of a type produces

VARIABLES
    batch,       \* the batch being sent
    committed,   \* the block of each committed message, in batch order
    returned,    \* the events handed back so far
    status,      \* "running", "ok" or "failed"
    tip          \* the latest block

vars == <<batch, committed, returned, status, tip>>

Init ==
    /\ batch \in Batches
    /\ committed = <<>>
    /\ returned = <<>>
    /\ status = IF batch = <<>> THEN "ok" ELSE "running"
    /\ tip = 0

\* A block that commits nothing of the batch.
Block ==
    /\ tip < MaxHeight
    /\ tip' = tip + 1
    /\ UNCHANGED <<batch, committed, returned, status>>

\* The next message of the batch is committed in the next block; it is
\* sent only once every message before it has been returned, so at most
\* one message is in flight.
Commit ==
    /\ tip < MaxHeight
    /\ Len(committed) = Len(returned)
    /\ Len(committed) < Len(batch)
    /\ batch[Len(committed) + 1] \in Sendable
    /\ committed' = Append(committed, tip + 1)
    /\ tip' = tip + 1
    /\ UNCHANGED <<batch, returned, status>>

\* The event of the oldest committed message not yet returned is returned
\* with the block that committed it; the last one ends the call.
Return ==
    /\ status = "running"
    /\ Len(returned) < Len(committed)
    /\ LET n == Len(returned) + 1
       IN  /\ returned' = Append(returned, [event |-> EventOf(batch[n]),
                                            height |-> committed[n]])
           /\ status' = IF n = Len(batch) THEN "ok" ELSE "running"
    /\ UNCHANGED <<batch, committed, tip>>

\* The call stops with an error.
Fail ==
    /\ status = "running"
    /\ status' = "failed"
    /\ UNCHANGED <<batch, committed, returned, tip>>

Next ==
    \/ Block
    \/ Commit
    \/ Return
    \/ Fail

Spec == Init /\ [][Next]_vars

=============================================================================
