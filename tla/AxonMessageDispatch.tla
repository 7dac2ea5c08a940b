----------------------- MODULE AxonMessageDispatch -----------------------
(***************************************************************************)
(* Message submission of the Axon chain endpoint:                          *)
(* AxonChain::send_messages_and_wait_commit and AxonChain::send_message    *)
(* (crates/relayer/src/chain/axon.rs), against an Axon chain whose         *)
(* mempool includes submitted transactions at some later block, next to    *)
(* blocks made of other users' transactions.                               *)
(*                                                                         *)
(* A batch is processed one message at a time: the message is turned into *)
(* a call of the IBC handler contract, sent, and its receipt awaited; the  *)
(* event of the message is then looked up among the receipt's logs.  A    *)
(* log has an emitting address (the handler, or an application contract    *)
(* that the handler called back) and a decoded kind.  Message kinds and    *)
(* event kinds are strings named after the code's type URLs and           *)
(* OwnableIBCHandlerEvents variants.                                       *)
(***************************************************************************)
EXTENDS Naturals, Sequences

CONSTANTS
    Batches,    \* the batches (sequences of message type URLs) the engine sends
    MaxHeight,  \* the chain produces blocks 1..MaxHeight
    None        \* "not included"

\* The message types the Axon endpoint knows of (the type URLs of
\* send_message); any other type URL is "non-support".
MsgTypes == {"create_client", "update_client", "conn_open_init",
             "conn_open_try", "conn_open_ack", "conn_open_confirm",
             "chan_open_init", "chan_open_try", "chan_open_ack",
             "chan_open_confirm", "chan_close_init", "chan_close_confirm",
             "recv_packet", "acknowledgement", "timeout"}

ASSUME BatchesAssumption == Batches \subseteq Seq(MsgTypes \cup {"unknown"})
ASSUME MaxHeightAssumption == MaxHeight \in Nat
ASSUME NoneAssumption == None \notin Nat

VARIABLES
    batch,      \* the TrackedMsgs being sent
    pc,         \* "send", "await", "done" or "failed"
    i,          \* index of the message being processed
    results,    \* the IbcEventWithHeight collected so far
    error,      \* why the batch failed
    tip,        \* the chain: latest block
    mempool,    \* the chain: submitted transactions not yet included
    included,   \* the chain: block of each transaction of the batch, or None
    logs,       \* the chain: receipt logs of each included transaction
    submitted   \* history: batch indices whose transaction has been sent

chainVars == <<tip, mempool, included, logs>>
relayerVars == <<batch, pc, i, results, error, submitted>>
vars == <<batch, pc, i, results, error, tip, mempool, included, logs, submitted>>

EventKinds == {"CreateClient", "UpdateClient", "OpenInitConnection",
               "OpenTryConnection", "OpenAckConnection", "OpenConfirmConnection",
               "OpenInitChannel", "OpenTryChannel", "OpenAckChannel",
               "OpenConfirmChannel", "CloseInitChannel", "CloseConfirmChannel",
               "ReceivePacket", "WriteAcknowledgement", "AcknowledgePacket"}

Addresses == {"handler", "app"}

Logs == [addr : Addresses, kind : EventKinds]

Errors == {"none", "unsupported", "send", "transport", "no_event"}

BatchIndices == UNION {DOMAIN b : b \in Batches}

-----------------------------------------------------------------------------
(* The dispatch tables of send_message.                                    *)

\* The type URLs of the first match of send_message, for which a contract
\* call is built with convert!; the timeout message is sent as recv_packet.
Dispatched == MsgTypes \ {"update_client"}

\* The contract method each dispatched message calls.
Method(t) == IF t = "timeout" THEN "recv_packet" ELSE t

\* The event the second match of send_message looks for.
ExpectedEvent(t) ==
    CASE t = "create_client"      -> "CreateClient"
      [] t = "update_client"      -> "UpdateClient"
      [] t = "conn_open_init"     -> "OpenInitConnection"
      [] t = "conn_open_try"      -> "OpenTryConnection"
      [] t = "conn_open_ack"      -> "OpenAckConnection"
      [] t = "conn_open_confirm"  -> "OpenConfirmConnection"
      [] t = "chan_open_init"     -> "OpenInitChannel"
      [] t = "chan_open_try"      -> "OpenTryChannel"
      [] t = "chan_open_ack"      -> "OpenAckChannel"
      [] t = "chan_open_confirm"  -> "OpenConfirmChannel"
      [] t = "chan_close_init"    -> "CloseInitChannel"
      [] t = "chan_close_confirm" -> "CloseConfirmChannel"
      [] t \in {"recv_packet", "timeout"} -> "ReceivePacket"
      [] t = "acknowledgement"    -> "AcknowledgePacket"

\* The event the IBC handler contract emits for a successful call of
\* method m (the same variant send_message expects for that call).
HandlerEvent(m) == ExpectedEvent(m)

\* Calls in which the handler calls back an application module, whose
\* logs end up in the same receipt.
AppCallbacks == {"chan_open_init", "chan_open_try", "chan_open_ack",
                 "chan_open_confirm", "chan_close_init", "chan_close_confirm",
                 "recv_packet", "acknowledgement"}

\* The receipts a transaction of method m may have: the call reverts on
\* chain (no logs), or it succeeds with the handler's event, preceded or
\* followed by a log of the application it called back.
Receipts(m) ==
    {<<>>, <<[addr |-> "handler", kind |-> HandlerEvent(m)]>>}
    \cup (IF m \in AppCallbacks
            THEN UNION {{<<a, [addr |-> "handler", kind |-> HandlerEvent(m)]>>,
                         <<[addr |-> "handler", kind |-> HandlerEvent(m)], a>>} :
                        a \in [addr : {"app"}, kind : EventKinds]}
            ELSE {})

\* events.find(|event| matches!(event, Ok(K(_)))): the index of the first
\* log of kind k, whatever contract emitted it, or 0.
FirstMatch(ls, k) ==
    IF \E n \in DOMAIN ls : ls[n].kind = k
      THEN CHOOSE n \in DOMAIN ls : ls[n].kind = k
                                     /\ \A m \in 1..(n - 1) : ls[m].kind # k
      ELSE 0

-----------------------------------------------------------------------------
(* The chain.                                                              *)

\* A block of other users' transactions.
ProduceBlock ==
    /\ tip < MaxHeight
    /\ tip' = tip + 1
    /\ UNCHANGED <<mempool, included, logs>>
    /\ UNCHANGED relayerVars

\* A block that includes a pending transaction of the batch.
IncludeTx ==
    /\ tip < MaxHeight
    /\ \E k \in mempool :
         /\ tip' = tip + 1
         /\ mempool' = mempool \ {k}
         /\ included' = [included EXCEPT ![k] = tip + 1]
         /\ \E r \in Receipts(Method(batch[k])) :
              logs' = [logs EXCEPT ![k] = r]
    /\ UNCHANGED relayerVars

-----------------------------------------------------------------------------
(* send_messages_and_wait_commit: msgs.into_iter().map(send_message)       *)
(* .collect::<Result<Vec<_>, _>>().                                        *)

\* Mutant: the results are collected without stopping at an error (as a
\* collect into Vec<Result<..>> would), so the next message is still sent.
AbortAndContinue(e) ==
    /\ error' = e
    /\ IF i < Len(batch)
         THEN pc' = "send" /\ i' = i + 1
         ELSE pc' = "failed" /\ UNCHANGED i

\* collect stops at the first Err: send_message returns e and no later
\* message of the batch is sent.
Abort(e) ==
    /\ pc' = "failed"
    /\ error' = e
    /\ UNCHANGED i

\* Mutant: steps past the last message.
NextIndexUnbounded(k, len) == k + 1

\* The iterator moves to the next message, if any.
NextIndex(k, len) == IF k = len THEN k ELSE k + 1

\* Mutant: the next message is sent without awaiting this one's receipt.
SendMessageNoWait ==
    /\ pc = "send"
    /\ batch[i] \in Dispatched
    /\ mempool' = mempool \cup {i}
    /\ submitted' = submitted \cup {i}
    /\ IF i < Len(batch) THEN pc' = "send" /\ i' = i + 1
                          ELSE pc' = "await" /\ i' = i
    /\ UNCHANGED <<batch, results, error, tip, included, logs>>

\* send_message, up to the send: a type URL outside the first match is
\* "non-support"; otherwise the call is built (try_into) and sent, and the
\* node either rejects it (decode_revert_error) or accepts it into its
\* mempool.
SendMessage ==
    /\ pc = "send"
    /\ IF batch[i] \notin Dispatched
         THEN /\ Abort("unsupported")
              /\ UNCHANGED <<mempool, submitted>>
         ELSE \/ /\ Abort("send")
                 /\ UNCHANGED <<mempool, submitted>>
              \/ /\ pc' = "await"
                 /\ mempool' = mempool \cup {i}
                 /\ submitted' = submitted \cup {i}
                 /\ UNCHANGED <<i, error>>
    /\ UNCHANGED <<batch, results, tip, included, logs>>

\* The second .await (PendingTransaction) fails: a transport error, or the
\* node lost track of the transaction (Ok(None), "fail to send tx").  The
\* transaction itself may still be in the mempool.
AwaitFails ==
    /\ pc = "await"
    /\ included[i] = None
    /\ Abort("transport")
    /\ UNCHANGED <<batch, results, submitted>>
    /\ UNCHANGED chainVars

\* The expected event is the first log of its kind; none is "not find
\* right event".  The event is returned with block number h and the
\* transaction hash, and the iterator moves on.
CollectEvent(h) ==
    LET n == FirstMatch(logs[i], ExpectedEvent(batch[i]))
    IN IF n = 0
         THEN /\ Abort("no_event")
              /\ UNCHANGED results
         ELSE /\ results' = Append(results,
                              [event |-> logs[i][n].kind,
                               addr |-> logs[i][n].addr,
                               height |-> h, tx |-> i])
              /\ pc' = IF i = Len(batch) THEN "done" ELSE "send"
              /\ i' = NextIndex(i, Len(batch))
              /\ UNCHANGED error

\* Mutant: reports the latest block instead of the receipt's block.
AwaitReceiptAtTip ==
    /\ pc = "await"
    /\ included[i] # None
    /\ CollectEvent(tip)
    /\ UNCHANGED <<batch, submitted>>
    /\ UNCHANGED chainVars

\* The receipt arrives once the transaction is included; the event is
\* reported at the receipt's block_number.  The next message is sent only
\* after this.
AwaitReceipt ==
    /\ pc = "await"
    /\ included[i] # None
    /\ CollectEvent(included[i])
    /\ UNCHANGED <<batch, submitted>>
    /\ UNCHANGED chainVars

\* The call has returned and the chain has nothing left to include.
Finished ==
    /\ pc \in {"done", "failed"}
    /\ (mempool = {} \/ tip = MaxHeight)
    /\ UNCHANGED vars

-----------------------------------------------------------------------------
Init ==
    /\ batch \in Batches
    /\ pc = IF batch = <<>> THEN "done" ELSE "send"
    /\ i = 1
    /\ results = <<>>
    /\ error = "none"
    /\ tip = 0
    /\ mempool = {}
    /\ included = [k \in BatchIndices |-> None]
    /\ logs = [k \in BatchIndices |-> <<>>]
    /\ submitted = {}

Next ==
    \/ ProduceBlock
    \/ IncludeTx
    \/ SendMessage
    \/ AwaitFails
    \/ AwaitReceipt
    \/ Finished

Spec == Init /\ [][Next]_vars

-----------------------------------------------------------------------------
(* Properties.                                                             *)

Results == [event : EventKinds, addr : Addresses, height : 1..MaxHeight,
            tx : BatchIndices]

TypeOK ==
    /\ batch \in Batches
    /\ pc \in {"send", "await", "done", "failed"}
    /\ i \in BatchIndices \cup {1}
    /\ results \in Seq(Results)
    /\ error \in Errors
    /\ tip \in 0..MaxHeight
    /\ mempool \subseteq BatchIndices
    /\ included \in [BatchIndices -> (1..MaxHeight) \cup {None}]
    /\ logs \in [BatchIndices -> Seq(Logs)]
    /\ submitted \subseteq BatchIndices

\* Spec section 5: the batch is processed strictly in order so that a later
\* message can depend on the state an earlier one produced.  Every message
\* sent after another is included in a later block; a failed batch fails
\* at its first failing message, all before it having succeeded, and
\* nothing after it is ever sent.
CommitOrderFollowsBatch ==
    /\ \A j, k \in submitted :
         j < k => /\ included[j] # None
                  /\ included[k] # None => included[j] < included[k]
    /\ pc = "failed" => /\ Len(results) = i - 1
                        /\ submitted \subseteq 1..i

\* Spec section 4.1: a batch that returns Ok returns, in input order, one
\* event per message, each the expected event of that message's type, at
\* the block that included that message's transaction.
ResultsMatchReceipts ==
    pc = "done" =>
        /\ Len(results) = Len(batch)
        /\ \A k \in 1..Len(results) :
             /\ results[k].tx = k
             /\ results[k].event = ExpectedEvent(batch[k])
             /\ results[k].height = included[k]

\* Spec section 4.3: only logs emitted by the IBC handler contract are
\* translated into events.  send_message searches every log of the
\* receipt, whatever contract emitted it.
EventsFromHandler ==
    \A k \in 1..Len(results) : results[k].addr = "handler"

\* Spec section 4.4: the dispatcher maps every client, connection, channel
\* and packet message to a ledger call; only unknown type URLs fail with
\* UnsupportedMessageType.  The first match of send_message has no arm
\* for MsgUpdateClient.
OnlyUnknownTypesUnsupported ==
    error = "unsupported" => batch[i] \notin MsgTypes


-----------------------------------------------------------------------------
(* Refinement of AxonBatchCommit.  The committed messages are those the    *)
(* chain has included: every message before the current one, and the      *)
(* current one once its transaction is in a block.  The returned events    *)
(* are the results without their log address and transaction index.       *)

CommittedCount ==
    IF batch = <<>> THEN 0
    ELSE IF included[i] # None THEN i ELSE i - 1

committedBar == [k \in 1..CommittedCount |-> included[k]]

returnedBar == [k \in 1..Len(results) |->
                   [event |-> results[k].event, height |-> results[k].height]]

statusBar ==
    CASE pc \in {"send", "await"} -> "running"
      [] pc = "done"              -> "ok"
      [] pc = "failed"            -> "failed"

BatchCommit == INSTANCE AxonBatchCommit
                   WITH committed <- committedBar, returned <- returnedBar,
                        status <- statusBar, Sendable <- Dispatched,
                        EventOf <- ExpectedEvent

\* send_messages_and_wait_commit with send_message and a chain that
\* includes transactions late implements AxonBatchCommit: messages are
\* committed one at a time in batch order, each event is returned in order
\* with the block that committed its message, and a failed call returns
\* nothing more.
ImplementsBatchCommit == BatchCommit!Spec

=============================================================================
