-------------------- MODULE AxonMessageDispatchProofs --------------------
(***************************************************************************)
(* Proofs about AxonMessageDispatch, for every set of batches and every    *)
(* chain bound: the batch commits in order and stops at its first failure, *)
(* and a batch that returns Ok returns each message's expected event at    *)
(* the block that included it.                                             *)
(***************************************************************************)
EXTENDS AxonMessageDispatch, TLAPS

(***************************************************************************)
(* The strengthening.  Only the message being processed can be pending in *)
(* the mempool, and every message before it has been included; a block    *)
(* that includes a transaction is the next block, above every inclusion   *)
(* so far; an inclusion is never undone; and the results collected so far *)
(* are one per message before the current one, read from its receipt.     *)
(* A receipt has at most two logs, which is what makes the first match of *)
(* a kind well defined for the provers.                                    *)
(***************************************************************************)
Progress ==
    /\ batch # <<>> => i \in 1..Len(batch)
    /\ batch = <<>> => pc = "done" /\ submitted = {} /\ results = <<>>
    /\ submitted \subseteq 1..i
    /\ pc = "send" => i \notin submitted
    /\ pc = "await" => i \in submitted
    /\ pc \in {"send", "await", "failed"} => Len(results) = i - 1
    /\ pc = "done" => Len(results) = Len(batch)
    /\ \A k \in submitted : batch[k] \in Dispatched

Inclusions ==
    /\ mempool \subseteq submitted \cap {i}
    /\ \A k \in mempool : included[k] = None
    /\ \A k \in BatchIndices :
         included[k] # None => k \in submitted /\ included[k] <= tip
    /\ \A j \in submitted : j < i => included[j] # None
    /\ \A j, k \in submitted :
         (j < k /\ included[k] # None) => included[j] < included[k]
    /\ \A k \in BatchIndices : Len(logs[k]) <= 2

Collected ==
    \A k \in 1..Len(results) :
        /\ k \in submitted
        /\ included[k] # None
        /\ results[k].tx = k
        /\ results[k].event = ExpectedEvent(batch[k])
        /\ results[k].height = included[k]

IInv ==
    /\ TypeOK
    /\ Progress
    /\ Inclusions
    /\ Collected

-----------------------------------------------------------------------------
USE BatchesAssumption, MaxHeightAssumption, NoneAssumption

\* Every message type has an expected event, and a dispatched message
\* calls a method whose event is known.
LEMMA ExpectedEventType ==
    ASSUME NEW t \in MsgTypes
    PROVE  /\ ExpectedEvent(t) \in EventKinds
           /\ t \in Dispatched => Method(t) \in MsgTypes
BY DEF ExpectedEvent, EventKinds, MsgTypes, Dispatched, Method

\* A receipt is a list of at most two logs.
LEMMA ReceiptsType ==
    ASSUME NEW m \in MsgTypes, NEW r \in Receipts(m)
    PROVE  r \in Seq(Logs) /\ Len(r) <= 2
<1>1. HandlerEvent(m) \in EventKinds
  BY ExpectedEventType DEF HandlerEvent
<1> DEFINE h == [addr |-> "handler", kind |-> HandlerEvent(m)]
<1>2. h \in Logs
  BY <1>1 DEF Logs, Addresses
<1>3. CASE r = <<>>
  BY <1>3
<1>6. CASE r = <<h>>
  BY <1>2, <1>6
<1>4. CASE r # <<>> /\ r # <<h>>
  <2>1. PICK a \in [addr : {"app"}, kind : EventKinds] :
            r = <<a, h>> \/ r = <<h, a>>
    BY <1>4 DEF Receipts
  <2>2. a \in Logs
    BY DEF Logs, Addresses
  <2>3. <<a, h>> \in Seq(Logs) /\ <<h, a>> \in Seq(Logs)
    BY <1>2, <2>2
  <2>4. Len(<<a, h>>) = 2 /\ Len(<<h, a>>) = 2
    OBVIOUS
  <2>5. CASE r = <<a, h>>
    BY <2>3, <2>4, <2>5
  <2>6. CASE r = <<h, a>>
    BY <2>3, <2>4, <2>6
  <2>7. QED
    BY <2>1, <2>5, <2>6
<1>5. QED
  BY <1>3, <1>4, <1>6

\* The first log of kind k in a receipt: 0 when there is none, else the
\* index of a log of that kind.
LEMMA FirstMatchFound ==
    ASSUME NEW ls \in Seq(Logs), Len(ls) <= 2, NEW k
    PROVE  /\ FirstMatch(ls, k) = 0 <=> \A n \in DOMAIN ls : ls[n].kind # k
           /\ FirstMatch(ls, k) # 0 =>
                 /\ FirstMatch(ls, k) \in 1..Len(ls)
                 /\ ls[FirstMatch(ls, k)].kind = k
<1> DEFINE Least(n) == ls[n].kind = k /\ \A m \in 1..(n - 1) : ls[m].kind # k
<1>1. CASE \E n \in DOMAIN ls : ls[n].kind = k
  <2>1. \E n \in DOMAIN ls : Least(n)
    <3>1. CASE ls[1].kind = k
      BY <1>1, <3>1
    <3>2. CASE ls[1].kind # k
      BY <1>1, <3>2
    <3>3. QED
      BY <3>1, <3>2
  <2>2. FirstMatch(ls, k) = CHOOSE n \in DOMAIN ls : Least(n)
    BY <1>1 DEF FirstMatch
  <2>3. FirstMatch(ls, k) \in DOMAIN ls /\ Least(FirstMatch(ls, k))
    BY <2>1, <2>2
  <2>4. QED
    BY <1>1, <2>3
<1>2. CASE ~\E n \in DOMAIN ls : ls[n].kind = k
  BY <1>2 DEF FirstMatch
<1>3. QED
  BY <1>1, <1>2

\* The facts of IInv hold in every initial state.
LEMMA IInvInit == Init => IInv
<1> SUFFICES ASSUME Init PROVE IInv
  OBVIOUS
<1>1. batch \in Seq(MsgTypes \cup {"unknown"})
  BY DEF Init
<1>2. TypeOK
  BY <1>1 DEF Init, TypeOK, BatchIndices, Errors
<1>3. Progress
  BY <1>1 DEF Init, Progress
<1>4. Inclusions /\ Collected
  BY DEF Init, Inclusions, Collected
<1>5. QED
  BY <1>2, <1>3, <1>4 DEF IInv

\* Every step of the chain or of the batch keeps IInv.
LEMMA IInvStep == IInv /\ [Next]_vars => IInv'
<1> SUFFICES ASSUME IInv, [Next]_vars PROVE IInv'
  OBVIOUS
<1> USE DEF IInv
<1>0. batch \in Seq(MsgTypes \cup {"unknown"}) /\ DOMAIN batch \subseteq BatchIndices
  BY DEF TypeOK, BatchIndices
<1>1. CASE ProduceBlock
  BY <1>1 DEF ProduceBlock, TypeOK, Progress, Inclusions, Collected,
              relayerVars
<1>2. CASE IncludeTx
  <2>1. PICK k \in mempool :
            /\ tip' = tip + 1
            /\ mempool' = mempool \ {k}
            /\ included' = [included EXCEPT ![k] = tip + 1]
            /\ \E r \in Receipts(Method(batch[k])) :
                 logs' = [logs EXCEPT ![k] = r]
    BY <1>2 DEF IncludeTx
  <2>2. tip < MaxHeight /\ UNCHANGED relayerVars
    BY <1>2 DEF IncludeTx
  <2>3. PICK r \in Receipts(Method(batch[k])) : logs' = [logs EXCEPT ![k] = r]
    BY <2>1
  <2>4. k = i /\ k \in submitted /\ batch[k] \in Dispatched /\ k \in BatchIndices
    BY DEF Inclusions, Progress, TypeOK
  <2>5. r \in Seq(Logs) /\ Len(r) <= 2
    BY <2>3, <2>4, ExpectedEventType, ReceiptsType DEF Dispatched
  <2>6. TypeOK'
    BY <2>1, <2>2, <2>3, <2>5 DEF TypeOK, relayerVars
  <2>7. Progress'
    BY <2>2 DEF Progress, relayerVars
  <2>8. Inclusions'
    <3>1. included' = [included EXCEPT ![k] = tip + 1] /\ k \in BatchIndices
          /\ included \in [BatchIndices -> (1..MaxHeight) \cup {None}]
          /\ tip \in 0..MaxHeight /\ tip' = tip + 1
      BY <2>1, <2>4 DEF TypeOK
    <3>2. (mempool \subseteq submitted \cap {i})'
      BY <2>1, <2>2 DEF Inclusions, relayerVars
    <3>3. (\A j \in mempool : included[j] = None)'
      BY <2>1, <3>1 DEF Inclusions
    <3>4. (\A j \in BatchIndices :
             included[j] # None => j \in submitted /\ included[j] <= tip)'
      BY <2>2, <2>4, <3>1 DEF Inclusions, relayerVars
    <3>5. (\A j \in submitted : j < i => included[j] # None)'
      BY <2>2, <3>1 DEF Inclusions, relayerVars
    <3>6. (\A j, l \in submitted :
             (j < l /\ included[l] # None) => included[j] < included[l])'
      <4> SUFFICES ASSUME NEW j \in submitted, NEW l \in submitted,
                          j < l, included'[l] # None
                   PROVE  included'[j] < included'[l]
        BY <2>2 DEF relayerVars
      <4>1. j \in BatchIndices /\ l \in BatchIndices /\ j # k
        BY <2>4 DEF Progress, TypeOK
      <4>2. j < i
        BY <2>4, <4>1 DEF Progress, TypeOK
      <4>3. included[j] # None /\ included'[j] = included[j]
            /\ included[j] <= tip
        BY <3>1, <4>1, <4>2 DEF Inclusions
      <4>4. CASE l = k
        BY <3>1, <4>1, <4>3, <4>4
      <4>5. CASE l # k
        BY <3>1, <4>1, <4>3, <4>5 DEF Inclusions
      <4>6. QED
        BY <4>4, <4>5
    <3>7. (\A j \in BatchIndices : Len(logs[j]) <= 2)'
      BY <2>3, <2>4, <2>5 DEF Inclusions, TypeOK
    <3>8. QED
      BY <3>2, <3>3, <3>4, <3>5, <3>6, <3>7 DEF Inclusions
  <2>9. Collected'
    <3>1. included[k] = None
      BY DEF Inclusions
    <3>2. \A j \in 1..Len(results) : j # k /\ j \in BatchIndices
      BY <3>1 DEF Collected, TypeOK
    <3>3. QED
      BY <2>1, <2>2, <3>2 DEF Collected, TypeOK, relayerVars
  <2>10. QED
    BY <2>6, <2>7, <2>8, <2>9
<1>3. CASE SendMessage
  <2>1. pc = "send" /\ UNCHANGED <<batch, results, tip, included, logs>>
    BY <1>3 DEF SendMessage
  <2>2. i \in 1..Len(batch) /\ i \in BatchIndices /\ i \notin submitted
    BY <1>0, <2>1 DEF Progress, TypeOK
  <2>3. CASE batch[i] \notin Dispatched
    <3>1. pc' = "failed" /\ error' = "unsupported" /\ i' = i
          /\ UNCHANGED <<mempool, submitted>>
      BY <1>3, <2>3 DEF SendMessage, Abort
    <3>2. QED
      BY <2>1, <2>2, <3>1 DEF TypeOK, Progress, Inclusions, Collected, Errors
  <2>4. CASE batch[i] \in Dispatched
    <3>1. \/ /\ pc' = "failed" /\ error' = "send" /\ i' = i
             /\ UNCHANGED <<mempool, submitted>>
          \/ /\ pc' = "await"
             /\ mempool' = mempool \cup {i}
             /\ submitted' = submitted \cup {i}
             /\ UNCHANGED <<i, error>>
      BY <1>3, <2>4 DEF SendMessage, Abort
    <3>2. CASE pc' = "failed"
      BY <2>1, <2>2, <3>1, <3>2 DEF TypeOK, Progress, Inclusions, Collected,
                                    Errors
    <3>3. CASE pc' = "await"
      <4>1. mempool' = mempool \cup {i} /\ submitted' = submitted \cup {i}
            /\ i' = i /\ error' = error
        BY <3>1, <3>3
      <4>2. included[i] = None
        <5>1. included[i] # None => i \in submitted
          BY <2>2 DEF Inclusions
        <5>2. QED
          BY <5>1, <2>2
      <4>3. TypeOK'
        <5>1. mempool' \subseteq BatchIndices /\ submitted' \subseteq BatchIndices
          BY <2>2, <4>1 DEF TypeOK
        <5>2. pc' \in {"send", "await", "done", "failed"} /\ i' \in BatchIndices \cup {1}
              /\ error' \in Errors
          BY <3>3, <4>1 DEF TypeOK
        <5>3. QED
          BY <2>1, <5>1, <5>2 DEF TypeOK
      <4>4. Progress'
        BY <2>1, <2>2, <2>4, <3>3, <4>1 DEF Progress
      <4>5. Inclusions'
        BY <2>1, <2>2, <4>1, <4>2 DEF Inclusions, Progress
      <4>6. Collected'
        BY <2>1, <4>1 DEF Collected
      <4>7. QED
        BY <4>3, <4>4, <4>5, <4>6
    <3>4. QED
      BY <3>1, <3>2, <3>3
  <2>5. QED
    BY <2>3, <2>4
<1>4. CASE AwaitFails
  BY <1>4 DEF AwaitFails, Abort, TypeOK, Progress, Inclusions, Collected,
              chainVars, Errors
<1>5. CASE AwaitReceipt
  <2> DEFINE n == FirstMatch(logs[i], ExpectedEvent(batch[i]))
  <2>1. /\ pc = "await" /\ included[i] # None
        /\ UNCHANGED <<batch, submitted>> /\ UNCHANGED chainVars
    BY <1>5 DEF AwaitReceipt
  <2>2. /\ i \in 1..Len(batch) /\ i \in BatchIndices /\ i \in submitted
        /\ batch[i] \in Dispatched /\ Len(results) = i - 1
    BY <1>0, <2>1 DEF Progress, TypeOK
  <2>3. logs[i] \in Seq(Logs) /\ Len(logs[i]) <= 2
        /\ ExpectedEvent(batch[i]) \in EventKinds
    BY <2>2, ExpectedEventType DEF TypeOK, Inclusions, Dispatched
  <2>4. CASE n = 0
    <3>1. pc' = "failed" /\ error' = "no_event" /\ i' = i
          /\ results' = results
      BY <1>5, <2>4 DEF AwaitReceipt, CollectEvent, Abort
    <3>2. QED
      BY <2>1, <2>2, <3>1 DEF TypeOK, Progress, Inclusions, Collected,
                              Errors, chainVars
  <2>5. CASE n # 0
    <3>1. n \in 1..Len(logs[i]) /\ logs[i][n].kind = ExpectedEvent(batch[i])
      BY <2>3, <2>5, FirstMatchFound
    <3>2. /\ results' = Append(results,
                            [event |-> logs[i][n].kind,
                             addr |-> logs[i][n].addr,
                             height |-> included[i], tx |-> i])
          /\ pc' = IF i = Len(batch) THEN "done" ELSE "send"
          /\ i' = NextIndex(i, Len(batch))
          /\ error' = error
      BY <1>5, <2>5 DEF AwaitReceipt, CollectEvent
    <3>3. logs[i][n] \in Logs /\ included[i] \in 1..MaxHeight
      BY <2>1, <2>2, <2>3, <3>1 DEF TypeOK
    <3>4. Len(results') = i /\ results'[i].tx = i
          /\ results'[i].event = ExpectedEvent(batch[i])
          /\ results'[i].height = included[i]
          /\ \A k \in 1..(i - 1) : results'[k] = results[k]
      BY <2>2, <3>1, <3>2 DEF TypeOK
    <3>5. i' \in BatchIndices /\ i' \in 1..Len(batch) /\ i <= i'
      <4>1. i' \in 1..Len(batch) /\ i <= i'
        BY <2>2, <3>2 DEF NextIndex
      <4>2. QED
        BY <1>0, <4>1
    <3>6. TypeOK'
      <4>1. [event |-> logs[i][n].kind, addr |-> logs[i][n].addr,
             height |-> included[i], tx |-> i] \in Results
        BY <2>2, <3>3 DEF Results, Logs
      <4>2. results' \in Seq(Results)
        BY <3>2, <4>1 DEF TypeOK
      <4>3. pc' \in {"send", "await", "done", "failed"} /\ error' \in Errors
        BY <3>2 DEF TypeOK
      <4>4. QED
        BY <2>1, <3>5, <4>2, <4>3 DEF TypeOK, chainVars
    <3>7. Progress'
      BY <2>1, <2>2, <3>2, <3>4, <3>5 DEF Progress, NextIndex, chainVars
    <3>8. Inclusions'
      BY <2>1, <2>2, <3>2, <3>5 DEF Inclusions, NextIndex, chainVars
    <3>9. Collected'
      BY <2>1, <2>2, <3>4 DEF Collected, chainVars
    <3>10. QED
      BY <3>6, <3>7, <3>8, <3>9
  <2>6. QED
    BY <2>4, <2>5
<1>6. CASE Finished
  BY <1>6 DEF Finished, vars, TypeOK, Progress, Inclusions, Collected
<1>7. CASE UNCHANGED vars
  BY <1>7 DEF vars, TypeOK, Progress, Inclusions, Collected
<1>8. QED
  BY <1>1, <1>2, <1>3, <1>4, <1>5, <1>6, <1>7 DEF Next

\* IInv is an invariant of the batch running against the chain.
LEMMA IInvInvariant == Spec => []IInv
BY IInvInit, IInvStep, PTL DEF Spec


\* The dispatcher's state stays within its types: batch indices, blocks
\* 1..MaxHeight, receipts of handler and application logs.
THEOREM TypeCorrect == Spec => []TypeOK
<1>1. IInv => TypeOK
  BY DEF IInv
<1>2. QED
  BY <1>1, IInvInvariant, PTL

\* send_messages_and_wait_commit sends the batch in order: a message sent
\* after another is committed in a strictly later block, and a failed batch
\* has sent nothing past its failing message (CommitOrderFollowsBatch).
THEOREM CommitOrderHolds == Spec => []CommitOrderFollowsBatch
<1>1. IInv => CommitOrderFollowsBatch
  <2> SUFFICES ASSUME IInv PROVE CommitOrderFollowsBatch
    OBVIOUS
  <2>1. ASSUME NEW j \in submitted, NEW k \in submitted, j < k
        PROVE  /\ included[j] # None
               /\ included[k] # None => included[j] < included[k]
    <3>1. j \in 1..i /\ k \in 1..i
      BY DEF IInv, Progress
    <3>2. j < i
      <4>1. i \in Nat
        <5>1. PICK b \in Batches : i \in DOMAIN b \/ i = 1
          BY DEF IInv, TypeOK, BatchIndices
        <5>2. b \in Seq(MsgTypes \cup {"unknown"})
          OBVIOUS
        <5>3. QED
          BY <5>1, <5>2
      <4>2. QED
        BY <2>1, <3>1, <4>1
    <3>3. included[j] # None
      BY <2>1, <3>2 DEF IInv, Inclusions
    <3>4. QED
      BY <2>1, <3>3 DEF IInv, Inclusions
  <2>2. pc = "failed" => Len(results) = i - 1 /\ submitted \subseteq 1..i
    BY DEF IInv, Progress
  <2>3. QED
    BY <2>1, <2>2 DEF CommitOrderFollowsBatch
<1>2. QED
  BY <1>1, IInvInvariant, PTL

\* A batch that returns Ok returns, in input order, each message's expected
\* event at the block that included its transaction (ResultsMatchReceipts).
THEOREM ResultsMatchReceiptsHolds == Spec => []ResultsMatchReceipts
<1>1. IInv => ResultsMatchReceipts
  BY DEF IInv, Progress, Collected, ResultsMatchReceipts
<1>2. QED
  BY <1>1, IInvInvariant, PTL


-----------------------------------------------------------------------------
(* Refinement.                                                             *)

\* Every initial state of the dispatcher maps to an initial state of
\* AxonBatchCommit.
LEMMA RefinementInit == Init => BatchCommit!Init
<1> SUFFICES ASSUME Init PROVE BatchCommit!Init
  OBVIOUS
<1>1. committedBar = <<>>
  <2>1. CASE batch = <<>>
    BY <2>1 DEF committedBar, CommittedCount
  <2>2. CASE batch # <<>>
    <3>1. batch \in Seq(MsgTypes \cup {"unknown"}) /\ 1 \in DOMAIN batch
      BY <2>2 DEF Init
    <3>2. 1 \in BatchIndices
      BY <3>1 DEF BatchIndices, Init
    <3>3. CommittedCount = 0
      BY <2>2, <3>2 DEF Init, CommittedCount
    <3>4. QED
      BY <3>3 DEF committedBar
  <2>3. QED
    BY <2>1, <2>2
<1>2. returnedBar = <<>> /\ statusBar = IF batch = <<>> THEN "ok" ELSE "running"
  BY DEF Init, returnedBar, statusBar
<1>3. QED
  BY <1>1, <1>2 DEF Init, BatchCommit!Init


\* Every step of the dispatcher and the chain maps to a step of
\* AxonBatchCommit or leaves its variables unchanged.
LEMMA RefinementStep ==
    IInv /\ [Next]_vars => [BatchCommit!Next]_BatchCommit!vars
<1> SUFFICES ASSUME IInv, [Next]_vars
             PROVE  [BatchCommit!Next]_BatchCommit!vars
  OBVIOUS
<1> USE DEF IInv
<1>0. batch \in Seq(MsgTypes \cup {"unknown"}) /\ DOMAIN batch \subseteq BatchIndices
  BY DEF TypeOK, BatchIndices
\* Steps that change neither batch, pc, i, results nor included.
<1>a. ASSUME UNCHANGED <<batch, pc, i, results, included>>
      PROVE  /\ committedBar' = committedBar
             /\ returnedBar' = returnedBar
             /\ statusBar' = statusBar
  BY <1>a DEF committedBar, CommittedCount, returnedBar, statusBar
<1>1. CASE ProduceBlock
  <2>1. tip < MaxHeight /\ tip' = tip + 1
        /\ UNCHANGED <<batch, pc, i, results, included>>
    BY <1>1 DEF ProduceBlock, relayerVars
  <2>2. QED
    BY <1>a, <2>1 DEF BatchCommit!Next, BatchCommit!Block
<1>2. CASE IncludeTx
  <2>1. PICK k \in mempool :
            /\ tip' = tip + 1
            /\ included' = [included EXCEPT ![k] = tip + 1]
    BY <1>2 DEF IncludeTx
  <2>2. tip < MaxHeight /\ UNCHANGED relayerVars
    BY <1>2 DEF IncludeTx
  <2>3. k = i /\ i \in submitted /\ included[i] = None /\ batch[i] \in Dispatched
    BY DEF Inclusions, Progress
  <2>4. batch # <<>> /\ i \in 1..Len(batch) /\ i \in BatchIndices
    BY <1>0, <2>3 DEF Progress
  <2>5. pc \in {"await", "failed"} /\ Len(results) = i - 1
    <3>1. pc # "send"
      BY <2>3 DEF Progress
    <3>2. pc # "done"
      <4>1. SUFFICES ASSUME pc = "done" PROVE FALSE
        OBVIOUS
      <4>2. i \in 1..Len(results)
        BY <2>4, <4>1 DEF Progress
      <4>3. QED
        BY <2>3, <4>2 DEF Collected
    <3>3. QED
      BY <3>1, <3>2 DEF TypeOK, Progress
  <2>6. CommittedCount = i - 1 /\ CommittedCount' = i
    BY <2>1, <2>2, <2>3, <2>4 DEF CommittedCount, relayerVars, TypeOK
  <2>7. \A j \in 1..(i - 1) : j \in BatchIndices /\ j # i
    BY <1>0, <2>4
  <2>8. committedBar' = Append(committedBar, tip + 1)
    BY <2>1, <2>3, <2>4, <2>6, <2>7 DEF committedBar, TypeOK
  <2>9. Len(committedBar) = i - 1 /\ Len(returnedBar) = i - 1
    BY <2>4, <2>5, <2>6 DEF committedBar, returnedBar, TypeOK
  <2>10. returnedBar' = returnedBar /\ statusBar' = statusBar
    BY <2>2 DEF returnedBar, statusBar, relayerVars
  <2>11. batch[Len(committedBar) + 1] \in Dispatched /\ Len(committedBar) < Len(batch)
    BY <2>3, <2>4, <2>9
  <2>12. QED
    BY <2>1, <2>2, <2>8, <2>9, <2>10, <2>11
       DEF BatchCommit!Next, BatchCommit!Commit, relayerVars
<1>3. CASE SendMessage
  <2>1. pc = "send" /\ UNCHANGED <<batch, results, tip, included, logs>>
        /\ i' = i
    BY <1>3 DEF SendMessage, Abort
  <2>2. CASE pc' = "await"
    <3>1. committedBar' = committedBar /\ returnedBar' = returnedBar
      BY <2>1 DEF committedBar, CommittedCount, returnedBar
    <3>2. statusBar' = statusBar
      BY <2>1, <2>2 DEF statusBar
    <3>3. QED
      BY <2>1, <3>1, <3>2 DEF BatchCommit!vars
  <2>3. CASE pc' # "await"
    <3>1. pc' = "failed"
      BY <1>3, <2>3 DEF SendMessage, Abort
    <3>2. committedBar' = committedBar /\ returnedBar' = returnedBar
      BY <2>1 DEF committedBar, CommittedCount, returnedBar
    <3>3. statusBar = "running" /\ statusBar' = "failed"
      BY <2>1, <3>1 DEF statusBar
    <3>4. QED
      BY <2>1, <3>2, <3>3 DEF BatchCommit!Next, BatchCommit!Fail
  <2>4. QED
    BY <2>2, <2>3
<1>4. CASE AwaitFails
  <2>1. pc = "await" /\ pc' = "failed" /\ i' = i
        /\ UNCHANGED <<batch, results, tip, included>>
    BY <1>4 DEF AwaitFails, Abort, chainVars
  <2>2. committedBar' = committedBar /\ returnedBar' = returnedBar
    BY <2>1 DEF committedBar, CommittedCount, returnedBar
  <2>3. statusBar = "running" /\ statusBar' = "failed"
    BY <2>1 DEF statusBar
  <2>4. QED
    BY <2>1, <2>2, <2>3 DEF BatchCommit!Next, BatchCommit!Fail
<1>5. CASE AwaitReceipt
  <2> DEFINE n == FirstMatch(logs[i], ExpectedEvent(batch[i]))
  <2>1. /\ pc = "await" /\ included[i] # None
        /\ UNCHANGED <<batch, submitted>> /\ UNCHANGED chainVars
    BY <1>5 DEF AwaitReceipt
  <2>2. /\ i \in 1..Len(batch) /\ i \in BatchIndices /\ i \in submitted
        /\ Len(results) = i - 1 /\ batch # <<>>
    BY <1>0, <2>1 DEF Progress, TypeOK
  <2>3. statusBar = "running"
    BY <2>1 DEF statusBar
  <2>4. CASE n = 0
    <3>1. pc' = "failed" /\ i' = i /\ results' = results
      BY <1>5, <2>4 DEF AwaitReceipt, CollectEvent, Abort
    <3>2. committedBar' = committedBar /\ returnedBar' = returnedBar
      BY <2>1, <3>1 DEF committedBar, CommittedCount, returnedBar, chainVars
    <3>3. statusBar' = "failed"
      BY <3>1 DEF statusBar
    <3>4. QED
      BY <2>1, <2>3, <3>2, <3>3
         DEF BatchCommit!Next, BatchCommit!Fail, chainVars
  <2>5. CASE n # 0
    <3>1. logs[i] \in Seq(Logs) /\ Len(logs[i]) <= 2
          /\ ExpectedEvent(batch[i]) \in EventKinds
      BY <2>2, ExpectedEventType DEF TypeOK, Inclusions, Progress, Dispatched
    <3>2. n \in 1..Len(logs[i]) /\ logs[i][n].kind = ExpectedEvent(batch[i])
      BY <3>1, <2>5, FirstMatchFound
    <3>3. /\ results' = Append(results,
                            [event |-> logs[i][n].kind,
                             addr |-> logs[i][n].addr,
                             height |-> included[i], tx |-> i])
          /\ pc' = IF i = Len(batch) THEN "done" ELSE "send"
          /\ i' = NextIndex(i, Len(batch))
      BY <1>5, <2>5 DEF AwaitReceipt, CollectEvent
    <3>4. CommittedCount = i /\ Len(committedBar) = i /\ committedBar[i] = included[i]
      BY <2>1, <2>2 DEF CommittedCount, committedBar
    <3>5. CommittedCount' = i
      <4>1. CASE i = Len(batch)
        BY <2>1, <2>2, <3>3, <4>1 DEF CommittedCount, NextIndex, chainVars
      <4>2. CASE i # Len(batch)
        <5>1. i' = i + 1 /\ i + 1 \in BatchIndices
          BY <1>0, <2>2, <3>3, <4>2 DEF NextIndex
        <5>2. i + 1 \notin submitted
          BY <2>2 DEF Progress
        <5>3. included[i + 1] = None
          BY <5>1, <5>2 DEF Inclusions
        <5>4. QED
          BY <2>1, <2>2, <5>1, <5>3 DEF CommittedCount, chainVars
      <4>3. QED
        BY <4>1, <4>2
    <3>6. committedBar' = committedBar
      BY <2>1, <3>4, <3>5 DEF committedBar, chainVars
    <3>7. Len(returnedBar) = i - 1
      BY <2>2 DEF returnedBar, TypeOK
    <3>8. returnedBar' = Append(returnedBar,
                               [event |-> ExpectedEvent(batch[i]),
                                height |-> committedBar[i]])
      BY <2>2, <3>2, <3>3, <3>4 DEF returnedBar, TypeOK
    <3>9. statusBar' = IF i = Len(batch) THEN "ok" ELSE "running"
      BY <3>3 DEF statusBar
    <3>10. QED
      BY <2>1, <2>3, <3>4, <3>6, <3>7, <3>8, <3>9
         DEF BatchCommit!Next, BatchCommit!Return, chainVars
  <2>6. QED
    BY <2>4, <2>5
<1>6. CASE Finished
  BY <1>a, <1>6 DEF Finished, vars, BatchCommit!vars
<1>7. CASE UNCHANGED vars
  BY <1>a, <1>7 DEF vars, BatchCommit!vars
<1>8. QED
  BY <1>1, <1>2, <1>3, <1>4, <1>5, <1>6, <1>7 DEF Next

\* send_messages_and_wait_commit, with send_message and a chain that
\* includes transactions late, implements AxonBatchCommit: one message in
\* flight, commits in batch order, events returned in order with their
\* blocks, nothing returned after a failure (ImplementsBatchCommit).
THEOREM Refinement == Spec => ImplementsBatchCommit
<1>1. []IInv /\ [][Next]_vars => [][BatchCommit!Next]_BatchCommit!vars
  BY RefinementStep, PTL
<1>2. QED
  BY <1>1, RefinementInit, IInvInvariant, PTL
     DEF Spec, BatchCommit!Spec, ImplementsBatchCommit

=============================================================================
