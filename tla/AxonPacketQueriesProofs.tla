--------------------- MODULE AxonPacketQueriesProofs ---------------------
(***************************************************************************)
(* Proofs about AxonPacketQueries, for every MaxSeq and either ordering:   *)
(* the packet queries are type correct, and a loop query that returns Ok   *)
(* reports right every sequence whose record did not change while it ran.  *)
(***************************************************************************)
EXTENDS AxonPacketQueries, TLAPS

\* Where a sent packet is in its life: it only moves forward.
Rank(st) == CASE st = "unsent" -> 0 [] st = "committed" -> 1 [] st = "acked" -> 2

(***************************************************************************)
(* The strengthening of ResultConsistent.  The handler only moves forward  *)
(* from the snapshot: receipts and acknowledgements are never removed,     *)
(* next_sequence_recv never decreases, a commitment once deleted is never  *)
(* written again.  A sequence the loop has read was kept or dropped from   *)
(* what the handler said at the time of the read, which lies between the  *)
(* snapshot and now; by the direction each record moves in, that pins the *)
(* answer to the snapshot for one outcome and to now for the other.        *)
(***************************************************************************)
Monotone ==
    /\ snap.recvd \subseteq recvd
    /\ snap.nextRecv <= nextRecv
    /\ \A s \in Seqs : Rank(snap.sent[s]) <= Rank(sent[s])

\* Which query runs at which step, and what each path leaves behind.
Shape ==
    /\ pc \in {"channel", "next_seq", "loop"} => q \in LoopQueries
    /\ pc \in {"channel", "next_seq"} => q = "unreceived_packets"
    /\ pc = "next_seq" => order = "ordered"
    /\ (pc = "loop" /\ q = "unreceived_packets") => order = "unordered"
    /\ (q = "unreceived_packets" /\ order = "ordered") => todo = input
    /\ pc \in {"channel", "loop"} => acc \cap todo = {}
    /\ (q \in LoopQueries /\ pc = "idle" /\ outcome = "ok"
        /\ ~(q = "unreceived_packets" /\ order = "ordered")) => todo = {}

\* The acknowledgements asked about were sent when the query started.
RequestSent ==
    q = "unreceived_acks" => \A s \in input : snap.sent[s] # "unsent"

\* What the loop recorded for each sequence it has read.
LoopReads ==
    \A s \in input \ todo :
        /\ q = "unreceived_packets" =>
              /\ s \in acc => s \notin snap.recvd
              /\ s \notin acc => s \in recvd
        /\ q = "acknowledgements" =>
              /\ s \in acc => s \in recvd
              /\ s \notin acc => s \notin snap.recvd
        /\ q = "unreceived_acks" =>
              /\ s \in acc => snap.sent[s] = "committed"
              /\ s \notin acc => sent[s] = "acked"

\* What the ordered branch returned, against the cursor then and now.
OrderedResult ==
    (q = "unreceived_packets" /\ order = "ordered" /\ pc = "idle"
     /\ outcome = "ok") =>
        \A s \in input :
            /\ s \in acc => s >= snap.nextRecv
            /\ s \notin acc => s < nextRecv

IInv ==
    /\ TypeOK
    /\ Monotone
    /\ Shape
    /\ RequestSent
    /\ LoopReads
    /\ OrderedResult

-----------------------------------------------------------------------------
USE MaxSeqAssumption, OrderingsAssumption

\* Rank orders the three states of a sent packet.
LEMMA RankValues ==
    ASSUME NEW st \in SentStates
    PROVE  /\ Rank(st) \in 0..2
           /\ Rank(st) = 0 <=> st = "unsent"
           /\ Rank(st) = 2 <=> st = "acked"
BY DEF Rank, SentStates

\* The facts of IInv hold in every initial state.
LEMMA IInvInit == Init => IInv
<1> SUFFICES ASSUME Init PROVE IInv
  OBVIOUS
<1>1. TypeOK
  BY DEF Init, TypeOK, Handler, HandlerState, HandlerStates, Seqs,
         SentStates, LoopQueries
<1>2. Monotone
  BY RankValues DEF Init, Monotone, HandlerState, Seqs, SentStates
<1>3. Shape /\ RequestSent /\ LoopReads /\ OrderedResult
  BY DEF Init, Shape, RequestSent, LoopReads, OrderedResult
<1>4. QED
  BY <1>1, <1>2, <1>3 DEF IInv

\* Every step of the other actors or of a query keeps IInv.
LEMMA IInvStep == IInv /\ [Next]_vars => IInv'
<1> SUFFICES ASSUME IInv, [Next]_vars PROVE IInv'
  OBVIOUS
<1> USE DEF IInv, TypeOK, Handler, HandlerState, HandlerStates, handlerVars,
           queryVars
<1>1. CASE RecvPacket
  BY <1>1 DEF RecvPacket, Monotone, Shape, RequestSent, LoopReads,
              OrderedResult, Seqs, queryVars
<1>2. CASE SendPacket
  <2>1. PICK s \in Seqs : /\ sent[s] = "unsent"
                          /\ sent' = [sent EXCEPT ![s] = "committed"]
                          /\ UNCHANGED <<order, recvd, nextRecv, queryVars>>
    BY <1>2 DEF SendPacket
  <2>2. TypeOK'
    BY <2>1 DEF SentStates
  <2>3. Monotone'
    <3>1. \A t \in Seqs : Rank(snap.sent[t]) <= Rank(sent'[t])
      <4> TAKE t \in Seqs
      <4>1. CASE t = s
        BY <2>1, <4>1, RankValues DEF Monotone, SentStates
      <4>2. CASE t # s
        BY <2>1, <4>2 DEF Monotone
      <4>3. QED
        BY <4>1, <4>2
    <3>2. QED
      BY <2>1, <3>1 DEF Monotone
  <2>4. (Shape /\ RequestSent /\ OrderedResult)'
    BY <2>1 DEF Shape, RequestSent, OrderedResult
  <2>5. LoopReads'
    BY <2>1 DEF LoopReads
  <2>6. QED
    BY <2>2, <2>3, <2>4, <2>5
<1>3. CASE AcknowledgePacket
  <2>1. PICK s \in Seqs : /\ sent[s] = "committed"
                          /\ sent' = [sent EXCEPT ![s] = "acked"]
                          /\ UNCHANGED <<order, recvd, nextRecv, queryVars>>
    BY <1>3 DEF AcknowledgePacket
  <2>2. TypeOK'
    BY <2>1 DEF SentStates
  <2>3. Monotone'
    <3>1. \A t \in Seqs : Rank(snap.sent[t]) <= Rank(sent'[t])
      <4> TAKE t \in Seqs
      <4>1. CASE t = s
        BY <2>1, <4>1, RankValues DEF Monotone, SentStates
      <4>2. CASE t # s
        BY <2>1, <4>2 DEF Monotone
      <4>3. QED
        BY <4>1, <4>2
    <3>2. QED
      BY <2>1, <3>1 DEF Monotone
  <2>4. (Shape /\ RequestSent /\ OrderedResult)'
    BY <2>1 DEF Shape, RequestSent, OrderedResult
  <2>5. LoopReads'
    BY <2>1 DEF LoopReads
  <2>6. QED
    BY <2>2, <2>3, <2>4, <2>5
<1>4. CASE StartLoopQuery
  <2>0. PICK k \in LoopQueries : \E in \in Requests(k) :
            /\ q' = k
            /\ input' = in
            /\ todo' = in
            /\ pc' = IF k = "unreceived_packets" THEN "channel" ELSE "loop"
    BY <1>4 DEF StartLoopQuery
  <2>1. PICK in \in Requests(k) :
            /\ q' = k
            /\ input' = in
            /\ todo' = in
            /\ pc' = IF k = "unreceived_packets" THEN "channel" ELSE "loop"
    BY <2>0
  <2>2. /\ pc = "idle" /\ acc' = {} /\ outcome' = "none" /\ snap' = Handler
        /\ UNCHANGED <<handlerVars, bytes>>
    BY <1>4 DEF StartLoopQuery
  <2>3. in \in SUBSET Seqs
    BY DEF Requests
  <2>4. TypeOK'
    BY <2>1, <2>2, <2>3 DEF LoopQueries
  <2>5. Monotone'
    <3>1. \A t \in Seqs : Rank(sent[t]) <= Rank(sent[t])
      BY RankValues DEF SentStates
    <3>2. QED
      BY <2>2, <3>1 DEF Monotone
  <2>6. RequestSent'
    BY <2>1, <2>2 DEF RequestSent, Requests
  <2>7. (Shape /\ LoopReads /\ OrderedResult)'
    BY <2>1, <2>2 DEF Shape, LoopReads, OrderedResult, LoopQueries
  <2>8. QED
    BY <2>4, <2>5, <2>6, <2>7
<1>5. CASE ReadChannel
  BY <1>5 DEF ReadChannel, Monotone, Shape, RequestSent, LoopReads,
              OrderedResult
<1>6. CASE ReadNextSequenceReceive
  <2>1. /\ pc = "next_seq"
        /\ acc' = {s \in input : s >= nextRecv}
        /\ pc' = "idle" /\ outcome' = "ok"
        /\ UNCHANGED <<handlerVars, q, input, todo, bytes, snap>>
    BY <1>6 DEF ReadNextSequenceReceive
  <2>2. q = "unreceived_packets" /\ order = "ordered" /\ todo = input
    BY <2>1 DEF Shape
  <2>3. TypeOK'
    BY <2>1
  <2>4. (Monotone /\ RequestSent)'
    BY <2>1 DEF Monotone, RequestSent
  <2>5. Shape'
    BY <2>1, <2>2 DEF Shape
  <2>6. LoopReads'
    BY <2>1, <2>2 DEF LoopReads
  <2>7. OrderedResult'
    BY <2>1, <2>2 DEF OrderedResult, Monotone, Seqs
  <2>8. QED
    BY <2>3, <2>4, <2>5, <2>6, <2>7
<1>7. CASE ReadSequence
  <2>1. PICK s \in todo : /\ acc' = IF Keeps(q, s) THEN acc \cup {s} ELSE acc
                          /\ todo' = todo \ {s}
    BY <1>7 DEF ReadSequence
  <2>2. /\ pc = "loop"
        /\ UNCHANGED <<handlerVars, q, pc, input, bytes, outcome, snap>>
    BY <1>7 DEF ReadSequence
  <2>3. q \in LoopQueries /\ s \in input /\ s \in Seqs /\ s \notin acc
    BY <2>2 DEF Shape
  <2>4. TypeOK'
    BY <2>1, <2>2, <2>3
  <2>5. (Monotone /\ RequestSent /\ OrderedResult)'
    BY <2>1, <2>2 DEF Monotone, RequestSent, OrderedResult, Shape
  <2>6. Shape'
    BY <2>1, <2>2 DEF Shape
  <2>7. LoopReads'
    <3>1. CASE q = "unreceived_packets"
      <4>1. order = "unordered"
        BY <2>2, <3>1 DEF Shape
      <4>2. s \in acc' => s \notin snap.recvd
        BY <2>1, <2>3, <3>1 DEF Keeps, HasPacketReceipt, Monotone
      <4>3. s \notin acc' => s \in recvd
        BY <2>1, <3>1 DEF Keeps, HasPacketReceipt
      <4>4. QED
        BY <2>1, <2>2, <3>1, <4>2, <4>3 DEF LoopReads
    <3>2. CASE q = "acknowledgements"
      <4>2. s \in acc' => s \in recvd
        BY <2>1, <2>3, <3>2 DEF Keeps, HasAckCommitment
      <4>3. s \notin acc' => s \notin snap.recvd
        BY <2>1, <3>2 DEF Keeps, HasAckCommitment, Monotone
      <4>4. QED
        BY <2>1, <2>2, <3>2, <4>2, <4>3 DEF LoopReads
    <3>3. CASE q = "unreceived_acks"
      <4>1. snap.sent[s] \in SentStates \ {"unsent"} /\ sent[s] \in SentStates
        BY <2>3, <3>3 DEF RequestSent
      <4>2. Rank(snap.sent[s]) <= Rank(sent[s])
        BY <2>3 DEF Monotone
      <4>3. s \in acc' => snap.sent[s] = "committed"
        BY <2>1, <2>3, <3>3, <4>1, <4>2, RankValues DEF Keeps, HasCommitment,
           SentStates
      <4>4. s \notin acc' => sent[s] = "acked"
        BY <2>1, <3>3, <4>1, <4>2, RankValues DEF Keeps, HasCommitment,
           SentStates
      <4>5. QED
        BY <2>1, <2>2, <3>3, <4>3, <4>4 DEF LoopReads
    <3>4. QED
      BY <2>3, <3>1, <3>2, <3>3 DEF LoopQueries
  <2>8. QED
    BY <2>4, <2>5, <2>6, <2>7
<1>8. CASE ReturnSequences
  BY <1>8 DEF ReturnSequences, Monotone, Shape, RequestSent, LoopReads,
              OrderedResult
<1>9. CASE RpcError
  BY <1>9 DEF RpcError, Monotone, Shape, RequestSent, LoopReads,
              OrderedResult
<1>10. CASE QuerySingle
  <2>1. /\ pc = "idle"
        /\ todo' = {} /\ acc' = {} /\ snap' = Handler
        /\ UNCHANGED <<handlerVars, pc>>
        /\ q' \in SingleQueries
        /\ input' \in SUBSET Seqs
        /\ bytes' \in {"hash", "zero"}
        /\ outcome' \in {"ok", "error"}
    BY <1>10 DEF QuerySingle
  <2>2. TypeOK'
    BY <2>1 DEF SingleQueries
  <2>3. Monotone'
    <3>1. \A t \in Seqs : Rank(sent[t]) <= Rank(sent[t])
      BY RankValues DEF SentStates
    <3>2. QED
      BY <2>1, <3>1 DEF Monotone
  <2>4. (Shape /\ RequestSent /\ LoopReads /\ OrderedResult)'
    BY <2>1 DEF Shape, RequestSent, LoopReads, OrderedResult, LoopQueries,
              SingleQueries
  <2>5. QED
    BY <2>2, <2>3, <2>4
<1>11. CASE UNCHANGED vars
  BY <1>11 DEF vars, Monotone, Shape, RequestSent, LoopReads, OrderedResult
<1>12. QED
  BY <1>1, <1>2, <1>3, <1>4, <1>5, <1>6, <1>7, <1>8, <1>9, <1>10, <1>11
     DEF Next

\* IInv is an invariant of the queries running beside the other actors.
LEMMA IInvInvariant == Spec => []IInv
BY IInvInit, IInvStep, PTL DEF Spec

\* Spec => []TypeOK: the handler state, the query's variables and the
\* snapshot stay in their types.
THEOREM TypeCorrect == Spec => []TypeOK
<1>1. IInv => TypeOK
  BY DEF IInv
<1>2. QED
  BY <1>1, IInvInvariant, PTL

\* Spec => []ResultConsistent: for every number of sequences and either
\* channel ordering, an Ok answer of query_unreceived_packets,
\* query_packet_acknowledgements or query_unreceived_acknowledgements is
\* right about every requested sequence whose record did not change during
\* the call, although each read is a separate RPC at Latest.
THEOREM ResultConsistentHolds == Spec => []ResultConsistent
<1>1. IInv => ResultConsistent
  <2> SUFFICES ASSUME IInv, q \in LoopQueries, pc = "idle", outcome = "ok",
                      NEW s \in input,
                      Reported(q, snap, s) = Reported(q, Handler, s)
               PROVE  s \in acc <=> Reported(q, Handler, s)
    BY DEF ResultConsistent
  <2> USE DEF IInv, TypeOK
  <2>1. CASE q = "unreceived_packets" /\ order = "ordered"
    BY <2>1 DEF OrderedResult, Monotone, Reported, Handler, HandlerState,
                HandlerStates, Seqs
  <2>2. CASE ~(q = "unreceived_packets" /\ order = "ordered")
    <3>1. todo = {}
      BY <2>2 DEF Shape
    <3>2. s \in Seqs /\ sent[s] \in SentStates /\ snap.sent[s] \in SentStates
      BY DEF Handler, HandlerState, HandlerStates
    <3>3. CASE q = "unreceived_packets"
      BY <2>2, <3>1, <3>3 DEF LoopReads, Reported, HasPacketReceipt,
                             Handler, HandlerState
    <3>4. CASE q = "acknowledgements"
      BY <3>1, <3>4 DEF LoopReads, Reported, HasAckCommitment, Handler,
                        HandlerState
    <3>5. CASE q = "unreceived_acks"
      BY <3>1, <3>2, <3>5 DEF LoopReads, Reported, HasCommitment, Handler,
                              HandlerState, SentStates
    <3>6. QED
      BY <3>3, <3>4, <3>5 DEF LoopQueries
  <2>3. QED
    BY <2>1, <2>2
<1>2. QED
  BY <1>1, IInvInvariant, PTL

=============================================================================
