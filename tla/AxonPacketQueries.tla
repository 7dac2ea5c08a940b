------------------------- MODULE AxonPacketQueries -------------------------
(***************************************************************************)
(* The packet queries of the Axon chain endpoint (crates/relayer/src/chain/ *)
(* axon.rs): query_unreceived_packets, query_packet_acknowledgements,      *)
(* query_unreceived_acknowledgements, and the single-record queries        *)
(* query_packet_commitment and query_packet_acknowledgement, run against   *)
(* the IBC handler contract of one channel while other relayers and users  *)
(* keep sending, receiving and acknowledging packets on it.                *)
(*                                                                         *)
(* Every contract call is made at QueryHeight::Latest, one RPC per step,   *)
(* so a query that reads several sequences sees a different chain state at *)
(* each read.  The ghost variable snap records the handler state when the  *)
(* query started.                                                          *)
(***************************************************************************)
EXTENDS Naturals

CONSTANTS
    MaxSeq,     \* packets of the channel have sequences 1..MaxSeq
    Orderings   \* the orderings the channel may have been opened with

ASSUME MaxSeqAssumption == MaxSeq \in Nat \ {0}
ASSUME OrderingsAssumption == Orderings \subseteq {"ordered", "unordered"}

VARIABLES
    order,     \* the channel's ordering (fixed when the channel was opened)
    recvd,     \* sequences of incoming packets received (receipt and ack written)
    nextRecv,  \* next_sequence_recv of the channel
    sent,      \* sent[s]: outgoing packet s is "unsent", "committed" or "acked"
    q,         \* which query the relayer runs
    pc,        \* where the query is
    input,     \* the sequences of the request
    todo,      \* the sequences the loop has still to read
    acc,       \* the sequences collected so far (the returned Vec)
    bytes,     \* the bytes returned by a single-record query
    outcome,   \* how the last query ended
    snap       \* ghost: the handler state when the query started

handlerVars == <<order, recvd, nextRecv, sent>>
queryVars == <<q, pc, input, todo, acc, bytes, outcome, snap>>
vars == <<order, recvd, nextRecv, sent, q, pc, input, todo, acc, bytes,
          outcome, snap>>

Seqs == 1..MaxSeq

\* The queries that read one sequence per step.
LoopQueries == {"unreceived_packets", "acknowledgements", "unreceived_acks"}
SingleQueries == {"commitment", "acknowledgement"}

HandlerState(r, n, s) == [recvd |-> r, nextRecv |-> n, sent |-> s]
Handler == HandlerState(recvd, nextRecv, sent)

-----------------------------------------------------------------------------
(* The handler contract: what each view function returns in state st.      *)

\* has_packet_receipt(port, channel, s).
HasPacketReceipt(st, s) == s \in st.recvd

\* The found flag of get_hashed_packet_commitment(port, channel, s): the
\* commitment is deleted when the packet is acknowledged.
HasCommitment(st, s) == st.sent[s] = "committed"

\* The found flag of get_hashed_packet_acknowledgement_commitment: the
\* acknowledgement is written when the packet is received.
HasAckCommitment(st, s) == s \in st.recvd

\* What query kind k should report about sequence s in handler state st:
\* a packet not yet received, an acknowledgement written, or a packet whose
\* commitment is still there (its acknowledgement not yet relayed back).
Reported(k, st, s) ==
    CASE k = "unreceived_packets" ->
            IF order = "ordered" THEN s >= st.nextRecv
                                 ELSE ~HasPacketReceipt(st, s)
      [] k = "acknowledgements" -> HasAckCommitment(st, s)
      [] k = "unreceived_acks"  -> HasCommitment(st, s)

-----------------------------------------------------------------------------
(* Other actors on the channel.                                            *)

\* Some relayer delivers incoming packet s (recv_packet): an ordered channel
\* accepts only next_sequence_recv, an unordered one any packet not yet
\* received.  The application writes its acknowledgement synchronously.
RecvPacket ==
    \E s \in Seqs \ recvd :
        /\ order = "ordered" => s = nextRecv
        /\ recvd' = recvd \cup {s}
        /\ nextRecv' = IF order = "ordered" THEN nextRecv + 1 ELSE nextRecv
        /\ UNCHANGED <<order, sent, queryVars>>

\* An application sends outgoing packet s (send_packet), in sequence order.
SendPacket ==
    \E s \in Seqs :
        /\ sent[s] = "unsent"
        /\ \A t \in 1..(s - 1) : sent[t] # "unsent"
        /\ sent' = [sent EXCEPT ![s] = "committed"]
        /\ UNCHANGED <<order, recvd, nextRecv, queryVars>>

\* Some relayer delivers the acknowledgement of outgoing packet s
\* (acknowledge_packet): its commitment is deleted.
AcknowledgePacket ==
    \E s \in Seqs :
        /\ sent[s] = "committed"
        /\ sent' = [sent EXCEPT ![s] = "acked"]
        /\ UNCHANGED <<order, recvd, nextRecv, queryVars>>

-----------------------------------------------------------------------------
(* The relayer's queries.                                                  *)

\* The requests the relayer makes: the counterparty's packet commitments
\* (for unreceived packets and acknowledgements), or the counterparty's
\* acknowledgements of packets this chain sent (for unreceived acks).
Requests(k) ==
    IF k = "unreceived_acks" THEN SUBSET {s \in Seqs : sent[s] # "unsent"}
                             ELSE SUBSET Seqs

\* The call starts.  query_unreceived_packets first reads the channel end;
\* the two other loop queries go straight to their loop.
StartLoopQuery ==
    /\ pc = "idle"
    /\ \E k \in LoopQueries : \E in \in Requests(k) :
         /\ q' = k
         /\ input' = in
         /\ todo' = in
         /\ pc' = IF k = "unreceived_packets" THEN "channel" ELSE "loop"
    /\ acc' = {}
    /\ outcome' = "none"
    /\ snap' = Handler
    /\ UNCHANGED <<handlerVars, bytes>>

\* query_channel(.., QueryHeight::Latest): an ordered channel goes on to
\* query_next_sequence_receive, an unordered one to the receipt loop.
ReadChannel ==
    /\ pc = "channel"
    /\ pc' = IF order = "ordered" THEN "next_seq" ELSE "loop"
    /\ UNCHANGED <<handlerVars, q, input, todo, acc, bytes, outcome, snap>>

\* Mutant: a packet whose sequence is next_sequence_recv counts as received.
ReadNextSequenceReceiveStrict ==
    /\ pc = "next_seq"
    /\ acc' = {s \in input : s > nextRecv}
    /\ pc' = "idle"
    /\ outcome' = "ok"
    /\ UNCHANGED <<handlerVars, q, input, todo, bytes, snap>>

\* Mutant: also reports the receive cursor itself.
ReadNextSequenceReceiveWithCursor ==
    /\ pc = "next_seq"
    /\ acc' = {s \in input : s >= nextRecv} \cup {nextRecv}
    /\ pc' = "idle"
    /\ outcome' = "ok"
    /\ UNCHANGED <<handlerVars, q, input, todo, bytes, snap>>

\* get_next_sequence_recvs, then keep the requested sequences >= it.
ReadNextSequenceReceive ==
    /\ pc = "next_seq"
    /\ acc' = {s \in input : s >= nextRecv}
    /\ pc' = "idle"
    /\ outcome' = "ok"
    /\ UNCHANGED <<handlerVars, q, input, todo, bytes, snap>>

\* Whether the loop of query k keeps sequence s, from the one contract call
\* it makes for s: !has_receipt, ack commitment found, commitment found.
Keeps(k, s) ==
    CASE k = "unreceived_packets" -> ~HasPacketReceipt(Handler, s)
      [] k = "acknowledgements"   -> HasAckCommitment(Handler, s)
      [] k = "unreceived_acks"    -> HasCommitment(Handler, s)

\* One iteration of the `for seq in ..` loop: one contract call at Latest.
\* The loop follows the order of the request's Vec, which the caller
\* builds; any order is allowed.
ReadSequence ==
    /\ pc = "loop"
    /\ \E s \in todo :
         /\ acc' = IF Keeps(q, s) THEN acc \cup {s} ELSE acc
         /\ todo' = todo \ {s}
    /\ UNCHANGED <<handlerVars, q, pc, input, bytes, outcome, snap>>

\* The loop is over: Ok(sequences).
ReturnSequences ==
    /\ pc = "loop"
    /\ todo = {}
    /\ pc' = "idle"
    /\ outcome' = "ok"
    /\ UNCHANGED <<handlerVars, q, input, todo, acc, bytes, snap>>

\* A contract call fails; map_err(convert_err)? returns the error.
RpcError ==
    /\ \/ pc \in {"channel", "next_seq"}
       \/ pc = "loop" /\ todo # {}
    /\ pc' = "idle"
    /\ outcome' = "error"
    /\ UNCHANGED <<handlerVars, q, input, todo, acc, bytes, snap>>

\* query_packet_commitment / query_packet_acknowledgement: one call at
\* Latest, `let (commitment, _) = ..`: the found flag is dropped and the
\* stored hash (zero bytes when there is no record) is returned.
QuerySingle ==
    /\ pc = "idle"
    /\ \E k \in SingleQueries, s \in Seqs :
         LET found == IF k = "commitment" THEN HasCommitment(Handler, s)
                                          ELSE HasAckCommitment(Handler, s)
         IN /\ q' = k
            /\ input' = {s}
            /\ bytes' = IF found THEN "hash" ELSE "zero"
            /\ \/ outcome' = "ok"
               \/ outcome' = "error"
    /\ todo' = {}
    /\ acc' = {}
    /\ snap' = Handler
    /\ UNCHANGED <<handlerVars, pc>>

-----------------------------------------------------------------------------
Init ==
    /\ order \in Orderings
    /\ recvd = {}
    /\ nextRecv = 1
    /\ sent = [s \in Seqs |-> "unsent"]
    /\ q = "unreceived_packets"
    /\ pc = "idle"
    /\ input = {}
    /\ todo = {}
    /\ acc = {}
    /\ bytes = "zero"
    /\ outcome = "none"
    /\ snap = HandlerState({}, 1, [s \in Seqs |-> "unsent"])

Next ==
    \/ RecvPacket
    \/ SendPacket
    \/ AcknowledgePacket
    \/ StartLoopQuery
    \/ ReadChannel
    \/ ReadNextSequenceReceive
    \/ ReadSequence
    \/ ReturnSequences
    \/ RpcError
    \/ QuerySingle

Spec == Init /\ [][Next]_vars

-----------------------------------------------------------------------------
(* Properties.                                                             *)

SentStates == {"unsent", "committed", "acked"}
HandlerStates == [recvd : SUBSET Seqs, nextRecv : 1..(MaxSeq + 1),
                  sent : [Seqs -> SentStates]]

TypeOK ==
    /\ order \in Orderings
    /\ Handler \in HandlerStates
    /\ q \in LoopQueries \cup SingleQueries
    /\ pc \in {"idle", "channel", "next_seq", "loop"}
    /\ input \in SUBSET Seqs
    /\ todo \in SUBSET input
    /\ acc \in SUBSET Seqs
    /\ bytes \in {"hash", "zero"}
    /\ outcome \in {"none", "ok", "error"}
    /\ snap \in HandlerStates

\* The sequences a query returned are right for every requested sequence
\* whose record did not change while the query ran: a packet that stayed
\* unreceived (or whose commitment stayed) is reported, one that was
\* already received (or acknowledged) is not.  The loops read one sequence
\* per RPC at Latest while other relayers act on the channel, and the
\* ordered branch compares with next_sequence_recv; this needs the
\* comparison to be >= and the receipts and commitments to change only
\* once.
ResultConsistent ==
    (q \in LoopQueries /\ pc = "idle" /\ outcome = "ok") =>
        \A s \in input :
            Reported(q, snap, s) = Reported(q, Handler, s) =>
                (s \in acc <=> Reported(q, Handler, s))

\* Spec sections 4.1 and 8: a query for a packet commitment (or an
\* acknowledgement) that does not exist returns NotFound; only a stored
\* record is returned as Ok bytes.
AbsentRecordIsNotFound ==
    (q \in SingleQueries /\ outcome = "ok") => bytes = "hash"

=============================================================================
