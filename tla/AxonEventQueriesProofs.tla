------------------------ MODULE AxonEventQueriesProofs ------------------------
(***************************************************************************)
(* Proofs about the event queries (AxonEventQueries) and the transfer      *)
(* helper composed with them (AxonTransferHelper), for every chain bound,  *)
(* set of clients, channels and sequences.                                 *)
(*                                                                         *)
(* The filters of the queries keep the logs at a set of indices K, in the  *)
(* order of their rank in K.  The first part proves what that gives: the   *)
(* rank maps K one-to-one and in order onto 1..Cardinality(K), so the j-th *)
(* kept log is the log of rank j, the kept logs come in chain order, every *)
(* index of K is kept once, and the first one kept is the least of K.      *)
(***************************************************************************)
EXTENDS AxonTransferHelper, FiniteSetTheorems, SequenceTheorems, TLAPS

-----------------------------------------------------------------------------
(* Ranks and subsequences.                                                 *)

\* An index of a set of indices of a list of n elements is in 1..n.
LEMMA IndexRange ==
    ASSUME NEW n \in Nat, NEW K \in SUBSET (1..n), NEW i \in K
    PROVE  i \in 1..n /\ i \in Nat
BY SMT

\* A set of indices of a list is finite, and so is every part of it.
LEMMA IndexSetFinite ==
    ASSUME NEW n \in Nat, NEW K \in SUBSET (1..n)
    PROVE  /\ IsFiniteSet(K)
           /\ Cardinality(K) \in Nat
<1>1. IsFiniteSet(1..n)
      BY FS_Interval
<1>2. IsFiniteSet(K)
      BY <1>1, FS_Subset
<1> QED BY <1>2, FS_CardinalityType

\* The rank of an index of K is between 1 and the size of K.
LEMMA RankRange ==
    ASSUME NEW n \in Nat, NEW K \in SUBSET (1..n), NEW i \in K
    PROVE  Rank(K, i) \in 1..Cardinality(K)
<1> DEFINE B == {k \in K : k <= i}
<1>1. IsFiniteSet(K) /\ Cardinality(K) \in Nat
      BY IndexSetFinite
<1>2. IsFiniteSet(B) /\ Cardinality(B) <= Cardinality(K)
      BY <1>1, FS_Subset DEF B
<1>3. Cardinality(B) \in Nat
      BY <1>2, FS_CardinalityType
<1>4. Cardinality(B) # 0
      <2>1. i \in B
            BY DEF B
      <2> QED BY <1>2, <2>1, FS_EmptySet
<1> QED BY <1>1, <1>2, <1>3, <1>4 DEF Rank, B

\* A larger index of K has a larger rank.
LEMMA RankStrict ==
    ASSUME NEW n \in Nat, NEW K \in SUBSET (1..n), NEW i \in K, NEW m \in K,
           i < m
    PROVE  Rank(K, i) < Rank(K, m)
<1> DEFINE A == {k \in K : k <= i}
           B == {k \in K : k <= m}
<1>1. IsFiniteSet(K)
      BY IndexSetFinite
<1>0. i \in Nat /\ m \in Nat /\ \A k \in K : k \in Nat
      BY IndexRange
<1>2. A \subseteq B /\ m \in B /\ m \notin A
      <2>1. A \subseteq B
            <3> SUFFICES ASSUME NEW k \in K, k <= i PROVE k <= m
                BY DEF A, B
            <3> QED BY <1>0
      <2>2. m \in B
            <3> m <= m BY <1>0
            <3> QED BY DEF B
      <2>3. m \notin A
            <3> ~(m <= i) BY <1>0
            <3> QED BY DEF A
      <2> QED BY <2>1, <2>2, <2>3
<1>3. IsFiniteSet(B)
      BY <1>1, FS_Subset DEF B
<1>4. Cardinality(A) <= Cardinality(B) /\ Cardinality(A) # Cardinality(B)
      BY <1>2, <1>3, FS_Subset
<1>5. Cardinality(A) \in Nat /\ Cardinality(B) \in Nat
      BY <1>1, <1>2, <1>3, FS_Subset, FS_CardinalityType
<1> QED BY <1>4, <1>5 DEF Rank, A, B

\* Two indices of K with the same rank are the same index.
LEMMA RankInjective ==
    ASSUME NEW n \in Nat, NEW K \in SUBSET (1..n), NEW i \in K, NEW m \in K,
           Rank(K, i) = Rank(K, m)
    PROVE  i = m
<1>0. Rank(K, i) \in Nat /\ Rank(K, m) \in Nat
      <2>1. Cardinality(K) \in Nat
            BY IndexSetFinite
      <2>2. Rank(K, i) \in 1..Cardinality(K)
            BY RankRange
      <2>3. Rank(K, m) \in 1..Cardinality(K)
            BY RankRange
      <2> QED BY <2>1, <2>2, <2>3
<1>9. i \in Nat /\ m \in Nat
      BY IndexRange
<1>1. CASE i < m
      <2>1. Rank(K, i) < Rank(K, m)
            BY <1>1, RankStrict
      <2> QED BY <1>0, <2>1
<1>2. CASE m < i
      <2>1. Rank(K, m) < Rank(K, i)
            BY <1>2, RankStrict
      <2> QED BY <1>0, <2>1
<1> QED BY <1>1, <1>2, <1>9

\* Every rank in 1..Cardinality(K) is the rank of an index of K.
LEMMA RankOnto ==
    ASSUME NEW n \in Nat, NEW K \in SUBSET (1..n),
           NEW j \in 1..Cardinality(K)
    PROVE  \E i \in K : Rank(K, i) = j
<1> DEFINE c == Cardinality(K)
           f == [i \in K |-> Rank(K, i)]
<1>1. c \in Nat
      BY IndexSetFinite
<1>2. f \in [K -> 1..c]
      BY RankRange
<1>3. f \in Injection(K, 1..c)
      BY <1>2, RankInjective DEF Injection, IsInjective
<1>4. IsFiniteSet(1..c) /\ Cardinality(1..c) = c
      BY <1>1, FS_Interval
<1>5. f \in Surjection(K, 1..c)
      BY <1>3, <1>4, FS_Injection
<1> QED BY <1>5 DEF Surjection

\* The index of rank j is in K and has rank j.
LEMMA NthFacts ==
    ASSUME NEW n \in Nat, NEW K \in SUBSET (1..n),
           NEW j \in 1..Cardinality(K)
    PROVE  /\ Nth(K, j) \in K
           /\ Rank(K, Nth(K, j)) = j
BY RankOnto DEF Nth

\* Every index of K is the index of its own rank.
LEMMA NthOfRank ==
    ASSUME NEW n \in Nat, NEW K \in SUBSET (1..n), NEW i \in K
    PROVE  Nth(K, Rank(K, i)) = i
<1>1. Rank(K, i) \in 1..Cardinality(K)
      BY RankRange
<1>2. Nth(K, Rank(K, i)) \in K /\ Rank(K, Nth(K, Rank(K, i))) = Rank(K, i)
      BY <1>1, NthFacts
<1> QED BY <1>2, RankInjective

\* The indices of K come in their order.
LEMMA NthMonotone ==
    ASSUME NEW n \in Nat, NEW K \in SUBSET (1..n),
           NEW j \in 1..Cardinality(K), NEW m \in 1..Cardinality(K), j < m
    PROVE  Nth(K, j) < Nth(K, m)
<1>1. Nth(K, j) \in K /\ Rank(K, Nth(K, j)) = j
      BY NthFacts
<1>2. Nth(K, m) \in K /\ Rank(K, Nth(K, m)) = m
      BY NthFacts
<1>0. Cardinality(K) \in Nat
      BY IndexSetFinite
<1>9. Nth(K, j) \in Nat /\ Nth(K, m) \in Nat
      BY <1>1, <1>2, IndexRange
<1>3. ~(Nth(K, m) <= Nth(K, j))
      <2>1. CASE Nth(K, m) = Nth(K, j)
            BY <1>0, <1>1, <1>2, <2>1
      <2>2. CASE Nth(K, m) < Nth(K, j)
            <3>1. Rank(K, Nth(K, m)) < Rank(K, Nth(K, j))
                  BY <1>1, <1>2, <2>2, RankStrict
            <3> QED BY <1>0, <1>1, <1>2, <3>1
      <2> QED BY <1>9, <2>1, <2>2
<1> QED BY <1>9, <1>3

\* The index of rank 1 in a non-empty K is its least element.
LEMMA NthOneIsLeast ==
    ASSUME NEW n \in Nat, NEW K \in SUBSET (1..n), K # {}
    PROVE  /\ 1 \in 1..Cardinality(K)
           /\ Nth(K, 1) \in K
           /\ \A k \in K : Nth(K, 1) <= k
<1>0. Cardinality(K) \in Nat
      BY IndexSetFinite
<1>1. PICK i \in K : TRUE
      OBVIOUS
<1>2. Rank(K, i) \in 1..Cardinality(K)
      BY RankRange
<1>3. 1 \in 1..Cardinality(K)
      BY <1>0, <1>2
<1>4. Nth(K, 1) \in K /\ Rank(K, Nth(K, 1)) = 1
      BY <1>3, NthFacts
<1>5. ASSUME NEW k \in K, k < Nth(K, 1) PROVE FALSE
      <2>1. Rank(K, k) < 1
            BY <1>4, <1>5, RankStrict
      <2>2. Rank(K, k) \in 1..Cardinality(K)
            BY RankRange
      <2> QED BY <1>0, <2>1, <2>2
<1>6. Nth(K, 1) \in Nat /\ \A k \in K : k \in Nat
      BY <1>4, IndexRange
<1> QED BY <1>3, <1>4, <1>5, <1>6

\* The subsequence at K is a list of Cardinality(K) elements, the j-th the
\* element of s at the index of rank j.
LEMMA SubSeqAtFacts ==
    ASSUME NEW S, NEW s \in Seq(S), NEW K \in SUBSET (1..Len(s))
    PROVE  /\ SubSeqAt(s, K) \in Seq(S)
           /\ Len(SubSeqAt(s, K)) = Cardinality(K)
           /\ \A j \in 1..Cardinality(K) : SubSeqAt(s, K)[j] = s[Nth(K, j)]
<1>1. Len(s) \in Nat
      BY LenProperties
<1>2. Cardinality(K) \in Nat
      BY <1>1, IndexSetFinite
<1>3. \A j \in 1..Cardinality(K) : s[Nth(K, j)] \in S
      BY <1>1, NthFacts, LenProperties
<1>4. SubSeqAt(s, K) \in Seq(S)
      BY <1>2, <1>3, IsASeq DEF SubSeqAt
<1>5. Len(SubSeqAt(s, K)) = Cardinality(K)
      BY <1>2, <1>4, LenProperties DEF SubSeqAt
<1> QED BY <1>4, <1>5 DEF SubSeqAt

\* The index i of K is kept, at its rank.
LEMMA KeptAtRank ==
    ASSUME NEW S, NEW s \in Seq(S), NEW K \in SUBSET (1..Len(s)), NEW i \in K
    PROVE  /\ Rank(K, i) \in 1..Len(SubSeqAt(s, K))
           /\ SubSeqAt(s, K)[Rank(K, i)] = s[i]
<1>1. Len(s) \in Nat
      BY LenProperties
<1>2. Rank(K, i) \in 1..Cardinality(K)
      BY <1>1, RankRange
<1>3. Nth(K, Rank(K, i)) = i
      BY <1>1, NthOfRank
<1> QED BY <1>2, <1>3, SubSeqAtFacts

\* Nothing kept is the empty list.
LEMMA SubSeqAtEmpty ==
    ASSUME NEW s
    PROVE  SubSeqAt(s, {}) = << >>
<1>1. Cardinality({}) = 0
      BY FS_EmptySet
<1> QED BY <1>1 DEF SubSeqAt

\* One index kept is the list of its element.
LEMMA SubSeqAtSingleton ==
    ASSUME NEW S, NEW s \in Seq(S), NEW k \in 1..Len(s)
    PROVE  SubSeqAt(s, {k}) = << s[k] >>
<1>1. Len(s) \in Nat
      BY LenProperties
<1>2. Cardinality({k}) = 1
      BY FS_Singleton
<1>3. Rank({k}, k) = 1
      <2>1. {x \in {k} : x <= k} = {k}
            BY <1>1
      <2> QED BY <2>1, <1>2 DEF Rank
<1>4. Nth({k}, 1) = k
      BY <1>3 DEF Nth
<1>5. SubSeqAt(s, {k}) = [j \in 1..1 |-> s[k]]
      <2>1. SubSeqAt(s, {k}) = [j \in 1..1 |-> s[Nth({k}, j)]]
            BY <1>2 DEF SubSeqAt
      <2>2. \A j \in 1..1 : Nth({k}, j) = k
            BY <1>4
      <2> QED BY <2>1, <2>2
<1>6. [j \in 1..1 |-> s[k]] = << s[k] >>
      OBVIOUS
<1> QED BY <1>5, <1>6

-----------------------------------------------------------------------------
(* The invariants of the helper's composition.                             *)

\* The logs the chain holds: handler events, application logs and the
\* escrow's ERC-20 log, at a block, converting or not.
LogRec ==
    [addr : Addresses, kind : Kinds \cup {"erc20_transfer"}, block : Nat,
     client : Clients \cup {NoClient}, packet : Packets \cup {NoPacket},
     ok : BOOLEAN]

\* The type invariant of the chain and of ibc_token_transfer's progress.
HelperTypeOK ==
    /\ tip \in Nat
    /\ logs \in Seq(LogRec)
    /\ hpc \in {"start", "approve", "transfer", "done", "error", "panicked"}
    /\ hblock \in Nat

\* The inductive invariant behind TransferredPacketIsQueryable: no log is
\* of a block past the tip, so the sendTransfer receipt is the only
\* content of its block (EmitLog never writes to the transfer's block);
\* and once the helper returned Ok(packet) its SendPacket log is on chain
\* and converts, which the helper checked on the receipt.
HelperInv ==
    /\ HelperTypeOK
    /\ \A i \in 1..Len(logs) : logs[i].block <= tip
    /\ hpc = "done" => /\ TransferLog # {}
                       /\ \A i \in TransferLog : logs[i].ok

-----------------------------------------------------------------------------
(* The queries, in every state whose logs are a list of log records.       *)

\* The indices of the logs query_packet_events keeps for req.
PacketKept(req) ==
    {i \in 1..Len(logs) :
        /\ logs[i].addr = "handler"
        /\ InRange(logs[i], req.qual)
        /\ logs[i].kind = req.kind
        /\ logs[i].kind \in PacketKinds => PacketFilter(logs[i].packet, req)
        /\ logs[i].ok}

\* query_packet_events returns the converted logs at PacketKept(req), in
\* rank order, and each of them is one the request asks for.
LEMMA PacketEventsAtKept ==
    ASSUME logs \in Seq(LogRec), NEW req \in PacketRequests
    PROVE  LET K == PacketKept(req)
               evs == QueryPacketEvents(req).events
           IN  /\ Len(logs) \in Nat
               /\ K \subseteq Requested(req)
               /\ Len(evs) = Cardinality(K)
               /\ \A j \in 1..Cardinality(K) : evs[j] = AsEvent(logs[Nth(K, j)])
<1> DEFINE K == PacketKept(req)
           kept == SubSeqAt(logs, K)
           evs == QueryPacketEvents(req).events
<1>1. Len(logs) \in Nat /\ K \subseteq 1..Len(logs)
      BY LenProperties DEF PacketKept
<1>2. evs = [j \in 1..Len(kept) |-> AsEvent(kept[j])]
      BY DEF QueryPacketEvents, Keep, PacketKept
<1>3. /\ Len(kept) = Cardinality(K)
      /\ \A j \in 1..Cardinality(K) : kept[j] = logs[Nth(K, j)]
      BY <1>1, SubSeqAtFacts
<1>4. Cardinality(K) \in Nat
      BY <1>1, IndexSetFinite
<1>5. Len(evs) = Cardinality(K)
      <2>1. evs \in Seq(UNION {{AsEvent(kept[j])} : j \in 1..Len(kept)})
            BY <1>2, <1>3, <1>4, IsASeq
      <2> QED BY <1>2, <1>3, <1>4, <2>1, LenProperties
<1>6. K \subseteq Requested(req)
      BY DEF PacketKept, Requested, PacketFilter
<1> QED BY <1>1, <1>2, <1>3, <1>5, <1>6

\* PacketEventsSatisfyFilter holds of every list of logs: the witness maps
\* the j-th event to the index of rank j among the kept logs.
LEMMA PacketEventsSatisfyFilterOfLogs ==
    ASSUME logs \in Seq(LogRec)
    PROVE  PacketEventsSatisfyFilter
<1> SUFFICES ASSUME NEW req \in PacketRequests
             PROVE  LET evs == QueryPacketEvents(req).events
                    IN  \E f \in [1..Len(evs) -> Requested(req)] :
                          \A j \in 1..Len(evs) :
                             /\ evs[j] = AsEvent(logs[f[j]])
                             /\ \A k \in 1..(j - 1) : f[k] < f[j]
      BY DEF PacketEventsSatisfyFilter
<1> DEFINE K == PacketKept(req)
           evs == QueryPacketEvents(req).events
           f == [j \in 1..Len(evs) |-> Nth(K, j)]
<1>1. /\ Len(logs) \in Nat
      /\ K \subseteq Requested(req)
      /\ Len(evs) = Cardinality(K)
      /\ \A j \in 1..Cardinality(K) : evs[j] = AsEvent(logs[Nth(K, j)])
      BY PacketEventsAtKept
<1>2. K \subseteq 1..Len(logs)
      BY DEF PacketKept
<1>3. f \in [1..Len(evs) -> Requested(req)]
      <2>1. \A j \in 1..Cardinality(K) : Nth(K, j) \in K
            BY <1>1, <1>2, NthFacts
      <2> QED BY <1>1, <2>1
<1>4. ASSUME NEW j \in 1..Len(evs), NEW k \in 1..(j - 1)
      PROVE  f[k] < f[j]
      <2>1. Cardinality(K) \in Nat
            BY <1>1, <1>2, IndexSetFinite
      <2>2. k \in 1..Cardinality(K) /\ j \in 1..Cardinality(K) /\ k < j
            BY <1>1, <2>1
      <2> QED BY <1>1, <1>2, <2>2, NthMonotone
<1> QED BY <1>1, <1>3, <1>4

\* The query for a client update returns the first UpdateClient log of the
\* client in the block, read from the logs of every list of logs.
LEMMA ClientEventIsFirstMatchOfLogs ==
    ASSUME tip \in Nat, logs \in Seq(LogRec)
    PROVE  ClientEventIsFirstMatch
<1> SUFFICES ASSUME NEW c \in Clients, NEW h \in 1..(MaxHeight + 1)
             PROVE  LET ans == QueryClientEvent(c, h)
                        hits == {i \in 1..Len(logs) :
                                    /\ logs[i].addr = "handler"
                                    /\ logs[i].block = h
                                    /\ logs[i].kind = "update_client"
                                    /\ logs[i].client = c}
                    IN  ans.ok =>
                          IF h <= tip /\ hits # {}
                            THEN ans.events =
                                   <<AsEvent(logs[CHOOSE i \in hits :
                                                    \A k \in hits : i <= k])>>
                            ELSE ans.events = <<>>
      BY DEF ClientEventIsFirstMatch, ClientRequests
<1> DEFINE hits == {i \in 1..Len(logs) :
                       /\ logs[i].addr = "handler"
                       /\ logs[i].block = h
                       /\ logs[i].kind = "update_client"
                       /\ logs[i].client = c}
           matching == SubSeqAt(logs, hits)
           ans == QueryClientEvent(c, h)
           least == CHOOSE i \in hits : \A k \in hits : i <= k
<1> SUFFICES IF h <= tip /\ hits # {}
               THEN ans.events = <<AsEvent(logs[least])>>
               ELSE ans.events = <<>>
      OBVIOUS
<1>0. Len(logs) \in Nat /\ hits \subseteq 1..Len(logs) /\ h \in Nat
      BY LenProperties, MaxHeightAssumption
<1>1. Collect(<<>>).events = <<>>
      BY DEF Collect
<1>2. CASE ~(h <= tip)
      <2>1. ans = Collect(<<>>)
            BY <1>0, <1>2 DEF QueryClientEvent
      <2> QED BY <1>1, <1>2, <2>1
<1>3. CASE h <= tip /\ hits = {}
      <2>1. matching = <<>>
            BY <1>3, SubSeqAtEmpty
      <2>2. ans = Collect(<<>>)
            BY <1>0, <1>3, <2>1 DEF QueryClientEvent, Keep, ClientMatches
      <2> QED BY <1>1, <1>3, <2>2
<1>4. CASE h <= tip /\ hits # {}
      <2> DEFINE first == Nth(hits, 1)
      <2>1. /\ 1 \in 1..Cardinality(hits)
            /\ first \in hits
            /\ \A k \in hits : first <= k
            BY <1>0, <1>4, NthOneIsLeast
      <2>2. Len(matching) = Cardinality(hits) /\ matching[1] = logs[first]
            BY <1>0, <2>1, SubSeqAtFacts
      <2>3. matching # <<>> /\ Head(matching) = logs[first]
            BY <2>1, <2>2
      <2>4. ans = Collect(<<logs[first]>>)
            BY <1>0, <1>4, <2>3 DEF QueryClientEvent, Keep, ClientMatches
      <2>5. Collect(<<logs[first]>>).events = <<AsEvent(logs[first])>>
            BY DEF Collect
      <2>6. least = first
            <3>1. \A i \in hits : (\A k \in hits : i <= k) => i = first
                  BY <1>0, <2>1
            <3> QED BY <2>1, <3>1 DEF least
      <2> QED BY <1>4, <2>4, <2>5, <2>6
<1> QED BY <1>2, <1>3, <1>4

-----------------------------------------------------------------------------
(* The transfer helper.                                                    *)

\* The logs a transaction emits are log records of its block.
LEMMA LogsAtType ==
    ASSUME NEW b \in Nat
    PROVE  \A l \in LogsAt(b) : l \in LogRec /\ l.block = b
BY ConvertibleAssumption DEF LogsAt, LogRec, Kinds, ClientKinds, PacketKinds,
                             Packets, NoPacket, Addresses

\* The escrow's ERC-20 log is an application log of its block.
LEMMA Erc20LogType ==
    ASSUME NEW b \in Nat
    PROVE  /\ Erc20Log(b) \in LogRec
           /\ Erc20Log(b).block = b
           /\ Erc20Log(b).addr = "app"
BY DEF Erc20Log, LogRec, NoPacket, Addresses

\* A sendTransfer receipt is empty, or the escrow log then the handler's
\* SendPacket log of a packet, which converts or not.
LEMMA TransferReceiptCases ==
    ASSUME NEW b \in Nat, NEW r \in TransferReceipts(b)
    PROVE  \/ r = << >>
           \/ \E p \in Packets, c \in BOOLEAN :
                 r = << Erc20Log(b),
                        [addr |-> "handler", kind |-> "send_packet",
                         block |-> b, client |-> NoClient, packet |-> p,
                         ok |-> c] >>
<1>1. SrcChannel \in Channels /\ DstChannel \in Channels
      BY ChannelsAssumption
<1> QED BY <1>1, TransferConvertibleAssumption DEF TransferReceipts, Packets

\* Once the helper returned Ok(packet), every request that asks for the
\* packet's SendPacket log gets it from query_packet_events.
LEMMA QueryableOfInv ==
    ASSUME HelperInv
    PROVE  TransferredPacketIsQueryable
<1> SUFFICES ASSUME hpc = "done"
             PROVE  /\ TransferLog # {}
                    /\ \A req \in PacketRequests, i \in TransferLog :
                         i \in Requested(req) =>
                           \E j \in 1..Len(QueryPacketEvents(req).events) :
                              QueryPacketEvents(req).events[j] = AsEvent(logs[i])
      BY DEF TransferredPacketIsQueryable
<1>1. logs \in Seq(LogRec) /\ TransferLog # {} /\ \A i \in TransferLog : logs[i].ok
      BY DEF HelperInv, HelperTypeOK
<1>2. ASSUME NEW req \in PacketRequests, NEW i \in TransferLog,
             i \in Requested(req)
      PROVE  \E j \in 1..Len(QueryPacketEvents(req).events) :
                QueryPacketEvents(req).events[j] = AsEvent(logs[i])
      <2> DEFINE K == PacketKept(req)
                 evs == QueryPacketEvents(req).events
      <2>1. /\ Len(logs) \in Nat
            /\ Len(evs) = Cardinality(K)
            /\ \A j \in 1..Cardinality(K) : evs[j] = AsEvent(logs[Nth(K, j)])
            BY <1>1, PacketEventsAtKept
      <2>2. i \in K
            BY <1>1, <1>2 DEF PacketKept, Requested, PacketFilter
      <2>3. K \subseteq 1..Len(logs)
            BY DEF PacketKept
      <2>4. Rank(K, i) \in 1..Cardinality(K) /\ Nth(K, Rank(K, i)) = i
            BY <2>1, <2>2, <2>3, RankRange, NthOfRank
      <2> QED BY <2>1, <2>4
<1> QED BY <1>1, <1>2

\* The blocks of a list of log records are numbers.
LEMMA LogBlocksNat ==
    ASSUME NEW ls \in Seq(LogRec)
    PROVE  \A k \in 1..Len(ls) : ls[k] \in LogRec /\ ls[k].block \in Nat
<1>1. \A k \in 1..Len(ls) : ls[k] \in LogRec
      BY LenProperties
<1> QED BY <1>1 DEF LogRec

\* The helper starts with an empty chain at block 1.
LEMMA HelperInvInit ==
    ASSUME HelperInit
    PROVE  HelperInv
BY DEF HelperInit, Init, HelperInv, HelperTypeOK

\* A step that leaves the logs, hpc, hblock and hresult alone and does not
\* lower the tip keeps the invariant.
LEMMA HelperInvFrame ==
    ASSUME HelperInv, tip' \in Nat, tip' >= tip,
           UNCHANGED <<logs, hpc, hblock, hresult>>
    PROVE  HelperInv'
<1>1. /\ tip \in Nat /\ logs \in Seq(LogRec)
      /\ \A i \in 1..Len(logs) : logs[i].block <= tip
      BY DEF HelperInv, HelperTypeOK
<1>2. \A i \in 1..Len(logs) : logs[i].block \in Nat
      BY <1>1, LogBlocksNat
<1>3. \A i \in 1..Len(logs') : logs'[i].block <= tip'
      BY <1>1, <1>2
<1>4. TransferLog' = TransferLog
      BY DEF TransferLog
<1> QED BY <1>1, <1>3, <1>4 DEF HelperInv, HelperTypeOK

\* A sendTransfer receipt of the block after t is a list of log records of
\* that block; appended to logs of blocks up to t, it gives log records of
\* blocks up to t + 1, the old ones at their indices and the receipt's after.
LEMMA ReceiptAppended ==
    ASSUME NEW t \in Nat, NEW ls \in Seq(LogRec),
           \A i \in 1..Len(ls) : ls[i].block <= t,
           NEW r \in TransferReceipts(t + 1)
    PROVE  /\ r \in Seq(LogRec)
           /\ \A k \in 1..Len(r) : r[k].block = t + 1
           /\ ls \o r \in Seq(LogRec)
           /\ Len(ls \o r) = Len(ls) + Len(r)
           /\ \A k \in 1..Len(ls \o r) :
                 (ls \o r)[k] = IF k <= Len(ls) THEN ls[k] ELSE r[k - Len(ls)]
           /\ \A k \in 1..Len(ls \o r) : (ls \o r)[k].block <= t + 1
<1>1. /\ r \in Seq(LogRec)
      /\ \A k \in 1..Len(r) : r[k].block = t + 1
      <2>1. CASE r = << >>
            BY <2>1
      <2>2. CASE r # << >>
            <3>1. PICK p \in Packets, c \in BOOLEAN :
                    r = << Erc20Log(t + 1),
                           [addr |-> "handler", kind |-> "send_packet",
                            block |-> t + 1, client |-> NoClient,
                            packet |-> p, ok |-> c] >>
                  BY <2>2, TransferReceiptCases
            <3>2. Erc20Log(t + 1) \in LogRec /\ Erc20Log(t + 1).block = t + 1
                  BY Erc20LogType
            <3> QED BY <3>1, <3>2 DEF LogRec, Addresses, Kinds, PacketKinds
      <2> QED BY <2>1, <2>2
<1>2. /\ ls \o r \in Seq(LogRec)
      /\ Len(ls \o r) = Len(ls) + Len(r)
      /\ \A k \in 1..Len(ls \o r) :
            (ls \o r)[k] = IF k <= Len(ls) THEN ls[k] ELSE r[k - Len(ls)]
      BY <1>1, ConcatProperties
<1>3. ASSUME NEW k \in 1..Len(ls \o r)
      PROVE  (ls \o r)[k].block <= t + 1
      <2>1. Len(ls) \in Nat /\ Len(r) \in Nat
            BY <1>1, LenProperties
      <2>2. \A i \in 1..Len(ls) : ls[i].block \in Nat
            BY LogBlocksNat
      <2>3. CASE k <= Len(ls)
            BY <1>2, <2>1, <2>2, <2>3
      <2>4. CASE ~(k <= Len(ls))
            <3>1. k - Len(ls) \in 1..Len(r)
                  BY <1>2, <2>1, <2>4
            <3> QED BY <1>1, <1>2, <2>4, <3>1
      <2> QED BY <2>3, <2>4
<1> QED BY <1>1, <1>2, <1>3

\* A step of the helper that returns no packet: the chain is left alone,
\* or grows by a receipt of the next block.
LEMMA HelperInvNotDone ==
    ASSUME HelperInv, hpc' \in {"approve", "transfer", "error", "panicked"},
           hblock' \in Nat,
           \/ UNCHANGED <<tip, logs>>
           \/ /\ tip' = tip + 1
              /\ \E r \in TransferReceipts(tip + 1) : logs' = logs \o r
    PROVE  HelperInv'
<1>1. tip \in Nat /\ logs \in Seq(LogRec) /\ \A i \in 1..Len(logs) : logs[i].block <= tip
      BY DEF HelperInv, HelperTypeOK
<1>2. CASE UNCHANGED <<tip, logs>>
      BY <1>2 DEF HelperInv, HelperTypeOK
<1>3. CASE /\ tip' = tip + 1
           /\ \E r \in TransferReceipts(tip + 1) : logs' = logs \o r
      <2>1. PICK r \in TransferReceipts(tip + 1) : logs' = logs \o r
            BY <1>3
      <2>2. logs' \in Seq(LogRec) /\ \A k \in 1..Len(logs') : logs'[k].block <= tip'
            BY <1>1, <1>3, <2>1, ReceiptAppended
      <2> QED BY <1>1, <1>3, <2>2 DEF HelperInv, HelperTypeOK
<1> QED BY <1>2, <1>3

\* A log of the current block, emitted while the tip is not the transfer's
\* block, is of none of the transfer's logs.
LEMMA HelperInvEmit ==
    ASSUME HelperInv, EmitLog, tip # hblock, UNCHANGED helperVars
    PROVE  HelperInv'
<1>1. tip \in Nat /\ logs \in Seq(LogRec) /\ \A i \in 1..Len(logs) : logs[i].block <= tip
      BY DEF HelperInv, HelperTypeOK
<1>2. PICK l \in LogsAt(tip) : logs' = Append(logs, l)
      BY DEF EmitLog
<1>3. l \in LogRec /\ l.block = tip
      BY <1>1, LogsAtType
<1>4. /\ logs' \in Seq(LogRec)
      /\ Len(logs') = Len(logs) + 1
      /\ \A k \in 1..Len(logs') : logs'[k] = IF k <= Len(logs) THEN logs[k] ELSE l
      BY <1>1, <1>2, <1>3, AppendProperties
<1>5. Len(logs) \in Nat /\ \A k \in 1..Len(logs) : logs[k].block \in Nat
      BY <1>1, LenProperties, LogBlocksNat
<1>6. \A k \in 1..Len(logs') : logs'[k].block <= tip'
      BY <1>1, <1>3, <1>4, <1>5 DEF EmitLog
<1>7. TransferLog' = TransferLog
      <2>1. Len(logs) + 1 \notin TransferLog'
            BY <1>3, <1>4, <1>5 DEF TransferLog, helperVars
      <2> QED BY <1>4, <1>5, <2>1 DEF TransferLog, helperVars
<1>8. tip' = tip /\ hpc' = hpc /\ hblock' = hblock
      BY DEF EmitLog, helperVars
<1>9. hpc = "done" => /\ TransferLog' # {}
                      /\ \A i \in TransferLog' : logs'[i].ok
      <2>1. \A i \in TransferLog : i \in 1..Len(logs) /\ logs'[i] = logs[i]
            BY <1>4, <1>5 DEF TransferLog
      <2> QED BY <1>7, <2>1 DEF HelperInv
<1> QED BY <1>1, <1>4, <1>6, <1>8, <1>9 DEF HelperInv, HelperTypeOK

\* sendTransfer included in the next block returns Ok(packet) only for a
\* receipt whose SendPacket log converts, and that log is the transfer's.
LEMMA HelperInvSendTransfer ==
    ASSUME HelperInv, SendTransfer
    PROVE  HelperInv'
<1>1. tip \in Nat /\ logs \in Seq(LogRec) /\ \A i \in 1..Len(logs) : logs[i].block <= tip
      BY DEF HelperInv, HelperTypeOK
<1>2. PICK r \in TransferReceipts(tip + 1) :
        /\ logs' = logs \o r
        /\ LET evs == FetchAllIbcEventsFromTxLogs(IbcLogs(r))
               n == FindSendPacket(evs.events)
           IN  IF evs.ok /\ n # 0
                 THEN hpc' = "done" /\ hresult' = evs.events[n].packet
                 ELSE hpc' = "error" /\ hresult' = NoPacket
      BY DEF SendTransfer
<1>3. tip' = tip + 1 /\ hblock' = tip + 1
      BY DEF SendTransfer
<1>4. CASE hpc' = "error"
      BY <1>1, <1>2, <1>3, <1>4, HelperInvNotDone
<1>5. CASE hpc' # "error"
      <2>1. r # << >>
            <3>1. SUFFICES ASSUME r = << >> PROVE FALSE
                  OBVIOUS
            <3>2. IbcLogs(r) = << >>
                  <4>1. {i \in 1..Len(r) : r[i].addr = "handler"} = {}
                        BY <3>1
                  <4> QED BY <4>1, SubSeqAtEmpty DEF IbcLogs, Keep
            <3>3. FindSendPacket(FetchAllIbcEventsFromTxLogs(IbcLogs(r)).events) = 0
                  BY <3>2 DEF FetchAllIbcEventsFromTxLogs, Collect, FindSendPacket
            <3> QED BY <1>2, <1>5, <3>3
      <2>2. PICK p \in Packets, c \in BOOLEAN :
              r = << Erc20Log(tip + 1),
                     [addr |-> "handler", kind |-> "send_packet",
                      block |-> tip + 1, client |-> NoClient,
                      packet |-> p, ok |-> c] >>
            BY <1>1, <2>1, TransferReceiptCases
      <2> DEFINE tl == r[2]
      <2>3. Erc20Log(tip + 1).addr = "app"
            BY <1>1, Erc20LogType
      <2>4. IbcLogs(r) = << tl >>
            <3>1. {i \in 1..Len(r) : r[i].addr = "handler"} = {2}
                  BY <2>2, <2>3
            <3>2. r \in Seq(LogRec) /\ 2 \in 1..Len(r)
                  <4>1. r \in Seq(LogRec)
                        BY <1>1, ReceiptAppended
                  <4>2. Len(r) = 2
                        BY <2>2
                  <4> QED BY <4>1, <4>2
            <3> QED BY <3>1, <3>2, SubSeqAtSingleton DEF IbcLogs, Keep
      <2>5. FetchAllIbcEventsFromTxLogs(IbcLogs(r)) =
              [ok |-> tl.ok, events |-> << AsEvent(tl) >>]
            <3>1. tl.ok = c /\ c \in BOOLEAN
                  BY <2>2
            <3>2. (\A i \in 1..1 : << tl >>[i].ok) = tl.ok
                  <4>1. \A i \in 1..1 : << tl >>[i] = tl
                        OBVIOUS
                  <4>2. (\A i \in 1..1 : << tl >>[i].ok) <=> tl.ok
                        BY <4>1
                  <4> QED BY <3>1, <4>2, Zenon
            <3>3. [i \in 1..1 |-> AsEvent(<< tl >>[i])] = << AsEvent(tl) >>
                  OBVIOUS
            <3> QED BY <2>4, <3>2, <3>3 DEF FetchAllIbcEventsFromTxLogs, Collect
      <2>6. FindSendPacket(<< AsEvent(tl) >>) = 1
            BY <2>2 DEF FindSendPacket, AsEvent
      <2>7. hpc' = "done" /\ c = TRUE /\ hresult' = p
            BY <1>2, <1>5, <2>2, <2>5, <2>6 DEF AsEvent
      <2>8. /\ logs' \in Seq(LogRec)
            /\ Len(logs') = Len(logs) + 2
            /\ \A k \in 1..Len(logs') :
                  logs'[k] = IF k <= Len(logs) THEN logs[k] ELSE r[k - Len(logs)]
            /\ \A k \in 1..Len(logs') : logs'[k].block <= tip'
            BY <1>1, <1>2, <1>3, <2>2, ReceiptAppended
      <2>9. Len(logs) \in Nat /\ \A k \in 1..Len(logs) : logs[k].block \in Nat
            BY <1>1, LenProperties, LogBlocksNat
      <2>10. Len(logs) + 2 \in TransferLog'
             BY <1>3, <2>2, <2>7, <2>8, <2>9 DEF TransferLog
      <2>11. \A k \in TransferLog' : logs'[k].ok
             <3> SUFFICES ASSUME NEW k \in TransferLog' PROVE logs'[k].ok
                 OBVIOUS
             <3>1. k \in 1..Len(logs') /\ logs'[k].addr = "handler"
                   /\ logs'[k].block = tip + 1
                   BY <1>3 DEF TransferLog
             <3>2. ~(k <= Len(logs))
                   BY <1>1, <2>8, <2>9, <3>1
             <3>3. k # Len(logs) + 1
                   BY <2>2, <2>3, <2>8, <2>9, <3>1
             <3>4. k = Len(logs) + 2
                   BY <2>8, <2>9, <3>1, <3>2, <3>3
             <3> QED BY <2>2, <2>7, <2>8, <2>9, <3>4
      <2> QED BY <1>3, <2>7, <2>8, <2>10, <2>11 DEF HelperInv, HelperTypeOK
<1> QED BY <1>4, <1>5

\* Every step of the chain and of the helper keeps the invariant.
LEMMA HelperInvStep ==
    ASSUME HelperInv, [HelperNext]_allVars
    PROVE  HelperInv'
<1>0. tip \in Nat /\ hblock \in Nat
      BY DEF HelperInv, HelperTypeOK
<1>1. CASE ChainStep
      <2>1. CASE EmitLog /\ tip # hblock
            BY <1>1, <2>1, HelperInvEmit DEF ChainStep
      <2>2. CASE ProduceBlock
            BY <1>0, <1>1, <2>2, HelperInvFrame DEF ChainStep, ProduceBlock, helperVars
      <2>3. CASE Done
            BY <1>0, <1>1, <2>3, HelperInvFrame DEF ChainStep, Done, vars, helperVars
      <2> QED BY <1>1, <2>1, <2>2, <2>3 DEF ChainStep
<1>2. CASE Finished
      BY <1>0, <1>2, HelperInvFrame DEF Finished, allVars
<1>3. CASE Setup
      BY <1>0, <1>3, HelperInvNotDone DEF Setup
<1>4. CASE Approve
      BY <1>0, <1>4, HelperInvNotDone DEF Approve
<1>5. CASE SendTransferFails
      <2>1. \/ UNCHANGED <<tip, logs>>
            \/ /\ tip' = tip + 1
               /\ \E r \in TransferReceipts(tip + 1) : logs' = logs \o r
            BY <1>5 DEF SendTransferFails
      <2> QED BY <1>0, <1>5, <2>1, HelperInvNotDone DEF SendTransferFails
<1>6. CASE SendTransfer
      BY <1>6, HelperInvSendTransfer
<1>7. CASE UNCHANGED allVars
      BY <1>0, <1>7, HelperInvFrame DEF allVars
<1> QED BY <1>1, <1>2, <1>3, <1>4, <1>5, <1>6, <1>7 DEF HelperNext

\* HelperInv holds in every state of the helper composed with the chain.
THEOREM HelperInvariant == HelperSpec => []HelperInv
BY HelperInvInit, HelperInvStep, PTL DEF HelperSpec

\* TransferredPacketIsQueryable, for every bound and every set of clients,
\* channels and sequences: once ibc_token_transfer returns Ok(packet), its
\* SendPacket log is on chain and query_packet_events returns it to every
\* request that asks for it, whatever the chain emits afterwards.
THEOREM TransferredPacketIsQueryableHolds ==
    HelperSpec => []TransferredPacketIsQueryable
BY HelperInvariant, QueryableOfInv, PTL

\* PacketEventsSatisfyFilter in every state: the events query_packet_events
\* returns are requested handler logs, converted, in chain order.
THEOREM PacketEventsSatisfyFilterHolds ==
    HelperSpec => []PacketEventsSatisfyFilter
<1>1. HelperInv => PacketEventsSatisfyFilter
      BY PacketEventsSatisfyFilterOfLogs DEF HelperInv, HelperTypeOK
<1> QED BY <1>1, HelperInvariant, PTL

\* ClientEventIsFirstMatch in every state: query_txs for a client update
\* returns the first UpdateClient log of that client in the block, or
\* nothing when the block is not there or holds none.
THEOREM ClientEventIsFirstMatchHolds ==
    HelperSpec => []ClientEventIsFirstMatch
<1>1. HelperInv => ClientEventIsFirstMatch
      BY ClientEventIsFirstMatchOfLogs DEF HelperInv, HelperTypeOK
<1> QED BY <1>1, HelperInvariant, PTL

=============================================================================
