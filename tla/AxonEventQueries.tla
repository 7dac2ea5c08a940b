-------------------------- MODULE AxonEventQueries --------------------------
(***************************************************************************)
(* The event queries of the Axon chain endpoint (crates/relayer/src/chain/  *)
(* axon.rs): query_txs, for a client update or for the events of a         *)
(* transaction, and query_packet_events.  Each is one RPC (get_block and   *)
(* get_logs, get_transaction_receipt, or get_logs) followed by a filter    *)
(* over the returned logs, made while the chain keeps emitting logs.       *)
(*                                                                         *)
(* The queries are pure functions of the logs the chain has emitted: the  *)
(* model's state is the chain, and each property is checked for every     *)
(* request the relayer can make in every state the chain reaches.         *)
(*                                                                         *)
(* A log is a record: the emitting contract, the handler event it decodes  *)
(* to, the block, and the fields the filters read (client id, or the       *)
(* packet's sequence and channels).  ok is FALSE for a log whose           *)
(* conversion by ibc_event_from_ibc_handler_event fails.  Each block holds *)
(* one transaction, so a receipt is the list of logs of one block.  Ports  *)
(* are abstracted to one port: the filter compares channels.               *)
(***************************************************************************)
EXTENDS Naturals, Sequences, FiniteSets

CONSTANTS
    MaxHeight,   \* blocks 1..MaxHeight
    MaxLogs,     \* bound on the number of logs the chain emits
    Clients,     \* client ids
    Channels,    \* channel ids
    SrcChannel,  \* the channel end the relayer asks about on this chain
    DstChannel,  \* and its counterparty
    MaxSeq,      \* packet sequences 1..MaxSeq
    Convertible  \* the values the ok flag of a log may take

ASSUME MaxHeightAssumption == MaxHeight \in Nat \ {0}
ASSUME MaxLogsAssumption == MaxLogs \in Nat
ASSUME ChannelsAssumption == {SrcChannel, DstChannel} \subseteq Channels
ASSUME ConvertibleAssumption == Convertible \subseteq BOOLEAN /\ TRUE \in Convertible

VARIABLES
    tip,      \* the latest block
    logs      \* every log the chain emitted, in natural order

vars == <<tip, logs>>

Blocks == 1..MaxHeight
Seqs == 1..MaxSeq
Addresses == {"handler", "app"}
ClientKinds == {"create_client", "update_client"}
PacketKinds == {"send_packet", "write_ack"}
Kinds == ClientKinds \cup PacketKinds \cup {"recv_packet"}
Packets == [seq : Seqs, src : Channels, dst : Channels]
NoClient == "no_client"
NoPacket == [seq |-> 0, src |-> "none", dst |-> "none"]

\* The logs a transaction of block b can emit: handler events, and a log
\* of an application contract that has the UpdateClient signature.
LogsAt(b) ==
    [addr : {"handler"}, kind : ClientKinds, block : {b}, client : Clients,
     packet : {NoPacket}, ok : Convertible]
    \cup
    [addr : {"handler"}, kind : PacketKinds, block : {b}, client : {NoClient},
     packet : Packets, ok : Convertible]
    \cup
    [addr : {"handler"}, kind : {"recv_packet"}, block : {b},
     client : {NoClient}, packet : {NoPacket}, ok : {TRUE}]
    \cup
    [addr : {"app"}, kind : {"update_client"}, block : {b}, client : Clients,
     packet : {NoPacket}, ok : {TRUE}]

\* The subsequence of s at the indices K, in their order: the element of
\* rank j in K (the one with j elements of K at or below it) comes j-th.
\* A filter over a list keeps the logs at the indices whose log passes;
\* the filters of the code (a get_logs filter, then `filter` or
\* `filter_map`) keep the logs that pass every test, in chain order.
Rank(K, i) == Cardinality({k \in K : k <= i})
Nth(K, j) == CHOOSE i \in K : Rank(K, i) = j
SubSeqAt(s, K) == [j \in 1..Cardinality(K) |-> s[Nth(K, j)]]
Keep(s, Test(_)) == SubSeqAt(s, {i \in 1..Len(s) : Test(s[i])})

\* An IbcEventWithHeight: the event (the log it was converted from) and the
\* block height of that log.
AsEvent(l) == [kind |-> l.kind, height |-> l.block, client |-> l.client,
               packet |-> l.packet]

\* Convert the logs kept by a filter_map: a log whose conversion fails
\* makes the whole collect::<Result<Vec<_>, _>>() fail.
Collect(ls) ==
    [ok |-> \A i \in 1..Len(ls) : ls[i].ok,
     events |-> [i \in 1..Len(ls) |-> AsEvent(ls[i])]]

-----------------------------------------------------------------------------
(* query_txs(QueryTxRequest::Client { client_id, consensus_height, .. }).  *)

\* Mutant: keeps update events of every client.
ClientMatchesAnyClient(l, c) == l.kind = "update_client"

\* Only UpdateClient events whose client_id is the requested one continue.
ClientMatches(l, c) == l.kind = "update_client" /\ l.client = c

\* get_block(consensus_height.revision_height()); a missing block returns
\* Ok(vec![]).  Otherwise get_logs(address = contract, at_block_hash) and
\* the first matching log, converted (take(1) then collect).
QueryClientEvent(c, h) ==
    IF h > tip
      THEN Collect(<<>>)
      ELSE LET matching == Keep(logs, LAMBDA l : /\ l.addr = "handler"
                                                 /\ l.block = h
                                                 /\ ClientMatches(l, c))
           IN  Collect(IF matching = <<>> THEN <<>> ELSE <<Head(matching)>>)

\* query_txs(QueryTxRequest::Transaction(tx_hash)): the receipt's logs
\* (none when there is no receipt), those of the handler contract, all
\* converted.
QueryTxEvents(b) ==
    Collect(Keep(logs, LAMBDA l : l.block = b /\ l.addr = "handler"))

-----------------------------------------------------------------------------
(* query_packet_events(QueryPacketEventDataRequest).                       *)

\* QueryHeight::Latest (block heights start at 1).
Latest == 0

\* The height qualifiers: SmallerEqual or Equal, of Latest or of a block.
Qualifiers == [rel : {"le", "eq"}, at : {Latest} \cup Blocks]

\* The block range of the get_logs filter: nothing for Latest (until the
\* latest block, whichever relation is asked), to_block(h) for
\* SmallerEqual(h), from_block(h).to_block(h) for Equal(h).
InRange(l, qual) ==
    \/ qual.at = Latest
    \/ qual.rel = "le" /\ l.block <= qual.at
    \/ qual.rel = "eq" /\ l.block = qual.at

\* Mutant: the packet filter forgets the destination channel.
PacketFilterNoDestination(p, req) ==
    /\ req.seqs = {} \/ p.seq \in req.seqs
    /\ p.src = req.src

\* packet_filter: an empty sequence list matches every sequence; the
\* channels of the packet must be the requested ones.
PacketFilter(p, req) ==
    /\ req.seqs = {} \/ p.seq \in req.seqs
    /\ p.dst = req.dst
    /\ p.src = req.src

\* The logs of get_logs (the handler's, in the block range), then the
\* match on event_id: client events by kind only, packet events by kind
\* and packet filter; each is converted with
\* .ok().unwrap_or(None), so a log whose conversion fails is dropped.
QueryPacketEvents(req) ==
    LET kept == Keep(logs, LAMBDA l :
                  /\ l.addr = "handler"
                  /\ InRange(l, req.qual)
                  /\ l.kind = req.kind
                  /\ l.kind \in PacketKinds => PacketFilter(l.packet, req)
                  /\ l.ok)
    IN  [ok |-> TRUE, events |-> [j \in 1..Len(kept) |-> AsEvent(kept[j])]]

PacketRequests ==
    [kind : ClientKinds \cup PacketKinds, qual : Qualifiers,
     seqs : {{}} \cup {{s} : s \in Seqs}, src : {SrcChannel},
     dst : {DstChannel}]

-----------------------------------------------------------------------------
(* The chain.                                                              *)

\* The current block's transaction emits one more log.
EmitLog ==
    /\ Len(logs) < MaxLogs
    /\ \E l \in LogsAt(tip) : logs' = Append(logs, l)
    /\ UNCHANGED tip

ProduceBlock ==
    /\ tip < MaxHeight
    /\ tip' = tip + 1
    /\ UNCHANGED logs

\* The chain stops within the bounds; the queries are still answered.
Done ==
    /\ tip = MaxHeight
    /\ Len(logs) = MaxLogs
    /\ UNCHANGED vars

Init ==
    /\ tip = 1
    /\ logs = <<>>

Next ==
    \/ EmitLog
    \/ ProduceBlock
    \/ Done

Spec == Init /\ [][Next]_vars

-----------------------------------------------------------------------------
(* Properties.                                                             *)

\* The requests for a client update: consensus heights up to one past the
\* last block, so that the block may not exist yet.
ClientRequests == Clients \X (1..(MaxHeight + 1))

\* The handler logs a packet-event request asks for, read from the spec's
\* Event Translator rules (section 4.3).
Requested(req) ==
    {i \in 1..Len(logs) :
        /\ logs[i].addr = "handler"
        /\ logs[i].kind = req.kind
        /\ InRange(logs[i], req.qual)
        /\ logs[i].kind \in PacketKinds =>
             /\ req.seqs = {} \/ logs[i].packet.seq \in req.seqs
             /\ logs[i].packet.src = req.src
             /\ logs[i].packet.dst = req.dst}

\* Spec section 8: every event query_packet_events returns is of the
\* requested kind, lies in the requested height range and satisfies every
\* supplied packet filter field; the events come in the chain's order.
PacketEventsSatisfyFilter ==
    \A req \in PacketRequests :
        LET evs == QueryPacketEvents(req).events
        IN  \E f \in [1..Len(evs) -> Requested(req)] :
              \A j \in 1..Len(evs) :
                 /\ evs[j] = AsEvent(logs[f[j]])
                 /\ \A k \in 1..(j - 1) : f[k] < f[j]

\* Spec section 4.3: query_txs for a client event returns at most one
\* event, the first UpdateClient log of the handler for that client in the
\* block at that height, and returns it whenever there is one.
ClientEventIsFirstMatch ==
    \A r \in ClientRequests :
        LET c == r[1]
            h == r[2]
            ans == QueryClientEvent(c, h)
            hits == {i \in 1..Len(logs) :
                        /\ logs[i].addr = "handler"
                        /\ logs[i].block = h
                        /\ logs[i].kind = "update_client"
                        /\ logs[i].client = c}
        IN  ans.ok =>
              IF h <= tip /\ hits # {}
                THEN ans.events = <<AsEvent(logs[CHOOSE i \in hits :
                                                 \A k \in hits : i <= k])>>
                ELSE ans.events = <<>>

\* Spec section 7: no error is swallowed.  query_packet_events returns
\* every requested handler event, or fails.
PacketEventsComplete ==
    \A req \in PacketRequests :
        LET ans == QueryPacketEvents(req)
        IN  ans.ok =>
              \A i \in Requested(req) :
                 \E j \in 1..Len(ans.events) : ans.events[j] = AsEvent(logs[i])

=============================================================================
