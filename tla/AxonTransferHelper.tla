------------------------- MODULE AxonTransferHelper -------------------------
(***************************************************************************)
(* The ICS-20 transfer helper of the test framework,                       *)
(* ibc_token_transfer and fetch_all_ibc_events_from_tx_logs               *)
(* (tools/test-framework/src/relayer/axon/transfer.rs), composed with the  *)
(* Axon chain of AxonEventQueries, whose logs the relayer's event queries  *)
(* read.  The helper approves the transfer contract, calls sendTransfer,   *)
(* and returns the packet of the SendPacket event found among the IBC      *)
(* handler's logs of the receipt; the relayer later finds that packet with *)
(* query_packet_events to relay it.                                        *)
(*                                                                         *)
(* The approve transaction and its ERC-20 logs are left out of the chain:  *)
(* no handler log comes from it.  The sendTransfer transaction makes a     *)
(* block of its own, holding the escrow's ERC-20 log and the handler's     *)
(* SendPacket log, or no log when the call reverts.  The sequence number   *)
(* the handler assigns is any of Seqs.                                     *)
(***************************************************************************)
EXTENDS AxonEventQueries

CONSTANT
    TransferConvertible  \* the values the ok flag of the transfer's log may take

ASSUME TransferConvertibleAssumption ==
    TransferConvertible \subseteq BOOLEAN /\ TRUE \in TransferConvertible

VARIABLES
    hpc,       \* where ibc_token_transfer is
    hblock,    \* block of the sendTransfer receipt, 0 before it
    hresult    \* the packet returned, NoPacket until Ok(packet)

helperVars == <<hpc, hblock, hresult>>
allVars == <<tip, logs, hpc, hblock, hresult>>

\* The log of the ERC-20 token contract that moves the tokens to escrow.
Erc20Log(b) == [addr |-> "app", kind |-> "erc20_transfer", block |-> b,
                client |-> NoClient, packet |-> NoPacket, ok |-> TRUE]

\* The receipts a sendTransfer included in block b may have: the call
\* reverted (no log), or the escrow log then the handler's SendPacket for
\* a packet from SrcChannel to DstChannel.
TransferReceipts(b) ==
    {<<>>}
    \cup {<<Erc20Log(b), [addr |-> "handler", kind |-> "send_packet",
                          block |-> b, client |-> NoClient,
                          packet |-> [seq |-> s, src |-> SrcChannel,
                                      dst |-> DstChannel],
                          ok |-> c]>> :
          s \in Seqs, c \in TransferConvertible}

-----------------------------------------------------------------------------
(* fetch_all_ibc_events_from_tx_logs and the search for the packet.        *)

\* receipt.logs filtered to log.address == ibc_handler_address.
IbcLogs(r) == Keep(r, LAMBDA l : l.addr = "handler")

\* Every handler log is converted at the receipt's block; the collect
\* into Result fails at the first log whose conversion fails.
FetchAllIbcEventsFromTxLogs(ls) == Collect(ls)

\* find_map of the first SendPacket event: its index, or 0.
FindSendPacket(evs) ==
    IF \E j \in 1..Len(evs) : evs[j].kind = "send_packet"
      THEN CHOOSE j \in 1..Len(evs) : /\ evs[j].kind = "send_packet"
                                      /\ \A m \in 1..(j - 1) :
                                           evs[m].kind # "send_packet"
      ELSE 0

-----------------------------------------------------------------------------
(* ibc_token_transfer.                                                     *)

\* Provider::connect, read_deployed_contracts(..).expect, new_contract
\* (get_chainid) and the decoding of the recipient: a transport or decode
\* error is returned, a missing contracts file panics.
Setup ==
    /\ hpc = "start"
    /\ hpc' \in {"approve", "error", "panicked"}
    /\ UNCHANGED <<hblock, hresult, tip, logs>>

\* The ERC-20 approve: the token address is parsed with unwrap, the
\* transaction is sent with .unwrap() and awaited with .unwrap().unwrap(),
\* so every failure panics; new_erc20 returns its error.
Approve ==
    /\ hpc = "approve"
    /\ hpc' \in {"transfer", "error", "panicked"}
    /\ UNCHANGED <<hblock, hresult, tip, logs>>

\* sendTransfer is sent and awaited.  A send or await error, or no
\* receipt, is an error; the await can fail after the transaction was
\* included, so the chain may hold the transfer all the same.
SendTransferFails ==
    /\ hpc = "transfer"
    /\ hpc' = "error"
    /\ \/ UNCHANGED <<tip, logs>>
       \/ /\ tip < MaxHeight
          /\ \E r \in TransferReceipts(tip + 1) :
               /\ Len(logs) + Len(r) <= MaxLogs
               /\ logs' = logs \o r
          /\ tip' = tip + 1
    /\ UNCHANGED <<hblock, hresult>>

\* Mutant: the packet is returned without looking at whether the
\* conversion of the receipt's handler logs succeeded.
SendTransferUnchecked ==
    /\ hpc = "transfer"
    /\ tip < MaxHeight
    /\ \E r \in TransferReceipts(tip + 1) :
         /\ Len(logs) + Len(r) <= MaxLogs
         /\ logs' = logs \o r
         /\ LET evs == FetchAllIbcEventsFromTxLogs(IbcLogs(r))
                n == FindSendPacket(evs.events)
            IN  IF n # 0
                  THEN hpc' = "done" /\ hresult' = evs.events[n].packet
                  ELSE hpc' = "error" /\ hresult' = NoPacket
    /\ tip' = tip + 1
    /\ hblock' = tip + 1

\* The transaction is included in the next block and its receipt is
\* returned; the helper keeps the handler's logs, converts them all, and
\* returns the packet of the first SendPacket event, or an error when a
\* conversion fails or there is no SendPacket event.
SendTransfer ==
    /\ hpc = "transfer"
    /\ tip < MaxHeight
    /\ \E r \in TransferReceipts(tip + 1) :
         /\ Len(logs) + Len(r) <= MaxLogs
         /\ logs' = logs \o r
         /\ LET evs == FetchAllIbcEventsFromTxLogs(IbcLogs(r))
                n == FindSendPacket(evs.events)
            IN  IF evs.ok /\ n # 0
                  THEN hpc' = "done" /\ hresult' = evs.events[n].packet
                  ELSE hpc' = "error" /\ hresult' = NoPacket
    /\ tip' = tip + 1
    /\ hblock' = tip + 1

-----------------------------------------------------------------------------
(* The chain and the helper.                                               *)

HelperInit ==
    /\ Init
    /\ hpc = "start"
    /\ hblock = 0
    /\ hresult = NoPacket

\* The chain goes on; the block of the transfer holds that transaction
\* only, so no other log joins it.
ChainStep ==
    /\ \/ EmitLog /\ tip # hblock
       \/ ProduceBlock
       \/ Done
    /\ UNCHANGED helperVars

\* The helper has returned and the chain has stopped within the bounds.
Finished ==
    /\ hpc \in {"done", "error", "panicked"}
    /\ tip = MaxHeight
    /\ UNCHANGED allVars

HelperNext ==
    \/ ChainStep
    \/ Finished
    \/ Setup
    \/ Approve
    \/ SendTransferFails
    \/ SendTransfer

HelperSpec == HelperInit /\ [][HelperNext]_allVars

-----------------------------------------------------------------------------
(* Properties.                                                             *)

\* The index in the chain's logs of the handler log of the packet the
\* helper returned.
TransferLog ==
    {i \in 1..Len(logs) : /\ logs[i].addr = "handler"
                          /\ logs[i].kind = "send_packet"
                          /\ logs[i].block = hblock
                          /\ logs[i].packet = hresult}

\* The helper and the relayer agree: once ibc_token_transfer returns
\* Ok(packet), its SendPacket log is on chain, and every
\* query_packet_events request that asks for it (by the spec's filter
\* rules) returns it, though that query drops the logs it cannot convert.
TransferredPacketIsQueryable ==
    hpc = "done" =>
        /\ TransferLog # {}
        /\ \A req \in PacketRequests, i \in TransferLog :
             i \in Requested(req) =>
               \E j \in 1..Len(QueryPacketEvents(req).events) :
                  QueryPacketEvents(req).events[j] = AsEvent(logs[i])

=============================================================================
