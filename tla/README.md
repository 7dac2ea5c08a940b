# Formal models of the Axon chain endpoint of forcerelay

This directory holds TLA+ specifications of the parts of forcerelay that talk
to an Axon chain, the TLC configurations that model-check them on small
instances, and TLAPS proofs of their main safety properties.
`PROJECT.json` lists the components, the runs, the mutants, the map from each
definition to the source lines it translates, the findings and the hazards.

## The system

`crates/relayer/src/chain/axon.rs` implements `ChainEndpoint` for Axon, an
EVM chain whose IBC handler is a Solidity contract. Its parts are:

* **Proof pipeline**: `get_proofs` and `get_proofs_ingredients`. They fetch
  block h, the state root of block h-1, and the finality proof of h, which is
  stored in block h+1 and polled until it appears. They then fetch the current
  validator list, run `verify_proof`, and fetch an `eth_getProof` storage
  proof for the commitment path.
* **Message dispatcher**: `send_messages_and_wait_commit` and `send_message`.
  Each message of a batch is sent in order. Its type URL selects a contract
  method, the pending transaction is awaited, and the first receipt log of the
  expected event kind becomes the returned event. The batch stops at the first
  error (`collect::<Result<Vec<_>,_>>`).
* **Queries**: event search (`query_txs`, `query_packet_events`), packet
  queries (commitments, receipts, acknowledgements, unreceived
  packets/acks), client/connection/channel queries, `parse_denom_trace`.
* **Lifecycle**: `subscribe`, `shutdown`, `init_event_monitor`. The first
  `subscribe` starts the event monitor on a thread of its own and keeps its
  command channel in `tx_monitor_cmd`; later ones reuse it, and `shutdown`
  sends it the Shutdown command.

`crates/relayer/src/chain/ckb4ibc/message.rs` converts IBC messages into CKB
transactions: `convert_msg_to_ckb_tx` dispatches on the type URL to a
builder, and the builders look up cell inputs and channel state through the
`Converter`, which borrows caches the CKB endpoint filled earlier.
`tools/test-framework/src/relayer/axon/transfer.rs` is a test helper that
sends one ICS-20 transfer and decodes the handler logs of its receipt. The
relayer then finds that packet with `query_packet_events` and relays it.

The parts interact through the chain: the dispatcher's transactions create
the commitments, receipts and logs that the packet and event queries read,
and the relaying engine (outside these sources) calls the queries to decide
what to send next and `get_proofs` to prove it to the counterparty.

## Modules

| module | models | state | actions |
|---|---|---|---|
| `AxonProofPipeline` | `get_proofs`, `get_proofs_ingredients` and an Axon chain that produces blocks and may rotate validator sets | `tip`, `vset` (chain), `pc`, `req`, `proof`, `validators`, `outcome`, `result` | `ProduceBlock`, `Request`, one action per await (`FetchBlock`, `FetchPreviousStateRoot`, `PollFinalityProof`, `FetchMetadata`, `Verify`, `FetchStorageProof`), `RpcError`, `Halted` |
| `AxonProofService` | what `get_proofs` promises: an atomic call that fails, panics, or returns the bundle of the requested height signed and verified by that height's validator set | `tip`, `vset`, `call`, `req`, `outcome`, `result` | `ProduceBlock`, `Call`, `Fail`, `Crash`, `Return` |
| `AxonProofPipelineProofs` | TLAPS proofs about the pipeline, including its refinement of `AxonProofService` | | |
| `AxonPacketQueriesProofs` | TLAPS proofs about the packet queries | | |
| `AxonMessageDispatchProofs` | TLAPS proofs about the message dispatcher, including its refinement of `AxonBatchCommit` | | |
| `AxonBatchCommit` | what `send_messages_and_wait_commit` promises: in-order commits, one message in flight, events returned in order | `batch`, `committed`, `returned`, `status`, `tip` | `Block`, `Commit`, `Return`, `Fail` |
| `AxonPacketQueries` | the per-sequence packet queries and the single-record commitment/acknowledgement queries, against a channel on which other actors receive, send and acknowledge packets | `order`, `recvd`, `nextRecv`, `sent` (handler), `q`, `pc`, `input`, `todo`, `acc`, `bytes`, `outcome`, ghost `snap` | `RecvPacket`, `SendPacket`, `AcknowledgePacket`, `StartLoopQuery`, `ReadChannel`, `ReadNextSequenceReceive`, `ReadSequence`, `ReturnSequences`, `RpcError`, `QuerySingle` |
| `AxonEventQueries` | `query_txs` and `query_packet_events` as functions of the logs the chain has emitted | `tip`, `logs` | `EmitLog`, `ProduceBlock`, `Done`; the queries are operators (`QueryClientEvent`, `QueryTxEvents`, `QueryPacketEvents`) |
| `AxonDenomTrace` | `query_denom_trace`, `parse_denom_trace`, `extract_path_and_base_from_full_denom` on character sequences | `full` (stored full path), ghost `origin`, `trace` | `QueryDenomTrace`; `Split`, `JoinSlash`, `IsValidChannelId`, `ContinuesPath`, `ExtractPathAndBase` are operators |
| `CkbMessageConverter` | the type-URL dispatch of `convert_msg_to_ckb_tx` and the cache getters of `Converter` | `connCache`, `chanCache`, `chanInputs`, `packetInputs`, `outcome` | `RefreshCaches`, `ConvertMsgToCkbTx`, `Lookup` |
| `AxonTransferHelper` | `ibc_token_transfer` and `fetch_all_ibc_events_from_tx_logs` of the test framework, composed with the chain of `AxonEventQueries` | `hpc`, `hblock`, `hresult` (helper), with `tip`, `logs` | `Setup`, `Approve`, `SendTransferFails`, `SendTransfer`, `ChainStep` (the chain's actions), `Finished` |
| `AxonEndpoint` | `subscribe`, `shutdown`, `init_event_monitor` and the monitor thread, composed with `AxonProofPipeline` | `monitorCmd`, `monitor`, `spawned`, `shut`, with the pipeline's variables | `Subscribe`, `Shutdown`, `MonitorExits`, `MonitorStops`, `Consumed`, the pipeline's actions |
| `AxonEndpointProofs` | TLAPS proofs about the lifecycle, and the pipeline's results carried over to the endpoint | | |
| `AxonEventQueriesProofs` | TLAPS proofs about the event queries and the transfer helper | | |
| `AxonMessageDispatch` | `send_messages_and_wait_commit`, `send_message` and a chain that includes submitted transactions late | `batch`, `pc`, `i`, `results`, `error` (relayer), `tip`, `mempool`, `included`, `logs`, `submitted` (chain) | `ProduceBlock`, `IncludeTx`, `SendMessage`, `AwaitFails`, `AwaitReceipt`, `Finished` |

Each RPC await is one step, so the chain can advance between any two of
them. Data is abstracted: a block is its height, a finality proof is the block
it covers plus who signed it, a validator set is a model value, and a message
is its type URL. A panic is a terminal state (`pc = "panicked"`).

The packet queries run every contract call at `QueryHeight::Latest`, so
one call of `query_unreceived_packets` reads a different chain state per
sequence; the ghost variable `snap` records the handler state when the call
started so that the result can be compared with both ends. The loop reads
the requested sequences in any order, because the order of the request's
`Vec` is up to the caller. The event
queries make one RPC and then filter, so they are pure functions of the
chain's logs and each property quantifies over every request. In
`AxonDenomTrace` a string is a sequence of characters over
`{"/", "c", "0", "1", "+", "a"}`, where `"c"` stands for the prefix
`channel-`; `str::split`, `join` and `usize::from_str` (with its optional
plus sign and its overflow, at `MaxUsize` instead of `usize::MAX`) are
written with `FoldLeft` and compute what the Rust functions compute.

Two modules compose components that interact. `AxonTransferHelper` runs the
test helper's transfer beside the chain of `AxonEventQueries`. Its
sendTransfer adds a block holding the escrow's ERC-20 log and the handler's
SendPacket log (or nothing, when the call reverts), and the helper's answer
is computed from that receipt as the code does it: the address filter, the
all-or-nothing conversion, and the first SendPacket event. A send or await
error may come after the transaction was included (`SendTransferFails`).
The chain emits no other log into the transfer's block. Whether the
transfer's log converts is the constant `TransferConvertible`, separate from
the other logs' `Convertible`, so that the run can let only that log fail.
`AxonEndpoint` adds the lifecycle to the proof pipeline. The endpoint's
methods take `&mut self` or `self` and the chain runtime serves one request
at a time, so `Subscribe` and `Shutdown` happen only while `pc = "idle"`, and
no request starts after `shutdown`. The monitor thread runs beside them: it
can die by itself (`MonitorExits`) and it ends on the Shutdown command
(`MonitorStops`). The monitor's own code is not among these sources, so
those two actions follow the spec. Every
MC module gives the constants their small values; each module starts with a
comment saying what it abstracts.

## Runs

* `proofs` (pass, `MC_AxonEndpoint`). It checks `TypeOK`,
  `OkProofIsFinalized` with 4 blocks, 2 validator sets and
  a corrupting RPC node. This covers a rotation at every block and an RPC
  error at every await. With the lifecycle composed in, it also checks
  `MonitorStartedOnce` and `ShutdownHaltsMonitor`,
  with subscribe called any number of times between calls and the monitor
  dying at any point. Whether subscribe reuses the kept channel and whether
  shutdown sends the command are the mutants that break them. It also
  checks `ImplementsProofService`, which is `AxonProofService!Spec` under the
  mapping `call <- CallState`. Every await of the pipeline is the abstract
  `busy`. A storage proof fetched at the height of the finality proof,
  instead of the requested height, is the mutant that breaks it.
* `proofs_rotation` (violation, `UnverifiedOnlyIfCorrupted`). An epoch change
  between block h and the metadata fetch makes verification of an honest
  proof fail. The code verifies against `get_current_metadata`.
* `proofs_height_zero` (violation, `HeightZeroIsAnError`). `get_proofs` at
  height 0 panics in `checked_sub(1).expect`.
* `dispatch` (pass). It checks `TypeOK`, `CommitOrderFollowsBatch`,
  `ResultsMatchReceipts` and `ImplementsBatchCommit` with batches of two
  messages, one of them an unknown type, and up to 4 blocks.
  `ImplementsBatchCommit` is the abstract `AxonBatchCommit!Spec` under the
  refinement mapping in `AxonMessageDispatch`. The committed messages are
  every message before the current one, plus the current one once the
  chain has included it. The returned events are the results without
  their log address. The status is derived from `pc`. A mutant that sends
  the next message without awaiting the receipt (fire and forget) breaks it.
* `dispatch_app_log` (violation, `EventsFromHandler`). An application log
  with the handler's event signature is returned as the event.
* `dispatch_update_client` (violation, `OnlyUnknownTypesUnsupported`).
  `MsgUpdateClient` has no dispatch arm.
* `packet_queries` (pass). It checks `TypeOK` and `ResultConsistent` with
  3 sequences on an ordered or unordered channel. Between any two contract
  calls of a query, other relayers may receive, send or acknowledge packets.
  Every sequence whose record did not change during the call is reported
  correctly; three sequences are enough for a record to change before,
  during and after the loop reads it.
* `packet_commitment_absent` (violation, `AbsentRecordIsNotFound`).
  `query_packet_commitment` drops the found flag and returns zero bytes as
  `Ok` for a commitment that does not exist.
* `event_queries` (pass, `MC_AxonTransferHelper`). It checks
  `PacketEventsSatisfyFilter` and `ClientEventIsFirstMatch` for every request
  over every list of up to 3 logs in 2 blocks, with two clients and two
  channels: enough for a log of the wrong client, channel, kind, block or
  emitting contract to precede a matching one. With the transfer helper
  running beside the chain it also checks `TransferredPacketIsQueryable`:
  when the helper returns a packet, its SendPacket log is on the chain and
  every `query_packet_events` request that asks for it returns it. The
  transfer's log may fail to convert, which `query_packet_events` would
  silently drop. The property holds because the helper then fails as well.
  A helper that ignores the conversion result is the mutant that breaks it.
  The run has about 328,000 states and takes about 90 seconds.
* `event_queries_dropped` (violation, `PacketEventsComplete`). A log whose
  conversion fails is dropped by `.ok()` and the query still returns `Ok`.
* `denom_trace` (pass). It checks `RoundTrip` for every voucher of up to two
  hops over channel ids `channel-0`, `channel-1`, `channel-10` and a base of
  up to three characters, and `TraceDenotesStoredPath` for every stored
  string of up to five characters (about 9,300 strings, including plus
  signs, overflowing channel numbers, empty pieces and trailing slashes).
* `ckb_converter_panics` (violation, `ConversionNeverPanics`). A
  `MsgTimeout` reaches `_ => todo!()`, and a cache getter unwraps a missing
  entry, where the spec asks for typed errors.

Each property of a passing run has a mutant in `PROJECT.json`: a plausible
bug in one mapped definition (a dropped guard, `>` for `>=`, the wrong
segment tested) that TLC finds.

## Fairness

No run assumes fairness, and every property checked is a safety property
(the refinement `ImplementsProofService` included: the abstract
`AxonProofService!Spec` has no fairness either). The only liveness
questions of this code are whether the wait for the height+1 finality proof
ends and whether a monitor that was sent Shutdown stops. The first holds
only if the chain goes on producing blocks, and the spec (sections 5 and 9)
accepts the unbounded wait and leaves its cancellation to the caller. The
second depends on the monitor thread, which is outside the modelled
sources. Stated under a fairness assumption, either would follow from the
assumption alone, so neither is checked; what shutdown guarantees of the
code itself is `ShutdownHaltsMonitor`.

## Proofs

`AxonProofPipelineProofs` proves `Spec => []TypeOK` and
`Spec => []OkProofIsFinalized` for every `MaxHeight` and every set of
validator sets. Neither is inductive as it stands. The inductive invariant
`IInv` adds:

* while the proof is held, it covers `req`, block `req+1` is committed, and
  the signers are either `vset[req]` or `Forged`;
* the fetched validator list is a validator set;
* after `verify_proof` succeeds, the signers equal that list;
* a returned result is about a height below the tip.

The same module proves `Spec => ImplementsProofService` (`ServiceRefinement`).
Under the mapping, `call` is `"busy"` at every await of the pipeline and the
pipeline's `pc` otherwise; the other variables are the pipeline's own. The
initial state maps to the abstract initial state (`ServiceInit`). Every step
maps to an abstract step or a stutter (`ServiceStep`). The awaits before
`FetchStorageProof` are stutters. `Request` is `Call`, with height 0 a
panic. `RpcError`, a failed `Verify` and `Halted` are `Fail` or `Crash`.
`FetchStorageProof` is `Return`, and that step needs `IInv`: the abstract
`Return` is enabled only when block `req+1` is committed, and it returns
`vset[req]` as signers and validators. Both hold only because the proof
held covers `req`, and a verified proof was signed by the fetched list,
which is `vset[req]` unless the proof is `Forged`, which `verify_proof`
rejects.

`AxonPacketQueriesProofs` proves `Spec => []TypeOK` and
`Spec => []ResultConsistent` for every `MaxSeq` and for both channel
orderings. The argument is that each per-sequence read happens between the
snapshot taken at the start of the call and the current state, and every
record the queries read moves in one direction only. The inductive
invariant `IInv` says:

* `Monotone`: the handler only moves forward from the snapshot. Receipts
  are never removed, `next_sequence_recv` never decreases, and a sent
  packet goes from unsent to committed to acknowledged (`Rank`).
* `Shape`: which query can be at which step. The ordered branch reads no
  sequence in the loop. A loop that returned Ok has read every sequence.
  While the loop runs, no sequence still to read is already in the result.
* `RequestSent`: the acknowledgements asked about were sent when the call
  started.
* `LoopReads`: for each sequence already read, a kept sequence was
  reported at the snapshot (for a decreasing record) or is reported now
  (for an increasing one). A dropped sequence satisfies the opposite.
* `OrderedResult`: the ordered branch's answer, compared against
  `next_sequence_recv` at the snapshot and now.

TLC checks `IInv` as an invariant of the `packet_queries` instance before it
is proved. `ResultConsistent` is not inductive by itself: it says nothing
about a loop that is half done.

`AxonMessageDispatchProofs` proves `Spec => []TypeOK`,
`Spec => []CommitOrderFollowsBatch` and `Spec => []ResultsMatchReceipts`
for every set of batches (sequences of known or unknown type URLs) and
every chain bound. The argument is that `send_message` awaits the receipt
before the next message is sent, so at most one transaction of the batch is
pending, and the block that includes it is above every earlier inclusion.
The inductive invariant `IInv` says:

* `Progress`: the index stays in the batch, only indices up to it have been
  sent, the message at the index has been sent exactly while its receipt
  is awaited, one result has been collected per message before it, and
  every sent message has a dispatch arm.
* `Inclusions`: only the current message can be in the mempool, and it is
  not yet included. An inclusion is at or below the tip and is for a sent
  message. Every message before the current one is included, and
  inclusions follow the sending order. A receipt has at most two logs.
* `Collected`: result k is about transaction k, has the expected event
  kind of message k, and has the block that included it.

`Refinement` proves `Spec => ImplementsBatchCommit` from the same `IInv`.
Initial states map to the abstract initial state.
Each dispatcher step maps to an abstract step or a stutter:

* `ProduceBlock` maps to `Block`.
* `IncludeTx` maps to `Commit`. `Inclusions` shows that the included
  transaction is the current message. `Collected` shows that every earlier
  message has been returned, since `pc` cannot be `"done"` while the
  transaction is pending.
* An error maps to `Fail`.
* A successful send, `Finished` and stuttering leave the mapped state
  unchanged.
* A collected receipt maps to `Return`. `Progress` and `Inclusions` show
  that the next message is not yet included, so the committed count does
  not move when the index advances.

Helper lemmas prove that every dispatched type has a known event kind, and
that the receipts a call may have are lists of at most two logs. The last
lemma states what `FirstMatch` returns for such a list (0 exactly when no
log has the kind, otherwise the index of a log of that kind). The bound of
two logs lets the prover find the first match by cases, without an
induction over the list.

`AxonEndpointProofs` proves `EndpointSpec => []MonitorStartedOnce` and
`EndpointSpec => []ShutdownHaltsMonitor` for every chain bound. Neither is
inductive alone: a step of `Subscribe` keeps `spawned <= 1` only if a kept
command channel means a monitor was started. The inductive invariant
`LifeInv` therefore adds three facts. `monitorCmd = "none"` exactly when
`spawned = 0`. It is also exactly when `monitor = "none"`. And after
`shut` the monitor is not running. Every pipeline step leaves the lifecycle
variables unchanged, so the step proof has one case per lifecycle action.
Conversely, every lifecycle step leaves the pipeline's and the chain's
variables unchanged, so every endpoint step is a pipeline step or a stutter
of it (`EndpointStepIsPipelineStep`). The pipeline's `IInv` is therefore an
invariant of `EndpointSpec`, and the module carries the pipeline's results
to the spec the `proofs` run checks: `EndpointTypeCorrect`,
`EndpointProofIsFinalized` and `EndpointServiceRefinement`
(`EndpointSpec => ImplementsProofService`).

`AxonEventQueriesProofs` proves `HelperSpec => []PacketEventsSatisfyFilter`,
`HelperSpec => []ClientEventIsFirstMatch` and
`HelperSpec => []TransferredPacketIsQueryable` for every chain bound and
every set of clients, channels and sequences. Every filter of the code (the
`get_logs` filter, then `filter` or `filter_map`, and the address filter of
the helper) keeps the logs at a set of indices `K` in chain order. The model
writes it without recursion: `Keep(s, Test)` is `SubSeqAt(s, K)`, whose
`j`-th element is the element at the index of rank `j` in `K` (`Rank` counts
the indices of `K` up to an index, `Nth` chooses the index of a rank). It is the
same list as `SelectSeq(s, Test)`. `SelectSeq` is defined by recursion over
the list, so reasoning about it needs an induction the provers cannot
instantiate. The lemma library of the
module instead proves, from `FiniteSetTheorems`, that `Rank` maps `K` one to
one and in order onto `1..Cardinality(K)` (`RankStrict`, `RankOnto`,
`NthFacts`, `NthOfRank`, `NthMonotone`, `NthOneIsLeast`). It also proves
that `SubSeqAt` is a list of `Cardinality(K)` elements, with every index of
`K` kept at its rank (`SubSeqAtFacts`, `KeptAtRank`). The two query
properties then hold in every state whose logs are a list of log records.
The witness of `PacketEventsSatisfyFilter` maps the `j`-th event to
`Nth(K, j)`. The answer of `query_txs` is the element of rank 1, which is
the least match.
`TransferredPacketIsQueryable` is not inductive: the chain could later add
a log to the transfer's block, and the returned packet's log must convert.
The inductive invariant `HelperInv` adds a type invariant, the fact that no
log is of a block past the tip, and the fact that once the helper returned a
packet its SendPacket log is on chain and converts. TLC checked `HelperInv`
on the event_queries instance before it was proved. The step proof has one
case per action. For `SendTransfer` it computes the helper's answer from the
two possible receipts: the empty receipt yields no SendPacket, and with
`<<erc20, sendPacket>>` only index 2 is kept. `EmitLog` cannot touch the
transfer's block because of its guard `tip # hblock`.

No liveness property is checked (see Fairness); the prover would not handle
fairness and `ENABLED` either. The parser of `AxonDenomTrace` is built on
`FoldLeft`, which reaches a RECURSIVE operator of the community modules, so
what it computes for every input is only model-checked on the bounded
strings above. The three properties of the
event_queries run are proved (above). `PacketEventsComplete` is the property
the code violates, and it is covered only by its violation run.

## Not modelled (yet)

* Encoding details (RLP, ABI, commitment paths) and log decoding: the model
  works on the decoded values.
* `query_packet_commitments` and `query_packet_acknowledgements` return
  `Height::default()`; the callers that use that height are outside these
  sources.
* The CKB builders `convert_*_to_tx` (submodules outside these sources) and
  the CKB cache refresh, modelled from the spec as arbitrary contents.
* `bootstrap` (its only state of interest, `tx_monitor_cmd = None`, is
  `EndpointInit`), `health_check`, key handling, balances and the
  single-call client, connection and channel queries: each is one RPC and
  one decode.
* The event monitor thread itself (`AxonEventMonitor`, `TxMonitorCmd`) is
  not among these sources. `AxonEndpoint` takes its behaviour from the spec.
  A monitor that died is never restarted, and `tx_monitor_cmd` keeps its
  dead channel, so every later `subscribe` fails. The model includes this,
  but no property states recovery, since the code has none.
* The approve transaction of the transfer helper adds no handler log and
  is left off the chain. A retry after `SendTransferFails` would send a
  second packet. The retry happens in the tests, outside these sources.

See `PROJECT.json` for the status of each component.
