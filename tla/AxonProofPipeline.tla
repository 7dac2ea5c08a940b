------------------------ MODULE AxonProofPipeline ------------------------
(***************************************************************************)
(* The proof pipeline of the Axon chain endpoint: AxonChain::get_proofs    *)
(* and AxonChain::get_proofs_ingredients (crates/relayer/src/chain/        *)
(* axon.rs), run against an Axon chain that keeps producing blocks and may *)
(* rotate its validator set at any block.                                  *)
(*                                                                         *)
(* The relayer side is one call at a time (the chain endpoint runs its     *)
(* requests on one runtime thread); each RPC await is one step, so the     *)
(* chain may advance between any two of them.  A block is identified by    *)
(* its height (Axon blocks are final once committed, there are no forks).  *)
(* The finality proof stored in block n is the aggregate signature of the  *)
(* validators of block n-1 over block n-1; the RPC node may hand out a     *)
(* corrupted proof (signed by Forged) when ByzantineRpc is TRUE.           *)
(***************************************************************************)
EXTENDS Naturals

CONSTANTS
    MaxHeight,      \* the chain produces blocks 0..MaxHeight
    ValidatorSets,  \* the validator sets (metadata epochs) the chain may use
    Forged,         \* the signer of a corrupted finality proof
    NoValue,        \* "nothing fetched yet"
    ByzantineRpc    \* may the RPC node return a corrupted finality proof?

ASSUME MaxHeightAssumption == MaxHeight \in Nat \ {0}
ASSUME ValidatorSetsAssumption == ValidatorSets # {} /\ Forged \notin ValidatorSets
ASSUME NoValueAssumption == NoValue \notin ValidatorSets \cup {Forged}
ASSUME ByzantineRpcAssumption == ByzantineRpc \in BOOLEAN

VARIABLES
    tip,         \* the chain: height of the latest committed block
    vset,        \* the chain: vset[h] is the validator set of block h
    pc,          \* where get_proofs is
    req,         \* the requested height (height.revision_height())
    proof,       \* the finality proof fetched by get_proof_by_id(next_number)
    validators,  \* the validator list taken from get_current_metadata
    outcome,     \* how the last call of get_proofs ended
    result       \* what the last successful call returned

chainVars == <<tip, vset>>
pipeVars == <<pc, req, proof, validators, outcome, result>>
vars == <<tip, vset, pc, req, proof, validators, outcome, result>>

Heights == 0..MaxHeight

\* Heights the relayer asks proofs for: a height the chain goes on to
\* finalise, i.e. whose next block is produced within the bound.
RequestHeights == 0..(MaxHeight - 1)

\* The finality proof as the model sees it: which block it signs and who
\* signed it.
Proofs == [covers : Heights, signers : ValidatorSets \cup {Forged}]

Outcomes == {"none", "ok", "rpc_error", "unverified", "panic"}

\* The steps of get_proofs, one per await of the code.
PipelineSteps == {"block", "prev", "poll", "meta", "verify", "storage"}

-----------------------------------------------------------------------------
(* Helpers translated from the code.                                       *)

\* next_number = block_number.checked_add(1): the block that carries the
\* finality proof of block_number.
FinalityProofHeight(h) == h + 1

\* get_proof_by_id(n) on an honest node: block n's proof field, signed by
\* the validators of block n-1 over block n-1.
StoredProof(n) == [covers |-> n - 1, signers |-> vset[n - 1]]

\* Mutant: checks that the proof is about the block but not who signed it.
VerifyProofIgnoringSigners(h, p, vs) == p.covers = h

\* axon_tools::verify_proof(block, previous_state_root, validators, proof):
\* the proof must be about this block and carry a quorum signature of the
\* given validator list.
VerifyProof(h, p, vs) == p.covers = h /\ p.signers = vs

-----------------------------------------------------------------------------
(* The chain.                                                              *)

\* Axon commits the next block; its validator set is the previous one or,
\* at an epoch change, another one.
ProduceBlock ==
    /\ tip < MaxHeight
    /\ \E v \in ValidatorSets :
         /\ tip' = tip + 1
         /\ vset' = [vset EXCEPT ![tip + 1] = v]
    /\ UNCHANGED pipeVars

-----------------------------------------------------------------------------
(* get_proofs(height, commitment_path).                                    *)

\* The call starts: get_proofs_ingredients computes previous_number with
\* checked_sub(1).expect(..), which panics for block 0 before any RPC.
Request ==
    /\ pc = "idle"
    /\ \E h \in RequestHeights :
         /\ req' = h
         /\ IF h = 0
              THEN /\ pc' = "panicked"
                   /\ outcome' = "panic"
              ELSE /\ pc' = "block"
                   /\ outcome' = "none"
    /\ proof' = NoValue
    /\ validators' = NoValue
    /\ UNCHANGED <<chainVars, result>>

\* Any awaited RPC of get_proofs_ingredients returns a transport error,
\* which `?` propagates to the caller.
RpcError ==
    /\ pc \in {"block", "prev", "poll", "meta"}
    /\ pc' = "idle"
    /\ outcome' = "rpc_error"
    /\ UNCHANGED <<chainVars, req, proof, validators, result>>

\* get_block_by_id(block_number): None is "failed to get block".
FetchBlock ==
    /\ pc = "block"
    /\ IF req <= tip
         THEN /\ pc' = "prev"
              /\ UNCHANGED outcome
         ELSE /\ pc' = "idle"
              /\ outcome' = "rpc_error"
    /\ UNCHANGED <<chainVars, req, proof, validators, result>>

\* get_block_by_id(previous_number).header.state_root: block req-1 exists
\* whenever block req does.
FetchPreviousStateRoot ==
    /\ pc = "prev"
    /\ req - 1 <= tip
    /\ pc' = "poll"
    /\ UNCHANGED <<chainVars, req, proof, validators, outcome, result>>

\* The loop on get_proof_by_id(next_number): while it returns None the code
\* sleeps one second and asks again (no visible state change); it leaves
\* the loop with the first proof the node returns.
PollFinalityProof ==
    /\ pc = "poll"
    /\ FinalityProofHeight(req) <= tip
    /\ \/ proof' = StoredProof(FinalityProofHeight(req))
       \/ /\ ByzantineRpc
          /\ proof' = [covers |-> FinalityProofHeight(req) - 1, signers |-> Forged]
    /\ pc' = "meta"
    /\ UNCHANGED <<chainVars, req, validators, outcome, result>>

\* get_current_metadata().verifier_list: the validator set of the current
\* epoch, i.e. of the tip at the time of the call, not of block req.
FetchMetadata ==
    /\ pc = "meta"
    /\ validators' = vset[tip]
    /\ pc' = "verify"
    /\ UNCHANGED <<chainVars, req, proof, outcome, result>>

\* verify_proof; on failure the debug dump is written with
\* std::fs::write(..).unwrap(), which panics when the write fails, and
\* otherwise the call returns Error::rpc_response("unverified axon block").
Verify ==
    /\ pc = "verify"
    /\ IF VerifyProof(req, proof, validators)
         THEN /\ pc' = "storage"
              /\ UNCHANGED outcome
         ELSE \/ /\ pc' = "idle"
                 /\ outcome' = "unverified"
              \/ /\ pc' = "panicked"
                 /\ outcome' = "panic"
    /\ UNCHANGED <<chainVars, req, proof, validators, result>>

\* Mutant: returns the bundle at the height of the block holding the
\* finality proof instead of the requested height.
FetchStorageProofAtProofHeight ==
    /\ pc = "storage"
    /\ \/ /\ pc' = "idle"
          /\ outcome' = "ok"
          /\ result' = [height |-> FinalityProofHeight(req),
                        signers |-> proof.signers, validators |-> validators]
       \/ /\ pc' = "panicked"
          /\ outcome' = "panic"
          /\ UNCHANGED result
    /\ UNCHANGED <<chainVars, req, proof, validators>>

\* eth_get_proof(contract, [commitment_slot], block_number).unwrap() and
\* assert!(!storage_proof.is_empty()): a transport error or an empty
\* storage proof panics; otherwise the proof bundle is assembled and
\* returned with the verified block and finality proof inside it.
FetchStorageProof ==
    /\ pc = "storage"
    /\ \/ /\ pc' = "idle"
          /\ outcome' = "ok"
          /\ result' = [height |-> req, signers |-> proof.signers,
                        validators |-> validators]
       \/ /\ pc' = "panicked"
          /\ outcome' = "panic"
          /\ UNCHANGED result
    /\ UNCHANGED <<chainVars, req, proof, validators>>

\* After a panic the chain runtime thread is gone: nothing of the relayer
\* happens any more.
Halted ==
    /\ pc = "panicked"
    /\ tip = MaxHeight
    /\ UNCHANGED vars

-----------------------------------------------------------------------------
Init ==
    /\ tip = 0
    /\ \E v \in ValidatorSets : vset = [h \in Heights |-> v]
    /\ pc = "idle"
    /\ req = 0
    /\ proof = NoValue
    /\ validators = NoValue
    /\ outcome = "none"
    /\ result = NoValue

Next ==
    \/ ProduceBlock
    \/ Request
    \/ RpcError
    \/ FetchBlock
    \/ FetchPreviousStateRoot
    \/ PollFinalityProof
    \/ FetchMetadata
    \/ Verify
    \/ FetchStorageProof
    \/ Halted

Spec == Init /\ [][Next]_vars

-----------------------------------------------------------------------------
(* Properties.                                                             *)

Results == [height : RequestHeights, signers : ValidatorSets \cup {Forged},
            validators : ValidatorSets]

TypeOK ==
    /\ tip \in Heights
    /\ vset \in [Heights -> ValidatorSets]
    /\ pc \in PipelineSteps \cup {"idle", "panicked"}
    /\ req \in RequestHeights
    /\ proof \in Proofs \cup {NoValue}
    /\ validators \in ValidatorSets \cup {NoValue}
    /\ outcome \in Outcomes
    /\ result \in Results \cup {NoValue}

\* Spec section 8: get_proofs never returns an unverified proof.  Whenever
\* the last call returned a proof bundle, the finality proof inside it was
\* signed by the validator set that the chain really had at the proven
\* height, and it verifies against the validator list fetched with it.
\* This depends on verify_proof gating the return, on the proof being
\* fetched from block height+1 and on the chain never rewriting vset of a
\* finalised block.
OkProofIsFinalized ==
    outcome = "ok" =>
        /\ result.signers = vset[result.height]
        /\ result.signers = result.validators

\* The refinement mapping to AxonProofService: a call is busy at any step of
\* get_proofs; the proof and the validator list it fetched are hidden.
CallState == IF pc \in PipelineSteps THEN "busy" ELSE pc

ProofService == INSTANCE AxonProofService WITH call <- CallState

\* Spec sections 3 and 8: get_proofs, with the chain moving and rotating
\* validators between every await and a node that may corrupt proofs,
\* behaves as an atomic call that fails, panics, or returns the bundle of
\* the requested height, finalised by the next block and signed by the
\* validator set the chain had at that height.
ImplementsProofService == ProofService!Spec

\* Spec section 3: the four proof ingredients must be mutually consistent,
\* so verification fails only for a corrupted proof.  The code checks the
\* proof of block h against the validator set of the current epoch.
UnverifiedOnlyIfCorrupted ==
    outcome = "unverified" => proof.signers = Forged

\* Spec section 8: get_proofs at height 0 fails with InvalidHeight, an
\* error returned to the caller, without any network call.
HeightZeroIsAnError ==
    (req = 0 /\ outcome # "none") => outcome = "rpc_error"

=============================================================================
