--------------------- MODULE AxonProofPipelineProofs ---------------------
(***************************************************************************)
(* Proofs about AxonProofPipeline, for every MaxHeight and every set of    *)
(* validator sets: get_proofs is type correct, and a proof bundle it       *)
(* returns always carries a finality proof signed by the validator set the *)
(* chain had at the proven height.                                         *)
(***************************************************************************)
EXTENDS AxonProofPipeline, TLAPS

(***************************************************************************)
(* The strengthening of OkProofIsFinalized.  Between the poll and the      *)
(* return the code holds a proof of block req fetched from block req+1;    *)
(* that block is committed, so the chain never again changes vset[req].    *)
(* After the metadata fetch the validator list is a real validator set,    *)
(* and after a successful verify_proof the signers are that list.  A       *)
(* returned result keeps these facts about a height below the tip.         *)
(***************************************************************************)
ProofHeld ==
    pc \in {"meta", "verify", "storage"} =>
        /\ req + 1 <= tip
        /\ proof \in Proofs
        /\ proof.covers = req
        /\ proof.signers \in {vset[req], Forged}

ValidatorsHeld ==
    pc \in {"verify", "storage"} => validators \in ValidatorSets

ProofVerified ==
    pc = "storage" => proof.signers = validators

ResultFinal ==
    outcome = "ok" =>
        /\ result \in Results
        /\ result.height + 1 <= tip
        /\ result.signers = vset[result.height]
        /\ result.signers = result.validators

IInv ==
    /\ TypeOK
    /\ ProofHeld
    /\ ValidatorsHeld
    /\ ProofVerified
    /\ ResultFinal

-----------------------------------------------------------------------------
USE MaxHeightAssumption, ValidatorSetsAssumption, NoValueAssumption,
    ByzantineRpcAssumption

\* The facts of IInv hold in every initial state.
LEMMA IInvInit == Init => IInv
BY DEF Init, IInv, TypeOK, ProofHeld, ValidatorsHeld, ProofVerified,
       ResultFinal, Heights, RequestHeights, Outcomes

\* Every step of the chain or of get_proofs keeps IInv.
LEMMA IInvStep == IInv /\ [Next]_vars => IInv'
<1> SUFFICES ASSUME IInv, [Next]_vars PROVE IInv'
  OBVIOUS
<1> USE DEF IInv, TypeOK, ProofHeld, ValidatorsHeld, ProofVerified,
            ResultFinal
<1>1. CASE ProduceBlock
  BY <1>1 DEF ProduceBlock, Heights, pipeVars, Results, RequestHeights
<1>2. CASE Request
  BY <1>2 DEF Request, Outcomes, PipelineSteps, chainVars
<1>3. CASE RpcError
  BY <1>3 DEF RpcError, Outcomes, chainVars
<1>4. CASE FetchBlock
  BY <1>4 DEF FetchBlock, Outcomes, PipelineSteps, chainVars
<1>5. CASE FetchPreviousStateRoot
  BY <1>5 DEF FetchPreviousStateRoot, PipelineSteps, chainVars
<1>6. CASE PollFinalityProof
  BY <1>6 DEF PollFinalityProof, PipelineSteps, chainVars, Proofs,
              StoredProof, FinalityProofHeight, Heights, RequestHeights
<1>7. CASE FetchMetadata
  BY <1>7 DEF FetchMetadata, PipelineSteps, chainVars, Heights
<1>8. CASE Verify
  BY <1>8 DEF Verify, VerifyProof, Outcomes, PipelineSteps, chainVars
<1>9. CASE FetchStorageProof
  BY <1>9 DEF FetchStorageProof, Outcomes, chainVars, Results, Proofs,
              RequestHeights
<1>10. CASE Halted
  BY <1>10 DEF Halted, vars
<1>11. CASE UNCHANGED vars
  BY <1>11 DEF vars
<1>12. QED
  BY <1>1, <1>2, <1>3, <1>4, <1>5, <1>6, <1>7, <1>8, <1>9, <1>10, <1>11
     DEF Next

\* IInv is an invariant of get_proofs running against the chain.
LEMMA IInvInvariant == Spec => []IInv
BY IInvInit, IInvStep, PTL DEF Spec

\* Spec => []TypeOK: every variable of the pipeline and of the chain
\* stays in its type.
THEOREM TypeCorrect == Spec => []TypeOK
<1>1. IInv => TypeOK
  BY DEF IInv
<1>2. QED
  BY <1>1, IInvInvariant, PTL

\* Spec => []OkProofIsFinalized: for every chain height bound and every set
\* of validator sets, a proof bundle returned by get_proofs carries a
\* finality proof signed by the validator set of the proven block.
THEOREM ReturnedProofIsFinalized == Spec => []OkProofIsFinalized
<1>1. IInv => OkProofIsFinalized
  BY DEF IInv, ResultFinal, OkProofIsFinalized
<1>2. QED
  BY <1>1, IInvInvariant, PTL

-----------------------------------------------------------------------------
(***************************************************************************)
(* Refinement: get_proofs implements AxonProofService.  The initial state  *)
(* maps to the service's; a step of the chain is the service's            *)
(* ProduceBlock; Request is Call; every error return is Fail, every panic *)
(* is Crash; FetchStorageProof's Ok is Return, whose bundle is the one     *)
(* the code assembles because of IInv (the proof covers req, its signers   *)
(* are the fetched validators, a real validator set, hence vset[req]);     *)
(* the other awaits change only hidden variables and are stutters.         *)
(***************************************************************************)

\* Every initial state of get_proofs is an initial state of the service.
LEMMA ServiceInit == Init => ProofService!Init
BY DEF Init, ProofService!Init, CallState, PipelineSteps, Heights,
       ProofService!Heights

\* Every step of get_proofs or of the chain is a step of the service or
\* leaves the service's state alone.
LEMMA ServiceStep ==
    IInv /\ [Next]_vars => [ProofService!Next]_ProofService!serviceVars
<1> SUFFICES ASSUME IInv, [Next]_vars
             PROVE  [ProofService!Next]_ProofService!serviceVars
  OBVIOUS
<1> USE DEF ProofService!serviceVars, CallState, PipelineSteps
<1>1. CASE ProduceBlock
  BY <1>1 DEF ProduceBlock, ProofService!Next, ProofService!ProduceBlock,
              pipeVars
<1>2. CASE Request
  BY <1>2 DEF Request, ProofService!Next, ProofService!Call, chainVars,
              RequestHeights
<1>3. CASE RpcError
  BY <1>3 DEF RpcError, ProofService!Next, ProofService!Fail, chainVars
<1>4. CASE FetchBlock
  BY <1>4 DEF FetchBlock, ProofService!Next, ProofService!Fail, chainVars
<1>5. CASE FetchPreviousStateRoot
  BY <1>5 DEF FetchPreviousStateRoot, chainVars
<1>6. CASE PollFinalityProof
  BY <1>6 DEF PollFinalityProof, chainVars
<1>7. CASE FetchMetadata
  BY <1>7 DEF FetchMetadata, chainVars
<1>8. CASE Verify
  BY <1>8 DEF Verify, ProofService!Next, ProofService!Fail,
              ProofService!Crash, chainVars
<1>9. CASE FetchStorageProof
  <2>1. /\ req + 1 <= tip
        /\ proof.signers = vset[req]
        /\ validators = vset[req]
    <3>1. pc = "storage"
      BY <1>9 DEF FetchStorageProof
    <3>2. /\ req + 1 <= tip
          /\ proof.signers \in {vset[req], Forged}
          /\ proof.signers = validators
          /\ validators \in ValidatorSets
      BY <3>1 DEF IInv, ProofHeld, ProofVerified, ValidatorsHeld
    <3> QED BY <3>2, ValidatorSetsAssumption
  <2> QED
    BY <1>9, <2>1 DEF FetchStorageProof, ProofService!Next,
                      ProofService!Return, ProofService!Crash, chainVars
<1>10. CASE Halted
  BY <1>10 DEF Halted, vars
<1>11. CASE UNCHANGED vars
  BY <1>11 DEF vars
<1>12. QED
  BY <1>1, <1>2, <1>3, <1>4, <1>5, <1>6, <1>7, <1>8, <1>9, <1>10, <1>11
     DEF Next

\* Spec => ImplementsProofService: for every chain bound and set of
\* validator sets, and with an RPC node that may corrupt finality proofs,
\* get_proofs behaves as an atomic call that fails, panics, or returns the
\* bundle of the requested height, finalised and signed by the validator set
\* the chain had at that height.
THEOREM ServiceRefinement == Spec => ImplementsProofService
BY ServiceInit, ServiceStep, IInvInvariant, PTL
   DEF Spec, ImplementsProofService, ProofService!Spec

=============================================================================
