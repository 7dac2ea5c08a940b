------------------------- MODULE AxonEndpointProofs -------------------------
(***************************************************************************)
(* Proofs about the endpoint's lifecycle (AxonEndpoint), for every chain   *)
(* bound and set of validator sets.  The lifecycle steps leave the proof   *)
(* pipeline's variables alone and the pipeline's steps leave the           *)
(* lifecycle's alone, so the argument is about the lifecycle only, and    *)
(* what AxonProofPipelineProofs proves of get_proofs carries over to the   *)
(* endpoint.                                                               *)
(***************************************************************************)
EXTENDS AxonEndpoint, AxonProofPipelineProofs, TLAPS

\* The inductive invariant: a command channel is kept exactly when one
\* monitor was started, and the monitor thread exists exactly then; after
\* shutdown the monitor is not running.
LifeInv ==
    /\ spawned \in {0, 1}
    /\ monitorCmd \in {"none", "some"}
    /\ monitor \in {"none", "running", "stopping", "stopped"}
    /\ shut \in BOOLEAN
    /\ (monitorCmd = "none") <=> (spawned = 0)
    /\ (monitorCmd = "none") <=> (monitor = "none")
    /\ shut => monitor # "running"

LEMMA LifeInvInit == EndpointInit => LifeInv
BY DEF EndpointInit, LifeInv

LEMMA LifeInvStep == LifeInv /\ [EndpointNext]_endpointVars => LifeInv'
<1> SUFFICES ASSUME LifeInv, [EndpointNext]_endpointVars PROVE LifeInv'
    OBVIOUS
<1> USE DEF LifeInv
<1>1. CASE UNCHANGED lifeVars
      BY <1>1 DEF lifeVars
<1>2. CASE Subscribe
  <2>1. CASE monitorCmd = "some"
        BY <1>2, <2>1 DEF Subscribe
  <2>2. CASE monitorCmd # "some"
        BY <1>2, <2>2 DEF Subscribe, InitEventMonitor
  <2> QED BY <2>1, <2>2
<1>3. CASE Shutdown
      BY <1>3 DEF Shutdown
<1>4. CASE MonitorExits
      BY <1>4 DEF MonitorExits
<1>5. CASE MonitorStops
      BY <1>5 DEF MonitorStops
<1>6. CASE UNCHANGED endpointVars
      BY <1>6 DEF endpointVars
<1> QED
  <2>1. EndpointNext => UNCHANGED lifeVars \/ Subscribe \/ Shutdown
                        \/ MonitorExits \/ MonitorStops
        BY DEF EndpointNext, Consumed, endpointVars, lifeVars
  <2> QED BY <1>1, <1>2, <1>3, <1>4, <1>5, <1>6, <2>1

\* Spec section 8, subscribe is idempotent: for every chain bound, however
\* subscribe, shutdown and get_proofs interleave and whether
\* init_event_monitor fails or the monitor dies, the endpoint starts at
\* most one monitor thread.
THEOREM MonitorStartedOnceHolds == EndpointSpec => []MonitorStartedOnce
<1>1. LifeInv => MonitorStartedOnce
      BY DEF LifeInv, MonitorStartedOnce
<1> QED BY <1>1, LifeInvInit, LifeInvStep, PTL DEF EndpointSpec

\* Spec section 3, shutdown terminates the monitor: for every chain bound,
\* after shutdown(self) the monitor thread is never running.
THEOREM ShutdownHaltsMonitorHolds == EndpointSpec => []ShutdownHaltsMonitor
<1>1. LifeInv => ShutdownHaltsMonitor
      BY DEF LifeInv, ShutdownHaltsMonitor
<1> QED BY <1>1, LifeInvInit, LifeInvStep, PTL DEF EndpointSpec

-----------------------------------------------------------------------------
(* get_proofs inside the endpoint.                                         *)

\* A step of the endpoint is a step of get_proofs and the chain, or leaves
\* their variables alone: a request is only refused after shutdown.
LEMMA EndpointStepIsPipelineStep ==
    [EndpointNext]_endpointVars => [Next]_vars
<1> SUFFICES ASSUME [EndpointNext]_endpointVars PROVE [Next]_vars
    OBVIOUS
<1>1. CASE /\ \/ ProduceBlock
             \/ (Request /\ ~shut)
             \/ RpcError
             \/ FetchBlock
             \/ FetchPreviousStateRoot
             \/ PollFinalityProof
             \/ FetchMetadata
             \/ Verify
             \/ FetchStorageProof
             \/ Halted
           /\ UNCHANGED lifeVars
      BY <1>1 DEF Next
<1>2. CASE Subscribe \/ Shutdown \/ MonitorExits \/ MonitorStops \/ Consumed
      BY <1>2 DEF Subscribe, Shutdown, MonitorExits, MonitorStops, Consumed,
                  InitEventMonitor, vars, chainVars, pipeVars, endpointVars
<1>3. CASE UNCHANGED endpointVars
      BY <1>3 DEF vars, endpointVars
<1> QED BY <1>1, <1>2, <1>3 DEF EndpointNext

\* IInv of get_proofs is an invariant of the endpoint.
LEMMA EndpointIInv == EndpointSpec => []IInv
<1>1. EndpointInit => IInv
      BY IInvInit DEF EndpointInit
<1>2. IInv /\ [EndpointNext]_endpointVars => IInv'
      BY IInvStep, EndpointStepIsPipelineStep
<1> QED BY <1>1, <1>2, PTL DEF EndpointSpec

\* EndpointSpec => []TypeOK: with subscribe and shutdown between the calls,
\* get_proofs and the chain keep their variables in their types.
THEOREM EndpointTypeCorrect == EndpointSpec => []TypeOK
<1>1. IInv => TypeOK
      BY DEF IInv
<1> QED BY <1>1, EndpointIInv, PTL

\* EndpointSpec => []OkProofIsFinalized: a bundle get_proofs returns from
\* the endpoint carries a finality proof signed by the validator set of
\* the proven block, whatever the lifecycle did between the calls.
THEOREM EndpointProofIsFinalized == EndpointSpec => []OkProofIsFinalized
<1>1. IInv => OkProofIsFinalized
      BY DEF IInv, ResultFinal, OkProofIsFinalized
<1> QED BY <1>1, EndpointIInv, PTL

\* EndpointSpec => ImplementsProofService: inside the endpoint, with the
\* monitor's lifecycle between the calls, get_proofs still behaves as the
\* atomic call of AxonProofService.
THEOREM EndpointServiceRefinement == EndpointSpec => ImplementsProofService
<1>1. EndpointInit => ProofService!Init
      BY ServiceInit DEF EndpointInit
<1>2. IInv /\ [EndpointNext]_endpointVars
        => [ProofService!Next]_ProofService!serviceVars
      BY ServiceStep, EndpointStepIsPipelineStep
<1> QED BY <1>1, <1>2, EndpointIInv, PTL
        DEF EndpointSpec, ImplementsProofService, ProofService!Spec

=============================================================================
