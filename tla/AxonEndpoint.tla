---------------------------- MODULE AxonEndpoint ----------------------------
(***************************************************************************)
(* The Axon chain endpoint's lifecycle (AxonChain::subscribe, shutdown and *)
(* init_event_monitor in crates/relayer/src/chain/axon.rs) composed with   *)
(* its proof pipeline (AxonProofPipeline).  The endpoint's methods take    *)
(* self or &mut self and its requests are served one at a time by the      *)
(* chain runtime, so a subscribe or a shutdown happens only between two    *)
(* calls of get_proofs, never inside one.  The event monitor runs on a     *)
(* thread of its own beside the runtime; it may stop by itself (its        *)
(* WebSocket connection fails) and it stops on the Shutdown command.       *)
(*                                                                         *)
(* The monitor and its command channel (AxonEventMonitor, TxMonitorCmd)    *)
(* are outside the modelled sources and follow the spec (sections 3 and   *)
(* 8): subscribe and shutdown are commands on the channel, which fail once *)
(* the monitor thread is gone.                                             *)
(***************************************************************************)
EXTENDS AxonProofPipeline

VARIABLES
    monitorCmd,  \* self.tx_monitor_cmd: "none" or "some"
    monitor,     \* the monitor thread: "none", "running", "stopping", "stopped"
    spawned,     \* number of monitor threads init_event_monitor started
    shut         \* shutdown(self) was called: the endpoint is consumed

lifeVars == <<monitorCmd, monitor, spawned, shut>>
endpointVars == <<tip, vset, pc, req, proof, validators, outcome, result,
                  monitorCmd, monitor, spawned, shut>>

-----------------------------------------------------------------------------
(* The endpoint's lifecycle.                                               *)

\* TxMonitorCmd::subscribe: answered while the monitor thread runs, an
\* error once it is gone; no state of the endpoint changes either way.
\* init_event_monitor: AxonEventMonitor::new may fail, which `?` returns;
\* otherwise the monitor is started on a new thread and its command
\* channel is kept.
InitEventMonitor ==
    \/ UNCHANGED <<monitorCmd, monitor, spawned>>
    \/ /\ monitorCmd' = "some"
       /\ monitor' = "running"
       /\ spawned' = spawned + 1

\* Mutant: the monitor is started again on every subscribe.
SubscribeAlwaysInit ==
    /\ pc = "idle"
    /\ ~shut
    /\ spawned < 2
    /\ InitEventMonitor
    /\ UNCHANGED <<shut, chainVars, pipeVars>>

\* subscribe(&mut self): the kept command channel is reused; only when
\* there is none is init_event_monitor called and its channel kept.  The
\* subscription itself is then asked of the monitor.
Subscribe ==
    /\ pc = "idle"
    /\ ~shut
    /\ IF monitorCmd = "some"
         THEN UNCHANGED <<monitorCmd, monitor, spawned>>
         ELSE InitEventMonitor
    /\ UNCHANGED <<shut, chainVars, pipeVars>>

\* Mutant: shutdown drops the command channel without sending Shutdown.
ShutdownWithoutCommand ==
    /\ pc = "idle"
    /\ ~shut
    /\ shut' = TRUE
    /\ UNCHANGED <<monitorCmd, monitor, spawned, chainVars, pipeVars>>

\* shutdown(self): when a command channel was kept, Shutdown is sent on
\* it (an error if the monitor is gone); with none it returns Ok.  The
\* endpoint is consumed.
Shutdown ==
    /\ pc = "idle"
    /\ ~shut
    /\ shut' = TRUE
    /\ monitor' = IF monitorCmd = "some" /\ monitor = "running"
                    THEN "stopping" ELSE monitor
    /\ UNCHANGED <<monitorCmd, spawned, chainVars, pipeVars>>

\* The monitor thread ends by itself: its subscription to the chain's
\* logs fails.  Nothing restarts it and tx_monitor_cmd is kept.
MonitorExits ==
    /\ monitor = "running"
    /\ monitor' = "stopped"
    /\ UNCHANGED <<monitorCmd, spawned, shut, chainVars, pipeVars>>

\* The monitor thread takes the Shutdown command and ends.
MonitorStops ==
    /\ monitor = "stopping"
    /\ monitor' = "stopped"
    /\ UNCHANGED <<monitorCmd, spawned, shut, chainVars, pipeVars>>

-----------------------------------------------------------------------------
(* The endpoint: the chain, get_proofs until shutdown, and the lifecycle. *)

EndpointInit ==
    /\ Init
    /\ monitorCmd = "none"
    /\ monitor = "none"
    /\ spawned = 0
    /\ shut = FALSE

\* The endpoint is consumed and the chain has stopped within the bound.
Consumed ==
    /\ shut
    /\ tip = MaxHeight
    /\ monitor # "stopping"
    /\ UNCHANGED endpointVars

EndpointNext ==
    \/ /\ \/ ProduceBlock
          \/ Request /\ ~shut
          \/ RpcError
          \/ FetchBlock
          \/ FetchPreviousStateRoot
          \/ PollFinalityProof
          \/ FetchMetadata
          \/ Verify
          \/ FetchStorageProof
          \/ Halted
       /\ UNCHANGED lifeVars
    \/ Subscribe
    \/ Shutdown
    \/ MonitorExits
    \/ MonitorStops
    \/ Consumed

EndpointSpec == EndpointInit /\ [][EndpointNext]_endpointVars

-----------------------------------------------------------------------------
(* Properties.                                                             *)

\* Spec section 8: subscribe is idempotent; however the calls of subscribe
\* and get_proofs interleave, and whether init_event_monitor fails or the
\* monitor dies, at most one monitor thread is ever started per endpoint.
MonitorStartedOnce == spawned <= 1

\* Spec section 3, the safety half of terminating the monitor: once
\* shutdown(self) has been called, the monitor thread is never running;
\* it was never started, it was sent Shutdown, or it had already stopped,
\* however subscribe and the monitor's own failure came before.
ShutdownHaltsMonitor == shut => monitor # "running"

=============================================================================
