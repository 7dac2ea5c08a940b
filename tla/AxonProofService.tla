------------------------- MODULE AxonProofService -------------------------
(***************************************************************************)
(* What AxonChain::get_proofs promises its caller, as an atomic call       *)
(* beside a chain that keeps producing blocks and may rotate validators.   *)
(* A call either fails with an error the caller sees, ends the chain       *)
(* runtime (a panic), or returns in one step the proof bundle of the       *)
(* requested height: a finality proof of that block, taken from the next   *)
(* block, signed by the validator set the chain had at that height and     *)
(* verified against that same set.  The requests, the RPC awaits, the      *)
(* proof and the validator list fetched on the way are not visible here.   *)
(***************************************************************************)
EXTENDS Naturals

CONSTANTS
    MaxHeight,      \* the chain produces blocks 0..MaxHeight
    ValidatorSets,  \* the validator sets the chain may use
    NoValue         \* "nothing returned yet"

VARIABLES
    tip,      \* the latest committed block
    vset,     \* vset[h] is the validator set of block h
    call,     \* "idle", "busy" (a call of get_proofs runs) or "panicked"
    req,      \* the height the last call asked for
    outcome,  \* how the last call ended
    result    \* the bundle the last successful call returned

serviceVars == <<tip, vset, call, req, outcome, result>>

Heights == 0..MaxHeight

Init ==
    /\ tip = 0
    /\ \E v \in ValidatorSets : vset = [h \in Heights |-> v]
    /\ call = "idle"
    /\ req = 0
    /\ outcome = "none"
    /\ result = NoValue

\* The chain commits the next block with the same or another validator set;
\* the sets of committed blocks never change.
ProduceBlock ==
    /\ tip < MaxHeight
    /\ \E v \in ValidatorSets :
         /\ tip' = tip + 1
         /\ vset' = [vset EXCEPT ![tip + 1] = v]
    /\ UNCHANGED <<call, req, outcome, result>>

\* A call starts for a height the chain goes on to finalise; the call for
\* block 0 ends the runtime at once.
Call ==
    /\ call = "idle"
    /\ \E h \in 0..(MaxHeight - 1) :
         /\ req' = h
         /\ IF h = 0 THEN call' = "panicked" /\ outcome' = "panic"
                     ELSE call' = "busy" /\ outcome' = "none"
    /\ UNCHANGED <<tip, vset, result>>

\* The call returns an error.
Fail ==
    /\ call = "busy"
    /\ call' = "idle"
    /\ outcome' \in {"rpc_error", "unverified"}
    /\ UNCHANGED <<tip, vset, req, result>>

\* The call panics and the runtime is gone.
Crash ==
    /\ call = "busy"
    /\ call' = "panicked"
    /\ outcome' = "panic"
    /\ UNCHANGED <<tip, vset, req, result>>

\* The call returns the bundle of the requested height, once the block
\* after it (which holds its finality proof) is committed.
Return ==
    /\ call = "busy"
    /\ req + 1 <= tip
    /\ call' = "idle"
    /\ outcome' = "ok"
    /\ result' = [height |-> req, signers |-> vset[req],
                  validators |-> vset[req]]
    /\ UNCHANGED <<tip, vset, req>>

Next ==
    \/ ProduceBlock
    \/ Call
    \/ Fail
    \/ Crash
    \/ Return

Spec == Init /\ [][Next]_serviceVars

=============================================================================
