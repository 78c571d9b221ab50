------------------------------ MODULE MCEngine ------------------------------
(***************************************************************************)
(* Instance for TLC of what goes on in the process beside the window: the  *)
(* event recorder, the follows of a log tail, and an investigation with    *)
(* its refreshes.  One of them runs in each behaviour.                     *)
(***************************************************************************)
EXTENDS Recorder, LogStreamer, LiveSession

CONSTANT n1   \* the namespace of all events

MCNsOf == [u \in Uids |-> n1]

MCEvidencePool == {[src |-> "event", sev |-> "high", about |-> "o1"]}
MCClusterHealth == <<"nominal">> @@ (0 :> "active")

VARIABLE area   \* the part that runs

Runs(x) == area = x /\ UNCHANGED area

EngineInit ==
  /\ area \in {"recorder", "tail", "investigation"}
  /\ Init /\ TailInit /\ LiveInit
  /\ \A p \in TailPods : pods[p] = IF area = "tail" THEN TailContainers ELSE {}

EngineNext ==
  \/ Runs("recorder") /\ Next /\ UNCHANGED <<tailVars, liveVars>>
  \/ Runs("tail") /\ TailNext /\ UNCHANGED <<vars, liveVars>>
  \/ Runs("investigation") /\ LiveNext /\ UNCHANGED <<vars, tailVars>>

(* The recorder's goroutines are scheduled, the manager starts again what has
   stopped, and a probe, a call or a write that is tried again for ever succeeds
   some time (refusals are faults, and those are bounded). *)
RecorderFairness ==
  LET Fair(A) == area = "recorder" /\ A IN
  /\ WF_vars(Fair(Start)) /\ WF_vars(Fair(PlanEnd)) /\ WF_vars(Fair(RunExit))
  /\ WF_vars(Fair(\E a \in Apis, p \in Plans : Probe(a, p)))
  /\ WF_vars(Fair(WriterTake)) /\ WF_vars(Fair(WriterTick)) /\ WF_vars(Fair(WriterClose))
  /\ \A s \in Streams : WF_vars(Fair(StreamProgress(s)))

EngineSpec ==
  /\ EngineInit /\ [][EngineNext]_<<area, vars, tailVars, liveVars>>
  /\ RecorderFairness /\ TailFairness /\ LiveFairness
=============================================================================
