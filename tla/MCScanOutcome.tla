---------------------------- MODULE MCScanOutcome ----------------------------
(* What a scan tells its clients: the verdict its evidence gives on a control *)
(* and the log a WebSocket follows.  The parts share no state, so each        *)
(* behaviour runs one of them.                                                *)
EXTENDS AsvsEvidence, ScanStream

AllStrategies == Strategies
Static        == {"static"}

VARIABLE part

OutcomeInit ==
  /\ part \in {"evidence", "stream"}
  /\ Init
  /\ part = "stream" => strategy = "static" /\ rules = "none"
  /\ StreamInit

OutcomeNext ==
  \/ part = "evidence" /\ Next /\ UNCHANGED <<streamVars, part>>
  \/ part = "stream" /\ StreamNext /\ UNCHANGED <<vars, part>>

\* The fairness of FairStreamSpec.
OutcomeSpec ==
  /\ OutcomeInit /\ [][OutcomeNext]_<<vars, streamVars, part>>
  /\ \A c \in Streams \X Scans : WF_streamVars(Round(c))
=============================================================================
