------------------------------ MODULE EvalGate ------------------------------
(***************************************************************************)
(* The CI gate over the baseline samples, a caller of the diagnosis: it    *)
(* takes a client without an API key, diagnoses every sample in turn, has  *)
(* each diagnosis scored by the judge and classifies the mean.  The other  *)
(* callers of Diagnosis keep their own behaviour here.                     *)
(***************************************************************************)
EXTENDS Diagnosis, FiniteSetsExt

CONSTANTS
  Dims,         \* the five dimensions of a scorecard
  Scores,       \* what the judge may put in a field; 0 stands for a missing one
  MaxSamples,   \* bound on the samples of a baseline
  PassThreshold, WarnFloor

ASSUME GateAssumption ==
  /\ Scores \subseteq Nat /\ IsFiniteSet(Dims) /\ MaxSamples \in Nat
  /\ PassThreshold \in Nat /\ WarnFloor \in Nat /\ WarnFloor <= PassThreshold

VARIABLES
  gate,        \* "off" when the caller is another one, else the step of the gate
  samples,     \* len(samples)
  PerSample, sum,
  verdict      \* which of Pass, Warn, Fail is set, or "none"

gateVars == <<gate, samples, PerSample, sum, verdict>>
allVars  == <<vars, gateVars>>

Total(card) == MapThenSumSet(LAMBDA d : card[d], Dims)
InRange(card) == \A d \in Dims : card[d] \in 1..5

\* sum / n against the thresholds
Classify(total, n) ==
  IF total >= PassThreshold * n THEN "pass"
  ELSE IF total >= WarnFloor * n THEN "warn" ELSE "fail"

GateInit ==
  /\ Init
  /\ gate \in {"off", "start"} /\ samples = 0
  /\ PerSample = <<>> /\ sum = 0 /\ verdict = "none"

\* EvaluateBaseline is called; without samples it fails at once.
StartGate ==
  /\ gate = "start"
  /\ samples' \in 0..MaxSamples
  /\ IF samples' = 0 THEN gate' = "done" /\ verdict' = "fail"
                     ELSE gate' = "diagnose" /\ UNCHANGED verdict
  /\ UNCHANGED <<vars, PerSample, sum>>

DiagnoseSample ==
  /\ gate = "diagnose"
  /\ Begin(TRUE, FALSE)
  /\ gate' = "wait"
  /\ UNCHANGED <<samples, PerSample, sum, verdict>>

\* Diagnose returns to the gate.  An error would end it: a client without an
\* API key returns none.
TakeDiagnosis ==
  /\ gate = "wait" /\ pc = "done"
  /\ pc' = "idle"
  /\ IF outcome = "failed" THEN gate' = "done" /\ verdict' = "fail"
                           ELSE gate' = "score" /\ UNCHANGED verdict
  /\ UNCHANGED <<client, cancelled, messages, round, books, outcome, row>>
  /\ UNCHANGED <<samples, PerSample, sum>>

\* A sample the judge cannot score is left out.
MutantScoreSample ==
  /\ gate = "score"
  /\ \E card \in [Dims -> Scores] :
       IF InRange(card)
         THEN /\ PerSample' = Append(PerSample, card) /\ sum' = sum + Total(card)
              /\ IF Len(PerSample') = samples
                   THEN gate' = "done" /\ verdict' = Classify(sum', samples)
                   ELSE gate' = "diagnose" /\ UNCHANGED verdict
         ELSE /\ gate' = "done" /\ UNCHANGED <<PerSample, sum>>
              /\ verdict' = Classify(sum, Len(PerSample))
  /\ UNCHANGED <<vars, samples>>

\* judge.Score: the model cannot be reached or its answer is not a scorecard,
\* a score is out of range, or the card counts.
ScoreSample ==
  /\ gate = "score"
  /\ \/ gate' = "done" /\ verdict' = "fail" /\ UNCHANGED <<PerSample, sum>>
     \/ \E card \in [Dims -> Scores] :
          /\ InRange(card)
          /\ PerSample' = Append(PerSample, card) /\ sum' = sum + Total(card)
          /\ IF Len(PerSample') = samples
               THEN gate' = "done" /\ verdict' = Classify(sum', samples)
               ELSE gate' = "diagnose" /\ UNCHANGED verdict
     \/ \E card \in [Dims -> Scores] :
          /\ ~InRange(card)
          /\ gate' = "done" /\ verdict' = "fail" /\ UNCHANGED <<PerSample, sum>>
  /\ UNCHANGED <<vars, samples>>

Gate == StartGate \/ DiagnoseSample \/ TakeDiagnosis \/ ScoreSample

GateNext ==
  \/ gate = "off" /\ (\E s, d \in BOOLEAN : Begin(s, d)) /\ UNCHANGED gateVars
  \/ (Run \/ Cancel) /\ UNCHANGED gateVars
  \/ Gate

GateSpec == GateInit /\ [][GateNext]_allVars

\* As in FairSpec, whoever the caller is.
GateFairSpec == GateSpec /\ WF_allVars(Run /\ UNCHANGED gateVars)

-----------------------------------------------------------------------------
\* CardTotals[n] is the total of the first n of the reported cards.
CardTotals[n \in 0..Len(PerSample)] ==
  IF n = 0 THEN 0 ELSE CardTotals[n - 1] + Total(PerSample[n])

\* The verdict against the scorecards that are reported with it: nothing but
\* a full baseline of valid cards passes or warns, and it does so exactly
\* when their mean reaches the threshold.
VerdictMatchesCards ==
  gate = "done" =>
    LET full    == samples > 0 /\ Len(PerSample) = samples
        reaches(t) == CardTotals[Len(PerSample)] >= t * samples
    IN /\ verdict = "pass" <=> full /\ reaches(PassThreshold)
       /\ verdict = "warn" <=> full /\ reaches(WarnFloor) /\ ~reaches(PassThreshold)
       /\ verdict \in {"pass", "warn", "fail"}
       /\ \A n \in DOMAIN PerSample : InRange(PerSample[n])

=============================================================================
