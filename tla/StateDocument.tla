--------------------------- MODULE StateDocument ---------------------------
(***************************************************************************)
(* What the normalizers make of a state document that parses but is        *)
(* damaged or was written by another version: the learning state, the      *)
(* version lineage registry and the venue health state.  Each record they  *)
(* know has a schema, the value every field falls back to; a field of the  *)
(* right kind is kept, any other one becomes its fallback, and the next    *)
(* save makes that the document.  Two relations between the parts are      *)
(* mended on the way: the calibration contexts a variant lists, and the    *)
(* indices over the recorded decisions.                                    *)
(***************************************************************************)
EXTENDS Naturals, FiniteSets

CONSTANTS
  Damages,   \* fields an editor, a disk or an older version may spoil
  Ids,       \* the ids of the decisions and of the calibration contexts
  MaxLoads   \* loads followed

DocumentAssumption == Damages \in Nat /\ IsFiniteSet(Ids) /\ MaxLoads \in Nat

Fields(names, fallback) == [f \in names |-> fallback]

(* A function that takes each argument from the first of two that has it. *)
Or(f, g) == [x \in DOMAIN f \cup DOMAIN g |-> IF x \in DOMAIN f THEN f[x] ELSE g[x]]

-----------------------------------------------------------------------------
(* The schemas: the fields of a record with their fallbacks.                     *)
CycleSummary ==
  Or(Fields({"cycleId"}, "unknown"), Or(Fields({"startedAt"}, "epoch"),
  Or(Fields({"completedAt", "reviewOutputs"}, "null"), Or(Fields({"status"}, "completed"),
  Or(Fields({"from", "to"}, "started"), Or(Fields({"outcomes", "slices", "updates", "actions"}, "zero"),
     Fields({"degraded", "warnings", "errors"}, "empty")))))))

ReviewOutputs ==
  Or(Fields({"retention", "drift", "regimeSizing"}, "empty"),
  Or(Fields({"samples"}, "zero"), Or(Fields({"driftState"}, "stable"), Fields({"generatedAt"}, "null"))))

SizingEntry ==
  Or(Fields({"sampleCount"}, "zero"), Or(Fields({"recommendedSizeMultiplier"}, "one"),
  Or(Fields({"reasonCodes"}, "empty"), Fields({"context", "retention", "gap"}, "null"))))

DriftEntry ==
  Or(Fields({"sampleCount"}, "zero"), Or(Fields({"calibrationDriftState"}, "stable"),
  Or(Fields({"driftReasonCodes"}, "empty"),
     Fields({"context", "predicted", "realized", "gap", "absoluteGap"}, "null"))))

VariantState ==
  Or(Fields({"strategyVariantId"}, "key"), Or(Fields({"health"}, "healthy"),
  Or(Fields({"lastLearningAt"}, "null"), Or(Fields({"regimeSnapshots", "calibrationContexts"}, "empty"),
     Fields({"promotion", "quarantine", "capital", "executionLearning"}, "default")))))

ExecutionContext ==
  Or(Fields({"contextKey"}, "key"), Or(Fields({"strategyVariantId"}, "unknown"),
  Or(Fields({"samples", "makers", "takers", "makerFill", "takerFill", "slippage", "score", "partial"}, "zero"),
  Or(Fields({"cancelSuccessRate"}, "one"), Or(Fields({"makerPunished"}, "false"),
  Or(Fields({"health"}, "healthy"), Or(Fields({"notes"}, "empty"),
     Fields({"regime", "delay", "activePolicyVersionId", "lastUpdatedAt"}, "null"))))))))

Calibration ==
  Or(Fields({"contextKey"}, "key"), Or(Fields({"strategyVariantId"}, "unknown"),
  Or(Fields({"sampleCount", "brierScore", "logLoss", "overconfidenceScore"}, "zero"),
  Or(Fields({"shrinkageFactor", "version"}, "one"), Or(Fields({"health"}, "healthy"),
  Or(Fields({"driftSignals"}, "empty"), Fields({"regime", "lastUpdatedAt"}, "null")))))))

AllocationSlice ==
  Or(Fields({"sliceKey", "sleeveValue"}, "key"), Or(Fields({"sleeveType"}, "variant"),
  Or(Fields({"samples", "capital", "expected", "realized", "share"}, "zero"),
  Or(Fields({"targetMultiplier"}, "one"), Fields({"retained", "lastUpdatedAt"}, "null")))))

DrawdownState ==
  Or(Fields({"sleeveKey", "sleeveValue"}, "key"), Or(Fields({"sleeveType"}, "variant"),
  Or(Fields({"realized", "peak", "trough", "current", "max"}, "zero"), Fields({"lastUpdatedAt"}, "null"))))

ConcentrationSignal ==
  Or(Fields({"signalKey", "sleeveValue"}, "key"), Or(Fields({"sleeveType"}, "variant"),
  Or(Fields({"share", "score"}, "zero"), Or(Fields({"penaltyMultiplier"}, "one"),
  Or(Fields({"severity"}, "none"), Or(Fields({"reasons"}, "empty"), Fields({"lastUpdatedAt"}, "null")))))))

CorrelationSignal ==
  Or(Fields({"signalKey"}, "key"), Or(Fields({"left", "right"}, "unknown"),
  Or(Fields({"samples", "overlap", "alignment"}, "zero"), Or(Fields({"penaltyMultiplier"}, "one"),
  Or(Fields({"hiddenOverlap"}, "false"), Or(Fields({"reasons"}, "empty"), Fields({"lastUpdatedAt"}, "null")))))))

AllocationDecision ==
  Or(Fields({"decisionKey"}, "key"), Or(Fields({"strategyVariantId"}, "unknown"),
  Or(Fields({"targetMultiplier"}, "one"), Or(Fields({"status"}, "hold"),
  Or(Fields({"reasons", "evidence"}, "empty"), Fields({"decidedAt"}, "null"))))))

PromotionRecord ==
  Or(Fields({"decision"}, "not_evaluated"),
  Or(Fields({"reasons", "evidence", "rollbackCriteria"}, "empty"), Fields({"decidedAt"}, "null")))

QuarantineRecord ==
  Or(Fields({"status", "severity"}, "none"), Or(Fields({"reasons", "evidence", "rollbackCriteria"}, "empty"),
     Fields({"variant", "regime", "market", "decidedAt", "until"}, "null")))

EvidenceReference ==
  Or(Fields({"source"}, "undefined"), Or(Fields({"metricSnapshot", "notes"}, "empty"),
     Fields({"sourceId", "path", "variant", "regime", "market", "window"}, "null")))

ParameterChange ==
  Or(Fields({"parameter"}, "unknown"), Or(Fields({"previousValue", "nextValue"}, "undefined"),
  Or(Fields({"rationale", "boundedBy", "evidenceRefs", "rollbackCriteria"}, "empty"),
     Fields({"variant", "regime", "market", "changedAt"}, "null"))))

DecisionRecord ==
  Or(Fields({"decisionType"}, "signal_execution"), Or(Fields({"recordedAt"}, "epoch"),
  Or(Fields({"summary"}, "key"), Or(Fields({"lineage", "replay", "tags"}, "empty"),
     Fields({"signalId", "signalDecisionId", "orderId", "marketId", "variant", "cycleId"}, "null")))))

VenueHealth ==
  Or(Fields({"venueId"}, "polymarket"), Or(Fields({"totalRequests"}, "zero"),
  Or(Fields({"latency", "failures", "stale", "orderLag", "tradeLag", "cancelLag"}, "empty"),
     Fields({"activeMode", "uncertaintyLabel"}, "null"))))

Schemas ==
  [summary |-> CycleSummary, reviews |-> ReviewOutputs, sizing |-> SizingEntry, drift |-> DriftEntry,
   variant |-> VariantState, execution |-> ExecutionContext, calibration |-> Calibration,
   slice |-> AllocationSlice, drawdown |-> DrawdownState, concentration |-> ConcentrationSignal,
   correlation |-> CorrelationSignal, allocation |-> AllocationDecision,
   promotion |-> PromotionRecord, quarantine |-> QuarantineRecord, evidence |-> EvidenceReference,
   change |-> ParameterChange, decision |-> DecisionRecord, venue |-> VenueHealth]

VARIABLES
  wrong,     \* the fields, each with its schema, that are not what they should be
  fallen,    \* what the fields that have fallen back hold
  decisions, \* ids of the decisions recorded
  index,     \* ids an index lists
  contexts,  \* context -> the variant its calibration is for
  listed,    \* variant -> the calibration contexts it lists
  spoiled,   \* fields damaged so far
  loads

vars == <<wrong, fallen, decisions, index, contexts, listed, spoiled, loads>>

Owners == {"a", "b"}

(* A document as the last save left it. *)
Init ==
  /\ wrong = {} /\ fallen = {}
  /\ decisions = Ids /\ index = Ids
  /\ contexts \in [Ids -> Owners]
  /\ listed = [v \in Owners |-> {i \in Ids : contexts[i] = v}]
  /\ spoiled = 0 /\ loads = 0

(* One field of a record is not what its type says. *)
DamageField ==
  /\ spoiled < Damages
  /\ \E s \in DOMAIN Schemas : \E f \in DOMAIN Schemas[s] :
       /\ <<s, f>> \notin wrong
       /\ wrong' = wrong \cup {<<s, f>>}
  /\ spoiled' = spoiled + 1
  /\ UNCHANGED <<fallen, decisions, index, contexts, listed, loads>>

(* A decision, or the list of a variant, is no longer there. *)
DamageRelation ==
  /\ spoiled < Damages
  /\ \/ \E d \in decisions : decisions' = decisions \ {d} /\ UNCHANGED listed
     \/ \E v \in Owners : listed' = [listed EXCEPT ![v] = {}] /\ UNCHANGED decisions
  /\ spoiled' = spoiled + 1
  /\ UNCHANGED <<wrong, fallen, index, contexts, loads>>

(* Mutant: an index is kept as it was read. *)
NormalizeIndexAsRead(ids, kept) == ids

(* normalizeIndex keeps the ids of the decisions that were kept. *)
NormalizeIndex(ids, kept) == ids \cap kept

(* normalizeLearningState: every calibration is listed by its variant. *)
Listed(lists) == [v \in Owners |-> lists[v] \cup {i \in Ids : contexts[i] = v}]

(* A field that cannot be read takes its fallback, which is a legal value of it. *)
Fallback(field) == <<field, Schemas[field[1]][field[2]]>>

(* load, and the save of what it returned. *)
Load ==
  /\ loads < MaxLoads
  /\ wrong' = {}
  /\ fallen' = {x \in fallen : x[1] \notin wrong} \cup {Fallback(field) : field \in wrong}
  /\ index' = NormalizeIndex(index, decisions)
  /\ listed' = Listed(listed)
  /\ loads' = loads + 1
  /\ UNCHANGED <<decisions, contexts, spoiled>>

Next == DamageField \/ DamageRelation \/ Load

Spec == Init /\ [][Next]_vars

-----------------------------------------------------------------------------
TypeOK ==
  /\ \A field \in wrong \cup {x[1] : x \in fallen} :
       field[1] \in DOMAIN Schemas /\ field[2] \in DOMAIN Schemas[field[1]]
  /\ decisions \subseteq Ids /\ index \subseteq Ids
  /\ spoiled \in 0 .. Damages /\ loads \in 0 .. MaxLoads

(* After a load the parts agree, whatever was damaged: an index names only      *)
(* decisions that are there, and a variant lists each of its calibrations.      *)
Agreed ==
  loads' # loads =>
    /\ index' \subseteq decisions'
    /\ \A i \in Ids : i \in listed'[contexts[i]]
PartsAgree == [][Agreed]_vars
=============================================================================
