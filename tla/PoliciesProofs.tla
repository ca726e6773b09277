--------------------------- MODULE PoliciesProofs ---------------------------
(***************************************************************************)
(* Proofs about the start of the process, the safety state and the way of  *)
(* the signals: a start that passed left no order behind, a milder safety  *)
(* state waits for its cooldown, worse evidence never yields a milder      *)
(* verdict, a refused signal stays refused and an order stays within what  *)
(* its decision and its reviewers allowed.                                 *)
(***************************************************************************)
EXTENDS MCPolicies, Sequences, WellFoundedInduction, TLAPS

-----------------------------------------------------------------------------
(* The start                                                                *)

\* While the order of the harness rests, no capture allows to manage positions.
LEMMA RestingIsDivergence ==
  ASSUME resting = TRUE, NEW age
  PROVE  ~Starting!TruthHealthy(age)
<1>1. Starting!Truth!Recovery({"order_unknown_to_local"}) = "manual_review"
  BY DEF Starting!Truth!Recovery
<1>2. ~Starting!Capture(age).management
  BY <1>1 DEF Starting!Capture, Starting!Truth!Permissions
<1> QED
  BY <1>2 DEF Starting!TruthHealthy

\* How far a start came tells what it has left at the venue.  Before the smoke the
\* harness has not run; without a failure nothing rests when it begins, and nothing
\* rests once it passed; a harness that did not pass is a failure, a start that runs
\* none needs a suite that passed before.
Before == {"preflight", "credentials", "identity", "reads", "book", "truth"}
After == {"evidence", "gate"}
Cleared ==
  /\ resting \in BOOLEAN
  /\ pc \in Before => smoke = "none"
  /\ pc = "smoke" /\ config.sentinel => smoke = "none"
  /\ pc = "smoke" /\ smoke = "none" /\ failed = {} => ~resting
  /\ smoke = "passed" => ~resting
  /\ pc \in After /\ failed = {} => ~resting
  /\ pc \in After /\ failed = {} /\ ~config.sentinel => suite.status = "completed"
  /\ pc = "started" => ~resting
  /\ pc = "started" /\ ~config.sentinel => suite.status = "completed"

LEMMA ClearedInit == Starting!Init => Cleared
BY DEF Starting!Init, Cleared, Before, After

LEMMA ClearedRunbook ==
  ASSUME Cleared, Starting!Runbook
  PROVE  Cleared'
<1>1. CASE Starting!Begin
  BY <1>1 DEF Starting!Begin, Cleared, Before, After
<1>2. CASE Starting!Preflight
  BY <1>2 DEF Starting!Preflight, Starting!Check, Starting!Kept, Cleared, Before, After
<1>3. CASE Starting!Credentials
  BY <1>3 DEF Starting!Credentials, Starting!Check, Starting!Kept, Cleared, Before, After
<1>4. CASE Starting!Identity
  BY <1>4 DEF Starting!Identity, Starting!Check, Starting!Kept, Cleared, Before, After
<1>5. CASE Starting!Reads
  BY <1>5 DEF Starting!Reads, Starting!Check, Starting!Kept, Cleared, Before, After
<1>6. CASE Starting!Book
  BY <1>6 DEF Starting!Book, Starting!Check, Starting!Noted, Starting!Kept, Cleared, Before, After
<1>7. CASE Starting!ExternalTruth
  <2>1. CASE \E age \in {0, 400} :
               Starting!Noted({"external_truth_fresh"}, Starting!TruthHealthy(age), "smoke")
    <3>1. PICK age \in {0, 400} :
            Starting!Noted({"external_truth_fresh"}, Starting!TruthHealthy(age), "smoke")
      BY <2>1
    <3>2. failed' = {} => ~resting
      BY <3>1, RestingIsDivergence DEF Starting!Noted, Cleared
    <3> QED
      BY <1>7, <3>1, <3>2 DEF Starting!ExternalTruth, Starting!Noted, Starting!Kept, Cleared, Before, After
  <2>2. CASE Starting!Check({"external_truth_fresh"}, FALSE, "smoke")
    BY <1>7, <2>2 DEF Starting!ExternalTruth, Starting!Check, Starting!Kept, Cleared, Before, After
  <2> QED
    BY <1>7, <2>1, <2>2 DEF Starting!ExternalTruth
<1>8. CASE Starting!SmokeEnd
  <2>1. pc = "smoke" /\ pc' = "evidence" /\ UNCHANGED <<config, smoke, resting>>
    BY <1>8 DEF Starting!SmokeEnd
  <2>2. CASE config.sentinel /\ UNCHANGED <<failed, suite>>
    BY <2>1, <2>2 DEF Cleared, Before, After
  <2>3. CASE /\ ~config.sentinel /\ ~config.runSmoke
             /\ failed' = failed \cup Starting!SmokeSteps(Starting!Recent(suite), FALSE)
             /\ UNCHANGED suite
    <3>1. failed' = {} => /\ failed = {} /\ smoke \in {"none", "passed"}
                          /\ suite.status = "completed"
      <4> DEFINE before == Starting!Recent(suite)
                 steps == Starting!SmokeSteps(before, FALSE)
      <4>1. failed' = failed \cup steps
        BY <2>3
      <4>2. ~(IF smoke = "none" THEN before ELSE smoke = "passed")
              => "authenticated_venue_smoke_gate" \in steps
        BY DEF Starting!SmokeSteps
      <4>3. ~before => "cancel_path_tested" \in steps
        BY DEF Starting!SmokeSteps
      <4>4. before => suite.status = "completed"
        BY DEF Starting!Recent
      <4> HIDE DEF before, steps
      <4> QED
        BY <4>1, <4>2, <4>3, <4>4
    <3>2. failed' = {} => ~resting
      BY <2>1, <3>1 DEF Cleared
    <3> QED
      BY <2>1, <2>3, <3>1, <3>2 DEF Cleared, Before, After
  <2>4. CASE /\ ~config.sentinel /\ smoke \in {"passed", "failed"}
             /\ failed' = failed \cup Starting!SmokeSteps(Starting!Recent(suite), smoke = "passed")
             /\ suite' = [status |-> IF smoke = "passed" THEN "completed" ELSE "failed", age |-> 0]
    <3>1. failed' = {} => smoke = "passed"
      BY <2>4 DEF Starting!SmokeSteps
    <3>2. failed' = {} => ~resting /\ suite'.status = "completed"
      BY <2>4, <3>1 DEF Cleared
    <3> QED
      BY <2>1, <2>4, <3>2 DEF Cleared, Before, After
  <2> QED
    BY <1>8, <2>2, <2>3, <2>4 DEF Starting!SmokeEnd
<1>9. CASE Starting!Evidence
  <2>1. /\ pc = "evidence" /\ pc' = "gate" /\ UNCHANGED <<config, smoke, resting, suite>>
        /\ failed' = {} => failed = {}
    BY <1>9 DEF Starting!Evidence, Starting!Kept
  <2> QED
    BY <2>1 DEF Cleared, Before, After
<1>10. CASE Starting!Gate
  <2>1. /\ pc = "gate" /\ UNCHANGED <<config, smoke, resting, suite, failed>>
        /\ pc' \in {"started", "down"} /\ (pc' = "started" => failed = {})
    BY <1>10 DEF Starting!Gate, Starting!Kept
  <2> QED
    BY <2>1 DEF Cleared, Before, After
<1> QED
  BY <1>1, <1>2, <1>3, <1>4, <1>5, <1>6, <1>7, <1>8, <1>9, <1>10 DEF Starting!Runbook

LEMMA ClearedSmoking ==
  ASSUME Cleared, Starting!Smoking
  PROVE  Cleared'
<1>0. /\ pc = "smoke" /\ pc' = "smoke" /\ UNCHANGED <<failed, config, suite>>
      /\ smoke = "none" => ~config.sentinel
  BY DEF Starting!Smoking, Starting!SmokeBegin, Starting!SmokeReads, Starting!SmokeSubmit,
         Starting!SmokeVisible, Starting!SmokeHeartbeat, Starting!SmokeCancel,
         Starting!SmokeAbsent, Starting!Harness, Starting!Kept
<1>1. ~config.sentinel
  BY <1>0 DEF Cleared
<1>2. smoke' # "none"
  BY DEF Starting!Smoking, Starting!SmokeBegin, Starting!SmokeReads, Starting!SmokeSubmit,
         Starting!SmokeVisible, Starting!SmokeHeartbeat, Starting!SmokeCancel,
         Starting!SmokeAbsent, Starting!Harness
<1>3. resting' \in BOOLEAN
  BY DEF Cleared, Starting!Smoking, Starting!SmokeBegin, Starting!SmokeReads,
         Starting!SmokeSubmit, Starting!SmokeVisible, Starting!SmokeHeartbeat,
         Starting!SmokeCancel, Starting!SmokeAbsent, Starting!Kept
<1>4. smoke' = "passed" => ~resting'
  BY DEF Starting!Smoking, Starting!SmokeBegin, Starting!SmokeReads, Starting!SmokeSubmit,
         Starting!SmokeVisible, Starting!SmokeHeartbeat, Starting!SmokeCancel,
         Starting!SmokeAbsent, Starting!Harness
<1> QED
  BY <1>0, <1>1, <1>2, <1>3, <1>4 DEF Cleared, Before, After

LEMMA ClearedStep ==
  ASSUME Cleared, Starting!Next
  PROVE  Cleared'
<1>1. CASE Starting!OrderEnds
  BY <1>1 DEF Starting!OrderEnds, Cleared
<1>2. CASE Starting!Wait
  BY <1>2 DEF Starting!Wait, Cleared, Before, After
<1>3. CASE Starting!Crash
  BY <1>3 DEF Starting!Crash, Cleared, Before, After
<1> QED
  BY <1>1, <1>2, <1>3, ClearedRunbook, ClearedSmoking DEF Starting!Next

\* Whatever fails, crashes or is tried again: a start that passed left no order of the
\* smoke harness at the venue, and unless it only simulates its newest suite passed.
THEOREM NothingRests == Spec => []NothingLeftBehind
<1> DEFINE Inv == part = "startup" => Cleared
<1>1. Init => Inv
  BY ClearedInit DEF Init
<1>2. Inv /\ [Next]_vars => Inv'
  <2> SUFFICES ASSUME Inv, [Next]_vars PROVE Inv'
    OBVIOUS
  <2>1. CASE UNCHANGED vars
    BY <2>1 DEF vars, startupVars, Cleared
  <2>2. CASE Next /\ part = "startup"
    <3>1. Starting!Next /\ UNCHANGED part
      BY <2>2 DEF Next
    <3> QED
      BY <2>2, <3>1, ClearedStep
  <2>3. CASE Next /\ part # "startup"
    BY <2>3 DEF Next
  <2> QED
    BY <2>1, <2>2, <2>3
<1>3. Inv => NothingLeftBehind
  BY DEF Cleared, NothingLeftBehind, Starting!NothingLeftBehind
<1> HIDE DEF Inv
<1> QED
  BY <1>1, <1>2, <1>3, PTL DEF Spec

-----------------------------------------------------------------------------
(* The safety state                                                         *)

\* The most severe of a set of states is one of them, or normal, and none is more severe.
LEMMA SeverestOfStates ==
  ASSUME NEW S, S \subseteq Safety!States
  PROVE  /\ Safety!Severest(S) \in S \cup {"normal"}
         /\ \A t \in S : Safety!Rank[Safety!Severest(S)] >= Safety!Rank[t]
<1>1. \E s \in S \cup {"normal"} : \A t \in S : Safety!Rank[s] >= Safety!Rank[t]
  <2>1. CASE "halt" \in S
    BY <2>1 DEF Safety!States, Safety!Rank
  <2>2. CASE "halt" \notin S /\ "no_new_entries" \in S
    BY <2>2 DEF Safety!States, Safety!Rank
  <2>3. CASE S \cap {"halt", "no_new_entries"} = {} /\ "passive_only" \in S
    BY <2>3 DEF Safety!States, Safety!Rank
  <2>4. CASE /\ S \cap {"halt", "no_new_entries", "passive_only"} = {}
             /\ "reduced_frequency" \in S
    BY <2>4 DEF Safety!States, Safety!Rank
  <2>5. CASE /\ S \cap {"halt", "no_new_entries", "passive_only", "reduced_frequency"} = {}
             /\ "reduced_size" \in S
    BY <2>5 DEF Safety!States, Safety!Rank
  <2>6. CASE S \subseteq {"normal"}
    BY <2>6 DEF Safety!States, Safety!Rank
  <2> QED
    BY <2>1, <2>2, <2>3, <2>4, <2>5, <2>6 DEF Safety!States
<1> QED
  BY <1>1, Zenon DEF Safety!Severest

\* What a trigger is: its severity, the state it asks for, whether it blocks and reduces.
\* The severest triggers, and no other, ask for a halt.
Triggering ==
  {t \in [severity : 1 .. 5, state : Safety!States, block : BOOLEAN, reduce : BOOLEAN] :
     t.severity = 5 <=> t.state = "halt"}

\* The triggers there are.
LEMMA EveryTrigger ==
  /\ Safety!Trigger(5, "halt", TRUE, TRUE) \in Triggering
  /\ Safety!Trigger(5, "halt", TRUE, FALSE) \in Triggering
  /\ Safety!Trigger(4, "no_new_entries", TRUE, TRUE) \in Triggering
  /\ Safety!Trigger(4, "no_new_entries", TRUE, FALSE) \in Triggering
  /\ Safety!Trigger(3, "no_new_entries", TRUE, FALSE) \in Triggering
  /\ Safety!Trigger(3, "passive_only", TRUE, FALSE) \in Triggering
  /\ Safety!Trigger(3, "passive_only", FALSE, FALSE) \in Triggering
  /\ Safety!Trigger(2, "reduced_frequency", FALSE, FALSE) \in Triggering
BY DEF Safety!Trigger, Triggering, Safety!States

LEMMA TriggersAre ==
  ASSUME NEW e
  PROVE  Safety!Triggers(e) \subseteq Triggering
<1>1. Safety!DrawdownTriggers(e) \subseteq Triggering
  BY EveryTrigger DEF Safety!DrawdownTriggers, Safety!When
<1>2. Safety!HourlyTriggers(e) \subseteq Triggering
  BY EveryTrigger DEF Safety!HourlyTriggers, Safety!When
<1>3. Safety!LossTriggers(e) \subseteq Triggering
  BY EveryTrigger DEF Safety!LossTriggers, Safety!When
<1>4. Safety!ConcentrationTriggers(e) \subseteq Triggering
  BY EveryTrigger DEF Safety!ConcentrationTriggers, Safety!When
<1>5. Safety!FreshnessTriggers(e) \subseteq Triggering
  BY EveryTrigger DEF Safety!FreshnessTriggers, Safety!When
<1>6. Safety!SlippageTriggers(e) \subseteq Triggering
  BY EveryTrigger DEF Safety!SlippageTriggers, Safety!When
<1>7. Safety!PartialTriggers(e) \subseteq Triggering
  BY EveryTrigger DEF Safety!PartialTriggers, Safety!When
<1>8. Safety!QualityTriggers(e) \subseteq Triggering
  BY EveryTrigger DEF Safety!QualityTriggers, Safety!When
<1>9. Safety!CostTriggers(e) \subseteq Triggering
  BY EveryTrigger DEF Safety!CostTriggers, Safety!When
<1>10. Safety!PostTriggers(e) \subseteq Triggering
  BY EveryTrigger DEF Safety!PostTriggers, Safety!When
<1>11. Safety!CancelTriggers(e) \subseteq Triggering
  BY EveryTrigger DEF Safety!CancelTriggers, Safety!When
<1>12. Safety!LatencyTriggers(e) \subseteq Triggering
  BY EveryTrigger DEF Safety!LatencyTriggers, Safety!When
<1>13. Safety!HeartbeatTriggers(e) \subseteq Triggering
  BY EveryTrigger DEF Safety!HeartbeatTriggers, Safety!When
<1>14. Safety!DivergenceTriggers(e) \subseteq Triggering
  BY EveryTrigger DEF Safety!DivergenceTriggers, Safety!When
<1>15. Safety!StaleTriggers(e) \subseteq Triggering
  BY EveryTrigger DEF Safety!StaleTriggers, Safety!When
<1> QED
  BY <1>1, <1>2, <1>3, <1>4, <1>5, <1>6, <1>7, <1>8, <1>9, <1>10, <1>11, <1>12, <1>13, <1>14, <1>15 DEF Safety!Triggers

LEMMA RecommendedIs ==
  ASSUME NEW e, e.dailyLoss \in Int
  PROVE  Safety!Recommended(e) \in Safety!States
<1> DEFINE all == Safety!DailyLossStates(e.dailyLoss) \cup Safety!LossStreakStates(e.losses)
                  \cup {t.state : t \in Safety!Triggers(e)}
                  \cup Safety!CauseStates(e.cause, e.confidence)
<1>1. Safety!DailyLossStates(e.dailyLoss) \subseteq Safety!States
  BY DEF Safety!DailyLossStates, Safety!States
<1>2. Safety!LossStreakStates(e.losses) \subseteq Safety!States
  BY DEF Safety!LossStreakStates, Safety!States
<1>3. {t.state : t \in Safety!Triggers(e)} \subseteq Safety!States
  BY TriggersAre DEF Triggering
<1>4. Safety!CauseStates(e.cause, e.confidence) \subseteq Safety!States
  BY DEF Safety!CauseStates, Safety!States
<1>5. all \subseteq Safety!States
  BY <1>1, <1>2, <1>3, <1>4
<1>6. Safety!Recommended(e) = Safety!Severest(all)
  BY DEF Safety!Recommended
<1> HIDE DEF all
<1> QED
  BY <1>5, <1>6, SeverestOfStates DEF Safety!States

\* A trigger as harsh as another: no milder in any of its parts.
Harsher(u, t) ==
  /\ u.severity >= t.severity
  /\ Safety!Rank[u.state] >= Safety!Rank[t.state]
  /\ t.block => u.block
  /\ t.reduce => u.reduce
Escalates(S, T) == \A t \in S : \E u \in T : Harsher(u, t)

\* The triggers of one kind, compared with themselves and with the harsher ones.
LEMMA HarsherTriggers ==
  /\ Harsher(Safety!Trigger(5, "halt", TRUE, TRUE), Safety!Trigger(5, "halt", TRUE, TRUE))
  /\ Harsher(Safety!Trigger(5, "halt", TRUE, FALSE), Safety!Trigger(5, "halt", TRUE, FALSE))
  /\ Harsher(Safety!Trigger(4, "no_new_entries", TRUE, TRUE), Safety!Trigger(4, "no_new_entries", TRUE, TRUE))
  /\ Harsher(Safety!Trigger(4, "no_new_entries", TRUE, FALSE), Safety!Trigger(4, "no_new_entries", TRUE, FALSE))
  /\ Harsher(Safety!Trigger(3, "no_new_entries", TRUE, FALSE), Safety!Trigger(3, "no_new_entries", TRUE, FALSE))
  /\ Harsher(Safety!Trigger(3, "passive_only", TRUE, FALSE), Safety!Trigger(3, "passive_only", TRUE, FALSE))
  /\ Harsher(Safety!Trigger(3, "passive_only", FALSE, FALSE), Safety!Trigger(3, "passive_only", FALSE, FALSE))
  /\ Harsher(Safety!Trigger(2, "reduced_frequency", FALSE, FALSE), Safety!Trigger(2, "reduced_frequency", FALSE, FALSE))
  /\ Harsher(Safety!Trigger(5, "halt", TRUE, TRUE), Safety!Trigger(4, "no_new_entries", TRUE, FALSE))
  /\ Harsher(Safety!Trigger(4, "no_new_entries", TRUE, FALSE), Safety!Trigger(3, "passive_only", TRUE, FALSE))
  /\ Harsher(Safety!Trigger(4, "no_new_entries", TRUE, TRUE), Safety!Trigger(3, "no_new_entries", TRUE, FALSE))
  /\ Harsher(Safety!Trigger(5, "halt", TRUE, TRUE), Safety!Trigger(3, "no_new_entries", TRUE, FALSE))
  /\ Harsher(Safety!Trigger(5, "halt", TRUE, TRUE), Safety!Trigger(3, "passive_only", TRUE, FALSE))
  /\ Harsher(Safety!Trigger(4, "no_new_entries", TRUE, FALSE), Safety!Trigger(3, "passive_only", FALSE, FALSE))
  /\ Harsher(Safety!Trigger(5, "halt", TRUE, TRUE), Safety!Trigger(4, "no_new_entries", TRUE, TRUE))
  /\ Harsher(Safety!Trigger(4, "no_new_entries", TRUE, FALSE), Safety!Trigger(2, "reduced_frequency", FALSE, FALSE))
  /\ Harsher(Safety!Trigger(5, "halt", TRUE, FALSE), Safety!Trigger(4, "no_new_entries", TRUE, FALSE))
  /\ Harsher(Safety!Trigger(5, "halt", TRUE, FALSE), Safety!Trigger(2, "reduced_frequency", FALSE, FALSE))
<1>1. Harsher(Safety!Trigger(5, "halt", TRUE, TRUE), Safety!Trigger(5, "halt", TRUE, TRUE))
  BY DEF Harsher, Safety!Trigger, Safety!Rank
<1>2. Harsher(Safety!Trigger(5, "halt", TRUE, FALSE), Safety!Trigger(5, "halt", TRUE, FALSE))
  BY DEF Harsher, Safety!Trigger, Safety!Rank
<1>3. Harsher(Safety!Trigger(4, "no_new_entries", TRUE, TRUE), Safety!Trigger(4, "no_new_entries", TRUE, TRUE))
  BY DEF Harsher, Safety!Trigger, Safety!Rank
<1>4. Harsher(Safety!Trigger(4, "no_new_entries", TRUE, FALSE), Safety!Trigger(4, "no_new_entries", TRUE, FALSE))
  BY DEF Harsher, Safety!Trigger, Safety!Rank
<1>5. Harsher(Safety!Trigger(3, "no_new_entries", TRUE, FALSE), Safety!Trigger(3, "no_new_entries", TRUE, FALSE))
  BY DEF Harsher, Safety!Trigger, Safety!Rank
<1>6. Harsher(Safety!Trigger(3, "passive_only", TRUE, FALSE), Safety!Trigger(3, "passive_only", TRUE, FALSE))
  BY DEF Harsher, Safety!Trigger, Safety!Rank
<1>7. Harsher(Safety!Trigger(3, "passive_only", FALSE, FALSE), Safety!Trigger(3, "passive_only", FALSE, FALSE))
  BY DEF Harsher, Safety!Trigger, Safety!Rank
<1>8. Harsher(Safety!Trigger(2, "reduced_frequency", FALSE, FALSE), Safety!Trigger(2, "reduced_frequency", FALSE, FALSE))
  BY DEF Harsher, Safety!Trigger, Safety!Rank
<1>9. Harsher(Safety!Trigger(5, "halt", TRUE, TRUE), Safety!Trigger(4, "no_new_entries", TRUE, FALSE))
  BY DEF Harsher, Safety!Trigger, Safety!Rank
<1>10. Harsher(Safety!Trigger(4, "no_new_entries", TRUE, FALSE), Safety!Trigger(3, "passive_only", TRUE, FALSE))
  BY DEF Harsher, Safety!Trigger, Safety!Rank
<1>11. Harsher(Safety!Trigger(4, "no_new_entries", TRUE, TRUE), Safety!Trigger(3, "no_new_entries", TRUE, FALSE))
  BY DEF Harsher, Safety!Trigger, Safety!Rank
<1>12. Harsher(Safety!Trigger(5, "halt", TRUE, TRUE), Safety!Trigger(3, "no_new_entries", TRUE, FALSE))
  BY DEF Harsher, Safety!Trigger, Safety!Rank
<1>13. Harsher(Safety!Trigger(5, "halt", TRUE, TRUE), Safety!Trigger(3, "passive_only", TRUE, FALSE))
  BY DEF Harsher, Safety!Trigger, Safety!Rank
<1>14. Harsher(Safety!Trigger(4, "no_new_entries", TRUE, FALSE), Safety!Trigger(3, "passive_only", FALSE, FALSE))
  BY DEF Harsher, Safety!Trigger, Safety!Rank
<1>15. Harsher(Safety!Trigger(5, "halt", TRUE, TRUE), Safety!Trigger(4, "no_new_entries", TRUE, TRUE))
  BY DEF Harsher, Safety!Trigger, Safety!Rank
<1>16. Harsher(Safety!Trigger(4, "no_new_entries", TRUE, FALSE), Safety!Trigger(2, "reduced_frequency", FALSE, FALSE))
  BY DEF Harsher, Safety!Trigger, Safety!Rank
<1>17. Harsher(Safety!Trigger(5, "halt", TRUE, FALSE), Safety!Trigger(4, "no_new_entries", TRUE, FALSE))
  BY DEF Harsher, Safety!Trigger, Safety!Rank
<1>18. Harsher(Safety!Trigger(5, "halt", TRUE, FALSE), Safety!Trigger(2, "reduced_frequency", FALSE, FALSE))
  BY DEF Harsher, Safety!Trigger, Safety!Rank
<1> QED
  BY <1>1, <1>2, <1>3, <1>4, <1>5, <1>6, <1>7, <1>8, <1>9, <1>10, <1>11, <1>12, <1>13, <1>14, <1>15, <1>16, <1>17, <1>18

\* Evidence no better than other evidence, the cause of the losses apart.
Figures == {"dailyLoss", "losses", "drawdown", "hourly", "concentration", "slippageDrifts",
            "toxicPartials", "qualityDrifts", "costBlowouts", "postFailures", "cancelFailures",
            "cancelsWorking", "slowCancels", "heartbeats", "staleRejects"}
Worse(e, f) ==
  /\ \A x \in Figures : e[x] \in Int /\ f[x] \in Int /\ e[x] <= f[x]
  /\ e.freshness # "fresh" => f.freshness # "fresh"
  /\ e.freshness = "stale" => f.freshness = "stale"
  /\ e.divergence # "none" => f.divergence # "none"
  /\ e.divergence = "critical" => f.divergence = "critical"
  /\ e.decisions \in Int /\ f.decisions = e.decisions
  /\ f.cause = e.cause /\ f.confidence = e.confidence

\* Worse evidence triggers whatever the better one does, or something harsher.
LEMMA TriggersEscalate ==
  ASSUME NEW e, NEW f, Worse(e, f)
  PROVE  Escalates(Safety!Triggers(e), Safety!Triggers(f))
<1>1. Escalates(Safety!DrawdownTriggers(e), Safety!DrawdownTriggers(f))
  <2> DEFINE before == Safety!DrawdownTriggers(e)
             after == Safety!DrawdownTriggers(f)
             none == {}
             mild == {Safety!Trigger(4, "no_new_entries", TRUE, FALSE)}
             harsh == {Safety!Trigger(5, "halt", TRUE, TRUE)}
  <2>1. /\ e.drawdown \in Int /\ f.drawdown \in Int /\ e.drawdown <= f.drawdown
    BY DEF Worse, Figures
  <2>2. \/ ~(e.drawdown >= 100) /\ before = none
        \/ (e.drawdown >= 100 /\ ~(e.drawdown >= 150)) /\ before = mild
        \/ (e.drawdown >= 100 /\ e.drawdown >= 150) /\ before = harsh
    BY <2>1 DEF Safety!DrawdownTriggers, Safety!When
  <2>3. \/ ~(f.drawdown >= 100) /\ after = none
        \/ (f.drawdown >= 100 /\ ~(f.drawdown >= 150)) /\ after = mild
        \/ (f.drawdown >= 100 /\ f.drawdown >= 150) /\ after = harsh
    BY <2>1 DEF Safety!DrawdownTriggers, Safety!When
  <2> HIDE DEF before, after, none, mild, harsh
  <2>4. \/ before = none
        \/ before = mild /\ after \in {mild, harsh}
        \/ before = harsh /\ after \in {harsh}
    BY <2>1, <2>2, <2>3
  <2> QED
    BY <2>4, HarsherTriggers, Zenon DEF Escalates, before, after, none, mild, harsh
<1>2. Escalates(Safety!HourlyTriggers(e), Safety!HourlyTriggers(f))
  <2> DEFINE before == Safety!HourlyTriggers(e)
             after == Safety!HourlyTriggers(f)
             none == {}
             mild == {Safety!Trigger(3, "passive_only", TRUE, FALSE)}
             harsh == {Safety!Trigger(4, "no_new_entries", TRUE, FALSE)}
  <2>1. /\ e.hourly \in Int /\ f.hourly \in Int /\ e.hourly <= f.hourly
    BY DEF Worse, Figures
  <2>2. \/ ~(e.hourly >= 100) /\ before = none
        \/ (e.hourly >= 100 /\ ~(e.hourly >= 150)) /\ before = mild
        \/ (e.hourly >= 100 /\ e.hourly >= 150) /\ before = harsh
    BY <2>1 DEF Safety!HourlyTriggers, Safety!When
  <2>3. \/ ~(f.hourly >= 100) /\ after = none
        \/ (f.hourly >= 100 /\ ~(f.hourly >= 150)) /\ after = mild
        \/ (f.hourly >= 100 /\ f.hourly >= 150) /\ after = harsh
    BY <2>1 DEF Safety!HourlyTriggers, Safety!When
  <2> HIDE DEF before, after, none, mild, harsh
  <2>4. \/ before = none
        \/ before = mild /\ after \in {mild, harsh}
        \/ before = harsh /\ after \in {harsh}
    BY <2>1, <2>2, <2>3
  <2> QED
    BY <2>4, HarsherTriggers, Zenon DEF Escalates, before, after, none, mild, harsh
<1>3. Escalates(Safety!LossTriggers(e), Safety!LossTriggers(f))
  <2> DEFINE before == Safety!LossTriggers(e)
             after == Safety!LossTriggers(f)
             none == {}
             mild == {Safety!Trigger(4, "no_new_entries", TRUE, FALSE)}
             harsh == {Safety!Trigger(5, "halt", TRUE, TRUE)}
  <2>1. /\ e.losses \in Int /\ f.losses \in Int /\ e.losses <= f.losses
    BY DEF Worse, Figures
  <2>2. \/ ~(e.losses >= 2) /\ before = none
        \/ (e.losses >= 2 /\ ~(e.losses > 2)) /\ before = mild
        \/ (e.losses >= 2 /\ e.losses > 2) /\ before = harsh
    BY <2>1 DEF Safety!LossTriggers, Safety!When, Safety!MaxLosses
  <2>3. \/ ~(f.losses >= 2) /\ after = none
        \/ (f.losses >= 2 /\ ~(f.losses > 2)) /\ after = mild
        \/ (f.losses >= 2 /\ f.losses > 2) /\ after = harsh
    BY <2>1 DEF Safety!LossTriggers, Safety!When, Safety!MaxLosses
  <2> HIDE DEF before, after, none, mild, harsh
  <2>4. \/ before = none
        \/ before = mild /\ after \in {mild, harsh}
        \/ before = harsh /\ after \in {harsh}
    BY <2>1, <2>2, <2>3
  <2> QED
    BY <2>4, HarsherTriggers, Zenon DEF Escalates, before, after, none, mild, harsh
<1>4. Escalates(Safety!ConcentrationTriggers(e), Safety!ConcentrationTriggers(f))
  <2> DEFINE before == Safety!ConcentrationTriggers(e)
             after == Safety!ConcentrationTriggers(f)
             none == {}
             mild == {Safety!Trigger(3, "no_new_entries", TRUE, FALSE)}
             harsh == {Safety!Trigger(4, "no_new_entries", TRUE, TRUE)}
  <2>1. /\ e.concentration \in Int /\ f.concentration \in Int /\ e.concentration <= f.concentration
    BY DEF Worse, Figures
  <2>2. \/ ~(e.concentration >= 100) /\ before = none
        \/ (e.concentration >= 100 /\ ~(e.concentration >= 125)) /\ before = mild
        \/ (e.concentration >= 100 /\ e.concentration >= 125) /\ before = harsh
    BY <2>1 DEF Safety!ConcentrationTriggers, Safety!When
  <2>3. \/ ~(f.concentration >= 100) /\ after = none
        \/ (f.concentration >= 100 /\ ~(f.concentration >= 125)) /\ after = mild
        \/ (f.concentration >= 100 /\ f.concentration >= 125) /\ after = harsh
    BY <2>1 DEF Safety!ConcentrationTriggers, Safety!When
  <2> HIDE DEF before, after, none, mild, harsh
  <2>4. \/ before = none
        \/ before = mild /\ after \in {mild, harsh}
        \/ before = harsh /\ after \in {harsh}
    BY <2>1, <2>2, <2>3
  <2> QED
    BY <2>4, HarsherTriggers, Zenon DEF Escalates, before, after, none, mild, harsh
<1>5. Escalates(Safety!FreshnessTriggers(e), Safety!FreshnessTriggers(f))
  <2> DEFINE before == Safety!FreshnessTriggers(e)
             after == Safety!FreshnessTriggers(f)
             none == {}
             mild == {Safety!Trigger(3, "no_new_entries", TRUE, FALSE)}
             harsh == {Safety!Trigger(5, "halt", TRUE, TRUE)}
  <2>1. /\ e.freshness # "fresh" => f.freshness # "fresh"
        /\ e.freshness = "stale" => f.freshness = "stale"
    BY DEF Worse
  <2>2. \/ ~(e.freshness # "fresh") /\ before = none
        \/ (e.freshness # "fresh" /\ ~(e.freshness = "stale")) /\ before = mild
        \/ (e.freshness # "fresh" /\ e.freshness = "stale") /\ before = harsh
    BY <2>1 DEF Safety!FreshnessTriggers, Safety!When
  <2>3. \/ ~(f.freshness # "fresh") /\ after = none
        \/ (f.freshness # "fresh" /\ ~(f.freshness = "stale")) /\ after = mild
        \/ (f.freshness # "fresh" /\ f.freshness = "stale") /\ after = harsh
    BY <2>1 DEF Safety!FreshnessTriggers, Safety!When
  <2> HIDE DEF before, after, none, mild, harsh
  <2>4. \/ before = none
        \/ before = mild /\ after \in {mild, harsh}
        \/ before = harsh /\ after \in {harsh}
    BY <2>1, <2>2, <2>3
  <2> QED
    BY <2>4, HarsherTriggers, Zenon DEF Escalates, before, after, none, mild, harsh
<1>6. Escalates(Safety!SlippageTriggers(e), Safety!SlippageTriggers(f))
  <2> DEFINE before == Safety!SlippageTriggers(e)
             after == Safety!SlippageTriggers(f)
             none == {}
             mild == {Safety!Trigger(3, "passive_only", TRUE, FALSE)}
             harsh == {Safety!Trigger(5, "halt", TRUE, TRUE)}
  <2>1. /\ e.slippageDrifts \in Int /\ f.slippageDrifts \in Int /\ e.slippageDrifts <= f.slippageDrifts
    BY DEF Worse, Figures
  <2>2. \/ ~(e.slippageDrifts >= 3) /\ before = none
        \/ (e.slippageDrifts >= 3 /\ ~(e.slippageDrifts >= 5)) /\ before = mild
        \/ (e.slippageDrifts >= 3 /\ e.slippageDrifts >= 5) /\ before = harsh
    BY <2>1 DEF Safety!SlippageTriggers, Safety!When
  <2>3. \/ ~(f.slippageDrifts >= 3) /\ after = none
        \/ (f.slippageDrifts >= 3 /\ ~(f.slippageDrifts >= 5)) /\ after = mild
        \/ (f.slippageDrifts >= 3 /\ f.slippageDrifts >= 5) /\ after = harsh
    BY <2>1 DEF Safety!SlippageTriggers, Safety!When
  <2> HIDE DEF before, after, none, mild, harsh
  <2>4. \/ before = none
        \/ before = mild /\ after \in {mild, harsh}
        \/ before = harsh /\ after \in {harsh}
    BY <2>1, <2>2, <2>3
  <2> QED
    BY <2>4, HarsherTriggers, Zenon DEF Escalates, before, after, none, mild, harsh
<1>7. Escalates(Safety!PartialTriggers(e), Safety!PartialTriggers(f))
  <2> DEFINE before == Safety!PartialTriggers(e)
             after == Safety!PartialTriggers(f)
             none == {}
             mild == {Safety!Trigger(3, "no_new_entries", TRUE, FALSE)}
             harsh == {Safety!Trigger(5, "halt", TRUE, TRUE)}
  <2>1. /\ e.toxicPartials \in Int /\ f.toxicPartials \in Int /\ e.toxicPartials <= f.toxicPartials
    BY DEF Worse, Figures
  <2>2. \/ ~(e.toxicPartials >= 2) /\ before = none
        \/ (e.toxicPartials >= 2 /\ ~(e.toxicPartials >= 4)) /\ before = mild
        \/ (e.toxicPartials >= 2 /\ e.toxicPartials >= 4) /\ before = harsh
    BY <2>1 DEF Safety!PartialTriggers, Safety!When
  <2>3. \/ ~(f.toxicPartials >= 2) /\ after = none
        \/ (f.toxicPartials >= 2 /\ ~(f.toxicPartials >= 4)) /\ after = mild
        \/ (f.toxicPartials >= 2 /\ f.toxicPartials >= 4) /\ after = harsh
    BY <2>1 DEF Safety!PartialTriggers, Safety!When
  <2> HIDE DEF before, after, none, mild, harsh
  <2>4. \/ before = none
        \/ before = mild /\ after \in {mild, harsh}
        \/ before = harsh /\ after \in {harsh}
    BY <2>1, <2>2, <2>3
  <2> QED
    BY <2>4, HarsherTriggers, Zenon DEF Escalates, before, after, none, mild, harsh
<1>8. Escalates(Safety!QualityTriggers(e), Safety!QualityTriggers(f))
  <2> DEFINE before == Safety!QualityTriggers(e)
             after == Safety!QualityTriggers(f)
             none == {}
             mild == {Safety!Trigger(3, "passive_only", FALSE, FALSE)}
             harsh == {Safety!Trigger(4, "no_new_entries", TRUE, FALSE)}
  <2>1. /\ e.qualityDrifts \in Int /\ f.qualityDrifts \in Int /\ e.qualityDrifts <= f.qualityDrifts
    BY DEF Worse, Figures
  <2>2. \/ ~(e.qualityDrifts >= 2) /\ before = none
        \/ (e.qualityDrifts >= 2 /\ ~(e.qualityDrifts >= 4)) /\ before = mild
        \/ (e.qualityDrifts >= 2 /\ e.qualityDrifts >= 4) /\ before = harsh
    BY <2>1 DEF Safety!QualityTriggers, Safety!When
  <2>3. \/ ~(f.qualityDrifts >= 2) /\ after = none
        \/ (f.qualityDrifts >= 2 /\ ~(f.qualityDrifts >= 4)) /\ after = mild
        \/ (f.qualityDrifts >= 2 /\ f.qualityDrifts >= 4) /\ after = harsh
    BY <2>1 DEF Safety!QualityTriggers, Safety!When
  <2> HIDE DEF before, after, none, mild, harsh
  <2>4. \/ before = none
        \/ before = mild /\ after \in {mild, harsh}
        \/ before = harsh /\ after \in {harsh}
    BY <2>1, <2>2, <2>3
  <2> QED
    BY <2>4, HarsherTriggers, Zenon DEF Escalates, before, after, none, mild, harsh
<1>9. Escalates(Safety!CostTriggers(e), Safety!CostTriggers(f))
  <2> DEFINE before == Safety!CostTriggers(e)
             after == Safety!CostTriggers(f)
             none == {}
             mild == {Safety!Trigger(4, "no_new_entries", TRUE, TRUE)}
             harsh == {Safety!Trigger(5, "halt", TRUE, TRUE)}
  <2>1. /\ e.costBlowouts \in Int /\ f.costBlowouts \in Int /\ e.costBlowouts <= f.costBlowouts
    BY DEF Worse, Figures
  <2>2. \/ ~(e.costBlowouts >= 2) /\ before = none
        \/ (e.costBlowouts >= 2 /\ ~(e.costBlowouts >= 4)) /\ before = mild
        \/ (e.costBlowouts >= 2 /\ e.costBlowouts >= 4) /\ before = harsh
    BY <2>1 DEF Safety!CostTriggers, Safety!When
  <2>3. \/ ~(f.costBlowouts >= 2) /\ after = none
        \/ (f.costBlowouts >= 2 /\ ~(f.costBlowouts >= 4)) /\ after = mild
        \/ (f.costBlowouts >= 2 /\ f.costBlowouts >= 4) /\ after = harsh
    BY <2>1 DEF Safety!CostTriggers, Safety!When
  <2> HIDE DEF before, after, none, mild, harsh
  <2>4. \/ before = none
        \/ before = mild /\ after \in {mild, harsh}
        \/ before = harsh /\ after \in {harsh}
    BY <2>1, <2>2, <2>3
  <2> QED
    BY <2>4, HarsherTriggers, Zenon DEF Escalates, before, after, none, mild, harsh
<1>10. Escalates(Safety!PostTriggers(e), Safety!PostTriggers(f))
  <2> DEFINE before == Safety!PostTriggers(e)
             after == Safety!PostTriggers(f)
             none == {}
             mild == {Safety!Trigger(2, "reduced_frequency", FALSE, FALSE)}
             severe == {Safety!Trigger(4, "no_new_entries", TRUE, FALSE)}
             harsh == {Safety!Trigger(5, "halt", TRUE, FALSE)}
  <2>1. /\ e.postFailures \in Int /\ f.postFailures \in Int /\ e.postFailures <= f.postFailures
    BY DEF Worse, Figures
  <2>2. \/ ~(e.postFailures >= 2) /\ before = none
        \/ (e.postFailures >= 2 /\ ~(e.postFailures >= 6) /\ ~(e.postFailures >= 4)) /\ before = mild
        \/ (e.postFailures >= 2 /\ ~(e.postFailures >= 6) /\ e.postFailures >= 4) /\ before = severe
        \/ (e.postFailures >= 2 /\ e.postFailures >= 6) /\ before = harsh
    <3>1. ~(e.postFailures >= 2) => before = none
      BY Zenon DEF Safety!PostTriggers, Safety!When
    <3>2. (e.postFailures >= 2 /\ ~(e.postFailures >= 6) /\ ~(e.postFailures >= 4)) => before = mild
      BY Zenon DEF Safety!PostTriggers, Safety!When
    <3>3. (e.postFailures >= 2 /\ ~(e.postFailures >= 6) /\ e.postFailures >= 4) => before = severe
      BY Zenon DEF Safety!PostTriggers, Safety!When
    <3>4. (e.postFailures >= 2 /\ e.postFailures >= 6) => before = harsh
      BY Zenon DEF Safety!PostTriggers, Safety!When
    <3> HIDE DEF before, after, none, mild, severe, harsh
    <3> QED
      BY <3>1, <3>2, <3>3, <3>4, Zenon
  <2>3. \/ ~(f.postFailures >= 2) /\ after = none
        \/ (f.postFailures >= 2 /\ ~(f.postFailures >= 6) /\ ~(f.postFailures >= 4)) /\ after = mild
        \/ (f.postFailures >= 2 /\ ~(f.postFailures >= 6) /\ f.postFailures >= 4) /\ after = severe
        \/ (f.postFailures >= 2 /\ f.postFailures >= 6) /\ after = harsh
    <3>1. ~(f.postFailures >= 2) => after = none
      BY Zenon DEF Safety!PostTriggers, Safety!When
    <3>2. (f.postFailures >= 2 /\ ~(f.postFailures >= 6) /\ ~(f.postFailures >= 4)) => after = mild
      BY Zenon DEF Safety!PostTriggers, Safety!When
    <3>3. (f.postFailures >= 2 /\ ~(f.postFailures >= 6) /\ f.postFailures >= 4) => after = severe
      BY Zenon DEF Safety!PostTriggers, Safety!When
    <3>4. (f.postFailures >= 2 /\ f.postFailures >= 6) => after = harsh
      BY Zenon DEF Safety!PostTriggers, Safety!When
    <3> HIDE DEF before, after, none, mild, severe, harsh
    <3> QED
      BY <3>1, <3>2, <3>3, <3>4, Zenon
  <2> HIDE DEF before, after, none, mild, severe, harsh
  <2>4. \/ before = none
        \/ before = mild /\ after \in {mild, severe, harsh}
        \/ before = severe /\ after \in {severe, harsh}
        \/ before = harsh /\ after \in {harsh}
    BY <2>1, <2>2, <2>3
  <2> QED
    BY <2>4, HarsherTriggers, Zenon DEF Escalates, before, after, none, mild, severe, harsh
<1>11. Escalates(Safety!CancelTriggers(e), Safety!CancelTriggers(f))
  <2> DEFINE before == Safety!CancelTriggers(e)
             after == Safety!CancelTriggers(f)
             none == {}
             mild == {Safety!Trigger(3, "passive_only", TRUE, FALSE)}
             severe == {Safety!Trigger(4, "no_new_entries", TRUE, FALSE)}
             harsh == {Safety!Trigger(5, "halt", TRUE, TRUE)}
  <2>1. /\ e.cancelFailures \in Int /\ f.cancelFailures \in Int /\ e.cancelFailures <= f.cancelFailures
        /\ e.cancelsWorking \in Int /\ f.cancelsWorking \in Int /\ e.cancelsWorking <= f.cancelsWorking
    BY DEF Worse, Figures
  <2>2. \/ ~(e.cancelFailures >= 1) /\ before = none
        \/ (e.cancelFailures >= 1 /\ ~(e.cancelsWorking >= 3) /\ ~(e.cancelsWorking >= 1 \/ e.cancelFailures >= 3)) /\ before = mild
        \/ (e.cancelFailures >= 1 /\ ~(e.cancelsWorking >= 3) /\ (e.cancelsWorking >= 1 \/ e.cancelFailures >= 3)) /\ before = severe
        \/ (e.cancelFailures >= 1 /\ e.cancelsWorking >= 3) /\ before = harsh
    <3>1. ~(e.cancelFailures >= 1) => before = none
      BY Zenon DEF Safety!CancelTriggers, Safety!When
    <3>2. (e.cancelFailures >= 1 /\ ~(e.cancelsWorking >= 3) /\ ~(e.cancelsWorking >= 1 \/ e.cancelFailures >= 3)) => before = mild
      BY Zenon DEF Safety!CancelTriggers, Safety!When
    <3>3. (e.cancelFailures >= 1 /\ ~(e.cancelsWorking >= 3) /\ (e.cancelsWorking >= 1 \/ e.cancelFailures >= 3)) => before = severe
      BY Zenon DEF Safety!CancelTriggers, Safety!When
    <3>4. (e.cancelFailures >= 1 /\ e.cancelsWorking >= 3) => before = harsh
      BY Zenon DEF Safety!CancelTriggers, Safety!When
    <3> HIDE DEF before, after, none, mild, severe, harsh
    <3> QED
      BY <3>1, <3>2, <3>3, <3>4, Zenon
  <2>3. \/ ~(f.cancelFailures >= 1) /\ after = none
        \/ (f.cancelFailures >= 1 /\ ~(f.cancelsWorking >= 3) /\ ~(f.cancelsWorking >= 1 \/ f.cancelFailures >= 3)) /\ after = mild
        \/ (f.cancelFailures >= 1 /\ ~(f.cancelsWorking >= 3) /\ (f.cancelsWorking >= 1 \/ f.cancelFailures >= 3)) /\ after = severe
        \/ (f.cancelFailures >= 1 /\ f.cancelsWorking >= 3) /\ after = harsh
    <3>1. ~(f.cancelFailures >= 1) => after = none
      BY Zenon DEF Safety!CancelTriggers, Safety!When
    <3>2. (f.cancelFailures >= 1 /\ ~(f.cancelsWorking >= 3) /\ ~(f.cancelsWorking >= 1 \/ f.cancelFailures >= 3)) => after = mild
      BY Zenon DEF Safety!CancelTriggers, Safety!When
    <3>3. (f.cancelFailures >= 1 /\ ~(f.cancelsWorking >= 3) /\ (f.cancelsWorking >= 1 \/ f.cancelFailures >= 3)) => after = severe
      BY Zenon DEF Safety!CancelTriggers, Safety!When
    <3>4. (f.cancelFailures >= 1 /\ f.cancelsWorking >= 3) => after = harsh
      BY Zenon DEF Safety!CancelTriggers, Safety!When
    <3> HIDE DEF before, after, none, mild, severe, harsh
    <3> QED
      BY <3>1, <3>2, <3>3, <3>4, Zenon
  <2> HIDE DEF before, after, none, mild, severe, harsh
  <2>4. \/ before = none
        \/ before = mild /\ after \in {mild, severe, harsh}
        \/ before = severe /\ after \in {severe, harsh}
        \/ before = harsh /\ after \in {harsh}
    BY <2>1, <2>2, <2>3
  <2> QED
    BY <2>4, HarsherTriggers, Zenon DEF Escalates, before, after, none, mild, severe, harsh
<1>12. Escalates(Safety!LatencyTriggers(e), Safety!LatencyTriggers(f))
  <2> DEFINE before == Safety!LatencyTriggers(e)
             after == Safety!LatencyTriggers(f)
             none == {}
             mild == {Safety!Trigger(3, "passive_only", FALSE, FALSE)}
             harsh == {Safety!Trigger(4, "no_new_entries", TRUE, FALSE)}
  <2>1. /\ e.slowCancels \in Int /\ f.slowCancels \in Int /\ e.slowCancels <= f.slowCancels
    BY DEF Worse, Figures
  <2>2. \/ ~(e.slowCancels >= 1) /\ before = none
        \/ (e.slowCancels >= 1 /\ ~(e.slowCancels >= 3)) /\ before = mild
        \/ (e.slowCancels >= 1 /\ e.slowCancels >= 3) /\ before = harsh
    BY <2>1 DEF Safety!LatencyTriggers, Safety!When
  <2>3. \/ ~(f.slowCancels >= 1) /\ after = none
        \/ (f.slowCancels >= 1 /\ ~(f.slowCancels >= 3)) /\ after = mild
        \/ (f.slowCancels >= 1 /\ f.slowCancels >= 3) /\ after = harsh
    BY <2>1 DEF Safety!LatencyTriggers, Safety!When
  <2> HIDE DEF before, after, none, mild, harsh
  <2>4. \/ before = none
        \/ before = mild /\ after \in {mild, harsh}
        \/ before = harsh /\ after \in {harsh}
    BY <2>1, <2>2, <2>3
  <2> QED
    BY <2>4, HarsherTriggers, Zenon DEF Escalates, before, after, none, mild, harsh
<1>13. Escalates(Safety!HeartbeatTriggers(e), Safety!HeartbeatTriggers(f))
  <2> DEFINE before == Safety!HeartbeatTriggers(e)
             after == Safety!HeartbeatTriggers(f)
             none == {}
             mild == {Safety!Trigger(4, "no_new_entries", TRUE, FALSE)}
             harsh == {Safety!Trigger(5, "halt", TRUE, TRUE)}
  <2>1. /\ e.heartbeats \in Int /\ f.heartbeats \in Int /\ e.heartbeats <= f.heartbeats
    BY DEF Worse, Figures
  <2>2. \/ ~(e.heartbeats >= 1) /\ before = none
        \/ (e.heartbeats >= 1 /\ ~(e.heartbeats >= 2)) /\ before = mild
        \/ (e.heartbeats >= 1 /\ e.heartbeats >= 2) /\ before = harsh
    BY <2>1 DEF Safety!HeartbeatTriggers, Safety!When
  <2>3. \/ ~(f.heartbeats >= 1) /\ after = none
        \/ (f.heartbeats >= 1 /\ ~(f.heartbeats >= 2)) /\ after = mild
        \/ (f.heartbeats >= 1 /\ f.heartbeats >= 2) /\ after = harsh
    BY <2>1 DEF Safety!HeartbeatTriggers, Safety!When
  <2> HIDE DEF before, after, none, mild, harsh
  <2>4. \/ before = none
        \/ before = mild /\ after \in {mild, harsh}
        \/ before = harsh /\ after \in {harsh}
    BY <2>1, <2>2, <2>3
  <2> QED
    BY <2>4, HarsherTriggers, Zenon DEF Escalates, before, after, none, mild, harsh
<1>14. Escalates(Safety!DivergenceTriggers(e), Safety!DivergenceTriggers(f))
  <2> DEFINE before == Safety!DivergenceTriggers(e)
             after == Safety!DivergenceTriggers(f)
             none == {}
             mild == {Safety!Trigger(3, "no_new_entries", TRUE, FALSE)}
             harsh == {Safety!Trigger(5, "halt", TRUE, TRUE)}
  <2>1. /\ e.divergence # "none" => f.divergence # "none"
        /\ e.divergence = "critical" => f.divergence = "critical"
    BY DEF Worse
  <2>2. \/ ~(e.divergence # "none") /\ before = none
        \/ (e.divergence # "none" /\ ~(e.divergence = "critical")) /\ before = mild
        \/ (e.divergence # "none" /\ e.divergence = "critical") /\ before = harsh
    BY <2>1 DEF Safety!DivergenceTriggers, Safety!When
  <2>3. \/ ~(f.divergence # "none") /\ after = none
        \/ (f.divergence # "none" /\ ~(f.divergence = "critical")) /\ after = mild
        \/ (f.divergence # "none" /\ f.divergence = "critical") /\ after = harsh
    BY <2>1 DEF Safety!DivergenceTriggers, Safety!When
  <2> HIDE DEF before, after, none, mild, harsh
  <2>4. \/ before = none
        \/ before = mild /\ after \in {mild, harsh}
        \/ before = harsh /\ after \in {harsh}
    BY <2>1, <2>2, <2>3
  <2> QED
    BY <2>4, HarsherTriggers, Zenon DEF Escalates, before, after, none, mild, harsh
<1>15. Escalates(Safety!StaleTriggers(e), Safety!StaleTriggers(f))
  <2> DEFINE before == Safety!StaleTriggers(e)
             after == Safety!StaleTriggers(f)
             none == {}
             mild == {Safety!Trigger(2, "reduced_frequency", FALSE, FALSE)}
             harsh == {Safety!Trigger(4, "no_new_entries", TRUE, FALSE)}
  <2>1. /\ e.staleRejects \in Int /\ f.staleRejects \in Int /\ e.staleRejects <= f.staleRejects
        /\ e.decisions \in Int /\ f.decisions = e.decisions
    BY DEF Worse, Figures
  <2>2. \/ ~(e.staleRejects >= 3 /\ e.staleRejects * 10 >= 4 * e.decisions) /\ before = none
        \/ ((e.staleRejects >= 3 /\ e.staleRejects * 10 >= 4 * e.decisions) /\ ~(e.staleRejects * 10 >= 7 * e.decisions)) /\ before = mild
        \/ ((e.staleRejects >= 3 /\ e.staleRejects * 10 >= 4 * e.decisions) /\ (e.staleRejects * 10 >= 7 * e.decisions)) /\ before = harsh
    BY <2>1 DEF Safety!StaleTriggers, Safety!When
  <2>3. \/ ~(f.staleRejects >= 3 /\ f.staleRejects * 10 >= 4 * f.decisions) /\ after = none
        \/ ((f.staleRejects >= 3 /\ f.staleRejects * 10 >= 4 * f.decisions) /\ ~(f.staleRejects * 10 >= 7 * f.decisions)) /\ after = mild
        \/ ((f.staleRejects >= 3 /\ f.staleRejects * 10 >= 4 * f.decisions) /\ (f.staleRejects * 10 >= 7 * f.decisions)) /\ after = harsh
    BY <2>1 DEF Safety!StaleTriggers, Safety!When
  <2> HIDE DEF before, after, none, mild, harsh
  <2>4. \/ before = none
        \/ before = mild /\ after \in {mild, harsh}
        \/ before = harsh /\ after \in {harsh}
    BY <2>1, <2>2, <2>3
  <2> QED
    BY <2>4, HarsherTriggers, Zenon DEF Escalates, before, after, none, mild, harsh
<1> QED
  BY <1>1, <1>2, <1>3, <1>4, <1>5, <1>6, <1>7, <1>8, <1>9, <1>10, <1>11, <1>12, <1>13, <1>14, <1>15 DEF Escalates, Safety!Triggers

\* A set of states as severe as another.
Covers(S, T) == \A t \in S : \E u \in T : Safety!Rank[u] >= Safety!Rank[t]

LEMMA DailyLossCovers ==
  ASSUME NEW a \in Int, NEW b \in Int, a <= b
  PROVE  Covers(Safety!DailyLossStates(a), Safety!DailyLossStates(b))
<1> DEFINE before == Safety!DailyLossStates(a)
           after == Safety!DailyLossStates(b)
           r == Safety!Rank
<1>1. \/ a >= 125 /\ before = {"halt"}
      \/ a \in 100 .. 124 /\ before = {"no_new_entries"}
      \/ a \in 75 .. 99 /\ before = {"passive_only"}
      \/ a \in 50 .. 74 /\ before = {"reduced_size"}
      \/ a < 50 /\ before = {}
  BY DEF Safety!DailyLossStates
<1>2. \/ b >= 125 /\ after = {"halt"}
      \/ b \in 100 .. 124 /\ after = {"no_new_entries"}
      \/ b \in 75 .. 99 /\ after = {"passive_only"}
      \/ b \in 50 .. 74 /\ after = {"reduced_size"}
      \/ b < 50 /\ after = {}
  BY DEF Safety!DailyLossStates
<1>3. /\ r["halt"] = 5 /\ r["no_new_entries"] = 4 /\ r["passive_only"] = 3
      /\ r["reduced_size"] = 1
  BY DEF Safety!Rank
<1> HIDE DEF before, after, r
<1>4. \A t \in before : \E u \in after : r[u] >= r[t]
  BY <1>1, <1>2, <1>3
<1> QED
  BY <1>4 DEF Covers, before, after, r

LEMMA LossStreakCovers ==
  ASSUME NEW a \in Int, NEW b \in Int, a <= b
  PROVE  Covers(Safety!LossStreakStates(a), Safety!LossStreakStates(b))
<1> DEFINE before == Safety!LossStreakStates(a)
           after == Safety!LossStreakStates(b)
           r == Safety!Rank
<1>0. Safety!Max({1, Safety!MaxLosses - 1}) = 1
  BY DEF Safety!Max, Safety!MaxLosses
<1>1. \/ a > 2 /\ before = {"halt"}
      \/ a = 2 /\ before = {"no_new_entries"}
      \/ a = 1 /\ before = {"reduced_frequency"}
      \/ a < 1 /\ before = {}
  BY <1>0 DEF Safety!LossStreakStates, Safety!MaxLosses
<1>2. \/ b > 2 /\ after = {"halt"}
      \/ b = 2 /\ after = {"no_new_entries"}
      \/ b = 1 /\ after = {"reduced_frequency"}
      \/ b < 1 /\ after = {}
  BY <1>0 DEF Safety!LossStreakStates, Safety!MaxLosses
<1>3. r["halt"] = 5 /\ r["no_new_entries"] = 4 /\ r["reduced_frequency"] = 2
  BY DEF Safety!Rank
<1> HIDE DEF before, after, r
<1>4. \A t \in before : \E u \in after : r[u] >= r[t]
  BY <1>1, <1>2, <1>3
<1> QED
  BY <1>4 DEF Covers, before, after, r

\* The state the machine is told to enter is no milder under worse evidence.
LEMMA RecommendedGrows ==
  ASSUME NEW e, NEW f, Worse(e, f)
  PROVE  Safety!Rank[Safety!Recommended(f)] >= Safety!Rank[Safety!Recommended(e)]
<1> DEFINE Triggered(x) == {t.state : t \in Safety!Triggers(x)}
           All(x) == Safety!DailyLossStates(x.dailyLoss) \cup Safety!LossStreakStates(x.losses)
                     \cup Triggered(x) \cup Safety!CauseStates(x.cause, x.confidence)
<1>1. /\ e.dailyLoss \in Int /\ f.dailyLoss \in Int /\ e.dailyLoss <= f.dailyLoss
      /\ e.losses \in Int /\ f.losses \in Int /\ e.losses <= f.losses
      /\ e.cause = f.cause /\ e.confidence = f.confidence
  BY DEF Worse, Figures
<1>2. All(e) \subseteq Safety!States /\ All(f) \subseteq Safety!States
  <2>1. Safety!DailyLossStates(e.dailyLoss) \cup Safety!DailyLossStates(f.dailyLoss)
          \subseteq Safety!States
    BY <1>1 DEF Safety!DailyLossStates, Safety!States
  <2>2. Safety!LossStreakStates(e.losses) \cup Safety!LossStreakStates(f.losses)
          \subseteq Safety!States
    BY DEF Safety!LossStreakStates, Safety!States
  <2>3. Triggered(e) \cup Triggered(f) \subseteq Safety!States
    BY TriggersAre DEF Triggering
  <2>4. Safety!CauseStates(e.cause, e.confidence) \subseteq Safety!States
    BY DEF Safety!CauseStates, Safety!States
  <2> QED
    BY <1>1, <2>1, <2>2, <2>3, <2>4
<1>3. \A t \in All(e) : \E u \in All(f) : Safety!Rank[u] >= Safety!Rank[t]
  <2>1. Covers(Triggered(e), Triggered(f))
    BY TriggersEscalate DEF Escalates, Harsher, Covers
  <2>2. Covers(Safety!DailyLossStates(e.dailyLoss), Safety!DailyLossStates(f.dailyLoss))
    BY <1>1, DailyLossCovers
  <2>3. Covers(Safety!LossStreakStates(e.losses), Safety!LossStreakStates(f.losses))
    BY <1>1, LossStreakCovers
  <2>4. \A t \in Safety!CauseStates(e.cause, e.confidence) : Safety!Rank[t] >= Safety!Rank[t]
    <3>1. \A t \in Safety!States : Safety!Rank[t] >= Safety!Rank[t]
      BY DEF Safety!States, Safety!Rank
    <3> QED
      BY <1>2, <3>1
  <2> HIDE DEF Triggered
  <2> QED
    BY <1>1, <2>1, <2>2, <2>3, <2>4 DEF Covers
<1>4. Safety!Recommended(e) = Safety!Severest(All(e)) /\ Safety!Recommended(f) = Safety!Severest(All(f))
  BY DEF Safety!Recommended
<1> HIDE DEF All
<1>5. /\ Safety!Severest(All(e)) \in All(e) \cup {"normal"}
      /\ Safety!Severest(All(f)) \in Safety!States
      /\ \A t \in All(f) : Safety!Rank[Safety!Severest(All(f))] >= Safety!Rank[t]
  BY <1>2, SeverestOfStates DEF Safety!States
<1>6. \A s \in Safety!States : Safety!Rank[s] \in Nat /\ Safety!Rank["normal"] = 0
  BY DEF Safety!States, Safety!Rank
<1>7. CASE Safety!Severest(All(e)) = "normal"
  BY <1>4, <1>5, <1>6, <1>7
<1>8. CASE Safety!Severest(All(e)) \in All(e)
  <2>1. PICK u \in All(f) : Safety!Rank[u] >= Safety!Rank[Safety!Severest(All(e))]
    BY <1>3, <1>8
  <2>2. Safety!Rank[Safety!Severest(All(f))] >= Safety!Rank[u]
    BY <1>5, <2>1
  <2>3. /\ Safety!Rank[u] \in Nat /\ Safety!Rank[Safety!Severest(All(f))] \in Nat
        /\ Safety!Rank[Safety!Severest(All(e))] \in Nat
    BY <1>2, <1>5, <1>6, <1>8, <2>1
  <2> QED
    BY <1>4, <2>1, <2>2, <2>3
<1> QED
  BY <1>5, <1>7, <1>8

\* The highest severity of a set of triggers, and what it makes of the runtime.
Highest(T) == IF T = {} THEN 0 ELSE Safety!Max({t.severity : t \in T})
RuntimeFor(highest) ==
  CASE highest >= 5 -> "halted_hard"
    [] highest = 4  -> "cancel_only"
    [] highest = 3  -> "reconciliation_only"
    [] highest \in 1..2 -> "degraded"
    [] highest = 0  -> "running"

LEMMA HighestIs ==
  ASSUME NEW T, T \subseteq Triggering
  PROVE  /\ Highest(T) \in 0 .. 5
         /\ T = {} => Highest(T) = 0
         /\ T # {} => \E t \in T : Highest(T) = t.severity
         /\ \A t \in T : Highest(T) >= t.severity
<1>1. CASE T = {}
  BY <1>1 DEF Highest
<1>2. CASE T # {}
  <2> DEFINE all == {t.severity : t \in T}
  <2>1. all \subseteq 1 .. 5 /\ all # {}
    BY <1>2 DEF Triggering
  <2>2. Highest(T) = CHOOSE x \in all : \A y \in all : x >= y
    BY <1>2 DEF Highest, Safety!Max
  <2> HIDE DEF all
  <2>3. \E x \in all : \A y \in all : x >= y
    <3>1. CASE 5 \in all
      BY <2>1, <3>1
    <3>2. CASE 5 \notin all /\ 4 \in all
      BY <2>1, <3>2
    <3>3. CASE 5 \notin all /\ 4 \notin all /\ 3 \in all
      BY <2>1, <3>3
    <3>4. CASE 5 \notin all /\ 4 \notin all /\ 3 \notin all /\ 2 \in all
      BY <2>1, <3>4
    <3>5. CASE all \subseteq {1}
      <4>1. all = {1}
        BY <2>1, <3>5
      <4> QED
        BY <4>1
    <3> QED
      BY <2>1, <3>1, <3>2, <3>3, <3>4, <3>5
  <2>4. Highest(T) \in all /\ \A y \in all : Highest(T) >= y
    BY <2>2, <2>3, Zenon
  <2>5. Highest(T) \in 0 .. 5
    <3>1. Highest(T) \in all
      BY <2>4
    <3>2. \A x \in all : x \in 1 .. 5
      BY <2>1
    <3>3. Highest(T) \in 1 .. 5
      BY <3>1, <3>2
    <3> QED
      BY <3>3
  <2>6. \E t \in T : Highest(T) = t.severity
    BY <2>4, Zenon DEF all
  <2>7. \A t \in T : Highest(T) >= t.severity
    BY <2>4, Zenon DEF all
  <2> QED
    BY <1>2, <2>5, <2>6, <2>7
<1> QED
  BY <1>1, <1>2

\* The verdict of the kill switch, without anomalies, in terms of the triggers.
LEMMA SwitchIs ==
  ASSUME NEW e
  PROVE  LET T == Safety!Triggers(e)
             runtime == RuntimeFor(Highest(T))
             k == Safety!KillSwitch(e, {})
         IN  /\ k.runtime = runtime
             /\ k.state = Safety!Severest({t.state : t \in T})
             /\ k.block <=> (\E t \in T : t.block) \/ runtime # "running"
             /\ k.reduce <=> (\E t \in T : t.reduce) \/ runtime \in {"cancel_only", "halted_hard"}
<1> DEFINE T == Safety!Triggers(e)
           runtime == RuntimeFor(Highest(T))
           k == Safety!KillSwitch(e, {})
           single == {runtime} \cup {a.runtime : a \in {}}
<1>1. Safety!RuntimeOfSeverity(T) = runtime
  BY DEF Safety!RuntimeOfSeverity, RuntimeFor, Highest
<1>2. runtime \in {"running", "degraded", "reconciliation_only", "cancel_only", "halted_hard"}
  BY TriggersAre, HighestIs DEF RuntimeFor
<1>3. Safety!StrictestRuntime(single) = runtime
  <2>1. single = {runtime}
    OBVIOUS
  <2> HIDE DEF runtime
  <2>2. /\ \E s \in {runtime} \cup {"running"} :
             \A t \in {runtime} : Safety!RuntimeRank[s] >= Safety!RuntimeRank[t]
        /\ \A s \in {runtime} \cup {"running"} :
             (\A t \in {runtime} : Safety!RuntimeRank[s] >= Safety!RuntimeRank[t]) => s = runtime
    BY <1>2 DEF Safety!RuntimeRank
  <2> HIDE DEF single
  <2> QED
    BY <2>1, <2>2, Zenon DEF Safety!StrictestRuntime
<1>4. k = [triggers |-> T,
           state    |-> Safety!Severest({t.state : t \in T}),
           runtime  |-> runtime,
           block    |-> (\E t \in T : t.block) \/ runtime # "running",
           reduce   |-> (\E t \in T : t.reduce) \/ runtime \in {"cancel_only", "halted_hard"}]
  BY <1>1, <1>3, Zenon DEF Safety!KillSwitch
<1> HIDE DEF T, runtime, k
<1>5. k.runtime = runtime
  BY <1>4
<1>6. k.state = Safety!Severest({t.state : t \in T})
  BY <1>4
<1>7. k.block <=> (\E t \in T : t.block) \/ runtime # "running"
  BY <1>4, Zenon
<1>8. k.reduce <=> (\E t \in T : t.reduce) \/ runtime \in {"cancel_only", "halted_hard"}
  BY <1>4, Zenon
<1> QED
  BY <1>5, <1>6, <1>7, <1>8 DEF T, runtime, k

\* The kill switch is no milder in any part of its verdict under worse evidence.
LEMMA SwitchGrows ==
  ASSUME NEW e, NEW f, Worse(e, f)
  PROVE  LET before == Safety!KillSwitch(e, {})
             after  == Safety!KillSwitch(f, {})
         IN  /\ Safety!RuntimeRank[after.runtime] >= Safety!RuntimeRank[before.runtime]
             /\ before.block => after.block
             /\ before.reduce => after.reduce
<1> DEFINE S == Safety!Triggers(e)
           T == Safety!Triggers(f)
           low == Highest(S)
           high == Highest(T)
           before == Safety!KillSwitch(e, {})
           after  == Safety!KillSwitch(f, {})
<1>1. S \subseteq Triggering /\ T \subseteq Triggering /\ Escalates(S, T)
  BY TriggersAre, TriggersEscalate
<1>2. low \in 0 .. 5 /\ high \in 0 .. 5 /\ low <= high
  <2> HIDE DEF S, T
  <2>1. low \in 0 .. 5 /\ high \in 0 .. 5
    BY <1>1, HighestIs
  <2>2. CASE S = {}
    BY <1>1, <2>1, <2>2, HighestIs
  <2>3. CASE S # {}
    <3>1. PICK t \in S : low = t.severity
      BY <1>1, <2>3, HighestIs
    <3>2. PICK u \in T : u.severity >= t.severity
      BY <1>1 DEF Escalates, Harsher
    <3>3. high >= u.severity
      BY <1>1, HighestIs
    <3>4. u.severity \in Nat
      BY <1>1 DEF Triggering
    <3> HIDE DEF low, high
    <3> QED
      BY <2>1, <3>1, <3>2, <3>3, <3>4
  <2> QED
    BY <2>2, <2>3
<1>3. /\ before.runtime = RuntimeFor(low)
      /\ before.block <=> (\E t \in S : t.block) \/ RuntimeFor(low) # "running"
      /\ before.reduce <=> (\E t \in S : t.reduce) \/ RuntimeFor(low) \in {"cancel_only", "halted_hard"}
      /\ after.runtime = RuntimeFor(high)
      /\ after.block <=> (\E t \in T : t.block) \/ RuntimeFor(high) # "running"
      /\ after.reduce <=> (\E t \in T : t.reduce) \/ RuntimeFor(high) \in {"cancel_only", "halted_hard"}
  BY SwitchIs
<1>4. /\ (\E t \in S : t.block) => (\E t \in T : t.block)
      /\ (\E t \in S : t.reduce) => (\E t \in T : t.reduce)
  BY <1>1, Zenon DEF Escalates, Harsher
<1> HIDE DEF S, T, low, high, before, after
<1>5. /\ Safety!RuntimeRank[RuntimeFor(high)] >= Safety!RuntimeRank[RuntimeFor(low)]
      /\ RuntimeFor(low) # "running" => RuntimeFor(high) # "running"
      /\ RuntimeFor(low) \in {"cancel_only", "halted_hard"}
           => RuntimeFor(high) \in {"cancel_only", "halted_hard"}
  <2> DEFINE rank == Safety!RuntimeRank
             for(h) == RuntimeFor(h)
  <2>1. \A h \in 0 .. 5 :
          \/ h = 0 /\ for(h) = "running" /\ rank[for(h)] = 0
          \/ h \in 1 .. 2 /\ for(h) = "degraded" /\ rank[for(h)] = 1
          \/ h = 3 /\ for(h) = "reconciliation_only" /\ rank[for(h)] = 2
          \/ h = 4 /\ for(h) = "cancel_only" /\ rank[for(h)] = 3
          \/ h = 5 /\ for(h) = "halted_hard" /\ rank[for(h)] = 4
    BY DEF RuntimeFor, Safety!RuntimeRank
  <2> HIDE DEF rank, for
  <2>2. /\ rank[for(high)] >= rank[for(low)]
        /\ for(low) # "running" => for(high) # "running"
        /\ for(low) \in {"cancel_only", "halted_hard"} => for(high) \in {"cancel_only", "halted_hard"}
    BY <1>2, <2>1
  <2> QED
    BY <2>2 DEF rank, for
<1>6. Safety!RuntimeRank[after.runtime] >= Safety!RuntimeRank[before.runtime]
  BY <1>3, <1>5
<1>7. before.block => after.block
  BY <1>3, <1>4, <1>5, Zenon
<1>8. before.reduce => after.reduce
  BY <1>3, <1>4, <1>5, Zenon
<1> QED
  BY <1>6, <1>7, <1>8 DEF before, after

\* The safety machine is told to halt exactly when the runtime is.
LEMMA HaltIsOne ==
  ASSUME NEW e
  PROVE  LET k == Safety!KillSwitch(e, {}) IN k.state = "halt" <=> k.runtime = "halted_hard"
<1> DEFINE T == Safety!Triggers(e)
           states == {t.state : t \in T}
<1>1. T \subseteq Triggering
  BY TriggersAre
<1> HIDE DEF T
<1>2. states \subseteq Safety!States
  BY <1>1 DEF Triggering
<1>3. RuntimeFor(Highest(T)) = "halted_hard" <=> Highest(T) = 5
  BY <1>1, HighestIs DEF RuntimeFor
<1>4. Highest(T) = 5 <=> \E t \in T : t.state = "halt"
  <2>1. ASSUME Highest(T) = 5 PROVE \E t \in T : t.state = "halt"
    <3>1. T # {}
      BY <2>1, HighestIs, <1>1
    <3>2. PICK t \in T : t.severity = 5
      BY <1>1, <2>1, <3>1, HighestIs
    <3> QED
      BY <1>1, <3>2 DEF Triggering
  <2>2. ASSUME NEW t \in T, t.state = "halt" PROVE Highest(T) = 5
    <3>1. t.severity = 5
      BY <1>1, <2>2 DEF Triggering
    <3>2. Highest(T) >= 5 /\ Highest(T) \in 0 .. 5
      BY <1>1, <3>1, HighestIs
    <3> QED
      BY <3>2
  <2> QED
    BY <2>1, <2>2
<1>5. Safety!Severest(states) = "halt" <=> \E t \in T : t.state = "halt"
  <2>1. ASSUME NEW t \in T, t.state = "halt" PROVE Safety!Severest(states) = "halt"
    <3>1. "halt" \in states
      BY <2>1
    <3> HIDE DEF states
    <3>2. /\ Safety!Severest(states) \in Safety!States
          /\ Safety!Rank[Safety!Severest(states)] >= Safety!Rank["halt"]
      BY <1>2, <3>1, SeverestOfStates DEF Safety!States
    <3> QED
      BY <3>2 DEF Safety!States, Safety!Rank
  <2>2. ASSUME Safety!Severest(states) = "halt" PROVE \E t \in T : t.state = "halt"
    <3>1. "halt" \in states
      BY <1>2, <2>2, SeverestOfStates
    <3> QED
      BY <3>1
  <2> QED
    BY <2>1, <2>2
<1> QED
  BY <1>3, <1>4, <1>5, SwitchIs DEF T

\* The levels of a figure are numbers that rise, those of a state grow worse.
Rises(levels) ==
  \A i \in DOMAIN levels : /\ levels[i] \in Int
                           /\ i + 1 \in DOMAIN levels => levels[i] <= levels[i + 1]

LEMMA LevelsRise ==
  /\ \A x \in Figures : Rises(Safety!Levels[x])
  /\ DOMAIN Safety!Levels = Figures \cup {"freshness", "divergence"}
  /\ Safety!Levels.freshness = <<"fresh", "degraded", "stale">>
  /\ Safety!Levels.divergence = <<"none", "warning", "critical">>
<1>1. Rises(Safety!Levels["dailyLoss"])
  BY DEF Rises, Safety!Levels
<1>2. Rises(Safety!Levels["losses"])
  BY DEF Rises, Safety!Levels
<1>3. Rises(Safety!Levels["drawdown"])
  BY DEF Rises, Safety!Levels
<1>4. Rises(Safety!Levels["hourly"])
  BY DEF Rises, Safety!Levels
<1>5. Rises(Safety!Levels["concentration"])
  BY DEF Rises, Safety!Levels
<1>6. Rises(Safety!Levels["slippageDrifts"])
  BY DEF Rises, Safety!Levels
<1>7. Rises(Safety!Levels["toxicPartials"])
  BY DEF Rises, Safety!Levels
<1>8. Rises(Safety!Levels["qualityDrifts"])
  BY DEF Rises, Safety!Levels
<1>9. Rises(Safety!Levels["costBlowouts"])
  BY DEF Rises, Safety!Levels
<1>10. Rises(Safety!Levels["postFailures"])
  BY DEF Rises, Safety!Levels
<1>11. Rises(Safety!Levels["cancelFailures"])
  BY DEF Rises, Safety!Levels
<1>12. Rises(Safety!Levels["cancelsWorking"])
  BY DEF Rises, Safety!Levels
<1>13. Rises(Safety!Levels["slowCancels"])
  BY DEF Rises, Safety!Levels
<1>14. Rises(Safety!Levels["heartbeats"])
  BY DEF Rises, Safety!Levels
<1>15. Rises(Safety!Levels["staleRejects"])
  BY DEF Rises, Safety!Levels
<1>16. DOMAIN Safety!Levels = Figures \cup {"freshness", "divergence"}
  BY DEF Safety!Levels, Figures
<1>17. /\ Safety!Levels.freshness = <<"fresh", "degraded", "stale">>
       /\ Safety!Levels.divergence = <<"none", "warning", "critical">>
  BY DEF Safety!Levels
<1>18. \A x \in Figures : Rises(Safety!Levels[x])
  BY <1>1, <1>2, <1>3, <1>4, <1>5, <1>6, <1>7, <1>8, <1>9, <1>10, <1>11, <1>12, <1>13, <1>14, <1>15, Zenon DEF Figures
<1> QED
  BY <1>16, <1>17, <1>18, Zenon

\* The fields of the evidence of the ladder: levels, and a cause with its confidence.
Fields == DOMAIN Safety!Levels \cup {"decisions", "cause", "confidence"}
Graded(e) ==
  /\ e = [x \in Fields |-> e[x]]
  /\ \A x \in DOMAIN Safety!Levels :
        \E i \in DOMAIN Safety!Levels[x] : e[x] = Safety!Levels[x][i]
  /\ e.decisions \in Int

LEMMA CleanIsGraded == Graded(Safety!Clean)
<1>1. Safety!Clean = [x \in Fields |-> Safety!Clean[x]]
  BY DEF Safety!Clean, Safety!Levels, Fields
<1>2. \A x \in DOMAIN Safety!Levels :
        /\ 1 \in DOMAIN Safety!Levels[x]
        /\ Safety!Clean[x] = Safety!Levels[x][1]
  BY DEF Safety!Clean, Safety!Levels
<1>3. Safety!Clean.decisions \in Int
  BY DEF Safety!Clean
<1> QED
  BY <1>1, <1>2, <1>3, Zenon DEF Graded

\* The level a field is at.
LEMMA LevelIs ==
  ASSUME NEW e, Graded(e), NEW x \in DOMAIN Safety!Levels
  PROVE  /\ Safety!Level(e, x) \in DOMAIN Safety!Levels[x]
         /\ Safety!Levels[x][Safety!Level(e, x)] = e[x]
BY Zenon DEF Graded, Safety!Level

LEMMA MovedIsGraded ==
  ASSUME NEW e, Graded(e), NEW x \in DOMAIN Safety!Levels, NEW j \in DOMAIN Safety!Levels[x]
  PROVE  Graded([e EXCEPT ![x] = Safety!Levels[x][j]])
<1> DEFINE to == Safety!Levels[x][j]
           f == [e EXCEPT ![x] = to]
<1>1. x # "decisions"
  BY LevelsRise DEF Figures
<1>2. e = [y \in Fields |-> e[y]] /\ x \in Fields /\ "decisions" \in Fields
  BY DEF Graded, Fields
<1>3. \E i \in DOMAIN Safety!Levels[x] : to = Safety!Levels[x][i]
  OBVIOUS
<1> HIDE DEF to
<1>4. \A y \in Fields : f[y] = IF y = x THEN to ELSE e[y]
  BY <1>2
<1>5. f = [y \in Fields |-> f[y]]
  BY <1>2
<1>6. f.decisions \in Int
  BY <1>1, <1>2, <1>4 DEF Graded
<1> HIDE DEF f
<1>7. ASSUME NEW y \in DOMAIN Safety!Levels
      PROVE  \E i \in DOMAIN Safety!Levels[y] : f[y] = Safety!Levels[y][i]
  <2>1. f[y] = IF y = x THEN to ELSE e[y]
    BY <1>4 DEF Fields
  <2> QED
    BY <1>3, <2>1, Zenon DEF Graded
<1>8. Graded(f)
  BY <1>5, <1>6, <1>7, Zenon DEF Graded
<1> QED
  BY <1>8 DEF f, to

\* A step of the evidence to the worse, as the lemmas above compare evidence.
LEMMA MovedIsWorse ==
  ASSUME NEW e, Graded(e), NEW x \in DOMAIN Safety!Levels,
         Safety!Level(e, x) + 1 \in DOMAIN Safety!Levels[x]
  PROVE  Worse(e, [e EXCEPT ![x] = Safety!Levels[x][Safety!Level(e, x) + 1]])
<1> DEFINE i == Safety!Level(e, x)
           to == Safety!Levels[x][i + 1]
           f == [e EXCEPT ![x] = to]
<1>1. i \in DOMAIN Safety!Levels[x] /\ Safety!Levels[x][i] = e[x] /\ i + 1 \in DOMAIN Safety!Levels[x]
  BY LevelIs
<1>2. e = [y \in Fields |-> e[y]] /\ x \in Fields
  BY DEF Graded, Fields
<1>3. x \in Figures => e[x] \in Int /\ to \in Int /\ e[x] <= to
  BY <1>1, LevelsRise DEF Rises
<1>4. x = "freshness" => /\ to # "fresh"
                         /\ e[x] = "stale" => to = "stale"
  <2>1. CASE x = "freshness"
    <3>1. i \in 1 .. 3 /\ i + 1 \in 1 .. 3 /\ to = <<"fresh", "degraded", "stale">>[i + 1]
          /\ e[x] = <<"fresh", "degraded", "stale">>[i]
      BY <1>1, <2>1, LevelsRise
    <3> HIDE DEF i, to
    <3> QED
      BY <3>1
  <2> QED
    BY <2>1
<1>5. x = "divergence" => /\ to # "none"
                          /\ e[x] = "critical" => to = "critical"
  <2>1. CASE x = "divergence"
    <3>1. i \in 1 .. 3 /\ i + 1 \in 1 .. 3 /\ to = <<"none", "warning", "critical">>[i + 1]
          /\ e[x] = <<"none", "warning", "critical">>[i]
      BY <1>1, <2>1, LevelsRise
    <3> HIDE DEF i, to
    <3> QED
      BY <3>1
  <2> QED
    BY <2>1
<1> HIDE DEF to
<1>6. \A y \in Fields : f[y] = IF y = x THEN to ELSE e[y]
  BY <1>2
<1>7. /\ Figures \subseteq Fields
      /\ \A y \in Figures : e[y] \in Int
      /\ {"freshness", "divergence", "decisions", "cause", "confidence"} \subseteq Fields
      /\ x \notin {"decisions", "cause", "confidence"}
  <2>1. \A y \in Figures : e[y] \in Int
    BY LevelsRise DEF Graded, Rises
  <2> QED
    BY <2>1, LevelsRise DEF Fields, Figures
<1> HIDE DEF f
<1>8. \A y \in Figures : e[y] \in Int /\ f[y] \in Int /\ e[y] <= f[y]
  BY <1>3, <1>6, <1>7
<1>9. /\ e.freshness # "fresh" => f.freshness # "fresh"
      /\ e.freshness = "stale" => f.freshness = "stale"
  BY <1>4, <1>6, <1>7
<1>10. /\ e.divergence # "none" => f.divergence # "none"
       /\ e.divergence = "critical" => f.divergence = "critical"
  BY <1>5, <1>6, <1>7
<1>11. e.decisions \in Int /\ f.decisions = e.decisions
  BY <1>6, <1>7 DEF Graded
<1>12. f.cause = e.cause /\ f.confidence = e.confidence
  BY <1>6, <1>7
<1>13. Worse(e, f)
  BY <1>8, <1>9, <1>10, <1>11, <1>12 DEF Worse
<1> QED
  BY <1>13 DEF f, to, i

\* The evidence is graded, the state is one of the ladder's, and the clock of the last
\* change is the entry of the state.
Timed ==
  /\ Graded(evidence)
  /\ safety.state \in Safety!States
  /\ changedAt = safety.entered

LEMMA TimedInit == Safety!Init => Timed
BY CleanIsGraded DEF Safety!Init, Timed, Safety!States

LEMMA TickKeepsTime ==
  ASSUME Timed, Safety!Tick
  PROVE  /\ Timed'
         /\ Safety!KeepsCooldown
<1> DEFINE recommended == Safety!Recommended(evidence)
           elapsed == clock - safety.entered >= Safety!Cooldown[safety.state]
           milder == Safety!Rank[recommended] < Safety!Rank[safety.state]
           held == milder /\ ~elapsed
           next == IF held THEN safety.state ELSE recommended
<1>1. recommended \in Safety!States
  <2>1. evidence.dailyLoss \in Int
    <3>1. \E i \in DOMAIN Safety!Levels.dailyLoss : evidence.dailyLoss = Safety!Levels.dailyLoss[i]
      BY LevelsRise DEF Timed, Graded, Figures
    <3> QED
      BY <3>1, LevelsRise DEF Rises, Figures
  <2> QED
    BY <2>1, RecommendedIs
<1>2. safety' = [state |-> next, entered |-> IF next = safety.state THEN safety.entered ELSE clock]
  BY DEF Safety!Tick, Safety!Evaluate, Safety!CooldownElapsed
<1>3. /\ changedAt' = IF safety'.state # safety.state THEN clock ELSE changedAt
      /\ evidence' = evidence
  BY DEF Safety!Tick
<1>4. held \/ next = recommended
  OBVIOUS
<1>5. held => next = safety.state
  OBVIOUS
<1> HIDE DEF recommended, elapsed, milder, held, next
<1>6. safety'.state = next /\ safety'.entered = IF next = safety.state THEN safety.entered ELSE clock
  BY <1>2
<1>7. Timed'
  BY <1>1, <1>3, <1>4, <1>5, <1>6 DEF Timed
<1>8. ASSUME Safety!Relaxing PROVE elapsed
  <2>1. Safety!Rank[next] < Safety!Rank[safety.state]
    BY <1>6, <1>8 DEF Safety!Relaxing
  <2>2. next # safety.state
    <3>1. Safety!Rank[safety.state] \in Int
      BY DEF Timed, Safety!States, Safety!Rank
    <3> QED
      BY <2>1, <3>1
  <2>3. next = recommended /\ ~held
    BY <1>4, <1>5, <2>2
  <2> QED
    BY <2>1, <2>3 DEF held, milder
<1>9. Safety!Relaxing => clock - changedAt >= Safety!Cooldown[safety.state]
  BY <1>8 DEF Timed, elapsed
<1> QED
  BY <1>7, <1>9 DEF Safety!KeepsCooldown

LEMMA TimedStep ==
  ASSUME Timed, Safety!Next
  PROVE  /\ Timed'
         /\ Safety!KeepsCooldown
<1>1. CASE Safety!Tick
  BY <1>1, TickKeepsTime
<1>2. CASE Safety!Wait
  <2>1. Timed'
    BY <1>2 DEF Safety!Wait, Timed
  <2>2. safety' = safety /\ Safety!Rank[safety.state] \in Int
    BY <1>2 DEF Safety!Wait, Timed, Safety!States, Safety!Rank
  <2> QED
    BY <2>1, <2>2 DEF Safety!KeepsCooldown, Safety!Relaxing
<1>3. ASSUME UNCHANGED <<safety, clock, changedAt>>, Graded(evidence')
      PROVE  Timed' /\ Safety!KeepsCooldown
  <2>1. Timed'
    BY <1>3 DEF Timed
  <2>2. Safety!Rank[safety.state] \in Int
    BY DEF Timed, Safety!States, Safety!Rank
  <2> QED
    BY <1>3, <2>1, <2>2 DEF Safety!KeepsCooldown, Safety!Relaxing
<1>4. CASE Safety!Worsen
  <2>1. PICK f \in DOMAIN Safety!Levels : Safety!Move(f, 1)
    BY <1>4 DEF Safety!Worsen
  <2>2. Graded(evidence')
    BY <2>1, MovedIsGraded DEF Safety!Move, Timed
  <2> QED
    BY <1>3, <2>1, <2>2 DEF Safety!Move
<1>5. CASE Safety!Improve
  <2>1. PICK f \in DOMAIN Safety!Levels : Safety!Move(f, -1)
    BY <1>5 DEF Safety!Improve
  <2>2. Graded(evidence')
    BY <2>1, MovedIsGraded DEF Safety!Move, Timed
  <2> QED
    BY <1>3, <2>1, <2>2 DEF Safety!Move
<1>6. CASE Safety!Blame
  <2>1. PICK d \in Safety!Blames :
          evidence' = [evidence EXCEPT !.cause = d.cause, !.confidence = d.confidence]
    BY <1>6 DEF Safety!Blame
  <2>2. Graded(evidence')
    <3>1. {"cause", "confidence"} \cap (DOMAIN Safety!Levels \cup {"decisions"}) = {}
      BY LevelsRise DEF Figures
    <3>2. \A y \in DOMAIN Safety!Levels \cup {"decisions"} : evidence'[y] = evidence[y]
      BY <2>1, <3>1 DEF Timed, Graded, Fields
    <3>3. evidence' = [y \in Fields |-> evidence'[y]]
      BY <2>1 DEF Timed, Graded, Fields
    <3>4. evidence'.decisions \in Int
      BY <3>2 DEF Timed, Graded
    <3>5. \A y \in DOMAIN Safety!Levels :
            \E i \in DOMAIN Safety!Levels[y] : evidence'[y] = Safety!Levels[y][i]
      BY <3>2, Zenon DEF Timed, Graded
    <3> QED
      BY <3>3, <3>4, <3>5, Zenon DEF Graded
  <2> QED
    BY <1>3, <1>6, <2>2 DEF Safety!Blame
<1> QED
  BY <1>1, <1>2, <1>4, <1>5, <1>6 DEF Safety!Next

TimedThere == part = "safety" => Timed

LEMMA AlwaysTimed == Spec => []TimedThere
<1>1. Init => TimedThere
  BY TimedInit DEF Init, TimedThere
<1>2. TimedThere /\ [Next]_vars => TimedThere'
  <2> SUFFICES ASSUME TimedThere, [Next]_vars PROVE TimedThere'
    OBVIOUS
  <2>1. CASE UNCHANGED vars
    BY <2>1 DEF vars, safetyVars, TimedThere, Timed
  <2>2. CASE Next /\ part = "safety"
    <3>1. Safety!Next /\ UNCHANGED part
      BY <2>2 DEF Next
    <3> QED
      BY <2>2, <3>1, TimedStep DEF TimedThere
  <2>3. CASE Next /\ part # "safety"
    BY <2>3 DEF Next, TimedThere
  <2> QED
    BY <2>1, <2>2, <2>3
<1> QED
  BY <1>1, <1>2, PTL DEF Spec

\* A safety state is left for a milder one only after its own cooldown, counted from the
\* tick that entered it.
THEOREM CooldownsHold == Spec => CooldownKept
<1>1. TimedThere /\ [Next]_vars => [part = "safety" => Safety!KeepsCooldown]_safetyVars
  <2> SUFFICES ASSUME TimedThere, Next, part = "safety"
               PROVE  Safety!KeepsCooldown
    BY DEF vars
  <2>1. Safety!Next
    BY DEF Next
  <2> QED
    BY <2>1, TimedStep DEF TimedThere
<1> QED
  BY <1>1, AlwaysTimed, PTL DEF Spec, CooldownKept

\* Evidence worse in one figure, all else equal, never yields a milder verdict of the
\* state machine or of the kill switch, and the two always agree on a halt.
THEOREM VerdictsGrow == Spec => WorseNeverMilder
<1>1. TimedThere /\ [Next]_vars
        => [part = "safety" => Safety!NeverMilder /\ Safety!HaltsTogether]_evidence
  <2> SUFFICES ASSUME TimedThere, Next, part = "safety"
               PROVE  Safety!NeverMilder /\ Safety!HaltsTogether
    BY DEF vars, safetyVars
  <2>1. Safety!HaltsTogether
    BY HaltIsOne DEF Safety!HaltsTogether
  <2>2. ASSUME Safety!Worsen PROVE Worse(evidence, evidence')
    <3>1. PICK f \in DOMAIN Safety!Levels : Safety!Move(f, 1)
      BY <2>2 DEF Safety!Worsen
    <3> QED
      BY <3>1, MovedIsWorse DEF Safety!Move, TimedThere, Timed
  <2>3. Safety!NeverMilder
    BY <2>2, RecommendedGrows, SwitchGrows DEF Safety!NeverMilder
  <2> QED
    BY <2>1, <2>3
<1> QED
  BY <1>1, AlwaysTimed, PTL DEF Spec, WorseNeverMilder

-----------------------------------------------------------------------------
(* The way of the signals                                                   *)

\* Of the signals a job has before it one was observed first.
LEMMA FirstSignal ==
  ASSUME NEW S, S \subseteq Signals, S # {}
  PROVE  \E s \in S : \A other \in S : s <= other
<1> DEFINE Less == {ss \in Nat \X Nat : ss[1] < ss[2]}
<1>0. S \subseteq Nat
  BY PoliciesAssumption DEF Flow!FlowAssumption
<1>1. IsWellFoundedOn(Less, Nat)
  BY NatLessThanWellFounded DEF OpToRel
<1>2. PICK s \in S : \A other \in S : ~(<<other, s>> \in Less)
  <2> HIDE DEF Less
  <2> QED
    BY <1>0, <1>1, WFMin
<1>3. ASSUME NEW other \in S PROVE s <= other
  <2>1. other \in Nat /\ s \in Nat
    BY <1>0
  <2>2. <<other, s>> \in Less <=> other < s
    BY <2>1
  <2>3. <<other, s>> \notin Less
    BY <1>2
  <2> QED
    BY <2>1, <2>2, <2>3
<1> QED
  BY <1>3

LEMMA CurrentIs ==
  ASSUME tick.todo \subseteq Signals, tick.todo # {}
  PROVE  Flow!Current \in tick.todo
BY FirstSignal, Zenon DEF Flow!Current

LEMMA NoSignalIsNone == Flow!NoSignal = 0 /\ 0 \notin Signals
BY PoliciesAssumption DEF Flow!FlowAssumption, Flow!NoSignal

\* A tick and what it holds: the signal whose second write is due is the first of the list.
Shaped(t) ==
  t = [stage |-> t.stage, todo |-> t.todo, slots |-> t.slots, entries |-> t.entries,
       halt |-> t.halt, vetoed |-> t.vetoed, half |-> t.half]
Held ==
  /\ Shaped(tick)
  /\ tick.todo \subseteq Signals
  /\ tick.half # 0 => tick.half \in tick.todo /\ tick.half = Flow!Current

\* The rows: a status other than the first two and an approval follow a decision.
Rows ==
  /\ status = [s \in Signals |-> status[s]]
  /\ decision = [s \in Signals |-> decision[s]]
  /\ order = [s \in Signals |-> order[s]]
  /\ \A s \in Signals : decision[s] = "none" => status[s] \in {"none", "created"}
  /\ \A s \in Signals : status[s] = "approved" => decision[s] = "approved"

\* What the list of a job says of its signals: those to be evaluated are pending, those to
\* be verified or executed approved, and the one whose second write is due has its first.
Listed(st, dec, t) ==
  /\ t.stage = "evaluate" => /\ \A s \in t.todo : st[s] = "created"
                             /\ t.half # 0 => dec[t.half] # "none"
  /\ t.stage \in {"verify", "execute"}
       => /\ \A s \in t.todo : s # t.half => st[s] = "approved"
          /\ t.half # 0 => st[t.half] = "rejected"
FlowKept == Held /\ Rows /\ Listed(status, decision, tick)

LEMMA FlowKeptInit == Flow!Init => FlowKept
BY NoSignalIsNone DEF Flow!Init, Flow!Idle, FlowKept, Held, Rows, Listed, Shaped, Flow!Undecided

\* A step that moves only the tick: to another signal, another job or the end.
LEMMA TickMoves ==
  ASSUME FlowKept, UNCHANGED <<status, decision, order>>, Shaped(tick'), tick'.half = 0,
         tick'.todo \subseteq Signals,
         tick'.stage = "evaluate" => \A s \in tick'.todo : status[s] = "created",
         tick'.stage \in {"verify", "execute"} => \A s \in tick'.todo : status[s] = "approved"
  PROVE  FlowKept' /\ Flow!KeepsRefusals
<1>1. Held'
  BY DEF Held
<1>2. Rows'
  BY DEF FlowKept, Rows
<1>3. Listed(status, decision, tick)'
  BY DEF Listed
<1>4. Flow!KeepsRefusals
  BY DEF Flow!KeepsRefusals, Flow!Refused
<1> QED
  BY <1>1, <1>2, <1>3, <1>4 DEF FlowKept

LEMMA IdleTick == Shaped(Flow!Idle) /\ Flow!Idle.stage = "idle" /\ Flow!Idle.half = 0 /\ Flow!Idle.todo = {}
BY DEF Shaped, Flow!Idle, Flow!NoSignal

LEMMA PendingIs ==
  ASSUME NEW state
  PROVE  Flow!Pending(state) \subseteq Signals /\ \A s \in Flow!Pending(state) : status[s] = state
BY DEF Flow!Pending

LEMMA TickOnly ==
  ASSUME FlowKept,
         \/ Flow!BeginTick \/ Flow!SkipDecided \/ Flow!BeginVerify \/ Flow!Confirm
         \/ Flow!BeginExecute \/ Flow!PassOver \/ Flow!EndTick \/ Flow!Crash
  PROVE  FlowKept' /\ Flow!KeepsRefusals
<1>0. UNCHANGED <<status, decision, order>>
  BY DEF Flow!BeginTick, Flow!SkipDecided, Flow!BeginVerify, Flow!Confirm, Flow!BeginExecute,
         Flow!PassOver, Flow!EndTick, Flow!Crash
<1>1. ASSUME tick' = Flow!Idle PROVE FlowKept' /\ Flow!KeepsRefusals
  BY <1>0, <1>1, IdleTick, TickMoves
<1>2. ASSUME tick.half = 0, tick' = [tick EXCEPT !.todo = @ \ {Flow!Current}]
      PROVE  FlowKept' /\ Flow!KeepsRefusals
  <2>1. /\ Shaped(tick') /\ tick'.half = 0 /\ tick'.stage = tick.stage
        /\ tick'.todo \subseteq tick.todo
    BY <1>2 DEF FlowKept, Held, Shaped
  <2>2. tick'.todo \subseteq Signals
    BY <2>1 DEF FlowKept, Held
  <2>3. tick'.stage = "evaluate" => \A s \in tick'.todo : status[s] = "created"
    BY <2>1 DEF FlowKept, Listed
  <2>4. tick'.stage \in {"verify", "execute"} => \A s \in tick'.todo : status[s] = "approved"
    BY <1>2, <2>1, <2>2, NoSignalIsNone DEF FlowKept, Listed
  <2> QED
    BY <1>0, <2>1, <2>2, <2>3, <2>4, TickMoves
<1>3. CASE Flow!BeginTick
  <2>1. PICK halt \in BOOLEAN :
          tick' = [Flow!Idle EXCEPT !.stage = "evaluate", !.todo = Flow!Pending("created"),
                     !.slots = IF Flow!Open < MaxOpen THEN MaxOpen - Flow!Open ELSE 0,
                     !.halt = halt]
    BY <1>3 DEF Flow!BeginTick
  <2> DEFINE slots == IF Flow!Open < MaxOpen THEN MaxOpen - Flow!Open ELSE 0
             todo == Flow!Pending("created")
  <2>2. tick' = [Flow!Idle EXCEPT !.stage = "evaluate", !.todo = todo, !.slots = slots, !.halt = halt]
    BY <2>1
  <2> HIDE DEF slots, todo
  <2>3. Shaped(tick') /\ tick'.half = 0 /\ tick'.stage = "evaluate" /\ tick'.todo = todo
    BY <2>2 DEF Flow!Idle, Shaped, Flow!NoSignal
  <2> QED
    BY <1>0, <2>3, PendingIs, TickMoves DEF todo
<1>4. ASSUME tick.half = 0, NEW to \in {"verify", "execute"},
             tick' = [tick EXCEPT !.stage = to, !.todo = Flow!Pending("approved")]
      PROVE  FlowKept' /\ Flow!KeepsRefusals
  <2> DEFINE todo == Flow!Pending("approved")
  <2>1. tick' = [tick EXCEPT !.stage = to, !.todo = todo]
    BY <1>4
  <2> HIDE DEF todo
  <2>2. Shaped(tick') /\ tick'.half = 0 /\ tick'.stage = to /\ tick'.todo = todo
    BY <1>4, <2>1 DEF FlowKept, Held, Shaped
  <2> QED
    BY <1>0, <2>2, PendingIs, TickMoves DEF todo
<1>5. CASE Flow!BeginVerify
  BY <1>1, <1>4, <1>5, NoSignalIsNone DEF Flow!BeginVerify
<1>6. CASE Flow!BeginExecute
  BY <1>1, <1>4, <1>6, NoSignalIsNone DEF Flow!BeginExecute
<1>7. CASE Flow!SkipDecided
  BY <1>2, <1>7, NoSignalIsNone DEF Flow!SkipDecided, Flow!Evaluating, Flow!Passed
<1>8. CASE Flow!Confirm
  BY <1>2, <1>8, NoSignalIsNone DEF Flow!Confirm, Flow!Verifying, Flow!Passed
<1>9. CASE Flow!PassOver
  BY <1>2, <1>9, NoSignalIsNone DEF Flow!PassOver, Flow!Executing, Flow!Passed
<1>10. CASE Flow!EndTick
  BY <1>1, <1>10 DEF Flow!EndTick
<1>11. CASE Flow!Crash
  BY <1>1, <1>11 DEF Flow!Crash
<1> QED
  BY <1>3, <1>5, <1>6, <1>7, <1>8, <1>9, <1>10, <1>11

\* A step that writes the first of two rows of the signal at the head of the list, or its
\* second row, or its only one: the other signals stay as they are.
LEMMA DecideKept ==
  ASSUME FlowKept, Flow!Decide
  PROVE  FlowKept' /\ Flow!KeepsRefusals
<1> DEFINE c == Flow!Current
<1>1. /\ tick.stage = "evaluate" /\ tick.half = 0 /\ tick.todo # {} /\ decision[c] = "none"
      /\ \E ruling \in {"rejected", "approved"} : decision' = [decision EXCEPT ![c] = ruling]
      /\ tick' = [tick EXCEPT !.half = c]
      /\ UNCHANGED <<status, order>>
  BY NoSignalIsNone DEF Flow!Decide, Flow!Evaluating, Flow!Skips, Flow!Turn, Flow!Undecided
<1>2. c \in tick.todo /\ c \in Signals
  BY <1>1, CurrentIs DEF FlowKept, Held
<1>3. /\ Shaped(tick') /\ tick'.half = c /\ tick'.stage = "evaluate" /\ tick'.todo = tick.todo
  BY <1>1 DEF FlowKept, Held, Shaped
<1>4. Flow!Current' = c
  BY <1>3 DEF Flow!Current
<1> HIDE DEF c
<1>5. Held'
  BY <1>2, <1>3, <1>4 DEF FlowKept, Held
<1>6. PICK ruling \in {"rejected", "approved"} : decision' = [decision EXCEPT ![c] = ruling]
  BY <1>1
<1>7. /\ decision' = [s \in Signals |-> decision'[s]]
      /\ \A s \in Signals : decision'[s] = IF s = c THEN ruling ELSE decision[s]
  BY <1>2, <1>6 DEF FlowKept, Rows
<1>8. status[c] = "created"
  BY <1>1, <1>2 DEF FlowKept, Listed
<1>9. Rows'
  BY <1>1, <1>2, <1>7, <1>8 DEF FlowKept, Rows
<1>10. Listed(status, decision, tick)'
  BY <1>1, <1>2, <1>3, <1>7 DEF FlowKept, Listed
<1>11. Flow!KeepsRefusals
  BY <1>1, <1>7 DEF Flow!KeepsRefusals, Flow!Refused
<1> QED
  BY <1>5, <1>9, <1>10, <1>11 DEF FlowKept

LEMMA SettleKept ==
  ASSUME FlowKept, Flow!Settle
  PROVE  FlowKept' /\ Flow!KeepsRefusals
<1> DEFINE c == tick.half
<1>1. /\ tick.stage = "evaluate" /\ c # 0
      /\ status' = [status EXCEPT ![c] = decision[c]]
      /\ tick' = [Flow!Passed(Flow!Spent(tick, c)) EXCEPT !.half = Flow!NoSignal]
      /\ UNCHANGED <<decision, order>>
  BY NoSignalIsNone DEF Flow!Settle, Flow!Mark
<1>2. c \in tick.todo /\ c \in Signals /\ c = Flow!Current
  BY <1>1 DEF FlowKept, Held
<1>3. Shaped(tick') /\ tick'.half = 0 /\ tick'.stage = "evaluate" /\ tick'.todo = tick.todo \ {c}
  <2> DEFINE spent == Flow!Spent(tick, c)
             passed == [spent EXCEPT !.todo = @ \ {c}]
  <2>1. Shaped(spent) /\ spent.stage = "evaluate" /\ spent.todo = tick.todo
    <3>1. CASE entry[c] /\ decision[c] = "approved"
      BY <1>1, <3>1 DEF Flow!Spent, Shaped, FlowKept, Held
    <3>2. CASE ~(entry[c] /\ decision[c] = "approved")
      BY <1>1, <3>2 DEF Flow!Spent, Shaped, FlowKept, Held
    <3> QED
      BY <3>1, <3>2
  <2>2. tick' = [passed EXCEPT !.half = 0]
    BY <1>1, <1>2, NoSignalIsNone DEF Flow!Passed
  <2> HIDE DEF spent
  <2>3. Shaped(passed) /\ passed.stage = "evaluate" /\ passed.todo = tick.todo \ {c}
    BY <2>1 DEF Shaped
  <2> HIDE DEF passed
  <2> QED
    BY <2>2, <2>3 DEF Shaped
<1>4. decision[c] # "none"
  BY <1>1 DEF FlowKept, Listed
<1>5. status[c] = "created"
  BY <1>1, <1>2 DEF FlowKept, Listed
<1> HIDE DEF c
<1>6. /\ status' = [s \in Signals |-> status'[s]]
      /\ \A s \in Signals : status'[s] = IF s = c THEN decision[c] ELSE status[s]
  BY <1>1, <1>2 DEF FlowKept, Rows
<1>7. Held'
  BY <1>3 DEF FlowKept, Held
<1>8. Rows'
  BY <1>1, <1>4, <1>6 DEF FlowKept, Rows
<1>9. Listed(status, decision, tick)'
  BY <1>1, <1>3, <1>6, <1>7 DEF FlowKept, Listed, Held
<1>10. Flow!KeepsRefusals
  BY <1>1, <1>5, <1>6 DEF Flow!KeepsRefusals, Flow!Refused
<1> QED
  BY <1>7, <1>8, <1>9, <1>10 DEF FlowKept

\* A veto or a refusal writes the status first.
LEMMA WithdrawKept ==
  ASSUME FlowKept, Flow!Veto \/ Flow!Refuse
  PROVE  FlowKept' /\ Flow!KeepsRefusals
<1> DEFINE c == Flow!Current
           to == tick'.stage
<1>1. /\ tick.stage \in {"verify", "execute"} /\ tick.half = 0 /\ tick.todo # {}
      /\ status' = [status EXCEPT ![c] = "rejected"]
      /\ UNCHANGED <<decision, order>>
  BY NoSignalIsNone DEF Flow!Veto, Flow!Refuse, Flow!Verifying, Flow!Executing, Flow!Mark
<1>2. c \in tick.todo /\ c \in Signals
  BY <1>1, CurrentIs DEF FlowKept, Held
<1>3. Shaped(tick') /\ tick'.half = c /\ tick'.stage = tick.stage /\ tick'.todo = tick.todo
  <2>1. CASE Flow!Veto
    BY <2>1 DEF Flow!Veto, FlowKept, Held, Shaped
  <2>2. CASE Flow!Refuse
    BY <2>2 DEF Flow!Refuse, FlowKept, Held, Shaped
  <2> QED
    BY <2>1, <2>2
<1>4. Flow!Current' = c
  BY <1>3 DEF Flow!Current
<1>5. status[c] = "approved" /\ decision[c] = "approved"
  BY <1>1, <1>2, NoSignalIsNone DEF FlowKept, Listed, Rows
<1> HIDE DEF c
<1>6. /\ status' = [s \in Signals |-> status'[s]]
      /\ \A s \in Signals : status'[s] = IF s = c THEN "rejected" ELSE status[s]
  BY <1>1, <1>2 DEF FlowKept, Rows
<1>7. Held'
  BY <1>2, <1>3, <1>4 DEF FlowKept, Held
<1>8. Rows'
  BY <1>1, <1>5, <1>6 DEF FlowKept, Rows
<1>9. Listed(status, decision, tick)'
  <2>1. \A s \in tick.todo : s # c => status'[s] = "approved"
    BY <1>1, <1>6, NoSignalIsNone DEF FlowKept, Listed, Held
  <2> QED
    BY <1>1, <1>2, <1>3, <1>6, <2>1 DEF Listed
<1>10. Flow!KeepsRefusals
  BY <1>1, <1>6 DEF Flow!KeepsRefusals, Flow!Refused
<1> QED
  BY <1>7, <1>8, <1>9, <1>10 DEF FlowKept

LEMMA RecordKept ==
  ASSUME FlowKept, Flow!RecordRefusal
  PROVE  FlowKept' /\ Flow!KeepsRefusals
<1> DEFINE c == tick.half
<1>1. /\ tick.stage \in {"verify", "execute"} /\ c # 0
      /\ decision' = [decision EXCEPT ![c] = "rejected"]
      /\ tick' = [tick EXCEPT !.todo = @ \ {Flow!Current}, !.half = 0]
      /\ UNCHANGED <<status, order>>
  <2>1. tick' = [[tick EXCEPT !.todo = @ \ {Flow!Current}] EXCEPT !.half = 0]
    BY NoSignalIsNone DEF Flow!RecordRefusal, Flow!Passed
  <2> QED
    BY <2>1, NoSignalIsNone DEF Flow!RecordRefusal, Flow!Turn
<1>2. c \in tick.todo /\ c \in Signals /\ c = Flow!Current
  BY <1>1 DEF FlowKept, Held
<1>3. Shaped(tick') /\ tick'.half = 0 /\ tick'.stage = tick.stage /\ tick'.todo = tick.todo \ {c}
  BY <1>1, <1>2 DEF FlowKept, Held, Shaped
<1>4. status[c] = "rejected"
  BY <1>1 DEF FlowKept, Listed
<1>5. \A s \in tick.todo : s # c => status[s] = "approved"
  BY <1>1 DEF FlowKept, Listed
<1> HIDE DEF c
<1>6. /\ decision' = [s \in Signals |-> decision'[s]]
      /\ \A s \in Signals : decision'[s] = IF s = c THEN "rejected" ELSE decision[s]
  BY <1>1, <1>2 DEF FlowKept, Rows
<1>7. Held'
  BY <1>3 DEF FlowKept, Held
<1>8. Rows'
  BY <1>1, <1>4, <1>6 DEF FlowKept, Rows
<1>9. Listed(status, decision, tick)'
  BY <1>1, <1>3, <1>5 DEF Listed
<1>10. Flow!KeepsRefusals
  BY <1>1, <1>6 DEF Flow!KeepsRefusals, Flow!Refused
<1> QED
  BY <1>7, <1>8, <1>9, <1>10 DEF FlowKept

\* An order, or its simulation, is for an approved signal.
LEMMA TradeKept ==
  ASSUME FlowKept, Flow!Submit \/ Flow!Simulate
  PROVE  FlowKept' /\ Flow!KeepsRefusals
<1> DEFINE c == Flow!Current
<1>1. /\ tick.stage = "execute" /\ tick.half = 0 /\ tick.todo # {}
      /\ tick' = [tick EXCEPT !.todo = @ \ {c}]
      /\ UNCHANGED decision
      /\ \/ status' = status /\ order' = [order EXCEPT ![c] = "working"]
         \/ order' = order /\ status' = [status EXCEPT ![c] = "sentinel_simulated"]
  BY NoSignalIsNone DEF Flow!Submit, Flow!Simulate, Flow!Executing, Flow!Mark, Flow!Passed
<1>2. c \in tick.todo /\ c \in Signals
  BY <1>1, CurrentIs DEF FlowKept, Held
<1>3. Shaped(tick') /\ tick'.half = 0 /\ tick'.stage = "execute" /\ tick'.todo = tick.todo \ {c}
  BY <1>1 DEF FlowKept, Held, Shaped
<1>4. \A s \in tick.todo : status[s] = "approved"
  BY <1>1, NoSignalIsNone DEF FlowKept, Listed, Held
<1>5. status[c] = "approved" /\ decision[c] = "approved"
  BY <1>2, <1>4 DEF FlowKept, Rows
<1> HIDE DEF c
<1>6. /\ status' = [s \in Signals |-> status'[s]]
      /\ \A s \in Signals : s # c => status'[s] = status[s]
      /\ order' = [s \in Signals |-> order'[s]]
      /\ \A s \in Signals : s # c => order'[s] = order[s]
      /\ status'[c] \in {"approved", "sentinel_simulated"}
  BY <1>1, <1>2, <1>5 DEF FlowKept, Rows
<1>7. Held'
  BY <1>3 DEF FlowKept, Held
<1>8. Rows'
  BY <1>1, <1>5, <1>6 DEF FlowKept, Rows
<1>9. Listed(status, decision, tick)'
  BY <1>3, <1>4, <1>6, <1>7 DEF Listed, Held
<1>10. Flow!KeepsRefusals
  BY <1>1, <1>5, <1>6 DEF Flow!KeepsRefusals, Flow!Refused
<1> QED
  BY <1>7, <1>8, <1>9, <1>10 DEF FlowKept

LEMMA WorldKept ==
  ASSUME FlowKept, NEW s \in Signals, Flow!Build(s) \/ Flow!OrderMoves(s)
  PROVE  FlowKept' /\ Flow!KeepsRefusals
<1>1. CASE Flow!Build(s)
  <2>1. /\ tick.stage = "idle" /\ status[s] = "none"
        /\ status' = [status EXCEPT ![s] = "created"]
        /\ UNCHANGED <<decision, order, tick>>
    BY <1>1 DEF Flow!Build, Flow!Mark
  <2>2. /\ status' = [r \in Signals |-> status'[r]]
        /\ \A r \in Signals : status'[r] = IF r = s THEN "created" ELSE status[r]
    BY <2>1 DEF FlowKept, Rows
  <2>3. Held'
    BY <2>1 DEF FlowKept, Held, Flow!Current
  <2>4. Rows'
    BY <2>1, <2>2 DEF FlowKept, Rows
  <2>5. Listed(status, decision, tick)'
    BY <2>1 DEF Listed
  <2>6. Flow!KeepsRefusals
    BY <2>1, <2>2 DEF Flow!KeepsRefusals, Flow!Refused
  <2> QED
    BY <2>3, <2>4, <2>5, <2>6 DEF FlowKept
<1>2. CASE Flow!OrderMoves(s)
  <2>1. /\ UNCHANGED <<status, decision, tick>>
        /\ \E to \in {"none", "position"} : order' = [order EXCEPT ![s] = to]
    BY <1>2 DEF Flow!OrderMoves
  <2>2. /\ order' = [r \in Signals |-> order'[r]]
        /\ \A r \in Signals : order'[r] = "working" => order[r] = "working"
    BY <2>1 DEF FlowKept, Rows
  <2>3. Held'
    BY <2>1 DEF FlowKept, Held, Flow!Current
  <2>4. Rows'
    BY <2>1, <2>2 DEF FlowKept, Rows
  <2>5. Listed(status, decision, tick)'
    BY <2>1 DEF FlowKept, Listed
  <2>6. Flow!KeepsRefusals
    BY <2>1, <2>2 DEF Flow!KeepsRefusals, Flow!Refused
  <2> QED
    BY <2>3, <2>4, <2>5, <2>6 DEF FlowKept
<1> QED
  BY <1>1, <1>2

LEMMA FlowKeptStep ==
  ASSUME FlowKept, Flow!Next
  PROVE  FlowKept' /\ Flow!KeepsRefusals
<1>1. CASE Flow!Tick
  BY <1>1, TickOnly, DecideKept, SettleKept, WithdrawKept, RecordKept, TradeKept DEF Flow!Tick
<1>2. CASE Flow!Crash
  BY <1>2, TickOnly
<1>3. CASE \E s \in Signals : Flow!Build(s) \/ Flow!OrderMoves(s)
  BY <1>3, WorldKept
<1> QED
  BY <1>1, <1>2, <1>3 DEF Flow!Next

\* A signal refused by a decision or by its status is never approved again and no order
\* leaves for it, wherever a crash falls between the two writes of a verdict.
THEOREM RefusalsHold == Spec => RefusalIsFinal
<1> DEFINE Inv == part = "flow" => FlowKept
<1>1. Init => Inv
  BY FlowKeptInit DEF Init
<1>2. Inv /\ [Next]_vars => Inv'
  <2> SUFFICES ASSUME Inv, [Next]_vars PROVE Inv'
    OBVIOUS
  <2>1. CASE UNCHANGED vars
    BY <2>1 DEF vars, flowVars, FlowKept, Held, Rows, Listed, Flow!Current
  <2>2. CASE Next /\ part = "flow"
    <3>1. Flow!Next /\ UNCHANGED part
      BY <2>2 DEF Next
    <3> QED
      BY <2>2, <3>1, FlowKeptStep
  <2>3. CASE Next /\ part # "flow"
    BY <2>3 DEF Next
  <2> QED
    BY <2>1, <2>2, <2>3
<1>3. Inv /\ [Next]_vars => [part = "flow" => Flow!KeepsRefusals]_flowVars
  <2> SUFFICES ASSUME Inv, Next, part = "flow" PROVE Flow!KeepsRefusals
    BY DEF vars
  <2>1. Flow!Next
    BY DEF Next
  <2> QED
    BY <2>1, FlowKeptStep
<1> HIDE DEF Inv
<1> QED
  BY <1>1, <1>2, <1>3, PTL DEF Spec, RefusalIsFinal

-----------------------------------------------------------------------------
(* The order                                                                *)

LEMMA LeastNumber ==
  ASSUME NEW T, T \subseteq Nat, T # {}
  PROVE  \E n \in T : \A m \in T : n <= m
<1> DEFINE Less == {pair \in Nat \X Nat : pair[1] < pair[2]}
<1>1. IsWellFoundedOn(Less, Nat)
  BY NatLessThanWellFounded DEF OpToRel
<1>2. PICK n \in T : \A m \in T : ~(<<m, n>> \in Less)
  <2> HIDE DEF Less
  <2> QED
    BY <1>1, WFMin
<1>3. ASSUME NEW m \in T PROVE n <= m
  <2>1. m \in Nat /\ n \in Nat
    OBVIOUS
  <2>2. <<m, n>> \in Less <=> m < n
    BY <2>1
  <2> QED
    BY <1>2, <2>1, <2>2
<1> QED
  BY <1>3

\* The first row that holds decides; without one the default does.
LEMMA StepsAre ==
  ASSUME NEW rows, NEW n \in Nat, DOMAIN rows = 1 .. n, NEW default
  PROVE  \/ /\ Execution!Steps(rows, default) = default
            /\ \A i \in 1 .. n : ~rows[i][1]
         \/ \E i \in 1 .. n : rows[i][1] /\ Execution!Steps(rows, default) = rows[i][2]
<1> DEFINE held == {i \in DOMAIN rows : rows[i][1]}
<1>1. CASE held = {}
  <2>1. Execution!Steps(rows, default) = default
    BY <1>1 DEF Execution!Steps
  <2>2. \A i \in 1 .. n : ~rows[i][1]
    <3>1. ASSUME NEW i \in 1 .. n, rows[i][1] PROVE FALSE
      <4>1. i \in held
        BY <3>1
      <4> QED
        BY <1>1, <4>1
    <3> QED
      BY <3>1
  <2> QED
    BY <2>1, <2>2
<1>2. CASE held # {}
  <2>1. held \subseteq 1 .. n
    OBVIOUS
  <2>2. PICK i \in held : \A j \in held : i <= j
    <3>1. held \subseteq Nat
      BY <2>1
    <3> HIDE DEF held
    <3> QED
      BY <1>2, <3>1, LeastNumber
  <2>3. Execution!Min(held) \in held
    <3> HIDE DEF held
    <3> QED
      BY <2>2 DEF Execution!Min
  <2>4. Execution!Steps(rows, default) = rows[Execution!Min(held)][2]
    BY <1>2 DEF Execution!Steps
  <2> QED
    BY <2>1, <2>3, <2>4
<1> QED
  BY <1>1, <1>2

-----------------------------------------------------------------------------
\* The factors of a size, in per mille.
PerMille == 0 .. 1000

LEMMA TimesGrows ==
  ASSUME NEW a \in Nat, NEW b \in Int, NEW c \in Int, b <= c
  PROVE  a * b <= a * c /\ a * b \in Int /\ a * c \in Int
<1>1. a * (c - b) >= 0
  <2>1. PICK d \in Nat : d = c - b
    OBVIOUS
  <2>2. a * d >= 0
    OBVIOUS
  <2> QED
    BY <2>1, <2>2
<1>2. a * (c - b) = a * c - a * b
  OBVIOUS
<1>3. a * b \in Int /\ a * c \in Int
  OBVIOUS
<1> QED
  BY <1>1, <1>2, <1>3

\* A part of an amount in per mille is no more than the amount.
LEMMA PartIsLess ==
  ASSUME NEW a \in Nat, NEW b \in PerMille
  PROVE  Execution!Scale(a, b) \in Nat /\ Execution!Scale(a, b) <= a
<1>0. b \in Int /\ 0 <= b /\ b <= 1000
  BY DEF PerMille
<1>1. a * b <= a * 1000 /\ a * b \in Int /\ a * 1000 \in Int
  BY <1>0, TimesGrows
<1>2. a * 0 <= a * b
  BY <1>0, TimesGrows
<1>3. PICK p \in Nat : p = a * b
  BY <1>1, <1>2
<1>4. p \div 1000 \in Nat /\ 1000 * (p \div 1000) <= p
  OBVIOUS
<1>5. Execution!Scale(a, b) = p \div 1000
  BY <1>3 DEF Execution!Scale
<1>6. p <= 1000 * a
  BY <1>1, <1>3
<1> QED
  BY <1>4, <1>5, <1>6

\* The running product of factors of at most one.
Multiplies(g, factors, n) ==
  /\ g \in [0 .. n -> PerMille] /\ g[0] = 1000
  /\ \A k \in 1 .. n : g[k] = Execution!Scale(g[k - 1], factors[k])

LEMMA PartsInRange ==
  ASSUME NEW a \in PerMille, NEW b \in PerMille
  PROVE  Execution!Scale(a, b) \in PerMille
<1>1. a \in Nat /\ a <= 1000
  BY DEF PerMille
<1>2. Execution!Scale(a, b) \in Nat /\ Execution!Scale(a, b) <= a
  BY <1>1, PartIsLess
<1> QED
  BY <1>1, <1>2 DEF PerMille

LEMMA WholeIsFactor == 1000 \in PerMille
BY DEF PerMille

LEMMA MultipliesExists ==
  ASSUME NEW factors \in Seq(PerMille)
  PROVE  \E g : Multiplies(g, factors, Len(factors))
<1> DEFINE Bad == {n \in 0 .. Len(factors) : ~ \E g : Multiplies(g, factors, n)}
<1>0. Len(factors) \in Nat
  OBVIOUS
<1>1. SUFFICES ASSUME Bad # {} PROVE FALSE
  BY <1>0
<1>2. PICK n \in Bad : \A m \in Bad : n <= m
  <2>1. Bad \subseteq Nat
    BY <1>0
  <2> QED
    BY <1>1, <2>1, LeastNumber
<1>3. n # 0
  <2>1. Multiplies([k \in 0 .. 0 |-> 1000], factors, 0)
    BY WholeIsFactor DEF Multiplies
  <2> QED
    BY <2>1
<1>4. n \in 1 .. Len(factors) /\ n - 1 \in 0 .. Len(factors) /\ n - 1 < n
  BY <1>0, <1>2, <1>3
<1>5. n - 1 \notin Bad
  BY <1>0, <1>2, <1>4
<1>6. PICK g : Multiplies(g, factors, n - 1)
  BY <1>4, <1>5
<1> HIDE DEF Bad
<1> DEFINE h == [k \in 0 .. n |-> IF k = n THEN Execution!Scale(g[n - 1], factors[n]) ELSE g[k]]
<1>7. Multiplies(h, factors, n)
  <2>1. factors[n] \in PerMille
    BY <1>4
  <2>2. g[n - 1] \in PerMille
    BY <1>4, <1>6 DEF Multiplies
  <2>3. Execution!Scale(g[n - 1], factors[n]) \in PerMille
    BY <2>1, <2>2, PartsInRange
  <2>4. h \in [0 .. n -> PerMille]
    BY <1>0, <1>4, <1>6, <2>3 DEF Multiplies
  <2>5. h[0] = 1000
    BY <1>0, <1>4, <1>6 DEF Multiplies
  <2>6. ASSUME NEW k \in 1 .. n PROVE h[k] = Execution!Scale(h[k - 1], factors[k])
    BY <1>0, <1>4, <1>6 DEF Multiplies
  <2> HIDE DEF h
  <2> QED
    BY <2>4, <2>5, <2>6 DEF Multiplies
<1> QED
  BY <1>2, <1>7 DEF Bad

\* A product of factors of at most one is one.
LEMMA ProductIsFactor ==
  ASSUME NEW factors \in Seq(PerMille)
  PROVE  Execution!Product(factors) \in PerMille
<1> DEFINE F(f) == [i \in 0 .. Len(factors) |->
                      IF i = 0 THEN 1000 ELSE Execution!Scale(f[i - 1], factors[i])]
           f == CHOOSE f : f = F(f)
<1>0. Len(factors) \in Nat
  OBVIOUS
<1>1. PICK g : Multiplies(g, factors, Len(factors))
  BY MultipliesExists
<1>2. g = F(g)
  <2>1. ASSUME NEW n \in 0 .. Len(factors) PROVE g[n] = F(g)[n]
    <3>1. CASE n = 0
      BY <1>1, <3>1 DEF Multiplies
    <3>2. CASE n # 0
      <4>1. n \in 1 .. Len(factors)
        BY <1>0, <3>2
      <4> QED
        BY <1>1, <3>2, <4>1 DEF Multiplies
    <3> QED
      BY <3>1, <3>2
  <2> QED
    BY <1>1, <2>1 DEF Multiplies
<1>3. f = F(f)
  BY <1>2
<1>4. Execution!Product(factors) = f[Len(factors)]
  BY DEF Execution!Product
<1> HIDE DEF f
<1>5. f[0] = 1000
  BY <1>0, <1>3
<1>6. \A k \in 1 .. Len(factors) : f[k] = Execution!Scale(f[k - 1], factors[k])
  BY <1>0, <1>3
<1> DEFINE Bad == {n \in 0 .. Len(factors) : f[n] \notin PerMille}
<1>7. Bad = {}
  <2>1. SUFFICES ASSUME Bad # {} PROVE FALSE
    OBVIOUS
  <2>2. PICK n \in Bad : \A m \in Bad : n <= m
    <3>1. Bad \subseteq Nat
      BY <1>0
    <3> QED
      BY <2>1, <3>1, LeastNumber
  <2>3. n \in 1 .. Len(factors) /\ n - 1 \in 0 .. Len(factors) /\ n - 1 < n
    BY <1>0, <1>5, <2>2, WholeIsFactor
  <2>4. n - 1 \notin Bad
    BY <1>0, <2>2, <2>3
  <2>5. f[n - 1] \in PerMille
    BY <2>3, <2>4
  <2>6. factors[n] \in PerMille
    BY <2>3
  <2>7. f[n] \in PerMille
    BY <1>6, <2>3, <2>5, <2>6, PartsInRange
  <2> QED
    BY <2>2, <2>7
<1> QED
  BY <1>0, <1>4, <1>7

\* Nor do rows that hold or not raise the whole above one.
LEMMA DownshiftIsFactor ==
  ASSUME NEW rows, NEW n \in Nat, DOMAIN rows = 1 .. n,
         \A i \in 1 .. n : rows[i][2] \in PerMille
  PROVE  Execution!Downshift(rows) \in PerMille
<1> DEFINE factors == [i \in DOMAIN rows |-> IF rows[i][1] THEN rows[i][2] ELSE 1000]
<1>1. \A i \in 1 .. n : factors[i] \in PerMille
  BY WholeIsFactor
<1>2. factors \in [1 .. n -> PerMille]
  BY <1>1
<1>3. Execution!Downshift(rows) = Execution!Product(factors)
  BY DEF Execution!Downshift
<1> HIDE DEF factors
<1>4. factors \in Seq(PerMille)
  BY <1>2
<1> QED
  BY <1>3, <1>4, ProductIsFactor

LEMMA LeastOfThree ==
  ASSUME NEW a \in PerMille, NEW b \in PerMille, NEW c \in PerMille
  PROVE  Execution!Min({a, b, c}) \in {a, b, c} /\ Execution!Min({a, b, c}) \in PerMille
<1>1. {a, b, c} \subseteq Nat /\ {a, b, c} # {}
  BY DEF PerMille
<1>2. PICK m \in {a, b, c} : \A k \in {a, b, c} : m <= k
  <2> DEFINE T == {a, b, c}
  <2>1. T \subseteq Nat /\ T # {}
    BY <1>1
  <2>2. \E m \in T : \A k \in T : m <= k
    <3> HIDE DEF T
    <3> QED
      BY <2>1, LeastNumber
  <2> QED
    BY <2>2
<1>3. Execution!Min({a, b, c}) \in {a, b, c}
  BY <1>2 DEF Execution!Min
<1> QED
  BY <1>3

\* What the toxicity of the book leaves of an order.
LEMMA ToxicitySize ==
  ASSUME NEW score
  PROVE  Execution!ToxicityTreatment(score).size \in PerMille
<1> DEFINE row(state, threshold, size, passive, block) ==
             [state |-> state, threshold |-> threshold, size |-> size,
              passive |-> passive, block |-> block]
           rows == << <<score >= 820, row("blocked", 1800, 200, TRUE, TRUE)>>,
                      <<score >= 680, row("high", 1450, 550, TRUE, FALSE)>>,
                      <<score >= 500, row("high", 1250, 720, FALSE, FALSE)>>,
                      <<score >= 320, row("elevated", 1120, 950, FALSE, FALSE)>> >>
           default == row("normal", 1000, 1000, FALSE, FALSE)
<1>1. Execution!ToxicityTreatment(score) = Execution!Steps(rows, default)
  BY DEF Execution!ToxicityTreatment
<1>2. DOMAIN rows = 1 .. 4
  OBVIOUS
<1>3. \A i \in 1 .. 4 : rows[i][2].size \in PerMille
  <2>1. /\ rows[1][2].size = 200 /\ rows[2][2].size = 550
        /\ rows[3][2].size = 720 /\ rows[4][2].size = 950
    OBVIOUS
  <2>2. \A i \in 1 .. 4 : rows[i][2].size \in {200, 550, 720, 950}
    <3> HIDE DEF rows
    <3> QED
      BY <2>1
  <2>3. {200, 550, 720, 950} \subseteq PerMille
    BY DEF PerMille
  <2> HIDE DEF rows
  <2> QED
    BY <2>2, <2>3
<1>4. default.size \in PerMille
  BY DEF PerMille
<1> HIDE DEF rows, default
<1>5. \/ Execution!Steps(rows, default) = default
      \/ \E i \in 1 .. 4 : Execution!Steps(rows, default) = rows[i][2]
  BY <1>2, StepsAre
<1> QED
  BY <1>1, <1>3, <1>4, <1>5

\* What the live feedback leaves of it.
LEMMA FeedbackRowsAre ==
  ASSUME NEW f
  PROVE  /\ DOMAIN Execution!FeedbackRows(f) = 1 .. 20
         /\ \A i \in 1 .. 20 : Execution!FeedbackRows(f)[i][2] \in PerMille
BY DEF Execution!FeedbackRows, PerMille

LEMMA FeedbackSize ==
  ASSUME NEW f
  PROVE  Execution!LiveSizingFeedback(f, 1000).size \in PerMille
<1> DEFINE rows == Execution!FeedbackRows(f)
           downshift == Execution!Downshift(rows)
           cap == IF downshift < 1000 \/ Execution!FullyRecovered(f) THEN 1000
                  ELSE IF Execution!SoftlyRecovered(f) THEN 900 ELSE 800
<1>1. Execution!LiveSizingFeedback(f, 1000).size
        = Execution!Min({downshift, cap, Execution!Clamp(1000, 0, 1000)})
  BY DEF Execution!LiveSizingFeedback
<1>2. Execution!Clamp(1000, 0, 1000) \in PerMille
  BY DEF Execution!Clamp, PerMille
<1>3. cap \in PerMille
  BY DEF PerMille
<1>4. downshift \in PerMille
  <2> HIDE DEF rows
  <2>1. DOMAIN rows = 1 .. 20 /\ \A i \in 1 .. 20 : rows[i][2] \in PerMille
    BY FeedbackRowsAre DEF rows
  <2> QED
    BY <2>1, DownshiftIsFactor
<1> HIDE DEF downshift, cap
<1> QED
  BY <1>1, <1>2, <1>3, <1>4, LeastOfThree

-----------------------------------------------------------------------------
\* What the size and the price of an order are computed from.
Sizable(x, t) ==
  /\ x.decision \in Nat /\ x.probability \in Int /\ x.depth \in Int
  /\ x.bid \in Int /\ x.ask \in Int /\ x.tick \in Int
  /\ t.safety.size \in PerMille /\ t.venue \in {"healthy", "degraded", "unsafe"}
  /\ t.maxRisk \in Int

LEMMA PriceIsWhole ==
  ASSUME NEW x, x.bid \in Int, x.ask \in Int, x.tick \in Int, x.tick > 0
  PROVE  Execution!LimitPrice(x) \in Int
<1> DEFINE buying == Execution!Entry(x)
           near == IF buying THEN x.bid ELSE x.ask
           far == IF buying THEN x.ask ELSE x.bid
           step == Execution!Aggression(Execution!ExecutionUrgency(x))
           base == IF far > 0 THEN far ELSE near
           scaled == IF buying THEN 10000 + step ELSE 10000 - step
<1>1. step \in Int
  BY DEF Execution!Aggression
<1>2. base \in Int /\ scaled \in Int
  BY <1>1
<1>3. Execution!MarketablePrice(x) = base * scaled
  BY DEF Execution!MarketablePrice
<1> HIDE DEF base, scaled
<1>4. Execution!MarketablePrice(x) \in Int
  BY <1>2, <1>3
<1>5. PICK raw \in Int : raw = Execution!Clamp(Execution!MarketablePrice(x), 10000, 9990000)
  BY <1>4 DEF Execution!Clamp
<1>6. PICK d \in Int : d = 2000 * x.tick /\ d > 0
  OBVIOUS
<1>7. PICK n \in Int : n = 2 * raw + 1000 * x.tick
  BY <1>5
<1>8. n \div d \in Int
  BY <1>6
<1>9. PICK q \in Int : q = n \div d
  BY <1>8
<1>10. PICK r \in Int : r = q * x.tick
  OBVIOUS
<1>11. Execution!LimitPrice(x) = ((n \div d) * x.tick) \div 10
  <2>1. 2 * (1000 * x.tick) = d
    BY <1>6
  <2> QED
    BY <1>5, <1>6, <1>7, <2>1 DEF Execution!LimitPrice, Execution!QuantizeToTick
<1> QED
  BY <1>9, <1>10, <1>11

\* The decision's money is only ever cut.
LEMMA MoneyIsCut ==
  ASSUME NEW x, NEW t, Sizable(x, t)
  PROVE  Execution!CapitalAware(x, t) \in Nat /\ Execution!CapitalAware(x, t) <= x.decision
<1>1. Execution!ExecutionToxicity(x, t).size \in PerMille
  BY ToxicitySize DEF Execution!ExecutionToxicity
<1>2. Execution!ExecutionFeedback(x, t).size \in PerMille
  BY FeedbackSize DEF Execution!ExecutionFeedback
<1>3. Execution!Mode(t).size \in PerMille
  BY DEF Execution!Mode, Execution!VenueMode, Sizable, PerMille
<1> DEFINE factors == <<t.safety.size, Execution!Mode(t).size, Execution!ExecutionToxicity(x, t).size,
                        Execution!ExecutionFeedback(x, t).size>>
           factor == IF Execution!Entry(x) THEN Execution!Product(factors) ELSE 1000
<1>4. factors \in Seq(PerMille)
  <2>1. t.safety.size \in PerMille
    BY DEF Sizable
  <2> QED
    BY <1>1, <1>2, <1>3, <2>1
<1>5. Execution!CapitalAware(x, t) = Execution!Scale(x.decision, factor)
  BY DEF Execution!CapitalAware
<1>6. factor \in PerMille
  <2> HIDE DEF factors
  <2> QED
    BY <1>4, ProductIsFactor, WholeIsFactor
<1> HIDE DEF factor
<1> QED
  BY <1>5, <1>6, PartIsLess DEF Sizable

\* What the book absorbs is part of what was wanted.
LEMMA BookCuts ==
  ASSUME NEW wanted \in Nat, NEW price \in Int, NEW depth \in Int,
         NEW spread, NEW slippage, NEW route
  PROVE  LET a == Execution!SizeVsLiquidity(wanted, price, depth, spread, slippage, route)
         IN  a \in Nat /\ a <= wanted
<1>1. CASE price <= 0 \/ depth <= 0
  BY <1>1 DEF Execution!SizeVsLiquidity
<1>2. CASE ~(price <= 0 \/ depth <= 0)
  <2> DEFINE units == (1000 * wanted) \div price
             cap == IF route = "maker" THEN 350
                    ELSE IF slippage >= 1000 \/ spread >= 4000 THEN 400 ELSE 600
             room == IF units <= 0 THEN 1000
                     ELSE Execution!Clamp((1000 * depth * cap) \div units, 0, 1000)
             Above(share) == units > depth * share
             rows == << <<slippage >= 2000 \/ spread >= 6000, 0>>,
                        <<slippage >= 1000 \/ Above(600), 350>>,
                        <<slippage >= 600 \/ Above(400), 600>>,
                        <<slippage >= 300 \/ Above(250), 800>> >>
             limit == Execution!Steps(rows, 1000)
             kept == Execution!Max({0, wanted})
  <2>1. Execution!SizeVsLiquidity(wanted, price, depth, spread, slippage, route)
          = Execution!Scale(kept, Execution!Min({room, limit}))
    BY <1>2 DEF Execution!SizeVsLiquidity
  <2>2. limit \in PerMille
    <3>1. DOMAIN rows = 1 .. 4
      OBVIOUS
    <3>2. rows[1][2] = 0 /\ rows[2][2] = 350 /\ rows[3][2] = 600 /\ rows[4][2] = 800
      OBVIOUS
    <3> HIDE DEF rows
    <3>3. \A i \in 1 .. 4 : rows[i][2] \in {0, 350, 600, 800}
      BY <3>2
    <3>4. \/ limit = 1000
          \/ \E i \in 1 .. 4 : limit = rows[i][2]
      <4> DEFINE default == 1000
      <4>1. limit = Execution!Steps(rows, default)
        OBVIOUS
      <4> HIDE DEF limit, default
      <4>2. \/ limit = default
            \/ \E i \in 1 .. 4 : limit = rows[i][2]
        BY <3>1, <4>1, StepsAre
      <4> QED
        BY <4>2 DEF default
    <3> HIDE DEF limit
    <3>5. limit \in {0, 350, 600, 800, 1000}
      BY <3>3, <3>4
    <3> QED
      BY <3>5 DEF PerMille
  <2>3. room \in PerMille
    <3>1. PICK u \in Int : u = units
      BY <1>2
    <3>2. PICK c \in Int : c = 1000 * depth * cap
      OBVIOUS
    <3>3. room = IF u <= 0 THEN 1000 ELSE Execution!Clamp(c \div u, 0, 1000)
      <4> HIDE DEF units, cap
      <4> QED
        BY <3>1, <3>2
    <3>4. CASE u <= 0
      BY <3>3, <3>4, WholeIsFactor
    <3>5. CASE ~(u <= 0)
      <4>1. PICK q \in Int : q = c \div u
        BY <3>5
      <4> HIDE DEF room
      <4>2. room = Execution!Clamp(q, 0, 1000)
        BY <3>3, <3>5, <4>1
      <4> QED
        BY <4>2 DEF Execution!Clamp, PerMille
    <3> QED
      BY <3>4, <3>5
  <2> HIDE DEF room, limit
  <2>4. Execution!Min({room, limit}) \in PerMille
    <3>1. {room, limit, limit} = {room, limit}
      OBVIOUS
    <3> QED
      BY <2>2, <2>3, <3>1, LeastOfThree
  <2>5. kept = wanted
    BY DEF Execution!Max
  <2> QED
    BY <2>1, <2>4, <2>5, PartIsLess
<1> QED
  BY <1>1, <1>2

LEMMA LeastOfTwo ==
  ASSUME NEW a \in Int, NEW b \in Int
  PROVE  Execution!Min({a, b}) = IF a <= b THEN a ELSE b
BY DEF Execution!Min

LEMMA GreatestOfTwo ==
  ASSUME NEW a \in Int, NEW b \in Int
  PROVE  Execution!Max({a, b}) = IF a >= b THEN a ELSE b
BY DEF Execution!Max

LEMMA ScaleIsWhole ==
  ASSUME NEW a \in Int, NEW b \in Int
  PROVE  Execution!Scale(a, b) \in Int
<1>1. PICK p \in Int : p = a * b
  OBVIOUS
<1> QED
  BY <1>1 DEF Execution!Scale

\* What may be lost at once is a number.
LEMMA CapIsWhole ==
  ASSUME NEW x, NEW t, Sizable(x, t)
  PROVE  Execution!LossCap(x, t) \in Int
<1> DEFINE money == Execution!CapitalAware(x, t)
           largest == Execution!Max({x.decision, money, 1000})
           account == [bankroll |-> 100 * largest, capital |-> 100 * money, maxRisk |-> t.maxRisk]
           class == Execution!EvClass(x.ev)
           quality == CASE class = "strong_edge" -> 1000 [] class = "tradable_edge" -> 800
                        [] class = "marginal_edge" -> 450 [] OTHER -> 150
           confidence == Execution!Size(2 * (x.probability - 500))
           sure == Execution!Clamp(confidence, 200, 1000)
<1>0. x.decision \in Nat /\ t.maxRisk \in Int /\ x.probability \in Int
  BY DEF Sizable
<1>1. money \in Nat
  BY MoneyIsCut
<1>2. largest \in Int
  <2> HIDE DEF money
  <2>1. \E m \in {x.decision, money, 1000} : \A k \in {x.decision, money, 1000} : m >= k
    BY <1>0, <1>1
  <2>2. largest \in {x.decision, money, 1000}
    BY <2>1 DEF Execution!Max
  <2> QED
    BY <1>0, <1>1, <2>2
<1>3. Execution!LossCap(x, t)
        = Execution!Scale(Execution!RiskBudget(account), Execution!Scale(quality, sure))
  BY DEF Execution!LossCap, Execution!MaxLossPerOpportunity
<1>4. quality \in Int
  OBVIOUS
<1>5. sure \in Int
  <2>1. confidence \in Int
    BY <1>0 DEF Execution!Size
  <2> HIDE DEF confidence
  <2> QED
    BY <2>1 DEF Execution!Clamp
<1>6. Execution!RiskBudget(account) \in Int
  <2> HIDE DEF money, largest
  <2>1. account.bankroll \in Int /\ account.capital \in Int /\ account.maxRisk \in Int
    BY <1>0, <1>1, <1>2
  <2> HIDE DEF account
  <2>2. Execution!Scale(account.bankroll, account.maxRisk) \in Int
    BY <2>1, ScaleIsWhole
  <2>3. Execution!Min({account.capital, Execution!Scale(account.bankroll, account.maxRisk)}) \in Int
    BY <2>1, <2>2, LeastOfTwo
  <2> QED
    BY <2>3, GreatestOfTwo DEF Execution!RiskBudget
<1> HIDE DEF account, quality, sure
<1>7. Execution!Scale(quality, sure) \in Int
  BY <1>4, <1>5, ScaleIsWhole
<1> QED
  BY <1>3, <1>6, <1>7, ScaleIsWhole

\* Shares that cost the money cost no more than the money.
LEMMA UnitsCost ==
  ASSUME NEW money \in Nat, NEW price \in Nat, price > 0
  PROVE  Execution!Units(money, price) \in Nat
         /\ price * Execution!Units(money, price) <= 1000 * money
<1>1. PICK m \in Nat : m = 1000 * money
  OBVIOUS
<1>2. m \div price \in Nat /\ price * (m \div price) <= m
  OBVIOUS
<1>3. Execution!Units(money, price) = m \div price
  BY <1>1 DEF Execution!Units
<1> QED
  BY <1>1, <1>2, <1>3

\* The timing of an entry only ever cuts its size.
LEMMA TimingCuts ==
  ASSUME NEW x, NEW t
  PROVE  Execution!ExecutionTiming(x, t) \in PerMille
<1> SUFFICES ASSUME NEW age, NEW expiry, NEW delay, NEW multiplier, NEW expired, NEW pressure
             PROVE  Execution!Timing(age, expiry, delay, multiplier, expired, pressure) \in PerMille
  BY DEF Execution!ExecutionTiming
<1> DEFINE rows ==
             << <<expired \/ multiplier < 450 \/ age >= 3 * delay \/ expiry <= delay, 0>>,
                <<2 * age >= 3 * delay \/ pressure >= 750 \/ multiplier < 700, 450>>,
                <<age <= 5 /\ pressure <= 200 /\ delay >= 30, 750>> >>
           default == 1000
<1>1. Execution!Timing(age, expiry, delay, multiplier, expired, pressure)
        = Execution!Steps(rows, default)
  BY DEF Execution!Timing
<1>2. DOMAIN rows = 1 .. 3
  OBVIOUS
<1>3. rows[1][2] = 0 /\ rows[2][2] = 450 /\ rows[3][2] = 750
  OBVIOUS
<1>4. default \in PerMille
  BY DEF PerMille
<1> HIDE DEF rows, default
<1>5. \A i \in 1 .. 3 : rows[i][2] \in {0, 450, 750}
  BY <1>3
<1>6. {0, 450, 750} \subseteq PerMille
  BY DEF PerMille
<1>7. \/ Execution!Steps(rows, default) = default
      \/ \E i \in 1 .. 3 : Execution!Steps(rows, default) = rows[i][2]
  BY <1>2, StepsAre
<1> QED
  BY <1>1, <1>4, <1>5, <1>6, <1>7

\* An order at a price costs no more than its decision.
LEMMA OrderCosts ==
  ASSUME NEW x, NEW t, Sizable(x, t), NEW price \in Nat, price > 0
  PROVE  price * Execution!OrderSize(x, t, price) <= 1000 * x.decision
<1> DEFINE absorbed == Execution!Absorbed(x, t, price)
           money == Execution!CapitalAware(x, t)
           bought == Execution!Units(absorbed, price)
           capped == Execution!Units(Execution!LossCap(x, t), price)
           kept == Execution!Max({0, Execution!Min({bought, capped})})
           size == Execution!OrderSize(x, t, price)
<1>0. x.decision \in Nat /\ x.depth \in Int
  BY DEF Sizable
<1>1. money \in Nat /\ money <= x.decision
  BY MoneyIsCut
<1>2. absorbed \in Nat /\ absorbed <= money
  <2>1. PICK spread, slippage, route :
          absorbed = Execution!SizeVsLiquidity(money, price, x.depth, spread, slippage, route)
    BY DEF Execution!Absorbed
  <2> HIDE DEF absorbed, money
  <2> QED
    BY <1>0, <1>1, <2>1, BookCuts
<1>3. bought \in Nat /\ price * bought <= 1000 * absorbed
  <2> HIDE DEF absorbed
  <2> QED
    BY <1>2, UnitsCost
<1>4. capped \in Int
  <2>1. PICK cap \in Int : cap = Execution!LossCap(x, t)
    BY CapIsWhole
  <2>2. (1000 * cap) \div price \in Int
    OBVIOUS
  <2> QED
    BY <2>1, <2>2 DEF Execution!Units
<1>5. kept \in Nat /\ kept <= bought
  <2> HIDE DEF bought, capped
  <2>1. Execution!Min({bought, capped}) \in Int /\ Execution!Min({bought, capped}) <= bought
    BY <1>3, <1>4, LeastOfTwo
  <2>2. PICK least \in Int : least = Execution!Min({bought, capped})
    BY <2>1
  <2>3. kept = IF 0 >= least THEN 0 ELSE least
    BY <2>2, GreatestOfTwo
  <2> QED
    BY <1>3, <2>1, <2>2, <2>3
<1>6. size = Execution!Scale(kept, Execution!ExecutionTiming(x, t))
  BY DEF Execution!OrderSize
<1>7. size \in Nat /\ size <= kept
  <2> HIDE DEF kept, size
  <2> QED
    BY <1>5, <1>6, TimingCuts, PartIsLess
<1> HIDE DEF size, kept, bought, absorbed, money
<1>8. price * size <= price * bought
  BY <1>3, <1>5, <1>7, TimesGrows
<1> QED
  <2>1. PICK cost \in Nat : cost = price * size
    BY <1>7
  <2>2. PICK paid \in Nat : paid = price * bought
    BY <1>3
  <2>3. cost <= 1000 * x.decision
    BY <1>0, <1>1, <1>2, <1>3, <1>8, <2>1, <2>2
  <2> QED
    BY <2>1, <2>3 DEF size

-----------------------------------------------------------------------------
\* An order that is submitted came past the reviewers that make it passive.
LEMMA OrderedIs ==
  ASSUME NEW x, NEW t, NEW plan, Execution!OrderReason(x, t, plan) = "submitted"
  PROVE  Execution!PlanReason(x, t, plan) = "submitted"
<1> DEFINE feedback == Execution!ExecutionFeedback(x, t)
           rows == << <<Execution!Entry(x) /\ Execution!ExecutionToxicity(x, t).block,
                        "toxicity_temporarily_blocks_regime">>,
                      <<Execution!Entry(x) /\ feedback.permitted = 2,
                        "live_sizing_feedback_blocks_new_entries">>,
                      <<Execution!Entry(x) /\ feedback.permitted = 1,
                        "live_sizing_feedback_reduce_only">>,
                      <<Execution!CrossesPassive(x, t, Execution!ExecutionStyle(x, t)),
                        "passive_only">> >>
           rest == Execution!PlanReason(x, t, plan)
           told == "submitted"
<1>1. Execution!OrderReason(x, t, plan) = Execution!Steps(rows, rest)
  BY DEF Execution!OrderReason
<1>2. DOMAIN rows = 1 .. 4
  OBVIOUS
<1>3. \A i \in 1 .. 4 : rows[i][2] # told
  OBVIOUS
<1>4. Execution!Steps(rows, rest) = told
  BY <1>1
<1> HIDE DEF rows, rest, told
<1>5. \/ Execution!Steps(rows, rest) = rest
      \/ \E i \in 1 .. 4 : Execution!Steps(rows, rest) = rows[i][2]
  BY <1>2, StepsAre
<1>6. rest = told
  BY <1>3, <1>4, <1>5
<1> QED
  BY <1>6 DEF rest, told

LEMMA PlannedIs ==
  ASSUME NEW x, NEW t, NEW plan, Execution!PlanReason(x, t, plan) = "submitted"
  PROVE  ~(plan.price <= 0) /\ ~Execution!CrossesPassive(x, t, plan.style)
<1> DEFINE slippage == Execution!ExpectedSlippage(x, plan.size)
           rows == << <<plan.price <= 0, "invalid_price">>, <<plan.size <= 0, "invalid_size">>,
                      <<plan.size < x.minSize, "size_below_min_order_size">>,
                      <<Execution!ExecutionTiming(x, t) = 0, "entry_timing_blocks_opportunity">>,
                      <<Execution!Absorbed(x, t, plan.price) <= 0, "liquidity_policy_blocks_size">>,
                      <<Execution!LossCap(x, t) <= 0, "max_loss_per_opportunity_blocked">>,
                      <<slippage >= 5000 /\ x.ev <= slippage, "expected_slippage_exceeds_edge">>,
                      <<Execution!CrossesPassive(x, t, plan.style), "passive_only">>,
                      <<Execution!OrderValidity(plan, x) # "valid", "venue_order_validation_failed">>,
                      <<plan.style = "cross" /\ x.depth <= 0,
                        "immediate_execution_liquidity_missing">> >>
           rest == Execution!EdgeReason(x, t, plan)
           told == "submitted"
<1>1. Execution!PlanReason(x, t, plan) = Execution!Steps(rows, rest)
  BY DEF Execution!PlanReason
<1>2. DOMAIN rows = 1 .. 10
  OBVIOUS
<1>3. \A i \in 1 .. 10 : rows[i][2] # told
  OBVIOUS
<1>4. Execution!Steps(rows, rest) = told
  BY <1>1
<1>5. ASSUME ~rows[1][1], ~rows[8][1]
      PROVE  ~(plan.price <= 0) /\ ~Execution!CrossesPassive(x, t, plan.style)
  BY <1>5
<1> HIDE DEF rows, rest, told
<1>6. \A i \in 1 .. 10 : ~rows[i][1]
  <2>1. \/ \A i \in 1 .. 10 : ~rows[i][1]
        \/ \E i \in 1 .. 10 : Execution!Steps(rows, rest) = rows[i][2]
    BY <1>2, StepsAre
  <2> QED
    BY <1>3, <1>4, <2>1
<1>7. ~rows[1][1] /\ ~rows[8][1]
  BY <1>6
<1> QED
  BY <1>5, <1>7

\* Nor is an order planned before its inputs are clear.
LEMMA InputsAre ==
  ASSUME NEW x, NEW t
  PROVE  /\ Execution!InputReason(x, t) # "submitted"
         /\ Execution!InputReason(x, t) = "clear" => ~(x.tick <= 0)
<1> DEFINE rows ==
      << <<x.working, "order_working">>,
         <<x.decision <= 0, "position_size_missing">>,
         <<~x.version, "strategy_version_missing">>, <<~x.known, "market_missing">>,
         <<x.intent = "ambiguous", "ambiguous_execution_intent">>,
         <<~Execution!Mode(t).submit, "venue_mode">>,
         <<Execution!Entry(x) /\ ~t.safety.entries, "safety_state_no_new_entries">>,
         <<x.age > t.maxAge, "signal_stale">>,
         <<x.marketAge = Execution!None, "market_snapshot_missing">>,
         <<x.marketAge > x.maxMarketAge, "market_snapshot_stale">>,
         <<x.expiry = Execution!None, "expiry_unknown">>,
         <<x.expiry <= x.window, "no_trade_near_expiry">>,
         <<~x.book, "orderbook_missing">>, <<~Execution!Fresh(x), "orderbook_stale">>,
         <<x.tick <= 0, "orderbook_tick_size_missing">>,
         <<x.minSize <= 0, "orderbook_min_order_size_missing">>,
         <<x.negRisk = Execution!Missing, "orderbook_neg_risk_missing">>,
         <<x.negRisk = "yes", "negative_risk_market_excluded">>,
         <<~Execution!Eligible(x), "market_not_eligible">>,
         <<~x.running, "bot_not_running">>, <<~x.signer, "credentials_unhealthy">> >>
           rest == "clear"
<1>1. Execution!InputReason(x, t) = Execution!Steps(rows, rest)
  BY DEF Execution!InputReason
<1>2. DOMAIN rows = 1 .. 21
  OBVIOUS
<1>3. \A i \in 1 .. 21 : rows[i][2] # "submitted" /\ rows[i][2] # "clear"
  OBVIOUS
<1>4. ASSUME ~rows[15][1] PROVE ~(x.tick <= 0)
  BY <1>4
<1>5. rest = "clear" /\ rest # "submitted"
  OBVIOUS
<1> HIDE DEF rows, rest
<1>6. Execution!InputReason(x, t) # "submitted"
  BY <1>1, <1>2, <1>3, <1>5, StepsAre
<1>7. ASSUME Execution!InputReason(x, t) = "clear" PROVE ~(x.tick <= 0)
  <2>1. Execution!Steps(rows, rest) = rest
    BY <1>1, <1>5, <1>7
  <2>2. \A i \in 1 .. 21 : rows[i][2] # rest
    BY <1>3, <1>5
  <2>3. \/ \A i \in 1 .. 21 : ~rows[i][1]
        \/ \E i \in 1 .. 21 : Execution!Steps(rows, rest) = rows[i][2]
    BY <1>2, StepsAre
  <2>4. ~rows[15][1]
    BY <2>1, <2>2, <2>3
  <2> QED
    BY <1>4, <2>4
<1> QED
  BY <1>6, <1>7

\* Whatever the circumstances, a submitted order is the planned one, of a price that
\* is worth something, and crosses the book only where it may.
LEMMA SubmittedIs ==
  ASSUME NEW x, NEW t, Execution!Execution(x, t).reason = "submitted"
  PROVE  /\ Execution!Execution(x, t).plan = Execution!Plan(x, t)
         /\ ~(Execution!Plan(x, t).price <= 0) /\ ~(x.tick <= 0)
         /\ ~Execution!CrossesPassive(x, t, Execution!Plan(x, t).style)
<1>1. ~t.safety.halt
  BY DEF Execution!Execution
<1>2. Execution!InputReason(x, t) = "clear"
  BY <1>1, InputsAre DEF Execution!Execution
<1>3. Execution!Execution(x, t) = Execution!Ordered(x, t, Execution!Plan(x, t))
  BY <1>1, <1>2 DEF Execution!Execution
<1>4. Execution!Execution(x, t).plan = Execution!Plan(x, t)
  BY <1>3 DEF Execution!Ordered
<1>5. Execution!OrderReason(x, t, Execution!Plan(x, t)) = "submitted"
  BY <1>3 DEF Execution!Ordered
<1>6. Execution!PlanReason(x, t, Execution!Plan(x, t)) = "submitted"
  BY <1>5, OrderedIs
<1> QED
  BY <1>2, <1>4, <1>6, PlannedIs, InputsAre

LEMMA OrderIsWithin ==
  ASSUME NEW x, NEW t, Sizable(x, t), Execution!Execution(x, t).reason = "submitted"
  PROVE  LET plan == Execution!Execution(x, t).plan
         IN  /\ Execution!PassiveOnly(x, t) => plan.type \in Execution!Resting
             /\ plan.price * plan.size <= 1000 * x.decision
<1> DEFINE plan == Execution!Plan(x, t)
           price == Execution!LimitPrice(x)
           size == Execution!OrderSize(x, t, price)
           type == Execution!OrderType(x, Execution!ExecutionStyle(x, t), size)
<1>1. /\ Execution!Execution(x, t).plan = plan /\ ~(plan.price <= 0) /\ ~(x.tick <= 0)
      /\ ~Execution!CrossesPassive(x, t, plan.style)
  BY SubmittedIs
<1>2. plan = Execution!PlanOf(x, price, size, type)
  BY DEF Execution!Plan, Execution!PlanAt
<1> HIDE DEF plan, price, size, type
<1>3. /\ plan.price = price /\ plan.size = size /\ plan.type = type
      /\ plan.style = IF type \in Execution!Resting THEN "rest" ELSE "cross"
  BY <1>2 DEF Execution!PlanOf
<1>4. Execution!PassiveOnly(x, t) => plan.type \in Execution!Resting
  BY <1>1, <1>3 DEF Execution!CrossesPassive
<1>5. price \in Int
  <2>1. x.bid \in Int /\ x.ask \in Int /\ x.tick \in Int
    BY DEF Sizable
  <2>2. x.tick > 0
    BY <1>1, <2>1
  <2> QED
    BY <2>1, <2>2, PriceIsWhole DEF price
<1>6. price \in Nat /\ price > 0
  BY <1>1, <1>3, <1>5
<1>7. price * Execution!OrderSize(x, t, price) <= 1000 * x.decision
  BY <1>6, OrderCosts
<1>8. plan.price * plan.size <= 1000 * x.decision
  BY <1>3, <1>7 DEF size
<1> QED
  BY <1>1, <1>4, <1>8

-----------------------------------------------------------------------------
\* The circumstances the orders are followed through are of that kind.
Followed ==
  /\ outcome = Execution!Execution(request, run)
  /\ Sizable(request, run)
  /\ {"decision", "probability", "depth", "bid", "ask", "tick"} \subseteq DOMAIN request
  /\ {"safety", "venue", "maxRisk"} \subseteq DOMAIN run

LEMMA ControlsSize ==
  ASSUME NEW s \in DOMAIN Execution!Safety!Controls
  PROVE  Execution!Safety!Controls[s].size \in PerMille
<1>1. s \in {"normal", "reduced_size", "reduced_frequency", "passive_only",
             "no_new_entries", "halt"}
  BY DEF Execution!Safety!Controls
<1>2. Execution!Safety!Controls[s].size \in {1000, 650, 800, 550, 0}
  BY <1>1 DEF Execution!Safety!Controls, Execution!Safety!Control
<1> QED
  BY <1>2 DEF PerMille

LEMMA UsualIs ==
  ASSUME NEW s
  PROVE  LET x == Execution!Intended(s)
         IN  /\ x.decision = 2000 /\ x.probability = 900 /\ x.depth = 400
             /\ x.bid = 490 /\ x.ask = 500 /\ x.tick = 100
             /\ {"decision", "probability", "depth", "bid", "ask", "tick"} \subseteq DOMAIN x
<1> DEFINE r == Execution!ResolveIntent([yes |-> "t1", no |-> "t2"], s)
<1>1. \/ Execution!Intended(s) = [Execution!Usual EXCEPT !.intent = r.effect, !.action = r.action]
      \/ Execution!Intended(s) = [Execution!Usual EXCEPT !.intent = "ambiguous"]
  BY DEF Execution!Intended
<1> HIDE DEF r
<1>2. /\ Execution!Usual.decision = 2000 /\ Execution!Usual.probability = 900
      /\ Execution!Usual.depth = 400 /\ Execution!Usual.bid = 490
      /\ Execution!Usual.ask = 500 /\ Execution!Usual.tick = 100
  BY DEF Execution!Usual
<1>3. {"decision", "probability", "depth", "bid", "ask", "tick"} \subseteq DOMAIN Execution!Usual
  BY DEF Execution!Usual
<1> DEFINE x == Execution!Intended(s)
<1>4. DOMAIN x = DOMAIN Execution!Usual
  BY <1>1
<1>5. \A g \in DOMAIN Execution!Usual : g \notin {"intent", "action"} => x[g] = Execution!Usual[g]
  BY <1>1
<1> HIDE DEF x
<1>6. x["decision"] = 2000 /\ x["probability"] = 900 /\ x["depth"] = 400
  BY <1>2, <1>3, <1>5
<1>7. x["bid"] = 490 /\ x["ask"] = 500 /\ x["tick"] = 100
  BY <1>2, <1>3, <1>5
<1> QED
  BY <1>3, <1>4, <1>6, <1>7 DEF x

LEMMA RunningIs ==
  /\ Execution!Running.safety.size \in PerMille /\ Execution!Running.venue = "healthy"
  /\ Execution!Running.maxRisk = 20
  /\ {"safety", "venue", "maxRisk"} \subseteq DOMAIN Execution!Running
<1>1. /\ Execution!Running.safety = Execution!Safety!Controls["normal"]
      /\ Execution!Running.venue = "healthy" /\ Execution!Running.maxRisk = 20
      /\ {"safety", "venue", "maxRisk"} \subseteq DOMAIN Execution!Running
  BY DEF Execution!Running
<1>2. "normal" \in DOMAIN Execution!Safety!Controls
  BY DEF Execution!Safety!Controls
<1> QED
  BY <1>1, <1>2, ControlsSize

LEMMA OthersAre ==
  /\ Execution!Others["decision"] = {0, 150, 40000} /\ Execution!Others["probability"] = {560}
  /\ Execution!Others["depth"] = {0, 4, 12} /\ Execution!Others["bid"] = {1, 300}
  /\ Execution!Others["ask"] = {495, 999} /\ Execution!Others["tick"] = {0, 10, 500}
BY DEF Execution!Others

LEMMA OtherRunsAre ==
  ASSUME NEW f \in DOMAIN Execution!OtherRuns, NEW v \in Execution!OtherRuns[f]
  PROVE  \/ f = "safety" /\ v.size \in PerMille
         \/ f = "venue" /\ v \in {"degraded", "unsafe"}
<1> DEFINE controls == {Execution!Safety!Controls[s] :
                          s \in DOMAIN Execution!Safety!Controls \ {"normal"}}
<1>1. Execution!OtherRuns = [safety |-> controls, venue |-> {"degraded", "unsafe"}]
  BY DEF Execution!OtherRuns
<1>2. \A c \in controls : c.size \in PerMille
  BY ControlsSize
<1> HIDE DEF controls
<1> QED
  BY <1>1, <1>2

LEMMA FollowedInit == Execution!Init => Followed
<1> SUFFICES ASSUME Execution!Init PROVE Followed
  OBVIOUS
<1>1. PICK s : request = Execution!Intended(s)
  BY DEF Execution!Init, Execution!Requests, Execution!Placed
<1>2. run = Execution!Running /\ outcome = Execution!Execution(request, run)
  BY DEF Execution!Init, Execution!Placed
<1>3. /\ request.decision = 2000 /\ request.probability = 900 /\ request.depth = 400
      /\ request.bid = 490 /\ request.ask = 500 /\ request.tick = 100
      /\ {"decision", "probability", "depth", "bid", "ask", "tick"} \subseteq DOMAIN request
  BY <1>1, UsualIs
<1>4. Sizable(request, run)
  BY <1>2, <1>3, RunningIs DEF Sizable
<1> QED
  BY <1>2, <1>3, <1>4, RunningIs DEF Followed

LEMMA FollowedStep ==
  ASSUME Followed, Execution!Vary
  PROVE  Followed'
<1>1. CASE \E f \in DOMAIN Execution!Others \ Execution!Away(request, run) :
             \E v \in Execution!Others[f] : \E y \in {[request EXCEPT ![f] = v]} :
               request' = y /\ run' = run /\ outcome' = Execution!Execution(y, run)
  <2>1. PICK f, v : /\ v \in Execution!Others[f]
                    /\ request' = [request EXCEPT ![f] = v] /\ run' = run
                    /\ outcome' = Execution!Execution(request', run)
    BY <1>1
  <2>2. DOMAIN request' = DOMAIN request
    BY <2>1
  <2>3. ASSUME NEW g \in DOMAIN request
        PROVE  request'[g] = request[g] \/ request'[g] \in Execution!Others[g]
    BY <2>1
  <2>4. {"decision", "probability", "depth", "bid", "ask", "tick"} \subseteq DOMAIN request
    BY DEF Followed
  <2>5. request'["decision"] \in Nat
    BY <2>3, <2>4, OthersAre DEF Followed, Sizable
  <2>6. request'["probability"] \in Int
    BY <2>3, <2>4, OthersAre DEF Followed, Sizable
  <2>7. request'["depth"] \in Int
    BY <2>3, <2>4, OthersAre DEF Followed, Sizable
  <2>8. request'["bid"] \in Int
    BY <2>3, <2>4, OthersAre DEF Followed, Sizable
  <2>9. request'["ask"] \in Int
    BY <2>3, <2>4, OthersAre DEF Followed, Sizable
  <2>10. request'["tick"] \in Int
    BY <2>3, <2>4, OthersAre DEF Followed, Sizable
  <2>11. Sizable(request', run')
    BY <2>1, <2>5, <2>6, <2>7, <2>8, <2>9, <2>10 DEF Followed, Sizable
  <2> QED
    BY <2>1, <2>2, <2>4, <2>11 DEF Followed
<1>2. CASE \E f \in DOMAIN Execution!OtherRuns \ Execution!Away(request, run) :
             \E v \in Execution!OtherRuns[f] : \E u \in {[run EXCEPT ![f] = v]} :
               request' = request /\ run' = u /\ outcome' = Execution!Execution(request, u)
  <2>1. PICK f, v :
          /\ f \in DOMAIN Execution!OtherRuns /\ v \in Execution!OtherRuns[f]
          /\ run' = [run EXCEPT ![f] = v] /\ request' = request
          /\ outcome' = Execution!Execution(request', run')
    BY <1>2
  <2>2. {"safety", "venue", "maxRisk"} \subseteq DOMAIN run
    BY DEF Followed
  <2>3. DOMAIN run' = DOMAIN run
    BY <2>1
  <2>4. run'["safety"].size \in PerMille
    BY <2>1, <2>2, OtherRunsAre DEF Followed, Sizable
  <2>5. run'["venue"] \in {"healthy", "degraded", "unsafe"}
    BY <2>1, <2>2, OtherRunsAre DEF Followed, Sizable
  <2>6. run'["maxRisk"] \in Int
    BY <2>1, <2>2, OtherRunsAre DEF Followed, Sizable
  <2>7. Sizable(request', run')
    BY <2>1, <2>4, <2>5, <2>6 DEF Followed, Sizable
  <2> QED
    BY <2>1, <2>2, <2>3, <2>7 DEF Followed
<1> QED
  BY <1>1, <1>2 DEF Execution!Vary

(***************************************************************************)
(* Within the verdict: an order that toxicity or the safety state allows   *)
(* only as a passive one rests, and none costs more than its decision      *)
(* allowed, whatever the tick, the urgency and the book make of its price; *)
(* OrderIsWithin says it of any numbers a size can be computed from.       *)
(***************************************************************************)
THEOREM WithinTheVerdict == Spec => []WithinVerdict
<1> DEFINE There == part = "execution" => Followed
<1>1. Init => There
  BY FollowedInit DEF Init
<1>2. There /\ [Next]_vars => There'
  <2> SUFFICES ASSUME There, [Next]_vars PROVE There'
    OBVIOUS
  <2>1. CASE UNCHANGED vars
    BY <2>1 DEF vars, executionVars, Followed
  <2>2. CASE Next
    <3>1. CASE part = "execution" /\ Execution!Vary
      BY <2>2, <3>1, FollowedStep DEF Next
    <3>2. CASE part # "execution"
      BY <2>2, <3>2 DEF Next
    <3>3. part = "execution" => Execution!Vary
      BY <2>2 DEF Next
    <3> QED
      BY <3>1, <3>2, <3>3
  <2> QED
    BY <2>1, <2>2
<1>3. There => WithinVerdict
  <2> SUFFICES ASSUME There, part = "execution", outcome.reason = "submitted"
               PROVE  /\ Execution!PassiveOnly(request, run) => outcome.plan.type \in Execution!Resting
                      /\ outcome.plan.price * outcome.plan.size <= 1000 * request.decision
    BY DEF WithinVerdict, Execution!PassiveRespected, Execution!SpendsWithinDecision,
           Execution!Submitted
  <2>1. /\ outcome = Execution!Execution(request, run) /\ Sizable(request, run)
    BY DEF Followed
  <2> QED
    BY <2>1, OrderIsWithin
<1> QED
  BY <1>1, <1>2, <1>3, PTL DEF Spec
=============================================================================
