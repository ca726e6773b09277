------------------------------- MODULE Startup -------------------------------
(***************************************************************************)
(* What must pass before the bot trades: the startup gate, the runbook it  *)
(* runs and the smoke harness the runbook may run, which posts a real      *)
(* order, waits to see it, cancels it and waits to see it gone.  A start   *)
(* may fail or crash at any step and be tried again; what it left at the   *)
(* venue, and the checkpoint of the smoke suite, outlive it.               *)
(***************************************************************************)
EXTENDS Integers, FiniteSets, SequencesExt

CONSTANTS
    Configs,     \* what an environment may configure
    Probes,      \* what the venue may answer to the preflight
    Ledgers,     \* what the bot may know of its live trades
    MaxAge,      \* how old a passed suite may be
    MaxTroubles  \* bound: crashes and stops

VARIABLES
    config,      \* the configuration of the latest start
    pc,          \* its step
    failed,      \* the steps of the runbook that failed
    smoke,       \* the harness: not run, how far it came, passed or failed
    resting,     \* its order is open at the venue
    suite,       \* the newest checkpoint of the smoke suite and its age
    readiness,   \* the newest checkpoint of the readiness suite and its age
    troubles

vars == <<config, pc, failed, smoke, resting, suite, readiness, troubles>>

Truth == INSTANCE PortfolioRules WITH Tokens <- {"smoke"}

None == -1
Ages == 0..MaxAge + 1
Checkpoints == [status : {"none", "completed", "failed"}, age : Ages]
Recent(checkpoint) == checkpoint.status = "completed" /\ checkpoint.age <= MaxAge

(***************************************************************************)
(* Preflight: reachable, clocks close together, not closed to new orders.  *)
(***************************************************************************)
Ready(p) == p.reachable /\ p.timed /\ p.skew <= 5 /\ p.answers /\ ~p.closedOnly

IdentityValid(c) ==
    /\ c.funder # "malformed" /\ c.profile # "malformed"
    /\ c.signature > 0 => c.funder # "none"

(***************************************************************************)
(* The evidence a live deployment tier asks for.                           *)
(***************************************************************************)
Live(c) == c.tier \in {"canary", "cautious_live", "scaled_live"}

Thresholds(c) ==
    [trades |-> CASE c.tier = "scaled_live" -> 20 [] c.tier = "cautious_live" -> 8 [] OTHER -> 0,
     trust |-> CASE c.tier = "scaled_live" -> 80 [] c.tier = "cautious_live" -> 65
                 [] c.tier = "canary" -> 45 [] OTHER -> 0,
     readiness |-> Live(c) /\ c.requireReadiness]

\* Trades of the incumbent; of any strategy when there is none.
Mine(l) == SelectSeq(l.trades, LAMBDA t : l.incumbent = "none" \/ t.by = l.incumbent)

MeanGap(trades) ==
    LET known == SelectSeq(trades, LAMBDA t : t.gap # None)
    IN  IF known = <<>> THEN None
        ELSE FoldLeft(LAMBDA sum, t : sum + t.gap, 0, known) \div Len(known)

Defects(trades) == Len(SelectSeq(trades, LAMBDA t : ~t.settled))

Evident(c, l, tested, readied) ==
    LET t == Thresholds(c)
        mine == Mine(l)
    IN  Live(c) =>
          /\ l.incumbent # "none"
          /\ Len(mine) >= t.trades /\ l.trust >= t.trust
          /\ IF MeanGap(mine) = None THEN Len(mine) = 0 ELSE MeanGap(mine) <= 50
          /\ 10 * Defects(mine) <= Len(mine)
          /\ t.readiness => readied
          /\ tested /\ l.report /\ l.shadow

-----------------------------------------------------------------------------
Init ==
    /\ config \in Configs /\ pc = "down" /\ failed = {} /\ smoke = "none" /\ resting = FALSE
    /\ suite = [status |-> "none", age |-> 0]
    /\ readiness \in [status : {"none", "completed"}, age : {0}]
    /\ troubles = 0

Begin ==
    /\ pc = "down"
    /\ config' \in Configs
    /\ pc' = "preflight" /\ failed' = {} /\ smoke' = "none"
    /\ UNCHANGED <<resting, suite, readiness, troubles>>

\* A step of the runbook; a failing one ends it when the environment says so.
Check(steps, ok, next) ==
    /\ failed' = failed \cup (IF ok THEN {} ELSE steps)
    /\ pc' = IF ~ok /\ config.failFast THEN "gate" ELSE next
Noted(steps, ok, next) ==
    /\ failed' = failed \cup (IF ok THEN {} ELSE steps)
    /\ pc' = next

Kept == UNCHANGED <<config, resting, suite, readiness, troubles>>

Preflight ==
    /\ pc = "preflight"
    /\ \E p \in Probes : Check({"geoblock_clear"}, Ready(p), "credentials")
    /\ Kept /\ UNCHANGED smoke

Credentials ==
    /\ pc = "credentials"
    /\ Check({"credentials_valid"}, config.credentials, "identity")
    /\ Kept /\ UNCHANGED smoke

Identity ==
    /\ pc = "identity"
    /\ Check({"funder_proxy_valid"}, IdentityValid(config), "reads")
    /\ Kept /\ UNCHANGED smoke

\* Orders, trades and balance are read together.
Reads ==
    /\ pc = "reads"
    /\ \E ok \in BOOLEAN :
         Check({"api_key_works", "dry_authenticated_read_path_tested"}, ok, "book")
    /\ Kept /\ UNCHANGED smoke

Book ==
    /\ pc = "book"
    /\ \/ ~config.token /\ Check({"orderbook_data_channel_live"}, config.sentinel, "truth")
       \/ config.token /\ \E ok \in BOOLEAN : Noted({"orderbook_data_channel_live"}, ok, "truth")
    /\ Kept /\ UNCHANGED smoke

\* What a capture makes of the account: the order of the harness has no row.
Capture(age) ==
    Truth!Permissions(Truth!Freshness(age),
                      Truth!Recovery(IF resting THEN {"order_unknown_to_local"} ELSE {}))

\* Mutant: a capture that is fresh is enough.
TruthHealthyIfFresh(age) == Truth!Freshness(age).worst # 3
TruthHealthy(age) == Truth!Freshness(age).worst # 3 /\ Capture(age).management

ExternalTruth ==
    /\ pc = "truth"
    /\ \/ \E age \in {0, 400} : Noted({"external_truth_fresh"}, TruthHealthy(age), "smoke")
       \/ Check({"external_truth_fresh"}, FALSE, "smoke")
    /\ Kept /\ UNCHANGED smoke

-----------------------------------------------------------------------------
(***************************************************************************)
(* The smoke harness.  It asks the preflight itself; every step may throw. *)
(***************************************************************************)
SmokeBegin ==
    /\ pc = "smoke" /\ smoke = "none" /\ ~config.sentinel /\ config.runSmoke
    /\ \E p \in Probes : smoke' = IF Ready(p) THEN "read" ELSE "failed"
    /\ Kept /\ UNCHANGED <<pc, failed>>

Harness(at, next) ==
    /\ pc = "smoke" /\ smoke = at
    /\ smoke' \in {next, "failed"}
    /\ UNCHANGED <<pc, failed, config, suite, readiness, troubles>>

\* Book, balance, orders and trades, and the user stream until it is trusted.
SmokeReads == Harness("read", "authenticated") /\ UNCHANGED resting

\* A failing answer does not mean that the venue refused the order.
SmokeSubmit ==
    /\ Harness("authenticated", "submitted")
    /\ resting' \in {TRUE, resting}
    /\ smoke' = "submitted" => resting'

SmokeVisible ==
    /\ Harness("submitted", "visible") /\ UNCHANGED resting
    /\ smoke' = "visible" => resting

SmokeHeartbeat == Harness("visible", "beaten") /\ UNCHANGED resting

SmokeCancel ==
    /\ Harness("beaten", "canceled")
    /\ resting' \in {FALSE, resting}

\* Mutant: a cancel that was answered is taken for done.
SmokeAbsentUnseen == Harness("canceled", "passed") /\ UNCHANGED resting
SmokeAbsent ==
    /\ Harness("canceled", "passed") /\ UNCHANGED resting
    /\ smoke' = "passed" => ~resting

\* What the runbook makes of it.  A harness that failed before its heartbeat or
\* its cancel says nothing of them: the suite that passed before it does.
SmokeSteps(before, after) ==
    LET success == IF smoke = "none" THEN before ELSE smoke = "passed"
        tested == smoke = "passed" \/ before
    IN  (IF tested \/ ~Live(config) THEN {} ELSE {"recent_smoke_test_timestamp"})
        \cup (IF success THEN {} ELSE {"authenticated_venue_smoke_gate"})
        \cup (IF after \/ before THEN {} ELSE {"heartbeat_path_tested", "cancel_path_tested"})

SmokeEnd ==
    /\ pc = "smoke"
    /\ \/ /\ config.sentinel /\ UNCHANGED <<failed, suite>>
       \/ /\ ~config.sentinel /\ ~config.runSmoke
          /\ failed' = failed \cup SmokeSteps(Recent(suite), FALSE) /\ UNCHANGED suite
       \/ /\ ~config.sentinel /\ smoke \in {"passed", "failed"}
          /\ failed' = failed \cup SmokeSteps(Recent(suite), smoke = "passed")
          /\ suite' = [status |-> IF smoke = "passed" THEN "completed" ELSE "failed", age |-> 0]
    /\ pc' = "evidence"
    /\ UNCHANGED <<config, smoke, resting, readiness, troubles>>

\* The smoke pass that counts is the harness's, or the suite's read before it ran.
Evidence ==
    /\ pc = "evidence"
    /\ \E l \in Ledgers :
         LET tested == ~config.sentinel /\ "recent_smoke_test_timestamp" \notin failed
         IN  failed' = failed
               \cup (IF Thresholds(config).readiness => Recent(readiness) THEN {}
                     ELSE {"recent_production_readiness_pass"})
               \cup (IF Evident(config, l, tested, Recent(readiness)) THEN {}
                     ELSE {"deployment_tier_live_evidence"})
    /\ pc' = "gate"
    /\ Kept /\ UNCHANGED smoke

\* StartupGateService: the runbook, the secrets, and crash recovery, which
\* refuses an order at the venue that it has no row for.
Gate ==
    /\ pc = "gate"
    /\ \E recovered \in BOOLEAN :
         /\ recovered => ~resting
         /\ pc' = IF /\ failed = {} /\ config.secrets /\ config.credentials
                     /\ config.recover => recovered
                  THEN "started" ELSE "down"
    /\ Kept /\ UNCHANGED <<failed, smoke>>

-----------------------------------------------------------------------------
\* The order is filled, expires or is canceled by hand.
OrderEnds ==
    /\ resting /\ resting' = FALSE
    /\ UNCHANGED <<config, pc, failed, smoke, suite, readiness, troubles>>

Older(checkpoint) == [checkpoint EXCEPT !.age = IF @ <= MaxAge THEN @ + 1 ELSE @]
Wait ==
    /\ pc = "down"
    /\ suite' = Older(suite) /\ readiness' = Older(readiness)
    /\ UNCHANGED <<config, pc, failed, smoke, resting, troubles>>

\* The process ends, wherever it is.
Crash ==
    /\ pc # "down" /\ troubles < MaxTroubles
    /\ pc' = "down" /\ troubles' = troubles + 1
    /\ UNCHANGED <<config, failed, smoke, resting, suite, readiness>>

Runbook ==
    \/ Begin \/ Preflight \/ Credentials \/ Identity \/ Reads \/ Book \/ ExternalTruth
    \/ SmokeEnd \/ Evidence \/ Gate

Smoking ==
    \/ SmokeBegin \/ SmokeReads \/ SmokeSubmit \/ SmokeVisible \/ SmokeHeartbeat
    \/ SmokeCancel \/ SmokeAbsent

Next == Runbook \/ Smoking \/ OrderEnds \/ Wait \/ Crash

Spec == Init /\ [][Next]_vars

TypeOK ==
    /\ config \in Configs /\ suite \in Checkpoints /\ readiness \in Checkpoints
    /\ resting \in BOOLEAN /\ troubles \in 0..MaxTroubles

(***************************************************************************)
(* A start that passed leaves nothing behind: no order of the harness, of  *)
(* this start or of one that failed or crashed before it, rests at the     *)
(* venue.  And unless it only simulates, its newest smoke suite passed.    *)
(***************************************************************************)
NothingLeftBehind ==
    pc = "started" =>
        /\ ~resting
        /\ ~config.sentinel => suite.status = "completed"
=============================================================================
