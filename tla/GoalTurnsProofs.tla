--------------------------- MODULE GoalTurnsProofs ---------------------------
(***************************************************************************)
(* Proofs about the supervision of a goal, for any bounds on attempts,     *)
(* jobs, Stops, commands and restarts.                                     *)
(*                                                                         *)
(* The decisions of a tick are functions of the durable goal, so each has  *)
(* a lemma that says what it returns; then there is one lemma per action,  *)
(* and each proves what the step leaves (Kept) and what it may never do    *)
(* (StepRules).                                                            *)
(***************************************************************************)
EXTENDS GoalTurns, TLAPS

Slot == [attempt : 0..MaxAttempts, status : {"none", "running", "finished", "failed"},
         report : {"none", "completed", "blocked", "continuing"}, awaits : BOOLEAN]

Goal == [status : GOAL_STATES, step : STEP_STATES, attempt : 0..MaxAttempts,
         effect : EFFECT_STATES, wait : {"none", "idle", "turn"}, slot : Slot,
         continuing : BOOLEAN, token : 0..MaxStops,
         cleanup : {"none", "pending", "failed", "complete"}]

Tick == [phase : {"idle", "leased", "dispatched", "returned"},
         result : Refusals \cup {"none", "idle", "turn"}]

Cleaning == [token : 0..MaxStops, awaits : 0..MaxAttempts]

\* The invariant without its consequence SuccessIsClaimed.
Kept ==
    /\ GoalTurnsTypeOK /\ NeverForgotten /\ CleanupMeansStopped
    /\ StepFollowsGoal /\ TickHoldsAttempt /\ SlotHoldsChat /\ RetryHasReason
    /\ KeyMeansJob /\ CleanupFollowsStop

\* The bodies of the action properties.
ReplayHasReason ==
    \A n \in Attempt : n = g.attempt /\ g'.attempt # n => task[n] \in {"none", "finished"} \/ asked

EndIsFinal ==
    g.status \in GOAL_TERMINAL =>
        /\ g'.status \in {g.status, "archived"}
        /\ g'.step = g.step /\ g'.attempt = g.attempt /\ g'.wait = "none"
        /\ \A n \in Attempt : task'[n] \in Live => task[n] \in Live

StepRules == ReplayHasReason /\ EndIsFinal

-----------------------------------------------------------------------------
(* What the invariant says, and the functions of a tick. *)

LEMMA GoalFields ==
    ASSUME NEW d \in Goal
    PROVE  /\ d.status \in GOAL_STATES /\ d.step \in STEP_STATES /\ d.attempt \in 0..MaxAttempts
           /\ d.effect \in EFFECT_STATES /\ d.wait \in {"none", "idle", "turn"} /\ d.slot \in Slot
           /\ d.continuing \in BOOLEAN /\ d.token \in 0..MaxStops
           /\ d.cleanup \in {"none", "pending", "failed", "complete"}
BY DEF Goal

LEMMA SlotFields ==
    ASSUME NEW s \in Slot
    PROVE  /\ s.attempt \in 0..MaxAttempts /\ s.status \in {"none", "running", "finished", "failed"}
           /\ s.report \in {"none", "completed", "blocked", "continuing"} /\ s.awaits \in BOOLEAN
BY DEF Slot

LEMMA Typed ==
    ASSUME GoalTurnsTypeOK
    PROVE  /\ g \in Goal /\ g.slot \in Slot
           /\ leaseLive \in BOOLEAN /\ taken \in BOOLEAN /\ up \in BOOLEAN
           /\ open \in 0..MaxJobs /\ tick \in Tick
           /\ tick.phase \in {"idle", "leased", "dispatched", "returned"}
           /\ tick.result \in Refusals \cup {"none", "idle", "turn"}
           /\ owner \in {"nobody", "user", "goal"} /\ task \in [Attempt -> TURN_STATES]
           /\ cleaners \in SUBSET (1..MaxStops) /\ asked \in BOOLEAN
           /\ cleaning \in Cleaning
<1>1. g \in Goal /\ tick \in Tick /\ cleaning \in Cleaning
  BY DEF GoalTurnsTypeOK, Goal, Slot, Tick, Cleaning
<1>2. g.slot \in Slot
  BY <1>1, GoalFields
<1>3. leaseLive \in BOOLEAN /\ taken \in BOOLEAN /\ up \in BOOLEAN
  BY DEF GoalTurnsTypeOK
<1>. QED
  BY <1>1, <1>2, <1>3 DEF GoalTurnsTypeOK, Tick

LEMMA Counts ==
    ASSUME NEW n \in 0..MaxJobs
    PROVE  Wake(n) \in 1..MaxJobs
BY GoalTurnsAssumption DEF Wake

\* A record with every field named.
LEMMA SameGoal ==
    ASSUME NEW d \in Goal, NEW e \in Goal,
           d.status = e.status, d.step = e.step, d.attempt = e.attempt, d.effect = e.effect,
           d.wait = e.wait, d.slot = e.slot, d.continuing = e.continuing, d.token = e.token,
           d.cleanup = e.cleanup
    PROVE  d = e
BY DEF Goal

LEMMA ReconcileFacts ==
    ASSUME NEW d \in Goal
    PROVE  LET n == reconcile_expired_step_leases(d)
           IN  /\ n \in Goal
               /\ n.status = d.status /\ n.attempt = d.attempt /\ n.wait = d.wait
               /\ n.slot = d.slot /\ n.continuing = d.continuing /\ n.token = d.token
               /\ n.cleanup = d.cleanup
               /\ n.step = IF d.step = "running" /\ ~leaseLive THEN "blocked" ELSE d.step
               /\ n = d \/ n.step = "blocked"
<1>1. CASE d.step = "running" /\ ~leaseLive
  <2>. DEFINE e == IF d.effect = "dispatched" THEN "unknown_effect" ELSE d.effect
  <2>1. reconcile_expired_step_leases(d) = [d EXCEPT !.step = "blocked", !.effect = e]
    BY <1>1 DEF reconcile_expired_step_leases, Goal
  <2>2. e \in EFFECT_STATES /\ "blocked" \in STEP_STATES
    BY GoalFields DEF EFFECT_STATES, STEP_STATES
  <2>. HIDE DEF e
  <2>. QED
    BY <1>1, <2>1, <2>2 DEF Goal
<1>2. CASE ~(d.step = "running" /\ ~leaseLive)
  <2>1. reconcile_expired_step_leases(d) = d
    BY <1>2 DEF reconcile_expired_step_leases
  <2>. QED
    BY <1>2, <2>1
<1>. QED
  BY <1>1, <1>2

\* The wait of a goal is settled from its slot, its turn and the chat; nothing else moves.
LEMMA WakeFacts ==
    ASSUME NEW d \in Goal, \A n \in Attempt : n = d.attempt /\ d.wait = "idle" => task[n] = "none",
           \A n \in Attempt : d.slot.status = "finished" /\ d.slot.attempt = n /\ d.attempt = n
                => task[n] = "finished",
           \A n \in Attempt : n = d.attempt /\ d.continuing => task[n] \in {"none", "finished"}
    PROVE  LET n == _wake_due(d)
           IN  /\ n \in Goal
               /\ n.status = d.status /\ n.attempt = d.attempt /\ n.slot = d.slot
               /\ n.token = d.token /\ n.cleanup = d.cleanup
               /\ n = d \/ (d.wait # "none" /\ n.wait = "none" /\ n.step \in {"succeeded", "blocked"})
               /\ n.step = "succeeded" => n = d \/
                    (n.slot.attempt = n.attempt /\ n.slot.status = "finished" /\ n.slot.report = "completed")
               /\ \A k \in Attempt : k = n.attempt /\ n.continuing => task[k] \in {"none", "finished"}
<1>. DEFINE r == IF d.wait = "none" THEN "pending" ELSE resolve(d)
            n == _wake_due(d)
<1>1. r \in {"pending", "admit", "lost", "succeeded", "unfinished"}
  BY DEF resolve
<1>2. r # "pending" => d.wait # "none"
  OBVIOUS
<1>3. r = "succeeded" =>
        d.slot.attempt = d.attempt /\ d.slot.status = "finished" /\ d.slot.report = "completed"
  BY DEF resolve
<1>4. r = "unfinished" => d.slot.attempt = d.attempt
  BY DEF resolve
<1>5. r = "admit" => d.wait = "idle"
  BY DEF resolve
<1>6. n = LET s == [d EXCEPT !.wait = "none",
                              !.step = IF r = "succeeded" THEN "succeeded" ELSE "blocked"]
          IN  CASE r = "pending" -> d
                [] r = "admit"   -> [s EXCEPT !.continuing = TRUE]
                [] r = "lost"    -> s
                [] OTHER -> [s EXCEPT
                      !.continuing = d.slot.status = "finished" /\ d.slot.report = "continuing",
                      !.effect = IF s.effect # "dispatched" THEN s.effect
                                 ELSE IF r = "succeeded" THEN "succeeded" ELSE "failed"]
  BY DEF _wake_due
<1>. HIDE DEF r, n
<1>7. CASE r = "pending"
  <2>1. n = d
    BY <1>6, <1>7
  <2>. QED
    BY <2>1 DEF n
<1>8. CASE r = "admit"
  <2>1. n = [d EXCEPT !.wait = "none", !.step = "blocked", !.continuing = TRUE]
    BY <1>6, <1>8
  <2>2. /\ n \in Goal /\ n.status = d.status /\ n.attempt = d.attempt /\ n.slot = d.slot
        /\ n.token = d.token /\ n.cleanup = d.cleanup /\ n.wait = "none" /\ n.step = "blocked"
    BY <2>1 DEF Goal, STEP_STATES
  <2>. QED
    BY <1>5, <1>8, <2>2 DEF n
<1>9. CASE r = "lost"
  <2>1. n = [d EXCEPT !.wait = "none", !.step = "blocked"]
    BY <1>6, <1>9
  <2>2. /\ n \in Goal /\ n.status = d.status /\ n.attempt = d.attempt /\ n.slot = d.slot
        /\ n.token = d.token /\ n.cleanup = d.cleanup /\ n.wait = "none" /\ n.step = "blocked"
        /\ n.continuing = d.continuing
    BY <2>1 DEF Goal, STEP_STATES
  <2>. QED
    BY <1>2, <1>9, <2>2 DEF n
<1>10. CASE r \in {"succeeded", "unfinished"}
  <2>. DEFINE c == d.slot.status = "finished" /\ d.slot.report = "continuing"
              s == IF r = "succeeded" THEN "succeeded" ELSE "blocked"
              e == IF d.effect # "dispatched" THEN d.effect
                   ELSE IF r = "succeeded" THEN "succeeded" ELSE "failed"
  <2>1. n = [d EXCEPT !.wait = "none", !.step = s, !.continuing = c, !.effect = e]
    BY <1>6, <1>10 DEF Goal
  <2>2. c \in BOOLEAN /\ s \in STEP_STATES /\ e \in EFFECT_STATES
    BY GoalFields DEF STEP_STATES, EFFECT_STATES
  <2>3. s = IF r = "succeeded" THEN "succeeded" ELSE "blocked"
    OBVIOUS
  <2>4. c => d.slot.status = "finished"
    OBVIOUS
  <2>. HIDE DEF c, s, e
  <2>5. /\ n \in Goal /\ n.status = d.status /\ n.attempt = d.attempt /\ n.slot = d.slot
        /\ n.token = d.token /\ n.cleanup = d.cleanup /\ n.wait = "none" /\ n.step = s
        /\ n.continuing = c
    BY <2>1, <2>2 DEF Goal
  <2>. QED
    BY <1>2, <1>3, <1>4, <1>10, <2>3, <2>4, <2>5 DEF n
<1>. QED
  BY <1>1, <1>7, <1>8, <1>9, <1>10

LEMMA ConcludeFacts ==
    ASSUME NEW d \in Goal, d.step # "none"
    PROVE  LET n == Conclude(d)
           IN  /\ n \in Goal
               /\ n.attempt = d.attempt /\ n.wait = d.wait /\ n.slot = d.slot
               /\ n.continuing = d.continuing /\ n.token = d.token /\ n.cleanup = d.cleanup
               /\ d.status \in GOAL_TERMINAL \cup {"paused"} => n = d
               /\ d.status \notin GOAL_TERMINAL \cup {"paused"} =>
                    /\ n.status \in {"succeeded", "waiting_external", "blocked", "running"}
                    /\ n.status = "succeeded" => n.step = "succeeded"
               /\ n.step = d.step \/ (d.step = "blocked" /\ d.continuing /\ n.step = "retry_scheduled")
               /\ n.status \in {"queued", "running"} /\ n.step # "ready" => Successor(n)
<1>1. CASE d.status \in GOAL_TERMINAL \cup {"paused"}
  <2>1. Conclude(d) = d
    BY <1>1 DEF Conclude
  <2>. QED
    BY <1>1, <2>1 DEF GOAL_TERMINAL
<1>2. CASE d.status \notin GOAL_TERMINAL \cup {"paused"} /\ d.step = "blocked" /\ d.continuing
  <2>1. Conclude(d) = [d EXCEPT !.step = "retry_scheduled", !.status = "running"]
    BY <1>2 DEF Conclude
  <2>2. "retry_scheduled" \in STEP_STATES /\ "running" \in GOAL_STATES
    BY DEF STEP_STATES, GOAL_STATES, GOAL_ACTIVE
  <2>. QED
    BY <1>2, <2>1, <2>2 DEF Goal, Successor, GOAL_ACTIVE
<1>3. CASE d.status \notin GOAL_TERMINAL \cup {"paused"} /\ ~(d.step = "blocked" /\ d.continuing)
  <2>. DEFINE s == _aggregate_status(d)
  <2>1. Conclude(d) = [d EXCEPT !.status = s]
    BY <1>3 DEF Conclude
  <2>2. s \in {"succeeded", "waiting_external", "blocked", "running"}
    BY DEF _aggregate_status
  <2>3. s \in GOAL_STATES
    BY <2>2 DEF GOAL_STATES, GOAL_ACTIVE, GOAL_TERMINAL
  <2>4. s = "succeeded" => d.step = "succeeded"
    BY DEF _aggregate_status
  <2>5. s = "running" => d.step \notin {"succeeded", "waiting", "failed", "blocked", "cancelled"}
    BY DEF _aggregate_status
  <2>6. d.step \in STEP_STATES
    BY GoalFields
  <2>. HIDE DEF s
  <2>. QED
    BY <1>3, <2>1, <2>2, <2>3, <2>4, <2>5, <2>6 DEF Goal, Successor, GOAL_ACTIVE, STEP_STATES
<1>. QED
  BY <1>1, <1>2, <1>3

-----------------------------------------------------------------------------
(* Ticks. *)

LEMMA Facts ==
    ASSUME Kept
    PROVE  /\ GoalTurnsTypeOK /\ NeverForgotten /\ CleanupMeansStopped
           /\ StepFollowsGoal /\ TickHoldsAttempt /\ SlotHoldsChat /\ RetryHasReason
           /\ KeyMeansJob /\ CleanupFollowsStop
           /\ g \in Goal /\ g.slot \in Slot /\ g.attempt \in 0..MaxAttempts
           /\ open \in 0..MaxJobs /\ task \in [Attempt -> TURN_STATES] /\ tick \in Tick
BY Typed, GoalFields DEF Kept

LEMMA InitKept ==
    ASSUME Init
    PROVE  Kept
<1>1. g = [status |-> "draft", step |-> "none", attempt |-> 0, effect |-> "none",
            wait |-> "none", slot |-> NoSlot, continuing |-> FALSE,
            token |-> 0, cleanup |-> "none"]
  BY DEF Init
<1>2. 0 \in 0..MaxAttempts /\ 0 \in 0..MaxStops /\ 0 \in 0..MaxJobs
  BY GoalTurnsAssumption
<1>3. NoSlot \in Slot /\ NoSlot.attempt = 0 /\ NoSlot.status = "none"
  BY <1>2 DEF NoSlot, Slot
<1>4. /\ g.status = "draft" /\ g.step = "none" /\ g.attempt = 0 /\ g.wait = "none"
      /\ g.slot = NoSlot /\ g.continuing = FALSE /\ g.cleanup = "none"
  BY <1>1
<1>5. g \in Goal
  BY <1>1, <1>2, <1>3 DEF Goal, GOAL_STATES, STEP_STATES, EFFECT_STATES
<1>6. GoalTurnsTypeOK
  BY <1>2, <1>5 DEF Init, GoalTurnsTypeOK, Goal, Slot, Idle, NoCleanup, TURN_STATES
<1>7. StepFollowsGoal /\ CleanupMeansStopped
  BY <1>4 DEF Init, StepFollowsGoal, GOAL_TERMINAL, CleanupMeansStopped
<1>8. TickHoldsAttempt /\ NeverForgotten /\ KeyMeansJob
  BY <1>4 DEF Init, TickHoldsAttempt, NeverForgotten, KeyMeansJob, Idle, Refusals
<1>9. SlotHoldsChat /\ RetryHasReason
  BY <1>3, <1>4 DEF Init, SlotHoldsChat, RetryHasReason, Attempt, Live
<1>10. CleanupFollowsStop
  BY <1>4 DEF Init, CleanupFollowsStop, NoCleanup
<1>. QED
  BY <1>6, <1>7, <1>8, <1>9, <1>10 DEF Kept

\* What the fence and the due wait make of a goal, whatever they find its status to be.
LEMMA SettleFacts ==
    ASSUME Kept, NEW d \in Goal,
           d.step = reconcile_expired_step_leases(g).step,
           d.attempt = g.attempt, d.slot = g.slot, d.wait = g.wait,
           d.continuing = g.continuing, d.token = g.token, d.cleanup = g.cleanup
    PROVE  LET w == _wake_due(d)
           IN  /\ w \in Goal
               /\ w.status = d.status /\ w.attempt = g.attempt /\ w.slot = g.slot
               /\ w.token = g.token /\ w.cleanup = g.cleanup
               /\ w.wait = "none" \/ (w.wait = g.wait /\ w.step = "waiting")
               /\ w.step \in {g.step, "blocked"} \/ (w.step = "succeeded" /\ g.wait # "none")
               /\ g.step = "running" /\ w.step = "running" => leaseLive
               /\ w.step = "succeeded" => w.slot.attempt = w.attempt /\ w.slot.status = "finished"
                                          /\ w.slot.report = "completed"
               /\ \A k \in Attempt : k = g.attempt /\ w.continuing => task[k] \in {"none", "finished"}
<1>. DEFINE r == reconcile_expired_step_leases(g)
            w == _wake_due(d)
<1>1. g \in Goal /\ r.step = IF g.step = "running" /\ ~leaseLive THEN "blocked" ELSE g.step
  BY Facts, ReconcileFacts
<1>2. \A n \in Attempt : n = d.attempt /\ d.wait = "idle" => task[n] = "none"
  BY Facts DEF TickHoldsAttempt
<1>3. \A n \in Attempt : d.slot.status = "finished" /\ d.slot.attempt = n /\ d.attempt = n
        => task[n] = "finished"
  BY Facts DEF SlotHoldsChat
<1>4. \A n \in Attempt : n = d.attempt /\ d.continuing => task[n] \in {"none", "finished"}
  BY Facts DEF RetryHasReason
<1>5. /\ w \in Goal
      /\ w.status = d.status /\ w.attempt = d.attempt /\ w.slot = d.slot
      /\ w.token = d.token /\ w.cleanup = d.cleanup
      /\ w = d \/ (d.wait # "none" /\ w.wait = "none" /\ w.step \in {"succeeded", "blocked"})
      /\ w.step = "succeeded" => w = d \/
            (w.slot.attempt = w.attempt /\ w.slot.status = "finished" /\ w.slot.report = "completed")
      /\ \A k \in Attempt : k = w.attempt /\ w.continuing => task[k] \in {"none", "finished"}
  BY <1>2, <1>3, <1>4, WakeFacts
<1>6. g.wait # "none" => g.step = "waiting"
  BY Facts DEF StepFollowsGoal
<1>7. g.step = "succeeded" =>
          g.slot.attempt = g.attempt /\ g.slot.status = "finished" /\ g.slot.report = "completed"
  BY Facts DEF StepFollowsGoal
<1>8. d.step = r.step
  OBVIOUS
<1>. HIDE DEF r, w
<1>9. w.wait = "none" \/ (w.wait = g.wait /\ w.step = "waiting")
  BY <1>1, <1>5, <1>6, <1>8
<1>10. w.step = "succeeded" => w.slot.attempt = w.attempt /\ w.slot.status = "finished"
                               /\ w.slot.report = "completed"
  BY <1>1, <1>5, <1>7, <1>8
<1>11. w.step \in {g.step, "blocked"} \/ (w.step = "succeeded" /\ g.wait # "none")
  BY <1>1, <1>5, <1>8
<1>12. g.step = "running" /\ w.step = "running" => leaseLive
  BY <1>1, <1>5, <1>8
<1>. QED
  BY <1>5, <1>9, <1>10, <1>11, <1>12 DEF w

\* Facts of a step that every conjunct of Kept can be proved from, when the step leaves the
\* turns and the cleanup alone and the tick idle.
LEMMA IdleStep ==
    ASSUME Kept, tick.phase = "idle", tick'.phase = "idle", tick' \in Tick,
           g' \in Goal, g'.attempt = g.attempt, g'.slot = g.slot,
           g'.token = g.token, g'.cleanup = g.cleanup, tick'.result = tick.result,
           g'.status # "archived" \/ g.status = "archived",
           g'.status = "cancelled" => g.status = "cancelled",
           g.status \in GOAL_TERMINAL => g'.status \in GOAL_TERMINAL,
           g'.wait \in {g.wait, "none"},
           StepFollowsGoal', RetryHasReason', NeverForgotten', KeyMeansJob',
           leaseLive' \in BOOLEAN, taken' \in BOOLEAN, up' \in BOOLEAN,
           open' \in 0..MaxJobs, asked' \in BOOLEAN,
           UNCHANGED <<turns, cleanup>>
    PROVE  Kept'
<1>1. UNCHANGED <<owner, task, cleaners, cleaning>>
  BY DEF turns, cleanup
<1>2. GoalTurnsTypeOK'
  <2>1. GoalTurnsTypeOK
    BY Facts
  <2>. QED
    BY <1>1, <2>1 DEF GoalTurnsTypeOK, Goal, Slot, Tick
<1>3. TickHoldsAttempt'
  <2>1. TickHoldsAttempt
    BY Facts
  <2>. QED
    BY <1>1, <2>1 DEF TickHoldsAttempt
<1>4. SlotHoldsChat'
  <2>1. SlotHoldsChat
    BY Facts
  <2>. QED
    BY <1>1, <2>1 DEF SlotHoldsChat
<1>5. CleanupMeansStopped' /\ CleanupFollowsStop'
  <2>1. CleanupMeansStopped /\ CleanupFollowsStop
    BY Facts
  <2>. QED
    BY <1>1, <2>1 DEF CleanupMeansStopped, CleanupFollowsStop
<1>. QED
  BY <1>2, <1>3, <1>4, <1>5 DEF Kept

LEMMA TickBeginsKept ==
    ASSUME Kept, tick_begins
    PROVE  Kept' /\ StepRules
<1>. DEFINE r == reconcile_expired_step_leases(g)
            q == [r EXCEPT !.status = IF @ = "queued" THEN "running" ELSE @]
            w == _wake_due(q)
            p == _prepare_ready(w)
            e == Conclude(p)
<1>1. /\ up /\ tick.phase = "idle" /\ open > 0
      /\ UNCHANGED <<up, owner, cleanup, count>>
      /\ \/ /\ r.status \in GOAL_TERMINAL \cup {"draft", "paused"}
            /\ Commit(r) /\ open' = open - 1
            /\ UNCHANGED <<leaseLive, tick, task, asked>>
         \/ /\ r.status \in GOAL_ACTIVE \cup {"blocked"}
            /\ p.step = "ready" /\ p.attempt < MaxAttempts
            /\ Commit([p EXCEPT !.step = "running", !.attempt = @ + 1, !.effect = "none"])
            /\ leaseLive' = TRUE
            /\ tick' = [phase |-> "leased", result |-> "none"]
            /\ open' = open - 1
            /\ task' = [n \in Attempt |-> IF task[n] \in Settled THEN "none" ELSE task[n]]
            /\ asked' = FALSE
         \/ /\ r.status \in GOAL_ACTIVE \cup {"blocked"}
            /\ p.step # "ready"
            /\ Commit(e)
            /\ open' = IF Successor(e) THEN open ELSE open - 1
            /\ UNCHANGED <<leaseLive, tick, task, asked>>
  BY DEF tick_begins
<1>2. /\ r \in Goal
      /\ r.status = g.status /\ r.attempt = g.attempt /\ r.wait = g.wait
      /\ r.slot = g.slot /\ r.continuing = g.continuing /\ r.token = g.token
      /\ r.cleanup = g.cleanup
      /\ r.step = IF g.step = "running" /\ ~leaseLive THEN "blocked" ELSE g.step
      /\ r = g \/ r.step = "blocked"
  BY Facts, ReconcileFacts
<1>3. open' \in 0..MaxJobs /\ open - 1 \in 0..MaxJobs /\ open \in 0..MaxJobs
  BY <1>1, Facts, GoalTurnsAssumption
<1>4. taken \in BOOLEAN /\ leaseLive \in BOOLEAN /\ up \in BOOLEAN /\ asked \in BOOLEAN /\ tick \in Tick
  BY Facts, Typed
<1>5. CASE r.status \in GOAL_TERMINAL \cup {"draft", "paused"} /\ Commit(r) /\ open' = open - 1
           /\ UNCHANGED <<leaseLive, tick, task, asked>>
  <2>. HIDE DEF r
  <2>1. g' = r /\ taken' = (taken /\ r = g)
    BY <1>5 DEF Commit
  <2>2. StepFollowsGoal'
    BY <1>2, <2>1, Facts DEF StepFollowsGoal, GOAL_TERMINAL
  <2>3. RetryHasReason'
    BY <1>2, <1>5, <2>1, Facts DEF RetryHasReason
  <2>4. NeverForgotten' /\ KeyMeansJob'
    BY <1>2, <1>5, <2>1 DEF NeverForgotten, KeyMeansJob, GOAL_TERMINAL
  <2>5. Kept'
    BY <1>1, <1>2, <1>3, <1>4, <1>5, <2>1, <2>2, <2>3, <2>4, IdleStep DEF turns
  <2>6. EndIsFinal
    BY <1>2, <1>5, <2>1, Facts DEF EndIsFinal, StepFollowsGoal, GOAL_TERMINAL
  <2>. QED
    BY <1>2, <2>1, <2>5, <2>6 DEF StepRules, ReplayHasReason
<1>6. CASE r.status \in GOAL_ACTIVE \cup {"blocked"}
  <2>1. /\ q \in Goal /\ q.status \in {"running", "waiting_external", "blocked"}
        /\ q.step = r.step /\ q.attempt = r.attempt /\ q.slot = r.slot /\ q.wait = r.wait
        /\ q.continuing = r.continuing /\ q.token = r.token /\ q.cleanup = r.cleanup
    BY <1>2, <1>6 DEF Goal, GOAL_STATES, GOAL_ACTIVE
  <2>2. /\ w \in Goal
        /\ w.status = q.status /\ w.attempt = g.attempt /\ w.slot = g.slot
        /\ w.token = g.token /\ w.cleanup = g.cleanup
        /\ w.wait = "none" \/ (w.wait = g.wait /\ w.step = "waiting")
        /\ w.step \in {g.step, "blocked"} \/ (w.step = "succeeded" /\ g.wait # "none")
        /\ w.step = "succeeded" => w.slot.attempt = w.attempt /\ w.slot.status = "finished"
                                   /\ w.slot.report = "completed"
        /\ \A k \in Attempt : k = g.attempt /\ w.continuing => task[k] \in {"none", "finished"}
    <3>. HIDE DEF q
    <3>. QED
      BY <1>2, <2>1, SettleFacts
  <2>3. g.status \notin GOAL_TERMINAL \cup {"draft", "paused"} /\ g.step # "none"
    BY <1>2, <1>6, Facts DEF GOAL_ACTIVE, GOAL_TERMINAL, StepFollowsGoal
  <2>. HIDE DEF r, q, w
  <2>4. /\ p \in Goal
        /\ p.status = w.status /\ p.attempt = w.attempt /\ p.slot = w.slot /\ p.wait = w.wait
        /\ p.token = w.token /\ p.cleanup = w.cleanup /\ p.continuing = w.continuing
        /\ p.step = IF w.step \in {"pending", "retry_scheduled"} THEN "ready" ELSE w.step
    BY <2>2 DEF _prepare_ready, Goal, STEP_STATES
  <2>5. p.step = "ready" => g.step \in {"pending", "retry_scheduled"} /\ p.wait = "none"
    BY <2>2, <2>4, Facts DEF StepFollowsGoal
  <2>. HIDE DEF p
  <2>6. CASE /\ p.step = "ready" /\ p.attempt < MaxAttempts
             /\ Commit([p EXCEPT !.step = "running", !.attempt = @ + 1, !.effect = "none"])
             /\ leaseLive' = TRUE
             /\ tick' = [phase |-> "leased", result |-> "none"]
             /\ open' = open - 1
             /\ task' = [n \in Attempt |-> IF task[n] \in Settled THEN "none" ELSE task[n]]
             /\ asked' = FALSE
    <3>0. p.attempt = g.attempt /\ g.attempt \in 0..MaxAttempts /\ g.attempt + 1 \in Attempt
          /\ g.attempt < MaxAttempts /\ MaxAttempts \in Nat
      BY <2>2, <2>4, <2>6, Facts, GoalTurnsAssumption DEF Attempt
    <3>1. /\ g' \in Goal /\ g'.status = p.status /\ g'.step = "running"
          /\ g'.attempt = g.attempt + 1 /\ g'.wait = "none" /\ g'.slot = g.slot
          /\ g'.continuing = p.continuing /\ g'.token = g.token /\ g'.cleanup = g.cleanup
      <4>1. g' = [p EXCEPT !.step = "running", !.attempt = p.attempt + 1, !.effect = "none"]
        BY <2>6 DEF Commit
      <4>2. "running" \in STEP_STATES /\ "none" \in EFFECT_STATES
            /\ p.attempt + 1 \in 0..MaxAttempts
        BY <3>0 DEF STEP_STATES, EFFECT_STATES, Attempt
      <4>. QED
        BY <2>2, <2>4, <2>5, <2>6, <3>0, <4>1, <4>2 DEF Goal
    <3>2. /\ tick' \in Tick /\ tick'.phase = "leased" /\ tick'.result = "none"
      BY <2>6 DEF Tick
    <3>3. /\ task' \in [Attempt -> TURN_STATES]
          /\ \A n \in Attempt : task'[n] = IF task[n] \in Settled THEN "none" ELSE task[n]
      BY <2>6, Facts DEF TURN_STATES, Settled
    <3>4. taken' \in BOOLEAN
      BY <2>6, <1>4 DEF Commit
    <3>5. GoalTurnsTypeOK'
      BY <1>1, <1>3, <1>4, <2>6, <3>1, <3>2, <3>3, <3>4, Facts
         DEF GoalTurnsTypeOK, Goal, Slot, Tick, cleanup
    <3>6. g'.status \in {"running", "waiting_external", "blocked"}
      BY <2>1, <2>2, <2>4, <3>1
    <3>7. NeverForgotten' /\ KeyMeansJob'
      BY <3>2 DEF NeverForgotten, KeyMeansJob
    <3>8. StepFollowsGoal'
      BY <3>1, <3>6 DEF StepFollowsGoal, GOAL_TERMINAL
    <3>9. TickHoldsAttempt'
      <4>1. task'[g'.attempt] = "none"
        BY <3>0, <3>1, <3>3, Facts DEF SlotHoldsChat, Attempt
      <4>. QED
        BY <1>1, <3>0, <3>1, <3>2, <4>1 DEF TickHoldsAttempt
    <3>10. SlotHoldsChat'
      <4>1. SlotHoldsChat /\ g.slot \in Slot /\ g.slot.attempt \in 0..MaxAttempts
        BY Facts, SlotFields
      <4>2. \A n \in Attempt : task'[n] \in Live => task[n] \in Live /\ task'[n] = task[n]
        BY <3>3 DEF Settled, Live
      <4>3. \A n \in Attempt : n > g'.attempt => task'[n] = "none"
        BY <3>0, <3>1, <3>3, <4>1 DEF SlotHoldsChat, Attempt
      <4>4. owner' = "goal" => g.slot.attempt # 0 /\ task[g.slot.attempt] \in Live
        BY <1>1, <2>3, <4>1 DEF SlotHoldsChat
      <4>5. g.slot.attempt # 0 => task'[g.slot.attempt] = IF task[g.slot.attempt] \in Settled
                                     THEN "none" ELSE task[g.slot.attempt]
        BY <3>3, <4>1 DEF Attempt
      <4>. QED
        BY <1>1, <3>0, <3>1, <3>2, <4>1, <4>2, <4>3, <4>4, <4>5 DEF SlotHoldsChat, Attempt, Settled, Live
    <3>11. RetryHasReason'
      <4>1. task'[g'.attempt] = "none"
        BY <3>9, <3>2 DEF TickHoldsAttempt
      <4>. QED
        BY <3>1, <4>1 DEF RetryHasReason
    <3>12. CleanupMeansStopped' /\ CleanupFollowsStop'
      BY <1>1, <2>3, <3>1, <3>6, Facts
         DEF CleanupMeansStopped, CleanupFollowsStop, cleanup, GOAL_TERMINAL
    <3>13. ReplayHasReason
      BY <2>5, <2>6, Facts DEF ReplayHasReason, RetryHasReason, StepFollowsGoal, Attempt
    <3>. QED
      BY <2>3, <3>5, <3>7, <3>8, <3>9, <3>10, <3>11, <3>12, <3>13
         DEF Kept, StepRules, EndIsFinal
  <2>7. CASE /\ p.step # "ready"
             /\ Commit(e)
             /\ open' = IF Successor(e) THEN open ELSE open - 1
             /\ UNCHANGED <<leaseLive, tick, task, asked>>
    <3>1. p.step # "none" /\ p.status \notin GOAL_TERMINAL \cup {"paused"}
      BY <2>1, <2>2, <2>3, <2>4 DEF GOAL_TERMINAL
    <3>2. /\ e \in Goal
          /\ e.attempt = p.attempt /\ e.wait = p.wait /\ e.slot = p.slot
          /\ e.continuing = p.continuing /\ e.token = p.token /\ e.cleanup = p.cleanup
          /\ e.status \in {"succeeded", "waiting_external", "blocked", "running"}
          /\ e.status = "succeeded" => e.step = "succeeded"
          /\ e.step = p.step \/ (p.step = "blocked" /\ p.continuing /\ e.step = "retry_scheduled")
          /\ e.status \in {"queued", "running"} /\ e.step # "ready" => Successor(e)
      BY <2>4, <3>1, ConcludeFacts
    <3>. HIDE DEF e
    <3>3. g' = e /\ taken' = (taken /\ e = g)
      BY <2>7 DEF Commit
    <3>4. e.step \notin {"none", "ready", "pending"}
      BY <2>4, <2>7, <3>1, <3>2
    <3>5. NeverForgotten' /\ KeyMeansJob'
      BY <1>1, <2>7, <3>2, <3>3, <3>4 DEF NeverForgotten, KeyMeansJob
    <3>6. StepFollowsGoal'
      BY <2>2, <2>4, <2>7, <3>2, <3>3, <3>4 DEF StepFollowsGoal, GOAL_TERMINAL
    <3>7. RetryHasReason'
      BY <2>2, <2>4, <2>7, <3>2, <3>3 DEF RetryHasReason
    <3>8. Kept'
      BY <1>1, <1>3, <1>4, <2>2, <2>3, <2>4, <2>7, <3>2, <3>3, <3>5, <3>6, <3>7, IdleStep DEF turns
    <3>. QED
      BY <2>2, <2>3, <2>4, <3>2, <3>3, <3>8 DEF StepRules, ReplayHasReason, EndIsFinal
  <2>. QED
    BY <1>1, <1>2, <1>6, <2>3, <2>6, <2>7 DEF GOAL_ACTIVE, GOAL_TERMINAL
<1>. QED
  BY <1>1, <1>2, <1>5, <1>6 DEF GOAL_STATES

\* The budget pauses a goal between its ticks.
LEMMA TickPausesKept ==
    ASSUME Kept, tick_pauses
    PROVE  Kept' /\ StepRules
<1>. DEFINE r == reconcile_expired_step_leases(g)
<1>1. /\ r \in Goal
      /\ r.status = g.status /\ r.attempt = g.attempt /\ r.wait = g.wait
      /\ r.slot = g.slot /\ r.continuing = g.continuing /\ r.token = g.token
      /\ r.cleanup = g.cleanup
      /\ r.step = IF g.step = "running" /\ ~leaseLive THEN "blocked" ELSE g.step
  BY Facts, ReconcileFacts
<1>2. /\ up /\ tick.phase = "idle" /\ open > 0 /\ open' = open - 1
      /\ r.status \in GOAL_ACTIVE \cup {"blocked"}
      /\ g' = [r EXCEPT !.status = "paused"] /\ taken' \in BOOLEAN
      /\ UNCHANGED <<leaseLive, up, tick, turns, cleanup, asked>>
  BY Typed, Facts DEF tick_pauses, Commit
<1>. HIDE DEF r
<1>3. /\ g' \in Goal /\ g'.status = "paused" /\ g'.step = r.step /\ g'.attempt = r.attempt
      /\ g'.wait = r.wait /\ g'.slot = r.slot /\ g'.continuing = r.continuing
      /\ g'.token = r.token /\ g'.cleanup = r.cleanup
  BY <1>1, <1>2 DEF Goal, GOAL_STATES
<1>4. open' \in 0..MaxJobs
  BY <1>2, Facts, GoalTurnsAssumption
<1>5. NeverForgotten' /\ KeyMeansJob'
  BY <1>3 DEF NeverForgotten, KeyMeansJob
<1>6. StepFollowsGoal'
  BY <1>1, <1>2, <1>3, Facts DEF StepFollowsGoal, GOAL_TERMINAL, GOAL_ACTIVE
<1>7. RetryHasReason'
  BY <1>1, <1>2, <1>3, Facts DEF RetryHasReason, turns
<1>8. g.status \notin GOAL_TERMINAL
  BY <1>1, <1>2 DEF GOAL_TERMINAL, GOAL_ACTIVE
<1>9. Kept'
  BY <1>1, <1>2, <1>3, <1>4, <1>5, <1>6, <1>7, <1>8, Facts, Typed, IdleStep
<1>. QED
  BY <1>1, <1>3, <1>8, <1>9 DEF StepRules, ReplayHasReason, EndIsFinal

-----------------------------------------------------------------------------
(* Crashes and restarts. *)

\* A crash keeps what is durable; the step may have written the goal before it.
LEMMA DiesStep ==
    ASSUME Kept, Dies, UNCHANGED leaseLive, g' \in Goal,
           g'.attempt = g.attempt, g'.slot = g.slot, g'.token = g.token,
           g'.cleanup = g.cleanup, g'.wait \in {g.wait, "none"}, taken' \in BOOLEAN,
           taken' => taken /\ g' = g, asked' \in BOOLEAN, StepFollowsGoal',
           g.status \in GOAL_TERMINAL => g'.status = g.status,
           g'.status \in GOAL_TERMINAL => g.status \in GOAL_TERMINAL,
           \A n \in Attempt : n = g.attempt =>
              /\ g'.continuing => task[n] \in {"none", "finished"}
              /\ g'.step = "retry_scheduled" => task[n] \in {"none", "finished"} \/ asked'
    PROVE  Kept'
<1>1. /\ up' = FALSE /\ tick' = Idle /\ owner' = "nobody" /\ cleaners' = {} /\ cleaning' = NoCleanup
      /\ open' = IF tick.phase = "idle" THEN open ELSE Wake(open)
  BY DEF Dies
<1>2. /\ task' \in [Attempt -> TURN_STATES]
      /\ \A n \in Attempt : task'[n] = IF task[n] \in Settled \cup {"none"} THEN task[n] ELSE "lost"
  BY Facts DEF Dies, TURN_STATES
<1>3. tick'.phase = "idle" /\ tick'.result = "none" /\ tick' \in Tick
  BY <1>1 DEF Idle, Tick
<1>4. open' \in 0..MaxJobs /\ (tick.phase # "idle" => open' > 0)
  BY <1>1, Counts, Facts, GoalTurnsAssumption
<1>5. cleaning' \in Cleaning
  BY <1>1, GoalTurnsAssumption DEF NoCleanup, Cleaning
<1>6. GoalTurnsTypeOK'
  <2>1. leaseLive' \in BOOLEAN
    BY Facts, Typed
  <2>. QED
    BY <1>1, <1>2, <1>3, <1>4, <1>5, <2>1 DEF GoalTurnsTypeOK, Goal, Slot, Tick, Cleaning
<1>7. NeverForgotten' /\ KeyMeansJob'
  BY <1>1, <1>3, <1>4, Facts DEF NeverForgotten, KeyMeansJob
<1>8. TickHoldsAttempt'
  BY <1>2, <1>3, Facts DEF TickHoldsAttempt, Refusals
<1>9. SlotHoldsChat'
  BY <1>1, <1>2, <1>3, Facts DEF SlotHoldsChat, Settled, Live
<1>10. RetryHasReason'
  BY <1>2 DEF RetryHasReason, Settled
<1>11. CleanupMeansStopped' /\ CleanupFollowsStop'
  BY <1>1, <1>2, Facts DEF CleanupMeansStopped, CleanupFollowsStop, GOAL_TERMINAL, Live
<1>. QED
  BY <1>6, <1>7, <1>8, <1>9, <1>10, <1>11 DEF Kept

\* No turn starts in a crash.
LEMMA DiesRules ==
    ASSUME Kept, Dies, g'.attempt = g.attempt,
           g.status \in GOAL_TERMINAL => g'.status = g.status /\ g'.step = g.step /\ g'.wait = "none"
    PROVE  StepRules
<1>1. \A n \in Attempt : task'[n] \in Live => task[n] \in Live
  BY DEF Dies, Live
<1>. QED
  BY <1>1 DEF StepRules, ReplayHasReason, EndIsFinal

LEMMA CrashKept ==
    ASSUME Kept, crash
    PROVE  Kept' /\ StepRules
<1>1. Dies /\ UNCHANGED <<g, taken, leaseLive, asked>>
  BY DEF crash
<1>2. StepFollowsGoal'
  BY <1>1, Facts DEF StepFollowsGoal
<1>3. g.status \in GOAL_TERMINAL => g.wait = "none"
  BY Facts, GoalFields DEF StepFollowsGoal
<1>4. Kept'
  BY <1>1, <1>2, Facts, Typed, DiesStep DEF RetryHasReason
<1>. QED
  BY <1>1, <1>3, <1>4, DiesRules

LEMMA TickCrashesKept ==
    ASSUME Kept, tick_crashes
    PROVE  Kept' /\ StepRules
<1>. DEFINE r == reconcile_expired_step_leases(g)
            w == _wake_due(r)
<1>1. /\ Dies /\ UNCHANGED <<leaseLive, asked>> /\ g.status \in GOAL_ACTIVE
      /\ g' = w /\ taken' = (taken /\ w = g)
  BY DEF tick_crashes, Commit
<1>2. /\ r \in Goal
      /\ r.status = g.status /\ r.attempt = g.attempt /\ r.wait = g.wait
      /\ r.slot = g.slot /\ r.continuing = g.continuing /\ r.token = g.token
      /\ r.cleanup = g.cleanup
  BY Facts, ReconcileFacts
<1>3. /\ w \in Goal
      /\ w.status = g.status /\ w.attempt = g.attempt /\ w.slot = g.slot
      /\ w.token = g.token /\ w.cleanup = g.cleanup
      /\ w.wait = "none" \/ (w.wait = g.wait /\ w.step = "waiting")
      /\ w.step \in {g.step, "blocked"} \/ (w.step = "succeeded" /\ g.wait # "none")
      /\ w.step = "succeeded" => w.slot.attempt = w.attempt /\ w.slot.status = "finished"
                                 /\ w.slot.report = "completed"
      /\ \A k \in Attempt : k = g.attempt /\ w.continuing => task[k] \in {"none", "finished"}
  BY <1>2, SettleFacts
<1>4. taken \in BOOLEAN /\ asked \in BOOLEAN
  BY Facts, Typed
<1>. HIDE DEF r, w
<1>5. StepFollowsGoal'
  BY <1>1, <1>3, Facts DEF StepFollowsGoal, GOAL_ACTIVE, GOAL_TERMINAL
<1>6. g.status \notin GOAL_TERMINAL
  BY <1>1 DEF GOAL_ACTIVE, GOAL_TERMINAL
<1>7. \A n \in Attempt : n = g.attempt /\ g'.step = "retry_scheduled" =>
        task[n] \in {"none", "finished"} \/ asked
  BY <1>1, <1>3, Facts DEF RetryHasReason
<1>8. Kept'
  BY <1>1, <1>3, <1>4, <1>5, <1>6, <1>7, DiesStep
<1>. QED
  BY <1>1, <1>3, <1>6, <1>8, DiesRules

LEMMA RestartKept ==
    ASSUME Kept, restart
    PROVE  Kept' /\ StepRules
<1>. DEFINE r == reconcile_expired_step_leases(g)
<1>1. /\ ~up /\ up' = TRUE /\ UNCHANGED <<leaseLive, tick, turns, cleanup, asked, count>>
      /\ \/ /\ r.status \in {"queued", "running"} \/ (r.status = "waiting_external" /\ r.wait # "none")
            /\ CommitAndEnqueue(r)
         \/ /\ r.status \notin {"queued", "running"}
            /\ Commit(r) /\ UNCHANGED open
  BY DEF restart
<1>2. /\ r \in Goal
      /\ r.status = g.status /\ r.attempt = g.attempt /\ r.wait = g.wait
      /\ r.slot = g.slot /\ r.continuing = g.continuing /\ r.token = g.token
      /\ r.cleanup = g.cleanup
      /\ r.step = IF g.step = "running" /\ ~leaseLive THEN "blocked" ELSE g.step
      /\ r = g \/ r.step = "blocked"
  BY Facts, ReconcileFacts
<1>3. open \in 0..MaxJobs /\ Wake(open) \in 1..MaxJobs
  BY Facts, Counts
<1>4. taken \in BOOLEAN /\ asked \in BOOLEAN /\ leaseLive \in BOOLEAN /\ tick \in Tick
  BY Facts, Typed
<1>5. g' = r /\ taken' \in BOOLEAN /\ open' \in 0..MaxJobs
  <2>. HIDE DEF r
  <2>0. (taken /\ r = g) \in BOOLEAN
    OBVIOUS
  <2>1. CASE CommitAndEnqueue(r)
    BY <1>3, <2>1 DEF CommitAndEnqueue
  <2>2. CASE Commit(r) /\ UNCHANGED open
    BY <1>3, <2>0, <2>2 DEF Commit
  <2>. QED
    BY <1>1, <2>1, <2>2
<1>. HIDE DEF r
<1>6. g.status \in {"queued", "running"} /\ tick.phase = "idle" => open' > 0
  <2>. SUFFICES ASSUME g.status \in {"queued", "running"}, tick.phase = "idle"
                PROVE  open' > 0
    OBVIOUS
  <2>1. open' = IF taken /\ r = g THEN open ELSE Wake(open)
    BY <1>1, <1>2 DEF CommitAndEnqueue
  <2>2. taken => open > 0
    BY Facts DEF KeyMeansJob
  <2>3. CASE taken /\ r = g
    BY <2>1, <2>2, <2>3
  <2>4. CASE ~(taken /\ r = g)
    BY <1>3, <2>1, <2>4
  <2>. QED
    BY <2>3, <2>4
<1>7. NeverForgotten' /\ KeyMeansJob'
  BY <1>1, <1>2, <1>5, <1>6 DEF NeverForgotten, KeyMeansJob
<1>8. StepFollowsGoal'
  BY <1>2, <1>5, Facts DEF StepFollowsGoal, GOAL_TERMINAL
<1>9. RetryHasReason'
  BY <1>1, <1>2, <1>5, Facts DEF RetryHasReason, turns
<1>10. tick.phase = "idle"
  BY <1>1, Facts DEF TickHoldsAttempt
<1>11. Kept'
  BY <1>1, <1>2, <1>4, <1>5, <1>7, <1>8, <1>9, <1>10, IdleStep DEF GOAL_TERMINAL
<1>12. g.status \in GOAL_TERMINAL => g.step # "running" /\ g.wait = "none"
  BY Facts, GoalFields DEF StepFollowsGoal
<1>. QED
  BY <1>1, <1>2, <1>5, <1>11, <1>12 DEF StepRules, ReplayHasReason, EndIsFinal, turns

LEMMA ResumeCrashesKept ==
    ASSUME Kept, resume_crashes
    PROVE  Kept' /\ StepRules
<1>1. /\ Dies /\ UNCHANGED <<leaseLive, asked>> /\ g.status \in {"paused", "blocked", "waiting_external"}
      /\ g' = Resumed /\ taken' = (taken /\ Resumed = g)
  BY DEF resume_crashes, Commit
<1>2. /\ Resumed \in Goal /\ Resumed.status \in {"queued", "running"}
      /\ Resumed.step = g.step /\ Resumed.attempt = g.attempt /\ Resumed.slot = g.slot
      /\ Resumed.wait = g.wait /\ Resumed.continuing = g.continuing
      /\ Resumed.token = g.token /\ Resumed.cleanup = g.cleanup
  BY Facts DEF Resumed, Goal, GOAL_STATES, GOAL_ACTIVE
<1>3. taken' = FALSE
  BY <1>1, <1>2
<1>4. StepFollowsGoal'
  BY <1>1, <1>2, Facts DEF StepFollowsGoal, GOAL_TERMINAL
<1>5. Kept'
  BY <1>1, <1>2, <1>3, <1>4, Facts, Typed, DiesStep DEF RetryHasReason, GOAL_TERMINAL
<1>. QED
  BY <1>1, <1>2, <1>5, DiesRules DEF GOAL_TERMINAL

LEMMA SubmitKept ==
    ASSUME Kept, submit \/ submit_crashes
    PROVE  Kept' /\ StepRules
<1>. DEFINE n == [g EXCEPT !.status = "queued", !.step = "pending"]
<1>1. up /\ g.status = "draft" /\ g' = n /\ taken' = (taken /\ n = g) /\ UNCHANGED <<leaseLive, asked>>
  BY DEF submit, submit_crashes, Commit
<1>2. /\ n \in Goal /\ n.status = "queued" /\ n.step = "pending" /\ n.attempt = g.attempt
      /\ n.slot = g.slot /\ n.wait = g.wait /\ n.continuing = g.continuing
      /\ n.token = g.token /\ n.cleanup = g.cleanup
  BY Facts DEF Goal, GOAL_STATES, GOAL_ACTIVE, STEP_STATES
<1>. HIDE DEF n
<1>3. taken' = FALSE
  BY <1>1, <1>2
<1>4. g.step = "none" /\ g.attempt = 0 /\ g.wait = "none"
  BY <1>1, Facts, GoalFields DEF StepFollowsGoal
<1>5. StepFollowsGoal'
  BY <1>1, <1>2, <1>4 DEF StepFollowsGoal, GOAL_TERMINAL
<1>6. CASE submit
  <2>1. open' \in 1..MaxJobs /\ UNCHANGED <<up, tick, turns, cleanup>>
    BY <1>6, Facts, Counts DEF submit
  <2>2. NeverForgotten' /\ KeyMeansJob'
    BY <2>1 DEF NeverForgotten, KeyMeansJob
  <2>3. RetryHasReason'
    BY <1>1, <1>2, <1>4 DEF RetryHasReason, Attempt
  <2>4. tick.phase = "idle"
    BY <1>4, Facts DEF TickHoldsAttempt, Attempt
  <2>5. Kept'
    BY <1>1, <1>2, <1>3, <1>5, <2>1, <2>2, <2>3, <2>4, Facts, Typed, IdleStep DEF GOAL_TERMINAL
  <2>. QED
    BY <1>1, <1>2, <2>5 DEF StepRules, ReplayHasReason, EndIsFinal, GOAL_TERMINAL
<1>7. CASE submit_crashes
  <2>1. Dies
    BY <1>7 DEF submit_crashes
  <2>2. \A k \in Attempt : k # g.attempt
    BY <1>4 DEF Attempt
  <2>3. Kept'
    BY <1>1, <1>2, <1>3, <1>5, <2>1, <2>2, Facts, Typed, DiesStep DEF GOAL_TERMINAL
  <2>. QED
    BY <1>1, <1>2, <2>1, <2>3, DiesRules DEF GOAL_TERMINAL
<1>. QED
  BY <1>6, <1>7

-----------------------------------------------------------------------------
(* The turn and the chat. *)

LEMMA Free ==
    ASSUME Kept, LoopFree
    PROVE  /\ up /\ tick.phase # "dispatched"
           /\ tick.phase = "idle" /\ g.status \in {"queued", "running"} => open > 0
BY Facts DEF LoopFree, NeverForgotten

\* What a turn that holds the chat may be.
Held(t) == t \in Live \/ (t \in {"done_error", "failed"} /\ g.status \in GOAL_TERMINAL)

\* A step of the chat: it moves turns, the owner of the chat and what the slot says of its
\* turn, and no turn starts.
LEMMA ChatStep ==
    ASSUME Kept, LoopFree, UNCHANGED <<leaseLive, up, tick, cleanup, asked>>,
           g' \in Goal, g'.status = g.status, g'.step = g.step, g'.attempt = g.attempt,
           g'.wait = g.wait, g'.continuing = g.continuing, g'.token = g.token,
           g'.cleanup = g.cleanup, g'.slot.attempt = g.slot.attempt,
           g.slot.status = "finished" /\ g.slot.attempt = g.attempt =>
                g'.slot.status = "finished" /\ g'.slot.report = g.slot.report,
           open' \in 0..MaxJobs, open > 0 => open' > 0, taken' \in BOOLEAN,
           owner' \in {"nobody", "user", "goal"}, owner' = "goal" => owner = "goal",
           task' \in [Attempt -> TURN_STATES],
           \A n \in Attempt : task[n] \in {"none", "finished"} => task'[n] = task[n],
           \A n \in Attempt : task'[n] \in Live => task[n] \in Live /\ owner' = "goal",
           owner' = "goal" => Held(task'[g.slot.attempt]),
           \A n \in Attempt : g.slot.attempt = n /\ g'.slot.status = "finished" /\ g.attempt = n
                => task'[n] = "finished",
           g'.slot.status # "none" => g.slot.attempt # 0
    PROVE  Kept' /\ StepRules
<1>1. GoalTurnsTypeOK'
  BY Facts DEF GoalTurnsTypeOK, Goal, Slot, cleanup
<1>2. NeverForgotten' /\ KeyMeansJob'
  BY Free DEF NeverForgotten, KeyMeansJob
<1>3. StepFollowsGoal'
  BY Facts DEF StepFollowsGoal
<1>4. TickHoldsAttempt'
  BY Free, Facts DEF TickHoldsAttempt
<1>5. SlotHoldsChat'
  BY Free, Facts DEF SlotHoldsChat, Held
<1>6. RetryHasReason'
  BY Facts DEF RetryHasReason
<1>7. CleanupMeansStopped' /\ CleanupFollowsStop'
  BY Facts DEF CleanupMeansStopped, CleanupFollowsStop, cleanup
<1>8. g.status \in GOAL_TERMINAL => g.wait = "none"
  BY Facts, GoalFields DEF StepFollowsGoal
<1>. QED
  BY <1>1, <1>2, <1>3, <1>4, <1>5, <1>6, <1>7, <1>8
     DEF Kept, StepRules, ReplayHasReason, EndIsFinal

\* The idle event leaves the goal alone and at most wakes it.
LEMMA NotifyFacts ==
    ASSUME Kept, notify_idle
    PROVE  /\ owner' = "nobody" /\ g' = g /\ taken' \in BOOLEAN
           /\ open' \in 0..MaxJobs /\ (open > 0 => open' > 0)
<1>1. open \in 0..MaxJobs /\ Wake(open) \in 1..MaxJobs /\ taken \in BOOLEAN /\ MaxJobs \in Nat
  BY Facts, Typed, Counts, GoalTurnsAssumption
<1>2. CASE CommitAndEnqueue(g)
  <2>1. open' = open \/ open' = Wake(open)
    BY <1>2 DEF CommitAndEnqueue
  <2>. QED
    BY <1>1, <1>2, <2>1 DEF CommitAndEnqueue, notify_idle
<1>3. CASE UNCHANGED <<g, open, taken>>
  BY <1>1, <1>3 DEF notify_idle
<1>. QED
  BY <1>2, <1>3 DEF notify_idle

LEMMA ReportKept ==
    ASSUME Kept, NEW s \in {"completed", "blocked", "continuing"}, NEW w \in BOOLEAN, report(s, w)
    PROVE  Kept' /\ StepRules
<1>1. /\ LoopFree /\ owner = "goal" /\ g.slot.status = "running"
      /\ g' = [g EXCEPT !.slot.report = s, !.slot.awaits = w]
      /\ UNCHANGED <<leaseLive, open, up, tick, turns, cleanup, asked>>
  BY DEF report, Commit
<1>2. taken' \in BOOLEAN
  BY Facts, Typed DEF report, Commit
<1>3. /\ g' \in Goal /\ g'.status = g.status /\ g'.step = g.step /\ g'.attempt = g.attempt
      /\ g'.wait = g.wait /\ g'.continuing = g.continuing /\ g'.token = g.token
      /\ g'.cleanup = g.cleanup /\ g'.slot = [g.slot EXCEPT !.report = s, !.awaits = w]
  BY <1>1, Facts DEF Goal, Slot
<1>4. g'.slot.attempt = g.slot.attempt /\ g'.slot.status = "running"
  <2>1. g.slot \in Slot
    BY Facts
  <2>2. g.slot.status = "running" /\ g'.slot = [g.slot EXCEPT !.report = s, !.awaits = w]
    BY <1>1, <1>3
  <2>. QED
    BY ONLY <2>1, <2>2 DEF Slot
<1>5. /\ owner' = owner /\ task' = task
      /\ Held(task[g.slot.attempt]) /\ g.slot.attempt # 0
      /\ \A n \in Attempt : task[n] \in Live => owner = "goal"
  BY <1>1, Free, Facts DEF turns, SlotHoldsChat, Held
<1>. QED
  BY <1>1, <1>2, <1>3, <1>4, <1>5, Facts, Typed, ChatStep

LEMMA PeerResultKept ==
    ASSUME Kept, notify_peer_result
    PROVE  Kept' /\ StepRules
<1>1. /\ LoopFree /\ g' = [g EXCEPT !.slot.awaits = FALSE] /\ open' = Wake(open)
      /\ UNCHANGED <<taken, leaseLive, up, tick, turns, cleanup, asked>>
  BY DEF notify_peer_result
<1>2. taken' \in BOOLEAN /\ open' \in 1..MaxJobs /\ MaxJobs \in Nat
  BY <1>1, Facts, Typed, Counts, GoalTurnsAssumption
<1>3. /\ g' \in Goal /\ g'.status = g.status /\ g'.step = g.step /\ g'.attempt = g.attempt
      /\ g'.wait = g.wait /\ g'.continuing = g.continuing /\ g'.token = g.token
      /\ g'.cleanup = g.cleanup /\ g'.slot = [g.slot EXCEPT !.awaits = FALSE]
  BY <1>1, Facts DEF Goal, Slot
<1>4. g'.slot.attempt = g.slot.attempt /\ g'.slot.status = g.slot.status
      /\ g'.slot.report = g.slot.report
  BY <1>3, Facts DEF Slot
<1>5. /\ owner' = owner /\ task' = task
      /\ owner = "goal" => Held(task[g.slot.attempt])
      /\ g.slot.status # "none" => g.slot.attempt # 0
      /\ \A n \in Attempt : task[n] \in Live => owner = "goal"
      /\ \A n \in Attempt : g.slot.attempt = n /\ g.slot.status = "finished" /\ g.attempt = n
           => task[n] = "finished"
  BY <1>1, Free, Facts DEF turns, SlotHoldsChat, Held
<1>6. /\ open' \in 0..MaxJobs /\ (open > 0 => open' > 0)
      /\ owner' \in {"nobody", "user", "goal"} /\ task' \in [Attempt -> TURN_STATES]
      /\ \A n \in Attempt : task'[n] \in Live => task[n] \in Live /\ owner' = "goal"
      /\ owner' = "goal" => owner = "goal" /\ Held(task'[g.slot.attempt])
      /\ \A n \in Attempt : g.slot.attempt = n /\ g'.slot.status = "finished" /\ g.attempt = n
           => task'[n] = "finished"
  BY <1>2, <1>4, <1>5, Facts, Typed
<1>. QED
  BY <1>1, <1>2, <1>3, <1>4, <1>5, <1>6, ChatStep

LEMMA UserRunKept ==
    ASSUME Kept, user_run_starts \/ user_run_ends
    PROVE  Kept' /\ StepRules
<1>1. /\ LoopFree /\ owner # "goal" /\ owner' \in {"user", "nobody"} /\ g' = g
      /\ taken' \in BOOLEAN /\ open' \in 0..MaxJobs /\ (open > 0 => open' > 0)
      /\ UNCHANGED <<leaseLive, up, tick, task, cleanup, asked>>
  <2>1. CASE user_run_starts
    BY <2>1, Facts, Typed DEF user_run_starts, supervision
  <2>2. CASE user_run_ends
    BY <2>2, NotifyFacts DEF user_run_ends
  <2>. QED
    BY <2>1, <2>2
<1>2. /\ \A n \in Attempt : task[n] \notin Live
      /\ g.slot.status # "none" => g.slot.attempt # 0
      /\ \A n \in Attempt : g.slot.attempt = n /\ g.slot.status = "finished" /\ g.attempt = n
           => task[n] = "finished"
  BY <1>1, Facts DEF SlotHoldsChat
<1>. QED
  BY <1>1, <1>2, Facts, Typed, ChatStep

\* A turn moves on: it begins, is released, ended or unwound.
LEMMA TurnKept ==
    ASSUME Kept, NEW n \in Attempt,
           turn_begins(n) \/ turn_releases(n) \/ turn_ends(n) \/ turn_cancelled(n)
    PROVE  Kept' /\ StepRules
<1>1. PICK s \in {"running", "released", "done_ok", "done_error"} :
        /\ LoopFree /\ task[n] \in Unfinished /\ task' = [task EXCEPT ![n] = s]
        /\ g' = g /\ taken' \in BOOLEAN /\ open' \in 0..MaxJobs /\ (open > 0 => open' > 0)
        /\ UNCHANGED <<leaseLive, up, tick, cleanup, asked>>
        /\ owner' = IF task[n] = "running" THEN "nobody" ELSE owner
        /\ s = "running" => task[n] = "launched"
        /\ task[n] = "launched" => s = "running" \/ (s = "done_error" /\ cleaning.awaits = n)
  <2>1. CASE turn_releases(n)
    BY <2>1, NotifyFacts DEF turn_releases, Unfinished, Live
  <2>2. CASE turn_ends(n)
    BY <2>2, Facts, Typed DEF turn_ends, Unfinished, supervision
  <2>3. CASE turn_cancelled(n)
    <3>1. CASE task[n] = "running"
      BY <2>3, <3>1, NotifyFacts DEF turn_cancelled
    <3>2. CASE task[n] # "running"
      BY <2>3, <3>2, Facts, Typed DEF turn_cancelled
    <3>. QED
      BY <3>1, <3>2
  <2>4. CASE turn_begins(n)
    BY <2>4, Facts, Typed DEF turn_begins, Unfinished, Live, supervision
  <2>. QED
    BY <2>1, <2>2, <2>3, <2>4
<1>2. /\ task' \in [Attempt -> TURN_STATES] /\ task'[n] = s
      /\ \A k \in Attempt \ {n} : task'[k] = task[k]
  BY <1>1, Facts DEF TURN_STATES
<1>3. /\ owner = "goal" => Held(task[g.slot.attempt]) /\ g.slot.attempt \in Attempt
      /\ g.slot.status # "none" => g.slot.attempt # 0
      /\ \A k \in Attempt : /\ task[k] \in Live => owner = "goal" /\ k = g.slot.attempt
                            /\ g.slot.attempt = k /\ g.slot.status = "finished" /\ g.attempt = k
                                  => task[k] = "finished"
  BY <1>1, Free, Facts, SlotFields DEF SlotHoldsChat, Attempt, Held
<1>4. owner' = "goal" => owner = "goal"
  BY <1>1
<1>5. \A k \in Attempt : task'[k] \in Live => task[k] \in Live /\ owner' = "goal"
  <2>1. task[n] = "running" => \A k \in Attempt \ {n} : task[k] \notin Live
    BY <1>3 DEF Live
  <2>2. s \in Live => task[n] = "launched" /\ owner' = owner
    BY <1>1 DEF Live
  <2>. QED
    BY <1>1, <1>2, <1>3, <2>1, <2>2 DEF Live
<1>6. owner' = "goal" => Held(task'[g.slot.attempt])
  <2>. SUFFICES ASSUME owner' = "goal" PROVE Held(task'[g.slot.attempt])
    OBVIOUS
  <2>1. CASE g.slot.attempt # n
    BY <1>2, <1>3, <1>4, <2>1 DEF Held
  <2>2. CASE g.slot.attempt = n
    <3>1. task[n] = "launched"
      BY <1>1, <1>3, <1>4, <2>2 DEF Held, Unfinished, Live
    <3>2. CASE s = "running"
      BY <1>2, <2>2, <3>2 DEF Held, Live
    <3>3. CASE s = "done_error"
      <4>1. cleaning # NoCleanup
        BY <1>1, <3>1, <3>3 DEF NoCleanup, Attempt
      <4>2. g.status \in GOAL_TERMINAL
        BY <4>1, Facts DEF CleanupFollowsStop
      <4>. QED
        BY <1>2, <2>2, <3>3, <4>2 DEF Held
    <3>. QED
      BY <1>1, <3>1, <3>2, <3>3
  <2>. QED
    BY <2>1, <2>2
<1>7. \A k \in Attempt : task[k] \in {"none", "finished"} => task'[k] = task[k]
  BY <1>1, <1>2 DEF Unfinished, Live
<1>8. \A k \in Attempt : g.slot.attempt = k /\ g.slot.status = "finished" /\ g.attempt = k
        => task'[k] = "finished"
  BY <1>3, <1>7
<1>9. owner' \in {"nobody", "user", "goal"}
  BY <1>1, Typed, Facts
<1>. QED
  BY <1>1, <1>2, <1>3, <1>4, <1>5, <1>6, <1>7, <1>8, <1>9, Facts, Typed, ChatStep

LEMMA FinishedKept ==
    ASSUME Kept, NEW n \in Attempt, _finished(n)
    PROVE  Kept' /\ StepRules
<1>. DEFINE end == IF task[n] = "done_ok" THEN "finished" ELSE "failed"
<1>1. /\ LoopFree /\ task[n] \in {"done_ok", "done_error"} /\ task' = [task EXCEPT ![n] = end]
      /\ \/ UNCHANGED <<g, open, taken>> /\ (g.slot.attempt # n \/ g.status \in GOAL_TERMINAL)
         \/ /\ g' = [g EXCEPT !.slot.status = end] /\ taken' = (taken /\ [g EXCEPT !.slot.status = end] = g)
            /\ open' = Wake(open) /\ g.slot.attempt = n
      /\ UNCHANGED <<leaseLive, up, tick, owner, cleanup, asked>>
  BY DEF _finished, Commit
<1>2. end \in {"finished", "failed"} /\ (task[n] = "done_error" => end = "failed")
  OBVIOUS
<1>. HIDE DEF end
<1>3. /\ task' \in [Attempt -> TURN_STATES] /\ task'[n] = end
      /\ \A k \in Attempt \ {n} : task'[k] = task[k]
  BY <1>1, <1>2, Facts DEF TURN_STATES
<1>4. /\ owner = "goal" => Held(task[g.slot.attempt]) /\ g.slot.attempt \in Attempt
      /\ g.slot.status # "none" => g.slot.attempt # 0
      /\ \A k \in Attempt : /\ task[k] \in Live => owner = "goal" /\ k = g.slot.attempt
                            /\ g.slot.attempt = k /\ g.slot.status = "finished" /\ g.attempt = k
                                  => task[k] = "finished"
  BY <1>1, Free, Facts, SlotFields DEF SlotHoldsChat, Attempt, Held
<1>5. \A k \in Attempt : task'[k] \in Live => task[k] \in Live /\ owner' = "goal"
  BY <1>1, <1>2, <1>3, <1>4 DEF Live
<1>6. owner' = "goal" => Held(task'[g.slot.attempt])
  <2>1. CASE g.slot.attempt # n
    BY <1>1, <1>3, <1>4, <2>1 DEF Held
  <2>2. CASE g.slot.attempt = n
    BY <1>1, <1>2, <1>3, <1>4, <2>2, Facts DEF Held, Live
  <2>. QED
    BY <2>1, <2>2
<1>7. \A k \in Attempt : task[k] \in {"none", "finished"} => task'[k] = task[k]
  BY <1>1, <1>3
<1>8. CASE UNCHANGED <<g, open, taken>>
  BY <1>1, <1>3, <1>4, <1>5, <1>6, <1>7, <1>8, Facts, Typed, ChatStep
<1>9. CASE /\ g' = [g EXCEPT !.slot.status = end] /\ taken' = (taken /\ [g EXCEPT !.slot.status = end] = g)
           /\ open' = Wake(open) /\ g.slot.attempt = n
  <2>1. taken' \in BOOLEAN /\ open' \in 1..MaxJobs /\ MaxJobs \in Nat
    BY <1>9, Facts, Typed, Counts, GoalTurnsAssumption
  <2>2. /\ g' \in Goal /\ g'.status = g.status /\ g'.step = g.step /\ g'.attempt = g.attempt
        /\ g'.wait = g.wait /\ g'.continuing = g.continuing /\ g'.token = g.token
        /\ g'.cleanup = g.cleanup /\ g'.slot = [g.slot EXCEPT !.status = end]
    BY <1>2, <1>9, Facts DEF Goal, Slot
  <2>3. g'.slot.attempt = g.slot.attempt /\ g'.slot.status = end
        /\ g'.slot.report = g.slot.report
    BY <2>2, Facts DEF Slot
  <2>4. ~(g.slot.status = "finished" /\ g.slot.attempt = g.attempt)
    BY <1>1, <1>4, <1>9
  <2>5. \A k \in Attempt : g.slot.attempt = k /\ g'.slot.status = "finished" /\ g.attempt = k
          => task'[k] = "finished"
    BY <1>3, <1>9, <2>3
  <2>6. /\ open' \in 0..MaxJobs /\ (open > 0 => open' > 0) /\ g.slot.attempt # 0
        /\ owner' \in {"nobody", "user", "goal"} /\ (owner' = "goal" => owner = "goal")
    BY <1>1, <1>9, <2>1, Typed, Facts DEF Attempt
  <2>. QED
    BY <1>1, <1>3, <1>5, <1>6, <1>7, <2>1, <2>2, <2>3, <2>4, <2>5, <2>6, ChatStep
<1>. QED
  BY <1>1, <1>8, <1>9

-----------------------------------------------------------------------------
(* The user's commands. *)

\* A step of a command: it leaves the turns, the tick and the attempt alone.
LEMMA CommandStep ==
    ASSUME Kept, LoopFree, UNCHANGED <<leaseLive, up, tick, turns>>,
           g' \in Goal, g'.attempt = g.attempt, g'.slot = g.slot, g'.wait \in {g.wait, "none"},
           tick.phase # "idle" => g'.step \in {g.step, "cancelled"},
           StepFollowsGoal', RetryHasReason', CleanupFollowsStop', CleanupMeansStopped',
           open' \in 0..MaxJobs, taken' \in BOOLEAN, asked' \in BOOLEAN,
           g'.status \in {"queued", "running"} /\ tick.phase = "idle" => open' > 0,
           g.status \in GOAL_TERMINAL => g'.status \in GOAL_TERMINAL,
           cleaners' \in SUBSET (1..MaxStops), cleaning' \in Cleaning
    PROVE  Kept'
<1>1. UNCHANGED <<owner, task>> /\ tick.phase # "dispatched"
  BY DEF turns, LoopFree
<1>2. GoalTurnsTypeOK'
  <2>1. GoalTurnsTypeOK
    BY Facts
  <2>. QED
    BY <1>1, <2>1 DEF GoalTurnsTypeOK, Goal, Slot, Tick, Cleaning
<1>3. TickHoldsAttempt'
  <2>1. TickHoldsAttempt
    BY Facts
  <2>. QED
    BY <1>1, <2>1 DEF TickHoldsAttempt
<1>4. SlotHoldsChat'
  <2>1. SlotHoldsChat
    BY Facts
  <2>. QED
    BY <1>1, <2>1 DEF SlotHoldsChat
<1>5. NeverForgotten' /\ KeyMeansJob'
  BY DEF NeverForgotten, KeyMeansJob
<1>. QED
  BY <1>2, <1>3, <1>4, <1>5 DEF Kept

\* The rules of a command that does not start an attempt.
LEMMA CommandRules ==
    ASSUME g'.attempt = g.attempt, UNCHANGED turns,
           g.status \in GOAL_TERMINAL =>
              g'.status \in {g.status, "archived"} /\ g'.step = g.step /\ g'.wait = "none"
    PROVE  StepRules
BY DEF StepRules, ReplayHasReason, EndIsFinal, turns

LEMMA PauseKept ==
    ASSUME Kept, pause
    PROVE  Kept' /\ StepRules
<1>1. /\ LoopFree /\ g.status \in GOAL_ACTIVE \cup {"blocked"}
      /\ g' = [g EXCEPT !.status = "paused"] /\ taken' = (taken /\ [g EXCEPT !.status = "paused"] = g)
      /\ UNCHANGED <<leaseLive, open, up, tick, turns, cleanup, asked>>
  BY DEF pause, Commit
<1>2. /\ g' \in Goal /\ g'.status = "paused" /\ g'.step = g.step /\ g'.attempt = g.attempt
      /\ g'.wait = g.wait /\ g'.slot = g.slot /\ g'.continuing = g.continuing
      /\ g'.token = g.token /\ g'.cleanup = g.cleanup
  BY <1>1, Facts DEF Goal, GOAL_STATES
<1>3. g.status \notin GOAL_TERMINAL \cup {"draft"}
  BY <1>1 DEF GOAL_TERMINAL, GOAL_ACTIVE
<1>4. StepFollowsGoal'
  BY <1>2, <1>3, Facts DEF StepFollowsGoal, GOAL_TERMINAL
<1>5. RetryHasReason'
  BY <1>1, <1>2, Facts DEF RetryHasReason, turns
<1>6. CleanupFollowsStop' /\ CleanupMeansStopped'
  BY <1>1, <1>2, <1>3, Facts DEF CleanupFollowsStop, CleanupMeansStopped, turns, cleanup
<1>7. Kept'
  BY <1>1, <1>2, <1>3, <1>4, <1>5, <1>6, Facts, Typed, CommandStep DEF cleanup
<1>. QED
  BY <1>1, <1>2, <1>3, <1>7, CommandRules

LEMMA ResumeKept ==
    ASSUME Kept, resume
    PROVE  Kept' /\ StepRules
<1>1. /\ LoopFree /\ g.status \in {"paused", "blocked", "waiting_external"}
      /\ g' = Resumed /\ taken' = TRUE
      /\ open' = IF taken /\ Resumed = g THEN open ELSE Wake(open)
      /\ UNCHANGED <<leaseLive, up, tick, turns, cleanup, asked>>
  BY DEF resume, CommitAndEnqueue
<1>2. /\ Resumed \in Goal /\ Resumed.status \in {"queued", "running"}
      /\ Resumed.step = g.step /\ Resumed.attempt = g.attempt /\ Resumed.slot = g.slot
      /\ Resumed.wait = g.wait /\ Resumed.continuing = g.continuing
      /\ Resumed.token = g.token /\ Resumed.cleanup = g.cleanup
  BY <1>1, Facts DEF Resumed, Goal, GOAL_STATES, GOAL_ACTIVE
<1>3. open' \in 1..MaxJobs
  BY <1>1, <1>2, Facts, Counts
<1>4. open' \in 0..MaxJobs /\ open' > 0
  BY <1>3, GoalTurnsAssumption
<1>5. StepFollowsGoal'
  BY <1>1, <1>2, Facts DEF StepFollowsGoal, GOAL_TERMINAL
<1>6. RetryHasReason'
  BY <1>1, <1>2, Facts DEF RetryHasReason, turns
<1>7. CleanupFollowsStop' /\ CleanupMeansStopped'
  BY <1>1, <1>2, Facts DEF CleanupFollowsStop, CleanupMeansStopped, turns, cleanup, GOAL_TERMINAL
<1>8. Kept'
  BY <1>1, <1>2, <1>4, <1>5, <1>6, <1>7, Facts, Typed, CommandStep DEF cleanup, GOAL_TERMINAL
<1>. QED
  BY <1>1, <1>2, <1>8, CommandRules DEF GOAL_TERMINAL

LEMMA ContinueKept ==
    ASSUME Kept, continue_goal
    PROVE  Kept' /\ StepRules
<1>. DEFINE n == [g EXCEPT !.step = "retry_scheduled", !.status = "running"]
<1>1. /\ LoopFree /\ g.status = "blocked" /\ open' = Wake(open)
      /\ g' = n /\ taken' = (taken /\ n = g)
      /\ (g.step \in {"blocked", "failed"} /\ asked' = TRUE) \/ (g.step = "retry_scheduled" /\ asked' = asked)
      /\ UNCHANGED <<leaseLive, up, tick, turns, cleanup>>
  BY DEF continue_goal, Commit
<1>2. /\ g' \in Goal /\ g'.status = "running" /\ g'.step = "retry_scheduled"
      /\ g'.attempt = g.attempt /\ g'.wait = g.wait /\ g'.slot = g.slot
      /\ g'.continuing = g.continuing /\ g'.token = g.token /\ g'.cleanup = g.cleanup
  BY <1>1, Facts DEF Goal, GOAL_STATES, GOAL_ACTIVE, STEP_STATES
<1>. HIDE DEF n
<1>3. open' \in 0..MaxJobs /\ open' > 0
  BY <1>1, Facts, Counts, GoalTurnsAssumption
<1>4. tick.phase = "idle" /\ g.wait = "none"
  BY <1>1, Facts, GoalFields DEF TickHoldsAttempt, StepFollowsGoal
<1>5. StepFollowsGoal'
  BY <1>2, <1>4, Facts DEF StepFollowsGoal, GOAL_TERMINAL
<1>6. RetryHasReason'
  BY <1>1, <1>2, Facts DEF RetryHasReason, turns
<1>7. CleanupFollowsStop' /\ CleanupMeansStopped'
  BY <1>1, <1>2, Facts DEF CleanupFollowsStop, CleanupMeansStopped, turns, cleanup, GOAL_TERMINAL
<1>8. cleaners' \in SUBSET (1..MaxStops) /\ cleaning' \in Cleaning
      /\ taken' \in BOOLEAN /\ asked' \in BOOLEAN
  BY <1>1, Facts, Typed DEF cleanup
<1>9. Kept'
  BY <1>1, <1>2, <1>3, <1>4, <1>5, <1>6, <1>7, <1>8, CommandStep DEF GOAL_TERMINAL
<1>. QED
  BY <1>1, <1>2, <1>9, CommandRules DEF GOAL_TERMINAL

LEMMA ContinueCrashesKept ==
    ASSUME Kept, continue_crashes
    PROVE  Kept' /\ StepRules
<1>1. PICK s \in {"blocked", "running"} : Commit([g EXCEPT !.step = "retry_scheduled", !.status = s])
  BY DEF continue_crashes
<1>. DEFINE n == [g EXCEPT !.step = "retry_scheduled", !.status = s]
<1>2. /\ LoopFree /\ g.status = "blocked" /\ g.step \in {"blocked", "failed"} /\ asked' = TRUE /\ Dies
      /\ g' = n /\ taken' = (taken /\ n = g) /\ UNCHANGED leaseLive
  BY <1>1 DEF continue_crashes, Commit
<1>3. /\ n \in Goal /\ n.status = s /\ n.step = "retry_scheduled"
      /\ n.attempt = g.attempt /\ n.wait = g.wait /\ n.slot = g.slot
      /\ n.continuing = g.continuing /\ n.token = g.token /\ n.cleanup = g.cleanup
  BY <1>1, Facts DEF Goal, GOAL_STATES, GOAL_ACTIVE, STEP_STATES
<1>. HIDE DEF n
<1>4. taken' = FALSE
  BY <1>2, <1>3
<1>5. g.wait = "none"
  BY <1>2, Facts, GoalFields DEF StepFollowsGoal
<1>6. StepFollowsGoal'
  BY <1>2, <1>3, <1>5, Facts DEF StepFollowsGoal, GOAL_TERMINAL
<1>7. Kept'
  BY <1>2, <1>3, <1>4, <1>6, Facts, DiesStep DEF RetryHasReason, GOAL_TERMINAL
<1>. QED
  BY <1>2, <1>3, <1>7, DiesRules DEF GOAL_TERMINAL

LEMMA CancelKept ==
    ASSUME Kept, cancel_goal
    PROVE  Kept' /\ StepRules
<1>. DEFINE s == IF g.status \in GOAL_TERMINAL THEN g.status ELSE "cancelled"
            p == IF g.step \in {"none", "succeeded", "failed", "blocked", "cancelled"} THEN g.step ELSE "cancelled"
            e == IF g.effect = "dispatched" THEN "cancelled" ELSE g.effect
            n == [g EXCEPT !.status = s, !.step = p, !.wait = "none", !.effect = e,
                           !.token = g.token + 1, !.cleanup = "pending"]
<1>1. g \in Goal /\ g.token \in 0..MaxStops /\ MaxStops \in Nat /\ taken \in BOOLEAN
  BY Facts, GoalFields, Typed, GoalTurnsAssumption
<1>2. /\ LoopFree /\ g.token < MaxStops /\ g' = n /\ taken' \in BOOLEAN
      /\ cleaners' = cleaners \cup {g.token + 1}
      /\ UNCHANGED <<supervisionButTaken, turns, cleaning, asked, count>>
  BY <1>1 DEF cancel_goal, Commit, Goal
<1>3. /\ s \in GOAL_STATES /\ p \in STEP_STATES /\ e \in EFFECT_STATES
      /\ s \in GOAL_TERMINAL /\ (g.status \in GOAL_TERMINAL => s = g.status)
      /\ p \in {"none", "succeeded", "failed", "blocked", "cancelled"} /\ p \in {g.step, "cancelled"}
  BY <1>1, GoalFields DEF GOAL_STATES, GOAL_TERMINAL, STEP_STATES, EFFECT_STATES
<1>4. (s = "succeeded" => g.status = "succeeded") /\ (s = "archived" => g.status = "archived")
      /\ (g.step \in {"none", "succeeded", "failed", "blocked", "cancelled"} => p = g.step)
  OBVIOUS
<1>. HIDE DEF s, p, e
<1>5. /\ n \in Goal /\ n.status = s /\ n.step = p /\ n.wait = "none" /\ n.attempt = g.attempt
      /\ n.slot = g.slot /\ n.continuing = g.continuing /\ n.cleanup = "pending"
      /\ n.token = g.token + 1
  <2>1. g.token + 1 \in 0..MaxStops
    BY <1>1, <1>2
  <2>2. g \in Goal /\ s \in GOAL_STATES /\ p \in STEP_STATES /\ e \in EFFECT_STATES
    BY <1>1, <1>3
  <2>. QED
    BY ONLY <2>1, <2>2 DEF Goal
<1>. HIDE DEF n
<1>6. StepFollowsGoal'
  BY <1>2, <1>3, <1>4, <1>5, Facts DEF StepFollowsGoal, GOAL_TERMINAL
<1>7. RetryHasReason'
  BY <1>2, <1>3, <1>5, Facts DEF RetryHasReason, turns
<1>8. CleanupFollowsStop' /\ CleanupMeansStopped'
  BY <1>2, <1>3, <1>4, <1>5, Facts DEF CleanupFollowsStop, CleanupMeansStopped, turns
<1>9. cleaners' \in SUBSET (1..MaxStops) /\ cleaning' \in Cleaning /\ asked' \in BOOLEAN
      /\ open' \in 0..MaxJobs
  BY <1>1, <1>2, Facts, Typed DEF supervisionButTaken
<1>10. s \notin {"queued", "running"}
  BY <1>3 DEF GOAL_TERMINAL
<1>11. Kept'
  BY <1>2, <1>3, <1>5, <1>6, <1>7, <1>8, <1>9, <1>10, CommandStep DEF supervisionButTaken
<1>12. g.status \in GOAL_TERMINAL => s = g.status /\ p = g.step
  BY <1>3, <1>4, Facts DEF StepFollowsGoal
<1>. QED
  BY <1>2, <1>5, <1>11, <1>12, CommandRules

LEMMA CleanupStartsKept ==
    ASSUME Kept, NEW t \in 1..MaxStops, cleanup_starts(t)
    PROVE  Kept' /\ StepRules
<1>1. /\ LoopFree /\ t \in cleaners /\ cleaning = NoCleanup /\ cleaners' = cleaners \ {t}
      /\ cleaning' = IF g.token # t \/ g.cleanup = "complete" THEN NoCleanup
                     ELSE [token |-> t, awaits |-> IF owner = "goal" THEN g.slot.attempt ELSE 0]
      /\ g' = g /\ UNCHANGED <<supervision, turns, asked, count>>
  BY DEF cleanup_starts
<1>2. cleaning' \in Cleaning
  <2>1. g.slot.attempt \in 0..MaxAttempts /\ 0 \in 0..MaxAttempts /\ t \in 0..MaxStops /\ 0 \in 0..MaxStops
    BY Facts, SlotFields, GoalTurnsAssumption
  <2>. QED
    BY <1>1, <2>1 DEF Cleaning, NoCleanup
<1>3. g.status \in GOAL_TERMINAL /\ (g.status = "cancelled" => g.cleanup # "none")
  BY <1>1, Facts DEF CleanupFollowsStop
<1>4. cleaning' # NoCleanup => \A n \in Attempt : task[n] \in Live => cleaning'.awaits = n
  BY <1>1, Facts DEF SlotHoldsChat
<1>5. UNCHANGED <<owner, task, leaseLive, open, taken, up, tick>>
  BY <1>1 DEF turns, supervision
<1>6. CleanupFollowsStop' /\ CleanupMeansStopped'
  BY <1>1, <1>3, <1>4, <1>5, Facts DEF CleanupFollowsStop, CleanupMeansStopped
<1>7. StepFollowsGoal' /\ RetryHasReason'
  BY <1>1, <1>5, Facts DEF StepFollowsGoal, RetryHasReason
<1>8. g.status \notin {"queued", "running"} /\ g.wait = "none"
  BY <1>3, Facts, GoalFields DEF GOAL_TERMINAL, StepFollowsGoal
<1>9. cleaners' \in SUBSET (1..MaxStops)
  BY <1>1, Facts, Typed
<1>10. Kept'
  BY <1>1, <1>2, <1>5, <1>6, <1>7, <1>8, <1>9, Facts, Typed, CommandStep
<1>. QED
  BY <1>1, <1>8, <1>10, CommandRules

LEMMA CleanupEndsKept ==
    ASSUME Kept, cleanup_ends
    PROVE  Kept' /\ StepRules
<1>1. PICK r \in {"complete", "failed"} :
        Commit(IF g.token = cleaning.token THEN [g EXCEPT !.cleanup = r] ELSE g)
  BY DEF cleanup_ends
<1>2. /\ LoopFree /\ cleaning # NoCleanup /\ cleaning' = NoCleanup
      /\ \A n \in Attempt : task[n] \in Unfinished => cleaning.awaits # n
      /\ UNCHANGED <<supervisionButTaken, turns, cleaners, asked, count>>
  BY DEF cleanup_ends
<1>3. UNCHANGED <<owner, task, leaseLive, open, up, tick, cleaners, asked>>
  BY <1>2 DEF turns, supervisionButTaken
<1>4. taken' \in BOOLEAN
  BY <1>1, Facts, Typed DEF Commit
<1>5. /\ g' \in Goal /\ g'.status = g.status /\ g'.step = g.step /\ g'.attempt = g.attempt
      /\ g'.wait = g.wait /\ g'.slot = g.slot /\ g'.continuing = g.continuing
      /\ g'.token = g.token /\ g'.cleanup \in {r, g.cleanup}
  BY <1>1, Facts DEF Commit, Goal
<1>6. g.status \in GOAL_TERMINAL /\ (g.status = "cancelled" => g.cleanup # "none")
  BY <1>2, Facts DEF CleanupFollowsStop
<1>7. \A n \in Attempt : task[n] \notin Live
  BY <1>2, Facts DEF CleanupFollowsStop, Unfinished
<1>8. CleanupFollowsStop' /\ CleanupMeansStopped'
  BY <1>2, <1>3, <1>5, <1>6, <1>7 DEF CleanupFollowsStop, CleanupMeansStopped
<1>9. StepFollowsGoal' /\ RetryHasReason'
  BY <1>3, <1>5, Facts DEF StepFollowsGoal, RetryHasReason
<1>10. g.status \notin {"queued", "running"} /\ g.wait = "none"
  BY <1>6, Facts, GoalFields DEF GOAL_TERMINAL, StepFollowsGoal
<1>11. cleaning' \in Cleaning
  BY <1>2, GoalTurnsAssumption DEF Cleaning, NoCleanup
<1>12. Kept'
  BY <1>2, <1>3, <1>4, <1>5, <1>8, <1>9, <1>10, <1>11, Facts, Typed, CommandStep
<1>. QED
  BY <1>2, <1>5, <1>10, <1>12, CommandRules

LEMMA ArchiveKept ==
    ASSUME Kept, archive
    PROVE  Kept' /\ StepRules
<1>1. /\ LoopFree /\ g.status \in {"succeeded", "cancelled"} /\ g.cleanup \notin {"pending", "failed"}
      /\ g' = [g EXCEPT !.status = "archived"]
      /\ UNCHANGED <<supervisionButTaken, turns, cleanup, asked, count>>
  BY DEF archive, Commit
<1>2. taken' \in BOOLEAN
  BY Facts, Typed DEF archive, Commit
<1>3. /\ g' \in Goal /\ g'.status = "archived" /\ g'.step = g.step /\ g'.attempt = g.attempt
      /\ g'.wait = g.wait /\ g'.slot = g.slot /\ g'.continuing = g.continuing
      /\ g'.token = g.token /\ g'.cleanup = g.cleanup
  BY <1>1, Facts DEF Goal, GOAL_STATES, GOAL_TERMINAL
<1>4. UNCHANGED <<owner, task, leaseLive, open, up, tick, cleaners, cleaning, asked>>
  BY <1>1 DEF turns, supervisionButTaken, cleanup
<1>5. \A n \in Attempt : task[n] \notin Live
  <2>1. CASE g.status = "cancelled"
    BY <1>1, <2>1, Facts, GoalFields DEF CleanupFollowsStop, CleanupMeansStopped
  <2>2. CASE g.status = "succeeded"
    <3>1. g.slot.attempt = g.attempt /\ g.slot.status = "finished"
      BY <2>2, Facts DEF StepFollowsGoal
    <3>. QED
      BY <3>1, Facts DEF SlotHoldsChat, Live
  <2>. QED
    BY <1>1, <2>1, <2>2
<1>6. StepFollowsGoal'
  BY <1>1, <1>3, Facts DEF StepFollowsGoal, GOAL_TERMINAL
<1>7. RetryHasReason'
  BY <1>3, <1>4, Facts DEF RetryHasReason
<1>8. CleanupFollowsStop' /\ CleanupMeansStopped'
  BY <1>3, <1>4, <1>5, Facts DEF CleanupFollowsStop, CleanupMeansStopped, GOAL_TERMINAL
<1>9. g.wait = "none"
  BY <1>1, Facts, GoalFields DEF GOAL_TERMINAL, StepFollowsGoal
<1>10. Kept'
  BY <1>1, <1>2, <1>3, <1>4, <1>6, <1>7, <1>8, Facts, Typed, CommandStep DEF GOAL_TERMINAL, cleanup
<1>. QED
  BY <1>1, <1>3, <1>9, <1>10, CommandRules

-----------------------------------------------------------------------------
(* The step handler. *)

LEMMA LeaseExpiresKept ==
    ASSUME Kept, lease_expires
    PROVE  Kept' /\ StepRules
<1>1. leaseLive' = FALSE /\ UNCHANGED <<g, open, taken, up, tick, turns, cleanup, asked>>
  BY DEF lease_expires
<1>2. UNCHANGED <<owner, task, cleaners, cleaning>>
  BY <1>1 DEF turns, cleanup
<1>3. GoalTurnsTypeOK' /\ NeverForgotten' /\ KeyMeansJob'
  <2>1. GoalTurnsTypeOK /\ NeverForgotten /\ KeyMeansJob
    BY Facts
  <2>2. taken' \in BOOLEAN /\ up' \in BOOLEAN /\ leaseLive' \in BOOLEAN
    BY <1>1, <2>1, Typed
  <2>3. {leaseLive, taken, up}' \subseteq BOOLEAN
    BY <2>2
  <2>4. GoalTurnsTypeOK'
    BY <1>1, <1>2, <2>1, <2>3 DEF GoalTurnsTypeOK
  <2>. QED
    BY <1>1, <2>1, <2>4 DEF NeverForgotten, KeyMeansJob
<1>4. CleanupMeansStopped' /\ CleanupFollowsStop' /\ StepFollowsGoal'
  BY <1>1, <1>2, Facts DEF CleanupMeansStopped, CleanupFollowsStop, StepFollowsGoal
<1>5. TickHoldsAttempt' /\ SlotHoldsChat' /\ RetryHasReason'
  BY <1>1, <1>2, Facts DEF TickHoldsAttempt, SlotHoldsChat, RetryHasReason
<1>6. g.status \in GOAL_TERMINAL => g.wait = "none"
  BY Facts, GoalFields DEF StepFollowsGoal
<1>. QED
  BY <1>1, <1>3, <1>4, <1>5, <1>6, CommandRules DEF Kept

LEMMA AdmitsKept ==
    ASSUME Kept, execute_admits
    PROVE  Kept' /\ StepRules
<1>1. up /\ tick.phase = "leased" /\ UNCHANGED <<leaseLive, open, up, task, cleaners, cleaning, asked>>
  BY DEF execute_admits, cleanup
<1>2. g.attempt \in Attempt /\ task[g.attempt] = "none" /\ g.step \in {"running", "cancelled"}
  BY <1>1, Facts DEF TickHoldsAttempt
<1>3. g.status \in GOAL_TERMINAL => g.wait = "none"
  BY Facts, GoalFields DEF StepFollowsGoal
<1>4. CASE /\ \E r \in Refusals \cup {"idle"} : Returns(r)
           /\ taken' \in BOOLEAN /\ UNCHANGED <<g, owner>>
  <2>1. /\ tick' \in Tick /\ tick'.phase = "returned"
        /\ tick'.result \in Refusals \cup {"idle"} /\ tick'.result # "none"
    BY <1>4 DEF Tick, Returns, Refusals
  <2>2. GoalTurnsTypeOK' /\ NeverForgotten' /\ KeyMeansJob'
    BY <1>1, <1>4, <2>1, Facts DEF GoalTurnsTypeOK, NeverForgotten, KeyMeansJob, Tick
  <2>3. CleanupMeansStopped' /\ CleanupFollowsStop' /\ StepFollowsGoal'
    BY <1>1, <1>4, Facts DEF CleanupMeansStopped, CleanupFollowsStop, StepFollowsGoal
  <2>4. TickHoldsAttempt'
    BY <1>1, <1>2, <1>4, <2>1 DEF TickHoldsAttempt
  <2>5. SlotHoldsChat' /\ RetryHasReason'
    BY <1>1, <1>4, <2>1, Facts DEF SlotHoldsChat, RetryHasReason
  <2>. QED
    BY <1>1, <1>3, <1>4, <2>2, <2>3, <2>4, <2>5, CommandRules DEF Kept, turns
<1>5. CASE /\ ~cancellation_requested /\ ~ChatBusy /\ owner' = "goal"
           /\ g' = [g EXCEPT !.effect = "dispatched"]
           /\ taken' = (taken /\ [g EXCEPT !.effect = "dispatched"] = g)
           /\ tick' = [phase |-> "dispatched", result |-> "none"]
  <2>1. tick' \in Tick /\ tick'.phase = "dispatched" /\ tick'.result = "none"
    BY <1>5 DEF Tick
  <2>2. owner = "nobody" /\ g.step = "running"
    BY <1>2, <1>5 DEF ChatBusy, cancellation_requested
  <2>3. g.status \notin GOAL_TERMINAL
    BY <2>2, Facts DEF StepFollowsGoal
  <2>4. /\ g' \in Goal /\ g'.status = g.status /\ g'.step = g.step /\ g'.attempt = g.attempt
        /\ g'.wait = g.wait /\ g'.slot = g.slot /\ g'.continuing = g.continuing
        /\ g'.token = g.token /\ g'.cleanup = g.cleanup
    BY <1>5, Facts DEF Goal, EFFECT_STATES
  <2>5. taken' \in BOOLEAN
    BY <1>5, Facts, Typed
  <2>6. GoalTurnsTypeOK'
    BY <1>1, <1>5, <2>1, <2>4, <2>5, Facts DEF GoalTurnsTypeOK, Goal, Slot, Tick
  <2>7. NeverForgotten' /\ KeyMeansJob'
    BY <2>1 DEF NeverForgotten, KeyMeansJob
  <2>8. CleanupMeansStopped' /\ CleanupFollowsStop'
    BY <1>1, <2>3, <2>4, Facts DEF CleanupMeansStopped, CleanupFollowsStop, GOAL_TERMINAL
  <2>9. StepFollowsGoal' /\ RetryHasReason'
    BY <1>1, <2>4, Facts DEF StepFollowsGoal, RetryHasReason
  <2>10. TickHoldsAttempt'
    BY <1>1, <1>2, <1>5, <2>1, <2>2, <2>3, <2>4 DEF TickHoldsAttempt
  <2>11. SlotHoldsChat'
    BY <1>1, <1>5, <2>1, <2>2, <2>4, Facts DEF SlotHoldsChat
  <2>. QED
    BY <2>3, <2>4, <2>6, <2>7, <2>8, <2>9, <2>10, <2>11 DEF Kept, StepRules, ReplayHasReason, EndIsFinal
<1>6. taken \in BOOLEAN /\ FALSE \in BOOLEAN
  BY Facts, Typed
<1>. QED
  BY <1>4, <1>5, <1>6 DEF execute_admits, Commit, Refusals

LEMMA LaunchesKept ==
    ASSUME Kept, execute_launches
    PROVE  Kept' /\ StepRules
<1>. DEFINE s == [attempt |-> g.attempt, status |-> "running", report |-> "none", awaits |-> FALSE]
<1>1. /\ up /\ tick.phase = "dispatched" /\ g' = [g EXCEPT !.slot = s, !.continuing = FALSE]
      /\ task' = [task EXCEPT ![g.attempt] = "launched"]
      /\ tick' = [phase |-> "returned", result |-> "turn"]
      /\ UNCHANGED <<leaseLive, open, up, owner, cleaners, cleaning, asked>>
  BY DEF execute_launches, SlotWritten, Returns, Commit, cleanup
<1>2. taken' \in BOOLEAN
  BY Facts, Typed DEF execute_launches, Commit
<1>3. s \in Slot /\ s.attempt = g.attempt /\ s.status = "running"
  BY Facts DEF Slot
<1>. HIDE DEF s
<1>4. /\ g' \in Goal /\ g'.status = g.status /\ g'.step = g.step /\ g'.attempt = g.attempt
      /\ g'.wait = g.wait /\ g'.slot = s /\ g'.continuing = FALSE
      /\ g'.token = g.token /\ g'.cleanup = g.cleanup
  BY <1>1, <1>3, Facts DEF Goal
<1>5. /\ g.attempt \in Attempt /\ owner = "goal" /\ g.step = "running" /\ g.status \notin GOAL_TERMINAL
      /\ \A n \in Attempt : task[n] \notin Live
      /\ g.wait # "idle"
  BY <1>1, Facts DEF TickHoldsAttempt, SlotHoldsChat, StepFollowsGoal
<1>6. /\ task' \in [Attempt -> TURN_STATES] /\ task'[g.attempt] = "launched"
      /\ \A n \in Attempt \ {g.attempt} : task'[n] = task[n]
  BY <1>1, <1>5, Facts DEF TURN_STATES
<1>7. tick' \in Tick /\ tick'.phase = "returned" /\ tick'.result = "turn"
  BY <1>1 DEF Tick
<1>8. GoalTurnsTypeOK'
  BY <1>1, <1>2, <1>4, <1>6, <1>7, Facts DEF GoalTurnsTypeOK, Goal, Slot, Tick
<1>9. NeverForgotten' /\ KeyMeansJob'
  BY <1>7 DEF NeverForgotten, KeyMeansJob
<1>10. CleanupMeansStopped' /\ CleanupFollowsStop'
  BY <1>1, <1>4, <1>5, Facts DEF CleanupMeansStopped, CleanupFollowsStop, GOAL_TERMINAL
<1>11. StepFollowsGoal' /\ RetryHasReason'
  BY <1>4, <1>5, Facts DEF StepFollowsGoal, RetryHasReason
<1>12. TickHoldsAttempt'
  BY <1>1, <1>4, <1>5, <1>7 DEF TickHoldsAttempt, Refusals
<1>13. SlotHoldsChat'
  BY <1>1, <1>3, <1>4, <1>5, <1>6, <1>7, Facts DEF SlotHoldsChat, Attempt, Live
<1>. QED
  BY <1>4, <1>5, <1>8, <1>9, <1>10, <1>11, <1>12, <1>13 DEF Kept, StepRules, ReplayHasReason, EndIsFinal

\* A write or the launch of a dispatched turn raises: the slot may be written or not.
LEMMA FailsKept ==
    ASSUME Kept, execute_fails
    PROVE  Kept' /\ StepRules
<1>. DEFINE s == [attempt |-> g.attempt, status |-> "running", report |-> "none", awaits |-> FALSE]
<1>1. /\ up /\ tick.phase = "dispatched" /\ owner' = "nobody"
      /\ g' \in {g, [g EXCEPT !.slot = s], [g EXCEPT !.slot = s, !.continuing = FALSE]}
      /\ tick' = [phase |-> "returned", result |-> "failed"]
      /\ UNCHANGED <<leaseLive, open, up, task, cleaners, cleaning, asked>>
  BY DEF execute_fails, SlotWritten, Returns, Commit, cleanup
<1>2. taken' \in BOOLEAN
  BY Facts, Typed DEF execute_fails, Commit
<1>3. s \in Slot /\ s.attempt = g.attempt /\ s.status = "running"
  BY Facts DEF Slot
<1>. HIDE DEF s
<1>4. /\ g' \in Goal /\ g'.status = g.status /\ g'.step = g.step /\ g'.attempt = g.attempt
      /\ g'.wait = g.wait /\ g'.slot \in {g.slot, s} /\ g'.continuing \in {g.continuing, FALSE}
      /\ g'.token = g.token /\ g'.cleanup = g.cleanup
  BY <1>1, <1>3, Facts DEF Goal
<1>5. /\ g.attempt \in Attempt /\ task[g.attempt] = "none" /\ g.step = "running"
      /\ g.status \notin GOAL_TERMINAL
      /\ \A n \in Attempt : task[n] \notin Live
  BY <1>1, Facts DEF TickHoldsAttempt, SlotHoldsChat
<1>6. tick' \in Tick /\ tick'.phase = "returned" /\ tick'.result = "failed"
  BY <1>1 DEF Tick, Refusals
<1>7. GoalTurnsTypeOK'
  BY <1>1, <1>2, <1>4, <1>6, Facts DEF GoalTurnsTypeOK, Goal, Slot, Tick
<1>8. NeverForgotten' /\ KeyMeansJob'
  BY <1>6 DEF NeverForgotten, KeyMeansJob
<1>9. CleanupMeansStopped' /\ CleanupFollowsStop'
  BY <1>1, <1>4, <1>5, Facts DEF CleanupMeansStopped, CleanupFollowsStop
<1>10. StepFollowsGoal' /\ RetryHasReason'
  BY <1>1, <1>4, <1>5, Facts DEF StepFollowsGoal, RetryHasReason
<1>11. TickHoldsAttempt'
  BY <1>1, <1>4, <1>5, <1>6 DEF TickHoldsAttempt
<1>12. SlotHoldsChat'
  BY <1>1, <1>3, <1>4, <1>5, <1>6, Facts DEF SlotHoldsChat, Attempt
<1>. QED
  BY <1>1, <1>4, <1>5, <1>7, <1>8, <1>9, <1>10, <1>11, <1>12
     DEF Kept, StepRules, ReplayHasReason, EndIsFinal

\* A result reaches only the step that is still running under its lease.
LEMMA ApplyFacts ==
    ASSUME Kept, tick.phase = "returned"
    PROVE  LET a == _apply_result(g)
           IN  /\ a \in Goal
               /\ a.status = g.status /\ a.attempt = g.attempt /\ a.slot = g.slot
               /\ a.token = g.token /\ a.cleanup = g.cleanup
               /\ a.step \in {"running", "cancelled", "failed", "waiting", "succeeded", "blocked"}
               /\ a = g \/ (g.step = "running" /\ g.status \notin GOAL_TERMINAL)
               /\ a.wait # "none" => a.step = "waiting"
               /\ a.wait = "idle" => g.attempt \in Attempt /\ task[g.attempt] = "none"
               /\ a.step = "succeeded" => a.slot.attempt = a.attempt /\ a.slot.status = "finished"
                                          /\ a.slot.report = "completed"
               /\ \A k \in Attempt : k = g.attempt /\ a.continuing => task[k] \in {"none", "finished"}
<1>. DEFINE a == _apply_result(g)
            d == [g EXCEPT !.step = "waiting", !.wait = tick.result]
<1>1. /\ g \in Goal /\ g.step \in {"running", "cancelled"} /\ g.attempt \in Attempt
      /\ tick.result \in Refusals \cup {"idle", "turn"}
      /\ tick.result = "idle" => task[g.attempt] = "none"
  BY Facts, Typed DEF TickHoldsAttempt
<1>2. g.wait = "none" /\ (g.status \in GOAL_TERMINAL => g.step # "running")
  BY <1>1, Facts, GoalFields DEF StepFollowsGoal
<1>3. \A k \in Attempt : k = g.attempt /\ g.continuing => task[k] \in {"none", "finished"}
  BY Facts DEF RetryHasReason
<1>4. CASE g.step # "running" \/ ~leaseLive
  <2>1. a = g
    BY <1>4 DEF _apply_result
  <2>. QED
    BY <1>1, <1>2, <1>3, <2>1 DEF a
<1>5. CASE g.step = "running" /\ leaseLive /\ tick.result \in Refusals
  <2>1. a = [g EXCEPT !.step = tick.result]
    BY <1>5 DEF _apply_result
  <2>2. /\ a \in Goal /\ a.status = g.status /\ a.step \in {"cancelled", "blocked", "failed"}
        /\ a.attempt = g.attempt
        /\ a.wait = g.wait /\ a.slot = g.slot /\ a.continuing = g.continuing
        /\ a.token = g.token /\ a.cleanup = g.cleanup
    BY <1>1, <1>5, <2>1 DEF Goal, STEP_STATES, Refusals
  <2>. HIDE DEF a
  <2>3. g.status \notin GOAL_TERMINAL
    BY <1>2, <1>5
  <2>. QED
    BY <1>2, <1>3, <1>5, <2>2, <2>3 DEF a
<1>6. CASE g.step = "running" /\ leaseLive /\ tick.result \in {"idle", "turn"}
  <2>1. a = _wake_due(d)
    BY <1>6 DEF _apply_result, Refusals
  <2>2. /\ d \in Goal /\ d.status = g.status /\ d.step = "waiting" /\ d.attempt = g.attempt
        /\ d.wait = tick.result /\ d.slot = g.slot /\ d.continuing = g.continuing
        /\ d.token = g.token /\ d.cleanup = g.cleanup
    BY <1>1, <1>6 DEF Goal, STEP_STATES
  <2>. HIDE DEF a, d
  <2>3. \A n \in Attempt : n = d.attempt /\ d.wait = "idle" => task[n] = "none"
    BY <1>1, <2>2
  <2>4. \A n \in Attempt : d.slot.status = "finished" /\ d.slot.attempt = n /\ d.attempt = n
          => task[n] = "finished"
    BY <2>2, Facts DEF SlotHoldsChat
  <2>5. \A n \in Attempt : n = d.attempt /\ d.continuing => task[n] \in {"none", "finished"}
    BY <1>3, <2>2
  <2>6. /\ a \in Goal
        /\ a.status = d.status /\ a.attempt = d.attempt /\ a.slot = d.slot
        /\ a.token = d.token /\ a.cleanup = d.cleanup
        /\ a = d \/ (d.wait # "none" /\ a.wait = "none" /\ a.step \in {"succeeded", "blocked"})
        /\ a.step = "succeeded" => a = d \/
             (a.slot.attempt = a.attempt /\ a.slot.status = "finished" /\ a.slot.report = "completed")
        /\ \A k \in Attempt : k = a.attempt /\ a.continuing => task[k] \in {"none", "finished"}
    BY <2>1, <2>2, <2>3, <2>4, <2>5, WakeFacts
  <2>7. g.status \notin GOAL_TERMINAL
    BY <1>2, <1>6
  <2>. QED
    BY <1>1, <1>6, <2>2, <2>6, <2>7 DEF a
<1>. QED
  BY <1>1, <1>4, <1>5, <1>6

LEMMA TickEndsKept ==
    ASSUME Kept, tick_ends
    PROVE  Kept' /\ StepRules
<1>. DEFINE a == _apply_result(g)
            e == Conclude(a)
<1>1. /\ up /\ tick.phase = "returned" /\ g' = e /\ taken' = (taken /\ e = g)
      /\ open' = IF Successor(e) THEN Wake(open) ELSE open
      /\ tick' = Idle
      /\ UNCHANGED <<leaseLive, up, owner, task, cleaners, cleaning, asked>>
  BY DEF tick_ends, Commit, turns, cleanup
<1>2. /\ a \in Goal
      /\ a.status = g.status /\ a.attempt = g.attempt /\ a.slot = g.slot
      /\ a.token = g.token /\ a.cleanup = g.cleanup
      /\ a.step \in {"running", "cancelled", "failed", "waiting", "succeeded", "blocked"}
      /\ a = g \/ (g.step = "running" /\ g.status \notin GOAL_TERMINAL)
      /\ a.wait # "none" => a.step = "waiting"
      /\ a.wait = "idle" => g.attempt \in Attempt /\ task[g.attempt] = "none"
      /\ a.step = "succeeded" => a.slot.attempt = a.attempt /\ a.slot.status = "finished"
                                 /\ a.slot.report = "completed"
      /\ \A k \in Attempt : k = g.attempt /\ a.continuing => task[k] \in {"none", "finished"}
  BY <1>1, ApplyFacts
<1>. HIDE DEF a
<1>3. /\ e \in Goal
      /\ e.attempt = a.attempt /\ e.wait = a.wait /\ e.slot = a.slot
      /\ e.continuing = a.continuing /\ e.token = a.token /\ e.cleanup = a.cleanup
      /\ a.status \in GOAL_TERMINAL \cup {"paused"} => e = a
      /\ a.status \notin GOAL_TERMINAL \cup {"paused"} =>
           /\ e.status \in {"succeeded", "waiting_external", "blocked", "running"}
           /\ e.status = "succeeded" => e.step = "succeeded"
      /\ e.step = a.step \/ (a.step = "blocked" /\ a.continuing /\ e.step = "retry_scheduled")
      /\ e.status \in {"queued", "running"} /\ e.step # "ready" => Successor(e)
  BY <1>2, ConcludeFacts
<1>. HIDE DEF e
<1>4. tick' \in Tick /\ tick'.phase = "idle" /\ tick'.result = "none"
  BY <1>1 DEF Idle, Tick
<1>5. open \in 0..MaxJobs /\ Wake(open) \in 1..MaxJobs /\ MaxJobs \in Nat
  BY Facts, Counts, GoalTurnsAssumption
<1>6. open' \in 0..MaxJobs /\ (Successor(e) => open' > 0)
  BY <1>1, <1>5
<1>7. taken' \in BOOLEAN
  BY <1>1, Facts, Typed
<1>8. GoalTurnsTypeOK'
  BY <1>1, <1>3, <1>4, <1>6, <1>7, Facts DEF GoalTurnsTypeOK, Goal, Slot, Tick
<1>9. NeverForgotten' /\ KeyMeansJob'
  BY <1>1, <1>2, <1>3, <1>6 DEF NeverForgotten, KeyMeansJob
<1>10. g.status # "draft"
  BY <1>1, Facts DEF TickHoldsAttempt, StepFollowsGoal
<1>11. StepFollowsGoal'
  <2>1. CASE g.status \in GOAL_TERMINAL
    BY <1>1, <1>2, <1>3, <2>1, Facts DEF StepFollowsGoal
  <2>2. CASE g.status \notin GOAL_TERMINAL
    BY <1>1, <1>2, <1>3, <1>10, <2>2 DEF StepFollowsGoal, GOAL_TERMINAL
  <2>. QED
    BY <2>1, <2>2
<1>12. TickHoldsAttempt'
  BY <1>1, <1>2, <1>3, <1>4 DEF TickHoldsAttempt, Refusals
<1>13. SlotHoldsChat'
  BY <1>1, <1>2, <1>3, <1>4, Facts DEF SlotHoldsChat
<1>14. RetryHasReason'
  BY <1>1, <1>2, <1>3 DEF RetryHasReason
<1>15. g.status \in GOAL_TERMINAL => e = g
  BY <1>2, <1>3
<1>16. g.status \notin GOAL_TERMINAL => e.status \notin {"archived", "cancelled"}
  BY <1>2, <1>3, Facts, GoalFields DEF GOAL_TERMINAL
<1>17. CleanupMeansStopped' /\ CleanupFollowsStop'
  BY <1>1, <1>2, <1>3, <1>15, <1>16, Facts DEF CleanupMeansStopped, CleanupFollowsStop
<1>18. g.status \in GOAL_TERMINAL => g.wait = "none"
  BY Facts, GoalFields DEF StepFollowsGoal
<1>. QED
  BY <1>1, <1>2, <1>3, <1>8, <1>9, <1>11, <1>12, <1>13, <1>14, <1>15, <1>17, <1>18
     DEF Kept, StepRules, ReplayHasReason, EndIsFinal

-----------------------------------------------------------------------------
(* The theorems. *)

LEMMA StutterKept ==
    ASSUME Kept, UNCHANGED vars
    PROVE  Kept' /\ StepRules
<1>1. UNCHANGED <<g, leaseLive, open, taken, up, tick, owner, task, cleaners, cleaning, asked>>
  BY DEF vars, supervision, turns, cleanup
<1>2. GoalTurnsTypeOK'
  <2>1. GoalTurnsTypeOK
    BY Facts
  <2>. QED
    BY <1>1, <2>1 DEF GoalTurnsTypeOK
<1>3. CleanupMeansStopped' /\ CleanupFollowsStop' /\ StepFollowsGoal'
  BY <1>1, Facts DEF CleanupMeansStopped, CleanupFollowsStop, StepFollowsGoal
<1>4. TickHoldsAttempt' /\ SlotHoldsChat' /\ RetryHasReason'
  BY <1>1, Facts DEF TickHoldsAttempt, SlotHoldsChat, RetryHasReason
<1>5. NeverForgotten' /\ KeyMeansJob'
  BY <1>1, Facts DEF NeverForgotten, KeyMeansJob
<1>6. g.status \in GOAL_TERMINAL => g.wait = "none"
  BY Facts, GoalFields DEF StepFollowsGoal
<1>. QED
  BY <1>1, <1>2, <1>3, <1>4, <1>5, <1>6, CommandRules DEF Kept, turns

LEMMA NextKept ==
    ASSUME Kept, [Next]_vars
    PROVE  Kept' /\ StepRules
<1>1. CASE submit \/ submit_crashes \/ resume_crashes \/ continue_crashes \/ crash \/ restart
  BY <1>1, SubmitKept, ResumeCrashesKept, ContinueCrashesKept, CrashKept, RestartKept
<1>2. CASE tick_begins \/ tick_pauses \/ execute_admits \/ execute_launches \/ execute_fails
           \/ tick_ends \/ lease_expires \/ tick_crashes
  BY <1>2, TickBeginsKept, TickPausesKept, AdmitsKept, LaunchesKept, FailsKept, TickEndsKept,
     LeaseExpiresKept, TickCrashesKept
<1>3. CASE \E s \in {"completed", "blocked", "continuing"}, w \in BOOLEAN : report(s, w)
  BY <1>3, ReportKept
<1>4. CASE notify_peer_result \/ user_run_starts \/ user_run_ends
  BY <1>4, PeerResultKept, UserRunKept
<1>5. CASE \E n \in Attempt :
             turn_begins(n) \/ turn_releases(n) \/ turn_ends(n) \/ turn_cancelled(n) \/ _finished(n)
  BY <1>5, TurnKept, FinishedKept
<1>6. CASE pause \/ resume \/ continue_goal \/ cancel_goal \/ cleanup_ends \/ archive
  BY <1>6, PauseKept, ResumeKept, ContinueKept, CancelKept, CleanupEndsKept, ArchiveKept
<1>7. CASE \E t \in 1..MaxStops : cleanup_starts(t)
  BY <1>7, CleanupStartsKept
<1>8. CASE UNCHANGED vars
  BY <1>8, StutterKept
<1>. QED
  BY <1>1, <1>2, <1>3, <1>4, <1>5, <1>6, <1>7, <1>8 DEF Next

\* A goal that succeeded did so on its last attempt: the step says which slot, the slot
\* which turn.
LEMMA SuccessFromKept ==
    ASSUME Kept
    PROVE  GoalTurnsInv
<1>1. SuccessIsClaimed
  <2>. SUFFICES ASSUME g.status = "succeeded"
                PROVE  /\ g.slot.attempt = g.attempt /\ g.slot.report = "completed"
                       /\ task[g.attempt] = "finished"
    BY DEF SuccessIsClaimed
  <2>1. g.slot.attempt = g.attempt /\ g.slot.status = "finished" /\ g.slot.report = "completed"
    BY Facts DEF StepFollowsGoal
  <2>2. g.attempt \in Attempt
    BY <2>1, Facts DEF SlotHoldsChat, Attempt
  <2>. QED
    BY <2>1, <2>2, Facts DEF SlotHoldsChat
<1>. QED
  BY <1>1 DEF Kept, GoalTurnsInv

LEMMA KeptAlways == Spec => []Kept
<1>1. Kept /\ [Next]_vars => Kept'
  BY NextKept
<1>. QED
  BY InitKept, <1>1, PTL DEF Spec

\* Whatever the order of ticks, turns, commands and crashes: a goal with work has a
\* supervisor job, it succeeds only on the claim of its last turn, and a completed cleanup
\* or a removed goal leaves no turn running or about to begin (GoalSupervisor.tick, _work_handler,
\* ParentSessionGoals.resolve, _cancel_owned_resources).
THEOREM GoalTurnsInvariant == Spec => []GoalTurnsInv
<1>1. Kept => GoalTurnsInv
  BY SuccessFromKept
<1>. QED
  BY <1>1, KeptAlways, PTL

\* No crash, expired lease or retry replays a launched turn unless it finished or the user
\* asked (reconcile_expired_step_leases, ParentSessionGoals.resolve).
THEOREM ReplayNeedsReason == Spec => NoSilentReplay
<1>1. Kept /\ [Next]_vars
        => [\A n \in Attempt : n = g.attempt /\ g'.attempt # n =>
               task[n] \in {"none", "finished"} \/ asked]_vars
  BY NextKept DEF StepRules, ReplayHasReason
<1>. QED
  BY <1>1, KeptAlways, PTL DEF Spec, NoSilentReplay

\* No late result, callback, command or restart revives an ended goal (transition_goal,
\* cancel_goal, _apply_result).
THEOREM EndedGoalsFinal == Spec => EndedStaysEnded
<1>1. Kept /\ [Next]_vars
        => [g.status \in GOAL_TERMINAL =>
               /\ g'.status \in {g.status, "archived"}
               /\ g'.step = g.step /\ g'.attempt = g.attempt /\ g'.wait = "none"
               /\ \A n \in Attempt : task'[n] \in Live => task[n] \in Live]_vars
  BY NextKept DEF StepRules, EndIsFinal
<1>. QED
  BY <1>1, KeptAlways, PTL DEF Spec, EndedStaysEnded
=============================================================================
