---------------------------- MODULE ExperimentRun ----------------------------
(***************************************************************************)
(* A paid experiment run (scripts/research: runner/run.ts, decide.ts,      *)
(* records/log.ts) against a video provider.  The runner walks the frozen  *)
(* shots, decides from the append-only log what each still needs, buys one *)
(* task at a time and appends what became of it.  It may be interrupted at *)
(* any await, and is then started again over the same log, while the task  *)
(* it had bought runs on.  What the provider makes of a task is unknown    *)
(* until a poll says so, and matters to nobody else.                       *)
(***************************************************************************)
EXTENDS Integers, Sequences, SequencesExt, FiniteSets, FiniteSetsExt, TLC

CONSTANTS
  Shots,         \* the frozen test set, in order
  Environments,  \* what the variables of the harness may be set to
  Observed,      \* [provider, request -> the failures that may be seen]
  Renders,       \* what a finished render may turn out to be
  MaxStarts,     \* bound: processes started over the log
  MaxInterrupts, \* bound: processes interrupted
  None

-----------------------------------------------------------------------------
(* failures.ts: from what was seen to what is to be done.                  *)

Observation ==
  [transport : {"responded", "network_error", "deadline_exceeded"},
   status : 100..599 \cup {None}, hint : {"moderation_rejected", "unknown", None}]

ClassOfStatus(status) ==
  CASE status \in {401, 403} -> "authentication"
    [] status = 402 -> "quota_exhausted"
    [] status \in {400, 404, 413, 415, 422} -> "invalid_input"
    [] status = 408 -> "timeout"
    [] status = 429 -> "rate_limited"
    [] status \in 500..599 -> "provider_unavailable"
    [] OTHER -> "unknown"

\* Mutant: a status with a rule is believed before the adapter.
ClassOf_StatusFirst(seen) ==
  CASE seen.transport = "network_error" -> "network"
    [] seen.transport = "deadline_exceeded" -> "timeout"
    [] ClassOfStatus(seen.status) # "unknown" -> ClassOfStatus(seen.status)
    [] OTHER -> IF seen.hint = None THEN "unknown" ELSE seen.hint

\* classOf: what the adapter recognised goes before what the status says.
ClassOf(seen) ==
  CASE seen.hint # None -> seen.hint
    [] seen.hint = None /\ seen.transport = "network_error" -> "network"
    [] seen.hint = None /\ seen.transport = "deadline_exceeded" -> "timeout"
    [] OTHER -> ClassOfStatus(seen.status)

\* retryDispositionOf, for every failure class.
Disposition ==
  [class \in {"network", "rate_limited", "provider_unavailable", "timeout", "authentication",
              "quota_exhausted", "invalid_input", "moderation_rejected", "unknown"} |->
     CASE class \in {"network", "rate_limited", "provider_unavailable"} -> "retry_with_backoff"
       [] class = "timeout" -> "reconcile_first"
       [] OTHER -> "do_not_retry"]

NoResult == [transport |-> "responded", status |-> None, hint |-> "unknown"]
NoneInTime == [transport |-> "deadline_exceeded", status |-> None, hint |-> None]

-----------------------------------------------------------------------------
(* config.ts, tiers.ts: what the harness was set up with.                  *)

Environment ==
  [provider : {"offline", "replicate"}, credentials : BOOLEAN, tier : {"draft", "standard", "pro"},
   unit : {"output_second", "generated_frame", "request", "compute_second"},
   price : Nat \cup {None}, cap : (Nat \ {0}) \cup {None}, maxAttempts : 1..4]

\* A provider that can spend money needs a token and a model, a price and a cap.
Usable(e) ==
  e.provider # "offline" => e.credentials /\ e.price # None /\ e.cap # None

MaxShotSeconds(tier) == IF tier = "draft" THEN 5 ELSE 8

UnitPrice(e) == IF e.price = None THEN 0 ELSE e.price

\* estimatePerAttempt, which takes every unit for a second.
Estimate(e) == UnitPrice(e) * MaxShotSeconds(e.tier)

\* parseFfprobeJson: the facts of a clip, None where ffprobe reports none.
FrameRate(render) == IF render.averageRate # None THEN render.averageRate ELSE render.baseRate
Seconds(render) == IF render.container # None THEN render.container ELSE render.stream
Measurable(render) == FrameRate(render) # None /\ Seconds(render) # None

\* The quantity resolveUsage bills, None when nobody knows it.
Quantity(e, render) ==
  [output_second |-> Seconds(render), request |-> 1, compute_second |-> render.compute,
   generated_frame |-> IF render.frames # None THEN render.frames
                       ELSE Seconds(render) * FrameRate(render)
  ][e.unit]

ASSUME ExperimentAssumption ==
  /\ Shots \in Seq(ToSet(Shots)) /\ IsInjective(Shots)
  /\ Environments \subseteq Environment
  /\ Observed \in [{"offline", "replicate"} \X {"submit", "poll"} -> SUBSET Observation]
  /\ LET Positive == Nat \ {0} IN
     Renders \subseteq [container : Positive \cup {None}, stream : Positive \cup {None},
                       averageRate : Positive \cup {None}, baseRate : Positive \cup {None},
                       frames : Positive \cup {None}, compute : Nat \cup {None}]
  /\ IsFiniteSet(Renders) /\ \E r \in Renders : Measurable(r)
  /\ {MaxStarts, MaxInterrupts} \subseteq Nat
  /\ None \notin Nat

VARIABLES
  env,     \* the harness configuration
  log,     \* attempts.jsonl
  torn,    \* its last line is half written
  tasks,   \* the tasks the provider accepted: the keys they were bought for
  pc,
  todo,    \* the shots of this process not dealt with yet, by their places in the test set
  spent,   \* settledUsd
  attempt, \* the attempt under way: its number and its task
  record,  \* the record to append
  result,  \* how the last process ended
  starts,
  interrupts

vars == <<env, log, torn, tasks, pc, todo, spent, attempt, record, result, starts, interrupts>>
bounds == <<starts, interrupts>>

\* An environment that is refused stops the harness before it has done anything.
Init ==
  /\ env \in Environments /\ Usable(env)
  /\ log = <<>> /\ torn = FALSE
  /\ tasks = <<>>
  /\ pc = "idle"
  /\ todo = {}
  /\ spent = 0
  /\ attempt = None
  /\ record = None
  /\ result = "none"
  /\ starts = 0 /\ interrupts = 0

CostOf(r) == IF r.cost = None THEN 0 ELSE r.cost

Cost(records) ==
  LET upTo[n \in 0..Len(records)] == IF n = 0 THEN 0 ELSE upTo[n - 1] + CostOf(records[n])
  IN  upTo[Len(records)]

\* The attempts of a shot, by their places in the log.
Mine(shot) == {i \in DOMAIN log : log[i].shot = shot}

NextAttemptNumber(shot) == Max({log[i].attempt : i \in Mine(shot)} \cup {0}) + 1

Latest(shot) ==
  log[CHOOSE i \in Mine(shot) : \A j \in Mine(shot) : log[j].attempt <= log[i].attempt]

Retryable(r) == r.outcome = "failed" /\ Disposition[ClassOf(r.seen)] = "retry_with_backoff"

\* Mutant: that a shot has its clip is not looked up in the log.
NeedsNothing_NotUsable(shot) ==
  /\ Mine(shot) # {}
  /\ \/ Cardinality(Mine(shot)) >= env.maxAttempts
     \/ Latest(shot).outcome = "failed" /\ ~Retryable(Latest(shot))

\* decideShotAction skips: the shot is usable, its attempts are used up, or its
\* latest failure is not to be retried.
NeedsNothing(shot) ==
  /\ Mine(shot) # {}
  /\ \/ \E i \in Mine(shot) : log[i].outcome = "succeeded"
     \/ Cardinality(Mine(shot)) >= env.maxAttempts
     \/ ~Retryable(Latest(shot))

\* The shot the loop is at.
Shot == Shots[Min(todo)]

GoTo(from, to) == pc = from /\ pc' = to

Ended(how) ==
  /\ pc' = "idle"
  /\ result' = how
  /\ attempt' = None /\ record' = None /\ todo' = {}

-----------------------------------------------------------------------------
(* The loop of runExperiment.                                              *)

\* Mutant: a resumed run does not count what the log says was spent.
Start_ForgetsSpend(only) ==
  /\ starts < MaxStarts
  /\ starts' = starts + 1
  /\ GoTo("idle", "decide")
  /\ ~torn
  /\ todo' = {i \in DOMAIN Shots : Shots[i] \in only}
  /\ spent' = 0
  /\ result' = "none"
  /\ UNCHANGED <<env, log, torn, tasks, attempt, record, interrupts>>

\* The operator starts the harness, for all shots or for some (--only).
Start(only) ==
  /\ starts < MaxStarts
  /\ starts' = starts + 1
  /\ GoTo("idle", "decide")
  /\ ~torn
  /\ todo' = {i \in DOMAIN Shots : Shots[i] \in only}
  /\ spent' = Cost(log)
  /\ result' = "none"
  /\ UNCHANGED <<env, log, torn, tasks, attempt, record, interrupts>>

\* A line that cannot be read is an error, before anything is bought.
StartUnreadable ==
  /\ pc = "idle" /\ starts < MaxStarts
  /\ starts' = starts + 1
  /\ torn
  /\ Ended("unreadable")
  /\ UNCHANGED <<env, log, torn, tasks, spent, interrupts>>

Finish ==
  /\ pc = "decide" /\ todo = {}
  /\ Ended("finished")
  /\ UNCHANGED <<env, log, torn, tasks, spent, bounds>>

Skip ==
  /\ pc = "decide" /\ todo # {}
  /\ NeedsNothing(Shot)
  /\ todo' = todo \ {Min(todo)}
  /\ UNCHANGED <<env, log, torn, tasks, pc, spent, attempt, record, result, bounds>>

WouldPassCap == env.cap # None /\ spent + Estimate(env) > env.cap

StopAtCap ==
  /\ pc = "decide" /\ todo # {}
  /\ ~NeedsNothing(Shot)
  /\ WouldPassCap
  /\ Ended("stopped")
  /\ UNCHANGED <<env, log, torn, tasks, spent, bounds>>

Begin ==
  /\ GoTo("decide", "submit")
  /\ todo # {} /\ ~NeedsNothing(Shot)
  /\ ~WouldPassCap
  /\ attempt' = [number |-> NextAttemptNumber(Shot), task |-> None]
  /\ UNCHANGED <<env, log, torn, tasks, todo, spent, record, result, bounds>>

-----------------------------------------------------------------------------
(* attemptOnce.                                                            *)

Bought == Append(tasks, [shot |-> Shot, attempt |-> attempt.number])

Succeeded(cost) ==
  [shot |-> Shot, attempt |-> attempt.number, task |-> attempt.task,
   outcome |-> "succeeded", seen |-> None, cost |-> cost]

\* Mutant: a failed attempt is recorded without the id of its task.
Failed_NoTaskId(seen) ==
  [shot |-> Shot, attempt |-> attempt.number, task |-> None,
   outcome |-> "failed", seen |-> seen, cost |-> None]

\* What a failed attempt cost is never recorded.
Failed(seen) ==
  [shot |-> Shot, attempt |-> attempt.number, task |-> attempt.task,
   outcome |-> "failed", seen |-> seen, cost |-> None]

Submit ==
  /\ GoTo("submit", "poll")
  /\ tasks' = Bought
  /\ attempt' = [attempt EXCEPT !.task = Len(tasks')]
  /\ UNCHANGED <<env, log, torn, todo, spent, record, result, bounds>>

\* A request without an answer may have been accepted all the same.
Unanswered == {"network", "timeout", "provider_unavailable"}

SubmitFails(seen) ==
  /\ GoTo("submit", "append")
  /\ record' = Failed(seen)
  /\ \/ UNCHANGED tasks
     \/ ClassOf(seen) \in Unanswered /\ tasks' = Bought
  /\ UNCHANGED <<env, log, torn, todo, spent, attempt, result, bounds>>

\* A poll is not answered or is refused, and the task goes on; or its answer is
\* that the task has failed, which has no status.
PollFails(seen) ==
  /\ GoTo("poll", "append")
  /\ record' = Failed(seen)
  /\ UNCHANGED <<env, log, torn, tasks, todo, spent, attempt, result, bounds>>

\* Mutant: the loop sleeps and polls again, whatever its deadline says.
PollPastDeadline_PollsAgain ==
  /\ GoTo("poll", "poll")
  /\ env.provider # "offline"
  /\ UNCHANGED <<env, log, torn, tasks, todo, spent, attempt, record, result, bounds>>

\* The task is still pending when the attempt's deadline has passed; the offline
\* provider keeps none pending, and hands its bytes over with the answer.
PollPastDeadline ==
  /\ GoTo("poll", "append")
  /\ env.provider # "offline"
  /\ record' = Failed(NoneInTime)
  /\ UNCHANGED <<env, log, torn, tasks, todo, spent, attempt, result, bounds>>

PollFindsSuccess ==
  /\ GoTo("poll", "deliver")
  /\ UNCHANGED <<env, log, torn, tasks, todo, spent, attempt, record, result, bounds>>

\* Downloaded, written and probed.
Deliver(render) ==
  /\ GoTo("deliver", "append")
  /\ Measurable(render)
  /\ LET quantity == Quantity(env, render) IN
     /\ quantity # 0
     /\ record' = Succeeded(IF quantity = None THEN None ELSE quantity * UnitPrice(env))
  /\ UNCHANGED <<env, log, torn, tasks, todo, spent, attempt, result, bounds>>

\* A clip that cannot be measured, or a record that bills a quantity of zero, is
\* refused: the process dies of it with its task unrecorded.
DeliveryRefused(render) ==
  /\ pc = "deliver" /\ env.provider # "offline"
  /\ Measurable(render) => Quantity(env, render) = 0
  /\ Ended("interrupted")
  /\ interrupts' = interrupts + 1
  /\ UNCHANGED <<env, log, torn, tasks, spent, starts>>

DeliverNothing ==
  /\ GoTo("deliver", "append")
  /\ env.provider # "offline"
  /\ record' = Failed(NoResult)
  /\ UNCHANGED <<env, log, torn, tasks, todo, spent, attempt, result, bounds>>

\* log.append; then the next shot, or the same one after a backoff.
Settle ==
  /\ GoTo("append", "decide")
  /\ log' = Append(log, record)
  /\ spent' = spent + CostOf(record)
  /\ todo' = IF Retryable(record) THEN todo ELSE todo \ {Min(todo)}
  /\ attempt' = None /\ record' = None
  /\ UNCHANGED <<env, torn, tasks, result, bounds>>

\* The process dies, or something it awaits throws: an answer it cannot parse,
\* a download that fails or meets the deadline.  A request may have been
\* accepted, and a line may be half written.
Interrupt ==
  /\ pc # "idle" /\ interrupts < MaxInterrupts
  /\ interrupts' = interrupts + 1
  /\ Ended("interrupted")
  /\ \/ UNCHANGED tasks
     \/ pc = "submit" /\ tasks' = Bought
  /\ \/ UNCHANGED torn
     \/ pc = "append" /\ torn' = TRUE
  /\ UNCHANGED <<env, log, spent, starts>>

-----------------------------------------------------------------------------
Operator == StartUnreadable \/ \E only \in SUBSET ToSet(Shots) : Start(only)

\* What the provider and the network answer.
Answer ==
  \/ PollFindsSuccess
  \/ \E seen \in Observed[env.provider, "submit"] : SubmitFails(seen)
  \/ \E seen \in Observed[env.provider, "poll"] : PollFails(seen)

Runner ==
  \/ Finish \/ Skip \/ StopAtCap \/ Begin \/ Submit \/ PollPastDeadline
  \/ \E render \in Renders : Deliver(render) \/ DeliveryRefused(render)
  \/ DeliverNothing \/ Settle

Next == Operator \/ Runner \/ Answer \/ Interrupt

Spec == Init /\ [][Next]_vars

\* The offline provider answers within the process.
OfflineAnswer == env.provider = "offline" /\ Answer

\* A process runs on until it ends.  Its requests carry the deadline of their
\* attempt, so nothing is assumed of a real provider's answers.
FairSpec == Spec /\ WF_vars(Runner) /\ WF_vars(OfflineAnswer)

-----------------------------------------------------------------------------
(* Properties.                                                             *)

Record ==
  [shot : ToSet(Shots), attempt : 1..4, task : 1..Len(tasks) \cup {None},
   outcome : {"succeeded", "failed"}, seen : Observation \cup {None}, cost : Nat \cup {None}]

Task == [shot : ToSet(Shots), attempt : 1..4]

TypeOK ==
  /\ env \in Environments
  /\ log \in Seq(Record)
  /\ torn \in BOOLEAN
  /\ tasks \in Seq(Task)
  /\ pc \in {"idle", "decide", "submit", "poll", "deliver", "append"}
  /\ todo \subseteq DOMAIN Shots
  /\ spent \in Nat
  /\ IF pc \in {"idle", "decide"}
     THEN attempt = None
     ELSE attempt \in [number : 1..4, task : 1..Len(tasks) \cup {None}]
  /\ IF pc = "append" THEN record \in Record ELSE record = None
  /\ result \in {"none", "finished", "stopped", "interrupted", "unreadable"}
  /\ starts \in 0..MaxStarts
  /\ interrupts \in 0..(MaxInterrupts + MaxStarts)

Logged == Cost(log)

(***************************************************************************)
(* The cap as run.ts states it: a run cannot cross it even if a later      *)
(* attempt turns out dearer than estimated.                                *)
(***************************************************************************)
CapIsNotCrossed == env.cap # None => Logged <= env.cap

\* What a render may be billed for.
Prices ==
  {Quantity(env, r) * UnitPrice(env) : r \in {q \in Renders : Measurable(q) /\ Quantity(env, q) # None}}

(***************************************************************************)
(* What the cap does keep: over all processes of a run together, the log   *)
(* passes it at most by what one attempt cost beyond its estimate.         *)
(***************************************************************************)
OverrunIsOneAttempt ==
  env.cap # None => Logged <= env.cap + Max({c - Estimate(env) : c \in Prices} \cup {0})

(***************************************************************************)
(* Whatever interrupted the run, the attempts of a shot are logged as 1, 2 *)
(* and so on, at most maxAttempts of them: what Gates A and B count.       *)
(***************************************************************************)
NumbersFollowTheLog ==
  \A shot \in ToSet(Shots) :
    /\ Cardinality(Mine(shot)) <= env.maxAttempts
    /\ \A i \in Mine(shot) : log[i].attempt = Cardinality({j \in Mine(shot) : j <= i})

\* Network errors, 429s and provider 5xx, unless the answer says moderation.
Transient(seen) ==
  /\ seen.hint = None
  /\ \/ seen.transport = "network_error"
     \/ seen.transport = "responded" /\ seen.status \in {429} \cup 500..599

(***************************************************************************)
(* A paid task is created only when it is due.  Nothing more is bought for *)
(* a shot unless all that was seen of it is what failures.ts says is safe  *)
(* to retry, by this process or by a later one; and a log that may have lost the record *)
(* of a paid attempt buys nothing before somebody has looked at it.        *)
(***************************************************************************)
PurchasesAreDue ==
  [][Len(tasks') > Len(tasks) =>
       /\ ~torn
       /\ \A i \in Mine(Last(tasks').shot) :
            log[i].outcome = "failed" /\ Transient(log[i].seen)]_vars

\* The tasks no record names, and the records of requests without an answer.
Unnamed == DOMAIN tasks \ {log[i].task : i \in DOMAIN log}
Unanswering == {i \in DOMAIN log : log[i].task = None /\ ClassOf(log[i].seen) \in Unanswered}

(***************************************************************************)
(* Every task is named by one record, and by one of its own shot and       *)
(* number, except the one under way, one for each request without an       *)
(* answer and one for each interruption.                                   *)
(***************************************************************************)
TasksAreAccountedFor ==
  LET UnderWay == IF pc \in {"idle", "decide"} THEN 0 ELSE 1
  IN /\ Cardinality(Unnamed) <= UnderWay + Cardinality(Unanswering) + interrupts
     /\ \A i \in DOMAIN log : log[i].task # None =>
          LET task == tasks[log[i].task]
          IN  task.shot = log[i].shot /\ task.attempt = log[i].attempt
     /\ \A i, j \in DOMAIN log : log[i].task = log[j].task /\ log[i].task # None => i = j

\* The log as its readers take it.
Came(r) ==
  CASE r.outcome = "succeeded" -> "delivered"
    [] r.outcome = "failed" /\ Transient(r.seen) -> "to be tried again"
    [] OTHER -> "to nothing"

historyBar ==
  [i \in DOMAIN log |-> [shot |-> log[i].shot, attempt |-> log[i].attempt, came |-> Came(log[i])]]

Abstract == INSTANCE ShotAttempts
  WITH Planned <- ToSet(Shots), Most <- 4, allowed <- env.maxAttempts, history <- historyBar

(***************************************************************************)
(* Whatever processes come and go, and whatever they buy that nobody       *)
(* records, the log is one history of attempts at each shot: the reports   *)
(* and the review, which read nothing else, may take a delivered take for  *)
(* the only one of its shot.                                               *)
(***************************************************************************)
ImplementsShotAttempts == Abstract!Spec

\* Every process ends, though the provider may never answer for a task.
RunsEnd == pc # "idle" ~> pc = "idle"
=============================================================================
