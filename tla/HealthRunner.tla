---------------------------- MODULE HealthRunner ----------------------------
(***************************************************************************)
(* The parallel health check: HealthChecker.Check, the goroutine it starts *)
(* for each target, the classification of what a target answered, and the  *)
(* tail of runHealthCheck that turns the report into an exit code.         *)
(*                                                                         *)
(* The main goroutine adds to the WaitGroup, takes a slot of the semaphore *)
(* channel and starts one goroutine per target; each goroutine performs    *)
(* its check, writes its own slots of results and errs, gives its slot     *)
(* back and leaves the WaitGroup.  The context may end at any moment (a    *)
(* signal, or the run deadline).  Time itself is in module HealthDeadline. *)
(***************************************************************************)
EXTENDS Integers, FiniteSets

CONSTANTS NumTargets,   \* len(targets)
          Concurrency,  \* opts.Concurrency; 0 or less means automatic
          MaxTargets,   \* health.max_targets of limits.yaml
          Kind,         \* Kind[t]: the check type ParseTarget chose for t
          Pending       \* the zero value of a result slot, of an exit code

Targets == 1..NumTargets

CheckType == {"http", "tcp", "dns"}

\* StatusUnknown is left out: ParseTarget only makes the three check types.
Status == {"up", "down", "timeout"}

\* What the check of a target can meet.  "malformed": no request could be
\* built.  "ok": a 2xx response, an open port, an address.  "bad": a response
\* that is not the expected one.  "late": an error that says timeout.
\* "refused": any other error.  "cancelled": the context ended the call.
Answers == {"malformed", "ok", "bad", "late", "refused", "cancelled"}

ASSUME HealthAssumption ==
  /\ NumTargets \in Nat
  /\ Concurrency \in Int
  /\ MaxTargets \in Nat \ {0}
  /\ Kind \in [Targets -> CheckType]
  /\ Pending \notin Status \cup Answers
  /\ Pending \notin Int
  /\ Pending \notin [up : Nat, down : Nat]

\* The capacity of the semaphore channel.
Slots ==
  IF Concurrency > 0 THEN Concurrency
  ELSE IF NumTargets <= MaxTargets THEN NumTargets ELSE MaxTargets

-----------------------------------------------------------------------------
(* What a target can answer, and the status the code gives each answer.    *)

\* Only HTTP has a request to build and a response to judge.
Answer(kind) == IF kind = "http" THEN Answers ELSE Answers \ {"malformed", "bad"}

Connected == {"ok", "bad"}

\* Mutant: ctx.Err() is not consulted.
Classify_NoContext(kind, answer, ended) ==
  CASE answer = "ok"                  -> "up"
    [] answer \in {"malformed", "bad"} -> "down"
    [] OTHER -> IF kind # "dns" /\ answer = "late" THEN "timeout" ELSE "down"

\* checkHTTP and checkTCP call an error a timeout if the context has ended
\* or the error says so; checkDNS only if the context has ended.
Classify(kind, answer, ended) ==
  CASE answer = "ok"                  -> "up"
    [] answer \in {"malformed", "bad"} -> "down"
    [] OTHER -> IF ended \/ (kind # "dns" /\ answer = "late")
                THEN "timeout" ELSE "down"

-----------------------------------------------------------------------------
VARIABLES
  main,      \* where the main goroutine is
  next,      \* the target the loop is at
  wg,        \* the WaitGroup counter
  sem,       \* tokens in the semaphore channel
  pc,        \* pc[t]: where the goroutine of target t is
  answer,    \* answer[t]: what the network call of t returned
  results,   \* results[t], Pending before it is written
  errs,      \* errs[t]: closing the connection of t failed
  ended,     \* ctx.Err() is not nil
  report,    \* [up, down] counts of the report, or Pending
  exit       \* the exit code, or Pending

vars == <<main, next, wg, sem, pc, answer, results, errs, ended, report, exit>>

\* A goroutine holds a slot from its start until its deferred receive.
Holding == {"running", "returned", "recorded"}
Born    == Holding \cup {"released", "gone"}

TypeOK ==
  /\ main \in {"add", "acquire", "wait", "print", "done"}
  /\ next \in 1..(NumTargets + 1)
  /\ wg \in 0..NumTargets
  /\ sem \in 0..Slots
  /\ pc \in [Targets -> Born \cup {"unborn"}]
  /\ answer \in [Targets -> Answers \cup {Pending}]
  /\ results \in [Targets -> Status \cup {Pending}]
  /\ errs \in [Targets -> BOOLEAN]
  /\ ended \in BOOLEAN
  /\ report \in [up : Nat, down : Nat] \cup {Pending}
  /\ exit \in {0, 1, 2, Pending}

Init ==
  /\ main = IF NumTargets = 0 THEN "wait" ELSE "add"
  /\ next = 1
  /\ wg = 0
  /\ sem = 0
  /\ pc = [t \in Targets |-> "unborn"]
  /\ answer = [t \in Targets |-> Pending]
  /\ results = [t \in Targets |-> Pending]
  /\ errs = [t \in Targets |-> FALSE]
  /\ ended = FALSE
  /\ report = Pending
  /\ exit = Pending

-----------------------------------------------------------------------------
(* The main goroutine.                                                     *)

\* Mutant: the goroutine is not added to the WaitGroup.
Add_Forgotten ==
  /\ main = "add"
  /\ main' = "acquire"
  /\ UNCHANGED <<next, wg, sem, pc, answer, results, errs, ended, report, exit>>

Add ==  \* wg.Add(1)
  /\ main = "add"
  /\ main' = "acquire"
  /\ wg' = wg + 1
  /\ UNCHANGED <<next, sem, pc, answer, results, errs, ended, report, exit>>

\* Mutant: the channel takes one token more than the limit.
Spawn_OffByOne ==
  /\ main = "acquire"
  /\ sem <= Slots
  /\ sem' = sem + 1
  /\ pc' = [pc EXCEPT ![next] = "running"]
  /\ next' = next + 1
  /\ main' = IF next = NumTargets THEN "wait" ELSE "add"
  /\ UNCHANGED <<wg, answer, results, errs, ended, report, exit>>

\* sem <- struct{}{} blocks while the channel is full, also after the
\* context has ended; then the goroutine of this target starts.
Spawn ==
  /\ main = "acquire"
  /\ sem < Slots
  /\ sem' = sem + 1
  /\ pc' = [pc EXCEPT ![next] = "running"]
  /\ next' = next + 1
  /\ main' = IF next = NumTargets THEN "wait" ELSE "add"
  /\ UNCHANGED <<wg, answer, results, errs, ended, report, exit>>

\* Mutant: the report is built without wg.Wait().
BuildReport_NoWait ==
  /\ main = "wait"
  /\ report' = [up   |-> Cardinality({t \in Targets : results[t] = "up"}),
                down |-> Cardinality({t \in Targets : results[t] # "up"})]
  /\ main' = "print"
  /\ UNCHANGED <<next, wg, sem, pc, answer, results, errs, ended, exit>>

\* Mutant: only the status "down" counts as down.
BuildReport_TimeoutsIgnored ==
  /\ main = "wait"
  /\ wg = 0
  /\ report' = [up   |-> Cardinality({t \in Targets : results[t] = "up"}),
                down |-> Cardinality({t \in Targets : results[t] = "down"})]
  /\ main' = "print"
  /\ UNCHANGED <<next, wg, sem, pc, answer, results, errs, ended, exit>>

\* wg.Wait() returns and buildReport counts the results: up, or not up.
BuildReport ==
  /\ main = "wait"
  /\ wg = 0
  /\ report' = [up   |-> Cardinality({t \in Targets : results[t] = "up"}),
                down |-> Cardinality({t \in Targets : results[t] # "up"})]
  /\ main' = "print"
  /\ UNCHANGED <<next, wg, sem, pc, answer, results, errs, ended, exit>>

\* The report is printed first; a close error or a failed write then wins
\* over the verdicts.
ExitCode(failed) ==
  CASE failed          -> 1
    [] ~failed /\ report.down > 0 -> 2
    [] OTHER           -> 0

Finish ==
  /\ main = "print"
  /\ \E writeFailed \in BOOLEAN :
       exit' = ExitCode(writeFailed \/ \E t \in Targets : errs[t])
  /\ main' = "done"
  /\ UNCHANGED <<next, wg, sem, pc, answer, results, errs, ended, report>>

Main == Add \/ Spawn \/ BuildReport \/ Finish

-----------------------------------------------------------------------------
(* The goroutine of target t.                                              *)

\* The call of the check returns; only an ended context cancels it.
CallReturns(t) ==
  /\ pc[t] = "running"
  /\ \E a \in Answer(Kind[t]) :
       /\ a = "cancelled" => ended
       /\ answer' = [answer EXCEPT ![t] = a]
  /\ pc' = [pc EXCEPT ![t] = "returned"]
  /\ UNCHANGED <<main, next, wg, sem, results, errs, ended, report, exit>>

\* results[idx], errs[idx] = checkOne(...).  ctx.Err() is read now, after
\* the call, so an error of another cause counts as a timeout if the
\* context has ended in between.  Only a connection can fail to close.
Record(t) ==
  /\ pc[t] = "returned"
  /\ results' = [results EXCEPT ![t] = Classify(Kind[t], answer[t], ended)]
  /\ \E failed \in BOOLEAN :
       /\ failed => answer[t] \in Connected /\ Kind[t] # "dns"
       /\ errs' = [errs EXCEPT ![t] = failed]
  /\ pc' = [pc EXCEPT ![t] = "recorded"]
  /\ UNCHANGED <<main, next, wg, sem, answer, ended, report, exit>>

\* Mutant: a check whose connection failed to close keeps its slot.
Release_Leak(t) ==
  /\ pc[t] = "recorded"
  /\ sem' = IF errs[t] THEN sem ELSE sem - 1
  /\ pc' = [pc EXCEPT ![t] = "released"]
  /\ UNCHANGED <<main, next, wg, answer, results, errs, ended, report, exit>>

Release(t) ==  \* defer func() { <-sem }(), the last one deferred
  /\ pc[t] = "recorded"
  /\ sem' = sem - 1
  /\ pc' = [pc EXCEPT ![t] = "released"]
  /\ UNCHANGED <<main, next, wg, answer, results, errs, ended, report, exit>>

Done(t) ==  \* defer wg.Done()
  /\ pc[t] = "released"
  /\ wg' = wg - 1
  /\ pc' = [pc EXCEPT ![t] = "gone"]
  /\ UNCHANGED <<main, next, sem, answer, results, errs, ended, report, exit>>

Goroutine(t) == CallReturns(t) \/ Record(t) \/ Release(t) \/ Done(t)

-----------------------------------------------------------------------------
\* A signal or the deadline of context.WithTimeout.
ContextEnds ==
  /\ main # "done"
  /\ ~ended
  /\ ended' = TRUE
  /\ UNCHANGED <<main, next, wg, sem, pc, answer, results, errs, report, exit>>

Exited ==
  /\ main = "done"
  /\ UNCHANGED vars

Next ==
  \/ Main
  \/ \E t \in Targets : Goroutine(t)
  \/ ContextEnds
  \/ Exited

\* Goroutines are scheduled; a call returns because each one is bounded by
\* the client or dialer timeout or by the run deadline in the context.
Fairness ==
  /\ WF_vars(Main)
  /\ \A t \in Targets : WF_vars(Goroutine(t))

Spec == Init /\ [][Next]_vars /\ Fairness

-----------------------------------------------------------------------------
(* Properties.                                                             *)

\* At no moment are more checks under way than there are slots, although
\* the slot is taken by the main goroutine and given back by another one
\* (limits.yaml, health.max_targets).
InFlightBounded ==
  Cardinality({t \in Targets : pc[t] \in {"running", "returned"}}) <= Slots

\* Once the report is built every target has a result, the counts of the
\* report are those of the results and add up to the number of targets, and
\* this stays so: no goroutine writes a result the report did not count.
ReportFinal ==
  report # Pending =>
    /\ \A t \in Targets : results[t] \in Status
    /\ report.up = Cardinality({t \in Targets : results[t] = "up"})
    /\ report.up + report.down = NumTargets

\* A check that ended because the run was cancelled is never reported as a
\* target that is down: it is a timeout (http.go:50, tcp.go:33, dns.go:75).
CancelledIsTimeout ==
  \A t \in Targets :
    answer[t] = "cancelled" /\ results[t] # Pending => results[t] = "timeout"

\* The exit code never hides a problem: 0 only if every target answered and
\* every connection was closed, 2 only if some target did not come up.
ExitTruthful ==
  /\ exit = 0 => \A t \in Targets : answer[t] = "ok" /\ ~errs[t]
  /\ exit = 2 => \E t \in Targets : answer[t] # "ok"

(* The inductive invariant of the proofs in HealthRunnerProofs.            *)

Holders == {t \in Targets : pc[t] \in Holding}
Counted == {t \in Targets :
              \/ pc[t] \in Holding \cup {"released"}
              \/ t = next /\ main = "acquire"}

\* The two counters count goroutines.
CountersInv ==
  /\ sem = Cardinality(Holders)
  /\ wg = Cardinality(Counted)

\* Where the loop is, and who has been started and who has left.
ControlInv ==
  /\ \A t \in Targets : pc[t] = "unborn" <=> t >= next
  /\ main \in {"add", "acquire"} <=> next <= NumTargets
  /\ main \in {"print", "done"} => \A t \in Targets : pc[t] = "gone"
  /\ report # Pending <=> main \in {"print", "done"}
  /\ exit # Pending <=> main = "done"

\* What a goroutine that far has read and written.
DataOK(t) ==
  /\ answer[t] # Pending <=> pc[t] \in Born \ {"running"}
  /\ results[t] # Pending <=> pc[t] \in {"recorded", "released", "gone"}
  /\ results[t] # Pending => (results[t] = "up" <=> answer[t] = "ok")
  /\ answer[t] = "cancelled" => ended
  /\ answer[t] = "cancelled" /\ results[t] # Pending => results[t] = "timeout"

DataInv == \A t \in Targets : DataOK(t)

\* The report counts the results, the exit code follows from the report.
ReportInv ==
  /\ report # Pending =>
       /\ report.up = Cardinality({t \in Targets : results[t] = "up"})
       /\ report.down = Cardinality({t \in Targets : results[t] # "up"})
  /\ exit = 0 => report.down = 0 /\ \A t \in Targets : ~errs[t]
  /\ exit = 2 => report.down > 0

IInv == TypeOK /\ CountersInv /\ ControlInv /\ DataInv /\ ReportInv

-----------------------------------------------------------------------------
\* The runner keeps the promise of HealthAbs, its liveness included.
Promise == INSTANCE HealthAbs WITH
  Targets <- Targets, Verdict <- Status, verdict <- results, exit <- exit
KeepsPromise == Promise!Spec
=============================================================================
