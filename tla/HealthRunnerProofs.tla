------------------------- MODULE HealthRunnerProofs -------------------------
(***************************************************************************)
(* Proofs about the parallel health check for any number of targets, any   *)
(* concurrency option, any limit and any mix of check types.               *)
(***************************************************************************)
EXTENDS HealthRunner, FiniteSetTheorems, TLAPS

\* Any set of targets is finite and no larger than their number.
LEMMA TargetSets ==
  ASSUME NEW S \in SUBSET Targets
  PROVE  /\ IsFiniteSet(S)
         /\ Cardinality(S) \in 0..NumTargets
<1>1. NumTargets \in Nat
  BY HealthAssumption
<1>2. IsFiniteSet(Targets) /\ Cardinality(Targets) = NumTargets
  BY <1>1, FS_Interval DEF Targets
<1>3. IsFiniteSet(S) /\ Cardinality(S) <= NumTargets
  BY <1>2, FS_Subset
<1>4. Cardinality(S) \in Nat
  BY <1>3, FS_CardinalityType
<1> QED
  BY <1>1, <1>3, <1>4

\* The semaphore has a capacity.
LEMMA SlotsType == Slots \in Nat
  BY HealthAssumption DEF Slots

\* The program starts in the inductive invariant.
LEMMA InitInv == Init => IInv
<1> SUFFICES ASSUME Init PROVE IInv
  OBVIOUS
<1> USE HealthAssumption DEF Init, Targets
<1>1. TypeOK
  <2>1. wg \in 0..NumTargets /\ sem \in 0..Slots /\ next \in 1..(NumTargets + 1)
    BY SlotsType
  <2>2. main \in {"add", "acquire", "wait", "print", "done"}
    OBVIOUS
  <2>3. answer \in [Targets -> Answers \cup {Pending}]
    OBVIOUS
  <2>4. pc \in [Targets -> Born \cup {"unborn"}]
    OBVIOUS
  <2>5. results \in [Targets -> Status \cup {Pending}]
    OBVIOUS
  <2>6. errs \in [Targets -> BOOLEAN] /\ ended \in BOOLEAN
    OBVIOUS
  <2>7. report \in [up : Nat, down : Nat] \cup {Pending} /\ exit \in {0, 1, 2, Pending}
    OBVIOUS
  <2> QED
    BY <2>1, <2>2, <2>3, <2>4, <2>5, <2>6, <2>7 DEF TypeOK
<1>2. CountersInv
  <2>1. Holders = {} /\ Counted = {}
    BY DEF Holders, Holding, Counted
  <2> QED
    BY <2>1, FS_EmptySet DEF CountersInv
<1>3. ControlInv
  BY DEF ControlInv
<1>4. DataInv
  BY DEF DataInv, DataOK, Born, Holding, Answers
<1>5. ReportInv
  <2>1. report = Pending /\ exit = Pending /\ Pending \notin Int
    OBVIOUS
  <2>2. exit # 0 /\ exit # 2
    BY <2>1
  <2> QED
    BY <2>1, <2>2 DEF ReportInv
<1> QED
  BY <1>1, <1>2, <1>3, <1>4, <1>5 DEF IInv

-----------------------------------------------------------------------------
(* The counters: which goroutines each step adds or removes.               *)

\* wg.Add(1) counts the goroutine that is about to start.
LEMMA AddCounts == IInv /\ Add => CountersInv'
<1> SUFFICES ASSUME IInv, Add PROVE CountersInv'
  OBVIOUS
<1> USE DEF IInv, Add
<1>1. Holders' = Holders
  BY DEF Holders
<1>2. next \in Targets /\ next \notin Counted
  BY HealthAssumption DEF ControlInv, TypeOK, Counted, Holding, Targets
<1>3. Counted' = Counted \cup {next}
  BY <1>2 DEF Counted
<1>4. Cardinality(Counted') = Cardinality(Counted) + 1
  BY <1>2, <1>3, TargetSets, FS_AddElement DEF Counted
<1> QED
  BY <1>1, <1>4 DEF CountersInv

\* The goroutine that starts has the token sent for it; it is counted already.
LEMMA SpawnCounts == IInv /\ Spawn => CountersInv'
<1> SUFFICES ASSUME IInv, Spawn PROVE CountersInv'
  OBVIOUS
<1> USE DEF IInv, Spawn
<1>1. next \in Targets /\ pc[next] = "unborn"
  BY HealthAssumption DEF ControlInv, TypeOK, Targets
<1>2. pc' = [pc EXCEPT ![next] = "running"] /\ pc \in [Targets -> Born \cup {"unborn"}]
  BY DEF TypeOK
<1>3. Holders' = Holders \cup {next} /\ next \notin Holders
  BY <1>1, <1>2 DEF Holders, Holding
<1>4. Cardinality(Holders') = Cardinality(Holders) + 1
  BY <1>3, TargetSets, FS_AddElement DEF Holders
<1>5. main = "acquire" /\ main' # "acquire"
  OBVIOUS
<1>6. Counted' = Counted
  BY <1>1, <1>2, <1>5 DEF Counted, Holding
<1> QED
  BY <1>4, <1>6 DEF CountersInv

\* The goroutine that receives a token stops holding one and stays counted.
LEMMA ReleaseCounts == ASSUME NEW t \in Targets PROVE IInv /\ Release(t) => CountersInv'
<1> SUFFICES ASSUME IInv, Release(t) PROVE CountersInv'
  OBVIOUS
<1> USE DEF IInv, Release
<1>1. pc' = [pc EXCEPT ![t] = "released"] /\ pc \in [Targets -> Born \cup {"unborn"}]
  BY DEF TypeOK
<1>2. Holders' = Holders \ {t} /\ t \in Holders
  BY <1>1 DEF Holders, Holding
<1>3. Cardinality(Holders') = Cardinality(Holders) - 1
  BY <1>2, TargetSets, FS_RemoveElement DEF Holders
<1>4. Counted' = Counted
  BY <1>1 DEF Counted, Holding
<1> QED
  BY <1>3, <1>4 DEF CountersInv

\* wg.Done() takes the goroutine that leaves out of the count.
LEMMA DoneCounts == ASSUME NEW t \in Targets PROVE IInv /\ Done(t) => CountersInv'
<1> SUFFICES ASSUME IInv, Done(t) PROVE CountersInv'
  OBVIOUS
<1> USE DEF IInv, Done
<1>1. pc' = [pc EXCEPT ![t] = "gone"] /\ pc \in [Targets -> Born \cup {"unborn"}]
  BY DEF TypeOK
<1>2. Holders' = Holders
  BY <1>1 DEF Holders, Holding
<1>3. ~(t = next /\ main = "acquire")
  BY HealthAssumption DEF ControlInv, TypeOK, Targets
<1>4. Counted' = Counted \ {t} /\ t \in Counted
  BY <1>1, <1>3 DEF Counted, Holding
<1>5. Cardinality(Counted') = Cardinality(Counted) - 1
  BY <1>4, TargetSets, FS_RemoveElement DEF Counted
<1> QED
  BY <1>2, <1>5 DEF CountersInv

\* A step that leaves the counters alone keeps the sets they count.
LEMMA OtherCounts ==
  ASSUME NEW t \in Targets
  PROVE  IInv /\ (CallReturns(t) \/ Record(t) \/ BuildReport \/ Finish \/ ContextEnds
                    \/ UNCHANGED vars) => CountersInv'
<1> SUFFICES ASSUME IInv, CallReturns(t) \/ Record(t) \/ BuildReport \/ Finish \/ ContextEnds
                            \/ UNCHANGED vars
             PROVE  CountersInv'
  OBVIOUS
<1> USE DEF IInv, TypeOK, Holders, Counted, Holding
<1>1. Holders' = Holders /\ Counted' = Counted /\ sem' = sem /\ wg' = wg
  <2>1. CASE CallReturns(t)
    BY <2>1 DEF CallReturns
  <2>2. CASE Record(t)
    BY <2>2 DEF Record
  <2>3. CASE BuildReport
    BY <2>3 DEF BuildReport
  <2>4. CASE Finish
    BY <2>4 DEF Finish
  <2>5. CASE ContextEnds
    BY <2>5 DEF ContextEnds
  <2>6. CASE UNCHANGED vars
    BY <2>6 DEF vars
  <2> QED
    BY <2>1, <2>2, <2>3, <2>4, <2>5, <2>6
<1> QED
  BY <1>1 DEF CountersInv

\* After every step both counters are those of the goroutines.
LEMMA CountersStep == IInv /\ [Next]_vars => CountersInv'
<1> SUFFICES ASSUME IInv, [Next]_vars PROVE CountersInv'
  OBVIOUS
<1>1. CASE Add
  BY <1>1, AddCounts
<1>2. CASE Spawn
  BY <1>2, SpawnCounts
<1>3. ASSUME NEW t \in Targets, Goroutine(t) PROVE CountersInv'
  BY <1>3, ReleaseCounts, DoneCounts, OtherCounts DEF Goroutine
<1>4. CASE BuildReport \/ Finish \/ ContextEnds \/ UNCHANGED vars
  <2>1. CASE Targets # {}
    BY <1>4, <2>1, OtherCounts
  <2>2. CASE Targets = {}
    <3>1. Holders' = {} /\ Holders = {} /\ Counted' = {} /\ Counted = {}
      BY <2>2 DEF Holders, Counted
    <3>2. sem' = sem /\ wg' = wg
      BY <1>4 DEF BuildReport, Finish, ContextEnds, vars
    <3> QED
      BY <3>1, <3>2 DEF IInv, CountersInv
  <2> QED
    BY <2>1, <2>2
<1> QED
  BY <1>1, <1>2, <1>3, <1>4 DEF Next, Main, Exited

-----------------------------------------------------------------------------
(* The other parts of the invariant, one step per action.                  *)

\* After every step every variable has its type; the counters have theirs
\* because they count targets.
LEMMA TypeStep == IInv /\ [Next]_vars => TypeOK'
<1> SUFFICES ASSUME IInv, [Next]_vars PROVE TypeOK'
  OBVIOUS
<1>1. wg' \in 0..NumTargets
  <2>1. Counted' \in SUBSET Targets
    BY DEF Counted
  <2> QED
    BY <2>1, CountersStep, TargetSets DEF CountersInv
<1> USE DEF IInv, TypeOK
<1>2. CASE Add
  BY <1>1, <1>2 DEF Add
<1>3. CASE Spawn
  <2>1. next \in Targets
    BY <1>3, HealthAssumption DEF Spawn, ControlInv, Targets
  <2>2. sem' \in 0..Slots
    BY <1>3, SlotsType DEF Spawn
  <2>3. next' \in 1..(NumTargets + 1)
    BY <1>3, <2>1, HealthAssumption DEF Spawn, Targets
  <2>4. pc' \in [Targets -> Born \cup {"unborn"}]
    BY <1>3, <2>1 DEF Spawn, Born, Holding
  <2> QED
    BY <1>1, <1>3, <2>2, <2>3, <2>4 DEF Spawn
<1>4. CASE BuildReport
  <2>1. /\ Cardinality({t \in Targets : results[t] = "up"}) \in Nat
        /\ Cardinality({t \in Targets : results[t] # "up"}) \in Nat
    BY TargetSets
  <2> QED
    BY <1>1, <1>4, <2>1 DEF BuildReport
<1>5. CASE Finish
  BY <1>1, <1>5 DEF Finish, ExitCode
<1>6. ASSUME NEW t \in Targets, CallReturns(t) PROVE TypeOK'
  <2>2. answer' \in [Targets -> Answers \cup {Pending}]
    BY <1>6 DEF CallReturns, Answer
  <2>3. pc' \in [Targets -> Born \cup {"unborn"}]
    BY <1>6 DEF CallReturns, Born, Holding
  <2> QED
    BY <1>1, <1>6, <2>2, <2>3 DEF CallReturns
<1>7. ASSUME NEW t \in Targets, Record(t) PROVE TypeOK'
  <2>1. results' \in [Targets -> Status \cup {Pending}]
    BY <1>7 DEF Record, Classify, Status
  <2>2. pc' \in [Targets -> Born \cup {"unborn"}]
    BY <1>7 DEF Record, Born, Holding
  <2>3. errs' \in [Targets -> BOOLEAN]
    BY <1>7 DEF Record
  <2> QED
    BY <1>1, <1>7, <2>1, <2>2, <2>3 DEF Record
<1>8. ASSUME NEW t \in Targets, Release(t) PROVE TypeOK'
  <2>1. sem # 0
    <3>1. t \in Holders
      BY <1>8 DEF Release, Holders, Holding
    <3>2. IsFiniteSet(Holders)
      BY TargetSets DEF Holders
    <3> QED
      BY <3>1, <3>2, FS_EmptySet DEF CountersInv
  <2>2. sem' \in 0..Slots
    BY <1>8, <2>1, SlotsType DEF Release
  <2>3. pc' \in [Targets -> Born \cup {"unborn"}]
    BY <1>8 DEF Release, Born, Holding
  <2> QED
    BY <1>1, <1>8, <2>2, <2>3 DEF Release
<1>9. ASSUME NEW t \in Targets, Done(t) PROVE TypeOK'
  <2>1. pc' \in [Targets -> Born \cup {"unborn"}]
    BY <1>9 DEF Done, Born, Holding
  <2> QED
    BY <1>1, <1>9, <2>1 DEF Done
<1>10. CASE ContextEnds
  BY <1>1, <1>10 DEF ContextEnds
<1>11. CASE UNCHANGED vars
  BY <1>11 DEF vars
<1> QED
  BY <1>2, <1>3, <1>4, <1>5, <1>6, <1>7, <1>8, <1>9, <1>10, <1>11
     DEF Next, Main, Goroutine, Exited

\* Before the main goroutine passes wg.Wait() the loop is over and every
\* goroutine has left the WaitGroup.
LEMMA WaitReturns ==
  ASSUME IInv, main = "wait", wg = 0
  PROVE  \A t \in Targets : pc[t] = "gone"
<1>1. Counted = {}
  <2>1. IsFiniteSet(Counted)
    BY TargetSets DEF Counted
  <2> QED
    BY <2>1, FS_EmptySet DEF IInv, CountersInv
<1>2. \A t \in Targets : t < next
  BY HealthAssumption DEF IInv, ControlInv, TypeOK, Targets
<1> SUFFICES ASSUME NEW t \in Targets PROVE pc[t] = "gone"
  OBVIOUS
<1>3. pc[t] # "unborn"
  BY <1>2, HealthAssumption DEF IInv, ControlInv, TypeOK, Targets
<1>4. pc[t] \notin Holding \cup {"released"}
  BY <1>1 DEF Counted
<1> QED
  BY <1>3, <1>4 DEF IInv, TypeOK, Born

\* After every step the loop and the goroutines are where the other says.
LEMMA ControlStep == IInv /\ [Next]_vars => ControlInv'
<1> SUFFICES ASSUME IInv, [Next]_vars PROVE ControlInv'
  OBVIOUS
<1> USE DEF ControlInv
<1>0. TypeOK /\ ControlInv /\ pc \in [Targets -> Born \cup {"unborn"}]
  BY DEF IInv, TypeOK
<1>1. CASE Add
  BY <1>0, <1>1 DEF Add
<1>2. CASE Spawn
  <2>1. /\ next \in Targets /\ next' = next + 1
        /\ pc' = [pc EXCEPT ![next] = "running"]
        /\ main' = IF next = NumTargets THEN "wait" ELSE "add"
        /\ UNCHANGED <<report, exit>> /\ main = "acquire"
    BY <1>0, <1>2, HealthAssumption DEF Spawn, TypeOK, Targets
  <2>2. \A t \in Targets : pc'[t] = "unborn" <=> t >= next'
    BY <1>0, <2>1, HealthAssumption DEF Targets
  <2>3. main' \in {"add", "acquire"} <=> next' <= NumTargets
    BY <1>0, <2>1, HealthAssumption DEF Targets
  <2> QED
    BY <1>0, <2>1, <2>2, <2>3
<1>3. CASE BuildReport
  <2>1. \A t \in Targets : pc[t] = "gone"
    BY <1>3, WaitReturns DEF BuildReport
  <2>2. report' \in [up : Nat, down : Nat]
    BY <1>3, TargetSets DEF BuildReport
  <2> QED
    BY <1>0, <1>3, <2>1, <2>2, HealthAssumption DEF BuildReport
<1>4. CASE Finish
  <2>1. exit' \in Int
    BY <1>4 DEF Finish, ExitCode
  <2> QED
    BY <1>0, <1>4, <2>1, HealthAssumption DEF Finish
<1>5. ASSUME NEW t \in Targets, Goroutine(t) PROVE ControlInv'
  <2>1. /\ pc[t] \notin {"unborn", "gone"}
        /\ pc' \in {[pc EXCEPT ![t] = s] : s \in Born}
        /\ UNCHANGED <<main, next, report, exit>>
    BY <1>5 DEF Goroutine, CallReturns, Record, Release, Done, Born, Holding
  <2>2. PICK s \in Born : pc' = [pc EXCEPT ![t] = s]
    BY <2>1
  <2>3. s # "unborn"
    BY DEF Born, Holding
  <2> QED
    BY <1>0, <2>1, <2>2, <2>3
<1>6. CASE ContextEnds
  BY <1>0, <1>6 DEF ContextEnds
<1>7. CASE UNCHANGED vars
  BY <1>0, <1>7 DEF vars
<1> QED
  BY <1>1, <1>2, <1>3, <1>4, <1>5, <1>6, <1>7 DEF Next, Main, Exited

\* After every step a goroutine has read and written what its place says.
LEMMA DataStep == IInv /\ [Next]_vars => DataInv'
<1> SUFFICES ASSUME IInv, [Next]_vars, NEW t \in Targets PROVE DataOK(t)'
  BY DEF DataInv
<1>0. /\ TypeOK /\ ControlInv /\ DataOK(t)
      /\ pc \in [Targets -> Born \cup {"unborn"}]
      /\ answer \in [Targets -> Answers \cup {Pending}]
      /\ results \in [Targets -> Status \cup {Pending}]
  BY DEF IInv, TypeOK, DataInv
<1> USE DEF DataOK, Born, Holding
<1>1. CASE Spawn
  <2>1. next \in Targets /\ pc[next] = "unborn" /\ pc' = [pc EXCEPT ![next] = "running"]
    BY <1>0, <1>1, HealthAssumption DEF Spawn, TypeOK, ControlInv, Targets
  <2>2. pc'[t] = IF t = next THEN "running" ELSE pc[t]
    BY <1>0, <2>1
  <2> QED
    BY <1>0, <1>1, <2>1, <2>2 DEF Spawn
<1>2. ASSUME NEW u \in Targets, CallReturns(u) PROVE DataOK(t)'
  <2>1. PICK a \in Answer(Kind[u]) : /\ a = "cancelled" => ended
                                     /\ answer' = [answer EXCEPT ![u] = a]
    BY <1>2 DEF CallReturns
  <2>2. a # Pending
    BY HealthAssumption DEF Answer
  <2>3. /\ answer'[t] = IF t = u THEN a ELSE answer[t]
        /\ pc'[t] = IF t = u THEN "returned" ELSE pc[t]
        /\ pc[u] = "running" /\ results' = results /\ ended' = ended
    BY <1>0, <1>2, <2>1 DEF CallReturns
  <2> QED
    BY <1>0, <2>1, <2>2, <2>3
<1>3. ASSUME NEW u \in Targets, Record(u) PROVE DataOK(t)'
  <2>1. /\ results'[t] = IF t = u THEN Classify(Kind[u], answer[u], ended) ELSE results[t]
        /\ pc'[t] = IF t = u THEN "recorded" ELSE pc[t]
        /\ pc[u] = "returned" /\ answer' = answer /\ ended' = ended
    BY <1>0, <1>3 DEF Record
  <2>2. Classify(Kind[u], answer[u], ended) \in Status
    BY DEF Classify, Status
  <2>3. Classify(Kind[u], answer[u], ended) = "up" <=> answer[u] = "ok"
    BY DEF Classify
  <2>4. answer[u] = "cancelled" /\ ended => Classify(Kind[u], answer[u], ended) = "timeout"
    BY DEF Classify
  <2> QED
    BY <1>0, <2>1, <2>2, <2>3, <2>4, HealthAssumption
<1>4. ASSUME NEW u \in Targets, Release(u) \/ Done(u) PROVE DataOK(t)'
  <2>1. /\ UNCHANGED <<answer, results, ended>>
        /\ \/ pc[u] = "recorded" /\ pc'[t] = IF t = u THEN "released" ELSE pc[t]
           \/ pc[u] = "released" /\ pc'[t] = IF t = u THEN "gone" ELSE pc[t]
    BY <1>0, <1>4 DEF Release, Done
  <2> QED
    BY <1>0, <2>1
<1>5. CASE Add \/ BuildReport \/ Finish \/ UNCHANGED vars
  BY <1>0, <1>5 DEF Add, BuildReport, Finish, vars
<1>6. CASE ContextEnds
  BY <1>0, <1>6 DEF ContextEnds
<1> QED
  BY <1>1, <1>2, <1>3, <1>4, <1>5, <1>6 DEF Next, Main, Goroutine, Exited

\* After every step the report counts the results and the exit code follows
\* from the report: no result is written after wg.Wait().
LEMMA ReportStep == IInv /\ [Next]_vars => ReportInv'
<1> SUFFICES ASSUME IInv, [Next]_vars PROVE ReportInv'
  OBVIOUS
<1>0. TypeOK /\ ControlInv /\ ReportInv
  BY DEF IInv
<1> USE DEF ReportInv
<1>1. CASE BuildReport
  <2>1. main = "wait" /\ exit' = exit /\ results' = results /\ errs' = errs
    BY <1>1 DEF BuildReport
  <2>2. exit' = Pending
    BY <1>0, <2>1 DEF ControlInv
  <2>3. /\ report'.up = Cardinality({t \in Targets : results[t] = "up"})
        /\ report'.down = Cardinality({t \in Targets : results[t] # "up"})
    BY <1>1 DEF BuildReport
  <2> QED
    BY <2>1, <2>2, <2>3, HealthAssumption
<1>2. CASE Finish
  <2>1. report # Pending /\ report' = report /\ results' = results /\ errs' = errs
    BY <1>0, <1>2 DEF Finish, ControlInv
  <2>2. PICK w \in BOOLEAN : exit' = ExitCode(w \/ \E t \in Targets : errs[t])
    BY <1>2 DEF Finish
  <2>3. report.down \in Nat
    BY <1>0, <2>1 DEF TypeOK
  <2>4. exit' = 0 => report.down = 0 /\ \A t \in Targets : ~errs[t]
    BY <2>2, <2>3 DEF ExitCode
  <2>5. exit' = 2 => report.down > 0
    BY <2>2 DEF ExitCode
  <2> QED
    BY <1>0, <2>1, <2>4, <2>5
<1>3. ASSUME NEW t \in Targets, Goroutine(t) PROVE ReportInv'
  <2>1. main \notin {"print", "done"} /\ UNCHANGED <<main, report, exit>>
    BY <1>0, <1>3
       DEF ControlInv, Goroutine, CallReturns, Record, Release, Done
  <2>2. report' = Pending /\ exit' = Pending
    BY <1>0, <2>1 DEF ControlInv
  <2> QED
    BY <2>2, HealthAssumption
<1>4. CASE Add \/ Spawn \/ ContextEnds \/ UNCHANGED vars
  BY <1>0, <1>4 DEF Add, Spawn, ContextEnds, vars
<1> QED
  BY <1>1, <1>2, <1>3, <1>4 DEF Next, Main, Exited

\* Every step preserves the inductive invariant.
LEMMA InvStep == IInv /\ [Next]_vars => IInv'
  BY TypeStep, CountersStep, ControlStep, DataStep, ReportStep DEF IInv

\* The invariant holds in every state the health check reaches.
THEOREM Invariance == Spec => []IInv
<1>1. Init => IInv
  BY InitInv
<1>2. IInv /\ [Next]_vars => IInv'
  BY InvStep
<1> QED
  BY <1>1, <1>2, PTL DEF Spec

-----------------------------------------------------------------------------
(* The theorems.                                                           *)

\* Every variable keeps its type; in particular the WaitGroup counter never
\* goes below zero and the semaphore never beyond its capacity.
THEOREM TypeCorrect == Spec => []TypeOK
<1>1. IInv => TypeOK
  BY DEF IInv
<1> QED
  BY <1>1, Invariance, PTL

\* No more checks are under way than there are slots.
THEOREM SlotLimit == Spec => []InFlightBounded
<1>1. IInv => InFlightBounded
  <2> SUFFICES ASSUME IInv PROVE InFlightBounded
    OBVIOUS
  <2> DEFINE InFlight == {t \in Targets : pc[t] \in {"running", "returned"}}
  <2>1. InFlight \in SUBSET Holders
    BY DEF Holders, Holding
  <2>2. IsFiniteSet(Holders)
    BY TargetSets DEF Holders
  <2>3. Cardinality(InFlight) <= Cardinality(Holders)
    BY <2>1, <2>2, FS_Subset
  <2>4. Cardinality(Holders) = sem /\ sem \in 0..Slots
    BY DEF IInv, CountersInv, TypeOK
  <2>5. Cardinality(InFlight) \in Nat
    BY TargetSets
  <2> QED
    BY <2>3, <2>4, <2>5, SlotsType DEF InFlightBounded
<1> QED
  BY <1>1, Invariance, PTL

\* The report is complete when it is built and is never written to again.
THEOREM CompleteReport == Spec => []ReportFinal
<1>1. IInv => ReportFinal
  <2> SUFFICES ASSUME IInv, report # Pending PROVE ReportFinal
    BY DEF ReportFinal
  <2> DEFINE Up == {t \in Targets : results[t] = "up"}
             Rest == {t \in Targets : results[t] # "up"}
  <2>1. \A t \in Targets : results[t] \in Status
    BY DEF IInv, ControlInv, DataInv, DataOK, TypeOK
  <2>2. report.up = Cardinality(Up) /\ report.down = Cardinality(Rest)
    BY DEF IInv, ReportInv
  <2>3. Up \cup Rest = Targets /\ Up \cap Rest = {}
    OBVIOUS
  <2>4. IsFiniteSet(Up) /\ IsFiniteSet(Rest)
    BY TargetSets
  <2>5. Cardinality(Targets) = Cardinality(Up) + Cardinality(Rest)
    <3>1. Cardinality(Up \cup Rest)
            = Cardinality(Up) + Cardinality(Rest) - Cardinality(Up \cap Rest)
      BY <2>4, FS_Union
    <3>2. Cardinality(Up) \in Nat /\ Cardinality(Rest) \in Nat
      BY TargetSets
    <3>3. Cardinality(Up \cap Rest) = 0
      BY <2>3, FS_EmptySet
    <3> HIDE DEF Up, Rest
    <3> QED
      BY <2>3, <3>1, <3>2, <3>3
  <2>6. Cardinality(Targets) = NumTargets
    <3>1. NumTargets \in Nat
      BY HealthAssumption
    <3> QED
      BY <3>1, FS_Interval DEF Targets
  <2> QED
    BY <2>1, <2>2, <2>5, <2>6 DEF ReportFinal
<1> QED
  BY <1>1, Invariance, PTL

\* A check the end of the context cut short is reported as a timeout.
THEOREM CancellationIsTimeout == Spec => []CancelledIsTimeout
<1>1. IInv => CancelledIsTimeout
  BY DEF IInv, DataInv, DataOK, CancelledIsTimeout
<1> QED
  BY <1>1, Invariance, PTL

\* With the report, an exit code other than 1 tells the truth.
LEMMA VerdictOfReport ==
  ASSUME IInv, report # Pending
  PROVE  /\ report.down \in Nat
         /\ report.down = 0 <=> \A t \in Targets : results[t] = "up"
         /\ \A t \in Targets : results[t] # Pending
<1> DEFINE Rest == {t \in Targets : results[t] # "up"}
<1>1. report.down = Cardinality(Rest)
  BY DEF IInv, ReportInv
<1>2. IsFiniteSet(Rest) /\ Cardinality(Rest) \in Nat
  BY TargetSets
<1>3. Cardinality(Rest) = 0 <=> Rest = {}
  BY <1>2, FS_EmptySet
<1>4. Rest = {} <=> \A t \in Targets : results[t] = "up"
  OBVIOUS
<1>5. \A t \in Targets : results[t] # Pending
  BY DEF IInv, ControlInv, DataInv, DataOK
<1> HIDE DEF Rest
<1> QED
  BY <1>1, <1>2, <1>3, <1>4, <1>5

\* The exit code agrees with what the targets answered.
THEOREM TruthfulExit == Spec => []ExitTruthful
<1>1. IInv => ExitTruthful
  <2> SUFFICES ASSUME IInv PROVE ExitTruthful
    OBVIOUS
  <2>1. ASSUME exit \in Int PROVE report # Pending
    BY <2>1, HealthAssumption DEF IInv, ControlInv
  <2>2. ASSUME exit = 0 PROVE \A t \in Targets : answer[t] = "ok" /\ ~errs[t]
    <3>1. report # Pending /\ report.down = 0 /\ \A t \in Targets : ~errs[t]
      BY <2>1, <2>2 DEF IInv, ReportInv
    <3>2. \A t \in Targets : results[t] = "up" /\ results[t] # Pending
      BY <3>1, VerdictOfReport
    <3> QED
      BY <3>1, <3>2 DEF IInv, DataInv, DataOK
  <2>3. ASSUME exit = 2 PROVE \E t \in Targets : answer[t] # "ok"
    <3>1. report # Pending /\ report.down > 0
      BY <2>1, <2>3 DEF IInv, ReportInv
    <3>2. PICK t \in Targets : results[t] # "up" /\ results[t] # Pending
      BY <3>1, VerdictOfReport
    <3> QED
      BY <3>2 DEF IInv, DataInv, DataOK
  <2> QED
    BY <2>2, <2>3 DEF ExitTruthful
<1> QED
  BY <1>1, Invariance, PTL

-----------------------------------------------------------------------------
(* The runner implements the safety part of HealthAbs: its first state maps *)
(* to a first state, and each step to a step or to a stutter.               *)

\* Record decides a target of HealthAbs, Finish concludes; every other step
\* of the runner is a stutter there.
LEMMA StepSimulation == IInv /\ [Next]_vars => [Promise!Next]_(Promise!vars)
<1> SUFFICES ASSUME IInv, [Next]_vars PROVE [Promise!Next]_(Promise!vars)
  OBVIOUS
<1>1. ASSUME NEW t \in Targets, Record(t) PROVE Promise!Decide(t)
  <2>1. pc[t] = "returned" /\ exit' = exit
    BY <1>1 DEF Record
  <2>2. results[t] = Pending /\ exit = Pending
    BY <2>1 DEF IInv, DataInv, DataOK, ControlInv
  <2>3. Classify(Kind[t], answer[t], ended) \in Status
    BY DEF Classify, Status
  <2>4. results' = [results EXCEPT ![t] = Classify(Kind[t], answer[t], ended)]
    BY <1>1 DEF Record
  <2> QED
    BY <2>1, <2>2, <2>3, <2>4 DEF Promise!Decide
<1>2. ASSUME Finish PROVE Promise!Conclude
  <2>1. report # Pending /\ exit = Pending /\ results' = results
    BY <1>2 DEF Finish, IInv, ControlInv
  <2>2. PICK w \in BOOLEAN : exit' = ExitCode(w \/ \E t \in Targets : errs[t])
    BY <1>2 DEF Finish
  <2>3. /\ report.down \in Nat
        /\ report.down = 0 <=> \A t \in Targets : results[t] = "up"
        /\ \A t \in Targets : results[t] # Pending
    BY <2>1, VerdictOfReport
  <2>4. exit' = 1 \/ exit' = IF report.down > 0 THEN 2 ELSE 0
    BY <2>2 DEF ExitCode
  <2>5. exit' = 1 \/ exit' = IF \A t \in Targets : results[t] = "up" THEN 0 ELSE 2
    BY <2>3, <2>4
  <2> QED
    BY <2>1, <2>3, <2>5 DEF Promise!Conclude
<1>3. ASSUME \/ Add \/ Spawn \/ BuildReport \/ ContextEnds \/ UNCHANGED vars
             \/ \E t \in Targets : CallReturns(t) \/ Release(t) \/ Done(t)
      PROVE  UNCHANGED Promise!vars
  BY <1>3 DEF Add, Spawn, BuildReport, ContextEnds, CallReturns, Release, Done,
              vars, Promise!vars
<1> QED
  BY <1>1, <1>2, <1>3 DEF Next, Main, Goroutine, Exited, Promise!Next

\* Every target is decided exactly once, and the command ends only after
\* that, with the code HealthAbs allows.
THEOREM RunnerImplementsPromise == Spec => Promise!Init /\ [][Promise!Next]_(Promise!vars)
<1>1. Init => Promise!Init
  BY DEF Init, Promise!Init
<1> QED
  BY <1>1, StepSimulation, Invariance, PTL DEF Spec
=============================================================================
