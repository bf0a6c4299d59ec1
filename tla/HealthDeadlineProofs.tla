-------------------------- MODULE HealthDeadlineProofs --------------------------
(***************************************************************************)
(* Proofs about time in the health check, for any number of targets, any   *)
(* limits, any timeout and any lateness of the machine.                    *)
(***************************************************************************)
EXTENDS HealthDeadline, FiniteSetTheorems, TLAPS

\* n timeouts one after the other.
Turns(n, to) == to * n

\* A chain has had no DNS lookup among the targets before t.
Prompt(t) == \A u \in Targets : u < t => Kind[u] # "dns"

\* Targets are started in order, and a target has a verdict once it is
\* finished.
OrderInv ==
  \A t \in Targets :
    /\ started[t] # NotYet <=> t < next
    /\ started[t] <= now
    /\ finished[t] # NotYet => /\ t < next
                               /\ started[t] <= finished[t] /\ finished[t] <= now
    /\ verdict[t] = "none" <=> finished[t] = NotYet

\* No timer that is due is left waiting: neither that of the run nor that of
\* a target.
TimerInv ==
  /\ now <= RunDeadline
  /\ \A t \in Running : OwnTimer(t) => now <= started[t] + timeout

\* With a slot for each target nothing but the machine delays a start.
SlotsInv ==
  ~chain /\ NumTargets <= MaxTargets =>
    /\ next <= NumTargets => now <= late
    /\ \A t \in Targets : started[t] <= late

\* In a chain a target waits one timeout at most for each one before it, as
\* long as no DNS lookup is among these.
ChainInv ==
  chain =>
    /\ \A t \in Targets : Prompt(t) => started[t] <= Turns(t - 1, timeout) + late
    /\ Prompt(next) /\ ~AllDone => now <= Turns(next - 1, timeout) + late

IInv ==
  /\ TypeOK /\ OrderInv /\ TimerInv /\ SlotsInv /\ ChainInv
  /\ ChainInOrder

-----------------------------------------------------------------------------
(* Arithmetic, slots and sets of targets.                                  *)

\* Multiplication as repeated turns: it grows by one timeout a turn.
LEMMA TurnsFacts ==
  ASSUME NEW to \in Nat, NEW n \in Nat
  PROVE  /\ Turns(n, to) \in Nat
         /\ Turns(n + 1, to) = Turns(n, to) + to
         /\ to = 0 => Turns(n, to) = 0
         /\ \A m \in 0..n : Turns(m, to) <= Turns(n, to)
<1>1. /\ Turns(n, to) \in Nat
      /\ Turns(n + 1, to) = Turns(n, to) + to
      /\ to = 0 => Turns(n, to) = 0
  BY DEF Turns
<1>2. ASSUME NEW m \in 0..n PROVE Turns(m, to) <= Turns(n, to)
  <2>1. PICK d \in Nat : n = m + d
    OBVIOUS
  <2>2. to * n = to * m + to * d /\ to * d \in Nat /\ to * m \in Nat
    BY <2>1
  <2> QED
    BY <2>2 DEF Turns
<1> QED
  BY <1>1, <1>2

\* There is a slot, in a chain exactly one.
LEMMA SlotsType == TypeOK => Slots \in Nat \ {0}
  BY DeadlineAssumption DEF Slots, TypeOK

\* The run deadline is a time, in a chain a whole number of timeouts.
LEMMA DeadlineType ==
  ASSUME TypeOK
  PROVE  /\ timeout \in Nat /\ RunDeadline \in Nat
         /\ chain => RunDeadline = Turns(NumTargets + 1, timeout)
         /\ ~chain => RunDeadline = timeout + Buffer
<1>1. timeout \in Nat /\ NumTargets + 1 \in Nat /\ Buffer \in Nat
  BY DeadlineAssumption DEF TypeOK
<1>2. Turns(NumTargets + 1, timeout) \in Nat
  BY <1>1, TurnsFacts
<1> QED
  BY <1>1, <1>2 DEF RunDeadline, Turns, TypeOK

\* Any set of targets is finite, and one that misses a target is smaller.
LEMMA TargetSets ==
  ASSUME NEW S \in SUBSET Targets
  PROVE  /\ IsFiniteSet(S) /\ Cardinality(S) \in Nat
         /\ S = {} <=> Cardinality(S) = 0
         /\ \A t \in Targets : t \notin S => Cardinality(S) < NumTargets
<1>1. NumTargets \in Nat
  BY DeadlineAssumption
<1>2. IsFiniteSet(Targets) /\ Cardinality(Targets) = NumTargets
  BY <1>1, FS_Interval DEF Targets
<1>3. IsFiniteSet(S) /\ Cardinality(S) \in Nat
  BY <1>2, FS_Subset, FS_CardinalityType
<1>4. S = {} <=> Cardinality(S) = 0
  BY <1>3, FS_EmptySet
<1>5. ASSUME NEW t \in Targets, t \notin S PROVE Cardinality(S) < NumTargets
  <2>1. S \subseteq Targets \ {t}
    BY <1>5
  <2>2. IsFiniteSet(Targets \ {t}) /\ Cardinality(Targets \ {t}) = NumTargets - 1
    BY <1>2, FS_RemoveElement
  <2>3. Cardinality(S) <= NumTargets - 1
    BY <2>1, <2>2, FS_Subset
  <2> QED
    BY <1>1, <1>3, <2>3
<1> QED
  BY <1>3, <1>4, <1>5

-----------------------------------------------------------------------------
(* What the invariant says of the moment of a start or a tick.             *)

\* A target waits to be started and nothing runs: it can be started.
LEMMA IdleStarts ==
  ASSUME IInv, ~AllDone, Running = {}
  PROVE  CanStart
<1>1. Cardinality(Running) = 0 /\ Slots \in Nat \ {0}
  BY TargetSets, SlotsType DEF IInv, Running
<1>2. next <= NumTargets /\ ~ChainBroken
  BY DeadlineAssumption DEF AllDone, IInv, TypeOK
<1> QED
  BY <1>1, <1>2 DEF CanStart

\* Time does not pass a run deadline that has come: all calls are given up
\* and no target may be started late.
LEMMA TickInTime == IInv /\ Tick => ~Ended
<1> SUFFICES ASSUME IInv, Tick, Ended PROVE FALSE
  OBVIOUS
<1>1. Running = {}
  BY DEF Tick, Expired
<1>2. CanStart
  BY <1>1, IdleStarts DEF Tick
<1> QED
  BY <1>2 DEF Tick

\* With a slot for each target one that waits can always be started.
LEMMA SlotFree ==
  ASSUME IInv, ~chain, NumTargets <= MaxTargets, next <= NumTargets
  PROVE  CanStart
<1>1. next \in Targets /\ started[next] = NotYet
  BY DeadlineAssumption DEF IInv, TypeOK, OrderInv, Targets
<1>2. Cardinality(Running) < NumTargets
  BY <1>1, TargetSets DEF Running
<1>3. Slots = NumTargets /\ ~ChainBroken
  BY DEF Slots, ChainBroken
<1> QED
  BY <1>2, <1>3 DEF CanStart

\* A chain runs one target at a time, the one started last.
LEMMA OneRuns ==
  ASSUME IInv, chain, NEW r \in Running
  PROVE  r = next - 1
<1> USE DeadlineAssumption DEF IInv, TypeOK, Running, Targets, NotYet
<1>1. r \in Targets /\ r < next /\ verdict[r] = "none"
  BY DEF OrderInv
<1>2. SUFFICES ASSUME r < next - 1 PROVE FALSE
  BY <1>1
<1>3. next - 1 \in Targets /\ started[next - 1] # NotYet
  BY <1>1, <1>2 DEF OrderInv
<1>4. verdict[r] = "up"
  BY <1>1, <1>2, <1>3 DEF ChainInOrder
<1> QED
  BY <1>1, <1>4

-----------------------------------------------------------------------------
(* The initial states, and what the steps keep.                            *)

\* The run starts in the inductive invariant.
LEMMA InitInv == Init => IInv
<1> SUFFICES ASSUME Init PROVE IInv
  OBVIOUS
<1> USE DeadlineAssumption DEF Init
<1>1. timeout \in 0..MaxTimeout
  BY DEF Clamp
<1>2. RunDeadline \in Nat
  BY <1>1, TurnsFacts DEF RunDeadline, Turns
<1>3. TypeOK
  <2>1. /\ started \in [Targets -> {NotYet} \cup 0..RunDeadline]
        /\ finished \in [Targets -> {NotYet} \cup 0..RunDeadline]
        /\ verdict \in [Targets -> {"none", "up", "down", "timeout"}]
    OBVIOUS
  <2>2. now \in 0..(RunDeadline + 1) /\ next \in 1..(NumTargets + 1) /\ late \in 0..Slack
    BY <1>2
  <2> QED
    BY <1>1, <2>1, <2>2 DEF TypeOK
<1>4. Running = {}
  BY DEF Running
<1>5. OrderInv /\ ChainInOrder
  BY DEF OrderInv, ChainInOrder, Targets, NotYet
<1>6. TimerInv /\ SlotsInv
  BY <1>2, <1>4 DEF TimerInv, SlotsInv, NotYet
<1>7. ChainInv
  <2>1. ASSUME NEW t \in Targets PROVE Turns(t - 1, timeout) \in Nat
    <3>1. timeout \in Nat /\ t - 1 \in Nat
      BY <1>1 DEF Targets
    <3> QED
      BY <3>1, TurnsFacts
  <2>2. Turns(next - 1, timeout) \in Nat
    BY <1>1, TurnsFacts
  <2> QED
    BY <2>1, <2>2 DEF ChainInv, NotYet
<1> QED
  BY <1>3, <1>5, <1>6, <1>7 DEF IInv

\* The flags do not change, and so the run deadline does not.
LEMMA FlagsStay == [Next]_vars => UNCHANGED <<chain, timeout, RunDeadline>>
<1> SUFFICES ASSUME [Next]_vars PROVE UNCHANGED <<chain, timeout>>
  BY DEF RunDeadline
<1> QED
  BY DEF Next, Start, Answers, TimesOut, Finish, Interrupt, Tick, Reported, vars

\* No step leaves the types, nor the time the run has.
LEMMA TypeStep == IInv /\ [Next]_vars => TypeOK' /\ now' <= RunDeadline'
<1> SUFFICES ASSUME IInv, [Next]_vars PROVE TypeOK' /\ now' <= RunDeadline'
  OBVIOUS
<1> USE DeadlineAssumption DEF IInv, TypeOK
<1>1. UNCHANGED <<chain, timeout, RunDeadline>> /\ RunDeadline \in Nat
  BY FlagsStay, DeadlineType
<1>2. now \in 0..RunDeadline
  BY <1>1 DEF TimerInv
<1>3. CASE Start
  <2>1. next \in Targets /\ next' \in 1..(NumTargets + 1)
    BY <1>3 DEF Start, CanStart, Targets
  <2>2. started' \in [Targets -> {NotYet} \cup 0..RunDeadline]
    BY <1>2, <1>3, <2>1 DEF Start
  <2> QED
    BY <1>1, <1>2, <1>3, <2>1, <2>2 DEF Start
<1>4. ASSUME NEW t \in Targets, Answers(t) \/ TimesOut(t)
      PROVE  TypeOK' /\ now' <= RunDeadline'
  <2>1. PICK v \in {"up", "down", "timeout"} : Finish(t, v)
    BY <1>4 DEF Answers, TimesOut
  <2>2. /\ verdict' \in [Targets -> {"none", "up", "down", "timeout"}]
        /\ finished' \in [Targets -> {NotYet} \cup 0..RunDeadline]
    BY <1>2, <2>1 DEF Finish
  <2> QED
    BY <1>1, <1>2, <2>1, <2>2 DEF Finish
<1>5. CASE Interrupt
  BY <1>1, <1>2, <1>5 DEF Interrupt
<1>6. CASE Tick
  <2>1. now < RunDeadline
    BY <1>1, <1>2, <1>6, TickInTime DEF Ended
  <2>2. now' \in 0..RunDeadline
    BY <1>1, <1>2, <1>6, <2>1 DEF Tick
  <2>3. late' \in 0..Slack
    BY <1>6 DEF Tick
  <2> QED
    BY <1>1, <1>6, <2>2, <2>3 DEF Tick
<1>7. CASE UNCHANGED vars
  BY <1>1, <1>2, <1>7 DEF vars
<1> QED
  BY <1>3, <1>4, <1>5, <1>6, <1>7 DEF Next, Reported

\* Starts stay in order, and verdicts come with the time they were given.
LEMMA OrderStep == IInv /\ [Next]_vars => OrderInv'
<1> SUFFICES ASSUME IInv, [Next]_vars, NEW t \in Targets
             PROVE  /\ started'[t] # NotYet <=> t < next'
                    /\ started'[t] <= now'
                    /\ finished'[t] # NotYet =>
                         t < next' /\ started'[t] <= finished'[t] /\ finished'[t] <= now'
                    /\ verdict'[t] = "none" <=> finished'[t] = NotYet
  BY DEF OrderInv
<1> USE DeadlineAssumption DEF IInv, TypeOK, OrderInv
<1>1. RunDeadline \in Nat /\ now \in Nat /\ now # NotYet /\ NotYet \notin Nat
  BY DeadlineType DEF TimerInv, NotYet
<1>2. CASE Start
  <2>1. t # next => started'[t] = started[t] /\ (t < next' <=> t < next)
    BY <1>2 DEF Start, CanStart, Targets
  <2>2. t = next => started'[t] = now
    BY <1>2 DEF Start
  <2>3. UNCHANGED <<finished, verdict, now>> /\ next' = next + 1
    BY <1>2 DEF Start
  <2> QED
    BY <1>1, <2>1, <2>2, <2>3 DEF Targets
<1>3. ASSUME NEW u \in Targets, Answers(u) \/ TimesOut(u)
      PROVE  /\ UNCHANGED <<started, next, now>> /\ u < next
             /\ finished'[t] = IF t = u THEN now ELSE finished[t]
             /\ t = u => verdict'[t] # "none"
             /\ t # u => verdict'[t] = verdict[t]
  <2>1. PICK v \in {"up", "down", "timeout"} : Finish(u, v)
    BY <1>3 DEF Answers, TimesOut
  <2>2. u < next
    BY <2>1 DEF Finish, Running
  <2> QED
    BY <2>1, <2>2 DEF Finish
<1>4. CASE \E u \in Targets : Answers(u) \/ TimesOut(u)
  BY <1>1, <1>3, <1>4
<1>5. CASE Tick
  BY <1>1, <1>5 DEF Tick, NotYet
<1>6. CASE Interrupt \/ UNCHANGED vars
  BY <1>6 DEF Interrupt, vars
<1> QED
  BY <1>2, <1>4, <1>5, <1>6 DEF Next, Reported

\* No timer that is due waits for a tick.
LEMMA TimerStep == IInv /\ [Next]_vars => TimerInv'
<1> SUFFICES ASSUME IInv, [Next]_vars,
                    NEW r \in Running', OwnTimer(r)'
             PROVE  now' <= started'[r] + timeout'
  BY TypeStep DEF TimerInv
<1> USE DeadlineAssumption DEF IInv, TypeOK, Running, OwnTimer, Targets
<1>1. UNCHANGED <<chain, timeout>> /\ timeout \in Nat /\ now \in Nat
  BY FlagsStay, DeadlineType DEF TimerInv
<1>2. CASE Start
  BY <1>1, <1>2 DEF Start, CanStart, TimerInv
<1>3. CASE Tick
  <2>1. started' = started /\ finished' = finished /\ now' = now + 1
    BY <1>3 DEF Tick
  <2>2. r \in Running /\ ~Expired(r)
    BY <1>3, <2>1 DEF Tick
  <2>3. now < started[r] + timeout
    BY <1>1, <2>2 DEF Expired
  <2> QED
    BY <1>1, <2>1, <2>3
<1>4. CASE \E u \in Targets : Answers(u) \/ TimesOut(u)
  <2>1. PICK u \in Targets, v \in {"up", "down", "timeout"} : Finish(u, v)
    BY <1>4 DEF Answers, TimesOut
  <2>2. started' = started /\ now' = now /\ r \in Running
    BY <1>1, <2>1 DEF Finish
  <2> QED
    BY <1>1, <2>2 DEF TimerInv
<1>5. CASE Interrupt \/ UNCHANGED vars
  BY <1>1, <1>5 DEF Interrupt, vars, TimerInv
<1> QED
  BY <1>2, <1>3, <1>4, <1>5 DEF Next, Reported

\* Starts are late only as far as the machine is.
LEMMA SlotsStep == IInv /\ [Next]_vars => SlotsInv'
<1> SUFFICES ASSUME IInv, [Next]_vars, ~chain, NumTargets <= MaxTargets
             PROVE  /\ next' <= NumTargets => now' <= late'
                    /\ \A t \in Targets : started'[t] <= late'
  BY FlagsStay DEF SlotsInv
<1> USE DeadlineAssumption DEF IInv, TypeOK, SlotsInv, Targets
<1>1. CASE Start
  BY <1>1 DEF Start, CanStart
<1>2. CASE Tick
  <2>1. next <= NumTargets => late' = late + 1 /\ now' = now + 1
    BY <1>2, SlotFree DEF Tick
  <2>2. late' \in {late, late + 1} /\ UNCHANGED <<next, started>>
    BY <1>2 DEF Tick
  <2>3. ASSUME NEW t \in Targets PROVE started[t] \in Int
    BY DeadlineType DEF NotYet
  <2> QED
    BY <2>1, <2>2, <2>3, DeadlineType DEF TimerInv
<1>3. CASE \E u \in Targets : Answers(u) \/ TimesOut(u)
  BY <1>3 DEF Answers, TimesOut, Finish
<1>4. CASE Interrupt \/ UNCHANGED vars
  BY <1>4 DEF Interrupt, vars
<1> QED
  BY <1>1, <1>2, <1>3, <1>4 DEF Next, Reported

\* A chain that goes on has found everything up that it has started.
LEMMA ChainOrderStep == IInv /\ [Next]_vars => ChainInOrder'
<1> SUFFICES ASSUME IInv, [Next]_vars, chain, NEW t \in Targets, NEW u \in Targets,
                    u < t, started'[t] # NotYet
             PROVE  verdict'[u] = "up" /\ finished'[u] <= started'[t]
  BY FlagsStay DEF ChainInOrder
<1> USE DeadlineAssumption DEF IInv, TypeOK, ChainInOrder, Targets
<1>1. CASE Start
  <2>1. next \in Targets /\ UNCHANGED <<verdict, finished>>
        /\ started' = [started EXCEPT ![next] = now]
    BY <1>1 DEF Start, CanStart
  <2>2. CASE t = next
    <3>1. Running = {} /\ verdict[u] \notin {"down", "timeout"}
      <4>1. Cardinality(Running) < 1
        BY <1>1 DEF Start, CanStart, Slots
      <4>2. Running \in SUBSET Targets
        BY DEF Running
      <4>3. Running = {}
        BY <4>1, <4>2, TargetSets
      <4> QED
        BY <1>1, <4>3 DEF Start, CanStart, ChainBroken
    <3>2. started[u] # NotYet
      BY <2>2 DEF OrderInv
    <3>3. finished[u] # NotYet
      BY <3>1, <3>2 DEF Running
    <3> QED
      BY <2>1, <2>2, <3>1, <3>3 DEF OrderInv
  <2>3. CASE t # next
    BY <2>1, <2>3
  <2> QED
    BY <2>2, <2>3
<1>2. CASE \E r \in Targets : Answers(r) \/ TimesOut(r)
  <2>1. PICK r \in Targets, v \in {"up", "down", "timeout"} : Finish(r, v)
    BY <1>2 DEF Answers, TimesOut
  <2>2. verdict[u] = "up" /\ finished[u] <= started[t] /\ started' = started
    BY <2>1 DEF Finish
  <2>3. r # u
    BY <2>1, <2>2 DEF Finish, Running, OrderInv
  <2> QED
    BY <2>1, <2>2, <2>3 DEF Finish
<1>3. CASE Tick \/ Interrupt \/ UNCHANGED vars
  BY <1>3 DEF Tick, Interrupt, vars
<1> QED
  BY <1>1, <1>2, <1>3 DEF Next, Reported

\* A target waits no longer than one timeout for each one before it.
LEMMA ChainStep == IInv /\ [Next]_vars => ChainInv'
<1> SUFFICES ASSUME IInv, [Next]_vars, chain
             PROVE  /\ \A t \in Targets : Prompt(t) => started'[t] <= Turns(t - 1, timeout) + late'
                    /\ Prompt(next') /\ ~AllDone' => now' <= Turns(next' - 1, timeout) + late'
  BY FlagsStay DEF ChainInv, Prompt
<1> USE DeadlineAssumption DEF IInv, TypeOK, Targets
<1>1. /\ timeout \in Nat /\ now \in Nat /\ late \in Nat
      /\ \A t \in Targets : started[t] \in Int /\ t - 1 \in Nat
      /\ next - 1 \in Nat
  BY DeadlineType DEF TimerInv, NotYet
<1>2. \A n \in Nat : /\ Turns(n, timeout) \in Nat
                     /\ Turns(n + 1, timeout) = Turns(n, timeout) + timeout
  BY <1>1, TurnsFacts
<1>3. CASE Start
  <2>1. /\ next \in Targets /\ late' = late /\ now' = now /\ next' = next + 1
        /\ started' = [started EXCEPT ![next] = now]
    BY <1>3 DEF Start, CanStart
  <2>2. ~AllDone
    BY <1>3 DEF Start, CanStart, AllDone
  <2>3. Prompt(next) => now <= Turns(next - 1, timeout) + late
    BY <2>2 DEF ChainInv
  <2>4. ASSUME NEW t \in Targets, Prompt(t)
        PROVE  started'[t] <= Turns(t - 1, timeout) + late'
    BY <1>3, <2>1, <2>3, <2>4 DEF ChainInv
  <2>5. Prompt(next') => Prompt(next)
    BY <2>1 DEF Prompt
  <2>6. Turns(next' - 1, timeout) = Turns(next - 1, timeout) + timeout
    <3>1. next' - 1 = (next - 1) + 1
      BY <2>1
    <3> QED
      BY <1>1, <1>2, <3>1
  <2>7. Turns(next - 1, timeout) \in Nat
    BY <1>1, <1>2
  <2>8. Prompt(next') => now' <= Turns(next' - 1, timeout) + late'
    BY <1>1, <2>1, <2>3, <2>5, <2>6, <2>7
  <2> QED
    BY <2>4, <2>8
<1>4. CASE Tick
  <2>1. UNCHANGED <<started, next>> /\ now' = now + 1 /\ late' \in {late, late + 1} /\ ~AllDone
    BY <1>4 DEF Tick
  <2>2. ASSUME NEW t \in Targets, Prompt(t)
        PROVE  started'[t] <= Turns(t - 1, timeout) + late'
    <3>1. started[t] <= Turns(t - 1, timeout) + late
      BY <2>2 DEF ChainInv
    <3>2. Turns(t - 1, timeout) \in Nat /\ started[t] \in Int
      BY <1>1, <1>2
    <3> QED
      BY <1>1, <2>1, <3>1, <3>2
  <2>3. ASSUME Prompt(next) PROVE now' <= Turns(next - 1, timeout) + late'
    <3>1. CASE CanStart
      <4>1. late' = late + 1
        BY <1>4, <3>1 DEF Tick
      <4>2. now <= Turns(next - 1, timeout) + late
        BY <2>1, <2>3 DEF ChainInv
      <4>3. Turns(next - 1, timeout) \in Nat
        BY <1>1, <1>2
      <4> QED
        BY <1>1, <2>1, <4>1, <4>2, <4>3
    <3>2. CASE ~CanStart
      <4>1. PICK r \in Running : TRUE
        BY <2>1, <3>2, IdleStarts
      <4>2. r = next - 1 /\ r \in Targets
        BY <4>1, OneRuns DEF Running
      <4>3. Prompt(r) /\ Kind[r] # "dns"
        BY <2>3, <4>2 DEF Prompt
      <4>4. timeout > 0
        <5>1. ~(now >= RunDeadline)
          BY <1>4, TickInTime DEF Ended
        <5>2. RunDeadline = Turns(NumTargets + 1, timeout) /\ NumTargets + 1 \in Nat
          BY DeadlineType
        <5>3. timeout = 0 => Turns(NumTargets + 1, timeout) = 0
          BY <1>1, <5>2, TurnsFacts
        <5> QED
          BY <1>1, <5>1, <5>2, <5>3
      <4>5. now < started[r] + timeout
        BY <1>1, <1>4, <4>1, <4>2, <4>3, <4>4 DEF Tick, Expired, OwnTimer
      <4>6. started[r] <= Turns(r - 1, timeout) + late
        BY <4>2, <4>3 DEF ChainInv
      <4>7. Turns(next - 1, timeout) = Turns(r - 1, timeout) + timeout
        <5>1. next - 1 = (r - 1) + 1 /\ r - 1 \in Nat
          BY <1>1, <4>2
        <5> QED
          BY <1>2, <5>1
      <4>8. Turns(r - 1, timeout) \in Nat /\ started[r] \in Int
        BY <1>1, <1>2, <4>2
      <4>9. late' \in Nat /\ late <= late'
        BY <1>1, <2>1
      <4> HIDE DEF IInv, TypeOK, Targets
      <4> QED
        BY <1>1, <2>1, <4>5, <4>6, <4>7, <4>8, <4>9
    <3> QED
      BY <3>1, <3>2
  <2> QED
    BY <2>1, <2>2, <2>3
<1>5. CASE \E u \in Targets : Answers(u) \/ TimesOut(u)
  <2>1. PICK u \in Targets, v \in {"up", "down", "timeout"} : Finish(u, v)
    BY <1>5 DEF Answers, TimesOut
  <2>2. UNCHANGED <<started, next, now, late>> /\ ~AllDone
    BY <2>1 DEF Finish, AllDone
  <2> QED
    BY <2>2 DEF ChainInv
<1>6. CASE Interrupt
  BY <1>6 DEF Interrupt, ChainInv, AllDone
<1>7. CASE UNCHANGED vars
  BY <1>7 DEF vars, ChainInv, AllDone, Running, ChainBroken
<1> QED
  BY <1>3, <1>4, <1>5, <1>6, <1>7 DEF Next, Reported

\* A target that starts no later than its turn has its timeout before the
\* run deadline: in parallel the buffer is more than the lateness, in a chain
\* the turns of this and of the earlier targets, with one timeout for the
\* lateness, make up the deadline at most.
LEMMA BudgetFollows == IInv => FullBudget
<1> SUFFICES ASSUME IInv, NEW t \in Targets, started[t] # NotYet, ~BehindLookup(t),
                    IF chain THEN late <= timeout ELSE late <= Buffer /\ NumTargets <= MaxTargets
             PROVE  started[t] + timeout <= RunDeadline
  BY DEF FullBudget
<1> USE DeadlineAssumption DEF IInv, TypeOK, Targets
<1>1. /\ timeout \in Nat /\ late \in Nat /\ started[t] \in Int
      /\ RunDeadline \in Nat /\ t - 1 \in Nat /\ Buffer \in Nat
  BY DeadlineType DEF NotYet
<1>2. CASE chain
  <2>1. Prompt(t)
    BY <1>2 DEF BehindLookup, Prompt
  <2>2. started[t] <= Turns(t - 1, timeout) + late
    BY <1>2, <2>1 DEF ChainInv
  <2>3. RunDeadline = Turns(NumTargets + 1, timeout)
    BY <1>2, DeadlineType
  <2>4. Turns(NumTargets + 1, timeout) = Turns(NumTargets, timeout) + timeout
    BY <1>1, TurnsFacts
  <2>5. Turns(NumTargets, timeout) = Turns(NumTargets - 1, timeout) + timeout
    <3>1. NumTargets - 1 \in Nat /\ NumTargets = (NumTargets - 1) + 1
      OBVIOUS
    <3> QED
      BY <1>1, <3>1, TurnsFacts
  <2>6. /\ Turns(NumTargets - 1, timeout) \in Nat /\ Turns(t - 1, timeout) \in Nat
        /\ Turns(t - 1, timeout) <= Turns(NumTargets - 1, timeout)
    <3>1. NumTargets - 1 \in Nat /\ t - 1 \in 0..(NumTargets - 1)
      OBVIOUS
    <3> QED
      BY <1>1, <3>1, TurnsFacts
  <2>7. late <= timeout
    BY <1>2
  <2> HIDE DEF IInv, TypeOK, Targets
  <2> QED
    BY <1>1, <2>2, <2>3, <2>4, <2>5, <2>6, <2>7
<1>3. CASE ~chain
  <2>1. started[t] <= late /\ late <= Buffer
    BY <1>3 DEF SlotsInv
  <2>2. RunDeadline = timeout + Buffer
    BY <1>3, DeadlineType
  <2> QED
    BY <1>1, <2>1, <2>2
<1> QED
  BY <1>2, <1>3

-----------------------------------------------------------------------------
(* The theorems.                                                           *)

\* The inductive invariant: every step of a run keeps it.
LEMMA StepInv == IInv /\ [Next]_vars => IInv'
  BY TypeStep, OrderStep, TimerStep, SlotsStep, ChainStep, ChainOrderStep DEF IInv

\* It holds throughout.
LEMMA Invariance == Spec => []IInv
  BY InitInv, StepInv, PTL DEF Spec

\* Types, and with them that no start and no result is later than the run's
\* deadline.
THEOREM TypeCorrect == Spec => []TypeOK
<1>1. IInv => TypeOK
  BY DEF IInv
<1> QED
  BY <1>1, Invariance, PTL

\* The deadline sized from the timeout is large enough: it leaves each target
\* its own timeout, however many targets there are, in whatever order they
\* answer and whatever the network says.
THEOREM BudgetIsKept == Spec => []FullBudget
  BY BudgetFollows, Invariance, PTL

\* The command has all its results when the deadline it set has passed.
THEOREM DeadlineIsKept == Spec => []EndsByDeadline
<1>1. IInv => EndsByDeadline
  BY DeadlineType DEF IInv, TypeOK, TimerInv, EndsByDeadline
<1> QED
  BY <1>1, Invariance, PTL

\* A chain contacts a target only behind targets it found up.
THEOREM ChainStopsInTime == Spec => []ChainInOrder
<1>1. IInv => ChainInOrder
  BY DEF IInv
<1> QED
  BY <1>1, Invariance, PTL
=============================================================================
