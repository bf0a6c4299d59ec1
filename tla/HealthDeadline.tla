--------------------------- MODULE HealthDeadline ---------------------------
(***************************************************************************)
(* Time in the health check: the per-target timeout, the run deadline that *)
(* runHealthCheck puts in the context, and the slots or the chain that     *)
(* decide when a target is started.  A tick is a unit of the timeout; the  *)
(* code itself takes no time, except that the start of targets may be      *)
(* late by Slack ticks in all.                                             *)
(***************************************************************************)
EXTENDS Integers, FiniteSets

CONSTANTS NumTargets,  \* len(targets)
          Kind,        \* Kind[t]: the check type of target t
          MaxTargets,  \* health.max_targets
          MaxTimeout,  \* health.timeout_seconds
          MaxFlag,     \* bound: the longest --timeout a run is given
          Buffer,      \* the 5 seconds added to the timeout
          Slack        \* bound: ticks the machine may be late in all

Targets == 1..NumTargets

ASSUME DeadlineAssumption ==
  /\ NumTargets \in Nat \ {0}
  /\ Kind \in [Targets -> {"http", "tcp", "dns"}]
  /\ MaxTargets \in Nat \ {0}
  /\ {MaxTimeout, MaxFlag, Buffer, Slack} \subseteq Nat

NotYet == -1

VARIABLES
  chain,        \* --chain
  timeout,      \* --timeout, lowered to the limit
  now,          \* ticks since the context was made
  next,         \* the next target to start
  started,      \* started[t], or NotYet
  finished,     \* finished[t], or NotYet
  verdict,      \* verdict[t], "none" before it finishes
  interrupted,  \* a signal ended the context
  late          \* ticks the starts have been late so far

vars == <<chain, timeout, now, next, started, finished, verdict, interrupted, late>>

-----------------------------------------------------------------------------
\* Mutant: the buffer is forgotten.
RunDeadline_NoBuffer == IF chain THEN timeout * NumTargets ELSE timeout

RunDeadline ==
  IF chain THEN timeout * (NumTargets + 1) ELSE timeout + Buffer

\* ctx.Err() # nil.
Ended == interrupted \/ now >= RunDeadline

\* http.Client and net.Dialer have a timer of their own unless the timeout
\* is zero; a DNS lookup only has the context.
OwnTimer(t) == Kind[t] # "dns" /\ timeout > 0

\* Mutant: a DNS lookup does not see the context.
Expired_DetachedDNS(t) ==
  \/ Ended /\ Kind[t] # "dns"
  \/ OwnTimer(t) /\ now >= started[t] + timeout

\* The call of a running check is given up at this moment.
Expired(t) ==
  \/ Ended
  \/ OwnTimer(t) /\ now >= started[t] + timeout

Running == {t \in Targets : started[t] # NotYet /\ finished[t] = NotYet}

\* Mutant: only a target that is down breaks the chain.
ChainBroken_OnDown ==
  chain /\ \E t \in Targets : verdict[t] = "down"

\* CheckChain breaks at the first target that is not up.
ChainBroken ==
  chain /\ \E t \in Targets : verdict[t] \in {"down", "timeout"}

\* A chain checks one target at a time; Check has a slot for each target up
\* to the limit.
Slots == IF chain THEN 1
         ELSE IF NumTargets <= MaxTargets THEN NumTargets ELSE MaxTargets

CanStart == next <= NumTargets /\ ~ChainBroken /\ Cardinality(Running) < Slots

AllDone == Running = {} /\ (next > NumTargets \/ ChainBroken)

-----------------------------------------------------------------------------
TypeOK ==
  /\ chain \in BOOLEAN
  /\ timeout \in 0..MaxTimeout
  /\ now \in 0..(RunDeadline + 1)
  /\ next \in 1..(NumTargets + 1)
  /\ started \in [Targets -> {NotYet} \cup 0..RunDeadline]
  /\ finished \in [Targets -> {NotYet} \cup 0..RunDeadline]
  /\ verdict \in [Targets -> {"none", "up", "down", "timeout"}]
  /\ interrupted \in BOOLEAN
  /\ late \in 0..Slack

\* Mutant: --timeout is taken as it is.
Clamp_None(flag) == flag

Clamp(flag) == IF flag > MaxTimeout THEN MaxTimeout ELSE flag

Init ==
  /\ chain \in BOOLEAN
  /\ \E flag \in 0..MaxFlag : timeout = Clamp(flag)
  /\ now = 0
  /\ next = 1
  /\ started = [t \in Targets |-> NotYet]
  /\ finished = [t \in Targets |-> NotYet]
  /\ verdict = [t \in Targets |-> "none"]
  /\ interrupted = FALSE
  /\ late = 0

Start ==
  /\ CanStart
  /\ started' = [started EXCEPT ![next] = now]
  /\ next' = next + 1
  /\ UNCHANGED <<chain, timeout, now, finished, verdict, interrupted, late>>

Finish(t, v) ==
  /\ t \in Running
  /\ verdict' = [verdict EXCEPT ![t] = v]
  /\ finished' = [finished EXCEPT ![t] = now]
  /\ UNCHANGED <<chain, timeout, now, next, started, interrupted, late>>

\* The target answers.  A call that starts in an ended context makes no
\* contact.  A lookup or a connection that fails after the context has ended
\* is a timeout, but an HTTP check also finds a target down without asking
\* the context: at a malformed URL, or at a status or body it does not expect.
Answers(t) ==
  /\ t \in Running
  /\ \/ (~Ended \/ started[t] < now) /\ Finish(t, "up")
     \/ (~Ended \/ Kind[t] = "http") /\ Finish(t, "down")

\* isTimeout accepts every error of an HTTP or TCP call that says so: the
\* network may give up on its own (a resolver inside the dial, ETIMEDOUT, a
\* dialer that shares its time among addresses).  DNS asks the context only.
GivenUpByNetwork(t) == Kind[t] # "dns"

TimesOut(t) == (Expired(t) \/ GivenUpByNetwork(t)) /\ Finish(t, "timeout")

Interrupt ==
  /\ ~interrupted /\ ~AllDone
  /\ interrupted' = TRUE
  /\ UNCHANGED <<chain, timeout, now, next, started, finished, verdict, late>>

\* Time passes when no timer is due and the dispatcher waits, or is late.
Tick ==
  /\ ~AllDone
  /\ \A t \in Running : ~Expired(t)
  /\ CanStart => late < Slack /\ ~Ended
  /\ late' = IF CanStart THEN late + 1 ELSE late
  /\ now' = now + 1
  /\ UNCHANGED <<chain, timeout, next, started, finished, verdict, interrupted>>

Reported == AllDone /\ UNCHANGED vars

Next ==
  \/ Start
  \/ \E t \in Targets : Answers(t) \/ TimesOut(t)
  \/ Interrupt
  \/ Tick
  \/ Reported

Spec == Init /\ [][Next]_vars

-----------------------------------------------------------------------------
(* Properties.                                                             *)

\* A DNS lookup in front of target t has only the run deadline.
BehindLookup(t) == chain /\ \E u \in Targets : u < t /\ Kind[u] = "dns"

\* While a slot is free for every target, or in a chain, a target is started
\* so early that the run deadline comes no sooner than its own timeout: the
\* deadline of health_check.go, sized once for the whole run, never takes
\* from a target the time that --timeout gives it.  The buffer, and the extra
\* timeout of a chain, pay for a machine that is late by no more than that.
\* In a chain this is promised only up to the first DNS lookup, which may
\* use up what is left.  (A target may still be called a timeout earlier: by
\* an interrupt, or by the network.)
FullBudget ==
  (IF chain THEN late <= timeout
   ELSE late <= Buffer /\ NumTargets <= MaxTargets) =>
    \A t \in Targets :
      started[t] # NotYet /\ ~BehindLookup(t) => started[t] + timeout <= RunDeadline

\* The command has its results by the deadline it set for the run.
EndsByDeadline == now > RunDeadline => AllDone

\* In a chain a target is contacted only after all earlier ones were found up.
ChainInOrder ==
  chain => \A t, u \in Targets :
    u < t /\ started[t] # NotYet =>
      verdict[u] = "up" /\ finished[u] <= started[t]

\* limits.yaml says of health.max_targets: "Every target is checked; targets
\* beyond this number wait for a free slot."  So no target is first tried in
\* a context that has already ended.
EveryTargetChecked ==
  \A t \in Targets : ~chain /\ timeout > 0 /\ ~interrupted /\ started[t] # NotYet => started[t] < RunDeadline
=============================================================================
