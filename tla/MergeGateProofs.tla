---------------------------- MODULE MergeGateProofs ----------------------------
(***************************************************************************)
(* Proofs about the merge gate, for any number of pushes and events.       *)
(***************************************************************************)
EXTENDS MergeGate, SequenceTheorems, TLAPS

\* What a run may still do: only a command has labels to add, and it learns
\* the commit after it has changed the labels.
StageOK(r) ==
  /\ r # Ignored => r.kind # "ignored"
  /\ r.add # {} => r.kind = "command"
  /\ r.kind = "command" /\ r.sha # 0 => r.drop \cup r.add = {}
  /\ r.kind \in {"gate", "strip"} => r.sha # 0

\* A command that waits has not asked for anything yet.
StageInv ==
  /\ \A i \in DOMAIN group : StageOK(group[i])
  /\ Len(group) = 2 /\ group[2].kind = "command" => group[2].sha = 0

\* What SuccessWasEarned says of one commit.
Earned(c) == c \in right /\ (c \in reviewed \/ c \in raced)

\* A run that may come to post success for its commit knows of labels this
\* commit was the head with: what the run for a push knows does not count,
\* because of what it drops.
EarnedOK(r) == r.sha # 0 /\ Right(r.labels \ r.drop) => Earned(r.sha)

RunsEarned == \A i \in DOMAIN group : EarnedOK(group[i])

\* What the history says of the head as long as the labels are right.
HeadInv == Right(labels) => head \in right /\ (stale = {} => head \in reviewed)

\* While there are stale labels a run is there that will remove them all, and
\* no run in front of it will ask for the labels; or the commit was raced for.
StripComes ==
  stale # {} =>
    \/ head \in raced
    \/ \E i \in DOMAIN group :
         /\ group[i].kind = "strip" /\ group[i].sha = head /\ stale \subseteq group[i].drop
         /\ i # 1 => ~WillAsk

\* A command that is still to be carried out was given for the head; or the
\* head was raced for.
CommandsFresh ==
  /\ Len(group) = 2 /\ group[2].kind = "command" => group[2].for = head
  /\ WillAsk => group[1].for = head \/ head \in raced

RaceInv == StripComes /\ CommandsFresh

GroupInv == group \in Seq(Runs) /\ Len(group) <= 2 /\ StageInv /\ RunsEarned

\* An undisturbed run works on what is current, or will ask for it; when there
\* is none, or one that does nothing, the status is the right one.
CalmInv ==
  undisturbed =>
    IF group = <<>> \/ Current = Ignored THEN status[head] = Decide(labels)
    ELSE \/ Current.kind = "command" /\ Current.sha = 0
         \/ Current.labels = labels /\ Current.sha = head

\* The history only grows.
Grows == right \subseteq right' /\ reviewed \subseteq reviewed' /\ raced \subseteq raced'

IInv == TypeOK /\ GroupInv /\ HeadInv /\ RaceInv /\ SuccessWasEarned /\ CalmInv

-----------------------------------------------------------------------------
(* The concurrency group.                                                  *)

\* The group is empty when it has no length.
LEMMA Emptiness ==
  ASSUME NEW q \in Seq(Runs)
  PROVE  Len(q) \in Nat /\ DOMAIN q = 1..Len(q) /\ (q = <<>> <=> Len(q) = 0)
<1>1. Len(<<>>) = 0 /\ (q # <<>> => Len(q) \in Nat \ {0})
  BY EmptySeq
<1>2. Len(q) \in Nat /\ DOMAIN q = 1..Len(q)
  BY LenProperties
<1> QED
  BY <1>1, <1>2

\* A run that arrives joins the group or takes the place of the one that
\* waits; the one that runs stays.
LEMMA Enqueuing ==
  ASSUME group \in Seq(Runs), Len(group) <= 2, NEW r \in Runs, group' = Enqueued(group, r)
  PROVE  /\ group' \in Seq(Runs) /\ Len(group') \in 1..2
         /\ \A i \in DOMAIN group' : group'[i] = r \/ (i \in DOMAIN group /\ group'[i] = group[i])
         /\ Len(group') = 2 => group'[2] = r
         /\ IF group = <<>> THEN group'[1] = r ELSE group'[1] = group[1] /\ Len(group') = 2
         /\ group' # <<>> /\ DOMAIN group' = 1..Len(group')
<1>1. Len(group) \in Nat /\ DOMAIN group = 1..Len(group) /\ (group = <<>> <=> Len(group) = 0)
  BY Emptiness
<1>2. Len(group) \in 0..2
  BY <1>1
<1>3. CASE Len(group) < 2
  <2>1. group' = Append(group, r)
    BY <1>3 DEF Enqueued
  <2>2. /\ group' \in Seq(Runs) /\ Len(group') = Len(group) + 1 /\ group'[Len(group) + 1] = r
        /\ \A i \in 1..Len(group) : group'[i] = group[i]
    BY <2>1
  <2>3. DOMAIN group' = 1..(Len(group) + 1)
    BY <2>2, Emptiness
  <2> QED
    BY <1>1, <1>2, <1>3, <2>2, <2>3
<1>4. CASE ~(Len(group) < 2)
  <2>1. Len(group) = 2 /\ group[1] \in Runs
    BY <1>1, <1>4, ElementOfSeq
  <2>2. group' = <<group[1], r>>
    BY <1>4 DEF Enqueued
  <2>3. group' \in Seq(Runs) /\ Len(group') = 2 /\ DOMAIN group' = 1..2
    BY <2>1, <2>2
  <2> QED
    BY <1>1, <1>2, <2>1, <2>2, <2>3
<1> QED
  BY <1>3, <1>4

\* When the run in progress ends the one that waits is left.
LEMMA Leaving ==
  ASSUME group \in Seq(Runs), Len(group) <= 2, group # <<>>, group' = Tail(group)
  PROVE  /\ group' \in Seq(Runs) /\ Len(group') <= 1
         /\ Len(group) = 1 => group' = <<>>
         /\ Len(group) # 1 => Len(group) = 2 /\ group' # <<>> /\ group'[1] = group[2] /\ 1 \in DOMAIN group'
         /\ DOMAIN group = 1..Len(group)
         /\ \A i \in DOMAIN group' : Len(group) = 2 /\ group'[i] = group[2]
<1>1. Len(group) \in Nat /\ DOMAIN group = 1..Len(group) /\ (group = <<>> <=> Len(group) = 0)
  BY Emptiness
<1>2. /\ group' \in Seq(Runs) /\ Len(group') = Len(group) - 1
      /\ \A i \in 1..Len(group') : group'[i] = group[i + 1]
  BY HeadTailProperties
<1>3. DOMAIN group' = 1..Len(group') /\ (group' = <<>> <=> Len(group') = 0)
  BY <1>2, Emptiness
<1> QED
  BY <1>1, <1>2, <1>3

\* The run in progress changes and the one that waits does not.
LEMMA Working ==
  ASSUME group \in Seq(Runs), Len(group) <= 2, group # <<>>,
         NEW r \in Runs, group' = [group EXCEPT ![1] = r]
  PROVE  /\ group' \in Seq(Runs) /\ Len(group') = Len(group) /\ group' # <<>>
         /\ group'[1] = r
         /\ Len(group) = 2 => group'[2] = group[2]
         /\ DOMAIN group' = DOMAIN group
         /\ \A i \in DOMAIN group : i # 1 => group'[i] = group[i]
<1>1. Len(group) \in Nat /\ DOMAIN group = 1..Len(group) /\ (group = <<>> <=> Len(group) = 0)
  BY Emptiness
<1>2. /\ group' \in Seq(Runs) /\ Len(group') = Len(group)
      /\ \A j \in 1..Len(group) : group'[j] = IF j = 1 THEN r ELSE group[j]
  BY <1>1, ExceptSeq
<1>3. DOMAIN group' = 1..Len(group') /\ group' # <<>>
  BY <1>1, <1>2, Emptiness
<1> QED
  BY <1>1, <1>2, <1>3

-----------------------------------------------------------------------------
(* What the three kinds of change to the group keep.                       *)

\* A run that arrives may come too early for its commit, but not too late.
LEMMA Arrives ==
  ASSUME GroupInv, Grows, NEW r \in Runs, group' = Enqueued(group, r),
         StageOK(r), r.kind = "command" => r.sha = 0, EarnedOK(r)'
  PROVE  GroupInv'
<1>1. /\ group' \in Seq(Runs) /\ Len(group') \in 1..2
      /\ \A i \in DOMAIN group' : group'[i] = r \/ (i \in DOMAIN group /\ group'[i] = group[i])
      /\ Len(group') = 2 => group'[2] = r
  BY Enqueuing DEF GroupInv
<1>2. StageInv'
  BY <1>1 DEF GroupInv, StageInv, StageOK
<1>3. RunsEarned'
  <2> SUFFICES ASSUME NEW i \in DOMAIN group' PROVE EarnedOK(group[i])'
    BY DEF RunsEarned
  <2>1. CASE group'[i] = r
    BY <2>1 DEF EarnedOK
  <2>2. CASE i \in DOMAIN group /\ group'[i] = group[i]
    BY <2>2 DEF GroupInv, RunsEarned, EarnedOK, Earned, Grows
  <2> QED
    BY <1>1, <2>1, <2>2
<1> QED
  BY <1>1, <1>2, <1>3 DEF GroupInv

\* The run that is left is one that waited.
LEMMA Leaves ==
  ASSUME GroupInv, Grows, group # <<>>, group' = Tail(group)
  PROVE  GroupInv'
<1>1. /\ group' \in Seq(Runs) /\ Len(group') <= 1
      /\ \A i \in DOMAIN group' : Len(group) = 2 /\ group'[i] = group[2]
  BY Leaving DEF GroupInv
<1>2. Len(group) = 2 => 2 \in DOMAIN group
  BY Emptiness DEF GroupInv
<1>3. StageInv'
  BY <1>1, <1>2 DEF GroupInv, StageInv, StageOK
<1>4. RunsEarned'
  BY <1>1, <1>2 DEF GroupInv, RunsEarned, EarnedOK, Earned, Grows
<1> QED
  BY <1>1, <1>3, <1>4 DEF GroupInv

\* The run in progress goes on.
LEMMA Works ==
  ASSUME GroupInv, Grows, group # <<>>, NEW r \in Runs,
         group' = [group EXCEPT ![1] = r], StageOK(r), EarnedOK(r)'
  PROVE  GroupInv'
<1>1. /\ group' \in Seq(Runs) /\ Len(group') = Len(group)
      /\ group'[1] = r /\ (Len(group) = 2 => group'[2] = group[2])
      /\ DOMAIN group' = DOMAIN group
      /\ \A i \in DOMAIN group : i # 1 => group'[i] = group[i]
  BY Working DEF GroupInv
<1>2. StageInv'
  BY <1>1 DEF GroupInv, StageInv, StageOK
<1>3. RunsEarned'
  <2> SUFFICES ASSUME NEW i \in DOMAIN group PROVE EarnedOK(group[i])'
    BY <1>1 DEF RunsEarned
  <2>1. CASE i = 1
    BY <1>1, <2>1 DEF EarnedOK
  <2>2. CASE i # 1
    BY <1>1, <2>2 DEF GroupInv, RunsEarned, EarnedOK, Earned, Grows
  <2> QED
    BY <2>1, <2>2
<1> QED
  BY <1>1, <1>2, <1>3 DEF GroupInv

\* The run of a label change or of a new pull request.
LEMMA GateRun ==
  ASSUME NEW ls \in SUBSET Labels, NEW c \in 1..MaxPushes, NEW r, r = Gate(ls, c)
  PROVE  /\ r \in Runs /\ StageOK(r) /\ r # Ignored
         /\ r.labels = ls /\ r.sha = c /\ r.drop = {} /\ r.kind = "gate"
  BY MergeGateAssumption DEF Gate, Ignored, Run, Runs, StageOK

\* The run of a push: what it decides from is not enough for success.
LEMMA StripRun ==
  ASSUME NEW ls \in SUBSET Labels, NEW c \in 1..MaxPushes, NEW r, r = Strip(ls, c)
  PROVE  /\ r \in Runs /\ StageOK(r) /\ r # Ignored
         /\ r.labels = ls /\ r.sha = c /\ r.kind = "strip" /\ ~Right(r.labels \ r.drop)
<1>1. /\ r \in Runs /\ StageOK(r) /\ r # Ignored
      /\ r.labels = ls /\ r.sha = c /\ r.kind = "strip" /\ r.drop = ls \cap Review
  BY MergeGateAssumption DEF Strip, Ignored, Run, Runs, StageOK
<1>2. "lgtm" \in Review /\ "lgtm" \notin ls \ (ls \cap Review)
  BY DEF Review
<1> QED
  BY <1>1, <1>2 DEF Right

\* The run of a comment knows neither labels nor commit.
LEMMA CommentRun ==
  ASSUME TypeOK, NEW r \in Commands \cup {Ignored}
  PROVE  /\ r \in Runs /\ StageOK(r) /\ r.sha = 0 /\ (r # Ignored <=> r.kind = "command")
         /\ r # Ignored => r.for = head
<1>1. head \in 0..MaxPushes
  BY MergeGateAssumption DEF TypeOK
<1>2. ASSUME NEW drop \in SUBSET Labels, NEW add \in SUBSET Labels, r = Command(drop, add, head)
      PROVE  r \in Runs /\ StageOK(r) /\ r.sha = 0 /\ r.kind = "command" /\ r.for = head /\ r # Ignored
  BY <1>1, <1>2, MergeGateAssumption DEF Command, Ignored, Run, Runs, StageOK
<1>3. CASE r = Ignored
  BY <1>3, MergeGateAssumption DEF Ignored, Run, Runs, StageOK
<1>4. CASE r \in Commands
  <2>1. {} \in SUBSET Labels /\ {Hold} \in SUBSET Labels /\ \A l \in Review \cup {Hold} : {l} \in SUBSET Labels
    BY DEF Labels
  <2> QED
    BY <1>2, <1>4, <2>1 DEF Commands
<1> QED
  BY <1>3, <1>4

\* The history after a change of the labels or of the head.
LEMMA Becoming ==
  ASSUME TypeOK, NEW ls \in SUBSET Labels, NEW c \in 1..MaxPushes,
         NEW st \in SUBSET (ls \cap Review), Become(ls, c, st)
  PROVE  /\ labels' = ls /\ head' = c /\ stale' = st
         /\ right \subseteq right' /\ reviewed \subseteq reviewed'
         /\ right' \subseteq 1..MaxPushes /\ reviewed' \subseteq right'
         /\ HeadInv'
<1>1. /\ labels' = ls /\ head' = c /\ stale' = st
      /\ right' = IF Right(ls) THEN right \cup {c} ELSE right
      /\ reviewed' = IF Right(ls) /\ st = {} THEN reviewed \cup {c} ELSE reviewed
  BY DEF Become
<1>2. HeadInv'
  BY <1>1 DEF HeadInv, Right
<1> QED
  BY <1>1, <1>2 DEF TypeOK

\* So does the set of the commits that were raced for.
LEMMA Racing ==
  ASSUME TypeOK, NEW c \in 1..MaxPushes, NEW b \in BOOLEAN, Raced(c, b)
  PROVE  /\ raced \subseteq raced' /\ raced' \subseteq 1..MaxPushes
         /\ b => c \in raced'
  BY DEF Raced, TypeOK

\* A status is kept if it was earned before.
LEMMA StatusKept ==
  ASSUME SuccessWasEarned, Grows, status' = status
  PROVE  SuccessWasEarned'
  BY DEF SuccessWasEarned, Grows

-----------------------------------------------------------------------------
(* Events.                                                                 *)

\* The program starts in the inductive invariant.
LEMMA InitInv == Init => IInv
<1> SUFFICES ASSUME Init PROVE IInv
  OBVIOUS
<1> USE MergeGateAssumption DEF Init
<1>0. PICK r : r = Gate({}, 1)
  OBVIOUS
<1>1. ~Right({})
  BY DEF Right, Review
<1>2. /\ r \in Runs /\ StageOK(r) /\ r # Ignored
      /\ r.labels = {} /\ r.sha = 1 /\ r.drop = {} /\ r.kind = "gate"
  <2> HIDE DEF Init
  <2>1. PICK ls \in SUBSET Labels, c \in 1..MaxPushes : ls = {} /\ c = 1
    <3>1. {} \in SUBSET Labels /\ 1 \in 1..MaxPushes
      OBVIOUS
    <3> QED
      BY ONLY <3>1, Zenon
  <2>2. r = Gate(ls, c)
    BY <1>0, <2>1
  <2> QED
    BY <2>1, <2>2, GateRun
<1>3. group \in Seq(Runs) /\ Len(group) = 1 /\ DOMAIN group = 1..1 /\ group[1] = r
  BY <1>0, <1>2
<1>4. TypeOK
  BY <1>3 DEF TypeOK
<1>5. StageInv
  BY <1>2, <1>3 DEF StageInv
<1>6. RunsEarned
  <2>1. r.labels \ r.drop = {}
    BY <1>2
  <2>2. EarnedOK(r)
    BY <1>1, <2>1 DEF EarnedOK
  <2> QED
    BY <1>3, <2>2 DEF RunsEarned
<1>7. HeadInv /\ RaceInv /\ SuccessWasEarned
  <2>1. ~WillAsk
    BY <1>2, <1>3 DEF WillAsk
  <2> QED
    BY <1>1, <1>3, <2>1 DEF HeadInv, RaceInv, StripComes, CommandsFresh, SuccessWasEarned
<1>8. CalmInv
  <2>1. group # <<>> /\ Current = r
    BY <1>3, Emptiness DEF Current
  <2> QED
    BY <1>2, <2>1 DEF CalmInv
<1> QED
  BY <1>3, <1>4, <1>5, <1>6, <1>7, <1>8 DEF IInv, GroupInv

\* A push: its run will not post success before lgtm and approved are back.
LEMMA PushKeeps == IInv /\ Push => IInv'
<1> SUFFICES ASSUME IInv, Push PROVE IInv'
  OBVIOUS
<1>0. PICK r : r = Strip(labels, head + 1)
  OBVIOUS
<1>1. TypeOK /\ GroupInv /\ HeadInv /\ RaceInv /\ SuccessWasEarned /\ CalmInv
  BY DEF IInv
<1>2. labels \in SUBSET Labels /\ head + 1 \in 1..MaxPushes
  BY <1>1, MergeGateAssumption DEF Push, TypeOK
<1>3. /\ labels' = labels /\ head' = head + 1 /\ stale' = labels \cap Review /\ Grows /\ HeadInv'
      /\ right' \subseteq 1..MaxPushes /\ reviewed' \subseteq right' /\ raced' \subseteq 1..MaxPushes
      /\ WillAsk => head' \in raced'
  <2>1. Become(labels, head + 1, labels \cap Review) /\ Raced(head + 1, WillAsk) /\ WillAsk \in BOOLEAN
    BY DEF Push, WillAsk
  <2>2. /\ labels' = labels /\ head' = head + 1 /\ stale' = labels \cap Review
        /\ right \subseteq right' /\ reviewed \subseteq reviewed'
        /\ right' \subseteq 1..MaxPushes /\ reviewed' \subseteq right' /\ HeadInv'
    BY <1>1, <1>2, <2>1, Becoming
  <2>3. raced \subseteq raced' /\ raced' \subseteq 1..MaxPushes /\ (WillAsk => head + 1 \in raced')
    BY <1>1, <1>2, <2>1, Racing
  <2> QED
    BY <2>2, <2>3 DEF Grows
<1>4. /\ r \in Runs /\ StageOK(r) /\ r # Ignored
      /\ r.labels = labels /\ r.sha = head + 1 /\ r.kind = "strip" /\ ~Right(r.labels \ r.drop)
      /\ r.drop = labels \cap Review
  <2>1. /\ r \in Runs /\ StageOK(r) /\ r # Ignored
        /\ r.labels = labels /\ r.sha = head + 1 /\ r.kind = "strip" /\ ~Right(r.labels \ r.drop)
    BY <1>0, <1>2, StripRun
  <2>2. r.drop = labels \cap Review
    BY <1>0 DEF Strip, Run
  <2> QED
    BY <2>1, <2>2
<1>5. group' = Enqueued(group, r) /\ undisturbed' = (group = <<>>) /\ status' = status
  BY <1>0 DEF Push
<1>6. GroupInv'
  BY <1>1, <1>3, <1>4, <1>5, Arrives DEF EarnedOK
<1>7. TypeOK'
  <2>1. events' \in 0..MaxEvents /\ undisturbed' \in BOOLEAN
    BY <1>1, MergeGateAssumption DEF TypeOK, Push, Counted
  <2> QED
    BY <1>1, <1>2, <1>3, <1>5, <1>6, <2>1 DEF TypeOK, GroupInv
<1>8. CalmInv'
  <2>1. undisturbed' => group' # <<>> /\ group'[1] = r
    BY <1>1, <1>4, <1>5, Enqueuing DEF GroupInv
  <2> QED
    BY <1>3, <1>4, <2>1 DEF CalmInv, Current
<1>9. SuccessWasEarned'
  BY <1>1, <1>3, <1>5, StatusKept
<1>10. RaceInv'
  <2>1. /\ group' # <<>> /\ DOMAIN group' = 1..Len(group') /\ Len(group') \in 1..2
        /\ Len(group') = 2 => group'[2] = r
        /\ IF group = <<>> THEN group'[1] = r ELSE group'[1] = group[1] /\ Len(group') = 2
    BY <1>1, <1>4, <1>5, Enqueuing DEF GroupInv
  <2>2. CASE group = <<>>
    <3>1. ~WillAsk' /\ 1 \in DOMAIN group' /\ group'[1] = r
      BY <1>4, <2>1, <2>2 DEF WillAsk
    <3> QED
      BY <1>3, <1>4, <2>1, <3>1 DEF RaceInv, StripComes, CommandsFresh
  <2>3. CASE group # <<>>
    <3>1. (WillAsk' => WillAsk) /\ 2 \in DOMAIN group' /\ group'[2] = r /\ Len(group') = 2
      BY <2>1, <2>3 DEF WillAsk
    <3> QED
      BY <1>3, <1>4, <3>1 DEF RaceInv, StripComes, CommandsFresh
  <2> QED
    BY <2>2, <2>3
<1> QED
  BY <1>3, <1>6, <1>7, <1>8, <1>9, <1>10 DEF IInv

\* A change of a label by a person: its run knows the labels after it.
LEMMA RelabelKeeps == ASSUME NEW l \in Labels PROVE IInv /\ Relabel(l) => IInv'
<1> SUFFICES ASSUME IInv, Relabel(l) PROVE IInv'
  OBVIOUS
<1>1. TypeOK /\ GroupInv /\ HeadInv /\ RaceInv /\ SuccessWasEarned /\ CalmInv
  BY DEF IInv
<1>2. PICK ls \in SUBSET Labels, st \in SUBSET Review :
        st \subseteq ls /\ Become(ls, head, st) /\ Raced(head, st # {})
  <2>1. PICK ls : /\ ls = IF l \in labels THEN labels \ {l} ELSE labels \cup {l}
                  /\ Become(ls, head, stale \ {l}) /\ Raced(head, stale \ {l} # {})
    BY DEF Relabel
  <2>2. ls \in SUBSET Labels /\ stale \ {l} \in SUBSET Review /\ stale \ {l} \subseteq ls
    BY <1>1, <2>1 DEF TypeOK
  <2> QED
    BY <2>1, <2>2
<1>0. PICK r : r = Gate(ls, head)
  OBVIOUS
<1>3. /\ labels' = ls /\ head' = head /\ stale' = st /\ Grows /\ HeadInv'
      /\ right' \subseteq 1..MaxPushes /\ reviewed' \subseteq right' /\ raced' \subseteq 1..MaxPushes
      /\ st # {} => head \in raced'
      /\ head \in 1..MaxPushes
  <2>1. head \in 1..MaxPushes /\ st \in SUBSET (ls \cap Review) /\ (st # {}) \in BOOLEAN
    BY <1>1, <1>2 DEF TypeOK
  <2>2. /\ labels' = ls /\ head' = head /\ stale' = st
        /\ right \subseteq right' /\ reviewed \subseteq reviewed'
        /\ right' \subseteq 1..MaxPushes /\ reviewed' \subseteq right' /\ HeadInv'
    BY <1>1, <1>2, <2>1, Becoming
  <2>3. raced \subseteq raced' /\ raced' \subseteq 1..MaxPushes /\ (st # {} => head \in raced')
    BY <1>1, <1>2, <2>1, Racing
  <2> QED
    BY <2>1, <2>2, <2>3 DEF Grows
<1>4. /\ r \in Runs /\ StageOK(r) /\ r # Ignored
      /\ r.labels = ls /\ r.sha = head /\ r.drop = {} /\ r.kind = "gate"
  BY <1>0, <1>3, GateRun
<1>5. group' = Enqueued(group, r) /\ undisturbed' = (group = <<>>) /\ status' = status
  BY <1>0, <1>3 DEF Relabel
<1>6. GroupInv'
  <2>1. r.labels \ r.drop = labels' /\ r.sha = head'
    BY <1>3, <1>4
  <2>2. EarnedOK(r)'
    BY <1>3, <2>1 DEF EarnedOK, Earned, HeadInv, Right
  <2> QED
    BY <1>1, <1>3, <1>4, <1>5, <2>2, Arrives
<1>7. TypeOK'
  <2>1. events' \in 0..MaxEvents /\ undisturbed' \in BOOLEAN
    BY <1>1, MergeGateAssumption DEF TypeOK, Relabel, Counted
  <2> QED
    BY <1>1, <1>3, <1>5, <1>6, <2>1 DEF TypeOK, GroupInv
<1>8. CalmInv'
  <2>1. undisturbed' => group' # <<>> /\ group'[1] = r
    BY <1>1, <1>4, <1>5, Enqueuing DEF GroupInv
  <2> QED
    BY <1>3, <1>4, <2>1 DEF CalmInv, Current
<1>9. SuccessWasEarned'
  BY <1>1, <1>3, <1>5, StatusKept
<1>10. RaceInv'
  <2>1. /\ Len(group') = 2 => group'[2] = r
        /\ IF group = <<>> THEN group'[1] = r ELSE group'[1] = group[1] /\ Len(group') = 2
    BY <1>1, <1>4, <1>5, Enqueuing DEF GroupInv
  <2>2. WillAsk' => WillAsk /\ group'[1] = group[1]
    BY <1>4, <2>1 DEF WillAsk
  <2> QED
    BY <1>1, <1>3, <1>4, <2>1, <2>2 DEF RaceInv, StripComes, CommandsFresh, Grows
<1> QED
  BY <1>3, <1>6, <1>7, <1>8, <1>9, <1>10 DEF IInv

\* A comment: a command will ask for the labels, any other does nothing.
LEMMA CommentKeeps == ASSUME NEW r \in Commands \cup {Ignored} PROVE IInv /\ Comment(r) => IInv'
<1> SUFFICES ASSUME IInv, Comment(r) PROVE IInv'
  OBVIOUS
<1>1. TypeOK /\ GroupInv /\ HeadInv /\ RaceInv /\ SuccessWasEarned /\ CalmInv
  BY DEF IInv
<1>2. /\ r \in Runs /\ StageOK(r) /\ r.sha = 0 /\ (r # Ignored <=> r.kind = "command")
      /\ r # Ignored => r.for = head
  BY <1>1, CommentRun
<1>3. /\ UNCHANGED <<labels, head, stale, right, reviewed, status>> /\ group' = Enqueued(group, r)
      /\ Grows /\ raced' \subseteq 1..MaxPushes
      /\ Len(group) = 2 /\ group[2].kind = "strip" /\ group[2].drop # {} => head \in raced'
  <2>1. PICK b \in BOOLEAN : /\ b <=> Len(group) = 2 /\ group[2].kind = "strip" /\ group[2].drop # {}
                             /\ Raced(head, b)
    BY DEF Comment, Raced
  <2>2. raced \subseteq raced' /\ raced' \subseteq 1..MaxPushes /\ (b => head \in raced')
    BY <1>1, <2>1, Racing DEF TypeOK
  <2> QED
    BY <2>1, <2>2 DEF Comment, pull, Grows
<1>4. GroupInv'
  BY <1>1, <1>2, <1>3, Arrives DEF EarnedOK
<1>5. TypeOK'
  <2>1. events' \in 0..MaxEvents /\ undisturbed' \in BOOLEAN
    <3>1. events' \in 0..MaxEvents
      BY <1>1, MergeGateAssumption DEF TypeOK, Comment, Counted
    <3>2. undisturbed' = TRUE \/ undisturbed' = undisturbed
      BY DEF Comment
    <3> QED
      BY <1>1, <3>1, <3>2 DEF TypeOK
  <2> QED
    BY <1>1, <1>3, <1>4, <2>1 DEF TypeOK, GroupInv
<1>6. CalmInv'
  <2>1. group' # <<>> /\ IF group = <<>> THEN group'[1] = r ELSE group'[1] = group[1]
    BY <1>1, <1>2, <1>3, Enqueuing DEF GroupInv
  <2>2. CASE group = <<>>
    BY <1>1, <1>2, <1>3, <2>1, <2>2 DEF CalmInv, Current, Comment
  <2>3. CASE group # <<>>
    BY <1>1, <1>3, <2>1, <2>3 DEF CalmInv, Current, Comment
  <2> QED
    BY <2>2, <2>3
<1>7. SuccessWasEarned' /\ HeadInv'
  BY <1>1, <1>3, StatusKept DEF HeadInv
<1>8. RaceInv'
  <2>1. /\ group' # <<>> /\ DOMAIN group' = 1..Len(group') /\ Len(group') \in 1..2
        /\ Len(group') = 2 => group'[2] = r
        /\ IF group = <<>> THEN group'[1] = r ELSE group'[1] = group[1] /\ Len(group') = 2
    BY <1>1, <1>2, <1>3, Enqueuing DEF GroupInv
  <2>2. DOMAIN group = 1..Len(group) /\ (group = <<>> <=> Len(group) = 0) /\ Len(group) \in 0..2
    <3>1. Len(group) \in Nat /\ DOMAIN group = 1..Len(group) /\ (group = <<>> <=> Len(group) = 0)
      BY <1>1, Emptiness DEF GroupInv
    <3> QED
      BY <1>1, <3>1 DEF GroupInv
  <2>3. CommandsFresh'
    BY <1>1, <1>2, <1>3, <2>1 DEF RaceInv, CommandsFresh, WillAsk, Grows
  <2>4. StripComes'
    <3> SUFFICES ASSUME stale # {}, head \notin raced'
                 PROVE  \E i \in DOMAIN group' :
                          /\ group'[i].kind = "strip" /\ group'[i].sha = head /\ stale \subseteq group'[i].drop
                          /\ i # 1 => ~WillAsk'
      BY <1>3 DEF StripComes
    <3>1. PICK i \in DOMAIN group :
            group[i].kind = "strip" /\ group[i].sha = head /\ stale \subseteq group[i].drop
      BY <1>1, <1>3 DEF RaceInv, StripComes, Grows
    <3>2. i = 1
      BY <1>3, <2>2, <3>1
    <3> QED
      BY <2>1, <2>2, <3>1, <3>2
  <2> QED
    BY <2>3, <2>4 DEF RaceInv
<1> QED
  BY <1>4, <1>5, <1>6, <1>7, <1>8 DEF IInv

-----------------------------------------------------------------------------
(* The run in progress.                                                    *)

\* What the invariant says of the run in progress.
LEMMA InProgress ==
  ASSUME GroupInv, group # <<>>
  PROVE  Current \in Runs /\ StageOK(Current) /\ EarnedOK(Current) /\ 1 \in DOMAIN group
<1>1. 1 \in DOMAIN group /\ group[1] \in Runs
  <2>1. Len(group) \in Nat /\ DOMAIN group = 1..Len(group) /\ Len(group) # 0
    BY Emptiness DEF GroupInv
  <2> QED
    BY <2>1, ElementOfSeq DEF GroupInv
<1> QED
  BY <1>1 DEF GroupInv, StageInv, RunsEarned, Current

\* A run that ends leaves the right status behind, or the group is no longer
\* undisturbed, or the run that follows will see to it.
LEMMA FinishKeeps ==
  ASSUME IInv, group # <<>>, NEW well \in BOOLEAN, Finish(well),
         UNCHANGED <<pull, events>>, Grows, raced' \subseteq 1..MaxPushes,
         Current.kind = "strip" /\ Current.sha = head /\ stale \subseteq Current.drop /\ stale # {}
           => head \in raced',
         status' \in [1..MaxPushes -> {"none", "pending", "success"}], SuccessWasEarned',
         well /\ undisturbed => status'[head] = Decide(labels)
  PROVE  IInv'
<1>1. TypeOK /\ GroupInv /\ HeadInv /\ RaceInv /\ UNCHANGED <<labels, head, stale, right, reviewed>>
  BY DEF IInv, pull
<1>2. GroupInv'
  BY <1>1, Leaves DEF Finish
<1>3. TypeOK'
  <2>1. undisturbed' \in BOOLEAN
    BY <1>1 DEF Finish, TypeOK
  <2> QED
    BY <1>1, <1>2, <2>1 DEF TypeOK, GroupInv
<1>4. /\ Len(group) = 1 => group' = <<>>
      /\ Len(group) # 1 => Len(group) = 2 /\ group' # <<>> /\ group'[1] = group[2] /\ 1 \in DOMAIN group'
      /\ DOMAIN group = 1..Len(group) /\ Len(group') <= 1
  BY <1>1, Leaving DEF GroupInv, Finish
<1>5. CalmInv'
  <2>1. CASE Len(group) = 1 \/ group[2] = Ignored
    <3>1. undisturbed' => well /\ undisturbed
      BY <2>1 DEF Finish
    <3>2. group' = <<>> \/ group'[1] = Ignored
      BY <1>4, <2>1
    <3> QED
      BY <1>1, <3>1, <3>2 DEF CalmInv, Current, Decide
  <2>2. CASE ~(Len(group) = 1 \/ group[2] = Ignored)
    <3>1. Len(group) = 2 /\ group' # <<>> /\ group'[1] = group[2] /\ group[2] # Ignored
      BY <1>4, <2>2
    <3>2. group[2].kind = "command" => group[2].sha = 0
      BY <1>1, <3>1 DEF GroupInv, StageInv
    <3>3. undisturbed' => group[2].kind = "command" \/ (group[2].labels = labels /\ group[2].sha = head)
      BY <2>2 DEF Finish
    <3> QED
      BY <1>1, <3>1, <3>2, <3>3 DEF CalmInv, Current
  <2> QED
    BY <2>1, <2>2
<1>6. StripComes'
  <2> SUFFICES ASSUME stale # {}, head \notin raced'
               PROVE  \E i \in DOMAIN group' :
                        /\ group'[i].kind = "strip" /\ group'[i].sha = head /\ stale \subseteq group'[i].drop
                        /\ i # 1 => ~WillAsk'
    BY <1>1 DEF StripComes
  <2>1. PICK i \in DOMAIN group :
          group[i].kind = "strip" /\ group[i].sha = head /\ stale \subseteq group[i].drop
    BY <1>1 DEF RaceInv, StripComes, Grows
  <2>2. i = 2 /\ Len(group) # 1
    BY <1>4, <2>1 DEF Current
  <2> QED
    BY <1>4, <2>1, <2>2
<1>7. CommandsFresh'
  BY <1>1, <1>4, <1>2 DEF RaceInv, CommandsFresh, WillAsk, GroupInv
<1> QED
  BY <1>1, <1>2, <1>3, <1>5, <1>6, <1>7 DEF IInv, HeadInv, RaceInv

\* A run that fails leaves the status as it was, and is a disturbance; one that
\* does nothing leaves it as it was.
LEMMA EndKeeps == IInv /\ (Fail \/ Ignore) => IInv'
<1> SUFFICES ASSUME IInv, Fail \/ Ignore PROVE IInv'
  OBVIOUS
<1>1. TypeOK /\ GroupInv /\ SuccessWasEarned /\ status' = status /\ group # <<>>
      /\ UNCHANGED <<pull, events>>
  BY DEF IInv, Fail, Ignore
<1>2. Current \in Runs
  BY <1>1, InProgress
<1>3. CASE Fail
  <2>1. PICK b \in BOOLEAN : (b <=> Current.kind = "strip" /\ Current.drop # {}) /\ Raced(Current.sha, b)
    BY <1>3 DEF Fail, Raced
  <2>2. b => Current.sha \in 1..MaxPushes
    <3>1. StageOK(Current)
      BY <1>1, InProgress
    <3> QED
      BY <1>2, <2>1, <3>1, MergeGateAssumption DEF StageOK, Runs
  <2>3. raced \subseteq raced' /\ raced' \subseteq 1..MaxPushes /\ (b => Current.sha \in raced')
    BY <1>1, <2>1, <2>2 DEF Raced, TypeOK
  <2>4. Grows
    BY <1>1, <2>3 DEF Grows, pull
  <2>5. SuccessWasEarned'
    BY <1>1, <2>4, StatusKept
  <2>6. Current.kind = "strip" /\ Current.sha = head /\ stale \subseteq Current.drop /\ stale # {}
          => head \in raced'
    BY <2>1, <2>3
  <2> QED
    BY <1>1, <1>3, <2>3, <2>4, <2>5, <2>6, FinishKeeps DEF Fail, TypeOK
<1>4. CASE Ignore
  <2>1. undisturbed => status'[head] = Decide(labels)
    BY <1>4 DEF Ignore, IInv, CalmInv
  <2>2. Grows /\ raced' \subseteq 1..MaxPushes /\ Current.kind # "strip"
    BY <1>1, <1>4 DEF Ignore, Grows, pull, TypeOK, Ignored, Run
  <2>3. SuccessWasEarned'
    BY <1>1, <2>2, StatusKept
  <2> QED
    BY <1>1, <1>4, <2>1, <2>2, <2>3, FinishKeeps DEF Ignore, TypeOK
<1> QED
  BY <1>3, <1>4

\* A run posts success only for a commit that earned it, and what an
\* undisturbed run posts is right.
LEMMA PostKeeps == IInv /\ Post => IInv'
<1> SUFFICES ASSUME IInv, Post PROVE IInv'
  OBVIOUS
<1>1. TypeOK /\ GroupInv /\ SuccessWasEarned /\ CalmInv
  BY DEF IInv
<1>2. Current \in Runs /\ EarnedOK(Current) /\ Current.sha # 0 /\ Current.drop = {}
  BY <1>1, InProgress DEF Post
<1>3. Current.sha \in 1..MaxPushes
  BY <1>2, MergeGateAssumption DEF Runs
<1>4. /\ status' = [status EXCEPT ![Current.sha] = Decide(Current.labels)]
      /\ Decide(Current.labels) \in {"pending", "success"}
  BY DEF Post, Decide
<1>5. status' \in [1..MaxPushes -> {"none", "pending", "success"}]
  BY <1>1, <1>4 DEF TypeOK
<1>6. SuccessWasEarned'
  <2>1. Decide(Current.labels) = "success" => Earned(Current.sha)
    <3>1. Current.labels \ Current.drop = Current.labels
      BY <1>2
    <3> QED
      BY <1>2, <3>1 DEF Decide, EarnedOK, Right
  <2> QED
    BY <1>1, <1>3, <1>4, <2>1 DEF TypeOK, SuccessWasEarned, Earned, Post, pull
<1>7. undisturbed => status'[head] = Decide(labels)
  <2>1. Current # Ignored
    BY <1>2 DEF Ignored, Run
  <2>2. undisturbed => Current.labels = labels /\ Current.sha = head
    BY <1>1, <1>2, <2>1 DEF CalmInv, Post
  <2> QED
    BY <1>1, <1>3, <1>4, <2>2 DEF TypeOK
<1>8. Grows /\ raced' \subseteq 1..MaxPushes
  BY <1>1 DEF Post, Grows, pull, TypeOK
<1> QED
  BY <1>2, <1>5, <1>6, <1>7, <1>8, FinishKeeps DEF Post

\* A label is removed from the pull request and from what the run knows.
LEMMA DropKeeps == IInv /\ Drop => IInv'
<1> SUFFICES ASSUME IInv, Drop PROVE IInv'
  OBVIOUS
<1>1. TypeOK /\ GroupInv /\ RaceInv /\ SuccessWasEarned /\ CalmInv
  BY DEF IInv
<1>2. /\ Current \in Runs /\ StageOK(Current) /\ EarnedOK(Current) /\ group # <<>>
      /\ UNCHANGED <<status, events, undisturbed, raced>>
  BY <1>1, InProgress DEF Drop
<1>3. PICK l \in Current.drop : Become(labels \ {l}, head, stale \ {l})
        /\ group' = [group EXCEPT ![1].drop = @ \ {l}, ![1].labels = @ \ {l}]
  BY DEF Drop
<1>4. PICK r : r = [Current EXCEPT !.drop = @ \ {l}, !.labels = @ \ {l}]
  OBVIOUS
<1>5. /\ r \in Runs /\ r.kind = Current.kind /\ r.add = Current.add /\ r.sha = Current.sha
      /\ r.drop = Current.drop \ {l} /\ r.labels = Current.labels \ {l}
  BY <1>2, <1>4 DEF Runs
<1>6. group' = [group EXCEPT ![1] = r]
  BY <1>3, <1>4 DEF Current
<1>7. /\ labels' = labels \ {l} /\ head' = head /\ stale' = stale \ {l} /\ Grows /\ HeadInv'
      /\ right' \subseteq 1..MaxPushes /\ reviewed' \subseteq right'
      /\ stale' \subseteq labels' \cap Review
  <2>1. /\ labels \ {l} \in SUBSET Labels /\ head \in 1..MaxPushes
        /\ stale \ {l} \in SUBSET ((labels \ {l}) \cap Review)
    BY <1>1 DEF TypeOK
  <2>2. /\ labels' = labels \ {l} /\ head' = head /\ stale' = stale \ {l}
        /\ right \subseteq right' /\ reviewed \subseteq reviewed'
        /\ right' \subseteq 1..MaxPushes /\ reviewed' \subseteq right' /\ HeadInv'
    BY <1>1, <1>3, <2>1, Becoming
  <2> QED
    BY <1>2, <2>1, <2>2 DEF Grows
<1>8. GroupInv'
  <2>1. Current # Ignored
    BY <1>3 DEF Ignored, Run
  <2>2. StageOK(r)
    BY <1>2, <1>3, <1>5, <2>1 DEF StageOK
  <2>3. r.labels \ r.drop = Current.labels \ Current.drop
    BY <1>3, <1>5
  <2>4. EarnedOK(r)'
    BY <1>2, <1>5, <1>7, <2>3 DEF EarnedOK, Earned, Grows
  <2> QED
    BY <1>1, <1>2, <1>5, <1>6, <1>7, <2>2, <2>4, Works
<1>9. TypeOK'
  BY <1>1, <1>2, <1>7, <1>8 DEF TypeOK, GroupInv
<1>10. CalmInv'
  <2>1. group' # <<>> /\ group'[1] = r
    BY <1>1, <1>2, <1>5, <1>6, Working DEF GroupInv
  <2>2. Current # Ignored
    BY <1>3 DEF Ignored, Run
  <2>3. r # Ignored
    BY <1>2, <1>5, <2>2 DEF StageOK, Ignored, Run
  <2> QED
    BY <1>1, <1>2, <1>5, <1>7, <2>1, <2>2, <2>3 DEF CalmInv, Current
<1>11. RaceInv'
  <2>1. /\ group'[1] = r /\ (Len(group) = 2 => group'[2] = group[2]) /\ group' # <<>>
        /\ Len(group') = Len(group) /\ DOMAIN group' = DOMAIN group
        /\ \A i \in DOMAIN group : i # 1 => group'[i] = group[i]
    BY <1>1, <1>2, <1>5, <1>6, Working DEF GroupInv
  <2>2. r.for = Current.for /\ (WillAsk' <=> WillAsk)
    BY <1>2, <1>4, <1>5, <2>1 DEF Runs, WillAsk, Current
  <2>3. CommandsFresh'
    BY <1>1, <1>2, <1>7, <2>1, <2>2 DEF RaceInv, CommandsFresh, Current
  <2>4. StripComes'
    <3> SUFFICES ASSUME stale' # {}, head \notin raced
                 PROVE  \E i \in DOMAIN group' :
                          /\ group'[i].kind = "strip" /\ group'[i].sha = head /\ stale' \subseteq group'[i].drop
                          /\ i # 1 => ~WillAsk'
      BY <1>2, <1>7 DEF StripComes
    <3>1. PICK i \in DOMAIN group :
            /\ group[i].kind = "strip" /\ group[i].sha = head /\ stale \subseteq group[i].drop
            /\ i # 1 => ~WillAsk
      BY <1>1, <1>7 DEF RaceInv, StripComes
    <3>2. CASE i = 1
      BY <1>5, <1>7, <2>1, <3>1, <3>2 DEF Current
    <3>3. CASE i # 1
      BY <1>7, <2>1, <2>2, <3>1, <3>3
    <3> QED
      BY <3>2, <3>3
  <2> QED
    BY <2>3, <2>4 DEF RaceInv
<1> QED
  BY <1>1, <1>2, <1>7, <1>8, <1>9, <1>10, <1>11, StatusKept DEF IInv

\* A command adds its label before it knows of a commit.
LEMMA AddKeeps == IInv /\ Add => IInv'
<1> SUFFICES ASSUME IInv, Add PROVE IInv'
  OBVIOUS
<1>1. TypeOK /\ GroupInv /\ RaceInv /\ SuccessWasEarned /\ CalmInv
  BY DEF IInv
<1>2. /\ Current \in Runs /\ StageOK(Current) /\ group # <<>> /\ Current.add # {}
      /\ UNCHANGED <<status, events, undisturbed, raced>>
  BY <1>1, InProgress DEF Add
<1>3. Current.kind = "command" /\ Current.sha = 0 /\ WillAsk
  BY <1>2 DEF StageOK, WillAsk, Current
<1>4. PICK r : r = [Current EXCEPT !.add = {}]
  OBVIOUS
<1>5. /\ r \in Runs /\ r.kind = "command" /\ r.add = {} /\ r.sha = 0
  BY <1>2, <1>3, <1>4 DEF Runs
<1>6. group' = [group EXCEPT ![1] = r]
  BY <1>4 DEF Add, Current
<1>7. /\ labels' = labels \cup Current.add /\ head' = head /\ Grows /\ HeadInv'
      /\ labels' \subseteq Labels /\ stale' \subseteq labels' \cap Review
      /\ right' \subseteq 1..MaxPushes /\ reviewed' \subseteq right'
      /\ Current.for = head => stale' = stale \ Current.add
  <2>1. PICK st : /\ st = IF Current.for = head THEN stale \ Current.add
                          ELSE stale \cup ((Current.add \cap Review) \ labels)
                  /\ Become(labels \cup Current.add, head, st)
    BY DEF Add
  <2>2. /\ labels \cup Current.add \in SUBSET Labels /\ head \in 1..MaxPushes
        /\ st \in SUBSET ((labels \cup Current.add) \cap Review)
    BY <1>1, <1>2, <2>1 DEF TypeOK, Runs
  <2>3. /\ labels' = labels \cup Current.add /\ head' = head /\ stale' = st
        /\ right \subseteq right' /\ reviewed \subseteq reviewed'
        /\ right' \subseteq 1..MaxPushes /\ reviewed' \subseteq right' /\ HeadInv'
    BY <1>1, <2>1, <2>2, Becoming
  <2> QED
    BY <1>2, <2>1, <2>2, <2>3 DEF Grows
<1>8. GroupInv'
  BY <1>1, <1>2, <1>5, <1>6, <1>7, Works DEF StageOK, EarnedOK
<1>9. TypeOK'
  BY <1>1, <1>2, <1>7, <1>8 DEF TypeOK, GroupInv
<1>10. CalmInv'
  <2>1. group' # <<>> /\ group'[1] = r
    BY <1>1, <1>2, <1>5, <1>6, Working DEF GroupInv
  <2>2. r # Ignored
    BY <1>5 DEF Ignored, Run
  <2> QED
    BY <1>5, <2>1, <2>2 DEF CalmInv, Current
<1>11. RaceInv'
  <2>1. /\ group'[1] = r /\ (Len(group) = 2 => group'[2] = group[2]) /\ group' # <<>>
        /\ Len(group') = Len(group) /\ DOMAIN group' = DOMAIN group
    BY <1>1, <1>2, <1>5, <1>6, Working DEF GroupInv
  <2>2. r.for = Current.for
    BY <1>2, <1>4 DEF Runs
  <2>3. CommandsFresh'
    BY <1>1, <1>2, <1>3, <1>7, <2>1, <2>2 DEF RaceInv, CommandsFresh, Current
  <2>4. head \notin raced => stale = {}
    BY <1>1, <1>3 DEF RaceInv, StripComes, Current
  <2>5. head \notin raced => Current.for = head
    BY <1>1, <1>3 DEF RaceInv, CommandsFresh, Current
  <2>6. StripComes'
    BY <1>2, <1>7, <2>4, <2>5 DEF StripComes
  <2> QED
    BY <2>3, <2>6 DEF RaceInv
<1> QED
  BY <1>1, <1>2, <1>7, <1>8, <1>9, <1>10, <1>11, StatusKept DEF IInv

\* A command learns the labels and the commit of the moment.
LEMMA FetchKeeps == IInv /\ Fetch => IInv'
<1> SUFFICES ASSUME IInv, Fetch PROVE IInv'
  OBVIOUS
<1>1. TypeOK /\ GroupInv /\ HeadInv /\ RaceInv /\ SuccessWasEarned
  BY DEF IInv
<1>2. /\ Current \in Runs /\ group # <<>> /\ Current.kind = "command"
      /\ Current.drop = {} /\ Current.add = {}
      /\ UNCHANGED <<labels, head, stale, right, reviewed, status, events, undisturbed, raced>>
      /\ Grows /\ WillAsk
  BY <1>1, InProgress DEF Fetch, pull, Grows, WillAsk, Current
<1>3. PICK r : r = [Current EXCEPT !.labels = labels, !.sha = head]
  OBVIOUS
<1>4. /\ r \in Runs /\ r.kind = "command" /\ r.drop = {} /\ r.add = {}
      /\ r.labels = labels /\ r.sha = head
  <2>1. labels \in SUBSET Labels /\ head \in 0..MaxPushes
    BY <1>1, MergeGateAssumption DEF TypeOK
  <2>2. PICK q \in Runs : q = Current
    BY <1>2
  <2>3. q.kind = "command" /\ q.drop = {} /\ q.add = {} /\ r = [q EXCEPT !.labels = labels, !.sha = head]
    BY <1>2, <1>3, <2>2
  <2> QED
    BY <2>1, <2>2, <2>3 DEF Runs
<1>5. group' = [group EXCEPT ![1] = r]
  BY <1>3 DEF Fetch, Current
<1>6. r # Ignored
  BY <1>4 DEF Ignored, Run
<1>7. GroupInv'
  <2>1. StageOK(r)
    BY <1>4 DEF StageOK
  <2>2. r.labels \ r.drop = labels
    BY <1>4
  <2>3. EarnedOK(r)'
    <3>1. stale # {} => head \in raced
      BY <1>1, <1>2 DEF RaceInv, StripComes, Current
    <3> QED
      BY <1>1, <1>2, <1>4, <2>2, <3>1 DEF EarnedOK, Earned, HeadInv
  <2> QED
    BY <1>1, <1>2, <1>4, <1>5, <2>1, <2>3, Works
<1>8. TypeOK'
  BY <1>1, <1>2, <1>7 DEF TypeOK, GroupInv
<1>9. CalmInv'
  <2>1. group' # <<>> /\ group'[1] = r
    BY <1>1, <1>2, <1>4, <1>5, Working DEF GroupInv
  <2> QED
    BY <1>2, <1>4, <1>6, <2>1 DEF CalmInv, Current
<1>10. RaceInv'
  <2>1. /\ group'[1] = r /\ (Len(group) = 2 => group'[2] = group[2]) /\ group' # <<>>
        /\ Len(group') = Len(group)
    BY <1>1, <1>2, <1>4, <1>5, Working DEF GroupInv
  <2>2. ~WillAsk'
    BY <1>1, <1>4, <2>1, MergeGateAssumption DEF WillAsk, TypeOK
  <2>3. CommandsFresh'
    BY <1>1, <1>2, <2>1, <2>2 DEF RaceInv, CommandsFresh
  <2>4. stale # {} => head \in raced
    BY <1>1, <1>2 DEF RaceInv, StripComes, Current
  <2> QED
    BY <1>2, <2>3, <2>4 DEF RaceInv, StripComes
<1> QED
  BY <1>1, <1>2, <1>7, <1>8, <1>9, <1>10, StatusKept DEF IInv, HeadInv

-----------------------------------------------------------------------------
(* The theorems.                                                           *)

\* The inductive invariant: every event and every step of a run keeps it.
LEMMA StepInv == IInv /\ [Next]_vars => IInv'
<1> SUFFICES ASSUME IInv, [Next]_vars PROVE IInv'
  OBVIOUS
<1>1. CASE UNCHANGED vars
  BY <1>1 DEF vars, pull, IInv, TypeOK, GroupInv, StageInv, RunsEarned, EarnedOK, Earned, HeadInv,
              RaceInv, StripComes, CommandsFresh, WillAsk, SuccessWasEarned, CalmInv, Current
<1> QED
  BY <1>1, PushKeeps, RelabelKeeps, CommentKeeps, EndKeeps, PostKeeps, DropKeeps,
     AddKeeps, FetchKeeps DEF Next, Work

\* It holds throughout.
LEMMA Invariance == Spec => []IInv
  BY InitInv, StepInv, PTL DEF Spec

\* Types; the concurrency group never holds more than the run in progress and
\* one that waits.
THEOREM TypeCorrect == Spec => []TypeOK
<1>1. IInv => TypeOK
  BY DEF IInv
<1> QED
  BY <1>1, Invariance, PTL

\* Whatever runs are replaced or fail, whoever comments and however often it is
\* pushed: a commit that no label was given for shows success only if its strip
\* run was replaced or failed, or another run worked on the labels before it.
THEOREM NoUnearnedSuccess == Spec => []SuccessWasEarned
<1>1. IInv => SuccessWasEarned
  BY DEF IInv
<1> QED
  BY <1>1, Invariance, PTL

\* One run that is left alone mends whatever earlier ones left behind.
THEOREM OneCalmRunIsEnough == Spec => []CalmRunHeals
<1>1. IInv => CalmRunHeals
  BY DEF IInv, CalmInv, CalmRunHeals
<1> QED
  BY <1>1, Invariance, PTL
=============================================================================
