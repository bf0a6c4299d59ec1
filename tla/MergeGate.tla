------------------------------- MODULE MergeGate -------------------------------
(***************************************************************************)
(* The repository's merge gate for one pull request: workflow runs set the *)
(* merge-gate status of a commit from the labels.  Runs for pushes, label  *)
(* changes and comments share a concurrency group, in which one runs and   *)
(* one waits; a newer one takes the place of the one that waits.           *)
(* A run for a push or a label change works on the labels and the commit   *)
(* of its event, a chat command asks for those of the moment.  Labels that *)
(* a run changes start no run.                                             *)
(***************************************************************************)
EXTENDS Integers, Sequences, FiniteSets

CONSTANTS MaxPushes, MaxEvents  \* bounds: commits, and events in all

ASSUME MergeGateAssumption == MaxPushes \in Nat \ {0} /\ MaxEvents \in Nat

Review == {"lgtm", "approved"}
Hold   == "do-not-merge/hold"
Labels == Review \cup {Hold, "size/S"}

\* The labels a pull request is merged with.
Right(ls) == Hold \notin ls /\ Review \subseteq ls

VARIABLES
  labels, head,  \* of the pull request; commits are numbered
  status,        \* commit -> "none", "pending" or "success"
  group,         \* the runs of the concurrency group: the one that runs, the one that waits
  events,        \* how many events there have been
  undisturbed,   \* the run in progress, or the last one, started from the labels and the commit
                 \* that were current and has met no change and no failure since
  stale,         \* the review labels on the pull request that were given for an earlier commit
  right,         \* the commits that were the head while all labels were right
  reviewed,      \* those that were it while no label was stale either
  raced          \* the commits whose strip run did not do its work before anyone knew the stale
                 \* labels: it was replaced or failed, or another run works on those labels

pull == <<labels, head, stale, right, reviewed>>
vars == <<pull, status, group, events, undisturbed, raced>>

\* Mutant: a hold is not looked for.
Decide_NoHold(ls) == IF Review \subseteq ls THEN "success" ELSE "pending"

\* decide_state.
Decide(ls) == IF Hold \notin ls /\ Review \subseteq ls THEN "success" ELSE "pending"

-----------------------------------------------------------------------------
(* Events.                                                                 *)

\* A run: what it still has to drop and to add, the labels and the commit it
\* knows of (0: not yet), and the commit a comment was made for (history: the
\* comment does not say it).
Run(kind, drop, add, ls, sha, for) ==
  [kind |-> kind, drop |-> drop, add |-> add, labels |-> ls, sha |-> sha, for |-> for]

\* Mutant: one of the two review labels is forgotten.
Strip_OnlyLgtm(ls, sha) == Run("strip", ls \cap {"lgtm"}, {}, ls, sha, 0)

Gate(ls, sha)         == Run("gate", {}, {}, ls, sha, 0)
Strip(ls, sha)        == Run("strip", ls \cap Review, {}, ls, sha, 0)
Command(drop, add, c) == Run("command", drop, add, {}, 0, c)
Ignored               == Run("ignored", {}, {}, {}, 0, 0)

\* Mutant: every run waits for its turn.
Enqueued_All(runs, r) == Append(runs, r)

\* The concurrency group takes in a run.
Enqueued(runs, r) == IF Len(runs) < 2 THEN Append(runs, r) ELSE <<runs[1], r>>

Init ==
  /\ labels = {} /\ head = 1 /\ status = [c \in 1..MaxPushes |-> "none"]
  /\ group = <<Gate({}, 1)>> /\ events = 0
  /\ undisturbed = TRUE
  /\ stale = {} /\ right = {} /\ reviewed = {} /\ raced = {}

Counted == events < MaxEvents /\ events' = events + 1

\* The labels and the head become ls and h, and st are the labels that are stale.
Become(ls, h, st) ==
  /\ labels' = ls /\ head' = h /\ stale' = st
  /\ right' = IF Right(ls) THEN right \cup {h} ELSE right
  /\ reviewed' = IF Right(ls) /\ st = {} THEN reviewed \cup {h} ELSE reviewed

\* History: the strip run of c is, or is not, too late.
Raced(c, late) == raced' = IF late THEN raced \cup {c} ELSE raced

\* The run in progress, if any, is a command that has yet to ask for the labels.
WillAsk == group # <<>> /\ group[1].kind = "command" /\ group[1].sha = 0

\* synchronize.
Push ==
  /\ Counted /\ head < MaxPushes
  /\ Become(labels, head + 1, labels \cap Review)
  /\ Raced(head + 1, WillAsk)
  /\ group' = Enqueued(group, Strip(labels, head + 1))
  /\ undisturbed' = (group = <<>>)
  /\ UNCHANGED status

\* labeled, unlabeled: a person changes a label.
Relabel(l) ==
  /\ Counted
  /\ Become(IF l \in labels THEN labels \ {l} ELSE labels \cup {l}, head, stale \ {l})
  /\ Raced(head, stale \ {l} # {})
  /\ group' = Enqueued(group, Gate(labels', head))
  /\ undisturbed' = (group = <<>>)
  /\ UNCHANGED status

\* issue_comment: a command of someone who may give it, or anything else.
Comment(r) ==
  /\ Counted
  /\ group' = Enqueued(group, r)
  /\ Raced(head, Len(group) = 2 /\ group[2].kind = "strip" /\ group[2].drop # {})
  /\ undisturbed' = IF group = <<>> /\ r # Ignored THEN TRUE ELSE undisturbed
  /\ UNCHANGED <<pull, status>>

Commands == {Command({}, {l}, head) : l \in Review \cup {Hold}} \cup {Command({Hold}, {}, head)}

-----------------------------------------------------------------------------
(* The run in progress.                                                    *)

Current == group[1]

\* The run ends, well or not, and the one that waits starts.
Finish(well) ==
  /\ group' = Tail(group)
  /\ undisturbed' = IF Len(group) = 1 \/ group[2] = Ignored THEN well /\ undisturbed
                    ELSE group[2].kind = "command" \/ (group[2].labels = labels /\ group[2].sha = head)

\* An answer other than success ends every script where it is.
Fail ==
  /\ group # <<>> /\ Current # Ignored
  /\ Raced(Current.sha, Current.kind = "strip" /\ Current.drop # {})
  /\ Finish(FALSE)
  /\ UNCHANGED <<pull, status, events>>

Ignore ==
  /\ group # <<>> /\ Current = Ignored
  /\ Finish(TRUE)
  /\ UNCHANGED <<pull, status, events, raced>>

\* Mutant: what is removed stays in the set the status is decided from.
Drop_Keeps ==
  /\ group # <<>> /\ Current.drop # {}
  /\ LET l == CHOOSE x \in Current.drop : TRUE
     IN Become(labels \ {l}, head, stale \ {l}) /\ group' = [group EXCEPT ![1].drop = @ \ {l}]
  /\ UNCHANGED <<status, events, undisturbed, raced>>

\* strip_and_report removes lgtm, then approved, /unhold the hold; a label that
\* is gone (404) counts as removed.
Drop ==
  /\ group # <<>> /\ Current.drop # {}
  /\ LET l == IF "lgtm" \in Current.drop THEN "lgtm" ELSE CHOOSE x \in Current.drop : TRUE
     IN /\ Become(labels \ {l}, head, stale \ {l})
        /\ group' = [group EXCEPT ![1].drop = @ \ {l}, ![1].labels = @ \ {l}]
  /\ UNCHANGED <<status, events, undisturbed, raced>>

\* /lgtm, /approve and /hold add a label; carried out after a push it is given
\* for a commit that is the head no more.
Add ==
  /\ group # <<>> /\ Current.add # {}
  /\ Become(labels \cup Current.add, head,
            IF Current.for = head THEN stale \ Current.add
            ELSE stale \cup ((Current.add \cap Review) \ labels))
  /\ group' = [group EXCEPT ![1].add = {}]
  /\ UNCHANGED <<status, events, undisturbed, raced>>

\* refresh_merge_gate_status: the pull request as it is now.
Fetch ==
  /\ group # <<>> /\ Current.kind = "command" /\ Current.drop \cup Current.add = {} /\ Current.sha = 0
  /\ group' = [group EXCEPT ![1].labels = labels, ![1].sha = head]
  /\ UNCHANGED <<pull, status, events, undisturbed, raced>>

\* set_commit_status, the last thing a run does.
Post ==
  /\ group # <<>> /\ Current.sha # 0 /\ Current.drop = {}
  /\ status' = [status EXCEPT ![Current.sha] = Decide(Current.labels)]
  /\ Finish(TRUE)
  /\ UNCHANGED <<pull, events, raced>>

Work == Fail \/ Ignore \/ Drop \/ Add \/ Fetch \/ Post

Next ==
  \/ Push
  \/ \E l \in Labels : Relabel(l)
  \/ \E r \in Commands \cup {Ignored} : Comment(r)
  \/ Work
  \/ events = MaxEvents /\ group = <<>> /\ UNCHANGED vars

Spec == Init /\ [][Next]_vars

-----------------------------------------------------------------------------

Runs == [kind : {"gate", "strip", "command", "ignored"},
         drop : SUBSET Labels, add : SUBSET Labels, labels : SUBSET Labels,
         sha : 0..MaxPushes, for : 0..MaxPushes]

TypeOK ==
  /\ labels \subseteq Labels /\ head \in 1..MaxPushes
  /\ status \in [1..MaxPushes -> {"none", "pending", "success"}]
  /\ group \in Seq(Runs) /\ Len(group) <= 2
  /\ events \in 0..MaxEvents
  /\ undisturbed \in BOOLEAN
  /\ stale \subseteq labels \cap Review
  /\ right \subseteq 1..MaxPushes /\ reviewed \subseteq right /\ raced \subseteq 1..MaxPushes

\* A commit has the status success only if it was once the head while the
\* labels were right, and then each of lgtm and approved was given for this
\* very commit, unless its strip run was replaced, failed, or came after a run
\* that works on labels from before it.  Nothing else lets an unreviewed commit
\* through: no order of pushes, no command carried out late, no other failure.
SuccessWasEarned ==
  \A c \in 1..MaxPushes :
    status[c] = "success" => c \in right /\ (c \in reviewed \/ c \in raced)

\* "A new commit drops lgtm and approved (holds stay) and posts the corrected
\* status": no commit has the status success from labels an earlier one was
\* given.  It is not so: see the README.
NewCommitDropsReview == \A c \in 1..MaxPushes : status[c] = "success" => c \in reviewed

\* Whatever went wrong before, after a run that started from current labels
\* and met neither a change nor a failure the status of the head is the one
\* the labels call for.
CalmRunHeals == group = <<>> /\ undisturbed => status[head] = Decide(labels)
=============================================================================
