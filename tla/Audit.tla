-------------------------------- MODULE Audit --------------------------------
(***************************************************************************)
(* `tend security audit`: SecurityScanner.Audit starts a goroutine for     *)
(* each scanner of the chosen type; a scanner walks the tree, or asks the  *)
(* cluster, and adds what it found to the shared slices under a mutex.     *)
(* The context may end, a file may be unreadable, a root may be missing.   *)
(* What a rule matches is left out: a file has a number of problems.       *)
(***************************************************************************)
EXTENDS Integers, Sequences, Functions

CONSTANT Tree  \* the entries below the path in the order WalkDir visits them

\* ext: the file type, or "dir".  inside: the entries below a directory.
\* odd: a file that is empty, too large or no regular file, or a directory
\* of skipSecretDirs.  pipe: among the odd files a pipe or a device, which
\* need not answer a read.  problems: the matches in the file.
Entry == [ext : {"dir", "go", "ts", "yaml", "other"}, odd : BOOLEAN, pipe : BOOLEAN,
          problems : Nat, inside : Nat]

ASSUME AuditAssumption ==
  /\ Tree \in Seq(Entry)
  /\ \A i \in DOMAIN Tree : /\ Tree[i].inside <= Len(Tree) - i
                            /\ Tree[i].pipe => Tree[i].odd /\ Tree[i].ext # "dir"

AuditTypes == {"secrets", "sast", "k8s-local", "k8s-live"}

\* The scanners an audit runs side by side.
ScannersOf(t) == IF t = "sast" THEN {"go", "ts"} ELSE {t}
AllScanners == UNION {ScannersOf(t) : t \in AuditTypes}

\* The files a scanner is for.
Takes(s, e) ==
  /\ e.ext # "dir"
  /\ s = "secrets" \/ (s = "k8s-local" /\ e.ext = "yaml") \/ s = e.ext
  /\ e.odd => s = "k8s-local"

VARIABLES
  type,      \* opts.Type
  pc,        \* pc[s]: where scanner s is
  pos,       \* pos[s]: the entry it visits next
  own,       \* own[s]: the findings it has
  ownWarn,   \* ownWarn[s]: the entries it has warned of
  err,       \* err[s]: the error it returned
  mu,        \* the scanner that holds the mutex
  base,      \* base[s]: the findings s read before it appends
  findings,  \* what Audit has collected, in order
  warned,    \* the entries Audit has warnings of, <<scanner, entry>>
  firstErr,
  ended,     \* ctx.Err() is not nil
  hidden,    \* <<scanner, entry>> left out without a word
  main,      \* "wait", "print", "done"
  exit       \* the exit code, -1 before it ends

walk   == <<pos, own, ownWarn, err, hidden>>
shared == <<mu, base, findings, warned, firstErr>>
end    == <<main, exit>>
vars   == <<type, pc, walk, shared, ended, end>>

Scanners == ScannersOf(type)
Finding  == AllScanners \X Nat \X Nat
NoErr    == "nil"

TypeOK ==
  /\ type \in AuditTypes
  /\ pc \in [AllScanners -> {"open", "walk", "returned", "locked", "unlocked", "gone"}]
  /\ pos \in [AllScanners -> 1..(Len(Tree) + 1)]
  /\ \A s \in AllScanners : Range(own[s]) \subseteq Finding
  /\ ownWarn \in [AllScanners -> SUBSET DOMAIN Tree]
  /\ err \in [AllScanners -> {NoErr, "ctx", "io"}]
  /\ mu \in Scanners \cup {"free"}
  /\ mu # "free" => pc[mu] = "locked"
  /\ \A s \in AllScanners : Range(base[s]) \subseteq Finding
  /\ Range(findings) \subseteq Finding
  /\ warned \subseteq Scanners \X DOMAIN Tree
  /\ firstErr \in {NoErr, "ctx", "io"}
  /\ ended \in BOOLEAN
  /\ hidden \subseteq AllScanners \X DOMAIN Tree
  /\ main \in {"wait", "print", "done"}
  /\ exit \in {-1, 0, 1, 2}

Init ==
  /\ type \in AuditTypes
  /\ pc = [s \in AllScanners |-> "open"]
  /\ pos = [s \in AllScanners |-> 1]
  /\ own = [s \in AllScanners |-> <<>>]
  /\ ownWarn = [s \in AllScanners |-> {}]
  /\ err = [s \in AllScanners |-> NoErr]
  /\ mu = "free" /\ base = [s \in AllScanners |-> <<>>]
  /\ findings = <<>> /\ warned = {} /\ firstErr = NoErr
  /\ ended = FALSE
  /\ hidden = {}
  /\ main = "wait" /\ exit = -1

-----------------------------------------------------------------------------
(* A scanner that walks the tree.                                          *)

Return(s, e) ==
  /\ pc' = [pc EXCEPT ![s] = "returned"]
  /\ err' = [err EXCEPT ![s] = e]

\* openWalkRoot: a path that is not there is no error and gives no findings;
\* nor does a path whose own name is one of skipSecretDirs.
OpenRoot(s) ==
  /\ pc[s] = "open" /\ s # "k8s-live"
  /\ \/ pc' = [pc EXCEPT ![s] = "walk"] /\ UNCHANGED <<err, hidden>>
     \/ Return(s, "io") /\ UNCHANGED hidden
     \/ Return(s, NoErr) /\ hidden' = hidden \cup ({s} \X DOMAIN Tree)
  /\ UNCHANGED <<type, pos, own, ownWarn, shared, ended, end>>

\* auditPods: one list call, then a check of every pod it lists.
ListPods(s) ==
  /\ pc[s] = "open" /\ s = "k8s-live"
  /\ \/ /\ ~ended
        /\ \E ff \in {<<>>, <<<<s, 1, 1>>>>} : own' = [own EXCEPT ![s] = ff]
        /\ Return(s, NoErr)
     \/ UNCHANGED own /\ Return(s, IF ended THEN "ctx" ELSE "io")
  /\ UNCHANGED <<type, pos, ownWarn, hidden, shared, ended, end>>

\* Mutant: an ended context ends the walk, but not with an error.
Cancelled_AsEnd(s) ==
  /\ pc[s] = "walk" /\ pos[s] <= Len(Tree) /\ ended
  /\ Return(s, NoErr)
  /\ UNCHANGED <<type, pos, own, ownWarn, hidden, shared, ended, end>>

\* The context is looked at before every entry, and not after the last.
Cancelled(s) ==
  /\ pc[s] = "walk" /\ pos[s] <= Len(Tree) /\ ended
  /\ Return(s, "ctx")
  /\ UNCHANGED <<type, pos, own, ownWarn, hidden, shared, ended, end>>

Skip(s, n) == pos' = [pos EXCEPT ![s] = @ + n]

\* SkipDir for the skipped directories; a directory that cannot be read is
\* passed over as well, and without a warning.
VisitDir(s) ==
  /\ pc[s] = "walk" /\ pos[s] <= Len(Tree) /\ ~ended
  /\ LET e == Tree[pos[s]]
         within == (pos[s] + 1)..(pos[s] + e.inside)
     IN /\ e.ext = "dir"
        /\ \/ e.odd /\ Skip(s, 1 + e.inside) /\ UNCHANGED hidden
           \/ ~e.odd /\ Skip(s, 1) /\ UNCHANGED hidden
           \/ ~e.odd /\ Skip(s, 1 + e.inside) /\ hidden' = hidden \cup ({s} \X within)
  /\ UNCHANGED <<type, pc, own, ownWarn, err, shared, ended, end>>

\* The problems met before the read ended.  A manifest is read as a whole,
\* so a broken one gives none.
Problems(s, read, broken) ==
  IF broken /\ s = "k8s-local" THEN <<>> ELSE [n \in 1..read |-> <<s, pos[s], n>>]

\* Scanner s reads a pipe.  Only checkManifestFile does: it takes each file by
\* its name, where the other scanners look for a regular one first.
ReadsPipe(s) ==
  /\ pc[s] = "walk" /\ pos[s] <= Len(Tree)
  /\ Tree[pos[s]].pipe /\ Takes(s, Tree[pos[s]])

\* A file is passed over, read to its end, or read in part with a warning.
\* A pipe may let the read wait for ever; the context does not end it.
VisitFile(s) ==
  /\ pc[s] = "walk" /\ pos[s] <= Len(Tree) /\ ~ended
  /\ LET e == Tree[pos[s]]
     IN /\ e.ext # "dir"
        /\ IF ~Takes(s, e) THEN UNCHANGED <<own, ownWarn>>
           ELSE \E read \in 0..e.problems, broken \in BOOLEAN :
             /\ ~broken => read = e.problems
             /\ own' = [own EXCEPT ![s] = @ \o Problems(s, read, broken)]
             /\ ownWarn' = [ownWarn EXCEPT ![s] =
                              IF broken THEN @ \cup {pos[s]} ELSE @]
  /\ Skip(s, 1)
  /\ UNCHANGED <<type, pc, err, hidden, shared, ended, end>>

\* d.Info() fails: the file has gone since its directory was read.
FileGone(s) ==
  /\ pc[s] = "walk" /\ pos[s] <= Len(Tree) /\ ~ended
  /\ Tree[pos[s]].ext # "dir" /\ Takes(s, Tree[pos[s]]) /\ s # "k8s-local"
  /\ hidden' = hidden \cup {<<s, pos[s]>>}
  /\ Skip(s, 1)
  /\ UNCHANGED <<type, pc, own, ownWarn, err, shared, ended, end>>

\* The deferred closeRoot may turn a whole walk into an error.
EndWalk(s) ==
  /\ pc[s] = "walk" /\ pos[s] > Len(Tree)
  /\ \E e \in {NoErr, "io"} : Return(s, e)
  /\ UNCHANGED <<type, pos, own, ownWarn, hidden, shared, ended, end>>

Scan(s) ==
  \/ OpenRoot(s) \/ ListPods(s) \/ Cancelled(s) \/ VisitDir(s)
  \/ VisitFile(s) \/ FileGone(s) \/ EndWalk(s)

-----------------------------------------------------------------------------
(* The closure `run` around a scanner, and the end of the command.         *)

\* Mutant: there is no mutex to wait for.
Lock_Missing(s) ==
  /\ pc[s] = "returned"
  /\ mu' = s
  /\ base' = [base EXCEPT ![s] = findings]
  /\ pc' = [pc EXCEPT ![s] = "locked"]
  /\ UNCHANGED <<type, walk, findings, warned, firstErr, ended, end>>

\* mu.Lock(); the append that follows starts from the slice as it is now.
Lock(s) ==
  /\ pc[s] = "returned" /\ mu = "free"
  /\ mu' = s
  /\ base' = [base EXCEPT ![s] = findings]
  /\ pc' = [pc EXCEPT ![s] = "locked"]
  /\ UNCHANGED <<type, walk, findings, warned, firstErr, ended, end>>

\* Mutant: the early return leaves the mutex locked.
Merge_KeepsLock(s) ==
  /\ pc[s] = "locked"
  /\ IF err[s] # NoErr /\ firstErr = NoErr
     THEN firstErr' = err[s] /\ UNCHANGED <<findings, warned, mu>>
     ELSE /\ findings' = base[s] \o own[s]
          /\ warned' = warned \cup ({s} \X ownWarn[s])
          /\ mu' = "free"
          /\ UNCHANGED firstErr
  /\ pc' = [pc EXCEPT ![s] = "unlocked"]
  /\ UNCHANGED <<type, walk, base, ended, end>>

\* The first error is kept; otherwise findings and warnings are added, those
\* of a second scanner that failed too.  mu.Unlock() is deferred.
Merge(s) ==
  /\ pc[s] = "locked"
  /\ IF err[s] # NoErr /\ firstErr = NoErr
     THEN firstErr' = err[s] /\ UNCHANGED <<findings, warned>>
     ELSE /\ findings' = base[s] \o own[s]
          /\ warned' = warned \cup ({s} \X ownWarn[s])
          /\ UNCHANGED firstErr
  /\ mu' = "free"
  /\ pc' = [pc EXCEPT ![s] = "unlocked"]
  /\ UNCHANGED <<type, walk, base, ended, end>>

Done(s) ==  \* wg.Done()
  /\ pc[s] = "unlocked"
  /\ pc' = [pc EXCEPT ![s] = "gone"]
  /\ UNCHANGED <<type, walk, shared, ended, end>>

\* wg.Wait() returns: an error means no report.
Wait ==
  /\ main = "wait"
  /\ \A s \in Scanners : pc[s] = "gone"
  /\ main' = IF firstErr # NoErr THEN "done" ELSE "print"
  /\ exit' = IF firstErr # NoErr THEN 1 ELSE -1
  /\ UNCHANGED <<type, pc, walk, shared, ended>>

\* The warnings and the report are printed; a failed write is an error.
PrintReport ==
  /\ main = "print"
  /\ \E written \in BOOLEAN :
       exit' = IF ~written THEN 1 ELSE IF findings # <<>> THEN 2 ELSE 0
  /\ main' = "done"
  /\ UNCHANGED <<type, pc, walk, shared, ended>>

ContextEnds ==
  /\ main # "done" /\ ~ended
  /\ ended' = TRUE
  /\ UNCHANGED <<type, pc, walk, shared, end>>

Exited == main = "done" /\ UNCHANGED vars

Goroutine(s) == Scan(s) \/ Lock(s) \/ Merge(s) \/ Done(s)

Next ==
  \/ \E s \in Scanners : Goroutine(s)
  \/ Wait \/ PrintReport
  \/ ContextEnds
  \/ Exited

\* Regular files answer.  A pipe need not, nor need the cluster, and no
\* deadline is set for either: the call to the cluster returns only if the
\* context ends, and the read of a pipe not even then.
Answered(s) ==
  /\ s = "k8s-live" /\ pc[s] = "open" => ended
  /\ ~ReadsPipe(s)

Fairness ==
  /\ \A s \in AllScanners : WF_vars(s \in Scanners /\ Answered(s) /\ Goroutine(s))
  /\ WF_vars(Wait \/ PrintReport)

Spec == Init /\ [][Next]_vars /\ Fairness

-----------------------------------------------------------------------------
(* Properties.                                                             *)

Reported == main = "print" \/ exit \in {0, 2}

\* A report leaves no problem out without a word: every problem of every file
\* a scanner is for is among the findings, or there is a warning about the
\* file, or the file could not be reached at all.  Neither the end of the
\* context nor the failure of one of two scanners yields a partial report.
NothingLostSilently ==
  Reported => \A s \in Scanners, i \in DOMAIN Tree :
    \/ s = "k8s-live" \/ ~Takes(s, Tree[i]) \/ <<s, i>> \in warned \cup hidden
    \/ \A n \in 1..Tree[i].problems : <<s, i, n>> \in Range(findings)
    \/ \E d \in 1..(i - 1) : Tree[d].odd /\ i <= d + Tree[d].inside

\* Two scanners that work side by side do not harm each other: at any moment
\* the shared slice holds each finding once, those of a scanner in the order
\* of its walk, and all of a scanner that was added before.
MergedInOrder ==
  /\ \A i, j \in DOMAIN findings :
       i < j /\ findings[i][1] = findings[j][1] =>
         \/ findings[i][2] < findings[j][2]
         \/ findings[i][2] = findings[j][2] /\ findings[i][3] < findings[j][3]
  /\ \A s \in Scanners :
       pc[s] \in {"unlocked", "gone"} /\ err[s] = NoErr => Range(own[s]) \subseteq Range(findings)

\* An audit of files ends, and one of a cluster ends once it is interrupted,
\* unless a scanner waits at a pipe: k8s-local reads whatever is called *.yaml,
\* and neither a deadline nor a signal ends that read.  No mutex, no WaitGroup
\* and no other entry of the tree keeps the command; secrets and sast are
\* never held up.
AuditEnds ==
  (type # "k8s-live" \/ ended) ~> (main = "done" \/ (type = "k8s-local" /\ ReadsPipe(type)))
=============================================================================
