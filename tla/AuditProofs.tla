------------------------------ MODULE AuditProofs ------------------------------
(***************************************************************************)
(* Proofs about `tend security audit`, for every tree of files and every   *)
(* number of problems in them.                                             *)
(***************************************************************************)
EXTENDS Audit, SequenceTheorems, TLAPS

\* The findings of one scanner are in the order of its walk.
Ordered(q) ==
  \A i, j \in DOMAIN q :
    i < j /\ q[i][1] = q[j][1] =>
      \/ q[i][2] < q[j][2]
      \/ q[i][2] = q[j][2] /\ q[i][3] < q[j][3]

\* No word is owed, or still owed, about entry i by scanner s.
Covered(s, i) ==
  \/ ~Takes(s, Tree[i])
  \/ <<s, i>> \in hidden
  \/ i \in ownWarn[s]
  \/ \A n \in 1..Tree[i].problems : <<s, i, n>> \in Range(own[s])
  \/ \E d \in 1..(i - 1) : Tree[d].odd /\ i <= d + Tree[d].inside

\* What a scanner knows on its own: its findings are its own, in order and of
\* entries it has passed; the entries it has passed are covered, and when it
\* has ended without an error all of them are.
ScannerOK(s) ==
  /\ pc[s] = "walk" => s # "k8s-live"
  /\ Ordered(own[s])
  /\ \A x \in Range(own[s]) : x[1] = s /\ (s # "k8s-live" => x[2] < pos[s])
  /\ s # "k8s-live" => \A i \in DOMAIN Tree : i < pos[s] => Covered(s, i)
  /\ s # "k8s-live" /\ pc[s] \notin {"open", "walk"} /\ err[s] = NoErr =>
       \A i \in DOMAIN Tree : Covered(s, i)

\* Mutual exclusion: what the holder of the mutex has read is still current.
LockInv ==
  /\ mu # "free" => pc[mu] = "locked"
  /\ \A s \in AllScanners : pc[s] = "locked" => mu = s /\ base[s] = findings

\* A scanner that has been in the section has added everything or has an error
\* that is reported; one that has not been there has added nothing.
MergeInv ==
  /\ Ordered(findings)
  /\ \A x \in Range(findings) : pc[x[1]] \in {"unlocked", "gone"}
  /\ \A s \in AllScanners : pc[s] \in {"unlocked", "gone"} =>
       IF err[s] # NoErr THEN firstErr # NoErr
       ELSE Range(own[s]) \subseteq Range(findings) /\ {s} \X ownWarn[s] \subseteq warned

\* There is a report only after all scanners have ended, none with an error.
MainInv ==
  /\ main # "wait" => \A s \in Scanners : pc[s] = "gone"
  /\ Reported => main # "wait" /\ firstErr = NoErr

\* The types of what only scanners write, and of the rest.
ScanTypes ==
  /\ pc \in [AllScanners -> {"open", "walk", "returned", "locked", "unlocked", "gone"}]
  /\ pos \in [AllScanners -> 1..(Len(Tree) + 1)]
  /\ own \in [AllScanners -> Seq(Finding)]
  /\ ownWarn \in [AllScanners -> SUBSET DOMAIN Tree]
  /\ err \in [AllScanners -> {NoErr, "ctx", "io"}]
  /\ hidden \subseteq AllScanners \X DOMAIN Tree

SharedTypes ==
  /\ type \in AuditTypes
  /\ mu \in Scanners \cup {"free"}
  /\ base \in [AllScanners -> Seq(Finding)]
  /\ findings \in Seq(Finding)
  /\ warned \subseteq Scanners \X DOMAIN Tree
  /\ firstErr \in {NoErr, "ctx", "io"}
  /\ ended \in BOOLEAN
  /\ main \in {"wait", "print", "done"}
  /\ exit \in {-1, 0, 1, 2}

ScannersInv == \A s \in AllScanners : ScannerOK(s)

IInv == ScanTypes /\ SharedTypes /\ ScannersInv /\ LockInv /\ MergeInv /\ MainInv

-----------------------------------------------------------------------------
(* The operators.                                                          *)

\* The tree is a finite sequence of entries.
LEMMA TreeFacts ==
  /\ Len(Tree) \in Nat /\ DOMAIN Tree = 1..Len(Tree)
  /\ \A i \in DOMAIN Tree :
       /\ Tree[i] \in Entry /\ Tree[i].problems \in Nat /\ Tree[i].inside \in Nat
       /\ i + Tree[i].inside <= Len(Tree)
<1>1. Len(Tree) \in Nat /\ DOMAIN Tree = 1..Len(Tree)
  BY AuditAssumption, LenProperties
<1>2. ASSUME NEW i \in DOMAIN Tree
      PROVE  /\ Tree[i] \in Entry /\ Tree[i].problems \in Nat /\ Tree[i].inside \in Nat
             /\ i + Tree[i].inside <= Len(Tree)
  <2>1. Tree[i] \in Entry
    BY <1>1, AuditAssumption, ElementOfSeq
  <2>2. Tree[i].inside <= Len(Tree) - i
    BY AuditAssumption
  <2> QED
    BY <1>1, <2>1, <2>2 DEF Entry
<1> QED
  BY <1>1, <1>2

\* The scanners of an audit are scanners, and none is called like a free mutex.
LEMMA ScannerNames ==
  /\ "free" \notin AllScanners
  /\ type \in AuditTypes => Scanners \subseteq AllScanners
  BY DEF AllScanners, Scanners, ScannersOf, AuditTypes

\* An element of a list of findings.
LEMMA Element ==
  ASSUME NEW q \in Seq(Finding)
  PROVE  /\ Len(q) \in Nat /\ DOMAIN q = 1..Len(q)
         /\ \A i \in DOMAIN q : q[i] \in Finding /\ q[i] \in Range(q)
         /\ \A x \in Range(q) : x \in Finding /\ \E i \in DOMAIN q : x = q[i]
<1>1. Len(q) \in Nat /\ DOMAIN q = 1..Len(q)
  BY LenProperties
<1>2. \A i \in DOMAIN q : q[i] \in Finding
  BY <1>1, ElementOfSeq
<1> QED
  BY <1>1, <1>2 DEF Range

\* Adding a list adds its elements.
LEMMA Appended ==
  ASSUME NEW q \in Seq(Finding), NEW r \in Seq(Finding)
  PROVE  q \o r \in Seq(Finding) /\ Range(q \o r) = Range(q) \cup Range(r)
<1>1. /\ q \o r \in Seq(Finding) /\ Len(q \o r) = Len(q) + Len(r)
      /\ \A i \in 1..(Len(q) + Len(r)) :
           (q \o r)[i] = IF i <= Len(q) THEN q[i] ELSE r[i - Len(q)]
  BY ConcatProperties
<1>2. Len(q) \in Nat /\ DOMAIN q = 1..Len(q) /\ Len(r) \in Nat /\ DOMAIN r = 1..Len(r)
  BY Element
<1>3. DOMAIN (q \o r) = 1..(Len(q) + Len(r))
  BY <1>1, Element
<1>4. ASSUME NEW x \in Range(q \o r) PROVE x \in Range(q) \cup Range(r)
  <2>1. PICK i \in 1..(Len(q) + Len(r)) : x = (q \o r)[i]
    BY <1>3 DEF Range
  <2>2. CASE i <= Len(q)
    BY <1>1, <1>2, <2>1, <2>2 DEF Range
  <2>3. CASE ~(i <= Len(q))
    <3>1. i - Len(q) \in DOMAIN r /\ x = r[i - Len(q)]
      BY <1>1, <1>2, <2>1, <2>3
    <3> QED
      BY <3>1 DEF Range
  <2> QED
    BY <2>2, <2>3
<1>5. ASSUME NEW x \in Range(q) PROVE x \in Range(q \o r)
  <2>1. PICK i \in DOMAIN q : x = q[i]
    BY DEF Range
  <2>2. i \in 1..(Len(q) + Len(r)) /\ (q \o r)[i] = x
    BY <1>1, <1>2, <2>1
  <2> QED
    BY <1>3, <2>2 DEF Range
<1>6. ASSUME NEW x \in Range(r) PROVE x \in Range(q \o r)
  <2>1. PICK i \in DOMAIN r : x = r[i]
    BY DEF Range
  <2>2. PICK k \in 1..(Len(q) + Len(r)) : k = Len(q) + i
    BY <1>2
  <2>3. ~(k <= Len(q)) /\ k - Len(q) = i
    BY <1>2, <2>2
  <2>4. (q \o r)[k] = x
    BY <1>1, <2>1, <2>3
  <2> QED
    BY <1>3, <2>4 DEF Range
<1> QED
  BY <1>1, <1>4, <1>5, <1>6

\* Two ordered lists make an ordered one if the second is of other scanners or
\* of later entries.
LEMMA OrderedAppended ==
  ASSUME NEW q \in Seq(Finding), NEW r \in Seq(Finding), Ordered(q), Ordered(r),
         \A x \in Range(q), y \in Range(r) : x[1] # y[1] \/ x[2] < y[2]
  PROVE  Ordered(q \o r)
<1>1. /\ Len(q \o r) = Len(q) + Len(r)
      /\ \A i \in 1..(Len(q) + Len(r)) :
           (q \o r)[i] = IF i <= Len(q) THEN q[i] ELSE r[i - Len(q)]
  BY ConcatProperties
<1>2. Len(q) \in Nat /\ DOMAIN q = 1..Len(q) /\ Len(r) \in Nat /\ DOMAIN r = 1..Len(r)
  BY Element
<1>3. DOMAIN (q \o r) = 1..(Len(q) + Len(r))
  BY <1>1, Appended, Element
<1>4. PICK c : c = q \o r
  OBVIOUS
<1>5. ASSUME NEW i \in DOMAIN c, NEW j \in DOMAIN c, i < j, c[i][1] = c[j][1]
      PROVE  c[i][2] < c[j][2] \/ (c[i][2] = c[j][2] /\ c[i][3] < c[j][3])
  <2>1. i \in 1..(Len(q) + Len(r)) /\ j \in 1..(Len(q) + Len(r))
    BY <1>3, <1>4
  <2>2. CASE j <= Len(q)
    <3>1. i \in DOMAIN q /\ j \in DOMAIN q /\ c[i] = q[i] /\ c[j] = q[j]
      BY <1>1, <1>2, <1>4, <1>5, <2>1, <2>2
    <3> QED
      BY <1>5, <3>1 DEF Ordered
  <2>3. CASE i > Len(q)
    <3>1. PICK k \in DOMAIN r, l \in DOMAIN r : k = i - Len(q) /\ l = j - Len(q)
      BY <1>2, <1>5, <2>1, <2>3
    <3>2. c[i] = r[k] /\ c[j] = r[l] /\ k < l
      BY <1>1, <1>2, <1>4, <1>5, <2>1, <2>3, <3>1
    <3> QED
      BY <1>5, <3>2 DEF Ordered
  <2>4. CASE i <= Len(q) /\ j > Len(q)
    <3>1. PICK l \in DOMAIN r : l = j - Len(q)
      BY <1>2, <2>1, <2>4
    <3>2. c[i] = q[i] /\ c[j] = r[l] /\ i \in DOMAIN q
      BY <1>1, <1>2, <1>4, <2>1, <2>4, <3>1
    <3>3. q[i] \in Range(q) /\ r[l] \in Range(r)
      BY <3>2, Element
    <3> QED
      BY <1>5, <3>2, <3>3
  <2> QED
    BY <1>2, <2>1, <2>2, <2>3, <2>4
<1> QED
  BY <1>4, <1>5 DEF Ordered

-----------------------------------------------------------------------------
(* Scanners.                                                               *)

\* Before anything is scanned there is nothing to be wrong.
LEMMA InitInv == Init => IInv
<1> SUFFICES ASSUME Init PROVE IInv
  OBVIOUS
<1> USE DEF Init
<1>1. /\ <<>> \in Seq(Finding) /\ DOMAIN <<>> = {} /\ Range(<<>>) = {}
  <2>1. <<>> \in Seq(Finding) /\ Len(<<>>) = 0
    BY EmptySeq
  <2>2. DOMAIN <<>> = 1..0
    BY <2>1, Element
  <2> QED
    BY <2>1, <2>2 DEF Range
<1>2. Ordered(<<>>)
  BY <1>1 DEF Ordered
<1>3. ScanTypes
  BY <1>1, TreeFacts DEF ScanTypes
<1>4. SharedTypes
  BY <1>1 DEF SharedTypes
<1>5. ScannersInv
  BY <1>1, <1>2, TreeFacts DEF ScannersInv, ScannerOK
<1>6. LockInv
  BY DEF LockInv
<1>7. MergeInv
  BY <1>1, <1>2 DEF MergeInv
<1>8. MainInv
  BY DEF MainInv, Reported
<1> QED
  BY <1>3, <1>4, <1>5, <1>6, <1>7, <1>8 DEF IInv

\* What was once covered stays so when the scanner has more findings and
\* warnings, and more is hidden.
LEMMA StaysCovered ==
  ASSUME NEW s, NEW i, Covered(s, i), hidden \subseteq hidden',
         ownWarn[s] \subseteq ownWarn'[s], Range(own[s]) \subseteq Range(own'[s])
  PROVE  Covered(s, i)'
  BY DEF Covered

\* A step of a scanner that is still at work concerns nobody else.
LEMMA ScannerAlone ==
  ASSUME IInv, NEW s \in Scanners, pc[s] \in {"open", "walk"}, ScanTypes',
         pc'[s] \in {"walk", "returned"}, ScannerOK(s)', hidden \subseteq hidden',
         \A r \in AllScanners : r # s =>
           /\ pc'[r] = pc[r] /\ pos'[r] = pos[r] /\ own'[r] = own[r]
           /\ ownWarn'[r] = ownWarn[r] /\ err'[r] = err[r],
         UNCHANGED <<type, shared, ended, end>>
  PROVE  IInv'
<1>1. ScanTypes /\ SharedTypes /\ ScannersInv /\ LockInv /\ MergeInv /\ MainInv
  BY DEF IInv
<1>2. s \in AllScanners /\ type \in AuditTypes
  BY <1>1, ScannerNames DEF SharedTypes
<1>3. Scanners' = Scanners /\ Scanners \subseteq AllScanners
  BY <1>2, ScannerNames DEF Scanners
<1>4. SharedTypes'
  BY <1>1, <1>3 DEF SharedTypes, shared, end
<1>5. ScannersInv'
  <2> SUFFICES ASSUME NEW r \in AllScanners, r # s PROVE ScannerOK(r)'
    BY DEF ScannersInv
  <2>1. ScannerOK(r)
    BY <1>1 DEF ScannersInv
  <2>2. \A i \in DOMAIN Tree : Covered(r, i) => Covered(r, i)'
    BY StaysCovered
  <2> QED
    BY <2>1, <2>2 DEF ScannerOK
<1>6. LockInv'
  <2>1. pc'[mu] = "locked" \/ mu = "free"
    BY <1>1, <1>3, ScannerNames DEF LockInv, SharedTypes
  <2> QED
    BY <1>1, <2>1 DEF LockInv, shared
<1>7. MergeInv'
  <2>1. \A x \in Range(findings) : x[1] \in AllScanners
    BY <1>1, Element DEF SharedTypes, Finding
  <2> QED
    BY <1>1, <2>1 DEF MergeInv, shared
<1>8. MainInv'
  <2>1. main = "wait"
    BY <1>1 DEF MainInv
  <2> QED
    BY <1>1, <2>1 DEF MainInv, Reported, end
<1> QED
  BY <1>4, <1>5, <1>6, <1>7, <1>8 DEF IInv

\* What the lemma above needs to know of a step that leaves the findings and
\* the warnings of the scanner as they are: which entries it passes.
LEMMA PassesOn ==
  ASSUME IInv, NEW s \in Scanners, pc[s] \in {"open", "walk"},
         NEW p \in {"walk", "returned"}, pc' = [pc EXCEPT ![s] = p], p = "walk" => s # "k8s-live",
         NEW k \in Nat, pos' = [pos EXCEPT ![s] = k], pos[s] <= k, k <= Len(Tree) + 1,
         UNCHANGED <<own, ownWarn>>,
         NEW e \in {NoErr, "ctx", "io"}, err' = [err EXCEPT ![s] = e],
         hidden \subseteq hidden', hidden' \subseteq hidden \cup ({s} \X DOMAIN Tree),
         s # "k8s-live" => \A i \in DOMAIN Tree : pos[s] <= i /\ i < k => Covered(s, i)',
         s # "k8s-live" /\ p = "returned" /\ e = NoErr => \A i \in DOMAIN Tree : Covered(s, i)',
         UNCHANGED <<type, shared, ended, end>>
  PROVE  IInv'
<1>1. ScanTypes /\ ScannerOK(s) /\ s \in AllScanners
  BY ScannerNames DEF IInv, SharedTypes, ScannersInv
<1>2. ScanTypes'
  <2>1. k \in 1..(Len(Tree) + 1)
    BY <1>1, TreeFacts DEF ScanTypes
  <2> QED
    BY <1>1, <2>1 DEF ScanTypes
<1>3. pc'[s] = p /\ pos'[s] = k /\ err'[s] = e
  BY <1>1 DEF ScanTypes
<1>4. \A i \in DOMAIN Tree : Covered(s, i) => Covered(s, i)'
  BY StaysCovered
<1>5. ScannerOK(s)'
  <2>1. Ordered(own[s])'
    BY <1>1 DEF ScannerOK, Ordered
  <2>2. \A x \in Range(own[s]) : x[1] = s /\ (s # "k8s-live" => x[2] < k)
    <3>1. own[s] \in Seq(Finding) /\ pos[s] \in Int
      BY <1>1, TreeFacts DEF ScanTypes
    <3>2. \A x \in Range(own[s]) : x[2] \in Nat
      BY <3>1, Element DEF Finding
    <3> QED
      BY <1>1, <3>1, <3>2 DEF ScannerOK
  <2>3. s # "k8s-live" => \A i \in DOMAIN Tree : i < k => Covered(s, i)'
    <3> SUFFICES ASSUME s # "k8s-live", NEW i \in DOMAIN Tree, i < k PROVE Covered(s, i)'
      OBVIOUS
    <3>1. pos[s] \in Int /\ i \in Int
      BY <1>1, TreeFacts DEF ScanTypes
    <3>2. CASE i < pos[s]
      BY <1>1, <1>4, <3>2 DEF ScannerOK
    <3> QED
      BY <3>1, <3>2
  <2> QED
    BY <1>1, <1>3, <2>1, <2>2, <2>3 DEF ScannerOK
<1> QED
  BY <1>1, <1>2, <1>3, <1>5, ScannerAlone DEF ScanTypes

\* A path that is not there, one that cannot be opened, or the start of a walk.
LEMMA OpenRootKeeps ==
  ASSUME IInv, NEW s \in Scanners, OpenRoot(s)
  PROVE  IInv'
<1>1. ScanTypes /\ s \in AllScanners /\ pos[s] \in 1..(Len(Tree) + 1) /\ s # "k8s-live"
  BY ScannerNames DEF IInv, SharedTypes, ScanTypes, OpenRoot
<1>2. PICK k \in Nat : k = pos[s]
  BY <1>1, TreeFacts
<1>3. /\ pos[s] <= k /\ k <= Len(Tree) + 1 /\ pos' = [pos EXCEPT ![s] = k]
      /\ pc[s] \in {"open", "walk"}
  BY <1>1, <1>2, TreeFacts DEF OpenRoot, ScanTypes
<1>4. UNCHANGED <<own, ownWarn, type, shared, ended, end>>
  BY DEF OpenRoot
<1>5. \A i \in DOMAIN Tree : ~(pos[s] <= i /\ i < k)
  BY <1>1, <1>2, TreeFacts
<1>6. CASE pc' = [pc EXCEPT ![s] = "walk"] /\ UNCHANGED <<err, hidden>>
  <2>1. PICK e \in {NoErr, "ctx", "io"} : e = err[s]
    BY <1>1 DEF ScanTypes
  <2>2. err' = [err EXCEPT ![s] = e]
    BY <1>1, <1>6, <2>1 DEF ScanTypes
  <2> QED
    BY <1>1, <1>2, <1>3, <1>4, <1>5, <1>6, <2>2, PassesOn
<1>7. CASE Return(s, "io") /\ UNCHANGED hidden
  BY <1>1, <1>2, <1>3, <1>4, <1>5, <1>7, PassesOn DEF Return, NoErr
<1>8. CASE Return(s, NoErr) /\ hidden' = hidden \cup ({s} \X DOMAIN Tree)
  <2>1. \A i \in DOMAIN Tree : Covered(s, i)'
    BY <1>8 DEF Covered
  <2> QED
    BY <1>1, <1>2, <1>3, <1>4, <1>5, <1>8, <2>1, PassesOn DEF Return
<1> QED
  BY <1>6, <1>7, <1>8 DEF OpenRoot

\* The one call of the audit of a cluster.
LEMMA ListPodsKeeps ==
  ASSUME IInv, NEW s \in Scanners, ListPods(s)
  PROVE  IInv'
<1>1. ScanTypes /\ ScannerOK(s) /\ s \in AllScanners /\ s = "k8s-live" /\ pc[s] \in {"open", "walk"}
  BY ScannerNames DEF IInv, SharedTypes, ScannersInv, ListPods
<1>2. PICK ff : /\ ff \in {own[s], <<>>, <<<<s, 1, 1>>>>}
                /\ own' = [own EXCEPT ![s] = ff]
  BY <1>1 DEF ListPods, ScanTypes
<1>3. ff \in Seq(Finding) /\ Ordered(ff) /\ \A x \in Range(ff) : x[1] = s
  <2>1. CASE ff = own[s]
    BY <1>1, <2>1 DEF ScanTypes, ScannerOK
  <2>2. CASE ff = <<>>
    <3>1. ff \in Seq(Finding) /\ Len(ff) = 0
      BY <2>2, EmptySeq
    <3>2. DOMAIN ff = {}
      BY <3>1, Element
    <3> QED
      BY <3>1, <3>2 DEF Ordered, Range
  <2>3. CASE ff = <<<<s, 1, 1>>>>
    <3>1. <<s, 1, 1>> \in Finding
      BY <1>1 DEF Finding
    <3>2. ff \in Seq(Finding) /\ Len(ff) = 1 /\ ff[1] = <<s, 1, 1>>
      BY <2>3, <3>1
    <3>3. DOMAIN ff = 1..1
      BY <3>2, Element
    <3>4. Ordered(ff)
      BY <3>3 DEF Ordered
    <3> QED
      BY <3>2, <3>3, <3>4 DEF Range
  <2> QED
    BY <1>2, <2>1, <2>2, <2>3
<1>4. PICK e \in {NoErr, "ctx", "io"} : err' = [err EXCEPT ![s] = e]
  BY DEF ListPods, Return
<1>5. /\ pc' = [pc EXCEPT ![s] = "returned"]
      /\ UNCHANGED <<type, pos, ownWarn, hidden, shared, ended, end>>
  BY DEF ListPods, Return
<1>6. ScanTypes'
  BY <1>1, <1>2, <1>3, <1>4, <1>5 DEF ScanTypes
<1>7. pc'[s] = "returned" /\ own'[s] = ff
  BY <1>1, <1>2, <1>5 DEF ScanTypes
<1>8. ScannerOK(s)'
  BY <1>1, <1>3, <1>7 DEF ScannerOK, Ordered
<1> QED
  BY <1>1, <1>2, <1>4, <1>5, <1>6, <1>7, <1>8, ScannerAlone DEF ScanTypes

\* The context ends a walk with its error.
LEMMA CancelledKeeps ==
  ASSUME IInv, NEW s \in Scanners, Cancelled(s)
  PROVE  IInv'
<1>1. ScanTypes /\ s \in AllScanners /\ pos[s] \in 1..(Len(Tree) + 1) /\ pc[s] = "walk"
  BY ScannerNames DEF IInv, SharedTypes, ScanTypes, Cancelled
<1>2. PICK k \in Nat : k = pos[s]
  BY <1>1, TreeFacts
<1>3. pos[s] <= k /\ k <= Len(Tree) + 1 /\ pos' = [pos EXCEPT ![s] = k]
  BY <1>1, <1>2, TreeFacts DEF Cancelled, ScanTypes
<1>4. \A i \in DOMAIN Tree : ~(pos[s] <= i /\ i < k)
  BY <1>1, <1>2, TreeFacts
<1> QED
  BY <1>1, <1>2, <1>3, <1>4, PassesOn DEF Cancelled, Return, NoErr

\* A walk is over when every entry has been passed.
LEMMA EndWalkKeeps ==
  ASSUME IInv, NEW s \in Scanners, EndWalk(s)
  PROVE  IInv'
<1>1. /\ ScanTypes /\ ScannerOK(s) /\ s \in AllScanners /\ pc[s] = "walk"
      /\ pos[s] \in 1..(Len(Tree) + 1) /\ pos[s] > Len(Tree)
  BY ScannerNames DEF IInv, SharedTypes, ScannersInv, ScanTypes, EndWalk
<1>2. PICK k \in Nat : k = pos[s]
  BY <1>1, TreeFacts
<1>3. pos[s] <= k /\ k <= Len(Tree) + 1 /\ pos' = [pos EXCEPT ![s] = k]
  BY <1>1, <1>2, TreeFacts DEF EndWalk, ScanTypes
<1>4. UNCHANGED <<own, ownWarn, hidden, type, shared, ended, end>>
  BY DEF EndWalk
<1>5. \A i \in DOMAIN Tree : ~(pos[s] <= i /\ i < k)
  BY <1>1, <1>2, TreeFacts
<1>6. \A i \in DOMAIN Tree : i < pos[s]
  BY <1>1, TreeFacts
<1>7. s # "k8s-live" => \A i \in DOMAIN Tree : Covered(s, i)'
  BY <1>1, <1>4, <1>6 DEF ScannerOK, Covered
<1>8. PICK e \in {NoErr, "io"} : Return(s, e)
  BY DEF EndWalk
<1> QED
  BY <1>1, <1>2, <1>3, <1>4, <1>5, <1>7, <1>8, PassesOn DEF Return

\* A directory: what is skipped with it is within it.
LEMMA VisitDirKeeps ==
  ASSUME IInv, NEW s \in Scanners, VisitDir(s)
  PROVE  IInv'
<1>1. /\ ScanTypes /\ ScannerOK(s) /\ s \in AllScanners /\ pc[s] = "walk" /\ s # "k8s-live"
      /\ pos[s] \in 1..(Len(Tree) + 1) /\ pos[s] <= Len(Tree)
  BY ScannerNames DEF IInv, SharedTypes, ScannersInv, ScannerOK, ScanTypes, VisitDir
<1>2. PICK p \in DOMAIN Tree : p = pos[s]
  BY <1>1, TreeFacts
<1>3. PICK e : e = Tree[p]
  OBVIOUS
<1>4. /\ e.ext = "dir" /\ e.inside \in Nat /\ p + e.inside <= Len(Tree) /\ p \in Nat
      /\ Len(Tree) \in Nat /\ DOMAIN Tree = 1..Len(Tree)
  BY <1>2, <1>3, TreeFacts DEF VisitDir
<1>5. UNCHANGED <<own, ownWarn, type, shared, ended, end>> /\ UNCHANGED <<pc, err>>
  BY DEF VisitDir
<1>6. pc' = [pc EXCEPT ![s] = "walk"] /\ err' = [err EXCEPT ![s] = err[s]] /\ err[s] \in {NoErr, "ctx", "io"}
  BY <1>1, <1>5 DEF ScanTypes
<1>7. PICK k \in Nat :
        /\ k = p + 1 \/ k = p + 1 + e.inside
        /\ pos' = [pos EXCEPT ![s] = k]
        /\ \/ k = p + 1 /\ UNCHANGED hidden
           \/ e.odd /\ UNCHANGED hidden
           \/ hidden' = hidden \cup ({s} \X ((p + 1)..(p + e.inside)))
  <2>1. p + 1 \in Nat /\ p + 1 + e.inside \in Nat /\ p + (1 + e.inside) = p + 1 + e.inside
    BY <1>4
  <2>2. CASE e.odd /\ Skip(s, 1 + e.inside) /\ UNCHANGED hidden
    <3>1. pos' = [pos EXCEPT ![s] = p + 1 + e.inside]
      BY <1>1, <1>2, <2>1, <2>2 DEF Skip, ScanTypes
    <3> QED
      BY <2>1, <2>2, <3>1
  <2>3. CASE ~e.odd /\ Skip(s, 1) /\ UNCHANGED hidden
    <3>1. pos' = [pos EXCEPT ![s] = p + 1]
      BY <1>1, <1>2, <2>1, <2>3 DEF Skip, ScanTypes
    <3> QED
      BY <2>1, <2>3, <3>1
  <2>4. CASE /\ ~e.odd /\ Skip(s, 1 + e.inside)
             /\ hidden' = hidden \cup ({s} \X ((p + 1)..(p + e.inside)))
    <3>1. pos' = [pos EXCEPT ![s] = p + 1 + e.inside]
      BY <1>1, <1>2, <2>1, <2>4 DEF Skip, ScanTypes
    <3> QED
      BY <2>1, <2>4, <3>1
  <2> QED
    BY <1>2, <1>3, <2>2, <2>3, <2>4 DEF VisitDir
<1>8. p <= k /\ k <= Len(Tree) + 1
  BY <1>4, <1>7
<1>9. pos' = [pos EXCEPT ![s] = k] /\ pos[s] <= k
  BY <1>2, <1>7, <1>8
<1>10. hidden \subseteq hidden' /\ hidden' \subseteq hidden \cup ({s} \X DOMAIN Tree)
  <2>1. (p + 1)..(p + e.inside) \subseteq DOMAIN Tree
    BY <1>4
  <2> QED
    BY <1>7, <2>1
<1>11. ASSUME NEW i \in DOMAIN Tree, p <= i, i < k PROVE Covered(s, i)'
  <2>1. CASE i = p
    BY <1>3, <1>4, <2>1 DEF Covered, Takes
  <2>2. CASE i # p
    <3>1. p \in 1..(i - 1) /\ k = p + 1 + e.inside /\ k # p + 1 /\ i <= p + e.inside /\ i \in (p + 1)..(p + e.inside)
      BY <1>4, <1>7, <1>11, <2>2
    <3>2. CASE e.odd
      BY <1>3, <3>1, <3>2 DEF Covered
    <3>3. CASE hidden' = hidden \cup ({s} \X ((p + 1)..(p + e.inside)))
      BY <3>1, <3>3 DEF Covered
    <3> QED
      BY <1>7, <3>1, <3>2, <3>3
  <2> QED
    BY <2>1, <2>2
<1> QED
  BY <1>1, <1>2, <1>4, <1>5, <1>6, <1>8, <1>9, <1>10, <1>11, PassesOn

\* A file that has gone.
LEMMA FileGoneKeeps ==
  ASSUME IInv, NEW s \in Scanners, FileGone(s)
  PROVE  IInv'
<1>1. /\ ScanTypes /\ ScannerOK(s) /\ s \in AllScanners /\ pc[s] = "walk" /\ s # "k8s-live"
      /\ pos[s] \in 1..(Len(Tree) + 1) /\ pos[s] <= Len(Tree)
  BY ScannerNames DEF IInv, SharedTypes, ScannersInv, ScannerOK, ScanTypes, FileGone
<1>2. PICK p \in DOMAIN Tree : p = pos[s]
  BY <1>1, TreeFacts
<1>3. p \in Nat /\ p <= Len(Tree) /\ Len(Tree) \in Nat /\ DOMAIN Tree = 1..Len(Tree)
  BY <1>2, TreeFacts
<1>4. pos' = [pos EXCEPT ![s] = p + 1]
  BY <1>1, <1>2 DEF FileGone, Skip
<1>5. pc' = [pc EXCEPT ![s] = "walk"] /\ err' = [err EXCEPT ![s] = err[s]] /\ err[s] \in {NoErr, "ctx", "io"}
  BY <1>1 DEF FileGone, ScanTypes
<1>6. hidden' = hidden \cup {<<s, p>>} /\ UNCHANGED <<own, ownWarn, type, shared, ended, end>>
  BY <1>2 DEF FileGone
<1>7. ASSUME NEW i \in DOMAIN Tree, p <= i, i < p + 1 PROVE Covered(s, i)'
  <2>1. i = p
    BY <1>3, <1>7
  <2> QED
    BY <1>6, <2>1 DEF Covered
<1>8. hidden' \subseteq hidden \cup ({s} \X DOMAIN Tree) /\ hidden \subseteq hidden'
  BY <1>6
<1>9. p + 1 \in Nat /\ p <= p + 1 /\ p + 1 <= Len(Tree) + 1
  BY <1>3
<1> QED
  BY <1>1, <1>2, <1>4, <1>5, <1>6, <1>7, <1>8, <1>9, PassesOn

\* The problems of one file, as a list.
LEMMA ProblemList ==
  ASSUME NEW s \in AllScanners, NEW p \in Nat, NEW m \in Nat,
         NEW q \in [1..m -> Finding], \A n \in 1..m : q[n] = <<s, p, n>>
  PROVE  /\ q \in Seq(Finding) /\ Ordered(q)
         /\ \A n \in 1..m : <<s, p, n>> \in Range(q)
<1>1. \A n \in 1..m : q[n] = <<s, p, n>>
  OBVIOUS
<1>2. DOMAIN q = 1..m
  OBVIOUS
<1>3. q \in Seq(Finding)
  BY SeqDef
<1>4. Ordered(q)
  <2> SUFFICES ASSUME NEW i \in 1..m, NEW j \in 1..m, i < j
               PROVE  q[i][2] = q[j][2] /\ q[i][3] < q[j][3]
    BY <1>2 DEF Ordered
  <2> QED
    BY <1>1
<1>5. \A n \in 1..m : <<s, p, n>> \in Range(q)
  BY <1>1, <1>2 DEF Range
<1> QED
  BY <1>3, <1>4, <1>5

\* A file that is passed over, read to its end, or read in part with a warning.
LEMMA VisitFileKeeps ==
  ASSUME IInv, NEW s \in Scanners, VisitFile(s)
  PROVE  IInv'
<1>1. /\ ScanTypes /\ ScannerOK(s) /\ s \in AllScanners /\ pc[s] = "walk" /\ s # "k8s-live"
      /\ pos[s] \in 1..(Len(Tree) + 1) /\ pos[s] <= Len(Tree)
  BY ScannerNames DEF IInv, SharedTypes, ScannersInv, ScannerOK, ScanTypes, VisitFile
<1>2. PICK p \in DOMAIN Tree : p = pos[s]
  BY <1>1, TreeFacts
<1>3. /\ p \in Nat /\ p <= Len(Tree) /\ Len(Tree) \in Nat /\ DOMAIN Tree = 1..Len(Tree)
      /\ Tree[p].problems \in Nat
  BY <1>2, TreeFacts
<1>4. p + 1 \in Nat /\ p <= p + 1 /\ p + 1 <= Len(Tree) + 1 /\ p + 1 \in 1..(Len(Tree) + 1)
  BY <1>3
<1>5. pos' = [pos EXCEPT ![s] = p + 1]
  BY <1>1, <1>2 DEF VisitFile, Skip
<1>6. UNCHANGED <<pc, err, hidden, type, shared, ended, end>>
  BY DEF VisitFile
<1>7. \A i \in DOMAIN Tree : p <= i /\ i < p + 1 => i = p
  BY <1>3
<1>8. CASE ~Takes(s, Tree[p])
  <2>1. UNCHANGED <<own, ownWarn>>
    BY <1>2, <1>8 DEF VisitFile
  <2>2. pc' = [pc EXCEPT ![s] = "walk"] /\ err' = [err EXCEPT ![s] = err[s]] /\ err[s] \in {NoErr, "ctx", "io"}
    BY <1>1, <1>6 DEF ScanTypes
  <2>3. hidden \subseteq hidden' /\ hidden' \subseteq hidden \cup ({s} \X DOMAIN Tree)
    BY <1>6
  <2>4. ASSUME NEW i \in DOMAIN Tree, p <= i, i < p + 1 PROVE Covered(s, i)'
    BY <1>7, <1>8, <2>4 DEF Covered
  <2> QED
    BY <1>1, <1>2, <1>4, <1>5, <1>6, <2>1, <2>2, <2>3, <2>4, PassesOn
<1>9. CASE Takes(s, Tree[p])
  <2>1. PICK read \in 0..Tree[p].problems, broken \in BOOLEAN :
          /\ ~broken => read = Tree[p].problems
          /\ own' = [own EXCEPT ![s] = @ \o Problems(s, read, broken)]
          /\ ownWarn' = [ownWarn EXCEPT ![s] = IF broken THEN @ \cup {p} ELSE @]
    BY <1>2, <1>9 DEF VisitFile
  <2>2. PICK q : q = Problems(s, read, broken)
    OBVIOUS
  <2>3. /\ q \in Seq(Finding) /\ Ordered(q) /\ \A x \in Range(q) : x[1] = s /\ x[2] = p
        /\ ~broken => \A n \in 1..Tree[p].problems : <<s, p, n>> \in Range(q)
    <3>1. PICK m \in Nat : m = IF broken /\ s = "k8s-local" THEN 0 ELSE read
      BY <1>3
    <3>2. s \in AllScanners /\ p \in Nat /\ m \in Nat
      BY <1>1, <1>3, <3>1
    <3>3. q \in [1..m -> Finding] /\ \A n \in 1..m : q[n] = <<s, p, n>>
      <4>1. CASE broken /\ s = "k8s-local"
        <5>1. q = <<>> /\ m = 0
          BY <2>2, <3>1, <4>1 DEF Problems
        <5>2. Len(q) = 0 /\ q \in [1..Len(q) -> Finding]
          BY <5>1, EmptySeq, LenProperties
        <5> QED
          BY <5>1, <5>2
      <4>2. CASE ~(broken /\ s = "k8s-local")
        <5>1. q = [n \in 1..m |-> <<s, p, n>>]
          BY <1>2, <2>2, <3>1, <4>2 DEF Problems
        <5> QED
          BY <3>2, <5>1 DEF Finding
      <4> QED
        BY <4>1, <4>2
    <3>4. /\ q \in Seq(Finding) /\ Ordered(q) /\ \A x \in Range(q) : x[1] = s /\ x[2] = p
          /\ \A n \in 1..m : <<s, p, n>> \in Range(q)
      <4>1. q \in Seq(Finding) /\ Ordered(q) /\ \A n \in 1..m : <<s, p, n>> \in Range(q)
        BY <3>2, <3>3, ProblemList
      <4>2. ASSUME NEW x \in Range(q) PROVE x[1] = s /\ x[2] = p
        <5>1. PICK n \in 1..m : x = <<s, p, n>>
          BY <3>3 DEF Range
        <5> QED
          BY <5>1
      <4> QED
        BY <4>1, <4>2
    <3>5. ~broken => m = Tree[p].problems
      BY <2>1, <3>1
    <3> QED
      BY <3>4, <3>5
  <2>4. PICK o : o = own[s]
    OBVIOUS
  <2>5. /\ o \in Seq(Finding) /\ Ordered(o)
        /\ \A x \in Range(o) : x[1] = s /\ x[2] < p /\ x[2] \in Nat
    <3>1. o \in Seq(Finding)
      BY <1>1, <2>4 DEF ScanTypes
    <3>2. \A x \in Range(o) : x[2] \in Nat
      BY <3>1, Element DEF Finding
    <3> QED
      BY <1>1, <1>2, <2>4, <3>1, <3>2 DEF ScannerOK
  <2>6. o \o q \in Seq(Finding) /\ Range(o \o q) = Range(o) \cup Range(q)
    BY <2>3, <2>5, Appended
  <2>7. Ordered(o \o q)
    <3>1. \A x \in Range(o), y \in Range(q) : x[1] # y[1] \/ x[2] < y[2]
      BY <2>3, <2>5
    <3> QED
      BY <2>3, <2>5, <3>1, OrderedAppended
  <2>8. own' = [own EXCEPT ![s] = o \o q] /\ own'[s] = o \o q
    BY <1>1, <2>1, <2>2, <2>4 DEF ScanTypes
  <2>9. /\ ownWarn[s] \subseteq ownWarn'[s] /\ ownWarn'[s] \subseteq DOMAIN Tree
        /\ broken => p \in ownWarn'[s]
        /\ ownWarn' = [ownWarn EXCEPT ![s] = ownWarn'[s]]
    BY <1>1, <1>2, <2>1 DEF ScanTypes
  <2>10. ScanTypes'
    BY <1>1, <1>4, <1>5, <1>6, <2>6, <2>8, <2>9 DEF ScanTypes
  <2>11. pc'[s] = "walk" /\ pos'[s] = p + 1
    BY <1>1, <1>5, <1>6 DEF ScanTypes
  <2>12. \A i \in DOMAIN Tree : Covered(s, i) => Covered(s, i)'
    BY <1>6, <2>4, <2>6, <2>8, <2>9, StaysCovered
  <2>13. Covered(s, p)'
    BY <2>3, <2>6, <2>8, <2>9 DEF Covered
  <2>14. \A i \in DOMAIN Tree : i < p + 1 => Covered(s, i)'
    <3> SUFFICES ASSUME NEW i \in DOMAIN Tree, i < p + 1 PROVE Covered(s, i)'
      OBVIOUS
    <3>1. i < p \/ i = p
      BY <1>3
    <3> QED
      BY <1>1, <1>2, <2>12, <2>13, <3>1 DEF ScannerOK
  <2>15. \A x \in Range(o \o q) : x[1] = s /\ x[2] < p + 1
    BY <1>3, <2>3, <2>5, <2>6
  <2>16. ScannerOK(s)'
    <3>1. Ordered(own[s])'
      <4>1. PICK c : c = o \o q
        OBVIOUS
      <4>2. Ordered(c) /\ own'[s] = c
        BY <2>7, <2>8, <4>1
      <4> QED
        BY <4>2 DEF Ordered
    <3>2. \A x \in Range(own[s])' : x[1] = s /\ x[2] < pos'[s]
      BY <2>8, <2>11, <2>15
    <3> QED
      BY <1>1, <2>11, <2>14, <3>1, <3>2 DEF ScannerOK
  <2>17. \A r \in AllScanners : r # s =>
           /\ pc'[r] = pc[r] /\ pos'[r] = pos[r] /\ own'[r] = own[r]
           /\ ownWarn'[r] = ownWarn[r] /\ err'[r] = err[r]
    BY <1>1, <1>5, <1>6, <2>1 DEF ScanTypes
  <2>18. hidden \subseteq hidden' /\ pc[s] \in {"open", "walk"} /\ pc'[s] \in {"walk", "returned"}
    BY <1>1, <1>6, <2>11
  <2> QED
    BY <1>6, <2>10, <2>16, <2>17, <2>18, ScannerAlone
<1> QED
  BY <1>8, <1>9

-----------------------------------------------------------------------------
(* The section, and the end of the command.                                *)

\* What a scanner does after its walk leaves what all scanners know as it is,
\* unless it makes one of them go on.
LEMMA ScannersRest ==
  ASSUME ScanTypes, ScannersInv, UNCHANGED walk,
         \A s \in AllScanners : pc'[s] = pc[s] \/ (pc[s] \notin {"open", "walk"} /\ pc'[s] # "walk")
  PROVE  ScannersInv'
<1> SUFFICES ASSUME NEW s \in AllScanners PROVE ScannerOK(s)'
  BY DEF ScannersInv
<1>1. ScannerOK(s)
  BY DEF ScannersInv
<1>2. UNCHANGED <<pos, own, ownWarn, err, hidden>>
  BY DEF walk
<1>3. \A i \in DOMAIN Tree : Covered(s, i) => Covered(s, i)'
  BY <1>2, StaysCovered
<1>4. Ordered(own[s])'
  BY <1>1, <1>2 DEF ScannerOK, Ordered
<1> QED
  BY <1>1, <1>2, <1>3, <1>4 DEF ScannerOK

\* The mutex is free, so nobody else is in the section.
LEMMA LockKeeps ==
  ASSUME IInv, NEW s \in Scanners, Lock(s)
  PROVE  IInv'
<1>1. ScanTypes /\ SharedTypes /\ ScannersInv /\ LockInv /\ MergeInv /\ MainInv
  BY DEF IInv
<1>2. s \in AllScanners /\ s # "free" /\ pc[s] = "returned" /\ mu = "free"
  BY <1>1, ScannerNames DEF SharedTypes, Lock
<1>3. /\ UNCHANGED <<type, walk, findings, warned, firstErr, ended, end>> /\ mu' = s
      /\ base' = [base EXCEPT ![s] = findings] /\ pc' = [pc EXCEPT ![s] = "locked"]
  BY DEF Lock
<1>4. ScanTypes'
  BY <1>1, <1>3 DEF ScanTypes, walk
<1>5. SharedTypes'
  BY <1>1, <1>3 DEF SharedTypes, Scanners, end
<1>6. ScannersInv'
  BY <1>1, <1>2, <1>3, ScannersRest DEF ScanTypes
<1>7. LockInv'
  <2>1. pc'[s] = "locked" /\ base'[s] = findings'
    BY <1>1, <1>2, <1>3 DEF ScanTypes, SharedTypes
  <2>2. ASSUME NEW r \in AllScanners, r # s PROVE pc'[r] # "locked"
    BY <1>1, <1>2, <1>3, <2>2, ScannerNames DEF LockInv, ScanTypes
  <2> QED
    BY <1>3, <2>1, <2>2 DEF LockInv
<1>8. MergeInv'
  BY <1>1, <1>2, <1>3 DEF MergeInv, ScanTypes, walk, Ordered
<1>9. MainInv'
  <2>1. main = "wait"
    BY <1>1, <1>2 DEF MainInv
  <2> QED
    BY <1>1, <1>3, <2>1 DEF MainInv, Reported, end
<1> QED
  BY <1>4, <1>5, <1>6, <1>7, <1>8, <1>9 DEF IInv

\* A scanner adds its findings to what it has read, which is still current,
\* or leaves its error.
LEMMA MergeKeeps ==
  ASSUME IInv, NEW s \in Scanners, Merge(s)
  PROVE  IInv'
<1>1. ScanTypes /\ SharedTypes /\ ScannersInv /\ LockInv /\ MergeInv /\ MainInv
  BY DEF IInv
<1>2. s \in AllScanners /\ pc[s] = "locked" /\ mu = s /\ base[s] = findings
  BY <1>1, ScannerNames DEF SharedTypes, Merge, LockInv
<1>3. /\ UNCHANGED <<type, walk, base, ended, end>> /\ mu' = "free"
      /\ pc' = [pc EXCEPT ![s] = "unlocked"]
  BY DEF Merge
<1>4. PICK f, o : f = findings /\ o = own[s]
  OBVIOUS
<1>5. /\ f \in Seq(Finding) /\ Ordered(f) /\ o \in Seq(Finding) /\ Ordered(o)
      /\ \A x \in Range(f) : pc[x[1]] \in {"unlocked", "gone"} /\ x[1] \in AllScanners
      /\ \A x \in Range(o) : x[1] = s
  <2>1. f \in Seq(Finding) /\ o \in Seq(Finding)
    BY <1>1, <1>2, <1>4 DEF ScanTypes, SharedTypes
  <2>2. \A x \in Range(f) : x[1] \in AllScanners
    BY <2>1, Element DEF Finding
  <2> QED
    BY <1>1, <1>2, <1>4, <2>1, <2>2 DEF MergeInv, ScannersInv, ScannerOK
<1>6. \/ /\ err[s] # NoErr /\ firstErr = NoErr /\ firstErr' = err[s] /\ findings' = f
         /\ UNCHANGED warned
      \/ /\ err[s] = NoErr \/ firstErr # NoErr
         /\ findings' = f \o o /\ warned' = warned \cup ({s} \X ownWarn[s])
         /\ UNCHANGED firstErr
  BY <1>2, <1>4 DEF Merge
<1>7. f \o o \in Seq(Finding) /\ Range(f \o o) = Range(f) \cup Range(o) /\ Ordered(f \o o)
  <2>1. \A x \in Range(f), y \in Range(o) : x[1] # y[1] \/ x[2] < y[2]
    BY <1>2, <1>5
  <2> QED
    BY <1>5, <2>1, Appended, OrderedAppended
<1>8. PICK g : g = findings'
  OBVIOUS
<1>9. /\ g \in Seq(Finding) /\ Ordered(g) /\ Range(f) \subseteq Range(g)
      /\ \A x \in Range(g) : x \in Range(f) \/ x[1] = s
      /\ IF err[s] # NoErr THEN firstErr' # NoErr
         ELSE Range(own[s]) \subseteq Range(g) /\ {s} \X ownWarn[s] \subseteq warned'
      /\ warned \subseteq warned' /\ (firstErr # NoErr => firstErr' # NoErr)
  BY <1>4, <1>5, <1>6, <1>7, <1>8
<1>10. /\ firstErr' \in {NoErr, "ctx", "io"}
       /\ warned' \subseteq Scanners \X DOMAIN Tree
  <2>1. err[s] \in {NoErr, "ctx", "io"} /\ ownWarn[s] \subseteq DOMAIN Tree
    BY <1>1, <1>2 DEF ScanTypes
  <2> QED
    BY <1>1, <1>6, <2>1 DEF SharedTypes
<1>11. UNCHANGED <<pos, own, ownWarn, err, hidden>> /\ UNCHANGED <<main, exit>>
  BY <1>3 DEF walk, end
<1>12. ScanTypes'
  BY <1>1, <1>3, <1>11 DEF ScanTypes
<1>13. SharedTypes'
  BY <1>1, <1>3, <1>8, <1>9, <1>10, <1>11 DEF SharedTypes, Scanners
<1>14. ScannersInv'
  BY <1>1, <1>2, <1>3, ScannersRest DEF ScanTypes
<1>15. LockInv'
  BY <1>1, <1>2, <1>3 DEF LockInv, ScanTypes
<1>16. MergeInv'
  <2>1. Ordered(findings)'
    BY <1>8, <1>9 DEF Ordered
  <2>2. pc'[s] = "unlocked" /\ \A r \in AllScanners : r # s => pc'[r] = pc[r]
    BY <1>1, <1>2, <1>3 DEF ScanTypes
  <2>3. \A x \in Range(findings)' : pc'[x[1]] \in {"unlocked", "gone"}
    BY <1>5, <1>8, <1>9, <2>2
  <2>4. ASSUME NEW r \in AllScanners, pc'[r] \in {"unlocked", "gone"}
        PROVE  IF err[r] # NoErr THEN firstErr' # NoErr
               ELSE Range(own[r]) \subseteq Range(g) /\ {r} \X ownWarn[r] \subseteq warned'
    <3>1. CASE r = s
      BY <1>9, <3>1
    <3>2. CASE r # s
      BY <1>1, <1>4, <1>9, <2>2, <2>4, <3>2 DEF MergeInv
    <3> QED
      BY <3>1, <3>2
  <2> QED
    BY <1>8, <1>11, <2>1, <2>3, <2>4 DEF MergeInv
<1>17. MainInv'
  <2>1. main = "wait"
    BY <1>1, <1>2 DEF MainInv
  <2> QED
    BY <1>1, <1>11, <2>1 DEF MainInv, Reported
<1> QED
  BY <1>12, <1>13, <1>14, <1>15, <1>16, <1>17 DEF IInv

\* wg.Done.
LEMMA DoneKeeps ==
  ASSUME IInv, NEW s \in Scanners, Done(s)
  PROVE  IInv'
<1>1. ScanTypes /\ SharedTypes /\ ScannersInv /\ LockInv /\ MergeInv /\ MainInv
  BY DEF IInv
<1>2. s \in AllScanners /\ pc[s] = "unlocked" /\ mu # s
  BY <1>1, ScannerNames DEF SharedTypes, Done, LockInv
<1>3. UNCHANGED <<type, walk, shared, ended, end>> /\ pc' = [pc EXCEPT ![s] = "gone"]
  BY DEF Done
<1>4. ScanTypes'
  BY <1>1, <1>3 DEF ScanTypes, walk
<1>5. SharedTypes'
  BY <1>1, <1>3 DEF SharedTypes, Scanners, shared, end
<1>6. ScannersInv'
  BY <1>1, <1>2, <1>3, ScannersRest DEF ScanTypes
<1>7. LockInv'
  <2>1. mu # "free" => pc'[mu] = "locked"
    BY <1>1, <1>2, <1>3 DEF LockInv, ScanTypes
  <2> QED
    BY <1>1, <1>2, <1>3, <2>1 DEF LockInv, ScanTypes, shared
<1>8. MergeInv'
  <2>1. \A x \in Range(findings) : pc'[x[1]] \in {"unlocked", "gone"}
    BY <1>1, <1>2, <1>3 DEF MergeInv, ScanTypes
  <2>2. \A r \in AllScanners : pc'[r] \in {"unlocked", "gone"} => pc[r] \in {"unlocked", "gone"}
    BY <1>1, <1>2, <1>3 DEF ScanTypes
  <2> QED
    BY <1>1, <1>3, <2>1, <2>2 DEF MergeInv, walk, shared, Ordered
<1>9. MainInv'
  <2>1. main = "wait"
    BY <1>1, <1>2 DEF MainInv
  <2> QED
    BY <1>1, <1>3, <2>1 DEF MainInv, Reported, end
<1> QED
  BY <1>4, <1>5, <1>6, <1>7, <1>8, <1>9 DEF IInv

\* The main goroutine and the context leave the scanners alone.
LEMMA MainKeeps ==
  ASSUME IInv, Wait \/ PrintReport \/ ContextEnds \/ UNCHANGED vars
  PROVE  IInv'
<1>1. ScanTypes /\ SharedTypes /\ ScannersInv /\ LockInv /\ MergeInv /\ MainInv
  BY DEF IInv
<1>2. UNCHANGED <<type, pc, walk, shared>>
  BY DEF Wait, PrintReport, ContextEnds, vars
<1>3. ScanTypes' /\ LockInv' /\ MergeInv'
  BY <1>1, <1>2 DEF ScanTypes, LockInv, MergeInv, Ordered, walk, shared
<1>4. SharedTypes'
  <2>1. ended' \in BOOLEAN /\ main' \in {"wait", "print", "done"} /\ exit' \in {-1, 0, 1, 2}
    BY <1>1 DEF SharedTypes, Wait, PrintReport, ContextEnds, vars, end
  <2> QED
    BY <1>1, <1>2, <2>1 DEF SharedTypes, Scanners, shared
<1>5. ScannersInv'
  BY <1>1, <1>2, ScannersRest
<1>6. MainInv'
  <2>1. CASE Wait
    BY <1>1, <1>2, <2>1 DEF MainInv, Reported, Scanners, Wait, shared
  <2>2. CASE PrintReport
    BY <1>1, <1>2, <2>2 DEF MainInv, Reported, Scanners, PrintReport, shared
  <2>3. CASE ContextEnds \/ UNCHANGED vars
    BY <1>1, <1>2, <2>3 DEF MainInv, Reported, Scanners, ContextEnds, vars, shared, end
  <2> QED
    BY <2>1, <2>2, <2>3
<1> QED
  BY <1>3, <1>4, <1>5, <1>6 DEF IInv

-----------------------------------------------------------------------------
(* The theorems.                                                           *)

\* The inductive invariant: every step of a scanner and of the command keeps it.
LEMMA StepInv == IInv /\ [Next]_vars => IInv'
<1> SUFFICES ASSUME IInv, [Next]_vars PROVE IInv'
  OBVIOUS
<1>1. ASSUME NEW s \in Scanners, Goroutine(s) PROVE IInv'
  BY <1>1, OpenRootKeeps, ListPodsKeeps, CancelledKeeps, VisitDirKeeps, VisitFileKeeps,
     FileGoneKeeps, EndWalkKeeps, LockKeeps, MergeKeeps, DoneKeeps DEF Goroutine, Scan
<1> QED
  BY <1>1, MainKeeps DEF Next, Exited

\* It holds throughout.
LEMMA Invariance == Spec => []IInv
  BY InitInv, StepInv, PTL DEF Spec

\* Types; whoever holds the mutex is in the section.
THEOREM TypeCorrect == Spec => []TypeOK
<1>1. IInv => TypeOK
  <2> SUFFICES ASSUME IInv PROVE TypeOK
    OBVIOUS
  <2>1. \A s \in AllScanners : Range(own[s]) \subseteq Finding /\ Range(base[s]) \subseteq Finding
    BY Element DEF IInv, ScanTypes, SharedTypes
  <2>2. Range(findings) \subseteq Finding
    BY Element DEF IInv, SharedTypes
  <2> QED
    BY <2>1, <2>2 DEF IInv, ScanTypes, SharedTypes, LockInv, TypeOK
<1> QED
  BY <1>1, Invariance, PTL

\* Two scanners that merge lose nothing of each other, for whatever trees they
\* walk and however they alternate.
THEOREM MergesAreWhole == Spec => []MergedInOrder
<1>1. IInv => MergedInOrder
  <2> SUFFICES ASSUME IInv PROVE MergedInOrder
    OBVIOUS
  <2>1. Scanners \subseteq AllScanners
    BY ScannerNames DEF IInv, SharedTypes
  <2>2. Ordered(findings)
    BY DEF IInv, MergeInv
  <2>3. \A s \in Scanners :
          pc[s] \in {"unlocked", "gone"} /\ err[s] = NoErr => Range(own[s]) \subseteq Range(findings)
    BY <2>1 DEF IInv, MergeInv
  <2> QED
    BY <2>2, <2>3 DEF MergedInOrder, Ordered
<1> QED
  BY <1>1, Invariance, PTL

\* A report has every problem of every file, or says what is missing, unless
\* the file could not be reached at all.
THEOREM ReportIsWhole == Spec => []NothingLostSilently
<1>1. IInv => NothingLostSilently
  <2> SUFFICES ASSUME IInv, Reported, NEW s \in Scanners, NEW i \in DOMAIN Tree, s # "k8s-live"
               PROVE  \/ ~Takes(s, Tree[i]) \/ <<s, i>> \in warned \cup hidden
                      \/ \A n \in 1..Tree[i].problems : <<s, i, n>> \in Range(findings)
                      \/ \E d \in 1..(i - 1) : Tree[d].odd /\ i <= d + Tree[d].inside
    BY DEF NothingLostSilently
  <2>1. s \in AllScanners /\ pc[s] = "gone" /\ firstErr = NoErr
    BY ScannerNames DEF IInv, SharedTypes, MainInv
  <2>2. /\ err[s] = NoErr
        /\ Range(own[s]) \subseteq Range(findings) /\ {s} \X ownWarn[s] \subseteq warned
    BY <2>1 DEF IInv, MergeInv
  <2>3. Covered(s, i)
    BY <2>1, <2>2 DEF IInv, ScannersInv, ScannerOK
  <2> QED
    BY <2>2, <2>3 DEF Covered
<1> QED
  BY <1>1, Invariance, PTL
=============================================================================
