---------------------------- MODULE DocSearchProofs ----------------------------
(***************************************************************************)
(* Proofs about `tend doc search`: for trees of any size, any query and    *)
(* any number of files that others change under way.                       *)
(***************************************************************************)
EXTENDS DocSearch, FiniteSetTheorems, WellFoundedInduction, TLAPS

\* What is on the disk where nobody has changed anything.
Original(f) == [there |-> TRUE, lines |-> tree[f].lines, time |-> 0]

\* The input and the disk.
WorldInv ==
  /\ tree \in Trees /\ query \in Queries
  /\ cancelled \in BOOLEAN /\ touched \subseteq Entries
  /\ DOMAIN disk = Entries /\ \A f \in Entries : disk[f].lines \in Seq(Line)
  /\ \A f \in Entries \ touched : disk[f] = Original(f)

\* Where the program is.
ControlInv ==
  /\ pc \in {"walk", "open", "excerpts", "print", "end"} /\ exit \in {-1, 0, 1}
  /\ pc # "end" => exit = -1
  /\ pos \in 1..(Len(tree) + 1)
  /\ pc = "open" => pos \in Entries /\ tree[pos].kind = "file" /\ HasFormat(tree[pos].ext)
  /\ pc \in {"excerpts", "print"} \/ exit = 0 => pos > Len(tree)
  /\ pc \in {"walk", "open"} => candidates = <<>>
  /\ pc = "print" \/ exit = 0 => cancelled \/ Len(results) = Len(candidates)

\* The index has the files behind the walk: of those nobody changed, exactly the
\* lines they have.
IndexInv ==
  /\ \A f \in DOMAIN index : /\ f \in Entries /\ f < pos /\ tree[f].readable
                             /\ tree[f].kind = "file" /\ HasFormat(tree[f].ext)
  /\ \A f \in DOMAIN index : index[f].lines \in Seq(Line)
  /\ \A f \in DOMAIN index : f \notin touched => index[f].lines = tree[f].lines
  /\ \A f \in Entries \ touched :
       f < pos /\ Searched(f) /\ tree[f].lines # <<>> => f \in DOMAIN index

\* The ranked hits.
CandidatesInv ==
  /\ candidates \in Seq([file : DOMAIN index, line : Nat]) /\ Len(candidates) <= MaxResults
  /\ \A i, k \in DOMAIN candidates : candidates[i].file = candidates[k].file => i = k
  /\ \A i \in DOMAIN candidates : \E k \in DOMAIN query : \E t \in TokensFor(query[k]) :
       candidates[i].line \in LinesWith(candidates[i].file, t)
  /\ pc \in {"excerpts", "print"} \/ exit = 0 => \A f \in Hits :
       \/ \E i \in DOMAIN candidates : candidates[i].file = f
       \/ /\ Len(candidates) = MaxResults
          /\ \A i \in DOMAIN candidates : ~(Score(f) > Score(candidates[i].file))

\* The results so far are the first candidates.
ResultsInv ==
  /\ DOMAIN results = 1..Len(results) /\ Len(results) \in Nat /\ Len(results) <= Len(candidates)
  /\ \A i \in DOMAIN results :
       /\ results[i].file = candidates[i].file /\ results[i].line = candidates[i].line
       /\ results[i].file \notin touched =>
            results[i].text = LineOf(Original(results[i].file), tree[results[i].file].readable, results[i].line)

IInv == WorldInv /\ ControlInv /\ IndexInv /\ CandidatesInv /\ ResultsInv

-----------------------------------------------------------------------------
(* Operators.                                                              *)

\* A tree is numbered from one.
LEMMA TreeIs ==
  ASSUME WorldInv
  PROVE  /\ tree \in Seq(TreeEntry) /\ query \in Seq(STRING)
         /\ Len(tree) \in Nat /\ Entries = 1..Len(tree)
         /\ \A f \in Entries : tree[f] \in TreeEntry
<1>1. tree \in Seq(TreeEntry) /\ query \in Seq(STRING)
  BY DocSearchAssumption DEF WorldInv
<1> QED
  BY <1>1 DEF Entries

\* A set of naturals has a smallest element.
LEMMA MinIs ==
  ASSUME NEW S, S \subseteq Nat, S # {}
  PROVE  Min(S) \in S /\ \A y \in S : Min(S) <= y
<1>1. PICK x \in S : \A y \in S : ~(<<y, x>> \in OpToRel(<, Nat))
  BY WFMin, NatLessThanWellFounded
<1>2. \A y \in Nat : <<y, x>> \in OpToRel(<, Nat) <=> y < x
  BY DEF OpToRel
<1>3. \A y \in S : x <= y
  <2>1. \A y \in S : ~(y < x)
    BY <1>1, <1>2, Zenon
  <2> QED
    BY <2>1
<1> QED
  BY <1>3 DEF Min

\* No more than MaxResults of the hits are kept.
LEMMA LimitIs ==
  ASSUME NEW n \in Nat
  PROVE  /\ Limit(n) \in Nat /\ Limit(n) <= n /\ Limit(n) <= MaxResults
         /\ Limit(n) < n => Limit(n) = MaxResults
<1>1. PICK m \in Nat : m = MaxResults
  BY DocSearchAssumption
<1>2. Min({n, m}) \in {n, m} /\ \A y \in {n, m} : Min({n, m}) <= y
  <2>1. {n, m} \subseteq Nat /\ {n, m} # {}
    OBVIOUS
  <2> QED
    BY <2>1, MinIs
<1>3. PICK l : l = Limit(n)
  OBVIOUS
<1>4. l \in {n, m} /\ l <= n /\ l <= m
  BY <1>1, <1>2, <1>3 DEF Limit
<1> QED
  BY <1>1, <1>3, <1>4

\* An order of a finite set holds each of its elements once.
LEMMA OrderIs ==
  ASSUME NEW S, IsFiniteSet(S), NEW order \in SetToSeqs(S)
  PROVE  /\ Len(order) \in Nat /\ DOMAIN order = 1..Len(order)
         /\ \A i \in DOMAIN order : order[i] \in S
         /\ \A i, k \in DOMAIN order : order[i] = order[k] => i = k
         /\ \A s \in S : \E i \in DOMAIN order : order[i] = s
<1>1. PICK n \in Nat : n = Cardinality(S)
  BY FS_CardinalityType
<1>2. order \in [1..n -> S] /\ \A i, j \in 1..n : i # j => order[i] # order[j]
  BY <1>1 DEF SetToSeqs
<1>3. order \in Injection(1..n, S)
  BY <1>2 DEF Injection, IsInjective
<1>4. IsFiniteSet(1..n) /\ Cardinality(1..n) = n
  <2>1. \A a, b \in Int : IsFiniteSet(a..b) /\ Cardinality(a..b) = IF a > b THEN 0 ELSE b - a + 1
    BY FS_Interval
  <2>2. 1 \in Int /\ n \in Int /\ (IF 1 > n THEN 0 ELSE n - 1 + 1) = n
    OBVIOUS
  <2> QED
    BY <2>1, <2>2, Zenon
<1>5. order \in Surjection(1..n, S)
  BY <1>1, <1>3, <1>4, FS_Injection
<1>6. \A s \in S : \E i \in 1..n : order[i] = s
  BY <1>5 DEF Surjection
<1> QED
  BY <1>2, <1>6

\* Hits, scores and lines are read off the index and the query alone.
LEMMA SameIndex ==
  ASSUME UNCHANGED <<index, query>>
  PROVE  /\ Hits' = Hits /\ (\A f : Score(f)' = Score(f))
         /\ (\A f, t : LinesWith(f, t)' = LinesWith(f, t)) /\ (\A t : TokensFor(t)' = TokensFor(t))
<1>1. \A f, t : LinesWith(f, t)' = LinesWith(f, t)
  BY DEF LinesWith
<1>2. \A t : TokensFor(t)' = TokensFor(t)
  BY <1>1 DEF TokensFor, IsIndexed
<1>3. Hits' = Hits
  BY <1>1, <1>2 DEF Hits, Matches
<1>4. \A f : Score(f)' = Score(f)
  BY DEF Score, Points, TokensFor, IsIndexed, LinesWith
<1> QED
  BY <1>1, <1>2, <1>3, <1>4

\* The best line of a hit has a token that the query asks for.
LEMMA BestLineIs ==
  ASSUME WorldInv, IndexInv, NEW f \in Hits, NEW n \in BestLines(f)
  PROVE  n \in Nat /\ \E k \in DOMAIN query : \E t \in TokensFor(query[k]) : n \in LinesWith(f, t)
<1> DEFINE asked == {i \in DOMAIN query : Matches(f, query[i])}
<1>1. asked \subseteq Nat /\ asked # {}
  BY TreeIs DEF Hits
<1>2. PICK first \in asked : first = Min(asked)
  <2> HIDE DEF asked
  <2> QED
    BY <1>1, MinIs
<1>3. n \in {Min(LinesWith(f, t)) : t \in {t \in TokensFor(query[first]) : LinesWith(f, t) # {}}}
  BY <1>2 DEF BestLines
<1>4. PICK t \in TokensFor(query[first]) : LinesWith(f, t) # {} /\ n = Min(LinesWith(f, t))
  BY <1>3
<1>5. LinesWith(f, t) \subseteq Nat
  <2>1. index[f].lines \in Seq(Line)
    BY DEF IndexInv, Hits
  <2> QED
    BY <2>1 DEF LinesWith
<1>6. n \in LinesWith(f, t)
  <2>1. PICK S : S = LinesWith(f, t)
    OBVIOUS
  <2> QED
    BY <1>4, <1>5, <2>1, MinIs
<1> QED
  BY <1>2, <1>4, <1>5, <1>6

\* There are finitely many hits.
LEMMA HitsFinite ==
  ASSUME WorldInv, IndexInv
  PROVE  IsFiniteSet(Hits)
<1>1. Hits \in SUBSET (1..Len(tree)) /\ Len(tree) \in Nat
  BY TreeIs DEF Hits, IndexInv
<1>2. IsFiniteSet(1..Len(tree))
  BY <1>1, FS_Interval
<1> QED
  BY <1>1, <1>2, FS_Subset

-----------------------------------------------------------------------------
(* The invariant.                                                          *)

\* It holds at the start.
LEMMA InitInv ==
  ASSUME Init
  PROVE  IInv
<1>1. WorldInv
  <2>1. tree \in Seq(TreeEntry)
    BY DocSearchAssumption DEF Init
  <2>2. \A f \in Entries : tree[f].lines \in Seq(Line)
    <3>1. \A f \in Entries : tree[f] \in TreeEntry
      BY <2>1 DEF Entries
    <3> QED
      BY <3>1 DEF TreeEntry
  <2> QED
    BY <2>2 DEF Init, WorldInv, Original
<1>2. ControlInv
  BY <1>1, TreeIs DEF Init, ControlInv
<1>3. IndexInv
  BY <1>1, TreeIs DEF Init, IndexInv
<1>4. CandidatesInv
  BY DocSearchAssumption DEF Init, CandidatesInv
<1>5. ResultsInv
  BY DEF Init, ResultsInv
<1> QED
  BY <1>1, <1>2, <1>3, <1>4, <1>5 DEF IInv

\* What a step keeps of the candidates if it leaves them and the index alone.
LEMMA SameCandidates ==
  ASSUME CandidatesInv, UNCHANGED <<index, query, candidates>>,
         pc' \in {"excerpts", "print"} \/ exit' = 0 => pc \in {"excerpts", "print"} \/ exit = 0
  PROVE  CandidatesInv'
  BY SameIndex DEF CandidatesInv

\* Somebody changes a file.
LEMMA EditStep ==
  ASSUME IInv, NEW f \in Entries, Edit(f)
  PROVE  IInv'
<1>1. /\ UNCHANGED <<tree, query, cancelled, pc, pos, mtime, index, candidates, results, exit>>
      /\ touched' = touched \cup {f} /\ DOMAIN disk' = DOMAIN disk
      /\ \A g \in Entries \ {f} : disk'[g] = disk[g]
      /\ disk'[f].lines \in Seq(Line)
  BY DocSearchAssumption DEF Edit, IInv, WorldInv
<1>2. WorldInv'
  BY <1>1 DEF IInv, WorldInv, Entries, Original
<1>3. ControlInv'
  BY <1>1 DEF IInv, ControlInv, Entries, HasFormat
<1>4. IndexInv'
  BY <1>1 DEF IInv, IndexInv, Entries, HasFormat, Searched, Huge
<1>5. CandidatesInv'
  BY <1>1, SameCandidates DEF IInv
<1>6. ResultsInv'
  BY <1>1 DEF IInv, ResultsInv, Original
<1> QED
  BY <1>2, <1>3, <1>4, <1>5, <1>6 DEF IInv

\* Nothing of the index and the results depends on the context.
LEMMA CancelStep ==
  ASSUME IInv, Cancel
  PROVE  IInv'
<1>1. /\ UNCHANGED <<tree, query, disk, touched, pc, pos, mtime, index, candidates, results, exit>>
      /\ cancelled' = TRUE
  BY DEF Cancel
<1>2. WorldInv'
  BY <1>1 DEF IInv, WorldInv, Entries, Original
<1>3. ControlInv'
  BY <1>1 DEF IInv, ControlInv, Entries, HasFormat
<1>4. IndexInv'
  BY <1>1 DEF IInv, IndexInv, Entries, HasFormat, Searched, Huge
<1>5. CandidatesInv'
  BY <1>1, SameCandidates DEF IInv
<1>6. ResultsInv'
  BY <1>1 DEF IInv, ResultsInv, Original
<1> QED
  BY <1>2, <1>3, <1>4, <1>5, <1>6 DEF IInv

\* A file that nobody changed is passed over only if it is not to be searched.
LEMMA VisitStep ==
  ASSUME IInv, NEW f \in Entries, Visit(f)
  PROVE  IInv'
<1>1. /\ UNCHANGED <<tree, query, disk, touched, cancelled, index, candidates, results>>
      /\ pc = "walk" /\ pos = f
      /\ \/ pc' = "end" /\ exit' = 1 /\ pos' = pos
         \/ Skipped(f) /\ pos' = pos + 1 /\ pc' = pc /\ exit' = exit
         \/ ~Skipped(f) /\ pc' = "open" /\ pos' = pos /\ exit' = exit
  BY DEF Visit, Finish, world
<1>2. WorldInv'
  BY <1>1 DEF IInv, WorldInv, Entries, Original
<1>3. Len(tree) \in Nat /\ Entries = 1..Len(tree) /\ pos \in Nat
  BY TreeIs DEF IInv, ControlInv
<1>4. ControlInv'
  <2>1. exit = -1 /\ candidates = <<>>
    BY <1>1 DEF IInv, ControlInv
  <2>2. ~Skipped(f) => tree[f].kind = "file" /\ HasFormat(tree[f].ext)
    BY DEF Skipped
  <2> QED
    BY <1>1, <1>3, <2>1, <2>2 DEF IInv, ControlInv, Entries, HasFormat
<1>5. IndexInv'
  <2>1. Skipped(f) /\ f \notin touched => ~Searched(f) \/ tree[f].lines = <<>>
    BY DEF IInv, WorldInv, Skipped, Searched, Original
  <2>2. \A g \in Entries : g < pos' => g < pos \/ (g = f /\ Skipped(f))
    BY <1>1, <1>3
  <2>3. \A g \in Entries : g < pos => g < pos'
    BY <1>1, <1>3
  <2>4. Entries' = Entries /\ \A g : Searched(g)' = Searched(g)
    BY <1>1 DEF Entries, Searched, HasFormat, Huge
  <2>5. \A e : HasFormat(e)' = HasFormat(e)
    BY DEF HasFormat
  <2> QED
    BY <1>1, <2>1, <2>2, <2>3, <2>4, <2>5 DEF IInv, IndexInv
<1>6. CandidatesInv'
  BY <1>1, SameCandidates DEF IInv, ControlInv
<1>7. ResultsInv'
  BY <1>1 DEF IInv, ResultsInv, Original
<1> QED
  BY <1>2, <1>4, <1>5, <1>6, <1>7 DEF IInv

\* What is put into the index is what the file holds; if nobody changed the file
\* and it can be read, it is put in.
LEMMA IndexStep ==
  ASSUME IInv, NEW f \in Entries, IndexFile(f)
  PROVE  IInv'
<1>1. /\ UNCHANGED <<tree, query, disk, touched, cancelled, candidates, results>>
      /\ pc = "open" /\ pos = f
      /\ \/ /\ tree[f].readable /\ pc' = "walk" /\ pos' = pos + 1 /\ exit' = exit
            /\ index' = [g \in DOMAIN index \cup {f} |->
                           IF g = f THEN [lines |-> disk[f].lines, time |-> mtime] ELSE index[g]]
         \/ pc' = "end" /\ exit' = 1 /\ pos' = pos /\ index' = index
  BY DEF IndexFile, Finish, world
<1>2. WorldInv'
  BY <1>1 DEF IInv, WorldInv, Entries, Original
<1>3. Len(tree) \in Nat /\ Entries = 1..Len(tree) /\ pos \in Nat
  BY TreeIs DEF IInv, ControlInv
<1>4. /\ exit = -1 /\ candidates = <<>> /\ tree[f].kind = "file" /\ HasFormat(tree[f].ext)
      /\ pc' \notin {"excerpts", "print"} /\ exit' # 0
  BY <1>1 DEF IInv, ControlInv
<1>5. ControlInv'
  BY <1>1, <1>3, <1>4 DEF IInv, ControlInv, Entries, HasFormat
<1>6. IndexInv'
  <2>1. /\ disk[f].lines \in Seq(Line)
        /\ f \notin touched => disk[f].lines = tree[f].lines
    BY DEF IInv, WorldInv, Original
  <2>2. \A g \in Entries : (g < pos' /\ g < pos) \/ (g = f /\ g < pos') \/ ~(g < pos')
    BY <1>1, <1>3
  <2>3. \A g \in Entries : g < pos => g < pos'
    BY <1>1, <1>3
  <2>4. Entries' = Entries /\ \A g : Searched(g)' = Searched(g)
    BY <1>1 DEF Entries, Searched, HasFormat, Huge
  <2>5. \A e : HasFormat(e)' = HasFormat(e)
    BY DEF HasFormat
  <2>6. CASE index' = index /\ pos' = pos
    BY <1>1, <2>4, <2>5, <2>6 DEF IInv, IndexInv
  <2>7. CASE /\ tree[f].readable /\ pos' = pos + 1
             /\ index' = [g \in DOMAIN index \cup {f} |->
                            IF g = f THEN [lines |-> disk[f].lines, time |-> mtime] ELSE index[g]]
    <3>1. /\ DOMAIN index' = DOMAIN index \cup {f} /\ index'[f].lines = disk[f].lines
          /\ \A g \in DOMAIN index : g # f => index'[g] = index[g]
      BY <2>7
    <3>2. f < pos' /\ f \in Entries
      BY <1>1, <1>3, <2>7
    <3> QED
      BY <1>1, <1>4, <2>1, <2>2, <2>3, <2>4, <2>5, <2>7, <3>1, <3>2 DEF IInv, IndexInv
  <2> QED
    BY <1>1, <2>6, <2>7
<1>7. CandidatesInv'
  BY <1>1, <1>4, DocSearchAssumption DEF CandidatesInv
<1>8. ResultsInv'
  BY <1>1 DEF IInv, ResultsInv, Original
<1> QED
  BY <1>2, <1>5, <1>6, <1>7, <1>8 DEF IInv

\* The candidates are the best of the hits, with a line that has a token the
\* query asks for.
LEMMA RankStep ==
  ASSUME IInv, Rank
  PROVE  IInv'
<1>1. /\ UNCHANGED <<tree, query, disk, touched, cancelled, index, pos, results, exit>>
      /\ pc = "walk" /\ pos > Len(tree) /\ pc' = "excerpts"
  BY DEF Rank, world
<1>2. PICK order \in SetToSeqs(Hits) :
        /\ \A i, k \in DOMAIN order : i < k => ~Before(order[k], order[i])
        /\ \E line \in [Hits -> UNION {BestLines(f) : f \in Hits}] :
             /\ \A f \in Hits : line[f] \in BestLines(f)
             /\ candidates' = [i \in 1..Limit(Len(order)) |->
                                 [file |-> order[i], line |-> line[order[i]]]]
  BY DEF Rank
<1>3. PICK line : /\ \A f \in Hits : line[f] \in BestLines(f)
                  /\ candidates' = [i \in 1..Limit(Len(order)) |->
                                      [file |-> order[i], line |-> line[order[i]]]]
  BY <1>2
<1>4. /\ Len(order) \in Nat /\ DOMAIN order = 1..Len(order)
      /\ \A i \in DOMAIN order : order[i] \in Hits
      /\ \A i, k \in DOMAIN order : order[i] = order[k] => i = k
      /\ \A s \in Hits : \E i \in DOMAIN order : order[i] = s
  <2>1. PICK S : S = Hits
    OBVIOUS
  <2> QED
    BY <1>2, <2>1, HitsFinite, OrderIs DEF IInv
<1>5. PICK limit \in Nat : /\ limit = Limit(Len(order)) /\ limit <= Len(order) /\ limit <= MaxResults
                           /\ limit < Len(order) => limit = MaxResults
  BY <1>4, LimitIs
<1>6. /\ DOMAIN candidates' = 1..limit /\ Len(candidates') = limit
      /\ \A i \in 1..limit : /\ i \in DOMAIN order
                             /\ candidates'[i] = [file |-> order[i], line |-> line[order[i]]]
  BY <1>3, <1>4, <1>5
<1>7. WorldInv'
  BY <1>1 DEF IInv, WorldInv, Entries, Original
<1>8. ControlInv'
  BY <1>1 DEF IInv, ControlInv, Entries, HasFormat
<1>9. IndexInv'
  BY <1>1 DEF IInv, IndexInv, Entries, HasFormat, Searched, Huge
<1>10. CandidatesInv'
  <2>1. /\ Hits' = Hits /\ (\A f : Score(f)' = Score(f))
        /\ (\A f, t : LinesWith(f, t)' = LinesWith(f, t)) /\ (\A t : TokensFor(t)' = TokensFor(t))
    BY <1>1, SameIndex
  <2>2. ASSUME NEW i \in 1..limit
        PROVE  /\ candidates'[i] \in [file : DOMAIN index, line : Nat]
               /\ candidates'[i].file = order[i]
               /\ \E k \in DOMAIN query : \E t \in TokensFor(query[k]) :
                    candidates'[i].line \in LinesWith(candidates'[i].file, t)
    <3>1. PICK f, n : f \in Hits /\ n \in BestLines(f) /\ f = order[i] /\ n = line[order[i]]
      BY <1>3, <1>4, <1>6
    <3>2. n \in Nat /\ \E k \in DOMAIN query : \E t \in TokensFor(query[k]) : n \in LinesWith(f, t)
      BY <3>1, BestLineIs DEF IInv
    <3>3. candidates'[i] = [file |-> f, line |-> n] /\ f \in DOMAIN index
      BY <1>6, <3>1 DEF Hits
    <3> QED
      BY <3>1, <3>2, <3>3
  <2>3. candidates' \in Seq([file : DOMAIN index, line : Nat])
    <3>1. candidates' \in [1..limit -> [file : DOMAIN index, line : Nat]]
      <4>1. candidates' = [i \in 1..limit |-> candidates'[i]]
        BY <1>3, <1>5
      <4> QED
        BY <2>2, <4>1
    <3>2. PICK C : C = [file : DOMAIN index, line : Nat]
      OBVIOUS
    <3>3. candidates' \in [1..limit -> C]
      BY <3>1, <3>2
    <3>4. candidates' \in Seq(C)
      BY <3>3
    <3> QED
      BY <3>2, <3>4
  <2>4. \A i, k \in DOMAIN candidates' : candidates'[i].file = candidates'[k].file => i = k
    BY <1>4, <1>6, <2>2
  <2>5. ASSUME NEW f \in Hits, \A i \in DOMAIN candidates' : candidates'[i].file # f
        PROVE  /\ limit = MaxResults
               /\ \A i \in DOMAIN candidates' : ~(Score(f) > Score(candidates'[i].file))
    <3>1. PICK k \in 1..Len(order) : order[k] = f
      BY <1>4
    <3>2. k \notin 1..limit
      BY <1>6, <2>2, <2>5, <3>1
    <3>3. limit < Len(order) /\ \A i \in 1..limit : i < k
      BY <1>4, <1>5, <3>2
    <3>4. ASSUME NEW i \in 1..limit
          PROVE  ~(Score(f) > Score(candidates'[i].file))
      <4>1. ~Before(order[k], order[i])
        BY <1>2, <1>4, <1>6, <3>3
      <4>2. ~(Score(order[k]) > Score(order[i]))
        BY <4>1 DEF Before
      <4> QED
        BY <2>2, <3>1, <4>2
    <3> QED
      BY <1>5, <1>6, <3>3, <3>4
  <2> QED
    BY <1>1, <1>5, <1>6, <2>1, <2>2, <2>3, <2>4, <2>5 DEF CandidatesInv
<1>11. ResultsInv'
  <2>1. DOMAIN results = {} /\ Len(results) = 0
    BY <1>1 DEF IInv, ControlInv, ResultsInv
  <2> QED
    BY <1>1, <1>5, <1>6, <2>1 DEF IInv, ResultsInv
<1> QED
  BY <1>7, <1>8, <1>9, <1>10, <1>11 DEF IInv

\* The excerpt of a file is read while it may have changed.
LEMMA AddStep ==
  ASSUME IInv, AddResult
  PROVE  IInv'
<1> DEFINE n == Len(results) + 1
           c == candidates[n]
           r == [file |-> c.file, line |-> c.line,
                 text |-> LineOf(disk[c.file], tree[c.file].readable, c.line)]
<1>1. /\ UNCHANGED <<tree, query, disk, touched, cancelled, pc, pos, index, candidates, exit>>
      /\ pc = "excerpts" /\ Len(results) < Len(candidates)
      /\ results' = Append(results, r)
  BY DEF AddResult, world
<1>2. WorldInv'
  BY <1>1 DEF IInv, WorldInv, Entries, Original
<1>3. ControlInv'
  BY <1>1 DEF IInv, ControlInv, Entries, HasFormat
<1>4. IndexInv'
  BY <1>1 DEF IInv, IndexInv, Entries, HasFormat, Searched, Huge
<1>5. CandidatesInv'
  BY <1>1, SameCandidates DEF IInv
<1>6. ResultsInv'
  <2>1. Len(candidates) \in Nat /\ Len(results) \in Nat /\ DOMAIN results = 1..Len(results)
    BY DEF IInv, CandidatesInv, ResultsInv
  <2>2. c \in [file : DOMAIN index, line : Nat]
    <3>1. PICK C : C = [file : DOMAIN index, line : Nat]
      OBVIOUS
    <3>2. candidates \in Seq(C) /\ n \in 1..Len(candidates)
      BY <1>1, <2>1, <3>1 DEF IInv, CandidatesInv
    <3>3. candidates[n] \in C
      BY <3>2
    <3> QED
      BY <3>1, <3>3
  <2>3. c.file \notin touched => disk[c.file] = Original(c.file)
    BY <2>2 DEF IInv, WorldInv, IndexInv
  <2>4. /\ r.file = c.file /\ r.line = c.line
        /\ r.text = LineOf(disk[c.file], tree[c.file].readable, c.line)
    OBVIOUS
  <2> HIDE DEF r, c
  <2>5. /\ DOMAIN results' = 1..n /\ Len(results') = n /\ n \in Nat /\ n <= Len(candidates)
        /\ \A i \in 1..Len(results) : results'[i] = results[i]
        /\ results'[n] = r
    BY <1>1, <2>1
  <2>6. \A i \in DOMAIN results' : i \in DOMAIN results \/ i = n
    BY <2>1, <2>5
  <2>7. ASSUME NEW i \in DOMAIN results'
        PROVE  /\ results'[i].file = candidates[i].file /\ results'[i].line = candidates[i].line
               /\ results'[i].file \notin touched =>
                    results'[i].text = LineOf(Original(results'[i].file),
                                              tree[results'[i].file].readable, results'[i].line)
    <3>1. CASE i \in DOMAIN results
      BY <2>1, <2>5, <3>1 DEF IInv, ResultsInv
    <3>2. CASE i = n
      <4>1. results'[i] = r /\ candidates[i] = c
        BY <2>5, <3>2 DEF c
      <4> QED
        BY <2>3, <2>4, <4>1
    <3> QED
      BY <2>6, <3>1, <3>2
  <2>8. \A f : Original(f)' = Original(f)
    BY <1>1 DEF Original
  <2> QED
    BY <1>1, <2>5, <2>7, <2>8 DEF ResultsInv
<1> QED
  BY <1>2, <1>3, <1>4, <1>5, <1>6 DEF IInv

\* The last steps only look at the results.
LEMMA LastSteps ==
  ASSUME IInv, EndResults \/ PrintResults \/ OpenTop
  PROVE  IInv'
<1>1. /\ UNCHANGED <<tree, query, disk, touched, cancelled, pos, index, candidates, results>>
      /\ \/ /\ pc = "excerpts" /\ pc' = "print" /\ exit' = exit
            /\ cancelled \/ Len(results) = Len(candidates)
         \/ pc = "print" /\ pc' = "end" /\ exit' \in {0, 1}
  BY DEF EndResults, PrintResults, OpenTop, Finish, world
<1>2. WorldInv'
  BY <1>1 DEF IInv, WorldInv, Entries, Original
<1>3. ControlInv'
  BY <1>1 DEF IInv, ControlInv, Entries, HasFormat
<1>4. IndexInv'
  BY <1>1 DEF IInv, IndexInv, Entries, HasFormat, Searched, Huge
<1>5. CandidatesInv'
  BY <1>1, SameCandidates DEF IInv
<1>6. ResultsInv'
  BY <1>1 DEF IInv, ResultsInv, Original
<1> QED
  BY <1>2, <1>3, <1>4, <1>5, <1>6 DEF IInv

\* Every step keeps it.
LEMMA StepInv ==
  ASSUME IInv, [Next]_vars
  PROVE  IInv'
<1>1. CASE \E f \in Entries : Edit(f)
  BY <1>1, EditStep
<1>2. CASE Cancel
  BY <1>2, CancelStep
<1>3. CASE \E f \in Entries : Visit(f)
  BY <1>3, VisitStep
<1>4. CASE \E f \in Entries : IndexFile(f)
  BY <1>4, IndexStep
<1>5. CASE Rank
  BY <1>5, RankStep
<1>6. CASE AddResult
  BY <1>6, AddStep
<1>7. CASE EndResults \/ PrintResults \/ OpenTop
  BY <1>7, LastSteps
<1>8. CASE UNCHANGED vars
  <2>1. UNCHANGED <<tree, query, disk, touched, cancelled, pc, pos, index, candidates, results, exit>>
    BY <1>8 DEF vars, world
  <2>2. WorldInv' /\ ControlInv' /\ IndexInv' /\ ResultsInv'
    BY <2>1 DEF IInv, WorldInv, ControlInv, IndexInv, ResultsInv, Entries, Original, HasFormat, Searched, Huge
  <2>3. CandidatesInv'
    BY <2>1, SameCandidates DEF IInv
  <2> QED
    BY <2>2, <2>3 DEF IInv
<1> QED
  BY <1>1, <1>2, <1>3, <1>4, <1>5, <1>6, <1>7, <1>8 DEF Next, Program, Ended

\* It holds throughout.
LEMMA Invariance == Spec => []IInv
  BY InitInv, StepInv, PTL DEF Spec

\* A result comes from a candidate of the index.
LEMMA CandidateOfResult ==
  ASSUME IInv, NEW i \in DOMAIN results
  PROVE  /\ i \in DOMAIN candidates
         /\ results[i].file = candidates[i].file /\ results[i].line = candidates[i].line
         /\ results[i].file \in DOMAIN index /\ results[i].file \in Entries
         /\ results[i].line \in Nat
<1>1. PICK C : C = [file : DOMAIN index, line : Nat]
  OBVIOUS
<1>2. candidates \in Seq(C)
  BY <1>1 DEF IInv, CandidatesInv
<1>3. i \in 1..Len(candidates)
  BY <1>2 DEF IInv, ResultsInv
<1>4. candidates[i] \in C /\ i \in DOMAIN candidates
  BY <1>2, <1>3
<1>5. candidates[i].file \in DOMAIN index /\ candidates[i].line \in Nat
  BY <1>1, <1>4
<1> QED
  BY <1>4, <1>5 DEF IInv, ResultsInv, IndexInv

-----------------------------------------------------------------------------
(* What a search promises.                                                 *)

\* The results are never more than allowed, each file is in them once, and the
\* index holds only files that were asked for, in a tree of any size.
THEOREM TypeCorrect == Spec => []TypeOK
<1>1. IInv => TypeOK
  <2> SUFFICES ASSUME IInv PROVE TypeOK
    OBVIOUS
  <2>1. /\ pc \in {"walk", "open", "excerpts", "print", "end"} /\ exit \in {-1, 0, 1}
        /\ cancelled \in BOOLEAN /\ touched \subseteq Entries
        /\ pos \in 1..(Len(tree) + 1)
    BY DEF IInv, WorldInv, ControlInv
  <2>2. \A f \in DOMAIN index : f < pos /\ tree[f].kind = "file" /\ HasFormat(tree[f].ext)
    BY DEF IInv, IndexInv
  <2>3. /\ Len(results) <= Len(candidates) /\ Len(candidates) <= MaxResults
        /\ \A i, k \in DOMAIN candidates : candidates[i].file = candidates[k].file => i = k
    BY DEF IInv, CandidatesInv, ResultsInv
  <2>4. ASSUME NEW i \in DOMAIN results
        PROVE  results[i].file = candidates[i].file /\ results[i].file \in DOMAIN index
    BY CandidateOfResult
  <2> QED
    BY <2>1, <2>2, <2>3, <2>4 DEF TypeOK
<1> QED
  BY <1>1, Invariance, PTL

\* An excerpt is the line its result names and holds what was searched for,
\* whatever the lines of the file are.
THEOREM ExcerptsAreHits == Spec => []ExcerptIsAHit
<1>1. IInv => ExcerptIsAHit
  <2> SUFFICES ASSUME IInv, NEW i \in DOMAIN results, results[i].file \notin touched
               PROVE  /\ results[i].text \in {NoText, tree[results[i].file].lines[results[i].line]}
                      /\ results[i].text = NoText =>
                           \E n \in 1..results[i].line : tree[results[i].file].lines[n].size # "short"
                      /\ results[i].text # NoText =>
                           \E t \in results[i].text.tokens, k \in DOMAIN query :
                             t = query[k] \/ <<t, query[k]>> \in PrefixPairs
    BY DEF ExcerptIsAHit
  <2>1. PICK f, n, text : f = results[i].file /\ n = results[i].line /\ text = results[i].text
    OBVIOUS
  <2>2. /\ f = candidates[i].file /\ n = candidates[i].line /\ i \in DOMAIN candidates
        /\ f \in DOMAIN index /\ f \in Entries /\ n \in Nat
    BY <2>1, CandidateOfResult
  <2>3. index[f].lines = tree[f].lines /\ tree[f].readable
    BY <2>1, <2>2 DEF IInv, IndexInv
  <2>4. PICK lines : lines = tree[f].lines
    OBVIOUS
  <2>5. PICK k \in DOMAIN query : \E t \in TokensFor(query[k]) : n \in LinesWith(f, t)
    BY <2>2 DEF IInv, CandidatesInv
  <2>6. PICK t \in TokensFor(query[k]) : n \in LinesWith(f, t)
    BY <2>5
  <2>7. n \in DOMAIN lines /\ t \in lines[n].tokens
    BY <2>3, <2>4, <2>6 DEF LinesWith
  <2>8. t = query[k] \/ <<t, query[k]>> \in PrefixPairs
    <3>1. PICK q : q = query[k]
      OBVIOUS
    <3>2. t = q \/ \E p \in PrefixPairs : p[2] = q /\ t = p[1]
      BY <2>6, <3>1 DEF TokensFor
    <3>3. \A p \in PrefixPairs : p = <<p[1], p[2]>>
      BY DocSearchAssumption
    <3> QED
      BY <3>1, <3>2, <3>3
  <2>9. text = LineOf(Original(f), tree[f].readable, n)
    BY <2>1 DEF IInv, ResultsInv
  <2>10. text = IF \A m \in 1..n : lines[m].size = "short" THEN lines[n] ELSE NoText
    <3>1. Original(f).there /\ Original(f).lines = lines
      BY <2>4 DEF Original
    <3> QED
      BY <2>3, <2>7, <2>9, <3>1, Zenon DEF LineOf
  <2>11. lines[n] # NoText
    BY <2>7 DEF NoText
  <2>12. CASE \A m \in 1..n : lines[m].size = "short"
    <3>1. text = lines[n] /\ text # NoText
      BY <2>10, <2>11, <2>12
    <3>2. t \in text.tokens
      BY <2>7, <3>1
    <3> QED
      BY <2>1, <2>4, <2>8, <3>1, <3>2
  <2>13. CASE ~\A m \in 1..n : lines[m].size = "short"
    <3>1. text = NoText
      BY <2>10, <2>13
    <3> QED
      BY <2>1, <2>4, <2>13, <3>1
  <2> QED
    BY <2>12, <2>13
<1> QED
  BY <1>1, Invariance, PTL

\* No search that ends well passes over a file that nobody changed and that
\* holds a word of the query, unless the results are full of others.
THEOREM WordsAreFound == Spec => []WordIsFound
<1>1. IInv => WordIsFound
  <2> SUFFICES ASSUME IInv, exit = 0, ~cancelled, NEW f \in Entries \ touched, Searched(f),
                      NEW k \in DOMAIN query, Holds(tree[f].lines, query[k])
               PROVE  \/ \E i \in DOMAIN results : results[i].file = f
                      \/ /\ Len(results) = MaxResults
                         /\ \A i \in DOMAIN results : ~(Score(f) > Score(results[i].file))
    BY DEF WordIsFound
  <2>1. PICK lines, term : lines = tree[f].lines /\ term = query[k]
    OBVIOUS
  <2>2. PICK n \in DOMAIN lines : term \in lines[n].tokens
    BY <2>1 DEF Holds
  <2>3. f \in DOMAIN index /\ index[f].lines = lines
    <3>1. pos > Len(tree) /\ pos \in 1..(Len(tree) + 1)
      BY DEF IInv, ControlInv
    <3>2. f < pos
      BY <3>1, TreeIs DEF IInv
    <3>3. lines # <<>>
      BY <2>2
    <3> QED
      BY <2>1, <3>2, <3>3 DEF IInv, IndexInv
  <2>4. f \in Hits
    <3>1. LinesWith(f, term) # {}
      BY <2>2, <2>3 DEF LinesWith
    <3>2. TokensFor(term) = {term}
      BY <2>3, <3>1 DEF TokensFor, IsIndexed
    <3> QED
      BY <2>1, <2>3, <3>1, <3>2 DEF Hits, Matches
  <2>5. /\ DOMAIN results = DOMAIN candidates /\ Len(results) = Len(candidates)
        /\ \A i \in DOMAIN results : results[i].file = candidates[i].file
    BY DEF IInv, ControlInv, CandidatesInv, ResultsInv
  <2>6. \/ \E i \in DOMAIN candidates : candidates[i].file = f
        \/ /\ Len(candidates) = MaxResults
           /\ \A i \in DOMAIN candidates : ~(Score(f) > Score(candidates[i].file))
    BY <2>4 DEF IInv, CandidatesInv
  <2> QED
    BY <2>5, <2>6
<1> QED
  BY <1>1, Invariance, PTL
=============================================================================
