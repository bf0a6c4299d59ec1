------------------------------- MODULE DocSearch -------------------------------
(***************************************************************************)
(* `tend doc search`: a walk indexes the files below a root, the index is  *)
(* searched for the words of the query, and for each hit the line is read  *)
(* again from its file.  Others edit and remove files meanwhile, and the   *)
(* context may end.  A missing root is a tree without entries; a root that *)
(* is there stays there.                                                   *)
(* A file is a sequence of lines; a line is a set of tokens (lower case,   *)
(* three characters or more: tokenize) and a size: "long" is too much for  *)
(* the buffer of an excerpt, "huge" makes the file too large to index.     *)
(***************************************************************************)
EXTENDS Integers, Sequences, FiniteSets, SequencesExt

CONSTANTS
  Trees,       \* sequences of entries, in the order of the walk
  Queries,     \* sequences of terms
  Extensions,  \* the values of --ext
  PrefixPairs,    \* pairs <<token, term>>: the term is a proper prefix of the token
  Versions,    \* what a file may become: sequences of lines
  MaxResults,  \* config.App.Limits.Doc.MaxResults
  MaxEdits     \* bound: how many files are changed under way, once each

Line == [tokens : SUBSET STRING, size : {"short", "long", "huge"}]
TreeEntry == [kind : {"file", "link", "skipped dir"}, ext : STRING, readable : BOOLEAN, lines : Seq(Line)]

ASSUME DocSearchAssumption ==
  /\ MaxResults \in Nat \ {0} /\ MaxEdits \in Nat
  /\ Trees \subseteq Seq(TreeEntry)
  /\ Queries \subseteq Seq(STRING)
  /\ Versions \subseteq Seq(Line)
  /\ PrefixPairs \subseteq STRING \X STRING

VARIABLES
  tree, query,   \* the input
  disk,          \* file -> [there, lines, time]
  touched,       \* the files changed since the start
  cancelled,     \* the context has ended
  pc, pos,       \* where the program is, and at which entry the walk is
  mtime,         \* the time d.Info gave
  index,         \* file -> [lines, time]
  candidates,    \* the ranked hits: [file, line]
  results,       \* those of them with an excerpt: [file, line, text]
  exit           \* the exit code, -1 before the end

world == <<tree, query, disk, touched, cancelled>>
vars == <<world, pc, pos, mtime, index, candidates, results, exit>>

Entries == DOMAIN tree

Init ==
  /\ tree \in Trees /\ query \in Queries
  /\ disk = [f \in Entries |-> [there |-> TRUE, lines |-> tree[f].lines, time |-> 0]]
  /\ touched = {} /\ cancelled = FALSE
  /\ pc = "walk" /\ pos = 1 /\ mtime = 0
  /\ index = <<>> /\ candidates = <<>> /\ results = <<>> /\ exit = -1

Finish(code) == pc' = "end" /\ exit' = code

-----------------------------------------------------------------------------
(* The world.                                                              *)

\* A file is written or removed.
Edit(f) ==
  /\ pc # "end" /\ f \notin touched /\ Cardinality(touched) < MaxEdits
  /\ touched' = touched \cup {f}
  /\ \E lines \in Versions, there \in BOOLEAN :
       disk' = [disk EXCEPT ![f] = [there |-> there, lines |-> lines, time |-> 1]]
  /\ UNCHANGED <<tree, query, cancelled, pc, pos, mtime, index, candidates, results, exit>>

\* Ctrl-C.
Cancel ==
  /\ pc # "end" /\ ~cancelled
  /\ cancelled' = TRUE
  /\ UNCHANGED <<tree, query, disk, touched, pc, pos, mtime, index, candidates, results, exit>>

-----------------------------------------------------------------------------
(* The index.                                                              *)

Huge(lines) == \E i \in DOMAIN lines : lines[i].size = "huge"

\* fileFormat.
Supported == {".md", ".mdx", ".txt", ".rst", ".html", ".htm", ".yaml", ".yml", ".json"}
HasFormat(ext) == ext \in Supported /\ (Extensions = {} \/ ext \in Extensions)

\* The entries the walk passes over without a word.
Skipped(f) ==
  \/ tree[f].kind # "file"
  \/ ~HasFormat(tree[f].ext)
  \/ ~disk[f].there
  \/ disk[f].lines = <<>>
  \/ Huge(disk[f].lines)

\* The walk function up to d.Info; a context that has ended ends the search.
Visit(f) ==
  /\ pc = "walk" /\ pos = f
  /\ \/ cancelled /\ Finish(1) /\ UNCHANGED <<pos, mtime>>
     \/ ~cancelled /\ Skipped(f) /\ pos' = pos + 1 /\ UNCHANGED <<pc, mtime, exit>>
     \/ /\ ~cancelled /\ ~Skipped(f)
        /\ pc' = "open" /\ mtime' = disk[f].time
        /\ UNCHANGED <<pos, exit>>
  /\ UNCHANGED <<world, index, candidates, results>>

\* The rest of it: a file that cannot be opened or scanned ends the search.
IndexFile(f) ==
  /\ pc = "open" /\ pos = f
  /\ IF disk[f].there /\ tree[f].readable /\ ~Huge(disk[f].lines)
     THEN /\ index' = [g \in DOMAIN index \cup {f} |->
                         IF g = f THEN [lines |-> disk[f].lines, time |-> mtime] ELSE index[g]]
          /\ pc' = "walk" /\ pos' = pos + 1 /\ UNCHANGED exit
     ELSE Finish(1) /\ UNCHANGED <<pos, index>>
  /\ mtime' = 0
  /\ UNCHANGED <<world, candidates, results>>

-----------------------------------------------------------------------------
(* The search.                                                             *)

LinesWith(f, token) == {n \in DOMAIN index[f].lines : token \in index[f].lines[n].tokens}
IsIndexed(term) == \E f \in DOMAIN index : LinesWith(f, term) # {}

\* The index terms a term stands for: itself, and only if it is in no file those
\* it is a prefix of.
TokensFor(term) ==
  IF IsIndexed(term) THEN {term} ELSE {p[1] : p \in {p \in PrefixPairs : p[2] = term}}

\* The file has a posting of a term.
Matches(f, term) == \E t \in TokensFor(term) : LinesWith(f, t) # {}

\* Half points: two for each line with the term, one with a prefix match.
Points(f, term) ==
  (IF IsIndexed(term) THEN 2 ELSE 1)
    * SumFunction([t \in TokensFor(term) |-> Cardinality(LinesWith(f, t))])

\* Terms are alternatives: `tend doc search --help` says they are AND terms.
Score(f) == SumFunction([i \in DOMAIN query |-> Points(f, query[i])])

\* Mutant: only the first word counts.
Hits_FirstWord == {f \in DOMAIN index : \E i \in DOMAIN query : i = 1 /\ Matches(f, query[i])}

\* The files that have a score.
Hits == {f \in DOMAIN index : \E i \in DOMAIN query : Matches(f, query[i])}

\* bestLine: the first posting met.  The tokens with a prefix are met in the
\* order of a Go map, any order.
BestLines(f) ==
  LET first == Min({i \in DOMAIN query : Matches(f, query[i])})
  IN {Min(LinesWith(f, t)) : t \in {t \in TokensFor(query[first]) : LinesWith(f, t) # {}}}

Before(f, g) == Score(f) > Score(g) \/ (Score(f) = Score(g) /\ index[f].time > index[g].time)

\* Mutant: all hits are candidates.
Limit_All(hits) == hits

Limit(hits) == Min({hits, MaxResults})

\* The candidates, in an order the sort may give.
Rank ==
  /\ pc = "walk" /\ pos > Len(tree)
  /\ \E order \in SetToSeqs(Hits) :
       /\ \A i, k \in DOMAIN order : i < k => ~Before(order[k], order[i])
       /\ \E line \in [Hits -> UNION {BestLines(f) : f \in Hits}] :
            /\ \A f \in Hits : line[f] \in BestLines(f)
            /\ candidates' = [i \in 1..Limit(Len(order)) |->
                                [file |-> order[i], line |-> line[order[i]]]]
  /\ pc' = "excerpts"
  /\ UNCHANGED <<world, pos, mtime, index, results, exit>>

NoText == [tokens |-> {}, size |-> "short"]

\* Mutant: lines are counted from zero.
LineOf_FromZero(c, readable, n) ==
  IF c.there /\ readable /\ n + 1 \in DOMAIN c.lines /\ \A i \in 1..(n + 1) : c.lines[i].size = "short"
  THEN c.lines[n + 1] ELSE NoText

\* extractExcerpt: what is at line n now; the scanner stops at a long line.
LineOf(c, readable, n) ==
  IF c.there /\ readable /\ n \in DOMAIN c.lines /\ \A i \in 1..n : c.lines[i].size = "short"
  THEN c.lines[n] ELSE NoText

\* The next result.  The loop breaks without an error when the context ends.
AddResult ==
  /\ pc = "excerpts" /\ ~cancelled /\ Len(results) < Len(candidates)
  /\ LET c == candidates[Len(results) + 1]
     IN results' = Append(results, [file |-> c.file, line |-> c.line,
                                    text |-> LineOf(disk[c.file], tree[c.file].readable, c.line)])
  /\ UNCHANGED <<world, pc, pos, mtime, index, candidates, exit>>

EndResults ==
  /\ pc = "excerpts" /\ (cancelled \/ Len(results) = Len(candidates))
  /\ pc' = "print"
  /\ UNCHANGED <<world, pos, mtime, index, candidates, results, exit>>

\* runDocSearch: the results or "No results"; output may fail.
PrintResults ==
  /\ pc = "print"
  /\ \E written \in BOOLEAN : Finish(IF written THEN 0 ELSE 1)
  /\ UNCHANGED <<world, pos, mtime, index, candidates, results>>

\* --open: the first result in an editor that may fail, if it is still there.
OpenTop ==
  /\ pc = "print" /\ results # <<>>
  /\ \E ended \in BOOLEAN : Finish(IF ended /\ disk[results[1].file].there THEN 0 ELSE 1)
  /\ UNCHANGED <<world, pos, mtime, index, candidates, results>>

Ended == pc = "end" /\ UNCHANGED vars

Program == (\E f \in Entries : Visit(f) \/ IndexFile(f)) \/ Rank \/ AddResult \/ EndResults \/ PrintResults \/ OpenTop

Next == (\E f \in Entries : Edit(f)) \/ Cancel \/ Program \/ Ended

Spec == Init /\ [][Next]_vars

-----------------------------------------------------------------------------

\* The results are at most as many as allowed, each file at most once, from the
\* index; the index holds only files of a format that were asked for.
TypeOK ==
  /\ pc \in {"walk", "open", "excerpts", "print", "end"} /\ exit \in {-1, 0, 1}
  /\ cancelled \in BOOLEAN /\ touched \subseteq Entries
  /\ pos \in 1..(Len(tree) + 1)
  /\ \A f \in DOMAIN index : f < pos /\ tree[f].kind = "file" /\ HasFormat(tree[f].ext)
  /\ Len(results) <= Len(candidates) /\ Len(candidates) <= MaxResults
  /\ \A i, k \in DOMAIN candidates : candidates[i].file = candidates[k].file => i = k
  /\ \A i \in DOMAIN results : results[i].file = candidates[i].file /\ results[i].file \in DOMAIN index

Searched(f) == tree[f].kind = "file" /\ HasFormat(tree[f].ext) /\ ~Huge(tree[f].lines)
Holds(lines, term) == \E i \in DOMAIN lines : term \in lines[i].tokens

\* A search that ends with exit code 0 and was not interrupted lists every file
\* that nobody changed and that holds a word of the query, or as many files as
\* allowed, while it has a higher score than none of them.
WordIsFound ==
  exit = 0 /\ ~cancelled =>
    \A f \in Entries \ touched : Searched(f) /\ (\E i \in DOMAIN query : Holds(tree[f].lines, query[i])) =>
      \/ \E i \in DOMAIN results : results[i].file = f
      \/ Len(results) = MaxResults /\ \A i \in DOMAIN results : ~(Score(f) > Score(results[i].file))

\* The excerpt of a file that nobody changed is the line the result names, and
\* that line holds a word of the query or one that begins with it; the excerpt
\* is left out only at a line that is too long.
ExcerptIsAHit ==
  \A i \in DOMAIN results : LET r == results[i] IN r.file \notin touched =>
    /\ r.text \in {NoText, tree[r.file].lines[r.line]}
    /\ r.text = NoText => \E n \in 1..r.line : tree[r.file].lines[n].size # "short"
    /\ r.text # NoText => \E t \in r.text.tokens, k \in DOMAIN query :
                            t = query[k] \/ <<t, query[k]>> \in PrefixPairs
=============================================================================
