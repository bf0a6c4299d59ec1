------------------------------ MODULE LogFindings ------------------------------
(***************************************************************************)
(* What `tend log analyze` makes of the lines it has read: the format is   *)
(* decided by the first line, each line becomes an entry, and three        *)
(* detectors and a ranking turn the entries into findings.                 *)
(* A line has a shape, the first pattern it matches ("blank" if it holds   *)
(* nothing but space); a word, the level it states (of an nginx line,      *)
(* ERROR, WARN or INFO for its status); a text with args, the message it   *)
(* yields and the parts normalizeMessage replaces in it ("" if none); and  *)
(* a minute (0: no timestamp).  The slice of entries is a function from    *)
(* the numbers of the lines they come from.                                *)
(***************************************************************************)
EXTENDS Integers, Sequences, FiniteSets, SequencesExt

Lines == [shape : {"json", "nginx", "syslog", "plain", "blank"},
          word : STRING, text : STRING, args : STRING, minute : Nat]

Full(lines) == {i \in DOMAIN lines : lines[i].shape # "blank"}

\* detectFormat, asked about the first line that is not blank.
LogFormat(lines) == IF Full(lines) = {} THEN "plain" ELSE lines[Min(Full(lines))].shape

\* normalizeLevel: a word it does not know stays what it is.
NormalLevel(word) ==
  CASE word \in {"CRITICAL", "FATAL", "EMERG", "ALERT", "CRIT"} -> "critical"
    [] word \in {"ERROR", "ERR"} -> "error"
    [] word \in {"WARN", "WARNING"} -> "warn"
    [] word \in {"INFO", "NOTICE"} -> "info"
    [] word \in {"DEBUG", "TRACE", "VERBOSE"} -> "debug"
    [] OTHER -> word

LevelKeywords == {"CRITICAL", "FATAL", "ERROR", "WARN", "WARNING", "INFO", "DEBUG", "TRACE"}

\* extractLevel: the level of a text that may hold a level word.
ExtractLevel(word) == IF word \in LevelKeywords THEN NormalLevel(word) ELSE "info"

\* The level of a line read as `format`: in a plain log each line is searched
\* for a level word (an nginx line has none); elsewhere a line of the wrong
\* shape has no level.
LevelIn(format, line) ==
  CASE format = "plain" -> IF line.shape = "nginx" THEN "info" ELSE ExtractLevel(line.word)
    [] line.shape # format -> ""
    [] format = "json" -> NormalLevel(line.word)
    [] OTHER -> ExtractLevel(line.word)

\* parseLine.  Without the right shape there is no time.
Entry(format, line) ==
  [level |-> LevelIn(format, line), text |-> line.text, args |-> line.args,
   minute |-> IF line.shape = format THEN line.minute ELSE 0]

\* parseLines keeps the entries that have a message: a line that is only a
\* time has none, and counts as a parse error.
Messages(lines) == {i \in Full(lines) : lines[i].text # "" \/ lines[i].args # ""}
Entries(lines) == [i \in Messages(lines) |-> Entry(LogFormat(lines), lines[i])]
Size(es) == Cardinality(DOMAIN es)

LevelRank(level) ==
  CASE level \in {"info", ""} -> 1
    [] level = "warn" -> 2
    [] level = "error" -> 3
    [] level = "critical" -> 4
    [] OTHER -> 0

\* Mutant: --level asks for a level above the one it names.
Filtered_Above(es, since, level) ==
  Restrict(es, {i \in DOMAIN es :
    /\ since = 0 \/ es[i].minute = 0 \/ es[i].minute >= since
    /\ level = "" \/ LevelRank(es[i].level) > LevelRank(level)})

\* filterEntries: since 0 and level "" keep everything; an entry without a
\* time is never too old.
Filtered(es, since, level) ==
  Restrict(es, {i \in DOMAIN es :
    /\ since = 0 \/ es[i].minute = 0 \/ es[i].minute >= since
    /\ level = "" \/ LevelRank(es[i].level) >= LevelRank(level)})

-----------------------------------------------------------------------------
(* Messages that repeat.                                                   *)

MinRepeat == 3

Finding(kind, key, count, first, last) ==
  [kind |-> kind, key |-> key, count |-> count, first |-> first, last |-> last]

Severe(es) == {i \in DOMAIN es : es[i].level \in {"error", "critical", "warn"}}

\* The groups of entries with the same key that are large enough.
Group(key, k) == {i \in DOMAIN key : key[i] = k}
Repeated(kind, key, least) ==
  {Finding(kind, k, Cardinality(Group(key, k)), Min(Group(key, k)), Max(Group(key, k))) :
     k \in {k \in Range(key) : Cardinality(Group(key, k)) >= least}}

\* detectPatterns: equal messages of one level.
Message(es) == [i \in Severe(es) |-> <<es[i].level, es[i].text, es[i].args>>]
Patterns(es) == Repeated("pattern", Message(es), MinRepeat)

\* The severe entries with variable parts, by the rest of their message.
Template(es) ==
  [i \in {i \in Severe(es) : es[i].args # ""} |-> <<es[i].level, es[i].text>>]

\* Mutant: clusters with one more occurrence than patterns need.
Clusters_More(es) == Repeated("cluster", Template(es), MinRepeat + 1)

\* detectClusters: messages equal up to their variable parts, if they have any.
Clusters(es) == Repeated("cluster", Template(es), MinRepeat)

-----------------------------------------------------------------------------
(* Bursts of errors.                                                       *)

\* Mutant: the average is taken over the other windows.
IsSpike_Others(count, windows, total) == count * (windows - 1) >= 3 * (total - count) /\ count >= 5

\* At least three times the average of the windows that hold an error; exact
\* arithmetic stands for float64.
IsSpike(count, windows, total) == count * windows >= 3 * total /\ count >= 5

\* detectTimeSpikes: windows of a minute; entries without a time do not count.
TimeSpikes(errs) ==
  LET timed == {i \in DOMAIN errs : errs[i].minute # 0}
      minutes == {errs[i].minute : i \in timed}
      of(m) == {i \in timed : errs[i].minute = m}
  IN {Finding("spike", <<m>>, Cardinality(of(m)), Min(of(m)), Max(of(m))) :
        m \in {m \in minutes : /\ Cardinality(minutes) >= 2
                               /\ IsSpike(Cardinality(of(m)), Cardinality(minutes), Cardinality(timed))}}

\* The lines of a window: a tenth of the entries, ten at least.
WindowSize(n) == Max({n \div 10, 10})

\* detectLineSpikes: windows of line numbers.
LineSpikes(errs, n) ==
  LET size == WindowSize(n)
      windows == {i \div size : i \in DOMAIN errs}
      count(w) == Cardinality({i \in DOMAIN errs : i \div size = w})
  IN {Finding("spike", <<w>>, count(w), w * size, (w + 1) * size - 1) :
        w \in {w \in windows : IsSpike(count(w), Cardinality(windows), Size(errs))}}

Errors(es) == Restrict(es, {i \in DOMAIN es : es[i].level \in {"error", "critical"}})

Spikes(es) ==
  LET errs == Errors(es)
  IN IF Size(errs) < 5 THEN {}
     ELSE IF \E i \in DOMAIN errs : errs[i].minute # 0 THEN TimeSpikes(errs)
     ELSE LineSpikes(errs, Size(es))

-----------------------------------------------------------------------------
(* The report.                                                             *)

LogAnomalies(es) == Patterns(es) \cup Spikes(es) \cup Clusters(es)

\* Mutant: patterns and clusters are listed one after the other.
RankedBefore_ByKind(a, b) ==
  \/ a.kind = "spike" /\ b.kind # "spike"
  \/ a.kind = "pattern" /\ b.kind = "cluster"
  \/ a.kind = b.kind /\ a.count > b.count

\* mergeAndSort: spikes first, then by count; the sort is stable and patterns
\* are put in before clusters.  Otherwise the order among equals is any.
RankedBefore(a, b) ==
  IF (a.kind = "spike") # (b.kind = "spike") THEN a.kind = "spike"
  ELSE \/ a.count > b.count
       \/ a.count = b.count /\ a.kind = "pattern" /\ b.kind = "cluster"

\* severityFor, of `n` entries in all: 3 is critical, 0 is low.
LogSeverity(f, n) ==
  IF f.kind = "spike" THEN IF f.count >= 50 THEN 3 ELSE 2
  ELSE CASE f.count * 10 >= n \/ f.count >= 1000 -> 3
         [] f.count * 20 >= n \/ f.count >= 100 -> 2
         [] f.count * 100 >= n \/ f.count >= 20 -> 1
         [] OTHER -> 0
=============================================================================
