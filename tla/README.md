# A TLA+ verification of tend

`tend` is a command-line tool written in Go: each command reads something (a log, a list of
services, a directory, a cluster), judges it, prints a report, and ends with exit code 0 (nothing
found), 2 (problems found) or 1 (error). Its promise to a script is that exit code. This
directory holds TLA+ models of the parts where the promise depends on goroutines, cancellation,
timeouts, partial failures or a world that changes while it is read, models of the rules by which
the commands judge, a model of the repository's merge gate, the TLC configurations that check them,
and TLAPS proofs of every invariant the passing runs check, for every value of the constants.
Paths below are relative to the repository root.

## Inventory

| Component | State | Operations | Interacts with | What is hard | What makes it correct |
|---|---|---|---|---|---|
| **Root** `cmd/tend/cmd/root.go`, `internal/shared` | signal context, exit code, the printer's first write error | `Execute`, `execute`, `Printer.write` | every command gets its context | a signal at any moment | exit code of a failed write is 1 |
| **Health runner** `internal/health/checker` | semaphore, WaitGroup, a result and an error slot per target | `Check`, `checkOne`, `checkHTTP/TCP/DNS`, `buildReport` | one goroutine per target, the context | slot leaks, writes after the report, context read after the call | every target one verdict; cancelled = timeout; truthful exit code |
| **Health time** `cmd/.../health_check.go`, `chain.go` | timeout, run deadline | `runHealthCheck`, `CheckChain` | timers of `http.Client`, `net.Dialer`, the context | timers that race, waves, chains | full timeout for each target; end by the deadline |
| **Log input** `cmd/.../log_analyze.go`, `parser.go` | line counters, read deadline | `analyzeInput`, `analyzeWithDeadline`, `parseLines` | `context.AfterFunc`, a reading goroutine | a blocked read, deadline error against context error | no report on part of a log; cancelling ends the command |
| **Log detectors** `internal/log/analyzer` | none (pure) | patterns, clusters, spikes, ranking | reads entries | windows and thresholds | a filter only hides; detectors agree; the worst comes first |
| **Cleanup scan** `internal/cleanup/scanner` | a result per scanner, the plan, warnings | `Scan` and four scanners | Kubernetes API, deadline | non-atomic lists, partial failure, the limit | nothing in use listed; nothing idle lost in silence |
| **Security audit** `internal/security/scanner` | findings, warnings, first error under a mutex | `Audit`, walks, rules | file system, Kubernetes API | broken files, two scanners, cancellation | report complete or says what is missing |
| **Doc search** `internal/doc/searcher` | inverted index, scores | `buildIndex`, `search`, `excerptLine`, `OpenInEditor` | file system | files change between index and excerpt | a word that is there is found; the excerpt is a hit |
| **Infra validation** `internal/infra/validator` | issues, warnings | `Validate`, terraform, helm, manifests | external tools | tool output, thresholds, no cancellation of the manifest walk | exit threshold; a killed tool is never a pass |
| **Cost scan** `internal/cost/analyzer` | costs, anomalies | `Analyze`, `tryForecast`, `resolvePeriod` | AWS API | averages and periods at boundaries | a flagged service stands out, one that stands out is flagged |
| **Repository automation** `.github` | labels, commit status | `merge_gate.py`, `chat_commands.py`, `strip_stale_approval.py` | GitHub events, concurrency group | stale payloads, replaced runs, partial failure | success only for a reviewed commit, but for named races; the status comes to agree with the labels |

PROJECT.json lists the hazards of this code line by line, each with the properties that watch it.

## Modules

| Module | Models | Composed with |
|---|---|---|
| `HealthAbs` | what a health check promises its caller | refined by `HealthRunner` |
| `HealthRunner` | `HealthChecker.Check`, `checkOne`, classification, report, exit code | `INSTANCE HealthAbs` |
| `HealthRunnerProofs` | TLAPS proofs about `HealthRunner` | extends it |
| `HealthDeadline` | time: timeouts, run deadline, waves, chain | |
| `HealthDeadlineProofs` | TLAPS proofs about `HealthDeadline` | extends it |
| `LogInput` | `analyzeInput`, `analyzeWithDeadline`, `parseLines` | |
| `LogInputProofs` | TLAPS proofs about `LogInput` | extends it |
| `CleanupScan` | `K8sScanner.Scan`, its scanners, a changing cluster | |
| `CleanupScanProofs` | TLAPS proofs about `CleanupScan` | extends it |
| `Audit` | `SecurityScanner.Audit`, walks over a tree, the shared report | |
| `AuditProofs` | TLAPS proofs about `Audit` | extends it |
| `LogFindings` | formats, levels, filter, detectors, ranking and severity of `log analyze` | `Verdicts` |
| `PodRules` | the pod and container rules of `security audit` and `infra validate` | `InfraRules`, `Verdicts` |
| `CostRules` | period, series, anomaly rule and exit code of `cost scan` | `Verdicts` |
| `InfraRules` | terraform, helm and manifest validation, severities, exit code | extends `PodRules`; `Verdicts` |
| `Verdicts` | the judging commands from their input to the exit code | extends the four above |
| `VerdictsProofs` | TLAPS proofs about `Verdicts` | extends it |
| `DocSearch` | `buildIndex`, `search`, excerpts and `--open` over files that others edit | |
| `DocSearchProofs` | TLAPS proofs about `DocSearch` | extends it |
| `MergeGate` | labels, commit status and workflow runs of one pull request | |
| `MergeGateProofs` | TLAPS proofs about `MergeGate` | extends it |

The `MC...` modules give the constants their values. The assumptions on constants (`ASSUME`) stand
in the module that declares them, and TLC evaluates them in every run.

### HealthRunner

The main goroutine is `main` (`add`, `acquire`, `wait`, `print`, `done`: the lines 43, 44 and 51
of `runner.go` and the end of `runHealthCheck`), with `next` the loop variable. `pc[t]` is the
goroutine of target `t`: `running` in its network call, `returned` after it, `recorded` once
`results[idx], errs[idx]` are written, `released` after `<-sem`, `gone` after `wg.Done()` (the two
defers, last first). `sem` and `wg` are the two counters. What the network answers is a choice
among six answers; `Classify` turns an answer into a status and reads the context at the moment
the goroutine gets to it, as `http.go:50` does, not at the moment the call failed. `ContextEnds`
may happen at any step.

Not in the model: redirects and `ExpectBody` (part of the answer "bad"), latency, wording. The
second error of `errors.Join` is the same exit code. A signal that arrives after the report is
printed changes nothing. `StatusUnknown` cannot occur, since `ParseTarget` makes three types only.

### HealthDeadline

`now` counts ticks since the context was made. `Tick` happens only if no timer is due, so a timer
fires on time; starting the next target may be late by `Slack` ticks in all, which stands for a
loaded machine. A DNS lookup has no timer of its own (`dns.go:20`), and a timeout of zero turns
the other timers off, as it does in `http.Client` and `net.Dialer`. Negative timeouts, which
`ParseDuration` accepts, end the context at once and are left out. Since a lookup may use up all
that is left of the run deadline, `FullBudget` makes its promise in a chain only to targets with no
lookup in front of them (`BehindLookup`).

An HTTP or TCP check may be called a timeout at any moment (`GivenUpByNetwork`): `isTimeout` accepts
whatever error says so, and the network has timeouts of its own, a resolver's inside a dial,
`ETIMEDOUT`, or the share of each address of a host. So `FullBudget` does not speak of verdicts. It
says of the run deadline, which is this program's, that it never comes before the timeout of a
target that did not have to wait.

### LogInput

`Prepare` takes one of the two ways of `analyzeInput`. `reader` is `parseLines`, in the main
goroutine or in its own; `after` is the function given to `AfterFunc`. The input delivers when it
likes or never: `supply` bounds how often. Lines have no content; a taken line is blank, an
entry or a parse error. The detectors run to their end (`Detect`) and have no say here. The model
begins with an open file or stdin: opening a named pipe that nobody writes to (`log_analyze.go:64`) waits
before any of this, and `CancelEnds` does not speak of it.

### CleanupScan

`live` is the cluster. `Create` and `Delete` may happen between any two list calls; objects that
are created are of the kinds a day-old rule does not touch. Whether an object is idle by its own
status and age (`classifyPod`, the claim phases, the age of a config map) is its attribute `idle`,
since these rules look at one object only; it does not
change during a scan. `Mounted` and `Ask` relate several and are spelled
out. `steady`, `seen` and `bare` are history variables: what was there all the time, at some time,
and which namespaces were without workload at some time. A failure to build the client ends the
command before any of this and is left out. Namespaces themselves do not come and go; they are
listed in any order. Kind, namespace and name identify an object, as they do in the API server.

The cut at `cleanup.max_resources` is silent: `client.go:146` shortens the list without a warning
and the printed plan bears no mark; `limits.yaml` says "silently dropped". `LostOnlyToTheCut` does not
pretend otherwise. It says that this is the only way to lose something in silence, and that the cut
takes from the end: a scanner loses results only when the list is full of those of its own kind and
of the kinds in front. `ZeroMeansNoneIdle` adds that the cut never passes for a clean cluster.

### Audit

`Tree` is what `WalkDir` visits, in order, with the number of matches in each file. Each visit
may find a directory unreadable, a file gone (`d.Info` fails), a file that breaks off, or the
context ended. `Lock` reads the shared slice and `Merge` writes it, so a missing mutex loses
updates in the model as it would in the program. `hidden` is a history variable: what was left out
without a word, and `NothingLostSilently` excepts it: a file that is gone by the time of `d.Info`, what is
below a directory that cannot be read, and the whole tree when the root is not there or
bears the name of a skipped directory. Binary files are files without problems. `inside` is the number of
entries below a directory, which the assumption keeps within the tree.

An entry may be a pipe (a device would do the same). `secrets` and `sast` look for regular files first,
but `checkManifestFile` reads whatever is called `*.yaml`, and the read of a pipe that nobody writes to
never returns; no deadline is set and a signal does not end it. `ReadsPipe` is that wait, `Fairness`
leaves it out, and `AuditEnds` promises an end except there. A regular file that is
replaced by a pipe between the check of `secrets` or `sast` and the opening is left out.

### Verdicts and the rule modules

These commands read their input at once and then compute. The rules are operators, one for each
function of the code; `Verdicts` is the program around them: `job` is the input, `found` the set of
findings, `report` the list that `Rank` builds (where the code sorts without a last criterion, any
order of equals), `exit` the exit code. None of the operators is `RECURSIVE`.

`LogFindings` takes a line as a shape, a level word, a message with or without variable parts and a
minute: what the regular expressions and decoders of `parser.go` yield. The slice of entries is a
function from the numbers of the lines they come from (`domain.LogEntry.Line`), so that leaving out
blank lines or filtering is a restriction of its domain. Everything that follows
from these is spelled out: the format of the first full line decides how every other is read, a
JSON or syslog log loses level and time of a line of another shape, a plain log searches each line
for a level word. Ratios are cross-multiplied; for the sizes a log can have here float64 gives the
same verdicts. `PodRules` holds the rules
that the code has three times (`k8s_local.go`, `k8s_live.go`, `k8s_yaml.go`) next to each other; a
pod of the cluster may have no security context, in a manifest it is one with nothing set
(`Decoded`). `Unpinned` follows the code in which any colon counts as that of a tag, a
registry's port as well. `CostRules` counts cents and days. In `InfraRules` a tool is
what it printed and whether it ended well; a tool killed by the context is one that did not, with
whatever it printed until then.

### DocSearch

`pos` is the entry the walk is at. `Visit` is the walk function up to `d.Info`, `IndexFile` the
rest of it, because a file may be removed or grow in between; reading one file is one step. `index`
keeps what was read, and `AddResult` reads the line again from `disk`. `Edit` may write or remove a
file before any step, `Cancel` ends the context. A prefix is looked for only if the word itself is
nowhere, and the line shown then depends on the order of a Go map: `BestLines` is a set.
A file is a hit if it has a posting of a word of the query (`Matches`), as in the code, where such
files are the keys of `scores`; scores only decide the order. `candidates` is one of the orders
`sort.Slice` may give. Titles, the cut of an
excerpt at 200 bytes and the arguments of the editor are left out. The tree is what the walk reaches: what lies
below a directory that cannot be read (`indexer.go:73`) or deeper than the limit is passed over in silence,
is not in it, and `WordIsFound` makes no promise about it.

### MergeGate

`group` is the concurrency group of `merge-gate.yml` and `chat-ops.yml`: one run that runs, one
that waits, a third takes the place of the second. A run is what it still has to remove or add, and
the labels and commit it knows of: those of its event, or for a chat command those it asks for
after its change. Each call to GitHub is a step that may fail, and a failure ends the run, with what
it did until then. Changes of labels by a run start no run, because they are made with the
workflow's own token. Who may give a command is decided before the model; one that is refused is
`Ignored`, which still takes its place in the group, as does any other comment. `/ok-to-test` is
among these: its labels and the merge gate have nothing to do with each other.

`undisturbed` and the last four variables are history. `stale` holds the review labels (`lgtm`, `approved`)
on the pull request that were given for an earlier commit: all of them after a push, one fewer when a
person changes or a run removes it, and one more when `/lgtm` or `/approve` was given for the old commit
and is carried out after the push (`for`). `right` has the commits that were the head under the right labels,
`reviewed` those that were it while no label was stale. That `success` means `reviewed` is what
`merge-gate.yml` says, and it is not so: `NewCommitDropsReview` is violated. `raced` collects the
commits for which it can go wrong, each at the step where it does:

* the waiting strip run is replaced, by any comment or by a label change (`Comment`, `Relabel`);
* the strip run fails before it has removed both labels (`Fail`);
* a label is changed while stale ones are there, so the payload of the gate run holds them, although the
  strip run may remove them before that run posts (`Relabel`);
* a chat command in progress at the push fetches the new head with the old labels, before the strip run
  that waits behind it, or adds the label it was given for the old commit (`Push`).

`SuccessWasEarned` says that there is no other way.

## Runs

| Run | Instance | Shows |
|---|---|---|
| `health_runner` | 3 targets (HTTP, TCP, DNS), 2 slots | types, slot limit, final report, cancelled = timeout, truthful exit code, refinement of `HealthAbs` with liveness |
| `health_deadline` | 4 targets (HTTP, TCP, DNS, HTTP), timeouts 0 to 4 against a limit of 3, buffer 2, slack 2 | full timeout for each target, end by the deadline, chain order |
| `health_waves` (violated) | 3 HTTP targets, 1 slot | later waves start after the deadline |
| `log_input` | limit of 2 lines, 5 deliveries | whole log or no report, no deadline error shown, no late deadline, counters, cancelling ends |
| `log_limit` (violated) | limit of 2 lines | reports 3 lines |
| `cleanup_scan` | 3 namespaces, 5 objects, one change, list of 3 | nothing in use listed, no silent loss but the cut, exit code 0, the scan ends |
| `cleanup_empty` (violated) | 2 objects that take turns | a namespace that was never empty is reported as Empty |
| `audit` | 8 entries, all four audit types | complete report, merge of two scanners, the audit ends unless it waits at a pipe |
| `verdicts` | 39 713 inputs of five commands | the detectors agree, spikes are rare, severity never rises down the report, `--level` only hides; manifest and cluster rules agree, image rules agree; cost anomalies are bracketed; a plan passes exactly if it is harmless; a killed tool is never a pass |
| `doc_search` | 4 trees of up to 7 entries, 4 queries, 2 results, one file edited | words are found, excerpts are hits |
| `merge_gate` | 3 commits, 6 events | types, success was earned, a calm run mends the status |
| `merge_race` (violated) | 3 commits, 5 events | a new commit gets success from the review of the one before |

The bounds are the smallest that make the interesting case happen. Health: a third target has to
wait for a slot, and each check type has its own classification. Deadline: the clamp is active, a
timeout of zero is included, lateness reaches the buffer but may exceed a short timeout, and the
lookup stands in the middle of the chain, with a target behind it. Log: the limit is reached with supply left over, and a cut line
can be the first, the last, or the one over the limit. Cleanup: the list overflows, a pod of another
namespace mounts a claim of the same name, and one change can fall between any two calls;
`cleanup_empty` needs two. Audit: two scanners with work for both, a directory that can be
unreadable, skipped ones, and a pipe, with entries after them. Verdicts: the inputs lie on both sides of
each threshold: groups of two and three messages, four windows (the fewest of which one can be a
spike), a week of costs with the sum below, at and above both thresholds and with free and refunded
days, 28 kinds of change alone and in pairs, every pair of security contexts, every mix of two lint
lines. Doc search: more hits than results, a line too long for an excerpt, a word that is a prefix
of another, a file that cannot be opened, skipped entries before and after an indexed one; with two
edits the run takes some two minutes (330 524 states) and shows the same. Merge gate: with six
events two labels, a push, a command, a label change and a comment can follow one another, and a waiting
run is replaced up to four times; a third commit may come before the strip run of the second.

### Fairness

`HealthRunner`: goroutines run, and a network call returns because each is bounded by a timer or
by the run deadline. `LogInput`: goroutines run, but the input owes nothing; so `CancelEnds`
says that cancelling ends the command even when the input is silent. The one exception is in the
property: an input that refuses the deadline (`SetReadDeadline` fails) leaves the reader blocked.
`CleanupScan`: the deadline arrives and a call under an ended context returns; the API server owes
nothing. `Audit`: regular files answer; a pipe that k8s-local reads need not, and the call of
`k8s-live` has no deadline, so the property promises an end unless a scanner waits at a pipe, and for
`k8s-live` only after an interrupt. `HealthDeadline` has no fairness: it only has safety properties, of
which `EndsByDeadline` is the timed one. `DocSearch` and `Verdicts` are one goroutine with nothing
to wait for, and in `MergeGate` when a run is started, and whether it is, is up to GitHub: they have no
fairness either.

### Disagreements between code and documents

* `limits.yaml` says of `health.max_targets` that every target is checked and the rest wait
  for a slot. The run deadline is one timeout plus 5 s however many waves there are
  (`health_check.go:76`): `EveryTargetChecked`.
* `limits.yaml` calls `log.max_lines` the maximum number of lines read. The parser reads and counts
  one more (`parser.go:230`): `TotalWithinLimit`. `LinesAddUp` shows that what is analysed stays
  within the limit.
* `COMMANDS.md` calls a namespace Empty that has no pods, Deployments, StatefulSets, or Services.
  Four calls at four moments can each find nothing in a namespace that is never empty
  (`namespaces.go:74`): `EmptyWasEmpty`. What is there throughout is never missed
  (`InUseNeverListed`).
* `merge-gate.yml:33` says that a new commit drops `lgtm` and `approved` and posts the corrected status. The
  run that does so may be replaced while it waits, may fail, or may come after a run that works on the old
  labels (`merge-gate.yml:8`): a commit that nobody reviewed then has the status success:
  `NewCommitDropsReview`. The shortest way takes a label, a push and another label while a run is busy.

Some more were met without a run of their own. Where a model contains the code in question it
follows the code:

* `SECURITY.md:61` says that a file that cannot be read is named in a warning. In k8s-local the files below
  an unreadable directory are not (`k8s_local.go:140`); `NothingLostSilently` excepts them.
* `tend doc search --help` calls several words AND terms (`doc_search.go:30`); a file with one of
  them is a hit (`search.go:34`).
* `search.go:32` calls `bestLine` the first matching line; it is the first posting met, which for a
  later word of the query, or for prefixes, need not be the first line.
* A search that is interrupted after the ranking prints the results it has, or "No results", with
  exit code 0 (`search.go:92`).
* `patterns.go:24` says more than `minCount` times; the code keeps `minCount`. `validator.go:73` says
  higher than the threshold; the code means at least.
* `k8s_local.go:306` and `k8s_yaml.go:222` report an image without a tag, but take the
  colon of a registry's port for that of a tag.
* `aws.go:168` forecasts 30 days; the end is exclusive, so it asks for 29.
* `merge-gate.yml:7` and `chat-ops.yml:7` say that a push and a chat command never race. Their runs do not
  overlap, but a run works on the labels of its event, and a command asks for the labels of a head whose
  strip run waits behind it. `CalmRunHeals` says when status and labels agree again; it promises
  recovery only, and what goes wrong until then is the business of `SuccessWasEarned`.

## Proofs

Each `...Proofs` module has the same shape: an inductive invariant `IInv` as a conjunction of named
parts, lemmas about the operators, one lemma for each action that says it keeps `IInv`, `StepInv`
which puts them together, and the theorems, which follow from `IInv`. Every invariant of a passing
run is the statement of one of these theorems. They hold for all constants that satisfy the
assumption of the module; none of these bounds a number, except that limits are at least one where
`limits.yaml` has a positive value.

### HealthRunnerProofs

For every number of targets, every concurrency option and limit, and every assignment of check types
(`HealthAssumption`: naturals, a positive limit, and `Pending` different from the values it stands in
for): `TypeCorrect`, `SlotLimit`, `CompleteReport`, `CancellationIsTimeout`, `TruthfulExit`, and
`RunnerImplementsPromise`: the runner starts as `HealthAbs` does, and every step is a step of
`HealthAbs` or a stutter.

None of the checked invariants is inductive alone. `wg \in 0..NumTargets` survives `wg.Done()`
only because `wg` counts the goroutines that are still there, hence `CountersInv`: `sem` is the
number of goroutines that hold a slot, `wg` the number of those started and not gone, plus the
one about to start. Each step adds or removes one element of those sets, and the cardinality
lemmas of `FiniteSetTheorems` do the rest. From `wg = 0` and the loop being over follows that every
goroutine is gone (`WaitReturns`); with `ControlInv` (who has started, who is gone, where the main
goroutine is) no result changes after the report. `DataInv` says what a goroutine at each place has
read and written, `ReportInv` ties the report to the results and the exit code to the report.

### HealthDeadlineProofs

For any number of targets of any type, any flag, limit, buffer and lateness: `TypeCorrect`,
`BudgetIsKept`, `DeadlineIsKept`, `ChainStopsInTime`. `EndsByDeadline` needs `TimerInv`: `Tick` waits
for every due timer, so `now` never passes the run deadline while somebody is running, nor the timer
of a running target. `FullBudget` needs to know when a target can start at the latest. In parallel
with a slot for each, that is the lateness so far (`SlotsInv`; that a slot is then free is a
counting argument: the targets that run are among the `next - 1` started ones). In a chain it is
`t - 1` timeouts plus the lateness (`ChainInv`, `Turns` being a product that grows by one timeout a
turn); `BudgetFollows` compares both with the deadline. Proving `ChainInv` failed at the target behind a DNS lookup, which may use up the deadline
of the whole run without being out of time itself; TLC gave the run as soon as the instance had a
target behind a lookup. That is why `FullBudget` leaves such targets out and the instance has one.

### LogInputProofs

For every limit and every supply: `TypeCorrect`, `ReportIsWhole`, `DeadlineHidden`,
`AfterFuncIsOver`, `CountersAgree`. `ControlInv` says how far `analyzeInput`, the reader and the
function of `AfterFunc` can be at the same time; that the function is over when `analyzeWithDeadline`
answers follows from the one place that passes `stop()`. `DeadlineInv`: only that function
sets the deadline, after the context has ended, so when a read fails for it there is a context error
to answer instead. `CountInv`: until the loop breaks the limit has not been passed.

### CleanupScanProofs

For every cluster, any changes during the scan and any limit of the list (`CleanupAssumption`:
finitely many objects, identified by kind, namespace and name): `TypeCorrect`,
`NothingInUseListed`, `NothingElseLost`, `NoneIdleAtZero`. The history variables are what makes this provable: no call
shows the cluster as it was, but an answer has everything in `steady` and nothing outside `seen`. One
conjunct for each scanner says what it knows at each place in terms of these (`ListInv`,
`ClaimsInv`, `NamespacesInv`), and since `steady` only shrinks and `seen` only grows, the actions of
the cluster cannot disturb them. `ClaimsInv` has both halves of the mounts: of the claims it lists
none was used by a steady pod, and all that no pod ever used are listed. `PlanInv` carries the
results into the plan, cut or whole: what the cut drops stands behind everything it keeps, because
the results put together are sorted by scanner (`Sorted`, `Together`). The attempt to prove `InUseNeverListed` without the identity of
objects failed: a claim entry names a claim only if kind, namespace and name identify it.

### AuditProofs

For every tree and any number of problems in a file: `TypeCorrect`, `MergesAreWhole`,
`ReportIsWhole`. `LockInv` is mutual exclusion: the holder of the mutex is the only scanner in the
section, and the slice it has read is the current one; without it `MergedInOrder` does not survive
`Merge`. `ScannerOK` says that each entry a scanner has passed is `Covered`, that is
reported, warned about or left out for a reason the property names; skipping the entries
below a directory keeps this because the directory is such a reason. `MergeInv` says that a scanner
which was in the section has added everything or has an error that is kept, and `MainInv` that a
report is printed only when there is none.

### VerdictsProofs

For any logs, manifests, pods, costs and infrastructure jobs of the types in `VerdictsAssumption`:
nine theorems, one for each invariant of the run `verdicts`. Here the state is simple (`FoundInv`:
what was found is what the rules say of the input; `ReportInv`: nothing in the report, and nothing
still to come, belongs above what stands before it) and the work is in the operators:

* `ManifestAndClusterAgree`, `ImagesAgree`, `HarmlessPlansPass`, `KilledIsNoPass`: by cases on the
  rules, for any containers, changes and tool output. The first attempt showed that the agreement of
  the rules is about manifests that parse and whose kind is a workload, hence `ReadManifest`.
* `ClustersCover`: a pattern is a group of equal messages, its cluster a larger group of equal
  templates; a larger group has at least its size, its first and its last line (`LargerGroup`).
* `LevelHides`: messages of one group have one level, so a filter by level keeps a group or drops it.
* `SeverityFalls`: `LogSeverity` of findings of repetition does not fall when the count does not.
* `SpikesStandOut`: the windows partition the errors, so `k` windows of at least three times the
  average hold at least `3 k / n` of the errors. So `3 k <= n`, and not `3 k = n`, since then the
  other windows would hold none. The lemma is about any labelling of a finite set (`FewStandOut`) and used for
  minutes and for line windows.
* `AnomaliesBracketed`: the sum over the seven days before lies between seven times the least and
  seven times the dearest (`SumBounds`, `SevenDays`), for any integers.

Sums over functions are iterations (`SumFunction`), and induction over data needs an operator as a
parameter. `SumIsDefined` gets around that: it shows that the function the library's definition
chooses exists, by looking at a smallest set for which it would not.

### DocSearchProofs

For any tree, query, extensions, limit and any edits by others: `TypeCorrect`, `ExcerptsAreHits`,
`WordsAreFound`. `WorldInv` says that what nobody touched is as it was; `IndexInv` that the index has
for each such file behind the walk exactly its lines; `CandidatesInv` that each candidate's line
holds what was searched for and that the list has all hits or is full with files that score no
less; `ResultsInv` that the results are the first candidates, read again. `WordIsFound` compares scores
only by the order the sort gave, so no property of sums is needed; it says that no result scores less
because a sort knows nothing else.

### MergeGateProofs

For any number of pushes and events: `TypeCorrect`, `NoUnearnedSuccess`, `OneCalmRunIsEnough`.
`SuccessWasEarned` needs the same of every run of the group (`RunsEarned`): a run that could post
success for a commit knows labels under which this commit was reviewed or raced for, where the labels a strip
run is going to drop do not count; and of the labels on the head (`HeadInv`). What `Fetch` may find
follows from `RaceInv`: while labels are stale, the strip run of the head is in the group, will drop all of
them, and no command that has yet to ask is in front of it (`StripComes`), and a command not yet carried
out was given for the head (`CommandsFresh`), unless the head was raced for. `CalmRunHeals` needs
`CalmInv`: an undisturbed run works on the current labels and commit, or has yet to ask for them. `StageInv` says
how far a run can be.

### Only model-checked

* Liveness: `AuditEnds`, `CancelEnds`, `ScanEnds` and the liveness half of
  `KeepsPromise`. They rest on fairness, whose definition is by `ENABLED`, and that is beyond the
  prover.
* The four disagreements of the violated runs, which are counterexamples.
* That the operators of the rule modules are faithful is by reading; what TLC adds are the mutants,
  each of which breaks a property.

## Plan

1. *Done*: health runner with proofs, time, log input, cleanup scan, audit.
2. *Done*: merge gate; log findings, pod, cost and infra rules with the commands around them; doc
   search.
3. *Done*: proofs of all invariants of the passing runs.
4. *Left*: action properties that follow from the same invariants (a verdict of the health check, a
   merged finding of the audit and a posted result of the search are never taken back; what the plan
   of a cleanup names is fixed once printed); abstract specifications of `LogInput` (one atomic read,
   then an answer) and of `CleanupScan` (a plan between `steady` and `seen`) with refinement theorems;
   the safety half of `Audit` against a sequential audit.

## Not modelled, and why

* Regular expressions over text: the patterns for secrets and unsafe code, the shapes of log lines,
  `normalizeMessage`, tokens. The models take what they yield as an input. JSON, YAML and timestamp
  decoding likewise.
* Formatting and printing, except that a write may fail; titles, sample lines, time ranges, wording;
  Cobra's argument handling and the configuration, which is embedded at build time.
* The external tools and cloud APIs beyond their answers; the further pages of an answer of AWS, which
  the code does not ask for, and the forecast, whose failure the code ignores.
* Repository scripts that share nothing with the merge gate (`size_label.py`, `auto_assign.py`,
  `needs_ok_to_test.py`, `sync_labels.py`): one pass over the GitHub API each.
* Stubs: `auditor/stub.go`, which no command reaches, and the Azure and GCP analyzers, which return an
  error.

## How to run

    tlc -workers 2 -config CleanupScan.cfg MCCleanupScan
    tlapm CleanupScanProofs.tla

Each configuration goes with the module that `PROJECT.json` names in `runs`; each `...Proofs` module
is checked in the same way.
