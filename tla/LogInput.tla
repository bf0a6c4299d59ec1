------------------------------ MODULE LogInput ------------------------------
(***************************************************************************)
(* `tend log analyze`: reading a log under a context that may end at any   *)
(* moment.  analyzeInput picks one of two ways to make a blocked read end. *)
(* An input with deadlines is read by the main goroutine, and a function   *)
(* registered with context.AfterFunc gives the input a deadline in the     *)
(* past.  Any other input is read by a second goroutine, which is          *)
(* abandoned when the context ends first.  Both run the loop of parseLines.*)
(***************************************************************************)
EXTENDS Integers

CONSTANTS MaxLines,   \* log.max_lines
          MaxSupply   \* bound: buffers full of data the input can deliver

ASSUME LogInputAssumption == MaxLines \in Nat \ {0} /\ MaxSupply \in Nat

VARIABLES
  main,      \* where analyzeInput is
  result,    \* what analyzeInput returned
  exit,      \* the exit code of the command, -1 before it ends
  reader,    \* where parseLines is
  outcome,   \* what Analyze returned
  supply,    \* data the input can still deliver
  whole,     \* parseLines came to the end of the input or to the limit
  total,     \* totalLines
  parsed,    \* len(entries)
  bad,       \* parseErrors
  cut,       \* truncated
  ended,     \* ctx.Err() is not nil
  after,     \* the function given to context.AfterFunc
  deadline   \* the input has a read deadline in the past

counters == <<total, parsed, bad, cut>>
vars == <<main, result, exit, reader, outcome, supply, whole, counters, ended, after, deadline>>

Error == {"ctx", "deadline", "read", "setup"}

TypeOK ==
  /\ main \in {"prepare", "analyze", "stop", "select", "close", "done"}
  /\ result \in Error \cup {"none", "report"}
  /\ exit \in {-1, 0, 1, 2}
  /\ reader \in {"idle", "loop", "read", "skip", "detect", "returned", "sent"}
  /\ outcome \in Error \cup {"none", "report"}
  /\ supply \in 0..MaxSupply
  /\ whole \in BOOLEAN
  /\ total \in 0..(MaxLines + 1)
  /\ parsed \in 0..MaxLines /\ bad \in 0..MaxLines /\ cut \in 0..(MaxLines + 1)
  /\ ended \in BOOLEAN
  /\ after \in {"unset", "armed", "running", "set", "failed", "stopped"}
  /\ deadline \in BOOLEAN

Init ==
  /\ main = "prepare" /\ result = "none" /\ exit = -1
  /\ reader = "idle" /\ outcome = "none"
  /\ supply = MaxSupply
  /\ whole = FALSE
  /\ total = 0 /\ parsed = 0 /\ bad = 0 /\ cut = 0
  /\ ended = FALSE
  /\ after = "unset"
  /\ deadline = FALSE

-----------------------------------------------------------------------------
(* parseLines and the rest of Analyze.                                     *)

Return(o) ==
  /\ reader' = "returned"
  /\ outcome' = o

\* The loop looks at the context before each line, and only there.
CheckContext ==
  /\ reader = "loop"
  /\ IF ended THEN Return("ctx") ELSE reader' = "read" /\ UNCHANGED outcome
  /\ UNCHANGED <<main, result, exit, supply, whole, counters, ended, after, deadline>>

\* Mutant: there is no limit.
TakeLine_NoLimit(last) ==
  /\ total' = total + 1
  /\ parsed' = parsed + 1 /\ UNCHANGED bad
  /\ reader' = IF last THEN "detect" ELSE "loop"
  /\ whole' = last

\* Mutant: the limit is tested after the line has been taken.
TakeLine_LimitAfter(last) ==
  /\ total' = total + 1
  /\ parsed' = parsed + 1 /\ UNCHANGED bad
  /\ reader' = IF last \/ total' > MaxLines THEN "detect" ELSE "loop"
  /\ whole' = (last \/ total' > MaxLines)

\* A line has been read: it is counted, and then the limit is tested.  A
\* blank line is skipped; any other is an entry or a parse error.
TakeLine(last) ==
  /\ total' = total + 1
  /\ IF total' > MaxLines
     THEN /\ reader' = "detect" /\ whole' = TRUE
          /\ UNCHANGED <<parsed, bad>>
     ELSE /\ \/ UNCHANGED <<parsed, bad>>
             \/ parsed' = parsed + 1 /\ UNCHANGED bad
             \/ bad' = bad + 1 /\ UNCHANGED parsed
          /\ reader' = IF last THEN "detect" ELSE "loop"
          /\ whole' = last

\* ReadSlice returns a whole line, or the last one without a newline.
ReadLine ==
  /\ reader = "read"
  /\ \E last \in BOOLEAN :
       /\ supply > 0
       /\ TakeLine(last)
  /\ supply' = supply - 1
  /\ UNCHANGED <<main, result, exit, outcome, cut, ended, after, deadline>>

\* ErrBufferFull: the line is longer than the buffer; its rest is discarded.
ReadLongLine ==
  /\ reader = "read"
  /\ supply > 0
  /\ supply' = supply - 1
  /\ cut' = cut + 1
  /\ reader' = "skip"
  /\ UNCHANGED <<main, result, exit, outcome, whole, total, parsed, bad, ended, after, deadline>>

\* The inner loop reads on to the end of the line, without a look at the context.
SkipRest ==
  /\ reader = "skip"
  /\ supply > 0
  /\ supply' = supply - 1
  /\ \/ UNCHANGED <<reader, whole, total, parsed, bad>>
     \/ \E last \in BOOLEAN : TakeLine(last)
  /\ UNCHANGED <<main, result, exit, outcome, cut, ended, after, deadline>>

\* EOF with nothing before it; after a cut line the cut part is still taken.
ReadEOF ==
  /\ \/ reader = "read" /\ reader' = "detect" /\ whole' = TRUE
                        /\ UNCHANGED <<total, parsed, bad>>
     \/ reader = "skip" /\ TakeLine(TRUE)
  /\ UNCHANGED <<main, result, exit, outcome, supply, cut, ended, after, deadline>>

\* Mutant: every read error ends the input as EOF does.
ReadFails_AsEOF(e) ==
  /\ reader \in {"read", "skip"}
  /\ reader' = "detect" /\ whole' = FALSE
  /\ UNCHANGED <<main, result, exit, outcome, supply, counters, ended, after, deadline>>

\* Any other read error ends the analysis.
ReadFails(e) ==
  /\ reader \in {"read", "skip"}
  /\ Return(e)
  /\ UNCHANGED <<main, result, exit, supply, whole, counters, ended, after, deadline>>

\* A blocked read, or the next one, returns os.ErrDeadlineExceeded.
DeadlinePasses == deadline /\ ReadFails("deadline")

\* The detectors and the ranking run to their end.
Detect ==
  /\ reader = "detect"
  /\ Return("report")
  /\ UNCHANGED <<main, result, exit, supply, whole, counters, ended, after, deadline>>

\* What happens when the input delivers: nothing forces it to.
Input == ReadLine \/ ReadLongLine \/ SkipRest \/ ReadEOF \/ ReadFails("read")

Analysis == CheckContext \/ DeadlinePasses \/ Detect

-----------------------------------------------------------------------------
(* analyzeInput and the end of runLogAnalyze.                              *)

Answer(r) == result' = r /\ main' = "close"

\* SetReadDeadline(time.Time{}) tells which way the input is read.
Prepare ==
  /\ main = "prepare"
  /\ \/ main' = "analyze" /\ after' = "armed" /\ reader' = "loop" /\ UNCHANGED result
     \/ main' = "select" /\ reader' = "loop" /\ UNCHANGED <<after, result>>
     \/ Answer("setup") /\ UNCHANGED <<after, reader>>
  /\ UNCHANGED <<exit, outcome, supply, whole, counters, ended, deadline>>

\* Mutant: the deadline is never set on the input.
SetDeadline_Lost ==
  /\ after = "running"
  /\ after' = "set"
  /\ UNCHANGED <<main, result, exit, reader, outcome, supply, whole, counters, ended, deadline>>

\* The function given to AfterFunc starts once the context has ended ...
AfterStarts ==
  /\ after = "armed" /\ ended
  /\ after' = "running"
  /\ UNCHANGED <<main, result, exit, reader, outcome, supply, whole, counters, ended, deadline>>

\* ... and sets the deadline, or fails to.
SetDeadline ==
  /\ after = "running"
  /\ \/ after' = "set" /\ deadline' = TRUE
     \/ after' = "failed" /\ UNCHANGED deadline
  /\ UNCHANGED <<main, result, exit, reader, outcome, supply, whole, counters, ended>>

\* Mutant: nobody waits for a function that has been started.
StopDeadline_NoWait ==
  /\ main = "analyze" /\ reader = "returned"
  /\ after' = IF after = "armed" THEN "stopped" ELSE after
  /\ main' = "stop"
  /\ UNCHANGED <<result, exit, reader, outcome, supply, whole, counters, ended, deadline>>

\* stopDeadline() keeps the function from starting, or main waits for the
\* function's answer.
StopDeadline ==
  /\ main = "analyze" /\ reader = "returned"
  /\ \/ after = "armed" /\ after' = "stopped"
     \/ after \in {"set", "failed"} /\ UNCHANGED after
  /\ main' = "stop"
  /\ UNCHANGED <<result, exit, reader, outcome, supply, whole, counters, ended, deadline>>

\* Mutant: the deadline error is passed on.
Translate_Raw(o) == o

\* The deadline is how the read was woken; the error is the context's.
Translate(o) == IF o = "deadline" /\ ended THEN "ctx" ELSE o

AnswerDeadline ==
  /\ main = "stop"
  /\ Answer(IF after = "failed" THEN "setup" ELSE Translate(outcome))
  /\ UNCHANGED <<exit, reader, outcome, supply, whole, counters, ended, after, deadline>>

\* done <- outcome: the channel has room for the one outcome.
Send ==
  /\ main \in {"select", "close", "done"} /\ after = "unset"
  /\ reader = "returned"
  /\ reader' = "sent"
  /\ UNCHANGED <<main, result, exit, outcome, supply, whole, counters, ended, after, deadline>>

\* select: with both ready either may be taken.
Select ==
  /\ main = "select"
  /\ \/ reader = "sent" /\ Answer(outcome)
     \/ ended /\ Answer("ctx")
  /\ UNCHANGED <<exit, reader, outcome, supply, whole, counters, ended, after, deadline>>

\* The report is printed; then the input is closed, which matters only to a
\* command that had nothing else to say.
Exit ==
  /\ main = "close"
  /\ \E printed, findings, closed \in BOOLEAN :
       exit' = IF result # "report" \/ ~printed THEN 1
               ELSE IF findings THEN 2
               ELSE IF closed THEN 0 ELSE 1
  /\ main' = "done"
  /\ UNCHANGED <<result, reader, outcome, supply, whole, counters, ended, after, deadline>>

Main == Prepare \/ StopDeadline \/ AnswerDeadline \/ Select \/ Exit

ContextEnds ==
  /\ main # "done" /\ ~ended
  /\ ended' = TRUE
  /\ UNCHANGED <<main, result, exit, reader, outcome, supply, whole, counters, after, deadline>>

Exited == main = "done" /\ UNCHANGED vars

Next ==
  \/ Main \/ AfterStarts \/ SetDeadline
  \/ Analysis \/ Send \/ Input
  \/ ContextEnds \/ Exited

\* Goroutines run; a read returns by itself only when the input delivers.
Fairness ==
  /\ WF_vars(Main)
  /\ WF_vars(AfterStarts \/ SetDeadline)
  /\ WF_vars(Analysis \/ Send)

Spec == Init /\ [][Next]_vars /\ Fairness

-----------------------------------------------------------------------------
(* Properties.                                                             *)

\* A run that ends with a verdict on the log (0 or 2) has read all of it, or
\* all up to the limit: no end of the context and no read error leaves a
\* report on a part of the log.
NoPartialReport == exit \in {0, 2} => whole /\ outcome = "report"

\* The deadline that wakes a blocked read is never shown to the user as the
\* reason of the failure.
DeadlineIsHidden == result # "deadline"

\* When the command has its answer, the function that sets deadlines is over
\* or will not start: it never touches an input that is being closed.
NoLateDeadline == main \in {"close", "done"} => after \notin {"armed", "running"}

\* The numbers of the report agree: what was parsed was read and is within
\* the limit, although one line more than the limit is read, and a line that
\* was cut is one of the lines read.
LinesAddUp ==
  /\ parsed + bad <= total
  /\ parsed + bad <= MaxLines
  /\ reader # "skip" => cut <= total \/ outcome \in Error

\* The command ends once the context has, even if the input is silent, unless
\* the input refused the deadline.
CancelEnds == ended ~> (main = "done" \/ after = "failed")

\* limits.yaml says of log.max_lines: "Maximum number of lines read from a log
\* file or stdin."  The number of lines the report gives as read is total.
TotalWithinLimit == outcome = "report" => total <= MaxLines
=============================================================================
