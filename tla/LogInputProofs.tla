---------------------------- MODULE LogInputProofs ----------------------------
(***************************************************************************)
(* Proofs about `tend log analyze` reading under a context that may end,   *)
(* for any line limit and any amount of input.                             *)
(***************************************************************************)
EXTENDS LogInput, TLAPS

\* How far analyzeInput, the reader and the function of AfterFunc can be at
\* the same time.
ControlInv ==
  /\ exit = -1 <=> main # "done"
  /\ result = "none" <=> main \notin {"close", "done"}
  /\ main = "prepare" => reader = "idle"
  /\ main \in {"prepare", "select"} => after = "unset"
  /\ main = "analyze" => after \in {"armed", "running", "set", "failed"}
  /\ main = "stop" => reader = "returned" /\ after \in {"stopped", "set", "failed"}
  /\ NoLateDeadline

\* Only the function of AfterFunc sets the deadline, after the context has
\* ended, and only then can a read fail for it.
DeadlineInv ==
  /\ after \in {"running", "set", "failed"} => ended
  /\ deadline => after = "set"
  /\ outcome = "deadline" => deadline
  /\ DeadlineIsHidden

\* A report comes out of a whole log, and the command's answer and exit code
\* out of that report.
OutcomeInv ==
  /\ outcome = "none" <=> reader \notin {"returned", "sent"}
  /\ reader = "detect" \/ outcome = "report" => whole
  /\ result = "report" => outcome = "report"
  /\ exit \in {0, 2} => result = "report"

\* While lines are read the limit has not been passed, and at most one cut
\* line is not counted yet: the one whose rest is being skipped.
CountInv ==
  /\ reader \in {"idle", "loop", "read", "skip"} => total <= MaxLines
  /\ cut <= total + 1
  /\ LinesAddUp

IInv == TypeOK /\ ControlInv /\ DeadlineInv /\ OutcomeInv /\ CountInv

\* The command starts in the inductive invariant.
LEMMA InitInv == Init => IInv
<1> SUFFICES ASSUME Init PROVE IInv
  OBVIOUS
<1> USE LogInputAssumption DEF Init
<1>1. TypeOK
  <2>1. supply \in 0..MaxSupply /\ total \in 0..(MaxLines + 1) /\ cut \in 0..(MaxLines + 1)
    OBVIOUS
  <2>2. parsed \in 0..MaxLines /\ bad \in 0..MaxLines
    OBVIOUS
  <2>3. exit \in {-1, 0, 1, 2}
    OBVIOUS
  <2> QED
    BY <2>1, <2>2, <2>3 DEF TypeOK, Error
<1>2. ControlInv
  BY DEF ControlInv, NoLateDeadline
<1>3. DeadlineInv
  BY DEF DeadlineInv, DeadlineIsHidden
<1>4. OutcomeInv
  BY DEF OutcomeInv
<1>5. CountInv
  BY DEF CountInv, LinesAddUp
<1> QED
  BY <1>1, <1>2, <1>3, <1>4, <1>5 DEF IInv

-----------------------------------------------------------------------------
(* What each kind of step keeps.                                           *)

\* A line taken is counted once, and the reader goes on only within the limit.
LEMMA TakeLineCounts ==
  ASSUME IInv, reader \in {"read", "skip"}, NEW last \in BOOLEAN, TakeLine(last)
  PROVE  /\ total' = total + 1 /\ total' \in 0..(MaxLines + 1)
         /\ parsed' \in 0..MaxLines /\ bad' \in 0..MaxLines
         /\ parsed' + bad' <= total' /\ parsed' + bad' <= MaxLines
         /\ whole' \in BOOLEAN /\ reader' \in {"loop", "detect"}
         /\ reader' = "detect" => whole'
         /\ reader' = "loop" => total' <= MaxLines
<1> USE LogInputAssumption
<1>1. /\ total \in 0..MaxLines /\ parsed \in 0..MaxLines /\ bad \in 0..MaxLines
      /\ parsed + bad <= total
  BY DEF IInv, TypeOK, CountInv, LinesAddUp
<1>2. CASE total' > MaxLines
  BY <1>1, <1>2 DEF TakeLine
<1>3. CASE ~(total' > MaxLines)
  <2>1. total' = total + 1 /\ total' \in 0..MaxLines
    BY <1>1, <1>3 DEF TakeLine
  <2>2. \/ parsed' = parsed /\ bad' = bad
        \/ parsed' = parsed + 1 /\ bad' = bad
        \/ bad' = bad + 1 /\ parsed' = parsed
    BY <1>3 DEF TakeLine
  <2>3. reader' = (IF last THEN "detect" ELSE "loop") /\ whole' = last
    BY <1>3 DEF TakeLine
  <2> QED
    BY <1>1, <2>1, <2>2, <2>3
<1> QED
  BY <1>2, <1>3

\* No step leaves the types.
LEMMA TypeStep == IInv /\ [Next]_vars => TypeOK'
<1> SUFFICES ASSUME IInv, [Next]_vars PROVE TypeOK'
  OBVIOUS
<1> USE LogInputAssumption DEF IInv, TypeOK, Error, counters, Return
<1>1. CASE ReadLine \/ SkipRest \/ ReadEOF
  <2>1. CASE ReadLine
    BY <1>1, <2>1, TakeLineCounts DEF ReadLine
  <2>2. CASE SkipRest
    BY <2>2, TakeLineCounts DEF SkipRest
  <2>3. CASE ReadEOF
    <3>1. CASE reader = "skip" /\ TakeLine(TRUE)
      <4>1. /\ total' \in 0..(MaxLines + 1) /\ parsed' \in 0..MaxLines
            /\ bad' \in 0..MaxLines /\ whole' \in BOOLEAN /\ reader' \in {"loop", "detect"}
        BY <3>1, TakeLineCounts
      <4> QED
        BY <2>3, <4>1 DEF ReadEOF
    <3>2. CASE reader = "read" /\ reader' = "detect" /\ whole' = TRUE
               /\ UNCHANGED <<total, parsed, bad>>
      BY <2>3, <3>2 DEF ReadEOF
    <3> QED
      BY <2>3, <3>1, <3>2 DEF ReadEOF
  <2> QED
    BY <1>1, <2>1, <2>2, <2>3
<1>2. CASE ReadLongLine
  <2>1. outcome = "none" /\ cut <= total /\ total <= MaxLines
    BY <1>2 DEF ReadLongLine, CountInv, LinesAddUp, OutcomeInv
  <2>2. cut' \in 0..(MaxLines + 1)
    BY <1>2, <2>1 DEF ReadLongLine
  <2> QED
    BY <1>2, <2>2 DEF ReadLongLine
<1>3. CASE ReadFails("read") \/ DeadlinePasses \/ CheckContext \/ Detect
  BY <1>3 DEF ReadFails, DeadlinePasses, CheckContext, Detect
<1>4. CASE Prepare \/ StopDeadline
  BY <1>4 DEF Prepare, StopDeadline, Answer
<1>5. CASE AnswerDeadline \/ Select
  BY <1>5 DEF AnswerDeadline, Select, Answer, Translate
<1>6. CASE Exit
  <2>1. exit' = 0 \/ exit' = 1 \/ exit' = 2
    BY <1>6 DEF Exit
  <2>2. exit' \in {-1, 0, 1, 2}
    BY <2>1
  <2>3. /\ main' = "done"
        /\ UNCHANGED <<result, reader, outcome, supply, whole, counters, ended, after, deadline>>
    BY <1>6 DEF Exit
  <2> QED
    BY <2>2, <2>3
<1>7. CASE AfterStarts \/ SetDeadline \/ Send \/ ContextEnds
  <2>1. CASE AfterStarts
    BY <2>1 DEF AfterStarts
  <2>2. CASE SetDeadline
    <3>1. after' \in {"set", "failed"} /\ deadline' \in BOOLEAN
      BY <2>2 DEF SetDeadline
    <3> QED
      BY <2>2, <3>1 DEF SetDeadline
  <2>3. CASE Send
    BY <2>3 DEF Send
  <2>4. CASE ContextEnds
    BY <2>4 DEF ContextEnds
  <2> QED
    BY <1>7, <2>1, <2>2, <2>3, <2>4
<1>8. CASE UNCHANGED vars
  BY <1>8 DEF vars
<1> QED
  BY <1>1, <1>2, <1>3, <1>4, <1>5, <1>6, <1>7, <1>8
     DEF Next, Main, Analysis, Input, Exited

\* Main, the reader and the function of AfterFunc stay in step.
LEMMA ControlStep == IInv /\ [Next]_vars => ControlInv'
<1> SUFFICES ASSUME IInv, [Next]_vars PROVE ControlInv'
  OBVIOUS
<1> USE DEF IInv, ControlInv, NoLateDeadline, counters, Return
<1>1. CASE Analysis \/ Input
  BY <1>1 DEF Analysis, Input, CheckContext, DeadlinePasses, ReadFails, Detect,
              ReadLine, ReadLongLine, SkipRest, ReadEOF, TakeLine
<1>2. CASE Prepare \/ StopDeadline
  BY <1>2 DEF Prepare, StopDeadline, Answer
<1>3. CASE AnswerDeadline
  BY <1>3 DEF AnswerDeadline, Answer, Translate, OutcomeInv
<1>4. CASE Select
  BY <1>4 DEF Select, Answer, OutcomeInv
<1>5. CASE Exit
  BY <1>5 DEF Exit
<1>6. CASE AfterStarts \/ SetDeadline \/ Send \/ ContextEnds
  BY <1>6 DEF AfterStarts, SetDeadline, Send, ContextEnds
<1>7. CASE UNCHANGED vars
  BY <1>7 DEF vars
<1> QED
  BY <1>1, <1>2, <1>3, <1>4, <1>5, <1>6, <1>7 DEF Next, Main, Exited

\* A deadline is set only by the function of AfterFunc, and is translated.
LEMMA DeadlineStep == IInv /\ [Next]_vars => DeadlineInv'
<1> SUFFICES ASSUME IInv, [Next]_vars PROVE DeadlineInv'
  OBVIOUS
<1> USE DEF IInv, DeadlineInv, DeadlineIsHidden, counters, Return
<1>1. CASE CheckContext \/ DeadlinePasses \/ ReadFails("read") \/ Detect
  BY <1>1 DEF CheckContext, DeadlinePasses, ReadFails, Detect
<1>2. CASE ReadLine \/ ReadLongLine \/ SkipRest \/ ReadEOF
  <2>1. UNCHANGED <<result, outcome, ended, after, deadline>>
    BY <1>2 DEF ReadLine, ReadLongLine, SkipRest, ReadEOF
  <2> QED
    BY <2>1
<1>3. CASE Prepare \/ StopDeadline
  BY <1>3 DEF Prepare, StopDeadline, Answer, ControlInv
<1>4. CASE AnswerDeadline
  BY <1>4 DEF AnswerDeadline, Answer, Translate
<1>5. CASE Select
  <2>1. outcome # "deadline"
    BY <1>5 DEF Select, ControlInv
  <2> QED
    BY <1>5, <2>1 DEF Select, Answer
<1>6. CASE AfterStarts \/ SetDeadline
  BY <1>6 DEF AfterStarts, SetDeadline
<1>7. CASE Exit \/ Send \/ ContextEnds
  BY <1>7 DEF Exit, Send, ContextEnds
<1>8. CASE UNCHANGED vars
  BY <1>8 DEF vars
<1> QED
  BY <1>1, <1>2, <1>3, <1>4, <1>5, <1>6, <1>7, <1>8
     DEF Next, Main, Analysis, Input, Exited

\* A report is made of a whole log, and passed on unchanged.
LEMMA OutcomeStep == IInv /\ [Next]_vars => OutcomeInv'
<1> SUFFICES ASSUME IInv, [Next]_vars PROVE OutcomeInv'
  OBVIOUS
<1> USE DEF IInv, OutcomeInv, counters, Return
<1>1. CASE CheckContext \/ DeadlinePasses \/ ReadFails("read") \/ Detect
  BY <1>1 DEF CheckContext, DeadlinePasses, ReadFails, Detect
<1>2. CASE ReadLine \/ SkipRest \/ ReadEOF
  BY <1>2, TakeLineCounts DEF ReadLine, SkipRest, ReadEOF
<1>3. CASE ReadLongLine
  BY <1>3 DEF ReadLongLine
<1>4. CASE Prepare \/ StopDeadline
  BY <1>4 DEF Prepare, StopDeadline, Answer, ControlInv
<1>5. CASE AnswerDeadline
  <2>1. exit' = -1 /\ (result' = "report" => outcome = "report")
    BY <1>5 DEF AnswerDeadline, Answer, Translate, ControlInv
  <2> QED
    BY <1>5, <2>1 DEF AnswerDeadline
<1>6. CASE Select
  <2>1. exit' = -1 /\ (result' = "report" => outcome = "report")
    BY <1>6 DEF Select, Answer, ControlInv
  <2> QED
    BY <1>6, <2>1 DEF Select
<1>7. CASE Exit
  BY <1>7 DEF Exit
<1>8. CASE AfterStarts \/ SetDeadline \/ Send \/ ContextEnds
  BY <1>8 DEF AfterStarts, SetDeadline, Send, ContextEnds
<1>9. CASE UNCHANGED vars
  BY <1>9 DEF vars
<1> QED
  BY <1>1, <1>2, <1>3, <1>4, <1>5, <1>6, <1>7, <1>8, <1>9
     DEF Next, Main, Analysis, Input, Exited

\* The numbers of the report agree after every step.
LEMMA CountStep == IInv /\ [Next]_vars => CountInv'
<1> SUFFICES ASSUME IInv, [Next]_vars PROVE CountInv'
  OBVIOUS
<1> USE LogInputAssumption DEF IInv, CountInv, LinesAddUp, counters, Return
<1>1. CASE CheckContext \/ Detect
  BY <1>1 DEF CheckContext, Detect, OutcomeInv, Error
<1>2. CASE DeadlinePasses \/ ReadFails("read")
  BY <1>2 DEF DeadlinePasses, ReadFails, Error
<1>3. CASE ReadLine \/ SkipRest \/ ReadEOF
  <2>1. CASE UNCHANGED <<reader, total, parsed, bad>>
    BY <1>3, <2>1 DEF ReadLine, SkipRest, ReadEOF, TakeLine
  <2>2. CASE reader = "read" /\ reader' = "detect" /\ UNCHANGED <<total, parsed, bad, cut, outcome>>
    BY <2>2 DEF OutcomeInv, Error
  <2>3. CASE /\ reader \in {"read", "skip"} /\ UNCHANGED <<cut, outcome>>
             /\ \E last \in BOOLEAN : TakeLine(last)
    BY <2>3, TakeLineCounts DEF TypeOK
  <2> QED
    BY <1>3, <2>1, <2>2, <2>3 DEF ReadLine, SkipRest, ReadEOF
<1>4. CASE ReadLongLine
  <2>1. outcome = "none" /\ cut <= total
    BY <1>4 DEF ReadLongLine, OutcomeInv, Error
  <2> QED
    BY <1>4, <2>1 DEF ReadLongLine, TypeOK
<1>5. CASE Main
  <2>1. UNCHANGED <<total, parsed, bad, cut, outcome>>
    BY <1>5 DEF Main, Prepare, StopDeadline, AnswerDeadline, Select, Exit, Answer
  <2>2. reader' = reader \/ (reader = "idle" /\ reader' = "loop")
    <3>1. CASE Prepare
      BY <3>1 DEF Prepare, Answer, ControlInv
    <3>2. CASE StopDeadline \/ AnswerDeadline \/ Select \/ Exit
      BY <3>2 DEF StopDeadline, AnswerDeadline, Select, Exit
    <3> QED
      BY <1>5, <3>1, <3>2 DEF Main
  <2> QED
    BY <2>1, <2>2
<1>6. CASE AfterStarts \/ SetDeadline \/ Send \/ ContextEnds
  BY <1>6 DEF AfterStarts, SetDeadline, Send, ContextEnds
<1>7. CASE UNCHANGED vars
  BY <1>7 DEF vars
<1> QED
  BY <1>1, <1>2, <1>3, <1>4, <1>5, <1>6, <1>7 DEF Next, Analysis, Input, Exited
-----------------------------------------------------------------------------
(* The theorems.                                                           *)

\* The inductive invariant: every step of the command keeps it.
LEMMA StepInv == IInv /\ [Next]_vars => IInv'
  BY TypeStep, ControlStep, DeadlineStep, OutcomeStep, CountStep DEF IInv

\* It holds throughout, whatever the fairness.
LEMMA Invariance == Spec => []IInv
  BY InitInv, StepInv, PTL DEF Spec

\* Types, and with them the bounds: one line more than the limit is read at
\* most, and the parsed lines are never more than the limit.
THEOREM TypeCorrect == Spec => []TypeOK
<1>1. IInv => TypeOK
  BY DEF IInv
<1> QED
  BY <1>1, Invariance, PTL

\* No end of the context, no read error and no race of the two goroutines
\* leaves a verdict on a part of the log.
THEOREM ReportIsWhole == Spec => []NoPartialReport
<1>1. IInv => NoPartialReport
  BY DEF IInv, OutcomeInv, NoPartialReport
<1> QED
  BY <1>1, Invariance, PTL

\* The error of the deadline that wakes a blocked read never gets out.
THEOREM DeadlineHidden == Spec => []DeadlineIsHidden
<1>1. IInv => DeadlineIsHidden
  BY DEF IInv, DeadlineInv
<1> QED
  BY <1>1, Invariance, PTL

\* Once the command has its answer no function is left that would still set
\* a deadline on the input.
THEOREM AfterFuncIsOver == Spec => []NoLateDeadline
<1>1. IInv => NoLateDeadline
  BY DEF IInv, ControlInv
<1> QED
  BY <1>1, Invariance, PTL

\* The counters of the report agree, with the line cut and the line over the
\* limit taken into account.
THEOREM CountersAgree == Spec => []LinesAddUp
<1>1. IInv => LinesAddUp
  BY DEF IInv, CountInv
<1> QED
  BY <1>1, Invariance, PTL
=============================================================================
