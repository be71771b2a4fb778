--------------------------- MODULE EdgeAgentProofs ---------------------------
(***************************************************************************)
(* What holds of the edge agent for any numbers of segments, launches,     *)
(* failures and deaths.                                                    *)
(***************************************************************************)
EXTENDS EdgeAgent, TLAPS

\* What the segments loop holds and what it just sent are still there.
BatchThere ==
    /\ batch \cup sent \subseteq Files
    /\ batch \cap sent = {}
    /\ sent # {} => pc \in {"unlink", "reunlink", "dead"}

\* What was sent is stored, unless a later launch wrote over it.
SentStored == \A n \in sent : At(n) \in stored \/ dir[n] > 1

\* The clean-up accounts for each file that is left.
Accounted ==
    pc \in {"remaining", "reunlink"} =>
        /\ ~ffmpeg
        /\ \A n \in Files : n \in batch \cup sent \/ At(n) \in failed

\* The file that is written is the last launch's; the first launch wrote no
\* number above cur, and the loop holds only lower ones.
Written ==
    /\ \A n \in Number : dir[n] <= launch
    /\ ffmpeg => launch > 0 /\ dir[cur] \in {None, launch}
    /\ launch <= 1 => \A n \in Files : n <= cur
    /\ launch <= 1 /\ pc \in {"segments", "unlink"} => \A n \in batch : n < cur

IInv == TypeOK /\ BatchThere /\ SentStored /\ Accounted /\ Written
        /\ NothingDropped /\ FinishedAtFirst

LEMMA FileRecorded ==
  ASSUME TypeOK, NEW n \in Number, dir[n] # None
  PROVE  At(n) \in Recording
BY EdgeAssumption DEF TypeOK, Number, Recording, At, None

LEMMA Types == TypeOK /\ BatchThere /\ [Next]_vars => TypeOK'
<1> SUFFICES ASSUME TypeOK, BatchThere, [Next]_vars PROVE TypeOK'
  OBVIOUS
<1>a. \A n \in Files : At(n) \in Recording
  BY FileRecorded DEF Files
<1>b. batch \subseteq Files /\ sent \subseteq Files
  BY DEF BatchThere
<1>c. Files \subseteq Number
  BY DEF Files
<1> USE EdgeAssumption DEF TypeOK, recorder, bounds, history
<1>1. CASE NextSegment
  <2>1. cur + 1 \in Number /\ launch \in 0..MaxLaunch
    BY <1>1 DEF NextSegment, Number
  <2>2. dir' = [dir EXCEPT ![cur + 1] = launch] /\ over' \subseteq Recording
    BY <1>1, <1>a, <2>1 DEF NextSegment, Open, Files
  <2> QED
    BY <1>1, <2>1, <2>2 DEF NextSegment
<1>2. CASE Exit
  BY <1>2 DEF Exit
<1>3. CASE Signal
  BY <1>3 DEF Signal
<1>4. CASE Crash
  <2>1. crashes' \in 0..MaxCrashes
    BY <1>4 DEF Crash
  <2> QED
    BY <1>4, <2>1 DEF Crash
<1>5. CASE Restart
  <2>1. attempt' \in 0..(MaxAttempts - 1) /\ index' \in Number
    BY <1>5 DEF Restart, Number
  <2> QED
    BY <1>5, <2>1 DEF Restart
<1>6. CASE UNCHANGED vars
  BY <1>6 DEF vars
<1>7. ASSUME NEW to \in {"loop", "collect"}, NEW from \in {"start", "reconnect"},
             Launch(from, to)
      PROVE  TypeOK'
  <2>1. 0 \in Number /\ launch + 1 \in 0..MaxLaunch
    BY <1>7 DEF Launch, Number
  <2>2. dir' = [dir EXCEPT ![0] = launch + 1] /\ over' \subseteq Recording
    BY <1>7, <1>a, <2>1 DEF Launch, Open, Files
  <2> QED
    BY <1>7, <2>1, <2>2 DEF Launch
<1>8. ASSUME NEW to \in {"cleanup", "collect"}, NEW from \in {"start", "reconnect"},
             LaunchFails(from, to)
      PROVE  TypeOK'
  BY <1>8 DEF LaunchFails
<1>9. CASE Monitor
  BY <1>9 DEF Monitor
<1>10. CASE Collect
  BY <1>10, <1>c DEF Collect, Completed
<1>11. ASSUME NEW n \in batch, NEW to \in {"unlink", "reunlink"}, Upload(n, to)
       PROVE  TypeOK'
  BY <1>11, <1>a, <1>b, <1>c DEF Upload
<1>12. ASSUME NEW n \in batch, UploadFails(n)
       PROVE  TypeOK'
  BY <1>12, <1>a, <1>b DEF UploadFails
<1>13. CASE SegmentsEnd
  BY <1>13 DEF SegmentsEnd
<1>14. ASSUME NEW to \in {"segments", "remaining"}, NEW from \in {"unlink", "reunlink"},
              Unlink(from, to)
       PROVE  TypeOK'
  BY <1>14, <1>a, <1>b DEF Unlink, None
<1>15. CASE Cleanup
  BY <1>15, <1>c DEF Cleanup
<1>16. CASE RemoveDir
  BY <1>16, <1>a DEF RemoveDir, None
<1> QED
  BY <1>1, <1>2, <1>3, <1>4, <1>5, <1>6, <1>7, <1>8, <1>9, <1>10, <1>11, <1>12, <1>13,
     <1>14, <1>15, <1>16
  DEF Next, Agent, Start, Reconnect, Segments, Remaining
LEMMA BatchKept ==
  ASSUME TypeOK, Written, BatchThere, [Next]_vars
  PROVE  BatchThere'
<1> USE EdgeAssumption DEF TypeOK, Written, BatchThere, Files, Number, None, recorder, bounds, history
<1>1. CASE NextSegment
  BY <1>1 DEF NextSegment, Open
<1>2. CASE Exit
  BY <1>2 DEF Exit
<1>3. CASE Signal
  BY <1>3 DEF Signal
<1>4. CASE Crash
  BY <1>4 DEF Crash
<1>5. CASE Restart
  BY <1>5 DEF Restart
<1>6. CASE UNCHANGED vars
  BY <1>6 DEF vars
<1>7. ASSUME NEW to \in {"loop", "collect"}, NEW from \in {"start", "reconnect"},
             Launch(from, to)
      PROVE  BatchThere'
  BY <1>7 DEF Launch, Open
<1>8. ASSUME NEW to \in {"cleanup", "collect"}, NEW from \in {"start", "reconnect"},
             LaunchFails(from, to)
      PROVE  BatchThere'
  BY <1>8 DEF LaunchFails
<1>9. CASE Monitor
  BY <1>9 DEF Monitor
<1>10. CASE Collect
  BY <1>10 DEF Collect, Completed
<1>11. CASE Segments
  BY <1>11 DEF Segments, Upload, UploadFails
<1>12. CASE SegmentsEnd
  BY <1>12 DEF SegmentsEnd
<1>13. ASSUME Unlink("unlink", "segments") \/ Unlink("reunlink", "remaining")
      PROVE  BatchThere'
  BY <1>13 DEF Unlink
<1>14. CASE Cleanup
  BY <1>14 DEF Cleanup
<1>15. CASE Remaining
  BY <1>15 DEF Remaining, Upload, UploadFails
<1>16. CASE RemoveDir
  BY <1>16 DEF RemoveDir
<1> QED
  BY <1>1, <1>2, <1>3, <1>4, <1>5, <1>6, <1>7, <1>8,
     <1>9, <1>10, <1>11, <1>12, <1>13, <1>14, <1>15, <1>16
  DEF Next, Agent, Start, Reconnect

LEMMA WrittenKept ==
  ASSUME TypeOK, BatchThere, Written, [Next]_vars
  PROVE  Written'
<1> USE EdgeAssumption DEF TypeOK, Written, BatchThere, Files, Number, None, recorder, bounds, history
<1>1. CASE NextSegment
  BY <1>1 DEF NextSegment, Open
<1>2. CASE Exit
  BY <1>2 DEF Exit
<1>3. CASE Signal
  BY <1>3 DEF Signal
<1>4. CASE Crash
  BY <1>4 DEF Crash
<1>5. CASE Restart
  BY <1>5 DEF Restart
<1>6. CASE UNCHANGED vars
  BY <1>6 DEF vars
<1>7. ASSUME NEW to \in {"loop", "collect"}, NEW from \in {"start", "reconnect"},
             Launch(from, to)
      PROVE  Written'
  BY <1>7 DEF Launch, Open
<1>8. ASSUME NEW to \in {"cleanup", "collect"}, NEW from \in {"start", "reconnect"},
             LaunchFails(from, to)
      PROVE  Written'
  BY <1>8 DEF LaunchFails
<1>9. CASE Monitor
  BY <1>9 DEF Monitor
<1>10. CASE Collect
  BY <1>10 DEF Collect, Completed
<1>11. CASE Segments
  <2>1. UNCHANGED <<dir, ffmpeg, cur, launch>> /\ batch' \subseteq batch
    BY <1>11 DEF Segments, Upload, UploadFails
  <2> QED
    BY <1>11, <2>1 DEF Segments
<1>12. CASE SegmentsEnd
  BY <1>12 DEF SegmentsEnd
<1>13. ASSUME Unlink("unlink", "segments") \/ Unlink("reunlink", "remaining")
      PROVE  Written'
  <2>1. \A n \in Number : dir'[n] \in {dir[n], 0}
    BY <1>13 DEF Unlink
  <2>2. UNCHANGED <<ffmpeg, cur, launch, batch>>
    BY <1>13 DEF Unlink
  <2>3. pc' \in {"segments", "unlink"} => pc = "unlink"
    BY <1>13 DEF Unlink
  <2>4. cur \in Number /\ batch \subseteq Number /\ launch \in Nat
    OBVIOUS
  <2> QED
    BY <2>1, <2>2, <2>3, <2>4
<1>14. CASE Cleanup
  BY <1>14 DEF Cleanup
<1>15. CASE Remaining
  <2>1. UNCHANGED <<dir, ffmpeg, cur, launch>> /\ batch' \subseteq batch
    BY <1>15 DEF Remaining, Upload, UploadFails
  <2>2. pc' \in {"remaining", "reunlink"}
    BY <1>15 DEF Remaining, Upload, UploadFails
  <2> QED
    BY <2>1, <2>2
<1>16. CASE RemoveDir
  BY <1>16 DEF RemoveDir
<1> QED
  BY <1>1, <1>2, <1>3, <1>4, <1>5, <1>6, <1>7, <1>8,
     <1>9, <1>10, <1>11, <1>12, <1>13, <1>14, <1>15, <1>16
  DEF Next, Agent, Start, Reconnect

LEMMA SentKept ==
  ASSUME TypeOK, BatchThere, Written, SentStored, [Next]_vars
  PROVE  SentStored'
<1> USE EdgeAssumption DEF TypeOK, Written, BatchThere, SentStored, Files, Number, None, At, recorder, bounds, history
<1>1. CASE NextSegment
  BY <1>1 DEF NextSegment, Open
<1>2. CASE Exit
  BY <1>2 DEF Exit
<1>3. CASE Signal
  BY <1>3 DEF Signal
<1>4. CASE Crash
  BY <1>4 DEF Crash
<1>5. CASE Restart
  BY <1>5 DEF Restart
<1>6. CASE UNCHANGED vars
  BY <1>6 DEF vars
<1>7. ASSUME NEW to \in {"loop", "collect"}, NEW from \in {"start", "reconnect"},
             Launch(from, to)
      PROVE  SentStored'
  BY <1>7 DEF Launch, Open
<1>8. ASSUME NEW to \in {"cleanup", "collect"}, NEW from \in {"start", "reconnect"},
             LaunchFails(from, to)
      PROVE  SentStored'
  BY <1>8 DEF LaunchFails
<1>9. CASE Monitor
  BY <1>9 DEF Monitor
<1>10. CASE Collect
  BY <1>10 DEF Collect, Completed
<1>11. CASE Segments
  BY <1>11 DEF Segments, Upload, UploadFails
<1>12. CASE SegmentsEnd
  BY <1>12 DEF SegmentsEnd
<1>13. ASSUME Unlink("unlink", "segments") \/ Unlink("reunlink", "remaining")
      PROVE  SentStored'
  BY <1>13 DEF Unlink
<1>14. CASE Cleanup
  BY <1>14 DEF Cleanup
<1>15. CASE Remaining
  BY <1>15 DEF Remaining, Upload, UploadFails
<1>16. CASE RemoveDir
  BY <1>16 DEF RemoveDir
<1> QED
  BY <1>1, <1>2, <1>3, <1>4, <1>5, <1>6, <1>7, <1>8,
     <1>9, <1>10, <1>11, <1>12, <1>13, <1>14, <1>15, <1>16
  DEF Next, Agent, Start, Reconnect

LEMMA AccountedKept ==
  ASSUME TypeOK, BatchThere, Written, Accounted, [Next]_vars
  PROVE  Accounted'
<1> USE EdgeAssumption DEF TypeOK, Written, BatchThere, Accounted, Files, Number, None, At, recorder, bounds, history
<1>1. CASE NextSegment
  BY <1>1 DEF NextSegment, Open
<1>2. CASE Exit
  BY <1>2 DEF Exit
<1>3. CASE Signal
  BY <1>3 DEF Signal
<1>4. CASE Crash
  BY <1>4 DEF Crash
<1>5. CASE Restart
  BY <1>5 DEF Restart
<1>6. CASE UNCHANGED vars
  BY <1>6 DEF vars
<1>7. ASSUME NEW to \in {"loop", "collect"}, NEW from \in {"start", "reconnect"},
             Launch(from, to)
      PROVE  Accounted'
  BY <1>7 DEF Launch, Open
<1>8. ASSUME NEW to \in {"cleanup", "collect"}, NEW from \in {"start", "reconnect"},
             LaunchFails(from, to)
      PROVE  Accounted'
  BY <1>8 DEF LaunchFails
<1>9. CASE Monitor
  BY <1>9 DEF Monitor
<1>10. CASE Collect
  BY <1>10 DEF Collect, Completed
<1>11. CASE Segments
  BY <1>11 DEF Segments, Upload, UploadFails
<1>12. CASE SegmentsEnd
  BY <1>12 DEF SegmentsEnd
<1>13. ASSUME Unlink("unlink", "segments") \/ Unlink("reunlink", "remaining")
      PROVE  Accounted'
  BY <1>13 DEF Unlink
<1>14. CASE Cleanup
  BY <1>14 DEF Cleanup
<1>15. CASE Remaining
  BY <1>15 DEF Remaining, Upload, UploadFails
<1>16. CASE RemoveDir
  BY <1>16 DEF RemoveDir
<1> QED
  BY <1>1, <1>2, <1>3, <1>4, <1>5, <1>6, <1>7, <1>8,
     <1>9, <1>10, <1>11, <1>12, <1>13, <1>14, <1>15, <1>16
  DEF Next, Agent, Start, Reconnect

LEMMA DroppedKept ==
  ASSUME TypeOK, BatchThere, Written, SentStored, Accounted, NothingDropped, [Next]_vars
  PROVE  NothingDropped'
<1> USE EdgeAssumption DEF TypeOK, Written, BatchThere, SentStored, Accounted, NothingDropped, Files, Number, None, At, recorder, bounds, history
<1>1. CASE NextSegment
  BY <1>1 DEF NextSegment, Open
<1>2. CASE Exit
  BY <1>2 DEF Exit
<1>3. CASE Signal
  BY <1>3 DEF Signal
<1>4. CASE Crash
  BY <1>4 DEF Crash
<1>5. CASE Restart
  BY <1>5 DEF Restart
<1>6. CASE UNCHANGED vars
  BY <1>6 DEF vars
<1>7. ASSUME NEW to \in {"loop", "collect"}, NEW from \in {"start", "reconnect"},
             Launch(from, to)
      PROVE  NothingDropped'
  BY <1>7 DEF Launch, Open
<1>8. ASSUME NEW to \in {"cleanup", "collect"}, NEW from \in {"start", "reconnect"},
             LaunchFails(from, to)
      PROVE  NothingDropped'
  BY <1>8 DEF LaunchFails
<1>9. CASE Monitor
  BY <1>9 DEF Monitor
<1>10. CASE Collect
  BY <1>10 DEF Collect, Completed
<1>11. CASE Segments
  BY <1>11 DEF Segments, Upload, UploadFails
<1>12. CASE SegmentsEnd
  BY <1>12 DEF SegmentsEnd
<1>13. ASSUME Unlink("unlink", "segments") \/ Unlink("reunlink", "remaining")
      PROVE  NothingDropped'
  BY <1>13 DEF Unlink
<1>14. CASE Cleanup
  BY <1>14 DEF Cleanup
<1>15. CASE Remaining
  BY <1>15 DEF Remaining, Upload, UploadFails
<1>16. CASE RemoveDir
  BY <1>16 DEF RemoveDir
<1> QED
  BY <1>1, <1>2, <1>3, <1>4, <1>5, <1>6, <1>7, <1>8,
     <1>9, <1>10, <1>11, <1>12, <1>13, <1>14, <1>15, <1>16
  DEF Next, Agent, Start, Reconnect

LEMMA PartKept ==
  ASSUME TypeOK, BatchThere, Written, Accounted, FinishedAtFirst, [Next]_vars
  PROVE  FinishedAtFirst'
<1> USE EdgeAssumption DEF TypeOK, Written, BatchThere, Accounted, FinishedAtFirst, Files, Number, None, At, recorder, bounds, history
<1>1. CASE NextSegment
  BY <1>1 DEF NextSegment, Open
<1>2. CASE Exit
  BY <1>2 DEF Exit
<1>3. CASE Signal
  BY <1>3 DEF Signal
<1>4. CASE Crash
  BY <1>4 DEF Crash
<1>5. CASE Restart
  BY <1>5 DEF Restart
<1>6. CASE UNCHANGED vars
  BY <1>6 DEF vars
<1>7. ASSUME NEW to \in {"loop", "collect"}, NEW from \in {"start", "reconnect"},
             Launch(from, to)
      PROVE  FinishedAtFirst'
  BY <1>7 DEF Launch, Open
<1>8. ASSUME NEW to \in {"cleanup", "collect"}, NEW from \in {"start", "reconnect"},
             LaunchFails(from, to)
      PROVE  FinishedAtFirst'
  BY <1>8 DEF LaunchFails
<1>9. CASE Monitor
  BY <1>9 DEF Monitor
<1>10. CASE Collect
  BY <1>10 DEF Collect, Completed
<1>11. CASE Segments
  BY <1>11 DEF Segments, Upload, UploadFails
<1>12. CASE SegmentsEnd
  BY <1>12 DEF SegmentsEnd
<1>13. ASSUME Unlink("unlink", "segments") \/ Unlink("reunlink", "remaining")
      PROVE  FinishedAtFirst'
  BY <1>13 DEF Unlink
<1>14. CASE Cleanup
  BY <1>14 DEF Cleanup
<1>15. CASE Remaining
  BY <1>15 DEF Remaining, Upload, UploadFails
<1>16. CASE RemoveDir
  BY <1>16 DEF RemoveDir
<1> QED
  BY <1>1, <1>2, <1>3, <1>4, <1>5, <1>6, <1>7, <1>8,
     <1>9, <1>10, <1>11, <1>12, <1>13, <1>14, <1>15, <1>16
  DEF Next, Agent, Start, Reconnect

LEMMA InitHolds == Init => IInv
<1> SUFFICES ASSUME Init PROVE IInv
  OBVIOUS
<1>1. 0 \in Number /\ 0 \in 0..(MaxAttempts - 1)
  BY EdgeAssumption DEF Number
<1>2. TypeOK
  <2>1. dir \in [Number -> 0..MaxLaunch] /\ launch \in 0..MaxLaunch
    BY EdgeAssumption DEF Init, None
  <2>2. fails \in 0..MaxFails /\ crashes \in 0..MaxCrashes
    BY EdgeAssumption DEF Init
  <2> QED
    BY <1>1, <2>1, <2>2 DEF Init, TypeOK
<1> QED
  BY <1>2 DEF Init, IInv, BatchThere, SentStored, Accounted, Written, NothingDropped,
              FinishedAtFirst, Files, None

LEMMA StepKeeps == IInv /\ [Next]_vars => IInv'
  BY Types, BatchKept, WrittenKept, SentKept, AccountedKept, DroppedKept, PartKept
  DEF IInv

\* The agent's variables keep their types: the attempts stay below their number
\* and the collected number is one that was recorded.
THEOREM Typed == Spec => []TypeOK
<1>1. IInv => TypeOK
  BY DEF IInv
<1> QED BY <1>1, InitHolds, StepKeeps, PTL DEF Spec

\* However long the agent runs, and whenever it or its uploads fail, a segment
\* of the first launch is removed only when it is stored or was given up by the
\* clean-up.
THEOREM DropsNothing == Spec => []NothingDropped
<1>1. IInv => NothingDropped
  BY DEF IInv
<1> QED BY <1>1, InitHolds, StepKeeps, PTL DEF Spec

\* Until ffmpeg is launched again, no segment is sent while it is written.
THEOREM SendsFinished == Spec => []FinishedAtFirst
<1>1. IInv => FinishedAtFirst
  BY DEF IInv
<1> QED BY <1>1, InitHolds, StepKeeps, PTL DEF Spec
=============================================================================
