------------------------------ MODULE EdgeAgent ------------------------------
(***************************************************************************)
(* The edge agent of packages/rslstudio-edge: ffmpeg records a stream into *)
(* numbered segment files, the agent uploads the finished ones, removes    *)
(* them, and restarts ffmpeg when it exits.                                *)
(*                                                                         *)
(* Two processes share the working directory, which only their numbers     *)
(* keep apart: ffmpeg counts from 0 whenever it is launched, the agent     *)
(* remembers the highest number that it collected.  The directory is named *)
(* after the mission; it outlives an agent that dies.                      *)
(***************************************************************************)
EXTENDS Naturals

CONSTANTS
    MaxSegment,   \* bound: the highest number of a segment
    MaxLaunch,    \* bound: launches of ffmpeg
    MaxAttempts,  \* attempts to launch it (20 in the code)
    MaxFails,     \* bound: uploads that fail
    MaxCrashes    \* bound: deaths of the host

ASSUME EdgeAssumption ==
    /\ MaxSegment \in Nat /\ MaxLaunch \in Nat
    /\ MaxAttempts \in Nat \ {0}
    /\ MaxFails \in Nat /\ MaxCrashes \in Nat

Number == 0..MaxSegment
None   == 0

\* A recording is known by the launch that made it and its number.
Recording == (1..MaxLaunch) \X Number

VARIABLES
    dir,        \* the launch that wrote seg_n.mp4, or None
    ffmpeg,     \* is it running?
    cur,        \* the number of the file it writes
    launch,     \* launches so far
    pc,
    stop,       \* _stop
    attempt,    \* failed attempts of the launch under way
    index,      \* _segment_index
    batch,      \* segments that the loop over them has not reached
    sent,       \* the recording whose upload succeeded, to be unlinked; or {}
    fails, crashes,
    \* history
    stored,     \* recordings that were uploaded,
    part,       \* and those of them that were uploaded while being written
    over,       \* recordings that a later launch wrote over
    failed,     \* recordings whose upload failed in the clean-up
    dropped     \* recordings that were unlinked or removed with the directory

vars == <<dir, ffmpeg, cur, launch, pc, stop, attempt, index, batch, sent,
          fails, crashes, stored, part, over, failed, dropped>>
recorder == <<ffmpeg, cur, launch>>
bounds   == <<fails, crashes>>
history  == <<stored, part, over, failed, dropped>>

Files == {n \in Number : dir[n] # None}
At(n) == <<dir[n], n>>

TypeOK ==
    /\ dir \in [Number -> 0..MaxLaunch]
    /\ ffmpeg \in BOOLEAN /\ cur \in Number /\ launch \in 0..MaxLaunch
    /\ pc \in {"start", "loop", "reconnect", "collect", "segments", "unlink",
               "cleanup", "remaining", "reunlink", "done", "dead"}
    /\ stop \in BOOLEAN
    /\ attempt \in 0..(MaxAttempts - 1)
    /\ index \in Number
    /\ batch \subseteq Number /\ sent \subseteq Number
    /\ fails \in 0..MaxFails /\ crashes \in 0..MaxCrashes
    /\ stored \subseteq Recording /\ part \subseteq stored
    /\ over \subseteq Recording /\ failed \subseteq Recording
    /\ dropped \subseteq Recording

Init ==
    /\ dir = [n \in Number |-> None]
    /\ ffmpeg = FALSE /\ cur = 0 /\ launch = 0
    /\ pc = "start" /\ stop = FALSE
    /\ attempt = 0 /\ index = 0 /\ batch = {} /\ sent = {}
    /\ fails = 0 /\ crashes = 0
    /\ stored = {} /\ part = {} /\ over = {} /\ failed = {} /\ dropped = {}

-----------------------------------------------------------------------------
(***************************************************************************)
(* ffmpeg -f segment seg_%06d.mp4                                          *)
(***************************************************************************)
\* It opens segment n, and truncates a file of that name.
Open(n, l) ==
    /\ dir' = [dir EXCEPT ![n] = l]
    /\ over' = IF dir[n] = None THEN over ELSE over \cup {At(n)}

\* One segment is finished, the next begun.
NextSegment ==
    /\ ffmpeg /\ cur < MaxSegment
    /\ cur' = cur + 1
    /\ Open(cur + 1, launch)
    /\ UNCHANGED <<ffmpeg, launch, pc, stop, attempt, index, batch, sent, bounds,
                   stored, part, failed, dropped>>

\* The source is gone.
Exit ==
    /\ ffmpeg /\ ffmpeg' = FALSE
    /\ UNCHANGED <<dir, cur, launch, pc, stop, attempt, index, batch, sent, bounds,
                   history>>

Launch(from, to) ==
    /\ pc = from /\ pc' = to
    /\ launch < MaxLaunch
    /\ launch' = launch + 1 /\ ffmpeg' = TRUE /\ cur' = 0
    /\ Open(0, launch + 1)
    /\ attempt' = 0
    /\ UNCHANGED <<stop, index, batch, sent, bounds, stored, part, failed, dropped>>

\* Mutant of LaunchFails: one attempt more.
LaunchFailsLate(from, to) ==
    /\ pc = from
    /\ IF attempt < MaxAttempts
       THEN attempt' = attempt + 1 /\ pc' = from
       ELSE attempt' = 0 /\ pc' = to
    /\ UNCHANGED <<dir, recorder, stop, index, batch, sent, bounds, history>>

\* Mutant of LaunchFails: the attempts are not counted.
LaunchForever(from, to) ==
    /\ pc = from /\ pc' = from
    /\ UNCHANGED <<dir, recorder, stop, attempt, index, batch, sent, bounds, history>>

\* CaptureError; after the last attempt the caller goes on.
LaunchFails(from, to) ==
    /\ pc = from
    /\ IF attempt + 1 < MaxAttempts
       THEN attempt' = attempt + 1 /\ pc' = from
       ELSE attempt' = 0 /\ pc' = to
    /\ UNCHANGED <<dir, recorder, stop, index, batch, sent, bounds, history>>

-----------------------------------------------------------------------------
(***************************************************************************)
(* EdgeAgent.run                                                           *)
(***************************************************************************)
\* capture.start raises when it cannot launch: the clean-up follows.
Start == Launch("start", "loop") \/ LaunchFails("start", "cleanup")

\* SIGINT or SIGTERM: a handler that sets _stop.
Signal ==
    /\ ~stop /\ pc \notin {"done", "dead"}
    /\ stop' = TRUE
    /\ UNCHANGED <<dir, recorder, pc, attempt, index, batch, sent, bounds, history>>

\* The loop's condition, and monitor.
Monitor ==
    /\ pc = "loop"
    /\ pc' = IF stop THEN "cleanup" ELSE IF ffmpeg THEN "collect" ELSE "reconnect"
    /\ UNCHANGED <<dir, recorder, stop, attempt, index, batch, sent, bounds, history>>

Reconnect ==
    Launch("reconnect", "collect") \/ LaunchFails("reconnect", "collect")

First(n, S) == \A m \in S : n <= m
Last(n, S)  == \A m \in S : n >= m

\* Mutant of Completed: the last file is not left out.
AllFiles == Files

\* All files but the last, which may be being written.
Completed == {n \in Files : \E m \in Files : m > n}

\* Mutant of Collect: the last file counts as collected.
CollectPast ==
    /\ pc = "collect" /\ pc' = "segments"
    /\ batch' = {n \in Completed : n > index}
    /\ \E n \in Files \cup {index} :
          Last(n, Files \cup {index}) /\ index' = n
    /\ UNCHANGED <<dir, recorder, stop, attempt, sent, bounds, history>>

\* collect_segments
Collect ==
    /\ pc = "collect" /\ pc' = "segments"
    /\ batch' = {n \in Completed : n > index}
    /\ \E n \in batch' \cup {index} :
          Last(n, batch' \cup {index}) /\ index' = n
    /\ UNCHANGED <<dir, recorder, stop, attempt, sent, bounds, history>>

\* _process_segment: the file is sent as it is, and unlinked once it is stored.
Upload(n, to) ==
    /\ stored' = stored \cup {At(n)}
    /\ part' = IF ffmpeg /\ cur = n THEN part \cup {At(n)} ELSE part
    /\ sent' = {n}
    /\ batch' = batch \ {n}
    /\ pc' = to
    /\ UNCHANGED <<dir, recorder, stop, attempt, index, bounds, over, failed, dropped>>

\* Mutant of UploadFails: the file is removed all the same (finally: unlink).
UploadFailsUnlink(n) ==
    /\ fails < MaxFails /\ fails' = fails + 1
    /\ failed' = IF pc = "remaining" THEN failed \cup {At(n)} ELSE failed
    /\ batch' = batch \ {n}
    /\ dir' = [dir EXCEPT ![n] = None]
    /\ dropped' = dropped \cup {At(n)}
    /\ UNCHANGED <<recorder, pc, stop, attempt, index, sent, crashes, stored, part,
                   over>>

UploadFails(n) ==
    /\ fails < MaxFails /\ fails' = fails + 1
    /\ failed' = IF pc = "remaining" THEN failed \cup {At(n)} ELSE failed
    /\ batch' = batch \ {n}
    /\ UNCHANGED <<dir, recorder, pc, stop, attempt, index, sent, crashes, stored,
                   part, over, dropped>>

Unlink(from, to) ==
    /\ pc = from /\ pc' = to
    /\ dir' = [n \in Number |-> IF n \in sent THEN None ELSE dir[n]]
    /\ dropped' = dropped \cup {At(n) : n \in sent}
    /\ sent' = {}
    /\ UNCHANGED <<recorder, stop, attempt, index, batch, bounds, stored, part, over,
                   failed>>

\* In order; the rest is left when _stop is set.
Segments ==
    /\ pc = "segments" /\ batch # {} /\ ~stop
    /\ \E n \in batch :
          First(n, batch) /\ (Upload(n, "unlink") \/ UploadFails(n))

SegmentsEnd ==
    /\ pc = "segments" /\ (batch = {} \/ stop)
    /\ pc' = "loop" /\ batch' = {}
    /\ UNCHANGED <<dir, recorder, stop, attempt, index, sent, bounds, history>>

\* _cleanup: ffmpeg is stopped, and every file that is left is sent.
Cleanup ==
    /\ pc = "cleanup" /\ pc' = "remaining"
    /\ ffmpeg' = FALSE
    /\ batch' = Files
    /\ UNCHANGED <<dir, cur, launch, stop, attempt, index, sent, bounds, history>>

Remaining ==
    /\ pc = "remaining" /\ batch # {}
    /\ \E n \in batch :
          First(n, batch) /\ (Upload(n, "reunlink") \/ UploadFails(n))

\* shutil.rmtree
RemoveDir ==
    /\ pc = "remaining" /\ batch = {}
    /\ pc' = "done"
    /\ dir' = [n \in Number |-> None]
    /\ dropped' = dropped \cup {At(n) : n \in Files}
    /\ UNCHANGED <<recorder, stop, attempt, index, batch, sent, bounds, stored, part,
                   over, failed>>

Agent ==
    \/ Start \/ Monitor \/ Reconnect \/ Collect \/ Segments \/ SegmentsEnd
    \/ Unlink("unlink", "segments") \/ Cleanup \/ Remaining
    \/ Unlink("reunlink", "remaining") \/ RemoveDir

-----------------------------------------------------------------------------
(***************************************************************************)
(* The host dies, and the agent is started again for the same mission.     *)
(***************************************************************************)
Crash ==
    /\ crashes < MaxCrashes /\ crashes' = crashes + 1
    /\ pc \notin {"done", "dead"} /\ pc' = "dead"
    /\ ffmpeg' = FALSE
    /\ UNCHANGED <<dir, cur, launch, stop, attempt, index, batch, sent, fails,
                   history>>

Restart ==
    /\ pc = "dead" /\ pc' = "start"
    /\ stop' = FALSE /\ attempt' = 0 /\ index' = 0 /\ batch' = {} /\ sent' = {}
    /\ UNCHANGED <<dir, recorder, bounds, history>>

-----------------------------------------------------------------------------
Next == NextSegment \/ Exit \/ Signal \/ Agent \/ Crash \/ Restart

Spec == Init /\ [][Next]_vars

\* The agent's only thread goes on; no fairness for ffmpeg, signals, deaths.
FairSpec == Spec /\ WF_vars(Agent)

-----------------------------------------------------------------------------
(***************************************************************************)
(* Safety.                                                                 *)
(***************************************************************************)
\* A recording leaves the directory only when it is stored, or when its upload
\* failed for the last time: an upload that fails in the loop is made up for by
\* the clean-up.  (Not so for a later launch, which may write over the file
\* that is just being sent and unlinked.)
NothingDropped ==
    \A r \in dropped \ stored : r \in failed \/ r[1] > 1

\* As long as ffmpeg was launched once, what is stored was finished.
FinishedAtFirst == \A r \in part : r[1] > 1

(***************************************************************************)
(* Liveness.                                                               *)
(***************************************************************************)
\* A signal ends the agent, also while it waits for the source to come back.
SignalEnds == stop ~> pc \in {"done", "dead"}

\* A finished segment of the first launch leaves the directory while the
\* recording goes on, if its upload does not fail.  (The segment 0 does not:
\* its number is not above _segment_index; it waits for the clean-up.)
FinishedLeaves ==
    \A n \in Number \ {0} :
        launch = 1 /\ n < cur /\ dir[n] = 1 ~>
            dir[n] # 1 \/ launch > 1 \/ fails > 0 \/ crashes > 0
=============================================================================
