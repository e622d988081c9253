-------------------------------- MODULE Progress --------------------------------
(***************************************************************************)
(* Progress of a long tool call: progress_reporter, with_heartbeat and     *)
(* _reap in tools/_base.py.                                                *)
(*                                                                         *)
(* The tool and its heartbeat only enqueue messages; a worker sends them   *)
(* to the client, one at a time, each send for a bounded time.  When the   *)
(* call ends, the heartbeat is reaped, the queue is flushed for a bounded  *)
(* time and the worker is reaped.  Messages are numbered as they come.     *)
(***************************************************************************)
EXTENDS Integers, Sequences, FiniteSets

CONSTANTS
  QueueMax,    \* PROGRESS_QUEUE_MAX
  MaxMessages  \* bound: how many messages a call reports

ASSUME QueueMaxType == QueueMax \in Nat \ {0}
ASSUME MaxMessagesType == MaxMessages \in Nat \ {0}

VARIABLES
  tool,        \* where the tool call is
  beat,        \* the heartbeat task
  worker,      \* the worker task
  queue,       \* the messages to send
  unfinished,  \* the queue's count of messages not yet done with, for join()
  counter,     \* the worker's progress number
  sending,     \* the message being sent
  abandoned,   \* a worker that would not end is kept referenced
  puts,        \* history: how many messages were reported
  wire,        \* history: the notifications the client got
  cutOff,      \* history: the messages whose send the reap cancelled
  cut          \* history: what did not run to its end ("flush", "reap")

vars == <<tool, beat, worker, queue, unfinished, counter, sending, abandoned,
          puts, wire, cutOff, cut>>
delivery == <<worker, counter, sending, wire, cutOff>>
reporting == <<queue, unfinished, puts>>

Messages == 1..MaxMessages
None == 0

Init ==
  /\ tool = "calling" /\ worker = "idle"
  /\ beat \in {"none", "due"}   \* only some tools have a heartbeat
  /\ queue = << >> /\ unfinished = 0 /\ counter = 0 /\ sending = None
  /\ abandoned = FALSE
  /\ puts = 0 /\ wire = << >> /\ cutOff = {} /\ cut = {}

-----------------------------------------------------------------------------
(* Reporting: never waits; a full queue loses its oldest message.           *)

(* Mutant: the dropped message stays counted.                               *)
Report_StaysCounted ==
  /\ puts' = puts + 1
  /\ unfinished' = unfinished + 1
  /\ IF Len(queue) < QueueMax
     THEN queue' = Append(queue, puts')
     ELSE queue' = Append(Tail(queue), puts')

Report ==
  /\ puts' = puts + 1
  /\ IF Len(queue) < QueueMax
     THEN /\ queue' = Append(queue, puts')
          /\ unfinished' = unfinished + 1
     ELSE /\ queue' = Append(Tail(queue), puts')
          /\ UNCHANGED unfinished

(* The bound leaves room for the last message.                              *)
Room == puts < MaxMessages - 1

(* The tool itself, unless it awaits an operation under a heartbeat.        *)
ToolReports ==
  /\ tool = "calling" /\ beat # "sleeping" /\ Room
  /\ Report
  /\ UNCHANGED <<tool, beat, abandoned, cut, delivery>>

BeatStarts ==
  /\ tool = "calling" /\ beat = "due"
  /\ beat' = "sleeping"
  /\ UNCHANGED <<tool, abandoned, cut, delivery, reporting>>

Beat ==
  /\ beat = "sleeping" /\ Room
  /\ Report
  /\ UNCHANGED <<tool, beat, abandoned, cut, delivery>>

-----------------------------------------------------------------------------
(* The worker *)

(* Mutant: the message is done with as soon as it is taken.                 *)
Take_CountsDown ==
  /\ worker = "idle" /\ queue # << >>
  /\ sending' = Head(queue) /\ queue' = Tail(queue)
  /\ counter' = counter + 1
  /\ unfinished' = unfinished - 1
  /\ worker' = "sending"
  /\ UNCHANGED <<tool, beat, abandoned, puts, wire, cutOff, cut>>

Take ==
  /\ worker = "idle" /\ queue # << >>
  /\ sending' = Head(queue) /\ queue' = Tail(queue)
  /\ counter' = counter + 1
  /\ worker' = "sending"
  /\ UNCHANGED <<tool, beat, unfinished, abandoned, puts, wire, cutOff, cut>>

(* The notification reaches the client; the send has not returned yet.      *)
Deliver ==
  /\ worker = "sending"
  /\ wire' = Append(wire, [progress |-> counter, message |-> sending])
  /\ worker' = "delivered"
  /\ UNCHANGED <<tool, beat, counter, sending, abandoned, cutOff, cut, reporting>>

SendDone ==
  /\ unfinished' = unfinished - 1
  /\ sending' = None
  /\ worker' = "idle"
  /\ UNCHANGED <<tool, beat, abandoned, queue, puts, wire, cutOff, cut>>

SendReturns == worker = "delivered" /\ SendDone /\ UNCHANGED counter

(* Mutant: a number is used up only by a send that returned.                *)
SendGivesUp_KeepsNumber ==
  /\ worker \in {"sending", "delivered"}
  /\ SendDone
  /\ counter' = counter - 1

(* Timed out or failed, when the client may already have the message.       *)
SendGivesUp ==
  /\ worker \in {"sending", "delivered"}
  /\ SendDone
  /\ UNCHANGED counter

-----------------------------------------------------------------------------
(* The end of the call *)

(* Mutant: the heartbeat is left running.                                   *)
CallEnds_BeatRuns ==
  /\ tool = "calling"
  /\ tool' = "flushing"
  /\ UNCHANGED <<beat, abandoned, cut, delivery, reporting>>

(* The awaited operation returned, failed or was cancelled: the heartbeat   *)
(* is cancelled and waited for.                                             *)
CallEnds ==
  /\ tool = "calling"
  /\ IF beat = "sleeping"
     THEN tool' = "reaping beat" /\ beat' = "cancelled"
     ELSE tool' = "flushing" /\ UNCHANGED beat
  /\ UNCHANGED <<abandoned, cut, delivery, reporting>>

BeatEnds ==
  /\ beat = "cancelled"
  /\ beat' = "gone"
  /\ UNCHANGED <<tool, abandoned, cut, delivery, reporting>>

(* An operation that succeeded is followed by a last message.               *)
BeatReaped ==
  /\ tool = "reaping beat" /\ beat = "gone"
  /\ tool' \in {"finishing", "flushing"}
  /\ UNCHANGED <<beat, abandoned, cut, delivery, reporting>>

LastReport ==
  /\ tool = "finishing"
  /\ Report
  /\ tool' = "flushing"
  /\ UNCHANGED <<beat, abandoned, cut, delivery>>

(* _reap cancels the worker; the send it is in may end at once or stall in  *)
(* the cleanup of its cancellation.                                         *)
CancelWorker ==
  /\ tool' = "reaping"
  /\ IF worker = "idle"
     THEN worker' = "gone" /\ UNCHANGED <<sending, unfinished, cutOff>>
     ELSE /\ cutOff' = cutOff \cup {sending}
          /\ \/ worker' = "gone" /\ sending' = None /\ unfinished' = unfinished - 1
             \/ worker' = "stalling" /\ UNCHANGED <<sending, unfinished>>
  /\ UNCHANGED <<beat, abandoned, counter, queue, puts, wire>>

Flushed ==
  /\ tool = "flushing"
  /\ unfinished = 0
  /\ CancelWorker
  /\ UNCHANGED cut

FlushExpires ==
  /\ tool = "flushing"
  /\ CancelWorker
  /\ cut' = cut \cup {"flush"}

StallEnds ==
  /\ worker = "stalling"
  /\ worker' = "gone" /\ sending' = None /\ unfinished' = unfinished - 1
  /\ abandoned' = FALSE
  /\ UNCHANGED <<tool, beat, counter, queue, puts, wire, cutOff, cut>>

WorkerReaped ==
  /\ tool = "reaping" /\ worker = "gone"
  /\ tool' = "done"
  /\ UNCHANGED <<beat, abandoned, cut, delivery, reporting>>

(* Mutant: a stalled worker is waited for.                                  *)
ReapExpires_Never ==
  /\ tool = "reaping" /\ worker = "gone"
  /\ tool' = "done"
  /\ UNCHANGED <<beat, abandoned, cut, delivery, reporting>>

ReapExpires ==
  /\ tool = "reaping" /\ worker = "stalling"
  /\ tool' = "done"
  /\ abandoned' = TRUE
  /\ UNCHANGED <<beat, cut, delivery, reporting>>

-----------------------------------------------------------------------------
(* The caller cancels the tool call while it is ending *)

CancelBeatReap ==
  /\ tool = "reaping beat"
  /\ tool' = "flushing"
  /\ UNCHANGED <<beat, abandoned, cut, delivery, reporting>>

(* Mutant: the worker is reaped only by a flush that was not cancelled.     *)
CancelFlush_SkipsReap ==
  /\ tool = "flushing"
  /\ tool' = "done"
  /\ cut' = cut \cup {"flush"}
  /\ UNCHANGED <<beat, abandoned, delivery, reporting>>

CancelFlush ==
  /\ tool = "flushing"
  /\ CancelWorker
  /\ cut' = cut \cup {"flush"}

CancelReap ==
  /\ tool = "reaping"
  /\ tool' = "done"
  /\ cut' = cut \cup {"reap"}
  /\ UNCHANGED <<beat, abandoned, delivery, reporting>>

Next ==
  \/ ToolReports \/ BeatStarts \/ Beat \/ LastReport
  \/ Take \/ Deliver \/ SendReturns \/ SendGivesUp
  \/ CallEnds \/ BeatEnds \/ BeatReaped
  \/ Flushed \/ FlushExpires \/ StallEnds \/ WorkerReaped \/ ReapExpires
  \/ CancelBeatReap \/ CancelFlush \/ CancelReap

(* Ready tasks run and timers fire; the client, the operation and the       *)
(* cleanup of a cancelled send owe nothing.                                 *)
Fairness ==
  /\ WF_vars(BeatEnds) /\ WF_vars(BeatReaped) /\ WF_vars(LastReport)
  /\ WF_vars(Flushed \/ FlushExpires)
  /\ WF_vars(WorkerReaped \/ ReapExpires)

Spec == Init /\ [][Next]_vars /\ Fairness

-----------------------------------------------------------------------------
(* join() waits for exactly the messages queued or being sent, the dropped  *)
(* ones excluded (task_done in _report and in the worker's finally).        *)
JoinCountsPending ==
  unfinished = Len(queue) + (IF sending = None THEN 0 ELSE 1)

(* The client sees the progress strictly increase, and the messages in the  *)
(* order they were reported, also after a send that timed out although the  *)
(* client got it (the worker owns one monotonic counter).                   *)
ProgressIncreases ==
  \A i, j \in DOMAIN wire : i < j =>
    wire[i].progress < wire[j].progress /\ wire[i].message < wire[j].message

(* A call whose flush was not cut short returns with every message dropped  *)
(* for a newer one or sent: none is still queued, none was cut off.         *)
FlushedBeforeReturn ==
  tool = "done" /\ "flush" \notin cut => queue = << >> /\ cutOff = {}

(* A call that is over has stopped its helpers, but for a worker stuck in   *)
(* its cleanup, which stays referenced unless the caller cut the reap short.*)
HelpersStopped ==
  tool = "done" =>
    /\ beat # "sleeping"
    /\ worker = "gone" \/ (worker = "stalling" /\ (abandoned \/ "reap" \in cut))

(* Once the operation is over nothing but the last message is reported: no  *)
(* heartbeat comes after "Updated n container(s)", and the queue that is    *)
(* being flushed does not grow again.                                       *)
NoReportAfterEnd ==
  [][puts' # puts =>
       tool = "calling" \/ (tool = "finishing" /\ tool' = "flushing")]_vars

(* A stalled client never holds back the result of a call.                  *)
ToolReturns == tool # "calling" ~> tool = "done"
=============================================================================
