---------------------------- MODULE Progress_proofs ----------------------------
(***************************************************************************)
(* Progress messages and the tasks that send them, for every length of the *)
(* queue and any number of messages.                                       *)
(***************************************************************************)
EXTENDS Progress, SequenceTheorems, TLAPS

Elements(s) == {s[i] : i \in 1..Len(s)}
Rising(s) == \A i, j \in 1..Len(s) : i < j => s[i] < s[j]

Before == {"calling", "reaping beat", "finishing", "flushing"}
Notifications == [progress : Nat, message : Nat]

ProgressType ==
  /\ tool \in Before \cup {"reaping", "done"}
  /\ beat \in {"none", "due", "sleeping", "cancelled", "gone"}
  /\ worker \in {"idle", "sending", "delivered", "stalling", "gone"}
  /\ queue \in Seq(Nat) /\ unfinished \in Int /\ counter \in Nat /\ sending \in Nat
  /\ puts \in Nat /\ wire \in Seq(Notifications)

(* Messages go from the queue over the worker to the client, the oldest     *)
(* first; the client has had no number above the worker's.                  *)
OrderInv ==
  /\ Rising(queue)
  /\ \A m \in Elements(queue) : sending < m /\ m <= puts
  /\ sending <= puts
  /\ \A n \in Elements(wire) :
       /\ n.progress <= counter /\ n.message <= puts
       /\ \A m \in Elements(queue) : n.message < m
       /\ worker = "sending" => n.progress < counter /\ n.message < sending
  /\ ProgressIncreases

(* The worker has a message exactly while it sends or stalls, and is        *)
(* stopped only by the reap; the heartbeat sleeps only during the call.     *)
TaskInv ==
  /\ sending # None <=> worker \in {"sending", "delivered", "stalling"}
  /\ tool \in Before => worker \in {"idle", "sending", "delivered"} /\ cutOff = {}
  /\ tool \in {"reaping", "done"} => worker \in {"stalling", "gone"}
  /\ tool \in {"reaping", "done"} /\ "flush" \notin cut => queue = << >> /\ cutOff = {}
  /\ beat = "sleeping" => tool = "calling"
  /\ tool = "done" /\ worker = "stalling" => abandoned \/ "reap" \in cut

ProgressInv == ProgressType /\ OrderInv /\ TaskInv /\ JoinCountsPending

USE QueueMaxType

-----------------------------------------------------------------------------
(* The elements of a sequence.                                              *)
LEMMA ElementsIn == ASSUME NEW S, NEW s \in Seq(S) PROVE Elements(s) \subseteq S
BY DEF Elements

(* What a queue holds after its oldest message was taken ...                *)
LEMMA TailElements ==
  ASSUME NEW s \in Seq(Nat), s # << >>, Rising(s)
  PROVE  /\ Tail(s) \in Seq(Nat) /\ Len(Tail(s)) = Len(s) - 1
         /\ Rising(Tail(s))
         /\ Head(s) \in Elements(s)
         /\ \A m \in Elements(Tail(s)) : m \in Elements(s) /\ Head(s) < m
<1>1. /\ Tail(s) \in Seq(Nat) /\ Len(Tail(s)) = Len(s) - 1 /\ Len(s) \in Nat \ {0}
      /\ \A i \in 1..Len(Tail(s)) : Tail(s)[i] = s[i + 1]
      /\ Head(s) = s[1]
  BY HeadTailProperties
<1>2. Rising(Tail(s))
  BY <1>1 DEF Rising
<1>3. Head(s) \in Elements(s)
  BY <1>1 DEF Elements
<1>4. \A m \in Elements(Tail(s)) : m \in Elements(s) /\ Head(s) < m
  BY <1>1 DEF Elements, Rising
<1> QED BY <1>1, <1>2, <1>3, <1>4

(* ... and after a newer one was put.                                       *)
LEMMA AppendElements ==
  ASSUME NEW s \in Seq(Nat), NEW n \in Nat, Rising(s), \A m \in Elements(s) : m < n
  PROVE  /\ Append(s, n) \in Seq(Nat) /\ Len(Append(s, n)) = Len(s) + 1
         /\ Rising(Append(s, n))
         /\ Elements(Append(s, n)) \subseteq Elements(s) \cup {n}
<1>1. /\ Append(s, n) \in Seq(Nat) /\ Len(Append(s, n)) = Len(s) + 1 /\ Len(s) \in Nat
      /\ \A i \in 1..Len(s) : Append(s, n)[i] = s[i]
      /\ Append(s, n)[Len(s) + 1] = n
  BY AppendProperties
<1>2. \A i \in 1..Len(s) : s[i] < n
  BY DEF Elements
<1>3. Rising(Append(s, n))
  BY <1>1, <1>2 DEF Rising
<1>4. Elements(Append(s, n)) \subseteq Elements(s) \cup {n}
  BY <1>1 DEF Elements
<1> QED BY <1>1, <1>3, <1>4

(* A report keeps the queue in order, and counts no message twice.          *)
LEMMA ReportKeeps ==
  ASSUME ProgressType, OrderInv, JoinCountsPending, Report
  PROVE  /\ puts' = puts + 1 /\ queue' \in Seq(Nat) /\ unfinished' \in Int
         /\ Rising(queue')
         /\ Elements(queue') \subseteq Elements(queue) \cup {puts'}
         /\ unfinished' - unfinished = Len(queue') - Len(queue)
<1>1. puts' = puts + 1 /\ puts \in Nat /\ queue \in Seq(Nat) /\ Rising(queue)
  BY DEF Report, ProgressType, OrderInv
<1>2. \A m \in Elements(queue) : m < puts'
  <2>1. \A m \in Elements(queue) : m \in Nat /\ m <= puts
    BY <1>1, ElementsIn DEF OrderInv
  <2> QED BY <1>1, <2>1
<1>3. CASE Len(queue) < QueueMax
  <2>1. queue' = Append(queue, puts') /\ unfinished' = unfinished + 1
    BY <1>3 DEF Report
  <2> QED BY <1>1, <1>2, <2>1, AppendElements DEF ProgressType
<1>4. CASE ~(Len(queue) < QueueMax)
  <2>1. queue' = Append(Tail(queue), puts') /\ unfinished' = unfinished
    BY <1>4 DEF Report
  <2>2. queue # << >>
    BY <1>4
  <2>3. \A m \in Elements(Tail(queue)) : m \in Elements(queue) /\ m < puts'
    BY <1>1, <1>2, <2>2, TailElements
  <2>4. Tail(queue) \in Seq(Nat) /\ Rising(Tail(queue)) /\ Len(Tail(queue)) = Len(queue) - 1
    BY <1>1, <2>2, TailElements
  <2>5. /\ queue' \in Seq(Nat) /\ Rising(queue') /\ Len(queue') = Len(Tail(queue)) + 1
        /\ Elements(queue') \subseteq Elements(Tail(queue)) \cup {puts'}
    <3>1. puts' \in Nat /\ \A m \in Elements(Tail(queue)) : m < puts'
      BY <1>1, <2>3
    <3>2. LET q == Append(Tail(queue), puts')
          IN  /\ q \in Seq(Nat) /\ Rising(q) /\ Len(q) = Len(Tail(queue)) + 1
              /\ Elements(q) \subseteq Elements(Tail(queue)) \cup {puts'}
      BY <2>4, <3>1, AppendElements
    <3> QED BY <2>1, <3>2
  <2> QED BY <1>1, <2>1, <2>3, <2>4, <2>5 DEF ProgressType
<1> QED BY <1>3, <1>4

-----------------------------------------------------------------------------
(* Nothing is reported at first.                                            *)
LEMMA InitInv == Init => ProgressInv
BY DEF Init, ProgressInv, ProgressType, OrderInv, TaskInv, JoinCountsPending, Rising,
       Elements, ProgressIncreases, Before, None

(* The tool or its heartbeat reports.                                       *)
LEMMA ReportInv ==
  ASSUME ProgressInv, ToolReports \/ Beat \/ LastReport
  PROVE  ProgressInv'
<1>1. /\ Report /\ tool \in Before /\ tool' \in Before /\ (tool' = "calling" \/ beat # "sleeping")
      /\ UNCHANGED <<beat, abandoned, cut, worker, counter, sending, wire, cutOff>>
  BY DEF ProgressInv, TaskInv, ToolReports, Beat, LastReport, delivery, Before
<1>2. /\ puts' = puts + 1 /\ queue' \in Seq(Nat) /\ unfinished' \in Int
      /\ Rising(queue')
      /\ Elements(queue') \subseteq Elements(queue) \cup {puts'}
      /\ unfinished' - unfinished = Len(queue') - Len(queue)
  BY <1>1, ReportKeeps DEF ProgressInv
<1>3. ProgressType'
  BY <1>1, <1>2 DEF ProgressInv, ProgressType
<1>4. OrderInv'
  <2>1. \A n \in Elements(wire) : n \in Notifications
    BY DEF ProgressInv, ProgressType, Elements
  <2>2. \A m \in Elements(queue') : sending < m /\ m <= puts'
    <3>1. \A m \in Elements(queue) : m \in Nat /\ sending < m /\ m <= puts
      BY ElementsIn DEF ProgressInv, ProgressType, OrderInv
    <3>2. sending < puts' /\ puts \in Nat
      BY <1>2 DEF ProgressInv, ProgressType, OrderInv
    <3> QED BY <1>2, <3>1, <3>2
  <2>3. ASSUME NEW n \in Elements(wire)
        PROVE  /\ n.progress <= counter /\ n.message <= puts'
               /\ \A m \in Elements(queue') : n.message < m
               /\ worker = "sending" => n.progress < counter /\ n.message < sending
    <3>1. n.message \in Nat /\ n.message <= puts /\ puts \in Nat
      BY <2>1 DEF ProgressInv, ProgressType, OrderInv, Notifications
    <3>2. \A m \in Elements(queue') : n.message < m
      BY <1>2, <3>1 DEF ProgressInv, OrderInv
    <3> QED BY <1>2, <3>1, <3>2 DEF ProgressInv, OrderInv
  <2>4. Elements(wire') = Elements(wire) /\ (ProgressIncreases' <=> ProgressIncreases)
    BY <1>1 DEF Elements, ProgressIncreases
  <2> QED BY <1>1, <1>2, <2>2, <2>3, <2>4 DEF ProgressInv, ProgressType, OrderInv
<1>5. TaskInv'
  BY <1>1 DEF ProgressInv, TaskInv, Before
<1>6. JoinCountsPending'
  BY <1>1, <1>2 DEF ProgressInv, ProgressType, JoinCountsPending
<1> QED BY <1>3, <1>4, <1>5, <1>6 DEF ProgressInv

(* The worker takes the oldest message.                                     *)
LEMMA TakeInv == ASSUME ProgressInv, Take PROVE ProgressInv'
<1>1. /\ worker = "idle" /\ sending = None /\ queue \in Seq(Nat) /\ queue # << >>
      /\ sending' = Head(queue) /\ queue' = Tail(queue) /\ counter' = counter + 1
      /\ worker' = "sending" /\ Rising(queue)
      /\ UNCHANGED <<tool, beat, unfinished, abandoned, puts, wire, cutOff, cut>>
  BY DEF Take, ProgressInv, ProgressType, TaskInv, OrderInv
<1>2. /\ queue' \in Seq(Nat) /\ Len(queue') = Len(queue) - 1 /\ Rising(queue')
      /\ sending' \in Elements(queue)
      /\ \A m \in Elements(queue') : m \in Elements(queue) /\ sending' < m
  BY <1>1, TailElements
<1>3. sending' \in Nat /\ sending' > 0
  BY <1>1, <1>2 DEF ProgressInv, OrderInv, Elements, None
<1>4. ProgressType'
  BY <1>1, <1>2, <1>3 DEF ProgressInv, ProgressType
<1>5. OrderInv'
  <2>1. \A n \in Elements(wire) : n \in Notifications
    BY DEF ProgressInv, ProgressType, Elements
  <2>2. ASSUME NEW n \in Elements(wire)
        PROVE  /\ n.progress <= counter' /\ n.message <= puts
               /\ \A m \in Elements(queue') : n.message < m
               /\ n.progress < counter' /\ n.message < sending'
    <3>1. n.progress \in Nat /\ n.progress <= counter /\ counter \in Nat
      BY <2>1 DEF ProgressInv, ProgressType, OrderInv, Notifications
    <3> QED BY <1>1, <1>2, <3>1 DEF ProgressInv, OrderInv
  <2>3. Elements(wire') = Elements(wire) /\ (ProgressIncreases' <=> ProgressIncreases)
    BY <1>1 DEF Elements, ProgressIncreases
  <2>4. sending' <= puts /\ \A m \in Elements(queue') : m <= puts
    BY <1>2 DEF ProgressInv, OrderInv
  <2> QED BY <1>1, <1>2, <2>2, <2>3, <2>4 DEF ProgressInv, OrderInv
<1>6. TaskInv'
  <2>1. tool \notin {"reaping", "done"}
    BY <1>1 DEF ProgressInv, TaskInv
  <2>2. sending' # None
    BY <1>3 DEF None
  <2> QED BY <1>1, <2>1, <2>2 DEF ProgressInv, TaskInv
<1>7. JoinCountsPending'
  BY <1>1, <1>2, <1>3 DEF ProgressInv, JoinCountsPending, None
<1> QED BY <1>4, <1>5, <1>6, <1>7 DEF ProgressInv

(* The message reaches the client.                                          *)
LEMMA DeliverInv == ASSUME ProgressInv, Deliver PROVE ProgressInv'
<1> DEFINE new == [progress |-> counter, message |-> sending]
<1>1. /\ worker = "sending" /\ worker' = "delivered" /\ wire' = Append(wire, new)
      /\ UNCHANGED <<tool, beat, counter, sending, abandoned, cutOff, cut, queue, unfinished, puts>>
  BY DEF Deliver, reporting
<1>2. /\ wire \in Seq(Notifications) /\ counter \in Nat /\ sending \in Nat
      /\ new \in Notifications
  BY DEF ProgressInv, ProgressType, Notifications
<1>3. /\ wire' \in Seq(Notifications) /\ Len(wire') = Len(wire) + 1 /\ Len(wire) \in Nat
      /\ \A i \in 1..Len(wire) : wire'[i] = wire[i]
      /\ wire'[Len(wire) + 1] = new
  BY <1>1, <1>2, AppendProperties
<1>4. \A n \in Elements(wire') : n \in Elements(wire) \/ n = new
  BY <1>3 DEF Elements
<1>5. \A n \in Elements(wire) : n.progress < counter /\ n.message < sending
  BY <1>1 DEF ProgressInv, OrderInv
<1>6. ProgressType'
  BY <1>1, <1>3 DEF ProgressInv, ProgressType
<1>7. ProgressIncreases'
  <2>1. ASSUME NEW i \in DOMAIN wire', NEW j \in DOMAIN wire', i < j
        PROVE  wire'[i].progress < wire'[j].progress /\ wire'[i].message < wire'[j].message
    <3>1. i \in 1..Len(wire) /\ j \in 1..(Len(wire) + 1) /\ DOMAIN wire = 1..Len(wire)
      BY <1>2, <1>3, <2>1
    <3>2. CASE j = Len(wire) + 1
      <4>1. wire'[i] \in Elements(wire) /\ wire'[j] = new
        BY <1>3, <3>1, <3>2 DEF Elements
      <4>2. new.progress = counter /\ new.message = sending
        OBVIOUS
      <4> QED BY <1>5, <4>1, <4>2
    <3>3. CASE j \in 1..Len(wire)
      BY <1>3, <2>1, <3>1, <3>3 DEF ProgressInv, OrderInv, ProgressIncreases
    <3> QED BY <1>3, <3>1, <3>2, <3>3
  <2> QED BY <2>1 DEF ProgressIncreases
<1>8. OrderInv'
  <2>1. new.progress <= counter /\ new.message <= puts /\ \A m \in Elements(queue) : new.message < m
    BY <1>2 DEF ProgressInv, OrderInv
  <2>2. ASSUME NEW n \in Elements(wire')
        PROVE  /\ n.progress <= counter /\ n.message <= puts
               /\ \A m \in Elements(queue) : n.message < m
    BY <1>4, <2>1 DEF ProgressInv, OrderInv
  <2>3. Elements(queue') = Elements(queue) /\ Rising(queue')
    BY <1>1 DEF ProgressInv, OrderInv, Elements, Rising
  <2> QED BY <1>1, <1>7, <2>2, <2>3 DEF ProgressInv, OrderInv
<1>9. TaskInv' /\ JoinCountsPending'
  BY <1>1 DEF ProgressInv, TaskInv, JoinCountsPending, Before
<1> QED BY <1>6, <1>8, <1>9 DEF ProgressInv

(* The worker is done with its message, or given up on.                     *)
LEMMA SendInv ==
  ASSUME ProgressInv,
         SendReturns \/ SendGivesUp \/ StallEnds \/ Flushed \/ FlushExpires \/ CancelFlush
  PROVE  ProgressInv'
<1>1. /\ UNCHANGED <<queue, counter, puts, wire, beat>>
      /\ worker' # "sending"
      /\ \/ sending' = sending /\ unfinished' = unfinished
         \/ sending # None /\ sending' = None /\ unfinished' = unfinished - 1
  <2>1. CASE SendReturns \/ SendGivesUp \/ StallEnds
    BY <2>1 DEF SendReturns, SendGivesUp, SendDone, StallEnds, ProgressInv, TaskInv
  <2>2. CASE Flushed \/ FlushExpires \/ CancelFlush
    <3>1. CancelWorker /\ worker \in {"idle", "sending", "delivered"}
      BY <2>2 DEF Flushed, FlushExpires, CancelFlush, ProgressInv, TaskInv, Before
    <3>2. worker # "idle" => sending # None
      BY <3>1 DEF ProgressInv, TaskInv
    <3> QED BY <3>1, <3>2 DEF CancelWorker
  <2> QED BY <2>1, <2>2
<1>2. ProgressType'
  <2>1. tool' \in Before \cup {"reaping", "done"} /\ worker' \in {"idle", "stalling", "gone"}
    BY DEF ProgressInv, ProgressType, SendReturns, SendGivesUp, StallEnds, Flushed,
           FlushExpires, CancelFlush, CancelWorker, SendDone
  <2>2. unfinished' \in Int /\ sending' \in Nat
    BY <1>1 DEF ProgressInv, ProgressType, None
  <2> QED BY <1>1, <2>1, <2>2 DEF ProgressInv, ProgressType
<1>3. OrderInv'
  <2>1. Elements(queue') = Elements(queue) /\ Rising(queue') /\ Elements(wire') = Elements(wire)
    BY <1>1 DEF ProgressInv, OrderInv, Elements, Rising
  <2>2. ProgressIncreases'
    BY <1>1 DEF ProgressInv, OrderInv, ProgressIncreases
  <2>3. sending' <= sending /\ sending \in Nat /\ sending' \in Nat
    BY <1>1 DEF ProgressInv, ProgressType, None
  <2>4. \A m \in Elements(queue) : m \in Nat /\ sending' < m
    <3>1. \A m \in Elements(queue) : m \in Nat /\ sending < m
      BY ElementsIn DEF ProgressInv, ProgressType, OrderInv
    <3> QED BY <2>3, <3>1
  <2> QED BY <1>1, <2>1, <2>2, <2>3, <2>4 DEF ProgressInv, ProgressType, OrderInv
<1>4. JoinCountsPending'
  BY <1>1 DEF ProgressInv, ProgressType, JoinCountsPending, None
<1>5. TaskInv'
  <2>1. CASE SendReturns \/ SendGivesUp
    BY <2>1 DEF SendReturns, SendGivesUp, SendDone, ProgressInv, TaskInv, Before
  <2>2. CASE StallEnds
    BY <2>2 DEF StallEnds, ProgressInv, TaskInv, Before
  <2>3. CASE Flushed
    <3>1. queue = << >> /\ sending = None
      BY <2>3 DEF Flushed, ProgressInv, ProgressType, JoinCountsPending
    <3> QED BY <2>3, <3>1 DEF Flushed, CancelWorker, ProgressInv, TaskInv, Before
  <2>4. CASE FlushExpires \/ CancelFlush
    BY <2>4 DEF FlushExpires, CancelFlush, CancelWorker, ProgressInv, TaskInv, Before
  <2> QED BY <2>1, <2>2, <2>3, <2>4
<1> QED BY <1>2, <1>3, <1>4, <1>5 DEF ProgressInv

(* The other steps move only the tool and its heartbeat.                    *)
LEMMA CourseInv ==
  ASSUME ProgressInv,
         \/ BeatStarts \/ CallEnds \/ BeatEnds \/ BeatReaped \/ WorkerReaped \/ ReapExpires
         \/ CancelBeatReap \/ CancelReap \/ UNCHANGED vars
  PROVE  ProgressInv'
<1>1. UNCHANGED <<worker, counter, sending, wire, cutOff, queue, unfinished, puts>>
  BY DEF BeatStarts, CallEnds, BeatEnds, BeatReaped, WorkerReaped, ReapExpires,
         CancelBeatReap, CancelReap, vars, delivery, reporting
<1>2. ProgressType'
  BY <1>1 DEF ProgressInv, ProgressType, BeatStarts, CallEnds, BeatEnds, BeatReaped,
              WorkerReaped, ReapExpires, CancelBeatReap, CancelReap, vars, Before
<1>3. OrderInv' /\ JoinCountsPending'
  BY <1>1 DEF ProgressInv, OrderInv, JoinCountsPending, Elements, Rising, ProgressIncreases
<1>4. TaskInv'
  BY <1>1 DEF ProgressInv, TaskInv, BeatStarts, CallEnds, BeatEnds, BeatReaped,
              WorkerReaped, ReapExpires, CancelBeatReap, CancelReap, vars, Before
<1> QED BY <1>2, <1>3, <1>4 DEF ProgressInv

(* ProgressInv is inductive.                                                *)
LEMMA StepInv == ProgressInv /\ [Next]_vars => ProgressInv'
BY ReportInv, TakeInv, DeliverInv, SendInv, CourseInv DEF Next

(* Every state is one of ProgressInv.                                       *)
LEMMA InvHolds == Spec => []ProgressInv
BY InitInv, StepInv, PTL DEF Spec

-----------------------------------------------------------------------------
(* join() waits for exactly the messages queued or being sent.              *)
THEOREM JoinIsExact == Spec => []JoinCountsPending
<1>1. ProgressInv => JoinCountsPending
  BY DEF ProgressInv
<1> QED BY InvHolds, <1>1, PTL

(* The client sees the progress increase and the messages in turn.          *)
THEOREM NumbersIncrease == Spec => []ProgressIncreases
<1>1. ProgressInv => ProgressIncreases
  BY DEF ProgressInv, OrderInv
<1> QED BY InvHolds, <1>1, PTL

(* A call whose flush was not cut short leaves no message behind.           *)
THEOREM FlushIsComplete == Spec => []FlushedBeforeReturn
<1>1. ProgressInv => FlushedBeforeReturn
  BY DEF ProgressInv, TaskInv, FlushedBeforeReturn
<1> QED BY InvHolds, <1>1, PTL

(* A call that is over has stopped its heartbeat and its worker, but for    *)
(* one that stalls and is referenced or was given up on.                    *)
THEOREM TasksAreReaped == Spec => []HelpersStopped
<1>1. ProgressInv => HelpersStopped
  BY DEF ProgressInv, TaskInv, HelpersStopped
<1> QED BY InvHolds, <1>1, PTL

(* Nothing but the last message is reported once the operation is over.     *)
THEOREM ReportsEnd == Spec => NoReportAfterEnd
<1>1. ASSUME ProgressInv, [Next]_vars, puts' # puts
      PROVE  tool = "calling" \/ (tool = "finishing" /\ tool' = "flushing")
  BY <1>1 DEF ProgressInv, TaskInv, Next, vars, ToolReports, Beat, LastReport, BeatStarts,
              Take, Deliver, SendReturns, SendGivesUp, SendDone, CallEnds, BeatEnds, BeatReaped,
              Flushed, FlushExpires, StallEnds, WorkerReaped, ReapExpires, CancelBeatReap,
              CancelFlush, CancelReap, CancelWorker, delivery, reporting
<1>2. ProgressInv /\ [Next]_vars =>
        [puts' # puts =>
           tool = "calling" \/ (tool = "finishing" /\ tool' = "flushing")]_vars
  BY <1>1
<1>3. Spec => [][Next]_vars
  BY PTL DEF Spec
<1> QED BY InvHolds, <1>2, <1>3, PTL DEF NoReportAfterEnd
=============================================================================
