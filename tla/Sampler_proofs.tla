---------------------------- MODULE Sampler_proofs ----------------------------
(***************************************************************************)
(* What Sampler guarantees for every set of containers, window and grace   *)
(* period.                                                                 *)
(***************************************************************************)
EXTENDS Sampler, TLAPS

Setup == {"connecting", "init", "ack"}
AfterSampling == Cleaning \cup {"exit", "done"}

(* The time left: no await of sampling outlives the window, unless it ends  *)
(* at once; no cleanup outlives window + grace; the exit has a grace more.  *)
ClockInv ==
  /\ phase = "connecting" => timer = Window + Grace /\ now <= timer
  /\ phase \in Sampling => now <= Window + Grace
  /\ phase \in Sampling => timer = Window
  /\ phase = "recv" => now <= Window
  /\ phase \in {"pong", "notify"} => now <= Window + Step
  /\ phase \in Cleaning =>
       cleanupBy <= Window + Grace /\ timer <= cleanupBy /\ now <= Window + Grace
  /\ phase = "exit" => timer <= Window + 2 * Grace
  /\ now <= Window + 2 * Grace

(* Where the socket is in each phase, and whether sampling has ended.       *)
SocketInv ==
  /\ phase = "connecting" => socket = "none"
  /\ phase \in Sampling \cup {"unsubscribe"} => socket = "open"
  /\ phase = "closing" => socket = "closing"
  /\ phase = "exit" => socket \in {"open", "released"}
  /\ phase = "done" => socket \in {"none", "released"}
  /\ phase \in Sampling \cup {"connecting"} => pending = "none" /\ ~hit
  /\ phase \in AfterSampling => pending # "none"
  /\ cancelled => pending = "cancelled"

(* What was kept is exactly what the server reported first.                 *)
ReadingInv ==
  /\ \A r \in collected :
       r.key = [of |-> r.of, escaped |-> FALSE] /\ r.nth = 1
  /\ \A k \in Containers : reports[k] > 0 => \E r \in collected : r.of = k
  /\ \A r \in collected : reports[r.of] > 0
  /\ phase \in Setup => collected = {}
  /\ pending = "sampled" /\ ~hit /\ ~ended =>
       \A k \in Containers : \E r \in collected : r.of = k

SamplerInv == TypeOK /\ ClockInv /\ SocketInv /\ ReadingInv

USE WindowType, GraceType, StepType

(* The invariant holds when a call begins.                                  *)
LEMMA InitInv == Init => SamplerInv
<1> SUFFICES ASSUME Init PROVE SamplerInv
  OBVIOUS
<1>1. TypeOK
  <2>1. reports \in [Containers -> Nat] /\ collected \subseteq Readings
    BY DEF Init
  <2>2. timer \in Nat
    BY DEF Init
  <2> QED
    BY <2>1, <2>2 DEF Init, TypeOK, Phases, Outcomes
<1>2. ClockInv
  BY DEF Init, ClockInv, Sampling, Cleaning
<1>3. SocketInv
  BY DEF Init, SocketInv, Sampling, AfterSampling, Cleaning
<1>4. ReadingInv
  BY DEF Init, ReadingInv
<1> QED
  BY <1>1, <1>2, <1>3, <1>4 DEF SamplerInv

(* The deadline of a cleanup that starts now.                               *)
LEMMA CleanupLimit ==
  ASSUME NEW t \in Nat
  PROVE  /\ CleanupDeadline(t) \in Nat
         /\ CleanupDeadline(t) <= Window + Grace
  BY DEF CleanupDeadline, MinOf

(* A cleanup that starts in time gives every await of it a deadline in time.*)
LEMMA CleanupEffect ==
  ASSUME NEW o \in Outcomes \ {"none"}, NEW h \in BOOLEAN, NEW b \in BOOLEAN,
         NEW t \in Nat, t <= Window + Grace, Cleanup(o, h, b, t)
  PROVE  /\ pending' = o /\ hit' = h /\ sampledAt' = t
         /\ cleanupBy' \in Nat /\ cleanupBy' <= Window + Grace
         /\ timer' \in Nat /\ timer' <= cleanupBy'
         /\ \/ phase' = "unsubscribe" /\ socket' = socket
            \/ phase' = "closing" /\ socket' = "closing"
<1> DEFINE limit == CleanupDeadline(t)
<1>1. limit \in Nat /\ limit <= Window + Grace /\ t <= limit
  BY DEF CleanupDeadline, MinOf
<1>2. t + (limit - t) \div 2 \in Nat /\ t + (limit - t) \div 2 <= limit
  <2> HIDE DEF limit
  <2> QED BY <1>1
<1> QED
  BY <1>1, <1>2 DEF Cleanup, BeginClose, Await

(* The head of the loop starts the cleanup or waits for a frame in time.    *)
LEMMA LoopTopEffect ==
  ASSUME now' \in Nat, now' <= Window + Grace, LoopTop
  PROVE  \/ /\ phase' = "recv" /\ timer' = Window /\ now' <= Window
            /\ UNCHANGED <<hit, pending, sampledAt, cleanupBy, socket>>
         \/ /\ pending' = "sampled" /\ hit' = TRUE /\ sampledAt' = now'
            /\ cleanupBy' \in Nat /\ cleanupBy' <= Window + Grace
            /\ timer' \in Nat /\ timer' <= cleanupBy'
            /\ \/ phase' = "unsubscribe" /\ socket' = socket
               \/ phase' = "closing" /\ socket' = "closing"
<1>1. CASE now' >= Window
  <2>1. Cleanup("sampled", TRUE, TRUE, now')
    BY <1>1 DEF LoopTop
  <2> QED
    BY <2>1, CleanupEffect DEF Outcomes
<1>2. CASE ~(now' >= Window)
  BY <1>2 DEF LoopTop, Await
<1> QED
  BY <1>1, <1>2

(* Ending the sample keeps the clock and the socket in order.               *)
LEMMA EndOfSampling ==
  ASSUME SamplerInv, phase \in Sampling,
         NEW o \in Outcomes \ {"none"}, NEW h \in BOOLEAN, NEW b \in BOOLEAN,
         now' \in Nat, now' <= Window + Grace, Cleanup(o, h, b, now'),
         cancelled' \in BOOLEAN, cancelled' => o = "cancelled",
         subscribed' \in BOOLEAN, ended' \in BOOLEAN,
         collected' \subseteq Readings, reports' \in [Containers -> Nat]
  PROVE  TypeOK' /\ ClockInv' /\ SocketInv' /\ pending' = o /\ hit' = h
         /\ phase' \in Cleaning
<1>0. socket = "open" /\ socket \in {"none", "open", "closing", "released"}
  BY DEF SamplerInv, SocketInv
<1>1. /\ pending' = o /\ hit' = h /\ sampledAt' = now'
      /\ cleanupBy' \in Nat /\ cleanupBy' <= Window + Grace
      /\ timer' \in Nat /\ timer' <= cleanupBy'
      /\ \/ phase' = "unsubscribe" /\ socket' = socket
         \/ phase' = "closing" /\ socket' = "closing"
  BY CleanupEffect
<1>2. TypeOK'
  BY <1>0, <1>1 DEF TypeOK, Phases, Cleaning
<1>3. ClockInv'
  BY <1>1 DEF ClockInv, Sampling, Cleaning
<1>4. SocketInv'
  BY <1>0, <1>1 DEF SocketInv, Sampling, Cleaning, AfterSampling, Outcomes
<1> QED
  BY <1>1, <1>2, <1>3, <1>4 DEF Cleaning

(* A step of the loop that keeps no reading and reads the clock again.      *)
LEMMA BackToLoopTop ==
  ASSUME SamplerInv, phase \in {"subscribe", "recv", "pong", "notify"},
         now' \in Nat, now' <= Window + Grace, LoopTop,
         UNCHANGED <<collected, cancelled, reports, ended>>, subscribed' \in BOOLEAN
  PROVE  SamplerInv'
<1>1. CASE Cleanup("sampled", TRUE, TRUE, now')
  <2>1. ~cancelled
    BY DEF SamplerInv, SocketInv, Sampling
  <2>2. TypeOK' /\ ClockInv' /\ SocketInv' /\ pending' = "sampled" /\ hit' = TRUE
        /\ phase' \in Cleaning
    BY <1>1, <2>1, EndOfSampling DEF SamplerInv, TypeOK, Sampling, Outcomes
  <2>3. ReadingInv'
    BY <2>2 DEF SamplerInv, ReadingInv, Setup, Cleaning
  <2> QED
    BY <2>2, <2>3 DEF SamplerInv
<1>2. CASE ~(now' >= Window)
  <2>1. /\ phase' = "recv" /\ timer' = Window /\ now' <= Window
        /\ UNCHANGED <<hit, pending, sampledAt, cleanupBy, socket>>
    BY <1>2 DEF LoopTop, Await
  <2>2. TypeOK'
    BY <2>1 DEF SamplerInv, TypeOK, Phases, Sampling
  <2>3. ClockInv'
    BY <2>1 DEF SamplerInv, ClockInv, Sampling, Cleaning
  <2>4. SocketInv'
    BY <2>1 DEF SamplerInv, SocketInv, Sampling, Cleaning, AfterSampling
  <2>5. ReadingInv'
    BY <2>1 DEF SamplerInv, ReadingInv, Setup
  <2> QED
    BY <2>2, <2>3, <2>4, <2>5 DEF SamplerInv
<1> QED
  BY <1>1, <1>2 DEF LoopTop

(* Ending the sample without another reading.                               *)
LEMMA EndWithoutReading ==
  ASSUME SamplerInv, phase \in Sampling,
         NEW o \in Outcomes \ {"none"}, NEW h \in BOOLEAN, NEW b \in BOOLEAN,
         now' \in Nat, now' <= Window + Grace, Cleanup(o, h, b, now'),
         o = "sampled" => h \/ ended',
         cancelled' \in BOOLEAN, cancelled' => o = "cancelled",
         subscribed' \in BOOLEAN, ended' \in BOOLEAN, UNCHANGED <<collected, reports>>
  PROVE  SamplerInv'
<1>1. TypeOK' /\ ClockInv' /\ SocketInv' /\ pending' = o /\ hit' = h
      /\ phase' \in Cleaning
  BY EndOfSampling DEF SamplerInv, TypeOK
<1>2. ReadingInv'
  BY <1>1 DEF SamplerInv, ReadingInv, Setup, Cleaning
<1> QED
  BY <1>1, <1>2 DEF SamplerInv

(* Every step keeps the invariant.                                          *)
LEMMA StepInv == SamplerInv /\ [Next]_vars => SamplerInv'
<1> SUFFICES ASSUME SamplerInv, [Next]_vars PROVE SamplerInv'
  OBVIOUS
<1>0. TypeOK /\ ClockInv /\ SocketInv /\ ReadingInv
  BY DEF SamplerInv
<1> USE <1>0
<1>1. ASSUME Connected PROVE SamplerInv'
  <2>1. TypeOK'
    BY <1>1 DEF Connected, Await, TimerDue, server, TypeOK, Phases, Sampling, Cleaning, Outcomes
  <2>2. ClockInv'
    BY <1>1 DEF Connected, Await, TimerDue, server, ClockInv, TypeOK, Sampling, Cleaning
  <2>3. SocketInv'
    BY <1>1 DEF Connected, Await, TimerDue, server, SocketInv, TypeOK, Sampling, Cleaning, AfterSampling
  <2>4. ReadingInv'
    BY <1>1 DEF Connected, Await, TimerDue, server, ReadingInv, TypeOK, Setup
  <2> QED
    BY <2>1, <2>2, <2>3, <2>4 DEF SamplerInv
<1>2. ASSUME ConnectFails PROVE SamplerInv'
  <2>1. TypeOK'
    BY <1>2 DEF ConnectFails, Await, TimerDue, server, TypeOK, Phases, Sampling, Cleaning, Outcomes
  <2>2. ClockInv'
    BY <1>2 DEF ConnectFails, Await, TimerDue, server, ClockInv, TypeOK, Sampling, Cleaning
  <2>3. SocketInv'
    BY <1>2 DEF ConnectFails, Await, TimerDue, server, SocketInv, TypeOK, Sampling, Cleaning, AfterSampling
  <2>4. ReadingInv'
    BY <1>2 DEF ConnectFails, Await, TimerDue, server, ReadingInv, TypeOK, Setup
  <2> QED
    BY <2>1, <2>2, <2>3, <2>4 DEF SamplerInv
<1>3. ASSUME InitSent PROVE SamplerInv'
  <2>1. TypeOK'
    BY <1>3 DEF InitSent, Await, TimerDue, server, TypeOK, Phases, Sampling, Cleaning, Outcomes
  <2>2. ClockInv'
    BY <1>3 DEF InitSent, Await, TimerDue, server, ClockInv, TypeOK, Sampling, Cleaning
  <2>3. SocketInv'
    BY <1>3 DEF InitSent, Await, TimerDue, server, SocketInv, TypeOK, Sampling, Cleaning, AfterSampling
  <2>4. ReadingInv'
    BY <1>3 DEF InitSent, Await, TimerDue, server, ReadingInv, TypeOK, Setup
  <2> QED
    BY <2>1, <2>2, <2>3, <2>4 DEF SamplerInv
<1>4. ASSUME Acknowledged PROVE SamplerInv'
  <2>1. TypeOK'
    BY <1>4 DEF Acknowledged, Await, TimerDue, server, TypeOK, Phases, Sampling, Cleaning, Outcomes
  <2>2. ClockInv'
    BY <1>4 DEF Acknowledged, Await, TimerDue, server, ClockInv, TypeOK, Sampling, Cleaning
  <2>3. SocketInv'
    BY <1>4 DEF Acknowledged, Await, TimerDue, server, SocketInv, TypeOK, Sampling, Cleaning, AfterSampling
  <2>4. ReadingInv'
    BY <1>4 DEF Acknowledged, Await, TimerDue, server, ReadingInv, TypeOK, Setup
  <2> QED
    BY <2>1, <2>2, <2>3, <2>4 DEF SamplerInv
<1>5. ASSUME SetupExpires PROVE SamplerInv'
  <2>1. TypeOK'
    BY <1>5 DEF SetupExpires, Await, TimerDue, server, TypeOK, Phases, Sampling, Cleaning, Outcomes
  <2>2. ClockInv'
    BY <1>5 DEF SetupExpires, Await, TimerDue, server, ClockInv, TypeOK, Sampling, Cleaning
  <2>3. SocketInv'
    BY <1>5 DEF SetupExpires, Await, TimerDue, server, SocketInv, TypeOK, Sampling, Cleaning, AfterSampling
  <2>4. ReadingInv'
    BY <1>5 DEF SetupExpires, Await, TimerDue, server, ReadingInv, TypeOK, Setup
  <2> QED
    BY <2>1, <2>2, <2>3, <2>4 DEF SamplerInv
<1>6. ASSUME CancelSetup PROVE SamplerInv'
  <2>1. TypeOK'
    BY <1>6 DEF CancelSetup, Await, TimerDue, server, TypeOK, Phases, Sampling, Cleaning, Outcomes
  <2>2. ClockInv'
    BY <1>6 DEF CancelSetup, Await, TimerDue, server, ClockInv, TypeOK, Sampling, Cleaning
  <2>3. SocketInv'
    BY <1>6 DEF CancelSetup, Await, TimerDue, server, SocketInv, TypeOK, Sampling, Cleaning, AfterSampling
  <2>4. ReadingInv'
    BY <1>6 DEF CancelSetup, Await, TimerDue, server, ReadingInv, TypeOK, Setup
  <2> QED
    BY <2>1, <2>2, <2>3, <2>4 DEF SamplerInv
<1>7. ASSUME Tick PROVE SamplerInv'
  <2>1. TypeOK'
    BY <1>7 DEF Tick, Await, TimerDue, server, TypeOK, Phases, Sampling, Cleaning, Outcomes
  <2>2. ClockInv'
    <3>1. now \in Nat /\ timer \in Nat /\ now + 1 <= timer /\ now' = now + 1
          /\ UNCHANGED <<phase, timer, cleanupBy>>
      BY <1>7 DEF Tick, TypeOK
    <3>2. phase \in Sampling => timer = Window
      BY DEF ClockInv
    <3>3. CASE phase \in Sampling
      BY <3>1, <3>2, <3>3 DEF ClockInv, Sampling, Cleaning
    <3>4. CASE phase \in Cleaning
      <4>1. now' <= Window + Grace
        BY <3>1, <3>4 DEF ClockInv, TypeOK
      <4> QED
        BY <3>1, <3>4, <4>1 DEF ClockInv, Sampling, Cleaning
    <3>5. CASE phase \in {"connecting", "exit"}
      BY <3>1, <3>5 DEF ClockInv, Sampling, Cleaning
    <3> QED
      BY <1>7, <3>3, <3>4, <3>5 DEF Tick, TypeOK, Phases
  <2>3. SocketInv'
    BY <1>7 DEF Tick, Await, TimerDue, server, SocketInv, TypeOK, Sampling, Cleaning, AfterSampling
  <2>4. ReadingInv'
    BY <1>7 DEF Tick, Await, TimerDue, server, ReadingInv, TypeOK, Setup
  <2> QED
    BY <2>1, <2>2, <2>3, <2>4 DEF SamplerInv
<1>8. ASSUME Ping PROVE SamplerInv'
  <2>1. TypeOK'
    BY <1>8 DEF Ping, Await, Busy, server, TypeOK, Phases, Sampling, Cleaning, Outcomes
  <2>2. ClockInv'
    BY <1>8 DEF Ping, Await, Busy, server, ClockInv, TypeOK, Sampling, Cleaning
  <2>3. SocketInv'
    BY <1>8 DEF Ping, Await, Busy, server, SocketInv, TypeOK, Sampling, Cleaning, AfterSampling
  <2>4. ReadingInv'
    BY <1>8 DEF Ping, Await, Busy, server, ReadingInv, TypeOK, Setup
  <2> QED
    BY <2>1, <2>2, <2>3, <2>4 DEF SamplerInv
<1>9. ASSUME UnsubscribeEnds PROVE SamplerInv'
  <2>1. TypeOK'
    BY <1>9 DEF UnsubscribeEnds, BeginClose, Await, server, TypeOK, Phases, Sampling, Cleaning, Outcomes
  <2>2. ClockInv'
    BY <1>9 DEF UnsubscribeEnds, BeginClose, Await, server, ClockInv, TypeOK, Sampling, Cleaning
  <2>3. SocketInv'
    BY <1>9 DEF UnsubscribeEnds, BeginClose, Await, server, SocketInv, TypeOK, Sampling, Cleaning, AfterSampling
  <2>4. ReadingInv'
    BY <1>9 DEF UnsubscribeEnds, BeginClose, Await, server, ReadingInv, TypeOK, Setup
  <2> QED
    BY <2>1, <2>2, <2>3, <2>4 DEF SamplerInv
<1>10. ASSUME CloseEnds PROVE SamplerInv'
  <2>1. TypeOK'
    BY <1>10 DEF CloseEnds, Await, Released, server, TypeOK, Phases, Sampling, Cleaning, Outcomes
  <2>2. ClockInv'
    BY <1>10 DEF CloseEnds, Await, Released, server, ClockInv, TypeOK, Sampling, Cleaning
  <2>3. SocketInv'
    BY <1>10 DEF CloseEnds, Await, Released, server, SocketInv, TypeOK, Sampling, Cleaning, AfterSampling
  <2>4. ReadingInv'
    BY <1>10 DEF CloseEnds, Await, Released, server, ReadingInv, TypeOK, Setup
  <2> QED
    BY <2>1, <2>2, <2>3, <2>4 DEF SamplerInv
<1>11. ASSUME ExitEnds PROVE SamplerInv'
  <2>1. TypeOK'
    BY <1>11 DEF ExitEnds, Await, Released, server, TypeOK, Phases, Sampling, Cleaning, Outcomes
  <2>2. ClockInv'
    BY <1>11 DEF ExitEnds, Await, Released, server, ClockInv, TypeOK, Sampling, Cleaning
  <2>3. SocketInv'
    BY <1>11 DEF ExitEnds, Await, Released, server, SocketInv, TypeOK, Sampling, Cleaning, AfterSampling
  <2>4. ReadingInv'
    BY <1>11 DEF ExitEnds, Await, Released, server, ReadingInv, TypeOK, Setup
  <2> QED
    BY <2>1, <2>2, <2>3, <2>4 DEF SamplerInv
<1>12. ASSUME CancelCleanup PROVE SamplerInv'
  <2>1. TypeOK'
    BY <1>12 DEF CancelCleanup, Await, Released, server, TypeOK, Phases, Sampling, Cleaning, Outcomes
  <2>2. ClockInv'
    BY <1>12 DEF CancelCleanup, Await, Released, server, ClockInv, TypeOK, Sampling, Cleaning
  <2>3. SocketInv'
    BY <1>12 DEF CancelCleanup, Await, Released, server, SocketInv, TypeOK, Sampling, Cleaning, AfterSampling
  <2>4. ReadingInv'
    BY <1>12 DEF CancelCleanup, Await, Released, server, ReadingInv, TypeOK, Setup
  <2> QED
    BY <2>1, <2>2, <2>3, <2>4 DEF SamplerInv
<1>13. ASSUME SubscribeSent PROVE SamplerInv'
  <2>1. now' \in Nat /\ now' <= Window + Grace
    BY <1>13 DEF SubscribeSent, ClockInv, TypeOK, Sampling
  <2>2. LoopTop /\ phase \in {"subscribe", "recv", "pong", "notify"} /\ subscribed' \in BOOLEAN
        /\ UNCHANGED <<collected, cancelled, reports, ended>>
    BY <1>13 DEF SubscribeSent, server, TypeOK
  <2> QED
    BY <2>1, <2>2, BackToLoopTop
<1>14. ASSUME Notified PROVE SamplerInv'
  <2>1. now' \in Nat /\ now' <= Window + Grace
    BY <1>14 DEF Notified, Busy, ClockInv, TypeOK, Sampling
  <2>2. LoopTop /\ phase \in {"subscribe", "recv", "pong", "notify"} /\ subscribed' \in BOOLEAN
        /\ UNCHANGED <<collected, cancelled, reports, ended>>
    BY <1>14 DEF Notified, server, TypeOK
  <2> QED
    BY <2>1, <2>2, BackToLoopTop
<1>15. ASSUME KeylessFrame PROVE SamplerInv'
  <2>1. now' \in Nat /\ now' <= Window + Grace
    BY <1>15 DEF KeylessFrame, Busy, ClockInv, TypeOK, Sampling
  <2>2. LoopTop /\ phase \in {"subscribe", "recv", "pong", "notify"} /\ subscribed' \in BOOLEAN
        /\ UNCHANGED <<collected, cancelled, reports, ended>>
    BY <1>15 DEF KeylessFrame, server, TypeOK
  <2> QED
    BY <2>1, <2>2, BackToLoopTop
<1>16. ASSUME IgnoredFrame PROVE SamplerInv'
  <2>1. now' \in Nat /\ now' <= Window + Grace
    BY <1>16 DEF IgnoredFrame, Busy, ClockInv, TypeOK, Sampling
  <2>2. LoopTop /\ phase \in {"subscribe", "recv", "pong", "notify"} /\ subscribed' \in BOOLEAN
        /\ UNCHANGED <<collected, cancelled, reports, ended>>
    BY <1>16 DEF IgnoredFrame, server, TypeOK
  <2> QED
    BY <2>1, <2>2, BackToLoopTop
<1>17. ASSUME PongSent PROVE SamplerInv'
  <2>1. now' \in Nat /\ now' <= Window + Grace
    BY <1>17 DEF PongSent, Busy, ClockInv, TypeOK, Sampling
  <2>2. LoopTop /\ phase \in {"subscribe", "recv", "pong", "notify"} /\ subscribed' \in BOOLEAN
        /\ UNCHANGED <<collected, cancelled, reports, ended>>
    BY <1>17 DEF PongSent, server, TypeOK
  <2> QED
    BY <2>1, <2>2, BackToLoopTop
<1>18. ASSUME NEW o \in {"auth", "connection", "crash", "graphql"}, phase \in Sampling, Fails(o), UNCHANGED server PROVE SamplerInv'
  <2>1. now' \in Nat /\ now' <= Window + Grace /\ ~cancelled
    BY <1>18 DEF Fails, ClockInv, SocketInv, TypeOK, Sampling
  <2>2. Cleanup(o, FALSE, subscribed, now')
    BY <1>18 DEF Fails
  <2>3. /\ o \in Outcomes \ {"none"} /\ o # "sampled"
        /\ subscribed \in BOOLEAN /\ UNCHANGED <<collected, reports, cancelled, subscribed, ended>>
    BY <1>18 DEF Fails, Outcomes, server, TypeOK
  <2> QED
    BY <1>18, <2>1, <2>2, <2>3, EndWithoutReading DEF TypeOK
<1>19. ASSUME HandshakeRefused PROVE SamplerInv'
  BY <1>19, <1>18 DEF HandshakeRefused, Sampling
<1>20. ASSUME SubscribeFails PROVE SamplerInv'
  BY <1>20, <1>18 DEF SubscribeFails, Sampling
<1>21. ASSUME BadFrame PROVE SamplerInv'
  BY <1>21, <1>18 DEF BadFrame, Sampling
<1>22. ASSUME HandshakeExpires PROVE SamplerInv'
  BY <1>22, <1>18 DEF HandshakeExpires, Sampling
<1>23. ASSUME PeerCloses PROVE SamplerInv'
  <2>1. now' \in Nat /\ now' <= Window + Grace /\ ~cancelled /\ phase \in Sampling
        /\ UNCHANGED <<collected, reports, cancelled, subscribed, ended>>
    BY <1>23 DEF PeerCloses, ClosedInLoop, ClockInv, SocketInv, TypeOK, Sampling, server
  <2>2. CASE collected # {}
    <3>1. Cleanup("sampled", TRUE, subscribed, now')
      BY <1>23, <2>2 DEF PeerCloses, ClosedInLoop
    <3> QED
      BY <2>1, <3>1, EndWithoutReading DEF TypeOK, Outcomes
  <2>3. CASE collected = {}
    <3>1. Cleanup("connection", FALSE, subscribed, now')
      BY <1>23, <2>3 DEF PeerCloses, ClosedInLoop
    <3> QED
      BY <2>1, <3>1, EndWithoutReading DEF TypeOK, Outcomes
  <2> QED
    BY <2>2, <2>3
<1>24. ASSUME StreamEnds PROVE SamplerInv'
  <2>1. now' \in Nat /\ now' <= Window + Grace /\ phase \in Sampling
        /\ UNCHANGED <<collected, reports, subscribed>> /\ ended' \in BOOLEAN /\ cancelled' \in BOOLEAN
    BY <1>24 DEF StreamEnds, ClockInv, TypeOK, Sampling, server
  <2>2. Cleanup("sampled", FALSE, subscribed, now')
    BY <1>24 DEF StreamEnds
  <2>3. /\ cancelled' => "sampled" = "cancelled"
        /\ "sampled" = "sampled" => FALSE \/ ended'
    BY <1>24 DEF StreamEnds, SocketInv, Sampling
  <2> QED
    BY <2>1, <2>2, <2>3, EndWithoutReading DEF TypeOK, Outcomes
<1>25. ASSUME LoopExpires PROVE SamplerInv'
  <2>1. now' \in Nat /\ now' <= Window + Grace /\ phase \in Sampling
        /\ UNCHANGED <<collected, reports, subscribed>> /\ ended' \in BOOLEAN /\ cancelled' \in BOOLEAN
    BY <1>25 DEF LoopExpires, ClockInv, TypeOK, Sampling, server
  <2>2. Cleanup("sampled", TRUE, subscribed, now')
    BY <1>25 DEF LoopExpires
  <2>3. /\ cancelled' => "sampled" = "cancelled"
        /\ "sampled" = "sampled" => TRUE \/ ended'
    BY <1>25 DEF LoopExpires, SocketInv, Sampling
  <2> QED
    BY <2>1, <2>2, <2>3, EndWithoutReading DEF TypeOK, Outcomes
<1>26. ASSUME CancelSampling PROVE SamplerInv'
  <2>1. now' \in Nat /\ now' <= Window + Grace /\ phase \in Sampling
        /\ UNCHANGED <<collected, reports, subscribed>> /\ ended' \in BOOLEAN /\ cancelled' \in BOOLEAN
    BY <1>26 DEF CancelSampling, ClockInv, TypeOK, Sampling, server
  <2>2. Cleanup("cancelled", FALSE, subscribed, now')
    BY <1>26 DEF CancelSampling
  <2>3. /\ cancelled' => "cancelled" = "cancelled"
        /\ "cancelled" = "sampled" => FALSE \/ ended'
    BY <1>26 DEF CancelSampling, SocketInv, Sampling
  <2> QED
    BY <2>1, <2>2, <2>3, EndWithoutReading DEF TypeOK, Outcomes
<1>27. ASSUME NEW id \in Ids, NewReading(id) PROVE SamplerInv'
  <2>0. /\ StatsKey(id) \in Ids /\ StatsKey(id) = [of |-> id.of, escaped |-> FALSE]
        /\ id.of \in Containers
    BY <1>27 DEF StatsKey, Ids
  <2>1. ~\E r \in collected : r.of = id.of
    BY <1>27, <2>0 DEF NewReading, Has, ReadingInv
  <2>2. reports[id.of] = 0 /\ reports' = [reports EXCEPT ![id.of] = 1]
    <3>1. reports[id.of] \in Nat /\ ~(reports[id.of] > 0)
      BY <2>0, <2>1 DEF ReadingInv, TypeOK
    <3>2. reports' = [reports EXCEPT ![id.of] = reports[id.of] + 1]
      BY <1>27 DEF NewReading, Delivers
    <3>3. reports[id.of] = 0
      BY <3>1
    <3> QED
      BY <3>2, <3>3
  <2>3. Reading(id) \in Readings /\ Reading(id).nth = 1 /\ Reading(id).of = id.of
        /\ Reading(id).key = [of |-> id.of, escaped |-> FALSE]
    BY <2>0, <2>2 DEF Reading, Readings
  <2>4. /\ phase = "recv" /\ phase' = "notify" /\ timer' = Window
        /\ now' \in Nat /\ now' <= Window + Step
        /\ collected' = collected \cup {Reading(id)}
        /\ UNCHANGED <<cleanupBy, subscribed, socket, hit, pending, sampledAt, cancelled, ended>>
    BY <1>27 DEF NewReading, Delivers, Busy, Await, ClockInv, TypeOK
  <2>5. TypeOK'
    BY <2>0, <2>2, <2>3, <2>4 DEF TypeOK, Phases, Sampling
  <2>6. ClockInv'
    BY <2>4 DEF ClockInv, Sampling, Cleaning
  <2>7. SocketInv'
    BY <2>4 DEF SocketInv, Sampling, Cleaning, AfterSampling
  <2>8. ReadingInv'
    <3>1. \A k \in Containers : reports'[k] > 0 => \E r \in collected' : r.of = k
      BY <2>0, <2>2, <2>3, <2>4 DEF ReadingInv, TypeOK
    <3>2. \A r \in collected' : reports'[r.of] > 0
      BY <2>0, <2>2, <2>3, <2>4 DEF ReadingInv, TypeOK, Readings
    <3> QED
      BY <2>3, <2>4, <3>1, <3>2 DEF ReadingInv, Setup, SocketInv, Sampling
  <2> QED
    BY <2>5, <2>6, <2>7, <2>8 DEF SamplerInv
<1>28. ASSUME NEW id \in Ids, RepeatedReading(id) PROVE SamplerInv'
  <2>0. id.of \in Containers /\ phase = "recv" /\ phase \in Sampling
    BY <1>28 DEF Ids, RepeatedReading, Sampling
  <2>1. reports[id.of] > 0
    <3>1. PICK r \in collected : r.key = [of |-> id.of, escaped |-> FALSE]
      BY <1>28 DEF RepeatedReading, Has, StatsKey
    <3>2. r.key = [of |-> r.of, escaped |-> FALSE] /\ reports[r.of] > 0
      BY DEF ReadingInv
    <3>3. r.key.of = id.of /\ r.key.of = r.of
      BY <3>1, <3>2
    <3> QED
      BY <3>2, <3>3
  <2>2. \A k \in Containers : reports[k] > 0
    BY <1>28, <2>0, <2>1 DEF RepeatedReading, Delivers, Due, TypeOK
  <2>3. \A k \in Containers : \E r \in collected : r.of = k
    BY <2>2 DEF ReadingInv
  <2>4. /\ reports' \in [Containers -> Nat]
        /\ reports' = [reports EXCEPT ![id.of] = reports[id.of] + 1]
        /\ UNCHANGED <<collected, subscribed, cancelled, ended>>
        /\ Cleanup("sampled", FALSE, subscribed, now')
    <3>1. reports' = [reports EXCEPT ![id.of] = reports[id.of] + 1]
      BY <1>28 DEF RepeatedReading, Delivers
    <3>2. reports' \in [Containers -> Nat]
      BY <2>0, <3>1 DEF TypeOK
    <3> QED
      BY <1>28, <3>1, <3>2 DEF RepeatedReading, Delivers
  <2>5. now' \in Nat /\ now' <= Window + Grace /\ ~cancelled
    BY <1>28, <2>0 DEF RepeatedReading, Busy, ClockInv, SocketInv, TypeOK
  <2>6. /\ TypeOK' /\ ClockInv' /\ SocketInv' /\ pending' = "sampled" /\ hit' = FALSE
        /\ phase' \in Cleaning
    BY <2>0, <2>4, <2>5, EndOfSampling DEF TypeOK, Outcomes
  <2>7. \A k \in Containers : reports'[k] > 0
    BY <2>0, <2>2, <2>4 DEF TypeOK
  <2>8. ReadingInv'
    BY <2>3, <2>4, <2>6, <2>7 DEF ReadingInv, Setup, Cleaning, TypeOK, Readings
  <2> QED
    BY <2>6, <2>8 DEF SamplerInv
<1>29. ASSUME CleanupExpires PROVE SamplerInv'
  BY <1>29, <1>9, <1>10, <1>11 DEF CleanupExpires
<1>30. ASSUME UNCHANGED vars PROVE SamplerInv'
  <2>1. TypeOK'
    BY <1>30 DEF vars, TypeOK, Phases, Sampling, Cleaning, Outcomes
  <2>2. ClockInv'
    BY <1>30 DEF vars, ClockInv, TypeOK, Sampling, Cleaning
  <2>3. SocketInv'
    BY <1>30 DEF vars, SocketInv, TypeOK, Sampling, Cleaning, AfterSampling
  <2>4. ReadingInv'
    BY <1>30 DEF vars, ReadingInv, TypeOK, Setup
  <2> QED
    BY <2>1, <2>2, <2>3, <2>4 DEF SamplerInv
<1> QED
  BY <1>1, <1>2, <1>3, <1>4, <1>5, <1>6, <1>7, <1>8, <1>9, <1>10, <1>11, <1>12, <1>13, <1>14, <1>15, <1>16, <1>17, <1>18, <1>19, <1>20, <1>21, <1>22, <1>23, <1>24, <1>25, <1>26, <1>27, <1>28, <1>29, <1>30 DEF Next, Expire

(* The timers, the socket and the readings of fetch_container_stats keep     *)
(* the inductive invariant.                                                 *)
THEOREM SamplerInvariant == Spec => []SamplerInv
<1> QED
  BY InitInv, StepInv, PTL DEF Spec

(* The variables keep their types, for every window and every set of        *)
(* containers (the state of fetch_container_stats and sample_subscription). *)
THEOREM TypeCorrect == Spec => []TypeOK
<1>1. SamplerInv => TypeOK
  BY DEF SamplerInv
<1> QED
  BY <1>1, SamplerInvariant, PTL

(* The call never lasts longer than window + two grace periods              *)
(* (operation_deadline, bounded_connection).                                *)
THEOREM CallIsBounded == Spec => []CallBounded
<1>1. SamplerInv => CallBounded
  BY DEF SamplerInv, ClockInv, CallBounded
<1> QED
  BY <1>1, SamplerInvariant, PTL

(* No way out of the call leaves its socket behind (_WebsocketsTransport).  *)
THEOREM SocketIsReleased == Spec => []SocketReleased
<1>1. SamplerInv => SocketReleased
  BY DEF SamplerInv, SocketInv, SocketReleased
<1> QED
  BY <1>1, SamplerInvariant, PTL

(* A cancelled call reports the cancellation (subscriptions.py:239-244).    *)
THEOREM CancellationPropagates == Spec => []CancelPropagates
<1>1. SamplerInv => CancelPropagates
  BY DEF SamplerInv, SocketInv, CancelPropagates, Returned
<1> QED
  BY <1>1, SamplerInvariant, PTL

(* A snapshot not marked partial has every container, if the server reports *)
(* every container before it repeats one (_stats_complete).                 *)
THEOREM SnapshotIsComplete == Spec => []SnapshotCoversCycle
<1>1. SamplerInv => SnapshotCoversCycle
  <2> SUFFICES ASSUME SamplerInv, phase = "done", Returned = "snapshot", ~ended
               PROVE  {r.of : r \in collected} = Containers
    BY DEF SnapshotCoversCycle
  <2>1. pending = "sampled" /\ ~hit
    BY DEF Returned, SamplerInv, TypeOK, Outcomes
  <2>2. \A k \in Containers : \E r \in collected : r.of = k
    BY <2>1 DEF SamplerInv, ReadingInv
  <2>3. \A r \in collected : r.of \in Containers
    BY DEF SamplerInv, TypeOK, Readings
  <2> QED
    BY <2>2, <2>3
<1> QED
  BY <1>1, SamplerInvariant, PTL

(* A container has one kept reading, its first (_stats_key).                *)
THEOREM ReadingsAreFirst == Spec => [](NoDoubleCount /\ FirstReadingKept)
<1>1. SamplerInv => NoDoubleCount /\ FirstReadingKept
  <2> SUFFICES ASSUME SamplerInv PROVE NoDoubleCount /\ FirstReadingKept
    OBVIOUS
  <2>1. \A r \in collected :
          r = [key |-> [of |-> r.of, escaped |-> FALSE], of |-> r.of, nth |-> 1]
    <3> SUFFICES ASSUME NEW r \in collected
                 PROVE  r = [key |-> [of |-> r.of, escaped |-> FALSE], of |-> r.of, nth |-> 1]
      OBVIOUS
    <3>1. r = [key |-> r.key, of |-> r.of, nth |-> r.nth]
      BY DEF SamplerInv, TypeOK, Readings
    <3>2. r.key = [of |-> r.of, escaped |-> FALSE] /\ r.nth = 1
      BY DEF SamplerInv, ReadingInv
    <3> QED
      BY <3>1, <3>2
  <2>2. NoDoubleCount
    BY <2>1 DEF NoDoubleCount
  <2> QED
    BY <2>2 DEF SamplerInv, ReadingInv, FirstReadingKept
<1> QED
  BY <1>1, SamplerInvariant, PTL

(* No frame received after the window is sampled (subscriptions.py:155).    *)
THEOREM NoLateReading == Spec => ReadsWithinWindow
<1>1. SamplerInv /\ [Next]_vars => (collected' # collected => now <= Window)
  <2> SUFFICES ASSUME SamplerInv, Next, collected' # collected PROVE now <= Window
    BY DEF vars
  <2>1. PICK id \in Ids : NewReading(id)
    BY DEF Next, Connected, ConnectFails, InitSent, Acknowledged, HandshakeRefused,
           SubscribeSent, SubscribeFails, RepeatedReading, Notified, KeylessFrame,
           IgnoredFrame, Ping, PongSent, StreamEnds, BadFrame, PeerCloses, ClosedInLoop,
           Fails, UnsubscribeEnds, CloseEnds, ExitEnds, Expire, SetupExpires,
           HandshakeExpires, LoopExpires, CleanupExpires, CancelCleanup,
           CancelSampling, CancelSetup, Tick
  <2> QED
    BY <2>1 DEF NewReading, SamplerInv, ClockInv
<1> QED
  BY <1>1, SamplerInvariant, PTL DEF Spec, ReadsWithinWindow

(* How sampling ended stays what is reported, whatever the cleanup and the  *)
(* exit run into, except that the caller's cancellation takes its place.    *)
THEOREM OutcomeIsKept == Spec => PrimaryOutcomeKept
<1> DEFINE Kept == pending' = pending \/ (cancelled' /\ pending' = "cancelled")
<1>1. SamplerInv /\ [Next]_vars => (pending # "none" => Kept)
  <2> SUFFICES ASSUME SamplerInv, Next, pending # "none" PROVE Kept
    BY DEF vars
  <2>1. phase \notin Sampling \cup {"connecting"}
    BY DEF SamplerInv, SocketInv
  <2>2. UnsubscribeEnds \/ CloseEnds \/ ExitEnds \/ CancelCleanup \/ Tick
    BY <2>1 DEF Next, Sampling, Connected, ConnectFails, InitSent, Acknowledged,
           HandshakeRefused, SubscribeSent, SubscribeFails, NewReading, RepeatedReading,
           Notified, KeylessFrame, IgnoredFrame, Ping, PongSent, StreamEnds, BadFrame,
           PeerCloses, Expire, SetupExpires, HandshakeExpires, LoopExpires,
           CleanupExpires, CancelSampling, CancelSetup
  <2> QED
    BY <2>2 DEF UnsubscribeEnds, CloseEnds, ExitEnds, CancelCleanup, Tick
<1> QED
  BY <1>1, SamplerInvariant, PTL DEF Spec, PrimaryOutcomeKept
=============================================================================
