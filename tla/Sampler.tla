-------------------------------- MODULE Sampler --------------------------------
(***************************************************************************)
(* One live-statistics sample: fetch_container_stats in tools/docker.py    *)
(* over bounded_connection, sample_subscription and the websocket          *)
(* transport of subscriptions.py.                                          *)
(*                                                                         *)
(* Every await has a timer of its own.  The window that bounds setup and   *)
(* sampling starts with the call; unsubscribing and closing share a grace  *)
(* period that may not reach past window + grace; leaving the connection   *)
(* has a grace period of its own.  Time is counted in ticks.               *)
(***************************************************************************)
EXTENDS Integers, FiniteSets

CONSTANTS
  Containers,  \* the running containers
  Window,      \* STATS_TIMEOUT_S
  Grace,       \* CLEANUP_GRACE_S
  Step         \* the longest a frame is handled without yielding to the event loop

ASSUME WindowType == Window \in Nat \ {0}
ASSUME GraceType == Grace \in Nat
ASSUME StepType == Step \in Nat /\ 2 * Step <= Grace

VARIABLES
  now,         \* the event loop's clock
  phase,       \* what the call awaits
  timer,       \* when that await is given up
  cleanupBy,   \* the deadline of unsubscribing and closing
  subscribed,  \* a subscribe frame may have been sent
  socket,      \* the websocket
  collected,   \* the kept readings, by deduplication key
  hit,         \* deadline_hit
  pending,     \* how sampling ended
  reports,     \* the server: how many readings of each container it delivered
  sampledAt,   \* history: when sampling ended
  ended,       \* history: the server ended the stream itself
  cancelled    \* history: the caller cancelled the call

vars == <<now, phase, timer, cleanupBy, subscribed, socket, collected, hit,
          pending, reports, sampledAt, ended, cancelled>>
server == <<reports, ended>>

Ids == [of: Containers, escaped: BOOLEAN]
Readings == [key: {id \in Ids : ~id.escaped}, of: Containers, nth: Nat]
Sampling == {"init", "ack", "subscribe", "recv", "pong", "notify"}
Cleaning == {"unsubscribe", "closing"}
Phases == {"connecting", "exit", "done"} \cup Sampling \cup Cleaning
Outcomes == {"none", "sampled", "connection", "auth", "graphql", "crash", "cancelled"}

MinOf(a, b) == IF a <= b THEN a ELSE b

Init ==
  /\ now = 0
  /\ phase = "connecting" /\ timer = Window + Grace /\ cleanupBy = 0
  /\ subscribed = FALSE /\ socket = "none"
  /\ collected = {} /\ hit = FALSE /\ pending = "none"
  /\ reports = [k \in Containers |-> 0]
  /\ sampledAt = 0 /\ ended = FALSE /\ cancelled = FALSE

Await(p, deadline) == phase' = p /\ timer' = deadline

(* Handling a frame takes time, but not an await.                           *)
Busy == now' \in now..(now + Step)

-----------------------------------------------------------------------------
(* Ends of sampling: the finally block runs the cleanup whatever happened.  *)

(* Mutant: a call that set up late is granted a whole grace period.         *)
CleanupDeadline_Uncapped(t) == t + Grace
CleanupDeadline(t) == MinOf(Window + Grace, t + Grace)

BeginClose(deadline) == Await("closing", deadline) /\ socket' = "closing"

Cleanup(outcome, deadlineHit, sub, t) ==
  LET limit == CleanupDeadline(t) IN
  /\ pending' = outcome
  /\ hit' = deadlineHit
  /\ sampledAt' = t
  /\ cleanupBy' = limit
  /\ IF sub
     THEN Await("unsubscribe", t + (limit - t) \div 2) /\ UNCHANGED socket
     ELSE BeginClose(limit)

Fails(outcome) ==
  /\ Cleanup(outcome, FALSE, subscribed, now)
  /\ UNCHANGED <<now, subscribed, collected, cancelled>>

(* The peer closed the socket during a frame of the sampling loop.          *)
ClosedInLoop ==
  /\ IF collected # {}
     THEN Cleanup("sampled", TRUE, subscribed, now)
     ELSE Cleanup("connection", FALSE, subscribed, now)
  /\ UNCHANGED <<now, subscribed, collected, cancelled>>

(* The head of the loop: a transport with frames in its buffer never yields,*)
(* so the clock is read here.                                               *)
LoopTop ==
  IF now' >= Window
  THEN Cleanup("sampled", TRUE, TRUE, now')
  ELSE Await("recv", Window) /\ UNCHANGED <<hit, pending, sampledAt, cleanupBy, socket>>

-----------------------------------------------------------------------------
(* Connection setup and handshake *)

Connected ==
  /\ phase = "connecting"
  /\ socket' = "open"
  /\ Await("init", Window)
  /\ UNCHANGED <<now, cleanupBy, subscribed, collected, hit, pending, sampledAt,
                 cancelled, server>>

(* Refused, or given up by websockets' own open timeout: nothing to clean.  *)
ConnectFails ==
  /\ phase = "connecting"
  /\ pending' = "connection"
  /\ Await("done", now)
  /\ UNCHANGED <<now, cleanupBy, subscribed, socket, collected, hit, sampledAt,
                 cancelled, server>>

InitSent ==
  /\ phase = "init"
  /\ Await("ack", Window)
  /\ UNCHANGED <<now, cleanupBy, subscribed, socket, collected, hit, pending,
                 sampledAt, cancelled, server>>

(* subscribed is set before the frame is sent: a send that fails half-way   *)
(* is unsubscribed all the same.                                            *)
Acknowledged ==
  /\ phase = "ack"
  /\ subscribed' = TRUE
  /\ Await("subscribe", Window)
  /\ UNCHANGED <<now, cleanupBy, socket, collected, hit, pending, sampledAt,
                 cancelled, server>>

(* Before the ack: an auth close code or an error frame is an auth error;   *)
(* any other close or frame, or one that is not JSON, a connection error; a *)
(* frame that is not an object raises an error of Python.                   *)
HandshakeRefused ==
  /\ \/ phase = "init" /\ \E outcome \in {"auth", "connection"} : Fails(outcome)
     \/ phase = "ack" /\ \E outcome \in {"auth", "connection", "crash"} : Fails(outcome)
  /\ UNCHANGED server

SubscribeSent ==
  /\ phase = "subscribe"
  /\ UNCHANGED now
  /\ LoopTop
  /\ UNCHANGED <<subscribed, collected, cancelled, server>>

SubscribeFails ==
  /\ phase = "subscribe"
  /\ Fails("connection")
  /\ UNCHANGED server

-----------------------------------------------------------------------------
(* The sampling loop *)

(* Mutant: the id is not cleaned of the escape sequence.                    *)
StatsKey_Raw(id) == id
StatsKey(id) == [of |-> id.of, escaped |-> FALSE]

Has(k) == \E r \in collected : r.key = k
Reading(id) == [key |-> StatsKey(id), of |-> id.of, nth |-> reports[id.of] + 1]

(* The server reports every container once, in any order, then repeats.     *)
Due(k) == \A j \in Containers : reports[j] >= reports[k]
Delivers(id) ==
  /\ Due(id.of)
  /\ reports' = [reports EXCEPT ![id.of] = @ + 1]
  /\ UNCHANGED ended

NewReading(id) ==
  /\ phase = "recv"
  /\ ~Has(StatsKey(id))
  /\ Delivers(id)
  /\ collected' = collected \cup {Reading(id)}
  /\ Busy
  /\ Await("notify", Window)
  /\ UNCHANGED <<cleanupBy, subscribed, socket, hit, pending, sampledAt, cancelled>>

(* is_complete: a container repeats, so a cycle has been seen.              *)
RepeatedReading(id) ==
  /\ phase = "recv"
  /\ Has(StatsKey(id))
  /\ Delivers(id)
  /\ Busy
  /\ Cleanup("sampled", FALSE, subscribed, now')
  /\ UNCHANGED <<subscribed, collected, cancelled>>

(* on_new returned or raised: either way sampling goes on.                  *)
Notified ==
  /\ phase = "notify"
  /\ Busy
  /\ LoopTop
  /\ UNCHANGED <<subscribed, collected, cancelled, server>>

(* Mutant: a frame without an id counts as a repeat.                        *)
KeylessFrame_Counts ==
  /\ phase = "recv"
  /\ Busy
  /\ IF collected # {} THEN Cleanup("sampled", FALSE, subscribed, now') ELSE LoopTop
  /\ UNCHANGED <<subscribed, collected, cancelled, server>>

(* A reading without an id says nothing about the cycle.                    *)
KeylessFrame ==
  /\ phase = "recv"
  /\ Busy
  /\ LoopTop
  /\ UNCHANGED <<subscribed, collected, cancelled, server>>

(* A duplicate ack, an unknown type, a type the client does not expect.     *)
IgnoredFrame ==
  /\ phase = "recv"
  /\ Busy
  /\ LoopTop
  /\ UNCHANGED <<subscribed, collected, cancelled, server>>

Ping ==
  /\ phase = "recv"
  /\ Busy
  /\ Await("pong", Window)
  /\ UNCHANGED <<cleanupBy, subscribed, socket, collected, hit, pending, sampledAt,
                 cancelled, server>>

PongSent ==
  /\ phase = "pong"
  /\ Busy
  /\ LoopTop
  /\ UNCHANGED <<subscribed, collected, cancelled, server>>

StreamEnds ==
  /\ phase = "recv"
  /\ ended' = TRUE
  /\ Cleanup("sampled", FALSE, subscribed, now)
  /\ UNCHANGED <<now, subscribed, collected, cancelled, reports>>

(* An error frame, a frame that is not JSON, one of an unexpected shape.    *)
BadFrame ==
  /\ phase = "recv"
  /\ \E outcome \in {"graphql", "connection", "crash"} : Fails(outcome)
  /\ UNCHANGED server

PeerCloses ==
  /\ phase \in {"recv", "pong"}
  /\ ClosedInLoop
  /\ UNCHANGED server

-----------------------------------------------------------------------------
(* Cleanup *)

(* Mutant: an error of the unsubscribe takes the place of the result.       *)
UnsubscribeEnds_Raises ==
  /\ phase = "unsubscribe"
  /\ pending' \in {pending, "connection"}
  /\ BeginClose(cleanupBy)
  /\ UNCHANGED <<now, cleanupBy, subscribed, collected, hit, sampledAt, cancelled, server>>

(* Sent, failed or timed out: the socket is closed next.                    *)
UnsubscribeEnds ==
  /\ phase = "unsubscribe"
  /\ BeginClose(cleanupBy)
  /\ UNCHANGED <<now, cleanupBy, subscribed, collected, hit, pending, sampledAt,
                 cancelled, server>>

(* Mutant: only a close handshake that finished releases the socket.        *)
Released_WhenPeerAnswers == IF socket = "closing" /\ now >= timer THEN socket ELSE "released"

(* close() aborts the socket in a finally block, and starts only once.      *)
Released == "released"

CloseEnds ==
  /\ phase = "closing"
  /\ socket' = Released
  /\ Await("exit", now + Grace)
  /\ UNCHANGED <<now, cleanupBy, subscribed, collected, hit, pending, sampledAt,
                 cancelled, server>>

ExitEnds ==
  /\ phase = "exit"
  /\ socket' = IF socket = "open" THEN Released ELSE socket
  /\ Await("done", now)
  /\ UNCHANGED <<now, cleanupBy, subscribed, collected, hit, pending, sampledAt,
                 cancelled, server>>

-----------------------------------------------------------------------------
(* Timers, cancellation, time *)

TimerDue == now >= timer

SetupExpires ==
  /\ phase = "connecting" /\ TimerDue
  /\ pending' = "connection"
  /\ Await("done", now)
  /\ UNCHANGED <<now, cleanupBy, subscribed, socket, collected, hit, sampledAt,
                 cancelled, server>>

HandshakeExpires ==
  /\ phase \in {"init", "ack", "subscribe"} /\ TimerDue
  /\ Fails("connection")
  /\ UNCHANGED server

LoopExpires ==
  /\ phase \in {"recv", "pong", "notify"} /\ TimerDue
  /\ Cleanup("sampled", TRUE, subscribed, now)
  /\ UNCHANGED <<now, subscribed, collected, cancelled, server>>

(* Mutant: a stalled close is waited for.                                   *)
CleanupExpires_ClosingUnbounded == TimerDue /\ (UnsubscribeEnds \/ ExitEnds)
CleanupExpires == TimerDue /\ (UnsubscribeEnds \/ CloseEnds \/ ExitEnds)

Expire == SetupExpires \/ HandshakeExpires \/ LoopExpires \/ CleanupExpires

(* Mutant: the cleanup swallows the cancellation along with other errors.   *)
CancelCleanup_Swallowed ==
  /\ cancelled' = TRUE
  /\ \/ phase = "unsubscribe" /\ BeginClose(cleanupBy)
     \/ phase = "closing" /\ socket' = Released /\ Await("exit", now + Grace)
     \/ phase = "exit" /\ socket' = Released /\ Await("done", now)
  /\ UNCHANGED <<now, cleanupBy, subscribed, collected, hit, pending, sampledAt, server>>

(* Cancelled while unsubscribing, the sampler's close is never reached: the *)
(* connection's exit closes.                                                *)
CancelCleanup ==
  /\ cancelled' = TRUE
  /\ pending' = "cancelled"
  /\ \/ phase = "unsubscribe" /\ UNCHANGED socket /\ Await("exit", now + Grace)
     \/ phase = "closing" /\ socket' = Released /\ Await("exit", now + Grace)
     \/ phase = "exit" /\ socket' = Released /\ Await("done", now)
  /\ UNCHANGED <<now, cleanupBy, subscribed, collected, hit, sampledAt, server>>

CancelSampling ==
  /\ phase \in Sampling
  /\ cancelled' = TRUE
  /\ Cleanup("cancelled", FALSE, subscribed, now)
  /\ UNCHANGED <<now, subscribed, collected, server>>

CancelSetup ==
  /\ phase = "connecting"
  /\ cancelled' = TRUE
  /\ pending' = "cancelled"
  /\ Await("done", now)
  /\ UNCHANGED <<now, cleanupBy, subscribed, socket, collected, hit, sampledAt, server>>

Tick ==
  /\ phase # "done"
  /\ now < timer
  /\ now' = now + 1
  /\ UNCHANGED <<phase, timer, cleanupBy, subscribed, socket, collected, hit,
                 pending, reports, sampledAt, ended, cancelled>>

Next ==
  \/ Connected \/ ConnectFails \/ InitSent \/ Acknowledged \/ HandshakeRefused
  \/ SubscribeSent \/ SubscribeFails
  \/ \E id \in Ids : NewReading(id) \/ RepeatedReading(id)
  \/ Notified \/ KeylessFrame \/ IgnoredFrame \/ Ping \/ PongSent
  \/ StreamEnds \/ BadFrame \/ PeerCloses
  \/ UnsubscribeEnds \/ CloseEnds \/ ExitEnds
  \/ Expire \/ CancelCleanup \/ CancelSampling \/ CancelSetup \/ Tick

(* The clock advances and a timer that is due fires; nothing else is owed:  *)
(* neither the server nor the network has to do anything.                   *)
Fairness == WF_vars(Tick) /\ WF_vars(Expire)

Spec == Init /\ [][Next]_vars /\ Fairness

-----------------------------------------------------------------------------
(* What the tool returns *)

Returned ==
  IF pending # "sampled" THEN pending
  ELSE IF collected = {} THEN "no_sample"
  ELSE IF hit THEN "partial"
  ELSE "snapshot"

(* The variables keep their types. *)
TypeOK ==
  /\ now \in Nat /\ timer \in Nat /\ cleanupBy \in Nat /\ sampledAt \in Nat
  /\ phase \in Phases
  /\ subscribed \in BOOLEAN /\ hit \in BOOLEAN /\ ended \in BOOLEAN /\ cancelled \in BOOLEAN
  /\ socket \in {"none", "open", "closing", "released"}
  /\ collected \subseteq Readings
  /\ pending \in Outcomes
  /\ reports \in [Containers -> Nat]

(* The call is over by window + two grace periods, whatever the server, the *)
(* network and the progress callback do, a connection made at the last      *)
(* moment included (bounded_connection, _cleanup and operation_deadline).   *)
CallBounded == now <= Window + 2 * Grace

(* A frame received after the window is never sampled, though the transport *)
(* may always have one ready (subscriptions.py:155).                        *)
ReadsWithinWindow == [][collected' # collected => now <= Window]_vars

(* A call that is over has released the socket it opened: on success, after *)
(* a protocol error, after a stalled close handshake and when cancelled at  *)
(* any point of its cleanup.                                                *)
SocketReleased == phase = "done" => socket \in {"none", "released"}

(* A result not marked partial has every container, unless the server ended *)
(* the stream: frames without an id do not pass for the next cycle.         *)
SnapshotCoversCycle ==
  (phase = "done" /\ Returned = "snapshot" /\ ~ended) =>
    {r.of : r \in collected} = Containers

(* No container is counted twice, though its id comes with an escape        *)
(* sequence in some frames and without it in others (_stats_key).           *)
NoDoubleCount == \A r, s \in collected : r.of = s.of => r = s

(* The kept reading of a container is its first (subscriptions.py:186).     *)
FirstReadingKept == \A r \in collected : r.nth = 1

(* A caller's cancellation is never lost to a timer, an error or a result   *)
(* that comes at the same time (subscriptions.py:239-244).                  *)
CancelPropagates == phase = "done" /\ cancelled => Returned = "cancelled"

(* How sampling ended is what is reported: no failure of the cleanup or of  *)
(* the connection's exit takes its place.                                   *)
PrimaryOutcomeKept ==
  [][pending # "none" => pending' = pending \/ (cancelled' /\ pending' = "cancelled")]_vars

(* The call ends, even if the server stays silent or never stops talking.   *)
CallEnds == <>(phase = "done")

=============================================================================
