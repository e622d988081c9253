------------------------------ MODULE Autostart ------------------------------
(***************************************************************************)
(* Concurrent set_docker_autostart calls on one client                     *)
(* (do_set_docker_autostart in tools/docker.py).                           *)
(*                                                                         *)
(* The server's mutation replaces the whole autostart list, so a call      *)
(* takes the client's lock, reads the list, merges its changes into what   *)
(* it read and writes the result back.  Requests are awaited: between two  *)
(* steps of a call any other call, the server, the network or a            *)
(* cancellation may act.                                                   *)
(***************************************************************************)
EXTENDS AutostartMerge

CONSTANTS
  Calls,        \* the tool calls
  NoCall,       \* nobody: a free lock
  Requests,     \* the arguments the calls are made with
  LateWrites,   \* TRUE: a write whose caller gave up may still be applied
  ForeignLists  \* the lists another program (the web interface) may store

ASSUME NoCallType == NoCall \notin Calls
ASSUME RequestsType == Requests \subseteq RequestType
ASSUME LateWritesType == LateWrites \in BOOLEAN
ASSUME ForeignListsType == \A b \in ForeignLists : b \in BootLists /\ WellOrdered(b)

VARIABLES
  boot,    \* the server: the autostart list
  write,   \* the server: what became of each call's write request
  lock,    \* the call that holds the client's lock
  pc,      \* where each call is
  ahead,   \* the calls that queued for the lock before this one
  req,     \* each call's arguments
  snap,    \* the answer to each call's read
  setBy    \* history: the last applied write that named each container

vars == <<boot, write, lock, pc, ahead, req, snap, setBy>>
serverVars == <<boot, write, setBy>>

Phases == {"idle", "queued", "reading", "fetched", "writing",
           "ok", "rejected", "failed"}
Ended == {"ok", "rejected", "failed"}
InSection == {"reading", "fetched", "writing"}
Snapshots == [known: SUBSET Containers, boot: BootLists, errors: BOOLEAN]
NoSnapshot == [known |-> {}, boot |-> EmptyList, errors |-> FALSE]

Payload(c) == MergeAutostart(snap[c].boot, req[c], snap[c].known)

Init ==
  /\ boot \in {b \in BootLists : WellOrdered(b)}
  /\ write = [c \in Calls |-> "none"]
  /\ lock = NoCall
  /\ pc = [c \in Calls |-> "idle"]
  /\ ahead = [c \in Calls |-> {}]
  /\ req \in [Calls -> Requests]
  /\ snap = [c \in Calls |-> NoSnapshot]
  /\ setBy = [k \in Containers |-> NoCall]

-----------------------------------------------------------------------------
(* The lock: an asyncio.Lock, which serves its waiters in order of arrival. *)

Queued == {c \in Calls : pc[c] = "queued"}
LockFree == lock = NoCall

RejectArguments(c) ==
  /\ pc[c] = "idle"
  /\ ~ValidateArguments(req[c])
  /\ pc' = [pc EXCEPT ![c] = "rejected"]
  /\ UNCHANGED <<serverVars, lock, ahead, req, snap>>

(* Mutant: a free-looking lock is not checked. *)
Acquire_Unlocked(c) ==
  /\ pc[c] = "idle"
  /\ ValidateArguments(req[c])
  /\ lock' = c
  /\ pc' = [pc EXCEPT ![c] = "reading"]
  /\ UNCHANGED <<serverVars, ahead, req, snap>>

Acquire(c) ==
  /\ pc[c] = "idle"
  /\ ValidateArguments(req[c])
  /\ LockFree /\ Queued = {}
  /\ lock' = c
  /\ pc' = [pc EXCEPT ![c] = "reading"]
  /\ UNCHANGED <<serverVars, ahead, req, snap>>

Enqueue(c) ==
  /\ pc[c] = "idle"
  /\ ValidateArguments(req[c])
  /\ ~LockFree \/ Queued # {}
  /\ ahead' = [ahead EXCEPT ![c] = Queued]
  /\ pc' = [pc EXCEPT ![c] = "queued"]
  /\ UNCHANGED <<serverVars, lock, req, snap>>

Grant(c) ==
  /\ pc[c] = "queued"
  /\ LockFree /\ ahead[c] \cap Queued = {}
  /\ lock' = c
  /\ pc' = [pc EXCEPT ![c] = "reading"]
  /\ UNCHANGED <<serverVars, ahead, req, snap>>

(* Mutant: an exception leaves the lock held. *)
Leave_LeaksLock(c, outcome) ==
  /\ pc' = [pc EXCEPT ![c] = outcome]
  /\ lock' = IF lock = c /\ outcome = "ok" THEN NoCall ELSE lock
  /\ snap' = IF write[c] = "none" THEN [snap EXCEPT ![c] = NoSnapshot] ELSE snap

(* Leaving the "async with" block, by its end or by an exception, frees     *)
(* the lock; what was read lives on only in a request that was sent.        *)
Leave(c, outcome) ==
  /\ pc' = [pc EXCEPT ![c] = outcome]
  /\ lock' = IF lock = c THEN NoCall ELSE lock
  /\ snap' = IF write[c] = "none" THEN [snap EXCEPT ![c] = NoSnapshot] ELSE snap

-----------------------------------------------------------------------------
(* The read: the server may answer with every container, with GraphQL       *)
(* errors beside some of them (their fields are null), or with no           *)
(* containers at all and no error.                                          *)

FullRead == [known |-> Containers, boot |-> boot, errors |-> FALSE]

Restricted(b, S) ==
  [on |-> b.on \cap S,
   before |-> {p \in b.before : p[1] \in S /\ p[2] \in S},
   wait |-> [k \in Containers |-> IF k \in S THEN b.wait[k] ELSE NoWait]]

PartialReads ==
  {[known |-> S, boot |-> Restricted(boot, S), errors |-> TRUE] :
     S \in SUBSET Containers}

ServerRead(c) ==
  /\ pc[c] = "reading"
  /\ \E answer \in {FullRead, NoSnapshot} \cup PartialReads :
       snap' = [snap EXCEPT ![c] = answer]
  /\ pc' = [pc EXCEPT ![c] = "fetched"]
  /\ UNCHANGED <<serverVars, lock, ahead, req>>

(* _execute_strict: any GraphQL error fails the read, partial data or not. *)
ReadErrors(c) ==
  /\ pc[c] = "fetched"
  /\ snap[c].errors
  /\ Leave(c, "failed")
  /\ UNCHANGED <<serverVars, ahead, req>>

RejectMerge(c) ==
  /\ pc[c] = "fetched"
  /\ ~snap[c].errors
  /\ ~Accepts(snap[c].boot, req[c], snap[c].known)
  /\ Leave(c, "rejected")
  /\ UNCHANGED <<serverVars, ahead, req>>

(* Mutant: partial data is good enough. *)
SendWrite_Partial(c) ==
  /\ pc[c] = "fetched"
  /\ Accepts(snap[c].boot, req[c], snap[c].known)
  /\ write' = [write EXCEPT ![c] = "inflight"]
  /\ pc' = [pc EXCEPT ![c] = "writing"]
  /\ UNCHANGED <<boot, setBy, lock, ahead, req, snap>>

SendWrite(c) ==
  /\ pc[c] = "fetched"
  /\ ~snap[c].errors
  /\ Accepts(snap[c].boot, req[c], snap[c].known)
  /\ write' = [write EXCEPT ![c] = "inflight"]
  /\ pc' = [pc EXCEPT ![c] = "writing"]
  /\ UNCHANGED <<boot, setBy, lock, ahead, req, snap>>

-----------------------------------------------------------------------------
(* The write *)

ServerApply(c) ==
  /\ write[c] = "inflight"
  /\ boot' = Payload(c)
  /\ write' = [write EXCEPT ![c] = "applied"]
  /\ setBy' = [k \in Containers |->
                 IF k \in Named(req[c], snap[c].known) THEN c ELSE setBy[k]]
  /\ UNCHANGED <<lock, pc, ahead, req, snap>>

(* A GraphQL error, or a result that is not true. *)
ServerDecline(c) ==
  /\ write[c] = "inflight"
  /\ write' = [write EXCEPT ![c] = "declined"]
  /\ UNCHANGED <<boot, setBy, lock, pc, ahead, req, snap>>

(* Mutant: any answer is success. *)
WriteReply_Unchecked(c) ==
  /\ pc[c] = "writing"
  /\ write[c] \in {"applied", "declined"}
  /\ Leave(c, "ok")
  /\ UNCHANGED <<serverVars, ahead, req>>

(* Mutant: a refused update is reported as a rejection.                     *)
WriteReply_Rejects(c) ==
  /\ pc[c] = "writing"
  /\ \/ write[c] = "applied" /\ Leave(c, "ok")
     \/ write[c] = "declined" /\ Leave(c, "rejected")
  /\ UNCHANGED <<serverVars, ahead, req>>

WriteReply(c) ==
  /\ pc[c] = "writing"
  /\ \/ write[c] = "applied" /\ Leave(c, "ok")
     \/ write[c] = "declined" /\ Leave(c, "failed")
  /\ UNCHANGED <<serverVars, ahead, req>>

(* The caller stops waiting.  With LateWrites the request it sent lives on. *)
GiveUp(c) ==
  /\ Leave(c, "failed")
  /\ write' = IF write[c] = "inflight" /\ ~LateWrites
              THEN [write EXCEPT ![c] = "lost"] ELSE write
  /\ UNCHANGED <<boot, setBy, ahead, req>>

(* A timeout or a transport error while an answer is awaited. *)
RequestFails(c) ==
  /\ pc[c] \in InSection
  /\ GiveUp(c)

(* The client of the tool cancels the call, waiting or not. *)
Cancel(c) ==
  /\ pc[c] \in InSection \cup {"queued"}
  /\ GiveUp(c)

(* Another program stores a list of its own. *)
ForeignWrite ==
  /\ \E b \in ForeignLists :
       /\ boot' = b
       /\ setBy' = [k \in Containers |->
                      IF SameSetting(boot, b, k) THEN setBy[k] ELSE NoCall]
  /\ UNCHANGED <<write, lock, pc, ahead, req, snap>>

-----------------------------------------------------------------------------
CallStep(c) ==
  \/ RejectArguments(c) \/ Acquire(c) \/ Enqueue(c) \/ Grant(c)
  \/ ReadErrors(c) \/ RejectMerge(c) \/ SendWrite(c) \/ WriteReply(c)
  \/ RequestFails(c) \/ Cancel(c)

ServerStep(c) == ServerRead(c) \/ ServerApply(c) \/ ServerDecline(c)

Next == (\E c \in Calls : CallStep(c) \/ ServerStep(c)) \/ ForeignWrite

Spec == Init /\ [][Next]_vars

(* The event loop runs a call that can go on, hands a free lock to the      *)
(* first waiter, and the HTTP client bounds every wait for an answer.       *)
(* Nothing is asked of the server: it may never answer.  (One that answers  *)
(* byte by byte is left out: the bound is on each read, not the request.)   *)
Progress(c) ==
  \/ Grant(c) \/ ReadErrors(c) \/ RejectMerge(c) \/ SendWrite(c)
  \/ WriteReply(c) \/ RequestFails(c)
Fairness == \A c \in Calls : WF_vars(Progress(c))
FairSpec == Spec /\ Fairness

-----------------------------------------------------------------------------
(* Properties *)

(* The variables keep their types: the list, what became of each write, the *)
(* lock of the client and where each call is.                               *)
TypeOK ==
  /\ boot \in BootLists
  /\ write \in [Calls -> {"none", "inflight", "applied", "declined", "lost"}]
  /\ lock \in Calls \cup {NoCall}
  /\ pc \in [Calls -> Phases]
  /\ ahead \in [Calls -> SUBSET Calls]
  /\ req \in [Calls -> Requests]
  /\ snap \in [Calls -> Snapshots]
  /\ setBy \in [Containers -> Calls \cup {NoCall}]

(* The list the server holds is always a list: one order over its members.  *)
BootWellOrdered == WellOrdered(boot)

(* The lock is held by the one call between its read and the end of its     *)
(* write, and by nobody when no call is there: no path, error or            *)
(* cancellation leaves it held or lets a second call in.                    *)
LockHeldBySection == \A c \in Calls : pc[c] \in InSection <=> lock = c

(* What a call is about to write back, or has in flight, was computed from  *)
(* the list the server holds at that moment.                                *)
SnapshotFresh ==
  \A c \in Calls :
    \/ pc[c] = "fetched" /\ ~snap[c].errors /\ snap[c].known # {}
    \/ write[c] = "inflight"
    => snap[c] = [known |-> Containers, boot |-> boot, errors |-> FALSE]

(* "Concurrent calls can't lose each other's updates": each container is as *)
(* the last applied call that named it asked.                               *)
NoLostUpdate ==
  \A k \in Containers :
    setBy[k] # NoCall => Honours(boot, req[setBy[k]], Containers, k)

(* Nothing is written from an incomplete answer: a read with errors or      *)
(* without containers would have the write drop the entries it lacks.       *)
WriteNeedsFullRead ==
  \A c \in Calls :
    write[c] # "none" => ~snap[c].errors /\ snap[c].known = Containers

(* A call the code rejects ("nothing was changed") sent no write.           *)
RejectedSentNothing == \A c \in Calls : pc[c] = "rejected" => write[c] = "none"

(* When a call's write is applied, the containers it does not name keep     *)
(* their setting, and whatever was and stays enabled, named or not, keeps   *)
(* its order unless the call lists it ("the remaining enabled containers    *)
(* keep their relative order").                                             *)
OthersKept ==
  [][\A c \in Calls :
       write[c] = "inflight" /\ write'[c] = "applied" =>
         LET others == Containers \ Named(req[c], Containers)
             unmoved == (boot.on \cap boot'.on) \ Listed(req[c], Containers)
         IN  /\ \A k \in others : SameSetting(boot, boot', k)
             /\ \A x, y \in unmoved :
                  <<x, y>> \in boot.before <=> <<x, y>> \in boot'.before]_vars

(* Every call that was let in or queued ends. *)
EveryCallEnds ==
  \A c \in Calls : pc[c] \in InSection \cup {"queued"} ~> pc[c] \in Ended

-----------------------------------------------------------------------------
(* How a state looks to AtomicAutostart. *)
Stage(c) ==
  IF pc[c] = "idle" THEN "new" ELSE IF pc[c] \in Ended THEN pc[c] ELSE "open"

Atomic == INSTANCE AtomicAutostart WITH
  asked <- req,
  stage <- [c \in Calls |-> Stage(c)],
  merged <- {c \in Calls : write[c] = "applied"}

(* While no write outlives its call and nobody else writes, the interleaved *)
(* calls are the one-step changes of AtomicAutostart.                       *)
CallsAreAtomic == Atomic!Spec
=============================================================================
