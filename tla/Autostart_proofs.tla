-------------------------- MODULE Autostart_proofs --------------------------
(***************************************************************************)
(* Theorems about concurrent set_docker_autostart calls, for every set of  *)
(* calls, containers, waits and requests.                                  *)
(***************************************************************************)
EXTENDS Autostart, TLAPS

-----------------------------------------------------------------------------
(* What MergeAutostart guarantees for every set of containers, every        *)
(* well-formed list and every accepted request.                             *)

(* A resolved id is a known container. *)
LEMMA CanonicalIdKnown ==
  ASSUME NEW known, NEW ref, Resolves(ref, known)
  PROVE  CanonicalId(ref, known) \in known
BY DEF Resolves, CanonicalId

(* The containers the changes name and the order lists are containers. *)
LEMMA TargetsAreContainers ==
  ASSUME NEW b, NEW r, Accepts(b, r, Containers)
  PROVE  /\ \A i \in DOMAIN r.changes : Target(r, i, Containers) \in Containers
         /\ Named(r, Containers) \subseteq Containers
         /\ Listed(r, Containers) \subseteq Containers
<1>1. \A i \in DOMAIN r.changes : Target(r, i, Containers) \in Containers
  BY CanonicalIdKnown DEF Accepts, Target
<1>2. \A i \in DOMAIN r.order : CanonicalId(r.order[i], Containers) \in Containers
  BY CanonicalIdKnown DEF Accepts
<1> QED
  BY <1>1, <1>2 DEF Named, Listed

(* The changes of a request, one by one. *)
LEMMA ChangeTypes ==
  ASSUME NEW r \in RequestType
  PROVE  \A i \in DOMAIN r.changes :
           r.changes[i].wait \in Waits \cup {NoWait} /\ r.changes[i].auto \in BOOLEAN
<1>1. r.changes \in Seq(Changes)
  BY DEF RequestType
<1>2. \A i \in DOMAIN r.changes : r.changes[i] \in Changes
  BY <1>1
<1> QED
  BY <1>2 DEF Changes

(* The merge is of the right type. *)
LEMMA MergeType ==
  ASSUME NEW b \in BootLists, NEW r \in RequestType, Accepts(b, r, Containers)
  PROVE  MergeAutostart(b, r, Containers) \in BootLists
<1> DEFINE m == MergeAutostart(b, r, Containers)
<1>0. /\ Named(r, Containers) \subseteq Containers
      /\ Listed(r, Containers) \subseteq Containers
  BY TargetsAreContainers
<1>1. Kept(b, r, Containers) \subseteq Containers
  BY DEF Kept, BootLists
<1>2. Added(b, r, Containers) \subseteq Containers
  BY <1>0 DEF Added, Switched
<1>3. MergedOn(b, r, Containers) \subseteq Containers
  BY <1>1, <1>2 DEF MergedOn
<1>4. AppendedOrder(b, r, Containers) \subseteq Containers \X Containers
  BY <1>1, <1>2 DEF AppendedOrder, BootLists
<1>5. MergedOrder(b, r, Containers) \subseteq Containers \X Containers
  BY <1>0, <1>3, <1>4 DEF MergedOrder
<1>6. MergedWait(b, r, Containers) \in [Containers -> Waits \cup {NoWait}]
  <2> SUFFICES ASSUME NEW k \in Containers
               PROVE  MergedWait(b, r, Containers)[k] \in Waits \cup {NoWait}
    BY DEF MergedWait
  <2>1. b.wait[k] \in Waits \cup {NoWait}
    BY DEF BootLists
  <2>2. \A i \in DOMAIN r.changes : r.changes[i].wait \in Waits \cup {NoWait}
    BY ChangeTypes
  <2>3. (\E i \in DOMAIN r.changes :
            Target(r, i, Containers) = k /\ r.changes[i].wait # NoWait)
        => (CHOOSE i \in DOMAIN r.changes :
              Target(r, i, Containers) = k /\ r.changes[i].wait # NoWait) \in DOMAIN r.changes
    OBVIOUS
  <2> QED
    BY <2>1, <2>2, <2>3 DEF MergedWait
<1> QED
  BY <1>3, <1>5, <1>6 DEF MergeAutostart, BootLists

(* Before "order" is looked at, the merge is a list: kept entries as they    *)
(* were, new ones after them in the order of the changes.                   *)
LEMMA AppendedWellOrdered ==
  ASSUME NEW b \in BootLists, WellOrdered(b),
         NEW r \in RequestType, Accepts(b, r, Containers)
  PROVE  LET on == MergedOn(b, r, Containers)
             ord == AppendedOrder(b, r, Containers)
         IN  /\ \A p \in ord : p[1] \in on /\ p[2] \in on /\ p[1] # p[2]
             /\ \A x, y \in on : x # y => (<<x, y>> \in ord <=> <<y, x>> \notin ord)
             /\ \A x, y, z \in on : <<x, y>> \in ord /\ <<y, z>> \in ord => <<x, z>> \in ord
<1> DEFINE kept == Kept(b, r, Containers)
           added == Added(b, r, Containers)
           on == MergedOn(b, r, Containers)
           ord == AppendedOrder(b, r, Containers)
           later(x, y) == \E i, j \in DOMAIN r.changes :
                            i < j /\ Target(r, i, Containers) = x
                                  /\ Target(r, j, Containers) = y
<1>1. kept \subseteq b.on /\ added \cap b.on = {} /\ on = kept \cup added
  BY DEF Kept, Added, MergedOn
<1>2. \A x, y : <<x, y>> \in ord <=>
        \/ x \in kept /\ y \in kept /\ <<x, y>> \in b.before
        \/ x \in kept /\ y \in added
        \/ x \in added /\ y \in added /\ later(x, y)
  BY DEF AppendedOrder
<1>3. \A x \in added : \E i \in DOMAIN r.changes : Target(r, i, Containers) = x
  BY DEF Added, Switched
<1>4. \A i, j \in DOMAIN r.changes :
        Target(r, i, Containers) = Target(r, j, Containers) => i = j
  BY DEF Accepts
<1>5. DOMAIN r.changes \subseteq Nat
  BY DEF RequestType
<1>6. \A x, y \in added : x # y => (later(x, y) <=> ~later(y, x))
  <2> SUFFICES ASSUME NEW x \in added, NEW y \in added, x # y
               PROVE  later(x, y) <=> ~later(y, x)
    OBVIOUS
  <2>1. PICK i \in DOMAIN r.changes : Target(r, i, Containers) = x
    BY <1>3
  <2>2. PICK j \in DOMAIN r.changes : Target(r, j, Containers) = y
    BY <1>3
  <2>3. i < j \/ j < i
    BY <1>5, <2>1, <2>2
  <2>4. ~(later(x, y) /\ later(y, x))
    BY <1>4, <1>5
  <2> QED
    BY <2>1, <2>2, <2>3, <2>4
<1>7. \A x : ~later(x, x)
  BY <1>4, <1>5
<1>8. \A x, y, z : later(x, y) /\ later(y, z) => later(x, z)
  BY <1>4, <1>5
<1>9. \A p \in ord : p = <<p[1], p[2]>>
  BY DEF AppendedOrder, BootLists
<1> HIDE DEF kept, added, on, ord, later
<1>10. \A p \in ord : p[1] \in on /\ p[2] \in on /\ p[1] # p[2]
  <2> SUFFICES ASSUME NEW x, NEW y, <<x, y>> \in ord
               PROVE  x \in on /\ y \in on /\ x # y
    BY <1>9
  <2>1. \A q \in b.before : q[1] # q[2]
    BY DEF WellOrdered
  <2> QED
    BY <1>1, <1>2, <1>7, <2>1
<1>11. \A x, y \in b.on : x # y => (<<x, y>> \in b.before <=> <<y, x>> \notin b.before)
  BY DEF WellOrdered
<1>12. \A x, y, z \in b.on :
         <<x, y>> \in b.before /\ <<y, z>> \in b.before => <<x, z>> \in b.before
  BY DEF WellOrdered
<1>13. \A x, y \in on : x # y => (<<x, y>> \in ord <=> <<y, x>> \notin ord)
  BY <1>1, <1>2, <1>6, <1>11
<1>14. \A x, y, z \in on : <<x, y>> \in ord /\ <<y, z>> \in ord => <<x, z>> \in ord
  BY <1>1, <1>2, <1>8, <1>12
<1> QED
  BY <1>10, <1>13, <1>14 DEF on, ord

(* The merge of a list is a list: no container twice, one order over all. *)
LEMMA MergeWellOrdered ==
  ASSUME NEW b \in BootLists, WellOrdered(b),
         NEW r \in RequestType, Accepts(b, r, Containers)
  PROVE  WellOrdered(MergeAutostart(b, r, Containers))
<1> DEFINE on == MergedOn(b, r, Containers)
           old == AppendedOrder(b, r, Containers)
           first == Listed(r, Containers)
           rest == on \ first
           ord == MergedOrder(b, r, Containers)
           place(i) == CanonicalId(r.order[i], Containers)
           sooner(x, y) == \E i, j \in DOMAIN r.order :
                             i < j /\ place(i) = x /\ place(j) = y
<1>1. first \subseteq on /\ on = first \cup rest /\ first \cap rest = {}
  BY DEF Accepts
<1>2. \A x, y : <<x, y>> \in ord <=>
        \/ x \in first /\ y \in first /\ sooner(x, y)
        \/ x \in first /\ y \in rest
        \/ x \in rest /\ y \in rest /\ <<x, y>> \in old
  BY DEF MergedOrder
<1>3. \A x \in first : \E i \in DOMAIN r.order : place(i) = x
  BY DEF Listed
<1>4. \A i, j \in DOMAIN r.order : place(i) = place(j) => i = j
  BY DEF Accepts
<1>5. DOMAIN r.order \subseteq Nat
  BY DEF RequestType
<1>6. \A x, y \in first : x # y => (sooner(x, y) <=> ~sooner(y, x))
  <2> SUFFICES ASSUME NEW x \in first, NEW y \in first, x # y
               PROVE  sooner(x, y) <=> ~sooner(y, x)
    OBVIOUS
  <2>1. PICK i \in DOMAIN r.order : place(i) = x
    BY <1>3
  <2>2. PICK j \in DOMAIN r.order : place(j) = y
    BY <1>3
  <2>3. i < j \/ j < i
    BY <1>5, <2>1, <2>2
  <2>4. ~(sooner(x, y) /\ sooner(y, x))
    BY <1>4, <1>5
  <2> QED
    BY <2>1, <2>2, <2>3, <2>4
<1>7. \A x : ~sooner(x, x)
  BY <1>4, <1>5
<1>8. \A x, y, z : sooner(x, y) /\ sooner(y, z) => sooner(x, z)
  BY <1>4, <1>5
<1>9. \A p \in ord : p = <<p[1], p[2]>>
  <2>1. MergeAutostart(b, r, Containers) \in BootLists
    BY MergeType
  <2>2. ord \subseteq Containers \X Containers
    BY <2>1 DEF MergeAutostart, BootLists
  <2> QED
    BY <2>2
<1>10. /\ \A p \in old : p[1] \in on /\ p[2] \in on /\ p[1] # p[2]
       /\ \A x, y \in on : x # y => (<<x, y>> \in old <=> <<y, x>> \notin old)
       /\ \A x, y, z \in on : <<x, y>> \in old /\ <<y, z>> \in old => <<x, z>> \in old
  BY AppendedWellOrdered
<1>11. \A k \in Containers \ on : MergedWait(b, r, Containers)[k] = NoWait
  BY DEF MergedWait
<1> HIDE DEF on, old, first, rest, ord, place, sooner
<1>12. \A p \in ord : p[1] \in on /\ p[2] \in on /\ p[1] # p[2]
  <2> SUFFICES ASSUME NEW x, NEW y, <<x, y>> \in ord
               PROVE  x \in on /\ y \in on /\ x # y
    BY <1>9
  <2>1. <<x, y>> \in old => x # y
    BY <1>10
  <2> QED
    BY <1>1, <1>2, <1>7, <2>1
<1>13. \A x, y \in on : x # y => (<<x, y>> \in ord <=> <<y, x>> \notin ord)
  <2> SUFFICES ASSUME NEW x \in on, NEW y \in on, x # y
               PROVE  <<x, y>> \in ord <=> <<y, x>> \notin ord
    OBVIOUS
  <2>1. CASE x \in first /\ y \in first
    BY <2>1, <1>1, <1>2, <1>6
  <2>2. CASE x \in rest /\ y \in rest
    BY <2>2, <1>1, <1>2, <1>10
  <2>3. CASE (x \in first /\ y \in rest) \/ (x \in rest /\ y \in first)
    BY <2>3, <1>1, <1>2
  <2>4. (x \in first \/ x \in rest) /\ (y \in first \/ y \in rest)
    BY <1>1
  <2> QED
    BY <2>1, <2>2, <2>3, <2>4
<1>14. \A x, y, z \in on : <<x, y>> \in ord /\ <<y, z>> \in ord => <<x, z>> \in ord
  BY <1>1, <1>2, <1>8, <1>10
<1> QED
  BY <1>11, <1>12, <1>13, <1>14 DEF WellOrdered, MergeAutostart, on, ord

(* Every container a request names is, in the merge, as the request says. *)
LEMMA MergeHonours ==
  ASSUME NEW b \in BootLists, NEW r \in RequestType, Accepts(b, r, Containers),
         NEW k \in Containers
  PROVE  Honours(MergeAutostart(b, r, Containers), r, Containers, k)
<1> DEFINE m == MergeAutostart(b, r, Containers)
<1> SUFFICES ASSUME NEW i \in DOMAIN r.changes, Target(r, i, Containers) = k
             PROVE  /\ k \in m.on <=> r.changes[i].auto
                    /\ r.changes[i].auto /\ r.changes[i].wait # NoWait
                         => m.wait[k] = r.changes[i].wait
  BY DEF Honours
<1>1. \A j \in DOMAIN r.changes : Target(r, j, Containers) = k => j = i
  BY DEF Accepts
<1>2. r.changes[i].auto \in BOOLEAN
  BY ChangeTypes
<1>3. k \in Named(r, Containers)
  BY DEF Named
<1>4. k \in MergedOn(b, r, Containers) <=> r.changes[i].auto = TRUE
  BY <1>1, <1>2, <1>3 DEF MergedOn, Kept, Added, Switched
<1>5. m.on = MergedOn(b, r, Containers) /\ m.wait = MergedWait(b, r, Containers)
  BY DEF MergeAutostart
<1>6. ASSUME r.changes[i].auto = TRUE, r.changes[i].wait # NoWait
      PROVE  m.wait[k] = r.changes[i].wait
  <2>1. (CHOOSE j \in DOMAIN r.changes :
           Target(r, j, Containers) = k /\ r.changes[j].wait # NoWait) = i
    BY <1>1, <1>6
  <2>2. k \in MergedOn(b, r, Containers)
    BY <1>4, <1>6
  <2>3. \E j \in DOMAIN r.changes :
          Target(r, j, Containers) = k /\ r.changes[j].wait # NoWait
    BY <1>6
  <2>4. MergedWait(b, r, Containers)[k]
          = r.changes[CHOOSE j \in DOMAIN r.changes :
                        Target(r, j, Containers) = k /\ r.changes[j].wait # NoWait].wait
    BY <2>2, <2>3 DEF MergedWait
  <2> QED
    BY <1>5, <2>1, <2>4
<1>7. k \in m.on <=> r.changes[i].auto
  BY <1>2, <1>4, <1>5
<1>8. r.changes[i].auto => r.changes[i].auto = TRUE
  BY <1>2
<1> QED
  BY <1>6, <1>7, <1>8

(* A container the request does not name keeps its setting. *)
LEMMA MergeLeavesOthers ==
  ASSUME NEW b \in BootLists, WellOrdered(b),
         NEW r \in RequestType, Accepts(b, r, Containers),
         NEW k \in Containers \ Named(r, Containers)
  PROVE  SameSetting(b, MergeAutostart(b, r, Containers), k)
<1>1. \A i \in DOMAIN r.changes : Target(r, i, Containers) # k
  BY DEF Named
<1>2. k \in b.on <=> k \in MergedOn(b, r, Containers)
  BY DEF MergedOn, Kept, Added, Switched
<1>3. MergedWait(b, r, Containers)[k] = b.wait[k]
  BY <1>1, <1>2 DEF MergedWait, WellOrdered
<1> QED
  BY <1>2, <1>3 DEF SameSetting, MergeAutostart

(* Containers that were and stay enabled keep their order, whether the       *)
(* request names them or not, unless it lists them.                         *)
LEMMA MergeKeepsOrder ==
  ASSUME NEW b, NEW r,
         NEW x \in (b.on \cap MergedOn(b, r, Containers)) \ Listed(r, Containers),
         NEW y \in (b.on \cap MergedOn(b, r, Containers)) \ Listed(r, Containers)
  PROVE  <<x, y>> \in b.before <=> <<x, y>> \in MergeAutostart(b, r, Containers).before
<1>1. /\ x \in Kept(b, r, Containers) /\ x \notin Added(b, r, Containers)
      /\ y \in Kept(b, r, Containers) /\ y \notin Added(b, r, Containers)
  BY DEF MergedOn, Added
<1>2. <<x, y>> \in AppendedOrder(b, r, Containers) <=> <<x, y>> \in b.before
  BY <1>1 DEF AppendedOrder
<1>3. <<x, y>> \in MergedOrder(b, r, Containers) <=> <<x, y>> \in b.before
  BY <1>2 DEF MergedOrder
<1> QED
  BY <1>3 DEF MergeAutostart

-----------------------------------------------------------------------------
(* Concurrent calls                                                         *)

(* What is known of one call, whatever the server and the network do: the   *)
(* arguments of a call that got past the checks are valid; a call that has  *)
(* not come to its write has none; an answer without errors is complete or  *)
(* empty; and a write was computed from a complete answer that its request  *)
(* was accepted against.                                                    *)
CallInv ==
  \A c \in Calls :
    /\ pc[c] \in InSection \cup {"queued"} => ValidateArguments(req[c])
    /\ pc[c] \in {"idle", "queued", "reading", "fetched", "rejected"} => write[c] = "none"
    /\ pc[c] = "fetched" /\ ~snap[c].errors =>
         WellOrdered(snap[c].boot) /\ snap[c].known \in {{}, Containers}
    /\ write[c] # "none" =>
         /\ ~snap[c].errors
         /\ snap[c].known = Containers
         /\ WellOrdered(snap[c].boot)
         /\ Accepts(snap[c].boot, req[c], Containers)

(* Inductive for every environment. *)
SafeInv == TypeOK /\ BootWellOrdered /\ LockHeldBySection /\ CallInv

-----------------------------------------------------------------------------
(* The list of no entries is a list.                                        *)
LEMMA EmptyListIsList == EmptyList \in BootLists /\ WellOrdered(EmptyList)
<1>1. EmptyList \in BootLists
  BY DEF EmptyList, BootLists
<1>2. WellOrdered(EmptyList)
  BY DEF EmptyList, WellOrdered
<1> QED
  BY <1>1, <1>2

(* Every answer to a read has the type of an answer. *)
LEMMA SnapshotTypes ==
  ASSUME boot \in BootLists
  PROVE  /\ FullRead \in Snapshots
         /\ NoSnapshot \in Snapshots
         /\ PartialReads \subseteq Snapshots
<1>1. FullRead \in Snapshots
  BY DEF FullRead, Snapshots
<1>2. NoSnapshot \in Snapshots
  BY EmptyListIsList DEF NoSnapshot, Snapshots
<1>3. ASSUME NEW S \in SUBSET Containers
      PROVE  Restricted(boot, S) \in BootLists
  BY DEF Restricted, BootLists
<1>4. PartialReads \subseteq Snapshots
  <2>1. \A S \in SUBSET Containers :
          [known |-> S, boot |-> Restricted(boot, S), errors |-> TRUE] \in Snapshots
    BY <1>3 DEF Snapshots
  <2> QED
    BY <2>1 DEF PartialReads
<1> QED
  BY <1>1, <1>2, <1>4

(* A non-empty list of changes is never accepted against an empty answer. *)
LEMMA EmptyReadRejected ==
  ASSUME NEW b, NEW r \in RequestType, ValidateArguments(r)
  PROVE  ~Accepts(b, r, {})
<1>1. r.changes \in Seq(Changes) /\ r.changes # << >>
  BY DEF RequestType, ValidateArguments
<1>2. 1 \in DOMAIN r.changes
  BY <1>1
<1> QED
  BY <1>2 DEF Accepts, Resolves

(* The invariant holds before the first call.                               *)
LEMMA SafeInit == Init => SafeInv
<1> SUFFICES ASSUME Init PROVE SafeInv
  OBVIOUS
<1>1. TypeOK
  BY SnapshotTypes DEF Init, TypeOK, Phases
<1>2. BootWellOrdered /\ LockHeldBySection
  BY NoCallType DEF Init, BootWellOrdered, LockHeldBySection, InSection
<1>3. CallInv
  BY DEF Init, CallInv, InSection
<1> QED
  BY <1>1, <1>2, <1>3 DEF SafeInv

-----------------------------------------------------------------------------
(* Every action keeps the types. *)
LEMMA TypeStep ==
  ASSUME SafeInv, [Next]_vars
  PROVE  TypeOK'
<1> USE DEF SafeInv, Phases, InSection, serverVars
<1>1. ASSUME NEW c \in Calls, RejectArguments(c) \/ Acquire(c) \/ Enqueue(c) \/ Grant(c)
      PROVE  TypeOK'
  BY <1>1 DEF TypeOK, RejectArguments, Acquire, Enqueue, Grant, Queued
<1>2. ASSUME NEW c \in Calls, ServerRead(c)
      PROVE  TypeOK'
  <2>1. \A answer \in {FullRead, NoSnapshot} \cup PartialReads : answer \in Snapshots
    BY SnapshotTypes DEF TypeOK
  <2> QED
    BY <1>2, <2>1 DEF TypeOK, ServerRead
<1>3. ASSUME NEW c \in Calls, ReadErrors(c) \/ RejectMerge(c) \/ WriteReply(c)
      PROVE  TypeOK'
  BY <1>3, SnapshotTypes DEF TypeOK, ReadErrors, RejectMerge, WriteReply, Leave
<1>4. ASSUME NEW c \in Calls, SendWrite(c)
      PROVE  TypeOK'
  BY <1>4 DEF TypeOK, SendWrite
<1>5. ASSUME NEW c \in Calls, ServerApply(c)
      PROVE  TypeOK'
  <2>1. /\ snap[c].boot \in BootLists
        /\ snap[c].known = Containers
        /\ Accepts(snap[c].boot, req[c], Containers)
        /\ req[c] \in RequestType
    BY <1>5, RequestsType DEF ServerApply, CallInv, TypeOK, Snapshots
  <2>2. Payload(c) \in BootLists
    BY <2>1, MergeType DEF Payload
  <2> QED
    BY <1>5, <2>2 DEF TypeOK, ServerApply
<1>6. ASSUME NEW c \in Calls, ServerDecline(c)
      PROVE  TypeOK'
  BY <1>6 DEF TypeOK, ServerDecline
<1>7. ASSUME NEW c \in Calls, RequestFails(c) \/ Cancel(c)
      PROVE  TypeOK'
  BY <1>7, SnapshotTypes DEF TypeOK, RequestFails, Cancel, GiveUp, Leave
<1>8. CASE ForeignWrite
  BY <1>8, ForeignListsType DEF TypeOK, ForeignWrite
<1>9. CASE UNCHANGED vars
  BY <1>9 DEF TypeOK, vars
<1> QED
  BY <1>1, <1>2, <1>3, <1>4, <1>5, <1>6, <1>7, <1>8, <1>9
  DEF Next, CallStep, ServerStep

(* Only an applied write or another program changes the list, and both put  *)
(* a well-ordered one in its place.                                         *)
LEMMA OrderStep ==
  ASSUME SafeInv, [Next]_vars
  PROVE  BootWellOrdered'
<1> USE DEF SafeInv, BootWellOrdered, serverVars
<1>1. ASSUME NEW c \in Calls, ServerApply(c)
      PROVE  BootWellOrdered'
  <2>1. /\ snap[c].boot \in BootLists /\ WellOrdered(snap[c].boot)
        /\ snap[c].known = Containers
        /\ Accepts(snap[c].boot, req[c], Containers)
        /\ req[c] \in RequestType
    BY <1>1, RequestsType DEF ServerApply, CallInv, TypeOK, Snapshots
  <2>2. WellOrdered(Payload(c))
    BY <2>1, MergeWellOrdered DEF Payload
  <2> QED
    BY <1>1, <2>2 DEF ServerApply
<1>2. CASE ForeignWrite
  BY <1>2, ForeignListsType DEF ForeignWrite
<1>3. ASSUME NEW c \in Calls, CallStep(c) \/ ServerRead(c) \/ ServerDecline(c)
      PROVE  boot' = boot
  BY <1>3 DEF CallStep, RejectArguments, Acquire, Enqueue, Grant, ReadErrors, RejectMerge,
     SendWrite, WriteReply, RequestFails, Cancel, GiveUp, ServerRead, ServerDecline
<1>4. CASE UNCHANGED vars
  BY <1>4 DEF vars
<1> QED
  BY <1>1, <1>2, <1>3, <1>4 DEF Next, ServerStep

(* Taking the lock needs it free and leaving gives it back, so at every     *)
(* step its holder and the call in the section stay the same call.          *)
LEMMA LockStep ==
  ASSUME SafeInv, [Next]_vars
  PROVE  LockHeldBySection'
<1> USE NoCallType DEF SafeInv, LockHeldBySection, InSection, serverVars
<1>1. ASSUME NEW c \in Calls, RejectArguments(c) \/ Enqueue(c)
      PROVE  LockHeldBySection'
  BY <1>1 DEF TypeOK, RejectArguments, Enqueue
<1>2. ASSUME NEW c \in Calls, Acquire(c) \/ Grant(c)
      PROVE  LockHeldBySection'
  BY <1>2 DEF TypeOK, Acquire, Grant, LockFree
<1>3. ASSUME NEW c \in Calls, ServerRead(c) \/ SendWrite(c)
      PROVE  LockHeldBySection'
  BY <1>3 DEF TypeOK, ServerRead, SendWrite
<1>4. ASSUME NEW c \in Calls, ReadErrors(c) \/ RejectMerge(c) \/ WriteReply(c)
      PROVE  LockHeldBySection'
  BY <1>4 DEF TypeOK, ReadErrors, RejectMerge, WriteReply, Leave
<1>5. ASSUME NEW c \in Calls, RequestFails(c) \/ Cancel(c)
      PROVE  LockHeldBySection'
  BY <1>5 DEF TypeOK, RequestFails, Cancel, GiveUp, Leave
<1>6. ASSUME NEW c \in Calls, ServerApply(c) \/ ServerDecline(c)
      PROVE  LockHeldBySection'
  BY <1>6 DEF TypeOK, ServerApply, ServerDecline
<1>7. CASE ForeignWrite
  BY <1>7 DEF ForeignWrite
<1>8. CASE UNCHANGED vars
  BY <1>8 DEF vars
<1> QED
  BY <1>1, <1>2, <1>3, <1>4, <1>5, <1>6, <1>7, <1>8 DEF Next, CallStep, ServerStep

(* What is known of each call stays known. *)
LEMMA CallInvStep ==
  ASSUME SafeInv, [Next]_vars
  PROVE  CallInv'
<1> USE DEF SafeInv, InSection, serverVars
<1>1. ASSUME NEW c \in Calls, RejectArguments(c) \/ Acquire(c) \/ Enqueue(c) \/ Grant(c)
      PROVE  CallInv'
  BY <1>1 DEF TypeOK, CallInv, RejectArguments, Acquire, Enqueue, Grant
<1>2. ASSUME NEW c \in Calls, ServerRead(c)
      PROVE  CallInv'
  <2>1. PICK answer \in {FullRead, NoSnapshot} \cup PartialReads :
          snap' = [snap EXCEPT ![c] = answer]
    BY <1>2 DEF ServerRead
  <2>2. ~answer.errors => WellOrdered(answer.boot) /\ answer.known \in {{}, Containers}
    BY EmptyListIsList DEF FullRead, NoSnapshot, PartialReads, BootWellOrdered
  <2> QED
    BY <1>2, <2>1, <2>2 DEF TypeOK, CallInv, ServerRead
<1>3. ASSUME NEW c \in Calls, ReadErrors(c) \/ RejectMerge(c) \/ WriteReply(c)
      PROVE  CallInv'
  BY <1>3 DEF TypeOK, CallInv, ReadErrors, RejectMerge, WriteReply, Leave
<1>4. ASSUME NEW c \in Calls, SendWrite(c)
      PROVE  CallInv'
  <2>1. ValidateArguments(req[c]) /\ req[c] \in RequestType
    BY <1>4, RequestsType DEF SendWrite, CallInv, TypeOK
  <2>2. snap[c].known = Containers
    BY <1>4, <2>1, EmptyReadRejected DEF SendWrite, CallInv
  <2> QED
    BY <1>4, <2>1, <2>2 DEF TypeOK, CallInv, SendWrite
<1>5. ASSUME NEW c \in Calls, ServerApply(c) \/ ServerDecline(c)
      PROVE  CallInv'
  BY <1>5 DEF TypeOK, CallInv, ServerApply, ServerDecline
<1>6. ASSUME NEW c \in Calls, RequestFails(c) \/ Cancel(c)
      PROVE  CallInv'
  BY <1>6 DEF TypeOK, CallInv, RequestFails, Cancel, GiveUp, Leave
<1>7. CASE ForeignWrite
  BY <1>7 DEF ForeignWrite, CallInv
<1>8. CASE UNCHANGED vars
  BY <1>8 DEF vars, CallInv
<1> QED
  BY <1>1, <1>2, <1>3, <1>4, <1>5, <1>6, <1>7, <1>8 DEF Next, CallStep, ServerStep

(* Types, the order of the list, the lock and the reads behind the writes    *)
(* of do_set_docker_autostart, in every environment.                        *)
THEOREM SafeInvariance == Spec => []SafeInv
<1>1. SafeInv /\ [Next]_vars => SafeInv'
  BY TypeStep, OrderStep, LockStep, CallInvStep DEF SafeInv
<1> QED
  BY SafeInit, <1>1, PTL DEF Spec

(* The variables keep their types, whatever requests are made, however the  *)
(* calls interleave, and whatever the server and other programs do.         *)
THEOREM TypeCorrect == Spec => []TypeOK
BY SafeInvariance, PTL DEF SafeInv

(* What the server stores is always one list. *)
THEOREM StoredListWellOrdered == Spec => []BootWellOrdered
BY SafeInvariance, PTL DEF SafeInv

(* At most one call is between its read and the end of its write, and an    *)
(* ended call never keeps the lock.                                         *)
THEOREM LockSafe == Spec => []LockHeldBySection
BY SafeInvariance, PTL DEF SafeInv

(* No list is ever computed from an incomplete read. *)
THEOREM NoPartialRewrite == Spec => []WriteNeedsFullRead
<1>1. SafeInv => WriteNeedsFullRead
  BY DEF SafeInv, CallInv, WriteNeedsFullRead
<1> QED
  BY SafeInvariance, <1>1, PTL

(* "Nothing was changed" is true of every call that reports it. *)
THEOREM RejectionIsHarmless == Spec => []RejectedSentNothing
<1>1. SafeInv => RejectedSentNothing
  BY DEF SafeInv, CallInv, RejectedSentNothing
<1> QED
  BY SafeInvariance, <1>1, PTL

-----------------------------------------------------------------------------
(* The rest assumes what the lock cannot give: a write whose caller gave up *)
(* is never applied, and no other program writes.                           *)
Undisturbed == ~LateWrites /\ ForeignLists = {}

InflightIsWriting == \A c \in Calls : write[c] = "inflight" => pc[c] = "writing"

AtomicInv == SafeInv /\ InflightIsWriting /\ SnapshotFresh /\ NoLostUpdate

(* The invariant of undisturbed calls holds before the first call.          *)
LEMMA AtomicInit == Init => AtomicInv
<1> SUFFICES ASSUME Init PROVE AtomicInv
  OBVIOUS
<1>1. InflightIsWriting /\ SnapshotFresh /\ NoLostUpdate
  BY DEF Init, InflightIsWriting, SnapshotFresh, NoLostUpdate
<1> QED
  BY <1>1, SafeInit DEF AtomicInv

(* What an applied write puts in the list's place: the merge of its own     *)
(* request into the list as it is.                                          *)
LEMMA AppliedIsMerge ==
  ASSUME AtomicInv, NEW c \in Calls, ServerApply(c)
  PROVE  /\ boot' = MergeAutostart(boot, req[c], Containers)
         /\ Accepts(boot, req[c], Containers)
         /\ req[c] \in RequestType
         /\ snap[c].known = Containers
         /\ setBy' = [k \in Containers |->
                        IF k \in Named(req[c], Containers) THEN c ELSE setBy[k]]
         /\ pc[c] = "writing" /\ lock = c
<1> USE DEF AtomicInv, SafeInv
<1>1. write[c] = "inflight"
  BY DEF ServerApply
<1>2. snap[c] = [known |-> Containers, boot |-> boot, errors |-> FALSE]
  BY <1>1 DEF SnapshotFresh
<1>3. Accepts(snap[c].boot, req[c], Containers)
  BY <1>1 DEF CallInv
<1>4. pc[c] = "writing" /\ lock = c
  BY <1>1 DEF InflightIsWriting, LockHeldBySection, InSection
<1> QED
  BY <1>2, <1>3, <1>4, RequestsType DEF ServerApply, Payload, TypeOK

(* A write in flight has its call waiting for it.                           *)
LEMMA InflightStep ==
  ASSUME Undisturbed, AtomicInv, [Next]_vars
  PROVE  InflightIsWriting'
<1> USE DEF AtomicInv, SafeInv, TypeOK, InflightIsWriting, InSection, serverVars
<1>1. ASSUME NEW c \in Calls, CallStep(c)
      PROVE  InflightIsWriting'
  <2>1. CASE RejectArguments(c) \/ Acquire(c) \/ Enqueue(c) \/ Grant(c)
    BY <2>1 DEF RejectArguments, Acquire, Enqueue, Grant
  <2>2. CASE ReadErrors(c) \/ RejectMerge(c) \/ SendWrite(c) \/ WriteReply(c)
    BY <2>2 DEF ReadErrors, RejectMerge, SendWrite, WriteReply, Leave
  <2>3. CASE RequestFails(c) \/ Cancel(c)
    BY <2>3 DEF RequestFails, Cancel, GiveUp, Leave, Undisturbed
  <2> QED
    BY <1>1, <2>1, <2>2, <2>3 DEF CallStep
<1>2. ASSUME NEW c \in Calls, ServerStep(c)
      PROVE  InflightIsWriting'
  BY <1>2 DEF ServerStep, ServerRead, ServerApply, ServerDecline
<1>3. CASE ForeignWrite
  BY <1>3 DEF ForeignWrite
<1>4. CASE UNCHANGED vars
  BY <1>4 DEF vars
<1> QED
  BY <1>1, <1>2, <1>3, <1>4 DEF Next

(* The list changes only when the lock holder's write is applied, and then  *)
(* no other call has a list in its hands.                                   *)
LEMMA FreshStep ==
  ASSUME Undisturbed, AtomicInv, [Next]_vars
  PROVE  SnapshotFresh'
<1> USE DEF AtomicInv, SafeInv, TypeOK, SnapshotFresh, InSection, serverVars
<1>1. ASSUME NEW c \in Calls, CallStep(c)
      PROVE  SnapshotFresh'
  <2>1. CASE RejectArguments(c) \/ Acquire(c) \/ Enqueue(c) \/ Grant(c)
    BY <2>1 DEF RejectArguments, Acquire, Enqueue, Grant
  <2>2. CASE ReadErrors(c) \/ RejectMerge(c) \/ WriteReply(c)
    BY <2>2 DEF ReadErrors, RejectMerge, WriteReply, Leave
  <2>3. CASE SendWrite(c)
    <3>1. ValidateArguments(req[c]) /\ req[c] \in RequestType
      BY <2>3, RequestsType DEF SendWrite, CallInv
    <3>2. snap[c].known # {}
      BY <2>3, <3>1, EmptyReadRejected DEF SendWrite
    <3> QED
      BY <2>3, <3>2 DEF SendWrite
  <2>4. CASE RequestFails(c) \/ Cancel(c)
    BY <2>4 DEF RequestFails, Cancel, GiveUp, Leave
  <2> QED
    BY <1>1, <2>1, <2>2, <2>3, <2>4 DEF CallStep
<1>2. ASSUME NEW c \in Calls, ServerRead(c)
      PROVE  SnapshotFresh'
  <2>1. PICK answer \in {FullRead, NoSnapshot} \cup PartialReads :
          snap' = [snap EXCEPT ![c] = answer]
    BY <1>2 DEF ServerRead
  <2>2. ~answer.errors /\ answer.known # {} =>
          answer = [known |-> Containers, boot |-> boot, errors |-> FALSE]
    BY DEF FullRead, NoSnapshot, PartialReads
  <2>3. write[c] = "none"
    BY <1>2 DEF ServerRead, CallInv
  <2> QED
    BY <1>2, <2>1, <2>2, <2>3 DEF ServerRead
<1>3. ASSUME NEW c \in Calls, ServerApply(c)
      PROVE  SnapshotFresh'
  <2>1. pc[c] = "writing" /\ lock = c
    BY <1>3, AppliedIsMerge
  <2>2. \A d \in Calls : d # c => pc[d] \notin InSection
    BY <2>1 DEF LockHeldBySection
  <2>3. \A d \in Calls : d # c => write[d] # "inflight"
    BY <2>2 DEF InflightIsWriting
  <2> QED
    BY <1>3, <2>1, <2>2, <2>3 DEF ServerApply
<1>4. ASSUME NEW c \in Calls, ServerDecline(c)
      PROVE  SnapshotFresh'
  BY <1>4 DEF ServerDecline
<1>5. CASE ForeignWrite
  BY <1>5 DEF ForeignWrite, Undisturbed
<1>6. CASE UNCHANGED vars
  BY <1>6 DEF vars
<1> QED
  BY <1>1, <1>2, <1>3, <1>4, <1>5, <1>6 DEF Next, ServerStep

(* Every step keeps each container as the last call naming it asked.        *)
LEMMA NoLostUpdateStep ==
  ASSUME Undisturbed, AtomicInv, [Next]_vars
  PROVE  NoLostUpdate'
<1> USE DEF AtomicInv, SafeInv
<1>1. req' = req
  BY DEF Next, CallStep, RejectArguments, Acquire, Enqueue, Grant, ReadErrors, RejectMerge,
     SendWrite, WriteReply, RequestFails, Cancel, GiveUp, ServerStep, ServerRead, ServerApply,
     ServerDecline, ForeignWrite, vars
<1>2. ASSUME NEW c \in Calls, ServerApply(c)
      PROVE  NoLostUpdate'
  <2> DEFINE m == MergeAutostart(boot, req[c], Containers)
  <2>1. /\ boot' = m /\ boot \in BootLists /\ WellOrdered(boot)
        /\ req[c] \in RequestType /\ Accepts(boot, req[c], Containers)
    BY <1>2, AppliedIsMerge DEF TypeOK, BootWellOrdered
  <2>2. setBy' = [k \in Containers |->
                   IF k \in Named(req[c], Containers) THEN c ELSE setBy[k]]
    BY <1>2, AppliedIsMerge
  <2> HIDE DEF m
  <2> SUFFICES ASSUME NEW k \in Containers, setBy'[k] # NoCall
               PROVE  Honours(m, req[setBy'[k]], Containers, k)
    BY <1>1, <2>1 DEF NoLostUpdate
  <2>3. CASE k \in Named(req[c], Containers)
    <3>1. setBy'[k] = c
      BY <2>2, <2>3
    <3>2. Honours(m, req[c], Containers, k)
      BY <2>1, MergeHonours DEF m
    <3> QED
      BY <3>1, <3>2
  <2>4. CASE k \notin Named(req[c], Containers)
    <3>1. setBy'[k] = setBy[k]
      BY <2>2, <2>4
    <3>2. Honours(boot, req[setBy[k]], Containers, k)
      BY <3>1 DEF NoLostUpdate
    <3>3. SameSetting(boot, m, k)
      BY <2>1, <2>4, MergeLeavesOthers DEF m
    <3> QED
      BY <3>1, <3>2, <3>3 DEF Honours, SameSetting
  <2> QED
    BY <2>3, <2>4
<1>3. ASSUME NEW c \in Calls, CallStep(c) \/ ServerRead(c) \/ ServerDecline(c)
      PROVE  UNCHANGED <<boot, setBy>>
  BY <1>3 DEF CallStep, RejectArguments, Acquire, Enqueue, Grant, ReadErrors, RejectMerge,
     SendWrite, WriteReply, RequestFails, Cancel, GiveUp, ServerRead, ServerDecline, serverVars
<1>4. CASE UNCHANGED <<boot, setBy>>
  BY <1>1, <1>4 DEF NoLostUpdate
<1>5. ~ForeignWrite
  BY DEF ForeignWrite, Undisturbed
<1> QED
  BY <1>2, <1>3, <1>4, <1>5 DEF Next, ServerStep, vars

(* While no write outlives its call and nobody else writes, no call works   *)
(* on a list the server no longer holds, and no update is lost.             *)
THEOREM AtomicInvariance == ASSUME Undisturbed PROVE Spec => []AtomicInv
<1>1. AtomicInv /\ [Next]_vars => SafeInv'
  BY TypeStep, OrderStep, LockStep, CallInvStep DEF AtomicInv, SafeInv
<1>2. AtomicInv /\ [Next]_vars => AtomicInv'
  BY <1>1, InflightStep, FreshStep, NoLostUpdateStep DEF AtomicInv
<1> QED
  BY AtomicInit, <1>2, PTL DEF Spec

(* A call writes back nothing but a merge into the list the server holds.   *)
THEOREM SnapshotStaysFresh == ASSUME Undisturbed PROVE Spec => []SnapshotFresh
BY AtomicInvariance, PTL DEF AtomicInv

(* The comment beside the lock: concurrent calls cannot lose each other's   *)
(* updates.                                                                 *)
THEOREM NothingIsLost == ASSUME Undisturbed PROVE Spec => []NoLostUpdate
BY AtomicInvariance, PTL DEF AtomicInv

(* One applied write changes the settings of its own containers only, and    *)
(* the places of those it lists, enables or disables only.                  *)
THEOREM OnlyNamedChange == ASSUME Undisturbed PROVE Spec => OthersKept
<1> DEFINE Kept1 ==
      \A c \in Calls :
        write[c] = "inflight" /\ write'[c] = "applied" =>
          LET others == Containers \ Named(req[c], Containers)
              unmoved == (boot.on \cap boot'.on) \ Listed(req[c], Containers)
          IN  /\ \A k \in others : SameSetting(boot, boot', k)
              /\ \A x, y \in unmoved :
                   <<x, y>> \in boot.before <=> <<x, y>> \in boot'.before
<1>1. ASSUME AtomicInv, Next
      PROVE  Kept1
  <2> SUFFICES ASSUME NEW c \in Calls, write[c] = "inflight", write'[c] = "applied"
               PROVE  /\ \A k \in Containers \ Named(req[c], Containers) :
                           SameSetting(boot, boot', k)
                      /\ \A x, y \in (boot.on \cap boot'.on)
                                     \ Listed(req[c], Containers) :
                           <<x, y>> \in boot.before <=> <<x, y>> \in boot'.before
    OBVIOUS
  <2>1. ASSUME NEW d \in Calls, CallStep(d)
        PROVE  write'[c] # "applied"
    BY <1>1, <2>1 DEF AtomicInv, SafeInv, TypeOK, serverVars, CallStep, RejectArguments, Acquire,
       Enqueue, Grant, ReadErrors, RejectMerge, SendWrite, WriteReply, RequestFails, Cancel,
       GiveUp
  <2>2. ASSUME NEW d \in Calls, ServerRead(d) \/ ServerDecline(d)
        PROVE  write'[c] # "applied"
    BY <1>1, <2>2 DEF AtomicInv, SafeInv, TypeOK, serverVars, ServerRead, ServerDecline
  <2>3. ASSUME NEW d \in Calls, d # c, ServerApply(d)
        PROVE  write'[c] # "applied"
    BY <1>1, <2>3 DEF AtomicInv, SafeInv, TypeOK, ServerApply
  <2>4. ~ForeignWrite
    BY DEF ForeignWrite, Undisturbed
  <2>5. ServerApply(c)
    BY <1>1, <2>1, <2>2, <2>3, <2>4 DEF Next, ServerStep
  <2>6. /\ boot' = MergeAutostart(boot, req[c], Containers)
        /\ boot \in BootLists /\ WellOrdered(boot)
        /\ req[c] \in RequestType /\ Accepts(boot, req[c], Containers)
    BY <1>1, <2>5, AppliedIsMerge DEF AtomicInv, SafeInv, TypeOK, BootWellOrdered
  <2>7. boot'.on = MergedOn(boot, req[c], Containers)
    BY <2>6 DEF MergeAutostart
  <2> QED
    BY <2>6, <2>7, MergeLeavesOthers, MergeKeepsOrder
<1>2. AtomicInv /\ [Next]_vars => [Kept1]_vars
  BY <1>1
<1> QED
  BY AtomicInvariance, <1>2, PTL DEF Spec, OthersKept

-----------------------------------------------------------------------------
(* AtomicAutostart merges with the same operators. *)
LEMMA SameOperators ==
  /\ Atomic!BootLists = BootLists
  /\ \A b : Atomic!WellOrdered(b) <=> WellOrdered(b)
  /\ \A r : Atomic!ValidateArguments(r) <=> ValidateArguments(r)
  /\ \A b, r, known : Atomic!Accepts(b, r, known) <=> Accepts(b, r, known)
  /\ \A b, r, known : Atomic!MergeAutostart(b, r, known) = MergeAutostart(b, r, known)
<1>1. Atomic!BootLists = BootLists
  BY DEF Atomic!BootLists, BootLists
<1>2. \A b : Atomic!WellOrdered(b) <=> WellOrdered(b)
  BY DEF Atomic!WellOrdered, WellOrdered
<1>3. \A r : Atomic!ValidateArguments(r) <=> ValidateArguments(r)
  BY DEF Atomic!ValidateArguments, ValidateArguments, Atomic!Distinct, Distinct
<1>4. ASSUME NEW r, NEW known
      PROVE  /\ \A ref : Atomic!CanonicalId(ref, known) = CanonicalId(ref, known)
             /\ \A ref : Atomic!Resolves(ref, known) <=> Resolves(ref, known)
             /\ \A i : Atomic!Target(r, i, known) = Target(r, i, known)
  BY DEF Atomic!CanonicalId, CanonicalId, Atomic!Resolves, Resolves, Atomic!Hits, Hits,
     Atomic!Target, Target
<1>5. ASSUME NEW b, NEW r, NEW known
      PROVE  /\ Atomic!Kept(b, r, known) = Kept(b, r, known)
             /\ Atomic!Added(b, r, known) = Added(b, r, known)
             /\ Atomic!MergedOn(b, r, known) = MergedOn(b, r, known)
             /\ Atomic!Listed(r, known) = Listed(r, known)
  BY <1>4 DEF Atomic!Kept, Kept, Atomic!Added, Added, Atomic!MergedOn, MergedOn,
     Atomic!Switched, Switched, Atomic!Named, Named, Atomic!Listed, Listed
<1>6. \A b, r, known : Atomic!Accepts(b, r, known) <=> Accepts(b, r, known)
  BY <1>4, <1>5 DEF Atomic!Accepts, Accepts
<1>7. ASSUME NEW b, NEW r, NEW known
      PROVE  Atomic!MergedOrder(b, r, known) = MergedOrder(b, r, known)
  BY <1>4, <1>5 DEF Atomic!MergedOrder, MergedOrder, Atomic!AppendedOrder, AppendedOrder
<1>8. ASSUME NEW b, NEW r, NEW known
      PROVE  Atomic!MergedWait(b, r, known) = MergedWait(b, r, known)
  BY DEF Atomic!MergedWait, MergedWait, Atomic!MergedOn, MergedOn, Atomic!Kept, Kept,
     Atomic!Added, Added, Atomic!Switched, Switched, Atomic!Named, Named,
     Atomic!Target, Target, Atomic!CanonicalId, CanonicalId, Atomic!Hits, Hits
<1>9. \A b, r, known : Atomic!MergeAutostart(b, r, known) = MergeAutostart(b, r, known)
  BY <1>5, <1>7, <1>8 DEF Atomic!MergeAutostart, MergeAutostart
<1> QED
  BY <1>1, <1>2, <1>3, <1>6, <1>9

(* Initial states are initial states of the calls in one step.              *)
LEMMA RefinementInit == Init => Atomic!Init
BY SameOperators DEF Init, Atomic!Init, Stage

(* Each step is a step of one call of AtomicAutostart, or none. *)
LEMMA RefinementStep ==
  ASSUME Undisturbed, AtomicInv, [Next]_vars
  PROVE  [Atomic!Next]_(Atomic!avars)
<1> DEFINE stage == [c \in Calls |-> Stage(c)]
           merged == {c \in Calls : write[c] = "applied"}
<1> USE DEF AtomicInv, SafeInv, TypeOK, serverVars, Phases
<1>1. ASSUME NEW c \in Calls, RejectArguments(c)
      PROVE  Atomic!Reject(c)
  BY <1>1 DEF RejectArguments, Atomic!Reject, Stage, Ended, CallInv
<1>2. ASSUME NEW c \in Calls, Acquire(c) \/ Enqueue(c)
      PROVE  Atomic!Open(c)
  <2>1. Stage(c) = "new" /\ stage' = [stage EXCEPT ![c] = "open"]
    <3>1. CASE Acquire(c)
      BY <3>1 DEF Acquire, Stage, Ended
    <3>2. CASE Enqueue(c)
      BY <3>2 DEF Enqueue, Stage, Ended
    <3> QED
      BY <1>2, <3>1, <3>2
  <2>2. ValidateArguments(req[c]) /\ UNCHANGED <<boot, req, merged>>
    BY <1>2 DEF Acquire, Enqueue
  <2> QED
    BY <2>1, <2>2, SameOperators DEF Atomic!Open
<1>3. ASSUME NEW c \in Calls, Grant(c) \/ ServerRead(c)
      PROVE  UNCHANGED Atomic!avars
  BY <1>3 DEF Grant, ServerRead, Atomic!avars, Stage, Ended
<1>4. ASSUME NEW c \in Calls, SendWrite(c) \/ ServerDecline(c)
      PROVE  UNCHANGED Atomic!avars
  BY <1>4 DEF SendWrite, ServerDecline, Atomic!avars, Stage, Ended, CallInv
<1>5. ASSUME NEW c \in Calls, RejectMerge(c)
      PROVE  Atomic!Reject(c)
  BY <1>5 DEF RejectMerge, Leave, Atomic!Reject, Stage, Ended, CallInv
<1>6. ASSUME NEW c \in Calls, ReadErrors(c) \/ RequestFails(c) \/ Cancel(c)
      PROVE  Atomic!Fail(c)
  <2>1. Stage(c) = "open" /\ stage' = [stage EXCEPT ![c] = "failed"]
    BY <1>6 DEF ReadErrors, RequestFails, Cancel, GiveUp, Leave, Stage, Ended, InSection
  <2>2. UNCHANGED <<boot, req, merged>>
    BY <1>6 DEF ReadErrors, RequestFails, Cancel, GiveUp, Leave
  <2> QED
    BY <2>1, <2>2 DEF Atomic!Fail
<1>7. ASSUME NEW c \in Calls, ServerApply(c)
      PROVE  Atomic!Merge(c)
  <2>1. /\ boot' = MergeAutostart(boot, req[c], Containers)
        /\ Accepts(boot, req[c], Containers)
        /\ pc[c] = "writing"
    BY <1>7, AppliedIsMerge
  <2>2. Stage(c) = "open" /\ merged' = merged \cup {c} /\ c \notin merged
    BY <1>7, <2>1 DEF ServerApply, Stage, Ended
  <2> QED
    BY <1>7, <2>1, <2>2, SameOperators DEF ServerApply, Atomic!Merge, Stage
<1>8. ASSUME NEW c \in Calls, WriteReply(c)
      PROVE  Atomic!Succeed(c) \/ Atomic!Fail(c)
  BY <1>8 DEF WriteReply, Leave, Atomic!Succeed, Atomic!Fail, Stage, Ended
<1>9. ~ForeignWrite
  BY DEF ForeignWrite, Undisturbed
<1>10. CASE UNCHANGED vars
  BY <1>10 DEF vars, Atomic!avars, Stage
<1> QED
  BY <1>1, <1>2, <1>3, <1>4, <1>5, <1>6, <1>7, <1>8, <1>9, <1>10
  DEF Next, CallStep, ServerStep, Atomic!Next

(* The interleaved calls implement the one-step ones. *)
THEOREM Implements == ASSUME Undisturbed PROVE Spec => CallsAreAtomic
BY RefinementInit, RefinementStep, AtomicInvariance, PTL
DEF Spec, CallsAreAtomic, Atomic!Spec
=============================================================================
