---------------------------- MODULE AutostartList ----------------------------
(***************************************************************************)
(* _merge_autostart (tools/docker.py) as the loop it is: over the rows of  *)
(* the container listing and the caller's changes, both Python lists.      *)
(***************************************************************************)
EXTENDS AutostartMerge

CONSTANTS
  RowLists,   \* the listings the server may answer with
  Requests,   \* the arguments the caller may pass
  NoOrder     \* autoStartOrder is null

ASSUME NoOrderType == NoOrder \notin Nat

(* One row of the listing and one entry of the list to be written.          *)
RowSet ==
  [id: Containers, auto: BOOLEAN, order: Nat \cup {NoOrder}, wait: Waits \cup {NoWait}]
EntrySet == [id: Containers, wait: Waits \cup {NoWait}]

(* The server lists a container once, whatever else a listing says.         *)
ASSUME RowListsType ==
  \A s \in RowLists :
    s \in Seq(RowSet) /\ \A i, j \in DOMAIN s : s[i].id = s[j].id => i = j
ASSUME RequestsType == Requests \subseteq RequestType

VARIABLES
  rows,     \* the listing that was read
  args,     \* the caller's arguments
  outcome,  \* "pending", "rejected" or "merged"
  full,     \* the list to be written
  repeated  \* the call has been merged, written and made once more

listVars == <<rows, args, outcome, full, repeated>>

Ids(s) == {s[i].id : i \in DOMAIN s}
EntryOf(s, id) == s[CHOOSE i \in DOMAIN s : s[i].id = id]

(* The elements of s at the given places, in turn: a comprehension.         *)
Select(s, places) ==
  LET upto[n \in 0..Len(s)] ==
        IF n = 0 THEN << >>
        ELSE IF n \in places THEN Append(upto[n - 1], s[n]) ELSE upto[n - 1]
  IN  upto[Len(s)]

(* sorted(..., key=(order is None, order or 0)), which is stable. *)
BootsBefore(r1, r2) ==
  \/ r1.order # NoOrder /\ r2.order = NoOrder
  \/ r1.order # NoOrder /\ r2.order # NoOrder /\ r1.order < r2.order

InsertRow(sorted, row) ==
  LET later == {i \in DOMAIN sorted : BootsBefore(row, sorted[i])}
  IN  Append(Select(sorted, (DOMAIN sorted) \ later), row) \o Select(sorted, later)

Sorted(s) ==
  LET upto[n \in 0..Len(s)] == IF n = 0 THEN << >> ELSE InsertRow(upto[n - 1], s[n])
  IN  upto[Len(s)]

Enabled == Select(rows, {i \in DOMAIN rows : rows[i].auto})
Entries(s) == [i \in DOMAIN s |-> [id |-> s[i].id, wait |-> s[i].wait]]

(* Mutant: the enabled rows stay in the order of the listing. *)
Current_Unsorted == Entries(Enabled)

Current == Entries(Sorted(Enabled))

(* Mutant: an update moves the entry to the end. *)
ApplyChange_Moves(current, change) ==
  LET id == CanonicalId(change.ref, Ids(rows))
      others == Select(current, {i \in DOMAIN current : current[i].id # id})
  IN  IF ~change.auto THEN others
      ELSE Append(others, [id |-> id, wait |-> change.wait])

(* One pass of "for change in changes". *)
ApplyChange(current, change) ==
  LET id == CanonicalId(change.ref, Ids(rows))
  IN  IF ~change.auto THEN Select(current, {i \in DOMAIN current : current[i].id # id})
      ELSE IF id \notin Ids(current)
           THEN Append(current, [id |-> id, wait |-> change.wait])
           ELSE [i \in DOMAIN current |->
                   IF current[i].id = id /\ change.wait # NoWait
                   THEN [current[i] EXCEPT !.wait = change.wait] ELSE current[i]]

PutFirst(current, order) ==
  LET listed == {CanonicalId(order[i], Ids(rows)) : i \in DOMAIN order}
  IN  [i \in DOMAIN order |-> EntryOf(current, CanonicalId(order[i], Ids(rows)))]
      \o Select(current, {i \in DOMAIN current : current[i].id \notin listed})

(* The checks: the first group is made before the loop, the last on the    *)
(* list the loop has made.                                                  *)
Unresolved(refs) == \E i \in DOMAIN refs : ~Resolves(refs[i], Ids(rows))
Repeated(refs) ==
  ~Distinct([i \in DOMAIN refs |-> CanonicalId(refs[i], Ids(rows))])
ChangeRefs == [i \in DOMAIN args.changes |-> args.changes[i].ref]

BadIds ==
  \/ Unresolved(ChangeRefs) \/ Repeated(ChangeRefs)
  \/ Unresolved(args.order) \/ Repeated(args.order)
Changed ==
  LET after[n \in 0..Len(args.changes)] ==
        IF n = 0 THEN Current ELSE ApplyChange(after[n - 1], args.changes[n])
  IN  after[Len(args.changes)]
BadOrder ==
  \E i \in DOMAIN args.order : CanonicalId(args.order[i], Ids(rows)) \notin Ids(Changed)
Acceptable == ~BadIds /\ ~BadOrder

ListInit ==
  /\ rows \in RowLists
  /\ args \in {r \in Requests : ValidateArguments(r)}
  /\ outcome = "pending"
  /\ full = << >>
  /\ repeated = FALSE

Reject ==
  /\ outcome = "pending"
  /\ ~Acceptable
  /\ outcome' = "rejected"
  /\ UNCHANGED <<rows, args, full, repeated>>

Merge ==
  /\ outcome = "pending"
  /\ Acceptable
  /\ outcome' = "merged"
  /\ full' = PutFirst(Changed, args.order)
  /\ UNCHANGED <<rows, args, repeated>>

(* The row of a container once the list is stored: its entry and place.     *)
StoredRow(row) ==
  LET i == CHOOSE p \in DOMAIN full : full[p].id = row.id
  IN  IF row.id \notin Ids(full) THEN [row EXCEPT !.auto = FALSE, !.order = NoOrder, !.wait = NoWait]
      ELSE [row EXCEPT !.auto = TRUE, !.order = i, !.wait = full[i].wait]

(* The list is stored, but the caller does not learn it, and calls again.   *)
Repeat ==
  /\ outcome = "merged" /\ ~repeated
  /\ rows' = [i \in DOMAIN rows |-> StoredRow(rows[i])]
  /\ outcome' = "pending"
  /\ repeated' = TRUE
  /\ UNCHANGED <<args, full>>

ListNext == Reject \/ Merge \/ Repeat

ListSpec == ListInit /\ [][ListNext]_listVars

-----------------------------------------------------------------------------
(* The set-and-order form of a list of entries. *)
Image(s) ==
  [on |-> Ids(s),
   before |-> {<<s[p[1]].id, s[p[2]].id>> :
                 p \in {q \in (DOMAIN s) \X (DOMAIN s) : q[1] < q[2]}},
   wait |-> [k \in Containers |->
               IF k \in Ids(s) THEN EntryOf(s, k).wait ELSE NoWait]]

(* The loop and the definition Autostart is built from agree: they reject   *)
(* the same requests and otherwise give the same list, entry by entry.      *)
LoopComputesMerge ==
  outcome # "pending" =>
    LET b == Image(Current)
        known == Ids(rows)
    IN  /\ outcome = "merged" <=> Accepts(b, args, known)
        /\ outcome = "merged" => Image(full) = MergeAutostart(b, args, known)

(* A call that is made again after its write was stored (its answer was     *)
(* lost, or it timed out) is accepted again and gives the list that is      *)
(* stored, entry by entry: a retry neither fails nor moves anything.        *)
RepeatChangesNothing ==
  [][repeated /\ outcome = "pending" => outcome' = "merged" /\ full' = full]_listVars
=============================================================================
