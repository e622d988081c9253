--------------------------- MODULE AutostartMerge ---------------------------
(***************************************************************************)
(* What _merge_autostart (tools/docker.py) computes from the autostart     *)
(* list the server holds and the changes a caller asks for.                *)
(*                                                                         *)
(* A list without repetitions is represented by its set of members and the *)
(* strict total order "boots before" on them: only membership, waits and   *)
(* relative order mean anything to the server, and the representation lets *)
(* the merge be written, and proved about, without recursion.  The module  *)
(* AutostartList holds the same merge as the loop over Python lists; the   *)
(* run merge_agrees compares the two.                                      *)
(***************************************************************************)
EXTENDS Naturals, Sequences

CONSTANTS
  Containers,  \* the containers of the server, by their full PrefixedID
  Refs,        \* the texts a caller may pass as a container id
  Denotes,     \* Denotes[ref]: the containers that text matches
  Waits,       \* the wait times, in seconds, the examples use
  NoWait       \* an entry without a "wait" key

(* The text of an id matches a set of containers: one for a full or bare   *)
(* id, none for an id nobody has, several for a short id shared by several *)
(* containers.                                                             *)
ASSUME DenotesType == Denotes \in [Refs -> SUBSET Containers]
ASSUME NoWaitType == NoWait \notin Waits

-----------------------------------------------------------------------------
(* Autostart lists *)

BootLists ==
  [on: SUBSET Containers,
   before: SUBSET (Containers \X Containers),
   wait: [Containers -> Waits \cup {NoWait}]]

EmptyList ==
  [on |-> {}, before |-> {}, wait |-> [k \in Containers |-> NoWait]]

(* b is the image of a list: the order is strict and total on the members, *)
(* relates nothing else, and only members carry a wait.                    *)
WellOrdered(b) ==
  /\ \A p \in b.before : p[1] \in b.on /\ p[2] \in b.on /\ p[1] # p[2]
  /\ \A x, y \in b.on : x # y => (<<x, y>> \in b.before <=> <<y, x>> \notin b.before)
  /\ \A x, y, z \in b.on :
       <<x, y>> \in b.before /\ <<y, z>> \in b.before => <<x, z>> \in b.before
  /\ \A k \in Containers \ b.on : b.wait[k] = NoWait

-----------------------------------------------------------------------------
(* Requests: the arguments of one set_docker_autostart call.  "ordered" is  *)
(* whether an order was given; an omitted one lists nothing.                *)

Changes == [ref: Refs, auto: BOOLEAN, wait: Waits \cup {NoWait}]
RequestType ==
  {r \in [confirm: BOOLEAN, changes: Seq(Changes), ordered: BOOLEAN, order: Seq(Refs)] :
     ~r.ordered => r.order = << >>}

Distinct(s) == \A i, j \in DOMAIN s : s[i] = s[j] => i = j

(* The checks made before the lock is taken: confirm=true, a non-empty list *)
(* of changes, an order that is not empty if one is given, and no text      *)
(* listed twice in the changes or in the order.                             *)
ValidateArguments(r) ==
  /\ r.confirm
  /\ r.changes # << >>
  /\ r.ordered => r.order # << >>
  /\ Distinct([i \in DOMAIN r.changes |-> r.changes[i].ref])
  /\ Distinct(r.order)

(* _canonical_id against the rows that were read: the containers among      *)
(* "known" that the text matches.  One hit resolves it; several raise the   *)
(* ambiguity error; none leaves the text unchanged for the merge to report. *)
Hits(ref, known) == Denotes[ref] \cap known
Resolves(ref, known) == \E k \in known : Hits(ref, known) = {k}
CanonicalId(ref, known) == CHOOSE k \in known : Hits(ref, known) = {k}

Target(r, i, known) == CanonicalId(r.changes[i].ref, known)
Listed(r, known) == {CanonicalId(r.order[i], known) : i \in DOMAIN r.order}
Named(r, known) == {Target(r, i, known) : i \in DOMAIN r.changes}

Switched(r, known, auto) ==
  {k \in Named(r, known) :
     \E i \in DOMAIN r.changes : Target(r, i, known) = k /\ r.changes[i].auto = auto}

(* Mutant: only the named containers are sent. *)
Kept_NamedOnly(b, r, known) == b.on \cap Switched(r, known, TRUE)

Kept(b, r, known) == b.on \ Switched(r, known, FALSE)
Added(b, r, known) == Switched(r, known, TRUE) \ b.on
MergedOn(b, r, known) == Kept(b, r, known) \cup Added(b, r, known)

(* _canonicalize_autostart and the two checks of _merge_autostart: every    *)
(* change names one known container, no container is named by two changes   *)
(* (however each spells it), and the order lists, once each, containers     *)
(* that are enabled after the change.                                       *)
Accepts(b, r, known) ==
  /\ \A i \in DOMAIN r.changes : Resolves(r.changes[i].ref, known)
  /\ \A i, j \in DOMAIN r.changes : Target(r, i, known) = Target(r, j, known) => i = j
  /\ \A i \in DOMAIN r.order : Resolves(r.order[i], known)
  /\ \A i, j \in DOMAIN r.order :
       CanonicalId(r.order[i], known) = CanonicalId(r.order[j], known) => i = j
  /\ Listed(r, known) \subseteq MergedOn(b, r, known)

(* Enabled containers keep their places and new ones follow in the order    *)
(* of the changes.                                                          *)
AppendedOrder(b, r, known) ==
  LET kept == Kept(b, r, known)
      added == Added(b, r, known)
  IN  {p \in b.before : p[1] \in kept /\ p[2] \in kept}
      \cup (kept \X added)
      \cup {p \in added \X added :
              \E i, j \in DOMAIN r.changes :
                i < j /\ Target(r, i, known) = p[1] /\ Target(r, j, known) = p[2]}

(* Mutant: the rest is inserted behind the listed containers one by one,    *)
(* which turns it round.                                                    *)
MergedOrder_Inserts(b, r, known) ==
  LET first == Listed(r, known)
      rest == MergedOn(b, r, known) \ first
      appended == AppendedOrder(b, r, known)
  IN  IF first = {} THEN appended
      ELSE {p \in first \X first :
              \E i, j \in DOMAIN r.order :
                /\ i < j
                /\ CanonicalId(r.order[i], known) = p[1]
                /\ CanonicalId(r.order[j], known) = p[2]}
           \cup (first \X rest)
           \cup {p \in rest \X rest : <<p[2], p[1]>> \in appended}

(* The containers of "order" come first, in that order, the rest after      *)
(* them as they were.                                                       *)
MergedOrder(b, r, known) ==
  LET on == MergedOn(b, r, known)
      first == Listed(r, known)
      rest == on \ first
  IN  {p \in first \X first :
         \E i, j \in DOMAIN r.order :
           /\ i < j
           /\ CanonicalId(r.order[i], known) = p[1]
           /\ CanonicalId(r.order[j], known) = p[2]}
      \cup (first \X rest)
      \cup {p \in AppendedOrder(b, r, known) : p[1] \in rest /\ p[2] \in rest}

(* A wait that is given replaces the old one; without one an enabled        *)
(* container keeps its wait and a new entry has none.                       *)
MergedWait(b, r, known) ==
  [k \in Containers |->
     IF k \notin MergedOn(b, r, known) THEN NoWait
     ELSE IF \E i \in DOMAIN r.changes :
               Target(r, i, known) = k /\ r.changes[i].wait # NoWait
          THEN r.changes[CHOOSE i \in DOMAIN r.changes :
                           Target(r, i, known) = k /\ r.changes[i].wait # NoWait].wait
          ELSE b.wait[k]]

MergeAutostart(b, r, known) ==
  [on |-> MergedOn(b, r, known),
   before |-> MergedOrder(b, r, known),
   wait |-> MergedWait(b, r, known)]

-----------------------------------------------------------------------------
(* What a caller asked of container k, and whether a list does it. *)
Honours(b, r, known, k) ==
  \A i \in DOMAIN r.changes :
    Target(r, i, known) = k =>
      /\ k \in b.on <=> r.changes[i].auto
      /\ r.changes[i].auto /\ r.changes[i].wait # NoWait
           => b.wait[k] = r.changes[i].wait

SameSetting(b1, b2, k) ==
  /\ k \in b1.on <=> k \in b2.on
  /\ b1.wait[k] = b2.wait[k]
=============================================================================
