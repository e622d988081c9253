----------------------------- MODULE ContainerRefs -----------------------------
(***************************************************************************)
(* What a caller's reference to a container comes to mean                  *)
(* (tools/docker.py).  list_docker_containers shows short ids; then either *)
(* get_docker_container finds one container by any id or name, with up to  *)
(* three kinds of request, or update_docker_containers resolves a batch of *)
(* ids against one listing and sends them as one mutation.  Other programs *)
(* remove, create, rename and recreate containers between the requests.    *)
(* The API build may lack docker.container, or its newer fields, and a     *)
(* name may look like an id.                                               *)
(***************************************************************************)
EXTENDS ContainerIds

CONSTANTS
  Names,       \* names of containers: texts
  ShortOf,     \* the 12-hex id of each container
  MaxUpdate,   \* MAX_UPDATE_CONTAINERS
  Batches,     \* the lists of ids callers pass
  Nothing      \* no container

ASSUME NamesType == Names \subseteq Text
ASSUME ShortOfType ==
  /\ ShortOf \in [Keys -> Shorts]
  /\ \A j, k \in Keys : j \in Begins[ShortOf[k]] <=> ShortOf[j] = ShortOf[k]
ASSUME MaxUpdateType == MaxUpdate \in Nat \ {0}
ASSUME BatchesType == Batches \subseteq Seq(Text)
ASSUME NothingType == Nothing \notin Keys

Builds == {"none", "basic", "full"}

VARIABLES
  build,   \* the API build: what docker.container offers
  name,    \* the server: the name of each container it has
  seen,    \* the containers in the listing the caller was shown
  shown,   \* the id it showed for each container that passed its filter
  pc,      \* the request that is awaited, or how the call ended
  ids,     \* the identifier, or container_ids
  agreed,  \* whether a batch is confirmed
  listed,  \* whether rows is a listing
  rows,    \* the listing ids are looked up in: the name of each container in it
  cid,     \* the id the native query asks for
  byName,  \* it is the id of a row found by name
  sent,    \* the ids of the mutation
  result   \* the container returned

server == <<build, name>>
display == <<seen, shown>>
arguments == <<ids, agreed>>
listing == <<listed, rows>>
lookup == <<cid, byName>>
outcome == <<sent, result>>
vars == <<server, display, pc, arguments, listing, lookup, outcome>>

Existing == DOMAIN name
Ended == {"ok", "rejected", "failed"}
Namings == UNION {[S -> Names] : S \in SUBSET Keys}
NoRows == [k \in {} |-> Nothing]
Unique(n) == \A j, k \in DOMAIN n : n[j] = n[k] => j = k
ident == ids[1]

(* _needs_lookup, names accepted.                                           *)
NeedsLookUp(t) == ~PassesThrough(t)

Init ==
  /\ build \in Builds
  /\ name \in Namings /\ Unique(name)
  /\ seen = {} /\ shown = NoRows
  /\ pc = "start"
  /\ ids = << >> /\ agreed = FALSE
  /\ listed = FALSE /\ rows = NoRows
  /\ cid = Nothing /\ byName = FALSE
  /\ sent = << >> /\ result = Nothing

Goto(p) ==
  /\ pc' = p
  /\ UNCHANGED <<server, display, arguments, listing, lookup, outcome>>

-----------------------------------------------------------------------------
(* list_docker_containers: fetch_containers shortens, then filters.         *)

ShortText(k) == [form |-> "short", of |-> ShortOf[k], lower |-> TRUE]

(* shorten_container_ids: an id that is not alone in the rows is shown bare. *)
Shortened(k, S) ==
  IF \E j \in S \ {k} : ShortOf[j] = ShortOf[k] THEN ListedId(k) ELSE ShortText(k)

(* Mutant: rows are filtered first and shortened afterwards.                *)
ShownIds_FilterFirst(S, F) == [k \in F |-> Shortened(k, F)]
ShownIds(S, F) == [k \in F |-> Shortened(k, S)]

(* S came back with data, F passed the filters on name, state and update.   *)
Show ==
  /\ pc = "start"
  /\ \E S \in SUBSET Existing : \E F \in SUBSET S :
       /\ seen' = S
       /\ shown' = ShownIds(S, F)
  /\ pc' = "shown"
  /\ UNCHANGED <<server, arguments, listing, lookup, outcome>>

-----------------------------------------------------------------------------
(* get_docker_container: _resolve_container and fetch_container_native.     *)

Get ==
  /\ pc \in {"start", "shown"}
  /\ \E t \in Text :
       /\ ids' = <<t>>
       /\ IF NeedsLookUp(t) THEN pc' = "listing" /\ cid' = t
          ELSE pc' = "native" /\ cid' = NormalizeId(t)
  /\ UNCHANGED <<server, display, agreed, listing, byName, outcome>>

Return(k) == pc' = "ok" /\ result' = k

(* The answer to _list_containers; rows that came back empty are left out.  *)
Listed ==
  /\ pc = "listing" /\ ~listed
  /\ listed' = TRUE
  /\ \E S \in SUBSET Existing : rows' = [k \in S |-> name[k]]
  /\ pc' = IF NeedsLookUp(ident) THEN "picking" ELSE "falling back"
  /\ UNCHANGED <<server, display, arguments, lookup, outcome>>

(* Rows an identifier matches: ids a short id begins, and the name.         *)
ById(t) == IF IsShort(t) THEN Begins[t.of] \cap DOMAIN rows ELSE {}
Named(t) == {k \in DOMAIN rows : rows[k] = t}
Matching(t) == ById(t) \cup Named(t)

(* Mutant: a short id is preferred over a name that reads the same.         *)
Picked_IdFirst(t, k) == IF ById(t) # {} THEN ById(t) = {k} ELSE Named(t) = {k}

(* _pick_container: one match, by id and name together.                     *)
Picked(t, k) == Matching(t) = {k}

Pick ==
  /\ pc = "picking"
  /\ \E k \in DOMAIN rows : Picked(ident, k) /\ cid' = ListedId(k)
  /\ pc' = "native"
  /\ UNCHANGED <<server, display, arguments, listing, byName, outcome>>

NotPicked ==
  /\ pc = "picking"
  /\ ~\E k \in DOMAIN rows : Picked(ident, k)
  /\ Goto("rejected")

(* fetch_container_native: the newer selection, then the basic one.         *)
NativeUnsupported == pc = "native" /\ build # "full" /\ Goto("native basic")

NativeFound ==
  /\ \/ pc = "native" /\ build = "full"
     \/ pc = "native basic" /\ build = "basic"
  /\ \E k \in MatchedUpstream(cid) \cap Existing : Return(k)
  /\ UNCHANGED <<server, display, arguments, listing, lookup, sent>>

(* No such field, no such container, or no data beside an error: go on with *)
(* a listing, the one there is or a new one.                                *)
NativeMisses ==
  /\ pc = "native" => build = "full"
  /\ pc \in {"native", "native basic"}
  /\ Goto(IF byName THEN "by name" ELSE IF listed THEN "falling back" ELSE "listing")

IdInRows == {Bare(cid)} \cap DOMAIN rows

FallBackById ==
  /\ pc = "falling back"
  /\ \E k \in IdInRows : Return(k)
  /\ UNCHANGED <<server, display, arguments, listing, lookup, sent>>

(* Only where no row has the id: a container may be named like one.         *)
FallBackByName ==
  /\ pc = "falling back" /\ IdInRows = {}
  /\ \E k \in Named(ident) : cid' = ListedId(k)
  /\ byName' = TRUE
  /\ pc' = "native"
  /\ UNCHANGED <<server, display, arguments, listing, outcome>>

(* The row itself, if upstream has no details for it.                       *)
NamedRow ==
  /\ pc = "by name"
  /\ Return(Bare(cid))
  /\ UNCHANGED <<server, display, arguments, listing, lookup, sent>>

NothingFound ==
  /\ pc = "falling back" /\ IdInRows = {} /\ Named(ident) = {}
  /\ Goto("rejected")

-----------------------------------------------------------------------------
(* update_docker_containers: names are not accepted.                        *)

NoneTwice(s) == \A i, j \in DOMAIN s : i # j => Bare(s[i]) # Bare(s[j])

(* _validate_container_ids                                                  *)
Valid(s) == s # << >> /\ Len(s) <= MaxUpdate /\ NoneTwice(s)

UpdateCalled ==
  /\ pc \in {"start", "shown"}
  /\ ids' \in Batches /\ agreed' \in BOOLEAN
  /\ pc' = "called"
  /\ UNCHANGED <<server, display, listing, lookup, outcome>>

(* The resolver of the confirmation: no request, and no question about a    *)
(* batch that is refused anyway.                                            *)
Reject == pc = "called" /\ ~(agreed /\ Valid(ids)) /\ Goto("rejected")

Cleared == pc = "called" /\ agreed /\ Valid(ids)

LookUp ==
  /\ Cleared
  /\ \E i \in DOMAIN ids : IsShort(ids[i])
  /\ Goto("fetching")

NoLookUp ==
  /\ Cleared
  /\ \A i \in DOMAIN ids : ~IsShort(ids[i])
  /\ Goto("resolving")

(* _fetch_refs: one listing for all ids.                                    *)
RefsFetched ==
  /\ pc = "fetching"
  /\ listed' = TRUE
  /\ \E S \in SUBSET Existing : rows' = [k \in S |-> name[k]]
  /\ pc' = "resolving"
  /\ UNCHANGED <<server, display, arguments, lookup, outcome>>

Picks(t) == \E k \in DOMAIN rows : ById(t) = {k}

Resolvable == \A i \in DOMAIN ids : IsShort(ids[i]) => Picks(ids[i])

Resolved ==
  [i \in DOMAIN ids |->
     IF IsShort(ids[i]) THEN ListedId(CHOOSE k \in ById(ids[i]) : TRUE)
     ELSE NormalizeId(ids[i])]

(* Mutant: duplicates are looked for before short ids are resolved only.    *)
Sendable_NoSecondLook == Resolvable
Sendable == Resolvable /\ NoneTwice(Resolved)

(* with_heartbeat awaits the one mutation.                                  *)
Update ==
  /\ pc = "resolving" /\ Sendable
  /\ sent' = Resolved
  /\ pc' = "updating"
  /\ UNCHANGED <<server, display, arguments, listing, lookup, result>>

Unresolved == pc = "resolving" /\ ~Sendable /\ Goto("rejected")

Updated == pc = "updating" /\ Goto("ok")

-----------------------------------------------------------------------------
(* Any other error, a timeout or a cancellation.                            *)
RequestFails ==
  /\ pc \in {"listing", "native", "native basic", "fetching", "updating"}
  /\ Goto("failed")

(* Other programs: a container is removed, created, renamed, or recreated   *)
(* under a new id.                                                          *)
Changed ==
  /\ pc \notin Ended \cup {"start"}
  /\ \E new \in Namings :
       /\ Unique(new)
       /\ \/ \E k \in Existing : new = [j \in Existing \ {k} |-> name[j]]
          \/ \E k \in Keys, n \in Names :
               new = [j \in Existing \cup {k} |-> IF j = k THEN n ELSE name[j]]
       /\ name' = new
  /\ UNCHANGED <<build, display, pc, arguments, listing, lookup, outcome>>

Next ==
  \/ Show
  \/ Get \/ Listed \/ Pick \/ NotPicked
  \/ NativeUnsupported \/ NativeFound \/ NativeMisses
  \/ FallBackById \/ FallBackByName \/ NamedRow \/ NothingFound
  \/ UpdateCalled \/ Reject \/ LookUp \/ NoLookUp \/ RefsFetched
  \/ Update \/ Unresolved \/ Updated
  \/ RequestFails \/ Changed

Spec == Init /\ [][Next]_vars

-----------------------------------------------------------------------------
(* get_docker_container returns the container the identifier names, however *)
(* containers change meanwhile: a short id or name only if nothing else in  *)
(* the listing fits it, by its id or its name; a full id's own container    *)
(* rather than one named like it, unless the listing has none with the id.  *)
ResultIsMeant ==
  result # Nothing =>
    IF NeedsLookUp(ident) THEN Matching(ident) = {result}
    ELSE \/ result = ident.of
         \/ ident.of \notin DOMAIN rows /\ result \in Named(ident)

(* An id that list_docker_containers showed for a container, passed back    *)
(* later, means that container or none: never another one of the same       *)
(* listing, filtered out of it or not.  Only a read takes names too.        *)
ShownIsFound ==
  \A k \in DOMAIN shown :
    LET others == seen \ {k}
    IN  /\ result # Nothing /\ ident = shown[k] => result \notin others \ Named(ident)
        /\ \A i \in DOMAIN sent :
             ids[i] = shown[k] => MatchedUpstream(sent[i]) \cap others = {}

(* What is sent means upstream what the caller's text means here: each id   *)
(* is the container itself, or the only one in the listing a short id       *)
(* begins, and a word goes as it came.  Nothing is left out or added, and   *)
(* no container sent twice, however its ids are written: with or without    *)
(* prefix, in either case, short or in full.                                *)
Meant(t) ==
  IF IsShort(t) THEN Begins[t.of] \cap DOMAIN rows
  ELSE IF PassesThrough(t) THEN {t.of} ELSE {}
SentAreMeant ==
  sent # << >> =>
    /\ DOMAIN sent = DOMAIN ids
    /\ \A i \in DOMAIN ids :
         /\ MatchedUpstream(sent[i]) = Meant(ids[i])
         /\ ids[i].form = "word" => sent[i] = ids[i]
         /\ \A j \in DOMAIN ids : i # j => sent[i].of # sent[j].of
=============================================================================
