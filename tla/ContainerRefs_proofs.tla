-------------------------- MODULE ContainerRefs_proofs --------------------------
(***************************************************************************)
(* What a reference to a container comes to mean, for every set of ids,    *)
(* short ids, names and batches.  The inductive invariant says what each   *)
(* step of the two lookups has established: which id it asks upstream for, *)
(* and what the rows of the listing it was taken from say of it.           *)
(***************************************************************************)
EXTENDS ContainerRefs, TLAPS

Asking == {"native", "native basic", "falling back", "by name"}
Getting == {"listing", "picking"} \cup Asking
Updating == {"called", "fetching", "resolving", "updating"}

RefsType ==
  /\ pc \in {"start", "shown"} \cup Getting \cup Updating \cup Ended
  /\ DOMAIN name \subseteq Keys /\ DOMAIN rows \subseteq Keys
  /\ listed \in BOOLEAN /\ byName \in BOOLEAN
  /\ \A i \in DOMAIN ids : ids[i] \in Text

(* The ids that were shown were made from all the rows that came back.      *)
DisplayInv ==
  /\ seen \subseteq Keys
  /\ \A k \in DOMAIN shown : k \in seen /\ shown[k] = Shortened(k, seen)

(* The id that is asked for upstream is the identifier's own, that of the   *)
(* one container it matches, or, where no row has the id, one of that name. *)
AskedFor ==
  \/ ~byName /\ ~NeedsLookUp(ident) /\ cid = NormalizeId(ident)
  \/ ~byName /\ NeedsLookUp(ident) /\ \E k \in Keys : Matching(ident) = {k} /\ cid = ListedId(k)
  \/ /\ byName /\ ~NeedsLookUp(ident) /\ ident.of \notin DOMAIN rows
     /\ \E k \in Named(ident) : cid = ListedId(k)

(* What get_docker_container knows at each await.                           *)
GetInv ==
  /\ pc \in Getting => DOMAIN ids = {1}
  /\ pc = "listing" /\ ~NeedsLookUp(ident) => cid = NormalizeId(ident)
  /\ pc \in {"listing", "picking", "falling back"} => ~byName
  /\ pc = "listing" => ~listed
  /\ pc \in {"picking", "falling back"} => listed
  /\ pc = "picking" => NeedsLookUp(ident)
  /\ pc \in Asking => AskedFor
  /\ pc \in {"native", "native basic"} /\ NeedsLookUp(ident) => listed
  /\ pc = "by name" => byName

(* Nothing is returned or sent before the end; no lookup is under way       *)
(* before a call.                                                           *)
CallInv ==
  /\ pc \notin Ended => result = Nothing
  /\ pc \notin Ended \cup {"updating"} => sent = << >>
  /\ pc \in {"start", "shown"} => ~listed /\ ~byName

RefsInv == RefsType /\ DisplayInv /\ GetInv /\ CallInv /\ ResultIsMeant /\ SentAreMeant

USE NothingType, BatchesType

USE DEF RefsType, CallInv, Asking, Getting, Updating, Ended, server, display,
        arguments, listing, lookup, outcome, Goto

(* A text keeps what it is about when it is normalized. *)
LEMMA Normalized ==
  ASSUME NEW t \in Text
  PROVE  /\ NormalizeId(t) \in Text /\ NormalizeId(t).of = t.of
         /\ MatchedUpstream(NormalizeId(t)) = IF NeedsLookUp(t) THEN {} ELSE {t.of}
         /\ NeedsLookUp(t) => NormalizeId(t) = t
BY DEF NormalizeId, Text, PassesThrough, NeedsLookUp, MatchedUpstream

(* A listed id matches its own container and no other. *)
LEMMA ListedMatches ==
  \A k : MatchedUpstream(ListedId(k)) = {k} /\ Bare(ListedId(k)) = k /\ ListedId(k).of = k
BY DEF MatchedUpstream, ListedId, PassesThrough, Bare

(* Rows an identifier matches are rows. *)
LEMMA MatchesAreRows == \A t : ById(t) \cup Named(t) \subseteq DOMAIN rows
BY DEF ById, Named

(* The id that is asked for is the id of a container the answer may be.     *)
LEMMA AskedIsMeant ==
  ASSUME RefsInv, pc \in Asking
  PROVE  /\ cid.of = Bare(cid)
         /\ MatchedUpstream(cid) = {cid.of}
         /\ IF NeedsLookUp(ident) THEN Matching(ident) = {cid.of}
            ELSE \/ cid.of = ident.of /\ ~byName
                 \/ ident.of \notin DOMAIN rows /\ cid.of \in Named(ident)
<1>1. ident \in Text /\ AskedFor
  BY DEF RefsInv, GetInv, ident
<1> QED BY <1>1, Normalized, ListedMatches DEF AskedFor, Bare

LEMMA InitInv == Init => RefsInv
<1> SUFFICES ASSUME Init PROVE RefsInv
  OBVIOUS
<1>1. DOMAIN name \subseteq Keys
  BY DEF Init, Namings
<1>2. DOMAIN rows = {} /\ DOMAIN shown = {} /\ DOMAIN ids = {}
  BY DEF Init, NoRows
<1>3. RefsType /\ DisplayInv
  BY <1>1, <1>2 DEF Init, DisplayInv
<1>4. GetInv /\ CallInv /\ ResultIsMeant /\ SentAreMeant
  BY DEF Init, GetInv, ResultIsMeant, SentAreMeant
<1> QED BY <1>3, <1>4 DEF RefsInv

(* list_docker_containers: the caller is shown ids made from all rows.      *)
LEMMA ShowInv == RefsInv /\ Show => RefsInv'
<1> SUFFICES ASSUME RefsInv, Show PROVE RefsInv'
  OBVIOUS
<1>1. DisplayInv'
  BY DEF Show, RefsInv, DisplayInv, ShownIds, Shortened, Existing
<1>2. RefsType' /\ GetInv' /\ CallInv' /\ ResultIsMeant' /\ SentAreMeant'
  BY DEF Show, RefsInv, GetInv, ResultIsMeant, SentAreMeant
<1> QED BY <1>1, <1>2 DEF RefsInv

(* get_docker_container: the identifier is looked up, or asked for at once. *)
LEMMA GetCalledInv == RefsInv /\ Get => RefsInv'
<1> SUFFICES ASSUME RefsInv, Get PROVE RefsInv'
  OBVIOUS
<1>1. PICK t \in Text :
        /\ ids' = <<t>>
        /\ IF NeedsLookUp(t) THEN pc' = "listing" /\ cid' = t
           ELSE pc' = "native" /\ cid' = NormalizeId(t)
  BY DEF Get
<1>2. /\ pc \in {"start", "shown"}
      /\ UNCHANGED <<server, display, agreed, listing, byName, outcome>>
  BY DEF Get
<1>3. ident' = t /\ DOMAIN ids' = {1} /\ ids'[1] = t
  BY <1>1 DEF ident
<1>4. RefsType' /\ DisplayInv' /\ CallInv'
  BY <1>1, <1>2, <1>3 DEF RefsInv, DisplayInv
<1>5. GetInv'
  BY <1>1, <1>2, <1>3 DEF RefsInv, GetInv, AskedFor
<1>6. ResultIsMeant' /\ SentAreMeant'
  BY <1>2 DEF RefsInv, ResultIsMeant, SentAreMeant
<1> QED BY <1>4, <1>5, <1>6 DEF RefsInv

(* The listing arrives; an identifier that needs none is searched for in it *)
(* only after upstream did not know it.                                     *)
LEMMA ListedInv == RefsInv /\ Listed => RefsInv'
<1> SUFFICES ASSUME RefsInv, Listed PROVE RefsInv'
  OBVIOUS
<1>1. pc = "listing" /\ UNCHANGED <<server, display, arguments, lookup, outcome>> /\ listed'
  BY DEF Listed
<1>2. ident' = ident /\ (NeedsLookUp(ident)' <=> NeedsLookUp(ident))
      /\ pc' = IF NeedsLookUp(ident) THEN "picking" ELSE "falling back"
  BY <1>1 DEF Listed, ident, NeedsLookUp
<1>3. DOMAIN rows' \subseteq Keys
  BY DEF Listed, Existing, RefsInv
<1>4. RefsType' /\ DisplayInv' /\ CallInv'
  BY <1>1, <1>2, <1>3 DEF RefsInv, DisplayInv
<1>5. GetInv'
  BY <1>1, <1>2 DEF RefsInv, GetInv, AskedFor
<1>6. ResultIsMeant' /\ SentAreMeant'
  BY <1>1 DEF RefsInv, ResultIsMeant, SentAreMeant
<1> QED BY <1>4, <1>5, <1>6 DEF RefsInv

(* Exactly one row matches.                                                 *)
LEMMA PickInv == RefsInv /\ Pick => RefsInv'
<1> SUFFICES ASSUME RefsInv, Pick PROVE RefsInv'
  OBVIOUS
<1>1. /\ pc = "picking" /\ pc' = "native"
      /\ UNCHANGED <<server, display, arguments, listing, byName, outcome>>
  BY DEF Pick
<1>2. PICK k \in DOMAIN rows : Matching(ident) = {k} /\ cid' = ListedId(k)
  BY DEF Pick, Picked
<1>3. ident' = ident /\ (NeedsLookUp(ident)' <=> NeedsLookUp(ident)) /\ Matching(ident)' = Matching(ident)
  BY <1>1 DEF ident, NeedsLookUp, Matching, ById, Named
<1>4. RefsType' /\ DisplayInv' /\ CallInv'
  BY <1>1 DEF RefsInv, DisplayInv
<1>5. GetInv'
  BY <1>1, <1>2, <1>3 DEF RefsInv, GetInv, AskedFor, listing
<1>6. ResultIsMeant' /\ SentAreMeant'
  BY <1>1 DEF RefsInv, ResultIsMeant, SentAreMeant
<1> QED BY <1>4, <1>5, <1>6 DEF RefsInv

(* What a step leaves alone when nothing but the control changes.           *)
LEMMA Unmoved ==
  ASSUME RefsInv, UNCHANGED <<ids, rows, cid, byName, listed, sent, result, seen, shown>>
  PROVE  /\ ident' = ident /\ (NeedsLookUp(ident)' <=> NeedsLookUp(ident))
         /\ (AskedFor' <=> AskedFor)
         /\ DisplayInv' /\ ResultIsMeant' /\ SentAreMeant'
<1>1. ident' = ident /\ (NeedsLookUp(ident)' <=> NeedsLookUp(ident))
  BY DEF ident, NeedsLookUp
<1>2. (AskedFor' <=> AskedFor)
  BY <1>1 DEF AskedFor, Matching, ById, Named
<1>3. DisplayInv' /\ ResultIsMeant' /\ SentAreMeant'
  BY <1>1 DEF RefsInv, DisplayInv, ResultIsMeant, SentAreMeant, Matching, ById, Named, Meant
<1> QED BY <1>1, <1>2, <1>3

(* The steps that only choose the next request, or end the call.            *)
LEMMA ControlInv ==
  RefsInv /\ (\/ NotPicked \/ NativeUnsupported \/ NativeMisses \/ NothingFound
              \/ Reject \/ LookUp \/ NoLookUp \/ Unresolved \/ Updated
              \/ RequestFails)
    => RefsInv'
<1> SUFFICES ASSUME RefsInv,
                    \/ NotPicked \/ NativeUnsupported \/ NativeMisses \/ NothingFound
                    \/ Reject \/ LookUp \/ NoLookUp \/ Unresolved \/ Updated
                    \/ RequestFails
             PROVE  RefsInv'
  OBVIOUS
<1> USE DEF NotPicked, NativeUnsupported, NativeMisses, NothingFound, Reject, LookUp,
            NoLookUp, Unresolved, Updated, RequestFails, Cleared
<1>1. UNCHANGED <<server, display, arguments, listing, lookup, outcome>>
  OBVIOUS
<1>2. /\ ident' = ident /\ (NeedsLookUp(ident)' <=> NeedsLookUp(ident))
      /\ (AskedFor' <=> AskedFor)
      /\ DisplayInv' /\ ResultIsMeant' /\ SentAreMeant'
  BY <1>1, Unmoved
<1>3. RefsType' /\ CallInv'
  BY <1>1 DEF RefsInv
<1>4. GetInv'
  <2>1. CASE NativeMisses
    <3>1. AskedFor /\ (NeedsLookUp(ident) => listed)
      BY <2>1 DEF RefsInv, GetInv
    <3>2. ~byName /\ ~NeedsLookUp(ident) => cid = NormalizeId(ident)
      BY <3>1 DEF AskedFor
    <3>3. NormalizeId(ident)' = NormalizeId(ident) /\ cid' = cid
      BY <1>1, <1>2 DEF NormalizeId, PassesThrough
    <3>4. /\ pc \in Asking /\ DOMAIN ids' = {1} /\ listed' = listed /\ byName' = byName
          /\ pc' = IF byName THEN "by name" ELSE IF listed THEN "falling back" ELSE "listing"
      BY <1>1, <2>1 DEF RefsInv, GetInv
    <3>5. AskedFor'
      BY <3>1, <1>2
    <3>6. CASE byName
      BY <3>4, <3>5, <3>6 DEF GetInv
    <3>7. CASE ~byName
      BY <1>2, <3>1, <3>2, <3>3, <3>4, <3>5, <3>7 DEF GetInv
    <3> QED BY <3>6, <3>7
  <2>2. CASE ~NativeMisses
    BY <1>1, <1>2, <2>2 DEF RefsInv, GetInv
  <2> QED BY <2>1, <2>2
<1> QED BY <1>2, <1>3, <1>4 DEF RefsInv

(* get_docker_container returns what upstream has under the id that was     *)
(* asked for, a row of the listing with it, or the row of that name.        *)
LEMMA ReturnInv == RefsInv /\ (NativeFound \/ FallBackById \/ NamedRow) => RefsInv'
<1> SUFFICES ASSUME RefsInv, NativeFound \/ FallBackById \/ NamedRow PROVE RefsInv'
  OBVIOUS
<1> USE DEF NativeFound, FallBackById, NamedRow, Return
<1>1. /\ pc \in Asking /\ pc' = "ok" /\ sent = << >>
      /\ UNCHANGED <<server, display, arguments, listing, lookup, sent>>
  BY DEF RefsInv
<1>2. result' = cid.of
  <2>1. cid.of = Bare(cid) /\ MatchedUpstream(cid) = {cid.of}
    BY <1>1, AskedIsMeant
  <2>2. CASE NativeFound
    BY <2>1, <2>2
  <2>3. CASE FallBackById
    BY <2>1, <2>3 DEF IdInRows
  <2>4. CASE NamedRow
    BY <2>1, <2>4
  <2> QED BY <2>2, <2>3, <2>4
<1>3. ident' = ident /\ rows' = rows /\ (NeedsLookUp(ident)' <=> NeedsLookUp(ident))
      /\ Matching(ident)' = Matching(ident) /\ Named(ident)' = Named(ident)
  BY <1>1 DEF ident, NeedsLookUp, Matching, ById, Named
<1>4. ResultIsMeant'
  BY <1>1, <1>2, <1>3, AskedIsMeant DEF ResultIsMeant
<1>5. RefsType' /\ DisplayInv' /\ GetInv' /\ CallInv' /\ SentAreMeant'
  BY <1>1 DEF RefsInv, DisplayInv, GetInv, SentAreMeant
<1> QED BY <1>4, <1>5 DEF RefsInv

(* A container named like an id is asked for where no row has the id.       *)
LEMMA ByNameInv == RefsInv /\ FallBackByName => RefsInv'
<1> SUFFICES ASSUME RefsInv, FallBackByName PROVE RefsInv'
  OBVIOUS
<1>1. /\ pc = "falling back" /\ pc' = "native" /\ byName' = TRUE /\ ~byName
      /\ UNCHANGED <<server, display, arguments, listing, outcome>>
  BY DEF FallBackByName, RefsInv, GetInv
<1>2. PICK k \in Named(ident) : cid' = ListedId(k)
  BY DEF FallBackByName
<1>3. Bare(cid) \notin DOMAIN rows
  BY DEF FallBackByName, IdInRows
<1>4. ~NeedsLookUp(ident) /\ ident.of \notin DOMAIN rows
  BY <1>1, <1>3, AskedIsMeant, MatchesAreRows DEF Matching
<1>5. ident' = ident /\ (NeedsLookUp(ident)' <=> NeedsLookUp(ident)) /\ Named(ident)' = Named(ident)
  BY <1>1 DEF ident, NeedsLookUp, Named
<1>6. AskedFor'
  BY <1>1, <1>2, <1>4, <1>5 DEF AskedFor
<1>7. RefsType' /\ DisplayInv' /\ CallInv' /\ GetInv'
  BY <1>1, <1>4, <1>5, <1>6 DEF RefsInv, DisplayInv, GetInv
<1>8. ResultIsMeant' /\ SentAreMeant'
  BY <1>1 DEF RefsInv, ResultIsMeant, SentAreMeant
<1> QED BY <1>7, <1>8 DEF RefsInv

(* update_docker_containers is called, and its one listing arrives.         *)
LEMMA BatchInv == RefsInv /\ (UpdateCalled \/ RefsFetched) => RefsInv'
<1> SUFFICES ASSUME RefsInv, UpdateCalled \/ RefsFetched PROVE RefsInv'
  OBVIOUS
<1>1. CASE UpdateCalled
  <2>1. /\ pc' = "called" /\ ids' \in Seq(Text) /\ pc \in {"start", "shown"}
        /\ UNCHANGED <<server, display, listing, lookup, outcome>>
    BY <1>1 DEF UpdateCalled
  <2>3. \A i \in DOMAIN ids' : ids'[i] \in Text
    BY <2>1
  <2>2. RefsType' /\ DisplayInv' /\ GetInv' /\ CallInv' /\ ResultIsMeant' /\ SentAreMeant'
    BY <2>1, <2>3 DEF RefsInv, DisplayInv, GetInv, ResultIsMeant, SentAreMeant
  <2> QED BY <2>2 DEF RefsInv
<1>2. CASE RefsFetched
  <2>1. /\ pc = "fetching" /\ pc' = "resolving" /\ listed'
        /\ UNCHANGED <<server, display, arguments, lookup, outcome>>
        /\ DOMAIN rows' \subseteq Keys
    BY <1>2 DEF RefsFetched, RefsInv, Existing
  <2>2. RefsType' /\ DisplayInv' /\ GetInv' /\ CallInv' /\ ResultIsMeant' /\ SentAreMeant'
    BY <2>1 DEF RefsInv, DisplayInv, GetInv, ResultIsMeant, SentAreMeant
  <2> QED BY <2>2 DEF RefsInv
<1> QED BY <1>1, <1>2

(* What each text of a batch is sent as.                                    *)
LEMMA ResolvedIsMeant ==
  ASSUME RefsInv, Resolvable, NEW i \in DOMAIN ids
  PROVE  /\ MatchedUpstream(Resolved[i]) = Meant(ids[i])
         /\ ids[i].form = "word" => Resolved[i] = ids[i]
         /\ Bare(Resolved[i]) = Resolved[i].of
<1>1. ids[i] \in Text
  BY DEF RefsInv
<1>2. CASE IsShort(ids[i])
  <2>1. PICK k \in DOMAIN rows : ById(ids[i]) = {k}
    BY <1>2 DEF Resolvable, Picks
  <2>2. Resolved[i] = ListedId(k)
    BY <1>2, <2>1 DEF Resolved
  <2> QED BY <1>2, <2>1, <2>2, ListedMatches DEF Meant, ById, IsShort
<1>3. CASE ~IsShort(ids[i])
  <2>1. Resolved[i] = NormalizeId(ids[i])
    BY <1>3 DEF Resolved
  <2>2. ids[i].form = "word" => NeedsLookUp(ids[i])
    BY DEF NeedsLookUp, PassesThrough
  <2> QED BY <1>1, <1>3, <2>1, <2>2, Normalized DEF Meant, NeedsLookUp, Bare
<1> QED BY <1>2, <1>3

(* The mutation is sent.                                                    *)
LEMMA UpdateInv == RefsInv /\ Update => RefsInv'
<1> SUFFICES ASSUME RefsInv, Update PROVE RefsInv'
  OBVIOUS
<1>1. /\ pc = "resolving" /\ pc' = "updating" /\ sent' = Resolved
      /\ Resolvable /\ NoneTwice(Resolved)
      /\ UNCHANGED <<server, display, arguments, listing, lookup, result>>
  BY DEF Update, Sendable
<1>2. DOMAIN Resolved = DOMAIN ids
  BY DEF Resolved
<1>3. \A t : Meant(t)' = Meant(t)
  BY <1>1 DEF Meant
<1>4. \A i, j \in DOMAIN ids : i # j => Resolved[i].of # Resolved[j].of
  BY <1>1, <1>2, ResolvedIsMeant DEF NoneTwice
<1>5. SentAreMeant'
  BY <1>1, <1>2, <1>3, <1>4, ResolvedIsMeant DEF SentAreMeant
<1>6. RefsType' /\ DisplayInv' /\ GetInv' /\ CallInv' /\ ResultIsMeant'
  BY <1>1 DEF RefsInv, DisplayInv, GetInv, ResultIsMeant
<1> QED BY <1>5, <1>6 DEF RefsInv

(* What other programs do is not seen before the next listing.              *)
LEMMA ChangedInv == RefsInv /\ Changed => RefsInv'
<1> SUFFICES ASSUME RefsInv, Changed PROVE RefsInv'
  OBVIOUS
<1>1. UNCHANGED <<build, display, pc, arguments, listing, lookup, outcome>>
  BY DEF Changed
<1>2. DOMAIN name' \subseteq Keys
  BY DEF Changed, Namings
<1>3. /\ ident' = ident /\ (NeedsLookUp(ident)' <=> NeedsLookUp(ident))
      /\ (AskedFor' <=> AskedFor)
      /\ DisplayInv' /\ ResultIsMeant' /\ SentAreMeant'
  BY <1>1, Unmoved
<1>4. NormalizeId(ident)' = NormalizeId(ident)
  BY <1>3 DEF NormalizeId, PassesThrough
<1>5. RefsType' /\ CallInv'
  BY <1>1, <1>2 DEF RefsInv
<1>6. GetInv'
  BY <1>1, <1>3, <1>4 DEF RefsInv, GetInv
<1> QED BY <1>3, <1>5, <1>6 DEF RefsInv

(* RefsInv is inductive. *)
LEMMA StepInv == RefsInv /\ [Next]_vars => RefsInv'
<1> SUFFICES ASSUME RefsInv, [Next]_vars PROVE RefsInv'
  OBVIOUS
<1>1. CASE UNCHANGED vars
  <2>1. UNCHANGED <<server, display, pc, arguments, listing, lookup, outcome>>
    BY <1>1 DEF vars
  <2>2. /\ ident' = ident /\ (NeedsLookUp(ident)' <=> NeedsLookUp(ident))
        /\ (AskedFor' <=> AskedFor)
        /\ DisplayInv' /\ ResultIsMeant' /\ SentAreMeant'
    BY <2>1, Unmoved
  <2>3. NormalizeId(ident)' = NormalizeId(ident)
    BY <2>2 DEF NormalizeId, PassesThrough
  <2>4. RefsType' /\ CallInv'
    BY <2>1 DEF RefsInv
  <2>5. GetInv'
    BY <2>1, <2>2, <2>3 DEF RefsInv, GetInv
  <2> QED BY <2>2, <2>4, <2>5 DEF RefsInv
<1>2. CASE Next
  BY <1>2, ShowInv, GetCalledInv, ListedInv, PickInv, ControlInv, ReturnInv, ByNameInv,
     BatchInv, UpdateInv, ChangedInv
     DEF Next
<1> QED BY <1>1, <1>2

-----------------------------------------------------------------------------
(* Whatever the ids, names and interleaved changes: a returned container is *)
(* the one the identifier names in the listing it was looked up in, or the  *)
(* full id's own (_resolve_container).                                      *)
THEOREM LookupIsFaithful == Spec => []ResultIsMeant
<1>1. RefsInv => ResultIsMeant
  BY DEF RefsInv
<1> QED BY InitInv, StepInv, <1>1, PTL DEF Spec

(* Every batch is sent as what it means, each container once                *)
(* (resolve_container_ids).                                                 *)
THEOREM BatchIsFaithful == Spec => []SentAreMeant
<1>1. RefsInv => SentAreMeant
  BY DEF RefsInv
<1> QED BY InitInv, StepInv, <1>1, PTL DEF Spec

(* A shown id is its container's own, or short and of no other row.         *)
LEMMA ShownIsOwn ==
  ASSUME RefsInv, NEW k \in DOMAIN shown
  PROVE  \/ shown[k] = ListedId(k)
         \/ shown[k] = ShortText(k) /\ Begins[ShortOf[k]] \cap (seen \ {k}) = {}
<1>1. k \in seen /\ seen \subseteq Keys /\ shown[k] = Shortened(k, seen)
  BY DEF RefsInv, DisplayInv
<1> QED BY <1>1, ShortOfType DEF Shortened

(* Ids that were shown never mean another container of the listing they     *)
(* were shown in, for every clash of short ids and every filter             *)
(* (fetch_containers and shorten_container_ids).                            *)
THEOREM ShownIdsAreSafe == Spec => []ShownIsFound
<1>1. ASSUME RefsInv, NEW k \in DOMAIN shown, result # Nothing, ident = shown[k]
      PROVE  result \notin (seen \ {k}) \ Named(ident)
  <2> USE <1>1
  <2>3. IF NeedsLookUp(ident) THEN Matching(ident) = {result}
        ELSE \/ result = ident.of
             \/ ident.of \notin DOMAIN rows /\ result \in Named(ident)
    BY DEF RefsInv, ResultIsMeant
  <2>1. CASE shown[k] = ListedId(k)
    <3>1. ~NeedsLookUp(ident) /\ ident.of = k
      BY <2>1 DEF ListedId, NeedsLookUp, PassesThrough
    <3> QED BY <2>3, <3>1
  <2>2. CASE shown[k] = ShortText(k) /\ Begins[ShortOf[k]] \cap (seen \ {k}) = {}
    <3>1. ident = ShortText(k)
      BY <2>2
    <3>2. NeedsLookUp(ident) /\ ident.of = ShortOf[k] /\ IsShort(ident)
      BY <3>1 DEF ShortText, NeedsLookUp, PassesThrough, IsShort
    <3>3. Matching(ident) = {result}
      BY <2>3, <3>2
    <3> QED BY <2>2, <3>2, <3>3 DEF Matching, ById
  <2> QED BY <1>1, <2>1, <2>2, ShownIsOwn
<1>2. ASSUME RefsInv, NEW k \in DOMAIN shown, NEW i \in DOMAIN sent, ids[i] = shown[k]
      PROVE  MatchedUpstream(sent[i]) \cap (seen \ {k}) = {}
  <2>4. sent # << >>
    BY <1>2
  <2>1. MatchedUpstream(sent[i]) = Meant(ids[i])
    BY <1>2, <2>4 DEF RefsInv, SentAreMeant
  <2>2. CASE shown[k] = ListedId(k)
    BY <1>2, <2>1, <2>2 DEF ListedId, Meant, IsShort, PassesThrough
  <2>3. CASE shown[k] = ShortText(k) /\ Begins[ShortOf[k]] \cap (seen \ {k}) = {}
    BY <1>2, <2>1, <2>3 DEF ShortText, Meant, IsShort
  <2> QED BY <1>2, <2>2, <2>3, ShownIsOwn
<1>3. RefsInv => ShownIsFound
  BY <1>1, <1>2 DEF ShownIsFound
<1> QED BY InitInv, StepInv, <1>3, PTL DEF Spec
=============================================================================
