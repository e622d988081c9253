----------------------------- MODULE ContainerIds -----------------------------
(***************************************************************************)
(* The ways to name a container, and what tools/docker.py makes of them:   *)
(* <serverId>:<64 hex>, the bare 64 hex, 12 to 63 hex, and other words,    *)
(* names among them.  Upstream matches ids exactly, in lower case.         *)
(***************************************************************************)
EXTENDS Naturals, Sequences, FiniteSets

CONSTANTS
  Keys,      \* the 64-hex ids, those of future containers included
  Shorts,    \* the short ids
  Begins,    \* the ids each short id begins
  Words      \* what else may be passed

ASSUME BeginsType == Begins \in [Shorts -> SUBSET Keys]

Text == [form: {"full", "bare"}, of: Keys, lower: BOOLEAN]
          \cup [form: {"short"}, of: Shorts, lower: BOOLEAN]
          \cup [form: {"word"}, of: Words, lower: {TRUE}]

IsShort(t) == t.form = "short"
PassesThrough(t) == t.form \in {"full", "bare"}

NormalizeId(t) == IF PassesThrough(t) THEN [t EXCEPT !.lower = TRUE] ELSE t

(* Without its prefix and in lower case: what ids are compared by.          *)
Bare(t) == t.of

(* A row of a listing: the client has dropped the prefix.                   *)
ListedId(k) == [form |-> "bare", of |-> k, lower |-> TRUE]

(* What upstream finds for an id: it matches ids exactly, in lower case.   *)
MatchedUpstream(id) == IF PassesThrough(id) /\ id.lower THEN {id.of} ELSE {}
=============================================================================
