--------------------------- MODULE MCContainerRefs ---------------------------
(***************************************************************************)
(* Two containers with the same 12-hex id and a longer id of one of them,  *)
(* named by a word, like that longer id, or like the other's full id.      *)
(* Every batch of at most two of five texts, with one of them repeated, or *)
(* with a word.                                                            *)
(***************************************************************************)
EXTENDS ContainerRefs

CONSTANTS plex, spare

T(form, of, lower) == [form |-> form, of |-> of, lower |-> lower]

MCKeys == {plex, spare}
MCShorts == {"shared", "longer"}
MCBegins == [s \in MCShorts |-> IF s = "longer" THEN {plex} ELSE {plex, spare}]
MCShortOf == [k \in MCKeys |-> "shared"]
MCWords == {"word"}
MCNames == {T("word", "word", TRUE), T("short", "longer", TRUE), T("bare", plex, TRUE)}
Texts == {T("full", plex, TRUE), T("bare", plex, FALSE), T("full", spare, FALSE),
          T("short", "longer", FALSE), T("short", "shared", TRUE)}
MCBatches == UNION {[1..n -> Texts] : n \in 0..2} \cup {<<a, b, a>> : a, b \in Texts}
               \cup {<<T("word", "word", TRUE), a>> : a \in Texts}
=============================================================================
