------------------------------- MODULE LogPages -------------------------------
(***************************************************************************)
(* Reading a log page by page while it grows.  read_log_file (tools/       *)
(* misc.py) gives a window of a file's lines from the first one asked for, *)
(* get_docker_container_logs (tools/docker.py) a container's newest lines  *)
(* after a cursor; both are cut to a character budget (formatting.py), the *)
(* one at its end and the other at its beginning.                          *)
(*                                                                         *)
(* A line is represented by its number of characters as serialized, a      *)
(* timestamp by the number of the line it belongs to.  How much is left of *)
(* a line that is cut is not modelled, except that it fits.                *)
(***************************************************************************)
EXTENDS Naturals, Sequences

CONSTANTS
  Budget,      \* the room for the content of a page
  LineMax,     \* _LOG_LINE_MAX_CHARS
  Window,      \* how many lines the reader asks for
  MaxLines,    \* MAX_LOG_LINES, of a file
  MaxTail,     \* MAX_LOG_TAIL, of a container
  Lengths,     \* the lengths of lines
  MaxLength    \* bound: the number of lines of the log

ASSUME BudgetType == Budget \in Nat /\ LineMax \in Nat /\ LineMax <= Budget
ASSUME WindowType == Window \in Nat /\ MaxLines \in Nat \ {0} /\ MaxTail \in Nat \ {0}
ASSUME LengthsType == Lengths \subseteq Nat \ {0}

VARIABLES
  kind,      \* whose log it is: a file's or a container's
  log,       \* the lengths of its lines
  start,     \* the line the reader asks for next, or the one it asks for those
             \* after (since); 0: it names none
  page,      \* the last page
  received,  \* history: the numbers of the lines received, in turn
  cut        \* history: those of them that were cut

vars == <<kind, log, start, page, received, cut>>

(* The number of characters of the first n lines.                           *)
Size(s, n) ==
  LET used[k \in 0..Len(s)] == IF k = 0 THEN 0 ELSE used[k - 1] + s[k]
  IN  used[n]

(* A page: lines first to last of the window from..upto.                    *)
NoPage == [from |-> 1, upto |-> 0, first |-> 1, last |-> 0, cut |-> {},
           omitted |-> 0, truncated |-> FALSE]

Init ==
  /\ kind \in {"file", "container"}
  /\ log \in UNION {[1..n -> Lengths] : n \in 0..MaxLength}
  /\ start \in IF kind = "file" THEN {0, 1} ELSE {0}
  /\ page = NoPage
  /\ received = << >> /\ cut = {}

(* Another program, or the container, logs a line.                          *)
Logged(length) ==
  /\ Len(log) < MaxLength
  /\ log' = Append(log, length)
  /\ UNCHANGED <<kind, start, page, received, cut>>

Receive(new, next) ==
  /\ page' = new
  /\ start' = next
  /\ received' = received \o [i \in 1..(new.last + 1 - new.first) |-> new.first + i - 1]
  /\ cut' = cut \cup new.cut
  /\ UNCHANGED <<kind, log>>

-----------------------------------------------------------------------------
(* read_log_file: fetch_log_file and shape_log_file.                        *)

Upto(first) ==
  IF first + Window - 1 < Len(log) THEN first + Window - 1 ELSE Len(log)
Slice(first) == SubSeq(log, first, Upto(first))

(* How many of the first lines fit.                                         *)
Fitting(s) ==
  CHOOSE n \in 0..Len(s) :
    /\ Size(s, n) <= Budget
    /\ n = Len(s) \/ Size(s, n + 1) > Budget

(* Mutant: no line is cut; a page may be empty.                             *)
PageLines_Whole(s) == Fitting(s)

(* One line at least, or there would be no way on.                          *)
PageLines(s) == IF s # << >> /\ Fitting(s) = 0 THEN 1 ELSE Fitting(s)

(* Mutant: the reader is sent on past the omitted lines.                    *)
NextStart_Window(first, s) == first + Len(s)

NextStart(first, s) == first + PageLines(s)

(* A first line too long by itself is cut.                                  *)
ShapeLogFile(first) ==
  LET s == Slice(first)
      truncated == Size(s, Len(s)) > Budget
  IN  [from |-> first, upto |-> first + Len(s) - 1,
       first |-> first, last |-> first + PageLines(s) - 1,
       cut |-> IF truncated /\ Fitting(s) = 0 THEN {first} ELSE {},
       omitted |-> Len(s) - PageLines(s),
       truncated |-> truncated]

(* Where the API's window begins: a start line beyond the file gives an     *)
(* empty one; without a start line the API may begin with the file's first  *)
(* line or give its last ones, and says which.                              *)
Firsts(requested) ==
  IF requested # 0 THEN {requested}
  ELSE {1} \cup {k \in 1..Len(log) : k + Window - 1 = Len(log)}

(* fetch_log_file checks the window before it asks; a reader of an          *)
(* untruncated page goes on after its last line, which is next_start_line   *)
(* as well.                                                                 *)
ReadFile ==
  /\ kind = "file"
  /\ Window \in 1..MaxLines
  /\ \E first \in Firsts(start) :
       Receive(ShapeLogFile(first), NextStart(first, Slice(first)))

-----------------------------------------------------------------------------
(* get_docker_container_logs: fetch_container_logs, shape_container_logs.   *)

(* The API's answer: the newest lines after the one since names.            *)
Tailed == IF Len(log) - start <= Window THEN start + 1 ELSE Len(log) - Window + 1

(* _shape_log_line cuts a long line whatever room there is.                 *)
Cut(k) == log[k] > LineMax
Cost(k) == IF Cut(k) THEN LineMax ELSE log[k]

(* The lines from k to the newest fit.                                      *)
Fits(k) ==
  LET costs == [i \in 1..(Len(log) + 1 - k) |-> Cost(k + i - 1)]
  IN  Size(costs, Len(costs)) <= Budget

KeepFrom ==
  CHOOSE k \in Tailed..(Len(log) + 1) :
    Fits(k) /\ \A j \in Tailed..(k - 1) : ~Fits(j)

(* Mutant: dropped lines do not count as truncation.                        *)
Truncated_CutOnly(k) == \E j \in k..Len(log) : Cut(j)
Truncated(k) == k > Tailed \/ \E j \in k..Len(log) : Cut(j)

ShapeContainerLogs ==
  [from |-> Tailed, upto |-> Len(log),
   first |-> KeepFrom, last |-> Len(log),
   cut |-> {k \in KeepFrom..Len(log) : Cut(k)},
   omitted |-> KeepFrom - Tailed,
   truncated |-> Truncated(KeepFrom)]

(* The API's cursor is the newest line's; without one the reader keeps its  *)
(* own.                                                                     *)
Cursor == IF Tailed > Len(log) THEN start ELSE Len(log)

ReadTail ==
  /\ kind = "container"
  /\ Window \in 1..MaxTail
  /\ Receive(ShapeContainerLogs, Cursor)

ReadPage == ReadFile \/ ReadTail

Next == ReadFile \/ ReadTail \/ \E length \in Lengths : Logged(length)

(* The reader goes on reading; nothing has to be logged.                    *)
Spec == Init /\ [][Next]_vars /\ WF_vars(ReadPage)

-----------------------------------------------------------------------------
(* A reader who passes on what a page names to go on with gets no line      *)
(* twice and none out of order, wherever pages were cut and however the log *)
(* grew; of a file it gets every line from the first one on.                *)
EveryLineOnce ==
  \A i, j \in DOMAIN received : i < j =>
    /\ received[i] < received[j]
    /\ kind = "file" => received[j] - received[i] = j - i

(* What a page leaves out of the API's answer it counts and announces, and  *)
(* it is the far end: of a file, lines that next_start_line leads to, of a  *)
(* container the oldest ones, so that its page ends with the newest line.   *)
(* A line given in part is announced, and was longer than any may be.       *)
LossIsAnnounced ==
  /\ page.omitted = (page.upto + 1 - page.from) - (page.last + 1 - page.first)
  /\ page.omitted > 0 \/ page.cut # {} => page.truncated
  /\ IF kind = "file" THEN page.first = page.from ELSE page.last = page.upto
  /\ \A i \in DOMAIN received :
       received[i] \in cut <=>
         log[received[i]] > IF kind = "file" THEN Budget ELSE LineMax

(* Every line is reached: a page of a file with a line never leads back to  *)
(* itself, and a container's newest line is in the next page.               *)
ReaderReachesEnd ==
  \A k \in 1..MaxLength :
    Len(log) >= k ~> start > k \/ (kind = "container" /\ start = k)
=============================================================================
