---------------------------- MODULE Loops_proofs ----------------------------
(***************************************************************************)
(* The two modules whose operators are loops over lists of any length:     *)
(* LogPages, a log read page by page, and AutostartList, the merge of an   *)
(* autostart list as _merge_autostart runs it.                             *)
(*                                                                         *)
(* What a loop computes is defined by a recursive function on 0..n; facts  *)
(* about it are proved for every n by Induction, which rests on Nat having *)
(* no infinite descent, and that such a function exists at all by the same *)
(* induction (UsedExists, Recursion).                                      *)
(***************************************************************************)
EXTENDS AutostartList, LogPages, SequenceTheorems, WellFoundedInduction, TLAPS

(* A set of natural numbers that is not empty has a least member.           *)
LEMMA LeastNumber ==
  ASSUME NEW T, T \subseteq Nat, T # {}
  PROVE  \E m \in T : \A k \in T : m <= k
<1> DEFINE R == {p \in Nat \X Nat : p[1] < p[2]}
<1>1. IsWellFoundedOn(R, Nat)
  BY NatLessThanWellFounded DEF OpToRel
<1>2. PICK m \in T : \A k \in T : <<k, m>> \notin R
  <2> HIDE DEF R
  <2> QED BY <1>1, WFMin, Zenon
<1>3. \A k \in T : ~(k < m)
  BY <1>2
<1> QED BY <1>3

(* Induction over 0..n, for the set of the numbers that have the property.  *)
LEMMA Induction ==
  ASSUME NEW n \in Nat, NEW S, 0 \in S, \A k \in 1..n : k - 1 \in S => k \in S
  PROVE  \A k \in 0..n : k \in S
<1> DEFINE T == {k \in 0..n : k \notin S}
<1>1. SUFFICES ASSUME T # {} PROVE FALSE
  OBVIOUS
<1>2. PICK m \in T : \A k \in T : m <= k
  <2>1. T \subseteq Nat
    OBVIOUS
  <2> HIDE DEF T
  <2> QED BY <2>1, <1>1, LeastNumber
<1>3. m \in 1..n /\ m - 1 \in 0..n /\ ~(m <= m - 1)
  OBVIOUS
<1>4. m - 1 \in S
  BY <1>2, <1>3
<1> QED BY <1>3, <1>4

-----------------------------------------------------------------------------
(* The running total of the lengths of lines, up to n.                      *)
Used(s, n, f) == f = [k \in 0..n |-> IF k = 0 THEN 0 ELSE f[k - 1] + s[k]]

(* There is such a total, however many lines there are.                     *)
LEMMA UsedExists ==
  ASSUME NEW s \in Seq(Nat)
  PROVE  \E f : Used(s, Len(s), f)
<1> DEFINE S == {n \in 0..Len(s) : \E f : Used(s, n, f)}
<1>1. 0 \in S
  <2> DEFINE g == [k \in 0..0 |-> 0]
  <2>1. g = [k \in 0..0 |-> IF k = 0 THEN 0 ELSE g[k - 1] + s[k]]
    OBVIOUS
  <2>2. Used(s, 0, g)
    BY <2>1 DEF Used
  <2> QED BY <2>2, LenProperties
<1>2. ASSUME NEW n \in 1..Len(s), n - 1 \in S PROVE n \in S
  <2>1. PICK f : Used(s, n - 1, f)
    BY <1>2
  <2> DEFINE g == [k \in 0..n |-> IF k = n THEN f[n - 1] + s[n] ELSE f[k]]
  <2>2. \A k \in 0..n : g[k] = IF k = 0 THEN 0 ELSE g[k - 1] + s[k]
    BY <2>1 DEF Used
  <2>3. g = [k \in 0..n |-> IF k = 0 THEN 0 ELSE g[k - 1] + s[k]]
    BY <2>2
  <2>4. Used(s, n, g)
    BY <2>3 DEF Used
  <2> QED BY <2>4
<1>3. Len(s) \in Nat
  BY LenProperties
<1> HIDE DEF S
<1>4. \A n \in 0..Len(s) : n \in S
  BY <1>1, <1>2, <1>3, Induction
<1>5. Len(s) \in S
  BY <1>3, <1>4
<1> QED BY <1>5 DEF S

(* Size obeys the equation it is defined by.                                *)
LEMMA SizeRecursion ==
  ASSUME NEW s \in Seq(Nat)
  PROVE  /\ Size(s, 0) = 0
         /\ \A n \in 1..Len(s) : Size(s, n) = Size(s, n - 1) + s[n]
<1> DEFINE u == CHOOSE f : Used(s, Len(s), f)
<1>1. Used(s, Len(s), u)
  BY UsedExists
<1>2. \A n : Size(s, n) = u[n]
  BY DEF Size, Used
<1> HIDE DEF u
<1>3. \A n \in 0..Len(s) : u[n] = IF n = 0 THEN 0 ELSE u[n - 1] + s[n]
  BY <1>1 DEF Used
<1>4. Len(s) \in Nat
  BY LenProperties
<1> QED BY <1>2, <1>3, <1>4

(* Lines take some number of characters.                                    *)
LEMMA SizeType ==
  ASSUME NEW s \in Seq(Nat)
  PROVE  \A n \in 0..Len(s) : Size(s, n) \in Nat
<1> DEFINE S == {n \in 0..Len(s) : Size(s, n) \in Nat}
<1>1. 0 \in S
  BY SizeRecursion, LenProperties
<1>2. \A n \in 1..Len(s) : n - 1 \in S => n \in S
  BY SizeRecursion, LenProperties
<1> HIDE DEF S
<1>3. \A n \in 0..Len(s) : n \in S
  BY <1>1, <1>2, Induction, LenProperties
<1> QED BY <1>3 DEF S

(* More lines never take less room. *)
LEMMA SizeGrows ==
  ASSUME NEW s \in Seq(Nat), NEW m \in 0..Len(s)
  PROVE  \A n \in m..Len(s) : Size(s, m) <= Size(s, n)
<1> DEFINE S == {n \in 0..Len(s) : n >= m => Size(s, m) <= Size(s, n)}
<1>1. 0 \in S
  BY SizeType, LenProperties
<1>2. ASSUME NEW n \in 1..Len(s), n - 1 \in S PROVE n \in S
  <2>1. /\ n \in Nat /\ n - 1 \in 0..Len(s) /\ s[n] \in Nat
        /\ Size(s, n - 1) \in Nat /\ Size(s, m) \in Nat
        /\ Size(s, n) = Size(s, n - 1) + s[n]
    BY SizeType, SizeRecursion, LenProperties
  <2>2. n >= m => n = m \/ n - 1 >= m
    BY <2>1
  <2> QED BY <2>1, <2>2, <1>2
<1> HIDE DEF S
<1>3. \A n \in 0..Len(s) : n \in S
  BY <1>1, <1>2, Induction, LenProperties
<1> QED BY <1>3 DEF S

-----------------------------------------------------------------------------
(* What fits of a window is well defined. *)
LEMMA FittingIsSome ==
  ASSUME NEW s \in Seq(Nat)
  PROVE  /\ Fitting(s) \in 0..Len(s)
         /\ Size(s, Fitting(s)) <= Budget
         /\ Fitting(s) = Len(s) \/ Size(s, Fitting(s) + 1) > Budget
<1> DEFINE Over == {n \in 0..Len(s) : Size(s, n) > Budget}
           Fit(n) == /\ Size(s, n) <= Budget
                     /\ n = Len(s) \/ Size(s, n + 1) > Budget
<1>1. /\ Len(s) \in Nat /\ Budget \in Nat
      /\ Size(s, 0) = 0
      /\ \A n \in 0..Len(s) : Size(s, n) \in Nat
  BY LenProperties, SizeRecursion, SizeType, BudgetType
<1>2. \E n \in 0..Len(s) : Fit(n)
  <2>1. CASE Over = {}
    <3>1. Len(s) \in 0..Len(s) /\ ~(Size(s, Len(s)) > Budget)
      BY <1>1, <2>1
    <3>2. Fit(Len(s))
      BY <1>1, <3>1
    <3> QED BY <3>1, <3>2
  <2>2. CASE Over # {}
    <3>1. Over \subseteq Nat
      OBVIOUS
    <3>2. PICK m \in Over : \A k \in Over : m <= k
      <4> HIDE DEF Over
      <4> QED BY <2>2, <3>1, LeastNumber
    <3>3. m \in 1..Len(s) /\ m - 1 \in 0..Len(s) /\ (m - 1) + 1 = m /\ ~(m <= m - 1)
      BY <1>1, <3>2
    <3>4. Size(s, m - 1) <= Budget
      BY <1>1, <3>2, <3>3
    <3>5. Fit(m - 1)
      BY <3>2, <3>3, <3>4
    <3> QED BY <3>3, <3>5
  <2> QED BY <2>1, <2>2
<1>3. Fitting(s) = CHOOSE n \in 0..Len(s) : Fit(n)
  BY DEF Fitting
<1>4. Fitting(s) \in 0..Len(s) /\ Fit(Fitting(s))
  <2> HIDE DEF Fit
  <2> QED BY <1>2, <1>3
<1> QED BY <1>4

(* A page of a file is a beginning of its window, with a line if the window *)
(* has one; what it leaves out did not fit, and its lines do, unless it is  *)
(* one line that is too long by itself.                                     *)
LEMMA KeptLines ==
  ASSUME NEW s \in Seq(Nat)
  PROVE  /\ PageLines(s) \in 0..Len(s)
         /\ PageLines(s) < Len(s) => Size(s, Len(s)) > Budget
         /\ Fitting(s) # 0 => \A k \in 1..PageLines(s) : s[k] <= Budget
         /\ Fitting(s) = 0 => IF s = << >> THEN PageLines(s) = 0
                              ELSE PageLines(s) = 1 /\ s[1] > Budget
         /\ Fitting(s) = 0 /\ s # << >> => Size(s, Len(s)) > Budget
         /\ s = << >> => ~(Size(s, Len(s)) > Budget)
<1>1. /\ Len(s) \in Nat /\ Budget \in Nat
      /\ s # << >> => Len(s) >= 1
      /\ s = << >> => Len(s) = 0
      /\ \A n \in 1..Len(s) : s[n] \in Nat
      /\ \A n \in 0..Len(s) : Size(s, n) \in Nat
      /\ Size(s, 0) = 0
  BY LenProperties, EmptySeq, SizeRecursion, SizeType, BudgetType
<1>2. \A n \in 1..Len(s) : Size(s, n) = Size(s, n - 1) + s[n]
  BY SizeRecursion
<1>3. /\ Fitting(s) \in 0..Len(s)
      /\ Size(s, Fitting(s)) <= Budget
      /\ Fitting(s) = Len(s) \/ Size(s, Fitting(s) + 1) > Budget
  BY FittingIsSome
<1>4. PageLines(s) \in 0..Len(s)
  BY <1>1, <1>3 DEF PageLines
<1>5. Fitting(s) < Len(s) => Size(s, Len(s)) > Budget
  <2> SUFFICES ASSUME Fitting(s) < Len(s) PROVE Size(s, Len(s)) > Budget
    OBVIOUS
  <2>1. Fitting(s) + 1 \in 0..Len(s) /\ Len(s) \in (Fitting(s) + 1)..Len(s)
    BY <1>1, <1>3
  <2>2. Size(s, Fitting(s) + 1) <= Size(s, Len(s))
    BY <2>1, SizeGrows
  <2>3. Size(s, Fitting(s) + 1) \in Nat /\ Size(s, Len(s)) \in Nat
    BY <2>1, <1>1
  <2> QED BY <1>1, <1>3, <2>2, <2>3
<1>6. PageLines(s) < Len(s) => Size(s, Len(s)) > Budget
  BY <1>1, <1>3, <1>5 DEF PageLines
<1>7. ASSUME Fitting(s) # 0, NEW k \in 1..PageLines(s) PROVE s[k] <= Budget
  <2>1. k \in 0..Len(s) /\ k \in 1..Len(s) /\ k - 1 \in 0..Len(s) /\ Fitting(s) \in k..Len(s)
    BY <1>1, <1>3, <1>7 DEF PageLines
  <2>2. Size(s, k) <= Size(s, Fitting(s))
    BY <2>1, SizeGrows
  <2>3. Size(s, k) = Size(s, k - 1) + s[k]
    BY <2>1, <1>2
  <2>4. Size(s, k) \in Nat /\ Size(s, k - 1) \in Nat /\ s[k] \in Nat /\ Size(s, Fitting(s)) \in Nat
    BY <2>1, <1>1, <1>3
  <2> QED BY <2>2, <2>3, <2>4, <1>1, <1>3
<1>8. Fitting(s) = 0 => IF s = << >> THEN PageLines(s) = 0
                        ELSE PageLines(s) = 1 /\ s[1] > Budget
  <2>1. CASE s = << >>
    BY <2>1 DEF PageLines
  <2>2. CASE s # << >>
    <3>1. 1 \in 1..Len(s) /\ s[1] \in Nat /\ Size(s, 1) = s[1]
      BY <1>1, <1>2, <2>2
    <3>2. Fitting(s) = 0 => s[1] > Budget
      BY <1>1, <1>3, <3>1, <2>2
    <3> QED BY <3>2, <2>2 DEF PageLines
  <2> QED BY <2>1, <2>2
<1>9. Fitting(s) = 0 /\ s # << >> => Size(s, Len(s)) > Budget
  BY <1>1, <1>5
<1>10. s = << >> => ~(Size(s, Len(s)) > Budget)
  BY <1>1
<1> QED BY <1>4, <1>6, <1>7, <1>8, <1>9, <1>10

-----------------------------------------------------------------------------
(* The types of what the reader has and of the log.                         *)
LogType ==
  /\ kind \in {"file", "container"}
  /\ log \in Seq(Lengths)
  /\ start \in Nat
  /\ received \in Seq(Nat)
  /\ cut \subseteq Nat

(* Of a file the reader has received the lines up to the one before the     *)
(* next, without a gap.                                                     *)
FilePlace ==
  kind = "file" =>
    /\ start <= Len(log) + 1
    /\ start = 0 => received = << >>
    /\ start # 0 => Len(received) < start
    /\ \A i \in DOMAIN received : received[i] = (start + i) - (Len(received) + 1)
    /\ \A k \in cut : k < start

(* Of a container it has received nothing after the line it names.          *)
TailPlace ==
  kind = "container" =>
    /\ start <= Len(log)
    /\ \A i \in DOMAIN received : received[i] \in 1..start
    /\ \A i, j \in DOMAIN received : i < j => received[i] < received[j]
    /\ \A k \in cut : k <= start

(* The inductive invariant.                                                 *)
LogInv == LogType /\ FilePlace /\ TailPlace /\ LossIsAnnounced

(* What the invariant says in the terms the proofs use: a line received is  *)
(* a line of the log.                                                       *)
LEMMA LogFacts ==
  ASSUME LogInv
  PROVE  /\ Len(log) \in Nat /\ Len(received) \in Nat
         /\ DOMAIN received = 1..Len(received)
         /\ \A k \in 1..Len(log) : log[k] \in Nat
         /\ log \in Seq(Nat)
         /\ \A i \in DOMAIN received : received[i] \in 1..Len(log)
<1>1. /\ Len(log) \in Nat /\ Len(received) \in Nat
      /\ DOMAIN received = 1..Len(received)
      /\ \A k \in 1..Len(log) : log[k] \in Lengths
      /\ \A i \in DOMAIN received : received[i] \in Nat
  BY LenProperties DEF LogInv, LogType
<1>2. Lengths \subseteq Nat
  BY LengthsType
<1>3. log \in Seq(Nat)
  BY <1>2, SeqMonotonic DEF LogInv, LogType
<1>4. ASSUME NEW i \in DOMAIN received PROVE received[i] \in 1..Len(log)
  <2>1. CASE kind = "file"
    <3>1. start # 0
      BY <1>1, <2>1 DEF LogInv, FilePlace
    <3>2. received[i] = (start + i) - (Len(received) + 1) /\ Len(received) < start
          /\ start <= Len(log) + 1 /\ start \in Nat
      BY <2>1, <3>1 DEF LogInv, FilePlace, LogType
    <3> QED BY <1>1, <3>2
  <2>2. CASE kind = "container"
    BY <1>1, <2>2 DEF LogInv, TailPlace, LogType
  <2> QED BY <2>1, <2>2 DEF LogInv, LogType
<1> QED BY <1>1, <1>2, <1>3, <1>4

(* A reader who has not read has received nothing.                          *)
LEMMA InitInv == Init => LogInv
<1> SUFFICES ASSUME Init PROVE LogInv
  OBVIOUS
<1>1. log \in Seq(Lengths)
  BY DEF Init
<1>2. received = << >> /\ Len(received) = 0 /\ DOMAIN received = {} /\ received \in Seq(Nat)
  BY EmptySeq DEF Init
<1>3. Len(log) \in Nat
  BY <1>1, LenProperties
<1>4. start \in {0, 1} /\ kind \in {"file", "container"} /\ (kind = "container" => start = 0) /\ cut = {}
  BY DEF Init
<1>5. LossIsAnnounced
  BY <1>2, <1>4 DEF Init, NoPage, LossIsAnnounced
<1> QED BY <1>1, <1>2, <1>3, <1>4, <1>5 DEF LogInv, LogType, FilePlace, TailPlace

(* Another line changes nothing of those received. *)
LEMMA LoggedInv ==
  ASSUME LogInv, NEW length \in Lengths, Logged(length)
  PROVE  LogInv'
<1>1. /\ log' \in Seq(Lengths)
      /\ Len(log') = Len(log) + 1
      /\ \A k \in 1..Len(log) : log'[k] = log[k]
  BY AppendProperties DEF Logged, LogInv, LogType
<1>2. \A i \in DOMAIN received : log'[received[i]] = log[received[i]]
  BY <1>1, LogFacts
<1>3. UNCHANGED <<kind, start, page, received, cut>>
  BY DEF Logged
<1>4. LogType'
  BY <1>1, <1>3 DEF LogInv, LogType
<1>5. FilePlace' /\ TailPlace'
  BY <1>1, <1>3, LogFacts DEF LogInv, LogType, FilePlace, TailPlace
<1>6. LossIsAnnounced'
  BY <1>2, <1>3 DEF LogInv, LossIsAnnounced
<1> QED BY <1>4, <1>5, <1>6 DEF LogInv

(* What the history holds after a page.                                     *)
LEMMA Received ==
  ASSUME LogInv, NEW new, NEW next, new.first \in Nat, new.last \in Nat,
         new.first <= new.last + 1, Receive(new, next)
  PROVE  LET n == (new.last + 1) - new.first
         IN  /\ n \in Nat
             /\ received' \in Seq(Nat)
             /\ Len(received') = Len(received) + n
             /\ DOMAIN received' = 1..(Len(received) + n)
             /\ \A i \in 1..Len(received) : received'[i] = received[i]
             /\ \A i \in (Len(received) + 1)..(Len(received) + n) :
                  received'[i] = (new.first + (i - Len(received))) - 1
<1> DEFINE n == (new.last + 1) - new.first
           lines == [i \in 1..n |-> new.first + i - 1]
<1>1. n \in Nat
  OBVIOUS
<1>2. lines \in Seq(Nat) /\ Len(lines) = n
  <2>1. \A i \in 1..n : new.first + i - 1 \in Nat
    OBVIOUS
  <2> DEFINE e(i) == new.first + i - 1
  <2>2. \A i \in 1..n : e(i) \in Nat
    BY <2>1
  <2>3. [i \in 1..n |-> e(i)] \in Seq(Nat)
    <3> HIDE DEF n, e
    <3> QED BY <1>1, <2>2, IsASeq
  <2>4. DOMAIN lines = 1..n
    OBVIOUS
  <2>5. lines \in Seq(Nat)
    BY <2>3
  <2> HIDE DEF lines, n
  <2> QED BY <1>1, <2>4, <2>5, LenProperties
<1>3. received \in Seq(Nat) /\ received' = received \o lines
  <2>1. received \in Seq(Nat)
    BY DEF LogInv, LogType
  <2>2. received' = received \o [i \in 1..(new.last + 1 - new.first) |-> new.first + i - 1]
    BY DEF Receive
  <2>3. new.last + 1 - new.first = n
    OBVIOUS
  <2> QED BY <2>1, <2>2, <2>3
<1>4. Len(received) \in Nat
  BY <1>3, LenProperties
<1>5. /\ received' \in Seq(Nat)
      /\ Len(received') = Len(received) + n
      /\ \A i \in 1..(Len(received) + n) :
           received'[i] = IF i <= Len(received) THEN received[i]
                          ELSE lines[i - Len(received)]
  <2> HIDE DEF lines, n
  <2> QED BY <1>2, <1>3, ConcatProperties
<1>6. DOMAIN received' = 1..(Len(received) + n)
  <2> HIDE DEF n
  <2> QED BY <1>5, LenProperties
<1>7. \A i \in (Len(received) + 1)..(Len(received) + n) :
        received'[i] = (new.first + (i - Len(received))) - 1
  <2> SUFFICES ASSUME NEW i \in (Len(received) + 1)..(Len(received) + n)
               PROVE  received'[i] = (new.first + (i - Len(received))) - 1
    OBVIOUS
  <2>1. i \in 1..(Len(received) + n) /\ ~(i <= Len(received)) /\ i - Len(received) \in 1..n
    BY <1>1, <1>4
  <2>2. received'[i] = lines[i - Len(received)]
    BY <1>5, <2>1
  <2> QED BY <2>1, <2>2
<1>8. \A i \in 1..Len(received) : received'[i] = received[i]
  <2> SUFFICES ASSUME NEW i \in 1..Len(received) PROVE received'[i] = received[i]
    OBVIOUS
  <2>1. i \in 1..(Len(received) + n) /\ i <= Len(received)
    BY <1>1, <1>4
  <2> HIDE DEF n, lines
  <2> QED BY <2>1, <1>5
<1> HIDE DEF n
<1> QED BY <1>1, <1>5, <1>6, <1>7, <1>8 DEF n

(* The window of a file that is read from line first on.                    *)
LEMMA SliceLines ==
  ASSUME LogInv, kind = "file", Window # 0, NEW first \in Firsts(start)
  PROVE  /\ first \in 1..(Len(log) + 1)
         /\ IF start = 0 THEN received = << >> /\ cut = {} ELSE first = start
         /\ Slice(first) \in Seq(Nat)
         /\ Len(Slice(first)) \in 0..((Len(log) + 1) - first)
         /\ \A k \in 1..Len(Slice(first)) : Slice(first)[k] = log[(first + k) - 1]
<1>1. /\ Len(log) \in Nat /\ start \in Nat /\ cut \subseteq Nat /\ start <= Len(log) + 1
      /\ start = 0 => received = << >>
      /\ \A k \in cut : k < start
  BY LogFacts DEF LogInv, LogType, FilePlace
<1>2. start = 0 => cut = {}
  BY <1>1
<1>3. first \in 1..(Len(log) + 1) /\ (start # 0 => first = start)
  BY <1>1 DEF Firsts
<1>4. Upto(first) \in (first - 1)..Len(log)
  BY <1>1, <1>3, WindowType DEF Upto
<1>5. \A k \in first..Upto(first) : log[k] \in Nat
  BY <1>1, <1>3, <1>4, LogFacts
<1>6. /\ Slice(first) \in Seq(Nat)
      /\ Len(Slice(first)) = IF first <= Upto(first) THEN Upto(first) - first + 1 ELSE 0
      /\ \A k \in 1..(Upto(first) - first + 1) : Slice(first)[k] = log[first + k - 1]
  <2>1. first \in Int /\ Upto(first) \in Int
    BY <1>1, <1>3, <1>4
  <2> QED BY <2>1, <1>5, SubSeqProperties DEF Slice
<1>7. Len(Slice(first)) = (Upto(first) - first) + 1
  BY <1>1, <1>3, <1>4, <1>6
<1>8. /\ Len(Slice(first)) \in 0..((Len(log) + 1) - first)
      /\ \A k \in 1..Len(Slice(first)) : Slice(first)[k] = log[(first + k) - 1]
  BY <1>1, <1>3, <1>4, <1>6, <1>7
<1> QED BY <1>1, <1>2, <1>3, <1>6, <1>8

(* A page of a file goes on where the last one ended, and counts and        *)
(* announces what it leaves out.                                            *)
LEMMA ReadFileInv ==
  ASSUME LogInv, ReadFile
  PROVE  LogInv'
<1>1. PICK first \in Firsts(start) :
        Receive(ShapeLogFile(first), NextStart(first, Slice(first)))
  BY DEF ReadFile
<1> DEFINE s == Slice(first)
           n == PageLines(s)
           new == ShapeLogFile(first)
           over == Size(s, Len(s)) > Budget
<1>2. /\ kind = "file" /\ Window # 0
      /\ UNCHANGED <<kind, log>>
      /\ start' = first + n
      /\ page' = new /\ cut' = cut \cup new.cut
  BY <1>1 DEF ReadFile, Receive, NextStart
<1>3. /\ first \in 1..(Len(log) + 1)
      /\ IF start = 0 THEN received = << >> /\ cut = {} ELSE first = start
      /\ s \in Seq(Nat)
      /\ Len(s) \in 0..((Len(log) + 1) - first)
      /\ \A k \in 1..Len(s) : s[k] = log[(first + k) - 1]
  BY <1>2, SliceLines
<1>4. /\ n \in 0..Len(s)
      /\ n < Len(s) => over
      /\ Fitting(s) # 0 => \A k \in 1..n : s[k] <= Budget
      /\ Fitting(s) = 0 => IF s = << >> THEN n = 0 ELSE n = 1 /\ s[1] > Budget
      /\ Fitting(s) = 0 /\ s # << >> => over
      /\ s = << >> => ~over
  <2> HIDE DEF s
  <2> QED BY <1>3, KeptLines
<1>5. /\ new.from = first /\ new.upto = (first + Len(s)) - 1
      /\ new.first = first /\ new.last = (first + n) - 1
      /\ new.cut = IF over /\ Fitting(s) = 0 THEN {first} ELSE {}
      /\ new.omitted = Len(s) - n
      /\ new.truncated = over
  BY <1>3, <1>4 DEF ShapeLogFile
<1> HIDE DEF s, n, new, over
<1>6. /\ Len(log) \in Nat /\ Len(received) \in Nat /\ start \in Nat
      /\ DOMAIN received = 1..Len(received)
      /\ \A i \in DOMAIN received : received[i] \in 1..Len(log)
  BY LogFacts DEF LogInv, LogType
<1>7. /\ received' \in Seq(Nat)
      /\ Len(received') = Len(received) + n
      /\ DOMAIN received' = 1..(Len(received) + n)
      /\ \A i \in 1..Len(received) : received'[i] = received[i]
      /\ \A i \in (Len(received) + 1)..(Len(received) + n) :
           received'[i] = (first + (i - Len(received))) - 1
  <2>1. new.first \in Nat /\ new.last \in Nat /\ new.first <= new.last + 1
        /\ (new.last + 1) - new.first = n
    <3>1. n \in Nat /\ first \in Nat \ {0}
      BY <1>3, <1>4, <1>6
    <3> QED BY <3>1, <1>5
  <2>2. Receive(new, NextStart(first, Slice(first)))
    BY <1>1 DEF new
  <2> QED BY <2>1, <2>2, <1>5, Received
<1>8. new.cut \subseteq {first} /\ (new.cut # {} => n = 1)
      /\ (first \in new.cut => over)
  BY <1>4, <1>5
<1>9. LogType'
  <2>1. n \in Nat /\ first \in Nat
    BY <1>3, <1>4, <1>6
  <2>2. start' \in Nat
    BY <2>1, <1>2
  <2>3. cut' \subseteq Nat
    BY <2>1, <1>2, <1>8 DEF LogInv, LogType
  <2> QED BY <2>2, <2>3, <1>2, <1>7 DEF LogInv, LogType
<1>10. FilePlace'
  <2>1. start' <= Len(log') + 1 /\ start' # 0
    BY <1>2, <1>3, <1>4, <1>6
  <2>2. Len(received') < start'
    BY <1>2, <1>3, <1>4, <1>6, <1>7 DEF LogInv, FilePlace
  <2>3. ASSUME NEW i \in DOMAIN received'
        PROVE  received'[i] = (start' + i) - (Len(received') + 1)
    <3>1. CASE i \in 1..Len(received)
      <4>1. received'[i] = received[i] /\ i \in DOMAIN received /\ start = first /\ n \in Nat
        BY <3>1, <1>3, <1>4, <1>6, <1>7
      <4>2. received[i] = (start + i) - (Len(received) + 1)
        BY <4>1, <1>2 DEF LogInv, FilePlace
      <4>3. Len(received') = Len(received) + n /\ start' = first + n
        BY <1>2, <1>7
      <4> QED BY <4>1, <4>2, <4>3, <3>1, <1>3, <1>6
    <3>2. CASE i \in (Len(received) + 1)..(Len(received) + n)
      BY <3>2, <1>2, <1>3, <1>4, <1>6, <1>7
    <3> QED BY <3>1, <3>2, <1>4, <1>6, <1>7
  <2>4. \A k \in cut' : k < start'
    BY <1>2, <1>3, <1>4, <1>6, <1>8 DEF LogInv, LogType, FilePlace
  <2> QED BY <2>1, <2>2, <2>3, <2>4 DEF FilePlace
<1>11. TailPlace'
  BY <1>2 DEF TailPlace
<1>12. LossIsAnnounced'
  <2>1. new.omitted = (new.upto + 1 - new.from) - (new.last + 1 - new.first)
    BY <1>3, <1>4, <1>5, <1>6
  <2>2. new.omitted > 0 \/ new.cut # {} => new.truncated
    BY <1>3, <1>4, <1>5, <1>6, <1>8
  <2>3. new.first = new.from
    BY <1>5
  <2>4. ASSUME NEW i \in DOMAIN received'
        PROVE  received'[i] \in cut' <=> log[received'[i]] > Budget
    <3>1. CASE i \in 1..Len(received)
      <4>1. received'[i] = received[i] /\ i \in DOMAIN received
        BY <3>1, <1>6, <1>7
      <4>2. received[i] \in cut <=> log[received[i]] > Budget
        BY <4>1, <1>2 DEF LogInv, LossIsAnnounced
      <4>3. received[i] < start /\ start = first
        BY <4>1, <1>2, <1>3, <1>6 DEF LogInv, FilePlace
      <4>4. received[i] # first
        BY <4>1, <4>3, <1>3, <1>6
      <4> QED BY <4>1, <4>2, <4>4, <1>2, <1>8
    <3>2. CASE i \in (Len(received) + 1)..(Len(received) + n)
      <4> DEFINE k == i - Len(received)
      <4>1. k \in 1..n /\ k \in 1..Len(s) /\ received'[i] = (first + k) - 1
        <5>1. n \in 0..Len(s) /\ Len(s) \in Nat
          BY <1>3, <1>4, <1>6
        <5>2. k \in 1..n
          BY <5>1, <3>2, <1>6
        <5>3. k \in 1..Len(s)
          BY <5>1, <5>2
        <5> QED BY <5>2, <5>3, <3>2, <1>7
      <4>2. log[received'[i]] = s[k]
        BY <4>1, <1>3
      <4>3. received'[i] \notin cut
        BY <4>1, <1>2, <1>3, <1>6 DEF LogInv, FilePlace
      <4>4. received'[i] \in new.cut <=> s[k] > Budget
        <5>1. CASE Fitting(s) # 0
          <6>1. s[k] <= Budget /\ s[k] \in Nat
            BY <5>1, <4>1, <1>3, <1>4, LenProperties
          <6> QED BY <5>1, <6>1, <1>5, BudgetType
        <5>2. CASE Fitting(s) = 0
          <6>1. s # << >> /\ k = 1 /\ n = 1 /\ s[1] > Budget /\ over
            BY <5>2, <4>1, <1>4
          <6> QED BY <5>2, <6>1, <4>1, <1>3, <1>5
        <5> QED BY <5>1, <5>2
      <4> QED BY <4>2, <4>3, <4>4, <1>2
    <3> QED BY <3>1, <3>2, <1>4, <1>6, <1>7
  <2> QED BY <2>1, <2>2, <2>3, <2>4, <1>2 DEF LossIsAnnounced
<1> QED BY <1>9, <1>10, <1>11, <1>12 DEF LogInv

(* No line at all fits, so that what a container's page keeps is well       *)
(* defined.                                                                 *)
LEMMA KeepFromIsSome ==
  ASSUME LogInv, kind = "container", Window # 0
  PROVE  /\ Tailed \in (start + 1)..(Len(log) + 1)
         /\ KeepFrom \in Tailed..(Len(log) + 1)
<1>1. Len(log) \in Nat /\ start \in Nat /\ start <= Len(log) /\ Window \in Nat \ {0}
  BY LogFacts, WindowType DEF LogInv, LogType, TailPlace
<1>2. Tailed \in (start + 1)..(Len(log) + 1)
  BY <1>1 DEF Tailed
<1> DEFINE newest == Len(log) + 1
           Least(k) == Fits(k) /\ \A j \in Tailed..(k - 1) : ~Fits(j)
           Fit == {k \in Tailed..newest : Fits(k)}
<1>3. Fits(newest)
  <2> DEFINE costs == [i \in 1..(Len(log) + 1 - newest) |-> Cost(newest + i - 1)]
  <2>1. Len(log) + 1 - newest = 0
    BY <1>1
  <2>2. costs = [i \in 1..0 |-> Cost(newest + i - 1)]
    BY <2>1
  <2> HIDE DEF newest
  <2>3. costs \in Seq(Nat) /\ Len(costs) = 0
    <3> DEFINE e(i) == Cost(newest + i - 1)
    <3>1. 0 \in Nat /\ \A i \in 1..0 : e(i) \in Nat
      OBVIOUS
    <3>2. [i \in 1..0 |-> e(i)] \in Seq(Nat)
      <4> HIDE DEF e
      <4> QED BY <3>1, IsASeq
    <3>3. costs \in Seq(Nat)
      BY <3>2, <2>2
    <3>4. DOMAIN costs = {}
      BY <2>2
    <3> HIDE DEF costs, e
    <3>5. Len(costs) \in Nat /\ 1..Len(costs) = {}
      BY <3>3, <3>4, LenProperties
    <3>6. Len(costs) # 0 => 1 \in 1..Len(costs)
      BY <3>5
    <3> QED BY <3>3, <3>5, <3>6
  <2>4. Size(costs, 0) = 0
    <3> HIDE DEF costs
    <3> QED BY <2>3, SizeRecursion
  <2>5. Size(costs, Len(costs)) <= Budget
    <3> HIDE DEF costs
    <3> QED BY <2>3, <2>4, BudgetType
  <2> QED BY <2>5 DEF Fits
<1>4. newest \in Fit /\ Fit \subseteq Nat
  BY <1>1, <1>2, <1>3
<1>5. PICK m \in Fit : \A k \in Fit : m <= k
  <2> HIDE DEF Fit
  <2> QED BY <1>4, LeastNumber
<1>6. Least(m)
  <2>1. ASSUME NEW j \in Tailed..(m - 1), Fits(j) PROVE FALSE
    <3>1. m \in Nat /\ j \in Nat /\ j \in Tailed..newest /\ j < m
      BY <1>1, <1>2, <1>5
    <3>2. j \in Fit
      BY <2>1, <3>1
    <3> QED BY <3>1, <3>2, <1>5
  <2> QED BY <2>1, <1>5
<1>7. KeepFrom = CHOOSE k \in Tailed..newest : Least(k)
  BY DEF KeepFrom
<1>8. KeepFrom \in Tailed..newest
  <2> HIDE DEF Least, newest
  <2> QED BY <1>5, <1>6, <1>7
<1> QED BY <1>2, <1>8

(* A page of a container's log begins after the line the reader names and   *)
(* ends with the newest, and counts and announces what it leaves out.       *)
LEMMA ReadTailInv ==
  ASSUME LogInv, ReadTail
  PROVE  LogInv'
<1> DEFINE new == ShapeContainerLogs
           from == KeepFrom
           n == (Len(log) + 1) - from
<1>1. /\ kind = "container" /\ Window # 0
      /\ Receive(new, Cursor)
      /\ UNCHANGED <<kind, log>>
      /\ start' = Cursor
      /\ page' = new /\ cut' = cut \cup new.cut
  BY DEF ReadTail, Receive
<1>2. /\ Len(log) \in Nat /\ Len(received) \in Nat /\ start \in Nat
      /\ DOMAIN received = 1..Len(received)
      /\ \A i \in DOMAIN received : received[i] \in 1..Len(log)
      /\ start <= Len(log)
      /\ \A k \in cut : k <= start
      /\ cut \subseteq Nat
  BY <1>1, LogFacts DEF LogInv, LogType, TailPlace
<1>3. Tailed \in (start + 1)..(Len(log) + 1) /\ from \in Tailed..(Len(log) + 1)
  BY <1>1, KeepFromIsSome
<1>4. /\ new.from = Tailed /\ new.upto = Len(log)
      /\ new.first = from /\ new.last = Len(log)
      /\ new.cut = {k \in from..Len(log) : Cut(k)}
      /\ new.omitted = from - Tailed
      /\ new.truncated = Truncated(from)
  BY DEF ShapeContainerLogs
<1>5. n \in Nat /\ from \in Nat /\ Tailed \in Nat /\ from > start /\ Tailed <= from
      /\ from + n = Len(log) + 1
  BY <1>2, <1>3
<1> HIDE DEF new, from, n
<1>6. /\ received' \in Seq(Nat)
      /\ Len(received') = Len(received) + n
      /\ DOMAIN received' = 1..(Len(received) + n)
      /\ \A i \in 1..Len(received) : received'[i] = received[i]
      /\ \A i \in (Len(received) + 1)..(Len(received) + n) :
           received'[i] = (from + (i - Len(received))) - 1
  <2>1. new.first \in Nat /\ new.last \in Nat /\ new.first <= new.last + 1
        /\ (new.last + 1) - new.first = n
    <3>1. (Len(log) + 1) - from = n /\ from <= Len(log) + 1
      BY <1>2, <1>5
    <3> QED BY <3>1, <1>2, <1>4, <1>5
  <2> QED BY <1>1, <1>4, <2>1, Received
<1>7. start' \in start..Len(log) /\ (n > 0 => start' = Len(log))
  BY <1>1, <1>2, <1>3, <1>5 DEF Cursor
<1>8. \A k \in new.cut : k \in from..Len(log) /\ k \in Nat /\ k > start /\ k <= start'
  BY <1>2, <1>4, <1>5, <1>7
<1>9. LogType'
  <2>1. cut' \subseteq Nat
    BY <1>1, <1>2, <1>8
  <2>2. start' \in Nat
    BY <1>2, <1>7
  <2> QED BY <2>1, <2>2, <1>1, <1>6 DEF LogInv, LogType
<1>10. FilePlace'
  BY <1>1 DEF FilePlace
<1>11. ASSUME NEW i \in DOMAIN received'
       PROVE  \/ /\ i \in 1..Len(received)
                 /\ received'[i] = received[i]
                 /\ received[i] \in 1..start
              \/ /\ i \in (Len(received) + 1)..(Len(received) + n)
                 /\ received'[i] = (from + (i - Len(received))) - 1
                 /\ received'[i] \in from..Len(log)
                 /\ start' = Len(log)
  <2>1. CASE i \in 1..Len(received)
    BY <2>1, <1>1, <1>2, <1>6 DEF LogInv, TailPlace
  <2>2. CASE i \in (Len(received) + 1)..(Len(received) + n)
    <3>1. received'[i] = (from + (i - Len(received))) - 1
      BY <2>2, <1>6
    <3>2. i - Len(received) \in 1..n /\ n > 0
      BY <2>2, <1>2, <1>5
    <3>3. received'[i] \in from..Len(log)
      BY <3>1, <3>2, <1>2, <1>5
    <3> QED BY <2>2, <3>1, <3>2, <3>3, <1>7
  <2> QED BY <2>1, <2>2, <1>2, <1>5, <1>6
<1>12. TailPlace'
  <2>1. start' <= Len(log')
    BY <1>1, <1>2, <1>7
  <2>2. \A i \in DOMAIN received' : received'[i] \in 1..start'
    BY <1>2, <1>5, <1>7, <1>11
  <2>3. ASSUME NEW i \in DOMAIN received', NEW j \in DOMAIN received', i < j
        PROVE  received'[i] < received'[j]
    <3>1. i \in Nat /\ j \in Nat
      BY <1>2, <1>5, <1>6
    <3>2. CASE j \in 1..Len(received)
      <4>1. i \in 1..Len(received)
        BY <3>1, <3>2, <2>3, <1>2, <1>11
      <4> QED BY <4>1, <3>2, <2>3, <1>1, <1>2, <1>6 DEF LogInv, TailPlace
    <3>3. CASE j \in (Len(received) + 1)..(Len(received) + n)
      <4>1. /\ received'[j] = (from + (j - Len(received))) - 1
            /\ received'[j] \in from..Len(log)
        BY <3>3, <1>2, <1>11
      <4>2. CASE i \in 1..Len(received)
        <5>1. received'[i] \in 1..start
          BY <4>2, <1>2, <1>11
        <5> QED BY <5>1, <4>1, <1>2, <1>5
      <4>3. CASE i \in (Len(received) + 1)..(Len(received) + n)
        <5>1. received'[i] = (from + (i - Len(received))) - 1
          BY <4>3, <1>6
        <5> QED BY <5>1, <4>1, <3>1, <2>3, <1>2, <1>5
      <4> QED BY <4>2, <4>3, <1>11
    <3> QED BY <3>2, <3>3, <1>11
  <2>4. \A k \in cut' : k <= start'
    BY <1>1, <1>2, <1>7, <1>8
  <2> QED BY <2>1, <2>2, <2>3, <2>4 DEF TailPlace
<1>13. LossIsAnnounced'
  <2>1. new.omitted = (new.upto + 1 - new.from) - (new.last + 1 - new.first)
    BY <1>2, <1>4, <1>5
  <2>2. new.omitted > 0 \/ new.cut # {} => new.truncated
    <3>1. new.omitted > 0 => from > Tailed
      BY <1>4, <1>5
    <3>2. new.cut # {} => \E k \in from..Len(log) : Cut(k)
      BY <1>4
    <3> QED BY <3>1, <3>2, <1>4 DEF Truncated
  <2>3. new.last = new.upto
    BY <1>4
  <2>4. ASSUME NEW i \in DOMAIN received'
        PROVE  received'[i] \in cut' <=> log[received'[i]] > LineMax
    <3>1. CASE i \in 1..Len(received)
      <4>1. received'[i] = received[i] /\ i \in DOMAIN received /\ received[i] \in 1..start
        BY <3>1, <1>2, <1>11
      <4>2. received[i] \in cut <=> log[received[i]] > LineMax
        BY <4>1, <1>1 DEF LogInv, LossIsAnnounced
      <4>3. received[i] \notin new.cut
        BY <4>1, <1>2, <1>8
      <4> QED BY <4>1, <4>2, <4>3, <1>1
    <3>2. CASE i \in (Len(received) + 1)..(Len(received) + n)
      <4>1. received'[i] \in from..Len(log)
        BY <3>2, <1>2, <1>11
      <4>2. received'[i] \notin cut
        BY <4>1, <1>2, <1>5
      <4> QED BY <4>1, <4>2, <1>1, <1>4 DEF Cut
    <3> QED BY <3>1, <3>2, <1>11
  <2> QED BY <2>1, <2>2, <2>3, <2>4, <1>1 DEF LossIsAnnounced
<1> QED BY <1>9, <1>10, <1>12, <1>13 DEF LogInv

-----------------------------------------------------------------------------
(* LogInv is inductive. *)
LEMMA StepInv == LogInv /\ [Next]_vars => LogInv'
<1> SUFFICES ASSUME LogInv, [Next]_vars PROVE LogInv'
  OBVIOUS
<1>1. CASE ReadFile
  BY <1>1, ReadFileInv
<1>2. CASE ReadTail
  BY <1>2, ReadTailInv
<1>3. CASE \E length \in Lengths : Logged(length)
  BY <1>3, LoggedInv
<1>4. CASE UNCHANGED vars
  BY <1>4 DEF vars, LogInv, LogType, FilePlace, TailPlace, LossIsAnnounced
<1> QED BY <1>1, <1>2, <1>3, <1>4 DEF Next

(* For a log of any length, lines of any lengths and any budget: LogInv     *)
(* holds of a reader who pages through it (read_log_file,                   *)
(* get_docker_container_logs).                                              *)
THEOREM LogInvariant == Spec => []LogInv
BY InitInv, StepInv, PTL DEF Spec

(* Such a reader gets no line twice and none out of order, and of a file    *)
(* every line (EveryLineOnce): next_start_line and the cursor lead on from  *)
(* what was received.                                                       *)
THEOREM NothingTwice == Spec => []EveryLineOnce
<1>1. LogInv => EveryLineOnce
  <2> SUFFICES ASSUME LogInv, NEW i \in DOMAIN received, NEW j \in DOMAIN received, i < j
               PROVE  received[i] < received[j]
                      /\ (kind = "file" => received[j] - received[i] = j - i)
    BY DEF EveryLineOnce
  <2>1. start \in Nat /\ i \in Nat /\ j \in Nat /\ Len(received) \in Nat
    BY LogFacts DEF LogInv, LogType
  <2>2. CASE kind = "file"
    <3>1. /\ received[i] = (start + i) - (Len(received) + 1)
          /\ received[j] = (start + j) - (Len(received) + 1)
      BY <2>2 DEF LogInv, FilePlace
    <3> QED BY <2>1, <3>1
  <2>3. CASE kind = "container"
    BY <2>3 DEF LogInv, TailPlace
  <2> QED BY <2>2, <2>3 DEF LogInv, LogType
<1> QED BY <1>1, LogInvariant, PTL

(* Whatever a page leaves out, or gives in part, it announces, and it       *)
(* leaves out the far end only (LossIsAnnounced; formatting.py,             *)
(* shape_log_file and shape_container_logs).                                *)
THEOREM NoSilentLoss == Spec => []LossIsAnnounced
<1>1. LogInv => LossIsAnnounced
  BY DEF LogInv
<1> QED BY <1>1, LogInvariant, PTL

-----------------------------------------------------------------------------
(* A function may be defined by recursion over 0..n: from b, by the steps   *)
(* g[1] to g[n].                                                            *)
Steps(n, D) == [1..n -> [D -> D]]
Iterates(f, n, D, b, g) ==
  /\ f \in [0..n -> D]
  /\ f[0] = b
  /\ \A k \in 1..n : f[k] = g[k][f[k - 1]]

(* What is defined so exists: the equations have a solution.                *)
LEMMA Recursion ==
  ASSUME NEW n \in Nat, NEW D, NEW b \in D, NEW g \in Steps(n, D)
  PROVE  \E f : Iterates(f, n, D, b, g)
<1> DEFINE Made(f, m) == Iterates(f, m, D, b, g)
           S == {m \in 0..n : \E f : Made(f, m)}
<1> USE DEF Iterates, Steps
<1>1. 0 \in S
  <2>1. Made([k \in 0..0 |-> b], 0)
    OBVIOUS
  <2> HIDE DEF Made
  <2> QED BY <2>1
<1>2. ASSUME NEW m \in 1..n, m - 1 \in S PROVE m \in S
  <2>1. PICK f : Made(f, m - 1)
    BY <1>2
  <2> DEFINE h == [k \in 0..m |-> IF k = m THEN g[m][f[m - 1]] ELSE f[k]]
  <2>2. m - 1 \in 0..(m - 1) /\ f[m - 1] \in D /\ g[m] \in [D -> D]
    BY <2>1
  <2>3. h \in [0..m -> D] /\ h[0] = b
    BY <2>1, <2>2
  <2>4. \A k \in 1..m : h[k] = g[k][h[k - 1]]
    BY <2>1
  <2>5. Made(h, m)
    BY <2>3, <2>4
  <2> HIDE DEF Made, h
  <2> QED BY <2>5
<1> HIDE DEF S
<1>3. \A m \in 0..n : m \in S
  BY <1>1, <1>2, Induction
<1>4. n \in S
  BY <1>3
<1> QED BY <1>4 DEF S

-----------------------------------------------------------------------------
(* t has, in turn, the elements of s at the places up to n: f says which.   *)
Chooses(f, t, s, places, n) ==
  /\ f \in [1..Len(t) -> 1..n]
  /\ \A i, j \in 1..Len(t) : i < j => f[i] < f[j]
  /\ \A i \in 1..Len(t) : t[i] = s[f[i]]
  /\ \A k \in 1..n : k \in places <=> \E i \in 1..Len(t) : f[i] = k

(* The function inside Select obeys the equation it is defined by.          *)
LEMMA SelectRecursion ==
  ASSUME NEW S, NEW s \in Seq(S), NEW places
  PROVE  \E upto \in [0..Len(s) -> Seq(S)] :
           /\ Select(s, places) = upto[Len(s)]
           /\ upto[0] = << >>
           /\ \A n \in 1..Len(s) :
                upto[n] = IF n \in places THEN Append(upto[n - 1], s[n]) ELSE upto[n - 1]
<1> DEFINE Body(u) == [n \in 0..Len(s) |->
                         IF n = 0 THEN << >>
                         ELSE IF n \in places THEN Append(u[n - 1], s[n]) ELSE u[n - 1]]
           upto == CHOOSE u : u = Body(u)
           g == [k \in 1..Len(s) |-> [x \in Seq(S) |->
                   IF k \in places THEN Append(x, s[k]) ELSE x]]
<1>1. Len(s) \in Nat /\ \A k \in 1..Len(s) : s[k] \in S
  BY LenProperties
<1>2. g \in [1..Len(s) -> [Seq(S) -> Seq(S)]]
  <2>1. \A k \in 1..Len(s), x \in Seq(S) :
          (IF k \in places THEN Append(x, s[k]) ELSE x) \in Seq(S)
    BY <1>1, AppendProperties
  <2> QED BY <2>1
<1>3. \E u : u = Body(u)
  <2>1. << >> \in Seq(S)
    BY EmptySeq
  <2>2. PICK f \in [0..Len(s) -> Seq(S)] :
          f[0] = << >> /\ \A k \in 1..Len(s) : f[k] = g[k][f[k - 1]]
    <3> DEFINE N == Len(s)
               D == Seq(S)
               b == << >>
    <3>1. N \in Nat /\ b \in D /\ g \in Steps(N, D)
      BY <2>1, <1>1, <1>2 DEF Steps
    <3> HIDE DEF g, N, D, b
    <3>2. \E f : Iterates(f, N, D, b, g)
      BY <3>1, Recursion
    <3> QED BY <3>2 DEF N, D, b, Iterates
  <2>3. \A k \in 0..Len(s) : f[k] = IF k = 0 THEN << >>
                                    ELSE IF k \in places THEN Append(f[k - 1], s[k])
                                    ELSE f[k - 1]
    <3> SUFFICES ASSUME NEW k \in 0..Len(s), k # 0
                 PROVE  f[k] = IF k \in places THEN Append(f[k - 1], s[k]) ELSE f[k - 1]
      BY <2>2
    <3>1. k \in 1..Len(s) /\ k - 1 \in 0..Len(s)
      BY <1>1
    <3> QED BY <3>1, <2>2
  <2>4. f = Body(f)
    BY <2>3
  <2> QED BY <2>4
<1>4. upto = Body(upto)
  <2> HIDE DEF Body
  <2> QED BY <1>3
<1>5. Select(s, places) = upto[Len(s)]
  BY DEF Select
<1> HIDE DEF upto
<1>6. /\ upto[0] = << >>
      /\ \A n \in 1..Len(s) :
           upto[n] = IF n \in places THEN Append(upto[n - 1], s[n]) ELSE upto[n - 1]
      /\ DOMAIN upto = 0..Len(s)
  <2>1. DOMAIN upto = 0..Len(s)
    BY <1>4
  <2>2. \A n \in 0..Len(s) :
          upto[n] = IF n = 0 THEN << >>
                    ELSE IF n \in places THEN Append(upto[n - 1], s[n]) ELSE upto[n - 1]
    BY <1>4
  <2>3. upto[0] = << >>
    BY <2>2, <1>1
  <2>4. ASSUME NEW n \in 1..Len(s)
        PROVE  upto[n] = IF n \in places THEN Append(upto[n - 1], s[n]) ELSE upto[n - 1]
    <3>1. n \in 0..Len(s) /\ n # 0
      BY <1>1
    <3> QED BY <3>1, <2>2
  <2> QED BY <2>1, <2>3, <2>4
<1>7. \A n \in 0..Len(s) : upto[n] \in Seq(S)
  <2> DEFINE P == {n \in 0..Len(s) : upto[n] \in Seq(S)}
  <2>1. 0 \in P
    <3>1. << >> \in Seq(S)
      BY EmptySeq
    <3>2. 0 \in 0..Len(s) /\ upto[0] = << >>
      BY <1>1, <1>6
    <3> QED BY <3>1, <3>2
  <2>2. ASSUME NEW n \in 1..Len(s), n - 1 \in P PROVE n \in P
    <3>1. upto[n - 1] \in Seq(S) /\ s[n] \in S /\ n \in 0..Len(s)
      BY <2>2, <1>1
    <3>2. Append(upto[n - 1], s[n]) \in Seq(S)
      BY <3>1, AppendProperties
    <3> QED BY <3>1, <3>2, <1>6
  <2> HIDE DEF P
  <2>3. \A n \in 0..Len(s) : n \in P
    BY <2>1, <2>2, <1>1, Induction
  <2> QED BY <2>3 DEF P
<1>8. upto = [n \in 0..Len(s) |-> upto[n]]
  BY <1>4, <1>6
<1>9. upto \in [0..Len(s) -> Seq(S)]
  BY <1>7, <1>8
<1> QED BY <1>5, <1>6, <1>9

(* A selection has an increasing list of the places it was made from.       *)
LEMMA SelectChooses ==
  ASSUME NEW S, NEW s \in Seq(S), NEW places
  PROVE  /\ Select(s, places) \in Seq(S)
         /\ \E f : Chooses(f, Select(s, places), s, places, Len(s))
<1>1. PICK upto \in [0..Len(s) -> Seq(S)] :
        /\ Select(s, places) = upto[Len(s)]
        /\ upto[0] = << >>
        /\ \A n \in 1..Len(s) :
             upto[n] = IF n \in places THEN Append(upto[n - 1], s[n]) ELSE upto[n - 1]
  BY SelectRecursion
<1>2. Len(s) \in Nat /\ \A k \in 1..Len(s) : s[k] \in S
  BY LenProperties
<1> DEFINE P == {n \in 0..Len(s) : \E f : Chooses(f, upto[n], s, places, n)}
<1>3. 0 \in P
  <2>1. Len(upto[0]) = 0
    BY <1>1
  <2>2. Chooses([i \in 1..0 |-> 0], upto[0], s, places, 0)
    BY <2>1 DEF Chooses
  <2> QED BY <2>2, <1>2
<1>4. ASSUME NEW n \in 1..Len(s), n - 1 \in P PROVE n \in P
  <2>1. PICK f : Chooses(f, upto[n - 1], s, places, n - 1)
    BY <1>4
  <2> DEFINE t == upto[n - 1]
             h == [i \in 1..(Len(t) + 1) |-> IF i = Len(t) + 1 THEN n ELSE f[i]]
  <2>2. n - 1 \in 0..Len(s) /\ n \in Nat \ {0} /\ s[n] \in S
    BY <1>2
  <2>3. t \in Seq(S) /\ Len(t) \in Nat
    BY <2>2, LenProperties
  <2> HIDE DEF t
  <2>4. CASE n \notin places
    <3>1. upto[n] = t
      BY <2>4, <1>1 DEF t
    <3>2. Chooses(f, t, s, places, n)
      <4>1. /\ f \in [1..Len(t) -> 1..(n - 1)]
            /\ \A i, j \in 1..Len(t) : i < j => f[i] < f[j]
            /\ \A i \in 1..Len(t) : t[i] = s[f[i]]
            /\ \A k \in 1..(n - 1) : k \in places <=> \E i \in 1..Len(t) : f[i] = k
        BY <2>1 DEF Chooses, t
      <4>2. f \in [1..Len(t) -> 1..n] /\ \A i \in 1..Len(t) : f[i] # n
        <5>1. \A i \in 1..Len(t) : f[i] \in 1..(n - 1)
          BY <4>1
        <5>2. \A k \in 1..(n - 1) : k \in 1..n /\ k # n
          BY <2>2
        <5> QED BY <5>1, <5>2, <4>1
      <4>3. \A k \in 1..n : k = n \/ k \in 1..(n - 1)
        BY <2>2
      <4> QED BY <4>1, <4>2, <4>3, <2>4 DEF Chooses
    <3> QED BY <3>1, <3>2
  <2>5. CASE n \in places
    <3>1. upto[n] = Append(t, s[n])
      BY <2>5, <1>1 DEF t
    <3>2. /\ Len(upto[n]) = Len(t) + 1
          /\ upto[n][Len(t) + 1] = s[n]
          /\ \A i \in 1..Len(t) : upto[n][i] = t[i]
      BY <3>1, <2>2, <2>3, AppendProperties
    <3>3. /\ f \in [1..Len(t) -> 1..(n - 1)]
          /\ \A i, j \in 1..Len(t) : i < j => f[i] < f[j]
          /\ \A i \in 1..Len(t) : t[i] = s[f[i]]
          /\ \A k \in 1..(n - 1) : k \in places <=> \E i \in 1..Len(t) : f[i] = k
      BY <2>1 DEF Chooses, t
    <3>4. h \in [1..(Len(t) + 1) -> 1..n]
      BY <2>2, <2>3, <3>3
    <3>5. ASSUME NEW i \in 1..(Len(t) + 1), NEW j \in 1..(Len(t) + 1), i < j
          PROVE  h[i] < h[j]
      <4>1. i \in 1..Len(t) /\ h[i] = f[i] /\ f[i] \in 1..(n - 1)
        BY <3>5, <2>3, <3>3
      <4>2. j \in 1..Len(t) => h[j] = f[j]
        BY <2>3
      <4>3. j \notin 1..Len(t) => h[j] = n
        BY <2>3
      <4> HIDE DEF h
      <4> QED BY <4>1, <4>2, <4>3, <3>3, <3>5, <2>2
    <3>6. \A i \in 1..(Len(t) + 1) : upto[n][i] = s[h[i]]
      BY <2>2, <2>3, <3>2, <3>3
    <3>7. \A k \in 1..n : k \in places <=> \E i \in 1..(Len(t) + 1) : h[i] = k
      <4> SUFFICES ASSUME NEW k \in 1..n
                   PROVE  k \in places <=> \E i \in 1..(Len(t) + 1) : h[i] = k
        OBVIOUS
      <4>1. CASE k = n
        <5>1. Len(t) + 1 \in 1..(Len(t) + 1) /\ h[Len(t) + 1] = n
          BY <2>3
        <5> QED BY <5>1, <4>1, <2>5
      <4>2. CASE k # n
        <5>1. k \in 1..(n - 1)
          BY <4>2, <2>2
        <5>2. \A i \in 1..Len(t) : i \in 1..(Len(t) + 1) /\ h[i] = f[i]
          BY <2>3
        <5>3. \A i \in 1..(Len(t) + 1) : h[i] = k => i \in 1..Len(t)
          BY <4>2, <2>3
        <5> HIDE DEF h
        <5> QED BY <5>1, <5>2, <5>3, <3>3
      <4> QED BY <4>1, <4>2
    <3>8. Chooses(h, upto[n], s, places, n)
      <4> HIDE DEF h
      <4> QED BY <3>2, <3>4, <3>5, <3>6, <3>7 DEF Chooses
    <3> QED BY <3>8
  <2> QED BY <2>4, <2>5
<1> HIDE DEF P
<1>5. \A n \in 0..Len(s) : n \in P
  BY <1>2, <1>3, <1>4, Induction
<1>6. Len(s) \in 0..Len(s) /\ Len(s) \in P
  BY <1>2, <1>5
<1> QED BY <1>1, <1>6 DEF P

-----------------------------------------------------------------------------
(* Lists of records with ids, none of them twice.                           *)
OnceEach(s) == \A i, j \in DOMAIN s : s[i].id = s[j].id => i = j
Ahead(s, x, y) == \E i, j \in DOMAIN s : i < j /\ s[i].id = x /\ s[j].id = y

(* A selection has the ids of its places, once each, in the old order.      *)
LEMMA SelectList ==
  ASSUME NEW S, NEW s \in Seq(S), NEW places
  PROVE  /\ Select(s, places) \in Seq(S)
         /\ \A i \in DOMAIN Select(s, places) :
              \E k \in DOMAIN s : k \in places /\ Select(s, places)[i] = s[k]
         /\ \A k \in DOMAIN s : k \in places =>
              \E i \in DOMAIN Select(s, places) : Select(s, places)[i] = s[k]
         /\ OnceEach(s) => OnceEach(Select(s, places))
<1> DEFINE t == Select(s, places)
<1>1. t \in Seq(S) /\ \E f : Chooses(f, t, s, places, Len(s))
  BY SelectChooses
<1> HIDE DEF t
<1>2. PICK f : Chooses(f, t, s, places, Len(s))
  BY <1>1
<1>3. /\ Len(s) \in Nat /\ DOMAIN s = 1..Len(s)
      /\ Len(t) \in Nat /\ DOMAIN t = 1..Len(t)
  BY <1>1, LenProperties
<1>4. /\ \A i \in DOMAIN t : f[i] \in DOMAIN s /\ f[i] \in places /\ t[i] = s[f[i]]
      /\ \A i, j \in DOMAIN t : i < j => f[i] < f[j]
      /\ \A k \in DOMAIN s : k \in places => \E i \in DOMAIN t : f[i] = k
  BY <1>2, <1>3 DEF Chooses
<1>6. ASSUME OnceEach(s), NEW i \in DOMAIN t, NEW j \in DOMAIN t, t[i].id = t[j].id
      PROVE  i = j
  <2>1. f[i] = f[j] /\ f[i] \in Nat
    BY <1>3, <1>4, <1>6 DEF OnceEach
  <2>2. i \in Nat /\ j \in Nat /\ ~(f[i] < f[j]) /\ ~(f[j] < f[i])
    BY <2>1, <1>3
  <2> QED BY <2>2, <1>4
<1>7. OnceEach(s) => OnceEach(t)
  BY <1>6 DEF OnceEach
<1>8. \A i \in DOMAIN t : \E k \in DOMAIN s : k \in places /\ t[i] = s[k]
  BY <1>4
<1>9. \A k \in DOMAIN s : k \in places => \E i \in DOMAIN t : t[i] = s[k]
  BY <1>4
<1> QED BY <1>1, <1>7, <1>8, <1>9 DEF t

(* Two records of the selection are in the order they had.                  *)
LEMMA SelectOrder ==
  ASSUME NEW S, NEW s \in Seq(S), NEW places, NEW x, NEW y
  PROVE  Ahead(Select(s, places), x, y) <=>
           \E k, l \in DOMAIN s :
             k < l /\ k \in places /\ l \in places /\ s[k].id = x /\ s[l].id = y
<1> DEFINE t == Select(s, places)
<1>1. t \in Seq(S) /\ \E f : Chooses(f, t, s, places, Len(s))
  BY SelectChooses
<1> HIDE DEF t
<1>2. PICK f : Chooses(f, t, s, places, Len(s))
  BY <1>1
<1>3. /\ Len(s) \in Nat /\ DOMAIN s = 1..Len(s)
      /\ Len(t) \in Nat /\ DOMAIN t = 1..Len(t)
  BY <1>1, LenProperties
<1>4. /\ \A i \in DOMAIN t : f[i] \in DOMAIN s /\ f[i] \in places /\ t[i] = s[f[i]]
      /\ \A i, j \in DOMAIN t : i < j => f[i] < f[j]
      /\ \A k \in DOMAIN s : k \in places => \E i \in DOMAIN t : f[i] = k
  BY <1>2, <1>3 DEF Chooses
<1>5. ASSUME NEW k \in DOMAIN s, NEW l \in DOMAIN s, k < l, k \in places, l \in places
      PROVE  \E i, j \in DOMAIN t : i < j /\ t[i] = s[k] /\ t[j] = s[l]
  <2>1. PICK i \in DOMAIN t : f[i] = k
    BY <1>4, <1>5
  <2>2. PICK j \in DOMAIN t : f[j] = l
    BY <1>4, <1>5
  <2>3. /\ i \in Nat /\ j \in Nat /\ k \in Nat /\ l \in Nat
        /\ j < i => f[j] < f[i]
    BY <1>3, <1>4
  <2>4. i < j
    BY <2>1, <2>2, <2>3, <1>5
  <2> QED BY <2>1, <2>2, <2>4, <1>4
<1>6. ASSUME NEW i \in DOMAIN t, NEW j \in DOMAIN t, i < j
      PROVE  \E k, l \in DOMAIN s :
               k < l /\ k \in places /\ l \in places /\ t[i] = s[k] /\ t[j] = s[l]
  BY <1>4, <1>6
<1>7. Ahead(t, x, y) <=> \E k, l \in DOMAIN s :
        k < l /\ k \in places /\ l \in places /\ s[k].id = x /\ s[l].id = y
  BY <1>5, <1>6 DEF Ahead
<1> QED BY <1>7 DEF t

(* A selection of what is in order is in order, for any order R.            *)
LEMMA SelectKeepsOrder ==
  ASSUME NEW S, NEW s \in Seq(S), NEW places
  PROVE  \A i, j \in DOMAIN Select(s, places) : i < j =>
           \E k, l \in DOMAIN s :
             k < l /\ Select(s, places)[i] = s[k] /\ Select(s, places)[j] = s[l]
<1> DEFINE t == Select(s, places)
<1>1. t \in Seq(S) /\ \E f : Chooses(f, t, s, places, Len(s))
  BY SelectChooses
<1> HIDE DEF t
<1>2. PICK f : Chooses(f, t, s, places, Len(s))
  BY <1>1
<1>3. DOMAIN s = 1..Len(s) /\ DOMAIN t = 1..Len(t)
  BY <1>1, LenProperties
<1>4. /\ \A i \in DOMAIN t : f[i] \in DOMAIN s /\ t[i] = s[f[i]]
      /\ \A i, j \in DOMAIN t : i < j => f[i] < f[j]
  BY <1>2, <1>3 DEF Chooses
<1> QED BY <1>4 DEF t

(* The elements of a concatenation, and their order.                        *)
LEMMA ConcatList ==
  ASSUME NEW S, NEW s \in Seq(S), NEW t \in Seq(S)
  PROVE  /\ s \o t \in Seq(S)
         /\ Ids(s \o t) = Ids(s) \cup Ids(t)
         /\ \A x, y : Ahead(s \o t, x, y) <=>
              Ahead(s, x, y) \/ Ahead(t, x, y) \/ (x \in Ids(s) /\ y \in Ids(t))
         /\ OnceEach(s) /\ OnceEach(t) /\ Ids(s) \cap Ids(t) = {} => OnceEach(s \o t)
         /\ \A i \in DOMAIN s : i \in DOMAIN (s \o t) /\ (s \o t)[i] = s[i]
         /\ \A i \in DOMAIN t :
              Len(s) + i \in DOMAIN (s \o t) /\ (s \o t)[Len(s) + i] = t[i]
         /\ \A i \in DOMAIN (s \o t) :
              \/ i \in DOMAIN s
              \/ i - Len(s) \in DOMAIN t /\ i = Len(s) + (i - Len(s))
<1> DEFINE u == s \o t
<1>1. /\ u \in Seq(S)
      /\ Len(u) = Len(s) + Len(t)
      /\ \A i \in 1..(Len(s) + Len(t)) :
           u[i] = IF i <= Len(s) THEN s[i] ELSE t[i - Len(s)]
  BY ConcatProperties
<1> HIDE DEF u
<1>2. /\ Len(s) \in Nat /\ DOMAIN s = 1..Len(s)
      /\ Len(t) \in Nat /\ DOMAIN t = 1..Len(t)
      /\ DOMAIN u = 1..(Len(s) + Len(t))
  BY <1>1, LenProperties
<1>3. \A i \in DOMAIN s : i \in DOMAIN u /\ u[i] = s[i]
  BY <1>1, <1>2
<1>4. \A i \in DOMAIN t : Len(s) + i \in DOMAIN u /\ u[Len(s) + i] = t[i]
  <2> SUFFICES ASSUME NEW i \in DOMAIN t
               PROVE  Len(s) + i \in DOMAIN u /\ u[Len(s) + i] = t[i]
    OBVIOUS
  <2>1. Len(s) + i \in 1..(Len(s) + Len(t)) /\ ~(Len(s) + i <= Len(s))
        /\ (Len(s) + i) - Len(s) = i
    BY <1>2
  <2> QED BY <2>1, <1>1, <1>2
<1>5. \A i \in DOMAIN u : \/ i \in DOMAIN s
                          \/ i - Len(s) \in DOMAIN t /\ i = Len(s) + (i - Len(s))
  BY <1>2
<1>6. \A i \in DOMAIN u : \/ i \in DOMAIN s /\ u[i] = s[i]
                          \/ \E k \in DOMAIN t : i = Len(s) + k /\ u[i] = t[k]
  BY <1>3, <1>4, <1>5
<1>7. Ids(u) = Ids(s) \cup Ids(t)
  BY <1>3, <1>4, <1>6 DEF Ids
<1>8. ASSUME NEW x, NEW y, Ahead(u, x, y)
      PROVE  Ahead(s, x, y) \/ Ahead(t, x, y) \/ (x \in Ids(s) /\ y \in Ids(t))
  <2>1. PICK i \in DOMAIN u, j \in DOMAIN u : i < j /\ u[i].id = x /\ u[j].id = y
    BY <1>8 DEF Ahead
  <2>2. CASE j \in DOMAIN s
    <3>1. i \in DOMAIN s
      BY <2>1, <2>2, <1>2
    <3> QED BY <3>1, <2>1, <2>2, <1>3 DEF Ahead
  <2>3. CASE j \notin DOMAIN s
    <3>1. PICK l \in DOMAIN t : j = Len(s) + l /\ u[j] = t[l]
      BY <2>3, <1>6
    <3>2. CASE i \in DOMAIN s
      BY <3>1, <3>2, <2>1, <1>3 DEF Ids
    <3>3. CASE i \notin DOMAIN s
      <4>1. PICK k \in DOMAIN t : i = Len(s) + k /\ u[i] = t[k]
        BY <3>3, <1>6
      <4>2. k < l
        BY <4>1, <3>1, <2>1, <1>2
      <4> QED BY <4>1, <4>2, <3>1, <2>1 DEF Ahead
    <3> QED BY <3>2, <3>3
  <2> QED BY <2>2, <2>3
<1>9. ASSUME NEW x, NEW y,
             Ahead(s, x, y) \/ Ahead(t, x, y) \/ (x \in Ids(s) /\ y \in Ids(t))
      PROVE  Ahead(u, x, y)
  <2>1. CASE Ahead(s, x, y)
    BY <2>1, <1>3 DEF Ahead
  <2>2. CASE Ahead(t, x, y)
    <3>1. PICK i \in DOMAIN t, j \in DOMAIN t : i < j /\ t[i].id = x /\ t[j].id = y
      BY <2>2 DEF Ahead
    <3>2. Len(s) + i < Len(s) + j
      BY <3>1, <1>2
    <3> QED BY <3>1, <3>2, <1>4 DEF Ahead
  <2>3. CASE x \in Ids(s) /\ y \in Ids(t)
    <3>1. PICK i \in DOMAIN s : s[i].id = x
      BY <2>3 DEF Ids
    <3>2. PICK j \in DOMAIN t : t[j].id = y
      BY <2>3 DEF Ids
    <3>3. i < Len(s) + j
      BY <1>2
    <3> QED BY <3>1, <3>2, <3>3, <1>3, <1>4 DEF Ahead
  <2> QED BY <1>9, <2>1, <2>2, <2>3
<1>10. ASSUME OnceEach(s), OnceEach(t), Ids(s) \cap Ids(t) = {},
              NEW i \in DOMAIN u, NEW j \in DOMAIN u, u[i].id = u[j].id
       PROVE  i = j
  <2>1. \A k \in DOMAIN s, l \in DOMAIN t : s[k].id # t[l].id
    BY <1>10 DEF Ids
  <2>2. CASE i \in DOMAIN s
    BY <2>1, <2>2, <1>3, <1>6, <1>10 DEF OnceEach
  <2>3. CASE i \notin DOMAIN s
    BY <2>1, <2>3, <1>3, <1>6, <1>10 DEF OnceEach
  <2> QED BY <2>2, <2>3
<1>11. OnceEach(s) /\ OnceEach(t) /\ Ids(s) \cap Ids(t) = {} => OnceEach(u)
  BY <1>10 DEF OnceEach
<1> QED BY <1>1, <1>3, <1>4, <1>5, <1>7, <1>8, <1>9, <1>11 DEF u

-----------------------------------------------------------------------------
(* Sorting: the rows with an order come first, by their orders.             *)
Member(e, s) == \E i \in DOMAIN s : s[i] = e
InOrder(s) == \A i, j \in DOMAIN s : i < j => ~BootsBefore(s[j], s[i])

(* An insertion adds the row and keeps the order of booting.                *)
LEMMA InsertRowList ==
  ASSUME NEW s \in Seq(RowSet), NEW row \in RowSet
  PROVE  /\ InsertRow(s, row) \in Seq(RowSet)
         /\ \A e : Member(e, InsertRow(s, row)) <=> Member(e, s) \/ e = row
         /\ OnceEach(s) /\ row.id \notin Ids(s) => OnceEach(InsertRow(s, row))
         /\ InOrder(s) => InOrder(InsertRow(s, row))
<1> DEFINE later == {i \in DOMAIN s : BootsBefore(row, s[i])}
           before == (DOMAIN s) \ later
           a == Select(s, before)
           z == Select(s, later)
           t == Append(a, row)
<1>1. InsertRow(s, row) = t \o z
  BY DEF InsertRow
<1>2. a \in Seq(RowSet) /\ z \in Seq(RowSet) /\ t \in Seq(RowSet)
  BY SelectList, AppendProperties
<1>3. /\ \A i \in DOMAIN a : \E k \in DOMAIN s : k \in before /\ a[i] = s[k]
      /\ \A k \in DOMAIN s : k \in before => \E i \in DOMAIN a : a[i] = s[k]
      /\ \A i, j \in DOMAIN a : i < j =>
              \E k, l \in DOMAIN s : k < l /\ a[i] = s[k] /\ a[j] = s[l]
      /\ OnceEach(s) => OnceEach(a)
  <2> HIDE DEF later, before
  <2> QED BY SelectList, SelectKeepsOrder
<1>4. /\ \A i \in DOMAIN z : \E k \in DOMAIN s : k \in later /\ z[i] = s[k]
      /\ \A k \in DOMAIN s : k \in later => \E i \in DOMAIN z : z[i] = s[k]
      /\ \A i, j \in DOMAIN z : i < j =>
              \E k, l \in DOMAIN s : k < l /\ z[i] = s[k] /\ z[j] = s[l]
      /\ OnceEach(s) => OnceEach(z)
  <2> HIDE DEF later, before
  <2> QED BY SelectList, SelectKeepsOrder
<1>5. /\ Len(a) \in Nat /\ DOMAIN a = 1..Len(a)
      /\ Len(t) = Len(a) + 1 /\ DOMAIN t = 1..(Len(a) + 1)
      /\ \A i \in DOMAIN a : t[i] = a[i]
      /\ t[Len(a) + 1] = row
  <2>1. /\ Len(t) = Len(a) + 1
        /\ \A i \in 1..Len(a) : t[i] = a[i]
        /\ t[Len(a) + 1] = row
    <3> HIDE DEF a
    <3> QED BY <1>2, AppendProperties
  <2>2. Len(a) \in Nat /\ DOMAIN a = 1..Len(a) /\ DOMAIN t = 1..Len(t)
    <3> HIDE DEF a, t
    <3> QED BY <1>2, LenProperties
  <2> HIDE DEF a, t
  <2> QED BY <2>1, <2>2
<1>6. \A i \in DOMAIN t : i \in DOMAIN a \/ i = Len(a) + 1
  BY <1>5
<1> HIDE DEF t, a, z, before, later
<1> DEFINE u == t \o z
<1>7. /\ u \in Seq(RowSet)
      /\ \A i \in DOMAIN t : i \in DOMAIN u /\ u[i] = t[i]
      /\ \A i \in DOMAIN z : Len(t) + i \in DOMAIN u /\ u[Len(t) + i] = z[i]
      /\ \A i \in DOMAIN u : \/ i \in DOMAIN t
                             \/ i - Len(t) \in DOMAIN z /\ i = Len(t) + (i - Len(t))
      /\ Ids(t) \cap Ids(z) = {} /\ OnceEach(t) /\ OnceEach(z) => OnceEach(u)
  <2>1. /\ u \in Seq(RowSet)
        /\ \A i \in DOMAIN t : i \in DOMAIN u /\ u[i] = t[i]
    BY <1>2, ConcatList
  <2>2. \A i \in DOMAIN z : Len(t) + i \in DOMAIN u /\ u[Len(t) + i] = z[i]
    BY <1>2, ConcatList
  <2>3. \A i \in DOMAIN u : \/ i \in DOMAIN t
                            \/ i - Len(t) \in DOMAIN z /\ i = Len(t) + (i - Len(t))
    BY <1>2, ConcatList
  <2>4. Ids(t) \cap Ids(z) = {} /\ OnceEach(t) /\ OnceEach(z) => OnceEach(u)
    BY <1>2, ConcatList
  <2> QED BY <2>1, <2>2, <2>3, <2>4
<1> HIDE DEF u
<1>8. \A i \in DOMAIN u : \/ \E k \in DOMAIN a : i = k /\ u[i] = a[k]
                          \/ i = Len(a) + 1 /\ u[i] = row
                          \/ \E k \in DOMAIN z : i = Len(t) + k /\ u[i] = z[k]
  BY <1>5, <1>6, <1>7
<1>9. ASSUME NEW e PROVE Member(e, u) <=> Member(e, s) \/ e = row
  <2>1. ASSUME Member(e, u) PROVE Member(e, s) \/ e = row
    BY <2>1, <1>3, <1>4, <1>8 DEF Member
  <2>2. ASSUME NEW k \in DOMAIN s PROVE Member(s[k], u)
    <3>1. CASE k \in before
      BY <3>1, <1>3, <1>5, <1>7 DEF Member
    <3>2. CASE k \in later
      BY <3>2, <1>4, <1>7 DEF Member
    <3> QED BY <3>1, <3>2 DEF before
  <2>3. Member(row, u)
    <3>1. Len(a) + 1 \in DOMAIN t
      BY <1>5
    <3> QED BY <3>1, <1>5, <1>7 DEF Member
  <2> QED BY <2>1, <2>2, <2>3 DEF Member
<1>10. ASSUME OnceEach(s), row.id \notin Ids(s) PROVE OnceEach(u)
  <2>1. \A i \in DOMAIN a : a[i].id # row.id
    BY <1>3, <1>10 DEF Ids
  <2>2. \A i \in DOMAIN z : z[i].id # row.id
    BY <1>4, <1>10 DEF Ids
  <2>3. \A i \in DOMAIN a, j \in DOMAIN z : a[i].id # z[j].id
    BY <1>3, <1>4, <1>10 DEF OnceEach, before
  <2>4. OnceEach(t)
    <3> SUFFICES ASSUME NEW i \in DOMAIN t, NEW j \in DOMAIN t, t[i].id = t[j].id
                 PROVE  i = j
      BY DEF OnceEach
    <3>1. OnceEach(a)
      BY <1>3, <1>10
    <3> QED BY <3>1, <2>1, <1>5, <1>6 DEF OnceEach
  <2>5. Ids(t) \cap Ids(z) = {}
    BY <2>2, <2>3, <1>5, <1>6 DEF Ids
  <2> QED BY <2>4, <2>5, <1>4, <1>7, <1>10
<1>11. /\ \A k \in DOMAIN s : s[k] \in RowSet
       /\ Len(t) \in Nat
       /\ DOMAIN z = 1..Len(z) /\ Len(z) \in Nat
  BY <1>2, LenProperties
<1>12. ASSUME InOrder(s), NEW i \in DOMAIN u, NEW j \in DOMAIN u, i < j
       PROVE  ~BootsBefore(u[j], u[i])
  <2>1. \A k \in DOMAIN a : ~BootsBefore(row, a[k]) /\ a[k] \in RowSet
    BY <1>3, <1>11 DEF before, later
  <2>2. \A k \in DOMAIN z : BootsBefore(row, z[k]) /\ z[k] \in RowSet
    BY <1>4, <1>11 DEF later
  <2>3. CASE \E k \in DOMAIN a : i = k /\ u[i] = a[k]
    <3>1. CASE \E l \in DOMAIN a : j = l /\ u[j] = a[l]
      BY <2>3, <3>1, <1>3, <1>12 DEF InOrder
    <3>2. CASE j = Len(a) + 1 /\ u[j] = row
      BY <2>3, <3>2, <2>1
    <3>3. CASE \E l \in DOMAIN z : j = Len(t) + l /\ u[j] = z[l]
      BY <2>3, <3>3, <2>1, <2>2, NoOrderType DEF BootsBefore, RowSet
    <3> QED BY <3>1, <3>2, <3>3, <1>8
  <2>4. CASE i = Len(a) + 1 /\ u[i] = row
    <3>1. CASE \E l \in DOMAIN a : j = l /\ u[j] = a[l]
      BY <2>4, <3>1, <1>5, <1>12
    <3>2. CASE j = Len(a) + 1 /\ u[j] = row
      BY <2>4, <3>2, <1>5, <1>12
    <3>3. CASE \E l \in DOMAIN z : j = Len(t) + l /\ u[j] = z[l]
      BY <2>4, <3>3, <2>2, NoOrderType DEF BootsBefore, RowSet
    <3> QED BY <3>1, <3>2, <3>3, <1>8
  <2>5. CASE \E k \in DOMAIN z : i = Len(t) + k /\ u[i] = z[k]
    <3>1. CASE \E l \in DOMAIN a : j = l /\ u[j] = a[l]
      BY <2>5, <3>1, <1>5, <1>11, <1>12
    <3>2. CASE j = Len(a) + 1 /\ u[j] = row
      BY <2>5, <3>2, <1>5, <1>11, <1>12
    <3>3. CASE \E l \in DOMAIN z : j = Len(t) + l /\ u[j] = z[l]
      <4>1. PICK k \in DOMAIN z : i = Len(t) + k /\ u[i] = z[k]
        BY <2>5
      <4>2. PICK l \in DOMAIN z : j = Len(t) + l /\ u[j] = z[l]
        BY <3>3
      <4>3. k < l
        BY <4>1, <4>2, <1>11, <1>12
      <4> QED BY <4>1, <4>2, <4>3, <1>4, <1>12 DEF InOrder
    <3> QED BY <3>1, <3>2, <3>3, <1>8
  <2> QED BY <2>3, <2>4, <2>5, <1>8
<1>13. InOrder(s) => InOrder(u)
  BY <1>12 DEF InOrder
<1> QED BY <1>1, <1>7, <1>9, <1>10, <1>13 DEF u

(* The function inside Sorted obeys the equation it is defined by.          *)
LEMMA SortedRecursion ==
  ASSUME NEW s \in Seq(RowSet)
  PROVE  \E upto \in [0..Len(s) -> Seq(RowSet)] :
           /\ Sorted(s) = upto[Len(s)]
           /\ upto[0] = << >>
           /\ \A n \in 1..Len(s) : upto[n] = InsertRow(upto[n - 1], s[n])
<1> DEFINE Body(u) == [n \in 0..Len(s) |->
                         IF n = 0 THEN << >> ELSE InsertRow(u[n - 1], s[n])]
           upto == CHOOSE u : u = Body(u)
           g == [k \in 1..Len(s) |-> [x \in Seq(RowSet) |-> InsertRow(x, s[k])]]
<1>1. Len(s) \in Nat /\ \A k \in 1..Len(s) : s[k] \in RowSet
  BY LenProperties
<1>2. g \in Steps(Len(s), Seq(RowSet))
  <2>1. \A k \in 1..Len(s), x \in Seq(RowSet) : InsertRow(x, s[k]) \in Seq(RowSet)
    BY <1>1, InsertRowList
  <2> QED BY <2>1 DEF Steps
<1>3. << >> \in Seq(RowSet)
  BY EmptySeq
<1>4. \E u : u = Body(u)
  <2>1. PICK f : Iterates(f, Len(s), Seq(RowSet), << >>, g)
    <3> DEFINE N == Len(s)
               D == Seq(RowSet)
               b == << >>
    <3>1. N \in Nat /\ b \in D /\ g \in Steps(N, D)
      BY <1>1, <1>2, <1>3
    <3> HIDE DEF g, N, D, b
    <3>2. \E f : Iterates(f, N, D, b, g)
      BY <3>1, Recursion
    <3> QED BY <3>2 DEF N, D, b
  <2>2. /\ f \in [0..Len(s) -> Seq(RowSet)]
        /\ f[0] = << >>
        /\ \A k \in 1..Len(s) : f[k] = g[k][f[k - 1]]
    <3> HIDE DEF g
    <3> QED BY <2>1 DEF Iterates
  <2>3. ASSUME NEW k \in 1..Len(s) PROVE f[k] = InsertRow(f[k - 1], s[k])
    <3>1. f[k - 1] \in Seq(RowSet)
      <4>1. k - 1 \in 0..Len(s)
        BY <1>1
      <4> HIDE DEF g
      <4> QED BY <4>1, <2>2
    <3> QED BY <3>1, <2>2
  <2>4. \A k \in 0..Len(s) : f[k] = IF k = 0 THEN << >> ELSE InsertRow(f[k - 1], s[k])
    <3>1. \A k \in 0..Len(s) : k = 0 \/ k \in 1..Len(s)
      BY <1>1
    <3> QED BY <3>1, <2>2, <2>3
  <2>5. f = Body(f)
    BY <2>2, <2>4
  <2> QED BY <2>5
<1>5. upto = Body(upto)
  <2> HIDE DEF Body
  <2> QED BY <1>4
<1>6. Sorted(s) = upto[Len(s)]
  BY DEF Sorted
<1> HIDE DEF upto
<1>7. upto[0] = << >> /\ DOMAIN upto = 0..Len(s)
  <2>1. 0 \in 0..Len(s)
    BY <1>1
  <2> QED BY <2>1, <1>5
<1>8. ASSUME NEW n \in 1..Len(s) PROVE upto[n] = InsertRow(upto[n - 1], s[n])
  <2>1. n \in 0..Len(s) /\ n # 0
    BY <1>1
  <2> QED BY <2>1, <1>5
<1>9. \A n \in 0..Len(s) : upto[n] \in Seq(RowSet)
  <2> DEFINE P == {n \in 0..Len(s) : upto[n] \in Seq(RowSet)}
  <2>1. 0 \in P
    BY <1>1, <1>3, <1>7
  <2>2. ASSUME NEW n \in 1..Len(s), n - 1 \in P PROVE n \in P
    <3>1. upto[n - 1] \in Seq(RowSet) /\ s[n] \in RowSet /\ n \in 0..Len(s)
      BY <2>2, <1>1
    <3>2. InsertRow(upto[n - 1], s[n]) \in Seq(RowSet)
      BY <3>1, InsertRowList
    <3> QED BY <3>1, <3>2, <1>8
  <2> HIDE DEF P
  <2>3. \A n \in 0..Len(s) : n \in P
    BY <2>1, <2>2, <1>1, Induction
  <2> QED BY <2>3 DEF P
<1>10. upto \in [0..Len(s) -> Seq(RowSet)]
  <2>1. upto = [n \in 0..Len(s) |-> upto[n]]
    BY <1>5, <1>7
  <2> QED BY <2>1, <1>9
<1> QED BY <1>6, <1>7, <1>8, <1>10

(* Sorting gives the same rows, once each, in order. *)
LEMMA SortedList ==
  ASSUME NEW s \in Seq(RowSet), OnceEach(s)
  PROVE  /\ Sorted(s) \in Seq(RowSet)
         /\ OnceEach(Sorted(s))
         /\ InOrder(Sorted(s))
         /\ \A e : Member(e, Sorted(s)) <=> Member(e, s)
<1>1. PICK upto \in [0..Len(s) -> Seq(RowSet)] :
        /\ Sorted(s) = upto[Len(s)]
        /\ upto[0] = << >>
        /\ \A n \in 1..Len(s) : upto[n] = InsertRow(upto[n - 1], s[n])
  BY SortedRecursion
<1>2. Len(s) \in Nat /\ DOMAIN s = 1..Len(s) /\ \A k \in 1..Len(s) : s[k] \in RowSet
  BY LenProperties
<1> DEFINE Good(t, n) == /\ OnceEach(t)
                         /\ InOrder(t)
                         /\ \A e : Member(e, t) <=> \E k \in 1..n : s[k] = e
           P == {n \in 0..Len(s) : Good(upto[n], n)}
<1>3. 0 \in P
  <2>1. DOMAIN upto[0] = {}
    BY <1>1
  <2>2. OnceEach(upto[0]) /\ InOrder(upto[0]) /\ \A e : ~Member(e, upto[0])
    BY <2>1 DEF OnceEach, InOrder, Member
  <2> QED BY <2>2, <1>2
<1>4. ASSUME NEW n \in 1..Len(s), n - 1 \in P PROVE n \in P
  <2> DEFINE t == upto[n - 1]
  <2>1. n - 1 \in 0..Len(s) /\ n \in 0..Len(s) /\ n \in Nat /\ s[n] \in RowSet
    BY <1>2
  <2>2. t \in Seq(RowSet) /\ Good(t, n - 1)
    BY <2>1, <1>4
  <2>3. upto[n] = InsertRow(t, s[n])
    BY <1>1
  <2> HIDE DEF t
  <2>4. s[n].id \notin Ids(t)
    <3>1. ASSUME NEW i \in DOMAIN t, t[i].id = s[n].id PROVE FALSE
      <4>1. PICK k \in 1..(n - 1) : s[k] = t[i]
        BY <2>2 DEF Member
      <4>2. k \in DOMAIN s /\ n \in DOMAIN s /\ k # n
        BY <1>2, <2>1
      <4> QED BY <4>1, <4>2, <3>1 DEF OnceEach
    <3> QED BY <3>1 DEF Ids
  <2>5. /\ OnceEach(upto[n])
        /\ InOrder(upto[n])
        /\ \A e : Member(e, upto[n]) <=> Member(e, t) \/ e = s[n]
    <3> DEFINE row == s[n]
    <3>1. row \in RowSet /\ row.id \notin Ids(t) /\ OnceEach(t) /\ InOrder(t)
      BY <2>1, <2>2, <2>4
    <3>2. upto[n] = InsertRow(t, row)
      BY <2>3
    <3> HIDE DEF row
    <3>3. /\ OnceEach(InsertRow(t, row))
          /\ InOrder(InsertRow(t, row))
          /\ \A e : Member(e, InsertRow(t, row)) <=> Member(e, t) \/ e = row
      BY <3>1, <2>2, InsertRowList
    <3> QED BY <3>2, <3>3 DEF row
  <2>6. ASSUME NEW e PROVE Member(e, upto[n]) <=> \E k \in 1..n : s[k] = e
    <3>1. \A k \in 1..n : k = n \/ k \in 1..(n - 1)
      BY <2>1
    <3>2. n \in 1..n /\ \A k \in 1..(n - 1) : k \in 1..n
      BY <2>1
    <3> QED BY <3>1, <3>2, <2>2, <2>5
  <2>7. Good(upto[n], n)
    BY <2>5, <2>6
  <2> HIDE DEF Good
  <2> QED BY <2>1, <2>7
<1> HIDE DEF P
<1>5. \A n \in 0..Len(s) : n \in P
  BY <1>2, <1>3, <1>4, Induction
<1>6. Len(s) \in 0..Len(s) /\ Len(s) \in P
  BY <1>2, <1>5
<1>7. Good(upto[Len(s)], Len(s))
  BY <1>6 DEF P
<1> HIDE DEF P
<1>8. \A e : Member(e, s) <=> \E k \in 1..Len(s) : s[k] = e
  BY <1>2 DEF Member
<1>9. upto[Len(s)] \in Seq(RowSet)
  BY <1>6
<1> QED BY <1>1, <1>7, <1>8, <1>9

(* The rows of the list as it is: those with autostart on, once each and in *)
(* order.                                                                   *)
Listing(s) == s \in Seq(RowSet) /\ OnceEach(s)
BootList(s) == s \in Seq(EntrySet) /\ OnceEach(s)

(* The enabled rows, sorted: those rows and no others, in order.            *)
LEMMA BootRows ==
  ASSUME Listing(rows)
  PROVE  /\ Listing(Sorted(Enabled))
         /\ InOrder(Sorted(Enabled))
         /\ \A e : Member(e, Sorted(Enabled)) <=> Member(e, rows) /\ e.auto
<1>1. Enabled \in Seq(RowSet) /\ OnceEach(Enabled)
  BY SelectList DEF Enabled, Listing
<1>2. \A e : Member(e, Enabled) <=> Member(e, rows) /\ e.auto
  <2> DEFINE places == {i \in DOMAIN rows : rows[i].auto}
  <2>1. Enabled = Select(rows, places)
    BY DEF Enabled
  <2>2. \A k \in DOMAIN rows : k \in places <=> rows[k].auto
    OBVIOUS
  <2> HIDE DEF places
  <2>3. /\ \A i \in DOMAIN Enabled : \E k \in DOMAIN rows : k \in places /\ Enabled[i] = rows[k]
        /\ \A k \in DOMAIN rows : k \in places => \E i \in DOMAIN Enabled : Enabled[i] = rows[k]
    BY <2>1, SelectList DEF Listing
  <2> QED BY <2>2, <2>3 DEF Member
<1> QED BY <1>1, <1>2, SortedList DEF Listing

(* The current autostart list is a list of known containers, each once.     *)
LEMMA CurrentList ==
  ASSUME Listing(rows)
  PROVE  BootList(Current) /\ Ids(Current) \subseteq Ids(rows) /\ Ids(rows) \subseteq Containers
<1> DEFINE t == Sorted(Enabled)
<1>1. /\ t \in Seq(RowSet) /\ OnceEach(t)
      /\ \A e : Member(e, t) => Member(e, rows)
      /\ Current = [i \in DOMAIN t |-> [id |-> t[i].id, wait |-> t[i].wait]]
  BY BootRows DEF Listing, Current, Entries
<1> HIDE DEF t
<1>2. Len(t) \in Nat /\ DOMAIN t = 1..Len(t) /\ \A i \in DOMAIN t : t[i] \in RowSet
  BY <1>1, LenProperties
<1>3. Current \in Seq(EntrySet)
  <2> DEFINE e(i) == [id |-> t[i].id, wait |-> t[i].wait]
  <2>1. \A i \in 1..Len(t) : e(i) \in EntrySet
    BY <1>2 DEF RowSet, EntrySet
  <2>2. [i \in 1..Len(t) |-> e(i)] \in Seq(EntrySet)
    <3> HIDE DEF e
    <3> QED BY <1>2, <2>1, IsASeq
  <2> QED BY <2>2, <1>1, <1>2
<1>4. OnceEach(Current)
  BY <1>1 DEF OnceEach
<1>5. Ids(Current) \subseteq Ids(rows)
  <2>1. \A i \in DOMAIN Current : i \in DOMAIN t /\ Current[i].id = t[i].id
    BY <1>1
  <2>2. \A i \in DOMAIN t : \E k \in DOMAIN rows : rows[k] = t[i]
    BY <1>1 DEF Member
  <2> QED BY <2>1, <2>2 DEF Ids
<1>6. Ids(rows) \subseteq Containers
  <2>1. \A i \in DOMAIN rows : rows[i] \in RowSet
    BY LenProperties DEF Listing
  <2> QED BY <2>1 DEF Ids, RowSet
<1> QED BY <1>3, <1>4, <1>5, <1>6 DEF BootList

-----------------------------------------------------------------------------
(* The entry of an id is the one that has it.                               *)
LEMMA EntryIs ==
  ASSUME NEW s, OnceEach(s), NEW i \in DOMAIN s
  PROVE  EntryOf(s, s[i].id) = s[i]
<1> DEFINE p == CHOOSE p \in DOMAIN s : s[p].id = s[i].id
<1>1. p \in DOMAIN s /\ s[p].id = s[i].id
  OBVIOUS
<1>2. p = i
  BY <1>1 DEF OnceEach
<1> QED BY <1>2 DEF EntryOf

(* One pass of the loop: who is in the list, in which order, for how long.  *)
LEMMA ApplyChangeList ==
  ASSUME NEW s, BootList(s), NEW change \in Changes,
         NEW id \in Containers, id = CanonicalId(change.ref, Ids(rows))
  PROVE  /\ BootList(ApplyChange(s, change))
         /\ Ids(ApplyChange(s, change)) =
              IF change.auto THEN Ids(s) \cup {id} ELSE Ids(s) \ {id}
         /\ \A x, y : Ahead(ApplyChange(s, change), x, y) <=>
              \/ Ahead(s, x, y) /\ (change.auto \/ (x # id /\ y # id))
              \/ change.auto /\ id \notin Ids(s) /\ x \in Ids(s) /\ y = id
         /\ \A k \in Ids(ApplyChange(s, change)) :
              EntryOf(ApplyChange(s, change), k).wait =
                IF k = id /\ (id \notin Ids(s) \/ change.wait # NoWait) THEN change.wait
                ELSE EntryOf(s, k).wait
<1> DEFINE t == ApplyChange(s, change)
<1>1. /\ Len(s) \in Nat /\ DOMAIN s = 1..Len(s)
      /\ \A i \in DOMAIN s : s[i] \in EntrySet
      /\ s \in Seq(EntrySet) /\ OnceEach(s)
  BY LenProperties DEF BootList
<1>2. change.auto \in BOOLEAN /\ change.wait \in Waits \cup {NoWait}
  BY DEF Changes
<1>3. \A i \in DOMAIN s : EntryOf(s, s[i].id) = s[i]
  BY <1>1, EntryIs
<1>4. CASE ~change.auto
  <2> DEFINE places == {i \in DOMAIN s : s[i].id # id}
  <2>1. t = Select(s, places)
    BY <1>4 DEF ApplyChange
  <2>2. \A i \in DOMAIN s : i \in places <=> s[i].id # id
    OBVIOUS
  <2> HIDE DEF t, places
  <2>3. /\ t \in Seq(EntrySet) /\ OnceEach(t)
        /\ \A i \in DOMAIN t : \E k \in DOMAIN s : k \in places /\ t[i] = s[k]
        /\ \A k \in DOMAIN s : k \in places => \E i \in DOMAIN t : t[i] = s[k]
    <3>1. s \in Seq(EntrySet) /\ OnceEach(s)
      BY <1>1
    <3>2. t \in Seq(EntrySet) /\ OnceEach(t)
      BY <3>1, <2>1, SelectList
    <3>3. \A i \in DOMAIN t : \E k \in DOMAIN s : k \in places /\ t[i] = s[k]
      BY <3>1, <2>1, SelectList
    <3>4. \A k \in DOMAIN s : k \in places => \E i \in DOMAIN t : t[i] = s[k]
      BY <3>1, <2>1, SelectList
    <3> QED BY <3>2, <3>3, <3>4
  <2>4. \A x, y : Ahead(t, x, y) <=>
          \E k, l \in DOMAIN s :
            k < l /\ k \in places /\ l \in places /\ s[k].id = x /\ s[l].id = y
    BY <2>1, <1>1, SelectOrder
  <2>5. Ids(t) = Ids(s) \ {id}
    BY <2>2, <2>3 DEF Ids
  <2>6. ASSUME NEW x, NEW y
        PROVE  Ahead(t, x, y) <=> Ahead(s, x, y) /\ x # id /\ y # id
    <3>1. ASSUME Ahead(t, x, y) PROVE Ahead(s, x, y) /\ x # id /\ y # id
      <4>1. PICK k \in DOMAIN s, l \in DOMAIN s :
              k < l /\ k \in places /\ l \in places /\ s[k].id = x /\ s[l].id = y
        BY <3>1, <2>4
      <4> QED BY <4>1, <2>2 DEF Ahead
    <3>2. ASSUME Ahead(s, x, y), x # id, y # id PROVE Ahead(t, x, y)
      <4>1. PICK k \in DOMAIN s, l \in DOMAIN s : k < l /\ s[k].id = x /\ s[l].id = y
        BY <3>2 DEF Ahead
      <4>2. k \in places /\ l \in places
        BY <4>1, <3>2, <2>2
      <4> QED BY <4>1, <4>2, <2>4
    <3> QED BY <3>1, <3>2
  <2>7. ASSUME NEW k \in Ids(t) PROVE EntryOf(t, k) = EntryOf(s, k) /\ k # id
    <3>1. PICK i \in DOMAIN t : t[i].id = k
      BY DEF Ids
    <3>2. PICK l \in DOMAIN s : t[i] = s[l]
      BY <2>3
    <3>3. EntryOf(t, k) = t[i]
      BY <3>1, <2>3, EntryIs
    <3> QED BY <3>1, <3>2, <3>3, <1>3, <2>5
  <2> QED BY <1>4, <2>3, <2>5, <2>6, <2>7 DEF t, BootList
<1>5. CASE change.auto /\ id \notin Ids(s)
  <2> DEFINE e == [id |-> id, wait |-> change.wait]
  <2>1. t = Append(s, e)
    BY <1>5 DEF ApplyChange
  <2>2. e \in EntrySet
    BY <1>2 DEF EntrySet
  <2>3. e.id = id /\ e.wait = change.wait
    OBVIOUS
  <2> HIDE DEF t, e
  <2>4. /\ t \in Seq(EntrySet)
        /\ Len(t) = Len(s) + 1
        /\ \A i \in 1..Len(s) : t[i] = s[i]
        /\ t[Len(s) + 1] = e
    BY <2>1, <2>2, <1>1, AppendProperties
  <2>5. DOMAIN t = 1..(Len(s) + 1)
    BY <2>4, LenProperties
  <2>6. /\ \A i \in DOMAIN t : (i \in DOMAIN s /\ t[i] = s[i]) \/ (i = Len(s) + 1 /\ t[i] = e)
        /\ \A i \in DOMAIN s : i \in DOMAIN t /\ t[i] = s[i] /\ i < Len(s) + 1
        /\ Len(s) + 1 \in DOMAIN t
    <3>1. \A i \in DOMAIN t : i \in DOMAIN s \/ i = Len(s) + 1
      BY <1>1, <2>5
    <3>2. \A i \in DOMAIN s : i \in DOMAIN t /\ i < Len(s) + 1
      BY <1>1, <2>5
    <3>3. Len(s) + 1 \in DOMAIN t
      BY <1>1, <2>5
    <3>4. \A i \in DOMAIN s : t[i] = s[i]
      BY <1>1, <2>4
    <3>5. t[Len(s) + 1] = e
      BY <2>4
    <3>6. \A i \in DOMAIN t : (i \in DOMAIN s /\ t[i] = s[i]) \/ (i = Len(s) + 1 /\ t[i] = e)
      BY <3>1, <3>4, <3>5
    <3> QED BY <3>2, <3>3, <3>4, <3>6
  <2>7. \A i \in DOMAIN s : s[i].id # id
    BY <1>5 DEF Ids
  <2>8. OnceEach(t)
    <3> SUFFICES ASSUME NEW i \in DOMAIN t, NEW j \in DOMAIN t, t[i].id = t[j].id
                 PROVE  i = j
      BY DEF OnceEach
    <3>1. CASE i \in DOMAIN s /\ t[i] = s[i]
      BY <3>1, <1>1, <2>3, <2>6, <2>7 DEF OnceEach
    <3>2. CASE i = Len(s) + 1 /\ t[i] = e
      BY <3>2, <2>3, <2>6, <2>7
    <3> QED BY <3>1, <3>2, <2>6
  <2>9. Ids(t) = Ids(s) \cup {id}
    BY <2>3, <2>4, <2>6 DEF Ids
  <2>10. ASSUME NEW x, NEW y
         PROVE  Ahead(t, x, y) <=> Ahead(s, x, y) \/ (x \in Ids(s) /\ y = id)
    <3>1. ASSUME Ahead(t, x, y) PROVE Ahead(s, x, y) \/ (x \in Ids(s) /\ y = id)
      <4>1. PICK i \in DOMAIN t, j \in DOMAIN t : i < j /\ t[i].id = x /\ t[j].id = y
        BY <3>1 DEF Ahead
      <4>2. i \in DOMAIN s /\ t[i] = s[i]
        BY <4>1, <2>5, <2>6, <1>1
      <4> QED BY <4>1, <4>2, <2>3, <2>6 DEF Ahead, Ids
    <3>2. ASSUME Ahead(s, x, y) PROVE Ahead(t, x, y)
      BY <3>2, <2>6 DEF Ahead
    <3>3. ASSUME x \in Ids(s), y = id PROVE Ahead(t, x, y)
      <4>1. PICK i \in DOMAIN s : s[i].id = x
        BY <3>3 DEF Ids
      <4> QED BY <4>1, <3>3, <2>3, <2>4, <2>6 DEF Ahead
    <3> QED BY <3>1, <3>2, <3>3
  <2>11. ASSUME NEW k \in Ids(t)
         PROVE  EntryOf(t, k).wait = IF k = id THEN change.wait ELSE EntryOf(s, k).wait
    <3>1. PICK i \in DOMAIN t : t[i].id = k
      BY DEF Ids
    <3>2. EntryOf(t, k) = t[i]
      BY <3>1, <2>8, EntryIs
    <3> QED BY <3>1, <3>2, <1>3, <2>3, <2>6, <2>7
  <2> QED BY <1>5, <2>4, <2>8, <2>9, <2>10, <2>11 DEF t, BootList
<1>6. CASE change.auto /\ id \in Ids(s)
  <2>1. t = [i \in DOMAIN s |-> IF s[i].id = id /\ change.wait # NoWait
                                THEN [s[i] EXCEPT !.wait = change.wait] ELSE s[i]]
    BY <1>6 DEF ApplyChange
  <2>2. ASSUME NEW i \in DOMAIN s
        PROVE  /\ t[i] \in EntrySet
               /\ t[i].id = s[i].id
               /\ t[i].wait = IF s[i].id = id /\ change.wait # NoWait THEN change.wait
                              ELSE s[i].wait
    <3>1. s[i] \in EntrySet
      BY <1>1
    <3> HIDE DEF t
    <3> QED BY <3>1, <2>1, <1>2 DEF EntrySet
  <2> HIDE DEF t
  <2>3. DOMAIN t = DOMAIN s
    BY <2>1
  <2>4. t \in Seq(EntrySet)
    <3> DEFINE e(i) == t[i]
    <3>1. \A i \in 1..Len(s) : e(i) \in EntrySet
      BY <2>2, <1>1
    <3>2. t = [i \in 1..Len(s) |-> e(i)]
      BY <2>1, <1>1
    <3> HIDE DEF e
    <3> QED BY <3>1, <3>2, <1>1, IsASeq
  <2>5. OnceEach(t)
    BY <1>1, <2>2, <2>3 DEF OnceEach
  <2>6. Ids(t) = Ids(s)
    BY <2>2, <2>3 DEF Ids
  <2>7. \A x, y : Ahead(t, x, y) <=> Ahead(s, x, y)
    BY <2>2, <2>3 DEF Ahead
  <2>8. ASSUME NEW k \in Ids(t)
        PROVE  EntryOf(t, k).wait = IF k = id /\ change.wait # NoWait THEN change.wait
                                    ELSE EntryOf(s, k).wait
    <3>1. PICK i \in DOMAIN t : t[i].id = k
      BY DEF Ids
    <3>2. EntryOf(t, k) = t[i]
      BY <3>1, <2>5, EntryIs
    <3> QED BY <3>1, <3>2, <1>3, <2>2, <2>3
  <2> QED BY <1>6, <2>4, <2>5, <2>6, <2>7, <2>8 DEF t, BootList
<1> QED BY <1>2, <1>4, <1>5, <1>6

-----------------------------------------------------------------------------
(* The loop over the changes: the container change i names.                 *)
Tgt(i) == Target(args, i, Ids(rows))
ChangeNo == 1..Len(args.changes)

(* Every change names a container of the listing, and no two the same.      *)
NamedOnce ==
  /\ args.changes \in Seq(Changes)
  /\ \A i \in ChangeNo : Tgt(i) \in Ids(rows)
  /\ \A i, j \in ChangeNo : Tgt(i) = Tgt(j) => i = j

(* The loop over the changes obeys the equation it is defined by: one pass  *)
(* per change, each on the list the one before has left.                    *)
LEMMA ChangedRecursion ==
  ASSUME Listing(rows), NamedOnce
  PROVE  \E after : /\ Changed = after[Len(args.changes)]
                    /\ after[0] = Current
                    /\ \A n \in 0..Len(args.changes) : BootList(after[n])
                    /\ \A n \in ChangeNo : after[n] = ApplyChange(after[n - 1], args.changes[n])
<1> DEFINE N == Len(args.changes)
           D == {s \in Seq(EntrySet) : OnceEach(s)}
           Body(u) == [n \in 0..N |-> IF n = 0 THEN Current
                                      ELSE ApplyChange(u[n - 1], args.changes[n])]
           after == CHOOSE u : u = Body(u)
           g == [k \in 1..N |-> [x \in D |-> ApplyChange(x, args.changes[k])]]
<1>1. N \in Nat /\ \A k \in 1..N : args.changes[k] \in Changes
  BY LenProperties DEF NamedOnce
<1>2. \A s : s \in D <=> BootList(s)
  BY DEF BootList
<1>3. ASSUME NEW k \in 1..N, NEW x \in D PROVE ApplyChange(x, args.changes[k]) \in D
  <2>1. CanonicalId(args.changes[k].ref, Ids(rows)) \in Containers
    BY CurrentList DEF NamedOnce, Tgt, Target, ChangeNo
  <2>2. BootList(x) /\ args.changes[k] \in Changes
    BY <1>1, <1>2
  <2>3. BootList(ApplyChange(x, args.changes[k]))
    BY <2>1, <2>2, ApplyChangeList
  <2> QED BY <2>3, <1>2
<1>4. Current \in D
  BY <1>2, CurrentList
<1> HIDE DEF N, D
<1>5. g \in Steps(N, D)
  BY <1>3 DEF Steps
<1>6. \E u : u = Body(u)
  <2> DEFINE b == Current
  <2>1. \E f : Iterates(f, N, D, b, g)
    <3> HIDE DEF b, g
    <3> QED BY <1>1, <1>4, <1>5, Recursion DEF b
  <2>2. PICK f : Iterates(f, N, D, b, g)
    BY <2>1
  <2>3. /\ f \in [0..N -> D]
        /\ f[0] = Current
        /\ \A k \in 1..N : f[k] = g[k][f[k - 1]]
    <3> HIDE DEF g
    <3> QED BY <2>2 DEF Iterates
  <2>4. ASSUME NEW k \in 1..N PROVE f[k] = ApplyChange(f[k - 1], args.changes[k])
    <3>1. f[k - 1] \in D
      <4>1. k - 1 \in 0..N
        BY <1>1
      <4> HIDE DEF g
      <4> QED BY <4>1, <2>3
    <3> QED BY <3>1, <2>3
  <2>5. \A k \in 0..N : f[k] = IF k = 0 THEN Current ELSE ApplyChange(f[k - 1], args.changes[k])
    <3>1. \A k \in 0..N : k = 0 \/ k \in 1..N
      BY <1>1
    <3> QED BY <3>1, <2>3, <2>4
  <2>6. f = Body(f)
    BY <2>3, <2>5
  <2> QED BY <2>6
<1>7. after = Body(after)
  <2> HIDE DEF Body
  <2> QED BY <1>6
<1>8. Changed = after[N]
  BY DEF Changed, N
<1> HIDE DEF after
<1>9. after[0] = Current
  <2>1. 0 \in 0..N
    BY <1>1
  <2> QED BY <2>1, <1>7
<1>10. ASSUME NEW n \in 1..N PROVE after[n] = ApplyChange(after[n - 1], args.changes[n])
  <2>1. n \in 0..N /\ n # 0
    BY <1>1
  <2> QED BY <2>1, <1>7
<1>11. \A n \in 0..N : after[n] \in D
  <2> DEFINE P == {n \in 0..N : after[n] \in D}
  <2>1. 0 \in P
    BY <1>1, <1>4, <1>9
  <2>2. ASSUME NEW n \in 1..N, n - 1 \in P PROVE n \in P
    <3>1. after[n - 1] \in D /\ n \in 0..N
      BY <2>2, <1>1
    <3> QED BY <3>1, <1>3, <1>10
  <2> HIDE DEF P
  <2>3. \A n \in 0..N : n \in P
    BY <2>1, <2>2, <1>1, Induction
  <2> QED BY <2>3 DEF P
<1> QED BY <1>2, <1>8, <1>9, <1>10, <1>11 DEF N, ChangeNo

(* The containers the first n changes switch on, and off.                   *)
On(n) == {Tgt(i) : i \in {j \in 1..n : args.changes[j].auto}}
Off(n) == {Tgt(i) : i \in {j \in 1..n : ~args.changes[j].auto}}

(* The list s is the current one with the first n changes made.             *)
AfterChanges(s, n) ==
  /\ Ids(s) = (Ids(Current) \ Off(n)) \cup On(n)
  /\ \A x, y : Ahead(s, x, y) <=>
       \/ Ahead(Current, x, y) /\ x \notin Off(n) /\ y \notin Off(n)
       \/ x \in Ids(Current) \ Off(n) /\ y \in On(n) \ Ids(Current)
       \/ /\ x \in On(n) \ Ids(Current) /\ y \in On(n) \ Ids(Current)
          /\ \E i, j \in 1..n : i < j /\ Tgt(i) = x /\ Tgt(j) = y
  /\ \A k \in Ids(s) :
       /\ \A i \in 1..n : Tgt(i) = k /\ args.changes[i].wait # NoWait =>
            EntryOf(s, k).wait = args.changes[i].wait
       /\ (\A i \in 1..n : Tgt(i) = k => args.changes[i].wait = NoWait) =>
            EntryOf(s, k).wait =
              IF k \in Ids(Current) THEN EntryOf(Current, k).wait ELSE NoWait

(* One pass of the loop makes one more change.                              *)
LEMMA OneMoreChange ==
  ASSUME Listing(rows), NamedOnce, NEW n \in ChangeNo, NEW s, BootList(s),
         AfterChanges(s, n - 1)
  PROVE  AfterChanges(ApplyChange(s, args.changes[n]), n)
<1> DEFINE id == Tgt(n)
           change == args.changes[n]
           t == ApplyChange(s, change)
<1>1. /\ Len(args.changes) \in Nat /\ n \in Nat \ {0}
      /\ change \in Changes /\ change.auto \in BOOLEAN
      /\ id \in Containers /\ id = CanonicalId(change.ref, Ids(rows))
  <2>1. Len(args.changes) \in Nat /\ change \in Changes
    BY LenProperties DEF NamedOnce, ChangeNo
  <2>2. id \in Containers
    BY CurrentList DEF NamedOnce
  <2>3. n \in Nat \ {0} /\ id = CanonicalId(change.ref, Ids(rows))
    BY <2>1 DEF ChangeNo, Tgt, Target
  <2>4. change.auto \in BOOLEAN
    BY <2>1 DEF Changes
  <2> QED BY <2>1, <2>2, <2>3, <2>4
<1>2. \A i \in 1..n : i = n \/ i \in 1..(n - 1)
  BY <1>1
<1>3. n \in 1..n /\ \A i \in 1..(n - 1) : i \in 1..n /\ i # n /\ i \in ChangeNo /\ i < n
  BY <1>1 DEF ChangeNo
<1>4. \A i \in 1..(n - 1) : Tgt(i) # id
  BY <1>3 DEF NamedOnce
<1>5. id \notin On(n - 1) /\ id \notin Off(n - 1)
  BY <1>4 DEF On, Off
<1>6. On(n) = IF change.auto THEN On(n - 1) \cup {id} ELSE On(n - 1)
  BY <1>2, <1>3 DEF On
<1>7. Off(n) = IF change.auto THEN Off(n - 1) ELSE Off(n - 1) \cup {id}
  BY <1>2, <1>3 DEF Off
<1>8. On(n - 1) \cap Off(n - 1) = {}
  BY <1>3 DEF On, Off, NamedOnce
<1>9. /\ Ids(t) = IF change.auto THEN Ids(s) \cup {id} ELSE Ids(s) \ {id}
      /\ \A x, y : Ahead(t, x, y) <=>
           \/ Ahead(s, x, y) /\ (change.auto \/ (x # id /\ y # id))
           \/ change.auto /\ id \notin Ids(s) /\ x \in Ids(s) /\ y = id
      /\ \A k \in Ids(t) :
           EntryOf(t, k).wait =
             IF k = id /\ (id \notin Ids(s) \/ change.wait # NoWait) THEN change.wait
             ELSE EntryOf(s, k).wait
  <2> HIDE DEF change, id
  <2>1. BootList(s) /\ change \in Changes /\ id \in Containers
        /\ id = CanonicalId(change.ref, Ids(rows))
    BY <1>1
  <2>2. Ids(t) = IF change.auto THEN Ids(s) \cup {id} ELSE Ids(s) \ {id}
    BY <2>1, ApplyChangeList
  <2>3. \A x, y : Ahead(t, x, y) <=>
           \/ Ahead(s, x, y) /\ (change.auto \/ (x # id /\ y # id))
           \/ change.auto /\ id \notin Ids(s) /\ x \in Ids(s) /\ y = id
    BY <2>1, ApplyChangeList
  <2>4. \A k \in Ids(t) :
           EntryOf(t, k).wait =
             IF k = id /\ (id \notin Ids(s) \/ change.wait # NoWait) THEN change.wait
             ELSE EntryOf(s, k).wait
    BY <2>1, ApplyChangeList
  <2> QED BY <2>2, <2>3, <2>4
<1> DEFINE C == Ids(Current)
           Before(x, y, m) == \E i, j \in 1..m : i < j /\ Tgt(i) = x /\ Tgt(j) = y
<1>10. /\ Ids(s) = (C \ Off(n - 1)) \cup On(n - 1)
       /\ \A x, y : Ahead(s, x, y) <=>
            \/ Ahead(Current, x, y) /\ x \notin Off(n - 1) /\ y \notin Off(n - 1)
            \/ x \in C \ Off(n - 1) /\ y \in On(n - 1) \ C
            \/ x \in On(n - 1) \ C /\ y \in On(n - 1) \ C /\ Before(x, y, n - 1)
  BY DEF AfterChanges
<1>11. \A x, y : Before(x, y, n) <=>
         Before(x, y, n - 1) \/ (y = id /\ \E i \in 1..(n - 1) : Tgt(i) = x)
  <2> SUFFICES ASSUME NEW x, NEW y
               PROVE  Before(x, y, n) <=>
                 Before(x, y, n - 1) \/ (y = id /\ \E i \in 1..(n - 1) : Tgt(i) = x)
    OBVIOUS
  <2>1. ASSUME Before(x, y, n)
        PROVE  Before(x, y, n - 1) \/ (y = id /\ \E i \in 1..(n - 1) : Tgt(i) = x)
    <3>1. PICK i \in 1..n, j \in 1..n : i < j /\ Tgt(i) = x /\ Tgt(j) = y
      BY <2>1
    <3>2. i \in 1..(n - 1)
      BY <3>1, <1>1
    <3> QED BY <3>1, <3>2, <1>2
  <2>2. ASSUME Before(x, y, n - 1) PROVE Before(x, y, n)
    BY <2>2, <1>3
  <2>3. ASSUME y = id, NEW i \in 1..(n - 1), Tgt(i) = x PROVE Before(x, y, n)
    BY <2>3, <1>3
  <2> QED BY <2>1, <2>2, <2>3
<1>12. \A x \in On(n - 1) : \E i \in 1..(n - 1) : Tgt(i) = x
  BY DEF On
<1>13. \A x, y : Ahead(Current, x, y) => x \in C /\ y \in C
  BY DEF Ahead, Ids
<1>14. /\ \A k \in Ids(s), i \in 1..(n - 1) :
            Tgt(i) = k /\ args.changes[i].wait # NoWait =>
              EntryOf(s, k).wait = args.changes[i].wait
       /\ \A k \in Ids(s) :
            (\A i \in 1..(n - 1) : Tgt(i) = k => args.changes[i].wait = NoWait) =>
              EntryOf(s, k).wait =
                IF k \in C THEN EntryOf(Current, k).wait ELSE NoWait
  BY DEF AfterChanges
<1> HIDE DEF id, change, t, C, Before
<1>15. Ids(t) = (C \ Off(n)) \cup On(n)
  BY <1>1, <1>5, <1>6, <1>7, <1>9, <1>10
<1>16. ASSUME NEW x, NEW y
       PROVE  Ahead(t, x, y) <=>
                \/ Ahead(Current, x, y) /\ x \notin Off(n) /\ y \notin Off(n)
                \/ x \in C \ Off(n) /\ y \in On(n) \ C
                \/ x \in On(n) \ C /\ y \in On(n) \ C /\ Before(x, y, n)
  <2>1. CASE ~change.auto
    BY <2>1, <1>5, <1>6, <1>7, <1>9, <1>10, <1>11
  <2>2. CASE change.auto /\ id \in C
    BY <2>2, <1>5, <1>6, <1>7, <1>9, <1>10, <1>11
  <2>3. CASE change.auto /\ id \notin C
    <3>1. /\ On(n) = On(n - 1) \cup {id} /\ Off(n) = Off(n - 1)
          /\ id \notin Ids(s)
          /\ Ahead(t, x, y) <=> Ahead(s, x, y) \/ (x \in Ids(s) /\ y = id)
      BY <2>3, <1>5, <1>6, <1>7, <1>9, <1>10
    <3>2. Before(x, y, n) <=> Before(x, y, n - 1) \/ (y = id /\ \E i \in 1..(n - 1) : Tgt(i) = x)
      BY <1>11
    <3>3. Before(x, y, n - 1) => x # id /\ y # id
      BY <1>4 DEF Before
    <3>4. (\E i \in 1..(n - 1) : Tgt(i) = x) => x # id
      BY <1>4
    <3>5. Ahead(s, x, y) <=>
            \/ Ahead(Current, x, y) /\ x \notin Off(n - 1) /\ y \notin Off(n - 1)
            \/ x \in C \ Off(n - 1) /\ y \in On(n - 1) \ C
            \/ x \in On(n - 1) \ C /\ y \in On(n - 1) \ C /\ Before(x, y, n - 1)
      BY <1>10
    <3>6. x \in Ids(s) <=> x \in C \ Off(n - 1) \/ x \in On(n - 1)
      BY <1>10
    <3>7. Ahead(Current, x, y) => x \in C /\ y \in C
      BY <1>13
    <3>8. x \in On(n - 1) => x \notin Off(n - 1) /\ \E i \in 1..(n - 1) : Tgt(i) = x
      BY <1>8, <1>12
    <3>9. CASE y = id
      BY <2>3, <3>1, <3>2, <3>3, <3>4, <3>5, <3>6, <3>7, <3>8, <3>9, <1>5
    <3>10. CASE y # id
      BY <2>3, <3>1, <3>2, <3>3, <3>5, <3>7, <3>10, <1>5
    <3> QED BY <3>9, <3>10
  <2> QED BY <1>1, <2>1, <2>2, <2>3
<1>17. ASSUME NEW k \in Ids(t)
       PROVE  /\ \A i \in 1..n : Tgt(i) = k /\ args.changes[i].wait # NoWait =>
                   EntryOf(t, k).wait = args.changes[i].wait
              /\ (\A i \in 1..n : Tgt(i) = k => args.changes[i].wait = NoWait) =>
                   EntryOf(t, k).wait =
                     IF k \in C THEN EntryOf(Current, k).wait ELSE NoWait
  <2>1. CASE k = id
    <3>1. change.auto
      BY <2>1, <1>1, <1>9
    <3>2. id \in Ids(s) <=> id \in C
      BY <1>5, <1>10
    <3>3. \A i \in 1..n : Tgt(i) = k => args.changes[i] = change
      BY <2>1, <1>2, <1>4 DEF change
    <3>4. Tgt(n) = k /\ args.changes[n] = change
      BY <2>1 DEF id, change
    <3>5. CASE change.wait # NoWait
      BY <2>1, <3>3, <3>4, <3>5, <1>3, <1>9
    <3>6. CASE change.wait = NoWait
      BY <2>1, <3>2, <3>3, <3>6, <1>4, <1>9, <1>14
    <3> QED BY <3>5, <3>6
  <2>2. CASE k # id
    <3>1. k \in Ids(s) /\ EntryOf(t, k).wait = EntryOf(s, k).wait
      BY <2>2, <1>9
    <3>2. \A i \in 1..n : Tgt(i) = k => i \in 1..(n - 1)
      BY <2>2, <1>2 DEF id
    <3> QED BY <3>1, <3>2, <1>3, <1>14
  <2> QED BY <2>1, <2>2
<1> QED BY <1>15, <1>16, <1>17 DEF AfterChanges, t, C, Before, change

(* After its last pass the loop has made all of them.                       *)
LEMMA ChangesMade ==
  ASSUME Listing(rows), NamedOnce
  PROVE  BootList(Changed) /\ AfterChanges(Changed, Len(args.changes))
<1> DEFINE N == Len(args.changes)
<1>1. PICK after : /\ Changed = after[N]
                   /\ after[0] = Current
                   /\ \A n \in 0..N : BootList(after[n])
                   /\ \A n \in ChangeNo : after[n] = ApplyChange(after[n - 1], args.changes[n])
  BY ChangedRecursion
<1>2. N \in Nat /\ ChangeNo = 1..N
  BY LenProperties DEF NamedOnce, ChangeNo
<1> HIDE DEF N
<1> DEFINE P == {n \in 0..N : AfterChanges(after[n], n)}
<1>3. 0 \in P
  <2>1. On(0) = {} /\ Off(0) = {} /\ 0 \in 0..N
    BY <1>2 DEF On, Off
  <2>2. 1..0 = {}
    OBVIOUS
  <2>3. AfterChanges(Current, 0)
    BY <2>1, <2>2 DEF AfterChanges
  <2> QED BY <2>1, <2>3, <1>1
<1>4. ASSUME NEW n \in 1..N, n - 1 \in P PROVE n \in P
  <2>1. n \in ChangeNo /\ n \in 0..N /\ n - 1 \in 0..N
    BY <1>2
  <2>2. BootList(after[n - 1]) /\ AfterChanges(after[n - 1], n - 1)
    BY <2>1, <1>1, <1>4
  <2>3. AfterChanges(ApplyChange(after[n - 1], args.changes[n]), n)
    BY <2>1, <2>2, OneMoreChange
  <2> QED BY <2>1, <2>3, <1>1
<1> HIDE DEF P
<1>5. \A n \in 0..N : n \in P
  BY <1>2, <1>3, <1>4, Induction
<1>6. N \in 0..N
  BY <1>2
<1> QED BY <1>1, <1>5, <1>6 DEF P, N

-----------------------------------------------------------------------------
(* The containers of the order come first, in its order; the rest follows   *)
(* as it was; no entry changes.                                             *)
Place(order, i) == CanonicalId(order[i], Ids(rows))
ListedIn(order) == {Place(order, i) : i \in DOMAIN order}

(* What PutFirst does to the members, the entries and the order.            *)
LEMMA PutFirstList ==
  ASSUME NEW s, BootList(s), NEW order \in Seq(Refs),
         \A i \in DOMAIN order : Place(order, i) \in Ids(s),
         \A i, j \in DOMAIN order : Place(order, i) = Place(order, j) => i = j
  PROVE  /\ BootList(PutFirst(s, order))
         /\ Ids(PutFirst(s, order)) = Ids(s)
         /\ \A k \in Ids(s) : EntryOf(PutFirst(s, order), k) = EntryOf(s, k)
         /\ \A i \in DOMAIN order :
              /\ i \in DOMAIN PutFirst(s, order)
              /\ PutFirst(s, order)[i] = EntryOf(s, Place(order, i))
         /\ \A x, y : Ahead(PutFirst(s, order), x, y) <=>
              \/ \E i, j \in DOMAIN order : i < j /\ Place(order, i) = x /\ Place(order, j) = y
              \/ x \in ListedIn(order) /\ y \in Ids(s) \ ListedIn(order)
              \/ Ahead(s, x, y) /\ x \notin ListedIn(order) /\ y \notin ListedIn(order)
<1> DEFINE L == ListedIn(order)
           a == [i \in DOMAIN order |-> EntryOf(s, Place(order, i))]
           places == {i \in DOMAIN s : s[i].id \notin L}
           z == Select(s, places)
           t == PutFirst(s, order)
<1>1. t = a \o z
  BY DEF PutFirst, Place, ListedIn
<1>2. \A i \in DOMAIN s : i \in places <=> s[i].id \notin L
  OBVIOUS
<1>3. /\ s \in Seq(EntrySet) /\ OnceEach(s)
      /\ \A i \in DOMAIN s : s[i] \in EntrySet
  BY LenProperties DEF BootList
<1>4. DOMAIN order = 1..Len(order) /\ Len(order) \in Nat
  BY LenProperties
<1>5. ASSUME NEW i \in DOMAIN order
      PROVE  a[i] = EntryOf(s, Place(order, i)) /\ a[i].id = Place(order, i) /\ a[i] \in EntrySet
             /\ \E k \in DOMAIN s : a[i] = s[k]
  <2>1. PICK k \in DOMAIN s : s[k].id = Place(order, i)
    BY DEF Ids
  <2>2. a[i] = EntryOf(s, Place(order, i)) /\ EntryOf(s, s[k].id) = s[k]
    BY <1>3, EntryIs
  <2> QED BY <2>1, <2>2, <1>3
<1>6. DOMAIN a = DOMAIN order
  OBVIOUS
<1>7. a \in Seq(EntrySet)
  <2> DEFINE e(i) == a[i]
  <2>1. \A i \in 1..Len(order) : e(i) \in EntrySet
    BY <1>4, <1>5
  <2>2. a = [i \in 1..Len(order) |-> e(i)]
    BY <1>4
  <2> HIDE DEF a, e
  <2> QED BY <2>1, <2>2, <1>4, IsASeq
<1> HIDE DEF a, z, t, places
<1>8. /\ z \in Seq(EntrySet) /\ OnceEach(z)
      /\ \A i \in DOMAIN z : \E k \in DOMAIN s : k \in places /\ z[i] = s[k]
      /\ \A k \in DOMAIN s : k \in places => \E i \in DOMAIN z : z[i] = s[k]
  <2>1. z = Select(s, places) /\ s \in Seq(EntrySet) /\ OnceEach(s)
    BY <1>3 DEF z
  <2>2. z \in Seq(EntrySet) /\ OnceEach(z)
    BY <2>1, SelectList
  <2>3. \A i \in DOMAIN z : \E k \in DOMAIN s : k \in places /\ z[i] = s[k]
    BY <2>1, SelectList
  <2>4. \A k \in DOMAIN s : k \in places => \E i \in DOMAIN z : z[i] = s[k]
    BY <2>1, SelectList
  <2> QED BY <2>2, <2>3, <2>4
<1>9. OnceEach(a)
  BY <1>5, <1>6 DEF OnceEach
<1>10. Ids(a) = L
  BY <1>5, <1>6 DEF Ids, ListedIn
<1>11. Ids(z) = Ids(s) \ L
  BY <1>2, <1>8 DEF Ids
<1>12. /\ t \in Seq(EntrySet) /\ OnceEach(t)
       /\ Ids(t) = Ids(a) \cup Ids(z)
  <2>1. t \in Seq(EntrySet) /\ Ids(t) = Ids(a) \cup Ids(z)
    BY <1>1, <1>7, <1>8, ConcatList
  <2>2. Ids(a) \cap Ids(z) = {}
    BY <1>10, <1>11
  <2>3. OnceEach(t)
    BY <2>2, <1>1, <1>7, <1>8, <1>9, ConcatList
  <2> QED BY <2>1, <2>3
<1>13. L \subseteq Ids(s)
  BY DEF ListedIn
<1>14. \A i \in DOMAIN a : i \in DOMAIN t /\ t[i] = a[i]
  BY <1>1, <1>7, <1>8, ConcatList
<1>15. \A x, y : Ahead(t, x, y) <=>
          Ahead(a, x, y) \/ Ahead(z, x, y) \/ (x \in Ids(a) /\ y \in Ids(z))
  BY <1>1, <1>7, <1>8, ConcatList
<1>16. \A i \in DOMAIN t : \E k \in DOMAIN s : t[i] = s[k]
  <2> SUFFICES ASSUME NEW i \in DOMAIN t PROVE \E k \in DOMAIN s : t[i] = s[k]
    OBVIOUS
  <2>1. \/ i \in DOMAIN a
        \/ i - Len(a) \in DOMAIN z /\ i = Len(a) + (i - Len(a))
    BY <1>1, <1>7, <1>8, ConcatList
  <2>2. \A j \in DOMAIN z : t[Len(a) + j] = z[j]
    BY <1>1, <1>7, <1>8, ConcatList
  <2>3. CASE i \in DOMAIN a
    BY <2>3, <1>5, <1>6, <1>14
  <2>4. CASE i - Len(a) \in DOMAIN z /\ i = Len(a) + (i - Len(a))
    <3>1. t[i] = z[i - Len(a)]
      BY <2>2, <2>4
    <3> QED BY <2>4, <3>1, <1>8
  <2> QED BY <2>1, <2>3, <2>4
<1>17. ASSUME NEW k \in Ids(s) PROVE EntryOf(t, k) = EntryOf(s, k)
  <2>1. k \in Ids(t)
    BY <1>10, <1>11, <1>12
  <2>2. PICK i \in DOMAIN t : t[i].id = k
    BY <2>1 DEF Ids
  <2>3. PICK l \in DOMAIN s : t[i] = s[l]
    BY <1>16
  <2>4. EntryOf(t, t[i].id) = t[i] /\ EntryOf(s, s[l].id) = s[l]
    BY <1>3, <1>12, EntryIs
  <2> QED BY <2>2, <2>3, <2>4
<1>18. ASSUME NEW x, NEW y
       PROVE  Ahead(a, x, y) <=>
                \E i, j \in DOMAIN order : i < j /\ Place(order, i) = x /\ Place(order, j) = y
  BY <1>5, <1>6 DEF Ahead
<1>19. ASSUME NEW x, NEW y
       PROVE  Ahead(z, x, y) <=> Ahead(s, x, y) /\ x \notin L /\ y \notin L
  <2>1. Ahead(z, x, y) <=>
          \E k, l \in DOMAIN s :
            k < l /\ k \in places /\ l \in places /\ s[k].id = x /\ s[l].id = y
    BY <1>3, SelectOrder DEF z
  <2>2. ASSUME Ahead(z, x, y) PROVE Ahead(s, x, y) /\ x \notin L /\ y \notin L
    <3>1. PICK k \in DOMAIN s, l \in DOMAIN s :
            k < l /\ k \in places /\ l \in places /\ s[k].id = x /\ s[l].id = y
      BY <2>1, <2>2
    <3> QED BY <3>1, <1>2 DEF Ahead
  <2>3. ASSUME Ahead(s, x, y), x \notin L, y \notin L PROVE Ahead(z, x, y)
    <3>1. PICK k \in DOMAIN s, l \in DOMAIN s : k < l /\ s[k].id = x /\ s[l].id = y
      BY <2>3 DEF Ahead
    <3>2. k \in places /\ l \in places
      BY <3>1, <2>3, <1>2
    <3> QED BY <3>1, <3>2, <2>1
  <2> QED BY <2>2, <2>3
<1>20. BootList(t) /\ Ids(t) = Ids(s)
  BY <1>10, <1>11, <1>12, <1>13 DEF BootList
<1>21. \A i \in DOMAIN order : i \in DOMAIN t /\ t[i] = EntryOf(s, Place(order, i))
  BY <1>5, <1>6, <1>14
<1>22. ASSUME NEW x, NEW y
       PROVE  Ahead(t, x, y) <=>
                \/ \E i, j \in DOMAIN order : i < j /\ Place(order, i) = x /\ Place(order, j) = y
                \/ x \in L /\ y \in Ids(s) \ L
                \/ Ahead(s, x, y) /\ x \notin L /\ y \notin L
  BY <1>10, <1>11, <1>15, <1>18, <1>19
<1> QED BY <1>17, <1>20, <1>21, <1>22 DEF t

-----------------------------------------------------------------------------
(* A list and its set-and-order form.                                       *)
LEMMA ImageIs ==
  ASSUME NEW s, BootList(s)
  PROVE  /\ Image(s).on = Ids(s)
         /\ Ids(s) \subseteq Containers
         /\ \A p : p \in Image(s).before <=> p = <<p[1], p[2]>> /\ Ahead(s, p[1], p[2])
         /\ \A x, y : Ahead(s, x, y) => x \in Ids(s) /\ y \in Ids(s) /\ x # y
         /\ Image(s).wait =
              [k \in Containers |-> IF k \in Ids(s) THEN EntryOf(s, k).wait ELSE NoWait]
<1>1. \A i \in DOMAIN s : s[i] \in EntrySet
  BY LenProperties DEF BootList
<1>2. Ids(s) \subseteq Containers
  BY <1>1 DEF Ids, EntrySet
<1> DEFINE Pairs == {q \in (DOMAIN s) \X (DOMAIN s) : q[1] < q[2]}
<1>3. /\ Image(s).on = Ids(s)
      /\ Image(s).before = {<<s[p[1]].id, s[p[2]].id>> : p \in Pairs}
      /\ Image(s).wait =
           [k \in Containers |-> IF k \in Ids(s) THEN EntryOf(s, k).wait ELSE NoWait]
  BY DEF Image
<1>4. ASSUME NEW p, p \in Image(s).before
      PROVE  p = <<p[1], p[2]>> /\ Ahead(s, p[1], p[2])
  <2>1. PICK q \in Pairs : p = <<s[q[1]].id, s[q[2]].id>>
    BY <1>3, <1>4
  <2>2. q[1] \in DOMAIN s /\ q[2] \in DOMAIN s /\ q[1] < q[2]
    OBVIOUS
  <2>3. p[1] = s[q[1]].id /\ p[2] = s[q[2]].id
    BY <2>1
  <2> QED BY <2>1, <2>2, <2>3 DEF Ahead
<1>5. ASSUME NEW p, p = <<p[1], p[2]>>, Ahead(s, p[1], p[2])
      PROVE  p \in Image(s).before
  <2>1. PICK i \in DOMAIN s, j \in DOMAIN s : i < j /\ s[i].id = p[1] /\ s[j].id = p[2]
    BY <1>5 DEF Ahead
  <2>2. <<i, j>> \in Pairs /\ p = <<s[<<i, j>>[1]].id, s[<<i, j>>[2]].id>>
    BY <1>5, <2>1
  <2> HIDE DEF Pairs
  <2> QED BY <2>2, <1>3
<1>6. ASSUME NEW x, NEW y, Ahead(s, x, y) PROVE x \in Ids(s) /\ y \in Ids(s) /\ x # y
  <2>1. PICK i \in DOMAIN s, j \in DOMAIN s : i < j /\ s[i].id = x /\ s[j].id = y
    BY <1>6 DEF Ahead
  <2>2. i # j
    BY <2>1, LenProperties DEF BootList
  <2>3. x # y
    BY <2>1, <2>2 DEF BootList, OnceEach
  <2> QED BY <2>1, <2>3 DEF Ids
<1> QED BY <1>2, <1>3, <1>4, <1>5, <1>6

(* The set-and-order form of a list is one AutostartMerge is about.         *)
LEMMA ImageIsBootList ==
  ASSUME NEW s, BootList(s)
  PROVE  Image(s) \in BootLists /\ WellOrdered(Image(s))
<1> DEFINE b == Image(s)
<1>1. /\ b.on = Ids(s) /\ Ids(s) \subseteq Containers
      /\ \A p : p \in b.before <=> p = <<p[1], p[2]>> /\ Ahead(s, p[1], p[2])
      /\ \A x, y : Ahead(s, x, y) => x \in Ids(s) /\ y \in Ids(s) /\ x # y
      /\ b.wait = [k \in Containers |-> IF k \in Ids(s) THEN EntryOf(s, k).wait ELSE NoWait]
  BY ImageIs
<1>2. b = [on |-> b.on, before |-> b.before, wait |-> b.wait]
  BY DEF Image
<1>3. /\ OnceEach(s) /\ DOMAIN s = 1..Len(s) /\ Len(s) \in Nat
      /\ \A i \in DOMAIN s : s[i] \in EntrySet
  BY LenProperties DEF BootList
<1> HIDE DEF b
<1>4. ASSUME NEW k \in Ids(s) PROVE EntryOf(s, k).wait \in Waits \cup {NoWait}
  <2>1. PICK i \in DOMAIN s : s[i].id = k
    BY DEF Ids
  <2>2. EntryOf(s, s[i].id) = s[i]
    BY <1>3, EntryIs
  <2> QED BY <2>1, <2>2, <1>3 DEF EntrySet
<1>5. b.wait \in [Containers -> Waits \cup {NoWait}]
  BY <1>1, <1>4
<1>6. b.before \subseteq Containers \X Containers
  BY <1>1
<1>7. b \in BootLists
  BY <1>1, <1>2, <1>5, <1>6 DEF BootLists
<1>8. ASSUME NEW x \in Ids(s), NEW y \in Ids(s), x # y
      PROVE  Ahead(s, x, y) <=> ~Ahead(s, y, x)
  <2>1. PICK i \in DOMAIN s, j \in DOMAIN s : s[i].id = x /\ s[j].id = y
    BY DEF Ids
  <2>2. \A k \in DOMAIN s : (s[k].id = x => k = i) /\ (s[k].id = y => k = j)
    BY <2>1, <1>3 DEF OnceEach
  <2>3. i # j /\ i \in Nat /\ j \in Nat
    BY <2>1, <1>3, <1>8
  <2> QED BY <2>1, <2>2, <2>3 DEF Ahead
<1>9. ASSUME NEW x, NEW y, NEW z, Ahead(s, x, y), Ahead(s, y, z) PROVE Ahead(s, x, z)
  <2>1. PICK i \in DOMAIN s, j \in DOMAIN s : i < j /\ s[i].id = x /\ s[j].id = y
    BY <1>9 DEF Ahead
  <2>2. PICK k \in DOMAIN s, l \in DOMAIN s : k < l /\ s[k].id = y /\ s[l].id = z
    BY <1>9 DEF Ahead
  <2>3. j = k
    BY <2>1, <2>2, <1>3 DEF OnceEach
  <2>4. i < l
    BY <2>1, <2>2, <2>3, <1>3
  <2> QED BY <2>1, <2>2, <2>4 DEF Ahead
<1>10. \A x, y : <<x, y>> \in b.before <=> Ahead(s, x, y)
  BY <1>1
<1>11. \A k \in Containers \ b.on : b.wait[k] = NoWait
  BY <1>1
<1>12. \A p \in b.before : p[1] \in b.on /\ p[2] \in b.on /\ p[1] # p[2]
  BY <1>1
<1>13. WellOrdered(b)
  BY <1>1, <1>8, <1>9, <1>10, <1>11, <1>12 DEF WellOrdered
<1> QED BY <1>7, <1>13 DEF b

(* The checks made before the loop are the first four of Accepts.           *)
LEMMA ChecksAgree ==
  ASSUME args \in RequestType
  PROVE  /\ ~BadIds <=>
              /\ \A i \in DOMAIN args.changes : Resolves(args.changes[i].ref, Ids(rows))
              /\ \A i, j \in DOMAIN args.changes :
                   Target(args, i, Ids(rows)) = Target(args, j, Ids(rows)) => i = j
              /\ \A i \in DOMAIN args.order : Resolves(args.order[i], Ids(rows))
              /\ \A i, j \in DOMAIN args.order :
                   CanonicalId(args.order[i], Ids(rows)) = CanonicalId(args.order[j], Ids(rows))
                     => i = j
         /\ ~BadIds => NamedOnce
         /\ ~BadIds => \A i \in DOMAIN args.order : Place(args.order, i) \in Ids(rows)
<1>1. args.changes \in Seq(Changes) /\ args.order \in Seq(Refs)
  BY DEF RequestType
<1>2. DOMAIN args.changes = ChangeNo
  BY <1>1, LenProperties DEF ChangeNo
<1>3. \A ref : Resolves(ref, Ids(rows)) => CanonicalId(ref, Ids(rows)) \in Ids(rows)
  BY DEF Resolves, CanonicalId
<1> DEFINE A == \A i \in DOMAIN args.changes : Resolves(args.changes[i].ref, Ids(rows))
           B == \A i, j \in DOMAIN args.changes :
                  Target(args, i, Ids(rows)) = Target(args, j, Ids(rows)) => i = j
           C == \A i \in DOMAIN args.order : Resolves(args.order[i], Ids(rows))
           D == \A i, j \in DOMAIN args.order :
                  CanonicalId(args.order[i], Ids(rows)) = CanonicalId(args.order[j], Ids(rows))
                    => i = j
<1>4. DOMAIN ChangeRefs = DOMAIN args.changes
      /\ \A i \in DOMAIN args.changes : ChangeRefs[i] = args.changes[i].ref
  BY DEF ChangeRefs
<1>5. Unresolved(ChangeRefs) <=> ~A
  BY <1>4 DEF Unresolved
<1>6. Repeated(ChangeRefs) <=> ~B
  BY <1>4 DEF Repeated, Distinct, Target
<1>7. Unresolved(args.order) <=> ~C
  BY DEF Unresolved
<1>8. Repeated(args.order) <=> ~D
  BY DEF Repeated, Distinct
<1>9. ~BadIds <=> A /\ B /\ C /\ D
  BY <1>5, <1>6, <1>7, <1>8 DEF BadIds
<1>10. A /\ B => NamedOnce
  BY <1>1, <1>2, <1>3 DEF NamedOnce, Tgt, Target
<1>11. C => \A i \in DOMAIN args.order : Place(args.order, i) \in Ids(rows)
  BY <1>3 DEF Place
<1> QED BY <1>9, <1>10, <1>11

(* The containers switched on and off are those AutostartMerge names.       *)
LEMMA SwitchedAre ==
  ASSUME NamedOnce
  PROVE  /\ Switched(args, Ids(rows), TRUE) = On(Len(args.changes))
         /\ Switched(args, Ids(rows), FALSE) = Off(Len(args.changes))
         /\ On(Len(args.changes)) \cap Off(Len(args.changes)) = {}
<1>1. DOMAIN args.changes = 1..Len(args.changes)
  BY LenProperties DEF NamedOnce
<1>2. \A i \in DOMAIN args.changes : args.changes[i].auto \in BOOLEAN
  <2>1. \A i \in DOMAIN args.changes : args.changes[i] \in Changes
    BY <1>1 DEF NamedOnce
  <2>2. \A c \in Changes : c.auto \in BOOLEAN
    BY DEF Changes
  <2> QED BY <2>1, <2>2
<1>3. \A k : k \in Switched(args, Ids(rows), TRUE) <=>
        \E i \in DOMAIN args.changes : Tgt(i) = k /\ args.changes[i].auto = TRUE
  BY DEF Switched, Named, Tgt
<1>4. \A k : k \in Switched(args, Ids(rows), FALSE) <=>
        \E i \in DOMAIN args.changes : Tgt(i) = k /\ args.changes[i].auto = FALSE
  BY DEF Switched, Named, Tgt
<1>5. \A k : k \in On(Len(args.changes)) <=>
        \E i \in DOMAIN args.changes : Tgt(i) = k /\ args.changes[i].auto = TRUE
  BY <1>1, <1>2 DEF On
<1>6. \A k : k \in Off(Len(args.changes)) <=>
        \E i \in DOMAIN args.changes : Tgt(i) = k /\ args.changes[i].auto = FALSE
  BY <1>1, <1>2 DEF Off
<1>7. On(Len(args.changes)) \cap Off(Len(args.changes)) = {}
  BY <1>1, <1>5, <1>6 DEF NamedOnce, ChangeNo
<1>8. Switched(args, Ids(rows), TRUE) = On(Len(args.changes))
  BY <1>3, <1>5
<1>9. Switched(args, Ids(rows), FALSE) = Off(Len(args.changes))
  BY <1>4, <1>6
<1> QED BY <1>7, <1>8, <1>9

(* The loop and AutostartMerge give the same members.                       *)
LEMMA MembersAgree ==
  ASSUME Listing(rows), NamedOnce
  PROVE  /\ Ids(Changed) = MergedOn(Image(Current), args, Ids(rows))
         /\ Kept(Image(Current), args, Ids(rows)) = Ids(Current) \ Off(Len(args.changes))
         /\ Added(Image(Current), args, Ids(rows)) = On(Len(args.changes)) \ Ids(Current)
<1>1. BootList(Current) /\ Image(Current).on = Ids(Current)
  BY CurrentList, ImageIs
<1>2. Ids(Changed) = (Ids(Current) \ Off(Len(args.changes))) \cup On(Len(args.changes))
  BY ChangesMade DEF AfterChanges
<1> QED BY <1>1, <1>2, SwitchedAre DEF MergedOn, Kept, Added

(* The loop accepts what Accepts does, and gives the same list.             *)
LEMMA LoopAccepts ==
  ASSUME Listing(rows), args \in RequestType
  PROVE  Acceptable <=> Accepts(Image(Current), args, Ids(rows))
<1>1. CASE BadIds
  BY <1>1, ChecksAgree DEF Acceptable, Accepts
<1>2. CASE ~BadIds
  <2>1. NamedOnce
    BY <1>2, ChecksAgree
  <2>2. Ids(Changed) = MergedOn(Image(Current), args, Ids(rows))
    BY <2>1, MembersAgree
  <2>3. BadOrder <=> ~(Listed(args, Ids(rows)) \subseteq MergedOn(Image(Current), args, Ids(rows)))
    BY <2>2 DEF BadOrder, Listed
  <2> QED BY <1>2, <2>3, ChecksAgree DEF Acceptable, Accepts
<1> QED BY <1>1, <1>2

(* The order of the two, when the request is accepted.                      *)
LEMMA OrderAgrees ==
  ASSUME Listing(rows), args \in RequestType, Acceptable
  PROVE  Image(PutFirst(Changed, args.order)).before =
           MergedOrder(Image(Current), args, Ids(rows))
<1> DEFINE N == Len(args.changes)
           C == Ids(Current)
           L == ListedIn(args.order)
           b == Image(Current)
           kept == C \ Off(N)
           added == On(N) \ C
           t == PutFirst(Changed, args.order)
           M == MergedOrder(b, args, Ids(rows))
           A == AppendedOrder(b, args, Ids(rows))
           Before(x, y) == \E i, j \in 1..N : i < j /\ Tgt(i) = x /\ Tgt(j) = y
           InFront(x, y) == \E i, j \in DOMAIN args.order :
                              i < j /\ Place(args.order, i) = x /\ Place(args.order, j) = y
<1>1. /\ NamedOnce /\ args.order \in Seq(Refs) /\ DOMAIN args.changes = 1..N
      /\ \A i, j \in DOMAIN args.order : Place(args.order, i) = Place(args.order, j) => i = j
      /\ \A i \in DOMAIN args.order : Place(args.order, i) \in Ids(Changed)
  <2>1. ~BadIds /\ ~BadOrder
    BY DEF Acceptable
  <2>2. NamedOnce
    BY <2>1, ChecksAgree
  <2>3. args.order \in Seq(Refs)
    BY DEF RequestType
  <2>4. DOMAIN args.changes = 1..N
    BY <2>2, LenProperties DEF NamedOnce
  <2>5. \A i, j \in DOMAIN args.order : Place(args.order, i) = Place(args.order, j) => i = j
    BY <2>1, ChecksAgree DEF Place
  <2>6. \A i \in DOMAIN args.order : Place(args.order, i) \in Ids(Changed)
    BY <2>1 DEF BadOrder, Place
  <2> QED BY <2>2, <2>3, <2>4, <2>5, <2>6
<1>2. BootList(Changed) /\ AfterChanges(Changed, N)
  BY <1>1, ChangesMade
<1>3. /\ Ids(Changed) = kept \cup On(N)
      /\ \A x, y : Ahead(Changed, x, y) <=>
            \/ Ahead(Current, x, y) /\ x \notin Off(N) /\ y \notin Off(N)
            \/ x \in kept /\ y \in added
            \/ x \in added /\ y \in added /\ Before(x, y)
  BY <1>2 DEF AfterChanges
<1>4. BootList(t)
  BY <1>1, <1>2, PutFirstList
<1>5. \A x, y : Ahead(t, x, y) <=>
        \/ InFront(x, y)
        \/ x \in L /\ y \in Ids(Changed) \ L
        \/ Ahead(Changed, x, y) /\ x \notin L /\ y \notin L
  BY <1>1, <1>2, PutFirstList
<1>6. \A p : p \in Image(t).before <=> p = <<p[1], p[2]>> /\ Ahead(t, p[1], p[2])
  BY <1>4, ImageIs
<1>7. BootList(Current) /\ C \subseteq Containers
  BY CurrentList, ImageIs
<1>8. /\ \A p : p \in b.before <=> p = <<p[1], p[2]>> /\ Ahead(Current, p[1], p[2])
      /\ \A x, y : Ahead(Current, x, y) => x \in C /\ y \in C
  BY <1>7, ImageIs
<1>9. \A x, y : Ahead(Changed, x, y) => x \in Ids(Changed) /\ y \in Ids(Changed)
  BY <1>2, ImageIs
<1>10. /\ MergedOn(b, args, Ids(rows)) = Ids(Changed)
       /\ Kept(b, args, Ids(rows)) = kept /\ Added(b, args, Ids(rows)) = added
       /\ Listed(args, Ids(rows)) = L
  BY <1>1, MembersAgree DEF Listed, ListedIn, Place
<1>11. \A p : p \in A <=>
         /\ p = <<p[1], p[2]>>
         /\ \/ Ahead(Current, p[1], p[2]) /\ p[1] \in kept /\ p[2] \in kept
            \/ p[1] \in kept /\ p[2] \in added
            \/ p[1] \in added /\ p[2] \in added /\ Before(p[1], p[2])
  <2>1. A = {p \in b.before : p[1] \in kept /\ p[2] \in kept}
            \cup (kept \X added)
            \cup {p \in added \X added : Before(p[1], p[2])}
    BY <1>1, <1>10 DEF AppendedOrder, Tgt
  <2> HIDE DEF A, b, kept, added, Before
  <2> QED BY <2>1, <1>8
<1>12. \A p : p \in M <=>
         /\ p = <<p[1], p[2]>>
         /\ \/ p[1] \in L /\ p[2] \in L /\ InFront(p[1], p[2])
            \/ p[1] \in L /\ p[2] \in Ids(Changed) \ L
            \/ p \in A /\ p[1] \in Ids(Changed) \ L /\ p[2] \in Ids(Changed) \ L
  <2>1. M = {p \in L \X L : InFront(p[1], p[2])}
            \cup (L \X (Ids(Changed) \ L))
            \cup {p \in A : p[1] \in Ids(Changed) \ L /\ p[2] \in Ids(Changed) \ L}
    BY <1>10 DEF MergedOrder, Place
  <2> HIDE DEF A, M, L, InFront
  <2> QED BY <2>1, <1>11
<1>13. \A x, y : InFront(x, y) => x \in L /\ y \in L
  BY DEF ListedIn
<1> HIDE DEF A, M, L, InFront, b, Before, t, C
<1>14. ASSUME NEW p PROVE p \in Image(t).before <=> p \in M
  <2>1. CASE p = <<p[1], p[2]>>
    <3>1. p \in Image(t).before <=> Ahead(t, p[1], p[2])
      BY <2>1, <1>6
    <3>2. Ahead(t, p[1], p[2]) <=>
            \/ InFront(p[1], p[2])
            \/ p[1] \in L /\ p[2] \in Ids(Changed) \ L
            \/ Ahead(Changed, p[1], p[2]) /\ p[1] \notin L /\ p[2] \notin L
      BY <1>5
    <3>3. Ahead(Changed, p[1], p[2]) <=>
            \/ Ahead(Current, p[1], p[2]) /\ p[1] \notin Off(N) /\ p[2] \notin Off(N)
            \/ p[1] \in kept /\ p[2] \in added
            \/ p[1] \in added /\ p[2] \in added /\ Before(p[1], p[2])
      BY <1>3
    <3>4. Ahead(Changed, p[1], p[2]) <=> p \in A
      BY <3>3, <2>1, <1>8, <1>11
    <3>5. Ahead(Changed, p[1], p[2]) => p[1] \in Ids(Changed) /\ p[2] \in Ids(Changed)
      BY <1>9
    <3> QED BY <2>1, <3>1, <3>2, <3>4, <3>5, <1>12, <1>13
  <2>2. CASE p # <<p[1], p[2]>>
    BY <2>2, <1>6, <1>12
  <2> QED BY <2>1, <2>2
<1> QED BY <1>14 DEF M, t, b

(* And the waits.                                                           *)
LEMMA WaitsAgree ==
  ASSUME Listing(rows), args \in RequestType, Acceptable
  PROVE  /\ Image(PutFirst(Changed, args.order)).on =
              MergedOn(Image(Current), args, Ids(rows))
         /\ Image(PutFirst(Changed, args.order)).wait =
              MergedWait(Image(Current), args, Ids(rows))
<1> DEFINE N == Len(args.changes)
           b == Image(Current)
           t == PutFirst(Changed, args.order)
           on == MergedOn(b, args, Ids(rows))
<1>1. /\ NamedOnce /\ args.order \in Seq(Refs) /\ DOMAIN args.changes = 1..N
      /\ \A i, j \in DOMAIN args.order : Place(args.order, i) = Place(args.order, j) => i = j
      /\ \A i \in DOMAIN args.order : Place(args.order, i) \in Ids(Changed)
  <2>1. ~BadIds /\ ~BadOrder
    BY DEF Acceptable
  <2>2. NamedOnce
    BY <2>1, ChecksAgree
  <2>3. args.order \in Seq(Refs)
    BY DEF RequestType
  <2>4. DOMAIN args.changes = 1..N
    BY <2>2, LenProperties DEF NamedOnce
  <2>5. \A i, j \in DOMAIN args.order : Place(args.order, i) = Place(args.order, j) => i = j
    BY <2>1, ChecksAgree DEF Place
  <2>6. \A i \in DOMAIN args.order : Place(args.order, i) \in Ids(Changed)
    BY <2>1 DEF BadOrder, Place
  <2> QED BY <2>2, <2>3, <2>4, <2>5, <2>6
<1>2. BootList(Changed) /\ AfterChanges(Changed, N) /\ Ids(Changed) = on
  BY <1>1, ChangesMade, MembersAgree
<1>3. BootList(t) /\ Ids(t) = on /\ \A k \in on : EntryOf(t, k) = EntryOf(Changed, k)
  BY <1>1, <1>2, PutFirstList
<1>4. /\ Image(t).on = on
      /\ Image(t).wait =
           [k \in Containers |-> IF k \in Ids(t) THEN EntryOf(t, k).wait ELSE NoWait]
  BY <1>3, ImageIs
<1>5. b.wait = [k \in Containers |-> IF k \in Ids(Current) THEN EntryOf(Current, k).wait ELSE NoWait]
  BY CurrentList, ImageIs
<1>6. ASSUME NEW k \in on
      PROVE  /\ \A i \in 1..N : Tgt(i) = k /\ args.changes[i].wait # NoWait =>
                   EntryOf(Changed, k).wait = args.changes[i].wait
             /\ (\A i \in 1..N : Tgt(i) = k => args.changes[i].wait = NoWait) =>
                   EntryOf(Changed, k).wait =
                     IF k \in Ids(Current) THEN EntryOf(Current, k).wait ELSE NoWait
  BY <1>2 DEF AfterChanges
<1> DEFINE W(k) == IF k \notin on THEN NoWait
                   ELSE IF \E i \in DOMAIN args.changes :
                             Target(args, i, Ids(rows)) = k /\ args.changes[i].wait # NoWait
                        THEN args.changes[CHOOSE i \in DOMAIN args.changes :
                               Target(args, i, Ids(rows)) = k /\ args.changes[i].wait # NoWait].wait
                        ELSE b.wait[k]
<1>7. MergedWait(b, args, Ids(rows)) = [k \in Containers |-> W(k)]
  BY DEF MergedWait
<1>8. ASSUME NEW k \in Containers
      PROVE  W(k) = IF k \in Ids(t) THEN EntryOf(t, k).wait ELSE NoWait
  <2>1. CASE k \notin on
    BY <2>1, <1>3
  <2>2. CASE k \in on /\ \E i \in DOMAIN args.changes :
               Target(args, i, Ids(rows)) = k /\ args.changes[i].wait # NoWait
    <3> DEFINE i == CHOOSE i \in DOMAIN args.changes :
                      Target(args, i, Ids(rows)) = k /\ args.changes[i].wait # NoWait
    <3>1. i \in DOMAIN args.changes /\ Target(args, i, Ids(rows)) = k
          /\ args.changes[i].wait # NoWait
      BY <2>2
    <3>2. W(k) = args.changes[i].wait
      BY <2>2
    <3> HIDE DEF i, W, on, t
    <3>3. EntryOf(Changed, k).wait = args.changes[i].wait
      BY <2>2, <3>1, <1>1, <1>6 DEF Tgt
    <3> QED BY <2>2, <3>2, <3>3, <1>3
  <2>3. CASE k \in on /\ ~\E i \in DOMAIN args.changes :
               Target(args, i, Ids(rows)) = k /\ args.changes[i].wait # NoWait
    <3>1. W(k) = b.wait[k]
      BY <2>3
    <3> HIDE DEF W, on, t
    <3>2. \A i \in 1..N : Tgt(i) = k => args.changes[i].wait = NoWait
      BY <2>3, <1>1 DEF Tgt
    <3>3. EntryOf(Changed, k).wait =
            IF k \in Ids(Current) THEN EntryOf(Current, k).wait ELSE NoWait
      BY <2>3, <3>2, <1>6
    <3> QED BY <2>3, <3>1, <3>3, <1>3, <1>5
  <2> QED BY <2>1, <2>2, <2>3
<1> HIDE DEF W, on, t
<1>9. Image(t).wait = [k \in Containers |-> W(k)]
  BY <1>4, <1>8
<1> QED BY <1>4, <1>7, <1>9 DEF t, on

(* The list the loop makes is the one AutostartMerge defines.               *)
LEMMA ListsAgree ==
  ASSUME Listing(rows), args \in RequestType, Acceptable
  PROVE  Image(PutFirst(Changed, args.order)) = MergeAutostart(Image(Current), args, Ids(rows))
<1> DEFINE t == PutFirst(Changed, args.order)
<1>1. Image(t) = [on |-> Image(t).on, before |-> Image(t).before, wait |-> Image(t).wait]
  BY DEF Image
<1> QED BY <1>1, OrderAgrees, WaitsAgree DEF MergeAutostart

-----------------------------------------------------------------------------
(* An increasing function of 1..m onto 1..n.                                *)
Squeezes(f, m, n) ==
  /\ f \in [1..m -> 1..n]
  /\ \A i, j \in 1..m : i < j => f[i] < f[j]
  /\ \A k \in 1..n : \E i \in 1..m : f[i] = k

(* There is but one: the identity, and m is n.                              *)
LEMMA IncreasingOnto ==
  ASSUME NEW m \in Nat, NEW n \in Nat, NEW f, Squeezes(f, m, n)
  PROVE  m = n /\ \A i \in 1..m : f[i] = i
<1> USE DEF Squeezes
<1> DEFINE S == {k \in 0..n : k <= m /\ (k = 0 \/ f[k] = k)}
<1>1. 0 \in S
  OBVIOUS
<1>2. ASSUME NEW k \in 1..n, k - 1 \in S PROVE k \in S
  <2>1. PICK j \in 1..m : f[j] = k
    OBVIOUS
  <2>2. k - 1 = 0 \/ (k - 1 \in 1..m /\ f[k - 1] = k - 1)
    BY <1>2
  <2>3. k <= j
    <3>1. SUFFICES ASSUME j < k PROVE FALSE
      OBVIOUS
    <3>2. k - 1 \in 1..m /\ f[k - 1] = k - 1
      BY <2>2, <3>1
    <3>3. j = k - 1 \/ j < k - 1
      BY <3>1
    <3> QED BY <2>1, <3>2, <3>3
  <2>4. k \in 1..m /\ f[k] \in 1..n
    BY <2>3
  <2>5. f[k] <= k
    <3>1. k = j \/ k < j
      BY <2>3
    <3> QED BY <2>1, <2>4, <3>1
  <2>6. k - 1 < f[k]
    BY <2>2, <2>4
  <2> QED BY <2>4, <2>5, <2>6
<1> HIDE DEF S
<1>3. \A k \in 0..n : k \in S
  BY <1>1, <1>2, Induction
<1>4. n <= m /\ \A k \in 1..n : f[k] = k
  BY <1>3 DEF S
<1>5. m <= n
  <2>1. SUFFICES ASSUME n < m PROVE FALSE
    OBVIOUS
  <2>2. n + 1 \in 1..m /\ f[n + 1] \in 1..n
    BY <2>1
  <2>3. n \in 1..n /\ n \in 1..m /\ f[n] = n
    BY <2>1, <2>2, <1>4
  <2> QED BY <2>2, <2>3
<1> QED BY <1>4, <1>5

(* A list is determined by its members, their order and their entries: the  *)
(* set-and-order form of AutostartMerge loses nothing.                      *)
LEMMA SameList ==
  ASSUME NEW s, BootList(s), NEW t, BootList(t), Ids(s) = Ids(t),
         \A x, y : Ahead(s, x, y) => Ahead(t, x, y),
         \A k \in Ids(s) : EntryOf(s, k).wait = EntryOf(t, k).wait
  PROVE  s = t
<1>1. /\ s \in Seq(EntrySet) /\ DOMAIN s = 1..Len(s) /\ Len(s) \in Nat
      /\ \A i \in 1..Len(s) : s[i] \in EntrySet
      /\ OnceEach(s)
  BY LenProperties DEF BootList
<1>2. /\ t \in Seq(EntrySet) /\ DOMAIN t = 1..Len(t) /\ Len(t) \in Nat
      /\ \A i \in 1..Len(t) : t[i] \in EntrySet
      /\ OnceEach(t)
  BY LenProperties DEF BootList
<1> DEFINE f == [i \in 1..Len(s) |-> CHOOSE j \in 1..Len(t) : t[j].id = s[i].id]
<1>3. ASSUME NEW i \in 1..Len(s)
      PROVE  f[i] \in 1..Len(t) /\ t[f[i]].id = s[i].id
  <2>1. s[i].id \in Ids(t)
    BY <1>1 DEF Ids
  <2>2. \E j \in 1..Len(t) : t[j].id = s[i].id
    BY <2>1, <1>2 DEF Ids
  <2> QED BY <2>2
<1>4. f \in [1..Len(s) -> 1..Len(t)]
  BY <1>3
<1> HIDE DEF f
<1>5. ASSUME NEW i \in 1..Len(s), NEW j \in 1..Len(s), i < j PROVE f[i] < f[j]
  <2>1. Ahead(s, s[i].id, s[j].id)
    BY <1>1, <1>5 DEF Ahead
  <2>2. PICK p \in DOMAIN t, q \in DOMAIN t :
          p < q /\ t[p].id = s[i].id /\ t[q].id = s[j].id
    BY <2>1 DEF Ahead
  <2>3. p = f[i] /\ q = f[j]
    BY <2>2, <1>2, <1>3 DEF OnceEach
  <2> QED BY <2>2, <2>3
<1>6. ASSUME NEW k \in 1..Len(t) PROVE \E i \in 1..Len(s) : f[i] = k
  <2>1. t[k].id \in Ids(s)
    BY <1>2 DEF Ids
  <2>2. PICK i \in 1..Len(s) : s[i].id = t[k].id
    BY <2>1, <1>1 DEF Ids
  <2>3. f[i] = k
    BY <2>2, <1>2, <1>3 DEF OnceEach
  <2> QED BY <2>3
<1>7. Len(s) = Len(t) /\ \A i \in 1..Len(s) : f[i] = i
  <2>1. Squeezes(f, Len(s), Len(t))
    BY <1>4, <1>5, <1>6 DEF Squeezes
  <2> QED BY <2>1, <1>1, <1>2, IncreasingOnto
<1>8. ASSUME NEW i \in 1..Len(s) PROVE s[i] = t[i]
  <2>1. s[i].id = t[i].id
    BY <1>3, <1>7
  <2>2. EntryOf(s, s[i].id) = s[i] /\ EntryOf(t, t[i].id) = t[i]
    BY <1>1, <1>2, <1>7, EntryIs
  <2>3. s[i].id \in Ids(s)
    BY <1>1 DEF Ids
  <2>4. s[i].wait = t[i].wait
    BY <2>1, <2>2, <2>3
  <2>5. s[i] \in EntrySet /\ t[i] \in EntrySet
    BY <1>1, <1>2, <1>7
  <2> QED BY <2>1, <2>4, <2>5 DEF EntrySet
<1> QED BY <1>1, <1>2, <1>7, <1>8, SeqEqual

-----------------------------------------------------------------------------
(* The list s does what the request asks of it.                             *)
Settled(s) ==
  /\ BootList(s) /\ Ids(s) \subseteq Ids(rows)
  /\ ~BadIds
  /\ \A i \in ChangeNo :
       /\ Tgt(i) \in Ids(s) <=> args.changes[i].auto
       /\ Tgt(i) \in Ids(s) /\ args.changes[i].wait # NoWait =>
            EntryOf(s, Tgt(i)).wait = args.changes[i].wait
  /\ \A i \in DOMAIN args.order : i \in DOMAIN s /\ s[i].id = Place(args.order, i)

(* The listing is that of a server that holds the list s.                   *)
Holds(s) ==
  \A i \in DOMAIN rows :
    /\ rows[i].auto <=> rows[i].id \in Ids(s)
    /\ \A p \in DOMAIN s : s[p].id = rows[i].id => rows[i].order = p /\ rows[i].wait = s[p].wait

(* The merged list is settled.                                              *)
LEMMA MergeSettles ==
  ASSUME Listing(rows), args \in RequestType, Acceptable
  PROVE  Settled(PutFirst(Changed, args.order))
<1> DEFINE N == Len(args.changes)
           t == PutFirst(Changed, args.order)
<1>1. ~BadIds /\ NamedOnce /\ args.order \in Seq(Refs)
  BY ChecksAgree DEF Acceptable, RequestType
<1>2. /\ \A i, j \in DOMAIN args.order : Place(args.order, i) = Place(args.order, j) => i = j
      /\ \A i \in DOMAIN args.order : Place(args.order, i) \in Ids(Changed)
  BY <1>1, ChecksAgree DEF Acceptable, BadOrder, Place
<1>3. /\ BootList(Changed) /\ AfterChanges(Changed, N)
      /\ BootList(Current) /\ Ids(Current) \subseteq Ids(rows)
  BY <1>1, ChangesMade, CurrentList
<1>4. /\ Ids(Changed) = (Ids(Current) \ Off(N)) \cup On(N)
      /\ \A k \in Ids(Changed) : \A i \in 1..N : Tgt(i) = k /\ args.changes[i].wait # NoWait =>
            EntryOf(Changed, k).wait = args.changes[i].wait
  BY <1>3 DEF AfterChanges
<1>5. BootList(t) /\ Ids(t) = Ids(Changed) /\ \A k \in Ids(Changed) : EntryOf(t, k) = EntryOf(Changed, k)
  BY <1>1, <1>2, <1>3, PutFirstList
<1>6. ASSUME NEW i \in DOMAIN args.order
      PROVE  i \in DOMAIN t /\ t[i].id = Place(args.order, i)
  <2>1. i \in DOMAIN t /\ t[i] = EntryOf(Changed, Place(args.order, i))
    BY <1>1, <1>2, <1>3, PutFirstList
  <2>2. PICK k \in DOMAIN Changed : Changed[k].id = Place(args.order, i)
    BY <1>2 DEF Ids
  <2>3. EntryOf(Changed, Changed[k].id) = Changed[k]
    BY <1>3, EntryIs DEF BootList
  <2> QED BY <2>1, <2>2, <2>3
<1>7. Ids(Changed) \subseteq Ids(rows)
  <2>1. On(N) \subseteq Ids(rows)
    BY <1>1 DEF On, NamedOnce, ChangeNo
  <2> QED BY <2>1, <1>3, <1>4
<1>8. ASSUME NEW i \in ChangeNo
      PROVE  Tgt(i) \in Ids(Changed) <=> args.changes[i].auto
  <2>1. i \in 1..N
    BY DEF ChangeNo
  <2>2. args.changes[i].auto => Tgt(i) \in On(N)
    BY <2>1 DEF On
  <2>3. ~args.changes[i].auto => Tgt(i) \in Off(N)
    BY <2>1 DEF Off
  <2>4. On(N) \cap Off(N) = {}
    BY <1>1, SwitchedAre
  <2> QED BY <2>2, <2>3, <2>4, <1>4
<1> HIDE DEF t
<1>9. ASSUME NEW i \in ChangeNo, Tgt(i) \in Ids(t), args.changes[i].wait # NoWait
      PROVE  EntryOf(t, Tgt(i)).wait = args.changes[i].wait
  BY <1>4, <1>5, <1>9 DEF ChangeNo
<1> QED BY <1>1, <1>5, <1>6, <1>7, <1>8, <1>9 DEF Settled, t

(* Reading back the list the server holds gives that list.                  *)
LEMMA StoredIsCurrent ==
  ASSUME Listing(rows), NEW s, Settled(s), Holds(s)
  PROVE  Current = s
<1> DEFINE t == Sorted(Enabled)
<1>1. /\ t \in Seq(RowSet) /\ OnceEach(t) /\ InOrder(t)
      /\ \A e : Member(e, t) <=> Member(e, rows) /\ e.auto
  BY BootRows DEF Listing
<1>2. /\ DOMAIN Current = DOMAIN t
      /\ \A i \in DOMAIN t : Current[i].id = t[i].id /\ Current[i].wait = t[i].wait
  BY DEF Current, Entries
<1> HIDE DEF t
<1>3. BootList(s) /\ BootList(Current) /\ OnceEach(s) /\ OnceEach(Current)
      /\ Ids(s) \subseteq Ids(rows)
  BY CurrentList DEF Settled, BootList
<1>4. /\ DOMAIN s = 1..Len(s) /\ Len(s) \in Nat
  BY <1>3, LenProperties DEF BootList
<1>5. ASSUME NEW i \in DOMAIN t
      PROVE  \E p \in DOMAIN s : s[p].id = t[i].id /\ t[i].order = p /\ t[i].wait = s[p].wait
  <2>1. Member(t[i], rows) /\ t[i].auto
    BY <1>1 DEF Member
  <2>2. PICK k \in DOMAIN rows : rows[k] = t[i]
    BY <2>1 DEF Member
  <2>3. rows[k].id \in Ids(s)
    BY <2>1, <2>2 DEF Holds
  <2>4. PICK p \in DOMAIN s : s[p].id = rows[k].id
    BY <2>3 DEF Ids
  <2>5. rows[k].order = p /\ rows[k].wait = s[p].wait
    BY <2>4 DEF Holds
  <2> QED BY <2>2, <2>4, <2>5
<1>6. ASSUME NEW p \in DOMAIN s PROVE \E i \in DOMAIN t : t[i].id = s[p].id
  <2>1. s[p].id \in Ids(s)
    BY DEF Ids
  <2>2. PICK k \in DOMAIN rows : rows[k].id = s[p].id
    BY <2>1, <1>3 DEF Ids
  <2>3. rows[k].auto /\ Member(rows[k], rows)
    BY <2>1, <2>2 DEF Holds, Member
  <2>4. Member(rows[k], t)
    BY <2>3, <1>1
  <2> QED BY <2>2, <2>4 DEF Member
<1>7. Ids(Current) = Ids(s)
  BY <1>2, <1>5, <1>6 DEF Ids
<1>8. ASSUME NEW x, NEW y, Ahead(Current, x, y) PROVE Ahead(s, x, y)
  <2>1. PICK i \in DOMAIN t, j \in DOMAIN t : i < j /\ t[i].id = x /\ t[j].id = y
    BY <1>2, <1>8 DEF Ahead
  <2>2. PICK p \in DOMAIN s : s[p].id = x /\ t[i].order = p
    BY <2>1, <1>5
  <2>3. PICK q \in DOMAIN s : s[q].id = y /\ t[j].order = q
    BY <2>1, <1>5
  <2>4. ~BootsBefore(t[j], t[i])
    BY <2>1, <1>1 DEF InOrder
  <2>5. p \in Nat /\ q \in Nat
    BY <1>4
  <2>6. ~(q < p)
    BY <2>2, <2>3, <2>4, <2>5, NoOrderType DEF BootsBefore
  <2>7. p # q
    <3>1. \A u, v : Ahead(Current, u, v) => u \in Ids(Current) /\ v \in Ids(Current) /\ u # v
      BY <1>3, ImageIs
    <3> QED BY <3>1, <1>8, <2>2, <2>3
  <2>8. p < q
    BY <2>5, <2>6, <2>7
  <2> QED BY <2>2, <2>3, <2>8 DEF Ahead
<1>9. ASSUME NEW k \in Ids(Current) PROVE EntryOf(Current, k).wait = EntryOf(s, k).wait
  <2>1. PICK i \in DOMAIN Current : Current[i].id = k
    BY DEF Ids
  <2>2. PICK p \in DOMAIN s : s[p].id = t[i].id /\ t[i].wait = s[p].wait
    BY <2>1, <1>2, <1>5
  <2>3. EntryOf(Current, Current[i].id) = Current[i] /\ EntryOf(s, s[p].id) = s[p]
    BY <1>3, EntryIs
  <2> QED BY <2>1, <2>2, <2>3, <1>2
<1> QED BY <1>3, <1>7, <1>8, <1>9, SameList

(* A request that is made again finds nothing to do.                        *)
LEMMA NothingToDo ==
  ASSUME Listing(rows), args \in RequestType, NEW s, Settled(s), Current = s
  PROVE  Acceptable /\ PutFirst(Changed, args.order) = s
<1> DEFINE N == Len(args.changes)
<1>1. /\ ~BadIds /\ NamedOnce /\ BootList(s) /\ args.order \in Seq(Refs)
      /\ \A i, j \in DOMAIN args.order : Place(args.order, i) = Place(args.order, j) => i = j
  BY ChecksAgree DEF Settled, RequestType, Place
<1>2. /\ \A i \in ChangeNo :
           /\ Tgt(i) \in Ids(s) <=> args.changes[i].auto
           /\ Tgt(i) \in Ids(s) /\ args.changes[i].wait # NoWait =>
                EntryOf(s, Tgt(i)).wait = args.changes[i].wait
      /\ \A i \in DOMAIN args.order : i \in DOMAIN s /\ s[i].id = Place(args.order, i)
  BY DEF Settled
<1>3. BootList(Changed) /\ AfterChanges(Changed, N)
  BY <1>1, ChangesMade
<1>4. On(N) \subseteq Ids(s) /\ Off(N) \cap Ids(s) = {}
  BY <1>2 DEF On, Off, ChangeNo
<1>5. Ids(Changed) = Ids(s)
  BY <1>3, <1>4 DEF AfterChanges
<1>6. \A x, y : Ahead(s, x, y) => x \in Ids(s) /\ y \in Ids(s)
  BY <1>1, ImageIs
<1>7. ASSUME NEW x, NEW y, Ahead(s, x, y) PROVE Ahead(Changed, x, y)
  BY <1>3, <1>4, <1>6, <1>7 DEF AfterChanges
<1>8. ASSUME NEW k \in Ids(s) PROVE EntryOf(s, k).wait = EntryOf(Changed, k).wait
  <2>1. /\ \A i \in 1..N : Tgt(i) = k /\ args.changes[i].wait # NoWait =>
              EntryOf(Changed, k).wait = args.changes[i].wait
        /\ (\A i \in 1..N : Tgt(i) = k => args.changes[i].wait = NoWait) =>
              EntryOf(Changed, k).wait = EntryOf(s, k).wait
    BY <1>3, <1>5 DEF AfterChanges
  <2>2. CASE \A i \in 1..N : Tgt(i) = k => args.changes[i].wait = NoWait
    BY <2>1, <2>2
  <2>3. CASE \E i \in 1..N : Tgt(i) = k /\ args.changes[i].wait # NoWait
    BY <2>1, <2>3, <1>2 DEF ChangeNo
  <2> QED BY <2>2, <2>3
<1>9. Changed = s
  BY <1>1, <1>3, <1>5, <1>7, <1>8, SameList
<1>10. \A i \in DOMAIN args.order : Place(args.order, i) \in Ids(s)
  BY <1>2 DEF Ids
<1>11. Acceptable
  BY <1>1, <1>9, <1>10 DEF Acceptable, BadOrder, Place
<1> DEFINE t == PutFirst(s, args.order)
           L == ListedIn(args.order)
           InFront(x, y) == \E i, j \in DOMAIN args.order :
                              i < j /\ Place(args.order, i) = x /\ Place(args.order, j) = y
<1>12. BootList(t) /\ Ids(t) = Ids(s) /\ \A k \in Ids(s) : EntryOf(t, k) = EntryOf(s, k)
  BY <1>1, <1>10, PutFirstList
<1>13. \A x, y : Ahead(t, x, y) <=>
         \/ InFront(x, y)
         \/ x \in L /\ y \in Ids(s) \ L
         \/ Ahead(s, x, y) /\ x \notin L /\ y \notin L
  BY <1>1, <1>10, PutFirstList
<1> HIDE DEF t
<1>14. ASSUME NEW x, NEW y, Ahead(s, x, y) PROVE Ahead(t, x, y)
  <2>1. PICK i \in DOMAIN s, j \in DOMAIN s : i < j /\ s[i].id = x /\ s[j].id = y
    BY <1>14 DEF Ahead
  <2>2. /\ DOMAIN args.order = 1..Len(args.order) /\ Len(args.order) \in Nat
        /\ DOMAIN s = 1..Len(s) /\ Len(s) \in Nat
    BY <1>1, LenProperties DEF BootList
  <2>3. \A k \in DOMAIN s : s[k].id \in L => k \in DOMAIN args.order
    BY <1>1, <1>2 DEF ListedIn, BootList, OnceEach
  <2>4. \A k \in DOMAIN args.order : s[k].id \in L
    BY <1>2 DEF ListedIn
  <2>5. CASE j \in DOMAIN args.order
    <3>1. i \in DOMAIN args.order
      BY <2>1, <2>2, <2>5
    <3>2. InFront(x, y)
      BY <2>1, <2>5, <3>1, <1>2
    <3> QED BY <3>2, <1>13
  <2>6. CASE j \notin DOMAIN args.order /\ i \in DOMAIN args.order
    BY <2>1, <2>3, <2>4, <2>6, <1>6, <1>13, <1>14
  <2>7. CASE j \notin DOMAIN args.order /\ i \notin DOMAIN args.order
    BY <2>1, <2>3, <2>7, <1>13, <1>14
  <2> QED BY <2>5, <2>6, <2>7
<1>15. t = s
  BY <1>1, <1>12, <1>14, SameList
<1> QED BY <1>9, <1>11, <1>15 DEF t

-----------------------------------------------------------------------------
(* The inductive invariant: the listing stays one; what was decided was     *)
(* decided on the listing that was read; and a listing read after the write *)
(* is that of the list written, which does what the request asks.           *)
ListInv ==
  /\ Listing(rows)
  /\ args \in RequestType
  /\ outcome \in {"pending", "rejected", "merged"}
  /\ outcome = "rejected" => ~Acceptable
  /\ outcome = "merged" => Acceptable /\ full = PutFirst(Changed, args.order)
  /\ repeated /\ outcome = "pending" => Settled(full) /\ Holds(full)

(* What is read first is a listing, and nothing is decided.                 *)
LEMMA ListInvInit == ListInit => ListInv
<1> SUFFICES ASSUME ListInit PROVE ListInv
  OBVIOUS
<1>1. Listing(rows)
  BY RowListsType DEF ListInit, Listing, OnceEach
<1>2. args \in RequestType
  BY RequestsType DEF ListInit
<1> QED BY <1>1, <1>2 DEF ListInit, ListInv

(* What is decided depends on the listing and the request alone.            *)
LEMMA SameDecision ==
  ASSUME UNCHANGED <<rows, args>>
  PROVE  /\ Acceptable' <=> Acceptable
         /\ PutFirst(Changed, args.order)' = PutFirst(Changed, args.order)
<1>1. Current' = Current
  BY DEF Current, Enabled
<1>2. Changed' = Changed
  BY DEF Changed, Current, Enabled, ApplyChange
<1>3. BadIds' <=> BadIds
  BY DEF BadIds, Unresolved, Repeated, ChangeRefs
<1>4. BadOrder' <=> BadOrder
  BY <1>2 DEF BadOrder
<1>5. PutFirst(Changed, args.order)' = PutFirst(Changed, args.order)
  BY <1>2 DEF PutFirst
<1> QED BY <1>3, <1>4, <1>5 DEF Acceptable

(* The write and the second read: the listing is that of the list written.  *)
LEMMA RepeatHolds ==
  ASSUME ListInv, Repeat
  PROVE  /\ Listing(rows)'
         /\ Settled(full)'
         /\ Holds(full)'
<1>1. /\ Listing(rows) /\ args \in RequestType /\ Acceptable
      /\ full = PutFirst(Changed, args.order)
  BY DEF ListInv, Repeat
<1>2. Settled(full)
  BY <1>1, MergeSettles
<1>3. /\ args' = args /\ full' = full
      /\ rows' = [i \in DOMAIN rows |-> StoredRow(rows[i])]
  BY DEF Repeat
<1>4. /\ full \in Seq(EntrySet) /\ OnceEach(full) /\ DOMAIN full = 1..Len(full)
      /\ \A p \in DOMAIN full : full[p] \in EntrySet /\ p \in Nat
  BY <1>2, LenProperties DEF Settled, BootList
<1>5. /\ rows \in Seq(RowSet) /\ OnceEach(rows) /\ DOMAIN rows = 1..Len(rows)
      /\ Len(rows) \in Nat /\ \A i \in DOMAIN rows : rows[i] \in RowSet
  BY <1>1, LenProperties DEF Listing
<1>6. ASSUME NEW i \in DOMAIN rows
      PROVE  /\ StoredRow(rows[i]) \in RowSet
             /\ StoredRow(rows[i]).id = rows[i].id
             /\ StoredRow(rows[i]).auto <=> rows[i].id \in Ids(full)
             /\ \A p \in DOMAIN full : full[p].id = rows[i].id =>
                  StoredRow(rows[i]).order = p /\ StoredRow(rows[i]).wait = full[p].wait
  <2> DEFINE q == CHOOSE p \in DOMAIN full : full[p].id = rows[i].id
             row == StoredRow(rows[i])
  <2>1. rows[i] \in RowSet
    BY <1>5
  <2>2. CASE rows[i].id \notin Ids(full)
    <3>1. row = [rows[i] EXCEPT !.auto = FALSE, !.order = NoOrder, !.wait = NoWait]
      BY <2>2 DEF StoredRow
    <3>2. \A p \in DOMAIN full : full[p].id # rows[i].id
      BY <2>2 DEF Ids
    <3>3. row \in RowSet /\ row.id = rows[i].id /\ row.auto = FALSE
      BY <2>1, <3>1 DEF RowSet
    <3> QED BY <2>2, <3>2, <3>3
  <2>3. CASE rows[i].id \in Ids(full)
    <3>1. row = [rows[i] EXCEPT !.auto = TRUE, !.order = q, !.wait = full[q].wait]
      BY <2>3 DEF StoredRow
    <3>2. \E p \in DOMAIN full : full[p].id = rows[i].id
      BY <2>3 DEF Ids
    <3>3. q \in DOMAIN full /\ full[q].id = rows[i].id
      BY <3>2
    <3> HIDE DEF q
    <3>4. \A p \in DOMAIN full : full[p].id = rows[i].id => p = q
      BY <3>3, <1>4 DEF OnceEach
    <3>5. q \in Nat /\ full[q].wait \in Waits \cup {NoWait}
      BY <3>3, <1>4 DEF EntrySet
    <3>6. /\ row \in RowSet /\ row.id = rows[i].id /\ row.auto = TRUE
          /\ row.order = q /\ row.wait = full[q].wait
      BY <2>1, <3>1, <3>5 DEF RowSet
    <3> QED BY <2>3, <3>4, <3>6
  <2> QED BY <2>2, <2>3
<1> HIDE DEF Repeat
<1>7. /\ DOMAIN rows' = DOMAIN rows
      /\ \A i \in DOMAIN rows : rows'[i] = StoredRow(rows[i])
  BY <1>3
<1>8. rows' \in Seq(RowSet)
  <2> DEFINE e(i) == StoredRow(rows[i])
  <2>1. \A i \in 1..Len(rows) : e(i) \in RowSet
    BY <1>5, <1>6
  <2>2. rows' = [i \in 1..Len(rows) |-> e(i)]
    BY <1>3, <1>5
  <2> HIDE DEF e
  <2> QED BY <2>1, <2>2, <1>5, IsASeq
<1>9. OnceEach(rows)'
  BY <1>5, <1>6, <1>7 DEF OnceEach
<1>10. Ids(rows)' = Ids(rows)
  BY <1>6, <1>7 DEF Ids
<1>11. BadIds' <=> BadIds
  BY <1>3, <1>10 DEF BadIds, Unresolved, Repeated, ChangeRefs
<1>12. /\ \A i : Tgt(i)' = Tgt(i) /\ Place(args.order, i)' = Place(args.order, i)
       /\ ChangeNo' = ChangeNo
  BY <1>3, <1>10 DEF Tgt, Target, Place, ChangeNo
<1>13. Settled(full)'
  BY <1>2, <1>3, <1>10, <1>11, <1>12 DEF Settled, Tgt, Place
<1>14. Holds(full)'
  BY <1>3, <1>6, <1>7 DEF Holds
<1> QED BY <1>8, <1>9, <1>13, <1>14 DEF Listing

(* ListInv is inductive.                                                    *)
LEMMA ListInvStep == ListInv /\ [ListNext]_listVars => ListInv'
<1> SUFFICES ASSUME ListInv, [ListNext]_listVars PROVE ListInv'
  OBVIOUS
<1>1. CASE Reject
  BY <1>1, SameDecision DEF ListInv, Reject
<1>2. CASE Merge
  BY <1>2, SameDecision DEF ListInv, Merge
<1>3. CASE Repeat
  <2>1. Listing(rows)' /\ Settled(full)' /\ Holds(full)'
    BY <1>3, RepeatHolds
  <2> QED BY <1>3, <2>1 DEF ListInv, Repeat
<1>4. CASE UNCHANGED listVars
  <2>1. Settled(full) /\ Holds(full) => Settled(full)' /\ Holds(full)'
    <3>1. BadIds' <=> BadIds
      BY <1>4 DEF BadIds, Unresolved, Repeated, ChangeRefs, listVars
    <3> QED BY <1>4, <3>1 DEF Settled, Holds, Tgt, Place, ChangeNo, listVars
  <2> QED BY <1>4, <2>1, SameDecision DEF ListInv, listVars
<1> QED BY <1>1, <1>2, <1>3, <1>4 DEF ListNext

(* For every listing and every request, of any length, ListInv holds.       *)
THEOREM ListInvariant == ListSpec => []ListInv
BY ListInvInit, ListInvStep, PTL DEF ListSpec

(* For every listing and every request, of any length: the loop of          *)
(* _merge_autostart rejects what the definition Autostart is built from     *)
(* rejects, and otherwise gives the same list.                              *)
THEOREM LoopAgrees == ListSpec => []LoopComputesMerge
<1>1. ListInv => LoopComputesMerge
  <2> SUFFICES ASSUME ListInv, outcome # "pending"
               PROVE  /\ outcome = "merged" <=> Accepts(Image(Current), args, Ids(rows))
                      /\ outcome = "merged" =>
                           Image(full) = MergeAutostart(Image(Current), args, Ids(rows))
    BY DEF LoopComputesMerge
  <2>1. outcome = "merged" <=> Acceptable
    BY DEF ListInv
  <2>2. Acceptable <=> Accepts(Image(Current), args, Ids(rows))
    BY LoopAccepts DEF ListInv
  <2>3. ASSUME outcome = "merged"
        PROVE  Image(full) = MergeAutostart(Image(Current), args, Ids(rows))
    BY <2>3, ListsAgree DEF ListInv
  <2> QED BY <2>1, <2>2, <2>3
<1> QED BY <1>1, ListInvariant, PTL

(* A call that is made again once its write is stored is accepted and       *)
(* writes the list that is stored, in the same order.                       *)
THEOREM RetryIsIdempotent == ListSpec => RepeatChangesNothing
<1>1. ListInv /\ [ListNext]_listVars =>
        [repeated /\ outcome = "pending" => outcome' = "merged" /\ full' = full]_listVars
  <2> SUFFICES ASSUME ListInv, ListNext, repeated, outcome = "pending"
               PROVE  outcome' = "merged" /\ full' = full
    OBVIOUS
  <2>1. Listing(rows) /\ args \in RequestType /\ Settled(full) /\ Holds(full)
    BY DEF ListInv
  <2>2. Current = full
    BY <2>1, StoredIsCurrent
  <2>3. Acceptable /\ PutFirst(Changed, args.order) = full
    BY <2>1, <2>2, NothingToDo
  <2> QED BY <2>3 DEF ListNext, Reject, Merge, Repeat
<1> QED BY <1>1, ListInvariant, PTL DEF ListSpec, RepeatChangesNothing

(* The list that is read and the list that is written are lists of the kind *)
(* the proofs about AutostartMerge and Autostart are about.                 *)
THEOREM ListsAreBootLists ==
  ListSpec => [](/\ Image(Current) \in BootLists /\ WellOrdered(Image(Current))
                 /\ outcome = "merged" =>
                      Image(full) \in BootLists /\ WellOrdered(Image(full)))
<1>1. ListInv => /\ Image(Current) \in BootLists /\ WellOrdered(Image(Current))
                 /\ outcome = "merged" =>
                      Image(full) \in BootLists /\ WellOrdered(Image(full))
  <2> SUFFICES ASSUME ListInv
               PROVE  /\ Image(Current) \in BootLists /\ WellOrdered(Image(Current))
                      /\ outcome = "merged" =>
                           Image(full) \in BootLists /\ WellOrdered(Image(full))
    OBVIOUS
  <2>1. BootList(Current)
    BY CurrentList DEF ListInv
  <2>2. outcome = "merged" => BootList(full)
    BY MergeSettles DEF ListInv, Settled
  <2> QED BY <2>1, <2>2, ImageIsBootList
<1> QED BY <1>1, ListInvariant, PTL
=============================================================================
