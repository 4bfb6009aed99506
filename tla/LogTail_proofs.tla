---------------------------- MODULE LogTail_proofs ----------------------------
(***************************************************************************)
(* The parser of run.log never loses, tears, reorders or doubles a line,   *)
(* for a log of any length, any kinds of rows and any number of launches:  *)
(* it implements LogFeed, and its offset on disk can be trusted.           *)
(***************************************************************************)
EXTENDS LogTail, SequenceTheorems, WellFoundedInduction, TLAPS

(* Where a parser is: its offset is a line's end or that of a longer log,  *)
(* it is the one on disk if that can be read, and what it has still to     *)
(* write are ends of lines between it and the end of its chunk.            *)
LineEnd(n) == n \in 0..Len(log) /\ (n > 0 => log[n] = NL)
Places ==
    /\ Len(log) <= MaxLog
    /\ Saved => LineEnd(offset)
    /\ pc # "down" => /\ last = Stale => pc = "top"
                      /\ last # Stale => LineEnd(last)
                      /\ Saved => last = offset
    /\ pc \in {"read", "write"} => last < cur /\ cur <= Len(log)
    /\ pc = "write" => LineEnd(cur) /\ pending \subseteq CompleteLines

(* The files hold the rows of the lines up to reach, which is at or after  *)
(* every offset and every line of the chunk that was taken.                *)
Reaches(reach) ==
    /\ LineEnd(reach)
    /\ \A k \in Kinds : Range(files[k]) = Feed!Rows(log, k, reach)
    /\ Saved => offset <= reach
    /\ pc # "down" /\ last # Stale => last <= reach
    /\ pc = "write" => \A i \in CompleteLines \ pending : i <= reach

(* Dropping repetitions drops no row.                                      *)
SameRows ==
    \A k \in Kinds : /\ Distinct(files[k]) \in Seq(Nat)
                     /\ Range(Distinct(files[k])) = Range(files[k])

(* The inductive invariant.                                                *)
IInv == TypeOK /\ Places /\ SameRows /\ \E reach \in Nat : Reaches(reach)

-----------------------------------------------------------------------------
(* A set of naturals that has a minimal element has a least one.           *)
LEMMA MinimalIsLeast ==
    ASSUME NEW T \in SUBSET Nat, NEW R,
           \E x \in T : \A y \in T : <<y, x>> \notin R,
           \A y, x \in Nat : y < x => <<y, x>> \in R
    PROVE  \E x \in T : \A y \in T : x <= y
<1>1. PICK x \in T : \A y \in T : <<y, x>> \notin R
  OBVIOUS
<1>2. \A y \in T : ~(y < x)
  BY <1>1
<1> QED
  BY <1>2

(* Every set of naturals that is not empty has a least element.            *)
LEMMA Least ==
    ASSUME NEW T \in SUBSET Nat, T # {}
    PROVE  \E x \in T : \A y \in T : x <= y
<1>1. \E x \in T : \A y \in T : <<y, x>> \notin OpToRel(<, Nat)
  BY NatLessThanWellFounded, WFMin
<1>2. \A y, x \in Nat : y < x => <<y, x>> \in OpToRel(<, Nat)
  BY DEF OpToRel
<1> QED
  BY <1>1, <1>2, MinimalIsLeast, Zenon

(* Every bounded set of naturals that is not empty has a greatest element. *)
LEMMA Greatest ==
    ASSUME NEW b \in Nat, NEW T \in SUBSET (0..b), T # {}
    PROVE  \E x \in T : \A y \in T : y <= x
<1> DEFINE Gaps == {b - x : x \in T}
<1>1. \A x \in T : b - x \in Nat
  OBVIOUS
<1>2. \E x \in T : TRUE
  OBVIOUS
<1>3. Gaps \in SUBSET Nat /\ Gaps # {}
  BY <1>1, <1>2
<1>4. PICK g \in Gaps : \A y \in Gaps : g <= y
  BY <1>3, Least
<1>5. PICK x \in T : g = b - x
  BY <1>4
<1>6. \A y \in T : b - x <= b - y
  BY <1>4, <1>5
<1> QED
  BY <1>5, <1>6

-----------------------------------------------------------------------------
(* Distinct takes the rows one by one and leaves out those it has seen.    *)
Seen(rows, n) == \E j \in 1..(n - 1) : rows[j] = rows[n]
Takes(rows, upTo) ==
    /\ Distinct(rows) = upTo[Len(rows)]
    /\ upTo[0] = <<>>
    /\ \A n \in Nat \ {0} :
         upTo[n] = IF Seen(rows, n) THEN upTo[n - 1] ELSE Append(upTo[n - 1], rows[n])

(* Its recursive function exists.                                          *)
LEMMA DistinctTakes == ASSUME NEW rows PROVE \E upTo : Takes(rows, upTo)
<1> DEFINE upTo[n \in Nat] ==
             IF n = 0 THEN <<>>
             ELSE IF \E j \in 1..(n - 1) : rows[j] = rows[n] THEN upTo[n - 1]
             ELSE Append(upTo[n - 1], rows[n])
           D(v, n) == IF \E j \in 1..(n - 1) : rows[j] = rows[n] THEN v
                      ELSE Append(v, rows[n])
<1>1. NatInductiveDefHypothesis(upTo, <<>>, D)
  BY DEF NatInductiveDefHypothesis
<1>2. NatInductiveDefConclusion(upTo, <<>>, D)
  BY <1>1, NatInductiveDef, Zenon
<1>3. Distinct(rows) = upTo[Len(rows)]
  BY DEF Distinct
<1> HIDE DEF upTo
<1> QED
  BY <1>2, <1>3 DEF NatInductiveDefConclusion, Takes, Seen

(* What it makes of a sequence does not depend on what is appended.        *)
LEMMA TakesAgree ==
    ASSUME NEW rows \in Seq(Nat), NEW r \in Nat, NEW f, NEW g,
           Takes(rows, f), Takes(Append(rows, r), g),
           NEW n \in 0..Len(rows)
    PROVE  f[n] = g[n]
<1> SUFFICES ASSUME f[n] # g[n] PROVE FALSE
  OBVIOUS
<1> DEFINE T == {m \in 0..Len(rows) : f[m] # g[m]}
<1>1. T \in SUBSET Nat /\ T # {}
  OBVIOUS
<1>2. PICK m \in T : \A y \in T : m <= y
  BY <1>1, Least
<1>3. m # 0
  BY <1>2 DEF Takes
<1>4. m - 1 \in 0..Len(rows) /\ f[m - 1] = g[m - 1]
  BY <1>2, <1>3
<1>5. \A j \in 1..m : Append(rows, r)[j] = rows[j]
  BY <1>2
<1>6. Seen(Append(rows, r), m) <=> Seen(rows, m)
  <2>1. /\ Append(rows, r)[m] = rows[m]
        /\ \A j \in 1..(m - 1) : Append(rows, r)[j] = rows[j]
    BY <1>2, <1>3, <1>5
  <2> QED
    BY <2>1, Zenon DEF Seen
<1>7. /\ f[m] = IF Seen(rows, m) THEN f[m - 1] ELSE Append(f[m - 1], rows[m])
      /\ g[m] = IF Seen(Append(rows, r), m) THEN g[m - 1]
                ELSE Append(g[m - 1], Append(rows, r)[m])
  BY <1>2, <1>3 DEF Takes
<1>8. Append(rows, r)[m] = rows[m]
  BY <1>2, <1>3, <1>5
<1> QED
  BY <1>2, <1>4, <1>6, <1>7, <1>8, Zenon

(* Distinct of no rows, and of one row more.                               *)
LEMMA DistinctEmpty == Distinct(<<>>) = <<>>
<1>1. PICK f : Takes(<<>>, f)
  BY DistinctTakes
<1> QED
  BY <1>1 DEF Takes

LEMMA DistinctAppend ==
    ASSUME NEW rows \in Seq(Nat), NEW r \in Nat
    PROVE  Distinct(Append(rows, r)) =
              IF r \in Range(rows) THEN Distinct(rows) ELSE Append(Distinct(rows), r)
<1> DEFINE s == Append(rows, r)
           l == Len(rows)
<1>1. PICK f : Takes(rows, f)
  BY DistinctTakes
<1>2. PICK g : Takes(s, g)
  BY DistinctTakes
<1>3. f[l] = g[l]
  BY <1>1, <1>2, TakesAgree
<1>4. Len(s) = l + 1 /\ l + 1 \in Nat \ {0} /\ s[l + 1] = r /\ \A j \in 1..l : s[j] = rows[j]
  OBVIOUS
<1>5. Seen(s, l + 1) <=> r \in Range(rows)
  BY <1>4 DEF Seen, Range
<1>6. Distinct(s) = IF Seen(s, l + 1) THEN g[l] ELSE Append(g[l], r)
  BY <1>2, <1>4 DEF Takes
<1>7. Distinct(rows) = g[l]
  BY <1>1, <1>3 DEF Takes
<1> QED
  BY <1>5, <1>6, <1>7

(* The rows of a file to which a row is appended.                          *)
LEMMA RangeAppend ==
    ASSUME NEW s \in Seq(Nat), NEW r \in Nat
    PROVE  Range(Append(s, r)) = Range(s) \cup {r}
<1>1. Len(Append(s, r)) = Len(s) + 1 /\ DOMAIN Append(s, r) = 1..(Len(s) + 1)
      /\ Append(s, r)[Len(s) + 1] = r /\ \A j \in 1..Len(s) : Append(s, r)[j] = s[j]
  OBVIOUS
<1> QED
  BY <1>1 DEF Range

(* The rows of a file are positions of the log.                            *)
LEMMA RowsAreNaturals ==
    ASSUME TypeOK, NEW k \in Kinds
    PROVE  files[k] \in Seq(Nat) /\ Len(log) \in Nat
<1>1. files[k] \in Seq(1..MaxLog)
  BY DEF TypeOK
<1>2. 1..MaxLog \subseteq Nat
  OBVIOUS
<1>3. files[k] \in Seq(Nat)
  BY <1>1, <1>2, SeqMonotonic, Zenon
<1> QED
  BY <1>3 DEF TypeOK

-----------------------------------------------------------------------------
(* Lengthening the log keeps the lines and rows it has.                    *)
LEMMA GrownLog ==
    ASSUME TypeOK, Places, NEW t \in Kinds \cup {NL}, log' = Append(log, t)
    PROVE  /\ Len(log') = Len(log) + 1
           /\ \A i \in 1..Len(log) : log'[i] = log[i]
           /\ \A n : LineEnd(n) => LineEnd(n)'
           /\ \A k \in Kinds, n \in 0..Len(log) : Feed!Rows(log', k, n) = Feed!Rows(log, k, n)
<1>1. log \in Seq(Kinds \cup {NL})
  BY DEF TypeOK
<1>2. Len(log') = Len(log) + 1 /\ \A i \in 1..Len(log) : log'[i] = log[i]
  BY <1>1
<1>3. \A n : LineEnd(n) => LineEnd(n)'
  BY <1>1, <1>2 DEF LineEnd
<1>4. \A k \in Kinds, n \in 0..Len(log) : Feed!Rows(log', k, n) = Feed!Rows(log, k, n)
  <2> SUFFICES ASSUME NEW k \in Kinds, NEW n \in 0..Len(log)
               PROVE  Feed!Rows(log', k, n) = Feed!Rows(log, k, n)
    OBVIOUS
  <2>1. \A end \in 1..n : Feed!Row(log', k, end) <=> Feed!Row(log, k, end)
    <3> SUFFICES ASSUME NEW end \in 1..n
                 PROVE  Feed!Row(log', k, end) <=> Feed!Row(log, k, end)
      OBVIOUS
    <3>1. log'[end] = log[end]
      BY <1>1, <1>2
    <3>2. end > 1 => log'[end - 1] = log[end - 1]
      BY <1>1, <1>2
    <3>3. end > 1 /\ end # 2 => log'[end - 2] = log[end - 2]
      BY <1>1, <1>2
    <3> QED
      BY <3>1, <3>2, <3>3 DEF Feed!Row
  <2> QED
    BY <2>1 DEF Feed!Rows
<1> QED
  BY <1>2, <1>3, <1>4

(* parse_line sees a row in a line of its chunk if and only if it is one   *)
(* of the log: the chunk starts at the start of a line.                    *)
LEMMA RowSeen ==
    ASSUME TypeOK, LineEnd(last), NEW k \in Kinds, NEW end \in (last + 1)..Len(log), log[end] = NL
    PROVE  IsRow(k, end) <=> Feed!Row(log, k, end)
<1>1. last \in Nat /\ end \in Nat /\ k # NL
  BY LogAssumption DEF TypeOK, Stale, LineEnd
<1>2. CASE end = last + 1
  BY <1>1, <1>2 DEF LineEnd, IsRow, Feed!Row
<1>3. CASE end # last + 1
  BY <1>1, <1>3 DEF LineEnd, IsRow, Feed!Row
<1> QED
  BY <1>2, <1>3

(* The rows up to a line's end are those before it and possibly its own.   *)
LEMMA RowsSplit ==
    ASSUME NEW k, NEW n \in Nat, NEW end \in Nat, n < end,
           \A i \in (n + 1)..(end - 1) : log[i] # NL
    PROVE  /\ Feed!Rows(log, k, end - 1) = Feed!Rows(log, k, n)
           /\ Feed!Rows(log, k, end) =
                 IF Feed!Row(log, k, end) THEN Feed!Rows(log, k, n) \cup {end}
                 ELSE Feed!Rows(log, k, n)
<1>1. \A i \in 1..end : i \in 1..n \/ i \in (n + 1)..(end - 1) \/ i = end
  OBVIOUS
<1>2. \A i \in 1..(end - 1) : i \in 1..n \/ i \in (n + 1)..(end - 1)
  OBVIOUS
<1>3. \A i \in (n + 1)..(end - 1) : ~Feed!Row(log, k, i)
  BY DEF Feed!Row
<1>4. Feed!Rows(log, k, end - 1) = Feed!Rows(log, k, n)
  BY <1>2, <1>3 DEF Feed!Rows
<1>5. end \in 1..end /\ 1..n \subseteq 1..end
  OBVIOUS
<1>6. Feed!Rows(log, k, end) =
        IF Feed!Row(log, k, end) THEN Feed!Rows(log, k, n) \cup {end}
        ELSE Feed!Rows(log, k, n)
  BY <1>1, <1>3, <1>5 DEF Feed!Rows
<1> QED
  BY <1>4, <1>6

-----------------------------------------------------------------------------
(* The parser is launched on an empty log.                                 *)
LEMMA InitIInv == Init => IInv
<1> SUFFICES ASSUME Init PROVE IInv
  OBVIOUS
<1>1. TypeOK
  <2>1. log \in Seq(Kinds \cup {NL}) /\ files \in [Kinds -> Seq(1..MaxLog)]
    BY EmptySeq, Zenon DEF Init
  <2>2. offset \in 0..Missing /\ header \in 0..1 /\ launches \in 0..MaxLaunches
    BY LogAssumption DEF Init, Missing, Stale
  <2>3. last \in 0..Stale /\ cur \in 0..MaxLog /\ pending \subseteq 1..MaxLog
    BY LogAssumption DEF Init, Stale
  <2> QED
    BY <2>1, <2>2, <2>3 DEF Init, TypeOK
<1>2. Places
  BY LogAssumption DEF Init, Places, Saved, Missing, Stale
<1>3. SameRows
  <2>1. \A k \in Kinds : files[k] = <<>> /\ Distinct(files[k]) = <<>>
    BY DistinctEmpty DEF Init
  <2>2. <<>> \in Seq(Nat)
    BY EmptySeq, Zenon
  <2> QED
    BY <2>1, <2>2 DEF SameRows
<1>4. Reaches(0)
  BY LogAssumption DEF Init, Reaches, LineEnd, Saved, Missing, Stale, Range, Feed!Rows
<1> QED
  BY <1>1, <1>2, <1>3, <1>4 DEF IInv

(* The chunk that is read has a last line, if it has a complete one.       *)
LEMMA LastLine ==
    ASSUME TypeOK, Places, pc = "read", CompleteLines # {}
    PROVE  LET end == CHOOSE i \in CompleteLines : \A j \in CompleteLines : j <= i
           IN  end \in CompleteLines /\ \A j \in CompleteLines : j <= end
<1>1. cur \in Nat /\ last \in Nat
  BY LogAssumption DEF TypeOK, Stale
<1>2. CompleteLines \in SUBSET (0..cur)
  BY <1>1 DEF CompleteLines
<1>3. \E i \in CompleteLines : \A j \in CompleteLines : j <= i
  BY <1>1, <1>2, Greatest
<1> QED
  BY <1>3

(* A complete line of the chunk.                                           *)
LEMMA InChunk ==
    ASSUME TypeOK, NEW i \in CompleteLines
    PROVE  i \in (last + 1)..cur /\ i \in 1..MaxLog /\ log[i] = NL
BY LogAssumption DEF TypeOK, CompleteLines, Stale

(* The line that is written is the first that is pending.                  *)
Written(end) ==
    /\ end \in pending /\ \A e \in pending : end <= e
    /\ files' = [k \in Kinds |-> IF IsRow(k, end) THEN Append(files[k], end) ELSE files[k]]
    /\ pending' = pending \ {end}

(* A parser that writes knows where it is.                                 *)
LEMMA Writing ==
    ASSUME TypeOK, Places, pc = "write"
    PROVE  LineEnd(last) /\ last \in Nat /\ cur \in 1..Len(log)
           /\ pending \subseteq CompleteLines
BY LogAssumption DEF TypeOK, Places, LineEnd

-----------------------------------------------------------------------------
(* Type correctness is kept.                                               *)
LEMMA TypeStep == ASSUME TypeOK, Places, [Next]_vars PROVE TypeOK'
<1> USE LogAssumption
<1>1. CASE Write
  BY <1>1 DEF Write, TypeOK, parser
<1>2. CASE Signal
  BY <1>2 DEF Signal, TypeOK
<1>3. CASE Kill
  BY <1>3 DEF Kill, TypeOK
<1>4. ASSUME NEW m \in {"watch", "once"}, Launch(m) PROVE TypeOK'
  <2>1. header' \in 0..1 /\ launches' \in 0..MaxLaunches
    BY <1>4 DEF Launch, TypeOK, HeaderIfEmpty
  <2>2. last' \in 0..Stale /\ cur' \in 0..MaxLog /\ pending' \subseteq 1..MaxLog
    BY <1>4 DEF Launch, TypeOK, ReadOffset, Missing, Stale
  <2> QED
    BY <1>4, <2>1, <2>2 DEF Launch, TypeOK
<1>5. CASE Poll
  BY <1>5 DEF Poll, TypeOK, Places, Restart, Stale
<1>6. CASE ReadChunk
  <2>1. CASE CompleteLines = {}
    BY <1>6, <2>1 DEF ReadChunk, TypeOK
  <2>2. CASE CompleteLines # {}
    <3>1. \A i \in CompleteLines : i \in 1..MaxLog
      BY InChunk
    <3>2. cur' \in CompleteLines
      BY <1>6, <2>2, LastLine DEF ReadChunk
    <3>3. cur' \in 0..MaxLog /\ pending' \subseteq 1..MaxLog
      BY <1>6, <2>2, <3>1, <3>2 DEF ReadChunk
    <3> QED
      BY <1>6, <2>2, <3>3 DEF ReadChunk, TypeOK
  <2> QED
    BY <2>1, <2>2
<1>7. CASE WriteRow
  <2>1. PICK end \in pending : Written(end)
    BY <1>7 DEF WriteRow, Written
  <2>2. end \in 1..MaxLog
    BY DEF TypeOK
  <2>3. \A k \in Kinds : files[k] \in Seq(1..MaxLog) /\ Append(files[k], end) \in Seq(1..MaxLog)
    BY <2>2, AppendProperties, Zenon DEF TypeOK
  <2>4. files' \in [Kinds -> Seq(1..MaxLog)]
    BY <2>1, <2>3 DEF Written
  <2> QED
    BY <1>7, <2>1, <2>4 DEF WriteRow, Written, TypeOK
<1>8. CASE SaveOffset
  BY <1>8 DEF SaveOffset, TypeOK, NewOffset, Missing, Stale
<1>9. CASE Wake
  BY <1>9 DEF Wake, TypeOK
<1>10. CASE Leave
  BY <1>10 DEF Leave, TypeOK
<1>11. CASE UNCHANGED vars
  BY <1>11 DEF vars, TypeOK
<1> QED
  BY <1>1, <1>2, <1>3, <1>4, <1>5, <1>6, <1>7, <1>8, <1>9, <1>10, <1>11 DEF Next, Parse

(* The parser stays at the ends of lines, and its offset is the one saved. *)
LEMMA PlacesStep == ASSUME TypeOK, Places, [Next]_vars PROVE Places'
<1> USE LogAssumption
<1>1. CASE Write
  <2>1. PICK t \in Kinds \cup {NL} : log' = Append(log, t)
    BY <1>1 DEF Write
  <2>2. Len(log') = Len(log) + 1 /\ Len(log') <= MaxLog
    BY <1>1, <2>1, GrownLog DEF Write, TypeOK
  <2>3. UNCHANGED <<offset, pc, last, cur, pending>>
    BY <1>1 DEF Write, parser
  <2>4. pc = "write" => CompleteLines' = CompleteLines
    BY <2>1, <2>3, Writing, GrownLog DEF CompleteLines
  <2>5. \A n : LineEnd(n) => LineEnd(n)'
    BY <2>1, GrownLog
  <2>6. Len(log) \in Nat
    BY DEF TypeOK
  <2> QED
    BY <2>2, <2>3, <2>4, <2>5, <2>6 DEF Places, Saved, TypeOK
<1>2. CASE Signal
  BY <1>2 DEF Signal, Places, Saved, LineEnd, CompleteLines
<1>3. CASE Kill
  BY <1>3 DEF Kill, Places, Saved, LineEnd
<1>4. ASSUME NEW m \in {"watch", "once"}, Launch(m) PROVE Places'
  BY <1>4 DEF Launch, TypeOK, Places, Saved, LineEnd, ReadOffset, Missing, Stale
<1>5. CASE Poll
  BY <1>5 DEF Poll, TypeOK, Places, Saved, LineEnd, Restart, Stale
<1>6. CASE ReadChunk
  <2>1. CASE CompleteLines = {}
    BY <1>6, <2>1 DEF ReadChunk, Places, Saved, LineEnd, Stale
  <2>2. CASE CompleteLines # {}
    <3>1. cur' \in CompleteLines /\ \A j \in CompleteLines : j <= cur'
      BY <1>6, <2>2, LastLine DEF ReadChunk
    <3>2. cur' \in (last + 1)..cur /\ log[cur'] = NL /\ cur' \in Nat
      BY <3>1, InChunk
    <3>3. UNCHANGED <<log, offset, last>> /\ pending' = CompleteLines /\ pc' = "write" /\ pc = "read"
      BY <1>6, <2>2 DEF ReadChunk
    <3>4. \A j \in CompleteLines : j \in (last + 1)..cur'
      BY <3>1, <3>2, InChunk DEF TypeOK
    <3>5. pending' \subseteq CompleteLines'
      BY <3>3, <3>4 DEF CompleteLines
    <3>6. last < cur /\ cur <= Len(log) /\ last \in Nat /\ cur \in Nat /\ Len(log) \in Nat
      BY <3>3 DEF Places, TypeOK, Stale
    <3>7. last' < cur' /\ cur' <= Len(log') /\ LineEnd(cur)'
      BY <3>2, <3>3, <3>6 DEF LineEnd
    <3> QED
      BY <3>3, <3>5, <3>7 DEF Places, Saved, LineEnd
  <2> QED
    BY <2>1, <2>2
<1>7. CASE WriteRow
  BY <1>7 DEF WriteRow, Places, Saved, LineEnd, CompleteLines
<1>8. CASE SaveOffset
  BY <1>8 DEF SaveOffset, TypeOK, Places, Saved, LineEnd, NewOffset, Stale
<1>9. CASE Wake
  BY <1>9 DEF Wake, Places, Saved, LineEnd
<1>10. CASE Leave
  BY <1>10 DEF Leave, Places, Saved, LineEnd
<1>11. CASE UNCHANGED vars
  BY <1>11 DEF vars, Places, Saved, LineEnd, CompleteLines
<1> QED
  BY <1>1, <1>2, <1>3, <1>4, <1>5, <1>6, <1>7, <1>8, <1>9, <1>10, <1>11 DEF Next, Parse

-----------------------------------------------------------------------------
(* A line that was passed on before is repeated: the rows stay the same.   *)
LEMMA Repeat ==
    ASSUME IInv, pc = "write", NEW reach \in Nat, Reaches(reach),
           NEW end \in pending, Written(end), end <= reach
    PROVE  \A k \in Kinds : /\ Distinct(files'[k]) = Distinct(files[k])
                            /\ Range(files'[k]) = Range(files[k])
<1> USE DEF IInv
<1> SUFFICES ASSUME NEW k \in Kinds
             PROVE  /\ Distinct(files'[k]) = Distinct(files[k])
                    /\ Range(files'[k]) = Range(files[k])
  OBVIOUS
<1>1. end \in CompleteLines /\ LineEnd(last)
  BY Writing
<1>2. end \in (last + 1)..cur /\ log[end] = NL /\ end \in 1..MaxLog /\ cur <= Len(log)
  BY <1>1, InChunk, Writing
<1>3. files[k] \in Seq(Nat) /\ end \in Nat /\ Len(log) \in Nat /\ end \in (last + 1)..Len(log)
  BY <1>2, Writing, RowsAreNaturals
<1>4. CASE ~IsRow(k, end)
  BY <1>4 DEF Written
<1>5. CASE IsRow(k, end)
  <2>1. files'[k] = Append(files[k], end)
    BY <1>5 DEF Written
  <2>2. Feed!Row(log, k, end)
    BY <1>1, <1>2, <1>3, <1>5, RowSeen
  <2>3. end \in Range(files[k])
    BY <1>2, <2>2 DEF Reaches, Feed!Rows
  <2>4. Distinct(files'[k]) = Distinct(files[k])
    BY <1>3, <2>1, <2>3, DistinctAppend
  <2>5. Range(files'[k]) = Range(files[k]) \cup {end}
    BY <1>3, <2>1, RangeAppend
  <2> QED
    BY <2>3, <2>4, <2>5, Zenon
<1> QED
  BY <1>4, <1>5

(* A line after those that were passed on is the next one.                 *)
LEMMA Advance ==
    ASSUME IInv, pc = "write", NEW reach \in Nat, Reaches(reach),
           NEW end \in pending, Written(end), reach < end
    PROVE  /\ end \in 1..Len(log) /\ log[end] = NL
           /\ \A k \in Kinds :
                /\ Range(files[k]) = Feed!Rows(log, k, end - 1)
                /\ Range(files'[k]) = Feed!Rows(log, k, end)
                /\ Distinct(files'[k]) = IF Feed!Row(log, k, end)
                                         THEN Append(Distinct(files[k]), end)
                                         ELSE Distinct(files[k])
<1> USE DEF IInv
<1>1. end \in CompleteLines /\ LineEnd(last) /\ last <= reach
  <2>1. LineEnd(last) /\ pending \subseteq CompleteLines
    BY Writing
  <2>2. last # Stale
    BY <2>1, LogAssumption DEF LineEnd, Places, TypeOK, Stale
  <2> QED
    BY <2>1, <2>2 DEF Reaches
<1>2. end \in (last + 1)..cur /\ log[end] = NL /\ end \in 1..MaxLog /\ cur <= Len(log)
  BY <1>1, InChunk, Writing
<1>3. end \in Nat /\ cur \in Nat /\ last \in Nat /\ Len(log) \in Nat
      /\ end \in (last + 1)..Len(log) /\ end \in 1..Len(log)
  BY <1>2, Writing DEF TypeOK
<1>4. \A i \in (reach + 1)..(end - 1) : log[i] # NL
  <2> SUFFICES ASSUME NEW i \in (reach + 1)..(end - 1), log[i] = NL PROVE FALSE
    OBVIOUS
  <2>1. i \in (last + 1)..cur
    BY <1>1, <1>2, <1>3
  <2>2. i \in CompleteLines
    BY <2>1 DEF CompleteLines
  <2>3. i \in pending
    BY <2>2 DEF Reaches
  <2> QED
    BY <1>3, <2>3 DEF Written
<1>5. SUFFICES ASSUME NEW k \in Kinds
               PROVE  /\ Range(files[k]) = Feed!Rows(log, k, end - 1)
                      /\ Range(files'[k]) = Feed!Rows(log, k, end)
                      /\ Distinct(files'[k]) = IF Feed!Row(log, k, end)
                                               THEN Append(Distinct(files[k]), end)
                                               ELSE Distinct(files[k])
  BY <1>2, <1>3
<1>6. /\ Feed!Rows(log, k, end - 1) = Feed!Rows(log, k, reach)
      /\ Feed!Rows(log, k, end) =
            IF Feed!Row(log, k, end) THEN Feed!Rows(log, k, reach) \cup {end}
            ELSE Feed!Rows(log, k, reach)
  BY <1>3, <1>4, RowsSplit
<1>7. Range(files[k]) = Feed!Rows(log, k, reach)
  BY DEF Reaches
<1>8. IsRow(k, end) <=> Feed!Row(log, k, end)
  BY <1>1, <1>2, <1>3, RowSeen
<1>9. files[k] \in Seq(Nat)
  BY RowsAreNaturals
<1>10. files'[k] = IF Feed!Row(log, k, end) THEN Append(files[k], end) ELSE files[k]
  BY <1>8 DEF Written
<1>11. end \notin Range(files[k])
  BY <1>3, <1>7 DEF Feed!Rows
<1>12. Range(Append(files[k], end)) = Range(files[k]) \cup {end}
  BY <1>3, <1>9, RangeAppend
<1>13. Distinct(Append(files[k], end)) = Append(Distinct(files[k]), end)
  BY <1>3, <1>9, <1>11, DistinctAppend
<1> QED
  BY <1>6, <1>7, <1>10, <1>12, <1>13

(* Dropping repetitions goes on dropping no row.                           *)
LEMMA SameRowsStep == ASSUME IInv, [Next]_vars PROVE SameRows'
<1> USE DEF IInv
<1>1. CASE files' = files
  BY <1>1 DEF SameRows
<1>2. CASE WriteRow
  <2>1. PICK end \in pending : Written(end)
    BY <1>2 DEF WriteRow, Written
  <2>2. end \in Nat
    BY DEF TypeOK
  <2> SUFFICES ASSUME NEW k \in Kinds
               PROVE  Distinct(files'[k]) \in Seq(Nat)
                      /\ Range(Distinct(files'[k])) = Range(files'[k])
    BY DEF SameRows
  <2> DEFINE d == Distinct(files[k])
  <2>3. files[k] \in Seq(Nat) /\ d \in Seq(Nat) /\ Range(d) = Range(files[k])
    BY RowsAreNaturals DEF SameRows
  <2>4. CASE files'[k] = files[k]
    BY <2>3, <2>4
  <2>5. CASE files'[k] = Append(files[k], end)
    <3>1. Distinct(files'[k]) = IF end \in Range(files[k]) THEN d ELSE Append(d, end)
      BY <2>2, <2>3, <2>5, DistinctAppend
    <3>2. Append(d, end) \in Seq(Nat)
      BY <2>2, <2>3, AppendProperties, Zenon
    <3>3. Range(Append(d, end)) = Range(d) \cup {end}
      BY <2>2, <2>3, RangeAppend
    <3>4. Range(files'[k]) = Range(files[k]) \cup {end}
      BY <2>2, <2>3, <2>5, RangeAppend
    <3> HIDE DEF d
    <3> QED
      BY <2>3, <3>1, <3>2, <3>3, <3>4
  <2> QED
    BY <2>1, <2>4, <2>5 DEF Written
<1> QED
  BY <1>1, <1>2
     DEF Next, Parse, Write, Signal, Kill, Launch, Poll, ReadChunk, SaveOffset, Wake, Leave, vars

(* The files go on holding the rows up to some line, and no offset passes  *)
(* that line.                                                              *)
LEMMA ReachStep == ASSUME IInv, [Next]_vars PROVE \E reach \in Nat : Reaches(reach)'
<1> USE LogAssumption DEF IInv
<1> PICK reach \in Nat : Reaches(reach)
  OBVIOUS
<1>1. CASE Write
  <2>1. PICK t \in Kinds \cup {NL} : log' = Append(log, t)
    BY <1>1 DEF Write
  <2>2. UNCHANGED <<files, offset, pc, last, cur, pending>>
    BY <1>1 DEF Write, parser
  <2>3. LineEnd(reach)' /\ \A k \in Kinds : Range(files'[k]) = Feed!Rows(log', k, reach)
    BY <2>1, <2>2, GrownLog DEF Reaches, LineEnd
  <2>4. pc = "write" => CompleteLines' = CompleteLines
    BY <2>1, <2>2, Writing, GrownLog DEF CompleteLines
  <2> QED
    BY <2>2, <2>3, <2>4 DEF Reaches, Saved
<1>2. CASE Signal
  BY <1>2 DEF Signal, Reaches, LineEnd, Saved, CompleteLines
<1>3. CASE Kill
  BY <1>3 DEF Kill, Reaches, LineEnd, Saved
<1>4. ASSUME NEW m \in {"watch", "once"}, Launch(m) PROVE Reaches(reach)'
  BY <1>4 DEF Launch, TypeOK, Reaches, LineEnd, Saved, ReadOffset, Missing, Stale
<1>5. CASE Poll
  BY <1>5 DEF Poll, Reaches, LineEnd, Saved, Restart, Stale, TypeOK
<1>6. CASE ReadChunk
  <2>1. CASE CompleteLines = {}
    BY <1>6, <2>1 DEF ReadChunk, Reaches, LineEnd, Saved
  <2>2. CASE CompleteLines # {}
    <3>1. cur' \in CompleteLines
      BY <1>6, <2>2, LastLine DEF ReadChunk
    <3>2. cur' \in Nat /\ cur' <= cur /\ cur \in Nat /\ last \in Nat
      BY <3>1, InChunk DEF TypeOK, Stale
    <3>3. CompleteLines' \subseteq pending'
      BY <1>6, <2>2, <3>2 DEF ReadChunk, CompleteLines
    <3> QED
      BY <1>6, <2>2, <3>3 DEF ReadChunk, Reaches, LineEnd, Saved
  <2> QED
    BY <2>1, <2>2
<1>7. CASE WriteRow
  <2>1. PICK end \in pending : Written(end)
    BY <1>7 DEF WriteRow, Written
  <2>2. pc = "write" /\ UNCHANGED <<log, offset, pc, last, cur>>
    BY <1>7 DEF WriteRow
  <2>3. end \in Nat /\ reach \in Nat
    BY DEF TypeOK
  <2>4. CompleteLines' \ pending' \subseteq (CompleteLines \ pending) \cup {end}
    BY <2>1, <2>2 DEF Written, CompleteLines
  <2>5. \A i \in CompleteLines \ pending : i <= reach
    BY <2>2 DEF Reaches
  <2>6. CASE end <= reach
    <3>1. \A k \in Kinds : Range(files'[k]) = Range(files[k])
      BY <2>1, <2>2, <2>6, Repeat
    <3>2. \A i \in CompleteLines' \ pending' : i <= reach
      BY <2>4, <2>5, <2>6
    <3>3. Reaches(reach)'
      BY <2>2, <3>1, <3>2 DEF Reaches, LineEnd, Saved
    <3> QED
      BY <3>3
  <2>7. CASE reach < end
    <3>1. end \in 1..Len(log) /\ log[end] = NL
          /\ \A k \in Kinds : Range(files'[k]) = Feed!Rows(log, k, end)
      BY <2>1, <2>2, <2>7, Advance
    <3>2. LineEnd(end)'
      BY <2>2, <3>1 DEF LineEnd
    <3>3. \A i \in CompleteLines : i \in Nat
      BY InChunk
    <3>4. \A i \in CompleteLines' \ pending' : i <= end
      BY <2>3, <2>4, <2>5, <2>7, <3>3
    <3>5. Saved' => offset' <= end
      BY <2>2, <2>3, <2>7 DEF Reaches, Saved
    <3>6. last' # Stale => last' <= end
      BY <2>2, <2>3, <2>7 DEF Reaches, TypeOK, Stale
    <3>7. Reaches(end)'
      BY <2>2, <3>1, <3>2, <3>4, <3>5, <3>6 DEF Reaches, Stale
    <3> QED
      BY <2>3, <3>7
  <2> QED
    BY <2>3, <2>6, <2>7
<1>8. CASE SaveOffset
  <2>1. cur \in CompleteLines \/ cur = 0
    BY <1>8, Writing DEF SaveOffset, Places, LineEnd, CompleteLines, TypeOK, Stale
  <2>2. cur <= reach
    BY <1>8, <2>1 DEF SaveOffset, Reaches
  <2> QED
    BY <1>8, <2>2 DEF SaveOffset, Reaches, LineEnd, Saved, NewOffset
<1>9. CASE Wake
  BY <1>9 DEF Wake, Reaches, LineEnd, Saved
<1>10. CASE Leave
  BY <1>10 DEF Leave, Reaches, LineEnd, Saved
<1>11. CASE UNCHANGED vars
  BY <1>11 DEF vars, Reaches, LineEnd, Saved, CompleteLines
<1> QED
  BY <1>1, <1>2, <1>3, <1>4, <1>5, <1>6, <1>7, <1>8, <1>9, <1>10, <1>11 DEF Next, Parse

(* Every step keeps the invariant.                                         *)
LEMMA StepIInv == IInv /\ [Next]_vars => IInv'
BY TypeStep, PlacesStep, SameRowsStep, ReachStep DEF IInv

(* The invariant holds in every state of every behaviour.                  *)
THEOREM Inductive == Spec => []IInv
<1>1. Init => IInv
  BY InitIInv
<1>2. IInv /\ [Next]_vars => IInv'
  BY StepIInv
<1> QED
  BY <1>1, <1>2, PTL DEF Spec

-----------------------------------------------------------------------------
(* Every variable keeps its type: in particular the parser never has an    *)
(* offset of its own that is not one of the log or the one it has read.    *)
THEOREM TypeCorrect == Spec => []TypeOK
<1>1. IInv => TypeOK
  BY DEF IInv
<1> QED
  BY <1>1, Inductive, PTL

(* The offset on disk can be trusted, whenever the parser is killed: it is *)
(* the end of a line and the rows of every line before it are in the files.*)
THEOREM OffsetCovered == Spec => []OffsetIsCovered
<1>1. IInv => OffsetIsCovered
  <2> SUFFICES ASSUME IInv, Saved PROVE OffsetIsCovered
    BY DEF OffsetIsCovered
  <2>1. PICK reach \in Nat : Reaches(reach)
    BY DEF IInv
  <2>2. offset <= Len(log) /\ (offset > 0 => log[offset] = NL)
    BY DEF IInv, Places, LineEnd
  <2>3. ASSUME NEW k \in Kinds PROVE Feed!Rows(log, k, offset) \subseteq Range(files[k])
    <3>1. offset \in Nat /\ offset <= reach
      BY <2>1 DEF Reaches, Saved
    <3>2. 1..offset \subseteq 1..reach
      BY <3>1
    <3>3. Range(files[k]) = Feed!Rows(log, k, reach)
      BY <2>1 DEF Reaches
    <3> QED
      BY <3>2, <3>3 DEF Feed!Rows
  <2> QED
    BY <2>2, <2>3 DEF OffsetIsCovered
<1> QED
  BY <1>1, Inductive, PTL

(* No launch writes again what is before the offset on disk: a row that is *)
(* written ends after it.                                                  *)
THEOREM NothingRepeats == Spec => NothingBeforeOffsetRepeats
<1> DEFINE New ==
      \A k \in Kinds :
         (files'[k] # files[k] /\ Saved) => files'[k][Len(files'[k])] > offset
<1>1. IInv /\ [Next]_vars => [New]_vars
  <2> SUFFICES ASSUME IInv, [Next]_vars, NEW k \in Kinds, files'[k] # files[k], Saved
               PROVE  files'[k][Len(files'[k])] > offset
    OBVIOUS
  <2>1. WriteRow
    BY DEF Next, Parse, Write, Signal, Kill, Launch, Poll, ReadChunk, SaveOffset, Wake, Leave, vars
  <2>2. PICK end \in pending : Written(end)
    BY <2>1 DEF WriteRow, Written
  <2>3. end \in CompleteLines /\ last = offset
    BY <2>1 DEF WriteRow, IInv, Places
  <2>4. end > offset
    BY <2>3, InChunk DEF Saved, IInv
  <2>5. files'[k] = Append(files[k], end)
    BY <2>2 DEF Written
  <2>6. files[k] \in Seq(Nat)
    BY RowsAreNaturals DEF IInv
  <2>7. files'[k][Len(files'[k])] = end
    BY <2>5, <2>6
  <2> QED
    BY <2>4, <2>7
<1> QED
  BY <1>1, Inductive, PTL DEF Spec, NothingBeforeOffsetRepeats

-----------------------------------------------------------------------------
(* A row that is written passes the next line on, or repeats an old one.   *)
LEMMA WriteRowFeeds == ASSUME IInv, WriteRow PROVE [Feed!Next]_(Feed!vars)
<1> USE DEF IInv
<1> DEFINE fed == [k \in Kinds |-> Distinct(files[k])]
<1>1. PICK reach \in Nat : Reaches(reach)
  OBVIOUS
<1>2. PICK end \in pending : Written(end)
  BY DEF WriteRow, Written
<1>3. pc = "write" /\ UNCHANGED log /\ end \in Nat
  BY DEF WriteRow, TypeOK
<1>4. CASE end <= reach
  <2>1. \A k \in Kinds : Distinct(files'[k]) = Distinct(files[k])
    BY <1>1, <1>2, <1>3, <1>4, Repeat
  <2>2. [k \in Kinds |-> Distinct(files'[k])] = [k \in Kinds |-> Distinct(files[k])]
    BY <2>1, Zenon
  <2> QED
    BY <1>3, <2>2 DEF Feed!vars
<1>5. CASE reach < end
  <2>1. /\ end \in 1..Len(log) /\ log[end] = NL
        /\ \A k \in Kinds :
             /\ Range(files[k]) = Feed!Rows(log, k, end - 1)
             /\ Distinct(files'[k]) = IF Feed!Row(log, k, end)
                                      THEN Append(Distinct(files[k]), end)
                                      ELSE Distinct(files[k])
    BY <1>1, <1>2, <1>3, <1>5, Advance
  <2>2. end \in DOMAIN log
    BY <2>1 DEF TypeOK
  <2>3. \A k \in Kinds : Range(fed[k]) = Feed!Rows(log, k, end - 1)
    BY <2>1 DEF SameRows
  <2>4. \A k \in Kinds : Feed!Range(fed[k]) = Range(fed[k])
    BY DEF Feed!Range, Range
  <2>5. fed' = [k \in Kinds |-> IF Feed!Row(log, k, end) THEN Append(fed[k], end) ELSE fed[k]]
    <3>1. \A k \in Kinds : fed[k] = Distinct(files[k])
      OBVIOUS
    <3>2. \A k \in Kinds : Distinct(files'[k]) =
             IF Feed!Row(log, k, end) THEN Append(fed[k], end) ELSE fed[k]
      BY <2>1, <3>1
    <3> QED
      BY <3>2, Zenon
  <2>6. Feed!Feed
    BY <1>3, <2>1, <2>2, <2>3, <2>4, <2>5 DEF Feed!Feed
  <2> QED
    BY <2>6 DEF Feed!Next
<1> QED
  BY <1>1, <1>3, <1>4, <1>5

(* The parser implements LogFeed: each of its steps passes the next line   *)
(* on, lengthens the log, or changes nothing that LogFeed sees.            *)
THEOREM ImplementsLogFeed == Spec => FeedsEveryLine
<1>1. Init => Feed!Init
  <2> SUFFICES ASSUME Init PROVE Feed!Init
    OBVIOUS
  <2>1. \A k \in Kinds : Distinct(files[k]) = <<>>
    BY DistinctEmpty DEF Init
  <2> QED
    BY <2>1 DEF Init, Feed!Init
<1>2. IInv /\ [Next]_vars => [Feed!Next]_(Feed!vars)
  <2> SUFFICES ASSUME IInv, [Next]_vars PROVE [Feed!Next]_(Feed!vars)
    OBVIOUS
  <2>1. CASE Write
    BY <2>1 DEF Write, Feed!Next, Feed!Grow
  <2>2. CASE WriteRow
    BY <2>2, WriteRowFeeds
  <2>3. CASE log' = log /\ files' = files
    BY <2>3 DEF Feed!vars
  <2> QED
    BY <2>1, <2>2, <2>3
       DEF Next, Parse, Signal, Kill, Launch, Poll, ReadChunk, SaveOffset, Wake, Leave, vars
<1> QED
  BY <1>1, <1>2, Inductive, PTL DEF Spec, FeedsEveryLine, Feed!Spec
=============================================================================
